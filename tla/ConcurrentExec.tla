---------------------------- MODULE ConcurrentExec ----------------------------
(***************************************************************************)
(* Executors as the code runs them: one goroutine per connection, no lock  *)
(* around a command, so an executor is a sequence of steps, one per call   *)
(* on the shared dict (GetEntity, PutEntity, Remove) or on a *LinkedList   *)
(* it holds a pointer to, followed by the call of addAof.  A list entity   *)
(* holds a pointer: dict maps a key to [list |-> o] for an object o of     *)
(* heap, so a goroutine can keep using a list that another one has         *)
(* removed from, or replaced in, the dict.  Each dict call is atomic (the  *)
(* concurrent dict locks its shard per call); each LinkedList call is      *)
(* taken as atomic, which is one of the outcomes of the unsynchronised     *)
(* code.  Modelled: LPUSH (getOrInitList, one Insert per value), LPOP      *)
(* (Remove(0), then the emptiness check and Remove of the key), plain SET  *)
(* and MSETNX (the check loop, then the put loop), all in DB 0 on          *)
(* well-formed lines.  The log is the sequence of addAof calls; AofServer  *)
(* shows that the file keeps that order.                                   *)
(***************************************************************************)
EXTENDS MudisDB, FiniteSets

CONSTANTS
    Clients,    \* connections (model values)
    Objs,       \* *LinkedList objects that may be allocated (model values)
    CmdLines,   \* the command lines clients send
    MaxCmds     \* bound on commands issued in a behaviour

VARIABLES
    dict,       \* DB 0's dict: key -> Str(v) or [list |-> o]
    heap,       \* allocated list objects -> their elements
    pc,         \* where each goroutine is in its executor
    cur,        \* the line each goroutine is executing
    ptr,        \* the *LinkedList a goroutine holds, or NIL
    idx,        \* loop position: next value (LPUSH) or pair (MSETNX)
    log,        \* the lines passed to addAof, in call order
    issued

vars == <<dict, heap, pc, cur, ptr, idx, log, issued>>

Ref(o) == [list |-> o]

\* The DB as the sequential model sees it: each list entity by its content.
Mem == [k \in DOMAIN dict |-> IF "list" \in DOMAIN dict[k]
                               THEN List(heap[dict[k].list]) ELSE dict[k]]

AtRest == \A c \in Clients : pc[c] = "idle"

Key(c) == cur[c][2]
NumPairs(l) == (Len(l) - 1) \div 2

TypeOK ==
    /\ DOMAIN heap \subseteq Objs /\ heap \in [DOMAIN heap -> Seq(Vals)]
    /\ DOMAIN dict \subseteq Keys
    /\ \A k \in DOMAIN dict : dict[k] \in [string : Vals] \cup [list : DOMAIN heap]
    /\ pc \in [Clients -> {"idle", "start", "init", "insert", "remove", "check",
                           "mcheck", "mput", "aof"}]
    /\ ptr \in [Clients -> DOMAIN heap \cup {NIL}]
    /\ log \in Seq(CmdLines) /\ issued \in 0..MaxCmds

Init ==
    /\ dict = EmptyKeyspace
    /\ heap = [o \in {} |-> <<>>]
    /\ pc = [c \in Clients |-> "idle"]
    /\ cur = [c \in Clients |-> CHOOSE l \in CmdLines : TRUE]
    /\ ptr = [c \in Clients |-> NIL]
    /\ idx = [c \in Clients |-> 0]
    /\ log = <<>>
    /\ issued = 0

\* DB.Exec hands the line to its executor.
Issue(c, l) ==
    /\ pc[c] = "idle" /\ issued < MaxCmds
    /\ pc' = [pc EXCEPT ![c] = IF l[1] = "msetnx" THEN "mcheck" ELSE "start"]
    /\ cur' = [cur EXCEPT ![c] = l]
    /\ idx' = [idx EXCEPT ![c] = IF l[1] = "msetnx" THEN 1 ELSE 3]
    /\ ptr' = [ptr EXCEPT ![c] = NIL]
    /\ issued' = issued + 1
    /\ UNCHANGED <<dict, heap, log>>

Goto(c, where) == pc' = [pc EXCEPT ![c] = where]

\* getOrInitList's getAsList: WRONGTYPE returns an error, an absent key
\* goes on to create the list, a present one is used.
PushGet(c) ==
    /\ pc[c] = "start" /\ cur[c][1] = "lpush"
    /\ LET got == GetAs(dict, Key(c), "list")
       IN CASE got = WRONGTYPE -> Goto(c, "idle") /\ UNCHANGED ptr
            [] got = NIL -> Goto(c, "init") /\ UNCHANGED ptr
            [] OTHER -> Goto(c, "insert") /\ ptr' = [ptr EXCEPT ![c] = got]
    /\ UNCHANGED <<dict, heap, cur, idx, log, issued>>

\* getOrInitList: a new empty list, put under the key whatever is there now.
PushInit(c) ==
    /\ pc[c] = "init" /\ Objs \ DOMAIN heap # {}
    /\ LET o == CHOOSE x \in Objs \ DOMAIN heap : TRUE
       IN /\ heap' = heap @@ (o :> <<>>)
          /\ dict' = PutEntity(dict, Key(c), Ref(o))
          /\ ptr' = [ptr EXCEPT ![c] = o]
    /\ Goto(c, "insert")
    /\ UNCHANGED <<cur, idx, log, issued>>

\* One list.Insert(0, value) of execLPush's loop, on the list it holds.
PushInsert(c) ==
    /\ pc[c] = "insert"
    /\ heap' = [heap EXCEPT ![ptr[c]] = LLInsert(@, 0, cur[c][idx[c]])]
    /\ idx' = [idx EXCEPT ![c] = @ + 1]
    /\ Goto(c, IF idx[c] = Len(cur[c]) THEN "aof" ELSE "insert")
    /\ UNCHANGED <<dict, cur, ptr, log, issued>>

\* db.addAof(line): the executor's last step.
CallAddAof(c) ==
    /\ pc[c] = "aof"
    /\ log' = Append(log, cur[c])
    /\ Goto(c, "idle")
    /\ UNCHANGED <<dict, heap, cur, ptr, idx, issued>>

\* Mutant: the type assertion's ok is ignored.
PopGetNoTypeCheck(c) ==
    /\ pc[c] = "start" /\ cur[c][1] = "lpop"
    /\ IF Key(c) \notin DOMAIN dict
       THEN Goto(c, "idle") /\ UNCHANGED ptr
       ELSE /\ Goto(c, "remove")
            /\ ptr' = [ptr EXCEPT ![c] = LET e == dict[Key(c)]
                                          IN e[CHOOSE f \in DOMAIN e : TRUE]]
    /\ UNCHANGED <<dict, heap, cur, idx, log, issued>>

\* execLPop's getAsList: an absent key or another type returns at once.
PopGet(c) ==
    /\ pc[c] = "start" /\ cur[c][1] = "lpop"
    /\ LET got == GetAs(dict, Key(c), "list")
       IN IF got \in {NIL, WRONGTYPE}
          THEN Goto(c, "idle") /\ UNCHANGED ptr
          ELSE Goto(c, "remove") /\ ptr' = [ptr EXCEPT ![c] = got]
    /\ UNCHANGED <<dict, heap, cur, idx, log, issued>>

\* list.Remove(0) on the list it holds.
PopRemove(c) ==
    /\ pc[c] = "remove" /\ heap[ptr[c]] # <<>>
    /\ heap' = [heap EXCEPT ![ptr[c]] = LLRemove(@, 0)]
    /\ Goto(c, "check")
    /\ UNCHANGED <<dict, cur, ptr, idx, log, issued>>

\* Remove(0) of a list another goroutine has emptied, or has just created
\* and not yet pushed to, panics "index out of bound"; StandaloneDatabase
\* .Exec recovers it into an error reply, with nothing logged.
PopPanic(c) ==
    /\ pc[c] = "remove" /\ heap[ptr[c]] = <<>>
    /\ Goto(c, "idle")
    /\ UNCHANGED <<dict, heap, cur, ptr, idx, log, issued>>

\* Mutant: an emptied list is left under its key.
PopCheckKeepsEmpty(c) ==
    /\ pc[c] = "check"
    /\ Goto(c, "aof")
    /\ UNCHANGED <<dict, heap, cur, ptr, idx, log, issued>>

\* if list.Len() == 0 { db.Remove(key) }: the key is removed, whatever the
\* dict holds under it by now.
PopCheck(c) ==
    /\ pc[c] = "check"
    /\ dict' = IF heap[ptr[c]] = <<>> THEN RemoveKey(dict, Key(c)) ELSE dict
    /\ Goto(c, "aof")
    /\ UNCHANGED <<heap, cur, ptr, idx, log, issued>>

\* execSet without options: PutEntity.
SetPut(c) ==
    /\ pc[c] = "start" /\ cur[c][1] = "set"
    /\ dict' = PutEntity(dict, Key(c), Str(cur[c][3]))
    /\ Goto(c, "aof")
    /\ UNCHANGED <<heap, cur, ptr, idx, log, issued>>

\* One GetEntity of execMSetNX's check loop: an existing key returns 0.
MSetNXCheck(c) ==
    /\ pc[c] = "mcheck"
    /\ LET l == cur[c]
           i == idx[c]
       IN IF l[2 * i] \in DOMAIN dict
          THEN Goto(c, "idle") /\ UNCHANGED idx
          ELSE /\ Goto(c, IF i = NumPairs(l) THEN "mput" ELSE "mcheck")
               /\ idx' = [idx EXCEPT ![c] = IF i = NumPairs(l) THEN 1 ELSE i + 1]
    /\ UNCHANGED <<dict, heap, cur, ptr, log, issued>>

\* One PutEntity of execMSetNX's put loop.
MSetNXPut(c) ==
    /\ pc[c] = "mput"
    /\ LET l == cur[c]
           i == idx[c]
       IN /\ dict' = PutEntity(dict, l[2 * i], Str(l[2 * i + 1]))
          /\ idx' = [idx EXCEPT ![c] = i + 1]
          /\ Goto(c, IF i = NumPairs(l) THEN "aof" ELSE "mput")
    /\ UNCHANGED <<heap, cur, ptr, log, issued>>

\* The bounded behaviour is over.
Done ==
    /\ issued = MaxCmds /\ AtRest
    /\ UNCHANGED vars

Next ==
    \/ \E c \in Clients, l \in CmdLines : Issue(c, l)
    \/ \E c \in Clients :
          \/ PushGet(c) \/ PushInit(c) \/ PushInsert(c) \/ CallAddAof(c)
          \/ PopGet(c) \/ PopRemove(c) \/ PopPanic(c) \/ PopCheck(c)
          \/ SetPut(c) \/ MSetNXCheck(c) \/ MSetNXPut(c)
    \/ Done

Spec == Init /\ [][Next]_vars

-----------------------------------------------------------------------------
\* The logged lines in every order.
Reorderings(s) == { [i \in DOMAIN s |-> s[p[i]]] : p \in Permutations(DOMAIN s) }

(* Whenever no command is in flight, executing the logged lines one after  *)
(* the other, in some order, with the sequential executors gives exactly   *)
(* the DB in memory: every command took effect whole, as LoadAof will      *)
(* replay it.  (In addAof order it fails already because each executor     *)
(* writes before it logs, see the ordering hazard; the order is left       *)
(* free here so that what remains is a lost or torn command.)  It fails if *)
(* two getOrInitList calls both create a list, if a push lands in a list   *)
(* no longer in the dict, if a pop's Remove(key) removes another command's *)
(* value, or if two MSETNX checks both pass.                               *)
LogSerializes == AtRest => \E order \in Reorderings(log) : Replay(order).dbs[0] = Mem

(* Whenever no command is in flight, no key holds an empty list, although  *)
(* getOrInitList publishes an empty list before it pushes and a pop can    *)
(* empty a list another goroutine is about to push to.                     *)
NoEmptyListAtRest == AtRest => EmptyContainers(Mem) = {}

=============================================================================
