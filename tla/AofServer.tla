------------------------------ MODULE AofServer ------------------------------
(***************************************************************************)
(* A standalone Mudis server with append-only persistence enabled: client  *)
(* connections running commands concurrently against the shared DBs       *)
(* (resp/handler Handle -> StandaloneDatabase.Exec), every successful      *)
(* mutation enqueuing a payload on the bounded aofChan (AofHandler.AddAof),*)
(* the single handleAof goroutine writing payloads to the file with a      *)
(* SELECT frame on each change of DB, and the process stopping (crash or  *)
(* graceful shutdown) and starting again, which replays the file into a   *)
(* fresh engine (NewAOFHandler -> LoadAof) before accepting connections.   *)
(*                                                                         *)
(* Granularity: each dict operation of the concurrent dict is atomic, so a *)
(* client step is one executor whose writes are a single dict operation,  *)
(* or, for INCR/DECR/INCRBY/DECRBY/GETSET, the getAsString read and the   *)
(* PutEntity write as two steps.  db.addAof is a separate step after the executor's write, *)
(* and blocks while the channel is full.                                   *)
(***************************************************************************)
EXTENDS MudisDB, FiniteSets

CONSTANTS
    Clients,        \* client connections (model values)
    CmdLines,       \* the command lines clients send
    QueueSize,      \* capacity of aofChan (aofQueueSize)
    MaxCmds,        \* bound on commands issued in a behaviour
    MaxWriteFails,  \* bound on failed aofFile.Write calls
    MaxRestarts     \* bound on process stops

ASSUME /\ QueueSize \in Nat \ {0}
       /\ {MaxCmds, MaxWriteFails, MaxRestarts} \subseteq Nat

VARIABLES
    dbs,        \* mdb.dbSet: DB index -> keyspace
    sel,        \* Connection.selectedDB of each client
    pc,         \* where each client's Handle goroutine is
    cur,        \* the command line a client is executing
    old,        \* the value read by the first step of a read-modify-write
    pending,    \* the payload a client is sending to aofChan
    queue,      \* aofChan: the payloads not yet taken by handleAof
    file,       \* the AOF file: frames, each with the DB it was written for
    currentDB,  \* handler.currentDB of the running handleAof goroutine
    readers,    \* read holds on pausingAof never released
    status,     \* "running", "crashed" or "stopped"
    issued,     \* commands issued so far (bounded by MaxCmds)
    fails,      \* failed file writes so far (bounded by MaxWriteFails)
    restarts    \* process stops so far (bounded by MaxRestarts)

vars == <<dbs, sel, pc, cur, old, pending, queue, file, currentDB, readers,
          status, issued, fails, restarts>>

AnyLine == CHOOSE l \in CmdLines : TRUE
NoPayload == [line |-> AnyLine, db |-> 0]

\* NewStandaloneDatabase with an empty AOF file, then the first connections.
Init ==
    /\ dbs = EmptyDBs
    /\ sel = [c \in Clients |-> 0]
    /\ pc = [c \in Clients |-> "idle"]
    /\ cur = [c \in Clients |-> AnyLine]
    /\ old = [c \in Clients |-> NIL]
    /\ pending = [c \in Clients |-> NoPayload]
    /\ queue = <<>>
    /\ file = <<>>
    /\ currentDB = 0
    /\ readers = 0
    /\ status = "running"
    /\ issued = 0 /\ fails = 0 /\ restarts = 0

\* After the executor: go to AddAof with the DB's own index (singleDB.index)
\* when it called addAof, else back to reading the next command.
Finish(c, logged, line, db) ==
    IF logged THEN /\ pc' = [pc EXCEPT ![c] = "aof"]
                   /\ pending' = [pending EXCEPT ![c] = [line |-> line, db |-> db]]
              ELSE /\ pc' = [pc EXCEPT ![c] = "idle"]
                   /\ UNCHANGED pending

(***************************************************************************)
(* Handle reads a command line and calls StandaloneDatabase.Exec.  All of  *)
(* Exec runs in this step except the write half of a read-modify-write    *)
(* command; an SPOP pops members chosen at random.                        *)
(***************************************************************************)
Exec(c, l) ==
    /\ status = "running" /\ pc[c] = "idle" /\ issued < MaxCmds
    /\ issued' = issued + 1
    /\ cur' = [cur EXCEPT ![c] = l]
    /\ IF Dispatch(sel[c], l) = "execute" /\ l[1] \in ReadModifyWrite
       THEN \* getAsString; the write is ExecWrite
            /\ old' = [old EXCEPT ![c] = GetAsString(dbs[sel[c]], l[2])]
            /\ pc' = [pc EXCEPT ![c] = "write"]
            /\ UNCHANGED <<dbs, sel, pending>>
       ELSE \E pick \in Picks(dbs, sel[c], l) :
            LET r == StandaloneExec(dbs, sel[c], l, pick)
            IN /\ dbs' = r.dbs
               /\ sel' = [sel EXCEPT ![c] = r.sel]
               /\ Finish(c, r.aof, l, sel[c])
               /\ UNCHANGED old
    /\ UNCHANGED <<queue, file, currentDB, readers, status, fails, restarts>>

\* The second half of a read-modify-write executor, on the DB as it is now.
ExecWrite(c) ==
    /\ status = "running" /\ pc[c] = "write"
    /\ LET l == cur[c]
           r == ExecRMW(l[1], dbs[sel[c]], Tail(l), old[c])
       IN /\ dbs' = [dbs EXCEPT ![sel[c]] = r.ks]
          /\ Finish(c, r.aof, l, sel[c])
    /\ UNCHANGED <<sel, cur, old, queue, file, currentDB, readers, status,
                   issued, fails, restarts>>

\* AofHandler.AddAof: the channel send blocks while aofChan is full.
AddAof(c) ==
    /\ status = "running" /\ pc[c] = "aof"
    /\ Len(queue) < QueueSize
    /\ queue' = Append(queue, pending[c])
    /\ pc' = [pc EXCEPT ![c] = "idle"]
    /\ UNCHANGED <<dbs, sel, cur, old, pending, file, currentDB, readers,
                   status, issued, fails, restarts>>

(***************************************************************************)
(* One iteration of handleAof for the head payload p, under RLock of       *)
(* pausingAof.  When p.dbIndex differs from currentDB a SELECT frame is    *)
(* written first; if that write fails the loop `continue`s: p is dropped,  *)
(* currentDB is kept and the RUnlock at the end of the body is skipped.    *)
(* A failed write of the command frame is only logged.                     *)
(***************************************************************************)
SelectFrame(p) == [line |-> SelectLine(p.db), db |-> p.db]
CmdFrame(p) == [line |-> p.line, db |-> p.db]

\* Mutant: currentDB is set before the SELECT write, so a failed write
\* leaves it claiming the switch happened.
HandleAofSwitchOnFailure ==
    /\ status = "running" /\ queue # <<>>
    /\ LET p == Head(queue)
           switch == p.db # currentDB
       IN \/ /\ file' = file \o (IF switch THEN <<SelectFrame(p)>> ELSE <<>>)
                             \o <<CmdFrame(p)>>
             /\ currentDB' = p.db
             /\ UNCHANGED <<readers, fails>>
          \/ /\ switch /\ fails < MaxWriteFails
             /\ fails' = fails + 1 /\ readers' = readers + 1
             /\ currentDB' = p.db
             /\ UNCHANGED file
          \/ /\ fails < MaxWriteFails
             /\ fails' = fails + 1
             /\ file' = file \o (IF switch THEN <<SelectFrame(p)>> ELSE <<>>)
             /\ currentDB' = p.db
             /\ UNCHANGED readers
    /\ queue' = Tail(queue)
    /\ UNCHANGED <<dbs, sel, pc, cur, old, pending, status, issued, restarts>>

HandleAof ==
    /\ status = "running" /\ queue # <<>>
    /\ LET p == Head(queue)
           switch == p.db # currentDB
       IN \/ \* both writes succeed
             /\ file' = file \o (IF switch THEN <<SelectFrame(p)>> ELSE <<>>)
                             \o <<CmdFrame(p)>>
             /\ currentDB' = p.db
             /\ UNCHANGED <<readers, fails>>
          \/ \* the SELECT write fails: continue without RUnlock
             /\ switch /\ fails < MaxWriteFails
             /\ fails' = fails + 1
             /\ readers' = readers + 1
             /\ UNCHANGED <<file, currentDB>>
          \/ \* the command write fails
             /\ fails < MaxWriteFails
             /\ fails' = fails + 1
             /\ file' = file \o (IF switch THEN <<SelectFrame(p)>> ELSE <<>>)
             /\ currentDB' = p.db
             /\ UNCHANGED readers
    /\ queue' = Tail(queue)
    /\ UNCHANGED <<dbs, sel, pc, cur, old, pending, status, issued, restarts>>

(***************************************************************************)
(* The process stops.  A crash can come at any point; a graceful shutdown  *)
(* (ListenAndServe's close path: handler.Close closes the connections,     *)
(* waitDone.Wait lets every Handle finish its command, then the process    *)
(* exits) happens with every client idle, and calls StandaloneDatabase.    *)
(* Close, which is empty, so aofChan is never closed nor drained.  Either  *)
(* way the DBs and the payloads still in aofChan are gone; the file stays. *)
(***************************************************************************)
Stop(kind) ==
    /\ status = "running" /\ restarts < MaxRestarts
    /\ kind = "stopped" => \A c \in Clients : pc[c] = "idle"
    /\ status' = kind
    /\ restarts' = restarts + 1
    /\ queue' = <<>>
    /\ pc' = [c \in Clients |-> "idle"]
    /\ UNCHANGED <<dbs, sel, cur, old, pending, file, currentDB, readers,
                   issued, fails>>

\* Mutant: LoadAof's loop stops one frame before the end of the file.
StartSkipsLastFrame ==
    /\ status # "running"
    /\ dbs' = Replay([i \in 1..(Len(file) - 1) |-> file[i].line]).dbs
    /\ currentDB' = 0
    /\ readers' = 0
    /\ sel' = [c \in Clients |-> 0]
    /\ status' = "running"
    /\ UNCHANGED <<pc, cur, old, pending, queue, file, issued, fails, restarts>>

\* NewStandaloneDatabase -> NewAOFHandler: LoadAof replays the file into
\* fresh DBs (addAof is still the no-op of makeDB, so nothing is enqueued),
\* then handleAof starts with currentDB = 0 and clients connect anew.
Start ==
    /\ status # "running"
    /\ dbs' = Replay([i \in 1..Len(file) |-> file[i].line]).dbs
    /\ currentDB' = 0
    /\ readers' = 0
    /\ sel' = [c \in Clients |-> 0]
    /\ status' = "running"
    /\ UNCHANGED <<pc, cur, old, pending, queue, file, issued, fails, restarts>>

\* Every command issued has been run and persisted, and no restart is left:
\* the bounded behaviour is over.
Done ==
    /\ issued = MaxCmds /\ status = "running"
    /\ \A c \in Clients : pc[c] = "idle"
    /\ queue = <<>>
    /\ UNCHANGED vars

Next ==
    \/ \E c \in Clients, l \in CmdLines : Exec(c, l)
    \/ \E c \in Clients : ExecWrite(c) \/ AddAof(c)
    \/ HandleAof
    \/ \E kind \in {"crashed", "stopped"} : Stop(kind)
    \/ Start
    \/ Done

\* Goroutines are scheduled fairly by the Go runtime: a client that can
\* finish its command does, and the AOF goroutine keeps draining aofChan.
Fairness ==
    /\ \A c \in Clients : WF_vars(ExecWrite(c)) /\ WF_vars(AddAof(c))
    /\ WF_vars(HandleAof)

Spec == Init /\ [][Next]_vars /\ Fairness

-----------------------------------------------------------------------------
(***************************************************************************)
(* Properties.                                                             *)
(***************************************************************************)

LogLines == [i \in 1..Len(file) |-> file[i].line]

\* The DB index the replaying FakeConn has selected once frame i has run.
ReplaySel(i) == Replay(SubSeq(LogLines, 1, i)).sel

(* Every command frame in the AOF file is replayed in the DB it was executed *)
(* in: the SELECT frames handleAof writes when p.dbIndex # currentDB, and    *)
(* the ones it skips, leave the replaying FakeConn on the payload's DB.      *)
(* Broken when the worker's currentDB disagrees with the DB the file's last *)
(* SELECT left replay in, e.g. after a failed SELECT write or a restart.    *)
LogReplaysInOwnDb ==
    \A i \in 1..Len(file) : ReplaySel(i) = file[i].db

\* No client is in the middle of a command and aofChan is drained.
Quiescent ==
    /\ status = "running"
    /\ \A c \in Clients : pc[c] = "idle"
    /\ queue = <<>>

(* Round trip (spec section 8): once everything executed has gone through  *)
(* aofChan into the file, replaying the file into a fresh engine gives the  *)
(* DBs the server holds.  It needs every mutating executor to call addAof,  *)
(* the payloads to reach the file in the order of the writes, and replay to *)
(* select the right DB for every frame.                                     *)
ReplayMatchesMemory ==
    Quiescent => Replay(LogLines).dbs = dbs

(* Containers are removed when they become empty (spec section 3): no DB   *)
(* ever holds an empty list or set, whatever sequence of pushes, pops,     *)
(* LREM, RPOPLPUSH, SREM, SPOP and *STORE commands clients interleave.     *)
NoEmptyContainer == \A i \in DBIndex : EmptyContainers(dbs[i]) = {}

(* The read lock handleAof takes on pausingAof for a payload is released   *)
(* when the payload is done, so a future rewrite could take the lock.       *)
PauseLockReleased == readers = 0

(* A graceful shutdown loses no payload: aofChan is empty when it happens   *)
(* (spec 4.3, Close drains the queue before the file is closed).            *)
ShutdownDrainsQueue ==
    [][status' = "stopped" /\ status = "running" => queue = <<>>]_vars

(* A client's selected DB is always one of the DBs (spec 4.2: SELECT      *)
(* rejects an index outside [0, N)).                                        *)
SelectedDbInRange == \A c \in Clients : sel[c] \in DBIndex

-----------------------------------------------------------------------------
(***************************************************************************)
(* Refinement of AtomicLog.  The abstract log is what has reached the      *)
(* file (its command frames, not the SELECT frames), then the payloads in  *)
(* aofChan, then the payloads clients are still sending; the durable part *)
(* is the file.  The sending payloads are put in an arbitrary order: with  *)
(* one client there is at most one, and the mapping is exact.  Steps that *)
(* only move a payload (AddAof) or only read (the first half of a          *)
(* read-modify-write) are abstract stuttering steps.                       *)
(***************************************************************************)
FileEntries == SelectSeq(file, LAMBDA f : f.line[1] # "select")

Sending == SetToSeq({pending[c] : c \in {d \in Clients : pc[d] = "aof"}})

AL == INSTANCE AtomicLog WITH Lines <- CmdLines, mem <- dbs,
        log <- FileEntries \o queue \o Sending, durable <- Len(FileEntries),
        up <- (status = "running")

(* AOF persistence behaves as an atomic write-ahead log: each mutation is  *)
(* applied and logged in one step, the file is a prefix of that log that   *)
(* keeps growing while the server runs (WF of Persist: every payload       *)
(* handed to aofChan is eventually written), a stop loses exactly the      *)
(* payloads not yet written, and LoadAof after a restart rebuilds exactly  *)
(* the memory that executing the file's entries in their DBs gives.        *)
AtomicLogSpec == AL!AbsSpec

=============================================================================
