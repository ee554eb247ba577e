------------------------------- MODULE ListCmds -------------------------------
(***************************************************************************)
(* The list entity and its mutating executors.  A *LinkedList              *)
(* (datastruct/list/linked.go) is a sequence: its node links are the       *)
(* sequence order, its size is Len.  The list methods are operators on     *)
(* sequences with 0-based indexes as in Go; the executors of               *)
(* database/list.go use them the way the code calls them.  The read-only   *)
(* LRANGE, LINDEX and LLEN change no state and are not modelled here.      *)
(***************************************************************************)
EXTENDS Keyspace

\* LinkedList.Add: append at the tail.
LLAdd(s, v) == Append(s, v)

\* LinkedList.Insert(index, val), 0 <= index <= size.
LLInsert(s, i, v) == SubSeq(s, 1, i) \o <<v>> \o SubSeq(s, i + 1, Len(s))

\* LinkedList.Remove(index) and RemoveLast: the list without that node.
LLRemove(s, i) == SubSeq(s, 1, i) \o SubSeq(s, i + 2, Len(s))
LLRemoveLast(s) == SubSeq(s, 1, Len(s) - 1)

\* LinkedList.Set(index, val).
LLSet(s, i, v) == [s EXCEPT ![i + 1] = v]

\* LinkedList.RemoveAllByVal: unlink every node equal to v.
RemoveAllByVal(s, v) ==
    LET kept == SelectSeq(s, LAMBDA x : x # v)
    IN [kept |-> kept, removed |-> Len(s) - Len(kept)]

(***************************************************************************)
(* LinkedList.RemoveByVal(val, count): walk from the head, unlink a node   *)
(* equal to val and count it, and stop as soon as removed = count (the     *)
(* test runs after every node, matching or not).  `removed` is the count   *)
(* so far.                                                                 *)
(***************************************************************************)
RECURSIVE RemoveScan(_, _, _, _)
RemoveScan(s, v, count, removed) ==
    IF s = <<>> THEN [kept |-> <<>>, removed |-> removed]
    ELSE LET hit == Head(s) = v
             r == IF hit THEN removed + 1 ELSE removed
             here == IF hit THEN <<>> ELSE <<Head(s)>>
         IN IF r = count
            THEN [kept |-> here \o Tail(s), removed |-> r]
            ELSE LET rest == RemoveScan(Tail(s), v, count, r)
                 IN [kept |-> here \o rest.kept, removed |-> rest.removed]

RemoveByVal(s, v, count) == RemoveScan(s, v, count, 0)

\* LinkedList.ReverseRemoveByVal: the same walk from the tail.
ReverseRemoveByVal(s, v, count) ==
    LET r == RemoveScan(Reverse(s), v, count, 0)
    IN [kept |-> Reverse(r.kept), removed |-> r.removed]

\* getOrInitList's list: an absent key starts as an empty list.
OrEmpty(got) == IF got = NIL THEN <<>> ELSE got

\* The values of a push, each inserted at the head or added at the tail in
\* argument order (so LPUSH k a b leaves b before a).
PushAll(lst, vals, atHead) ==
    FoldLeft(LAMBDA s, v : IF atHead THEN LLInsert(s, 0, v) ELSE LLAdd(s, v), lst, vals)

\* Mutant: a push that creates the list forgets to call addAof.
ExecPushUnloggedCreate(ks, args, atHead) ==
    LET got == GetAsList(ks, args[1])
    IN IF got = WRONGTYPE THEN NoEffect(ks)
       ELSE Result(PutEntity(ks, args[1],
                     List(PushAll(OrEmpty(got), Tail(args), atHead))), got # NIL)

\* execLPush / execRPush: getOrInitList (WRONGTYPE returns early), push
\* every value, addAof.
ExecPush(ks, args, atHead) ==
    LET got == GetAsList(ks, args[1])
    IN IF got = WRONGTYPE THEN NoEffect(ks)
       ELSE Result(PutEntity(ks, args[1],
                     List(PushAll(OrEmpty(got), Tail(args), atHead))), TRUE)

\* execLPushX / execRPushX: as a push, but an absent key returns 0 with no
\* effect and no log.
ExecPushX(ks, args, atHead) ==
    IF GetAsList(ks, args[1]) = NIL THEN NoEffect(ks) ELSE ExecPush(ks, args, atHead)

ExecLPush(ks, args)  == ExecPush(ks, args, TRUE)
ExecRPush(ks, args)  == ExecPush(ks, args, FALSE)
ExecLPushX(ks, args) == ExecPushX(ks, args, TRUE)
ExecRPushX(ks, args) == ExecPushX(ks, args, FALSE)

\* A removal that leaves rest: an empty list removes the key.
StoreOrRemove(ks, k, rest) ==
    IF rest = <<>> THEN RemoveKey(ks, k) ELSE PutEntity(ks, k, List(rest))

\* Mutant: the pop that empties the list and removes the key skips addAof.
ExecPopUnloggedRemove(ks, args, atHead) ==
    LET got == GetAsList(ks, args[1])
        rest == IF atHead THEN LLRemove(got, 0) ELSE LLRemoveLast(got)
    IN IF got \in {NIL, WRONGTYPE} THEN NoEffect(ks)
       ELSE Result(StoreOrRemove(ks, args[1], rest), rest # <<>>)

\* execLPop / execRPop: Remove(0) or RemoveLast, remove an emptied key,
\* addAof.
ExecPop(ks, args, atHead) ==
    LET got == GetAsList(ks, args[1])
    IN IF got \in {NIL, WRONGTYPE} THEN NoEffect(ks)
       ELSE Result(StoreOrRemove(ks, args[1],
                     IF atHead THEN LLRemove(got, 0) ELSE LLRemoveLast(got)), TRUE)

ExecLPop(ks, args) == ExecPop(ks, args, TRUE)
ExecRPop(ks, args) == ExecPop(ks, args, FALSE)

\* Mutant: an LREM that empties the list leaves the empty list in place.
ExecLRemKeepsEmpty(ks, args) ==
    LET got == GetAsList(ks, args[1])
        r == CASE args[2] = 0 -> RemoveAllByVal(got, args[3])
               [] args[2] > 0 -> RemoveByVal(got, args[3], args[2])
               [] OTHER       -> ReverseRemoveByVal(got, args[3], -args[2])
    IN IF ~IsInteger(args[2]) \/ got \in {NIL, WRONGTYPE} THEN NoEffect(ks)
       ELSE Result(PutEntity(ks, args[1], List(r.kept)), r.removed > 0)

\* execLRem: the count must parse; the sign of count picks the walk; an
\* emptied list is removed; addAof only when something was removed.
ExecLRem(ks, args) ==
    LET k == args[1]
        count == args[2]
        got == GetAsList(ks, k)
        r == CASE count = 0 -> RemoveAllByVal(got, args[3])
               [] count > 0 -> RemoveByVal(got, args[3], count)
               [] OTHER     -> ReverseRemoveByVal(got, args[3], -count)
    IN IF ~IsInteger(count) \/ got \in {NIL, WRONGTYPE} THEN NoEffect(ks)
       ELSE Result(StoreOrRemove(ks, k, r.kept), r.removed > 0)

\* execLSet: the index must parse and name an element (a negative index
\* counts from the tail); then Set and addAof.
ExecLSet(ks, args) ==
    LET got == GetAsList(ks, args[1])
        i == args[2]
        at == IF IsInteger(i) /\ i < 0 THEN Len(got) + i ELSE i
    IN IF ~IsInteger(i) \/ got \in {NIL, WRONGTYPE} \/ i < -Len(got) \/ i >= Len(got)
       THEN NoEffect(ks)
       ELSE Result(PutEntity(ks, args[1], List(LLSet(got, at, args[3]))), TRUE)

\* execRPopLPush: the source must be a list; getOrInitList(dest) (creating
\* an empty dest, or returning WRONGTYPE before anything moves); RemoveLast
\* of the source, Insert(0) into dest, remove the source if it is now
\* empty, addAof.  Source and dest may be the same list object.
ExecRPopLPush(ks, args) ==
    LET src == GetAsList(ks, args[1])
        dst == GetAsList(ks, args[2])
        v == src[Len(src)]
        moved == PutEntity(ks, args[1], List(LLRemoveLast(src)))
        pushed == PutEntity(moved, args[2],
                    List(LLInsert(OrEmpty(GetAsList(moved, args[2])), 0, v)))
    IN IF src \in {NIL, WRONGTYPE} \/ dst = WRONGTYPE THEN NoEffect(ks)
       ELSE Result(IF pushed[args[1]] = List(<<>>) THEN RemoveKey(pushed, args[1])
                   ELSE pushed, TRUE)

=============================================================================
