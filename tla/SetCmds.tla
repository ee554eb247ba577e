------------------------------- MODULE SetCmds -------------------------------
(***************************************************************************)
(* The set entity and the mutating executors of database/set.go.  A        *)
(* *HashSet.Set (datastruct/set, whose source is not in this tree) is a    *)
(* TLA+ set of members; its Union/Intersect/Diff are the set operators.    *)
(* RandomDistinctMembers iterates a Go map, whose order is random: SPOP    *)
(* is therefore given the members it pops as an extra argument `pick`,     *)
(* drawn by the caller from SPopPicks.  The read-only commands (SISMEMBER, *)
(* SCARD, SMEMBERS, SINTER, SUNION, SDIFF, SRANDMEMBER) are not modelled.  *)
(***************************************************************************)
EXTENDS Keyspace

\* getOrInitSet's set: an absent key starts as an empty set.
OrNone(got) == IF got = NIL THEN {} ELSE got

\* execSAdd: getOrInitSet (WRONGTYPE returns early), add the members,
\* addAof whatever was added.
ExecSAdd(ks, args) ==
    LET got == GetAsSet(ks, args[1])
        members == {args[i] : i \in 2..Len(args)}
    IN IF got = WRONGTYPE THEN NoEffect(ks)
       ELSE Result(PutEntity(ks, args[1], Set(OrNone(got) \cup members)), TRUE)

\* execSRem: remove the members; a set left empty is removed from the DB
\* (even when nothing was removed); addAof only when counter > 0.
ExecSRem(ks, args) ==
    LET got == GetAsSet(ks, args[1])
        members == {args[i] : i \in 2..Len(args)}
        rest == got \ members
    IN IF got \in {NIL, WRONGTYPE} THEN NoEffect(ks)
       ELSE Result(IF rest = {} THEN RemoveKey(ks, args[1])
                   ELSE PutEntity(ks, args[1], Set(rest)),
                   got \cap members # {})

\* The number of members execSPop pops: 1, or the parsed positive count,
\* capped at the set size; -1 stands for the argument and count errors.
SPopCount(got, args) ==
    CASE Len(args) = 1 -> IF 1 < Cardinality(got) THEN 1 ELSE Cardinality(got)
      [] ~IsInteger(args[2]) -> -1
      [] args[2] <= 0 -> -1
      [] OTHER -> IF args[2] < Cardinality(got) THEN args[2] ELSE Cardinality(got)

\* The member sets RandomDistinctMembers(count) may return.
SPopPicks(ks, args) ==
    LET got == GetAsSet(ks, args[1])
    IN IF Len(args) \notin {1, 2} \/ got \in {NIL, WRONGTYPE} \/ SPopCount(got, args) < 0
       THEN {{}}
       ELSE kSubset(SPopCount(got, args), got)

\* execSPop: the popped members are removed, but the key is kept even when
\* the set is left empty; addAof when count > 0.
ExecSPop(ks, args, pick) ==
    LET got == GetAsSet(ks, args[1])
    IN IF Len(args) \notin {1, 2} \/ got \in {NIL, WRONGTYPE} \/ SPopCount(got, args) < 0
       THEN NoEffect(ks)
       ELSE Result(PutEntity(ks, args[1], Set(got \ pick)), SPopCount(got, args) > 0)

(***************************************************************************)
(* The *STORE executors walk their source keys in order.  The walk state   *)
(* is "go" with the result so far (NIL before the first set), or a final   *)
(* outcome: "error" (a source holds another type: return before any       *)
(* write), or "drop" (remove dest and return 0 without calling addAof).    *)
(***************************************************************************)
Walk(st, acc) == [st |-> st, acc |-> acc]

\* The loop of execSInterStore: an absent source or an empty intersection
\* ends it with "drop".
InterStep(w, got) ==
    CASE w.st # "go" -> w
      [] got = WRONGTYPE -> Walk("error", w.acc)
      [] got = NIL -> Walk("drop", w.acc)
      [] w.acc = NIL -> Walk("go", got)
      [] w.acc \cap got = {} -> Walk("drop", w.acc)
      [] OTHER -> Walk("go", w.acc \cap got)

\* The loop of execSUnionStore: absent sources are skipped.
UnionStep(w, got) ==
    CASE w.st # "go" -> w
      [] got = WRONGTYPE -> Walk("error", w.acc)
      [] got = NIL -> w
      [] w.acc = NIL -> Walk("go", got)
      [] OTHER -> Walk("go", w.acc \cup got)

\* The loop of execSDiffStore: an absent first source or an empty
\* difference ends it with "drop"; later absent sources are skipped.
DiffStep(w, got, first) ==
    CASE w.st # "go" -> w
      [] got = WRONGTYPE -> Walk("error", w.acc)
      [] got = NIL -> IF first THEN Walk("drop", w.acc) ELSE w
      [] w.acc = NIL -> Walk("go", got)
      [] w.acc \ got = {} -> Walk("drop", w.acc)
      [] OTHER -> Walk("go", w.acc \ got)

\* The walk of command `name` over the source keys args[2..].
StoreWalk(name, ks, args) ==
    LET srcs == SubSeq(args, 2, Len(args))
        step(w, i) == LET got == GetAsSet(ks, srcs[i]) IN
                      CASE name = "sinterstore" -> InterStep(w, got)
                        [] name = "sunionstore" -> UnionStep(w, got)
                        [] name = "sdiffstore"  -> DiffStep(w, got, i = 1)
    IN FoldLeft(step, Walk("go", NIL), [i \in 1..Len(srcs) |-> i])

\* execSInterStore / execSUnionStore / execSDiffStore after the walk: a
\* "drop", or a walk that found no set at all (SUNIONSTORE, SDIFFSTORE),
\* removes dest with no addAof; otherwise dest is replaced by a new set
\* and the command is logged.
ExecStore(name, ks, args) ==
    LET w == StoreWalk(name, ks, args)
    IN CASE w.st = "error" -> NoEffect(ks)
         [] w.st = "drop" \/ w.acc = NIL -> Result(RemoveKey(ks, args[1]), FALSE)
         [] OTHER -> Result(PutEntity(ks, args[1], Set(w.acc)), TRUE)

ExecSInterStore(ks, args) == ExecStore("sinterstore", ks, args)
ExecSUnionStore(ks, args) == ExecStore("sunionstore", ks, args)
ExecSDiffStore(ks, args)  == ExecStore("sdiffstore", ks, args)

=============================================================================
