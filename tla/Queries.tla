------------------------------- MODULE Queries -------------------------------
(***************************************************************************)
(* The executors that answer from the keyspace: the read-only commands of  *)
(* string.go, list.go and set.go, with the walks of LinkedList they call,  *)
(* and the byte-level string commands APPEND, SETRANGE and GETRANGE.       *)
(* Here a stored string is what it is in the code, a sequence of bytes     *)
(* (0 is the zero byte), so that lengths, offsets and padding are real.    *)
(*                                                                         *)
(* A reply is modelled by what it encodes on the wire: EmptyMultiBulkReply *)
(* and MakeMultiBulkReply of an empty array both encode "*0" and are one   *)
(* value here.  NullBulkReply is "$-1\r\n"; a bulk of no bytes is written  *)
(* by BulkReply.ToBytes as "$-1" with no line end, another value.  Inside *)
(* an array a nil element is "$-1" and an empty one "$0".  The array a set *)
(* command returns is in the set's iteration order, which HashSet (not in  *)
(* this tree) leaves unspecified: it is the set of its members.            *)
(***************************************************************************)
EXTENDS MudisDB

NullBulkReply     == [nullbulk |-> "$-1"]
\* BulkReply.ToBytes writes an empty Arg as nullBulkReplyBytes, "$-1" with
\* no CRLF: neither the null bulk nor the "$0" of an empty string.
BulkReply(v)      == IF v = <<>> THEN [unterminated |-> "$-1"] ELSE [bulk |-> v]
IntReply(n)       == [int |-> n]
MultiBulkReply(s) == [multi |-> s]
MembersReply(m)   == [members |-> m]
ErrReply(e)       == [err |-> e]
WrongTypeReply    == ErrReply("WRONGTYPE")
NotIntegerReply   == ErrReply("ERR value is not an integer or out of range")
\* A panic inside an executor, recovered by StandaloneDatabase.Exec.
PanicReply        == ErrReply("ERR unknown")

(***************************************************************************)
(* A *LinkedList as the pushes and pops leave it: node i holds the i-th    *)
(* element, linked both ways; 0 is nil.                                    *)
(***************************************************************************)
Nodes(s) == [first |-> IF s = <<>> THEN 0 ELSE 1, last |-> Len(s), size |-> Len(s),
             val |-> s,
             next |-> [i \in 1..Len(s) |-> IF i = Len(s) THEN 0 ELSE i + 1],
             prev |-> [i \in 1..Len(s) |-> i - 1]]

\* n = n.next (or n.prev), k times.
RECURSIVE Hop(_, _, _)
Hop(link, n, k) == IF k = 0 THEN n ELSE Hop(link, link[n], k - 1)

\* Mutant: the walk from first takes the step count of the walk from last.
LLFindMirrored(l, index) ==
    IF index < l.size \div 2 THEN Hop(l.next, l.first, l.size - 1 - index)
    ELSE Hop(l.prev, l.last, l.size - 1 - index)

\* LinkedList.find: from first when index < size/2, else back from last.
LLFind(l, index) ==
    IF index < l.size \div 2 THEN Hop(l.next, l.first, index)
    ELSE Hop(l.prev, l.last, l.size - 1 - index)

\* LinkedList.Get, inside the bounds its callers establish.
LLGet(l, index) == l.val[LLFind(l, index)]

\* LinkedList.Range's loop from first: collect while start <= i < stop.
RECURSIVE Collect(_, _, _, _, _)
Collect(l, n, i, start, stop) ==
    IF n = 0 \/ i >= stop THEN <<>>
    ELSE (IF i >= start THEN <<l.val[n]>> ELSE <<>>) \o Collect(l, l.next[n], i + 1, start, stop)

LLRange(l, start, stop) ==
    IF start < 0 \/ start >= l.size \/ stop < start \/ stop > l.size THEN PanicReply
    ELSE Collect(l, l.first, 0, start, stop)

(***************************************************************************)
(* Strings.                                                                *)
(***************************************************************************)
\* A stored empty string is the nil slice APPEND and SETRANGE leave
\* (append(nil) of no bytes is nil), which GET and MGET test as bytes == nil.
ExecGet(ks, args) ==
    LET got == GetAsString(ks, args[1])
    IN CASE got = WRONGTYPE -> WrongTypeReply
         [] got \in {NIL, <<>>} -> NullBulkReply
         [] OTHER -> BulkReply(got)

\* execMGet: a key of another type reads as nil, not as an error.
ExecMGet(ks, args) ==
    MultiBulkReply([i \in DOMAIN args |-> LET got == GetAsString(ks, args[i])
                                          IN IF got \in {WRONGTYPE, <<>>} THEN NIL ELSE got])

ExecStrLen(ks, args) ==
    LET got == GetAsString(ks, args[1])
    IN CASE got = WRONGTYPE -> WrongTypeReply
         [] got = NIL -> IntReply(0)
         [] OTHER -> IntReply(Len(got))

\* Mutant: a negative end is taken as exclusive.
ExecGetRangeExclusiveEnd(ks, args) ==
    LET got == GetAsString(ks, args[1])
        n == Len(got)
        start == args[2]
        end == args[3]
        st == IF start < 0 THEN n + start ELSE start
        en == CASE end < 0 -> n + end [] end < n -> end + 1 [] OTHER -> n
    IN CASE ~IsInteger(start) \/ ~IsInteger(end) -> ErrReply("parse")
         [] got = WRONGTYPE -> WrongTypeReply
         [] got = NIL -> NullBulkReply
         [] start < -n \/ start >= n -> NullBulkReply
         [] end < -n -> NullBulkReply
         [] st > en -> NullBulkReply
         [] OTHER -> BulkReply(SubSeq(got, st + 1, en))

\* execGetRange: a start or end that ParseInt rejects answers its error;
\* then start and end are normalised against the length; a start out of
\* range, an end before -len or a start past the exclusive end gives a null
\* bulk, and a start equal to it the empty slice bytes[st:st].
ExecGetRange(ks, args) ==
    LET got == GetAsString(ks, args[1])
        n == Len(got)
        start == args[2]
        end == args[3]
        st == IF start < 0 THEN n + start ELSE start
        en == CASE end < 0 -> n + end + 1 [] end < n -> end + 1 [] OTHER -> n
    IN CASE ~IsInteger(start) \/ ~IsInteger(end) -> ErrReply("parse")
         [] got = WRONGTYPE -> WrongTypeReply
         [] got = NIL -> NullBulkReply
         [] start < -n \/ start >= n -> NullBulkReply
         [] end < -n -> NullBulkReply
         [] st > en -> NullBulkReply
         [] OTHER -> BulkReply(SubSeq(got, st + 1, en))

\* n zero bytes (make([]byte, n)).
Zeros(n) == [i \in 1..n |-> 0]

\* execAppend: the stored bytes (none when absent) followed by the value.
ExecAppend(ks, args) ==
    LET got == GetAsString(ks, args[1])
        bytes == IF got = NIL THEN <<>> ELSE got
    IN IF got = WRONGTYPE THEN [ks |-> ks, reply |-> WrongTypeReply, aof |-> FALSE]
       ELSE [ks |-> PutEntity(ks, args[1], Str(bytes \o args[2])),
             reply |-> IntReply(Len(bytes) + Len(args[2])), aof |-> TRUE]

\* Mutant: the loop only overwrites, never appends past the padded length.
ExecSetRangeNoGrow(ks, args) ==
    LET got == GetAsString(ks, args[1])
        offset == args[2]
        value == args[3]
        bytes == IF got = NIL THEN <<>> ELSE got
        padded == IF Len(bytes) < offset THEN bytes \o Zeros(offset - Len(bytes)) ELSE bytes
        written == [i \in 1..Len(padded) |->
                      IF offset < i /\ i <= offset + Len(value) THEN value[i - offset]
                      ELSE padded[i]]
    IN CASE ~IsInteger(offset) -> [ks |-> ks, reply |-> ErrReply("parse"), aof |-> FALSE]
         [] got = WRONGTYPE -> [ks |-> ks, reply |-> WrongTypeReply, aof |-> FALSE]
         [] offset < 0 /\ value # <<>> -> [ks |-> ks, reply |-> PanicReply, aof |-> FALSE]
         [] OTHER -> [ks |-> PutEntity(ks, args[1], Str(written)),
                      reply |-> IntReply(Len(written)), aof |-> TRUE]

\* execSetRange: pad with zero bytes up to offset, then the loop writes
\* value[i] at offset + i, appending past the padded length.  A negative
\* offset makes bytes[idx] panic at the first byte of a non-empty value.
ExecSetRange(ks, args) ==
    LET got == GetAsString(ks, args[1])
        offset == args[2]
        value == args[3]
        bytes == IF got = NIL THEN <<>> ELSE got
        padded == IF Len(bytes) < offset THEN bytes \o Zeros(offset - Len(bytes)) ELSE bytes
        written == [i \in 1..(IF offset + Len(value) > Len(padded)
                              THEN offset + Len(value) ELSE Len(padded)) |->
                      IF offset < i /\ i <= offset + Len(value) THEN value[i - offset]
                      ELSE padded[i]]
    IN CASE ~IsInteger(offset) -> [ks |-> ks, reply |-> ErrReply("parse"), aof |-> FALSE]
         [] got = WRONGTYPE -> [ks |-> ks, reply |-> WrongTypeReply, aof |-> FALSE]
         [] offset < 0 /\ value # <<>> -> [ks |-> ks, reply |-> PanicReply, aof |-> FALSE]
         [] OTHER -> [ks |-> PutEntity(ks, args[1], Str(written)),
                      reply |-> IntReply(Len(written)), aof |-> TRUE]

(***************************************************************************)
(* Lists.                                                                  *)
(***************************************************************************)
ExecLLen(ks, args) ==
    LET got == GetAsList(ks, args[1])
    IN CASE got = WRONGTYPE -> WrongTypeReply
         [] got = NIL -> IntReply(0)
         [] OTHER -> IntReply(Len(got))

\* execLIndex: an index before -size or from size on is a null bulk.
ExecLIndex(ks, args) ==
    LET got == GetAsList(ks, args[1])
        size == Len(got)
        index == args[2]
    IN CASE ~IsInteger(index) -> NotIntegerReply
         [] got = WRONGTYPE -> WrongTypeReply
         [] got = NIL -> NullBulkReply
         [] index < -size \/ index >= size -> NullBulkReply
         [] OTHER -> BulkReply(LLGet(Nodes(got), IF index < 0 THEN size + index ELSE index))

\* execLRange: start is clamped to 0 from below and ends the answer when
\* past the list; stop becomes exclusive and is clamped to 0..size, and
\* never below start; then LinkedList.Range.
ExecLRange(ks, args) ==
    LET got == GetAsList(ks, args[1])
        size == Len(got)
        start == args[2]
        stop == args[3]
        st == CASE start < -size -> 0 [] start < 0 -> size + start [] OTHER -> start
        sp == CASE stop < -size -> 0 [] stop < 0 -> size + stop + 1
                [] stop < size -> stop + 1 [] OTHER -> size
    IN CASE ~IsInteger(start) \/ ~IsInteger(stop) -> NotIntegerReply
         [] got = WRONGTYPE -> WrongTypeReply
         [] got = NIL -> MultiBulkReply(<<>>)
         [] start >= size -> MultiBulkReply(<<>>)
         [] OTHER -> MultiBulkReply(LLRange(Nodes(got), st, IF sp < st THEN st ELSE sp))

(***************************************************************************)
(* Sets.  SINTER, SUNION and SDIFF walk their keys with the steps of the   *)
(* *STORE loops (SetCmds), which they repeat; "drop" is the early return  *)
(* of an empty array.                                                      *)
(***************************************************************************)
ExecSIsMember(ks, args) ==
    LET got == GetAsSet(ks, args[1])
    IN CASE got = WRONGTYPE -> WrongTypeReply
         [] got = NIL -> IntReply(0)
         [] OTHER -> IntReply(IF args[2] \in got THEN 1 ELSE 0)

ExecSCard(ks, args) ==
    LET got == GetAsSet(ks, args[1])
    IN CASE got = WRONGTYPE -> WrongTypeReply
         [] got = NIL -> IntReply(0)
         [] OTHER -> IntReply(Cardinality(got))

ExecSMembers(ks, args) ==
    LET got == GetAsSet(ks, args[1])
    IN CASE got = WRONGTYPE -> WrongTypeReply
         [] got = NIL -> MembersReply({})
         [] OTHER -> MembersReply(got)

\* Mutant: SDIFF skips an absent first key like a later one.
ReadWalkSkipsFirst(name, ks, keys) ==
    LET step(w, i) == LET got == GetAsSet(ks, keys[i]) IN
                      CASE name = "sinter" -> InterStep(w, got)
                        [] name = "sunion" -> UnionStep(w, got)
                        [] name = "sdiff"  -> DiffStep(w, got, FALSE)
    IN FoldLeft(step, Walk("go", NIL), [i \in 1..Len(keys) |-> i])

\* The loop of execSInter, execSUnion or execSDiff over all its keys.
ReadWalk(name, ks, keys) ==
    LET step(w, i) == LET got == GetAsSet(ks, keys[i]) IN
                      CASE name = "sinter" -> InterStep(w, got)
                        [] name = "sunion" -> UnionStep(w, got)
                        [] name = "sdiff"  -> DiffStep(w, got, i = 1)
    IN FoldLeft(step, Walk("go", NIL), [i \in 1..Len(keys) |-> i])

ExecSetAlgebra(name, ks, args) ==
    LET w == ReadWalk(name, ks, args)
    IN CASE w.st = "error" -> WrongTypeReply
         [] w.st = "drop" \/ w.acc = NIL -> MembersReply({})
         [] OTHER -> MembersReply(w.acc)

\* execSRandMember: the replies RandomMembers / RandomDistinctMembers of
\* HashSet may give.  RandomMembers(n) draws n members with repetition;
\* RandomDistinctMembers(n) min(n, size) distinct ones.
SRandMemberReplies(ks, args) ==
    LET got == GetAsSet(ks, args[1])
        count == args[2]
    IN CASE Len(args) \notin {1, 2} -> {ErrReply("arity")}
         [] got = WRONGTYPE -> {WrongTypeReply}
         [] got = NIL -> {NullBulkReply}
         [] Len(args) = 1 -> {BulkReply(m) : m \in got}
         [] ~IsInteger(count) -> {NotIntegerReply}
         [] count > 0 -> {MembersReply(m) : m \in kSubset(IF count < Cardinality(got)
                                                          THEN count ELSE Cardinality(got), got)}
         [] count < 0 -> {MultiBulkReply(s) : s \in [1..(-count) -> got]}
         [] OTHER -> {MultiBulkReply(<<>>)}

(***************************************************************************)
(* The reply of a read-only line.                                          *)
(***************************************************************************)
Answer(ks, line) ==
    LET name == line[1]
        args == Tail(line)
    IN CASE name = "get"      -> ExecGet(ks, args)
         [] name = "mget"     -> ExecMGet(ks, args)
         [] name = "strlen"   -> ExecStrLen(ks, args)
         [] name = "getrange" -> ExecGetRange(ks, args)
         [] name = "llen"     -> ExecLLen(ks, args)
         [] name = "lindex"   -> ExecLIndex(ks, args)
         [] name = "lrange"   -> ExecLRange(ks, args)
         [] name = "sismember" -> ExecSIsMember(ks, args)
         [] name = "scard"    -> ExecSCard(ks, args)
         [] name = "smembers" -> ExecSMembers(ks, args)
         [] name \in {"sinter", "sunion", "sdiff"} -> ExecSetAlgebra(name, ks, args)

-----------------------------------------------------------------------------
(***************************************************************************)
(* The DB seen by its clients: every reachable keyspace is one whose       *)
(* strings, lists and sets are within the bounds below, APPEND and         *)
(* SETRANGE change it, SRANDMEMBER draws a reply, and the deterministic    *)
(* read-only commands are answered in every state (the properties).        *)
(***************************************************************************)
CONSTANTS
    Bytes,       \* the byte values (0 is the zero byte SETRANGE pads with)
    MaxStrLen,   \* bound on the length of a stored string
    MaxListLen,  \* bound on the length of a list in the initial keyspaces
    ReadLines,   \* the read-only lines answered in every state
    WriteLines,  \* APPEND and SETRANGE lines
    RandLines    \* SRANDMEMBER lines

VARIABLES
    ks,          \* the keyspace of the selected DB
    reply,       \* the reply of the last APPEND, SETRANGE or SRANDMEMBER
    logged       \* whether that command called addAof

qvars == <<ks, reply, logged>>

Strings == BoundedSeq(Bytes, MaxStrLen)
Entities == [string : Strings] \cup [list : BoundedSeq(Vals, MaxListLen) \ {<<>>}]
            \cup [set : SUBSET Vals \ {{}}]

NoReply == [none |-> TRUE]

QInit ==
    /\ ks \in UNION {[D -> Entities] : D \in SUBSET Keys}
    /\ reply = NoReply
    /\ logged = FALSE

\* The bound: a string longer than MaxStrLen is never stored.
InBound(r) == \A k \in DOMAIN r.ks : "string" \in DOMAIN r.ks[k] => Len(r.ks[k].string) <= MaxStrLen

Apply(r) == InBound(r) /\ ks' = r.ks /\ reply' = r.reply /\ logged' = r.aof

AppendCmd(l) == l[1] = "append" /\ Apply(ExecAppend(ks, Tail(l)))

SetRangeCmd(l) == l[1] = "setrange" /\ Apply(ExecSetRange(ks, Tail(l)))

SRandMemberCmd(l) ==
    /\ l[1] = "srandmember"
    /\ reply' \in SRandMemberReplies(ks, Tail(l))
    /\ logged' = FALSE
    /\ UNCHANGED ks

QNext ==
    \/ \E l \in WriteLines : AppendCmd(l) \/ SetRangeCmd(l)
    \/ \E l \in RandLines : SRandMemberCmd(l)

QSpec == QInit /\ [][QNext]_qvars

-----------------------------------------------------------------------------
FromEnd(i, n) == IF i < 0 THEN n + i ELSE i
ClampTo(i, lo, hi) == IF i < lo THEN lo ELSE IF i > hi THEN hi ELSE i

\* What spec section "List" says LRANGE, LINDEX and LLEN answer.
RefLRange(s, start, stop) ==
    LET n == Len(s)
    IN SubSeq(s, ClampTo(FromEnd(start, n), 0, n) + 1, ClampTo(FromEnd(stop, n), -1, n - 1) + 1)
RefLIndex(s, i) ==
    IF FromEnd(i, Len(s)) \in 0..(Len(s) - 1) THEN BulkReply(s[FromEnd(i, Len(s)) + 1])
    ELSE NullBulkReply

\* A line on a key that holds no other type, with integer arguments.
WellTyped(l, type) ==
    /\ GetAs(ks, l[2], type) # WRONGTYPE
    /\ \A i \in 3..Len(l) : IsInteger(l[i])

(* LRANGE, LINDEX and LLEN answer what spec section "List" says, for every *)
(* list and every index: a negative index counts from the end, LRANGE's    *)
(* stop is inclusive and both bounds clamp to the list (LRANGE -100 100    *)
(* is the whole list, LRANGE 2 1 is empty).  This checks execLRange's and  *)
(* execLIndex's normalisation and the walks of LinkedList.find (from      *)
(* either end) and LinkedList.Range.                                       *)
ListReadsFollowSpec ==
    \A l \in ReadLines :
        l[1] \in {"lrange", "lindex", "llen"} /\ WellTyped(l, "list") =>
            LET s == OrEmpty(GetAsList(ks, l[2]))
            IN Answer(ks, l) = CASE l[1] = "lrange" -> MultiBulkReply(RefLRange(s, l[3], l[4]))
                                 [] l[1] = "lindex" -> RefLIndex(s, l[3])
                                 [] l[1] = "llen"   -> IntReply(Len(s))

\* The answers spec section "String" allows GETRANGE: start and end count
\* from the end when negative, end is clamped to the string; an empty
\* range or a start out of range is an empty or null result.
RefGetRange(s, start, end) ==
    LET n == Len(s)
        st == FromEnd(start, n)
        en == ClampTo(FromEnd(end, n), -1, n - 1)
    IN IF st \notin 0..(n - 1) \/ en < st THEN <<>> ELSE SubSeq(s, st + 1, en + 1)

\* The bytes a bulk reply carries: none for the null bulk and for the
\* unterminated "$-1" of an empty BulkReply.
IsBulk(r) == DOMAIN r \in {{"bulk"}, {"nullbulk"}, {"unterminated"}}
Carried(r) == IF "bulk" \in DOMAIN r THEN r.bulk ELSE <<>>

(* GETRANGE answers a bulk reply carrying the bytes from the normalised    *)
(* start to the normalised end, inclusive, and none when that range is     *)
(* empty, for every stored string and every pair of indexes               *)
(* (execGetRange's exclusive end and its null returns).  How the empty    *)
(* reply is encoded is not part of this property.                         *)
GetRangeFollowsSpec ==
    \A l \in ReadLines :
        l[1] = "getrange" /\ WellTyped(l, "string") =>
            LET r == Answer(ks, l)
            IN IsBulk(r) /\ Carried(r) = RefGetRange(OrEmpty(GetAsString(ks, l[2])), l[3], l[4])

\* SETRANGE as spec section "String" says: zero-pad up to offset, then
\* overwrite from offset on.
RefSetRange(s, off, v) ==
    LET p == s \o Zeros(off - Len(s))
    IN SubSeq(p, 1, off) \o v \o SubSeq(p, off + Len(v) + 1, Len(p))

(* Every SETRANGE with an offset >= 0 on a string or an absent key stores  *)
(* the zero-padded, overwritten value, answers its length and touches no   *)
(* other key (execSetRange's padding and its write loop, which appends    *)
(* once the offset passes the padded length).                              *)
SetRangeFollowsSpec ==
    [][\A l \in WriteLines :
         (SetRangeCmd(l) /\ IsInteger(l[3]) /\ l[3] >= 0 /\ GetAsString(ks, l[2]) # WRONGTYPE) =>
            LET v == RefSetRange(OrEmpty(GetAsString(ks, l[2])), l[3], l[4])
            IN /\ ks' = PutEntity(ks, l[2], Str(v))
               /\ reply' = IntReply(Len(v))]_qvars

\* SINTER, SUNION and SDIFF as set algebra over the sets of their keys.
RefAlgebra(name, sets) ==
    CASE name = "sinter" -> {m \in Vals : \A i \in DOMAIN sets : m \in sets[i]}
      [] name = "sunion" -> UNION {sets[i] : i \in DOMAIN sets}
      [] name = "sdiff"  -> sets[1] \ UNION {sets[i] : i \in 2..Len(sets)}

\* Whether the loop of a set command gets as far as the key at position w
\* of line l: SUNION always does; SINTER and SDIFF have stopped when a key
\* before it is absent (SDIFF: only the first) or the result of the keys
\* before it is already empty.  Both results only shrink, so the result of
\* the whole prefix decides.
RefReaches(l, w) ==
    LET pre == [i \in 1..(w - 2) |-> OrNone(GetAsSet(ks, l[i + 1]))]
    IN \/ w = 2
       \/ l[1] = "sunion"
       \/ /\ l[1] = "sinter"
          /\ \A i \in 2..(w - 1) : GetAsSet(ks, l[i]) # NIL
          /\ RefAlgebra("sinter", pre) # {}
       \/ /\ l[1] = "sdiff"
          /\ GetAsSet(ks, l[2]) # NIL
          /\ RefAlgebra("sdiff", pre) # {}

(* When none of their keys holds another type, SINTER, SUNION and SDIFF    *)
(* answer the intersection, union and difference of the sets, an absent   *)
(* key counting as the empty set, although their loops return early on    *)
(* an absent key or an empty intermediate result (spec section "Set").    *)
(* When one does, they answer WRONGTYPE exactly when the loop gets to the  *)
(* first such key, and otherwise the empty array of the early return: a   *)
(* WRONGTYPE key behind an absent one goes unreported.  SMEMBERS, SCARD    *)
(* and SISMEMBER answer the set, its size and membership.                  *)
SetReadsFollowSpec ==
    \A l \in ReadLines :
        LET sets == [i \in 1..(Len(l) - 1) |-> OrNone(GetAsSet(ks, l[i + 1]))]
            bad == {i \in 2..Len(l) : GetAsSet(ks, l[i]) = WRONGTYPE}
        IN /\ (l[1] \in {"sinter", "sunion", "sdiff"} /\ bad = {})
              => Answer(ks, l) = MembersReply(RefAlgebra(l[1], sets))
           /\ (l[1] \in {"sinter", "sunion", "sdiff"} /\ bad # {})
              => Answer(ks, l) = IF RefReaches(l, CHOOSE w \in bad : \A i \in bad : w <= i)
                                 THEN WrongTypeReply ELSE MembersReply({})
           /\ (l[1] \in {"smembers", "scard", "sismember"} /\ GetAsSet(ks, l[2]) # WRONGTYPE)
              => Answer(ks, l) = CASE l[1] = "smembers" -> MembersReply(sets[1])
                                   [] l[1] = "scard" -> IntReply(Cardinality(sets[1]))
                                   [] l[1] = "sismember" -> IntReply(IF l[3] \in sets[1] THEN 1 ELSE 0)

=============================================================================
