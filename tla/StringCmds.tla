------------------------------ MODULE StringCmds ------------------------------
(***************************************************************************)
(* The mutating string executors of database/string.go.  Each takes the    *)
(* keyspace of the selected DB and the arguments (the command name already *)
(* stripped) and gives Result(new keyspace, called addAof).  The           *)
(* byte-level commands APPEND and SETRANGE are not modelled: a stored      *)
(* string is an opaque value here.                                         *)
(***************************************************************************)
EXTENDS Keyspace

\* The NX/XX option loop of execSet; "syntax" is SyntaxErrReply.
SetPolicy(opts) ==
    FoldLeft(LAMBDA p, o :
                IF p = "syntax" THEN p
                ELSE IF o = "NX" THEN IF p = "update" THEN "syntax" ELSE "insert"
                ELSE IF o = "XX" THEN IF p = "insert" THEN "syntax" ELSE "update"
                ELSE "syntax",
             "upsert", opts)

\* execSet: the option errors return early; otherwise the write follows the
\* policy, and addAof is called whatever PutIfAbsent/PutIfExists returned.
ExecSet(ks, args) ==
    LET k == args[1]
        policy == SetPolicy(SubSeq(args, 3, Len(args)))
        written == CASE policy = "upsert" -> PutEntity(ks, k, Str(args[2]))
                     [] policy = "insert" ->
                            IF k \in DOMAIN ks THEN ks ELSE PutEntity(ks, k, Str(args[2]))
                     [] policy = "update" ->
                            IF k \in DOMAIN ks THEN PutEntity(ks, k, Str(args[2])) ELSE ks
    IN IF policy = "syntax" THEN NoEffect(ks) ELSE Result(written, TRUE)

\* execSetNX: PutIfAbsent, and addAof whatever it returned.
ExecSetNX(ks, args) ==
    LET k == args[1]
    IN Result(IF k \in DOMAIN ks THEN ks ELSE PutEntity(ks, k, Str(args[2])), TRUE)

\* The key/value pairs of an MSET-style argument list, in order.
Pairs(args) == [i \in 1..(Len(args) \div 2) |-> <<args[2*i - 1], args[2*i]>>]

\* execMSet: an odd argument count is a syntax error; otherwise PutEntity
\* each pair in turn (a repeated key keeps its last value) and addAof.
ExecMSet(ks, args) ==
    IF Len(args) % 2 # 0 THEN NoEffect(ks)
    ELSE Result(FoldLeft(LAMBDA s, p : PutEntity(s, p[1], Str(p[2])), ks, Pairs(args)),
                TRUE)

\* execMSetNX: returns 0 without logging if any key exists, else as MSET.
ExecMSetNX(ks, args) ==
    IF Len(args) % 2 # 0 \/ \E i \in DOMAIN Pairs(args) : Pairs(args)[i][1] \in DOMAIN ks
    THEN NoEffect(ks)
    ELSE ExecMSet(ks, args)

(***************************************************************************)
(* The read-modify-write executors read the key with getAsString and then  *)
(* write it with PutEntity: two separate dict operations.  Each is given   *)
(* by the value `read` its read returned, so that the server can run the    *)
(* read and the write as two steps.                                        *)
(***************************************************************************)

\* The common shape of execIncr/execDecr/execIncrBy/execDecrBy: a stored
\* value is parsed and `delta` added (wrapping); an absent key is seeded
\* with `seed`; both paths PutEntity and addAof.
ExecAddTo(ks, k, delta, seed, read) ==
    CASE read = WRONGTYPE -> NoEffect(ks)
      [] read = NIL -> Result(PutEntity(ks, k, Str(seed)), TRUE)
      [] ~IsInteger(read) -> NoEffect(ks)
      [] OTHER -> Result(PutEntity(ks, k, Str(WrapAdd(read, delta))), TRUE)

\* execIncr: val+1, or "1" for an absent key.
ExecIncr(ks, args, read) == ExecAddTo(ks, args[1], 1, 1, read)

\* execDecr: val-1, or "-1" for an absent key.
ExecDecr(ks, args, read) == ExecAddTo(ks, args[1], -1, -1, read)

\* execIncrBy: the delta must parse first; an absent key stores args[1]
\* itself, i.e. the delta.
ExecIncrBy(ks, args, read) ==
    IF ~IsInteger(args[2]) THEN NoEffect(ks)
    ELSE ExecAddTo(ks, args[1], args[2], args[2], read)

\* execDecrBy: val-delta; an absent key stores FormatInt(-delta), where the
\* negation wraps at the int64 minimum.
ExecDecrBy(ks, args, read) ==
    IF ~IsInteger(args[2]) THEN NoEffect(ks)
    ELSE ExecAddTo(ks, args[1], -args[2], WrapNeg(args[2]), read)

\* execGetSet: PutEntity the new value; returns the nil reply *before*
\* calling addAof when the key was absent.
ExecGetSet(ks, args, read) ==
    CASE read = WRONGTYPE -> NoEffect(ks)
      [] read = NIL -> Result(PutEntity(ks, args[1], Str(args[2])), FALSE)
      [] OTHER -> Result(PutEntity(ks, args[1], Str(args[2])), TRUE)

\* Commands whose executor is a read followed by a separate write.
ReadModifyWrite == {"incr", "decr", "incrby", "decrby", "getset"}

\* The write half of a read-modify-write command, given what its read saw.
ExecRMW(name, ks, args, read) ==
    CASE name = "incr"   -> ExecIncr(ks, args, read)
      [] name = "decr"   -> ExecDecr(ks, args, read)
      [] name = "incrby" -> ExecIncrBy(ks, args, read)
      [] name = "decrby" -> ExecDecrBy(ks, args, read)
      [] name = "getset" -> ExecGetSet(ks, args, read)

=============================================================================
