------------------------------- MODULE MudisDB -------------------------------
(***************************************************************************)
(* The command-execution engine of Mudis: the registry and arity check of  *)
(* database/command.go and db.go, the executors of StringCmds, ListCmds    *)
(* and SetCmds, the SELECT special case of database/standalone_database.go *)
(* and the replay of an append-only file (aof/aof.go LoadAof) as a fold of *)
(* that same dispatch over the file.  The concurrent server in             *)
(* AofServer.tla uses these operators for its steps, so live execution and *)
(* replay share one definition, as they share StandaloneDatabase.Exec in   *)
(* the code.  A command line is a sequence whose first element is the      *)
(* lower-case command name.                                                *)
(***************************************************************************)
EXTENDS StringCmds, ListCmds, SetCmds

(***************************************************************************)
(* The registry: the init() functions of string.go, list.go, set.go and   *)
(* ping.go, RegisterCommand lower-casing the name.  APPEND and SETRANGE    *)
(* (byte-level) are left out, so no modelled command line names them.     *)
(***************************************************************************)
StringTable ==
    ("set" :> -3) @@ ("setnx" :> 3) @@ ("mset" :> -3) @@ ("mget" :> -2)
    @@ ("msetnx" :> -3) @@ ("get" :> 2) @@ ("getset" :> 3) @@ ("incr" :> 2)
    @@ ("incrby" :> 3) @@ ("decr" :> 2) @@ ("decrby" :> 3) @@ ("strlen" :> 2)
    @@ ("getrange" :> 4)

ListTable ==
    ("lpush" :> -3) @@ ("lpushx" :> -3) @@ ("rpush" :> -3) @@ ("rpushx" :> -3)
    @@ ("lpop" :> 2) @@ ("rpop" :> 2) @@ ("rpoplpush" :> 3) @@ ("lrem" :> 4)
    @@ ("llen" :> 2) @@ ("lindex" :> 3) @@ ("lset" :> 4) @@ ("lrange" :> 4)

SetTable ==
    ("sadd" :> -3) @@ ("sismember" :> 3) @@ ("srem" :> -3) @@ ("spop" :> -2)
    @@ ("scard" :> 2) @@ ("smembers" :> 2) @@ ("sinter" :> -2)
    @@ ("sinterstore" :> -3) @@ ("sunion" :> -2) @@ ("sunionstore" :> -3)
    @@ ("sdiff" :> -2) @@ ("sdiffstore" :> -3) @@ ("srandmember" :> -2)

CmdTable == StringTable @@ ListTable @@ SetTable @@ ("ping" :> -1)

\* The registered commands that only read.
ReadOnly == {"get", "mget", "strlen", "getrange", "llen", "lindex", "lrange",
             "sismember", "scard", "smembers", "sinter", "sunion", "sdiff",
             "srandmember", "ping"}

\* validateArity: exact when arity >= 0, a minimum otherwise; the count
\* includes the command name.
ValidateArity(arity, line) ==
    IF arity >= 0 THEN Len(line) = arity ELSE Len(line) >= -arity

\* DB.Exec's call of the executor of a registered command, run atomically;
\* pick is what RandomDistinctMembers returned, for SPOP.
Execute(name, ks, args, pick) ==
    CASE name = "set"       -> ExecSet(ks, args)
      [] name = "setnx"     -> ExecSetNX(ks, args)
      [] name = "mset"      -> ExecMSet(ks, args)
      [] name = "msetnx"    -> ExecMSetNX(ks, args)
      [] name \in ReadModifyWrite -> ExecRMW(name, ks, args, GetAsString(ks, args[1]))
      [] name = "lpush"     -> ExecLPush(ks, args)
      [] name = "rpush"     -> ExecRPush(ks, args)
      [] name = "lpushx"    -> ExecLPushX(ks, args)
      [] name = "rpushx"    -> ExecRPushX(ks, args)
      [] name = "lpop"      -> ExecLPop(ks, args)
      [] name = "rpop"      -> ExecRPop(ks, args)
      [] name = "lrem"      -> ExecLRem(ks, args)
      [] name = "lset"      -> ExecLSet(ks, args)
      [] name = "rpoplpush" -> ExecRPopLPush(ks, args)
      [] name = "sadd"      -> ExecSAdd(ks, args)
      [] name = "srem"      -> ExecSRem(ks, args)
      [] name = "spop"      -> ExecSPop(ks, args, pick)
      [] name = "sinterstore" -> ExecSInterStore(ks, args)
      [] name = "sunionstore" -> ExecSUnionStore(ks, args)
      [] name = "sdiffstore"  -> ExecSDiffStore(ks, args)
      [] name \in ReadOnly  -> NoEffect(ks)

(***************************************************************************)
(* StandaloneDatabase.Exec: SELECT bypasses the registry; any other        *)
(* command runs in the connection's selected DB through DB.Exec.  The      *)
(* result also gives the new selected index of the connection.  An index   *)
(* below zero passes execSelect (it only checks dbIndex >= len) and then   *)
(* mdb.dbSet[dbIndex] panics; the deferred recover turns that into an      *)
(* UnknownErrReply with no state change.                                   *)
(***************************************************************************)
\* The kinds of outcome the dispatch distinguishes before an executor runs.
Dispatch(sel, line) ==
    LET name == line[1] IN
    CASE name = "select" ->
            IF Len(line) = 2 /\ IsInteger(line[2]) /\ line[2] < NumDBs
            THEN "select" ELSE "error"
      [] sel >= NumDBs \/ sel < 0 -> "error"
      [] name \notin DOMAIN CmdTable -> "error"
      [] ~ValidateArity(CmdTable[name], line) -> "error"
      [] OTHER -> "execute"

\* The whole of StandaloneDatabase.Exec on DB state dbs for a connection
\* that has selected sel.
StandaloneExec(dbs, sel, line, pick) ==
    CASE Dispatch(sel, line) = "select" ->
            [dbs |-> dbs, sel |-> line[2], aof |-> FALSE]
      [] Dispatch(sel, line) = "error" ->
            [dbs |-> dbs, sel |-> sel, aof |-> FALSE]
      [] OTHER ->
            LET r == Execute(line[1], dbs[sel], Tail(line), pick)
            IN [dbs |-> [dbs EXCEPT ![sel] = r.ks], sel |-> sel, aof |-> r.aof]

\* The outcomes of the random member choice of a line run on dbs: the
\* SPOP picks, or the single "nothing picked" of any other line.
Picks(dbs, sel, line) ==
    IF Dispatch(sel, line) = "execute" /\ line[1] = "spop"
    THEN SPopPicks(dbs[sel], Tail(line)) ELSE {{}}

\* A freshly constructed StandaloneDatabase: NumDBs empty dicts.
EmptyDBs == [i \in DBIndex |-> EmptyKeyspace]

\* The frame the AOF worker writes before an entry of another DB.
SelectLine(i) == <<"select", i>>

(***************************************************************************)
(* LoadAof: each frame of the file is executed by StandaloneDatabase.Exec  *)
(* on a FakeConn whose selected index starts at 0; error replies are only  *)
(* logged.  Every frame is a well-formed multi-bulk here (the writer only  *)
(* writes whole frames), so the parse-error branches never apply.  Replay *)
(* draws its own random SPOP members: ReplayPick is one fixed outcome of   *)
(* that draw.                                                              *)
(***************************************************************************)
ReplayPick(dbs, sel, line) == CHOOSE p \in Picks(dbs, sel, line) : TRUE

ReplayFrom(start, lines) ==
    FoldLeft(LAMBDA s, l : LET r == StandaloneExec(s.dbs, s.sel, l,
                                                   ReplayPick(s.dbs, s.sel, l))
                           IN [dbs |-> r.dbs, sel |-> r.sel],
             start, lines)

Replay(lines) == ReplayFrom([dbs |-> EmptyDBs, sel |-> 0], lines)

=============================================================================
