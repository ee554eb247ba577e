---------------------------- MODULE MC_AofServer ----------------------------
(***************************************************************************)
(* Model values and command lines for checking AofServer.  Each .cfg picks *)
(* one of the command-line sets below.                                     *)
(***************************************************************************)
EXTENDS AofServer

CONSTANTS k1, k2, a, b

\* Writes of every kind the executors distinguish, on one key.
StringLines ==
    { <<"set", k1, a>>, <<"set", k1, b, "NX">>, <<"set", k1, 1, "XX">>,
      <<"setnx", k1, b>>, <<"incr", k1>>, <<"decr", k1>> }

ListLines == { <<"lpush", k1, a, b>>, <<"rpush", k1, a>>, <<"lpop", k1>>, <<"rpop", k1>> }

\* Lines rejected before an executor runs: unknown command, bad arity,
\* syntax error in the SET options, out-of-range SELECT.
ErrorLines == { <<"del", k1>>, <<"get">>, <<"set", k1, a, "NX", "XX">>, <<"select", 2>> }

SelectLines == { <<"select", 0>>, <<"select", 1>> }

\* The lines of the pipeline run: every executor, both DBs.
PipelineLines ==
    StringLines \cup ListLines \cup ErrorLines \cup SelectLines
        \cup { <<"getset", k1, a>>, <<"get", k1>>, <<"sadd", k1, a>>, <<"spop", k1>>,
                <<"sinterstore", k1, k1>> }

\* The lines of the round-trip runs: every mutating executor except GETSET.
RoundTripLines == StringLines \cup ListLines \cup ErrorLines \cup SelectLines

IncrLines == { <<"incr", k1>> }

\* Switching DB and writing there.
SwitchLines == { <<"select", 1>>, <<"set", k1, a>> }

\* The mutating commands on two keys: the counters with a delta, the
\* multi-key string writes, every list mode and the set writes whose
\* effect replay reproduces.
CollectionLines ==
    { <<"incrby", k1, 1>>, <<"decrby", k1, -2>>,
      <<"mset", k1, a, k2, b>>, <<"msetnx", k1, b, k2, a>>,
      <<"rpush", k1, a, b>>, <<"lpushx", k2, a>>, <<"rpushx", k1, b>>,
      <<"lrem", k1, 0, b>>, <<"lrem", k1, 1, a>>, <<"lrem", k1, -1, b>>,
      <<"lset", k1, -1, a>>, <<"rpoplpush", k1, k2>>, <<"rpoplpush", k1, k1>>,
      <<"sadd", k2, a, b>>, <<"srem", k2, a>> }

\* The round-trip run: both groups, both DBs.
AllRoundTripLines == RoundTripLines \cup CollectionLines

=============================================================================
