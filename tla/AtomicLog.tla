------------------------------ MODULE AtomicLog ------------------------------
(***************************************************************************)
(* What append-only persistence promises (spec sections 4.3 and 5), with   *)
(* none of its mechanism: every write is applied to memory and appended to *)
(* one log in the same atomic step, the durable prefix of the log grows    *)
(* one entry at a time, a crash forgets the entries not yet durable, and   *)
(* a restart rebuilds memory by executing the durable log.  Memory is     *)
(* therefore always the execution of the log.  AofServer.tla refines this *)
(* specification (see AofServer's AtomicLogSpec).                          *)
(***************************************************************************)
EXTENDS MudisDB

CONSTANTS
    Lines       \* the command lines that may be written

VARIABLES
    mem,        \* the DBs in memory
    log,        \* the entries written so far: [line, db] in order
    durable,    \* how many entries of log are on disk
    up          \* the server is running

absVars == <<mem, log, durable, up>>

Entry == [line : Lines, db : DBIndex]

\* Executing entry e, or a whole log, on DBs: the line runs in the entry's
\* own DB, as StandaloneDatabase.Exec would run it there.
RunEntry(dbs, e) == StandaloneExec(dbs, e.db, e.line, ReplayPick(dbs, e.db, e.line)).dbs
RunLog(dbs, entries) == FoldLeft(RunEntry, dbs, entries)

AbsInit ==
    /\ mem = EmptyDBs
    /\ log = <<>>
    /\ durable = 0
    /\ up = TRUE

\* A write: memory becomes what executing the new entry gives.
Write(e) ==
    /\ up
    /\ log' = Append(log, e)
    /\ mem' = RunEntry(mem, e)
    /\ UNCHANGED <<durable, up>>

\* The next entry reaches the disk.
Persist ==
    /\ up /\ durable < Len(log)
    /\ durable' = durable + 1
    /\ UNCHANGED <<mem, log, up>>

\* The process stops: the entries not yet durable are gone.
Crash ==
    /\ up
    /\ up' = FALSE
    /\ log' = SubSeq(log, 1, durable)
    /\ UNCHANGED <<mem, durable>>

\* The process starts again with the execution of the durable log.
Recover ==
    /\ ~up
    /\ up' = TRUE
    /\ mem' = RunLog(EmptyDBs, log)
    /\ UNCHANGED <<log, durable>>

AbsNext ==
    \/ \E e \in Entry : Write(e)
    \/ Persist
    \/ Crash
    \/ Recover

\* Writing to disk is not postponed forever while the server runs.
AbsSpec == AbsInit /\ [][AbsNext]_absVars /\ WF_absVars(Persist)

=============================================================================
