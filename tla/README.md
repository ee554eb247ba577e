# TLA+ models of Mudis

This directory holds the TLA+ models of the Mudis server (a Redis-compatible key-value store written in Go, under `src/`). There are three kinds of file:

- the modules (`*.tla`);
- the TLC configurations that check them (`*.cfg`);
- `PROJECT.json`, which lists the components, the runs and their mutants, the map from each definition to the Go lines it translates, the findings, and the hazards.

## 1. The system

| Part | Source | State | Operations |
|------|--------|-------|------------|
| ConcurrentStore | `database/db.go` (the sharded `dict.MakeConcurrent` itself is not in this tree) | per DB: key → `DataEntity` | `GetEntity`, `PutEntity`, `PutIfAbsent`, `PutIfExists`, `Remove`; each call is atomic on its shard |
| DatabaseEngine + CommandRegistry | `database/standalone_database.go`, `db.go`, `command.go`, `ping.go` | `dbSet` (N DBs), `cmdTable`, each connection's `selectedDB` | `Exec`: the SELECT special case; otherwise a table lookup, `validateArity`, the executor. A panic is recovered into `UnknownErrReply` |
| String, list and set executors | `database/string.go`, `list.go`, `set.go` | the entities | one function per command; a mutating one calls `db.addAof(line)` |
| LinkedList | `datastruct/list/linked.go` | nodes, first, last, size | Add, Insert, Remove, RemoveLast, Set, and the three remove-by-value walks; find, Get, ForEach and Range read. No lock: callers on two connections share one list |
| AOFPersistence | `aof/aof.go` | `aofChan` (capacity 65536), `currentDB`, `pausingAof`, the file | see the three flows below |
| RESP server | `resp/handler/handler.go`, `resp/connection/conn.go`, `tcp/server.go` | the connections | a goroutine per connection runs `Handle`: it parses frames, calls `db.Exec` and writes the reply. Shutdown closes the connections and calls `db.Close` |
| Cluster | `cluster/*.go`, `resp/handler/handler.go` (`MakeHandler`) | each node's own standalone engine, its router, one connection pool per peer | `ClusterDatabase.Exec` looks the command up in the router: `defaultFunc` relays to the key's owner (`PickNode`), `Rename` checks both keys are on one node, DEL/FLUSHDB broadcast to every node. `relay` to self runs the local engine; to a peer it borrows a pooled connection, sends, and returns the connection |
| Reply encoding | `resp/reply` | none | `ToBytes` of each reply type; an empty `BulkReply` is written as `$-1` with no CRLF |
| Echo server | `tcp/echo.go`, `database/echo_database.go` | none | a demo handler |

The AOF flows are:

- **AddAof:** send a payload on `aofChan`. The send blocks while the channel is full.
- **handleAof:** one goroutine takes each payload. It writes `SELECT i` when the payload's DB differs from `currentDB`, then writes the command.
- **LoadAof:** at startup, replay the file through `Exec` on a `FakeConn`. This happens before `addAof` is wired up.

How the parts interact:

- Every connection's goroutine runs executors concurrently on the shared DBs.
- An executor's dict operations are atomic one at a time, but the executor as a whole is not.
- After its writes, an executor enqueues its own command line, tagged with the DB's index.
- The single worker writes the queue to the file in FIFO order.
- On restart, the file is the only state that survives, and replaying it must rebuild the DBs.
- In cluster mode every node is a `ClusterDatabase` (a node with peers, `MakeHandler`), so a command relayed to a peer goes through the peer's router again. Relays are synchronous: the work caused by one client command is a chain of calls across nodes, each holding a pooled connection while it waits.

## 2. Modules

| Module | Models |
|--------|--------|
| `Keyspace` | Entities (`Str`, `List`, `Set`), a keyspace as a function from the present keys, the dict operations, the typed getters (`GetAs*` returns the value, `NIL` or `WRONGTYPE`), and int64 wrap-around (`WrapAdd`, `IntBits` bits wide). |
| `StringCmds` | `execSet` (the NX/XX option fold `SetPolicy`), SETNX, MSET, MSETNX, and the read-modify-write commands INCR, DECR, INCRBY, DECRBY and GETSET. Each RMW is given the value its read returned (`read`), so the server can run the read and the write as two steps. |
| `ListCmds` | The LinkedList methods as sequence operators with 0-based indexes. `RemoveScan` is the RECURSIVE translation of `RemoveByVal`'s loop, including its `removed == count` test after every node. Also every mutating list executor, including RPOPLPUSH where source and destination are one list object. |
| `SetCmds` | SADD, SREM and SPOP. SPOP takes `pick`, the members `RandomDistinctMembers` returned, drawn by the caller from `SPopPicks`. The three `*STORE` commands are a fold over the source keys with the early exits of the Go loops (`InterStep`, `UnionStep`, `DiffStep`). |
| `MudisDB` | The registry tables, `ValidateArity`, `Execute` (DB.Exec's call of an executor), `Dispatch` and `StandaloneExec` (StandaloneDatabase.Exec with SELECT and the DB-range check), and `Replay` (LoadAof as a `FoldLeft` of `StandaloneExec` over the file). |
| `AofServer` | The concurrent server. Its variables and actions are described below. |
| `MC_AofServer` | Model values `k1 k2 a b` and the sets of command lines the runs draw from. |
| `AtomicLog` | The abstract promise of AOF persistence: one step applies a write to memory and appends it to a log; the durable prefix grows one entry at a time; a crash drops the rest; a restart rebuilds memory by executing the durable log (`RunLog`, a `FoldLeft` of `StandaloneExec`). |
| `Cluster` | The cluster layer. Its variables and actions are described below. |
| `ConcurrentExec` | The executors as the goroutines run them, one step per dict or LinkedList call: LPUSH, LPOP, SET and MSETNX in DB 0, with list objects on a heap. Its variables and actions are described below. |
| `MC_ConcurrentExec` | Model values `k1 k2 a b`, clients `c1 c2`, list objects `o1 o2 o3` (a symmetry set), and the line sets of its two runs (`RaceLines` joins the push and MSETNX races). |
| `Queries` | The read-only executors (GET, MGET, STRLEN, GETRANGE, LLEN, LINDEX, LRANGE, SISMEMBER, SCARD, SMEMBERS, SINTER, SUNION, SDIFF, SRANDMEMBER) and the byte-level APPEND and SETRANGE, with strings as byte sequences. A list is read through its node pointers (`Nodes`): `LLFind` is `find` with its walk from either end (`Hop`, RECURSIVE), `LLRange` is `Range`, with its loop over the nodes as `Collect`. Replies are the values their `ToBytes` encodes. The state machine is one DB: APPEND and SETRANGE change it, SRANDMEMBER draws a reply, and the deterministic reads are invariants over every reachable state. |
| `MC_Queries` | Keys `k1 k2`, values `a b`, bytes `{0, 1}`, indexes -4..3 and one non-integer argument, and the read, write and SRANDMEMBER lines. |
| `LinkedNodes` | `linked.go` statement by statement: Add, Insert(0), Remove(0) and RemoveLast (what LPUSH, RPUSH, LPOP and RPOP call) with removeNode, run by goroutines with no lock. Each pointer read or write is one step, `size++`/`size--` is a read then a write, and a nil dereference panics and is recovered (the goroutine goes idle). Values are left out. |
| `MC_LinkedNodes` | Goroutines `p1 p2`, nodes `x1 x2 x3`, and the initial list. |
| `MC_Cluster` | Two nodes `n1`, `n2` (each the other's only peer), `k1` owned by `n1` and `k2` by `n2`, clients `c1` and `c3` on `n1` and `c2` on `n2` (the DEL run uses `c1` alone), and the command lines. |

An entity is a one-field record named by its type (`[string |-> v]`, `[list |-> s]`, `[set |-> S]`), so that two keyspaces holding a key with different types can always be compared.

Every executor returns `Result(keyspace', calledAddAof)`. Live execution and replay share these operators, just as the code shares `StandaloneDatabase.Exec`.

### AofServer

**Variables:**

- `dbs`: the DBs.
- `sel`: each connection's selected DB.
- `pc`: where each client goroutine is: `idle`, `write` (between the two halves of a read-modify-write command), or `aof` (blocked on the channel send).
- `cur`, `old`, `pending`: the command in flight, what its read returned, and the payload being sent.
- `queue`: `aofChan`.
- `file`: the AOF frames. Each frame carries a ghost `db` field that records the DB it was written for.
- `currentDB`: the worker's `currentDB`.
- `readers`: read holds on `pausingAof` that were never released.
- `status`: running, crashed or stopped.
- The counters that bound a behaviour.

**Actions:**

- `Exec(c, l)`: Handle reads a line and runs `StandaloneExec`. For a read-modify-write command it does the read only. For SPOP, `\E pick` chooses the random members.
- `ExecWrite(c)`: the write half of a read-modify-write command, on the DB as it is now.
- `AddAof(c)`: the channel send. It is enabled only while `Len(queue) < QueueSize`.
- `HandleAof`: one loop iteration, with three disjuncts:
  - both writes succeed;
  - the SELECT write fails: `continue` without `RUnlock`, and the payload is dropped;
  - the command write fails.
- `Stop(kind)`: a crash, at any point, or a graceful stop, when every client is idle. Either way the queue is lost, because `StandaloneDatabase.Close` is empty.
- `Start`: `NewAOFHandler`. LoadAof replays the file into fresh DBs, and the worker restarts with `currentDB = 0`.
- `Done`: stutters once the bounded behaviour is over, so deadlock checking stays on.

### Refinement of AtomicLog

`AofServer` instantiates `AtomicLog` with this mapping:

- `mem` is `dbs`;
- `log` is the command frames of the file (the SELECT frames are dropped), then the payloads in `aofChan`, then the payloads clients are still sending;
- `durable` is the number of command frames in the file;
- `up` is `status = "running"`.

So an executor step is the abstract `Write`, a `HandleAof` step is `Persist`, `Stop` is `Crash`, and `Start` is `Recover`. `AddAof`, and the read half of a read-modify-write, are stuttering steps. The payloads being sent are put in an arbitrary order, which is exact with one client, as in `aof_recovery`.

### Cluster

**Variables:**

- `store`: each node's standalone DBs.
- `stk`: each client's chain of `cluster.Exec` calls. A frame has its node, the line, whether the router has run, the nodes still to relay to (`todo`), and the replies so far. The bottom frame is on the client's own node (`Home`).
- `inUse`, `created`: per ordered pair of nodes, the connections of that pool that are borrowed and that exist (go-commons-pool `MaxTotal` is `PoolSize`).
- `issued`, `dialFails`: bounds.

**Actions:**

- `Issue(c, l)`: the connection handler calls `cluster.Exec`.
- `RouteCmd(c)`: the router lookup and the handler up to its first relay (`Targets`: an error reply, or the nodes to relay to). ping runs on the node itself.
- `RelaySelf(c)`: relay to self, `cluster.db.Exec` on the node's engine. The engine registers no DEL, EXISTS, TYPE, RENAME or FLUSHDB, so these reply with an error (`LocalReply`).
- `Borrow(c)`: relay to a peer borrows an idle connection, or creates one while fewer than `PoolSize` exist, or blocks (the action is disabled). The peer starts a new frame with the same line.
- `DialFail(c)`: `MakeObject` fails; relay returns an error reply.
- `Return(c)`: a frame with nothing left to relay returns its aggregate (`Aggregate`: any error makes an error). The caller's deferred `returnPeerClient` gives the connection back.
- `Done`: stutters once `MaxCmds` commands have been issued.

The SELECT that `relay` sends before every command reaches the peer's router, which has no `select`. Its error reply is ignored and nothing changes, so it is not a step.

### ConcurrentExec

`AofServer` runs each executor's dict update as one step. `ConcurrentExec` splits it the way the code does: the executor holds no lock, so every call on the concurrent dict and every call on a `*LinkedList` is its own step.

**Variables:**

- `dict`: DB 0. A key maps to `Str(v)` or to `[list |-> o]`, a pointer to a list object.
- `heap`: the allocated list objects and their elements.
- `pc`, `cur`, `ptr`, `idx`: for each goroutine, where it is in its executor, its line, the list it holds and its loop position.
- `log`: the lines passed to `addAof`, in call order.
- `issued`: commands issued, bounded by `MaxCmds`.

`Mem` shows `dict` as the sequential model sees it, with each list by its content.

**Actions:**

- `Issue(c, l)`: DB.Exec hands line `l` to its executor.
- `PushGet`, `PushInit`, `PushInsert`: getOrInitList's `getAsList`, its creation of an empty list and the `PutEntity` of it, and one `Insert(0, v)` per value.
- `PopGet`, `PopRemove`, `PopCheck`: execLPop's `getAsList`, `Remove(0)`, and `if list.Len() == 0 { db.Remove(key) }`.
- `PopPanic`: `Remove(0)` on a list that became empty panics. StandaloneDatabase.Exec recovers the panic into an error reply, and nothing is logged.
- `SetPut`: a plain SET.
- `MSetNXCheck`, `MSetNXPut`: one iteration of MSETNX's check loop or put loop.
- `CallAddAof`: the executor's final `addAof`.
- `Done`: stutters once the bound is reached.

Each LinkedList call is taken as atomic here. This is one outcome of the unsynchronised code; `LinkedNodes` splits the calls themselves into their pointer and size updates.

## 3. Properties

| Property | Kind | Says |
|----------|------|------|
| `TypeOK` | invariant (ConcurrentExec, Cluster) | The variables have their types; in `Cluster` also `inUse <= created <= PoolSize` for every pool. `AofServer` has none: its one non-trivial clause, that `aofChan` never exceeds its capacity, restated `AddAof`'s guard, and a buffered channel cannot overfill. A send blocked for ever would be a deadlock, which every aof run checks. |
| `ReplayMatchesMemory` | invariant | Whenever nothing is in flight, replaying the file into a fresh engine gives exactly the DBs in memory. This is spec §8's round trip. It fails if any executor path mutates without logging, if a payload is lost, or if replay chooses the wrong DB. |
| `LogReplaysInOwnDb` | invariant | Each frame in the file replays in the DB it was executed in. This relates the file to the worker's `currentDB` across failed writes and restarts. |
| `NoEmptyContainer` | invariant | No DB holds an empty list or set (spec §3 lifecycle). |
| `PauseLockReleased` | invariant | handleAof releases every read hold on `pausingAof`. No run checks it now (see the findings). |
| `ShutdownDrainsQueue` | action property | A graceful stop happens only with an empty `aofChan` (spec §4.3). |
| `SelectedDbInRange` | invariant | A connection's DB index is always a valid DB (spec §4.2). No run checks it now: the first step of `SELECT -1` violates it (see the findings). |
| `AtomicLogSpec` | refinement, with liveness | `AofServer` implements `AtomicLog`: memory is always the execution of the (file + queue + sending) log, the file only grows while running, a stop loses exactly the unwritten payloads, LoadAof rebuilds exactly the file, and every queued payload is eventually written (`WF` of `Persist`). |
| `LogSerializes` | invariant (ConcurrentExec) | Whenever no command is in flight, replaying the logged lines in *some* order with the sequential executors gives exactly the memory. Every command then took effect whole. The order is left free because the write-before-log ordering gap (section 4) would otherwise fail it first. |
| `NoEmptyListAtRest` | invariant (ConcurrentExec) | Whenever no command is in flight, no key holds an empty list, even though getOrInitList publishes an empty list before pushing to it. |
| `KeysOnOwner` | invariant (Cluster) | A key is only ever stored on the node `PickNode` assigns it, whichever node a client sends to; otherwise a GET, routed to the owner, would miss the write. |
| `ListReadsFollowSpec` | invariant (Queries) | In every reachable keyspace, LRANGE, LINDEX and LLEN through `find`/`Range` over the node pointers answer what a Redis reference over the plain sequence says: negative indexes from the end, ranges clamped, an empty array when start is past the end or after stop, errors for WRONGTYPE and non-integers. |
| `GetRangeFollowsSpec` | invariant (Queries) | GETRANGE with inclusive, possibly negative bounds answers a bulk reply carrying the reference substring, and no bytes when the range is empty. It compares the bytes carried, not the encoding of the empty reply, which is a finding of its own. |
| `SetRangeFollowsSpec` | action property (Queries) | A SETRANGE at a valid offset on a string or absent key stores the old bytes padded with zero bytes to the offset and overwritten by the value (growing past the end), and answers the new length. |
| `SetReadsFollowSpec` | invariant (Queries) | SINTER, SUNION and SDIFF, with their early exits, answer the reference intersection, union or difference; an absent key is the empty set. When a key holds another type, they answer WRONGTYPE exactly when the loop gets that far (SUNION always; SINTER and SDIFF unless an earlier key is absent or the result of the earlier keys is empty), and otherwise the empty array: a WRONGTYPE key behind an absent one goes unreported. |
| `ListWellFormed` | invariant (LinkedNodes) | Whenever no goroutine is inside a method, following `next` from `first` meets exactly `size` nodes, ends at `last`, and every `prev` points back. |
| `EveryCommandAnswered` | liveness (Cluster) | Every command a client sends is eventually answered: relays return, connections come back to their pools, and no chain of relays waits on a connection held by the same chain. |

## 4. Runs

All `AofServer` runs use:

- the keys `k1`, `k2` and the values `a`, `b` as model values;
- `IntBits = 2`, so the counters wrap within -2..1 and the overflow edge is reachable;
- `QueueSize = 1`, so the full-channel case happens at once.

The real capacity is 65536. Nothing in the code depends on its size except when a send blocks.

### Passing runs

- **`aof_pipeline`** (`LogReplaysInOwnDb`):
  - two clients and two DBs;
  - the string, list, error, SELECT, GETSET and GET lines, plus SADD, SPOP and SINTERSTORE so that the set executors run concurrently too;
  - up to 3 commands and 1 failed write;
  - 169,879 distinct states.

  This run shows the interleavings of two producers with the single consumer and a failing file. Every command frame still replays in its own DB. A worker that set `currentDB` before a failed SELECT write (the mutant) would break this.
- **`aof_roundtrip`** (`ReplayMatchesMemory`, `NoEmptyContainer`):
  - one client, two keys and two DBs;
  - up to 5 commands: every modelled mutating command except GETSET, SPOP and the `*STORE`s, plus error lines and SELECT;
  - about 3.2 million distinct states, about 100 s.

  Five commands are enough to build a two-element list, run each LREM mode or RPOPLPUSH on it, and switch DB in between. The run is single-client so that the property isolates what each executor logs. Concurrency is exercised by `aof_pipeline` and `incr_lost_update`; no run checks `ReplayMatchesMemory` with two clients issuing plain writes, so the enqueue-order gap at the end of this section is not checked by a run.
- **`aof_recovery`** (`ReplayMatchesMemory`, `AtomicLogSpec`):
  - one DB;
  - up to 2 crashes or graceful stops, each followed by a restart that replays the file.

  The rebuilt state keeps matching the file across restarts. The run uses one DB because with two DBs the `currentDB` reset bug below breaks the property. It also checks `AtomicLogSpec`, the refinement with its liveness. The run has no write failures (`MaxWriteFails = 0`): a failed write drops a payload that memory already holds, which the abstract log does not allow, and `aof_pipeline` covers that path. About 158,000 distinct states, 15 s.
- **`cluster_routing`** (`TypeOK`, `KeysOnOwner`, `EveryCommandAnswered`):
  - two nodes; clients `c1` and `c3` on `n1` and `c2` on `n2`; at most 3 commands;
  - SET, SETNX, GETSET, GET and EXISTS on a local and a remote key; RENAME within a node and across nodes; a GET without a key; PING; LPUSH, which the router does not know;
  - `PoolSize = 1`, so when `c1` and `c3` both relay to `n2`, the second borrow waits for the first connection to come back; one failed dial;
  - 148,845 distinct states, about 45 s.

  Routing and the pool are correct for every single-key command: keys stay on their owners, and every command is answered.
- **`concurrent_lists`** (`TypeOK`, `NoEmptyListAtRest`):
  - `ConcurrentExec` with two clients, two keys and three list objects;
  - lines LPUSH k1, LPUSH k2, LPOP k1, SET k1 and MSETNX;
  - up to 3 commands;
  - 6,106 distinct states.

  No interleaving leaves an empty list under a key. A pop that empties a list removes the key, and a pop that finds the list emptied under it panics and is recovered. A `PopCheck` that forgot the removal (the mutant) would break this.

- **`queries`** (`ListReadsFollowSpec`, `GetRangeFollowsSpec`, `SetReadsFollowSpec`, `SetRangeFollowsSpec`):
  - one DB with keys `k1 k2`; the initial states are every keyspace of strings of up to 3 bytes over `{0, 1}`, non-empty lists of up to 3 values and non-empty sets over `{a, b}`;
  - APPEND and SETRANGE (offsets -1..3, values of up to 2 bytes, and a non-integer offset) change it, within strings of 3 bytes; SRANDMEMBER with no count and counts -2, 0, 2;
  - every read line is answered in every state: indexes -4..3 cover both signs, both ends and past both ends of every list and string;
  - 5,616 distinct states, about 15 s.

  The reads agree with Redis semantics everywhere in these bounds, including which WRONGTYPE keys the early returns of SINTER and SDIFF leave unreported. A `find` walking from the wrong end, an exclusive GETRANGE end, a SETRANGE loop that only overwrites, and an SDIFF that skips an absent first key (the mutants) each break one property.

### Violation runs

Each violation run checks one property, and each is a finding in `PROJECT.json`:

| Run | What TLC shows |
|-----|----------------|
| `restart_select` | After a restart the worker assumes DB 0 while the file ends after `SELECT 1`, so the next DB-0 SET replays into DB 1 (`aof.go:74`). |
| `incr_lost_update` | Two concurrent INCRs both read 0. Memory holds 1; the file replays to 2 (`string.go:198`). |
| `shutdown_queue` | A graceful stop with payloads still queued (`standalone_database.go:79`). |
| `write_race` | Two connections, each running LPUSH k1 or MSETNX k1 k2. TLC's shortest trace: two LPUSHes of the absent key both see it absent, and each puts a new list. The second list replaces the first and its value is lost, although both lines are logged: memory holds one element, and any replay holds two (`list.go:30`). |
| `linkedlist_race` | `LinkedNodes` with an RPUSH and an LPOP on the list `[x1]`. The pop unlinks `x1` (first and last become nil); the push then sees `last == nil` and makes its node the whole list; the two unlocked `size` read-modify-writes then leave `size` disagreeing with the one linked node (`linked.go:33`, `115`). With one goroutine the same bounds keep the list well formed. |
| `cluster_del_deadlock` | A DEL is broadcast, and the relayed DEL is broadcast again on the peer, back to the first node: `n1 → n2 → n1`, then `n1` needs its connection to `n2`, which the bottom of the same chain holds. The borrow blocks for ever (`com.go:19`, no timeout) and the client is never answered (`com.go:61`). With `PoolSize` p the chain is 2p + 1 frames deep before it stops; the default pool is finite, so it always stops. |

Nine findings have no run of their own. Seven are shown by a single command, so a unit test would show them too. The other two are shown by a run that was folded into another:

- GETSET on an absent key returns before `addAof` (`string.go:188`).
- `SELECT -1` passes `execSelect` (`standalone_database.go:92`); `SelectedDbInRange` states what should hold.
- SPOP of the last member leaves an empty set (`set.go:127`).
- SPOP logs the command, not the members it popped, so replay pops others (`set.go:133`).
- A `*STORE` whose source vanished removes the destination without logging (`set.go:224`, `308`, `379`, `389`).
- A failed SELECT write `continue`s past `RUnlock` (`aof.go:84`), leaking a read hold on `pausingAof`. One failed write shows it, and `PauseLockReleased` states what should hold.
- Two MSETNXes on the same keys both pass the check loop, and their put loops interleave (`string.go:162`). `write_race` with only the two MSETNX lines finds `k1=a, k2=a`, the outcome of no order of the two commands.
- A bulk of no bytes is sent as `$-1` with no CRLF (`reply.go:10`, `33`): neither the null bulk `$-1\r\n` nor the spec's `$0\r\n\r\n`. The client then reads the next reply as the rest of this frame. GETRANGE makes one whenever the normalised start equals the exclusive end: `GETRANGE k 1 0` on a two-byte string. A GET of an empty string set by a client does too; the parser that decides whether that slice is nil is not in this tree. An empty string APPEND or SETRANGE leaves is a nil slice, and GET answers it with the null bulk. `Queries` has the unterminated reply as a value of its own (`BulkReply`); one GETRANGE shows it.
- In cluster mode, DEL and FLUSHDB always answer an error even when their broadcast returns: relay to self runs the standalone engine, which registers neither (`LocalReply`).

Under `LogSerializes`, TLC also reaches two further list races, listed as hazards:

- an LPUSH that holds a list pointer inserts into a list that an LPOP has emptied and removed from the dict, so the value is lost;
- LPOP's `db.Remove(key)` removes whatever the key holds by then, for example a list another LPUSH has just created.

Another disagreement found while modelling is not a run, because it holds in single-client order and is a gap in the spec rather than a code error. Every executor writes the dict before it calls `addAof`. Two clients writing one key can therefore enqueue in the opposite order to their writes. The spec's FIFO promise covers enqueue order only.

## 5. Fairness

`Spec` assumes weak fairness of the following:

- `ExecWrite`: the second half of a command whose first half ran;
- `AddAof`: a send on a channel that has room;
- `HandleAof`: the worker taking a payload.

The Go runtime schedules runnable goroutines, and none of these steps waits on anything but the channel. Command arrival (`Exec`), crashes and restarts are not fair: clients may stop sending, and a process may never crash. `AtomicLogSpec` asks only for weak fairness of `Persist`, which the fairness of `AddAof` and `HandleAof` implies while the server runs.

`Cluster` assumes weak fairness of `RouteCmd`, `RelaySelf`, `Borrow` and `Return` for each client's chain. Each is a step of a connection goroutine on some node, waiting on nothing but a free connection. `Borrow` is only weakly fair: a borrow that is enabled on and off is not assumed to succeed, because go-commons-pool does not promise FIFO hand-over. `Issue` and `DialFail` are not fair.

## 6. What is abstracted or left out

- **Keyspaces.** A DB is a function from its present keys. Each dict call is one atomic update, which is what the sharded concurrent dict guarantees per call. That dict's source is not in this tree.
- **Values and frames.** Strings are opaque values or integers everywhere but `Queries`, where they are byte sequences over `{0, 1}` of up to 3 bytes. The values of `Queries` are immutable: that SETRANGE and APPEND write into a slice a concurrent reply still shares is a hazard no module reaches. Frames are written whole, so torn writes at a crash and the parser's skip of malformed frames are not modelled.
- **Read-only commands.** They are modelled in `Queries`, one DB and one connection at a time; in the other modules they are registered (so arity and dispatch are exact) and change no state. SMEMBERS, SINTER, SUNION and SDIFF answer in HashSet's iteration order (HashSet is not in this tree), modelled as the set of members.
- **Atomic steps.** In `AofServer`, each executor's update is one step. `ConcurrentExec` splits LPUSH, LPOP, SET and MSETNX into their dict and LinkedList calls. It does not split MSET, the other list executors or the set executors, whose races have the same form. Each LinkedList call stays atomic there. `LinkedNodes` takes the other outcome of that data race: Go gives it no semantics, and word-sized pointer and `size` reads and writes in some interleaving are what the build produces. It models the four methods the push and pop executors call; Set and the remove-by-value walks run under LSET and LREM, whose races have the same form.
- **Cluster.** `PickNode` (`lib/consistenthash`, not in this tree) is a constant function `Owner`. Replies are `ok` or `err`. Every connection stays on DB 0 (the relayed SELECT never reaches an engine). The `resp/client` package is not in this tree, so transport errors and timeouts of `Send` are not modelled; a relay waits for its reply.
- **Reply encoding.** A reply is the value its bytes encode, not the bytes. The empty bulk and the null bulk are different values because their bytes differ.
- **Dead and unused code.** The `undo*` functions of `list.go` are never referenced. `simple_dict.go` and `sync_dict_syncmap.go` are not used by the engine (`makeDB` calls `dict.MakeConcurrent`, which is not in this tree). Reading them shows that `SimpleDict.Keys` never advances its index and that `SyncDict.RandomDistinctKeys(0)` panics on a non-empty dict; neither is reachable from a command.
- **Out of scope.** The echo server is a demo.

## 7. Plan for later work

Work through these in order:

1. **More of the executors in `ConcurrentExec`.** Split MSET, RPOPLPUSH and the set executors. Check `LogSerializes` for them.
2. **LSET and LREM in `LinkedNodes`.** Add Set and the remove-by-value walks at the statement level, racing with the pushes and pops.
3. **Cluster with three nodes.** Check `KeysOnOwner` with a third node and larger pools, and a FLUSHDB broadcast, within the time limit.
4. **The cluster's recovery.** If the `resp/client` source becomes available, model its request timeout, and check that a timed-out relay never hands a connection with an unread reply back to the pool.
