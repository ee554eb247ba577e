------------------------------- MODULE Cluster -------------------------------
(***************************************************************************)
(* Mudis in cluster mode (cluster/*.go): every node runs a ClusterDatabase *)
(* over its own standalone engine; a command is looked up in the cluster   *)
(* router, and routed to the node PickNode gives for its key, refused, or  *)
(* broadcast to every node.  A node reaches a peer by borrowing a          *)
(* connection from its pool for that peer and sending the command over it; *)
(* the peer handles it with its own ClusterDatabase.Exec (handler.go      *)
(* MakeHandler: a node with peers is a cluster node), so a relayed command *)
(* goes through the router again on the peer.                              *)
(*                                                                         *)
(* Relay is synchronous, so the work caused by one client command is a     *)
(* call stack whose frames may sit on different nodes: stk[c] holds it,    *)
(* one frame per cluster.Exec in progress, the bottom one on the client's  *)
(* own node.  A frame that relays to a peer holds one connection of its   *)
(* node's pool for that peer until the peer's frame returns.  The SELECT   *)
(* frame relay sends first reaches the peer's router, which has no        *)
(* "select": its error reply is ignored and nothing changes, so it is not  *)
(* a step here; for the same reason every connection stays on DB 0.       *)
(* Replies are abstracted to "ok" and "err".                               *)
(***************************************************************************)
EXTENDS MudisDB, FiniteSets

CONSTANTS
    Nodes,          \* node addresses (model values)
    Peers,          \* config.Properties.Peers of each node, in order
    Owner,          \* PickNode: the node of the consistent-hash ring owning a key
    Clients,        \* client connections (model values)
    Home,           \* the node each client is connected to
    CmdLines,       \* the command lines clients send
    PoolSize,       \* MaxTotal of each peer connection pool
    MaxCmds,        \* bound on commands issued in a behaviour
    MaxDialFails    \* bound on failed connection creations (MakeObject)

ASSUME /\ Owner \in [Keys -> Nodes] /\ Home \in [Clients -> Nodes]
       /\ \A n \in Nodes : Peers[n] \in Seq(Nodes \ {n})
       /\ PoolSize \in Nat \ {0}

VARIABLES
    store,      \* each node's StandaloneDatabase: DB index -> keyspace
    stk,        \* each client's chain of cluster.Exec calls, across nodes
    inUse,      \* connections of pool n -> p that are borrowed
    created,    \* connections of pool n -> p that exist
    issued,     \* commands issued so far (bounded by MaxCmds)
    dialFails   \* failed connection creations so far

vars == <<store, stk, inUse, created, issued, dialFails>>

Reply == {"ok", "err"}

\* One cluster.Exec in progress at node `node`: `routed` once the router
\* has run, `todo` the nodes it has still to relay to, `replies` the
\* replies collected so far.
Frame == [node : Nodes, line : CmdLines, routed : BOOLEAN,
          todo : Seq(Nodes), replies : Seq(Reply)]

NewFrame(n, l) == [node |-> n, line |-> l, routed |-> FALSE, todo |-> <<>>, replies |-> <<>>]

\* cluster.nodes of node n (MakeClusterDatabase): its peers, then itself.
NodeList(n) == Peers[n] \o <<n>>

\* makeRouter: the handler each command name is routed to.
Router ==
    ("ping" :> "ping") @@ ("del" :> "broadcast") @@ ("exists" :> "default")
    @@ ("type" :> "default") @@ ("rename" :> "rename") @@ ("renamenx" :> "rename")
    @@ ("set" :> "default") @@ ("setnx" :> "default") @@ ("get" :> "default")
    @@ ("getset" :> "default") @@ ("flushdb" :> "broadcast")

(***************************************************************************)
(* What the routed handler of line at node n does first: reply with an     *)
(* error at once (err), or relay to the nodes of todo in order.  ping runs *)
(* cluster.db.Exec, the same as relaying to self; defaultFunc reads        *)
(* args[1] without a length check, and the panic of a line without a key  *)
(* is recovered by Exec into an error reply.                               *)
(***************************************************************************)
Route(err, todo) == [err |-> err, todo |-> todo]

\* defaultFunc: relay to PickNode(args[1]).
DefaultRoute(l) ==
    IF Len(l) < 2 THEN Route(TRUE, <<>>) ELSE Route(FALSE, <<Owner[l[2]]>>)

\* Rename: three arguments, and both keys on one node, else an error.
RenameRoute(l) ==
    IF Len(l) # 3 \/ Owner[l[2]] # Owner[l[3]] THEN Route(TRUE, <<>>)
    ELSE Route(FALSE, <<Owner[l[2]]>>)

\* Mutant: single-key commands are run on the node the command came in on.
TargetsLocal(n, l) ==
    CASE l[1] \notin DOMAIN Router -> Route(TRUE, <<>>)
      [] Router[l[1]] = "ping" -> Route(FALSE, <<n>>)
      [] Router[l[1]] = "default" ->
            IF Len(l) < 2 THEN Route(TRUE, <<>>) ELSE Route(FALSE, <<n>>)
      [] Router[l[1]] = "rename" -> RenameRoute(l)
      [] Router[l[1]] = "broadcast" -> Route(FALSE, NodeList(n))

\* cluster.Exec: an unknown name is an error reply; ping runs on the node
\* itself; Del and FlushDB broadcast, relaying to every node of
\* cluster.nodes in order.
Targets(n, l) ==
    CASE l[1] \notin DOMAIN Router -> Route(TRUE, <<>>)
      [] Router[l[1]] = "ping" -> Route(FALSE, <<n>>)
      [] Router[l[1]] = "default" -> DefaultRoute(l)
      [] Router[l[1]] = "rename" -> RenameRoute(l)
      [] Router[l[1]] = "broadcast" -> Route(FALSE, NodeList(n))

\* Del and FlushDB: an error reply from any node makes the aggregate an
\* error; a single relayed reply is passed on as it is.
Aggregate(replies) == IF \E i \in DOMAIN replies : replies[i] = "err" THEN "err" ELSE "ok"

\* The reply of the local StandaloneDatabase.Exec: an error for a command
\* it does not register (DEL, EXISTS, TYPE, RENAME, FLUSHDB among them) or
\* with a wrong arity.
LocalReply(l) == IF Dispatch(0, l) = "error" THEN "err" ELSE "ok"

Top(c) == stk[c][Len(stk[c])]
SetTop(c, f) == [stk EXCEPT ![c] = [@ EXCEPT ![Len(@)] = f]]

TypeOK ==
    /\ DOMAIN store = Nodes
    /\ \A n \in Nodes : DOMAIN store[n] = DBIndex /\ \A i \in DBIndex : IsKeyspace(store[n][i])
    /\ stk \in [Clients -> Seq(Frame)]
    /\ inUse \in [Nodes -> [Nodes -> 0..PoolSize]]
    /\ created \in [Nodes -> [Nodes -> 0..PoolSize]]
    /\ \A n, p \in Nodes : inUse[n][p] <= created[n][p]
    /\ issued \in 0..MaxCmds /\ dialFails \in 0..MaxDialFails

Init ==
    /\ store = [n \in Nodes |-> EmptyDBs]
    /\ stk = [c \in Clients |-> <<>>]
    /\ inUse = [n \in Nodes |-> [p \in Nodes |-> 0]]
    /\ created = [n \in Nodes |-> [p \in Nodes |-> 0]]
    /\ issued = 0 /\ dialFails = 0

\* The client's connection handler reads a command and calls cluster.Exec.
Issue(c, l) ==
    /\ stk[c] = <<>> /\ issued < MaxCmds
    /\ stk' = [stk EXCEPT ![c] = <<NewFrame(Home[c], l)>>]
    /\ issued' = issued + 1
    /\ UNCHANGED <<store, inUse, created, dialFails>>

\* cluster.Exec looks the command up in the router and runs its handler
\* up to the first relay.
RouteCmd(c) ==
    /\ stk[c] # <<>> /\ ~Top(c).routed
    /\ LET r == Targets(Top(c).node, Top(c).line)
       IN stk' = SetTop(c, [Top(c) EXCEPT !.routed = TRUE, !.todo = r.todo,
                            !.replies = IF r.err THEN <<"err">> ELSE <<>>])
    /\ UNCHANGED <<store, inUse, created, issued, dialFails>>

\* relay to self: cluster.db.Exec runs the command on the node's own engine.
RelaySelf(c) ==
    /\ stk[c] # <<>> /\ Top(c).routed /\ Top(c).todo # <<>>
    /\ Head(Top(c).todo) = Top(c).node
    /\ LET f == Top(c) IN
       \E pick \in Picks(store[f.node], 0, f.line) :
          /\ store' = [store EXCEPT ![f.node] = StandaloneExec(@, 0, f.line, pick).dbs]
          /\ stk' = SetTop(c, [f EXCEPT !.todo = Tail(@),
                                        !.replies = Append(@, LocalReply(f.line))])
    /\ UNCHANGED <<inUse, created, issued, dialFails>>

(***************************************************************************)
(* relay to a peer p: getPeerClient borrows from pool n -> p.  An idle     *)
(* connection is handed out; otherwise a new one is made while fewer than  *)
(* PoolSize exist, and that MakeObject may fail (the peer cannot be        *)
(* dialled), which relay returns as an error reply; otherwise the borrow   *)
(* blocks until a connection is returned.  With a connection the command   *)
(* is sent, and the peer starts handling it.                               *)
(***************************************************************************)
\* Mutant: every borrow makes a new connection, idle ones are never reused.
BorrowAlwaysNew(c) ==
    /\ stk[c] # <<>> /\ Top(c).routed /\ Top(c).todo # <<>>
    /\ LET n == Top(c).node
           p == Head(Top(c).todo)
       IN /\ p # n
          /\ inUse[n][p] < PoolSize
          /\ inUse' = [inUse EXCEPT ![n][p] = @ + 1]
          /\ created' = [created EXCEPT ![n][p] = @ + 1]
          /\ stk' = [stk EXCEPT ![c] = Append(@, NewFrame(p, Top(c).line))]
    /\ UNCHANGED <<store, issued, dialFails>>

Borrow(c) ==
    /\ stk[c] # <<>> /\ Top(c).routed /\ Top(c).todo # <<>>
    /\ LET n == Top(c).node
           p == Head(Top(c).todo)
       IN /\ p # n
          /\ inUse[n][p] < PoolSize
          /\ inUse' = [inUse EXCEPT ![n][p] = @ + 1]
          /\ created' = [created EXCEPT ![n][p] = IF inUse[n][p] < @ THEN @ ELSE @ + 1]
          /\ stk' = [stk EXCEPT ![c] = Append(@, NewFrame(p, Top(c).line))]
    /\ UNCHANGED <<store, issued, dialFails>>

DialFail(c) ==
    /\ stk[c] # <<>> /\ Top(c).routed /\ Top(c).todo # <<>>
    /\ LET n == Top(c).node
           p == Head(Top(c).todo)
       IN /\ p # n
          /\ inUse[n][p] = created[n][p] /\ created[n][p] < PoolSize
          /\ dialFails < MaxDialFails
          /\ dialFails' = dialFails + 1
          /\ stk' = SetTop(c, [Top(c) EXCEPT !.todo = Tail(@), !.replies = Append(@, "err")])
    /\ UNCHANGED <<store, inUse, created, issued>>

(***************************************************************************)
(* A frame with nothing left to relay returns its aggregate reply.  On a   *)
(* peer, the reply travels back over the borrowed connection, which the    *)
(* caller's deferred returnPeerClient gives back to its pool, and the     *)
(* caller records the reply and moves to its next node.  The bottom frame *)
(* writes the reply to the client.                                         *)
(***************************************************************************)
\* Mutant: the borrowed connection is not given back to its pool.
ReturnLeaks(c) ==
    /\ stk[c] # <<>> /\ Top(c).routed /\ Top(c).todo = <<>>
    /\ LET f == Top(c)
           k == Len(stk[c])
       IN IF k = 1
          THEN stk' = [stk EXCEPT ![c] = <<>>]
          ELSE LET caller == stk[c][k - 1]
               IN stk' = [stk EXCEPT ![c] =
                            [SubSeq(@, 1, k - 1) EXCEPT ![k - 1] =
                               [caller EXCEPT !.todo = Tail(@),
                                              !.replies = Append(@, Aggregate(f.replies))]]]
    /\ UNCHANGED <<inUse, store, created, issued, dialFails>>

Return(c) ==
    /\ stk[c] # <<>> /\ Top(c).routed /\ Top(c).todo = <<>>
    /\ LET f == Top(c)
           k == Len(stk[c])
       IN IF k = 1
          THEN /\ stk' = [stk EXCEPT ![c] = <<>>]
               /\ UNCHANGED inUse
          ELSE LET caller == stk[c][k - 1]
               IN /\ inUse' = [inUse EXCEPT ![caller.node][f.node] = @ - 1]
                  /\ stk' = [stk EXCEPT ![c] =
                               [SubSeq(@, 1, k - 1) EXCEPT ![k - 1] =
                                  [caller EXCEPT !.todo = Tail(@),
                                                 !.replies = Append(@, Aggregate(f.replies))]]]
    /\ UNCHANGED <<store, created, issued, dialFails>>

\* Clients send no more commands: from here on the behaviour stutters, so
\* a command that is never answered shows as a liveness violation.
Done ==
    /\ issued = MaxCmds
    /\ UNCHANGED vars

Next ==
    \/ \E c \in Clients, l \in CmdLines : Issue(c, l)
    \/ \E c \in Clients : RouteCmd(c) \/ RelaySelf(c) \/ Borrow(c) \/ DialFail(c) \/ Return(c)
    \/ Done

\* Every connection handler goroutine, on whichever node, is scheduled:
\* a step it can take it eventually takes.  A failed dial is not assumed.
Fairness ==
    \A c \in Clients : /\ WF_vars(RouteCmd(c)) /\ WF_vars(RelaySelf(c))
                       /\ WF_vars(Borrow(c)) /\ WF_vars(Return(c))

Spec == Init /\ [][Next]_vars /\ Fairness

-----------------------------------------------------------------------------
(* Routing partitions the data: whatever the clients send to whichever     *)
(* node, a key is only ever stored on the node PickNode assigns it, so a   *)
(* GET routed there sees every write of the key.                           *)
KeysOnOwner ==
    \A n \in Nodes : \A i \in DBIndex : \A k \in DOMAIN store[n][i] : Owner[k] = n

(* Every command a client sends is eventually answered: relays return,     *)
(* borrowed connections come back to their pools, and no chain of relays  *)
(* waits for a connection held further up the same chain.                  *)
EveryCommandAnswered == \A c \in Clients : stk[c] # <<>> ~> stk[c] = <<>>

=============================================================================
