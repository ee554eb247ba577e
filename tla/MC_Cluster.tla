----------------------------- MODULE MC_Cluster -----------------------------
(***************************************************************************)
(* A two-node cluster for checking Cluster: n1 owns k1 and n2 owns k2,     *)
(* each node lists the other as its only peer; c1 and c3 are on n1, so    *)
(* they contend for its one connection to n2, and c2 is on n2.           *)
(***************************************************************************)
EXTENDS Cluster

CONSTANTS n1, n2, k1, k2, a, b, c1, c2, c3

MCPeers == (n1 :> <<n2>>) @@ (n2 :> <<n1>>)
MCOwner == (k1 :> n1) @@ (k2 :> n2)
MCHome == [c \in Clients |-> IF c = c2 THEN n2 ELSE n1]

\* Every routing class of the router on keys of both nodes: relayed and
\* local writes and reads, a same-node and a cross-node RENAME, a line
\* without a key, PING, and a command the router does not know.
RoutedLines ==
    { <<"set", k1, a>>, <<"set", k2, b>>, <<"setnx", k2, a>>, <<"getset", k1, b>>,
      <<"get", k2>>, <<"exists", k1>>, <<"rename", k1, k2>>, <<"rename", k2, k2>>,
      <<"get">>, <<"ping">>, <<"lpush", k1, a>> }

\* DEL, broadcast by the router.
DelLines == { <<"del", k1>> }

=============================================================================
