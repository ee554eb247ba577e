------------------------------ MODULE MC_Queries ------------------------------
(***************************************************************************)
(* Two keys, two member values, the bytes 0 and 1, and the lines the      *)
(* Queries checks use.  Indexes run from -4 to 3: for strings and lists   *)
(* of at most 3 elements that is every index before -len, every negative  *)
(* and non-negative index inside, and one past the end (like the spec's   *)
(* LRANGE -100 100).  `a` is also the argument that is not an integer.     *)
(***************************************************************************)
EXTENDS Queries

CONSTANTS k1, k2, a, b

Idx == -4..3

ReadLinesMC ==
    {<<"lrange", k, i, j>> : k \in {k1, k2}, i \in Idx, j \in Idx}
    \cup {<<"getrange", k, i, j>> : k \in {k1, k2}, i \in Idx, j \in Idx}
    \cup {<<"lindex", k, i>> : k \in {k1, k2}, i \in Idx \cup {a}}
    \cup {<<"llen", k>> : k \in {k1, k2}}
    \cup {<<"lrange", k1, a, 0>>, <<"getrange", k1, 0, a>>,
          <<"get", k1>>, <<"strlen", k1>>, <<"mget", k1, k2>>}
    \cup {<<c, k1, k2>> : c \in {"sinter", "sunion", "sdiff"}}
    \cup {<<c, k2, k1>> : c \in {"sinter", "sunion", "sdiff"}}
    \cup {<<c, k1>> : c \in {"sinter", "sunion", "sdiff", "smembers", "scard"}}
    \cup {<<"sismember", k1, m>> : m \in {a, b}}

\* APPEND and SETRANGE of 0, 1 or 2 bytes at offsets -1 to 3, and a
\* SETRANGE whose offset is not an integer.
WriteLinesMC ==
    {<<"append", k, v>> : k \in {k1, k2}, v \in {<<>>, <<1>>}}
    \cup {<<"setrange", k, o, v>> : k \in {k1, k2}, o \in -1..3, v \in {<<>>, <<1>>, <<0, 1>>}}
    \cup {<<"setrange", k1, a, <<1>>>>}

RandLinesMC ==
    {<<"srandmember", k1>>} \cup {<<"srandmember", k1, n>> : n \in {-2, 0, 2, a}}

=============================================================================
