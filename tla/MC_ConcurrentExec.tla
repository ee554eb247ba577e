-------------------------- MODULE MC_ConcurrentExec --------------------------
(***************************************************************************)
(* Two connections, two keys, two values, and list objects for checking    *)
(* ConcurrentExec.  Each .cfg picks one of the command-line sets below.    *)
(***************************************************************************)
EXTENDS ConcurrentExec

CONSTANTS k1, k2, a, b, c1, c2, o1, o2, o3

\* Every modelled executor and every branch of each: pushes creating and
\* extending lists on both keys, a pop, a SET turning a list key into a
\* string (WRONGTYPE for a later push), and an MSETNX that may find a key.
MixedLines ==
    { <<"lpush", k1, a>>, <<"lpush", k2, b>>, <<"lpop", k1>>,
      <<"set", k1, b>>, <<"msetnx", k1, a, k2, b>> }

\* Two pushes onto one key that may be absent.
PushLines == { <<"lpush", k1, a>>, <<"lpush", k1, b>> }

\* Two MSETNX on the same two keys.
MSetNXLines == { <<"msetnx", k1, a, k2, b>>, <<"msetnx", k1, b, k2, a>> }

\* Both races at once: two pushes onto one key, or two MSETNX over two keys.
RaceLines == PushLines \cup MSetNXLines

ObjSymmetry == Permutations({o1, o2, o3})

=============================================================================
