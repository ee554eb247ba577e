------------------------------- MODULE Keyspace -------------------------------
(***************************************************************************)
(* The data one database holds and the store operations the executors use. *)
(* A database (database/db.go DB) is a concurrent dict from keys to        *)
(* DataEntity values; each dict operation is atomic (its shard is locked   *)
(* for the call), so a keyspace is a TLA+ function whose domain is the set *)
(* of present keys and every store call is one function update.            *)
(*                                                                         *)
(* Data is abstracted: a key is a model value of Keys, a stored string is  *)
(* a model value of Vals or an integer, a set member is a model value of   *)
(* Vals.  int64 is kept as a two's-complement integer of IntBits bits so   *)
(* that INCR/DECR and friends wrap as they do in Go.                       *)
(***************************************************************************)
EXTENDS Integers, Sequences, SequencesExt, FiniteSets

CONSTANTS
    Keys,       \* the keys clients use
    Vals,       \* non-numeric string values
    NumDBs,     \* config.Properties.Databases
    IntBits,    \* width of the Go int64 arithmetic in the model
    NIL,        \* "no such key" (getAsString/getAsList/getAsSet return nil, nil)
    WRONGTYPE   \* the key holds an entity of another type

ASSUME /\ NumDBs \in Nat \ {0}
       /\ IntBits \in Nat \ {0}
       /\ {NIL, WRONGTYPE} \cap (Vals \cup Keys) = {}

IntMin == -(2^(IntBits - 1))
IntMax == 2^(IntBits - 1) - 1
Int64 == IntMin..IntMax

\* Go's int64 addition and negation: they wrap around instead of failing.
WrapAdd(a, b) == ((a + b - IntMin) % (2^IntBits)) + IntMin
WrapNeg(a) == WrapAdd(0, -a)

\* strconv.ParseInt(string(bytes), 10, 64) succeeds exactly on integers.
IsInteger(v) == v \in Int64

DBIndex == 0..(NumDBs - 1)

(***************************************************************************)
(* Entities (interface/database DataEntity): a []byte, a *LinkedList or a  *)
(* *HashSet.Set.  The variant is the one field of the record, so that two  *)
(* entities of different variants differ by their fields alone.  A        *)
(* container may be empty as far as the type goes; that none is left      *)
(* empty is a property, not a type.                                        *)
(***************************************************************************)
Str(v)   == [string |-> v]
List(s)  == [list |-> s]
Set(s)   == [set |-> s]

IsEntity(e) ==
    \/ e \in [string : Vals \cup Int64]
    \/ e \in [list : Seq(Vals \cup Int64)]
    \/ e \in [set : SUBSET Vals]

\* A keyspace is the dict of one DB: a function from the present keys.
IsKeyspace(ks) == DOMAIN ks \subseteq Keys /\ \A k \in DOMAIN ks : IsEntity(ks[k])

EmptyKeyspace == [k \in {} |-> Str(NIL)]

\* db.PutEntity: insert or overwrite.
PutEntity(ks, k, e) == [x \in DOMAIN ks \cup {k} |-> IF x = k THEN e ELSE ks[x]]

\* db.Remove.
RemoveKey(ks, k) == [x \in DOMAIN ks \ {k} |-> ks[x]]

\* The typed getters of string.go, list.go and set.go: the stored value,
\* NIL when the key is absent, WRONGTYPE when it holds another variant.
GetAs(ks, k, type) ==
    IF k \notin DOMAIN ks THEN NIL
    ELSE IF type \in DOMAIN ks[k] THEN ks[k][type] ELSE WRONGTYPE

GetAsString(ks, k) == GetAs(ks, k, "string")
GetAsList(ks, k)   == GetAs(ks, k, "list")
GetAsSet(ks, k)    == GetAs(ks, k, "set")

(***************************************************************************)
(* The result of running one executor: the new keyspace and whether it     *)
(* called db.addAof with its canonical command line.                       *)
(***************************************************************************)
Result(ks, logged) == [ks |-> ks, aof |-> logged]
NoEffect(ks) == Result(ks, FALSE)

\* The keys holding an empty list or set.
EmptyContainers(ks) ==
    {k \in DOMAIN ks : ks[k] \in {List(<<>>), Set({})}}

=============================================================================
