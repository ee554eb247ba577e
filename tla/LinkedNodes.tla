----------------------------- MODULE LinkedNodes -----------------------------
(***************************************************************************)
(* datastruct/list/linked.go at the level of its statements: the methods   *)
(* execLPush, execRPush, execLPop and execRPop call on one *LinkedList     *)
(* (Insert(0, v), Add(v), Remove(0), RemoveLast) run by goroutines that    *)
(* hold no lock, as two connections on one key do.  Each step is one read  *)
(* or write of a pointer or of size; size++ and size-- are a read and a    *)
(* write.  Go gives a data race no semantics; word-sized reads and writes  *)
(* in some interleaving are outcomes the build does produce.  A nil        *)
(* dereference panics, and StandaloneDatabase.Exec recovers it: the        *)
(* goroutine is done, and the list stays as it left it.  Element values   *)
(* are left out: no property reads them.  Two steps are coarser: find's   *)
(* walk reads its pointers in one step (InsFind, RemCheck), and Insert's  *)
(* two reads of size for its checks are one (InsCheck).  Coarser steps    *)
(* drop interleavings and add none, so a violation found is one the code  *)
(* has.                                                                    *)
(***************************************************************************)
EXTENDS Integers, Sequences, FiniteSets

CONSTANTS
    Procs,      \* goroutines of connections working on the list
    NodeIds,    \* node objects that may be allocated
    NilNode,    \* nil
    InitList,   \* the nodes of the list before the goroutines start, first to last
    MaxOps      \* bound on the method calls in a behaviour

VARIABLES
    first, last, size,   \* the LinkedList struct
    prev, next,          \* the node fields
    used,                \* allocated nodes
    pc, op,              \* where each goroutine is, and which method it runs
    n, piv, tmp,         \* its locals: the node, Insert's pivot, size as read
    ops

vars == <<first, last, size, prev, next, used, pc, op, n, piv, tmp, ops>>

Ptr == NodeIds \cup {NilNode}
Methods == {"insert0", "add", "remove0", "removeLast"}

AtRest == \A p \in Procs : pc[p] = "idle"

\* The links Make(vals...) (Add after Add) leaves between the nodes of s.
LinkNext(s) == [x \in NodeIds |-> LET I == {i \in 1..(Len(s) - 1) : s[i] = x}
                                  IN IF I = {} THEN NilNode ELSE s[(CHOOSE i \in I : TRUE) + 1]]
LinkPrev(s) == [x \in NodeIds |-> LET I == {i \in 2..Len(s) : s[i] = x}
                                  IN IF I = {} THEN NilNode ELSE s[(CHOOSE i \in I : TRUE) - 1]]

Init ==
    /\ used = {InitList[i] : i \in DOMAIN InitList}
    /\ first = InitList[1] /\ last = InitList[Len(InitList)] /\ size = Len(InitList)
    /\ next = LinkNext(InitList) /\ prev = LinkPrev(InitList)
    /\ pc = [p \in Procs |-> "idle"] /\ op = [p \in Procs |-> "add"]
    /\ n = [p \in Procs |-> NilNode] /\ piv = [p \in Procs |-> NilNode]
    /\ tmp = [p \in Procs |-> 0] /\ ops = 0

Goto(p, where) == pc' = [pc EXCEPT ![p] = where]
SetN(p, x) == n' = [n EXCEPT ![p] = x]

\* n = n.prev, k times (find's loop from last); nil once it runs off.
RECURSIVE Back(_, _)
Back(x, k) == IF k <= 0 \/ x = NilNode THEN x ELSE Back(prev[x], k - 1)

\* A nil dereference: the goroutine panics; Exec recovers.
Panic(p) == Goto(p, "idle") /\ UNCHANGED <<first, last, size, prev, next, used, op, n, piv, tmp, ops>>

\* The executor calls the method on the list it got from the dict.
Call(p, m) ==
    /\ pc[p] = "idle" /\ ops < MaxOps
    /\ op' = [op EXCEPT ![p] = m]
    /\ Goto(p, CASE m = "insert0" -> "insCheck" [] m = "add" -> "addNew"
                 [] m = "remove0" -> "remCheck" [] m = "removeLast" -> "lastCheck")
    /\ ops' = ops + 1
    /\ UNCHANGED <<first, last, size, prev, next, used, n, piv, tmp>>

(***************************************************************************)
(* Add(val).                                                               *)
(***************************************************************************)
\* n := &node{val}; if list.last == nil.
AddNew(p) ==
    /\ pc[p] = "addNew" /\ NodeIds \ used # {}
    /\ LET x == CHOOSE x \in NodeIds \ used : TRUE
       IN /\ used' = used \cup {x} /\ SetN(p, x)
          /\ prev' = [prev EXCEPT ![x] = NilNode] /\ next' = [next EXCEPT ![x] = NilNode]
    /\ Goto(p, IF last = NilNode THEN "addFirst" ELSE "addPrev")
    /\ UNCHANGED <<first, last, size, op, piv, tmp, ops>>

\* list.first = n (empty list).
AddFirst(p) ==
    /\ pc[p] = "addFirst" /\ first' = n[p] /\ Goto(p, "addLast")
    /\ UNCHANGED <<last, size, prev, next, used, op, n, piv, tmp, ops>>

\* n.prev = list.last.
AddPrev(p) ==
    /\ pc[p] = "addPrev" /\ prev' = [prev EXCEPT ![n[p]] = last] /\ Goto(p, "addLink")
    /\ UNCHANGED <<first, last, size, next, used, op, n, piv, tmp, ops>>

\* list.last.next = n: list.last is read again, and may be nil by now.
AddLink(p) ==
    /\ pc[p] = "addLink"
    /\ IF last = NilNode THEN Panic(p)
       ELSE /\ next' = [next EXCEPT ![last] = n[p]] /\ Goto(p, "addLast")
            /\ UNCHANGED <<first, last, size, prev, used, op, n, piv, tmp, ops>>

\* list.last = n.
AddLast(p) ==
    /\ pc[p] = "addLast" /\ last' = n[p] /\ Goto(p, "incRead")
    /\ UNCHANGED <<first, size, prev, next, used, op, n, piv, tmp, ops>>

(***************************************************************************)
(* Insert(0, val), as execLPush calls it.                                 *)
(***************************************************************************)
\* The bound check (0 > size panics) and index == size, which calls Add.
InsCheck(p) ==
    /\ pc[p] = "insCheck"
    /\ IF 0 > size THEN Panic(p)
       ELSE Goto(p, IF size = 0 THEN "addNew" ELSE "insFind")
            /\ UNCHANGED <<first, last, size, prev, next, used, op, n, piv, tmp, ops>>

\* pivot := find(0): list.first when 0 < size/2, else list.last walked back
\* size - 1 times; a nil on the way panics.
InsFind(p) ==
    /\ pc[p] = "insFind"
    /\ LET x == IF 0 < size \div 2 THEN first ELSE Back(last, size - 1)
       IN IF x = NilNode THEN Panic(p)
          ELSE /\ piv' = [piv EXCEPT ![p] = x] /\ Goto(p, "insNew")
               /\ UNCHANGED <<first, last, size, prev, next, used, op, n, tmp, ops>>

\* n := &node{val, prev: pivot.prev, next: pivot}.
InsNew(p) ==
    /\ pc[p] = "insNew" /\ NodeIds \ used # {}
    /\ LET x == CHOOSE x \in NodeIds \ used : TRUE
       IN /\ used' = used \cup {x} /\ SetN(p, x)
          /\ prev' = [prev EXCEPT ![x] = prev[piv[p]]] /\ next' = [next EXCEPT ![x] = piv[p]]
    /\ Goto(p, "insLink")
    /\ UNCHANGED <<first, last, size, op, piv, tmp, ops>>

\* if pivot.prev == nil { list.first = n } else { pivot.prev.next = n }.
InsLink(p) ==
    /\ pc[p] = "insLink"
    /\ IF prev[piv[p]] = NilNode
       THEN first' = n[p] /\ UNCHANGED next
       ELSE next' = [next EXCEPT ![prev[piv[p]]] = n[p]] /\ UNCHANGED first
    /\ Goto(p, "insPrev")
    /\ UNCHANGED <<last, size, prev, used, op, n, piv, tmp, ops>>

\* pivot.prev = n.
InsPrev(p) ==
    /\ pc[p] = "insPrev" /\ prev' = [prev EXCEPT ![piv[p]] = n[p]] /\ Goto(p, "incRead")
    /\ UNCHANGED <<first, last, size, next, used, op, n, piv, tmp, ops>>

(***************************************************************************)
(* Remove(0) (execLPop) and RemoveLast (execRPop), then removeNode.        *)
(***************************************************************************)
\* 0 >= size panics; n := find(0).
RemCheck(p) ==
    /\ pc[p] = "remCheck"
    /\ LET x == IF 0 < size \div 2 THEN first ELSE Back(last, size - 1)
       IN IF 0 >= size \/ x = NilNode THEN Panic(p)
          ELSE SetN(p, x) /\ Goto(p, "rmPrev")
               /\ UNCHANGED <<first, last, size, prev, next, used, op, piv, tmp, ops>>

\* if list.last == nil return nil; n := list.last.
LastCheck(p) ==
    /\ pc[p] = "lastCheck"
    /\ IF last = NilNode THEN Goto(p, "idle") /\ UNCHANGED n
       ELSE SetN(p, last) /\ Goto(p, "rmPrev")
    /\ UNCHANGED <<first, last, size, prev, next, used, op, piv, tmp, ops>>

\* if n.prev == nil { list.first = n.next } else { n.prev.next = n.next }.
RmPrev(p) ==
    /\ pc[p] = "rmPrev"
    /\ IF prev[n[p]] = NilNode
       THEN first' = next[n[p]] /\ UNCHANGED next
       ELSE next' = [next EXCEPT ![prev[n[p]]] = next[n[p]]] /\ UNCHANGED first
    /\ Goto(p, "rmNext")
    /\ UNCHANGED <<last, size, prev, used, op, n, piv, tmp, ops>>

\* if n.next == nil { list.last = n.prev } else { n.next.prev = n.prev }.
RmNext(p) ==
    /\ pc[p] = "rmNext"
    /\ IF next[n[p]] = NilNode
       THEN last' = prev[n[p]] /\ UNCHANGED prev
       ELSE prev' = [prev EXCEPT ![next[n[p]]] = prev[n[p]]] /\ UNCHANGED last
    /\ Goto(p, "rmClear")
    /\ UNCHANGED <<first, size, next, used, op, n, piv, tmp, ops>>

\* n.prev = nil; n.next = nil (for the collector).
RmClear(p) ==
    /\ pc[p] = "rmClear"
    /\ prev' = [prev EXCEPT ![n[p]] = NilNode] /\ next' = [next EXCEPT ![n[p]] = NilNode]
    /\ Goto(p, "decRead")
    /\ UNCHANGED <<first, last, size, used, op, n, piv, tmp, ops>>

(***************************************************************************)
(* size++ and size--: a read, then a write of what was read plus or minus  *)
(* one.                                                                    *)
(***************************************************************************)
SizeRead(p) ==
    /\ pc[p] \in {"incRead", "decRead"}
    /\ tmp' = [tmp EXCEPT ![p] = size]
    /\ Goto(p, IF pc[p] = "incRead" THEN "incWrite" ELSE "decWrite")
    /\ UNCHANGED <<first, last, size, prev, next, used, op, n, piv, ops>>

SizeWrite(p) ==
    /\ pc[p] \in {"incWrite", "decWrite"}
    /\ size' = IF pc[p] = "incWrite" THEN tmp[p] + 1 ELSE tmp[p] - 1
    /\ Goto(p, "idle")
    /\ UNCHANGED <<first, last, prev, next, used, op, n, piv, tmp, ops>>

Next ==
    \/ \E p \in Procs, m \in Methods : Call(p, m)
    \/ \E p \in Procs :
          \/ AddNew(p) \/ AddFirst(p) \/ AddPrev(p) \/ AddLink(p) \/ AddLast(p)
          \/ InsCheck(p) \/ InsFind(p) \/ InsNew(p) \/ InsLink(p) \/ InsPrev(p)
          \/ RemCheck(p) \/ LastCheck(p) \/ RmPrev(p) \/ RmNext(p) \/ RmClear(p)
          \/ SizeRead(p) \/ SizeWrite(p)
    \/ (ops = MaxOps /\ AtRest /\ UNCHANGED vars)

Spec == Init /\ [][Next]_vars

-----------------------------------------------------------------------------
\* The nodes met following next from x, at most k of them.
RECURSIVE Forward(_, _)
Forward(x, k) == IF x = NilNode \/ k = 0 THEN <<>> ELSE <<x>> \o Forward(next[x], k - 1)

Chain == Forward(first, Cardinality(NodeIds) + 1)

(* Whenever no goroutine is inside a method, the list is a well-formed     *)
(* doubly linked list: following next from first meets exactly size nodes  *)
(* and ends at last, and every prev points back to the node before.  Two   *)
(* goroutines pushing, popping or both on one list with no lock between    *)
(* their pointer and size updates break this, and later calls then panic   *)
(* or lose elements.                                                       *)
ListWellFormed ==
    AtRest =>
        LET c == Chain
        IN /\ Len(c) = size
           /\ last = IF c = <<>> THEN NilNode ELSE c[Len(c)]
           /\ \A i \in DOMAIN c : prev[c[i]] = IF i = 1 THEN NilNode ELSE c[i - 1]

=============================================================================
