------------------------------ MODULE LinkedList ------------------------------
(***************************************************************************)
(* The lists of libpi (linkedlist.c): a queue Q with head, tail and count, *)
(* and a circular list behind an entry with its count.  Both link nodes by *)
(* the one pointer a node has.                                             *)
(*                                                                         *)
(* A definition whose name ends in _Bug is a faulty variant of the one it   *)
(* precedes, not a part of the model.                                      *)
(***************************************************************************)
EXTENDS Naturals, Sequences, FiniteSets

CONSTANTS Nodes, NULL
ASSUME NodesAssumption == IsFiniteSet(Nodes)
ASSUME NULLAssumption == NULL \notin Nodes

VARIABLES
    next,               \* node->next; garbage in a node that is in no list
    head, tail, cnt,    \* Q_t
    entry, num          \* circularQ_t: entry.next and entry.ptr

listVars == <<next, head, tail, cnt, entry, num>>
qVars == <<head, tail, cnt>>
ringVars == <<entry, num>>

ListTypeOK ==
    /\ next \in [Nodes -> Nodes \cup {NULL}]
    /\ {head, tail, entry} \subseteq Nodes \cup {NULL}
    /\ {cnt, num} \subseteq 0 .. Cardinality(Nodes)

ListInit ==
    /\ next = [e \in Nodes |-> NULL]
    /\ head = NULL /\ tail = NULL /\ cnt = 0
    /\ entry = NULL /\ num = 0

\* The node n steps from p, and the n nodes from p on.
Hop(p, n) == LET hop[i \in 0 .. n] ==
                   IF i = 0 THEN p
                   ELSE IF hop[i - 1] = NULL THEN NULL ELSE next[hop[i - 1]]
             IN  hop[n]
Walk(p, n) == [i \in 1 .. n |-> Hop(p, i - 1)]

Used == {Walk(head, cnt)[i] : i \in 1 .. cnt}
          \cup {Walk(entry, num)[i] : i \in 1 .. num}

\* Q_push and Q_append of e, as the values of <<next, head, tail>>.
Pushed(e) == <<[next EXCEPT ![e] = head], e, IF tail = NULL THEN e ELSE tail>>

Appended_Bug(e) == <<[next EXCEPT ![e] = NULL], head, e>>

Appended(e) ==
    IF tail = NULL THEN <<[next EXCEPT ![e] = NULL], e, e>>
    ELSE <<[next EXCEPT ![e] = NULL, ![tail] = e], head, e>>

Linked(links) == next' = links[1] /\ head' = links[2] /\ tail' = links[3]

QPush(e) ==
    /\ Linked(Pushed(e))
    /\ cnt' = cnt + 1
    /\ UNCHANGED ringVars

QAppend(e) ==
    /\ Linked(Appended(e))
    /\ cnt' = cnt + 1
    /\ UNCHANGED ringVars

\* Q_insert_after: behind d, or at the head when d is NULL.
QInsertAfter(d, e) ==
    /\ Linked(IF d = NULL THEN Pushed(e)
              ELSE IF d = tail THEN Appended(e)
              ELSE <<[next EXCEPT ![e] = next[d], ![d] = e], head, tail>>)
    /\ cnt' = cnt + 1
    /\ UNCHANGED ringVars

\* The tail once head->next is the new head.
LastOut == IF next[head] = NULL THEN NULL ELSE tail

QPop ==
    /\ head # NULL
    /\ cnt' = cnt - 1
    /\ head' = next[head]
    /\ tail' = LastOut
    /\ UNCHANGED <<next, ringVars>>

AddCircular(e) ==
    /\ \/ /\ num = 0
          /\ next' = [next EXCEPT ![e] = e]
          /\ entry' = e
       \/ /\ num # 0
          /\ next' = [next EXCEPT ![e] = next[entry], ![entry] = e]
          /\ UNCHANGED entry
    /\ num' = num + 1
    /\ UNCHANGED qVars

\* The nodes in front of e that the search finds.
Before(e) == {d \in {Walk(entry, num)[i] : i \in 1 .. num} : next[d] = e}

EntryWithout_Bug(d) == entry

EntryWithout(d) == IF next[d] = entry THEN next[next[d]] ELSE entry

\* remove_circular(); without a node in front of e it panics and e stays.
RemoveCircular(e) ==
    /\ Before(e) # {}
    /\ \E d \in Before(e) :
        \/ num = 1 /\ entry' = NULL /\ UNCHANGED next
        \/ /\ num # 1
           /\ entry' = EntryWithout(d)
           /\ next' = [next EXCEPT ![d] = next[next[d]]]
    /\ num' = num - 1
    /\ UNCHANGED qVars

ListNext ==
    \/ \E e \in Nodes \ Used :
        \/ QPush(e)
        \/ QAppend(e)
        \/ \E d \in {Walk(head, cnt)[i] : i \in 1 .. cnt} \cup {NULL} :
             QInsertAfter(d, e)
        \/ AddCircular(e)
    \/ QPop
    \/ \E e \in Nodes : RemoveCircular(e)

LinkedListSpec == ListInit /\ [][ListNext]_listVars

--------------------------------------------------------------------------------
(* Properties. *)

\* Q_empty()'s assertions, and that the end of the queue is where both the
\* pointers and the count say: no call leaves a tail that Q_append would hang
\* a node on that Q_pop never reaches.
QueueEnds ==
    /\ (head = NULL) = (cnt = 0) /\ (tail = NULL) = (cnt = 0)
    /\ Hop(head, cnt) = NULL
    /\ cnt > 0 => Hop(head, cnt - 1) = tail

\* The circular list closes after exactly entry.ptr nodes: what schedule()
\* counts its loop by.
RingCloses ==
    /\ num > 0 => Hop(entry, num) = entry
    /\ Cardinality({Walk(entry, num)[i] : i \in 1 .. num}) = num

\* Whatever sequence of calls, the queue ends and the ring closes where the
\* counts say.
ListsClose == ListTypeOK /\ QueueEnds /\ RingCloses

--------------------------------------------------------------------------------
(* The inductive invariant: what the pointers make up. *)

\* s has no node twice.
Once(s) == \A i, j \in 1 .. Len(s) : s[i] = s[j] => i = j

\* nx leads through the sequence s of nodes.
IsPath(s, nx) ==
    /\ s \in Seq(Nodes) /\ Once(s)
    /\ \A i \in 1 .. Len(s) - 1 : nx[s[i]] = s[i + 1]

IsQueue(s, nx, h, t) ==
    /\ IsPath(s, nx)
    /\ IF s = <<>> THEN h = NULL /\ t = NULL
       ELSE h = s[1] /\ t = s[Len(s)] /\ nx[s[Len(s)]] = NULL

IsRing(s, nx, e) ==
    /\ IsPath(s, nx)
    /\ IF s = <<>> THEN e = NULL ELSE e = s[1] /\ nx[s[Len(s)]] = s[1]

\* The queue q and the ring r.
AreLists(q, r, nx, h, t, e) ==
    /\ nx \in [Nodes -> Nodes \cup {NULL}]
    /\ IsQueue(q, nx, h, t) /\ IsRing(r, nx, e)
    /\ \A i \in 1 .. Len(q), j \in 1 .. Len(r) : q[i] # r[j]

ListInv ==
    /\ cnt \in Nat /\ num \in Nat
    /\ AreLists(Walk(head, cnt), Walk(entry, num), next, head, tail, entry)

--------------------------------------------------------------------------------
Abstract == INSTANCE Lists WITH queue <- Walk(head, cnt), ring <- Walk(entry, num)

\* The pointer operations implement the queue and the ring.
ListsSpec == Abstract!Spec
================================================================================
