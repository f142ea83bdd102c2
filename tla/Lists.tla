--------------------------------- MODULE Lists ---------------------------------
(***************************************************************************)
(* What the callers of linkedlist.c rely on: a queue, and a ring that is   *)
(* read from its entry on.  Nodes are in at most one of them, once.        *)
(***************************************************************************)
EXTENDS Sequences, SequencesExt

CONSTANT Nodes
VARIABLES queue, ring

Unlinked == Nodes \ (ToSet(queue) \cup ToSet(ring))

\* s without its element at i, and s with e behind its element at i.
Without(s, i) == SubSeq(s, 1, i - 1) \o SubSeq(s, i + 1, Len(s))
Behind(s, i, e) == SubSeq(s, 1, i) \o <<e>> \o SubSeq(s, i + 1, Len(s))

Init == queue = <<>> /\ ring = <<>>

Put(e) ==
    /\ e \in Unlinked
    /\ \E i \in 0 .. Len(queue) : queue' = Behind(queue, i, e)
    /\ UNCHANGED ring

Get == queue # <<>> /\ queue' = Tail(queue) /\ UNCHANGED ring

\* A new node comes second, so the entry stays.
Join(e) ==
    /\ e \in Unlinked
    /\ ring' = Behind(ring, IF ring = <<>> THEN 0 ELSE 1, e)
    /\ UNCHANGED queue

Leave(i) == ring' = Without(ring, i) /\ UNCHANGED queue

Next == \/ \E e \in Nodes : Put(e) \/ Join(e)
        \/ Get
        \/ \E i \in DOMAIN ring : Leave(i)

Spec == Init /\ [][Next]_<<queue, ring>>
================================================================================
