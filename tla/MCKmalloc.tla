----------------------------- MODULE MCKmalloc -----------------------------
(* Instances of Kmalloc for TLC. *)
EXTENDS Kmalloc

\* Three sizes: two small ones and one that takes most of the heap.
Words ==
    {[bytes |-> 8, align |-> 8], [bytes |-> 24, align |-> 16],
     [bytes |-> 104, align |-> 32]}

\* kmalloc(1, 8), as test-kmalloc.c calls it, and a block that takes what is left.
OddSizes == {[bytes |-> 1, align |-> 8], [bytes |-> 198, align |-> 8]}
=============================================================================
