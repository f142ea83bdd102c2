----------------------------- MODULE Allocator -----------------------------
(***************************************************************************)
(* What a program can rely on when it calls kmalloc and kfree: the blocks  *)
(* it holds lie in the heap, are aligned, do not overlap, and stay where   *)
(* they are until it frees them.  Nothing is said of headers, of the list  *)
(* they form or of which hole is taken: that is Kmalloc's part.            *)
(***************************************************************************)
EXTENDS Integers

CONSTANTS
    HeapStart,  \* the address of the first byte of the heap
    HeapSize,   \* its size in bytes
    Requests    \* what the program asks for: records of bytes and alignment

VARIABLE
    blocks      \* the blocks the program holds: pointer -> bytes asked for

-----------------------------------------------------------------------------
HeapEnd == HeapStart + HeapSize

\* b with the block of n bytes at p.
Put(b, p, n) == [q \in DOMAIN b \cup {p} |-> IF q = p THEN n ELSE b[q]]

\* b without the block at p.
Drop(b, p) == [q \in DOMAIN b \ {p} |-> b[q]]

\* n bytes at p are in the heap and hit no block.
IsHole(p, n) ==
    /\ HeapStart <= p
    /\ p + n <= HeapEnd
    /\ \A q \in DOMAIN blocks : q # p /\ (p + n <= q \/ q + blocks[q] <= p)

Init == blocks = [p \in {} |-> 0]

Allocate(r) ==
    \E p \in HeapStart..HeapEnd :
        /\ p % r.align = 0
        /\ IsHole(p, r.bytes)
        /\ blocks' = Put(blocks, p, r.bytes)

Free(p) == blocks' = Drop(blocks, p)

FreeAll == blocks' = [p \in {} |-> 0]

Next ==
    \/ \E r \in Requests : Allocate(r)
    \/ \E p \in DOMAIN blocks : Free(p)
    \/ FreeAll

Spec == Init /\ [][Next]_blocks
=============================================================================
