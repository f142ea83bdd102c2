------------------------------ MODULE Kmalloc ------------------------------
(***************************************************************************)
(* The heap of libpi, kmalloc.c: a list of segments in the order of their  *)
(* addresses, each with a header in front of the memory it manages.        *)
(*                                                                         *)
(* heap holds the headers that are on the list, by address.  kmalloc takes *)
(* the free segment closest in size and splits it when much is left; kfree *)
(* finds the header by the pointer it gave out and merges the segment with *)
(* free neighbours, one iteration of its loops per step.                   *)
(*                                                                         *)
(* The first call of kmalloc initialises the heap.  Before it kfree finds  *)
(* no header for any pointer, as it does in an empty heap, so the model    *)
(* starts with the heap initialised.  A kmalloc that returns NULL changes  *)
(* nothing and is no step.  Requests are far below 2^31 bytes, where the   *)
(* difference in line 41 fits its int.  The writes through NULL of lines   *)
(* 56 and 86, at the end of the list, hit address 8, outside the heap.     *)
(*                                                                         *)
(* A definition X_Bug is a faulty variant of the definition X after it;    *)
(* it is no part of the model.                                             *)
(***************************************************************************)
EXTENDS Integers, FiniteSets

CONSTANTS
    HeapStart,  \* __heap_start, page-aligned by the linker script
    HeapSize,   \* HEAP_SIZE, 2^20 in the code
    Requests    \* the calls of kmalloc: records [bytes, align]

Powers == {1, 2, 4, 8, 16, 32, 64, 128, 256, 512, 1024, 2048, 4096,
           8192, 16384, 32768}

\* Everything asked for is counted in words of 8 bytes, as sizeof does for the
\* structures with pointers that are allocated outside the heap's own test.
WholeWords == \A r \in Requests : r.bytes % 8 = 0 /\ r.align % 8 = 0

\* The linker aligns the heap; a heap holds more than its first header.
ASSUME HeapAssumption ==
    /\ HeapStart \in Nat /\ HeapStart > 0 /\ HeapStart % 8 = 0
    /\ HeapSize \in Nat /\ HeapSize > 32 /\ HeapSize % 8 = 0

\* uint16_t alignement is a power of two: pi_roundup masks with it.
ASSUME RequestsAssumption ==
    \A r \in Requests : r.bytes \in Nat /\ r.align \in Powers

VARIABLES
    heap,    \* the headers on the list: address -> header
    temp,    \* kfree's temp, the segment it merges
    pc,      \* "ready", or the loop of kfree that runs: "left", "right"
    blocks,  \* the blocks the program holds: pointer -> bytes asked for
    up       \* no demand has failed

vars == <<heap, temp, pc, blocks, up>>

A == INSTANCE Allocator

-----------------------------------------------------------------------------
NULL == 0
HEADER == 32                       \* sizeof(heap_segment_t)
HeapEnd == HeapStart + HeapSize

Headers == DOMAIN heap

\* Every multiple of 8 in the heap is a pointer kfree may be given.
Pointers == {p \in HeapStart..HeapEnd : p % 8 = 0}

\* pi_roundup: the first multiple of n from x on.
RoundUp(x, n) == ((x + n - 1) \div n) * n

\* heap_init: one free segment, the whole heap.
FreshHeap ==
    [a \in {HeapStart} |->
        [next |-> NULL, prev |-> NULL, alloc_ptr |-> NULL,
         is_allocated |-> FALSE, segment_size |-> HeapSize]]

Init ==
    /\ heap = FreshHeap
    /\ temp = NULL
    /\ pc = "ready"
    /\ blocks = [p \in {} |-> 0]
    /\ up = TRUE

-----------------------------------------------------------------------------
(* kmalloc *)

\* The bytes a request takes from a segment: header, room to align, data.
Total_Bug(r) == HEADER + r.bytes
Total(r) == HEADER + r.align + r.bytes

Fitting_Bug(n) == {a \in Headers : heap[a].segment_size >= n}
Fitting(n) ==
    {a \in Headers : ~heap[a].is_allocated /\ heap[a].segment_size >= n}

\* The loop keeps the first segment, in list order, of the smallest difference.
IsBest(a, n) ==
    \A b \in Fitting(n) :
        \/ heap[a].segment_size < heap[b].segment_size
        \/ heap[a].segment_size = heap[b].segment_size /\ a <= b

\* The heap after n bytes were split off from the segment at best.
Split_Bug(best, n) ==
    LET rest == RoundUp(best + n, 8) IN
    [a \in Headers \cup {rest} |->
        CASE a = rest -> [next |-> heap[best].next, prev |-> best,
                          alloc_ptr |-> NULL, is_allocated |-> FALSE,
                          segment_size |-> heap[best].segment_size - n]
          [] a = best -> [heap[a] EXCEPT !.next = rest, !.segment_size = n]
          [] OTHER -> heap[a]]
Split(best, n) ==
    LET rest == RoundUp(best + n, 8)
        after == heap[best].next
    IN  [a \in Headers \cup {rest} |->
            CASE a = rest -> [next |-> after, prev |-> best,
                              alloc_ptr |-> NULL, is_allocated |-> FALSE,
                              segment_size |-> heap[best].segment_size - n]
              [] a = best -> [heap[a] EXCEPT !.next = rest, !.segment_size = n]
              [] a = after /\ a # best /\ a # rest -> [heap[a] EXCEPT !.prev = rest]
              [] OTHER -> heap[a]]

\* A segment is split when more than two headers would be left over.
Carved(best, n) ==
    IF heap[best].segment_size - n > 2 * HEADER THEN Split(best, n) ELSE heap

\* kmalloc(r.bytes, r.align), which finds a segment.
Kmalloc(r) ==
    /\ up /\ pc = "ready"
    /\ \E best \in Fitting(Total(r)) :
        LET ptr == RoundUp(best + HEADER, r.align) IN
        /\ IsBest(best, Total(r))
        /\ heap' = [Carved(best, Total(r)) EXCEPT ![best].is_allocated = TRUE,
                                                  ![best].alloc_ptr = ptr]
        /\ up' = (ptr % r.align = 0)
        /\ blocks' = A!Put(blocks, ptr, r.bytes)
    /\ UNCHANGED <<temp, pc>>

-----------------------------------------------------------------------------
(* kfree *)

Owners(ptr) == {a \in Headers : heap[a].alloc_ptr = ptr}

\* kfree(ptr) finds the header, the first in list order, and frees it.
Kfree(ptr) ==
    /\ up /\ pc = "ready"
    /\ \E a \in Owners(ptr) :
        /\ \A b \in Owners(ptr) : a <= b
        /\ heap' = [heap EXCEPT ![a].is_allocated = FALSE, ![a].alloc_ptr = NULL]
        /\ temp' = a
    /\ pc' = "left"
    /\ blocks' = A!Drop(blocks, ptr)
    /\ UNCHANGED up

\* kfree(ptr) finds no header: its demand fails.
KfreePanic(ptr) ==
    /\ up /\ pc = "ready"
    /\ Owners(ptr) = {}
    /\ up' = FALSE
    /\ UNCHANGED <<heap, temp, pc, blocks>>

IsFree(a) == a # NULL /\ ~heap[a].is_allocated

\* The heap after the segment at a has swallowed its successor at b.
Merged(a, b) ==
    [x \in Headers \ {b} |->
        CASE x = a -> [heap[x] EXCEPT !.next = heap[b].next, !.alloc_ptr = NULL,
                                      !.segment_size = @ + heap[b].segment_size]
          [] x = heap[b].next /\ x # a -> [heap[x] EXCEPT !.prev = a]
          [] OTHER -> heap[x]]

\* One iteration of the loop that groups to the left.
MergeLeft ==
    /\ up /\ pc = "left"
    /\ IsFree(heap[temp].prev)
    /\ heap' = Merged(heap[temp].prev, temp)
    /\ temp' = heap[temp].prev
    /\ UNCHANGED <<pc, blocks, up>>

\* The segment to the left is allocated, or there is none.
LeftDone_Bug ==
    /\ up /\ pc = "left"
    /\ ~IsFree(heap[temp].prev)
    /\ pc' = "ready" /\ temp' = NULL
    /\ UNCHANGED <<heap, blocks, up>>
LeftDone ==
    /\ up /\ pc = "left"
    /\ ~IsFree(heap[temp].prev)
    /\ pc' = "right"
    /\ UNCHANGED <<heap, temp, blocks, up>>

\* One iteration of the loop that groups to the right.
MergeRight ==
    /\ up /\ pc = "right"
    /\ IsFree(heap[temp].next)
    /\ heap' = Merged(temp, heap[temp].next)
    /\ UNCHANGED <<temp, pc, blocks, up>>

\* kfree returns.
RightDone ==
    /\ up /\ pc = "right"
    /\ ~IsFree(heap[temp].next)
    /\ pc' = "ready"
    /\ temp' = NULL
    /\ UNCHANGED <<heap, blocks, up>>

\* kfree_all.
KfreeAll ==
    /\ up /\ pc = "ready"
    /\ heap' = FreshHeap
    /\ blocks' = [p \in {} |-> 0]
    /\ UNCHANGED <<temp, pc, up>>

Next ==
    \/ \E r \in Requests : Kmalloc(r)
    \/ \E ptr \in Pointers : Kfree(ptr) \/ KfreePanic(ptr)
    \/ MergeLeft
    \/ LeftDone
    \/ MergeRight
    \/ RightDone
    \/ KfreeAll

Spec == Init /\ [][Next]_vars

-----------------------------------------------------------------------------
(* Properties *)

Header == [next : Nat, prev : Nat, alloc_ptr : Nat, is_allocated : BOOLEAN,
           segment_size : Nat]

\* Headers lie in the heap, kfree works on one of them, and what the program
\* holds is sized in bytes.
TypeOK ==
    /\ heap \in [Headers -> Header]
    /\ Headers \subseteq HeapStart..(HeapEnd - HEADER)
    /\ pc \in {"ready", "left", "right"}
    /\ temp \in IF pc = "ready" THEN {NULL} ELSE Headers
    /\ blocks \in [DOMAIN blocks -> Nat] /\ DOMAIN blocks \subseteq Nat
    /\ up \in BOOLEAN

\* The segments tile the heap: each begins where its predecessor ends, the
\* first at the start of the heap and the last up to its end, none inside
\* another, and prev is the inverse of next (what every loop of kmalloc.c that
\* walks the list, and every split and merge, relies on).
Tiled ==
    /\ HeapStart \in Headers /\ heap[HeapStart].prev = NULL
    /\ \A a \in Headers :
        /\ LET end == a + heap[a].segment_size IN
            IF heap[a].next = NULL
            THEN end = HeapEnd
            ELSE heap[a].next = end /\ end \in Headers /\ heap[end].prev = a
        /\ IF heap[a].prev = NULL
           THEN a = HeapStart
           ELSE heap[a].prev \in Headers /\ heap[heap[a].prev].next = a
        /\ \A b \in Headers : a < b => a + heap[a].segment_size <= b

\* Every block lies behind the header of a segment of its own, within it, and
\* no other segment carries a pointer: kfree finds each block, and its demand
\* stops every second free of the same block.
BlocksHaveSegments ==
    /\ \A p \in DOMAIN blocks :
        \E a \in Headers : heap[a].is_allocated /\ heap[a].alloc_ptr = p
    /\ \A a \in Headers :
        LET p == heap[a].alloc_ptr IN
        IF heap[a].is_allocated
        THEN /\ p \in DOMAIN blocks
             /\ a + HEADER <= p /\ p + blocks[p] <= a + heap[a].segment_size
        ELSE p = NULL

\* Between calls no two neighbours are free: one iteration to the left and one
\* to the right have grouped whatever kfree could group.
Grouped ==
    pc = "ready" =>
        \A a \in Headers : heap[a].is_allocated \/ ~IsFree(heap[a].next)

\* While kfree groups, only the segment it works on may have a free neighbour.
GroupedButTemp ==
    \A a \in Headers :
        \/ heap[a].is_allocated
        \/ ~IsFree(heap[a].next)
        \/ pc # "ready" /\ a = temp
        \/ pc = "left" /\ heap[a].next = temp

\* Every header and every size is a multiple of 8: pi_roundup, which rounds the
\* address of a split but not its size, then rounds nothing.
InWords ==
    \A a \in Headers :
        a % 8 = 0 /\ heap[a].segment_size % 8 = 0 /\ heap[a].segment_size >= HEADER

\* The inductive invariant of kmalloc and kfree.
IInv ==
    /\ TypeOK /\ Tiled /\ BlocksHaveSegments /\ InWords /\ GroupedButTemp
    /\ pc # "ready" => ~heap[temp].is_allocated

\* A program that has freed all its blocks has the whole heap again: "heap
\* should be empty" in test-kmalloc.c.
EmptyIsWhole == pc = "ready" /\ blocks = [p \in {} |-> 0] => heap = FreshHeap

\* A program sees an allocator: its blocks are apart, aligned and in the heap,
\* and neither a kmalloc nor a kfree of another block moves them.
AllocatorSpec == A!Spec

\* No block reaches beyond the heap ("1Mb heap", kmalloc.c:8) or into the
\* header of a segment.
BlocksInHeap ==
    \A p \in DOMAIN blocks :
        /\ p + blocks[p] <= HeapEnd
        /\ \A a \in Headers : p + blocks[p] <= a \/ a + HEADER <= p
=============================================================================
