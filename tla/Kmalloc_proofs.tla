--------------------------- MODULE Kmalloc_proofs ---------------------------
(***************************************************************************)
(* For every heap and every set of requests counted in words of 8 bytes,   *)
(* the segments of kmalloc.c tile the heap, and what a program sees of     *)
(* them is an allocator.                                                   *)
(***************************************************************************)
EXTENDS Kmalloc, TLAPS

-----------------------------------------------------------------------------
(* Arithmetic *)

\* pi_roundup returns a multiple of n, less than n above x.
LEMMA RoundUpBounds ==
    ASSUME NEW x \in Nat, NEW n \in Powers
    PROVE  /\ RoundUp(x, n) \in Nat
           /\ x <= RoundUp(x, n) /\ RoundUp(x, n) < x + n
           /\ RoundUp(x, n) % n = 0
  BY DEF RoundUp, Powers

\* A multiple of 8 is not moved.
LEMMA RoundUpExact ==
    ASSUME NEW x \in Nat, x % 8 = 0
    PROVE  RoundUp(x, 8) = x
  BY DEF RoundUp

\* Multiples of 8 stay so under addition and subtraction.
LEMMA Eights ==
    ASSUME NEW x \in Int, NEW y \in Int, x % 8 = 0, y % 8 = 0
    PROVE  (x + y) % 8 = 0 /\ (x - y) % 8 = 0
  OBVIOUS

-----------------------------------------------------------------------------
(* The inductive invariant *)

LEMMA InitInv == Init => IInv
  <1> SUFFICES ASSUME Init PROVE IInv
    OBVIOUS
  <1> USE HeapAssumption DEF Init, FreshHeap, Headers, HeapEnd, HEADER, NULL
  <1>1. Headers = {HeapStart} /\ heap[HeapStart].next = NULL
        /\ heap[HeapStart].prev = NULL /\ ~heap[HeapStart].is_allocated
        /\ heap[HeapStart].alloc_ptr = NULL
        /\ heap[HeapStart].segment_size = HeapSize
    OBVIOUS
  <1>2. TypeOK
    BY DEF TypeOK, Header
  <1>3. Tiled
    BY <1>1 DEF Tiled
  <1>4. BlocksHaveSegments
    BY <1>1 DEF BlocksHaveSegments
  <1>5. InWords
    BY <1>1 DEF InWords
  <1>6. GroupedButTemp
    BY <1>1 DEF GroupedButTemp, IsFree
  <1> QED
    BY <1>2, <1>3, <1>4, <1>5, <1>6 DEF IInv

\* kfree_all leaves what the initial heap was.
LEMMA KfreeAllInv == IInv /\ KfreeAll => IInv'
  <1> SUFFICES ASSUME IInv, KfreeAll PROVE IInv'
    OBVIOUS
  <1> USE HeapAssumption DEF KfreeAll, FreshHeap, Headers, HeapEnd, HEADER, NULL
  <1>1. Headers' = {HeapStart} /\ heap'[HeapStart].next = NULL
        /\ heap'[HeapStart].prev = NULL /\ ~heap'[HeapStart].is_allocated
        /\ heap'[HeapStart].alloc_ptr = NULL
        /\ heap'[HeapStart].segment_size = HeapSize
        /\ pc' = "ready" /\ temp' = temp /\ pc = "ready"
    OBVIOUS
  <1>2. TypeOK'
    BY DEF IInv, TypeOK, Header
  <1>3. Tiled'
    BY <1>1 DEF Tiled
  <1>4. BlocksHaveSegments'
    BY <1>1 DEF BlocksHaveSegments
  <1>5. InWords'
    BY <1>1 DEF InWords
  <1>6. GroupedButTemp'
    BY <1>1 DEF GroupedButTemp, IsFree
  <1> QED
    BY <1>1, <1>2, <1>3, <1>4, <1>5, <1>6 DEF IInv

\* A step that leaves the list and the blocks alone and moves on from a loop
\* whose neighbour is not free, or fails a demand.
LEMMA StandStillInv ==
    IInv /\ (LeftDone \/ RightDone \/ (\E ptr \in Pointers : KfreePanic(ptr))
             \/ UNCHANGED vars)
    => IInv'
  <1> SUFFICES ASSUME IInv,
                      LeftDone \/ RightDone
                      \/ (\E ptr \in Pointers : KfreePanic(ptr)) \/ UNCHANGED vars
               PROVE  IInv'
    OBVIOUS
  <1>1. heap' = heap /\ blocks' = blocks /\ Headers' = Headers
    BY DEF LeftDone, RightDone, KfreePanic, vars, Headers
  <1>2. TypeOK'
    BY <1>1 DEF IInv, TypeOK, LeftDone, RightDone, KfreePanic, vars, NULL
  <1>3. Tiled' /\ BlocksHaveSegments' /\ InWords'
    BY <1>1 DEF IInv, Tiled, BlocksHaveSegments, InWords
  <1>4. GroupedButTemp'
    <2>1. CASE LeftDone
      <3>1. ASSUME NEW a \in Headers, heap[a].next = temp PROVE heap[a].is_allocated
        <4>1. a # NULL /\ temp # NULL
          BY <2>1, HeapAssumption DEF IInv, TypeOK, LeftDone, NULL, HEADER, HeapEnd
        <4>2. heap[temp].prev = a
          BY <3>1, <4>1 DEF IInv, Tiled
        <4> QED
          BY <2>1, <4>1, <4>2 DEF LeftDone, IsFree
      <3> QED
        BY <1>1, <2>1, <3>1 DEF IInv, GroupedButTemp, LeftDone, IsFree
    <2>2. CASE RightDone
      BY <1>1, <2>2 DEF IInv, GroupedButTemp, RightDone, IsFree
    <2>3. CASE (\E ptr \in Pointers : KfreePanic(ptr)) \/ UNCHANGED vars
      BY <1>1, <2>3 DEF IInv, GroupedButTemp, KfreePanic, vars, IsFree
    <2> QED
      BY <2>1, <2>2, <2>3
  <1>5. pc' # "ready" => ~heap'[temp'].is_allocated
    BY <1>1 DEF IInv, TypeOK, LeftDone, RightDone, KfreePanic, vars
  <1> QED
    BY <1>2, <1>3, <1>4, <1>5 DEF IInv

\* A header is made of its five fields.
LEMMA HeaderType ==
    ASSUME NEW next \in Nat, NEW prev \in Nat, NEW ptr \in Nat,
           NEW used \in BOOLEAN, NEW size \in Nat
    PROVE  [next |-> next, prev |-> prev, alloc_ptr |-> ptr,
            is_allocated |-> used, segment_size |-> size] \in Header
  BY DEF Header

\* prev leads back along next.
LEMMA PrevOfNext ==
    ASSUME IInv, NEW b \in Headers, heap[b].prev # NULL
    PROVE  heap[b].prev \in Headers /\ heap[heap[b].prev].next = b
  BY DEF IInv, Tiled

\* Free merges: b follows a, both are free, and a takes b's place as well.
LEMMA MergedTiles ==
    ASSUME IInv, NEW a \in Headers, NEW b \in Headers, heap[a].next = b,
           ~heap[a].is_allocated, ~heap[b].is_allocated,
           heap' = Merged(a, b), UNCHANGED blocks
    PROVE  /\ Headers' = Headers \ {b} /\ a \in Headers' /\ a < b
           /\ heap' \in [Headers' -> Header]
           /\ \A x \in Headers' :
                /\ heap'[x].is_allocated = heap[x].is_allocated
                /\ x # a => heap'[x].next = heap[x].next
           /\ heap'[a].next = heap[b].next
           /\ Tiled' /\ BlocksHaveSegments' /\ InWords'
  <1> DEFINE after == heap[b].next
  <1>1. /\ a \in Nat /\ b \in Nat /\ after \in Nat /\ a > 0 /\ b > 0
        /\ heap[a] \in Header /\ heap[b] \in Header
        /\ \A x \in Headers : heap[x] \in Header /\ x \in Nat /\ x > 0
    BY HeapAssumption DEF IInv, TypeOK, Header, HEADER, HeapEnd
  <1>2. /\ b = a + heap[a].segment_size /\ heap[b].prev = a
        /\ heap[a].segment_size >= HEADER /\ heap[b].segment_size >= HEADER
        /\ a < b
    BY <1>1 DEF IInv, Tiled, InWords, NULL, HEADER, Header
  <1>3. after # NULL => after \in Headers /\ after > b /\ after # a /\ heap[after].prev = b
                        /\ after = b + heap[b].segment_size
    <2> SUFFICES ASSUME after # NULL
                 PROVE  /\ after \in Headers /\ heap[after].prev = b
                        /\ after = b + heap[b].segment_size
      BY <1>1, <1>2 DEF NULL, HEADER, Header
    <2> QED
      BY DEF IInv, Tiled
  <1>4. /\ Headers' = Headers \ {b} /\ a \in Headers'
        /\ heap'[a] = [heap[a] EXCEPT !.next = after, !.alloc_ptr = NULL,
                                      !.segment_size = heap[a].segment_size
                                                       + heap[b].segment_size]
        /\ \A x \in Headers' : x # a /\ x # after => heap'[x] = heap[x]
        /\ after # NULL => after \in Headers' /\ heap'[after] = [heap[after] EXCEPT !.prev = a]
    <2>1. heap' = Merged(a, b) /\ a # b
      BY <1>1, <1>2
    <2>2. Headers' = Headers \ {b} /\ a \in Headers'
      BY <2>1 DEF Merged, Headers
    <2>3. \A x \in Headers \ {b} :
             heap'[x] = CASE x = a -> [heap[x] EXCEPT !.next = after, !.alloc_ptr = NULL,
                                          !.segment_size = @ + heap[b].segment_size]
                          [] x = after /\ x # a -> [heap[x] EXCEPT !.prev = a]
                          [] OTHER -> heap[x]
      BY <2>1 DEF Merged
    <2>4. after # NULL => after \in Headers \ {b} /\ after # a
      BY <1>1, <1>3
    <2> QED
      BY <2>2, <2>3, <2>4
  <1>5. \A x \in Headers' :
           /\ heap'[x] \in Header
           /\ heap'[x].is_allocated = heap[x].is_allocated
           /\ heap'[x].alloc_ptr = heap[x].alloc_ptr
           /\ x # a => heap'[x].next = heap[x].next
                       /\ heap'[x].segment_size = heap[x].segment_size
           /\ x # after => heap'[x].prev = heap[x].prev
    <2> TAKE x \in Headers'
    <2>0. x \in Headers /\ heap[x] \in Header /\ heap[a].alloc_ptr = NULL
      BY <1>1, <1>4 DEF IInv, BlocksHaveSegments
    <2>1. CASE x = a
      <3>1. /\ heap'[a] = [heap[a] EXCEPT !.next = after, !.alloc_ptr = NULL,
                                      !.segment_size = heap[a].segment_size
                                                       + heap[b].segment_size]
            /\ after \in Nat /\ heap[a] \in Header /\ heap[b].segment_size \in Nat
        BY <1>1, <1>4 DEF Header
      <3>2. heap[a].segment_size + heap[b].segment_size \in Nat
        BY <3>1 DEF Header
      <3> HIDE DEF after
      <3> QED
        BY <2>0, <2>1, <3>1, <3>2 DEF Header, NULL
    <2>2. CASE x = after /\ x # a
      BY <1>1, <1>3, <1>4, <2>0, <2>2 DEF Header, NULL
    <2>3. CASE x # after /\ x # a
      BY <1>4, <2>0, <2>3
    <2> QED
      BY <2>1, <2>2, <2>3
  <1>6. /\ heap'[a].next = after
        /\ heap'[a].segment_size = heap[a].segment_size + heap[b].segment_size
        /\ after # NULL => heap'[after].prev = a
    BY <1>1, <1>3, <1>4 DEF Header
  <1>7. heap' \in [Headers' -> Header]
    <2>1. heap' = [x \in Headers' |-> heap'[x]]
      BY DEF Merged, Headers
    <2> QED
      BY <1>5, <2>1
  <1>8. Tiled'
    <2>1. HeapStart \in Headers' /\ heap'[HeapStart].prev = NULL
      <3>1. HeapStart # b
        BY <1>1, <1>2 DEF IInv, Tiled, NULL
      <3>2. HeapStart # after
        BY <1>1, <1>3 DEF IInv, Tiled, NULL
      <3> QED
        BY <1>4, <1>5, <3>1, <3>2 DEF IInv, Tiled
    <2>2. ASSUME NEW x \in Headers'
          PROVE  LET end == x + heap'[x].segment_size IN
                 IF heap'[x].next = NULL THEN end = HeapEnd
                 ELSE heap'[x].next = end /\ end \in Headers' /\ heap'[end].prev = x
      <3>1. x \in Headers
        BY <1>4
      <3>2. CASE x = a
        <4>1. x + heap'[x].segment_size = b + heap[b].segment_size
          BY <1>1, <1>2, <1>6, <3>2 DEF Header
        <4>2. CASE after = NULL
          BY <1>6, <3>2, <4>1, <4>2 DEF IInv, Tiled
        <4>3. CASE after # NULL
          <5>1. after = a + heap'[a].segment_size
            BY <1>3, <3>2, <4>1, <4>3
          <5>2. after \in Headers' /\ heap'[after].prev = a /\ heap'[a].next = after
            BY <1>4, <1>6, <4>3
          <5> QED
            BY <3>2, <4>3, <5>1, <5>2
        <4> QED
          BY <4>2, <4>3
      <3>3. CASE x # a
        <4>1. heap'[x].next = heap[x].next /\ heap'[x].segment_size = heap[x].segment_size
          BY <1>5, <3>3
        <4>2. CASE heap[x].next = NULL
          BY <3>1, <4>1, <4>2 DEF IInv, Tiled, HeapEnd
        <4>3. CASE heap[x].next # NULL
          <5> DEFINE end == x + heap[x].segment_size
          <5>1. heap[x].next = end /\ end \in Headers /\ heap[end].prev = x
            BY <3>1, <4>3 DEF IInv, Tiled
          <5>2. end # b /\ end # after
            BY <1>2, <1>3, <1>4, <3>1, <3>3, <4>3, <5>1
          <5> QED
            BY <1>4, <1>5, <4>1, <4>3, <5>1, <5>2
        <4> QED
          BY <4>2, <4>3
      <3> QED
        BY <3>2, <3>3
    <2>3. ASSUME NEW x \in Headers', NEW y \in Headers', x < y
          PROVE  x + heap'[x].segment_size <= y
      <3>1. x \in Headers /\ y \in Headers /\ y # b
        BY <1>4
      <3>2. CASE x = a
        <4>1. y > b
          <5>1. a + heap[a].segment_size <= y
            BY <2>3, <3>1, <3>2 DEF IInv, Tiled
          <5>2. b <= y
            BY <1>2, <5>1
          <5>3. y \in Nat /\ b \in Nat /\ y # b
            BY <1>1, <3>1
          <5> QED
            BY <5>2, <5>3
        <4>2. b + heap[b].segment_size <= y
          BY <3>1, <4>1 DEF IInv, Tiled
        <4>3. heap[a].segment_size \in Nat /\ heap[b].segment_size \in Nat
          BY <1>1 DEF Header
        <4> QED
          BY <1>1, <1>2, <1>6, <3>1, <3>2, <4>2, <4>3
      <3>3. CASE x # a
        BY <1>5, <2>3, <3>1, <3>3 DEF IInv, Tiled
      <3> QED
        BY <3>2, <3>3
    <2>4. ASSUME NEW x \in Headers'
          PROVE  IF heap'[x].prev = NULL THEN x = HeapStart
                 ELSE heap'[x].prev \in Headers' /\ heap'[heap'[x].prev].next = x
      <3>1. x \in Headers /\ x # b
        BY <1>4
      <3>2. CASE x = after
        <4>1. a # NULL /\ x # NULL
          BY <1>1, <3>1 DEF NULL
        <4>2. heap'[x].prev = a
          BY <1>6, <3>2, <4>1
        <4> QED
          BY <1>4, <1>6, <3>2, <4>1, <4>2
      <3>3. CASE x # after
        <4> DEFINE p == heap[x].prev
        <4>1. heap'[x].prev = p
          BY <1>5, <3>3
        <4>2. CASE p = NULL
          BY <3>1, <4>1, <4>2 DEF IInv, Tiled
        <4>3. CASE p # NULL
          <5>1. p \in Headers /\ heap[p].next = x
            BY <3>1, <4>3, PrevOfNext
          <5>2. p # b /\ p # a
            BY <3>1, <3>3, <5>1
          <5> QED
            BY <1>4, <1>5, <4>1, <4>3, <5>1, <5>2
        <4> QED
          BY <4>2, <4>3
      <3> QED
        BY <3>2, <3>3
    <2> QED
      BY <2>1, <2>2, <2>3, <2>4 DEF Tiled, HeapEnd
  <1>9. BlocksHaveSegments'
    <2>1. ASSUME NEW p \in DOMAIN blocks
          PROVE  \E x \in Headers' : heap'[x].is_allocated /\ heap'[x].alloc_ptr = p
      <3>1. PICK x \in Headers : heap[x].is_allocated /\ heap[x].alloc_ptr = p
        BY DEF IInv, BlocksHaveSegments
      <3>2. x # a /\ x # b
        BY <3>1
      <3> QED
        BY <1>4, <1>5, <3>1, <3>2
    <2>2. ASSUME NEW x \in Headers', ~heap'[x].is_allocated
          PROVE  heap'[x].alloc_ptr = NULL
      BY <1>4, <1>5, <2>2 DEF IInv, BlocksHaveSegments
    <2>3. ASSUME NEW x \in Headers', heap'[x].is_allocated
          PROVE  LET p == heap'[x].alloc_ptr IN
                 /\ p \in DOMAIN blocks
                 /\ x + HEADER <= p /\ p + blocks[p] <= x + heap'[x].segment_size
      <3>1. x \in Headers /\ x # a
        BY <1>4, <1>5, <2>3
      <3> QED
        BY <1>5, <2>3, <3>1 DEF IInv, BlocksHaveSegments
    <2> QED
      BY <2>1, <2>2, <2>3 DEF BlocksHaveSegments, HEADER, NULL
  <1>10. InWords'
    <2> SUFFICES ASSUME NEW x \in Headers'
                 PROVE  /\ x % 8 = 0 /\ heap'[x].segment_size % 8 = 0
                        /\ heap'[x].segment_size >= HEADER
      BY DEF InWords, HEADER
    <2>1. x \in Headers /\ x % 8 = 0
      BY <1>4 DEF IInv, InWords
    <2>2. CASE x = a
      <3>1. heap[a].segment_size \in Nat /\ heap[b].segment_size \in Nat
        BY <1>1 DEF Header
      <3>2. heap[a].segment_size % 8 = 0 /\ heap[b].segment_size % 8 = 0
        BY DEF IInv, InWords
      <3>3. (heap[a].segment_size + heap[b].segment_size) % 8 = 0
        BY <3>1, <3>2, Eights
      <3>4. heap[a].segment_size + heap[b].segment_size >= HEADER
        BY <1>2, <3>1 DEF HEADER
      <3> QED
        BY <1>6, <2>1, <2>2, <3>3, <3>4
    <2>3. CASE x # a
      BY <1>5, <2>1, <2>3 DEF IInv, InWords
    <2> QED
      BY <2>2, <2>3
  <1> QED
    BY <1>2, <1>4, <1>5, <1>6, <1>7, <1>8, <1>9, <1>10

LEMMA MergeLeftInv == IInv /\ MergeLeft => IInv'
  <1> SUFFICES ASSUME IInv, MergeLeft PROVE IInv'
    OBVIOUS
  <1> DEFINE a == heap[temp].prev
  <1>1. /\ temp \in Headers /\ ~heap[temp].is_allocated
        /\ a # NULL /\ ~heap[a].is_allocated
        /\ heap' = Merged(a, temp) /\ UNCHANGED blocks
        /\ pc = "left" /\ pc' = "left" /\ temp' = a /\ up' = up
    BY DEF IInv, TypeOK, MergeLeft, IsFree
  <1>2. a \in Headers /\ heap[a].next = temp
    BY <1>1, PrevOfNext
  <1> HIDE DEF a
  <1>3. /\ Headers' = Headers \ {temp} /\ a \in Headers' /\ a < temp
        /\ heap' \in [Headers' -> Header]
        /\ \A x \in Headers' :
             /\ heap'[x].is_allocated = heap[x].is_allocated
             /\ x # a => heap'[x].next = heap[x].next
        /\ heap'[a].next = heap[temp].next
        /\ Tiled' /\ BlocksHaveSegments' /\ InWords'
    BY <1>1, <1>2, MergedTiles
  <1>4. TypeOK'
    BY <1>1, <1>3 DEF IInv, TypeOK, HeapEnd, HEADER, NULL
  <1>5. GroupedButTemp'
    <2> SUFFICES ASSUME NEW x \in Headers', x # a, heap'[x].next # a,
                        ~heap'[x].is_allocated, IsFree(heap[x].next)'
                 PROVE  FALSE
      BY <1>1 DEF GroupedButTemp
    <2>1. x \in Headers /\ heap'[x].next = heap[x].next /\ ~heap[x].is_allocated
      BY <1>3
    <2>2. heap[x].next \in Headers' /\ heap[x].next # NULL
          /\ ~heap'[heap[x].next].is_allocated
      BY <1>3, <2>1 DEF IsFree, Tiled
    <2>3. heap[x].next # temp /\ x # temp /\ IsFree(heap[x].next)
      BY <1>3, <2>2 DEF IsFree
    <2> QED
      BY <2>1, <2>3 DEF IInv, GroupedButTemp
  <1> QED
    BY <1>1, <1>3, <1>4, <1>5 DEF IInv

LEMMA MergeRightInv == IInv /\ MergeRight => IInv'
  <1> SUFFICES ASSUME IInv, MergeRight PROVE IInv'
    OBVIOUS
  <1> DEFINE b == heap[temp].next
  <1>1. /\ temp \in Headers /\ ~heap[temp].is_allocated
        /\ b # NULL /\ ~heap[b].is_allocated
        /\ heap' = Merged(temp, b) /\ UNCHANGED blocks
        /\ pc = "right" /\ pc' = "right" /\ temp' = temp /\ up' = up
    BY DEF IInv, TypeOK, MergeRight, IsFree
  <1>2. b \in Headers
    BY <1>1 DEF IInv, Tiled
  <1>3. /\ Headers' = Headers \ {b} /\ temp \in Headers' /\ temp < b
        /\ heap' \in [Headers' -> Header]
        /\ \A x \in Headers' :
             /\ heap'[x].is_allocated = heap[x].is_allocated
             /\ x # temp => heap'[x].next = heap[x].next
        /\ heap'[temp].next = heap[b].next
        /\ Tiled' /\ BlocksHaveSegments' /\ InWords'
    BY <1>1, <1>2, MergedTiles
  <1>4. TypeOK'
    BY <1>1, <1>3 DEF IInv, TypeOK, HeapEnd, HEADER, NULL
  <1>5. GroupedButTemp'
    <2> SUFFICES ASSUME NEW x \in Headers', x # temp,
                        ~heap'[x].is_allocated, IsFree(heap[x].next)'
                 PROVE  FALSE
      BY <1>1 DEF GroupedButTemp
    <2>1. x \in Headers /\ heap'[x].next = heap[x].next /\ ~heap[x].is_allocated
      BY <1>3
    <2>2. heap[x].next \in Headers' /\ heap[x].next # NULL
          /\ ~heap'[heap[x].next].is_allocated
      BY <1>3, <2>1 DEF IsFree, Tiled
    <2>3. IsFree(heap[x].next)
      BY <1>3, <2>2 DEF IsFree
    <2> QED
      BY <1>1, <2>1, <2>3 DEF IInv, GroupedButTemp
  <1> QED
    BY <1>1, <1>3, <1>4, <1>5 DEF IInv

\* kfree frees the segment that carries the pointer, and no other carries it.
LEMMA KfreeInv ==
    ASSUME IInv, NEW ptr \in Pointers, Kfree(ptr)
    PROVE  IInv' /\ ptr \in DOMAIN blocks
  <1> USE DEF NULL, HEADER
  <1>1. PICK a \in Headers :
          /\ heap[a].alloc_ptr = ptr
          /\ heap' = [heap EXCEPT ![a].is_allocated = FALSE, ![a].alloc_ptr = NULL]
          /\ temp' = a
    BY DEF Kfree, Owners
  <1>2. /\ pc = "ready" /\ pc' = "left" /\ up' = up /\ blocks' = A!Drop(blocks, ptr)
        /\ ptr # NULL /\ ptr \in Nat
    BY HeapAssumption DEF Kfree, Pointers, HeapEnd
  <1>3. heap[a].is_allocated /\ ptr \in DOMAIN blocks
    BY <1>1, <1>2 DEF IInv, BlocksHaveSegments
  <1>4. \A x \in Headers : heap[x] \in Header /\ x \in Nat
    BY HeapAssumption DEF IInv, TypeOK, HeapEnd
  <1>5. /\ Headers' = Headers
        /\ \A x \in Headers :
             /\ heap'[x] \in Header
             /\ heap'[x].next = heap[x].next /\ heap'[x].prev = heap[x].prev
             /\ heap'[x].segment_size = heap[x].segment_size
             /\ x # a => heap'[x] = heap[x]
        /\ ~heap'[a].is_allocated /\ heap'[a].alloc_ptr = NULL
    BY <1>1, <1>4 DEF IInv, TypeOK, Headers, Header
  <1>6. /\ DOMAIN blocks' = DOMAIN blocks \ {ptr}
        /\ \A p \in DOMAIN blocks' : blocks'[p] = blocks[p]
        /\ blocks' \in [DOMAIN blocks' -> Nat]
    BY <1>2 DEF A!Drop, IInv, TypeOK
  <1>7. TypeOK'
    <2>1. heap' \in [Headers' -> Header]
      BY <1>1, <1>5 DEF IInv, TypeOK
    <2> QED
      BY <1>1, <1>2, <1>5, <1>6, <2>1 DEF IInv, TypeOK, HeapEnd
  <1>8. Tiled' /\ InWords'
    BY <1>5 DEF IInv, Tiled, InWords, HeapEnd
  <1>9. ASSUME NEW x \in Headers, heap[x].is_allocated, heap[x].alloc_ptr = ptr
        PROVE  x = a
    <2>1. /\ x + HEADER <= ptr /\ ptr + blocks[ptr] <= x + heap[x].segment_size
          /\ a + HEADER <= ptr /\ ptr + blocks[ptr] <= a + heap[a].segment_size
      BY <1>1, <1>3, <1>9 DEF IInv, BlocksHaveSegments
    <2>2. /\ x < a => x + heap[x].segment_size <= a
          /\ a < x => a + heap[a].segment_size <= x
      BY DEF IInv, Tiled
    <2>3. /\ x \in Nat /\ a \in Nat /\ blocks[ptr] \in Nat
          /\ heap[x].segment_size \in Nat /\ heap[a].segment_size \in Nat
      BY <1>3, <1>4 DEF IInv, TypeOK, Header
    <2> QED
      BY <1>2, <2>1, <2>2, <2>3
  <1>10. BlocksHaveSegments'
    <2>1. ASSUME NEW p \in DOMAIN blocks'
          PROVE  \E x \in Headers' : heap'[x].is_allocated /\ heap'[x].alloc_ptr = p
      <3>1. PICK x \in Headers : heap[x].is_allocated /\ heap[x].alloc_ptr = p
        BY <1>6 DEF IInv, BlocksHaveSegments
      <3> QED
        BY <1>1, <1>5, <1>6, <3>1
    <2>2. ASSUME NEW x \in Headers', ~heap'[x].is_allocated
          PROVE  heap'[x].alloc_ptr = NULL
      BY <1>5, <2>2 DEF IInv, BlocksHaveSegments
    <2>3. ASSUME NEW x \in Headers', heap'[x].is_allocated
          PROVE  LET p == heap'[x].alloc_ptr IN
                 /\ p \in DOMAIN blocks'
                 /\ x + HEADER <= p /\ p + blocks'[p] <= x + heap'[x].segment_size
      <3>1. x \in Headers /\ x # a /\ heap'[x] = heap[x]
        BY <1>5, <2>3
      <3>2. heap[x].alloc_ptr # ptr
        BY <1>9, <2>3, <3>1
      <3> QED
        BY <1>6, <2>3, <3>1, <3>2 DEF IInv, BlocksHaveSegments
    <2> QED
      BY <2>1, <2>2, <2>3 DEF BlocksHaveSegments
  <1>11. GroupedButTemp'
    <2> SUFFICES ASSUME NEW x \in Headers', x # a, heap'[x].next # a,
                        ~heap'[x].is_allocated, IsFree(heap[x].next)'
                 PROVE  FALSE
      BY <1>1, <1>2 DEF GroupedButTemp
    <2>1. ~heap[x].is_allocated /\ heap[x].next # a /\ heap[x].next # NULL
          /\ ~heap'[heap[x].next].is_allocated
      BY <1>5 DEF IsFree
    <2>2. heap[x].next \in Headers
      BY <1>5, <2>1 DEF IInv, Tiled
    <2>3. IsFree(heap[x].next)
      BY <1>5, <2>1, <2>2 DEF IsFree
    <2> QED
      BY <1>2, <1>5, <2>1, <2>3 DEF IInv, GroupedButTemp
  <1> QED
    BY <1>1, <1>3, <1>5, <1>7, <1>8, <1>10, <1>11 DEF IInv

-----------------------------------------------------------------------------
(* kmalloc *)

\* A free segment that fits n bytes hits no block: every block lies in the
\* segment of its own header.
LEMMA FreeIsHole ==
    ASSUME IInv, NEW best \in Headers, ~heap[best].is_allocated,
           NEW ptr \in Nat, NEW n \in Nat,
           best + HEADER <= ptr, ptr + n <= best + heap[best].segment_size
    PROVE  A!IsHole(ptr, n)
  <1>1. /\ best \in Nat /\ heap[best].segment_size \in Nat /\ HeapStart <= best
        /\ heap[best].next \in Nat
    BY HeapAssumption DEF IInv, TypeOK, Header, HeapEnd, HEADER
  <1>2. best + heap[best].segment_size <= HeapEnd
    <2>1. CASE heap[best].next = NULL
      BY <1>1, <2>1 DEF IInv, Tiled
    <2>2. CASE heap[best].next # NULL
      <3>1. best + heap[best].segment_size \in Headers
        BY <2>2 DEF IInv, Tiled
      <3> QED
        BY <1>1, <3>1, HeapAssumption DEF IInv, TypeOK, HeapEnd, HEADER
    <2> QED
      BY <2>1, <2>2
  <1>3. ASSUME NEW q \in DOMAIN blocks
        PROVE  q # ptr /\ (ptr + n <= q \/ q + blocks[q] <= ptr)
    <2>1. PICK a \in Headers : heap[a].is_allocated /\ heap[a].alloc_ptr = q
      BY DEF IInv, BlocksHaveSegments
    <2>2. a + HEADER <= q /\ q + blocks[q] <= a + heap[a].segment_size
      BY <2>1 DEF IInv, BlocksHaveSegments
    <2>3. /\ a < best => a + heap[a].segment_size <= best
          /\ best < a => best + heap[best].segment_size <= a
      BY DEF IInv, Tiled
    <2>4. /\ a \in Nat /\ a # best /\ heap[a].segment_size \in Nat
          /\ q \in Nat /\ blocks[q] \in Nat
      BY <2>1, HeapAssumption DEF IInv, TypeOK, Header, HeapEnd
    <2>5. CASE a < best
      BY <1>1, <2>2, <2>3, <2>4, <2>5 DEF HEADER
    <2>6. CASE best < a
      BY <1>1, <2>2, <2>3, <2>4, <2>6 DEF HEADER
    <2> QED
      BY <1>1, <2>4, <2>5, <2>6
  <1>4. HeapStart <= ptr /\ ptr + n <= HeapEnd
    BY <1>1, <1>2, HeapAssumption DEF HeapEnd, HEADER
  <1> QED
    BY <1>3, <1>4 DEF A!IsHole, A!HeapEnd, HeapEnd

\* The segment kmalloc takes is still a tile of the heap, long enough for the
\* request, and what is split off is another one.
LEMMA CarvedTiles ==
    ASSUME IInv, pc = "ready", NEW best \in Headers, NEW n \in Nat,
           ~heap[best].is_allocated, n <= heap[best].segment_size,
           n % 8 = 0, n >= HEADER, NEW ptr \in Nat,
           heap' = [Carved(best, n) EXCEPT ![best].is_allocated = TRUE,
                                           ![best].alloc_ptr = ptr]
    PROVE  /\ heap' \in [Headers' -> Header]
           /\ best \in Headers' /\ Headers \subseteq Headers'
           /\ Headers' \subseteq HeapStart..(HeapEnd - HEADER)
           /\ heap'[best].is_allocated /\ heap'[best].alloc_ptr = ptr
           /\ n <= heap'[best].segment_size
           /\ \A x \in Headers \ {best} :
                /\ heap'[x].is_allocated = heap[x].is_allocated
                /\ heap'[x].alloc_ptr = heap[x].alloc_ptr
                /\ heap'[x].segment_size = heap[x].segment_size
                /\ heap'[x].next = heap[x].next
           /\ \A x \in Headers' \ Headers :
                /\ ~heap'[x].is_allocated /\ heap'[x].alloc_ptr = NULL
                /\ heap'[x].next = heap[best].next
           /\ Tiled' /\ InWords'
  <1> DEFINE after == heap[best].next
             rest == best + n
             size == heap[best].segment_size
  <1>1. \A x \in Headers : heap[x] \in Header /\ x \in Nat /\ x > 0
    BY HeapAssumption DEF IInv, TypeOK, HeapEnd, HEADER
  <1>2. /\ best \in Nat /\ best > 0 /\ best % 8 = 0 /\ size \in Nat /\ size % 8 = 0
        /\ after \in Nat /\ heap[best].prev \in Nat /\ heap[best] \in Header
    BY <1>1 DEF IInv, InWords, Header
  <1>3. after # NULL => /\ after = best + size /\ after \in Headers
                        /\ after # best /\ heap[after].prev = best
    <2> SUFFICES ASSUME after # NULL
                 PROVE  /\ after = best + size /\ after \in Headers
                        /\ after # best /\ heap[after].prev = best
      OBVIOUS
    <2>1. after = best + size /\ after \in Headers /\ heap[after].prev = best
      BY DEF IInv, Tiled
    <2>2. size >= HEADER
      BY DEF IInv, InWords
    <2> QED
      BY <1>2, <2>1, <2>2 DEF HEADER
  <1>t. \A x, y \in Headers : x < y => x + heap[x].segment_size <= y
    BY DEF IInv, Tiled
  <1>4. CASE ~(size - n > 2 * HEADER)
    <2>1. heap' = [heap EXCEPT ![best].is_allocated = TRUE, ![best].alloc_ptr = ptr]
      BY <1>4 DEF Carved
    <2>2. /\ Headers' = Headers
          /\ heap' \in [Headers' -> Header]
          /\ heap'[best].is_allocated /\ heap'[best].alloc_ptr = ptr
          /\ \A x \in Headers :
               /\ heap'[x].next = heap[x].next /\ heap'[x].prev = heap[x].prev
               /\ heap'[x].segment_size = heap[x].segment_size
               /\ x # best => heap'[x] = heap[x]
      <3>1. Headers' = Headers
        BY <2>1 DEF Headers
      <3>2. heap'[best] = [heap[best] EXCEPT !.is_allocated = TRUE, !.alloc_ptr = ptr]
            /\ \A x \in Headers : x # best => heap'[x] = heap[x]
        BY <2>1 DEF IInv, TypeOK
      <3>3. heap'[best] \in Header
            /\ heap'[best].is_allocated /\ heap'[best].alloc_ptr = ptr
            /\ heap'[best].next = heap[best].next /\ heap'[best].prev = heap[best].prev
            /\ heap'[best].segment_size = heap[best].segment_size
        <4> DEFINE new == [heap[best] EXCEPT !.is_allocated = TRUE, !.alloc_ptr = ptr]
        <4>1. new \in Header /\ new.is_allocated /\ new.alloc_ptr = ptr
              /\ new.next = heap[best].next /\ new.prev = heap[best].prev
              /\ new.segment_size = heap[best].segment_size
          BY <1>2 DEF Header
        <4> QED
          BY <3>2, <4>1
      <3>4. heap' \in [Headers' -> Header]
        BY <2>1, <3>1, <3>3 DEF IInv, TypeOK
      <3> QED
        BY <3>1, <3>2, <3>3, <3>4
    <2>3. Tiled' /\ InWords'
      BY <2>2 DEF IInv, Tiled, InWords, HeapEnd
    <2> QED
      BY <2>2, <2>3 DEF IInv, TypeOK
  <1>5. CASE size - n > 2 * HEADER
    <2>1. RoundUp(best + n, 8) = rest
      <3>1. (best + n) % 8 = 0 /\ best + n \in Nat
        <4>1. best \in Int /\ n \in Int /\ best % 8 = 0
          BY <1>2
        <4>2. (best + n) % 8 = 0
          BY <4>1, Eights
        <4> QED
          BY <1>2, <4>2
      <3> QED
        BY <3>1, RoundUpExact
    <2>2. /\ rest \in Nat /\ rest > best /\ rest % 8 = 0
          /\ rest + 2 * HEADER < best + size /\ rest + (size - n) = best + size
      <3>1. (best + n) % 8 = 0
        BY <1>2, Eights, n \in Int, best \in Int
      <3> HIDE DEF size
      <3> QED
        BY <1>2, <1>5, <3>1 DEF HEADER
    <2>3. rest \notin Headers
      BY <2>2, <1>2 DEF IInv, Tiled, HEADER
    <2>4. best + size <= HeapEnd
      <3>1. CASE after = NULL
        BY <3>1, <1>2 DEF IInv, Tiled
      <3>2. CASE after # NULL
        BY <3>2, <1>2, <1>3, HeapAssumption DEF IInv, TypeOK, HeapEnd, HEADER
      <3> QED
        BY <3>1, <3>2
    <2>5. /\ Headers' = Headers \cup {rest}
          /\ heap' = [x \in Headers' |-> heap'[x]]
          /\ heap'[rest] = [next |-> after, prev |-> best, alloc_ptr |-> NULL,
                            is_allocated |-> FALSE, segment_size |-> size - n]
          /\ heap'[best] = [heap[best] EXCEPT !.next = rest, !.segment_size = n,
                                              !.is_allocated = TRUE, !.alloc_ptr = ptr]
          /\ after # NULL => heap'[after] = [heap[after] EXCEPT !.prev = rest]
          /\ \A x \in Headers : x # best /\ x # after => heap'[x] = heap[x]
      <3>1. Carved(best, n) = Split(best, n)
        BY <1>5 DEF Carved
      <3>2. /\ DOMAIN Split(best, n) = Headers \cup {rest}
            /\ \A x \in Headers \cup {rest} :
                 Split(best, n)[x] =
                   CASE x = rest -> [next |-> after, prev |-> best,
                                     alloc_ptr |-> NULL, is_allocated |-> FALSE,
                                     segment_size |-> size - n]
                     [] x = best -> [heap[x] EXCEPT !.next = rest, !.segment_size = n]
                     [] x = after /\ x # best /\ x # rest -> [heap[x] EXCEPT !.prev = rest]
                     [] OTHER -> heap[x]
        BY <2>1 DEF Split
      <3>3. /\ Split(best, n)[rest] = [next |-> after, prev |-> best,
                                       alloc_ptr |-> NULL, is_allocated |-> FALSE,
                                       segment_size |-> size - n]
            /\ Split(best, n)[best] = [heap[best] EXCEPT !.next = rest, !.segment_size = n]
            /\ after # NULL => Split(best, n)[after] = [heap[after] EXCEPT !.prev = rest]
            /\ \A x \in Headers : x # best /\ x # after => Split(best, n)[x] = heap[x]
        <4>1. rest # best /\ (after # NULL => after # rest)
          BY <1>3, <2>3
        <4> QED
          BY <1>3, <2>3, <3>2, <4>1
      <3>4. heap' = [Split(best, n) EXCEPT ![best].is_allocated = TRUE, ![best].alloc_ptr = ptr]
        BY <3>1
      <3>5. Headers' = Headers \cup {rest}
        BY <3>2, <3>4 DEF Headers
      <3>6. best \in Headers /\ rest # best
        BY <1>2, <2>3
      <3>7. /\ heap' = [x \in Headers' |-> heap'[x]]
            /\ \A x \in Headers \cup {rest} : x # best => heap'[x] = Split(best, n)[x]
            /\ heap'[best] = [Split(best, n)[best] EXCEPT !.is_allocated = TRUE,
                                                         !.alloc_ptr = ptr]
        BY <3>2, <3>4, <3>5, <3>6
      <3>8. heap'[best] = [heap[best] EXCEPT !.next = rest, !.segment_size = n,
                                            !.is_allocated = TRUE, !.alloc_ptr = ptr]
        <4> DEFINE old == heap[best]
        <4>1. Split(best, n)[best] = [old EXCEPT !.next = rest, !.segment_size = n]
          BY <3>3
        <4> HIDE DEF old
        <4>2. heap'[best] = [old EXCEPT !.next = rest, !.segment_size = n,
                                        !.is_allocated = TRUE, !.alloc_ptr = ptr]
          BY <3>7, <4>1
        <4> QED
          BY <4>2 DEF old
      <3>9. after # NULL => after \in Headers /\ after # best
        BY <1>3
      <3> QED
        BY <3>3, <3>5, <3>6, <3>7, <3>8, <3>9
    <2>d. Headers' = Headers \cup {rest} /\ rest \notin Headers /\ rest # best
      <3>1. Headers' = Headers \cup {rest}
        BY <2>5
      <3>2. rest # best
        BY <1>2, <2>3
      <3> QED
        BY <2>3, <3>1, <3>2
    <2> HIDE DEF after, rest, size
    <2>6. \A x \in Headers' : heap'[x] \in Header
      <3> TAKE x \in Headers'
      <3>1. CASE x = rest
        <4>1. size - n \in Nat /\ after \in Nat /\ best \in Nat
          BY <1>2, <1>5 DEF HEADER
        <4> QED
          <5>1. heap'[rest] = [next |-> after, prev |-> best, alloc_ptr |-> NULL,
                               is_allocated |-> FALSE, segment_size |-> size - n]
            BY <2>5
          <5> QED
            <6> DEFINE N == size - n
            <6>1. N \in Nat
              BY <4>1
            <6> HIDE DEF N
            <6>2. heap'[rest] = [next |-> after, prev |-> best, alloc_ptr |-> 0,
                                 is_allocated |-> FALSE, segment_size |-> N]
              BY <5>1 DEF N, NULL
            <6> QED
              <7>1. [next |-> after, prev |-> best, alloc_ptr |-> 0,
                     is_allocated |-> FALSE, segment_size |-> N] \in Header
                BY <4>1, <6>1, HeaderType
              <7> QED
                BY <3>1, <6>2, <7>1
      <3>2. CASE x = best
        BY <1>2, <2>2, <2>5, <3>2 DEF Header
      <3>3. CASE x = after /\ x # best /\ x # rest
        BY <1>1, <1>3, <2>2, <2>5, <3>3 DEF Header, NULL
      <3>4. CASE x # after /\ x # best /\ x # rest
        BY <1>1, <2>5, <3>4
      <3> QED
        BY <3>1, <3>2, <3>3, <3>4
    <2>7. /\ heap'[rest].next = after /\ heap'[rest].prev = best
          /\ heap'[rest].segment_size = size - n
          /\ ~heap'[rest].is_allocated /\ heap'[rest].alloc_ptr = NULL
          /\ heap'[best].next = rest /\ heap'[best].prev = heap[best].prev
          /\ heap'[best].segment_size = n
          /\ heap'[best].is_allocated /\ heap'[best].alloc_ptr = ptr
          /\ after # NULL => heap'[after].prev = rest
          /\ \A x \in Headers \ {best} :
               /\ heap'[x].is_allocated = heap[x].is_allocated
               /\ heap'[x].alloc_ptr = heap[x].alloc_ptr
               /\ heap'[x].segment_size = heap[x].segment_size
               /\ heap'[x].next = heap[x].next
               /\ x # after => heap'[x].prev = heap[x].prev
      <3>1. ASSUME NEW x \in Headers \ {best}
            PROVE  /\ heap'[x].is_allocated = heap[x].is_allocated
                   /\ heap'[x].alloc_ptr = heap[x].alloc_ptr
                   /\ heap'[x].segment_size = heap[x].segment_size
                   /\ heap'[x].next = heap[x].next
                   /\ x # after => heap'[x].prev = heap[x].prev
        <4>1. CASE x = after
          BY <1>1, <1>3, <2>5, <4>1 DEF Header, NULL
        <4>2. CASE x # after
          BY <2>5, <4>2
        <4> QED
          BY <4>1, <4>2
      <3>2. after # NULL => heap'[after].prev = rest
        BY <1>1, <1>3, <2>5 DEF Header
      <3>3. /\ heap'[best].next = rest /\ heap'[best].prev = heap[best].prev
            /\ heap'[best].segment_size = n
            /\ heap'[best].is_allocated /\ heap'[best].alloc_ptr = ptr
        BY <1>2, <2>5 DEF Header
      <3>4. /\ heap'[rest].next = after /\ heap'[rest].prev = best
            /\ heap'[rest].segment_size = size - n
            /\ ~heap'[rest].is_allocated /\ heap'[rest].alloc_ptr = NULL
        BY <2>5
      <3> QED
        BY <3>1, <3>2, <3>3, <3>4
    <2>8. Tiled'
      <3>1. HeapStart \in Headers' /\ heap'[HeapStart].prev = NULL
        <4>1. HeapStart \in Headers /\ heap[HeapStart].prev = NULL
          BY DEF IInv, Tiled
        <4>2. HeapStart # after
          BY <1>1, <1>3, <4>1 DEF NULL
        <4>3. CASE HeapStart = best
          BY <2>d, <2>7, <4>1, <4>3
        <4>4. CASE HeapStart # best
          <5>1. heap'[HeapStart].prev = heap[HeapStart].prev
            BY <2>7, <4>1, <4>2, <4>4
          <5> QED
            BY <2>d, <4>1, <5>1
        <4> QED
          BY <4>3, <4>4
      <3>2. ASSUME NEW x \in Headers'
            PROVE  LET end == x + heap'[x].segment_size IN
                   IF heap'[x].next = NULL THEN end = HeapEnd
                   ELSE heap'[x].next = end /\ end \in Headers' /\ heap'[end].prev = x
        <4>1. CASE x = best
          <5>1. heap'[x].next = rest /\ rest = x + heap'[x].segment_size /\ rest # NULL
            BY <1>2, <2>2, <2>7, <4>1 DEF NULL, rest
          <5> QED
            BY <2>d, <2>7, <4>1, <5>1
        <4>2. CASE x = rest
          <5>1. x + heap'[x].segment_size = best + size /\ heap'[x].next = after
            BY <2>2, <2>7, <4>2
          <5>2. CASE after = NULL
            BY <5>1, <5>2 DEF IInv, Tiled, after, size
          <5>3. CASE after # NULL
            BY <1>3, <2>d, <2>7, <4>2, <5>1, <5>3
          <5> QED
            BY <5>2, <5>3
        <4>3. CASE x # best /\ x # rest
          <5>1. /\ x \in Headers /\ heap'[x].next = heap[x].next
                /\ heap'[x].segment_size = heap[x].segment_size
            BY <2>d, <2>7, <4>3
          <5>2. CASE heap[x].next = NULL
            BY <5>1, <5>2 DEF IInv, Tiled, HeapEnd
          <5>3. CASE heap[x].next # NULL
            <6> DEFINE end == x + heap[x].segment_size
            <6>1. heap[x].next = end /\ end \in Headers /\ heap[end].prev = x
              BY <5>1, <5>3 DEF IInv, Tiled
            <6>2. end # after
              BY <1>3, <4>3, <5>3, <6>1
            <6>3. heap'[end].prev = x
              BY <2>7, <6>1, <6>2
            <6> QED
              BY <2>d, <5>1, <5>3, <6>1, <6>3
          <5> QED
            BY <5>2, <5>3
        <4> QED
          BY <4>1, <4>2, <4>3
      <3>3. ASSUME NEW x \in Headers'
            PROVE  IF heap'[x].prev = NULL THEN x = HeapStart
                   ELSE heap'[x].prev \in Headers' /\ heap'[heap'[x].prev].next = x
        <4>1. CASE x = rest
          <5>1. heap'[x].prev = best /\ heap'[best].next = x
            BY <2>7, <4>1
          <5>2. best # NULL /\ best \in Headers'
            BY <1>2, <2>d DEF NULL
          <5> QED
            BY <5>1, <5>2
        <4>2. CASE x = after /\ x # rest
          <5>1. x # NULL /\ heap'[x].prev = rest /\ rest # NULL
            BY <1>1, <2>2, <2>d, <2>7, <4>2 DEF NULL
          <5> QED
            BY <2>d, <2>7, <4>2, <5>1
        <4>3. CASE x # after /\ x # rest
          <5> DEFINE p == heap[x].prev
          <5>1. x \in Headers /\ heap'[x].prev = p
            BY <2>d, <2>7, <4>3
          <5>2. CASE p = NULL
            BY <5>1, <5>2 DEF IInv, Tiled
          <5>3. CASE p # NULL
            <6>1. p \in Headers /\ heap[p].next = x
              BY <5>1, <5>3, PrevOfNext
            <6>2. p # best
              BY <4>3, <6>1 DEF after
            <6> QED
              <7>1. p \in Headers' /\ heap'[p].next = x
                BY <2>d, <2>7, <6>1, <6>2
              <7> QED
                BY <5>1, <5>3, <7>1
          <5> QED
            BY <5>2, <5>3
        <4> QED
          BY <4>1, <4>2, <4>3
      <3>4. ASSUME NEW x \in Headers', NEW y \in Headers', x < y
            PROVE  x + heap'[x].segment_size <= y
        <4>1. CASE x = best
          <5>1. CASE y = rest
            BY <1>2, <2>7, <4>1, <5>1 DEF rest
          <5>2. CASE y # rest
            <6>1. y \in Nat /\ best + size <= y
              BY <1>1, <1>t, <2>d, <3>4, <4>1, <5>2 DEF size
            <6> QED
              BY <1>2, <2>2, <2>7, <4>1, <6>1 DEF HEADER
          <5> QED
            BY <5>1, <5>2
        <4>2. CASE x = rest
          <5>1. y \in Headers /\ y \in Nat /\ best < y
            BY <1>1, <1>2, <2>2, <2>d, <3>4, <4>2
          <5>2. best + size <= y
            BY <1>t, <5>1 DEF size
          <5> QED
            BY <2>2, <2>7, <4>2, <5>2
        <4>3. CASE x # best /\ x # rest
          <5>1. x \in Headers /\ heap'[x].segment_size = heap[x].segment_size
            BY <2>d, <2>7, <4>3
          <5>2. CASE y = rest
            <6>1. x < best
              <7>1. ~(best < x)
                <8>1. best < x => best + size <= x
                  BY <1>t, <5>1 DEF size
                <8>2. x \in Nat
                  BY <1>1, <5>1
                <8> QED
                  BY <1>2, <2>2, <3>4, <5>2, <8>1, <8>2 DEF HEADER
              <7> QED
                BY <1>1, <1>2, <4>3, <5>1, <7>1
            <6>2. x + heap[x].segment_size <= best
              BY <1>t, <5>1, <6>1
            <6>3. x \in Nat /\ heap[x].segment_size \in Nat
              BY <1>1, <5>1 DEF Header
            <6> QED
              BY <1>2, <2>2, <5>1, <5>2, <6>2, <6>3
          <5>3. CASE y # rest
            BY <1>t, <2>d, <3>4, <5>1, <5>3
          <5> QED
            BY <5>2, <5>3
        <4> QED
          BY <4>1, <4>2, <4>3
      <3> QED
        BY <3>1, <3>2, <3>3, <3>4 DEF Tiled, HeapEnd
    <2>9. InWords'
      <3> SUFFICES ASSUME NEW x \in Headers'
                   PROVE  /\ x % 8 = 0 /\ heap'[x].segment_size % 8 = 0
                          /\ heap'[x].segment_size >= HEADER
        BY DEF InWords, HEADER
      <3>1. CASE x = best
        BY <1>2, <2>7, <3>1
      <3>2. CASE x = rest
        BY <1>2, <1>5, <2>2, <2>7, <3>2, Eights DEF HEADER
      <3>3. CASE x # best /\ x # rest
        BY <2>d, <2>7, <3>3 DEF IInv, InWords
      <3> QED
        BY <3>1, <3>2, <3>3
    <2>10. Headers' \subseteq HeapStart..(HeapEnd - HEADER)
      <3>1. HeapStart <= rest /\ rest <= HeapEnd - HEADER
        BY <1>2, <2>2, <2>4, HeapAssumption DEF IInv, TypeOK, HeapEnd, HEADER
      <3> QED
        BY <2>2, <2>5, <3>1, HeapAssumption DEF IInv, TypeOK, HeapEnd, HEADER
    <2> QED
      <3>1. heap' \in [Headers' -> Header]
        <4>1. heap' = [x \in Headers' |-> heap'[x]]
          BY <2>5
        <4> QED
          BY <2>6, <4>1
      <3>2. \A x \in Headers' \ Headers : x = rest
        BY <2>d
      <3> QED
        BY <2>d, <2>7, <2>8, <2>9, <2>10, <3>1, <3>2 DEF after
  <1> QED
    BY <1>4, <1>5

\* kmalloc gives out an aligned hole and keeps the heap tiled.
LEMMA KmallocInv ==
    ASSUME IInv, WholeWords, NEW r \in Requests, Kmalloc(r)
    PROVE  IInv' /\ A!Allocate(r)
  <1> DEFINE n == Total(r)
  <1>1. /\ r.bytes \in Nat /\ r.align \in Powers /\ r.align \in Nat /\ r.align > 0
        /\ r.bytes % 8 = 0 /\ r.align % 8 = 0
    BY RequestsAssumption DEF WholeWords, Powers
  <1>2. n \in Nat /\ n % 8 = 0 /\ n >= HEADER /\ n = HEADER + r.align + r.bytes
    BY <1>1 DEF Total, HEADER
  <1> HIDE DEF n
  <1>3. PICK best \in Headers :
          LET p == RoundUp(best + HEADER, r.align) IN
          /\ ~heap[best].is_allocated /\ n <= heap[best].segment_size
          /\ heap' = [Carved(best, n) EXCEPT ![best].is_allocated = TRUE,
                                             ![best].alloc_ptr = p]
          /\ up' = (p % r.align = 0)
          /\ blocks' = A!Put(blocks, p, r.bytes)
    BY DEF Kmalloc, Fitting, n
  <1> DEFINE ptr == RoundUp(best + HEADER, r.align)
  <1>4. /\ best \in Nat /\ heap[best].segment_size \in Nat
        /\ pc = "ready" /\ pc' = "ready" /\ temp' = temp
    BY HeapAssumption DEF IInv, TypeOK, Header, HeapEnd, Kmalloc
  <1>5. /\ ptr \in Nat /\ ptr % r.align = 0
        /\ best + HEADER <= ptr /\ ptr + r.bytes <= best + n
    <2>1. best + HEADER \in Nat
      BY <1>4 DEF HEADER
    <2>2. ptr \in Nat /\ best + HEADER <= ptr /\ ptr < best + HEADER + r.align
          /\ ptr % r.align = 0
      BY <1>1, <2>1, RoundUpBounds
    <2> HIDE DEF ptr
    <2> QED
      BY <1>1, <1>2, <1>4, <2>2 DEF HEADER
  <1>6. /\ heap' = [Carved(best, n) EXCEPT ![best].is_allocated = TRUE,
                                           ![best].alloc_ptr = ptr]
        /\ up' /\ blocks' = A!Put(blocks, ptr, r.bytes)
    BY <1>3, <1>5
  <1> HIDE DEF ptr
  <1>7. A!IsHole(ptr, r.bytes)
    <2>1. ptr + r.bytes <= best + heap[best].segment_size
      BY <1>1, <1>2, <1>3, <1>4, <1>5
    <2> QED
      BY <1>1, <1>3, <1>5, <2>1, FreeIsHole
  <1>8. /\ heap' \in [Headers' -> Header]
        /\ best \in Headers' /\ Headers \subseteq Headers'
        /\ Headers' \subseteq HeapStart..(HeapEnd - HEADER)
        /\ heap'[best].is_allocated /\ heap'[best].alloc_ptr = ptr
        /\ n <= heap'[best].segment_size
        /\ \A x \in Headers \ {best} :
             /\ heap'[x].is_allocated = heap[x].is_allocated
             /\ heap'[x].alloc_ptr = heap[x].alloc_ptr
             /\ heap'[x].segment_size = heap[x].segment_size
             /\ heap'[x].next = heap[x].next
        /\ \A x \in Headers' \ Headers :
             /\ ~heap'[x].is_allocated /\ heap'[x].alloc_ptr = NULL
             /\ heap'[x].next = heap[best].next
        /\ Tiled' /\ InWords'
    <2>1. /\ ~heap[best].is_allocated /\ n <= heap[best].segment_size
          /\ pc = "ready" /\ n \in Nat /\ n % 8 = 0 /\ n >= HEADER /\ ptr \in Nat
      BY <1>2, <1>3, <1>4, <1>5
    <2> QED
      BY <1>6, <2>1, CarvedTiles, Zenon
  <1>9. /\ DOMAIN blocks' = DOMAIN blocks \cup {ptr} /\ blocks'[ptr] = r.bytes
        /\ \A q \in DOMAIN blocks : q # ptr /\ blocks'[q] = blocks[q]
        /\ blocks' \in [DOMAIN blocks' -> Nat]
    <2>1. \A q \in DOMAIN blocks : q # ptr /\ blocks[q] \in Nat
      BY <1>7 DEF A!IsHole, IInv, TypeOK
    <2> QED
      BY <1>1, <1>6, <2>1 DEF A!Put
  <1>10. TypeOK'
    BY <1>4, <1>5, <1>6, <1>8, <1>9 DEF IInv, TypeOK, HeapEnd, HEADER, NULL
  <1>11. BlocksHaveSegments'
    <2>1. ASSUME NEW p \in DOMAIN blocks'
          PROVE  \E x \in Headers' : heap'[x].is_allocated /\ heap'[x].alloc_ptr = p
      <3>1. CASE p = ptr
        BY <1>8, <3>1
      <3>2. CASE p # ptr
        <4>1. PICK x \in Headers : heap[x].is_allocated /\ heap[x].alloc_ptr = p
          BY <1>9, <3>2 DEF IInv, BlocksHaveSegments
        <4> QED
          BY <1>3, <1>8, <4>1
      <3> QED
        BY <3>1, <3>2
    <2>2. ASSUME NEW x \in Headers', ~heap'[x].is_allocated
          PROVE  heap'[x].alloc_ptr = NULL
      <3>1. CASE x \in Headers
        BY <1>8, <2>2, <3>1 DEF IInv, BlocksHaveSegments
      <3>2. CASE x \notin Headers
        BY <1>8, <3>2
      <3> QED
        BY <3>1, <3>2
    <2>3. ASSUME NEW x \in Headers', heap'[x].is_allocated
          PROVE  LET p == heap'[x].alloc_ptr IN
                 /\ p \in DOMAIN blocks'
                 /\ x + HEADER <= p /\ p + blocks'[p] <= x + heap'[x].segment_size
      <3>1. CASE x = best
        <4>1. heap'[best].segment_size \in Nat
          BY <1>8 DEF Header
        <4>2. ptr + r.bytes <= best + heap'[best].segment_size
          BY <1>1, <1>2, <1>4, <1>5, <1>8, <4>1
        <4> QED
          BY <1>5, <1>8, <1>9, <3>1, <4>2
      <3>2. CASE x # best
        <4>1. x \in Headers \ {best} /\ heap[x].is_allocated
          BY <1>8, <2>3, <3>2
        <4>2. LET p == heap[x].alloc_ptr IN
              /\ p \in DOMAIN blocks
              /\ x + HEADER <= p /\ p + blocks[p] <= x + heap[x].segment_size
          BY <4>1 DEF IInv, BlocksHaveSegments
        <4> QED
          BY <1>8, <1>9, <4>1, <4>2
      <3> QED
        BY <3>1, <3>2
    <2> QED
      BY <2>1, <2>2, <2>3 DEF BlocksHaveSegments, NULL, HEADER
  <1>12. GroupedButTemp'
    <2> SUFFICES ASSUME NEW x \in Headers', ~heap'[x].is_allocated,
                        heap'[x].next # NULL, ~heap'[heap'[x].next].is_allocated
                 PROVE  FALSE
      BY DEF GroupedButTemp, IsFree, NULL
    <2>1. CASE x \in Headers
      <3>1. x # best /\ ~heap[x].is_allocated /\ heap'[x].next = heap[x].next
        BY <1>8, <2>1
      <3>2. heap[x].next \in Headers /\ heap[x].next # best
        BY <1>8, <2>1, <3>1 DEF IInv, Tiled
      <3>3. IsFree(heap[x].next)
        BY <1>8, <3>1, <3>2 DEF IsFree
      <3> QED
        BY <1>4, <2>1, <3>1, <3>3 DEF IInv, GroupedButTemp
    <2>2. CASE x \notin Headers
      <3>1. heap'[x].next = heap[best].next
        BY <1>8, <2>2
      <3>2. heap[best].next \in Headers /\ heap[best].next # best
        BY <1>8, <3>1 DEF IInv, Tiled
      <3>3. IsFree(heap[best].next)
        BY <1>8, <3>1, <3>2 DEF IsFree
      <3> QED
        BY <1>3, <1>4, <3>3 DEF IInv, GroupedButTemp
    <2> QED
      BY <2>1, <2>2
  <1>13. IInv'
    BY <1>4, <1>8, <1>10, <1>11, <1>12 DEF IInv
  <1>14. A!Allocate(r)
    <2>1. ptr \in HeapStart..HeapEnd
      BY <1>1, <1>5, <1>7, HeapAssumption DEF A!IsHole, A!HeapEnd, HeapEnd
    <2> QED
      BY <1>5, <1>6, <1>7, <2>1 DEF A!Allocate, A!HeapEnd, HeapEnd
  <1> QED
    BY <1>13, <1>14

-----------------------------------------------------------------------------
(* Theorems *)

LEMMA NextInv == WholeWords /\ IInv /\ [Next]_vars => IInv'
  BY KmallocInv, KfreeInv, KfreeAllInv, StandStillInv, MergeLeftInv, MergeRightInv DEF Next

\* The invariant holds in every state of every heap used in words.
THEOREM Invariance == WholeWords /\ Spec => []IInv
  <1>1. WholeWords /\ Init => IInv
    BY InitInv
  <1>2. WholeWords /\ IInv /\ [Next]_vars => IInv'
    BY NextInv
  <1>3. WholeWords => WholeWords'
    BY DEF WholeWords
  <1> QED
    BY <1>1, <1>2, <1>3, PTL DEF Spec

\* The segments tile the heap through every split and merge of kmalloc.c.
THEOREM SegmentsTile == WholeWords /\ Spec => []Tiled
  BY Invariance, PTL DEF IInv

\* Every block has its segment, so that kfree finds it, and only it.
THEOREM EveryBlockHasItsSegment == WholeWords /\ Spec => []BlocksHaveSegments
  BY Invariance, PTL DEF IInv

\* kfree leaves no two free neighbours.
THEOREM NoFreeNeighbours == WholeWords /\ Spec => []Grouped
  <1>1. IInv => Grouped
    BY DEF IInv, GroupedButTemp, Grouped
  <1> QED
    BY <1>1, Invariance, PTL

\* Once everything is freed the heap is one segment again.
THEOREM NothingIsLost == WholeWords /\ Spec => []EmptyIsWhole
  <1>1. ASSUME IInv, pc = "ready", blocks = [p \in {} |-> 0] PROVE heap = FreshHeap
    <2>1. \A a \in Headers : ~heap[a].is_allocated /\ heap[a].alloc_ptr = NULL
      BY <1>1 DEF IInv, BlocksHaveSegments
    <2>2. \A a \in Headers : heap[a].next = NULL
      <3> SUFFICES ASSUME NEW a \in Headers, heap[a].next # NULL PROVE FALSE
        OBVIOUS
      <3>1. heap[a].next \in Headers
        BY <1>1 DEF IInv, Tiled
      <3> QED
        BY <1>1, <2>1, <3>1 DEF IInv, GroupedButTemp, IsFree
    <2>3. /\ HeapStart \in Headers /\ heap[HeapStart].prev = NULL
          /\ HeapStart + heap[HeapStart].segment_size = HeapEnd
      BY <1>1, <2>2 DEF IInv, Tiled
    <2>4. /\ heap[HeapStart] \in Header
          /\ \A a \in Headers : a \in Nat /\ HeapStart <= a /\ a < HeapEnd
      BY <1>1, <2>3, HeapAssumption DEF IInv, TypeOK, HeapEnd, HEADER
    <2>5. Headers = {HeapStart}
      <3> SUFFICES ASSUME NEW a \in Headers, a # HeapStart PROVE FALSE
        BY <2>3
      <3>1. HeapStart < a
        BY <2>4, HeapAssumption
      <3>2. HeapEnd <= a
        BY <1>1, <2>3, <3>1 DEF IInv, Tiled
      <3> QED
        BY <2>4, <3>2, HeapAssumption DEF HeapEnd
    <2>6. heap[HeapStart] = [next |-> NULL, prev |-> NULL, alloc_ptr |-> NULL,
                             is_allocated |-> FALSE, segment_size |-> HeapSize]
      <3>1. heap[HeapStart].segment_size = HeapSize
        BY <2>3, <2>4, HeapAssumption DEF HeapEnd, Header
      <3> QED
        BY <2>1, <2>2, <2>3, <2>4, <3>1 DEF Header
    <2>7. heap = [a \in Headers |-> heap[a]]
      BY <1>1 DEF IInv, TypeOK
    <2> QED
      BY <2>5, <2>6, <2>7 DEF FreshHeap
  <1>2. IInv => EmptyIsWhole
    BY <1>1 DEF EmptyIsWhole
  <1> QED
    BY <1>2, Invariance, PTL

\* A program that uses kmalloc and kfree sees an allocator: every step of the
\* code allocates a hole, frees a block, or changes nothing a program can see.
THEOREM Implements == WholeWords /\ Spec => AllocatorSpec
  <1>1. Init => A!Init
    BY DEF Init, A!Init
  <1>2. WholeWords /\ IInv /\ [Next]_vars => [A!Next]_blocks
    <2> SUFFICES ASSUME WholeWords, IInv, [Next]_vars PROVE [A!Next]_blocks
      OBVIOUS
    <2>1. ASSUME NEW r \in Requests, Kmalloc(r) PROVE A!Next
      BY <2>1, KmallocInv DEF A!Next
    <2>2. ASSUME NEW ptr \in Pointers, Kfree(ptr) PROVE A!Next
      <3>1. ptr \in DOMAIN blocks
        BY <2>2, KfreeInv
      <3> QED
        BY <2>2, <3>1 DEF Kfree, A!Next, A!Free
    <2>3. ASSUME NEW ptr \in Pointers, KfreePanic(ptr) PROVE UNCHANGED blocks
      BY <2>3 DEF KfreePanic
    <2>4. CASE MergeLeft \/ LeftDone \/ MergeRight \/ RightDone \/ UNCHANGED vars
      BY <2>4 DEF MergeLeft, LeftDone, MergeRight, RightDone, vars
    <2>5. CASE KfreeAll
      BY <2>5 DEF KfreeAll, A!Next, A!FreeAll
    <2> QED
      BY <2>1, <2>2, <2>3, <2>4, <2>5 DEF Next
  <1>3. WholeWords => WholeWords'
    BY DEF WholeWords
  <1> QED
    BY <1>1, <1>2, <1>3, Invariance, PTL DEF Spec, AllocatorSpec, A!Spec
=============================================================================
