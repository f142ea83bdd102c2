--------------------------- MODULE Sequential_proofs ---------------------------
(* Theorems about the sequential parts: the lists, with the pointers shown to  *)
(* implement a queue and a ring; the pins with the UART on them; and, for all  *)
(* inputs, the delays, the map of the addresses, start.s, and the picture.     *)
EXTENDS MCLibrary, SequenceTheorems, FunctionTheorems, FiniteSetTheorems,
        WellFoundedInduction, TLAPS

\* A set of numbers has a least one: induction, without an operator to instantiate.
LEMMA Least ==
    ASSUME NEW T \in SUBSET Nat, T # {}
    PROVE  \E m \in T : \A k \in T : m <= k
<1> DEFINE R == OpToRel(<, Nat)
<1>1. IsWellFoundedOn(R, Nat)
  BY NatLessThanWellFounded
<1>2. PICK m \in T : \A k \in T : ~(<<k, m>> \in R)
  <2> HIDE DEF R
  <2> QED BY <1>1, WFMin
<1>3. \A k \in T : k < m => <<k, m>> \in R
  BY DEF OpToRel
<1>4. \A k \in T : ~(k < m)
  <2> HIDE DEF R
  <2> QED BY <1>2, <1>3
<1> HIDE DEF R
<1> QED BY <1>4

--------------------------------------------------------------------------------
(* Walking a list. *)

\* Hop() of a list with the pointers nx.
HopOf(nx, p, n) ==
    LET hop[i \in 0 .. n] ==
          IF i = 0 THEN p ELSE IF hop[i - 1] = NULL THEN NULL ELSE nx[hop[i - 1]]
    IN  hop[n]

LEMMA HopIs ==
    ASSUME NEW nx, NEW p, NEW n \in Nat, NEW f,
           f = [i \in 0 .. n |-> f[i]],
           f[0] = p,
           \A i \in 1 .. n : f[i] = IF f[i - 1] = NULL THEN NULL ELSE nx[f[i - 1]]
    PROVE  HopOf(nx, p, n) = f[n]
<1> DEFINE Steps(g) == [i \in 0 .. n |->
                          IF i = 0 THEN p ELSE IF g[i - 1] = NULL THEN NULL ELSE nx[g[i - 1]]]
           hop == CHOOSE g : g = Steps(g)
<1>1. f = Steps(f)
  <2>1. ASSUME NEW i \in 0 .. n PROVE f[i] = Steps(f)[i]
    <3>1. CASE i = 0
      BY <3>1
    <3>2. CASE i # 0
      <4>1. i \in 1 .. n
        BY <3>2
      <4> QED BY <3>2, <4>1
    <3> QED BY <3>1, <3>2
  <2> HIDE DEF hop
  <2>2. [i \in 0 .. n |-> f[i]] = Steps(f)
    BY <2>1
  <2> QED BY <2>2
<1>2. hop = Steps(hop)
  <2> HIDE DEF Steps
  <2> QED BY <1>1
<1>3. HopOf(nx, p, n) = hop[n]
  BY DEF HopOf
<1> HIDE DEF hop
<1>4. \A i \in 0 .. n : hop[i] = IF i = 0 THEN p
                                 ELSE IF hop[i - 1] = NULL THEN NULL ELSE nx[hop[i - 1]]
  BY <1>2
<1>5. hop[n] = f[n]
  <2> DEFINE T == {i \in 0 .. n : hop[i] # f[i]}
  <2>1. ASSUME T # {} PROVE FALSE
    <3>1. PICK m \in T : \A k \in T : m <= k
      <4>1. T \in SUBSET Nat
        OBVIOUS
      <4> HIDE DEF T
      <4> QED BY <2>1, <4>1, Least
    <3>2. m # 0
      BY <1>4, <3>1
    <3>3. m - 1 \in 0 .. n /\ m - 1 \notin T
      BY <3>1, <3>2
    <3>4. m \in 1 .. n /\ hop[m - 1] = f[m - 1]
      BY <3>1, <3>2, <3>3
    <3>5. hop[m] = f[m]
      BY <1>4, <3>4
    <3> QED BY <3>1, <3>5
  <2> QED BY <2>1
<1> QED BY <1>3, <1>5

--------------------------------------------------------------------------------
(* Sequences of nodes. *)

LEMMA Sizes == \A n \in Nat : n = 0 \/ n = 1 \/ n > 1
OBVIOUS

\* A walk along s is s, and goes on where the last node points.
LEMMA WalkIs ==
    ASSUME NEW nx, NEW s, IsPath(s, nx), NEW p, s # <<>> => p = s[1]
    PROVE  /\ [i \in 1 .. Len(s) |-> HopOf(nx, p, i - 1)] = s
           /\ HopOf(nx, p, Len(s)) = IF s = <<>> THEN p ELSE nx[s[Len(s)]]
           /\ s # <<>> => HopOf(nx, p, Len(s) - 1) = s[Len(s)]
<1>1. /\ s \in Seq(Nodes) /\ Len(s) \in Nat /\ s = [i \in 1 .. Len(s) |-> s[i]]
      /\ \A i \in 1 .. Len(s) : s[i] \in Nodes /\ s[i] # NULL
      /\ s # <<>> => Len(s) >= 1
  BY NULLAssumption, LenProperties, EmptySeq DEF IsPath
<1>2. ASSUME NEW i \in 1 .. Len(s) PROVE HopOf(nx, p, i - 1) = s[i]
  <2> DEFINE m == i - 1
             f == [k \in 0 .. m |-> s[k + 1]]
  <2>1. m \in Nat /\ f = [k \in 0 .. m |-> f[k]] /\ f[0] = p /\ f[m] = s[i]
    BY <1>1
  <2>2. ASSUME NEW k \in 1 .. m
        PROVE  f[k] = IF f[k - 1] = NULL THEN NULL ELSE nx[f[k - 1]]
    <3>1. k \in 1 .. Len(s) /\ k \in 1 .. Len(s) - 1
      BY <1>1
    <3>2. f[k] = s[k + 1] /\ f[k - 1] = s[k]
      OBVIOUS
    <3>3. s[k] # NULL
      BY <1>1, <3>1
    <3>4. nx[s[k]] = s[k + 1]
      BY <3>1 DEF IsPath
    <3> HIDE DEF f
    <3> QED BY <3>2, <3>3, <3>4
  <2> HIDE DEF f, m
  <2>3. HopOf(nx, p, m) = f[m]
    <3>1. m \in Nat /\ f = [k \in 0 .. m |-> f[k]] /\ f[0] = p
      BY <2>1
    <3> QED BY <2>2, <3>1, HopIs, SMTT(30)
  <2>4. HopOf(nx, p, m) = s[i]
    BY <2>1, <2>3
  <2> QED BY <2>4 DEF m
<1>3. HopOf(nx, p, Len(s)) = IF s = <<>> THEN p ELSE nx[s[Len(s)]]
  <2> DEFINE n == Len(s)
             f == [k \in 0 .. n |-> IF k < n THEN s[k + 1]
                                    ELSE IF s = <<>> THEN p ELSE nx[s[n]]]
  <2>1. f = [k \in 0 .. n |-> f[k]] /\ f[0] = p /\ n \in Nat
    BY <1>1
  <2>2. ASSUME NEW k \in 1 .. n
        PROVE  f[k] = IF f[k - 1] = NULL THEN NULL ELSE nx[f[k - 1]]
    <3>1. s # <<>> /\ f[k - 1] = s[k] /\ s[k] # NULL
      BY <1>1
    <3>2. CASE k = n
      <4>1. f[n] = nx[s[n]] /\ f[n - 1] = s[n] /\ s[n] # NULL
        BY <1>1, <3>1, <3>2
      <4> HIDE DEF f, n
      <4> QED BY <3>2, <4>1
    <3>3. CASE k # n
      <4>1. k \in 1 .. n - 1 /\ f[k] = s[k + 1]
        BY <1>1, <3>3
      <4> QED BY <3>1, <4>1 DEF IsPath
    <3> QED BY <3>2, <3>3
  <2>3. f[n] = IF s = <<>> THEN p ELSE nx[s[n]]
    BY <1>1
  <2> HIDE DEF f
  <2>4. HopOf(nx, p, n) = f[n]
    BY <2>1, <2>2, HopIs
  <2> QED BY <2>3, <2>4
<1>4. [i \in 1 .. Len(s) |-> HopOf(nx, p, i - 1)] = [i \in 1 .. Len(s) |-> s[i]]
  BY <1>2
<1>5. s # <<>> => Len(s) \in 1 .. Len(s)
  BY <1>1
<1> QED BY <1>1, <1>2, <1>3, <1>4, <1>5

\* Pointers that agree on s.
LEMMA PathStays ==
    ASSUME NEW s, NEW nx, NEW my, \A i \in 1 .. Len(s) : my[s[i]] = nx[s[i]]
    PROVE  /\ \A h, t : IsQueue(s, nx, h, t) => IsQueue(s, my, h, t)
           /\ \A e : IsRing(s, nx, e) => IsRing(s, my, e)
<1>1. ASSUME s \in Seq(Nodes)
      PROVE  /\ \A i \in 1 .. Len(s) - 1 : i \in 1 .. Len(s)
             /\ s # <<>> => Len(s) \in 1 .. Len(s)
  BY <1>1, LenProperties, EmptySeq
<1> QED BY <1>1 DEF IsQueue, IsRing, IsPath

--------------------------------------------------------------------------------
(* Sequences with one element more or less. *)

Behind(s, i, e) == SubSeq(s, 1, i) \o <<e>> \o SubSeq(s, i + 1, Len(s))
Without(s, i) == SubSeq(s, 1, i - 1) \o SubSeq(s, i + 1, Len(s))

LEMMA BehindIs ==
    ASSUME NEW s \in Seq(Nodes), NEW i \in 0 .. Len(s), NEW e \in Nodes
    PROVE  /\ Behind(s, i, e) \in Seq(Nodes)
           /\ Len(Behind(s, i, e)) = Len(s) + 1
           /\ \A j \in 1 .. Len(s) + 1 :
                Behind(s, i, e)[j] = IF j <= i THEN s[j] ELSE IF j = i + 1 THEN e ELSE s[j - 1]
<1> DEFINE a == SubSeq(s, 1, i)
           z == SubSeq(s, i + 1, Len(s))
<1>1. Len(s) \in Nat /\ \A j \in 1 .. Len(s) : s[j] \in Nodes
  BY LenProperties
<1>2. a \in Seq(Nodes) /\ Len(a) = i /\ \A j \in 1 .. i : a[j] = s[j]
  BY <1>1, SubSeqProperties
<1>3. /\ z \in Seq(Nodes) /\ Len(z) = Len(s) - i
      /\ \A j \in 1 .. Len(s) - i : z[j] = s[i + j]
  BY <1>1, SubSeqProperties
<1>4. <<e>> \in Seq(Nodes) /\ Len(<<e>>) = 1 /\ <<e>>[1] = e
  OBVIOUS
<1> HIDE DEF a, z
<1> DEFINE b == a \o <<e>>
<1>5. b \in Seq(Nodes) /\ Len(b) = i + 1
      /\ \A j \in 1 .. i + 1 : b[j] = IF j <= i THEN s[j] ELSE e
  BY <1>2, <1>4, ConcatProperties
<1> HIDE DEF b
<1> DEFINE c == b \o z
<1>6. /\ c \in Seq(Nodes) /\ Len(c) = Len(s) + 1
      /\ \A j \in 1 .. Len(s) + 1 : c[j] = IF j <= i + 1 THEN b[j] ELSE z[j - (i + 1)]
  <2>1. Len(b) + Len(z) = Len(s) + 1
    BY <1>1, <1>3, <1>5
  <2> QED BY <1>3, <1>5, <2>1, ConcatProperties
<1>7. Behind(s, i, e) = c
  BY DEF Behind, a, b, z
<1> HIDE DEF c
<1>8. ASSUME NEW j \in 1 .. Len(s) + 1
      PROVE  c[j] = IF j <= i THEN s[j] ELSE IF j = i + 1 THEN e ELSE s[j - 1]
  <2>1. CASE j <= i + 1
    BY <1>1, <1>5, <1>6, <2>1
  <2>2. CASE j > i + 1
    <3>1. j - (i + 1) \in 1 .. Len(s) - i /\ i + (j - (i + 1)) = j - 1
      BY <1>1, <2>2
    <3>2. z[j - (i + 1)] = s[j - 1]
      BY <1>3, <3>1
    <3> QED BY <1>1, <1>6, <2>2, <3>2
  <2> QED BY <1>1, <2>1, <2>2
<1> QED BY <1>6, <1>7, <1>8

LEMMA WithoutIs ==
    ASSUME NEW s \in Seq(Nodes), NEW i \in 1 .. Len(s)
    PROVE  /\ Without(s, i) \in Seq(Nodes)
           /\ Len(Without(s, i)) = Len(s) - 1
           /\ \A j \in 1 .. Len(s) - 1 :
                Without(s, i)[j] = IF j < i THEN s[j] ELSE s[j + 1]
<1> DEFINE a == SubSeq(s, 1, i - 1)
           z == SubSeq(s, i + 1, Len(s))
<1>1. Len(s) \in Nat /\ \A j \in 1 .. Len(s) : s[j] \in Nodes
  BY LenProperties
<1>2. a \in Seq(Nodes) /\ Len(a) = i - 1 /\ \A j \in 1 .. i - 1 : a[j] = s[j]
  BY <1>1, SubSeqProperties
<1>3. /\ z \in Seq(Nodes) /\ Len(z) = Len(s) - i
      /\ \A j \in 1 .. Len(s) - i : z[j] = s[i + j]
  BY <1>1, SubSeqProperties
<1> HIDE DEF a, z
<1> DEFINE c == a \o z
<1>4. /\ c \in Seq(Nodes) /\ Len(c) = Len(s) - 1
      /\ \A j \in 1 .. Len(s) - 1 : c[j] = IF j <= i - 1 THEN a[j] ELSE z[j - (i - 1)]
  BY <1>1, <1>2, <1>3, ConcatProperties
<1>5. Without(s, i) = c
  BY DEF Without, a, z
<1> HIDE DEF c
<1>6. ASSUME NEW j \in 1 .. Len(s) - 1
      PROVE  c[j] = IF j < i THEN s[j] ELSE s[j + 1]
  <2>1. CASE j < i
    BY <1>1, <1>2, <1>4, <2>1
  <2>2. CASE j >= i
    <3>1. j - (i - 1) \in 1 .. Len(s) - i /\ i + (j - (i - 1)) = j + 1
      BY <1>1, <2>2
    <3>2. z[j - (i - 1)] = s[j + 1]
      BY <1>3, <3>1
    <3> QED BY <1>1, <1>4, <2>2, <3>2
  <2> QED BY <1>1, <2>1, <2>2
<1> QED BY <1>4, <1>5, <1>6

--------------------------------------------------------------------------------
(* The operations, on pointers and on sequences. *)

\* Nodes that are in no list twice are no more than there are nodes.
LEMMA OnceIsShort ==
    ASSUME NEW s \in Seq(Nodes), Once(s)
    PROVE  /\ Len(s) <= Cardinality(Nodes)
           /\ Cardinality({s[i] : i \in 1 .. Len(s)}) = Len(s)
<1> DEFINE n == Len(s)
           R == {s[i] : i \in 1 .. n}
<1>1. n \in Nat /\ s \in [1 .. n -> Nodes]
  BY LenProperties
<1>2. s \in Bijection(1 .. n, R)
  <2>1. s \in [1 .. n -> R]
    BY <1>1
  <2> QED BY <2>1, <1>1 DEF Bijection, Injection, Surjection, Once, IsInjective
<1>3. IsFiniteSet(1 .. n) /\ Cardinality(1 .. n) = n
  <2> HIDE DEF n
  <2>1. IsFiniteSet(1 .. n) /\ Cardinality(1 .. n) = IF 1 > n THEN 0 ELSE n - 1 + 1
    BY <1>1, FS_Interval
  <2>2. (IF 1 > n THEN 0 ELSE n - 1 + 1) = n
    BY <1>1
  <2> QED BY <2>1, <2>2
<1>4. IsFiniteSet(R) /\ Cardinality(R) = n
  <2> HIDE DEF R, n
  <2> QED BY <1>2, <1>3, FS_Bijection DEF ExistsBijection
<1>5. R \subseteq Nodes
  BY <1>1
<1>6. Cardinality(R) <= Cardinality(Nodes)
  BY <1>5, NodesAssumption, FS_Subset
<1> QED BY <1>4, <1>6

\* A path with e behind its i-th node.
LEMMA PathGrows ==
    ASSUME NEW s, NEW nx, IsPath(s, nx), NEW my, NEW e \in Nodes,
           \A j \in 1 .. Len(s) : s[j] # e,
           NEW i \in 0 .. Len(s),
           i > 0 => my[s[i]] = e,
           i < Len(s) => my[e] = s[i + 1],
           \A j \in 1 .. Len(s) : j # i => my[s[j]] = nx[s[j]]
    PROVE  IsPath(Behind(s, i, e), my)
<1> DEFINE b == Behind(s, i, e)
<1>1. s \in Seq(Nodes) /\ Len(s) \in Nat
  BY LenProperties DEF IsPath
<1>2. /\ b \in Seq(Nodes) /\ Len(b) = Len(s) + 1
      /\ \A j \in 1 .. Len(s) + 1 :
           b[j] = IF j <= i THEN s[j] ELSE IF j = i + 1 THEN e ELSE s[j - 1]
  BY <1>1, BehindIs
<1> HIDE DEF b
<1>3. Once(b)
  <2> SUFFICES ASSUME NEW j \in 1 .. Len(s) + 1, NEW k \in 1 .. Len(s) + 1, b[j] = b[k]
               PROVE  j = k
    BY <1>2 DEF Once
  <2> DEFINE Here(l) == IF l <= i THEN l ELSE l - 1
  <2>1. \A l \in 1 .. Len(s) + 1 : l # i + 1 => Here(l) \in 1 .. Len(s) /\ b[l] = s[Here(l)] /\ b[l] # e
    BY <1>1, <1>2
  <2>2. b[i + 1] = e
    BY <1>1, <1>2
  <2>3. j # i + 1 /\ k # i + 1 => Here(j) = Here(k)
    <3> HIDE DEF Here
    <3> QED BY <2>1 DEF IsPath, Once
  <2> QED BY <1>1, <2>1, <2>2, <2>3
<1>4. ASSUME NEW j \in 1 .. Len(s) PROVE my[b[j]] = b[j + 1]
  <2>1. CASE j < i
    <3>1. j \in 1 .. Len(s) - 1 /\ b[j] = s[j] /\ b[j + 1] = s[j + 1]
      BY <1>1, <1>2, <2>1
    <3> QED BY <2>1, <3>1 DEF IsPath
  <2>2. CASE j = i
    BY <1>1, <1>2, <2>2
  <2>3. CASE j = i + 1
    BY <1>1, <1>2, <2>3
  <2>4. CASE j > i + 1
    <3>1. j - 1 \in 1 .. Len(s) - 1 /\ b[j] = s[j - 1] /\ b[j + 1] = s[(j - 1) + 1] /\ j - 1 # i
      BY <1>1, <1>2, <2>4
    <3>2. nx[s[j - 1]] = s[(j - 1) + 1]
      BY <3>1 DEF IsPath
    <3> QED BY <1>1, <3>1, <3>2
  <2> QED BY <1>1, <2>1, <2>2, <2>3, <2>4
<1>5. Len(b) - 1 = Len(s)
  BY <1>1, <1>2
<1> QED BY <1>2, <1>3, <1>4, <1>5 DEF IsPath, b

\* A path without its i-th node.
LEMMA PathShrinks ==
    ASSUME NEW s, NEW nx, IsPath(s, nx), NEW my, NEW i \in 1 .. Len(s),
           1 < i /\ i < Len(s) => my[s[i - 1]] = s[i + 1],
           \A j \in 1 .. Len(s) - 1 : j # i /\ j # i - 1 => my[s[j]] = nx[s[j]]
    PROVE  IsPath(Without(s, i), my)
<1> DEFINE b == Without(s, i)
<1>1. s \in Seq(Nodes) /\ Len(s) \in Nat
  BY LenProperties DEF IsPath
<1>2. /\ b \in Seq(Nodes) /\ Len(b) = Len(s) - 1
      /\ \A j \in 1 .. Len(s) - 1 : b[j] = IF j < i THEN s[j] ELSE s[j + 1]
  BY <1>1, WithoutIs
<1> HIDE DEF b
<1>3. Once(b)
  <2> SUFFICES ASSUME NEW j \in 1 .. Len(s) - 1, NEW k \in 1 .. Len(s) - 1, b[j] = b[k]
               PROVE  j = k
    BY <1>2 DEF Once
  <2> DEFINE Here(l) == IF l < i THEN l ELSE l + 1
  <2>1. \A l \in 1 .. Len(s) - 1 : Here(l) \in 1 .. Len(s) /\ b[l] = s[Here(l)]
    BY <1>1, <1>2
  <2>2. Here(j) = Here(k)
    <3> HIDE DEF Here
    <3>1. s[Here(j)] = s[Here(k)] /\ Here(j) \in 1 .. Len(s) /\ Here(k) \in 1 .. Len(s)
      BY <2>1
    <3> QED BY <3>1 DEF IsPath, Once
  <2> QED BY <1>1, <2>2
<1>4. ASSUME NEW j \in 1 .. Len(s) - 2 PROVE my[b[j]] = b[j + 1]
  <2>1. CASE j < i - 1
    <3>1. j \in 1 .. Len(s) - 1 /\ b[j] = s[j] /\ b[j + 1] = s[j + 1] /\ j \in 1 .. Len(s)
      BY <1>1, <1>2, <2>1
    <3> QED BY <2>1, <3>1 DEF IsPath
  <2>2. CASE j = i - 1
    BY <1>1, <1>2, <2>2
  <2>3. CASE j > i - 1
    <3>1. /\ j + 1 \in 1 .. Len(s) - 1 /\ j + 1 \in 1 .. Len(s) /\ j + 1 # i /\ j + 1 # i - 1
          /\ b[j] = s[j + 1] /\ b[j + 1] = s[(j + 1) + 1]
      BY <1>1, <1>2, <2>3
    <3>2. nx[s[j + 1]] = s[(j + 1) + 1]
      BY <3>1 DEF IsPath
    <3> QED BY <3>1, <3>2
  <2> QED BY <1>1, <2>1, <2>2, <2>3
<1>5. Len(b) - 1 = Len(s) - 2
  BY <1>1, <1>2
<1> QED BY <1>2, <1>3, <1>4, <1>5 DEF IsPath, b

\* The node i behind a queue's head, or in front of it.
LEMMA QueuePut ==
    ASSUME NEW s, NEW nx, NEW h, NEW t, IsQueue(s, nx, h, t),
           NEW my, NEW e \in Nodes, \A j \in 1 .. Len(s) : s[j] # e,
           NEW i \in 0 .. Len(s),
           i > 0 => my[s[i]] = e,
           my[e] = IF i < Len(s) THEN s[i + 1] ELSE NULL,
           \A j \in 1 .. Len(s) : j # i => my[s[j]] = nx[s[j]]
    PROVE  IsQueue(Behind(s, i, e), my, IF i = 0 THEN e ELSE h, IF i = Len(s) THEN e ELSE t)
<1> DEFINE b == Behind(s, i, e)
<1>1. s \in Seq(Nodes) /\ Len(s) \in Nat /\ IsPath(s, nx) /\ (s = <<>> <=> Len(s) = 0)
  BY LenProperties, EmptySeq DEF IsPath, IsQueue
<1>2. /\ b \in Seq(Nodes) /\ Len(b) = Len(s) + 1
      /\ \A j \in 1 .. Len(s) + 1 :
           b[j] = IF j <= i THEN s[j] ELSE IF j = i + 1 THEN e ELSE s[j - 1]
  BY <1>1, BehindIs
<1>3. IsPath(b, my)
  BY <1>1, PathGrows
<1> HIDE DEF b
<1>4. b # <<>>
  BY <1>1, <1>2
<1>5. b[1] = IF i = 0 THEN e ELSE h
  BY <1>1, <1>2 DEF IsQueue
<1>6. b[Len(b)] = (IF i = Len(s) THEN e ELSE t) /\ my[b[Len(b)]] = NULL
  <2>1. CASE i = Len(s)
    <3>1. b[Len(b)] = e
      BY <1>1, <1>2, <2>1
    <3>2. my[e] = NULL
      BY <1>1, <2>1
    <3> QED BY <2>1, <3>1, <3>2
  <2>2. CASE i # Len(s)
    <3>1. b[Len(b)] = s[Len(s)] /\ Len(s) \in 1 .. Len(s) /\ s # <<>>
      BY <1>1, <1>2, <2>2
    <3> QED BY <2>2, <3>1 DEF IsQueue
  <2> QED BY <2>1, <2>2
<1> QED BY <1>3, <1>4, <1>5, <1>6 DEF IsQueue, b

\* The queue without its head.
LEMMA QueueGet ==
    ASSUME NEW s, NEW nx, NEW h, NEW t, IsQueue(s, nx, h, t), s # <<>>
    PROVE  /\ IsQueue(Tail(s), nx, nx[h], IF nx[h] = NULL THEN NULL ELSE t)
           /\ Len(Tail(s)) = Len(s) - 1
           /\ \A j \in 1 .. Len(s) - 1 : Tail(s)[j] = s[j + 1]
<1> DEFINE b == Tail(s)
<1>1. /\ s \in Seq(Nodes) /\ Len(s) \in Nat \ {0} /\ IsPath(s, nx)
      /\ \A i \in 1 .. Len(s) : s[i] \in Nodes /\ s[i] # NULL
  BY NULLAssumption, LenProperties, EmptySeq DEF IsPath, IsQueue
<1>2. /\ b \in Seq(Nodes) /\ Len(b) = Len(s) - 1
      /\ \A j \in 1 .. Len(s) - 1 : b[j] = s[j + 1]
  BY <1>1, HeadTailProperties
<1> HIDE DEF b
<1>3. Once(b)
  <2> SUFFICES ASSUME NEW j \in 1 .. Len(s) - 1, NEW k \in 1 .. Len(s) - 1, b[j] = b[k]
               PROVE  j = k
    BY <1>2 DEF Once
  <2>1. s[j + 1] = s[k + 1] /\ j + 1 \in 1 .. Len(s) /\ k + 1 \in 1 .. Len(s)
    BY <1>1, <1>2
  <2>2. j + 1 = k + 1
    BY <1>1, <2>1 DEF IsPath, Once
  <2> QED BY <1>1, <2>2
<1>4. ASSUME NEW j \in 1 .. Len(s) - 2 PROVE nx[b[j]] = b[j + 1]
  <2>1. b[j] = s[j + 1] /\ b[j + 1] = s[(j + 1) + 1] /\ j + 1 \in 1 .. Len(s) - 1
    BY <1>1, <1>2
  <2> QED BY <1>1, <2>1 DEF IsPath
<1>5. IsPath(b, nx)
  <2>1. Len(b) - 1 = Len(s) - 2
    BY <1>1, <1>2
  <2> QED BY <1>2, <1>3, <1>4, <2>1 DEF IsPath
<1>6. CASE Len(s) = 1
  <2>1. b = <<>> /\ nx[h] = NULL
    BY <1>1, <1>2, <1>6, EmptySeq DEF IsQueue
  <2> QED BY <1>2, <1>5, <2>1 DEF IsQueue, b
<1>7. CASE Len(s) > 1
  <2>1. 1 \in 1 .. Len(s) - 1 /\ Len(s) - 1 \in 1 .. Len(s) - 1 /\ 2 \in 1 .. Len(s)
    BY <1>1, <1>7
  <2>2. nx[h] = s[2] /\ nx[h] # NULL
    BY <1>1, <2>1 DEF IsPath, IsQueue
  <2>3. b[1] = s[2] /\ b[Len(b)] = s[Len(s)] /\ b # <<>>
    BY <1>1, <1>2, <1>7
  <2>4. nx[b[Len(b)]] = NULL /\ t = b[Len(b)]
    BY <2>3 DEF IsQueue
  <2>5. IsQueue(b, nx, nx[h], t)
    BY <1>5, <2>2, <2>3, <2>4 DEF IsQueue
  <2> QED BY <1>2, <2>2, <2>5 DEF b
<1>8. Len(s) = 1 \/ Len(s) > 1
  BY <1>1, Sizes
<1> QED BY <1>6, <1>7, <1>8

\* A ring with e second, or alone.
LEMMA RingJoin ==
    ASSUME NEW s, NEW nx, NEW p, IsRing(s, nx, p),
           NEW my, NEW e \in Nodes, \A j \in 1 .. Len(s) : s[j] # e,
           s = <<>> => my[e] = e,
           s # <<>> => my[e] = nx[p] /\ my[p] = e,
           \A j \in 1 .. Len(s) : j # 1 => my[s[j]] = nx[s[j]]
    PROVE  IsRing(Behind(s, IF s = <<>> THEN 0 ELSE 1, e), my, IF s = <<>> THEN e ELSE p)
<1> DEFINE i == IF s = <<>> THEN 0 ELSE 1
           b == Behind(s, i, e)
<1>1. s \in Seq(Nodes) /\ Len(s) \in Nat /\ IsPath(s, nx) /\ (s = <<>> <=> Len(s) = 0)
  BY LenProperties, EmptySeq DEF IsPath, IsRing
<1>2. i \in 0 .. Len(s)
  BY <1>1
<1>3. /\ b \in Seq(Nodes) /\ Len(b) = Len(s) + 1
      /\ \A j \in 1 .. Len(s) + 1 :
           b[j] = IF j <= i THEN s[j] ELSE IF j = i + 1 THEN e ELSE s[j - 1]
  <2> HIDE DEF i
  <2> QED BY <1>1, <1>2, BehindIs
<1>4. s # <<>> => p = s[1] /\ nx[s[Len(s)]] = s[1]
  BY DEF IsRing
<1>5. IsPath(b, my)
  <2>1. /\ i > 0 => my[s[i]] = e
        /\ i < Len(s) => my[e] = s[i + 1]
        /\ \A j \in 1 .. Len(s) : j # i => my[s[j]] = nx[s[j]]
    <3>1. CASE s = <<>>
      BY <1>1, <3>1
    <3>2. CASE s # <<>>
      <4>1. 1 < Len(s) => nx[s[1]] = s[1 + 1]
        BY <1>1 DEF IsPath
      <4> QED BY <1>1, <1>4, <3>2, <4>1
    <3> QED BY <3>1, <3>2
  <2> HIDE DEF i
  <2> QED BY <1>1, <1>2, <2>1, PathGrows
<1>6. b # <<>> /\ b[1] = (IF s = <<>> THEN e ELSE p) /\ my[b[Len(b)]] = b[1]
  <2> HIDE DEF b
  <2>1. CASE s = <<>>
    BY <1>1, <1>3, <2>1
  <2>2. CASE s # <<>> /\ Len(s) = 1
    <3>1. i = 1 /\ my[e] = s[1]
      BY <1>4, <2>2
    <3> HIDE DEF i
    <3>2. Len(b) = 2 /\ b[1] = s[1] /\ b[2] = e
      BY <1>1, <1>3, <2>2, <3>1
    <3>3. b # <<>>
      BY <3>2
    <3> QED BY <1>4, <2>2, <3>1, <3>2, <3>3
  <2>3. CASE s # <<>> /\ Len(s) # 1
    <3>1. i = 1 /\ Len(s) > 1
      BY <1>1, <2>3, Sizes
    <3> HIDE DEF i
    <3>2. Len(b) = Len(s) + 1 /\ b[Len(b)] = s[Len(s)] /\ b[1] = s[1] /\ Len(s) \in 1 .. Len(s)
      BY <1>1, <1>3, <3>1
    <3>3. b # <<>>
      BY <1>1, <3>1, <3>2
    <3>4. my[s[Len(s)]] = nx[s[Len(s)]]
      BY <3>1, <3>2
    <3> QED BY <1>4, <2>3, <3>2, <3>3, <3>4
  <2> QED BY <2>1, <2>2, <2>3
<1> HIDE DEF b, i
<1> QED BY <1>5, <1>6 DEF IsRing, b, i

\* A ring without its i-th node: the node in front of it points behind it, and the
\* entry moves on with its node.
LEMMA RingLeave ==
    ASSUME NEW s, NEW nx, NEW p, IsRing(s, nx, p), NEW i \in 1 .. Len(s),
           NEW my, NEW d \in 1 .. Len(s), nx[s[d]] = s[i],
           Len(s) > 1 => my[s[d]] = nx[s[i]],
           \A j \in 1 .. Len(s) : j # d => my[s[j]] = nx[s[j]]
    PROVE  IsRing(Without(s, i), my,
                  IF Len(s) = 1 THEN NULL ELSE IF s[i] = p THEN nx[s[i]] ELSE p)
<1> DEFINE b == Without(s, i)
<1>1. /\ s \in Seq(Nodes) /\ Len(s) \in Nat \ {0} /\ s # <<>> /\ IsPath(s, nx)
      /\ p = s[1] /\ nx[s[Len(s)]] = s[1]
      /\ 1 \in 1 .. Len(s) /\ Len(s) \in 1 .. Len(s)
  BY LenProperties, EmptySeq DEF IsPath, IsRing
<1>2. /\ b \in Seq(Nodes) /\ Len(b) = Len(s) - 1
      /\ \A j \in 1 .. Len(s) - 1 : b[j] = IF j < i THEN s[j] ELSE s[j + 1]
  BY <1>1, WithoutIs
<1> HIDE DEF b
<1>3. \A j \in 1 .. Len(s) : nx[s[j]] = IF j = Len(s) THEN s[1] ELSE s[j + 1]
  <2> SUFFICES ASSUME NEW j \in 1 .. Len(s), j # Len(s) PROVE nx[s[j]] = s[j + 1]
    BY <1>1
  <2>1. j \in 1 .. Len(s) - 1
    BY <1>1
  <2> QED BY <1>1, <2>1 DEF IsPath
<1>4. d = IF i = 1 THEN Len(s) ELSE i - 1
  <2>1. d = Len(s) => i = 1
    BY <1>1, <1>3 DEF IsPath, Once
  <2>2. d # Len(s) => i = d + 1
    <3>1. d # Len(s) => s[i] = s[d + 1] /\ d + 1 \in 1 .. Len(s)
      BY <1>1, <1>3
    <3> QED BY <1>1, <3>1 DEF IsPath, Once
  <2> QED BY <1>1, <2>1, <2>2
<1>5. IsPath(b, my)
  <2>1. 1 < i /\ i < Len(s) => my[s[i - 1]] = s[i + 1]
    BY <1>1, <1>3, <1>4
  <2>2. \A j \in 1 .. Len(s) - 1 : j # i /\ j # i - 1 => my[s[j]] = nx[s[j]]
    BY <1>1, <1>4
  <2> QED BY <1>1, <2>1, <2>2, PathShrinks DEF b
<1>6. CASE Len(s) = 1
  <2>1. b = <<>>
    BY <1>2, <1>6, EmptySeq
  <2> QED BY <1>5, <1>6, <2>1 DEF IsRing, b
<1>7. CASE Len(s) # 1
  <2>1. Len(s) > 1
    BY <1>1, <1>7, Sizes
  <2>2. b[1] = (IF i = 1 THEN s[2] ELSE s[1]) /\ b # <<>>
    BY <1>1, <1>2, <2>1
  <2>3. s[i] = p <=> i = 1
    BY <1>1 DEF IsPath, Once
  <2>4. nx[s[1]] = s[2]
    BY <1>1, <1>3, <2>1
  <2>5. b[1] = IF s[i] = p THEN nx[s[i]] ELSE p
    BY <1>1, <2>2, <2>3, <2>4
  <2>6. my[b[Len(b)]] = b[1]
    <3>1. CASE i = Len(s)
      <4>1. i # 1 /\ Len(s) - 1 \in 1 .. Len(s) - 1 /\ Len(s) - 1 < i
        BY <1>1, <2>1, <3>1
      <4>2. b[Len(b)] = s[Len(s) - 1]
        BY <1>2, <4>1
      <4>3. d = Len(s) - 1
        BY <1>4, <3>1, <4>1
      <4>4. my[s[d]] = s[1]
        BY <1>1, <2>1, <3>1
      <4> QED BY <2>2, <4>1, <4>2, <4>3, <4>4
    <3>2. CASE i # Len(s)
      <4>1. b[Len(b)] = s[Len(s)]
        BY <1>1, <1>2, <2>1, <3>2
      <4>2. CASE i = 1
        BY <1>1, <1>4, <2>1, <2>2, <2>4, <4>1, <4>2
      <4>3. CASE i # 1
        <5>1. d # Len(s)
          BY <1>1, <1>4, <3>2, <4>3
        <5> QED BY <1>1, <2>2, <4>1, <4>3, <5>1
      <4> QED BY <4>2, <4>3
    <3> QED BY <3>1, <3>2
  <2>7. IsRing(b, my, b[1])
    BY <1>5, <2>2, <2>6 DEF IsRing
  <2> QED BY <1>7, <2>5, <2>7 DEF b
<1> QED BY <1>6, <1>7

--------------------------------------------------------------------------------
(* The operations of linkedlist.c. *)

\* Sequences that the pointers of a state make up are the walks of that state.
LEMMA ListsAre ==
    ASSUME NEW q, NEW r, NEW nx, NEW h, NEW t, NEW e, AreLists(q, r, nx, h, t, e)
    PROVE  /\ Len(q) \in Nat /\ Len(r) \in Nat
           /\ [i \in 1 .. Len(q) |-> HopOf(nx, h, i - 1)] = q
           /\ [i \in 1 .. Len(r) |-> HopOf(nx, e, i - 1)] = r
           /\ HopOf(nx, h, Len(q)) = NULL
           /\ Len(q) > 0 => HopOf(nx, h, Len(q) - 1) = t
           /\ Len(r) > 0 => HopOf(nx, e, Len(r)) = e
<1>1. /\ IsPath(q, nx) /\ q \in Seq(Nodes) /\ (q # <<>> => h = q[1] /\ t = q[Len(q)])
      /\ IsPath(r, nx) /\ r \in Seq(Nodes) /\ (r # <<>> => e = r[1])
  BY DEF AreLists, IsQueue, IsRing, IsPath
<1>2. Len(q) \in Nat /\ Len(r) \in Nat /\ (q = <<>> => Len(q) = 0) /\ (r = <<>> => Len(r) = 0)
  BY <1>1, LenProperties, EmptySeq
<1>3. /\ [i \in 1 .. Len(q) |-> HopOf(nx, h, i - 1)] = q
      /\ HopOf(nx, h, Len(q)) = (IF q = <<>> THEN h ELSE nx[q[Len(q)]])
      /\ q # <<>> => HopOf(nx, h, Len(q) - 1) = q[Len(q)]
  BY <1>1, WalkIs
<1>4. /\ [i \in 1 .. Len(r) |-> HopOf(nx, e, i - 1)] = r
      /\ HopOf(nx, e, Len(r)) = IF r = <<>> THEN e ELSE nx[r[Len(r)]]
  BY <1>1, WalkIs
<1>5. HopOf(nx, h, Len(q)) = NULL
  BY <1>3 DEF AreLists, IsQueue
<1>6. Len(q) > 0 => HopOf(nx, h, Len(q) - 1) = t
  BY <1>1, <1>2, <1>3
<1>7. Len(r) > 0 => HopOf(nx, e, Len(r)) = e
  BY <1>1, <1>2, <1>4 DEF AreLists, IsRing
<1> QED BY <1>2, <1>3, <1>4, <1>5, <1>6, <1>7

\* The lists of a state, each with the length that its count says.
LEMMA ListsNow ==
    ASSUME ListInv
    PROVE  /\ Len(Walk(head, cnt)) = cnt /\ Len(Walk(entry, num)) = num
           /\ Walk(head, cnt) \in Seq(Nodes) /\ Walk(entry, num) \in Seq(Nodes)
           /\ Used = {Walk(head, cnt)[i] : i \in 1 .. cnt}
                       \cup {Walk(entry, num)[i] : i \in 1 .. num}
<1>1. /\ Walk(head, cnt) \in Seq(Nodes) /\ Walk(entry, num) \in Seq(Nodes)
      /\ cnt \in Nat /\ num \in Nat
  BY DEF ListInv, AreLists, IsQueue, IsRing, IsPath
<1>2. Len(Walk(head, cnt)) = cnt /\ Len(Walk(entry, num)) = num
  BY <1>1 DEF Walk
<1> QED BY <1>1, <1>2 DEF Used

\* To show that a step preserves ListInv, name the lists that it makes.
LEMMA ListsNext ==
    ASSUME NEW q, NEW r, AreLists(q, r, next', head', tail', entry'),
           Len(q) = cnt', Len(r) = num'
    PROVE  ListInv' /\ Walk(head, cnt)' = q /\ Walk(entry, num)' = r
<1>1. Walk(head, cnt)' = [i \in 1 .. cnt' |-> HopOf(next', head', i - 1)]
  BY DEF Walk, Hop, HopOf
<1>2. Walk(entry, num)' = [i \in 1 .. num' |-> HopOf(next', entry', i - 1)]
  BY DEF Walk, Hop, HopOf
<1>3. Len(q) \in Nat /\ Len(r) \in Nat /\ Walk(head, cnt)' = q /\ Walk(entry, num)' = r
  BY <1>1, <1>2, ListsAre
<1> QED BY <1>3 DEF ListInv

LEMMA InitLists == ListInit => ListInv /\ Walk(head, cnt) = <<>> /\ Walk(entry, num) = <<>>
<1> SUFFICES ASSUME ListInit
             PROVE  ListInv /\ Walk(head, cnt) = <<>> /\ Walk(entry, num) = <<>>
  OBVIOUS
<1>1. Walk(head, cnt) = <<>> /\ Walk(entry, num) = <<>>
  BY DEF ListInit, Walk
<1>2. <<>> \in Seq(Nodes) /\ Len(<<>>) = 0
  BY EmptySeq
<1>3. AreLists(<<>>, <<>>, next, head, tail, entry)
  BY <1>2 DEF AreLists, IsQueue, IsRing, IsPath, Once, ListInit
<1> QED BY <1>1, <1>3 DEF ListInv, ListInit

\* e goes into the queue behind its i-th node.
LEMMA PutLists ==
    ASSUME ListInv, NEW e \in Nodes \ Used, NEW i \in 0 .. cnt,
           next' \in [Nodes -> Nodes \cup {NULL}],
           next'[e] = IF i < cnt THEN Walk(head, cnt)[i + 1] ELSE NULL,
           i > 0 => next'[Walk(head, cnt)[i]] = e,
           \A d \in Nodes \ {e} : (i > 0 => d # Walk(head, cnt)[i]) => next'[d] = next[d],
           head' = IF i = 0 THEN e ELSE head,
           tail' = IF i = cnt THEN e ELSE tail,
           cnt' = cnt + 1, UNCHANGED ringVars
    PROVE  /\ ListInv'
           /\ Walk(head, cnt)' = Behind(Walk(head, cnt), i, e)
           /\ Walk(entry, num)' = Walk(entry, num)
<1> DEFINE q == Walk(head, cnt)
           r == Walk(entry, num)
           b == Behind(q, i, e)
<1>1. /\ Len(q) = cnt /\ Len(r) = num /\ q \in Seq(Nodes) /\ r \in Seq(Nodes)
      /\ \A j \in 1 .. Len(q) : q[j] # e
      /\ \A j \in 1 .. Len(r) : r[j] # e
  BY ListsNow
<1>2. /\ IsQueue(q, next, head, tail) /\ IsRing(r, next, entry)
      /\ \A j \in 1 .. Len(q), k \in 1 .. Len(r) : q[j] # r[k]
      /\ cnt \in Nat /\ num \in Nat
  BY DEF ListInv, AreLists
<1>3. /\ next'[e] = IF i < Len(q) THEN q[i + 1] ELSE NULL
      /\ i > 0 => next'[q[i]] = e
      /\ \A d \in Nodes \ {e} : (i > 0 => d # q[i]) => next'[d] = next[d]
      /\ i \in 0 .. Len(q)
  BY <1>1
<1> HIDE DEF q, r
<1>4. \A j \in 1 .. Len(q) : q[j] \in Nodes
  BY <1>1, ElementOfSeq
<1>5. \A j \in 1 .. Len(r) : r[j] \in Nodes
  BY <1>1, ElementOfSeq
<1>6. \A j \in 1 .. Len(q) : j # i => next'[q[j]] = next[q[j]]
  BY <1>1, <1>2, <1>3, <1>4 DEF IsQueue, IsPath, Once
<1>7. IsQueue(b, next', head', tail')
  BY <1>1, <1>2, <1>3, <1>6, QueuePut
<1>8. \A j \in 1 .. Len(r) : next'[r[j]] = next[r[j]]
  BY <1>1, <1>2, <1>3, <1>5
<1>9. IsRing(r, next', entry')
  BY <1>2, <1>8, PathStays DEF ringVars
<1>10. Len(b) = cnt + 1 /\ \A j \in 1 .. Len(b), k \in 1 .. Len(r) : b[j] # r[k]
  <2>1. /\ Len(b) = Len(q) + 1
        /\ \A j \in 1 .. Len(q) + 1 :
             b[j] = IF j <= i THEN q[j] ELSE IF j = i + 1 THEN e ELSE q[j - 1]
    BY <1>1, <1>3, BehindIs
  <2> HIDE DEF b
  <2>2. \A j \in 1 .. Len(b) : b[j] = e \/ \E l \in 1 .. Len(q) : b[j] = q[l]
    <3> SUFFICES ASSUME NEW j \in 1 .. Len(b), j # i + 1 PROVE \E l \in 1 .. Len(q) : b[j] = q[l]
      BY <1>1, <1>2, <1>3, <2>1
    <3>1. j <= i => j \in 1 .. Len(q) /\ b[j] = q[j]
      BY <1>1, <1>2, <1>3, <2>1
    <3>2. j > i => j - 1 \in 1 .. Len(q) /\ b[j] = q[j - 1]
      BY <1>1, <1>2, <1>3, <2>1
    <3> QED BY <1>3, <3>1, <3>2
  <2>3. \A j \in 1 .. Len(b), k \in 1 .. Len(r) : b[j] # r[k]
    BY <1>1, <1>2, <2>2
  <2> QED BY <1>1, <2>1, <2>3
<1>11. AreLists(b, r, next', head', tail', entry') /\ Len(b) = cnt' /\ Len(r) = num'
  BY <1>1, <1>7, <1>9, <1>10 DEF AreLists, ringVars
<1> HIDE DEF b
<1> QED BY <1>11, ListsNext DEF q, r, b

\* The ends of the queue.
LEMMA Ends ==
    ASSUME ListInv
    PROVE  /\ cnt \in Nat /\ Len(Walk(head, cnt)) = cnt
           /\ next \in [Nodes -> Nodes \cup {NULL}]
           /\ \A i \in 1 .. cnt : Walk(head, cnt)[i] \in Nodes
           /\ cnt = 0 => head = NULL /\ tail = NULL
           /\ cnt # 0 => /\ head = Walk(head, cnt)[1] /\ head \in Nodes
                         /\ tail = Walk(head, cnt)[cnt] /\ tail \in Nodes
<1> DEFINE q == Walk(head, cnt)
<1>1. /\ Len(q) = cnt /\ cnt \in Nat /\ IsQueue(q, next, head, tail)
      /\ next \in [Nodes -> Nodes \cup {NULL}]
      /\ q \in Seq(Nodes) /\ (q = <<>> <=> cnt = 0)
  BY ListsNow, EmptySeq DEF ListInv, AreLists
<1> HIDE DEF q
<1>2. \A i \in 1 .. cnt : q[i] \in Nodes
  BY <1>1, ElementOfSeq
<1>3. cnt # 0 => head = q[1] /\ tail = q[cnt] /\ 1 \in 1 .. cnt /\ cnt \in 1 .. cnt
  BY <1>1 DEF IsQueue
<1>4. cnt = 0 => head = NULL /\ tail = NULL
  BY <1>1 DEF IsQueue
<1> QED BY <1>1, <1>2, <1>3, <1>4 DEF q

\* Q_push puts a node behind none, Q_append behind the last, and Q_insert_after behind
\* any.
LEMMA PushIs ==
    ASSUME ListInv, NEW e \in Nodes \ Used, Linked(Pushed(e)), cnt' = cnt + 1, UNCHANGED ringVars
    PROVE  /\ ListInv'
           /\ Walk(head, cnt)' = Behind(Walk(head, cnt), 0, e)
           /\ Walk(entry, num)' = Walk(entry, num)
<1> DEFINE i == 0
<1>1. /\ next' = [next EXCEPT ![e] = head] /\ head' = e
      /\ tail' = IF tail = NULL THEN e ELSE tail
  BY DEF Linked, Pushed
<1>2. /\ i \in 0 .. cnt
      /\ next' \in [Nodes -> Nodes \cup {NULL}]
      /\ next'[e] = (IF i < cnt THEN Walk(head, cnt)[i + 1] ELSE NULL)
      /\ \A d \in Nodes \ {e} : next'[d] = next[d]
      /\ tail' = IF i = cnt THEN e ELSE tail
  BY <1>1, Ends, NULLAssumption
<1> QED BY <1>1, <1>2, PutLists

LEMMA AppendIs ==
    ASSUME ListInv, NEW e \in Nodes \ Used, Linked(Appended(e)), cnt' = cnt + 1,
           UNCHANGED ringVars
    PROVE  /\ ListInv'
           /\ Walk(head, cnt)' = Behind(Walk(head, cnt), cnt, e)
           /\ Walk(entry, num)' = Walk(entry, num)
<1> DEFINE q == Walk(head, cnt)
<1>1. CASE cnt = 0
  <2>1. tail = NULL /\ next' = [next EXCEPT ![e] = NULL] /\ head' = e /\ tail' = e
    BY <1>1, Ends DEF Linked, Appended
  <2>2. /\ next' \in [Nodes -> Nodes \cup {NULL}]
        /\ next'[e] = NULL /\ \A d \in Nodes \ {e} : next'[d] = next[d]
    BY <2>1, Ends
  <2>3. cnt \in 0 .. cnt /\ ~(cnt < cnt) /\ ~(cnt > 0)
    BY <1>1
  <2> QED BY <1>1, <2>1, <2>2, <2>3, PutLists
<1>2. CASE cnt # 0
  <2>1. /\ tail \in Nodes /\ tail # NULL /\ tail = q[cnt]
        /\ next' = [next EXCEPT ![e] = NULL, ![tail] = e] /\ head' = head /\ tail' = e
    BY <1>2, Ends, NULLAssumption DEF Linked, Appended
  <2>2. tail # e
    <3>1. tail \in {q[j] : j \in 1 .. cnt}
      BY <1>2, <2>1, Ends
    <3> QED BY <3>1 DEF Used
  <2>3. /\ next' \in [Nodes -> Nodes \cup {NULL}]
        /\ next'[e] = NULL /\ next'[q[cnt]] = e
        /\ \A d \in Nodes \ {e} : d # q[cnt] => next'[d] = next[d]
    <3> HIDE DEF q
    <3> QED BY <2>1, <2>2, Ends
  <2>4. cnt \in 0 .. cnt /\ ~(cnt < cnt) /\ cnt # 0
    BY <1>2, Ends
  <2> QED BY <2>1, <2>3, <2>4, PutLists
<1> QED BY <1>1, <1>2

LEMMA InsertIs ==
    ASSUME ListInv, NEW e \in Nodes \ Used,
           NEW d \in {Walk(head, cnt)[i] : i \in 1 .. cnt} \cup {NULL}, QInsertAfter(d, e)
    PROVE  /\ ListInv'
           /\ \E i \in 0 .. cnt : Walk(head, cnt)' = Behind(Walk(head, cnt), i, e)
           /\ Walk(entry, num)' = Walk(entry, num)
<1> DEFINE q == Walk(head, cnt)
<1>1. CASE d = NULL
  <2>1. Linked(Pushed(e)) /\ cnt' = cnt + 1 /\ UNCHANGED ringVars /\ 0 \in 0 .. cnt
    BY <1>1, Ends DEF QInsertAfter
  <2> QED BY <2>1, PushIs
<1>2. CASE d # NULL /\ d = tail
  <2>1. Linked(Appended(e)) /\ cnt' = cnt + 1 /\ UNCHANGED ringVars /\ cnt \in 0 .. cnt
    BY <1>2, Ends DEF QInsertAfter
  <2> QED BY <2>1, AppendIs
<1>3. CASE d # NULL /\ d # tail
  <2>1. PICK i \in 1 .. cnt : d = q[i]
    BY <1>3
  <2>2. i < cnt /\ i > 0 /\ i \in 0 .. cnt
    BY <1>3, <2>1, Ends
  <2>3. d \in Nodes /\ d # e
    BY <2>1, Ends DEF Used
  <2>4. next[d] = q[i + 1] /\ next[d] \in Nodes
    <3>1. IsPath(q, next) /\ Len(q) = cnt /\ i \in 1 .. cnt - 1 /\ i + 1 \in 1 .. cnt
      BY <2>1, <2>2, Ends DEF ListInv, AreLists, IsQueue
    <3> HIDE DEF q
    <3>2. next[q[i]] = q[i + 1]
      BY <3>1 DEF IsPath
    <3> QED BY <2>1, <3>1, <3>2, Ends DEF q
  <2>5. /\ next' = [next EXCEPT ![e] = next[d], ![d] = e] /\ head' = head /\ tail' = tail
        /\ cnt' = cnt + 1 /\ UNCHANGED ringVars
    BY <1>3 DEF QInsertAfter, Linked
  <2>6. /\ next' \in [Nodes -> Nodes \cup {NULL}]
        /\ next'[e] = q[i + 1] /\ next'[d] = e
        /\ \A c \in Nodes \ {e} : c # d => next'[c] = next[c]
    <3> HIDE DEF q
    <3> QED BY <2>3, <2>4, <2>5, Ends
  <2>7. Walk(head, cnt)' = Behind(q, i, e) /\ ListInv' /\ Walk(entry, num)' = Walk(entry, num)
    BY <2>1, <2>2, <2>5, <2>6, PutLists
  <2> QED BY <2>2, <2>7
<1> QED BY <1>1, <1>2, <1>3

\* Q_pop.
LEMMA PopIs ==
    ASSUME ListInv, QPop
    PROVE  /\ ListInv'
           /\ Walk(head, cnt) # <<>>
           /\ Walk(head, cnt)' = Tail(Walk(head, cnt))
           /\ Walk(entry, num)' = Walk(entry, num)
<1> DEFINE q == Walk(head, cnt)
           r == Walk(entry, num)
           b == Tail(q)
<1>1. /\ Len(q) = cnt /\ Len(r) = num /\ cnt \in Nat /\ q \in Seq(Nodes)
      /\ AreLists(q, r, next, head, tail, entry)
  BY ListsNow DEF ListInv
<1>2. /\ head # NULL /\ cnt' = cnt - 1 /\ head' = next[head]
      /\ tail' = (IF next[head] = NULL THEN NULL ELSE tail)
      /\ next' = next /\ entry' = entry /\ num' = num
  BY DEF QPop, LastOut, ringVars
<1> HIDE DEF q, r
<1>3. q # <<>>
  BY <1>1, <1>2 DEF AreLists, IsQueue
<1>4. /\ IsQueue(b, next', head', tail') /\ Len(b) = cnt - 1
      /\ \A j \in 1 .. Len(q) - 1 : b[j] = q[j + 1]
  BY <1>1, <1>2, <1>3, QueueGet DEF AreLists
<1> HIDE DEF b
<1>5. \A j \in 1 .. Len(b), k \in 1 .. Len(r) : b[j] # r[k]
  <2>1. \A j \in 1 .. Len(b) : j + 1 \in 1 .. Len(q) /\ b[j] = q[j + 1]
    BY <1>1, <1>4
  <2>2. \A j \in 1 .. Len(q), k \in 1 .. Len(r) : q[j] # r[k]
    BY <1>1 DEF AreLists
  <2> QED BY <2>1, <2>2
<1>6. AreLists(b, r, next', head', tail', entry') /\ Len(b) = cnt' /\ Len(r) = num'
  BY <1>1, <1>2, <1>4, <1>5 DEF AreLists
<1> QED BY <1>3, <1>6, ListsNext DEF q, r, b

\* add_circular puts a node second, or alone.
LEMMA AddCircularIs ==
    ASSUME ListInv, NEW e \in Nodes \ Used, AddCircular(e)
    PROVE  /\ ListInv'
           /\ Walk(head, cnt)' = Walk(head, cnt)
           /\ Walk(entry, num)' =
                Behind(Walk(entry, num), IF Walk(entry, num) = <<>> THEN 0 ELSE 1, e)
<1> DEFINE q == Walk(head, cnt)
           r == Walk(entry, num)
           i == IF r = <<>> THEN 0 ELSE 1
           b == Behind(r, i, e)
<1>1. /\ Len(q) = cnt /\ Len(r) = num /\ q \in Seq(Nodes) /\ r \in Seq(Nodes)
      /\ \A j \in 1 .. Len(q) : q[j] # e
      /\ \A j \in 1 .. Len(r) : r[j] # e
  BY ListsNow
<1>2. /\ IsQueue(q, next, head, tail) /\ IsRing(r, next, entry)
      /\ \A j \in 1 .. Len(q), k \in 1 .. Len(r) : q[j] # r[k]
      /\ cnt \in Nat /\ num \in Nat /\ next \in [Nodes -> Nodes \cup {NULL}]
  BY DEF ListInv, AreLists
<1> HIDE DEF q, r
<1>3. (r = <<>> <=> num = 0) /\ (r # <<>> => entry = r[1] /\ 1 \in 1 .. Len(r))
  BY <1>1, <1>2, EmptySeq DEF IsRing
<1>4. \A j \in 1 .. Len(q) : q[j] \in Nodes
  BY <1>1, ElementOfSeq
<1>5. \A j \in 1 .. Len(r) : r[j] \in Nodes
  BY <1>1, ElementOfSeq
<1>6. num' = num + 1 /\ head' = head /\ tail' = tail /\ cnt' = cnt
  BY DEF AddCircular, qVars
<1>7. r = <<>> => next' = [next EXCEPT ![e] = e] /\ entry' = e
  BY <1>3 DEF AddCircular
<1>8. r # <<>> => next' = [next EXCEPT ![e] = next[entry], ![entry] = e] /\ entry' = entry
  BY <1>3 DEF AddCircular
<1>9. /\ r # <<>> => entry \in Nodes /\ entry # e /\ next[entry] \in Nodes \cup {NULL}
      /\ e \in Nodes
  BY <1>1, <1>2, <1>3, <1>5
<1>10. /\ next' \in [Nodes -> Nodes \cup {NULL}]
       /\ r = <<>> => next'[e] = e
       /\ r # <<>> => next'[e] = next[entry] /\ next'[entry] = e
       /\ \A d \in Nodes \ {e} : (r # <<>> => d # entry) => next'[d] = next[d]
  BY <1>2, <1>7, <1>8, <1>9
<1>11. \A j \in 1 .. Len(r) : j # 1 => next'[r[j]] = next[r[j]]
  <2> SUFFICES ASSUME NEW j \in 1 .. Len(r), j # 1 PROVE next'[r[j]] = next[r[j]]
    OBVIOUS
  <2>1. r # <<>> => r[j] # entry
    BY <1>2, <1>3 DEF IsRing, IsPath, Once
  <2> QED BY <1>1, <1>5, <1>10, <2>1
<1>12. entry' = IF r = <<>> THEN e ELSE entry
  BY <1>7, <1>8
<1>13. IsRing(b, next', entry')
  <2> HIDE DEF i
  <2> QED BY <1>1, <1>2, <1>9, <1>10, <1>11, <1>12, RingJoin DEF i
<1>14. IsQueue(q, next', head', tail')
  <2>1. \A j \in 1 .. Len(q) : next'[q[j]] = next[q[j]]
    BY <1>1, <1>2, <1>3, <1>4, <1>10
  <2> QED BY <1>2, <1>6, <2>1, PathStays
<1>15. Len(b) = num + 1 /\ \A j \in 1 .. Len(q), k \in 1 .. Len(b) : q[j] # b[k]
  <2>1. i \in 0 .. Len(r)
    BY <1>1, <1>2, <1>3
  <2> HIDE DEF i
  <2>2. /\ Len(b) = Len(r) + 1
        /\ \A j \in 1 .. Len(r) + 1 :
             b[j] = IF j <= i THEN r[j] ELSE IF j = i + 1 THEN e ELSE r[j - 1]
    <3>1. r \in Seq(Nodes) /\ e \in Nodes
      BY <1>1
    <3> QED BY <2>1, <3>1, BehindIs, SMTT(20)
  <2> HIDE DEF b
  <2>3. \A j \in 1 .. Len(b) : b[j] = e \/ \E l \in 1 .. Len(r) : b[j] = r[l]
    BY <1>1, <1>2, <2>1, <2>2
  <2>4. \A j \in 1 .. Len(q), k \in 1 .. Len(b) : q[j] # b[k]
    BY <1>1, <1>2, <2>3
  <2> QED BY <1>1, <2>2, <2>4
<1>16. AreLists(q, b, next', head', tail', entry') /\ Len(q) = cnt' /\ Len(b) = num'
  BY <1>1, <1>6, <1>10, <1>13, <1>14, <1>15 DEF AreLists
<1> HIDE DEF b
<1> QED BY <1>16, ListsNext DEF q, r, b, i

\* remove_circular.
LEMMA RemoveIs ==
    ASSUME ListInv, NEW e \in Nodes, RemoveCircular(e)
    PROVE  /\ ListInv'
           /\ Walk(head, cnt)' = Walk(head, cnt)
           /\ \E i \in 1 .. num : /\ Walk(entry, num)[i] = e
                                  /\ Walk(entry, num)' = Without(Walk(entry, num), i)
<1> DEFINE q == Walk(head, cnt)
           r == Walk(entry, num)
<1>1. Len(q) = cnt /\ Len(r) = num /\ q \in Seq(Nodes) /\ r \in Seq(Nodes)
  BY ListsNow
<1>2. /\ IsQueue(q, next, head, tail) /\ IsRing(r, next, entry)
      /\ \A j \in 1 .. Len(q), k \in 1 .. Len(r) : q[j] # r[k]
      /\ cnt \in Nat /\ num \in Nat /\ next \in [Nodes -> Nodes \cup {NULL}]
  BY DEF ListInv, AreLists
<1>3. PICK c \in Before(e) :
        \/ num = 1 /\ entry' = NULL /\ next' = next
        \/ /\ num # 1
           /\ entry' = EntryWithout(c)
           /\ next' = [next EXCEPT ![c] = next[next[c]]]
  BY DEF RemoveCircular
<1>4. num' = num - 1 /\ head' = head /\ tail' = tail /\ cnt' = cnt
  BY DEF RemoveCircular, qVars
<1>5. PICK d \in 1 .. num : c = r[d] /\ next[c] = e
  BY <1>3 DEF Before
<1> HIDE DEF q, r
<1>6. \A j \in 1 .. Len(q) : q[j] \in Nodes
  BY <1>1, ElementOfSeq
<1>7. \A j \in 1 .. Len(r) : r[j] \in Nodes
  BY <1>1, ElementOfSeq
<1>8. r # <<>> /\ 1 \in 1 .. Len(r) /\ d \in 1 .. Len(r)
  BY <1>1, <1>2, <1>5, EmptySeq
<1>9. PICK i \in 1 .. Len(r) : r[i] = e
  <2>1. d = Len(r) => e = r[1]
    BY <1>2, <1>5, <1>8 DEF IsRing
  <2>2. d # Len(r) => d \in 1 .. Len(r) - 1 /\ d + 1 \in 1 .. Len(r)
    BY <1>1, <1>2, <1>8
  <2>3. d # Len(r) => e = r[d + 1]
    BY <1>2, <1>5, <2>2 DEF IsRing, IsPath
  <2> QED BY <1>8, <2>1, <2>2, <2>3
<1>10. c \in Nodes /\ next[e] \in Nodes \cup {NULL}
  BY <1>2, <1>5, <1>7, <1>8
<1>11. /\ next' \in [Nodes -> Nodes \cup {NULL}]
       /\ num # 1 => next'[c] = next[e]
       /\ \A a \in Nodes \ {c} : next'[a] = next[a]
  BY <1>2, <1>3, <1>5, <1>10
<1>12. entry' = IF Len(r) = 1 THEN NULL ELSE IF r[i] = entry THEN next[r[i]] ELSE entry
  BY <1>1, <1>3, <1>5, <1>9 DEF EntryWithout
<1> DEFINE b == Without(r, i)
<1>13. IsRing(b, next', entry')
  <2>1. next[r[d]] = r[i] /\ (Len(r) > 1 => next'[r[d]] = next[r[i]])
    BY <1>1, <1>2, <1>5, <1>9, <1>11
  <2>2. \A j \in 1 .. Len(r) : j # d => next'[r[j]] = next[r[j]]
    <3>1. \A j \in 1 .. Len(r) : j # d => r[j] # c
      BY <1>2, <1>5, <1>8 DEF IsRing, IsPath, Once
    <3> QED BY <1>7, <1>11, <3>1
  <2> QED BY <1>2, <1>8, <1>12, <2>1, <2>2, RingLeave
<1>14. IsQueue(q, next', head', tail')
  <2>1. \A j \in 1 .. Len(q) : q[j] # c
    BY <1>2, <1>5, <1>8
  <2>2. \A j \in 1 .. Len(q) : next'[q[j]] = next[q[j]]
    BY <1>6, <1>11, <2>1
  <2> QED BY <1>2, <1>4, <2>2, PathStays
<1>15. Len(b) = num - 1 /\ \A j \in 1 .. Len(q), k \in 1 .. Len(b) : q[j] # b[k]
  <2>1. /\ Len(b) = Len(r) - 1
        /\ \A j \in 1 .. Len(r) - 1 : b[j] = IF j < i THEN r[j] ELSE r[j + 1]
    BY <1>1, WithoutIs
  <2> HIDE DEF b
  <2>2. \A j \in 1 .. Len(b) : \E l \in 1 .. Len(r) : b[j] = r[l]
    BY <1>1, <1>2, <2>1
  <2>3. \A j \in 1 .. Len(q), k \in 1 .. Len(b) : q[j] # b[k]
    BY <1>2, <2>2
  <2> QED BY <1>1, <2>1, <2>3
<1>16. AreLists(q, b, next', head', tail', entry') /\ Len(q) = cnt' /\ Len(b) = num'
  BY <1>1, <1>4, <1>11, <1>13, <1>14, <1>15 DEF AreLists
<1> HIDE DEF b
<1>17. ListInv' /\ Walk(head, cnt)' = q /\ Walk(entry, num)' = b
  BY <1>16, ListsNext
<1> QED BY <1>1, <1>9, <1>17 DEF q, r, b

--------------------------------------------------------------------------------
(* The theorems about the lists. *)

\* Every call preserves the invariant, and is one of a queue's and a ring's.
LEMMA ListStep ==
    ASSUME ListInv, [ListNext]_listVars
    PROVE  ListInv' /\ [Abstract!Next]_<<Walk(head, cnt), Walk(entry, num)>>
<1> DEFINE q == Walk(head, cnt)
           r == Walk(entry, num)
<1>1. /\ Len(q) = cnt /\ Len(r) = num /\ q \in Seq(Nodes) /\ r \in Seq(Nodes)
      /\ cnt \in Nat /\ num \in Nat
  BY ListsNow DEF ListInv
<1>2. ASSUME NEW e \in Nodes \ Used PROVE e \in Nodes /\ e \in Abstract!Unlinked
  BY <1>1, ListsNow DEF Abstract!Unlinked, Abstract!ToSet
<1>3. \A s, i, e : Abstract!Behind(s, i, e) = Behind(s, i, e)
  BY DEF Abstract!Behind, Behind
<1>4. \A s, i : Abstract!Without(s, i) = Without(s, i)
  BY DEF Abstract!Without, Without
<1>5. ASSUME NEW e \in Nodes \ Used, NEW i \in 0 .. cnt, q' = Behind(q, i, e), r' = r
      PROVE  Abstract!Next
  <2>1. Abstract!Put(e)
    <3>1. i \in 0 .. Len(q) /\ q' = Abstract!Behind(q, i, e)
      BY <1>1, <1>3, <1>5
    <3> HIDE DEF q, r
    <3> QED BY <1>2, <1>5, <3>1 DEF Abstract!Put, q, r
  <2> QED BY <1>2, <2>1 DEF Abstract!Next
<1>6. ASSUME NEW e \in Nodes \ Used, QPush(e) PROVE ListInv' /\ Abstract!Next
  <2>1. ListInv' /\ q' = Behind(q, 0, e) /\ r' = r /\ 0 \in 0 .. cnt
    BY <1>1, <1>6, PushIs DEF QPush
  <2> QED BY <1>5, <2>1
<1>7. ASSUME NEW e \in Nodes \ Used, QAppend(e) PROVE ListInv' /\ Abstract!Next
  <2>1. ListInv' /\ q' = Behind(q, cnt, e) /\ r' = r /\ cnt \in 0 .. cnt
    BY <1>1, <1>7, AppendIs DEF QAppend
  <2> QED BY <1>5, <2>1
<1>8. ASSUME NEW e \in Nodes \ Used, NEW d \in {q[i] : i \in 1 .. cnt} \cup {NULL},
             QInsertAfter(d, e)
      PROVE  ListInv' /\ Abstract!Next
  <2>1. ListInv' /\ r' = r /\ \E i \in 0 .. cnt : q' = Behind(q, i, e)
    BY <1>8, InsertIs
  <2> QED BY <1>5, <2>1
<1>9. ASSUME NEW e \in Nodes \ Used, AddCircular(e) PROVE ListInv' /\ Abstract!Next
  <2>1. ListInv' /\ q' = q /\ r' = Behind(r, IF r = <<>> THEN 0 ELSE 1, e)
    BY <1>9, AddCircularIs
  <2>2. Abstract!Join(e)
    BY <1>2, <1>3, <2>1 DEF Abstract!Join
  <2> QED BY <1>2, <2>1, <2>2 DEF Abstract!Next
<1>10. ASSUME QPop PROVE ListInv' /\ Abstract!Next
  <2>1. ListInv' /\ q # <<>> /\ q' = Tail(q) /\ r' = r
    BY <1>10, PopIs
  <2> QED BY <2>1 DEF Abstract!Next, Abstract!Get
<1>11. ASSUME NEW e \in Nodes, RemoveCircular(e) PROVE ListInv' /\ Abstract!Next
  <2>1. PICK i \in 1 .. num : r' = Without(r, i)
    BY <1>11, RemoveIs
  <2>2. ListInv' /\ q' = q
    BY <1>11, RemoveIs
  <2>3. i \in DOMAIN r
    BY <1>1
  <2> QED BY <1>4, <2>1, <2>2, <2>3 DEF Abstract!Next, Abstract!Leave
<1>12. CASE UNCHANGED listVars
  <2>1. AreLists(q, r, next', head', tail', entry') /\ Len(q) = cnt' /\ Len(r) = num'
    BY <1>1, <1>12 DEF ListInv, listVars
  <2>2. ListInv' /\ q' = q /\ r' = r
    <3> HIDE DEF q, r
    <3> QED BY <2>1, ListsNext DEF q, r
  <2> QED BY <2>2
<1>13. CASE ListNext
  BY <1>6, <1>7, <1>8, <1>9, <1>10, <1>11, <1>13 DEF ListNext
<1> QED BY <1>12, <1>13

\* What the pointers make up ends and closes where the counts say.
LEMMA ListsEnd == ListInv => ListsClose
<1> SUFFICES ASSUME ListInv PROVE ListsClose
  OBVIOUS
<1> DEFINE q == Walk(head, cnt)
           r == Walk(entry, num)
<1>1. /\ Len(q) = cnt /\ Len(r) = num /\ q \in Seq(Nodes) /\ r \in Seq(Nodes)
      /\ cnt \in Nat /\ num \in Nat /\ Once(q) /\ Once(r)
      /\ AreLists(q, r, next, head, tail, entry)
  BY ListsNow DEF ListInv, AreLists, IsQueue, IsRing, IsPath
<1>2. /\ HopOf(next, head, Len(q)) = NULL
      /\ Len(q) > 0 => HopOf(next, head, Len(q) - 1) = tail
      /\ Len(r) > 0 => HopOf(next, entry, Len(r)) = entry
  <2> HIDE DEF q, r
  <2> QED BY <1>1, ListsAre
<1>3. Len(q) <= Cardinality(Nodes) /\ Len(r) <= Cardinality(Nodes)
  <2> HIDE DEF q, r
  <2> QED BY <1>1, OnceIsShort
<1>4. Cardinality({r[i] : i \in 1 .. num}) = num
  <2> HIDE DEF q, r
  <2>1. Cardinality({r[i] : i \in 1 .. Len(r)}) = Len(r)
    BY <1>1, OnceIsShort
  <2> QED BY <1>1, <2>1
<1>5. \A p, n : Hop(p, n) = HopOf(next, p, n)
  BY DEF Hop, HopOf
<1>6. RingCloses
  <2>1. num > 0 => Hop(entry, num) = entry
    <3> HIDE DEF r
    <3> QED BY <1>1, <1>2, <1>5
  <2> QED BY <1>4, <2>1 DEF RingCloses
<1>7. /\ cnt = 0 => head = NULL /\ tail = NULL
      /\ cnt # 0 => head \in Nodes /\ tail \in Nodes
  BY Ends
<1>8. QueueEnds
  <2>1. Hop(head, cnt) = NULL
    <3> HIDE DEF q
    <3> QED BY <1>1, <1>2, <1>5
  <2>2. cnt > 0 => Hop(head, cnt - 1) = tail
    <3> HIDE DEF q
    <3> QED BY <1>1, <1>2, <1>5
  <2> QED BY <1>7, <2>1, <2>2, NULLAssumption DEF QueueEnds
<1>9. ListTypeOK
  <2>1. cnt \in 0 .. Cardinality(Nodes) /\ num \in 0 .. Cardinality(Nodes)
    <3> HIDE DEF q, r
    <3>1. Cardinality(Nodes) \in Nat
      BY NodesAssumption, FS_CardinalityType
    <3> QED BY <1>1, <1>3, <3>1
  <2>2. entry \in Nodes \cup {NULL}
    <3> HIDE DEF q, r
    <3>1. r # <<>> => r[1] \in Nodes
      BY <1>1, ElementOfSeq, EmptySeq
    <3> QED BY <1>1, <3>1 DEF AreLists, IsRing
  <2> QED BY <1>1, <1>7, <2>1, <2>2 DEF ListTypeOK, AreLists
<1> QED BY <1>6, <1>8, <1>9 DEF ListsClose

\* Whatever sequence of Q_push, Q_append, Q_insert_after, Q_pop, add_circular and
\* remove_circular runs, the queue ends at its tail and the circular list closes at
\* its entry after as many nodes as their counts say: there is no node that Q_pop
\* never reaches, and the rounds that schedule() counts with entry.ptr are whole.
THEOREM ListsStay == LinkedListSpec => []ListsClose
<1>1. ListInit => ListInv
  BY InitLists
<1>2. ListInv /\ [ListNext]_listVars => ListInv'
  BY ListStep
<1> QED BY <1>1, <1>2, ListsEnd, PTL DEF LinkedListSpec

\* The pointer operations of linkedlist.c are those of a queue and of a ring that is
\* read from its entry on: each call is one of theirs on the sequences that the
\* pointers lead through.
THEOREM ListsImplement == LinkedListSpec => ListsSpec
<1>1. ListInit => ListInv /\ Abstract!Init
  BY InitLists DEF Abstract!Init
<1>2. ListInv /\ [ListNext]_listVars =>
        ListInv' /\ [Abstract!Next]_<<Walk(head, cnt), Walk(entry, num)>>
  BY ListStep
<1> QED BY <1>1, <1>2, PTL DEF LinkedListSpec, ListsSpec, Abstract!Spec

--------------------------------------------------------------------------------
(* The pins and the UART on them. *)

LEMMA InitDevices == DevicesInit => DevicesInv
<1> SUFFICES ASSUME DevicesInit PROVE DevicesInv
  OBVIOUS
<1>1. is_enabled = FALSE /\ is_turbo = FALSE /\ late = FALSE /\ baud = 0 /\ called = {}
  BY DEF DevicesInit
<1>2. GpioTypeOK
  BY DEF DevicesInit, GpioInit, GpioTypeOK, GPIO_FUNC_INPUT
<1> QED BY <1>1, <1>2 DEF DevicesInv, UartIsSet, DevicesTypeOK, UartHasPins, BaudFits

\* What the registers of a word read as, with one bit given, is of the word.
LEMMA WordIs ==
    ASSUME NEW S \in SUBSET Pins, NEW pin \in Pins, NEW val
    PROVE  /\ put_in_register(S, pin, val) \in SUBSET Word(pin)
           /\ (S \ Word(pin)) \cup put_in_register(S, pin, val) \in SUBSET Pins
           /\ \A p \in Pins \ {pin} :
                p \in ((S \ Word(pin)) \cup put_in_register(S, pin, val)) <=> p \in S
<1>1. pin \in Word(pin) /\ Word(pin) \subseteq Pins
  BY DEF Word
<1>2. One(pin, val) = {pin} \/ One(pin, val) = {}
  BY DEF One
<1> HIDE DEF One
<1>3. put_in_register(S, pin, val) = (S \cap Word(pin)) \cup One(pin, val)
  BY DEF put_in_register
<1> QED BY <1>1, <1>2, <1>3

\* Starting the UART takes its pins and no other; the clock goes up without a pin.
LEMMA UartStepKeeps ==
    ASSUME DevicesInv, uart_init \/ set_max_freq
    PROVE  DevicesInv' /\ OthersKeep /\ ClearsOneWord
<1>1. CASE uart_init
  <2>1. /\ fsel' = [fsel EXCEPT ![14] = GPIO_FUNC_ALT5, ![15] = GPIO_FUNC_ALT5]
        /\ pull' = [pull EXCEPT ![14] = 0, ![15] = 0]
        /\ fsel \in [Pins -> SUBSET (0 .. 2)] /\ pull \in [Pins -> 0 .. 2]
        /\ {14, 15} \subseteq Pins
    BY <1>1, DevicesAssumption
       DEF uart_init, FunctionSet, FieldCleared, Pulled, TX, RX, UartPins,
           DevicesInv, UartIsSet, DevicesTypeOK, GpioTypeOK
  <2>2. GPIO_FUNC_ALT5 \in SUBSET (0 .. 2)
    BY DEF GPIO_FUNC_ALT5
  <2>3. /\ fsel' \in [Pins -> SUBSET (0 .. 2)] /\ pull' \in [Pins -> 0 .. 2]
        /\ \A p \in {14, 15} : fsel'[p] = GPIO_FUNC_ALT5 /\ pull'[p] = 0
        /\ \A p \in Pins \ {14, 15} : fsel'[p] = fsel[p] /\ pull'[p] = pull[p]
    <3>1. 14 \in Pins /\ 15 \in Pins
      BY <2>1
    <3>2. fsel' \in [Pins -> SUBSET (0 .. 2)] /\ pull' \in [Pins -> 0 .. 2]
      <4>1. \A T, f : f \in [Pins -> T] =>
              \A a \in T : [f EXCEPT ![14] = a, ![15] = a] \in [Pins -> T]
        OBVIOUS
      <4>2. 0 \in 0 .. 2
        OBVIOUS
      <4> QED BY <2>1, <2>2, <4>1, <4>2
    <3>3. fsel'[14] = GPIO_FUNC_ALT5 /\ fsel'[15] = GPIO_FUNC_ALT5
      BY <2>1, <3>1
    <3>4. pull'[14] = 0 /\ pull'[15] = 0
      BY <2>1, <3>1
    <3>5. \A p \in Pins \ {14, 15} : fsel'[p] = fsel[p] /\ pull'[p] = pull[p]
      BY <2>1, <3>1
    <3> QED BY <3>2, <3>3, <3>4, <3>5
  <2>4. /\ called' = {14, 15} /\ latch' = latch /\ events' = events
        /\ detected' = detected /\ baud' = IF is_turbo THEN 433 ELSE 270
    BY <1>1 DEF uart_init, UartPins, Divisor
  <2>5. is_enabled' = TRUE /\ is_turbo' = is_turbo /\ late' = FALSE
    <3>1. ~is_enabled /\ late \in BOOLEAN /\ (late => is_enabled)
      BY <1>1 DEF uart_init, DevicesInv, UartIsSet, DevicesTypeOK
    <3> QED BY <1>1, <3>1 DEF uart_init
  <2>6. DevicesTypeOK'
    BY <2>1, <2>3, <2>4, <2>5 DEF DevicesTypeOK, GpioTypeOK, DevicesInv, UartIsSet
  <2>7. UartHasPins'
    BY <2>3 DEF UartHasPins, UartPins
  <2>8. BaudFits'
    BY <2>4, <2>5 DEF BaudFits
  <2>9. OthersKeep /\ ClearsOneWord
    BY <2>3, <2>4 DEF OthersKeep, ClearsOneWord
  <2> QED BY <2>5, <2>6, <2>7, <2>8, <2>9 DEF DevicesInv, UartIsSet
<1>2. CASE set_max_freq
  <2>1. /\ UNCHANGED <<fsel, latch, pull, events, detected, is_enabled, baud>>
        /\ is_turbo' = TRUE /\ late' = (late \/ (is_enabled /\ ~is_turbo)) /\ called' = {}
        /\ is_turbo \in BOOLEAN /\ late \in BOOLEAN /\ is_enabled \in BOOLEAN
        /\ late => is_enabled /\ is_turbo
    BY <1>2 DEF set_max_freq, gpioVars, DevicesInv, UartIsSet, DevicesTypeOK
  <2>2. DevicesTypeOK'
    BY <2>1 DEF DevicesTypeOK, GpioTypeOK, DevicesInv, UartIsSet
  <2>3. UartHasPins'
    BY <2>1 DEF UartHasPins, DevicesInv, UartIsSet
  <2>4. BaudFits'
    <3> SUFFICES ASSUME is_enabled' PROVE (baud' = 433) = ~late'
      BY <2>1 DEF BaudFits
    <3>1. CASE is_turbo
      BY <2>1, <3>1 DEF BaudFits, DevicesInv, UartIsSet
    <3>2. CASE ~is_turbo
      <4>1. baud = 270 /\ late'
        BY <2>1, <3>2 DEF BaudFits, DevicesInv, UartIsSet
      <4> QED BY <2>1, <4>1
    <3> QED BY <3>1, <3>2
  <2>5. OthersKeep /\ ClearsOneWord
    BY <2>1 DEF OthersKeep, ClearsOneWord
  <2> QED BY <2>1, <2>2, <2>3, <2>4, <2>5 DEF DevicesInv, UartIsSet
<1> QED BY <1>1, <1>2

\* A call for a pin changes that pin only, and what it writes to the pins' words is
\* what it has read of the others.
LEMMA PinStepKeeps ==
    ASSUME DevicesInv, NEW pin \in Pins, ForPin(pin) \/ Clears(pin)
    PROVE  DevicesInv' /\ OthersKeep /\ ClearsOneWord
<1>1. /\ GpioTypeOK /\ called' = {pin}
      /\ UNCHANGED <<is_enabled, is_turbo, baud, late>>
  BY DEF DevicesInv, UartIsSet, DevicesTypeOK, ForPin, Clears, uartVars
<1>2. ASSUME GpioTypeOK', ClearsOneWord, OthersKeep,
             \A p \in UartPins :
                 is_enabled => fsel'[p] = fsel[p] /\ pull'[p] = pull[p]
      PROVE  DevicesInv' /\ OthersKeep /\ ClearsOneWord
  <2>1. DevicesTypeOK'
    BY <1>1, <1>2 DEF DevicesTypeOK, DevicesInv, UartIsSet
  <2>2. UartHasPins' /\ BaudFits'
    BY <1>1, <1>2 DEF UartHasPins, BaudFits, DevicesInv, UartIsSet
  <2> QED BY <1>1, <1>2, <2>1, <2>2 DEF DevicesInv, UartIsSet
<1>3. Free(pin) /\ is_enabled => pin \notin UartPins
  BY DEF Free
<1>4. ASSUME NEW f \in Functions, Free(pin), gpio_set_function(pin, f)
      PROVE  DevicesInv' /\ OthersKeep /\ ClearsOneWord
  <2>1. /\ fsel' = [fsel EXCEPT ![pin] = f] /\ f \in SUBSET (0 .. 2)
        /\ UNCHANGED <<latch, pull, events, detected>>
    BY <1>4, DevicesAssumption, SMT DEF gpio_set_function, FunctionSet, FieldCleared
  <2>2. /\ fsel' \in [Pins -> SUBSET (0 .. 2)]
        /\ \A p \in Pins \ {pin} : fsel'[p] = fsel[p]
    BY <1>1, <2>1 DEF GpioTypeOK
  <2>3. GpioTypeOK' /\ ClearsOneWord /\ OthersKeep
    BY <1>1, <2>1, <2>2 DEF GpioTypeOK, ClearsOneWord, OthersKeep
  <2> QED BY <1>2, <1>3, <1>4, <2>1, <2>2, <2>3, DevicesAssumption
<1>5. ASSUME NEW resistor \in {0, 2}, Free(pin), gpio_set_pullupdownoff(pin, resistor)
      PROVE  DevicesInv' /\ OthersKeep /\ ClearsOneWord
  <2>1. pull' = [pull EXCEPT ![pin] = resistor] /\ UNCHANGED <<fsel, latch, events, detected>>
    BY <1>5 DEF gpio_set_pullupdownoff, Pulled
  <2>2. /\ pull' \in [Pins -> 0 .. 2]
        /\ \A p \in Pins \ {pin} : pull'[p] = pull[p]
    BY <1>1, <2>1 DEF GpioTypeOK
  <2>3. GpioTypeOK' /\ ClearsOneWord /\ OthersKeep
    BY <1>1, <2>1, <2>2 DEF GpioTypeOK, ClearsOneWord, OthersKeep
  <2> QED BY <1>2, <1>3, <1>5, <2>1, <2>2, <2>3, DevicesAssumption
<1>6. ASSUME NEW val \in {0, 1}, gpio_write(pin, val)
      PROVE  DevicesInv' /\ OthersKeep /\ ClearsOneWord
  <2>1. /\ latch' = latch \cup {pin} \/ latch' = latch \ {pin}
        /\ UNCHANGED <<fsel, pull, events, detected>>
    BY <1>6 DEF gpio_write, gpio_set_on, gpio_set_off, put_in_register, WriteOnly, One
  <2>2. GpioTypeOK' /\ ClearsOneWord /\ OthersKeep
    BY <1>1, <2>1 DEF GpioTypeOK, ClearsOneWord, OthersKeep
  <2> QED BY <1>2, <2>1, <2>2
<1>7. ASSUME NEW event \in Events, NEW val \in {0, 1}, gpio_event(event, pin, val)
      PROVE  DevicesInv' /\ OthersKeep /\ ClearsOneWord
  <2> DEFINE e == EventRegister(event)
             S == (events[e] \ Word(pin)) \cup put_in_register(events[e], pin, val)
  <2>1. /\ events' = [events EXCEPT ![e] = S] /\ e \in EventRegisters
        /\ UNCHANGED <<fsel, latch, pull, detected>>
    BY <1>7, DevicesAssumption DEF gpio_event
  <2>2. S \in SUBSET Pins /\ \A p \in Pins \ {pin} : p \in S <=> p \in events[e]
    BY <1>1, <2>1, WordIs DEF GpioTypeOK
  <2> HIDE DEF e, S
  <2>3. /\ events' \in [EventRegisters -> SUBSET Pins]
        /\ \A p \in Pins \ {pin}, r \in EventRegisters : (p \in events'[r]) = (p \in events[r])
    BY <1>1, <2>1, <2>2 DEF GpioTypeOK
  <2>4. GpioTypeOK' /\ ClearsOneWord /\ OthersKeep
    BY <1>1, <2>1, <2>3 DEF GpioTypeOK, ClearsOneWord, OthersKeep
  <2> QED BY <1>2, <2>1, <2>4
<1>8. ASSUME Event(pin)
      PROVE  DevicesInv' /\ OthersKeep /\ ClearsOneWord
  <2>1. GpioTypeOK' /\ ClearsOneWord /\ OthersKeep /\ UNCHANGED <<fsel, pull>>
    BY <1>1, <1>8 DEF Event, GpioTypeOK, ClearsOneWord, OthersKeep
  <2> QED BY <1>2, <2>1
<1>9. ASSUME Clears(pin)
      PROVE  DevicesInv' /\ OthersKeep /\ ClearsOneWord
  <2>1. /\ UNCHANGED <<fsel, latch, pull, events>>
        /\ detected' = detected \ put_in_register(detected, pin, 1)
    BY <1>9 DEF Clears, gpio_event_clear
  <2>2. put_in_register(detected, pin, 1) \subseteq Word(pin)
    BY <1>1, WordIs DEF GpioTypeOK
  <2>3. GpioTypeOK' /\ OthersKeep
    BY <1>1, <2>1 DEF GpioTypeOK, OthersKeep
  <2>4. ClearsOneWord
    BY <1>1, <2>1, <2>2 DEF ClearsOneWord, Word
  <2> QED BY <1>2, <2>1, <2>3, <2>4
<1> QED BY <1>4, <1>5, <1>6, <1>7, <1>8, <1>9 DEF ForPin

LEMMA DevicesStep ==
    DevicesInv /\ [DevicesNext]_deviceVars =>
      DevicesInv' /\ [OthersKeep /\ ClearsOneWord]_deviceVars
<1> SUFFICES ASSUME DevicesInv, [DevicesNext]_deviceVars
             PROVE  DevicesInv' /\ [OthersKeep /\ ClearsOneWord]_deviceVars
  OBVIOUS
<1>1. CASE DevicesNext
  BY <1>1, UartStepKeeps, PinStepKeeps DEF DevicesNext
<1>2. CASE UNCHANGED deviceVars
  BY <1>2 DEF deviceVars, gpioVars, uartVars, DevicesInv, UartIsSet, DevicesTypeOK,
              GpioTypeOK, UartHasPins, BaudFits
<1> QED BY <1>1, <1>2

\* Whatever a program does with the pins and the clock before and while the UART
\* runs, the UART has both its pins, without pull resistors, and the divisor for the
\* clock unless the clock went up after uart_init().
THEOREM UartStays == DevicesSpec => []UartIsSet
<1>1. DevicesInv => UartIsSet
  BY DEF DevicesInv
<1> QED BY <1>1, InitDevices, DevicesStep, PTL DEF DevicesSpec

\* A call of gpio.c for one pin leaves the function, resistor, level and events of
\* every other pin as they are, although they share words; and one that clears an
\* event clears none outside its word.
THEOREM PinsStay == DevicesSpec => PinsKeep
BY InitDevices, DevicesStep, PTL DEF DevicesSpec, PinsKeep

--------------------------------------------------------------------------------
(* Quotients and remainders. *)

\* What a remainder is.
LEMMA Remainder ==
    ASSUME NEW v \in Nat, v > 0, NEW a \in Int
    PROVE  /\ a % v \in 0 .. v - 1 /\ a \div v \in Int /\ a = v * (a \div v) + (a % v)
           /\ a \in 0 .. v - 1 => a % v = a
           /\ a \in Nat => a \div v \in Nat
OBVIOUS

\* v times something that is not 0 is at least v away from 0.
LEMMA NoMultiple ==
    ASSUME NEW v \in Nat, v > 0, NEW q \in Int, q # 0
    PROVE  v * q >= v \/ v * q <= -v
<1>1. CASE q >= 1
  BY <1>1, SMTT(30)
<1>2. CASE q <= -1
  BY <1>2, SMTT(30)
<1> QED BY <1>1, <1>2

LEMMA Factors ==
    ASSUME NEW v \in Nat, NEW a \in Int, NEW b \in Int
    PROVE  v * a - v * b = v * (a - b)
OBVIOUS

\* A number in range that differs from another by a multiple of v is its remainder.
LEMMA RemainderIs ==
    ASSUME NEW v \in Nat, v > 0, NEW a \in Int, NEW b \in 0 .. v - 1,
           NEW q \in Int, a = v * q + b
    PROVE  a % v = b
<1> DEFINE r == a % v
           m == a \div v
<1>1. r \in 0 .. v - 1 /\ m \in Int /\ a = v * m + r
  BY Remainder
<1> HIDE DEF r, m
<1>2. v * q - v * m = v * (q - m) /\ v * (q - m) \in Int /\ q - m \in Int
  BY <1>1, Factors
<1>3. v * (q - m) = r - b
  <2>1. v * q \in Int /\ v * m \in Int
    BY <1>1
  <2> QED BY <1>1, <1>2, <2>1
<1>4. CASE q - m # 0
  BY <1>1, <1>2, <1>3, <1>4, NoMultiple
<1>5. CASE q - m = 0
  BY <1>1, <1>3, <1>5
<1> QED BY <1>4, <1>5 DEF r

\* Products grow.
LEMMA Monotone ==
    ASSUME NEW v \in Nat, NEW a \in Int, NEW b \in Int, a <= b
    PROVE  v * a \in Int /\ v * b \in Int /\ v * a <= v * b
<1>1. v * (b - a) >= 0
  <2>1. b - a \in Nat
    OBVIOUS
  <2> QED BY <2>1, SMTT(30)
<1>2. v * b - v * a = v * (b - a)
  BY Factors
<1>3. v * a \in Int /\ v * b \in Int
  OBVIOUS
<1> QED BY <1>1, <1>2, <1>3

\* Quotients grow with what is divided.
LEMMA QuotientGrows ==
    ASSUME NEW v \in Nat, v > 0, NEW a \in Nat, NEW b \in Nat, a <= b
    PROVE  a \div v \in Nat /\ b \div v \in Nat /\ a \div v <= b \div v
<1> DEFINE p == a \div v
           q == b \div v
<1>1. /\ p \in Nat /\ a % v \in 0 .. v - 1 /\ a = v * p + (a % v)
      /\ q \in Nat /\ b % v \in 0 .. v - 1 /\ b = v * q + (b % v)
  BY Remainder
<1> HIDE DEF p, q
<1>2. ASSUME p > q PROVE FALSE
  <2>1. v * (q + 1) <= v * p
    BY <1>1, <1>2, Monotone
  <2>2. v * (q + 1) = v * q + v /\ v * q \in Nat /\ v * p \in Nat
    BY <1>1
  <2> QED BY <1>1, <2>1, <2>2
<1> QED BY <1>1, <1>2 DEF p, q

\* The quotient of a multiple.
LEMMA QuotientIs ==
    ASSUME NEW v \in Nat, v > 0, NEW b \in Nat
    PROVE  (b * v) \div v = b /\ b * v \in Nat
<1> DEFINE q == (b * v) \div v
<1>1. b * v \in Nat /\ b * v = v * b
  OBVIOUS
<1>2. q \in Nat /\ (b * v) % v \in 0 .. v - 1 /\ b * v = v * q + ((b * v) % v)
  BY <1>1, Remainder
<1> HIDE DEF q
<1>3. v * b - v * q = v * (b - q)
  BY <1>2, Factors
<1>4. b - q # 0 => v * (b - q) >= v \/ v * (b - q) <= -v
  BY <1>2, NoMultiple
<1>5. v * q \in Nat /\ v * b \in Nat
  BY <1>2
<1> QED BY <1>1, <1>2, <1>3, <1>4, <1>5 DEF q

\* A quotient and a remainder belong together.
LEMMA Division ==
    ASSUME NEW v \in Nat, v > 0, NEW q \in Nat, NEW b \in 0 .. v - 1
    PROVE  (v * q + b) \div v = q /\ (v * q + b) % v = b /\ v * q + b \in Nat
<1> DEFINE a == v * q + b
           m == a \div v
           r == a % v
<1>0. a \in Nat /\ v * q \in Nat
  OBVIOUS
<1>1. m \in Nat /\ r \in 0 .. v - 1 /\ a = v * m + r
  <2> HIDE DEF a
  <2> QED BY <1>0, Remainder
<1>2. a = v * q + b
  OBVIOUS
<1> HIDE DEF a, m, r
<1>3. v * m - v * q = v * (m - q) /\ v * m \in Int /\ m - q \in Int /\ v * (m - q) \in Int
  BY <1>1, Factors
<1>4. m - q = 0
  <2> SUFFICES ASSUME m - q # 0 PROVE FALSE
    OBVIOUS
  <2>1. v * (m - q) >= v \/ v * (m - q) <= -v
    BY <1>3, NoMultiple
  <2> QED BY <1>0, <1>1, <1>2, <1>3, <2>1
<1>5. m = q /\ r = b
  <2>1. m = q
    BY <1>1, <1>4
  <2> QED BY <1>0, <1>1, <1>2, <2>1
<1> QED BY <1>0, <1>5 DEF a, m, r

\* A quotient is bounded by what bounds the number.
LEMMA Quotient ==
    ASSUME NEW v \in Nat, v > 0, NEW n \in Nat, NEW a \in 0 .. v * n - 1
    PROVE  a \div v \in 0 .. n - 1 /\ a % v \in 0 .. v - 1 /\ a = v * (a \div v) + (a % v)
<1> DEFINE m == a \div v
<1>0. v * n \in Nat /\ a \in Nat
  OBVIOUS
<1>1. m \in Nat /\ a % v \in 0 .. v - 1 /\ a = v * m + (a % v)
  BY <1>0, Remainder
<1> HIDE DEF m
<1>2. ASSUME m >= n PROVE FALSE
  <2>1. v * n <= v * m /\ v * m \in Int
    BY <1>1, <1>2, Monotone
  <2> QED BY <1>0, <1>1, <2>1
<1> QED BY <1>1, <1>2 DEF m

\* And the number by what bounds the quotient.
LEMMA Composed ==
    ASSUME NEW v \in Nat, v > 0, NEW n \in Nat, NEW q \in 0 .. n - 1, NEW b \in 0 .. v - 1
    PROVE  v * q + b \in 0 .. v * n - 1
<1>1. v * (q + 1) <= v * n /\ v * n \in Int
  BY Monotone
<1>2. v * (q + 1) = v * q + v /\ v * q \in Nat
  OBVIOUS
<1> QED BY <1>1, <1>2

--------------------------------------------------------------------------------
(* Waiting. *)

\* The counter that has gone on by d from any value shows d again, without its rounds.
LEMMA PassedIs ==
    ASSUME NEW start \in 0 .. Ticks - 1, NEW d \in Nat
    PROVE  Passed((start + d) % Ticks, start) = d % Ticks
<1>0. Ticks \in Nat /\ Ticks > 0
  BY TicksAssumption
<1> DEFINE r == (start + d) % Ticks
           q == (start + d) \div Ticks
           s == d % Ticks
           m == d \div Ticks
<1>1. r \in Int /\ q \in Int /\ start + d = Ticks * q + r
  BY <1>0, Remainder
<1>2. s \in 0 .. Ticks - 1 /\ m \in Int /\ d = Ticks * m + s
  BY <1>0, Remainder
<1> HIDE DEF r, q, s, m
<1>3. r - start = Ticks * (m - q) + s
  <2>1. Ticks * m - Ticks * q = Ticks * (m - q)
    BY <1>0, <1>1, <1>2, Factors
  <2>2. Ticks * m \in Int /\ Ticks * q \in Int /\ start \in Int
    BY <1>0, <1>1, <1>2
  <2> QED BY <1>1, <1>2, <2>1, <2>2
<1>4. (r - start) % Ticks = s
  <2>1. r - start \in Int /\ m - q \in Int
    BY <1>0, <1>1, <1>2
  <2> QED BY <1>0, <1>2, <1>3, <2>1, RemainderIs
<1> QED BY <1>4 DEF Passed, r, s

\* Whatever the count of the timer, a delay ends after the time asked for and at most
\* one poll later, when it is shorter than a round of the timer by a poll.
LEMMA WaitIs ==
    ASSUME NEW us \in Nat, NEW start \in 0 .. Ticks - 1, NEW gap \in Nat \ {0},
           us + gap <= Ticks
    PROVE  delay_us(us, start, gap) \in us .. us + gap
<1> DEFINE seen == {k \in 1 .. Ticks : Passed((start + k * gap) % Ticks, start) >= us}
           q == (us - 1) \div gap
           k0 == IF us = 0 THEN 1 ELSE q + 1
<1>0. Ticks \in Nat /\ Ticks > 0 /\ us \in Int /\ gap \in Nat /\ gap > 0
  BY TicksAssumption
<1>1. \A k \in Nat : k * gap \in Nat /\ gap * k = k * gap
                     /\ Passed((start + k * gap) % Ticks, start) = (k * gap) % Ticks
  BY <1>0, PassedIs
<1>2. us # 0 => q \in Nat /\ gap * q <= us - 1 /\ us - 1 < gap * q + gap /\ gap * q \in Nat
  <2> SUFFICES ASSUME us # 0
               PROVE  q \in Nat /\ gap * q <= us - 1 /\ us - 1 < gap * q + gap /\ gap * q \in Nat
    OBVIOUS
  <2>1. us - 1 \in Nat
    OBVIOUS
  <2>2. /\ (us - 1) % gap \in 0 .. gap - 1 /\ q \in Nat
        /\ us - 1 = gap * q + ((us - 1) % gap)
    BY <1>0, <2>1, Remainder
  <2> HIDE DEF q
  <2>3. gap * q \in Nat
    BY <1>0, <2>2
  <2> QED BY <1>0, <2>1, <2>2, <2>3
<1>3. /\ k0 \in Nat /\ k0 >= 1 /\ gap * k0 \in us .. us + gap
      /\ \A j \in 1 .. k0 - 1 : gap * j < us
  <2>1. CASE us = 0
    BY <1>0, <2>1
  <2>2. CASE us # 0
    <3>1. k0 = q + 1 /\ q \in Nat
      BY <1>2, <2>2
    <3> HIDE DEF k0, q
    <3>2. gap * (q + 1) = gap * q + gap
      BY <1>0, <3>1
    <3>3. \A j \in 1 .. k0 - 1 : gap * j <= gap * q /\ gap * j \in Int
      BY <1>0, <3>1, Monotone
    <3> QED BY <1>0, <1>2, <2>2, <3>1, <3>2, <3>3
  <2> QED BY <2>1, <2>2
<1> HIDE DEF k0, q
<1>4. k0 \in seen
  <2>1. k0 <= Ticks
    <3>1. k0 * 1 <= k0 * gap
      BY <1>0, <1>3, Monotone
    <3>2. k0 * gap <= Ticks
      BY <1>0, <1>1, <1>3
    <3> QED BY <1>0, <1>1, <1>3, <3>1, <3>2
  <2>2. (gap * k0) % Ticks >= us
    <3>1. CASE gap * k0 < Ticks
      <4>1. gap * k0 \in 0 .. Ticks - 1
        BY <1>0, <1>3, <3>1
      <4>2. (gap * k0) % Ticks = gap * k0
        BY <1>0, <4>1, Remainder
      <4> QED BY <1>3, <4>2
    <3>2. CASE gap * k0 >= Ticks
      <4>1. gap * k0 = Ticks
        BY <1>0, <1>3, <3>2
      <4>2. us = 0
        <5>1. ASSUME us # 0 PROVE FALSE
          <6>1. gap * k0 < us + gap
            <7>1. k0 = q + 1 /\ gap * q <= us - 1 /\ q \in Nat /\ gap * q \in Nat
              BY <1>2, <5>1 DEF k0
            <7>2. gap * (q + 1) = gap * q + gap
              BY <1>0, <7>1
            <7> QED BY <1>0, <7>1, <7>2
          <6> QED BY <1>0, <4>1, <6>1
        <5> QED BY <5>1
      <4>3. Ticks % Ticks = 0
        BY <1>0, RemainderIs
      <4> QED BY <4>1, <4>2, <4>3
    <3> QED BY <1>0, <1>3, <3>1, <3>2
  <2> QED BY <1>1, <1>3, <2>1, <2>2
<1>5. \A j \in seen : k0 <= j
  <2> SUFFICES ASSUME NEW j \in seen, j < k0 PROVE FALSE
    BY <1>0, <1>3
  <2>1. j \in Nat /\ j \in 1 .. k0 - 1
    BY <1>0, <1>3
  <2>2. gap * j < us /\ j * gap = gap * j /\ gap * j \in 0 .. Ticks - 1
    BY <1>0, <1>1, <1>3, <2>1
  <2>3. (j * gap) % Ticks = gap * j
    BY <1>0, <2>2, Remainder
  <2>4. (j * gap) % Ticks >= us
    BY <1>1, <2>1
  <2> QED BY <1>0, <2>2, <2>3, <2>4
<1>6. seen \subseteq Nat
  BY <1>0
<1> HIDE DEF seen
<1>7. (CHOOSE k \in seen : \A j \in seen : k <= j) = k0
  <2> DEFINE c == CHOOSE k \in seen : \A j \in seen : k <= j
  <2>1. c \in seen /\ \A j \in seen : c <= j
    BY <1>4, <1>5
  <2> HIDE DEF c
  <2>2. c <= k0 /\ k0 <= c /\ c \in Nat
    BY <1>4, <1>5, <1>6, <2>1
  <2>3. c = k0
    BY <1>3, <2>2
  <2> QED BY <2>3 DEF c
<1>8. delay_us(us, start, gap) = gap * k0
  <2>1. seen # {}
    BY <1>4
  <2> QED BY <1>7, <2>1 DEF delay_us, Polled, seen
<1> QED BY <1>3, <1>8

\* The delays of timer.c and reboot.c end in time, for every count of the timer, every
\* time asked for and every distance of the polls; delay_ms() only below the number of
\* milliseconds whose microseconds fit the timer.
THEOREM DelaysEnd ==
    ASSUME NEW us \in Nat, NEW start \in 0 .. Ticks - 1, NEW gap \in Nat \ {0}
    PROVE  WaitsAsLong(us, start, gap) /\ MillisCutOff(us, start, gap)
<1>0. Ticks \in Nat /\ Ticks > 0 /\ gap \in Nat /\ gap > 0 /\ PerMs \in Nat /\ us * PerMs \in Nat
  BY TicksAssumption
<1>1. WaitsAsLong(us, start, gap)
  BY WaitIs DEF WaitsAsLong
<1>2. Micros(us) \in 0 .. Ticks - 1 /\ (us * PerMs < Ticks => Micros(us) = us * PerMs)
  BY <1>0, Remainder DEF Micros
<1>3. us * PerMs + gap <= Ticks => delay_ms(us, start, gap) \in us * PerMs .. us * PerMs + gap
  <2> SUFFICES ASSUME us * PerMs + gap <= Ticks
               PROVE  delay_ms(us, start, gap) \in us * PerMs .. us * PerMs + gap
    OBVIOUS
  <2>1. Micros(us) = us * PerMs
    BY <1>0, <1>2
  <2> QED BY <1>0, <2>1, WaitIs DEF delay_ms
<1>4. us * PerMs >= Ticks + gap /\ gap = 1 => delay_ms(us, start, gap) < us * PerMs
  <2> SUFFICES ASSUME us * PerMs >= Ticks + gap, gap = 1
               PROVE  delay_ms(us, start, gap) < us * PerMs
    OBVIOUS
  <2>1. Micros(us) \in Nat /\ Micros(us) + gap <= Ticks
    BY <1>0, <1>2
  <2>2. delay_us(Micros(us), start, gap) \in Micros(us) .. Micros(us) + gap
    BY <2>1, WaitIs
  <2> QED BY <1>0, <2>1, <2>2 DEF delay_ms
<1> QED BY <1>1, <1>3, <1>4 DEF MillisCutOff

\* delay_core_timer() waits for more than the part of a second asked for, and not for
\* more than it by a poll.
THEOREM CoreDelayEnds ==
    ASSUME NEW f \in Nat, NEW divisor \in Nat \ {0}, NEW gap \in Nat \ {0}
    PROVE  CorePart(f, divisor, gap)
<1> DEFINE u == f \div divisor
           k == u \div gap
<1>1. u \in Nat /\ f % divisor \in 0 .. divisor - 1 /\ f = divisor * u + (f % divisor)
  BY Remainder
<1>2. k \in Nat /\ u % gap \in 0 .. gap - 1 /\ u = gap * k + (u % gap)
  <2> HIDE DEF u
  <2> QED BY <1>1, Remainder
<1>3. delay_core_timer(f, divisor, gap) = gap * (k + 1)
  BY DEF delay_core_timer, Quota
<1> HIDE DEF u, k
<1>4. gap * (k + 1) = gap * k + gap /\ gap * k \in Nat
  BY <1>2
<1>5. gap * (k + 1) >= u + 1 /\ gap * k <= u
  BY <1>2, <1>4
<1>6. divisor * (u + 1) <= divisor * (gap * (k + 1)) /\ divisor * (gap * k) <= divisor * u
  BY <1>1, <1>4, <1>5, Monotone
<1>7. divisor * (u + 1) = divisor * u + divisor /\ divisor * u \in Nat
  BY <1>1
<1>8. /\ (gap * (k + 1)) * divisor = divisor * (gap * (k + 1))
      /\ (gap * k) * divisor = divisor * (gap * k)
      /\ divisor * (gap * (k + 1)) \in Int /\ divisor * (gap * k) \in Int
  <2> DEFINE a == gap * (k + 1)
             b == gap * k
  <2>1. a \in Int /\ b \in Int
    BY <1>2
  <2> HIDE DEF a, b
  <2>2. a * divisor = divisor * a /\ b * divisor = divisor * b
        /\ divisor * a \in Int /\ divisor * b \in Int
    BY <2>1
  <2> QED BY <2>2 DEF a, b
<1>9. (gap * (k + 1)) * divisor > f - 1
  BY <1>1, <1>6, <1>7, <1>8
<1>10. (gap * k) * divisor <= f
  BY <1>1, <1>6, <1>7, <1>8
<1>11. gap * (k + 1) - gap = gap * k
  BY <1>4
<1> QED BY <1>3, <1>9, <1>10, <1>11 DEF CorePart

--------------------------------------------------------------------------------
(* The map of the addresses. *)

\* The walk through both tables finds the entry of the block of the address.
LEMMA WalkFinds ==
    ASSUME NEW vc \in Nat, NEW page \in Nat, page \div Pages \in Reach
    PROVE  Translated(vc, page) = populate_tables(vc)[page \div Pages]
<1> DEFINE b == page \div Pages
<1>1. b \in 0 .. 1023
  BY DEF Reach, PerGB
<1> HIDE DEF b
<1>2. b \div 512 \in 0 .. 1 /\ (b \div 512) * 512 + (b % 512) = b
  BY <1>1
<1>3. L1_table[b \div 512] = (b \div 512) * 512
  BY <1>2 DEF L1_table, PerGB
<1> QED BY <1>2, <1>3 DEF Translated, PerGB, b

\* What the entry of a block holds.
LEMMA EntryIs ==
    ASSUME NEW vc \in Nat, VcBlock(vc) <= Mmio, NEW b \in Reach
    PROVE  /\ VcBlock(vc) \in Nat
           /\ b > PerGB => populate_tables(vc)[b] = Fault
           /\ b <= PerGB =>
                populate_tables(vc)[b] =
                  Block(b, IF b < VcBlock(vc) THEN Normal
                           ELSE IF b < Mmio THEN Uncached ELSE Device)
<1>1. Pages \in Nat /\ Pages > 0
  BY PagesAssumption
<1>2. VcBlock(vc) \in Nat
  BY <1>1, Remainder DEF VcBlock
<1>3. b \in 0 .. 1023 /\ VcBlock(vc) <= 504
  BY DEF Reach, PerGB, Mmio
<1> DEFINE k == VcBlock(vc)
<1>4. populate_tables(vc)[b] =
        CASE b < k -> Block(b, Normal)
          [] b >= k /\ b < 504 -> Block(b, Uncached)
          [] b >= k /\ b >= 504 /\ b <= 512 -> Block(b, Device)
          [] OTHER -> Fault
  BY DEF populate_tables, Mmio, PerGB, LastMapped
<1> HIDE DEF k
<1>5. CASE b < k
  BY <1>2, <1>3, <1>4, <1>5 DEF k, PerGB
<1>6. CASE ~(b < k) /\ b < 504
  BY <1>2, <1>3, <1>4, <1>6 DEF k, PerGB, Mmio
<1>7. CASE ~(b < k) /\ ~(b < 504) /\ b <= 512
  BY <1>2, <1>3, <1>4, <1>7 DEF k, PerGB, Mmio
<1>8. CASE b > 512
  BY <1>2, <1>3, <1>4, <1>8 DEF k, PerGB
<1> QED BY <1>3, <1>5, <1>6, <1>7, <1>8

\* Wherever below the peripherals the memory of the VideoCore starts, and in blocks
\* of any size, all addresses up to the core registers are mapped to themselves, and
\* neither what the VideoCore writes nor a device register is ever cached.
THEOREM MapIsRight ==
    ASSUME NEW vc \in Nat, vc <= Mmio * Pages
    PROVE  Identity(vc) /\ VcUncached(vc) /\ DevicesOrdered(vc)
<1>0. Pages \in Nat /\ Pages > 0
  BY PagesAssumption
<1>1. VcBlock(vc) \in Nat /\ VcBlock(vc) <= Mmio
  <2>1. vc \div Pages <= (504 * Pages) \div Pages
    BY <1>0, QuotientGrows DEF Mmio, PerGB
  <2> QED BY <1>0, <2>1, QuotientIs, QuotientGrows DEF VcBlock, Mmio, PerGB
<1>2. ASSUME NEW b \in Reach
      PROVE  Translated(vc, b * Pages) = populate_tables(vc)[b]
  <2>1. b \in Nat
    BY DEF Reach, PerGB
  <2>2. (b * Pages) \div Pages = b /\ b * Pages \in Nat
    BY <1>0, <2>1, QuotientIs
  <2> QED BY <2>2, WalkFinds
<1>3. Identity(vc)
  <2> SUFFICES ASSUME NEW b \in Reach
               PROVE  LET w == Translated(vc, b * Pages)
                      IN  IF b <= PerGB THEN w # Fault /\ w.base = b ELSE w = Fault
    BY DEF Identity
  <2> DEFINE t == IF b < VcBlock(vc) THEN Normal ELSE IF b < Mmio THEN Uncached ELSE Device
  <2>1. CASE b <= PerGB
    <3>1. Translated(vc, b * Pages) = Block(b, t)
      BY <1>1, <1>2, <2>1, EntryIs
    <3>2. t # "fault"
      BY DEF Normal, Uncached, Device
    <3> HIDE DEF t
    <3>3. Block(b, t).base = b /\ Block(b, t).type = t /\ Fault.type = "fault"
      BY DEF Block, Fault
    <3>4. Block(b, t) # Fault
      BY <3>2, <3>3
    <3> QED BY <2>1, <3>1, <3>3, <3>4
  <2>2. CASE ~(b <= PerGB)
    <3>1. b > PerGB
      BY <2>2 DEF Reach, PerGB
    <3> QED BY <1>1, <1>2, <2>2, <3>1, EntryIs
  <2> QED BY <2>1, <2>2
<1>4. VcUncached(vc)
  <2> SUFFICES ASSUME NEW p \in {q \in vc - Pages .. vc + Pages : q >= 0} \cup
                                  {b * Pages : b \in VcBlock(vc) .. PerGB},
                      p >= vc
               PROVE  Translated(vc, p).type # Normal
    BY DEF VcUncached
  <2>1. p \in Nat /\ p <= 513 * Pages
    <3>1. CASE p \in vc - Pages .. vc + Pages /\ p >= 0
      BY <1>0, <3>1 DEF Mmio, PerGB
    <3>2. ASSUME NEW b \in VcBlock(vc) .. PerGB, p = b * Pages PROVE p \in Nat /\ p <= 513 * Pages
      <4>1. b \in Nat /\ b <= 513
        BY <1>1 DEF PerGB
      <4>2. Pages * b <= Pages * 513 /\ Pages * b = b * Pages
        BY <1>0, <4>1, Monotone
      <4> QED BY <1>0, <3>2, <4>1, <4>2
    <3> QED BY <3>1, <3>2
  <2>2. /\ p \div Pages \in Nat /\ VcBlock(vc) <= p \div Pages
        /\ p \div Pages <= (513 * Pages) \div Pages
    BY <1>0, <2>1, QuotientGrows DEF VcBlock
  <2>3. p \div Pages <= 513
    BY <1>0, <2>2, QuotientIs
  <2> DEFINE b == p \div Pages
  <2>4. b \in Reach /\ ~(b < VcBlock(vc))
    BY <1>1, <2>2, <2>3 DEF Reach, PerGB
  <2>5. Translated(vc, p) = populate_tables(vc)[b]
    BY <2>1, <2>4, WalkFinds
  <2> HIDE DEF b
  <2>6. CASE b <= PerGB
    <3> DEFINE t == IF b < Mmio THEN Uncached ELSE Device
    <3>1. Translated(vc, p) = Block(b, t)
      BY <1>1, <2>4, <2>5, <2>6, EntryIs
    <3>2. t # Normal
      BY DEF Normal, Uncached, Device
    <3> HIDE DEF t
    <3> QED BY <3>1, <3>2 DEF Block
  <2>7. CASE b > PerGB
    BY <1>1, <2>4, <2>5, <2>7, EntryIs DEF Fault, Normal
  <2>8. b \in Int
    BY <2>4 DEF Reach
  <2> QED BY <2>6, <2>7, <2>8 DEF PerGB
<1>5. DevicesOrdered(vc)
  <2> SUFFICES ASSUME NEW b \in Mmio .. PerGB PROVE Translated(vc, b * Pages).type = Device
    BY DEF DevicesOrdered
  <2>1. b \in Reach /\ b <= PerGB /\ ~(b < VcBlock(vc)) /\ ~(b < Mmio)
    BY <1>1 DEF Reach, PerGB, Mmio
  <2>2. Translated(vc, b * Pages) = Block(b, Device)
    BY <1>1, <1>2, <2>1, EntryIs
  <2> QED BY <2>2 DEF Block
<1> QED BY <1>3, <1>4, <1>5

--------------------------------------------------------------------------------
(* From power on. *)

\* Where the linker script puts the stacks and the heap.
LEMMA StacksAre ==
    ASSUME NEW b \in Nat
    PROVE  \E s \in Nat :
             /\ s >= b /\ s % 16 = 0
             /\ \A c \in CoreNumbers : StackOf(b, c) = s + (c + 1) * StackBytes
             /\ heap_start(b) >= s + 4 * StackBytes
<1>1. StackBytes \in Nat /\ StackBytes > 0
  BY StackAssumption
<1> DEFINE s == 16 * ((b + 15) \div 16)
<1>2. s \in Nat /\ s >= b /\ s % 16 = 0
  OBVIOUS
<1>3. \A c \in CoreNumbers : stack_end(b, c) = s + (c + 1) * StackBytes
  <2> SUFFICES ASSUME NEW c \in CoreNumbers PROVE stack_end(b, c) = s + (c + 1) * StackBytes
    OBVIOUS
  <2>1. stack_end(b, c) = s + c * StackBytes + StackBytes
    BY DEF stack_end, stack_start
  <2>2. c \in 0 .. 3
    BY DEF CoreNumbers
  <2> HIDE DEF s
  <2> QED BY <1>1, <1>2, <2>1, <2>2
<1>4. \A c \in CoreNumbers : StackOf(b, c) = stack_end(b, c)
  BY DEF StackOf, CoreNumbers
<1>5. heap_start(b) >= stack_end(b, 3)
  <2>1. stack_end(b, 3) \in Nat
    <3>1. stack_end(b, 3) = s + 4 * StackBytes
      BY <1>3 DEF CoreNumbers
    <3> HIDE DEF s
    <3> QED BY <1>1, <1>2, <3>1
  <2> QED BY <2>1 DEF heap_start, Page
<1>6. stack_end(b, 3) = s + 4 * StackBytes
  BY <1>3 DEF CoreNumbers
<1> HIDE DEF s
<1> QED BY <1>2, <1>3, <1>4, <1>5, <1>6

\* What start.s has set when a core that starts above EL1 leaves it.
LEMMA BootIs ==
    ASSUME NEW b \in Nat, NEW c \in CoreNumbers, NEW el \in 2 .. 3
    PROVE  /\ Boot(b, c, el).el = 1 /\ Boot(b, c, el).aarch64 /\ Boot(b, c, el).fp
           /\ Boot(b, c, el).vbar = "vectors" /\ Boot(b, c, el).sp = StackOf(b, c)
<1> DEFINE m0 == Powered(c, el)
           m1 == [m0 EXCEPT !.sp = StackOf(b, c)]
           m2 == [m1 EXCEPT !.el = 2]
<1>1. SetStack(b, m0) = m1 /\ m1.at = "_start" /\ m1.el = el
  BY DEF SetStack, Powered
<1>2. (FromEL3(m1) = m1 /\ m1.el = 2) \/ (FromEL3(m1) = m2 /\ m2.el = 2)
  BY <1>1 DEF FromEL3
<1> DEFINE Final(m) == [m EXCEPT !.timer = "free", !.aarch64 = TRUE,
                                !.sctlr = {11, 20, 22, 23, 28, 29},
                                !.vbar = "vectors", !.fp = TRUE, !.el = 1]
           at == IF c = 0 THEN "6" ELSE "start_sleep"
<1>3. FromEL2(m1) = Final(m1) \/ m1.el = 1
  BY DEF FromEL2
<1>4. FromEL2(m2) = Final(m2)
  BY DEF FromEL2, Powered
<1>5. Boot(b, c, el) = [FromEL2(FromEL3(m1)) EXCEPT !.at = at]
  BY <1>1 DEF Boot
<1>6. \/ Boot(b, c, el) = [Final(m1) EXCEPT !.at = at]
      \/ Boot(b, c, el) = [Final(m2) EXCEPT !.at = at]
  <2>1. FromEL2(FromEL3(m1)) = Final(m1) \/ FromEL2(FromEL3(m1)) = Final(m2)
    <3>1. CASE FromEL3(m1) = m1 /\ m1.el = 2
      <4>1. m1.el # 1
        BY <3>1
      <4> HIDE DEF Final, m1, m2
      <4> QED BY <1>3, <3>1, <4>1
    <3>2. CASE FromEL3(m1) = m2
      <4> HIDE DEF Final, m1, m2
      <4> QED BY <1>4, <3>2
    <3> QED BY <1>2, <3>1, <3>2
  <2> HIDE DEF Final, m1, m2, at
  <2> QED BY <1>5, <2>1
<1> QED BY <1>6 DEF Powered

\* start.s for variables of any size and stacks of any size: the cores that start
\* above EL1 arrive in EL1, each with a stack of its own between the variables and the
\* heap; the loop that clears the variables writes nothing else, and clears all of
\* them if they fill whole words.
THEOREM CoresStart ==
    ASSUME NEW b \in Nat, NEW el \in 1 .. 3
    PROVE  CoresArrive(b, el) /\ ClearsWords(b)
<1>0. StackBytes \in Nat /\ StackBytes > 0 /\ StackBytes % 16 = 0
  BY StackAssumption
<1>1. CoresArrive(b, el)
  <2>1. CASE el = 1
    BY <2>1 DEF CoresArrive
  <2>2. CASE el # 1
    <3>0. el \in 2 .. 3
      BY <2>2
    <3> PICK s \in Nat : /\ s >= b /\ s % 16 = 0
                         /\ \A c \in CoreNumbers : StackOf(b, c) = s + (c + 1) * StackBytes
                         /\ heap_start(b) >= s + 4 * StackBytes
      BY StacksAre
    <3>1. \A c \in CoreNumbers : Boot(b, c, el).sp = s + (c + 1) * StackBytes
      BY <3>0, BootIs
    <3>2. \A c \in CoreNumbers : Boot(b, c, el).sp \in Nat
      BY <1>0, <3>1 DEF CoreNumbers
    <3>3. ASSUME NEW c \in CoreNumbers, NEW d \in CoreNumbers \ {c}
          PROVE  Bytes(Boot(b, c, el).sp - StackBytes, Boot(b, c, el).sp)
                   \cap Bytes(Boot(b, d, el).sp - StackBytes, Boot(b, d, el).sp) = {}
      <4> DEFINE x == Boot(b, c, el).sp
                 y == Boot(b, d, el).sp
      <4>1. x = s + (c + 1) * StackBytes /\ y = s + (d + 1) * StackBytes
        BY <3>1
      <4>2. x \in Nat /\ y \in Nat /\ c \in 0 .. 3 /\ d \in 0 .. 3 /\ c # d
        BY <3>2 DEF CoreNumbers
      <4> HIDE DEF x, y
      <4>3. x <= y - StackBytes \/ y <= x - StackBytes
        BY <1>0, <4>1, <4>2
      <4>4. Bytes(x - StackBytes, x) \cap Bytes(y - StackBytes, y) = {}
        BY <1>0, <4>2, <4>3 DEF Bytes
      <4> QED BY <4>4 DEF x, y
    <3>4. ASSUME NEW c \in CoreNumbers
          PROVE  /\ Boot(b, c, el).sp - StackBytes >= b
                 /\ Boot(b, c, el).sp <= heap_start(b)
                 /\ Boot(b, c, el).sp % 16 = 0
      <4> DEFINE x == Boot(b, c, el).sp
      <4>1. x = s + (c + 1) * StackBytes /\ x \in Nat /\ c \in 0 .. 3
        BY <3>1, <3>2 DEF CoreNumbers
      <4>2. heap_start(b) \in Int
        BY <1>0, StacksAre DEF heap_start, stack_end, stack_start, Page
      <4> HIDE DEF x
      <4>3. x - StackBytes >= b /\ x <= heap_start(b)
        BY <1>0, <4>1, <4>2
      <4>4. x % 16 = 0
        BY <1>0, <4>1
      <4> QED BY <4>3, <4>4 DEF x
    <3> QED BY <2>2, <3>0, <3>3, <3>4, BootIs DEF CoresArrive
  <2> QED BY <2>1, <2>2
<1>2. ClearsWords(b)
  <2>1. b \div 8 \in Nat /\ b = 8 * (b \div 8) + (b % 8) /\ b % 8 \in 0 .. 7
    OBVIOUS
  <2>2. Cleared(b) \subseteq Bytes(0, b)
    BY <2>1 DEF Cleared, Bytes, bss_words
  <2>3. b % 8 = 0 => Cleared(b) = Bytes(0, b)
    BY <2>1 DEF Cleared, Bytes, bss_words
  <2>4. b >= 8 => Wakes(b) = CoreNumbers \ {0}
    BY <2>1 DEF Wakes, bss_words
  <2> QED BY <2>2, <2>3, <2>4 DEF ClearsWords
<1> QED BY <1>1, <1>2

--------------------------------------------------------------------------------
(* The picture. *)

\* The passes counted for a pixel after k of them.
Least3(out, k) ==
    [p \in 1 .. 4 |-> IF out[p] <= k /\ out[p] <= iterations THEN out[p]
                      ELSE IF k <= iterations THEN k ELSE iterations]

\* One pass.
Pass(out, k, n) ==
    LET mask0 == {p \in 1 .. 4 : out[p] >= k}
        mask1 == {p \in mask0 : n[p] < iterations}
    IN  IF mask0 = {} THEN n ELSE [p \in 1 .. 4 |-> IF p \in mask1 THEN n[p] + 1 ELSE n[p]]

Zeros == [p \in 1 .. 4 |-> 0]

LEMMA PassIs ==
    ASSUME NEW out \in [1 .. 4 -> Nat], NEW k \in Nat \ {0}
    PROVE  Pass(out, k, Least3(out, k - 1)) = Least3(out, k) /\ Least3(out, 0) = Zeros
<1> DEFINE n == Least3(out, k - 1)
           mask0 == {p \in 1 .. 4 : out[p] >= k}
           mask1 == {p \in mask0 : n[p] < iterations}
           m == Least3(out, k)
<1>0. iterations \in Nat /\ iterations > 0 /\ k - 1 \in Nat /\ \A p \in 1 .. 4 : out[p] \in Nat
  BY FractalAssumption
<1>1. \A p \in 1 .. 4 :
        /\ n[p] = IF out[p] <= k - 1 /\ out[p] <= iterations THEN out[p]
                  ELSE IF k - 1 <= iterations THEN k - 1 ELSE iterations
        /\ m[p] = IF out[p] <= k /\ out[p] <= iterations THEN out[p]
                  ELSE IF k <= iterations THEN k ELSE iterations
  BY DEF Least3
<1>2. n = [p \in 1 .. 4 |-> n[p]] /\ m = [p \in 1 .. 4 |-> m[p]]
  BY DEF Least3
<1>3. Pass(out, k, n) = IF mask0 = {} THEN n
                        ELSE [p \in 1 .. 4 |-> IF p \in mask1 THEN n[p] + 1 ELSE n[p]]
  BY DEF Pass
<1>4. Least3(out, 0) = Zeros
  BY <1>0 DEF Least3, Zeros
<1> HIDE DEF n, m
<1>5. \A p \in 1 .. 4 : m[p] = IF p \in mask1 THEN n[p] + 1 ELSE n[p]
  <2> SUFFICES ASSUME NEW p \in 1 .. 4
               PROVE  m[p] = IF out[p] >= k /\ n[p] < iterations THEN n[p] + 1 ELSE n[p]
    OBVIOUS
  <2>1. out[p] \in Nat /\ iterations \in Nat /\ k \in Nat
    BY <1>0
  <2> QED BY <1>1, <2>1
<1>6. CASE mask0 = {}
  <2>1. mask1 = {}
    BY <1>6
  <2>2. \A p \in 1 .. 4 : m[p] = n[p]
    BY <1>5, <2>1
  <2>3. [p \in 1 .. 4 |-> m[p]] = [p \in 1 .. 4 |-> n[p]]
    BY <2>2
  <2> QED BY <1>2, <1>3, <1>4, <1>6, <2>3 DEF n, m
<1>7. CASE mask0 # {}
  <2> HIDE DEF mask0, mask1
  <2>1. [p \in 1 .. 4 |-> m[p]] = [p \in 1 .. 4 |-> IF p \in mask1 THEN n[p] + 1 ELSE n[p]]
    BY <1>5
  <2> QED BY <1>2, <1>3, <1>4, <1>7, <2>1 DEF n, m
<1> QED BY <1>6, <1>7

\* The loop counts for each pixel the passes up to its own end or that of all.
LEMMA CountsAre ==
    ASSUME NEW out \in [1 .. 4 -> Nat]
    PROVE  Counts(out) = Least3(out, iterations + 1)
<1> DEFINE N == iterations + 1
           Next1(g) == [k \in 1 .. N |-> Pass(out, k, IF k = 1 THEN Zeros ELSE g[k - 1])]
           run == CHOOSE g : g = Next1(g)
           f == [k \in 1 .. N |-> Least3(out, k)]
<1>0. N \in Nat /\ N >= 1
  BY FractalAssumption
<1> HIDE DEF N
<1>1. Counts(out) = run[N]
  BY DEF Counts, Pass, Zeros, N
<1>2. f = Next1(f)
  <2>1. ASSUME NEW k \in 1 .. N
        PROVE  Least3(out, k) = Pass(out, k, IF k = 1 THEN Zeros ELSE f[k - 1])
    <3>0. k \in Nat \ {0}
      BY <1>0
    <3>1. CASE k = 1
      <4>1. k - 1 = 0
        BY <3>1
      <4> QED BY <3>0, <3>1, <4>1, PassIs
    <3>2. CASE k # 1
      <4>1. f[k - 1] = Least3(out, k - 1)
        BY <1>0, <3>2
      <4> HIDE DEF f
      <4> QED BY <3>0, <3>2, <4>1, PassIs
    <3> QED BY <3>1, <3>2
  <2> HIDE DEF Next1
  <2>2. f = [k \in 1 .. N |-> Pass(out, k, IF k = 1 THEN Zeros ELSE f[k - 1])]
    <3> DEFINE h(k) == Pass(out, k, IF k = 1 THEN Zeros ELSE f[k - 1])
    <3>1. \A k \in 1 .. N : Least3(out, k) = h(k)
      BY <2>1
    <3> HIDE DEF h
    <3>2. [k \in 1 .. N |-> Least3(out, k)] = [k \in 1 .. N |-> h(k)]
      BY <3>1
    <3> QED BY <3>2 DEF h, f
  <2> QED BY <2>2 DEF Next1
<1>3. run = Next1(run)
  <2> HIDE DEF Next1, f
  <2> QED BY <1>2
<1> HIDE DEF run, f
<1>4. \A k \in 1 .. N : run[k] = Pass(out, k, IF k = 1 THEN Zeros ELSE run[k - 1])
  BY <1>3
<1> DEFINE Wrong == {k \in 1 .. N : run[k] # Least3(out, k)}
<1>5. Wrong = {}
  <2> SUFFICES ASSUME Wrong # {} PROVE FALSE
    OBVIOUS
  <2>1. PICK m \in Wrong : \A k \in Wrong : m <= k
    <3>1. Wrong \in SUBSET Nat
      BY <1>0
    <3> HIDE DEF Wrong
    <3> QED BY <3>1, Least
  <2>2. m \in 1 .. N /\ m \in Nat \ {0}
    BY <1>0, <2>1
  <2>3. CASE m = 1
    <3>1. m - 1 = 0
      BY <2>3
    <3>2. run[m] = Pass(out, m, Zeros)
      BY <1>4, <2>2, <2>3
    <3>3. run[m] = Least3(out, m)
      BY <2>2, <3>1, <3>2, PassIs
    <3> QED BY <2>1, <3>3
  <2>4. CASE m # 1
    <3>1. m - 1 \in 1 .. N /\ ~(m <= m - 1)
      BY <1>0, <2>2, <2>4
    <3>2. run[m - 1] = Least3(out, m - 1)
      BY <2>1, <3>1
    <3>3. run[m] = Pass(out, m, run[m - 1])
      BY <1>4, <2>2, <2>4
    <3>4. run[m] = Least3(out, m)
      BY <2>2, <3>2, <3>3, PassIs
    <3> QED BY <2>1, <3>4
  <2> QED BY <2>3, <2>4
<1> QED BY <1>0, <1>1, <1>5 DEF N

\* Four pixels that are computed together get the colours that each would get alone,
\* however long each of them takes.
THEOREM LanesAlone == \A out \in [1 .. 4 -> Nat] : LanesAgree(out)
<1> SUFFICES ASSUME NEW out \in [1 .. 4 -> Nat], NEW p \in 1 .. 4
             PROVE  Colour(Counts(out)[p]) = (IF out[p] < iterations THEN "black" ELSE "white")
  BY DEF LanesAgree
<1>1. Counts(out)[p] = IF out[p] <= iterations + 1 /\ out[p] <= iterations THEN out[p]
                       ELSE IF iterations + 1 <= iterations THEN iterations + 1 ELSE iterations
  BY CountsAre DEF Least3
<1>2. out[p] \in Nat /\ iterations \in Nat
  BY FractalAssumption
<1> QED BY <1>1, <1>2 DEF Colour

\* Where each line of a task begins.
RowOf(line, k) == line + k * total_threads

LEMMA LinesAre ==
    ASSUME NEW line \in Nat
    PROVE  draw_fractal_mandelbrot(line) =
             {[index |-> RowOf(line, k) * width + x, x |-> x, y |-> RowOf(line, k)]
                : k \in 0 .. line_per_thread - 1, x \in 0 .. width - 1}
<1> DEFINE L == 0 .. line_per_thread - 1
           Next1(g) == [k \in L |-> IF k = 0 THEN line * width ELSE NextLine(g[k - 1] + width)]
           at == CHOOSE g : g = Next1(g)
           f == [k \in L |-> RowOf(line, k) * width]
<1>0. /\ line_per_thread \in Nat /\ line_per_thread > 0 /\ width \in Nat /\ total_threads \in Nat
      /\ L \subseteq Nat /\ \A k \in L : k # 0 => k - 1 \in L
  BY FractalAssumption
<1>1. RowOf(line, 0) * width = line * width
  <2>1. RowOf(line, 0) = line
    BY <1>0 DEF RowOf
  <2> QED BY <2>1
<1>2. \A k \in L : k # 0 => RowOf(line, k) * width = NextLine(RowOf(line, k - 1) * width + width)
  <2> SUFFICES ASSUME NEW k \in L, k # 0
               PROVE  RowOf(line, k) * width = NextLine(RowOf(line, k - 1) * width + width)
    OBVIOUS
  <2>1. k \in Nat /\ k - 1 \in Nat
    BY <1>0
  <2> DEFINE a == RowOf(line, k - 1)
             b == RowOf(line, k)
  <2>2. a \in Nat /\ b \in Nat /\ b = a + total_threads
    <3>1. k * total_threads = (k - 1) * total_threads + total_threads
      BY <1>0, <2>1
    <3>2. (k - 1) * total_threads \in Nat
      BY <1>0, <2>1
    <3> QED BY <1>0, <2>1, <3>1, <3>2 DEF RowOf
  <2> HIDE DEF a, b
  <2>3. (a + total_threads) * width = a * width + total_threads * width
    BY <1>0, <2>2
  <2>4. (total_threads - 1) * width = total_threads * width - width
    BY <1>0
  <2>5. a * width \in Nat /\ total_threads * width \in Nat
    BY <1>0, <2>2
  <2>6. b * width = a * width + width + (total_threads - 1) * width
    BY <1>0, <2>2, <2>3, <2>4, <2>5
  <2> QED BY <2>6 DEF NextLine, a, b
<1> HIDE DEF L
<1>3. f = Next1(f)
  <2> DEFINE h(k) == IF k = 0 THEN line * width ELSE NextLine(f[k - 1] + width)
  <2>1. \A k \in L : RowOf(line, k) * width = h(k)
    BY <1>0, <1>1, <1>2
  <2> HIDE DEF h
  <2>2. [k \in L |-> RowOf(line, k) * width] = [k \in L |-> h(k)]
    BY <2>1
  <2> QED BY <2>2 DEF h
<1>4. at = Next1(at)
  <2> HIDE DEF Next1, f
  <2> QED BY <1>3
<1>5. draw_fractal_mandelbrot(line) =
        {[index |-> at[k] + x, x |-> x, y |-> RowOf(line, k)] : k \in L, x \in 0 .. width - 1}
  BY DEF draw_fractal_mandelbrot, RowOf, L
<1> HIDE DEF at, f
<1>6. \A k \in L : at[k] = IF k = 0 THEN line * width ELSE NextLine(at[k - 1] + width)
  BY <1>4
<1> DEFINE Wrong == {k \in L : at[k] # RowOf(line, k) * width}
<1>7. Wrong = {}
  <2> SUFFICES ASSUME Wrong # {} PROVE FALSE
    OBVIOUS
  <2>1. PICK m \in Wrong : \A k \in Wrong : m <= k
    <3>1. Wrong \in SUBSET Nat
      BY <1>0
    <3> HIDE DEF Wrong
    <3> QED BY <3>1, Least
  <2>2. m \in L /\ m \in Nat
    BY <1>0, <2>1
  <2>3. m # 0
    BY <1>1, <1>6, <2>1, <2>2
  <2>4. m - 1 \in L /\ ~(m <= m - 1)
    BY <1>0, <2>2, <2>3
  <2>5. at[m - 1] = RowOf(line, m - 1) * width
    BY <2>1, <2>4
  <2>6. at[m] = RowOf(line, m) * width
    BY <1>2, <1>6, <2>2, <2>3, <2>5
  <2> QED BY <2>1, <2>6
<1>8. \A k \in L : at[k] = RowOf(line, k) * width
  BY <1>7
<1>9. {[index |-> at[k] + x, x |-> x, y |-> RowOf(line, k)] : k \in L, x \in 0 .. width - 1} =
      {[index |-> RowOf(line, k) * width + x, x |-> x, y |-> RowOf(line, k)]
         : k \in L, x \in 0 .. width - 1}
  BY <1>8
<1> QED BY <1>5, <1>9 DEF L

\* The task and the pixel at an index of the frame buffer.
PixelAt(i) ==
    <<(i \div width) % total_threads, [index |-> i, x |-> i % width, y |-> i \div width]>>

\* Of pictures of any size and any number of tasks: every pixel is written, by one
\* task, once and at its place.
THEOREM PictureIsTiled == TasksTile
<1> DEFINE all == UNION {{<<k, w>> : w \in Writes(k)} : k \in DOMAIN ith_line}
           N == width * height
           I == 0 .. N - 1
<1>0. /\ width \in Nat /\ width > 0 /\ total_threads \in Nat /\ total_threads > 0
      /\ line_per_thread \in Nat /\ height \in Nat /\ N \in Nat
      /\ height = total_threads * line_per_thread
  BY FractalAssumption DEF height
<1> HIDE DEF N
<1>1. DOMAIN ith_line = 0 .. total_threads - 1 /\ \A k \in DOMAIN ith_line : ith_line[k] = k
  BY DEF ith_line
<1>2. ASSUME NEW i \in I PROVE PixelAt(i) \in all
  <2> DEFINE y == i \div width
             x == i % width
             k == y % total_threads
             j == y \div total_threads
  <2>1. y \in 0 .. height - 1 /\ x \in 0 .. width - 1 /\ i = width * y + x
    BY <1>0, Quotient DEF N
  <2>2. k \in 0 .. total_threads - 1 /\ j \in 0 .. line_per_thread - 1 /\ y = total_threads * j + k
    <3> HIDE DEF y
    <3> QED BY <1>0, <2>1, Quotient
  <2> HIDE DEF x, k, j, y
  <2>3. RowOf(k, j) = y
    BY <1>0, <2>2 DEF RowOf
  <2>4. RowOf(k, j) * width + x = i
    <3>1. y * width = width * y
      BY <1>0, <2>1
    <3> QED BY <2>1, <2>3, <3>1
  <2>5. [index |-> i, x |-> x, y |-> y] \in Writes(k)
    <3>1. [index |-> RowOf(k, j) * width + x, x |-> x, y |-> RowOf(k, j)]
            \in draw_fractal_mandelbrot(k)
      BY <2>1, <2>2, LinesAre
    <3> QED BY <1>1, <2>2, <2>3, <2>4, <3>1 DEF Writes
  <2> QED BY <1>1, <2>2, <2>5 DEF PixelAt, x, k, y
<1>3. ASSUME NEW p \in all
      PROVE  p[2].index \in I /\ p = PixelAt(p[2].index) /\ p[2].index = p[2].y * width + p[2].x
  <2>1. PICK k \in 0 .. total_threads - 1 : \E w \in Writes(k) : p = <<k, w>>
    BY <1>1, <1>3
  <2>2. PICK w \in Writes(k) : p = <<k, w>>
    BY <2>1
  <2>3. w \in draw_fractal_mandelbrot(k)
    BY <1>1 DEF Writes
  <2>4. PICK j \in 0 .. line_per_thread - 1, x \in 0 .. width - 1 :
          w = [index |-> RowOf(k, j) * width + x, x |-> x, y |-> RowOf(k, j)]
    BY <2>3, LinesAre
  <2> DEFINE y == RowOf(k, j)
             i == width * y + x
  <2>5. y = total_threads * j + k
    BY <1>0 DEF RowOf
  <2>6. y \in 0 .. height - 1 /\ y % total_threads = k
    <3>1. y \in 0 .. total_threads * line_per_thread - 1
      <4> HIDE DEF y
      <4> QED BY <1>0, <2>5, Composed
    <3>2. (total_threads * j + k) % total_threads = k
      BY <1>0, Division
    <3> HIDE DEF y
    <3> QED BY <1>0, <2>5, <3>1, <3>2
  <2> HIDE DEF y
  <2>7. i \in I
    BY <1>0, <2>6, Composed DEF N
  <2>8. i \div width = y /\ i % width = x /\ i \in Nat
    BY <1>0, <2>6, Division
  <2>9. y * width + x = i
    BY <1>0, <2>6
  <2>10. w = [index |-> i, x |-> x, y |-> y]
    BY <2>4, <2>9 DEF y
  <2> HIDE DEF i
  <2>11. PixelAt(i) = <<k, w>>
    BY <2>6, <2>8, <2>10 DEF PixelAt
  <2>12. p[2] = w /\ w.index = i /\ w.y = y /\ w.x = x
    BY <2>2, <2>10
  <2> QED BY <2>2, <2>7, <2>9, <2>11, <2>12
<1>4. \A i \in I : PixelAt(i)[2].index = i
  BY DEF PixelAt
<1> HIDE DEF all
<1>5. {p[2].index : p \in all} = I
  BY <1>2, <1>3, <1>4
<1>6. Cardinality(all) = N
  <2> DEFINE f == [i \in I |-> PixelAt(i)]
  <2>1. IsFiniteSet(I) /\ Cardinality(I) = N
    BY <1>0, FS_Interval
  <2>2. f \in Bijection(I, all)
    <3>1. f \in [I -> all]
      BY <1>2
    <3>2. \A a, b \in I : f[a] = f[b] => a = b
      BY <1>4
    <3>3. \A p \in all : \E i \in I : f[i] = p
      BY <1>3
    <3> HIDE DEF f
    <3> QED BY <3>1, <3>2, <3>3, Fun_IsBij
  <2>3. ExistsBijection(I, all)
    BY <2>2 DEF ExistsBijection
  <2> QED BY <2>1, <2>3, FS_Bijection
<1> QED BY <1>3, <1>5, <1>6 DEF TasksTile, all, N
--------------------------------------------------------------------------------
(* The inputs that the runs give to the loops. *)

InCases == case \in Cases

\* All delays end in time, all pixels are drawn, and each in its colour, whatever the
\* numbers of ticks, tasks, lines and passes.
THEOREM LoopsHold == Spec => []LoopsEndRight
<1>1. Init => InCases
  BY DEF Init, InCases
<1>2. InCases /\ [Next]_<<case, interruptVars, listVars, deviceVars>> => InCases'
  <2> SUFFICES ASSUME InCases, [Next]_<<case, interruptVars, listVars, deviceVars>> PROVE InCases'
    OBVIOUS
  <2>1. case' = case
    BY DEF Next
  <2> QED BY <2>1 DEF InCases
<1>3. InCases => LoopsEndRight
  <2> SUFFICES ASSUME case \in Cases PROVE LoopsEndRight
    BY DEF InCases
  <2>1. ASSUME If("wait")
        PROVE  case.in \in [us : 0 .. Ticks - 1, start : 0 .. Ticks - 1, gap : {1, 3}]
    BY <2>1 DEF Cases, Case, If
  <2>2. ASSUME If("core") PROVE case.in \in [f : {1, 7, 16, 17}, divisor : 1 .. 5, gap : {1, 3}]
    BY <2>2 DEF Cases, Case, If
  <2>3. ASSUME If("fractal") PROVE case.in \in [1 .. 4 -> 1 .. iterations + 1]
    BY <2>3 DEF Cases, Case, If
  <2>4. ASSUME If("wait") PROVE WaitsAsLong(case.in.us, case.in.start, case.in.gap)
                                /\ MillisCutOff(case.in.us, case.in.start, case.in.gap)
    <3>1. /\ case.in.us \in Nat /\ case.in.start \in 0 .. Ticks - 1
          /\ case.in.gap \in Nat \ {0}
      BY <2>1, <2>4
    <3> QED BY <3>1, DelaysEnd
  <2>5. ASSUME If("core") PROVE CorePart(case.in.f, case.in.divisor, case.in.gap)
    <3>1. case.in.f \in Nat /\ case.in.divisor \in Nat \ {0} /\ case.in.gap \in Nat \ {0}
      BY <2>2, <2>5
    <3> QED BY <3>1, CoreDelayEnds
  <2>6. ASSUME If("fractal") PROVE TasksTile /\ LanesAgree(case.in)
    <3>1. case.in \in [1 .. 4 -> Nat]
      BY <2>3, <2>6
    <3> QED BY <3>1, PictureIsTiled, LanesAlone
  <2> QED BY <2>4, <2>5, <2>6 DEF LoopsEndRight
<1> QED BY <1>1, <1>2, <1>3, PTL DEF Spec
================================================================================
