--------------------------- MODULE Bootloader_proofs ---------------------------
(* Theorems about the boot loader's transfer: whatever the line loses and     *)
(* damages, what the receiver acknowledges is the file's.                     *)
EXTENDS BootloaderInv, SequenceTheorems, WellFoundedInduction, TLAPS

\* A set of numbers has a least one: induction, without an operator to instantiate.
LEMMA Least ==
    ASSUME NEW T \in SUBSET Nat, T # {}
    PROVE  \E m \in T : \A k \in T : m <= k
<1> DEFINE R == OpToRel(<, Nat)
<1>1. IsWellFoundedOn(R, Nat)
  BY NatLessThanWellFounded
<1>2. PICK m \in T : \A k \in T : ~(<<k, m>> \in R)
  <2> HIDE DEF R
  <2> QED BY <1>1, WFMin
<1>3. \A k \in T : k < m => <<k, m>> \in R
  BY DEF OpToRel
<1>4. \A k \in T : ~(k < m)
  <2> HIDE DEF R
  <2> QED BY <1>2, <1>3
<1> HIDE DEF R
<1> QED BY <1>4

LEMMA Constants ==
    /\ Values \in Nat /\ Values >= 2 /\ BlockSize \in 1 .. 191
    /\ SOH \in Byte /\ EOT \in Byte /\ G \in Byte /\ SOH # EOT
    /\ EOT \notin Flipped(SOH) /\ SOH \notin Flipped(EOT)
    /\ FifoSize \in 1 .. BlockSize + 3
    /\ Len(File) \in Nat /\ Len(File) >= 1
    /\ Losses \in Nat /\ Flips \in Nat /\ MaxRetries \in Nat
<1>1. Values \in Nat /\ SOH \in Byte /\ EOT \in Byte /\ G \in Byte /\ SOH # EOT
  BY BootAssumption
<1>2. Values >= 2
  BY <1>1 DEF Byte
<1>3. File \in Seq([1 .. BlockSize -> Byte]) /\ File # <<>>
  BY BootAssumption
<1>4. Len(File) \in Nat /\ Len(File) >= 1
  BY <1>3
<1> QED BY <1>1, <1>2, <1>4, BootAssumption

LEMMA FileBlocks ==
    ASSUME NEW k \in 1 .. Len(File)
    PROVE  /\ File[k] \in Seq(Byte) /\ Len(File[k]) = BlockSize
           /\ \A d \in 1 .. BlockSize : File[k][d] \in Byte
<1>1. File[k] \in [1 .. BlockSize -> Byte]
  BY BootAssumption
<1>2. BlockSize \in Nat
  BY Constants
<1>3. File[k] \in Seq(Byte)
  BY <1>1, <1>2, IsASeq
<1>4. DOMAIN File[k] = 1 .. BlockSize /\ DOMAIN File[k] = 1 .. Len(File[k]) /\ Len(File[k]) \in Nat
  BY <1>1, <1>3
<1>5. Len(File[k]) = BlockSize
  BY <1>4, <1>2
<1> QED BY <1>1, <1>3, <1>5

--------------------------------------------------------------------------------
(* Arithmetic of bytes. *)

LEMMA Remainder ==
    ASSUME NEW v \in Nat, v > 0, NEW a \in Int
    PROVE  a % v \in 0 .. v - 1 /\ a = v * (a \div v) + (a % v) /\ a \div v \in Int
OBVIOUS

\* A multiple of v is no number between 0 and v.
LEMMA NoMultiple ==
    ASSUME NEW v \in Nat, v > 0, NEW q \in Int, NEW e \in 1 .. v - 1
    PROVE  v * q # e /\ v * q # -e
<1>1. CASE q >= 1
  <2>1. v * q >= v
    BY <1>1, SMTT(30)
  <2> QED BY <2>1
<1>2. CASE q <= -1
  <2>1. v * q <= -v
    BY <1>2, SMTT(30)
  <2> QED BY <2>1
<1>3. CASE q = 0
  BY <1>3
<1> QED BY <1>1, <1>2, <1>3

\* Numbers that differ by less than v have different remainders.
LEMMA Differ ==
    ASSUME NEW v \in Nat, v > 0, NEW a \in Int, NEW e \in 1 .. v - 1
    PROVE  (a + e) % v # a % v /\ (a - e) % v # a % v
<1> DEFINE q == a \div v
<1>1. a = v * q + (a % v) /\ q \in Int
  BY Remainder
<1>2. ASSUME NEW b \in Int, b % v = a % v PROVE \E m \in Int : b - a = v * m
  <2>1. b = v * (b \div v) + (b % v) /\ b \div v \in Int
    BY Remainder
  <2>2. b - a = v * ((b \div v) - q)
    BY <1>1, <1>2, <2>1
  <2> QED BY <2>1, <2>2, <1>1
<1>3. ASSUME (a + e) % v = a % v PROVE FALSE
  <2>1. PICK m \in Int : (a + e) - a = v * m
    BY <1>2, <1>3
  <2> QED BY <2>1, NoMultiple
<1>4. ASSUME (a - e) % v = a % v PROVE FALSE
  <2>1. PICK m \in Int : (a - e) - a = v * m
    BY <1>2, <1>4
  <2> QED BY <2>1, NoMultiple
<1> QED BY <1>3, <1>4

LEMMA Distribute ==
    ASSUME NEW v \in Int, NEW q \in Int, NEW m \in Int, NEW j \in Int
    PROVE  v * (q - m + j) = v * q - v * m + v * j
OBVIOUS

\* A number and its remainder have successors with the same remainder.
LEMMA Carry ==
    ASSUME NEW v \in Nat, v > 0, NEW q \in Int, NEW r \in Int, NEW k \in Int,
           k = v * q + r
    PROVE  (k + 1) % v = (r + 1) % v
<1>1. PICK m \in Int, s \in 0 .. v - 1 : k + 1 = v * m + s /\ s = (k + 1) % v
  <2>1. (k + 1) % v \in 0 .. v - 1 /\ (k + 1) \div v \in Int
        /\ k + 1 = v * ((k + 1) \div v) + ((k + 1) % v)
    BY Remainder
  <2> QED BY <2>1
<1>2. PICK j \in Int, t \in 0 .. v - 1 : r + 1 = v * j + t /\ t = (r + 1) % v
  <2>1. (r + 1) % v \in 0 .. v - 1 /\ (r + 1) \div v \in Int
        /\ r + 1 = v * ((r + 1) \div v) + ((r + 1) % v)
    BY Remainder
  <2> QED BY <2>1
<1>3. v * (q - m + j) = v * q - v * m + v * j /\ q - m + j \in Int
  BY Distribute
<1>4. s - t = v * (q - m + j)
  <2>1. v * q \in Int /\ v * m \in Int /\ v * j \in Int
    OBVIOUS
  <2> QED BY <1>1, <1>2, <1>3, <2>1
<1>5. CASE s - t \in 1 .. v - 1
  BY <1>3, <1>4, <1>5, NoMultiple
<1>6. CASE t - s \in 1 .. v - 1
  <2>1. v * (q - m + j) = -(t - s)
    BY <1>1, <1>2, <1>4
  <2> QED BY <1>3, <1>6, <2>1, NoMultiple
<1>7. s - t \in 1 .. v - 1 \/ t - s \in 1 .. v - 1 \/ s = t
  BY <1>1, <1>2
<1> QED BY <1>1, <1>2, <1>5, <1>6, <1>7

\* The number of the next block is the next number, and another one.
LEMMA NextNumber ==
    ASSUME NEW k \in Nat
    PROVE  /\ k % Values \in Byte
           /\ (k + 1) % Values = ((k % Values) + 1) % Values
           /\ (k + 1) % Values # k % Values
<1>1. Values \in Nat /\ Values >= 2
  BY Constants
<1> DEFINE q == k \div Values
           r == k % Values
<1>2. k = Values * q + r /\ r \in 0 .. Values - 1 /\ q \in Int
  BY <1>1, Remainder
<1>3. (k + 1) % Values # r
  BY <1>1, Differ
<1>4. (k + 1) % Values = (r + 1) % Values
  <2>1. q \in Int /\ r \in Int /\ k \in Int /\ Values > 0
    BY <1>1, <1>2
  <2> HIDE DEF q
  <2> QED BY <1>1, <1>2, <2>1, Carry
<1>5. r \in Byte
  <2> HIDE DEF r
  <2> QED BY <1>2 DEF Byte
<1> QED BY <1>3, <1>4, <1>5

\* One changed bit makes a byte another one, by less than Values.
LEMMA FlippedIs ==
    ASSUME NEW b \in Byte, NEW v \in Flipped(b)
    PROVE  /\ v \in Byte
           /\ \E e \in 1 .. Values - 1 : v = b + e \/ v = b - e
<1>1. v \in Byte /\ b \in Int
  BY DEF Flipped, Byte
<1>2. PICK bit \in Bits : bit < Values /\ (v = b + bit \/ v = b - bit)
  BY DEF Flipped
<1>3. bit \in 1 .. Values - 1
  BY <1>2, Constants DEF Bits
<1> QED BY <1>1, <1>2, <1>3

LEMMA FlippedDiffers ==
    ASSUME NEW b \in Byte, NEW v \in Flipped(b)
    PROVE  v # b
BY FlippedIs, Constants DEF Byte

--------------------------------------------------------------------------------
(* Packets. *)

\* The sums of the beginnings of a text are what their recursive definition says.
LEMMA SumsAre ==
    ASSUME NEW s \in Seq(Nat)
    PROVE  /\ Sums(s)[0] = 0
           /\ \A i \in 1 .. Len(s) : Sums(s)[i] = Sums(s)[i - 1] + s[i]
           /\ \A i \in 0 .. Len(s) : Sums(s)[i] \in Nat
<1> DEFINE Next1(g, m) == [i \in 0 .. m |-> IF i = 0 THEN 0 ELSE g[i - 1] + s[i]]
           Bad == {m \in 0 .. Len(s) : ~ \E g \in [0 .. m -> Nat] : g = Next1(g, m)}
<1>0. Len(s) \in Nat /\ \A i \in 1 .. Len(s) : s[i] \in Nat
  OBVIOUS
<1>1. Bad = {}
  <2> SUFFICES ASSUME Bad # {} PROVE FALSE
    OBVIOUS
  <2>1. PICK m \in Bad : \A k \in Bad : m <= k
    <3>1. Bad \in SUBSET Nat
      BY <1>0
    <3> HIDE DEF Bad
    <3> QED BY <3>1, Least
  <2>2. m \in 0 .. Len(s) /\ ~ \E g \in [0 .. m -> Nat] : g = Next1(g, m)
    BY <2>1
  <2>3. CASE m = 0
    <3> DEFINE z == [i \in 0 .. 0 |-> 0]
    <3>1. z \in [0 .. m -> Nat] /\ z = Next1(z, m)
      BY <2>3
    <3> QED BY <3>1, <2>2
  <2>4. CASE m # 0
    <3>1. m - 1 \in 0 .. Len(s) /\ m - 1 \notin Bad
      <4>1. m - 1 \in 0 .. Len(s) /\ ~(m <= m - 1)
        BY <2>2, <2>4, <1>0
      <4> HIDE DEF Bad
      <4> QED BY <2>1, <4>1
    <3>2. PICK h \in [0 .. m - 1 -> Nat] : h = Next1(h, m - 1)
      BY <3>1
    <3> DEFINE g == [i \in 0 .. m |-> IF i = m THEN h[m - 1] + s[m] ELSE h[i]]
    <3>3. g \in [0 .. m -> Nat]
      BY <3>2, <2>2, <2>4, <1>0
    <3>4. \A i \in 0 .. m : g[i] = IF i = 0 THEN 0 ELSE g[i - 1] + s[i]
      <4>1. \A i \in 0 .. m - 1 : h[i] = IF i = 0 THEN 0 ELSE h[i - 1] + s[i]
        BY <3>2
      <4>2. \A i \in 0 .. m - 1 : g[i] = h[i]
        BY <2>2
      <4>3. g[m] = h[m - 1] + s[m] /\ g[m - 1] = h[m - 1]
        BY <2>2, <2>4
      <4> HIDE DEF g
      <4>4. m \in Nat /\ m # 0
        BY <2>2, <2>4, <1>0
      <4>5. ASSUME NEW i \in 0 .. m - 1 PROVE g[i] = IF i = 0 THEN 0 ELSE g[i - 1] + s[i]
        <5>1. i # 0 => g[i - 1] = h[i - 1]
          BY <4>2, <4>4
        <5> QED BY <4>1, <4>2, <5>1
      <4>6. g[m] = g[m - 1] + s[m]
        BY <4>3
      <4> QED BY <4>4, <4>5, <4>6
    <3>5. g = Next1(g, m)
      BY <3>3, <3>4
    <3> HIDE DEF g
    <3> QED BY <3>3, <3>5, <2>2
  <2> QED BY <2>3, <2>4
<1>2. PICK f \in [0 .. Len(s) -> Nat] : f = Next1(f, Len(s))
  BY <1>1, <1>0
<1> DEFINE sum == CHOOSE g : g = Next1(g, Len(s))
<1>3. sum = Next1(sum, Len(s))
  <2> HIDE DEF Next1
  <2> QED BY <1>2
<1>4. Sums(s) = sum
  BY DEF Sums
<1> HIDE DEF sum
<1>5. \A i \in 0 .. Len(s) : sum[i] = IF i = 0 THEN 0 ELSE sum[i - 1] + s[i]
  BY <1>3
<1>6. \A i \in 0 .. Len(s) : sum[i] \in Nat
  <2> DEFINE Wrong == {i \in 0 .. Len(s) : sum[i] \notin Nat}
  <2> SUFFICES ASSUME Wrong # {} PROVE FALSE
    OBVIOUS
  <2>1. PICK m \in Wrong : \A k \in Wrong : m <= k
    <3>1. Wrong \in SUBSET Nat
      BY <1>0
    <3> HIDE DEF Wrong
    <3> QED BY <3>1, Least
  <2>2. m # 0
    BY <2>1, <1>5, <1>0
  <2>3. sum[m - 1] \in Nat
    BY <2>1, <2>2, <1>0
  <2>4. m \in 0 .. Len(s) /\ sum[m] \notin Nat /\ s[m] \in Nat
    BY <2>1, <2>2, <1>0
  <2>5. sum[m] = sum[m - 1] + s[m]
    BY <2>2, <2>4, <1>5
  <2> HIDE DEF Wrong
  <2> QED BY <2>3, <2>4, <2>5
<1> QED BY <1>0, <1>4, <1>5, <1>6

LEMMA NumberedIs ==
    ASSUME NEW k \in 1 .. Len(File)
    PROVE  /\ Numbered(k) \in Seq(Byte) /\ Len(Numbered(k)) = BlockSize + 3
           /\ Numbered(k)[1] = SOH /\ Numbered(k)[2] = k % Values
           /\ Numbered(k)[3] = Inverted(k % Values)
           /\ \A d \in 1 .. BlockSize : Numbered(k)[3 + d] = File[k][d]
<1> DEFINE head == <<SOH, k % Values, Inverted(k % Values)>>
<1>1. /\ k \in Nat /\ k % Values \in Byte /\ SOH \in Byte /\ Values \in Nat
      /\ BlockSize \in Nat /\ BlockSize >= 1
  <2>1. k \in Nat
    OBVIOUS
  <2>2. k % Values \in Byte
    BY <2>1, NextNumber
  <2>3. BlockSize \in Nat /\ BlockSize >= 1
    BY Constants
  <2> QED BY <2>1, <2>2, <2>3, Constants
<1>2. Inverted(k % Values) \in Byte
  BY <1>1 DEF Inverted, Byte
<1>3. /\ head \in Seq(Byte) /\ Len(head) = 3
      /\ head[1] = SOH /\ head[2] = k % Values /\ head[3] = Inverted(k % Values)
  BY <1>1, <1>2
<1>4. File[k] \in Seq(Byte) /\ Len(File[k]) = BlockSize
  BY FileBlocks
<1>5. Numbered(k) = head \o File[k]
  BY DEF Numbered
<1> HIDE DEF head
<1>6. /\ Numbered(k) \in Seq(Byte) /\ Len(Numbered(k)) = 3 + BlockSize
      /\ \A i \in 1 .. 3 + BlockSize :
            Numbered(k)[i] = IF i <= 3 THEN head[i] ELSE File[k][i - 3]
  <2>1. /\ head \o File[k] \in Seq(Byte)
        /\ Len(head \o File[k]) = Len(head) + Len(File[k])
        /\ \A i \in 1 .. Len(head) + Len(File[k]) :
              (head \o File[k])[i] = IF i <= Len(head) THEN head[i] ELSE File[k][i - Len(head)]
    BY <1>3, <1>4, ConcatProperties
  <2> QED BY <2>1, <1>3, <1>4, <1>5
<1>7. \A d \in 1 .. BlockSize : Numbered(k)[3 + d] = File[k][d]
  BY <1>6, <1>1
<1> QED BY <1>1, <1>3, <1>6, <1>7

\* The sums of a numbered block, from the byte that starts it.
LEMMA NumberedSums ==
    ASSUME NEW k \in 1 .. Len(File)
    PROVE  /\ \A i \in 0 .. BlockSize + 3 : Sums(Numbered(k))[i] \in Nat
           /\ Sums(Numbered(k))[1] = SOH
           /\ \A i \in 1 .. BlockSize + 3 :
                Sums(Numbered(k))[i] = Sums(Numbered(k))[i - 1] + Numbered(k)[i]
<1>1. Numbered(k) \in Seq(Nat) /\ Len(Numbered(k)) = BlockSize + 3 /\ BlockSize + 3 >= 1
  <2>1. Byte \subseteq Nat
    BY Constants DEF Byte
  <2>2. Numbered(k) \in Seq(Byte) /\ Len(Numbered(k)) = BlockSize + 3
    BY NumberedIs
  <2>3. Numbered(k) \in Seq(Nat)
    <3>1. Numbered(k) \in [1 .. BlockSize + 3 -> Byte]
      BY <2>2, LenProperties
    <3>2. Numbered(k) \in [1 .. BlockSize + 3 -> Nat]
      BY <2>1, <3>1
    <3> QED BY <3>2, Constants, IsASeq
  <2> QED BY <2>2, <2>3, Constants
<1>2. /\ Sums(Numbered(k))[0] = 0
      /\ \A i \in 1 .. BlockSize + 3 :
           Sums(Numbered(k))[i] = Sums(Numbered(k))[i - 1] + Numbered(k)[i]
      /\ \A i \in 0 .. BlockSize + 3 : Sums(Numbered(k))[i] \in Nat
  <2>1. /\ Sums(Numbered(k))[0] = 0
        /\ \A i \in 1 .. Len(Numbered(k)) :
             Sums(Numbered(k))[i] = Sums(Numbered(k))[i - 1] + Numbered(k)[i]
        /\ \A i \in 0 .. Len(Numbered(k)) : Sums(Numbered(k))[i] \in Nat
    BY <1>1, SumsAre, Zenon
  <2> QED BY <1>1, <2>1, Zenon
<1>3. Sums(Numbered(k))[1] = SOH
  <2>1. Sums(Numbered(k))[1] = 0 + Numbered(k)[1]
    BY <1>1, <1>2, Constants
  <2>2. Numbered(k)[1] = SOH /\ SOH \in Nat
    BY NumberedIs, Constants DEF Byte
  <2> QED BY <2>1, <2>2
<1> QED BY <1>2, <1>3

LEMMA PacketIs ==
    ASSUME NEW k \in 1 .. Len(File) + 1
    PROVE  /\ Packet(k) \in Seq(Byte)
           /\ \/ /\ k = Len(File) + 1
                 /\ Len(Packet(k)) = 1 /\ Packet(k)[1] = EOT
              \/ /\ k \in 1 .. Len(File)
                 /\ Len(Packet(k)) = BlockSize + 4
                 /\ Packet(k)[1] = SOH /\ Packet(k)[2] = k % Values
                 /\ Packet(k)[3] = Inverted(k % Values)
                 /\ \A d \in 1 .. BlockSize : Packet(k)[3 + d] = File[k][d]
                 /\ \A i \in 1 .. BlockSize + 3 : Packet(k)[i] = Numbered(k)[i]
                 /\ Packet(k)[BlockSize + 4] = Sums(Numbered(k))[BlockSize + 3] % Values
<1>0. Len(File) \in Nat /\ BlockSize \in Nat /\ BlockSize >= 1 /\ EOT \in Byte
  BY Constants
<1>1. CASE k > Len(File)
  BY <1>0, <1>1 DEF Packet
<1>2. CASE ~(k > Len(File))
  <2> DEFINE c == Sums(Numbered(k))[BlockSize + 3] % Values
  <2>1. k \in 1 .. Len(File)
    BY <1>0, <1>2
  <2>2. c \in Byte
    <3>1. Sums(Numbered(k))[BlockSize + 3] \in Nat
      BY <2>1, <1>0, NumberedSums
    <3> QED BY <3>1, NextNumber
  <2>3. Packet(k) = Append(Numbered(k), c)
    BY <1>2 DEF Packet
  <2>4. Numbered(k) \in Seq(Byte) /\ Len(Numbered(k)) = BlockSize + 3
    BY <2>1, NumberedIs
  <2> HIDE DEF c
  <2>5. /\ Packet(k) \in Seq(Byte) /\ Len(Packet(k)) = BlockSize + 4
        /\ \A i \in 1 .. BlockSize + 3 : Packet(k)[i] = Numbered(k)[i]
        /\ Packet(k)[BlockSize + 4] = c
    BY <2>2, <2>3, <2>4, <1>0
  <2>6. /\ Packet(k)[1] = Numbered(k)[1] /\ Packet(k)[2] = Numbered(k)[2]
        /\ Packet(k)[3] = Numbered(k)[3]
        /\ \A d \in 1 .. BlockSize : Packet(k)[3 + d] = Numbered(k)[3 + d]
    BY <2>5, <1>0
  <2> QED BY <2>1, <2>5, <2>6, NumberedIs DEF c
<1> QED BY <1>1, <1>2

--------------------------------------------------------------------------------
(* What holds of torn transfers too: the types, the room in memory, and that   *)
(* a transfer is cancelled for both sides.                                     *)

Base == TypeOK /\ ImageIsLong /\ Cancelled

LEMMA BlocksAreLong ==
    ASSUME NEW k \in Nat
    PROVE  k * BlockSize \in Nat /\ (k + 1) * BlockSize = k * BlockSize + BlockSize
<1>1. BlockSize \in Nat
  BY Constants
<1> QED BY <1>1

LEMMA BaseInit == Init => Base
<1> SUFFICES ASSUME Init PROVE Base
  OBVIOUS
<1>1. TypeOK
  <2>1. /\ toS \in Seq(Answers) /\ fifo \in Seq(Byte) /\ toR \in Seq(Byte)
        /\ image \in Seq(Byte) /\ Len(fifo) = 0
    BY DEF Init, Answers
  <2>2. block \in Byte /\ n \in 1 .. Len(File) + 1 /\ retries \in 0 .. MaxRetries
    BY Constants DEF Init, Byte
  <2>3. losses \in 0 .. Losses /\ flips \in 0 .. Flips /\ 0 <= FifoSize
    BY Constants DEF Init
  <2>4. damaged \in BOOLEAN /\ torn \in BOOLEAN /\ eager \in BOOLEAN
    BY DEF Init
  <2> QED BY <2>1, <2>2, <2>3, <2>4 DEF Init, TypeOK
<1>2. ImageIsLong
  <2>1. Written = 0
    BY Constants DEF Init, Written, StartState
  <2>2. addr * BlockSize = 0 /\ Len(image) = 0
    BY Constants DEF Init
  <2> QED BY <2>1, <2>2 DEF ImageIsLong
<1>3. Cancelled
  BY DEF Init, Cancelled
<1> QED BY <1>1, <1>2, <1>3 DEF Base

\* A packet goes on the line only when the line is empty, and is bytes.
LEMMA SendIs ==
    ASSUME NEW k \in 1 .. Len(File) + 1, Send(k)
    PROVE  /\ toR = <<>> /\ toR' = Packet(k) /\ toR' \in Seq(Byte)
           /\ n' = k /\ spc' = "sent" /\ damaged' = FALSE
BY PacketIs DEF Send

LEMMA NotEmpty ==
    ASSUME NEW S, NEW s \in Seq(S)
    PROVE  Len(s) \in Nat /\ (s = <<>> <=> Len(s) = 0)
<1>1. s # <<>> => Len(s) \in Nat \ {0}
  BY EmptySeq
<1>2. Len(<<>>) = 0
  BY EmptySeq
<1> QED BY <1>1, <1>2

LEMMA TailIs ==
    ASSUME NEW S, NEW s \in Seq(S), s # <<>>
    PROVE  /\ Tail(s) \in Seq(S) /\ Head(s) = s[1] /\ Len(Tail(s)) = Len(s) - 1
           /\ \A i \in 1 .. Len(s) - 1 : Tail(s)[i] = s[i + 1]
           /\ ~(Len(s) > 1) => Tail(s) = <<>> /\ s[Len(s)] = Head(s)
           /\ Len(s) > 1 => Tail(s) # <<>> /\ Tail(s)[Len(Tail(s))] = s[Len(s)]
<1>1. /\ Tail(s) \in Seq(S) /\ Head(s) = s[1] /\ Len(Tail(s)) = Len(s) - 1
      /\ \A i \in 1 .. Len(s) - 1 : Tail(s)[i] = s[i + 1]
      /\ Len(s) \in Nat
  BY HeadTailProperties
<1>2. ASSUME ~(Len(s) > 1) PROVE Tail(s) = <<>> /\ s[Len(s)] = Head(s)
  <2>1. Len(s) - 1 = 0 /\ Len(s) - 1 + 1 = 1
    BY <1>1, <1>2, NotEmpty
  <2>2. Tail(s) = <<>>
    BY <1>1, <2>1, NotEmpty
  <2>3. s[Len(s) - 1 + 1] = s[1]
    BY <2>1
  <2> QED BY <1>1, <2>2, <2>3
<1>3. ASSUME Len(s) > 1 PROVE Tail(s) # <<>> /\ Tail(s)[Len(Tail(s))] = s[Len(s)]
  <2>1. Len(Tail(s)) # 0 /\ Len(s) - 1 \in 1 .. Len(s) - 1 /\ (Len(s) - 1) + 1 = Len(s)
    BY <1>1, <1>3
  <2>2. Tail(s) # <<>>
    BY <2>1, <1>1, NotEmpty
  <2>3. Tail(s)[Len(s) - 1] = s[(Len(s) - 1) + 1]
    BY <1>1, <2>1
  <2> QED BY <1>1, <2>1, <2>2, <2>3
<1> QED BY <1>1, <1>2, <1>3

\* The actions that leave the receiver alone.
LEMMA BaseOthers ==
    ASSUME Base,
           NakAgain \/ FirstByte \/ BailOut \/ ShowPrompt \/ ReadKey \/ Deliver \/ Overrun
             \/ Lose \/ StartSender \/ TakeAnswer \/ Timeout \/ PressG
    PROVE  Base'
<1> USE DEF Base, ImageIsLong, Written, receiver, sender, line
<1>0. /\ TypeOK /\ Cancelled /\ ImageIsLong
      /\ fifo \in Seq(Byte) /\ toR \in Seq(Byte) /\ toS \in Seq(Answers)
      /\ Len(File) \in Nat /\ MaxRetries \in Nat
  BY Constants DEF TypeOK
<1>1. CASE NakAgain
  <2>1. toS' \in Seq(Answers) /\ toS' = <<"NAK">>
    BY <1>0, <1>1 DEF NakAgain, uart_putc, Answers
  <2> QED BY <1>0, <1>1, <2>1 DEF NakAgain, TypeOK, Cancelled
<1>2. CASE FirstByte
  BY <1>0, <1>2 DEF FirstByte, TypeOK, Cancelled
<1>3. CASE BailOut
  <2>1. toS' \in Seq(Answers) /\ toS' # <<>> /\ toS'[Len(toS')] = "CAN"
    BY <1>0, <1>3 DEF BailOut, uart_putc, Answers
  <2> QED BY <1>0, <1>3, <2>1 DEF BailOut, TypeOK, Cancelled
<1>4. CASE ShowPrompt
  BY <1>0, <1>4 DEF ShowPrompt, TypeOK, Cancelled
<1>5. CASE ReadKey
  <2>1. fifo' \in Seq(Byte) /\ Len(fifo') <= FifoSize
    BY <1>0, <1>5, Constants DEF ReadKey, uart_getc, uart_can_getc, TypeOK
  <2> QED BY <1>0, <1>5, <2>1 DEF ReadKey, TypeOK, Cancelled
<1>6. CASE Deliver
  <2>1. Head(toR) \in Byte /\ toR' \in Seq(Byte)
    BY <1>0, <1>6 DEF Deliver
  <2>2. PICK b \in Byte : fifo' = Append(fifo, b)
    <3>1. \A b \in Flipped(Head(toR)) : b \in Byte
      BY DEF Flipped
    <3> QED BY <1>6, <2>1, <3>1 DEF Deliver
  <2>3. fifo' \in Seq(Byte) /\ Len(fifo') = Len(fifo) + 1
    BY <1>0, <2>2
  <2>4. flips' \in 0 .. Flips /\ damaged' \in BOOLEAN /\ torn' \in BOOLEAN
    <3>1. /\ flips \in 0 .. Flips /\ Flips \in Nat
          /\ flips' = flips \/ (flips > 0 /\ flips' = flips - 1)
      BY <1>0, <1>6, Constants DEF Deliver, TypeOK
    <3>2. flips' \in 0 .. Flips
      BY <3>1
    <3>3. damaged' \in BOOLEAN /\ torn' \in BOOLEAN
      BY <1>0, <1>6 DEF Deliver, TypeOK
    <3> QED BY <3>2, <3>3
  <2> QED BY <1>0, <1>6, <2>1, <2>3, <2>4, Constants DEF Deliver, TypeOK, Cancelled
<1>7. CASE Overrun
  <2>1. toR' \in Seq(Byte)
    BY <1>0, <1>7 DEF Overrun
  <2> QED BY <1>0, <1>7, <2>1 DEF Overrun, TypeOK, Cancelled
<1>8. CASE Lose
  <2>1. losses' \in 0 .. Losses
    BY <1>0, <1>8, Constants DEF Lose, TypeOK
  <2>2. CASE toR # <<>> /\ toR' = Tail(toR) /\ torn' = TRUE /\ UNCHANGED toS
    <3>1. toR' \in Seq(Byte)
      BY <1>0, <2>2
    <3>2. UNCHANGED <<receiver, fifo, sender, flips, damaged, eager, toS>>
      BY <1>8, <2>2 DEF Lose
    <3>3. TypeOK'
      BY <1>0, <2>1, <2>2, <3>1, <3>2 DEF TypeOK
    <3>4. Cancelled'
      BY <1>0, <3>2 DEF Cancelled
    <3>5. ImageIsLong'
      BY <1>0, <3>2 DEF ImageIsLong, Written
    <3> QED BY <3>3, <3>4, <3>5
  <2>3. CASE toS # <<>> /\ Head(toS) # "CAN" /\ toS' = Tail(toS) /\ UNCHANGED <<toR, torn>>
    <3>1. toS' \in Seq(Answers)
      BY <1>0, <2>3
    <3>2. toS[Len(toS)] = "CAN" => toS' # <<>> /\ toS'[Len(toS')] = "CAN"
      <4> QED BY <1>0, <2>3, TailIs
    <3> QED BY <1>0, <1>8, <2>1, <2>3, <3>1, <3>2 DEF Lose, TypeOK, Cancelled
  <2> QED BY <1>8, <2>2, <2>3 DEF Lose
<1>9. CASE StartSender
  BY <1>0, <1>9 DEF StartSender, TypeOK, Cancelled
<1>10. CASE TakeAnswer
  <2>1. toS # <<>> /\ toS' = Tail(toS) /\ toS' \in Seq(Answers)
    BY <1>0, <1>10 DEF TakeAnswer
  <2>2. toS[Len(toS)] = "CAN" =>
          \/ Head(toS) = "CAN" /\ toS' = <<>>
          \/ toS' # <<>> /\ toS'[Len(toS')] = "CAN"
    <3> QED BY <1>0, <2>1, TailIs
  <2>3. n \in 1 .. Len(File) + 1 /\ (n <= Len(File) => n + 1 \in 1 .. Len(File) + 1)
    BY <1>0 DEF TypeOK
  <2>4. /\ toR' \in Seq(Byte) /\ n' \in 1 .. Len(File) + 1 /\ retries' \in 0 .. MaxRetries
        /\ damaged' \in BOOLEAN /\ spc' \in {"idle", "ready", "sent", "done"}
        /\ spc' = "ready" => spc = "ready" /\ n' = n
        /\ Head(toS) = "CAN" => spc' # "sent"
    <3>0. retries \in 0 .. MaxRetries
      BY <1>0 DEF TypeOK
    <3>1. CASE /\ Head(toS) = "NAK" /\ Send(n)
               /\ spc = "ready" \/ (spc = "sent" /\ retries < MaxRetries)
               /\ retries' = IF spc = "sent" THEN retries + 1 ELSE 0
      <4>1. toR' \in Seq(Byte) /\ n' = n /\ spc' = "sent" /\ damaged' = FALSE
        BY <2>3, <3>1, SendIs
      <4>2. retries' \in 0 .. MaxRetries
        BY <1>0, <3>0, <3>1
      <4> QED BY <2>3, <3>1, <4>1, <4>2
    <3>2. CASE Head(toS) = "ACK" /\ n <= Len(File) /\ Send(n + 1) /\ retries' = 0
      <4>1. toR' \in Seq(Byte) /\ n' = n + 1 /\ spc' = "sent" /\ damaged' = FALSE
        BY <2>3, <3>2, SendIs
      <4>2. n + 1 \in 1 .. Len(File) + 1 /\ retries' \in 0 .. MaxRetries
        BY <1>0, <2>3, <3>2
      <4> QED BY <3>2, <4>1, <4>2
    <3>3. CASE Head(toS) = "ACK" /\ spc' = "done" /\ UNCHANGED <<toR, n, retries, damaged>>
      BY <1>0, <3>3 DEF TypeOK
    <3>4. CASE Head(toS) = "CAN" /\ spc' = "idle" /\ UNCHANGED <<toR, n, retries, damaged>>
      BY <1>0, <3>4 DEF TypeOK
    <3>5. CASE /\ UNCHANGED <<toR, sender, damaged>>
               /\ \/ spc \in {"idle", "done"}
                  \/ spc = "ready" /\ Head(toS) = "ACK"
                  \/ spc = "sent" /\ Head(toS) = "NAK" /\ retries = MaxRetries
      BY <1>0, <3>5 DEF TypeOK
    <3> QED BY <1>10, <3>1, <3>2, <3>3, <3>4, <3>5 DEF TakeAnswer
  <2>5. UNCHANGED <<rpc, state, block, csum, image, addr, fifo, losses, flips, torn, eager>>
    BY <1>10 DEF TakeAnswer
  <2>6. Cancelled'
    <3>1. rpc = "cancelled" => toS # <<>> /\ toS[Len(toS)] = "CAN"
      BY <1>0, <2>1 DEF Cancelled
    <3> QED BY <1>0, <2>1, <2>2, <2>4, <2>5, <3>1 DEF Cancelled
  <2>7. TypeOK'
    BY <1>0, <2>1, <2>4, <2>5 DEF TypeOK
  <2> QED BY <1>0, <2>5, <2>6, <2>7
<1>11. CASE Timeout
  <2>1. /\ toR' \in Seq(Byte) /\ n' \in 1 .. Len(File) + 1 /\ retries' \in 0 .. MaxRetries
        /\ damaged' \in BOOLEAN /\ spc' \in {"idle", "sent"}
    <3>1. CASE retries < MaxRetries /\ Send(n) /\ retries' = retries + 1
      <4>1. n \in 1 .. Len(File) + 1 /\ retries \in 0 .. MaxRetries
        BY <1>0 DEF TypeOK
      <4>2. toR' \in Seq(Byte) /\ n' = n /\ spc' = "sent" /\ damaged' = FALSE
        BY <3>1, <4>1, SendIs
      <4>3. retries' \in 0 .. MaxRetries
        BY <1>0, <3>1, <4>1
      <4> QED BY <4>1, <4>2, <4>3
    <3>2. CASE retries = MaxRetries /\ spc' = "idle" /\ UNCHANGED <<toR, n, retries, damaged>>
      BY <1>0, <3>2 DEF TypeOK
    <3> QED BY <1>11, <3>1, <3>2 DEF Timeout
  <2> QED BY <1>0, <1>11, <2>1 DEF Timeout, TypeOK, Cancelled
<1>12. CASE PressG
  <2>1. toR' \in Seq(Byte)
    BY <1>12, Constants DEF PressG
  <2> QED BY <1>0, <1>12, <2>1 DEF PressG, TypeOK, Cancelled
<1> QED BY <1>1, <1>2, <1>3, <1>4, <1>5, <1>6, <1>7, <1>8, <1>9, <1>10, <1>11, <1>12

\* The states before and behind the data bytes are no numbers of data bytes.
LEMMA States ==
    /\ StartState = 192 /\ BlockState = 193 /\ InverseState = 194 /\ ErrorState = 255
    /\ {StartState, BlockState, InverseState, ErrorState} \cap 0 .. BlockSize = {}
BY Constants DEF StartState, BlockState, InverseState, ErrorState

\* What the receiver does to the memory of a block: it writes behind what it has.
LEMMA DataIs ==
    ASSUME TypeOK, ImageIsLong, NEW rb \in Byte, Data(rb)
    PROVE  /\ state \in 0 .. BlockSize - 1 /\ addr * BlockSize + state \in Nat
           /\ image' \in Seq(Byte) /\ Len(image') = addr * BlockSize + state + 1
           /\ \A i \in 1 .. addr * BlockSize + state : image'[i] = image[i]
           /\ image'[addr * BlockSize + state + 1] = rb
<1> DEFINE m == addr * BlockSize + state
<1>1. state \in 0 .. BlockSize - 1 /\ Written = state
  BY Constants, States DEF TypeOK, Data, Written
<1>2. addr * BlockSize \in Nat
  BY BlocksAreLong DEF TypeOK
<1>3. m \in Nat /\ m <= Len(image) /\ image \in Seq(Byte) /\ Len(image) \in Nat
  BY <1>1, <1>2 DEF ImageIsLong, TypeOK
<1>4. image' = Append(SubSeq(image, 1, m), rb)
  BY DEF Data
<1> HIDE DEF m
<1>5. /\ SubSeq(image, 1, m) \in Seq(Byte) /\ Len(SubSeq(image, 1, m)) = m
      /\ \A i \in 1 .. m : SubSeq(image, 1, m)[i] = image[i]
  BY <1>3
<1>6. /\ image' \in Seq(Byte) /\ Len(image') = m + 1
      /\ \A i \in 1 .. m : image'[i] = image[i]
      /\ image'[m + 1] = rb
  BY <1>3, <1>4, <1>5
<1> QED BY <1>1, <1>3, <1>6 DEF m

LEMMA BaseGetByte ==
    ASSUME Base, GetByte
    PROVE  Base'
<1> USE DEF Base
<1>0. /\ TypeOK /\ Cancelled /\ ImageIsLong
      /\ fifo \in Seq(Byte) /\ toS \in Seq(Answers) /\ addr \in Nat /\ image \in Seq(Byte)
      /\ csum \in Nat /\ block \in Byte /\ BlockSize \in Nat /\ Byte \subseteq Nat
  BY Constants DEF TypeOK, Byte
<1>1. PICK rb \in Byte :
        /\ uart_getc(rb)
        /\ SohOrEot(rb) \/ BlockNumber(rb) \/ Data(rb) \/ Checksum(rb)
  BY DEF GetByte
<1>2. fifo' \in Seq(Byte) /\ Len(fifo') <= FifoSize /\ fifo # <<>>
  <2>1. fifo # <<>> /\ fifo' = Tail(fifo)
    BY <1>1 DEF uart_getc, uart_can_getc
  <2>2. fifo' \in Seq(Byte) /\ Len(fifo') = Len(fifo) - 1 /\ Len(fifo) \in Nat
    BY <1>0, <2>1, TailIs, NotEmpty
  <2> QED BY <2>1, <2>2, Constants DEF TypeOK
<1>3. rpc = "bytes" /\ UNCHANGED <<toR, spc, n, retries, losses, flips, damaged, torn, eager>>
  BY DEF GetByte, sender, line
<1>4. Append(toS, "ACK") \in Seq(Answers)
  BY <1>0 DEF Answers
<1>5. Written \in Nat /\ addr * BlockSize \in Nat
      /\ (addr + 1) * BlockSize = addr * BlockSize + BlockSize /\ Len(image) \in Nat
  BY <1>0, BlocksAreLong DEF Written
<1>6. CASE SohOrEot(rb)
  <2>1. /\ toS' \in Seq(Answers) /\ csum' \in Nat
        /\ state' \in {StartState, BlockState, ErrorState}
        /\ rpc' \in {"bytes", "ended"} /\ UNCHANGED <<block, image, addr>>
    BY <1>0, <1>3, <1>4, <1>6 DEF SohOrEot, uart_putc
  <2>2. Written' = 0
    BY <2>1, States DEF Written
  <2>3. ImageIsLong'
    BY <1>0, <1>5, <2>1, <2>2 DEF ImageIsLong
  <2> QED BY <1>0, <1>2, <1>3, <2>1, <2>3 DEF TypeOK, Cancelled
<1>7. CASE BlockNumber(rb)
  <2>1. /\ csum' \in Nat /\ state' \in {0, InverseState, ErrorState}
        /\ UNCHANGED <<rpc, block, image, addr, toS>>
    BY <1>0, <1>7 DEF BlockNumber
  <2>2. Written' = 0
    BY <2>1, States DEF Written
  <2>3. ImageIsLong'
    BY <1>0, <1>5, <2>1, <2>2 DEF ImageIsLong
  <2>4. state' \in 0 .. BlockSize \cup {StartState, BlockState, InverseState, ErrorState}
    BY <1>0, <2>1
  <2> QED BY <1>0, <1>2, <1>3, <2>1, <2>3, <2>4 DEF TypeOK, Cancelled
<1>8. CASE Data(rb)
  <2>1. /\ csum' \in Nat /\ state' = state + 1 /\ UNCHANGED <<rpc, block, addr, toS>>
    BY <1>0, <1>8 DEF Data
  <2>2. /\ state \in 0 .. BlockSize - 1 /\ image' \in Seq(Byte)
        /\ Len(image') = addr * BlockSize + state + 1
    BY <1>0, <1>8, DataIs
  <2>3. state' \in 0 .. BlockSize
    BY <1>0, <2>1, <2>2
  <2>4. Written' = state + 1
    BY <2>1, <2>3 DEF Written
  <2>5. ImageIsLong'
    BY <1>5, <2>1, <2>2, <2>4 DEF ImageIsLong
  <2> QED BY <1>0, <1>2, <1>3, <2>1, <2>2, <2>3, <2>5 DEF TypeOK, Cancelled
<1>9. CASE Checksum(rb)
  <2>1. /\ csum' \in Nat /\ toS' \in Seq(Answers) /\ UNCHANGED <<rpc, image>>
        /\ state' \in {StartState, ErrorState}
        /\ \/ addr' = addr + 1 /\ block' = NextBlock
           \/ addr' = addr /\ block' = block
    <3>1. csum' \in Nat
      BY <1>0, <1>9, Constants DEF Checksum
    <3> QED BY <1>0, <1>4, <1>9, <3>1 DEF Checksum, uart_putc
  <2>2. block' \in Byte /\ addr' \in Nat
    <3>1. NextBlock \in Byte
      BY <1>0, NextNumber DEF NextBlock
    <3> QED BY <1>0, <2>1, <3>1
  <2>3. Written' = 0 /\ Written = BlockSize
    <3>1. state = BlockSize /\ state \in 0 .. BlockSize
      BY <1>0, <1>9 DEF Checksum
    <3>2. state' \notin 0 .. BlockSize
      BY <2>1, States
    <3> QED BY <3>1, <3>2 DEF Written
  <2>4. ImageIsLong'
    BY <1>0, <1>5, <2>1, <2>3 DEF ImageIsLong
  <2> QED BY <1>0, <1>2, <1>3, <2>1, <2>2, <2>4 DEF TypeOK, Cancelled
<1> QED BY <1>1, <1>6, <1>7, <1>8, <1>9

LEMMA BaseRestart ==
    ASSUME Base, Restart
    PROVE  /\ Base' /\ state' = StartState /\ block' = 1 /\ addr' = 0
           /\ toR' = <<>> /\ toS' = <<"NAK">> /\ fifo' = fifo
           /\ torn' = (fifo # <<>>) /\ spc' = spc /\ spc # "sent" /\ n' = n
<1>0. TypeOK /\ Cancelled
  BY DEF Base
<1>1. /\ rpc = "cancelled" /\ rpc' = "wait" /\ toR = <<>> /\ toS = <<>>
      /\ state' = StartState /\ block' = 1 /\ csum' = 0 /\ image' = <<>> /\ addr' = 0
      /\ toS' = <<"NAK">> /\ torn' = (fifo # <<>>)
      /\ UNCHANGED <<fifo, toR, spc, n, retries, losses, flips, damaged, eager>>
  BY <1>0 DEF Restart, SecondsPass, FirstState, uart_putc, sender, line, TypeOK
<1>2. toS' \in Seq(Answers) /\ image' \in Seq(Byte) /\ block' \in Byte
  BY <1>1, Constants DEF Answers, Byte
<1>3. TypeOK'
  BY <1>0, <1>1, <1>2 DEF TypeOK
<1>4. ImageIsLong'
  <2>1. Written' = 0
    BY <1>1, States DEF Written
  <2>2. addr' * BlockSize = 0 /\ Len(image') = 0
    BY <1>1, Constants
  <2> QED BY <2>1, <2>2 DEF ImageIsLong
<1>5. Cancelled' /\ spc # "sent"
  BY <1>0, <1>1 DEF Cancelled
<1> QED BY <1>1, <1>3, <1>4, <1>5 DEF Base

LEMMA BaseStep ==
    ASSUME Base, [Next]_vars
    PROVE  Base'
<1>1. CASE UNCHANGED vars
  BY <1>1 DEF Base, ImageIsLong, Written, TypeOK, Cancelled, vars, receiver, sender, line
<1>2. CASE Next
  BY <1>2, BaseOthers, BaseGetByte, BaseRestart DEF Next, Receiver
<1> QED BY <1>1, <1>2

--------------------------------------------------------------------------------
(* The wire. *)

LEMMA TwoParts ==
    ASSUME NEW a \in Seq(Byte), NEW b \in Seq(Byte)
    PROVE  /\ a \o b \in Seq(Byte) /\ Len(a \o b) = Len(a) + Len(b)
           /\ Len(a) \in Nat /\ Len(b) \in Nat /\ Len(a \o b) \in Nat
           /\ \A i \in 1 .. Len(a \o b) : (a \o b)[i] = IF i <= Len(a) THEN a[i] ELSE b[i - Len(a)]
           /\ a \o b = <<>> <=> a = <<>> /\ b = <<>>
           /\ Len(a \o b) = 0 => a \o b = <<>>
<1>1. /\ a \o b \in Seq(Byte) /\ Len(a \o b) = Len(a) + Len(b)
      /\ \A i \in 1 .. Len(a) + Len(b) :
            (a \o b)[i] = IF i <= Len(a) THEN a[i] ELSE b[i - Len(a)]
  BY ConcatProperties
<1>2. Len(a) \in Nat /\ Len(b) \in Nat
  BY NotEmpty
<1>3. /\ a = <<>> <=> Len(a) = 0
      /\ b = <<>> <=> Len(b) = 0
      /\ a \o b = <<>> <=> Len(a \o b) = 0
  BY <1>1, NotEmpty
<1>4. a \o b = <<>> <=> a = <<>> /\ b = <<>>
  BY <1>1, <1>2, <1>3
<1> QED BY <1>1, <1>2, <1>3, <1>4

LEMMA WireIs ==
    ASSUME TypeOK
    PROVE  /\ wire \in Seq(Byte) /\ Len(wire) = Len(fifo) + Len(toR)
           /\ Len(fifo) \in Nat /\ Len(toR) \in Nat /\ Len(wire) \in Nat
           /\ \A i \in 1 .. Len(wire) :
                wire[i] = IF i <= Len(fifo) THEN fifo[i] ELSE toR[i - Len(fifo)]
           /\ wire = <<>> <=> fifo = <<>> /\ toR = <<>>
           /\ Len(wire) = 0 => wire = <<>>
<1>1. fifo \in Seq(Byte) /\ toR \in Seq(Byte)
  BY DEF TypeOK
<1> QED BY <1>1, TwoParts DEF wire

\* The receiver takes the first byte.
LEMMA WireRead ==
    ASSUME TypeOK, TypeOK', NEW rb, uart_getc(rb), toR' = toR
    PROVE  /\ wire # <<>> /\ rb = wire[1] /\ Len(wire) >= 1
           /\ Len(wire') = Len(wire) - 1
           /\ \A i \in 1 .. Len(wire) - 1 : wire'[i] = wire[i + 1]
<1>1. fifo \in Seq(Byte) /\ fifo # <<>> /\ rb = Head(fifo) /\ fifo' = Tail(fifo)
  BY DEF TypeOK, uart_getc, uart_can_getc
<1>2. /\ Head(fifo) = fifo[1] /\ Len(fifo') = Len(fifo) - 1
      /\ \A i \in 1 .. Len(fifo) - 1 : fifo'[i] = fifo[i + 1]
      /\ Len(fifo) \in Nat /\ Len(fifo) >= 1
  BY <1>1, TailIs, NotEmpty
<1>3. /\ Len(wire) = Len(fifo) + Len(toR) /\ Len(toR) \in Nat
      /\ \A i \in 1 .. Len(wire) :
           wire[i] = IF i <= Len(fifo) THEN fifo[i] ELSE toR[i - Len(fifo)]
      /\ wire = <<>> <=> fifo = <<>> /\ toR = <<>>
  BY WireIs
<1>4. /\ Len(wire') = Len(fifo') + Len(toR')
      /\ \A i \in 1 .. Len(wire') :
           wire'[i] = IF i <= Len(fifo') THEN fifo'[i] ELSE toR'[i - Len(fifo')]
  <2>1. fifo' \in Seq(Byte) /\ toR' \in Seq(Byte)
    BY DEF TypeOK
  <2> QED BY <2>1, TwoParts DEF wire
<1>5. Len(wire') = Len(wire) - 1 /\ Len(wire) >= 1 /\ Len(wire) \in Nat
  BY <1>2, <1>3, <1>4
<1>6. rb = wire[1] /\ wire # <<>>
  BY <1>1, <1>2, <1>3, <1>5
<1>7. ASSUME NEW i \in 1 .. Len(wire) - 1 PROVE wire'[i] = wire[i + 1]
  <2>1. /\ wire'[i] = IF i <= Len(fifo) - 1 THEN fifo'[i] ELSE toR[i - (Len(fifo) - 1)]
        /\ wire[i + 1] = IF i + 1 <= Len(fifo) THEN fifo[i + 1] ELSE toR[i + 1 - Len(fifo)]
    BY <1>2, <1>3, <1>4, <1>5
  <2>2. i - (Len(fifo) - 1) = i + 1 - Len(fifo) /\ (i <= Len(fifo) - 1 <=> i + 1 <= Len(fifo))
    BY <1>2
  <2>3. i <= Len(fifo) - 1 => fifo'[i] = fifo[i + 1]
    BY <1>2
  <2> QED BY <2>1, <2>2, <2>3
<1> QED BY <1>5, <1>6, <1>7

\* The line brings a byte, perhaps another one, to the UART.
LEMMA WireDeliver ==
    ASSUME TypeOK, TypeOK', toR # <<>>, toR' = Tail(toR), NEW b \in Byte,
           fifo' = Append(fifo, b)
    PROVE  /\ Len(wire') = Len(wire) /\ Len(fifo) + 1 \in 1 .. Len(wire)
           /\ Head(toR) = wire[Len(fifo) + 1] /\ wire'[Len(fifo) + 1] = b
           /\ Len(toR') <= Len(toR)
           /\ \A i \in 1 .. Len(wire) : i # Len(fifo) + 1 => wire'[i] = wire[i]
<1>1. fifo \in Seq(Byte) /\ toR \in Seq(Byte)
  BY DEF TypeOK
<1>2. /\ Head(toR) = toR[1] /\ Len(toR') = Len(toR) - 1
      /\ \A i \in 1 .. Len(toR) - 1 : toR'[i] = toR[i + 1]
      /\ Len(toR) \in Nat /\ Len(toR) >= 1
  BY <1>1, TailIs, NotEmpty
<1>3. /\ Len(fifo) \in Nat /\ Len(fifo') = Len(fifo) + 1 /\ fifo'[Len(fifo) + 1] = b
      /\ \A i \in 1 .. Len(fifo) : fifo'[i] = fifo[i]
  BY <1>1
<1>4. /\ Len(wire) = Len(fifo) + Len(toR)
      /\ \A i \in 1 .. Len(wire) :
           wire[i] = IF i <= Len(fifo) THEN fifo[i] ELSE toR[i - Len(fifo)]
  BY WireIs
<1>5. /\ Len(wire') = Len(fifo') + Len(toR')
      /\ \A i \in 1 .. Len(wire') :
           wire'[i] = IF i <= Len(fifo') THEN fifo'[i] ELSE toR'[i - Len(fifo')]
  <2>1. fifo' \in Seq(Byte) /\ toR' \in Seq(Byte)
    BY DEF TypeOK
  <2> QED BY <2>1, TwoParts DEF wire
<1>6. Len(wire') = Len(wire) /\ Len(fifo) + 1 \in 1 .. Len(wire) /\ Len(toR') <= Len(toR)
  BY <1>2, <1>3, <1>4, <1>5
<1>7. Head(toR) = wire[Len(fifo) + 1] /\ wire'[Len(fifo) + 1] = b
  BY <1>2, <1>3, <1>4, <1>5, <1>6
<1>8. ASSUME NEW i \in 1 .. Len(wire), i # Len(fifo) + 1 PROVE wire'[i] = wire[i]
  <2>1. CASE i <= Len(fifo)
    BY <1>3, <1>4, <1>5, <1>6, <2>1
  <2>2. CASE i > Len(fifo) + 1
    <3>1. wire'[i] = toR'[i - (Len(fifo) + 1)] /\ wire[i] = toR[i - Len(fifo)]
      BY <1>3, <1>4, <1>5, <1>6, <2>2
    <3>2. i - (Len(fifo) + 1) \in 1 .. Len(toR) - 1 /\ i - (Len(fifo) + 1) + 1 = i - Len(fifo)
      BY <1>2, <1>3, <1>4, <2>2
    <3>3. toR'[i - (Len(fifo) + 1)] = toR[i - (Len(fifo) + 1) + 1]
      BY <1>2, <3>2
    <3> QED BY <3>1, <3>2, <3>3
  <2> QED BY <1>3, <1>8, <2>1, <2>2
<1> QED BY <1>6, <1>7, <1>8

\* A packet follows what is on the wire.
LEMMA WireSend ==
    ASSUME TypeOK, TypeOK', fifo' = fifo, NEW k \in 1 .. Len(File) + 1, Send(k)
    PROVE  /\ wire = fifo /\ Len(wire) <= FifoSize
           /\ Len(wire') = Len(wire) + Len(Packet(k)) /\ toR' = Packet(k)
           /\ \A i \in 1 .. Len(wire) : wire'[i] = wire[i]
           /\ \A i \in 1 .. Len(Packet(k)) : wire'[Len(wire) + i] = Packet(k)[i]
<1>1. toR = <<>> /\ toR' = Packet(k) /\ Packet(k) \in Seq(Byte) /\ fifo \in Seq(Byte)
  BY SendIs, PacketIs DEF TypeOK
<1>2. wire = fifo /\ Len(fifo) \in Nat /\ Len(Packet(k)) \in Nat
  BY <1>1, NotEmpty, ConcatEmptySeq DEF wire
<1>3. /\ Len(wire') = Len(fifo') + Len(toR')
      /\ \A i \in 1 .. Len(wire') :
           wire'[i] = IF i <= Len(fifo') THEN fifo'[i] ELSE toR'[i - Len(fifo')]
  <2>1. fifo' \in Seq(Byte) /\ toR' \in Seq(Byte)
    BY DEF TypeOK
  <2> QED BY <2>1, TwoParts DEF wire
<1>4. \A i \in 1 .. Len(wire) : wire'[i] = wire[i]
  BY <1>1, <1>2, <1>3
<1>5. ASSUME NEW i \in 1 .. Len(Packet(k)) PROVE wire'[Len(wire) + i] = Packet(k)[i]
  <2>1. Len(wire) + i \in 1 .. Len(wire') /\ ~(Len(wire) + i <= Len(fifo))
        /\ Len(wire) + i - Len(fifo) = i
    BY <1>1, <1>2, <1>3
  <2> QED BY <1>1, <1>3, <2>1
<1>6. Len(wire) <= FifoSize
  BY <1>2 DEF TypeOK
<1> QED BY <1>1, <1>2, <1>3, <1>4, <1>5, <1>6

--------------------------------------------------------------------------------
(* Packets on a wire w that becomes v. *)

Stream == Seq(Byte)

LEMMA IntactIsCarried ==
    ASSUME NEW w, NEW p, NEW from, NEW at, Intact(w, p, from, at)
    PROVE  Carries(w, p, from, at)
BY DEF Intact, Carries

\* Whatever happens elsewhere on the wire.
LEMMA Stays ==
    ASSUME NEW w, NEW v, NEW p \in Stream, NEW from \in Nat, NEW at \in Int,
           \A i \in at + from + 1 .. at + Len(p) : v[i] = w[i]
    PROVE  /\ Carries(w, p, from, at) => Carries(v, p, from, at)
           /\ Intact(w, p, from, at) => Intact(v, p, from, at)
<1>1. Len(p) \in Nat
  BY DEF Stream
<1>2. \A i \in from + 1 .. Len(p) : v[at + i] = w[at + i]
  BY <1>1
<1> QED BY <1>2 DEF Carries, Intact

\* The first byte is taken, a byte of p or one before it.
LEMMA Shifted ==
    ASSUME NEW w \in Stream, NEW v, NEW p \in Stream, NEW from \in Nat, NEW next \in Nat,
           NEW at \in Int, from <= next, next + at >= 1, Len(p) + at <= Len(w),
           \A i \in 1 .. Len(w) - 1 : v[i] = w[i + 1]
    PROVE  /\ Carries(w, p, from, at) => Carries(v, p, next, at - 1)
           /\ Intact(w, p, from, at) => Intact(v, p, next, at - 1)
<1>1. Len(p) \in Nat /\ Len(w) \in Nat
  BY DEF Stream
<1>2. \A i \in next + 1 .. Len(p) : v[at - 1 + i] = w[at + i]
  <2> SUFFICES ASSUME NEW i \in next + 1 .. Len(p) PROVE v[at - 1 + i] = w[at + i]
    OBVIOUS
  <2>1. at - 1 + i \in 1 .. Len(w) - 1 /\ at - 1 + i + 1 = at + i
    BY <1>1
  <2>2. v[at - 1 + i] = w[at - 1 + i + 1]
    BY <2>1
  <2> QED BY <2>1, <2>2
<1>3. \A i \in next + 1 .. Len(p) : i \in from + 1 .. Len(p)
  BY <1>1
<1> QED BY <1>2, <1>3 DEF Carries, Intact

\* The byte taken is the damaged one, so the rest is not damaged.
LEMMA OnlyOne ==
    ASSUME NEW w \in Stream, NEW v, NEW p \in Stream, NEW from \in Nat,
           from < Len(p), Len(p) - from <= Len(w),
           \A i \in 1 .. Len(w) - 1 : v[i] = w[i + 1],
           Carries(w, p, from, -from), w[1] # p[from + 1]
    PROVE  Intact(v, p, from + 1, -(from + 1))
<1>1. Len(p) \in Nat /\ Len(w) \in Nat
  BY DEF Stream
<1> SUFFICES ASSUME NEW i \in from + 1 + 1 .. Len(p)
             PROVE  v[-(from + 1) + i] = p[i]
  BY DEF Intact
<1>2. v[-(from + 1) + i] = w[-from + i]
  <2>1. -(from + 1) + i \in 1 .. Len(w) - 1 /\ -(from + 1) + i + 1 = -from + i
    BY <1>1
  <2>2. v[-(from + 1) + i] = w[-(from + 1) + i + 1]
    BY <2>1
  <2> QED BY <2>1, <2>2
<1>3. w[-from + (from + 1)] # p[from + 1] /\ from + 1 \in from + 1 .. Len(p)
  <2>1. -from + (from + 1) = 1
    OBVIOUS
  <2> QED BY <1>1, <2>1
<1>4. i \in from + 1 .. Len(p) /\ i # from + 1
  BY <1>1
<1>5. w[-from + i] = p[i]
  BY <1>3, <1>4 DEF Carries
<1> QED BY <1>2, <1>5

\* The first byte that is taken is the packet's or a damaged one.
LEMMA FirstIs ==
    ASSUME NEW w \in Stream, NEW p \in Stream, NEW from \in Nat, from < Len(p)
    PROVE  /\ Carries(w, p, from, -from) => w[1] \in {p[from + 1]} \cup Flipped(p[from + 1])
           /\ Intact(w, p, from, -from) => w[1] = p[from + 1]
<1>1. from + 1 \in from + 1 .. Len(p) /\ -from + (from + 1) = 1
  BY DEF Stream
<1> QED BY <1>1 DEF Carries, Intact

\* One byte of an intact packet is damaged.
LEMMA Damaged ==
    ASSUME NEW w, NEW v, NEW p \in Stream, NEW from \in Nat, NEW at \in Int,
           Intact(w, p, from, at), NEW h \in Int, v[h] \in Flipped(w[h]),
           \A i \in at + from + 1 .. at + Len(p) : i # h => v[i] = w[i]
    PROVE  Carries(v, p, from, at)
<1>1. Len(p) \in Nat
  BY DEF Stream
<1>2. ASSUME NEW i \in from + 1 .. Len(p)
      PROVE  /\ v[at + i] \in {p[i]} \cup Flipped(p[i])
             /\ v[at + i] # p[i] => at + i = h
  <2>1. w[at + i] = p[i] /\ at + i \in at + from + 1 .. at + Len(p)
    BY <1>1 DEF Intact
  <2>2. CASE at + i = h
    BY <2>1, <2>2
  <2>3. CASE at + i # h
    BY <2>1, <2>3
  <2> QED BY <2>2, <2>3
<1>3. ASSUME NEW i \in from + 1 .. Len(p), NEW j \in from + 1 .. Len(p),
             v[at + i] # p[i], v[at + j] # p[j]
      PROVE  i = j
  BY <1>1, <1>2, <1>3
<1> QED BY <1>2, <1>3 DEF Carries

--------------------------------------------------------------------------------
(* Transfers: the actions that leave the wire and the receiver's packet alone. *)

LEMMA Frame ==
    ASSUME UNCHANGED <<fifo, toR, state, csum, block, addr, image, n, damaged>>
    PROVE  /\ wire' = wire /\ Read' = Read /\ this' = this
           /\ BlocksAreFiles' <=> BlocksAreFiles
           /\ Alone(Packet(this))' <=> Alone(Packet(this))
           /\ ThisComes' <=> ThisComes
           /\ LastComes' <=> LastComes
<1>1. wire' = wire /\ Read' = Read /\ this' = this /\ Written' = Written
  BY DEF wire, Read, this, Written
<1>2. SumIsRight' <=> SumIsRight
  BY <1>1 DEF SumIsRight, Sum
<1>3. SumIsWrong' <=> SumIsWrong
  BY <1>1 DEF SumIsWrong, Sum
<1>4. BlocksAreFiles' <=> BlocksAreFiles
  BY DEF BlocksAreFiles
<1>5. /\ Alone(Packet(this))' <=> Alone(Packet(this))
      /\ Alone(Packet(addr))' <=> Alone(Packet(addr))
      /\ Follows(Packet(this))' <=> Follows(Packet(this))
      /\ Follows(Packet(addr))' <=> Follows(Packet(addr))
  BY <1>1 DEF Alone, Follows
<1>6. ThisComes' <=> ThisComes
  BY <1>1, <1>2, <1>3, <1>5 DEF ThisComes
<1>7. LastComes' <=> LastComes
  BY <1>1, <1>5 DEF LastComes
<1> QED BY <1>1, <1>4, <1>5, <1>6, <1>7

\* A packet is read from its first byte on.
LEMMA AtStart ==
    ASSUME state = StartState
    PROVE  Read = 0 /\ Written = 0 /\ ~Follows(Packet(this))
BY States DEF Read, Written, Follows

\* Of the packet under way there are bytes left, and they are on the wire.
LEMMA ReadIs ==
    ASSUME TypeOK, state # ErrorState
    PROVE  /\ Read \in 0 .. BlockSize + 3
           /\ \/ state = StartState /\ Read = 0
              \/ state = BlockState /\ Read = 1
              \/ state = InverseState /\ Read = 2
              \/ state \in 0 .. BlockSize /\ Read = 3 + state
<1>1. state \in 0 .. BlockSize \cup {StartState, BlockState, InverseState}
  BY DEF TypeOK
<1>2. BlockSize \in Nat
  BY Constants
<1>3. CASE state \in 0 .. BlockSize
  <2>1. Read = 3 + state
    BY <1>3, States DEF Read
  <2> QED BY <1>2, <1>3, <2>1
<1>4. CASE state \in {StartState, BlockState, InverseState}
  <2>1. \/ state = StartState /\ Read = 0
        \/ state = BlockState /\ Read = 1
        \/ state = InverseState /\ Read = 2
    BY <1>4, States DEF Read
  <2> QED BY <1>2, <2>1
<1> QED BY <1>1, <1>3, <1>4

LEMMA ThisIs ==
    ASSUME TypeOK, state # ErrorState, addr <= Len(File), ThisComes
    PROVE  /\ this \in 1 .. Len(File) + 1 /\ Packet(this) \in Stream /\ Len(Packet(this)) \in Nat
           /\ Read < Len(Packet(this)) /\ Len(Packet(this)) - Read <= Len(wire)
           /\ Read > 0 => this <= Len(File)
           /\ wire # <<>>
<1>1. /\ addr \in Nat /\ n \in 1 .. Len(File) + 1 /\ Len(File) \in Nat
      /\ Read \in 0 .. BlockSize + 3 /\ BlockSize \in Nat
  BY Constants, ReadIs DEF TypeOK
<1>2. this \in 1 .. Len(File) + 1 /\ (Read > 0 => this \in 1 .. Len(File))
  BY <1>1 DEF this, ThisComes
<1>3. /\ Packet(this) \in Stream /\ Read < Len(Packet(this)) /\ Len(Packet(this)) \in Nat
      /\ Len(Packet(n)) \in Nat
  <2>1. Packet(this) \in Stream /\ Packet(n) \in Stream
    BY <1>1, <1>2, PacketIs DEF Stream
  <2>2. CASE Read > 0
    BY <1>1, <1>2, <2>1, <2>2, PacketIs DEF Stream
  <2>3. CASE Read = 0
    BY <1>1, <1>2, <2>1, <2>3, PacketIs DEF Stream
  <2> QED BY <1>1, <2>2, <2>3
<1>4. Len(Packet(this)) - Read <= Len(wire)
  BY <1>1, <1>3 DEF ThisComes, Alone, Follows
<1>5. wire # <<>>
  BY <1>1, <1>3, <1>4, WireIs, NotEmpty
<1> QED BY <1>2, <1>3, <1>4, <1>5

LEMMA LastIs ==
    ASSUME TypeOK, addr <= Len(File), LastComes
    PROVE  /\ addr \in 1 .. Len(File) /\ Packet(addr) \in Stream
           /\ Len(Packet(addr)) = BlockSize + 4
           /\ Len(Packet(addr)) - Read <= Len(wire)
           /\ wire # <<>>
<1>1. /\ addr \in Nat /\ n \in 1 .. Len(File) + 1 /\ Len(File) \in Nat
      /\ Read \in 0 .. 2 /\ BlockSize \in Nat /\ addr > 0
  BY Constants DEF TypeOK, LastComes
<1>2. addr \in 1 .. Len(File) /\ addr \in 1 .. Len(File) + 1 /\ addr # Len(File) + 1
  BY <1>1
<1>3. /\ Packet(addr) \in Stream /\ Len(Packet(addr)) = BlockSize + 4 /\ Len(Packet(n)) \in Nat
  BY <1>1, <1>2, PacketIs DEF Stream
<1>4. Len(Packet(addr)) - Read <= Len(wire)
  BY <1>1, <1>3 DEF LastComes, Alone, Follows
<1>5. wire # <<>>
  BY <1>1, <1>3, <1>4, WireIs, NotEmpty
<1> QED BY <1>2, <1>3, <1>4, <1>5

\* A healthy transfer: what an action that concerns the line has to preserve.
LEMMA Healthy ==
    ASSUME Transfer, rpc \in {"wait", "bytes"}, state # ErrorState
    PROVE  (Quiet \/ Expecting \/ Repeated) /\ addr <= Len(File) /\ block = this % Values
BY DEF Transfer, BlocksAreFiles

\* The CAN comes behind what the sender is told already.
LEMMA Cancelling ==
    /\ \A s \in Unanswered : Append(s, "CAN") \in Refused
    /\ \A s \in Answered : Append(s, "CAN") \in Revoked
<1>1. ASSUME NEW s \in Seq(Answers), NEW t \in Seq(Answers), Len(t) = Len(s) + 1,
             \A i \in 1 .. Len(s) : t[i] = s[i], t[Len(s) + 1] = "CAN"
      PROVE  Append(s, "CAN") = t
  <2>1. /\ Append(s, "CAN") \in Seq(Answers) /\ Len(Append(s, "CAN")) = Len(t)
        /\ \A i \in 1 .. Len(t) : Append(s, "CAN")[i] = t[i]
    BY <1>1 DEF Answers
  <2> QED BY <2>1, <1>1, SeqEqual
<1>2. /\ <<"NAK">> \in Seq(Answers) /\ <<"NAK", "CAN">> \in Seq(Answers)
      /\ <<"ACK">> \in Seq(Answers) /\ <<"ACK", "CAN">> \in Seq(Answers)
      /\ <<"NAK", "ACK">> \in Seq(Answers) /\ <<"NAK", "ACK", "CAN">> \in Seq(Answers)
  BY DEF Answers
<1>3. Append(<<>>, "CAN") = <<"CAN">>
  OBVIOUS
<1>4. Append(<<"NAK">>, "CAN") = <<"NAK", "CAN">>
  <2> DEFINE s == <<"NAK">>
             t == <<"NAK", "CAN">>
  <2>1. Len(s) = 1 /\ Len(t) = 2 /\ t[2] = "CAN" /\ \A i \in 1 .. 1 : t[i] = s[i]
    OBVIOUS
  <2>2. s \in Seq(Answers) /\ t \in Seq(Answers)
    BY <1>2
  <2> HIDE DEF s, t
  <2>3. Len(t) = Len(s) + 1 /\ t[Len(s) + 1] = "CAN" /\ \A i \in 1 .. Len(s) : t[i] = s[i]
    BY <2>1
  <2>4. Append(s, "CAN") = t
    BY <1>1, <2>2, <2>3
  <2> QED BY <2>4 DEF s, t
<1>5. Append(<<"ACK">>, "CAN") = <<"ACK", "CAN">>
  <2> DEFINE s == <<"ACK">>
             t == <<"ACK", "CAN">>
  <2>1. Len(s) = 1 /\ Len(t) = 2 /\ t[2] = "CAN" /\ \A i \in 1 .. 1 : t[i] = s[i]
    OBVIOUS
  <2>2. s \in Seq(Answers) /\ t \in Seq(Answers)
    BY <1>2
  <2> HIDE DEF s, t
  <2>3. Len(t) = Len(s) + 1 /\ t[Len(s) + 1] = "CAN" /\ \A i \in 1 .. Len(s) : t[i] = s[i]
    BY <2>1
  <2>4. Append(s, "CAN") = t
    BY <1>1, <2>2, <2>3
  <2> QED BY <2>4 DEF s, t
<1>6. Append(<<"NAK", "ACK">>, "CAN") = <<"NAK", "ACK", "CAN">>
  <2> DEFINE s == <<"NAK", "ACK">>
             t == <<"NAK", "ACK", "CAN">>
  <2>1. Len(s) = 2 /\ Len(t) = 3 /\ t[3] = "CAN" /\ \A i \in 1 .. 2 : t[i] = s[i]
    OBVIOUS
  <2>2. s \in Seq(Answers) /\ t \in Seq(Answers)
    BY <1>2
  <2> HIDE DEF s, t
  <2>3. Len(t) = Len(s) + 1 /\ t[Len(s) + 1] = "CAN" /\ \A i \in 1 .. Len(s) : t[i] = s[i]
    BY <2>1
  <2>4. Append(s, "CAN") = t
    BY <1>1, <2>2, <2>3
  <2> QED BY <2>4 DEF s, t
<1> QED BY <1>3, <1>4, <1>5, <1>6 DEF Unanswered, Answered, Refused, Revoked

LEMMA TransferOthers ==
    ASSUME Base, Transfer,
           NakAgain \/ FirstByte \/ BailOut \/ ShowPrompt \/ ReadKey \/ StartSender \/ PressG
    PROVE  Transfer'
<1> USE DEF receiver, sender, line
<1>0. TypeOK /\ Cancelled
  BY DEF Base
<1>1. CASE NakAgain
  <2>1. /\ rpc = "wait" /\ toS = <<>> /\ toS' = <<"NAK">> /\ state = StartState /\ addr = 0
        /\ UNCHANGED <<rpc, state, csum, block, addr, image, fifo, toR, spc, n, damaged>>
    BY <1>0, <1>1 DEF NakAgain, uart_putc, Cancelled, TypeOK
  <2>2. Quiet \/ Expecting
    BY <2>1, Healthy, States DEF Repeated
  <2>3. wire' = wire /\ this' = this /\ (BlocksAreFiles' <=> BlocksAreFiles)
        /\ (ThisComes' <=> ThisComes) /\ (Alone(Packet(this))' <=> Alone(Packet(this)))
    BY <2>1, Frame
  <2>4. Quiet' \/ Expecting'
    <3>1. CASE Quiet
      BY <2>1, <2>3, <3>1 DEF Quiet
    <3>2. CASE Expecting
      <4>1. Alone(Packet(this))
        BY <2>1, <3>2, AtStart DEF Expecting, ThisComes
      <4> QED BY <2>1, <2>3, <3>2, <4>1 DEF Expecting
    <3> QED BY <2>2, <3>1, <3>2
  <2> QED BY <2>1, <2>3, <2>4, States DEF Transfer
<1>2. CASE FirstByte
  <2>1. /\ rpc = "wait" /\ rpc' = "bytes" /\ fifo # <<>> /\ state = StartState
        /\ UNCHANGED <<state, csum, block, addr, image, fifo, toR, toS, spc, n, damaged>>
    BY <1>0, <1>2 DEF FirstByte, uart_can_getc, Cancelled
  <2>2. Expecting
    <3>1. wire # <<>>
      BY <1>0, <2>1, WireIs
    <3> QED BY <2>1, <3>1, Healthy, States DEF Repeated, Quiet
  <2>3. this' = this /\ (BlocksAreFiles' <=> BlocksAreFiles)
        /\ (ThisComes' <=> ThisComes) /\ (Alone(Packet(this))' <=> Alone(Packet(this)))
    BY <2>1, Frame
  <2>4. Expecting'
    BY <2>1, <2>2, <2>3 DEF Expecting
  <2> QED BY <2>1, <2>3, <2>4, States DEF Transfer
<1>3. CASE BailOut
  <2>1. /\ rpc = "bytes" /\ rpc' = "cancelled" /\ toS' = Append(toS, "CAN") /\ state = ErrorState
        /\ UNCHANGED <<state, csum, block, addr, image, fifo, toR, spc, n, damaged>>
    BY <1>3 DEF BailOut, uart_putc
  <2>2. Failed /\ toS \in Unanswered \cup Answered
    BY <2>1 DEF Transfer, Failed
  <2>3. this' = this /\ (BlocksAreFiles' <=> BlocksAreFiles)
    BY <2>1, Frame
  <2>4. /\ toS \in Unanswered => toS' \in Refused
        /\ toS \in Answered => toS' \in Revoked
    BY <2>1, Cancelling
  <2>5. /\ Refused \cap (Answered \cup Revoked) = {} /\ Unanswered \cap (Answered \cup Revoked) = {}
    BY DEF Unanswered, Answered, Refused, Revoked
  <2>6. Failed'
    BY <2>1, <2>2, <2>3, <2>4, <2>5 DEF Failed
  <2> QED BY <2>1, <2>3, <2>6, States DEF Transfer
<1>4. CASE ShowPrompt \/ ReadKey
  <2>1. /\ rpc \in {"ended", "prompt"} /\ rpc' \in {"prompt", "running"}
        /\ UNCHANGED <<state, csum, block, addr, image>>
    BY <1>4 DEF ShowPrompt, ReadKey
  <2>2. (BlocksAreFiles' <=> BlocksAreFiles) /\ this' = this
    BY <2>1 DEF BlocksAreFiles, this
  <2> QED BY <2>1, <2>2 DEF Transfer
<1>5. CASE StartSender
  <2>1. /\ spc \in {"idle", "done"} /\ spc' = "ready" /\ n' = 1
        /\ UNCHANGED <<rpc, state, csum, block, addr, image, fifo, toR, toS, damaged>>
    BY <1>5 DEF StartSender
  <2>2. (BlocksAreFiles' <=> BlocksAreFiles) /\ this' = this /\ wire' = wire
    BY <2>1 DEF BlocksAreFiles, this, wire
  <2>3. Quiet \/ Expecting \/ Repeated => Quiet'
    BY <2>1, <2>2 DEF Quiet, Expecting, Repeated
  <2>4. Failed => Failed'
    <3>1. addr \in Nat /\ this = addr + 1
      BY <1>0 DEF this, TypeOK
    <3> QED BY <2>1, <2>2, <3>1 DEF Failed
  <2> QED BY <2>1, <2>2, <2>3, <2>4 DEF Transfer
<1>6. CASE PressG
  <2>1. /\ rpc = "prompt" /\ rpc' = rpc /\ UNCHANGED <<state, csum, block, addr, image>>
    BY <1>6 DEF PressG
  <2>2. (BlocksAreFiles' <=> BlocksAreFiles) /\ this' = this
    BY <2>1 DEF BlocksAreFiles, this
  <2> QED BY <2>1, <2>2 DEF Transfer
<1> QED BY <1>1, <1>2, <1>3, <1>4, <1>5, <1>6

\* The receiver begins anew with an empty FIFO, and the sender has been told.
LEMMA TransferRestart ==
    ASSUME Base, Restart
    PROVE  torn' \/ Transfer'
<1> SUFFICES ASSUME ~torn' PROVE Transfer'
  OBVIOUS
<1>1. /\ Base' /\ state' = StartState /\ block' = 1 /\ addr' = 0
      /\ toR' = <<>> /\ toS' = <<"NAK">> /\ fifo' = fifo /\ fifo = <<>>
      /\ spc' # "sent" /\ rpc' = "wait"
  BY BaseRestart DEF Restart
<1>2. Cancelled' /\ TypeOK'
  BY <1>1 DEF Base
<1>3. wire' = <<>>
  BY <1>1 DEF wire
<1>4. Quiet'
  BY <1>1, <1>2, <1>3 DEF Quiet, Cancelled
<1>5. block' = this' % Values
  <2>1. this' = 1
    BY <1>1 DEF this
  <2>2. 1 % Values = 1
    BY Constants
  <2> QED BY <1>1, <2>1, <2>2
<1>6. BlocksAreFiles'
  BY <1>1, Constants DEF BlocksAreFiles
<1> QED BY <1>1, <1>4, <1>5, <1>6, States DEF Transfer

\* The state before the first byte.
LEMMA TransferInit ==
    ASSUME Init
    PROVE  Transfer
<1>1. /\ state = StartState /\ block = 1 /\ addr = 0 /\ toR = <<>> /\ toS = <<"NAK">>
      /\ fifo = <<>> /\ spc = "idle" /\ rpc = "wait"
  BY DEF Init
<1>2. Quiet
  BY <1>1 DEF Quiet, wire
<1>3. this = 1 /\ 1 % Values = 1
  BY <1>1, Constants DEF this
<1>4. BlocksAreFiles
  BY <1>1, Constants DEF BlocksAreFiles
<1> QED BY <1>1, <1>2, <1>3, <1>4, States DEF Transfer

--------------------------------------------------------------------------------
(* Transfers: the line. *)

\* A byte arrives as it was sent, or damaged as the only one of its packet.
LEMMA DeliverIs ==
    ASSUME TypeOK, TypeOK', Deliver, ~torn'
    PROVE  /\ UNCHANGED <<rpc, state, block, csum, image, addr, toS, spc, n>> /\ ~torn
           /\ Len(wire') = Len(wire) /\ Len(toR') <= Len(toR) /\ toR # <<>>
           /\ \/ damaged' = damaged /\ \A i \in 1 .. Len(wire) : wire'[i] = wire[i]
              \/ /\ ~damaged /\ damaged'
                 /\ wire'[Len(fifo) + 1] \in Flipped(wire[Len(fifo) + 1])
                 /\ \A i \in 1 .. Len(wire) : i # Len(fifo) + 1 => wire'[i] = wire[i]
           /\ Len(fifo) + 1 \in 1 .. Len(wire)
<1>1. /\ toR # <<>> /\ toR' = Tail(toR)
      /\ UNCHANGED <<rpc, state, block, csum, image, addr, toS, spc, n>>
  BY DEF Deliver, receiver, sender
<1>2. toR \in Seq(Byte) /\ Head(toR) \in Byte /\ damaged \in BOOLEAN
  BY <1>1 DEF TypeOK
<1>3. CASE fifo' = Append(fifo, Head(toR)) /\ UNCHANGED <<flips, damaged, torn>>
  <2>1. /\ Len(wire') = Len(wire) /\ Len(fifo) + 1 \in 1 .. Len(wire)
        /\ Head(toR) = wire[Len(fifo) + 1] /\ wire'[Len(fifo) + 1] = Head(toR)
        /\ Len(toR') <= Len(toR)
        /\ \A i \in 1 .. Len(wire) : i # Len(fifo) + 1 => wire'[i] = wire[i]
    BY <1>1, <1>2, <1>3, WireDeliver
  <2>2. \A i \in 1 .. Len(wire) : wire'[i] = wire[i]
    BY <2>1
  <2> QED BY <1>1, <1>3, <2>1, <2>2
<1>4. ASSUME NEW b \in Flipped(Head(toR)), fifo' = Append(fifo, b),
             damaged' = TRUE, torn' = (torn \/ damaged)
      PROVE  /\ Len(wire') = Len(wire) /\ Len(toR') <= Len(toR) /\ ~torn
             /\ ~damaged /\ damaged'
             /\ wire'[Len(fifo) + 1] \in Flipped(wire[Len(fifo) + 1])
             /\ \A i \in 1 .. Len(wire) : i # Len(fifo) + 1 => wire'[i] = wire[i]
             /\ Len(fifo) + 1 \in 1 .. Len(wire)
  <2>1. b \in Byte
    BY DEF Flipped
  <2>2. /\ Len(wire') = Len(wire) /\ Len(fifo) + 1 \in 1 .. Len(wire)
        /\ Head(toR) = wire[Len(fifo) + 1] /\ wire'[Len(fifo) + 1] = b
        /\ Len(toR') <= Len(toR)
        /\ \A i \in 1 .. Len(wire) : i # Len(fifo) + 1 => wire'[i] = wire[i]
    BY <1>1, <1>4, <2>1, WireDeliver
  <2> QED BY <1>4, <2>2
<1> QED BY <1>1, <1>3, <1>4 DEF Deliver

\* The receiver does nothing.
LEMMA ReceiverFrame ==
    ASSUME UNCHANGED <<state, csum, block, addr, image>>
    PROVE  /\ Read' = Read /\ this' = this /\ Written' = Written
           /\ SumIsRight' <=> SumIsRight
           /\ SumIsWrong' <=> SumIsWrong
           /\ BlocksAreFiles' <=> BlocksAreFiles
<1>1. Read' = Read /\ this' = this /\ Written' = Written
  BY DEF Read, this, Written
<1>2. SumIsRight' <=> SumIsRight
  BY <1>1 DEF SumIsRight, Sum
<1>3. SumIsWrong' <=> SumIsWrong
  BY <1>1 DEF SumIsWrong, Sum
<1>4. BlocksAreFiles' <=> BlocksAreFiles
  BY DEF BlocksAreFiles
<1> QED BY <1>1, <1>2, <1>3, <1>4

\* A sum is not right and wrong.
LEMMA RightOrWrong ==
    ASSUME TypeOK, state # ErrorState, SumIsRight
    PROVE  ~SumIsWrong
<1> SUFFICES ASSUME SumIsWrong PROVE FALSE
  OBVIOUS
<1>1. csum = Sum /\ csum \in Nat
  <2>1. Read > 0
    BY ReadIs, Constants DEF SumIsWrong
  <2> QED BY <2>1 DEF TypeOK, SumIsRight
<1>2. PICK e \in 1 .. Values - 1 : csum = Sum + e \/ csum = Sum - e
  BY DEF SumIsWrong
<1> QED BY <1>1, <1>2, Constants

\* Wire w becomes v: as it was, or with the byte at h damaged; d and f tell whether
\* a byte of the last packet has been damaged before and behind.
Arrives(w, v, h, d, f) ==
    /\ h \in 1 .. Len(w)
    /\ \/ f = d /\ \A i \in 1 .. Len(w) : v[i] = w[i]
       \/ ~d /\ f /\ v[h] \in Flipped(w[h]) /\ \A i \in 1 .. Len(w) : i # h => v[i] = w[i]

LEMMA HitOne ==
    ASSUME NEW w \in Stream, NEW v, NEW h, NEW d \in BOOLEAN, NEW f \in BOOLEAN,
           Arrives(w, v, h, d, f),
           NEW p \in Stream, NEW from \in Nat, NEW at \in Int,
           at + from >= 0, at + Len(p) <= Len(w)
    PROVE  /\ Intact(w, p, from, at) => Carries(v, p, from, at)
           /\ f = d => /\ Carries(w, p, from, at) => Carries(v, p, from, at)
                       /\ Intact(w, p, from, at) => Intact(v, p, from, at)
           /\ h > at + Len(p) => /\ Carries(w, p, from, at) => Carries(v, p, from, at)
                                 /\ Intact(w, p, from, at) => Intact(v, p, from, at)
<1>1. Len(p) \in Nat /\ Len(w) \in Nat /\ h \in Int
  BY DEF Stream, Arrives
<1>2. \A i \in at + from + 1 .. at + Len(p) : i \in 1 .. Len(w)
  BY <1>1
<1>3. CASE f = d /\ \A i \in 1 .. Len(w) : v[i] = w[i]
  BY <1>2, <1>3, Stays, IntactIsCarried
<1>4. CASE ~d /\ f /\ v[h] \in Flipped(w[h]) /\ \A i \in 1 .. Len(w) : i # h => v[i] = w[i]
  <2>1. Intact(w, p, from, at) => Carries(v, p, from, at)
    BY <1>1, <1>2, <1>4, Damaged
  <2>2. h > at + Len(p) => \A i \in at + from + 1 .. at + Len(p) : v[i] = w[i]
    BY <1>1, <1>2, <1>4
  <2>3. h > at + Len(p) => /\ Carries(w, p, from, at) => Carries(v, p, from, at)
                           /\ Intact(w, p, from, at) => Intact(v, p, from, at)
    BY <2>2, Stays
  <2> QED BY <1>4, <2>1, <2>3
<1> QED BY <1>3, <1>4 DEF Arrives

\* The rest of the packet under way has arrived: the line cannot damage it.
LEMMA FollowsArrives ==
    ASSUME TypeOK, TypeOK', Deliver, ~torn', state # ErrorState,
           NEW k \in 1 .. Len(File) + 1, Read <= Len(Packet(k)), Follows(Packet(k))
    PROVE  /\ Len(wire') = Len(Packet(k)) - Read + Len(Packet(n)) /\ Len(toR') <= Len(Packet(n))
           /\ Carries(wire', Packet(n), 0, Len(Packet(k)) - Read)
           /\ ~damaged' => Intact(wire', Packet(n), 0, Len(Packet(k)) - Read)
           /\ Carries(wire, Packet(k), Read, -Read) => Carries(wire', Packet(k), Read, -Read)
           /\ Intact(wire, Packet(k), Read, -Read) => Intact(wire', Packet(k), Read, -Read)
<1> DEFINE p == Packet(k)
           q == Packet(n)
           at == Len(p) - Read
<1>1. /\ UNCHANGED <<state, csum, block, addr, image, n>>
      /\ Len(wire') = Len(wire) /\ Len(toR') <= Len(toR)
      /\ Arrives(wire, wire', Len(fifo) + 1, damaged, damaged')
  BY DeliverIs DEF Arrives
<1>2. Read' = Read
  BY <1>1, ReceiverFrame
<1>3. p \in Stream /\ q \in Stream /\ wire \in Stream
  BY PacketIs, WireIs DEF Stream, TypeOK
<1>4. /\ Len(p) \in Nat /\ Len(q) \in Nat /\ Len(wire) \in Nat /\ Len(toR) \in Nat
      /\ Len(toR') \in Nat /\ Len(fifo) \in Nat /\ Len(wire) = Len(fifo) + Len(toR)
  <2>1. toR' \in Seq(Byte)
    BY DEF TypeOK
  <2> QED BY <1>3, <2>1, WireIs, NotEmpty DEF Stream
<1>5. Read \in Nat /\ damaged \in BOOLEAN /\ damaged' \in BOOLEAN
  BY ReadIs, Constants DEF TypeOK
<1>6. /\ Read > 0 /\ Len(wire) = at + Len(q) /\ Len(toR) <= Len(q)
      /\ Carries(wire, q, 0, at)
      /\ ~damaged => Intact(wire, q, 0, at)
  BY DEF Follows
<1>7. at \in Nat /\ -Read + Len(p) = at
  BY <1>4, <1>5
<1> HIDE DEF p, q, at
<1>8. Carries(wire', q, 0, at) /\ (~damaged' => Intact(wire', q, 0, at))
  <2>1. at + 0 >= 0 /\ at + Len(q) <= Len(wire) /\ at \in Int
    BY <1>4, <1>6, <1>7
  <2>2. /\ damaged' = damaged => /\ Carries(wire, q, 0, at) => Carries(wire', q, 0, at)
                                 /\ Intact(wire, q, 0, at) => Intact(wire', q, 0, at)
        /\ Intact(wire, q, 0, at) => Carries(wire', q, 0, at)
    BY <1>1, <1>3, <1>5, <2>1, HitOne
  <2>3. damaged' = damaged \/ (~damaged /\ damaged')
    BY <1>1 DEF Arrives
  <2> QED BY <1>6, <2>2, <2>3
<1>9. /\ Carries(wire, p, Read, -Read) => Carries(wire', p, Read, -Read)
      /\ Intact(wire, p, Read, -Read) => Intact(wire', p, Read, -Read)
  <2>1. -Read + Read >= 0 /\ -Read + Len(p) <= Len(wire) /\ -Read \in Int
        /\ Len(fifo) + 1 > -Read + Len(p)
    BY <1>4, <1>5, <1>6, <1>7
  <2> QED BY <1>1, <1>3, <1>5, <2>1, HitOne
<1>10. Len(wire') = at + Len(q) /\ Len(toR') <= Len(q)
  BY <1>1, <1>4, <1>6
<1> QED BY <1>8, <1>9, <1>10 DEF p, q, at

\* All bytes of the packet under way stay, but for one that is damaged now.
LEMMA AloneArrives ==
    ASSUME TypeOK, TypeOK', Deliver, ~torn', state # ErrorState,
           NEW p \in Stream, Read <= Len(p), Alone(p), Carries(wire, p, Read, -Read)
    PROVE  /\ Len(wire') = Len(p) - Read
           /\ \/ /\ damaged' = damaged /\ Carries(wire', p, Read, -Read)
                 /\ Intact(wire, p, Read, -Read) => Intact(wire', p, Read, -Read)
              \/ /\ ~damaged /\ damaged'
                 /\ Intact(wire, p, Read, -Read) => Carries(wire', p, Read, -Read)
<1>1. /\ Len(wire') = Len(wire) /\ Arrives(wire, wire', Len(fifo) + 1, damaged, damaged')
  BY DeliverIs DEF Arrives
<1>2. wire \in Stream /\ Len(p) \in Nat
  BY WireIs DEF Stream
<1>3. Read \in Nat /\ damaged \in BOOLEAN /\ damaged' \in BOOLEAN
  BY ReadIs, Constants DEF TypeOK
<1>4. -Read + Read >= 0 /\ -Read + Len(p) <= Len(wire) /\ -Read \in Int
  BY <1>2, <1>3 DEF Alone
<1>5. damaged' = damaged =>
        /\ Carries(wire, p, Read, -Read) => Carries(wire', p, Read, -Read)
        /\ Intact(wire, p, Read, -Read) => Intact(wire', p, Read, -Read)
  BY <1>1, <1>2, <1>3, <1>4, HitOne
<1>6. Intact(wire, p, Read, -Read) => Carries(wire', p, Read, -Read)
  BY <1>1, <1>2, <1>3, <1>4, HitOne
<1>7. damaged' = damaged \/ (~damaged /\ damaged')
  BY <1>1 DEF Arrives
<1>8. Len(wire') = Len(p) - Read
  BY <1>1 DEF Alone
<1> QED BY <1>5, <1>6, <1>7, <1>8

LEMMA DeliverThis ==
    ASSUME TypeOK, TypeOK', Deliver, ~torn', state # ErrorState, addr <= Len(File), ThisComes
    PROVE  ThisComes' /\ (Alone(Packet(this)) => Alone(Packet(this))')
<1> DEFINE p == Packet(this)
<1>0. UNCHANGED <<rpc, state, block, csum, image, addr, toS, spc, n>>
  BY DeliverIs
<1>1. /\ Read' = Read /\ this' = this /\ Written' = Written
      /\ SumIsRight' <=> SumIsRight
      /\ SumIsWrong' <=> SumIsWrong
  BY <1>0, ReceiverFrame
<1>2. this \in 1 .. Len(File) + 1 /\ p \in Stream /\ Read <= Len(p)
  <2>1. Read \in Nat /\ Read < Len(p) /\ Len(p) \in Nat
    BY ThisIs, ReadIs, Constants
  <2> QED BY <2>1, ThisIs
<1>3. /\ Carries(wire, p, Read, -Read)
      /\ SumIsRight => \A d \in 1 .. Written : image[addr * BlockSize + d] = File[this][d]
      /\ SumIsRight \/ (SumIsWrong /\ Intact(wire, p, Read, -Read))
  <2> HIDE DEF p
  <2> QED BY RightOrWrong, IntactIsCarried DEF ThisComes, p
<1>4. this' > Len(File) => Read' = 0
  BY <1>1 DEF ThisComes
<1>5. CASE Alone(p)
  <2>1. /\ Len(wire') = Len(p) - Read
        /\ \/ /\ damaged' = damaged /\ Carries(wire', p, Read, -Read)
              /\ Intact(wire, p, Read, -Read) => Intact(wire', p, Read, -Read)
           \/ /\ ~damaged /\ damaged'
              /\ Intact(wire, p, Read, -Read) => Carries(wire', p, Read, -Read)
    BY <1>2, <1>3, <1>5, AloneArrives
  <2>2. ~damaged => SumIsRight /\ Intact(wire, p, Read, -Read)
    <3>1. ~Follows(p) \/ Alone(p)
      BY <1>5
    <3>2. CASE ~Follows(p)
      BY <3>2 DEF ThisComes
    <3>3. CASE Follows(p)
      <4>1. Len(wire) = Len(p) - Read /\ Len(wire) = Len(p) - Read + Len(Packet(n))
        BY <1>5, <3>3 DEF Alone, Follows
      <4>2. Len(Packet(n)) \in Nat /\ Len(Packet(n)) > 0
        <5>1. n \in 1 .. Len(File) + 1 /\ BlockSize \in Nat
          BY Constants DEF TypeOK
        <5> QED BY <5>1, PacketIs
      <4>3. Len(p) \in Nat /\ Read \in Nat
        BY <1>2, ReadIs, Constants DEF Stream
      <4> HIDE DEF p
      <4> QED BY <4>1, <4>2, <4>3
    <3> QED BY <3>2, <3>3
  <2>3. Alone(p)'
    BY <1>1, <2>1 DEF Alone
  <2>4. /\ ~damaged' => SumIsRight' /\ Intact(wire', p', Read', -Read')
        /\ \/ /\ SumIsRight' /\ Carries(wire', p', Read', -Read')
              /\ \A d \in 1 .. Written : image[addr * BlockSize + d] = File[this][d]
           \/ SumIsWrong' /\ Intact(wire', p', Read', -Read')
    <3>1. p' = p
      BY <1>1
    <3> HIDE DEF p
    <3> QED BY <1>1, <1>3, <2>1, <2>2, <3>1, RightOrWrong, IntactIsCarried
  <2> QED BY <1>0, <1>1, <1>4, <2>3, <2>4 DEF ThisComes
<1>6. CASE ~Alone(p)
  <2>1. Follows(p) /\ addr = 0
    BY <1>6 DEF ThisComes
  <2>2. /\ Len(wire') = Len(p) - Read + Len(Packet(n)) /\ Len(toR') <= Len(Packet(n))
        /\ Carries(wire', Packet(n), 0, Len(p) - Read)
        /\ ~damaged' => Intact(wire', Packet(n), 0, Len(p) - Read)
        /\ Carries(wire', p, Read, -Read)
        /\ Intact(wire, p, Read, -Read) => Intact(wire', p, Read, -Read)
    BY <1>2, <1>3, <2>1, FollowsArrives
  <2>3. p' = p
    BY <1>1
  <2>4. Follows(p)'
    <3> HIDE DEF p
    <3>1. Read > 0
      BY <2>1 DEF Follows
    <3> QED BY <1>0, <1>1, <2>2, <2>3, <3>1 DEF Follows
  <2>5. \/ /\ SumIsRight' /\ Carries(wire', p', Read', -Read')
           /\ \A d \in 1 .. Written : image[addr * BlockSize + d] = File[this][d]
        \/ SumIsWrong' /\ Intact(wire', p', Read', -Read')
    <3> HIDE DEF p
    <3> QED BY <1>1, <1>3, <2>2, <2>3
  <2> QED BY <1>0, <1>1, <1>4, <1>6, <2>1, <2>4, <2>5 DEF ThisComes
<1> QED BY <1>5, <1>6

LEMMA DeliverLast ==
    ASSUME TypeOK, TypeOK', Deliver, ~torn', state # ErrorState, addr <= Len(File), LastComes
    PROVE  LastComes'
<1> DEFINE p == Packet(addr)
<1>0. UNCHANGED <<rpc, state, block, csum, image, addr, toS, spc, n>>
  BY DeliverIs
<1>1. Read' = Read /\ this' = this
  BY <1>0, ReceiverFrame
<1>2. addr \in 1 .. Len(File) + 1 /\ p \in Stream /\ Read <= Len(p)
  <2>1. Read \in 0 .. 2 /\ Len(p) = BlockSize + 4 /\ addr \in 1 .. Len(File)
    BY LastIs DEF LastComes
  <2> QED BY <2>1, LastIs, Constants
<1>3. /\ addr > 0 /\ Read \in 0 .. 2 /\ Carries(wire, p, Read, -Read)
      /\ Read = 2 => Intact(wire, p, Read, -Read)
  BY DEF LastComes
<1>4. p' = p
  BY <1>0
<1>5. CASE Alone(p) /\ n = addr /\ (~damaged => Read < 2 /\ Intact(wire, p, Read, -Read))
  <2>1. /\ Len(wire') = Len(p) - Read
        /\ \/ /\ damaged' = damaged /\ Carries(wire', p, Read, -Read)
              /\ Intact(wire, p, Read, -Read) => Intact(wire', p, Read, -Read)
           \/ /\ ~damaged /\ damaged'
              /\ Intact(wire, p, Read, -Read) => Carries(wire', p, Read, -Read)
    BY <1>2, <1>3, <1>5, AloneArrives
  <2>2. /\ Carries(wire', p, Read, -Read)
        /\ ~damaged' => Read < 2 /\ Intact(wire', p, Read, -Read)
        /\ Read = 2 => Intact(wire', p, Read, -Read)
    <3> HIDE DEF p
    <3> QED BY <1>3, <1>5, <2>1
  <2>3. Alone(p)'
    BY <1>1, <1>4, <2>1 DEF Alone
  <2> QED BY <1>0, <1>1, <1>3, <1>5, <2>2, <2>3 DEF LastComes
<1>6. CASE Follows(p) /\ n = this
  <2>1. /\ Len(wire') = Len(p) - Read + Len(Packet(n)) /\ Len(toR') <= Len(Packet(n))
        /\ Carries(wire', Packet(n), 0, Len(p) - Read)
        /\ ~damaged' => Intact(wire', Packet(n), 0, Len(p) - Read)
        /\ Carries(wire', p, Read, -Read)
        /\ Intact(wire, p, Read, -Read) => Intact(wire', p, Read, -Read)
    BY <1>2, <1>3, <1>6, FollowsArrives
  <2>2. Follows(p)'
    <3> HIDE DEF p
    <3>1. Read > 0
      BY <1>6 DEF Follows
    <3> QED BY <1>0, <1>1, <1>4, <2>1, <3>1 DEF Follows
  <2>3. Read = 2 => Intact(wire', p, Read, -Read)
    <3> HIDE DEF p
    <3> QED BY <1>3, <2>1
  <2> QED BY <1>0, <1>1, <1>3, <1>6, <2>1, <2>2, <2>3 DEF LastComes
<1> QED BY <1>5, <1>6 DEF LastComes

LEMMA TransferDeliver ==
    ASSUME Base, Base', Transfer, Deliver
    PROVE  torn' \/ Transfer'
<1> SUFFICES ASSUME ~torn' PROVE Transfer'
  OBVIOUS
<1>0. TypeOK /\ TypeOK'
  BY DEF Base
<1>1. /\ UNCHANGED <<rpc, state, block, csum, image, addr, toS, spc, n>>
      /\ Len(wire') = Len(wire) /\ Len(fifo) + 1 \in 1 .. Len(wire)
  BY <1>0, DeliverIs
<1>2. this' = this /\ (BlocksAreFiles' <=> BlocksAreFiles)
  BY <1>1, ReceiverFrame
<1>3. ASSUME rpc \in {"wait", "bytes"}, state # ErrorState
      PROVE  Expecting' \/ Repeated'
  <2>1. addr <= Len(File) /\ (Expecting \/ Repeated)
    <3>1. wire # <<>>
      <4>1. toR # <<>>
        BY DEF Deliver
      <4> QED BY <1>0, <4>1, WireIs
    <3> QED BY <1>3, <3>1, Healthy DEF Quiet
  <2>2. CASE Expecting
    <3>1. ThisComes' /\ (Alone(Packet(this)) => Alone(Packet(this))')
      BY <1>0, <1>3, <2>1, <2>2, DeliverThis DEF Expecting
    <3> QED BY <1>1, <1>2, <2>2, <3>1 DEF Expecting
  <2>3. CASE Repeated
    <3>1. LastComes'
      BY <1>0, <1>3, <2>1, <2>3, DeliverLast DEF Repeated
    <3> QED BY <1>1, <1>2, <2>3, <3>1 DEF Repeated
  <2> QED BY <2>1, <2>2, <2>3
<1>4. Failed => Failed'
  BY <1>1, <1>2 DEF Failed
<1> QED BY <1>1, <1>2, <1>3, <1>4, States DEF Transfer

LEMMA AnswersAre ==
    /\ Head(<<"NAK">>) = "NAK" /\ Head(<<"ACK">>) = "ACK" /\ Head(<<"NAK", "ACK">>) = "NAK"
    /\ Tail(<<"NAK">>) = <<>> /\ Tail(<<"ACK">>) = <<>> /\ Tail(<<"NAK", "ACK">>) = <<"ACK">>
    /\ <<"NAK">> # <<>> /\ <<"ACK">> # <<>>
OBVIOUS

\* What the sender is told still when an answer has been taken or lost.
LEMMA TailAnswers ==
    ASSUME NEW s \in Unanswered \cup Answered \cup Refused \cup Revoked, s # <<>>
    PROVE  /\ s \in Unanswered => Head(s) = "NAK" /\ Tail(s) \in Unanswered
           /\ s \in Answered => \/ Head(s) = "NAK" /\ Tail(s) \in Answered
                                \/ Head(s) = "ACK" /\ Tail(s) = <<>>
           /\ s \in Refused => \/ Head(s) = "NAK" /\ Tail(s) \in Refused
                               \/ Head(s) = "CAN" /\ Tail(s) = <<>>
           /\ s \in Revoked => \/ Head(s) = "NAK" /\ Tail(s) \in Revoked
                               \/ Head(s) = "ACK" /\ Tail(s) \in Refused
<1>1. /\ Tail(<<"NAK">>) = <<>> /\ Tail(<<"ACK">>) = <<>> /\ Tail(<<"NAK", "ACK">>) = <<"ACK">>
      /\ Tail(<<"CAN">>) = <<>>
      /\ Tail(<<"NAK", "CAN">>) = <<"CAN">> /\ Tail(<<"ACK", "CAN">>) = <<"CAN">>
      /\ Tail(<<"NAK", "ACK", "CAN">>) = <<"ACK", "CAN">>
  OBVIOUS
<1>2. /\ Head(<<"NAK">>) = "NAK" /\ Head(<<"ACK">>) = "ACK" /\ Head(<<"NAK", "ACK">>) = "NAK"
      /\ Head(<<"CAN">>) = "CAN" /\ Head(<<"NAK", "CAN">>) = "NAK"
      /\ Head(<<"ACK", "CAN">>) = "ACK" /\ Head(<<"NAK", "ACK", "CAN">>) = "NAK"
  OBVIOUS
<1>3. s \in Unanswered => Head(s) = "NAK" /\ Tail(s) \in Unanswered
  BY <1>1, <1>2, Zenon DEF Unanswered
<1>4. s \in Answered => \/ Head(s) = "NAK" /\ Tail(s) \in Answered
                        \/ Head(s) = "ACK" /\ Tail(s) = <<>>
  BY <1>1, <1>2, Zenon DEF Answered
<1>5. s \in Refused => \/ Head(s) = "NAK" /\ Tail(s) \in Refused
                       \/ Head(s) = "CAN" /\ Tail(s) = <<>>
  BY <1>1, <1>2, Zenon DEF Refused
<1>6. s \in Revoked => \/ Head(s) = "NAK" /\ Tail(s) \in Revoked
                       \/ Head(s) = "ACK" /\ Tail(s) \in Refused
  BY <1>1, <1>2, Zenon DEF Revoked, Refused
<1> QED BY <1>3, <1>4, <1>5, <1>6

LEMMA Disjoint ==
    /\ Unanswered \cap (Answered \cup Refused \cup Revoked) = {}
    /\ Answered \cap (Refused \cup Revoked) = {} /\ Refused \cap Revoked = {}
    /\ <<>> \in Unanswered
BY DEF Unanswered, Answered, Refused, Revoked

\* The line loses an answer.
LEMMA TransferLose ==
    ASSUME Base, Base', Transfer, Lose
    PROVE  torn' \/ Transfer'
<1> SUFFICES ASSUME ~torn' PROVE Transfer'
  OBVIOUS
<1>0. TypeOK
  BY DEF Base
<1>1. /\ toS # <<>> /\ Head(toS) # "CAN" /\ toS' = Tail(toS)
      /\ UNCHANGED <<rpc, state, block, csum, image, addr, fifo, toR, spc, n, damaged>>
  BY DEF Lose, receiver, sender
<1>2. /\ this' = this /\ wire' = wire
      /\ BlocksAreFiles' <=> BlocksAreFiles
      /\ Alone(Packet(this))' <=> Alone(Packet(this))
      /\ ThisComes' <=> ThisComes
      /\ LastComes' <=> LastComes
  BY <1>1, Frame
<1>3. /\ Tail(<<"NAK">>) = <<>> /\ Tail(<<"ACK">>) = <<>> /\ Tail(<<"NAK", "ACK">>) = <<"ACK">>
  OBVIOUS
<1>5. Quiet => Quiet'
  BY <1>1, <1>2, <1>3 DEF Quiet
<1>6. Expecting => Expecting'
  BY <1>1, <1>2, <1>3 DEF Expecting
<1>7. Repeated => Repeated'
  BY <1>1, <1>2, <1>3 DEF Repeated
<1>8. Failed => Failed'
  <2> SUFFICES ASSUME Failed PROVE Failed'
    OBVIOUS
  <2>1. \/ toS \in Unanswered /\ toS' \in Unanswered
        \/ toS \in Answered /\ toS' \in Unanswered \cup Answered
        \/ toS \in Refused /\ toS' \in Refused
        \/ toS \in Revoked /\ toS' \in Refused \cup Revoked
    BY <1>1, TailAnswers, Disjoint DEF Failed
  <2>2. n \in Nat /\ addr \in Nat /\ this = addr + 1
    BY <1>0, Constants DEF TypeOK, this
  <2>3. toS' \in Answered \cup Revoked => toS \in Answered \cup Revoked
    BY <2>1, Disjoint
  <2>4. rpc' = "bytes" => toS' \in Unanswered \cup Answered
    BY <1>1, <2>1, Disjoint DEF Failed
  <2>5. /\ spc' # "done" /\ toS' \in Unanswered \cup Answered \cup Refused \cup Revoked
        /\ toS' \in Answered \cup Revoked => addr' > 0
    BY <1>1, <2>1, <2>3 DEF Failed
  <2>6. spc' \in {"ready", "sent"} =>
          n' <= IF toS' \in Answered \cup Revoked THEN addr' ELSE this'
    BY <1>1, <1>2, <2>2, <2>3 DEF Failed
  <2> QED BY <2>4, <2>5, <2>6 DEF Failed
<1> QED BY <1>1, <1>2, <1>5, <1>6, <1>7, <1>8, States DEF Transfer

--------------------------------------------------------------------------------
(* Transfers: the sender. *)

\* A packet sent on an empty wire.
LEMMA SendAlone ==
    ASSUME TypeOK, TypeOK', wire = <<>>, fifo' = fifo, NEW k \in 1 .. Len(File) + 1, Send(k)
    PROVE  /\ Len(wire') = Len(Packet(k)) - 0 /\ n' = k /\ spc' = "sent" /\ ~damaged'
           /\ Intact(wire', Packet(k), 0, -0) /\ Carries(wire', Packet(k), 0, -0)
<1>1. /\ Len(wire') = Len(wire) + Len(Packet(k))
      /\ \A i \in 1 .. Len(Packet(k)) : wire'[Len(wire) + i] = Packet(k)[i]
  BY WireSend
<1>2. Len(wire) = 0 /\ Len(Packet(k)) \in Nat
  BY PacketIs, WireIs, NotEmpty
<1>3. \A i \in 1 .. Len(Packet(k)) : wire'[i] = Packet(k)[i]
  BY <1>1, <1>2
<1>4. Intact(wire', Packet(k), 0, -0)
  BY <1>2, <1>3 DEF Intact
<1>5. Carries(wire', Packet(k), 0, -0)
  BY <1>4, IntactIsCarried
<1>6. Len(wire') = Len(Packet(k)) - 0
  BY <1>1, <1>2
<1>7. n' = k /\ spc' = "sent" /\ ~damaged'
  BY SendIs
<1> QED BY <1>4, <1>5, <1>6, <1>7

LEMMA SendThis ==
    ASSUME TypeOK, TypeOK', wire = <<>>, state = StartState,
           UNCHANGED <<state, csum, block, addr, image, fifo>>, addr <= Len(File), Send(this)
    PROVE  ThisComes' /\ Alone(Packet(this))' /\ n' = this' /\ spc' = "sent"
<1>1. this \in 1 .. Len(File) + 1
  BY Constants DEF TypeOK, this
<1>2. /\ Len(wire') = Len(Packet(this)) - 0 /\ n' = this /\ spc' = "sent" /\ ~damaged'
      /\ Intact(wire', Packet(this), 0, -0) /\ Carries(wire', Packet(this), 0, -0)
  BY <1>1, SendAlone
<1>3. Read' = 0 /\ Written' = 0 /\ this' = this
  BY States DEF Read, Written, this
<1>4. SumIsRight'
  BY <1>3 DEF SumIsRight
<1>5. Alone(Packet(this))'
  BY <1>2, <1>3 DEF Alone
<1>6. \A d \in 1 .. Written' : image[addr * BlockSize + d] = File[this][d]
  BY <1>3
<1> QED BY <1>2, <1>3, <1>4, <1>5, <1>6 DEF ThisComes

LEMMA SendLast ==
    ASSUME TypeOK, TypeOK', wire = <<>>, state = StartState,
           UNCHANGED <<state, csum, block, addr, image, fifo>>, addr \in 1 .. Len(File),
           Send(addr)
    PROVE  LastComes' /\ n' = addr' /\ spc' = "sent"
<1>1. addr \in 1 .. Len(File) + 1 /\ addr > 0
  BY Constants
<1>2. /\ Len(wire') = Len(Packet(addr)) - 0 /\ n' = addr /\ spc' = "sent" /\ ~damaged'
      /\ Intact(wire', Packet(addr), 0, -0) /\ Carries(wire', Packet(addr), 0, -0)
  BY <1>1, SendAlone
<1>3. Read' = 0 /\ addr' = addr
  BY States DEF Read
<1>4. Alone(Packet(addr))'
  BY <1>2, <1>3 DEF Alone
<1> QED BY <1>1, <1>2, <1>3, <1>4 DEF LastComes

\* A packet sent behind the rest of one, which is in the UART: some of it is read.
LEMMA SendBehind ==
    ASSUME TypeOK, TypeOK', state # ErrorState,
           UNCHANGED <<state, csum, block, addr, image, fifo>>,
           NEW p \in Stream, Len(p) = BlockSize + 4, Alone(p),
           NEW k \in 1 .. Len(File) + 1, Send(k)
    PROVE  /\ n' = k /\ spc' = "sent" /\ Read > 0
           /\ Len(wire') = Len(p) - Read + Len(Packet(k)) /\ Len(toR') <= Len(Packet(k))
           /\ Carries(wire', Packet(k), 0, Len(p) - Read)
           /\ Intact(wire', Packet(k), 0, Len(p) - Read)
           /\ Carries(wire, p, Read, -Read) => Carries(wire', p, Read, -Read)
           /\ Intact(wire, p, Read, -Read) => Intact(wire', p, Read, -Read)
<1>1. /\ Len(wire) <= FifoSize
      /\ Len(wire') = Len(wire) + Len(Packet(k)) /\ toR' = Packet(k)
      /\ \A i \in 1 .. Len(wire) : wire'[i] = wire[i]
      /\ \A i \in 1 .. Len(Packet(k)) : wire'[Len(wire) + i] = Packet(k)[i]
  BY WireSend
<1>2. Len(wire) = Len(p) - Read /\ Len(wire) \in Nat /\ Read \in Nat /\ Len(p) \in Nat
      /\ Len(Packet(k)) \in Nat
  BY WireIs, ReadIs, PacketIs, Constants DEF Alone, Stream
<1>3. Read > 0
  BY <1>1, <1>2, Constants
<1>4. Intact(wire', Packet(k), 0, Len(p) - Read)
  BY <1>1, <1>2 DEF Intact
<1>5. \A i \in -Read + Read + 1 .. -Read + Len(p) : wire'[i] = wire[i]
  <2>1. -Read + Read + 1 = 1 /\ -Read + Len(p) = Len(wire)
    BY <1>2
  <2> QED BY <1>1, <2>1
<1>6. /\ Carries(wire, p, Read, -Read) => Carries(wire', p, Read, -Read)
      /\ Intact(wire, p, Read, -Read) => Intact(wire', p, Read, -Read)
  <2>1. -Read \in Int
    BY <1>2
  <2> QED BY <1>2, <1>5, <2>1, Stays
<1>7. Carries(wire', Packet(k), 0, Len(p) - Read)
  BY <1>4, IntactIsCarried
<1>8. Len(wire') = Len(p) - Read + Len(Packet(k)) /\ Len(toR') <= Len(Packet(k))
  BY <1>1, <1>2
<1>9. n' = k /\ spc' = "sent"
  BY SendIs
<1> QED BY <1>3, <1>4, <1>6, <1>7, <1>8, <1>9

\* A failed transfer: the sender gets no further than what is acknowledged.
LEMMA FailedAnswer ==
    ASSUME Base, Transfer, TakeAnswer, Failed
    PROVE  Failed'
<1> DEFINE ahead == Answered \cup Revoked
<1>1. /\ toS # <<>> /\ toS' = Tail(toS)
      /\ UNCHANGED <<rpc, state, block, csum, image, addr, fifo>>
  BY DEF TakeAnswer, receiver
<1>2. /\ toS' \in Unanswered \cup Answered \cup Refused \cup Revoked
      /\ toS \in Unanswered \cup Answered => toS' \in Unanswered \cup Answered
      /\ Head(toS) = "NAK" => (toS' \in ahead <=> toS \in ahead)
      /\ Head(toS) = "ACK" => toS \in ahead /\ toS' \notin ahead
      /\ toS' \in ahead => toS \in ahead
  <2>1. \/ toS \in Unanswered /\ Head(toS) = "NAK" /\ toS' \in Unanswered
        \/ toS \in Answered /\ Head(toS) = "NAK" /\ toS' \in Answered
        \/ toS \in Answered /\ Head(toS) = "ACK" /\ toS' \in Unanswered
        \/ toS \in Refused /\ Head(toS) = "NAK" /\ toS' \in Refused
        \/ toS \in Refused /\ Head(toS) = "CAN" /\ toS' \in Unanswered
        \/ toS \in Revoked /\ Head(toS) = "NAK" /\ toS' \in Revoked
        \/ toS \in Revoked /\ Head(toS) = "ACK" /\ toS' \in Refused
    BY <1>1, TailAnswers, Disjoint DEF Failed
  <2> QED BY <2>1, Disjoint
<1>3. n \in Nat /\ addr \in Nat /\ this = addr + 1 /\ addr <= Len(File) /\ Len(File) \in Nat
  BY Constants DEF Base, TypeOK, this, Transfer, BlocksAreFiles
<1>4. /\ spc # "done"
      /\ toS \in ahead => addr > 0
      /\ spc \in {"ready", "sent"} => n <= IF toS \in ahead THEN addr ELSE this
  BY DEF Failed
<1> HIDE DEF ahead
<1>5. /\ spc' # "done"
      /\ spc' \in {"ready", "sent"} => n' <= IF toS' \in ahead THEN addr ELSE this
  <2>1. CASE Head(toS) = "NAK" /\ spc \in {"ready", "sent"} /\ Send(n)
    BY <1>2, <1>4, <2>1 DEF Send
  <2>2. CASE Head(toS) = "ACK" /\ spc = "sent" /\ Send(n + 1)
    <3>1. n <= addr /\ n' = n + 1 /\ spc' = "sent" /\ toS' \notin ahead
      BY <1>2, <1>4, <2>2 DEF Send
    <3> QED BY <1>3, <3>1
  <2>3. CASE Head(toS) = "ACK" /\ spc = "sent" /\ n > Len(File)
    BY <1>2, <1>3, <1>4, <2>3
  <2>4. CASE spc' = "idle"
    BY <2>4
  <2>5. CASE UNCHANGED <<n, spc>>
    BY <1>2, <1>3, <1>4, <2>5
  <2> QED BY <2>1, <2>2, <2>3, <2>4, <2>5 DEF TakeAnswer, sender
<1>6. this' = this
  BY <1>1 DEF this
<1>7. /\ rpc' = "bytes" => toS' \in Unanswered \cup Answered
      /\ toS' \in ahead => addr' > 0
  BY <1>1, <1>2, <1>4 DEF Failed
<1> QED BY <1>1, <1>2, <1>5, <1>6, <1>7 DEF Failed, ahead

\* A packet sent again or the next one while one is under way.
LEMMA ExpectingAnswer ==
    ASSUME TypeOK, TypeOK', state # ErrorState, addr <= Len(File), Expecting, TakeAnswer
    PROVE  Expecting'
<1> DEFINE p == Packet(this)
<1>1. /\ toS # <<>> /\ toS' = Tail(toS)
      /\ UNCHANGED <<rpc, state, block, csum, image, addr, fifo>>
  BY DEF TakeAnswer, receiver
<1>2. /\ toS = <<"NAK">> /\ addr = 0 /\ Alone(p) /\ spc = "sent" /\ n = this /\ ThisComes
      /\ Head(toS) = "NAK" /\ toS' = <<>>
  <2>1. toS = <<"NAK">> /\ addr = 0 /\ Alone(p) /\ spc = "sent" /\ n = this /\ ThisComes
    BY <1>1, Zenon DEF Expecting
  <2> QED BY <1>1, <2>1, AnswersAre, Zenon
<1>3. this = 1 /\ this \in 1 .. Len(File) /\ this \in 1 .. Len(File) + 1
  BY <1>2, Constants DEF this
<1>4. p \in Stream /\ Len(p) = BlockSize + 4
  BY <1>3, PacketIs, Constants DEF Stream
<1>5. CASE Send(n)
  <2>1. /\ n' = this /\ spc' = "sent" /\ Read > 0
        /\ Len(wire') = Len(p) - Read + Len(Packet(n)) /\ Len(toR') <= Len(Packet(n))
        /\ Carries(wire', Packet(n), 0, Len(p) - Read)
        /\ Intact(wire', Packet(n), 0, Len(p) - Read)
        /\ Carries(wire, p, Read, -Read) => Carries(wire', p, Read, -Read)
        /\ Intact(wire, p, Read, -Read) => Intact(wire', p, Read, -Read)
    <3>1. n \in 1 .. Len(File) + 1 /\ n = this
      BY <1>2, <1>3
    <3> HIDE DEF p
    <3> QED BY <1>1, <1>2, <1>4, <1>5, <3>1, SendBehind
  <2>2. /\ Read' = Read /\ this' = this /\ Written' = Written
        /\ SumIsRight' <=> SumIsRight
        /\ SumIsWrong' <=> SumIsWrong
    BY <1>1, ReceiverFrame
  <2>3. n' = n /\ p' = p /\ -Read' = -Read
    BY <1>2, <2>1, <2>2
  <2>4. Follows(p)'
    <3> HIDE DEF p
    <3> QED BY <2>1, <2>2, <2>3 DEF Follows
  <2>5. \/ /\ SumIsRight' /\ Carries(wire', p', Read', -Read')
           /\ \A d \in 1 .. Written : image[addr * BlockSize + d] = File[this][d]
        \/ SumIsWrong' /\ Intact(wire', p', Read', -Read')
    <3>1. \/ /\ SumIsRight /\ Carries(wire, p, Read, -Read)
             /\ \A d \in 1 .. Written : image[addr * BlockSize + d] = File[this][d]
          \/ SumIsWrong /\ Intact(wire, p, Read, -Read)
      BY <1>2 DEF ThisComes
    <3> HIDE DEF p
    <3> QED BY <2>1, <2>2, <2>3, <3>1
  <2>6. ThisComes'
    <3>1. this' > Len(File) => Read' = 0
      BY <1>2, <2>2 DEF ThisComes
    <3> QED BY <1>1, <1>2, <2>2, <2>4, <2>5, <3>1 DEF ThisComes
  <2> QED BY <1>2, <2>1, <2>2, <2>6 DEF Expecting
<1>6. CASE UNCHANGED <<toR, sender, damaged>>
  <2>1. UNCHANGED <<fifo, toR, state, csum, block, addr, image, n, damaged, spc>>
    BY <1>1, <1>6 DEF sender
  <2>2. ThisComes' /\ this' = this
    BY <1>2, <2>1, Frame
  <2> QED BY <1>2, <2>1, <2>2 DEF Expecting
<1>7. Send(n) \/ UNCHANGED <<toR, sender, damaged>>
  BY <1>2 DEF TakeAnswer
<1> QED BY <1>5, <1>6, <1>7

LEMMA RepeatedAnswer ==
    ASSUME TypeOK, TypeOK', state # ErrorState, addr <= Len(File), Repeated, TakeAnswer
    PROVE  Repeated'
<1> DEFINE p == Packet(addr)
<1>1. /\ toS # <<>> /\ toS' = Tail(toS)
      /\ UNCHANGED <<rpc, state, block, csum, image, addr, fifo>>
  BY DEF TakeAnswer, receiver
<1>2. /\ toS = <<"ACK">> /\ n = addr /\ spc = "sent" /\ rpc = "bytes" /\ LastComes
      /\ Head(toS) = "ACK" /\ toS' = <<>>
  <2>1. toS = <<"ACK">> /\ n = addr /\ spc = "sent" /\ rpc = "bytes" /\ LastComes
    BY <1>1, Zenon DEF Repeated
  <2> QED BY <1>1, <2>1, AnswersAre, Zenon
<1>3. /\ addr \in 1 .. Len(File) /\ p \in Stream /\ Len(p) = BlockSize + 4
      /\ this = addr + 1 /\ this \in 1 .. Len(File) + 1 /\ n # this
  BY <1>2, LastIs, Constants DEF this
<1>4. Alone(p)
  BY <1>2, <1>3 DEF LastComes
<1>5. Send(n + 1)
  <2>1. n <= Len(File) /\ ~(n > Len(File))
    BY <1>2, <1>3, Constants
  <2> QED BY <1>2, <2>1 DEF TakeAnswer
<1>6. /\ n' = this /\ spc' = "sent" /\ Read > 0
      /\ Len(wire') = Len(p) - Read + Len(Packet(this)) /\ Len(toR') <= Len(Packet(this))
      /\ Carries(wire', Packet(this), 0, Len(p) - Read)
      /\ Intact(wire', Packet(this), 0, Len(p) - Read)
      /\ Carries(wire, p, Read, -Read) => Carries(wire', p, Read, -Read)
      /\ Intact(wire, p, Read, -Read) => Intact(wire', p, Read, -Read)
  <2>1. n + 1 \in 1 .. Len(File) + 1 /\ n + 1 = this
    BY <1>2, <1>3
  <2> HIDE DEF p
  <2> QED BY <1>1, <1>2, <1>3, <1>4, <1>5, <2>1, SendBehind
<1>7. Read' = Read /\ this' = this /\ addr' = addr /\ p' = p /\ -Read' = -Read
  BY <1>1, ReceiverFrame
<1>8. Follows(p)' /\ n' = this'
  <2> HIDE DEF p
  <2> QED BY <1>6, <1>7 DEF Follows
<1>9. /\ Carries(wire', p', Read', -Read')
      /\ Read' = 2 => Intact(wire', p', 2, -2)
  <2>1. Carries(wire, p, Read, -Read) /\ (Read = 2 => Intact(wire, p, Read, -Read))
    BY <1>2 DEF LastComes
  <2> HIDE DEF p
  <2> QED BY <1>6, <1>7, <2>1
<1>10. LastComes'
  BY <1>2, <1>7, <1>8, <1>9 DEF LastComes
<1> QED BY <1>1, <1>2, <1>6, <1>10 DEF Repeated

LEMMA QuietAnswer ==
    ASSUME Base, Base', addr <= Len(File), Quiet, TakeAnswer
    PROVE  Quiet' \/ Expecting' \/ Repeated'
<1>0. TypeOK /\ TypeOK' /\ Cancelled /\ addr \in Nat /\ this = addr + 1 /\ Len(File) \in Nat
  BY Constants DEF Base, TypeOK, this
<1>1. /\ toS # <<>> /\ toS' = Tail(toS) /\ wire = <<>> /\ state = StartState
      /\ UNCHANGED <<rpc, state, block, csum, image, addr, fifo>>
  BY DEF TakeAnswer, receiver, Quiet
<1>2. this' = this
  BY <1>1 DEF this
<1>3. ASSUME UNCHANGED <<toR, sender, damaged>> PROVE wire' = wire /\ UNCHANGED <<spc, n>>
  BY <1>1, <1>3 DEF wire, sender
<1>4. CASE rpc = "wait"
  <2>1. toS = <<"NAK">> /\ toS' = <<>> /\ Head(toS) = "NAK"
    <3>1. toS = <<"NAK">>
      BY <1>1, <1>4 DEF Quiet
    <3> QED BY <1>1, <3>1, AnswersAre, Zenon
  <2>2. CASE spc \in {"ready", "sent"} /\ Send(n)
    <3>1. n = this /\ addr = 0
      BY <1>0, <1>4, <2>2 DEF Quiet, Cancelled
    <3>2. ThisComes' /\ n' = this' /\ spc' = "sent"
      BY <1>0, <1>1, <2>2, <3>1, SendThis
    <3> QED BY <2>1, <3>2 DEF Expecting
  <2>3. CASE UNCHANGED <<toR, sender, damaged>>
    BY <1>1, <1>3, <1>4, <2>1, <2>3 DEF Quiet
  <2> QED BY <2>1, <2>2, <2>3 DEF TakeAnswer
<1>5. CASE rpc # "wait"
  <2>1. /\ rpc = "bytes" /\ spc = "sent" /\ n = addr
        /\ \/ toS = <<"ACK">> /\ toS' = <<>> /\ Head(toS) = "ACK"
           \/ toS = <<"NAK", "ACK">> /\ toS' = <<"ACK">> /\ Head(toS) = "NAK" /\ addr = 1
    <3>1. /\ rpc = "bytes" /\ spc = "sent" /\ n = addr
          /\ \/ toS = <<"ACK">>
             \/ toS = <<"NAK", "ACK">> /\ addr = 1
      BY <1>1, <1>5 DEF Quiet
    <3> QED BY <1>1, <3>1, AnswersAre, Zenon
  <2>2. n \in Nat /\ n <= Len(File) /\ n >= 1 /\ n + 1 = this /\ ~(n > Len(File))
    BY <1>0, <2>1 DEF TypeOK
  <2>3. CASE toS = <<"ACK">> /\ toS' = <<>> /\ Head(toS) = "ACK"
    <3>1. Send(this)
      BY <2>1, <2>2, <2>3 DEF TakeAnswer
    <3>2. ThisComes' /\ n' = this' /\ spc' = "sent"
      BY <1>0, <1>1, <3>1, SendThis
    <3> QED BY <2>3, <3>2 DEF Expecting
  <2>4. CASE toS' = <<"ACK">> /\ Head(toS) = "NAK" /\ addr = 1
    <3>1. CASE Send(n)
      <4>1. LastComes' /\ n' = addr' /\ spc' = "sent"
        BY <1>0, <1>1, <2>1, <2>2, <3>1, SendLast
      <4> QED BY <1>1, <2>1, <2>4, <4>1 DEF Repeated
    <3>2. CASE UNCHANGED <<toR, sender, damaged>>
      BY <1>1, <1>3, <2>1, <2>4, <3>2 DEF Quiet
    <3> QED BY <2>1, <2>4, <3>1, <3>2 DEF TakeAnswer
  <2> QED BY <2>1, <2>3, <2>4
<1> QED BY <1>4, <1>5

LEMMA TransferAnswer ==
    ASSUME Base, Base', Transfer, TakeAnswer
    PROVE  Transfer'
<1>0. TypeOK /\ TypeOK'
  BY DEF Base
<1>1. UNCHANGED <<rpc, state, block, csum, image, addr, fifo>>
  BY DEF TakeAnswer, receiver
<1>2. this' = this /\ (BlocksAreFiles' <=> BlocksAreFiles)
  BY <1>1, ReceiverFrame
<1>3. rpc \in {"wait", "bytes"} /\ state # ErrorState => Quiet' \/ Expecting' \/ Repeated'
  BY <1>0, Healthy, QuietAnswer, ExpectingAnswer, RepeatedAnswer
<1>4. Failed => Failed'
  BY FailedAnswer
<1> QED BY <1>1, <1>2, <1>3, <1>4 DEF Transfer

\* The sender gives up, or sends the last packet again.
LEMMA TransferTimeout ==
    ASSUME Base, Base', Transfer, Timeout
    PROVE  Transfer'
<1>0. TypeOK /\ TypeOK' /\ Cancelled /\ addr \in Nat /\ this = addr + 1
  BY DEF Base, TypeOK, this
<1>1. /\ spc = "sent" /\ toS = <<>> /\ toS' = toS /\ wire = <<>>
      /\ UNCHANGED <<rpc, state, block, csum, image, addr, fifo>>
  BY ConcatEmptySeq DEF Timeout, receiver, wire
<1>2. this' = this /\ (BlocksAreFiles' <=> BlocksAreFiles)
  BY <1>1, ReceiverFrame
<1>3. Send(n) \/ (spc' = "idle" /\ UNCHANGED <<toR, n, damaged>>)
  BY DEF Timeout
<1>4. Failed => Failed'
  BY <1>1, <1>2, <1>3 DEF Failed, Send
<1>5. ASSUME rpc \in {"wait", "bytes"}, state # ErrorState
      PROVE  Quiet' \/ Expecting' \/ Repeated'
  <2>1. Quiet /\ addr <= Len(File)
    BY <1>0, <1>1, <1>5, Healthy, ThisIs, LastIs DEF Expecting, Repeated
  <2>2. state = StartState
    BY <2>1 DEF Quiet
  <2>3. CASE spc' = "idle" /\ UNCHANGED <<toR, n, damaged>>
    <3>1. wire' = wire
      BY <1>1, <2>3 DEF wire
    <3> QED BY <1>1, <1>5, <2>1, <2>3, <3>1 DEF Quiet
  <2>4. CASE Send(n) /\ rpc = "wait"
    <3>1. n = this
      BY <1>0, <1>1, <2>1, <2>4 DEF Quiet, Cancelled
    <3>2. ThisComes' /\ n' = this' /\ spc' = "sent"
      BY <1>0, <1>1, <2>1, <2>2, <2>4, <3>1, SendThis
    <3> QED BY <1>1, <3>2 DEF Expecting
  <2>5. CASE Send(n) /\ rpc = "bytes"
    <3>1. n = addr /\ addr \in 1 .. Len(File)
      <4>1. n = addr
        BY <1>1, <2>1, <2>5 DEF Quiet
      <4>2. n >= 1
        BY <1>0, Constants DEF TypeOK
      <4> QED BY <1>0, <2>1, <4>1, <4>2, Constants
    <3>2. LastComes' /\ n' = addr' /\ spc' = "sent"
      BY <1>0, <1>1, <2>1, <2>2, <2>5, <3>1, SendLast
    <3> QED BY <1>1, <2>5, <3>2 DEF Repeated
  <2> QED BY <1>3, <1>5, <2>3, <2>4, <2>5
<1> QED BY <1>1, <1>2, <1>4, <1>5 DEF Transfer

--------------------------------------------------------------------------------
(* Transfers: the receiver takes a byte. *)

\* The first byte of the wire is taken, and the packet under way is p.
LEMMA WireOn ==
    ASSUME TypeOK, TypeOK', state # ErrorState,
           NEW rb, uart_getc(rb), UNCHANGED <<toR, n, damaged>>,
           NEW p \in Stream, Read < Len(p), Len(p) - Read <= Len(wire)
    PROVE  /\ Carries(wire, p, Read, -Read) =>
                /\ rb \in {p[Read + 1]} \cup Flipped(p[Read + 1])
                /\ Carries(wire', p, Read + 1, -(Read + 1))
                /\ rb # p[Read + 1] => Intact(wire', p, Read + 1, -(Read + 1))
           /\ Intact(wire, p, Read, -Read) =>
                rb = p[Read + 1] /\ Intact(wire', p, Read + 1, -(Read + 1))
           /\ Alone(p) => Len(wire') = Len(p) - (Read + 1)
           /\ Follows(p) =>
                /\ Len(wire') = Len(p) - (Read + 1) + Len(Packet(n))
                /\ Len(toR') <= Len(Packet(n))
                /\ Carries(wire', Packet(n), 0, Len(p) - (Read + 1))
                /\ ~damaged => Intact(wire', Packet(n), 0, Len(p) - (Read + 1))
<1> DEFINE r == Read
<1>1. /\ rb = wire[1] /\ Len(wire) >= 1 /\ Len(wire') = Len(wire) - 1
      /\ \A i \in 1 .. Len(wire) - 1 : wire'[i] = wire[i + 1]
  BY WireRead
<1>2. wire \in Stream /\ Len(wire) \in Nat /\ Len(p) \in Nat /\ r \in Nat
  BY WireIs, ReadIs, Constants DEF Stream
<1>3. r < Len(p) /\ Len(p) - r <= Len(wire) /\ -r - 1 = -(r + 1) /\ -r \in Int
  BY <1>2
<1>4. /\ Carries(wire, p, r, -r) => rb \in {p[r + 1]} \cup Flipped(p[r + 1])
      /\ Intact(wire, p, r, -r) => rb = p[r + 1]
  <2> HIDE DEF r
  <2> QED BY <1>1, <1>2, <1>3, FirstIs
<1>5. /\ Carries(wire, p, r, -r) => Carries(wire', p, r + 1, -(r + 1))
      /\ Intact(wire, p, r, -r) => Intact(wire', p, r + 1, -(r + 1))
  <2> HIDE DEF r
  <2>1. /\ r + 1 \in Nat /\ r <= r + 1 /\ r + 1 + (-r) >= 1 /\ Len(p) + (-r) <= Len(wire)
    BY <1>2, <1>3
  <2>2. /\ Carries(wire, p, r, -r) => Carries(wire', p, r + 1, -r - 1)
        /\ Intact(wire, p, r, -r) => Intact(wire', p, r + 1, -r - 1)
    BY <1>1, <1>2, <1>3, <2>1, Shifted
  <2> QED BY <1>3, <2>2
<1>6. Carries(wire, p, r, -r) /\ rb # p[r + 1] => Intact(wire', p, r + 1, -(r + 1))
  <2> HIDE DEF r
  <2> QED BY <1>1, <1>2, <1>3, OnlyOne
<1>7. Alone(p) => Len(wire') = Len(p) - (r + 1)
  BY <1>1, <1>2 DEF Alone
<1>8. ASSUME Follows(p)
      PROVE  /\ Len(wire') = Len(p) - (r + 1) + Len(Packet(n))
             /\ Len(toR') <= Len(Packet(n))
             /\ Carries(wire', Packet(n), 0, Len(p) - (r + 1))
             /\ ~damaged => Intact(wire', Packet(n), 0, Len(p) - (r + 1))
  <2> DEFINE q == Packet(n)
             at == Len(p) - r
  <2>1. q \in Stream /\ Len(q) \in Nat
    BY PacketIs DEF Stream, TypeOK
  <2>2. /\ Len(wire) = at + Len(q) /\ Len(toR) <= Len(q)
        /\ Carries(wire, q, 0, at) /\ (~damaged => Intact(wire, q, 0, at))
    BY <1>8 DEF Follows
  <2>3. at \in Int /\ 0 <= 0 /\ 0 + at >= 1 /\ Len(q) + at <= Len(wire)
        /\ at - 1 = Len(p) - (r + 1) /\ Len(wire') = at - 1 + Len(q)
    BY <1>1, <1>2, <1>3, <2>1, <2>2
  <2> HIDE DEF q, at, r
  <2>4. /\ Carries(wire, q, 0, at) => Carries(wire', q, 0, at - 1)
        /\ Intact(wire, q, 0, at) => Intact(wire', q, 0, at - 1)
    BY <1>1, <1>2, <2>1, <2>3, Shifted
  <2>5. /\ Len(wire') = Len(p) - (r + 1) + Len(q)
        /\ Carries(wire', q, 0, Len(p) - (r + 1))
        /\ ~damaged => Intact(wire', q, 0, Len(p) - (r + 1))
    BY <2>2, <2>3, <2>4
  <2> QED BY <2>2, <2>5 DEF q
<1> QED BY <1>4, <1>5, <1>6, <1>7, <1>8

\* The receiver gives the transfer up.
LEMMA GoWrong ==
    ASSUME Base, Transfer, Expecting \/ Repeated, rpc' = "bytes", addr <= Len(File),
           UNCHANGED <<toS, spc, n, addr>>
    PROVE  Failed'
<1>1. this' = this /\ addr \in Nat /\ this = addr + 1 /\ n \in Nat
  BY Constants DEF Base, TypeOK, this
<1>2. \/ /\ toS \in Unanswered /\ n <= this
      \/ /\ toS \in Answered /\ addr > 0 /\ n <= addr
  <2>1. CASE Expecting
    BY <1>1, <2>1 DEF Expecting, Unanswered
  <2>2. CASE Repeated
    <3>1. addr > 0 /\ (n = addr \/ n = this)
      BY <2>2 DEF Repeated, LastComes
    <3>2. toS = <<>> \/ (toS = <<"ACK">> /\ n = addr)
      BY <2>2 DEF Repeated
    <3> QED BY <1>1, <3>1, <3>2 DEF Unanswered, Answered
  <2> QED BY <2>1, <2>2
<1>3. spc = "sent"
  BY DEF Expecting, Repeated
<1>4. CASE toS \in Unanswered /\ n <= this
  <2>1. toS \notin Answered \cup Revoked
    BY <1>4, Disjoint
  <2> QED BY <1>1, <1>3, <1>4, <2>1 DEF Failed
<1>5. CASE toS \in Answered /\ addr > 0 /\ n <= addr
  BY <1>1, <1>3, <1>5 DEF Failed
<1> QED BY <1>2, <1>4, <1>5

\* What memory has of the block the receiver is in.
Kept == \A d \in 1 .. Written : image[addr * BlockSize + d] = File[this][d]

\* A byte of the expected packet is taken and does not end it.
LEMMA ThisGoesOn ==
    ASSUME TypeOK, TypeOK', state # ErrorState, addr <= Len(File), ThisComes,
           NEW rb, uart_getc(rb), UNCHANGED <<toR, n, damaged, addr>>,
           Read' = Read + 1, this <= Len(File),
           rb = Packet(this)[Read + 1] /\ SumIsRight /\ Kept => SumIsRight' /\ Kept',
           rb # Packet(this)[Read + 1] /\ SumIsRight => SumIsWrong',
           rb = Packet(this)[Read + 1] /\ SumIsWrong => SumIsWrong'
    PROVE  ThisComes' /\ (Alone(Packet(this)) => Alone(Packet(this))')
<1> DEFINE p == Packet(this)
<1>1. p \in Stream /\ Read < Len(p) /\ Len(p) - Read <= Len(wire)
  BY ThisIs
<1>2. /\ Carries(wire, p, Read, -Read) =>
           /\ Carries(wire', p, Read + 1, -(Read + 1))
           /\ rb # p[Read + 1] => Intact(wire', p, Read + 1, -(Read + 1))
      /\ Intact(wire, p, Read, -Read) =>
           rb = p[Read + 1] /\ Intact(wire', p, Read + 1, -(Read + 1))
      /\ Alone(p) => Len(wire') = Len(p) - (Read + 1)
      /\ Follows(p) =>
           /\ Len(wire') = Len(p) - (Read + 1) + Len(Packet(n))
           /\ Len(toR') <= Len(Packet(n))
           /\ Carries(wire', Packet(n), 0, Len(p) - (Read + 1))
           /\ ~damaged => Intact(wire', Packet(n), 0, Len(p) - (Read + 1))
  <2> HIDE DEF p
  <2> QED BY <1>1, WireOn
<1>3. p' = p /\ this' = this /\ -Read' = -(Read + 1)
  BY DEF this
<1>4. Alone(p) => Alone(p)'
  <2> HIDE DEF p
  <2> QED BY <1>2, <1>3 DEF Alone
<1>5. Follows(p) => Follows(p)'
  <2>1. Read' > 0
    BY ReadIs, Constants
  <2> HIDE DEF p
  <2> QED BY <1>2, <1>3, <2>1 DEF Follows
<1>6. /\ (SumIsRight /\ Carries(wire, p, Read, -Read) /\ Kept)
         \/ (SumIsWrong /\ Intact(wire, p, Read, -Read))
      /\ \/ Alone(p) /\ (~damaged => SumIsRight /\ Intact(wire, p, Read, -Read))
         \/ Follows(p) /\ addr = 0
  BY DEF ThisComes, Kept
<1>7. /\ rb = p[Read + 1] /\ SumIsRight /\ Kept => SumIsRight' /\ Kept'
      /\ rb # p[Read + 1] /\ SumIsRight => SumIsWrong'
      /\ rb = p[Read + 1] /\ SumIsWrong => SumIsWrong'
  OBVIOUS
<1>8. Intact(wire, p, Read, -Read) => Carries(wire, p, Read, -Read)
  BY IntactIsCarried
<1>9. SumIsRight => ~SumIsWrong
  BY RightOrWrong
<1> HIDE DEF p
<1>10. (SumIsRight' /\ Carries(wire', p', Read', -Read') /\ Kept')
       \/ (SumIsWrong' /\ Intact(wire', p', Read', -Read'))
  BY <1>2, <1>3, <1>6, <1>7, <1>8
<1>11. \/ Alone(p)' /\ (~damaged' => SumIsRight' /\ Intact(wire', p', Read', -Read'))
       \/ Follows(p)' /\ addr' = 0
  BY <1>2, <1>3, <1>4, <1>5, <1>6, <1>7, <1>8, <1>9
<1>12. this' > Len(File) => Read' = 0
  BY <1>3, Constants DEF TypeOK, this
<1> QED BY <1>3, <1>4, <1>10, <1>11, <1>12 DEF ThisComes, Kept, p

\* The sums behind the next byte.
LEMMA SumGoesOn ==
    ASSUME TypeOK, this \in 1 .. Len(File), Read \in 0 .. BlockSize + 2,
           Read' = Read + 1, this' = this, NEW rb \in Byte, csum' = csum + rb
    PROVE  /\ Packet(this)[Read + 1] = Numbered(this)[Read + 1] /\ Numbered(this)[Read + 1] \in Byte
           /\ Sum \in Nat /\ Sum' = Sum + Numbered(this)[Read + 1]
           /\ Read > 0 /\ SumIsRight /\ rb = Packet(this)[Read + 1] => SumIsRight'
           /\ SumIsWrong /\ rb = Packet(this)[Read + 1] => SumIsWrong'
           /\ Read > 2 /\ SumIsRight /\ rb \in Flipped(Packet(this)[Read + 1]) => SumIsWrong'
<1> DEFINE s == Sums(Numbered(this))
           b == Numbered(this)[Read + 1]
<1>0. /\ BlockSize \in Nat /\ csum \in Nat /\ csum' \in Int /\ Byte \subseteq Nat /\ Values \in Nat
      /\ rb \in Nat
  <2>1. Values \in Nat /\ BlockSize \in Nat /\ csum \in Nat
    <3>1. csum \in Nat
      BY DEF TypeOK
    <3> QED BY <3>1, Constants
  <2>2. Byte \subseteq Nat
    BY <2>1 DEF Byte
  <2> QED BY <2>1, <2>2
<1>1. Read + 1 \in 1 .. BlockSize + 3 /\ Read \in 0 .. BlockSize + 3 /\ Read + 1 - 1 = Read
  BY <1>0
<1>2. /\ \A i \in 0 .. BlockSize + 3 : s[i] \in Nat
      /\ \A i \in 1 .. BlockSize + 3 : s[i] = s[i - 1] + Numbered(this)[i]
  BY NumberedSums
<1>3. Packet(this)[Read + 1] = b
  <2>1. this \in 1 .. Len(File) + 1 /\ this # Len(File) + 1
    BY Constants
  <2> QED BY <1>1, <2>1, PacketIs
<1>4. b \in Byte
  <2>1. Numbered(this) \in Seq(Byte) /\ Len(Numbered(this)) = BlockSize + 3
    BY NumberedIs
  <2> QED BY <1>1, <2>1
<1> HIDE DEF s
<1>5. s[Read] \in Nat /\ s[Read + 1] = s[Read] + b /\ s[Read + 1] \in Nat
  <2>1. s[Read + 1] = s[Read + 1 - 1] + Numbered(this)[Read + 1]
    BY <1>1, <1>2
  <2> QED BY <1>1, <1>2, <2>1
<1>6. Sum = s[Read] /\ Sum' = s[Read + 1]
  BY DEF Sum, s
<1> HIDE DEF b
<1>7. Sum \in Nat /\ Sum' = Sum + b /\ Sum' \in Nat
  BY <1>5, <1>6
<1>8. Read > 0 /\ SumIsRight /\ rb = b => SumIsRight'
  BY <1>7 DEF SumIsRight
<1>9. ASSUME SumIsWrong, rb = b PROVE SumIsWrong'
  <2>1. PICK e \in 1 .. Values - 1 : csum = Sum + e \/ csum = Sum - e
    BY <1>9 DEF SumIsWrong
  <2>2. csum' = Sum' + e \/ csum' = Sum' - e
    BY <1>0, <1>7, <1>9, <2>1
  <2>3. Read' > 3
    BY <1>0, <1>9 DEF SumIsWrong
  <2> QED BY <2>2, <2>3 DEF SumIsWrong
<1>10. ASSUME Read > 2, SumIsRight, rb \in Flipped(b) PROVE SumIsWrong'
  <2>1. PICK e \in 1 .. Values - 1 : rb = b + e \/ rb = b - e
    BY <1>4, <1>10, FlippedIs
  <2>2. csum = Sum
    BY <1>0, <1>10 DEF SumIsRight
  <2>3. b \in Nat /\ e \in Nat
    BY <1>0, <1>4
  <2>4. csum' = Sum' + e \/ csum' = Sum' - e
    BY <1>0, <1>7, <2>1, <2>2, <2>3
  <2>5. Read' > 3
    BY <1>0, <1>10
  <2> QED BY <2>4, <2>5 DEF SumIsWrong
<1> QED BY <1>3, <1>4, <1>7, <1>8, <1>9, <1>10 DEF b

LEMMA ExpectingStart ==
    ASSUME Base, Base', Transfer, rpc = "bytes", state # ErrorState, Expecting,
           NEW rb \in Byte, uart_getc(rb), UNCHANGED <<toR, spc, n, damaged>>, SohOrEot(rb)
    PROVE  Transfer'
<1> DEFINE p == Packet(this)
<1>0. /\ TypeOK /\ TypeOK' /\ addr <= Len(File) /\ ThisComes /\ state = StartState
      /\ addr \in Nat /\ this = addr + 1 /\ block = this % Values
  BY Healthy DEF Base, TypeOK, Expecting, SohOrEot, this
<1>1. UNCHANGED <<block, image, addr>> /\ this' = this /\ Read = 0
  BY <1>0, AtStart DEF SohOrEot, this
<1>2. BlocksAreFiles /\ BlocksAreFiles'
  BY <1>1 DEF Transfer, BlocksAreFiles
<1>3. p \in Stream /\ Read < Len(p) /\ Len(p) - Read <= Len(wire) /\ this \in 1 .. Len(File) + 1
  BY <1>0, ThisIs
<1>4. rb \in {p[1]} \cup Flipped(p[1])
  <2>1. Carries(wire, p, Read, -Read)
    BY <1>0, IntactIsCarried DEF ThisComes
  <2>2. rb \in {p[Read + 1]} \cup Flipped(p[Read + 1])
    <3> HIDE DEF p
    <3> QED BY <1>0, <1>3, <2>1, WireOn
  <2> QED BY <1>1, <2>2
<1>5. CASE rb = SOH
  <2>1. csum' = SOH /\ state' = BlockState /\ UNCHANGED <<rpc, toS>>
    BY <1>5, Constants DEF SohOrEot
  <2>2. this <= Len(File) /\ this \in 1 .. Len(File) /\ p[1] = SOH
    BY <1>3, <1>4, <1>5, PacketIs, Constants
  <2>3. Read' = 1 /\ Written' = 0 /\ Read' = Read + 1
    BY <1>1, <2>1, States DEF Read, Written
  <2>4. SumIsRight'
    <3>1. Sums(Numbered(this))[1] = SOH
      BY <2>2, NumberedSums
    <3> QED BY <1>1, <2>1, <2>3, <3>1 DEF SumIsRight, Sum
  <2>5. rb = p[Read + 1] /\ ~SumIsWrong /\ Kept'
    BY <1>1, <1>5, <2>2, <2>3 DEF SumIsWrong, Kept
  <2>6. ThisComes' /\ (Alone(Packet(this)) => Alone(Packet(this))')
    BY <1>0, <1>1, <2>2, <2>3, <2>4, <2>5, ThisGoesOn
  <2>7. Expecting'
    BY <1>1, <2>1, <2>6 DEF Expecting
  <2> QED BY <1>0, <1>1, <1>2, <2>1, <2>7, States DEF Transfer
<1>6. CASE rb = EOT
  <2>1. rpc' = "ended"
    BY <1>6, Constants DEF SohOrEot
  <2>2. this = Len(File) + 1
    BY <1>3, <1>4, <1>6, PacketIs, Constants
  <2>3. addr = Len(File)
    BY <1>0, <2>2, Constants
  <2> QED BY <1>0, <1>1, <1>2, <2>1, <2>3 DEF Transfer
<1>7. CASE rb \notin {SOH, EOT}
  <2>1. state' = ErrorState /\ UNCHANGED <<rpc, toS>>
    BY <1>7 DEF SohOrEot
  <2>2. Failed'
    BY <1>0, <1>1, <2>1, GoWrong
  <2> QED BY <1>0, <1>1, <1>2, <2>1, <2>2 DEF Transfer
<1> QED BY <1>5, <1>6, <1>7

LEMMA ExpectingNumber ==
    ASSUME Base, Base', Transfer, rpc = "bytes", state # ErrorState, Expecting,
           NEW rb \in Byte, uart_getc(rb), UNCHANGED <<toR, spc, n, damaged>>, BlockNumber(rb)
    PROVE  Transfer'
<1> DEFINE p == Packet(this)
<1>0. /\ TypeOK /\ TypeOK' /\ addr <= Len(File) /\ ThisComes
      /\ state \in {BlockState, InverseState}
      /\ addr \in Nat /\ this = addr + 1 /\ block = this % Values
  BY Healthy DEF Base, TypeOK, Expecting, BlockNumber, this
<1>1. UNCHANGED <<rpc, block, image, addr, toS>> /\ this' = this
  BY DEF BlockNumber, this
<1>2. BlocksAreFiles'
  BY <1>1 DEF Transfer, BlocksAreFiles
<1>3. (state = BlockState /\ Read = 1) \/ (state = InverseState /\ Read = 2)
  BY <1>0, States DEF Read
<1>4. this \in 1 .. Len(File) /\ this <= Len(File) /\ this # Len(File) + 1
  BY <1>0, <1>3, ThisIs, Constants
<1>5. p[2] = this % Values /\ p[3] = Inverted(this % Values)
  <2>1. this \in 1 .. Len(File) + 1
    BY <1>4, Constants
  <2> QED BY <1>4, <2>1, PacketIs
<1>6. Expected(rb) <=> rb = p[Read + 1]
  BY <1>0, <1>3, <1>5, States DEF Expected
<1>7. CASE Expected(rb)
  <2>1. csum' = csum + rb /\ state' = IF state = BlockState THEN InverseState ELSE 0
    BY <1>7 DEF BlockNumber
  <2>2. Read' = Read + 1 /\ Written' = 0
    <3>1. 0 \in 0 .. BlockSize
      BY Constants
    <3>2. CASE state = BlockState
      BY <1>3, <2>1, <3>2, States DEF Read, Written
    <3>3. CASE state = InverseState
      <4>1. state' = 0 /\ 0 \notin {StartState, BlockState, InverseState}
        BY <2>1, <3>1, <3>3, States
      <4>2. Read' = 3 + 0 /\ Written' = 0
        BY <3>1, <4>1 DEF Read, Written
      <4> QED BY <1>3, <3>3, <4>2, States
    <3> QED BY <1>0, <3>2, <3>3
  <2>3. rb = p[Read + 1] /\ SumIsRight => SumIsRight'
    <3>1. Read \in 0 .. BlockSize + 2 /\ Read > 0
      BY <1>3, Constants
    <3> QED BY <1>0, <1>1, <1>4, <2>1, <2>2, <3>1, SumGoesOn
  <2>4. rb = p[Read + 1] /\ ~SumIsWrong /\ Kept'
    BY <1>3, <1>6, <1>7, <2>2 DEF SumIsWrong, Kept
  <2>5. ThisComes' /\ (Alone(Packet(this)) => Alone(Packet(this))')
    BY <1>0, <1>1, <1>4, <2>2, <2>3, <2>4, ThisGoesOn
  <2>6. Expecting'
    BY <1>1, <2>5 DEF Expecting
  <2>7. state' # ErrorState
    BY <2>1, States, Constants
  <2> QED BY <1>0, <1>1, <1>2, <2>6, <2>7 DEF Transfer
<1>8. CASE ~Expected(rb)
  <2>1. state' = ErrorState
    BY <1>8 DEF BlockNumber
  <2>2. Failed'
    BY <1>0, <1>1, GoWrong
  <2> QED BY <1>0, <1>1, <1>2, <2>1, <2>2 DEF Transfer
<1> QED BY <1>7, <1>8

\* Blocks do not overlap.
LEMMA BlocksApart ==
    ASSUME NEW a \in Nat, NEW c \in Nat, a + 1 <= c
    PROVE  a * BlockSize \in Nat /\ c * BlockSize \in Nat /\ a * BlockSize + BlockSize <= c * BlockSize
<1> DEFINE j == c - (a + 1)
<1>1. BlockSize \in Nat /\ j \in Nat /\ c = a + 1 + j
  BY Constants
<1>2. a * BlockSize \in Nat /\ j * BlockSize \in Nat
  <2> HIDE DEF j
  <2> QED BY <1>1
<1>3. c * BlockSize = a * BlockSize + BlockSize + j * BlockSize
  <2> HIDE DEF j
  <2> QED BY <1>1
<1> HIDE DEF j
<1> QED BY <1>1, <1>2, <1>3

LEMMA ExpectingData ==
    ASSUME Base, Base', Transfer, rpc = "bytes", state # ErrorState, Expecting,
           NEW rb \in Byte, uart_getc(rb), UNCHANGED <<toR, spc, n, damaged>>, Data(rb)
    PROVE  Transfer'
<1> DEFINE p == Packet(this)
           m == addr * BlockSize + state
<1>0. /\ TypeOK /\ TypeOK' /\ ImageIsLong /\ addr <= Len(File) /\ ThisComes
      /\ addr \in Nat /\ this = addr + 1 /\ block = this % Values
      /\ BlockSize \in Nat /\ BlockSize >= 1
  <2>1. /\ TypeOK /\ TypeOK' /\ ImageIsLong
    BY DEF Base
  <2>2. addr <= Len(File) /\ block = this % Values /\ ThisComes
    BY Healthy DEF Expecting
  <2>3. addr \in Nat
    BY <2>1 DEF TypeOK
  <2>4. this = addr + 1
    BY DEF this
  <2> QED BY <2>1, <2>2, <2>3, <2>4, Constants
<1>1. /\ UNCHANGED <<rpc, block, addr, toS>> /\ this' = this
      /\ csum' = csum + rb /\ state' = state + 1
  BY DEF Data, this
<1>2. /\ state \in 0 .. BlockSize - 1 /\ m \in Nat
      /\ \A i \in 1 .. m : image'[i] = image[i]
      /\ image'[m + 1] = rb
  BY <1>0, DataIs
<1>3. addr * BlockSize \in Nat /\ m = addr * BlockSize + state /\ state \in Nat
  BY <1>0, <1>2, BlocksAreLong
<1>4. /\ state \in 0 .. BlockSize /\ state' \in 0 .. BlockSize
      /\ Read = 3 + state /\ Written = state /\ Read' = 3 + (state + 1) /\ Written' = state + 1
  <2>1. state \in 0 .. BlockSize /\ state' \in 0 .. BlockSize
    BY <1>0, <1>1, <1>2
  <2> QED BY <1>1, <2>1, States DEF Read, Written
<1>5. Read' = Read + 1 /\ Read > 2 /\ Read \in 0 .. BlockSize + 2
  <2> HIDE DEF m
  <2>1. state \in Nat /\ state <= BlockSize - 1 /\ BlockSize \in Nat
    BY <1>0, <1>2
  <2> QED BY <1>4, <2>1
<1>6. this <= Len(File) /\ this \in 1 .. Len(File)
  BY <1>0, <1>5, ThisIs, Constants
<1>7. p[Read + 1] = File[this][state + 1]
  <2>1. this \in 1 .. Len(File) + 1 /\ this # Len(File) + 1
    BY <1>6, Constants
  <2>2. state + 1 \in 1 .. BlockSize /\ Read + 1 = 3 + (state + 1)
    BY <1>0, <1>2, <1>4
  <2> QED BY <1>6, <2>1, <2>2, PacketIs
<1>8. \A k \in 1 .. addr : \A d \in 1 .. BlockSize : (k - 1) * BlockSize + d \in 1 .. m
  <2> SUFFICES ASSUME NEW k \in 1 .. addr, NEW d \in 1 .. BlockSize
               PROVE  (k - 1) * BlockSize + d \in 1 .. m
    OBVIOUS
  <2>1. k - 1 \in Nat /\ k - 1 + 1 <= addr
    BY <1>0
  <2>2. (k - 1) * BlockSize \in Nat /\ (k - 1) * BlockSize + BlockSize <= addr * BlockSize
        /\ addr * BlockSize \in Nat
    BY <1>0, <2>1, BlocksApart
  <2> HIDE DEF m
  <2> QED BY <1>0, <1>3, <2>2
<1>9. BlocksAreFiles'
  <2>1. BlocksAreFiles
    BY DEF Transfer
  <2> HIDE DEF m
  <2> QED BY <1>1, <1>2, <1>8, <2>1 DEF BlocksAreFiles
<1>10. rb = p[Read + 1] /\ Kept => Kept'
  <2> SUFFICES ASSUME rb = p[Read + 1], Kept, NEW d \in 1 .. state + 1
               PROVE  image'[addr * BlockSize + d] = File[this][d]
    BY <1>1, <1>4 DEF Kept
  <2>1. CASE d = state + 1
    <3> HIDE DEF m
    <3>1. addr * BlockSize + d = m + 1
      BY <1>3, <2>1
    <3> QED BY <1>2, <1>7, <2>1, <3>1
  <2>2. CASE d # state + 1
    <3>1. d \in 1 .. state
      <4> HIDE DEF m
      <4> QED BY <1>3, <2>2
    <3>2. addr * BlockSize + d \in 1 .. m
      <4> HIDE DEF m
      <4> QED BY <1>3, <3>1
    <3>3. image[addr * BlockSize + d] = File[this][d]
      BY <1>4, <3>1 DEF Kept
    <3> HIDE DEF m
    <3> QED BY <1>2, <3>2, <3>3
  <2> QED BY <2>1, <2>2
<1> HIDE DEF m
<1>11. rb \in {p[Read + 1]} \cup Flipped(p[Read + 1])
  <2>1. p \in Stream /\ Read < Len(p) /\ Len(p) - Read <= Len(wire)
    BY <1>0, ThisIs
  <2>2. Carries(wire, p, Read, -Read)
    BY <1>0, IntactIsCarried DEF ThisComes
  <2> HIDE DEF p
  <2> QED BY <1>0, <2>1, <2>2, WireOn
<1>12. /\ SumIsRight /\ rb = p[Read + 1] => SumIsRight'
       /\ SumIsWrong /\ rb = p[Read + 1] => SumIsWrong'
       /\ SumIsRight /\ rb \in Flipped(p[Read + 1]) => SumIsWrong'
  <2>1. Read > 0
    BY <1>5
  <2> QED BY <1>0, <1>1, <1>5, <1>6, <2>1, SumGoesOn
<1>13. ThisComes' /\ (Alone(Packet(this)) => Alone(Packet(this))')
  BY <1>0, <1>1, <1>5, <1>6, <1>10, <1>11, <1>12, ThisGoesOn
<1>14. Expecting'
  BY <1>1, <1>13 DEF Expecting
<1> QED BY <1>0, <1>1, <1>4, <1>9, <1>14, States DEF Transfer

LEMMA Acknowledging ==
    Append(<<>>, "ACK") = <<"ACK">> /\ Append(<<"NAK">>, "ACK") = <<"NAK", "ACK">>
<1> DEFINE s == Append(<<"NAK">>, "ACK")
           t == <<"NAK", "ACK">>
<1>1. Append(<<>>, "ACK") = <<"ACK">>
  OBVIOUS
<1>2. s \in Seq(Answers) /\ t \in Seq(Answers) /\ Len(s) = Len(t) /\ Len(t) = 2
  BY DEF Answers
<1>3. s[1] = t[1] /\ s[2] = t[2]
  OBVIOUS
<1>4. s = t
  <2> HIDE DEF s, t
  <2>1. \A i \in 1 .. Len(s) : s[i] = t[i]
    BY <1>2, <1>3
  <2> QED BY <1>2, <2>1, SeqEqual
<1> QED BY <1>1, <1>4

\* A packet ends: it is accepted only when all of its bytes have come as they were
\* sent, and then the next packet has not been sent, or the same has been again.
LEMMA ExpectingChecksum ==
    ASSUME Base, Base', Transfer, rpc = "bytes", state # ErrorState, Expecting,
           NEW rb \in Byte, uart_getc(rb), UNCHANGED <<toR, spc, n, damaged>>, Checksum(rb)
    PROVE  Transfer'
<1> DEFINE p == Packet(this)
<1>0. /\ TypeOK /\ TypeOK' /\ addr <= Len(File) /\ ThisComes
      /\ addr \in Nat /\ this = addr + 1 /\ block = this % Values
      /\ BlockSize \in Nat /\ BlockSize >= 1 /\ Len(File) \in Nat
  <2>1. /\ TypeOK /\ TypeOK'
    BY DEF Base
  <2>2. addr <= Len(File) /\ block = this % Values /\ ThisComes
    BY Healthy DEF Expecting
  <2>3. addr \in Nat
    BY <2>1 DEF TypeOK
  <2>4. this = addr + 1
    BY DEF this
  <2> QED BY <2>1, <2>2, <2>3, <2>4, Constants
<1>1. UNCHANGED <<rpc, image>> /\ state = BlockSize
  BY DEF Checksum
<1>2. Read = 3 + BlockSize /\ Written = BlockSize
  <2>1. state \in 0 .. BlockSize
    BY <1>0, <1>1
  <2> QED BY <1>1, <2>1, States DEF Read, Written
<1>3. /\ p \in Stream /\ Read < Len(p) /\ Len(p) - Read <= Len(wire)
      /\ this \in 1 .. Len(File) /\ Len(p) = BlockSize + 4
      /\ p[Read + 1] = Sum % Values /\ Sum \in Nat /\ Sum % Values \in Byte
  <2>1. this \in 1 .. Len(File)
    BY <1>0, <1>2, ThisIs
  <2>2. this \in 1 .. Len(File) + 1 /\ this # Len(File) + 1 /\ Read + 1 = BlockSize + 4
    BY <1>0, <1>2, <2>1
  <2>3. Sum = Sums(Numbered(this))[BlockSize + 3]
    <3>1. Read = BlockSize + 3
      BY <1>0, <1>2
    <3> QED BY <3>1 DEF Sum
  <2>4. Sum \in Nat
    BY <1>0, <2>1, <2>3, NumberedSums
  <2>5. Len(p) = BlockSize + 4 /\ p[Read + 1] = Sum % Values
    BY <2>1, <2>2, <2>3, PacketIs
  <2> QED BY <1>0, <2>1, <2>4, <2>5, ThisIs, NextNumber
<1>4. CASE SumRight(rb)
  <2>1. /\ toS' = Append(toS, "ACK") /\ block' = NextBlock /\ addr' = addr + 1
        /\ state' = StartState
    BY <1>0, <1>4 DEF Checksum, uart_putc
  <2>2. ~SumIsWrong \/ ~Intact(wire, p, Read, -Read)
    <3> SUFFICES ASSUME SumIsWrong, Intact(wire, p, Read, -Read) PROVE FALSE
      OBVIOUS
    <3>1. rb = Sum % Values
      <4> HIDE DEF p
      <4> QED BY <1>0, <1>3, WireOn
    <3>2. PICK e \in 1 .. Values - 1 : csum = Sum + e \/ csum = Sum - e
      BY DEF SumIsWrong
    <3>3. csum % Values # Sum % Values
      <4>1. Values \in Nat /\ Values > 0 /\ Sum \in Int
        BY <1>3, Constants
      <4>2. (Sum + e) % Values # Sum % Values /\ (Sum - e) % Values # Sum % Values
        BY <4>1, Differ
      <4> QED BY <3>2, <4>2
    <3> QED BY <1>4, <3>1, <3>3 DEF SumRight
  <2>3. Kept
    BY <2>2 DEF ThisComes, Kept, Expecting
  <2>4. this' = this + 1 /\ this \in Nat /\ block' = this' % Values
    BY <1>0, <2>1, NextNumber DEF this, NextBlock
  <2>5. BlocksAreFiles'
    <3>1. BlocksAreFiles
      BY DEF Transfer
    <3>2. \A d \in 1 .. BlockSize : image[(this - 1) * BlockSize + d] = File[this][d]
      <4>1. this - 1 = addr
        BY <1>0
      <4> QED BY <1>2, <2>3, <4>1 DEF Kept
    <3>3. ASSUME NEW k \in 1 .. addr + 1
          PROVE  \A d \in 1 .. BlockSize : image[(k - 1) * BlockSize + d] = File[k][d]
      <4>1. CASE k = this
        BY <3>2, <4>1
      <4>2. CASE k # this
        <5>1. k \in 1 .. addr
          BY <1>0, <4>2
        <5> QED BY <3>1, <5>1 DEF BlocksAreFiles
      <4> QED BY <4>1, <4>2
    <3>4. addr + 1 <= Len(File)
      BY <1>0, <1>3
    <3> QED BY <1>1, <2>1, <3>3, <3>4 DEF BlocksAreFiles
  <2>6. spc = "sent" /\ n = this /\ (toS = <<>> \/ (toS = <<"NAK">> /\ addr = 0 /\ Alone(p)))
    BY DEF Expecting
  <2>7. n' = addr' /\ addr' > 0
    BY <1>0, <2>1, <2>6
  <2>8. /\ toS = <<>> => toS' = <<"ACK">>
        /\ toS = <<"NAK">> => toS' = <<"NAK", "ACK">>
    BY <2>1, Acknowledging
  <2>9. /\ Alone(p) => Len(wire') = Len(p) - (Read + 1)
        /\ Follows(p) =>
             /\ Len(wire') = Len(p) - (Read + 1) + Len(Packet(n))
             /\ Carries(wire', Packet(n), 0, Len(p) - (Read + 1))
             /\ ~damaged => Intact(wire', Packet(n), 0, Len(p) - (Read + 1))
    <3> HIDE DEF p
    <3> QED BY <1>0, <1>3, WireOn
  <2>10. Len(p) - (Read + 1) = 0 /\ Len(Packet(n)) = Len(p)
    <3> HIDE DEF p
    <3>1. Len(p) - (Read + 1) = 0
      BY <1>0, <1>2, <1>3
    <3> QED BY <2>6, <3>1 DEF p
  <2>11. CASE Alone(p)
    <3>1. wire' = <<>>
      <4>1. fifo' \in Seq(Byte) /\ toR' \in Seq(Byte)
        BY <1>0 DEF TypeOK
      <4>2. Len(wire') = 0
        BY <2>9, <2>10, <2>11
      <4> QED BY <4>1, <4>2, TwoParts DEF wire
    <3>2. \/ toS' \in {<<>>, <<"ACK">>}
          \/ toS' = <<"NAK", "ACK">> /\ addr' = 1
      BY <2>1, <2>6, <2>8
    <3>3. Quiet'
      BY <1>1, <2>1, <2>6, <2>7, <3>1, <3>2 DEF Quiet
    <3> QED BY <1>0, <1>1, <2>1, <2>4, <2>5, <3>3, States DEF Transfer
  <2>12. CASE ~Alone(p)
    <3>1. Follows(p) /\ toS' = <<"ACK">>
      BY <1>0, <2>6, <2>8, <2>12 DEF ThisComes
    <3>2. Read' = 0
      BY <2>1, States DEF Read
    <3>3. Packet(n) = Packet(addr)'
      BY <2>7
    <3>4. /\ Len(wire') = 0 + Len(Packet(n))
          /\ Carries(wire', Packet(n), 0, -0)
          /\ ~damaged' => Intact(wire', Packet(n), 0, -0)
      <4>1. Len(p) - (Read + 1) = -0
        BY <2>10
      <4> HIDE DEF p
      <4> QED BY <2>9, <2>10, <3>1, <4>1
    <3>5. Len(Packet(n)) - 0 = 0 + Len(Packet(n))
      BY <1>3, <2>10 DEF Stream
    <3>6. Alone(Packet(addr))'
      BY <3>2, <3>3, <3>4, <3>5 DEF Alone
    <3>7. LastComes'
      BY <2>7, <3>2, <3>3, <3>4, <3>6 DEF LastComes
    <3>8. Repeated'
      BY <1>1, <2>6, <2>7, <3>1, <3>7 DEF Repeated
    <3> QED BY <1>0, <1>1, <2>1, <2>4, <2>5, <3>8, States DEF Transfer
  <2> QED BY <2>11, <2>12
<1>5. CASE ~SumRight(rb)
  <2>1. state' = ErrorState /\ UNCHANGED <<block, addr, toS>>
    BY <1>5 DEF Checksum
  <2>2. this' = this
    BY <2>1 DEF this
  <2>3. BlocksAreFiles'
    BY <1>1, <2>1 DEF Transfer, BlocksAreFiles
  <2>4. Failed'
    BY <1>0, <1>1, <2>1, GoWrong
  <2> QED BY <1>0, <1>1, <2>1, <2>2, <2>3, <2>4 DEF Transfer
<1> QED BY <1>4, <1>5

\* A byte of a packet the receiver has had: its number is damaged, or gives it away.
LEMMA RepeatedByte ==
    ASSUME Base, Base', Transfer, rpc = "bytes", state # ErrorState, Repeated,
           NEW rb \in Byte, uart_getc(rb), UNCHANGED <<toR, spc, n, damaged>>,
           SohOrEot(rb) \/ BlockNumber(rb) \/ Data(rb) \/ Checksum(rb)
    PROVE  Transfer'
<1> DEFINE p == Packet(addr)
<1>0. /\ TypeOK /\ TypeOK' /\ addr <= Len(File) /\ LastComes
      /\ addr \in Nat /\ this = addr + 1 /\ block = this % Values /\ Len(File) \in Nat
  BY Healthy, Constants DEF Base, TypeOK, Repeated, this
<1>1. /\ addr \in 1 .. Len(File) /\ addr \in 1 .. Len(File) + 1 /\ addr # Len(File) + 1
      /\ p \in Stream /\ Len(p) = BlockSize + 4
      /\ Len(p) - Read <= Len(wire) /\ Read \in 0 .. 2 /\ Read < Len(p)
  <2>1. Read \in 0 .. 2 /\ addr \in 1 .. Len(File)
    BY <1>0, LastIs DEF LastComes
  <2> QED BY <1>0, <2>1, LastIs, Constants
<1>2. /\ Read = 0 <=> state = StartState
      /\ Read = 1 <=> state = BlockState
      /\ Read = 2 <=> state = InverseState
      /\ state \in {StartState, BlockState, InverseState}
  <2>1. BlockSize \in Nat
    BY Constants
  <2> QED BY <1>0, <1>1, <2>1, ReadIs, States
<1>3. /\ p[1] = SOH /\ p[2] = addr % Values /\ p[3] = Inverted(addr % Values)
      /\ addr % Values \in Byte /\ block # addr % Values /\ block \in Byte
  <2>1. p[1] = SOH /\ p[2] = addr % Values /\ p[3] = Inverted(addr % Values)
    BY <1>1, PacketIs
  <2> QED BY <1>0, <2>1, NextNumber
<1>4. /\ rb \in {p[Read + 1]} \cup Flipped(p[Read + 1])
      /\ Carries(wire', p, Read + 1, -(Read + 1))
      /\ rb # p[Read + 1] => Intact(wire', p, Read + 1, -(Read + 1))
      /\ Intact(wire, p, Read, -Read) =>
           rb = p[Read + 1] /\ Intact(wire', p, Read + 1, -(Read + 1))
      /\ Alone(p) => Len(wire') = Len(p) - (Read + 1)
      /\ Follows(p) =>
           /\ Len(wire') = Len(p) - (Read + 1) + Len(Packet(n))
           /\ Len(toR') <= Len(Packet(n))
           /\ Carries(wire', Packet(n), 0, Len(p) - (Read + 1))
           /\ ~damaged => Intact(wire', Packet(n), 0, Len(p) - (Read + 1))
  <2>1. Carries(wire, p, Read, -Read)
    BY <1>0 DEF LastComes
  <2> HIDE DEF p
  <2> QED BY <1>0, <1>1, <2>1, WireOn
<1>5. ASSUME Read < 2, Read' = Read + 1, state' \in {BlockState, InverseState},
             UNCHANGED <<rpc, block, image, addr, toS>>,
             Read = 1 => rb # p[Read + 1]
      PROVE  Transfer'
  <2>1. this' = this /\ p' = p /\ -Read' = -(Read + 1)
    BY <1>5 DEF this
  <2>2. /\ addr > 0 /\ Read' \in 0 .. 2 /\ Read' > 0
        /\ \/ /\ Alone(p) /\ n = addr
              /\ ~damaged => Read < 2 /\ Intact(wire, p, Read, -Read)
           \/ Follows(p) /\ n = this
    BY <1>0, <1>1, <1>5 DEF LastComes
  <2>3. Read' = 2 => Intact(wire', p, 2, -2)
    <3>1. Read' = 2 => Read = 1
      BY <1>1, <1>5
    <3> HIDE DEF p
    <3> QED BY <1>4, <1>5, <3>1
  <2>4. ASSUME Alone(p), n = addr, ~damaged => Read < 2 /\ Intact(wire, p, Read, -Read)
        PROVE  LastComes'
    <3>1. Alone(p)'
      <4> HIDE DEF p
      <4> QED BY <1>4, <1>5, <2>1, <2>4 DEF Alone
    <3>2. ~damaged' => Read' < 2 /\ Intact(wire', p, Read + 1, -(Read + 1))
      <4>1. ~damaged' => Read = 0
        <5> HIDE DEF p
        <5> QED BY <1>1, <1>4, <1>5, <2>4
      <4>2. Read = 0 => Read' < 2
        BY <1>5
      <4> HIDE DEF p
      <4> QED BY <1>4, <2>4, <4>1, <4>2
    <3> QED BY <1>4, <1>5, <2>1, <2>2, <2>3, <2>4, <3>1, <3>2 DEF LastComes
  <2>5. ASSUME Follows(p), n = this
        PROVE  LastComes'
    <3>1. Follows(p)'
      <4> HIDE DEF p
      <4> QED BY <1>4, <1>5, <2>1, <2>2, <2>5 DEF Follows
    <3> QED BY <1>4, <1>5, <2>1, <2>2, <2>3, <2>5, <3>1 DEF LastComes
  <2>6. Repeated'
    BY <1>5, <2>2, <2>4, <2>5 DEF Repeated
  <2>7. BlocksAreFiles'
    BY <1>5 DEF Transfer, BlocksAreFiles
  <2> QED BY <1>0, <1>5, <2>1, <2>6, <2>7, States DEF Transfer
<1>6. ASSUME state' = ErrorState, UNCHANGED <<rpc, block, image, addr, toS>>
      PROVE  Transfer'
  <2>1. this' = this
    BY <1>6 DEF this
  <2>2. BlocksAreFiles'
    BY <1>6 DEF Transfer, BlocksAreFiles
  <2>3. Failed'
    BY <1>0, <1>6, GoWrong
  <2> QED BY <1>0, <1>6, <2>1, <2>2, <2>3 DEF Transfer
<1>7. CASE SohOrEot(rb)
  <2>1. Read = 0 /\ rb \in {SOH} \cup Flipped(SOH) /\ UNCHANGED <<block, image, addr>>
    BY <1>2, <1>3, <1>4, <1>7 DEF SohOrEot
  <2>2. rb # EOT
    BY <2>1, Constants
  <2>3. CASE rb = SOH
    <3>1. state' = BlockState /\ UNCHANGED <<rpc, toS>>
      BY <1>7, <2>3, Constants DEF SohOrEot
    <3>2. Read' = 1
      BY <3>1, States DEF Read
    <3> QED BY <1>5, <2>1, <3>1, <3>2
  <2>4. CASE rb # SOH
    <3>1. state' = ErrorState /\ UNCHANGED <<rpc, toS>>
      BY <1>7, <2>2, <2>4 DEF SohOrEot
    <3> QED BY <1>6, <2>1, <3>1
  <2> QED BY <2>3, <2>4
<1>8. CASE BlockNumber(rb)
  <2>1. UNCHANGED <<rpc, block, image, addr, toS>>
    BY <1>8 DEF BlockNumber
  <2>2. CASE ~Expected(rb)
    <3>1. state' = ErrorState
      BY <1>8, <2>2 DEF BlockNumber
    <3> QED BY <1>6, <2>1, <3>1
  <2>3. CASE Expected(rb) /\ state = BlockState
    <3>1. state' = InverseState /\ rb = block
      BY <1>8, <2>3 DEF BlockNumber, Expected
    <3>2. Read = 1 /\ Read' = 2 /\ Read + 1 = 2
      BY <1>2, <2>3, <3>1, States DEF Read
    <3>3. rb # p[Read + 1]
      BY <1>3, <3>1, <3>2
    <3> QED BY <1>5, <2>1, <3>1, <3>2, <3>3
  <2>4. CASE Expected(rb) /\ state = InverseState
    <3>1. Read = 2 /\ Read + 1 = 3 /\ rb = Inverted(block)
      BY <1>2, <2>4, States DEF Expected
    <3>2. rb = p[Read + 1]
      <4>1. Intact(wire, p, Read, -Read)
        BY <1>0, <3>1 DEF LastComes
      <4> QED BY <1>4, <4>1
    <3>3. Inverted(block) = Inverted(addr % Values)
      BY <1>3, <3>1, <3>2
    <3>4. block = addr % Values
      <4> DEFINE r == addr % Values
      <4>1. Values \in Nat /\ block \in Int /\ r \in Int
        BY <1>3, Constants DEF Byte
      <4>2. Inverted(block) = Inverted(r)
        BY <3>3
      <4> HIDE DEF r
      <4>3. block = r
        BY <4>1, <4>2 DEF Inverted
      <4> QED BY <4>3 DEF r
    <3> QED BY <1>3, <3>4
  <2> QED BY <1>8, <2>2, <2>3, <2>4 DEF BlockNumber
<1>9. CASE Data(rb) \/ Checksum(rb)
  <2>1. state <= BlockSize /\ BlockSize <= 191 /\ BlockSize \in Nat /\ state \in {192, 193, 194}
    <3>1. state \in {192, 193, 194} /\ BlockSize \in 1 .. 191
      BY <1>2, Constants, States
    <3>2. state < BlockSize \/ state = BlockSize
      BY <1>9 DEF Data, Checksum
    <3> QED BY <3>1, <3>2
  <2> QED BY <2>1
<1> QED BY <1>7, <1>8, <1>9

LEMMA TransferGetByte ==
    ASSUME Base, Base', Transfer, GetByte
    PROVE  Transfer'
<1>1. PICK rb \in Byte :
        /\ uart_getc(rb)
        /\ SohOrEot(rb) \/ BlockNumber(rb) \/ Data(rb) \/ Checksum(rb)
  BY DEF GetByte
<1>2. rpc = "bytes" /\ state # ErrorState /\ UNCHANGED <<toR, spc, n, damaged>>
  BY DEF GetByte, sender, line
<1>3. Expecting \/ Repeated
  <2>1. wire # <<>>
    BY <1>1, <1>2, WireRead DEF Base
  <2> QED BY <1>2, <2>1, Healthy DEF Quiet
<1> QED BY <1>1, <1>2, <1>3, ExpectingStart, ExpectingNumber, ExpectingData,
           ExpectingChecksum, RepeatedByte

--------------------------------------------------------------------------------
(* The invariant and what follows from it. *)

LEMMA InitIInv == Init => IInv
BY BaseInit, TransferInit DEF Base, IInv

LEMMA StepIInv ==
    ASSUME IInv, [Next]_vars
    PROVE  IInv'
<1>1. Base /\ Base'
  BY BaseStep DEF Base, IInv
<1>2. torn' \/ Transfer'
  <2>1. CASE Restart
    BY <1>1, <2>1, TransferRestart
  <2>2. CASE torn /\ ~Restart
    <3>1. torn'
      BY <2>2 DEF Next, vars, line, Receiver, NakAgain, FirstByte, GetByte, BailOut, ShowPrompt,
                  ReadKey, Deliver, Overrun, Lose, StartSender, TakeAnswer, Timeout, PressG
    <3> QED BY <3>1
  <2>3. CASE Transfer /\ UNCHANGED vars
    <3>1. UNCHANGED <<rpc, fifo, toR, toS, state, csum, block, addr, image, spc, n, damaged>>
      BY <2>3 DEF vars, receiver, sender, line
    <3>2. /\ this' = this /\ wire' = wire
          /\ BlocksAreFiles' <=> BlocksAreFiles
          /\ Alone(Packet(this))' <=> Alone(Packet(this))
          /\ ThisComes' <=> ThisComes
          /\ LastComes' <=> LastComes
      BY <3>1, Frame
    <3>3. /\ Quiet' <=> Quiet
          /\ Expecting' <=> Expecting
          /\ Repeated' <=> Repeated
          /\ Failed' <=> Failed
      BY <3>1, <3>2 DEF Quiet, Expecting, Repeated, Failed
    <3> QED BY <2>3, <3>1, <3>2, <3>3 DEF Transfer
  <2>4. CASE Transfer /\ Next /\ ~Restart
    BY <1>1, <2>4, TransferOthers, TransferGetByte, TransferDeliver, TransferLose,
       TransferAnswer, TransferTimeout DEF Next, Receiver, Overrun
  <2> QED BY <2>1, <2>2, <2>3, <2>4 DEF IInv
<1> QED BY <1>1, <1>2 DEF Base, IInv

\* The inductive invariant: for every file, however long, and every number of lost and
\* damaged bytes the line carries what the receiver and the sender take it for.
THEOREM Invariance == Spec => []IInv
<1>1. Init => IInv
  BY InitIInv
<1>2. IInv /\ [Next]_vars => IInv'
  BY StepIInv
<1> QED BY <1>1, <1>2, PTL DEF Spec

\* The accepted blocks are the first of the file.
LEMMA BlocksAre ==
    ASSUME Base, BlocksAreFiles
    PROVE  addr \in 0 .. Len(File) /\ Blocks = SubSeq(File, 1, addr)
<1>0. /\ addr \in Nat /\ addr <= Len(File) /\ Len(File) \in Nat /\ BlockSize \in Nat
      /\ image \in Seq(Byte) /\ Len(image) \in Nat /\ File \in Seq([1 .. BlockSize -> Byte])
  BY Constants, BootAssumption, NotEmpty DEF Base, TypeOK, BlocksAreFiles
<1>1. addr * BlockSize \in Nat /\ addr * BlockSize <= Len(image)
  <2>1. Written \in Nat /\ addr * BlockSize \in Nat
    BY <1>0, BlocksAreLong DEF Written
  <2> QED BY <1>0, <2>1 DEF Base, ImageIsLong
<1>2. ASSUME NEW k \in 1 .. addr
      PROVE  SubSeq(image, (k - 1) * BlockSize + 1, k * BlockSize) = File[k]
  <2> DEFINE a == (k - 1) * BlockSize
             s == SubSeq(image, a + 1, k * BlockSize)
  <2>1. k - 1 \in Nat /\ k \in Nat /\ k - 1 + 1 = k /\ k \in 1 .. Len(File)
    BY <1>0
  <2>2. a \in Nat /\ k * BlockSize = a + BlockSize
    BY <2>1, BlocksAreLong
  <2>3. k * BlockSize <= Len(image)
    <3>1. CASE k = addr
      BY <1>1, <3>1
    <3>2. CASE k # addr
      <4>1. k * BlockSize \in Nat /\ k * BlockSize + BlockSize <= addr * BlockSize
        BY <1>0, <2>1, <3>2, BlocksApart
      <4> DEFINE b == k * BlockSize
                 c == addr * BlockSize
      <4>2. b \in Nat /\ c \in Nat /\ c <= Len(image) /\ b + BlockSize <= c
        BY <1>1, <4>1
      <4> HIDE DEF b, c
      <4>3. b <= Len(image)
        BY <1>0, <4>2
      <4> QED BY <4>3 DEF b
    <3> QED BY <3>1, <3>2
  <2>4. \A d \in 1 .. BlockSize : image[a + d] = File[k][d]
    BY DEF BlocksAreFiles
  <2> HIDE DEF a
  <2>5. /\ s \in Seq(Byte) /\ Len(s) = BlockSize
        /\ \A d \in 1 .. BlockSize : s[d] = image[a + d]
    <3>1. a + 1 \in Int /\ k * BlockSize \in Int /\ a + BlockSize <= Len(image)
          /\ s = SubSeq(image, a + 1, a + BlockSize)
      BY <1>0, <2>2, <2>3
    <3>2. \A i \in a + 1 .. a + BlockSize : image[i] \in Byte
      BY <1>0, <2>2, <3>1
    <3> HIDE DEF s
    <3>3. SubSeq(image, a + 1, a + BlockSize)
            = [i \in 1 .. BlockSize |-> image[a + i]]
      BY <1>0, <2>2, <3>1
    <3>4. s = [i \in 1 .. BlockSize |-> image[a + i]]
      BY <3>1, <3>3
    <3>5. \A i \in 1 .. BlockSize : image[a + i] \in Byte
      BY <1>0, <2>2, <3>2
    <3>6. s \in [1 .. BlockSize -> Byte]
      BY <3>4, <3>5
    <3>7. s \in Seq(Byte) /\ Len(s) = BlockSize
      BY <1>0, <3>6, LenProperties, IsASeq
    <3> QED BY <3>4, <3>7
  <2>6. File[k] \in Seq(Byte) /\ Len(File[k]) = BlockSize
    BY <2>1, FileBlocks
  <2> HIDE DEF s
  <2>7. s = File[k]
    BY <2>4, <2>5, <2>6, SeqEqual
  <2> QED BY <2>7 DEF s, a
<1>3. Blocks = [k \in 1 .. addr |-> File[k]]
  BY <1>2 DEF Blocks
<1>4. SubSeq(File, 1, addr) = [k \in 1 .. addr |-> File[k]]
  BY <1>0
<1> QED BY <1>0, <1>3, <1>4

\* A transfer that is not torn: the whole file is there when the receiver has left it.
Whole ==
    ~torn => /\ addr \in 0 .. Len(File) /\ Blocks = SubSeq(File, 1, addr)
             /\ rpc \in {"ended", "prompt", "running"} => Blocks = File

LEMMA WholeFile == IInv => Whole
<1> SUFFICES ASSUME IInv, ~torn
             PROVE  /\ addr \in 0 .. Len(File) /\ Blocks = SubSeq(File, 1, addr)
                    /\ rpc \in {"ended", "prompt", "running"} => Blocks = File
  BY DEF Whole
<1>1. addr \in 0 .. Len(File) /\ Blocks = SubSeq(File, 1, addr)
  BY BlocksAre DEF IInv, Base, Transfer
<1>2. SubSeq(File, 1, Len(File)) = File
  BY BootAssumption
<1> QED BY <1>1, <1>2 DEF IInv, Transfer

\* A sender that reports success has brought the whole file to a transfer that is not
\* torn, unless the receiver has begun anew; and all variables stay in their ranges.
THEOREM ReceivedHolds == Spec => []Received
<1>1. IInv => Received
  <2> SUFFICES ASSUME IInv PROVE Received
    OBVIOUS
  <2>1. TypeOK /\ Cancelled
    BY DEF IInv
  <2>2. SuccessIsTrue
    <3> SUFFICES ASSUME spc = "done", ~torn, rpc # "wait" PROVE Blocks = File
      BY DEF SuccessIsTrue
    <3>1. Transfer
      BY DEF IInv
    <3>2. rpc \notin {"bytes", "cancelled"}
      BY <2>1, <3>1 DEF Transfer, Cancelled, Quiet, Expecting, Repeated, Failed
    <3>3. rpc \in {"ended", "prompt", "running"}
      BY <2>1, <3>2 DEF TypeOK
    <3> QED BY <3>3, WholeFile DEF Whole
  <2> QED BY <2>1, <2>2 DEF Received
<1> QED BY <1>1, Invariance, PTL

--------------------------------------------------------------------------------
(* The transfer implements what the boot loader promises. *)

\* What a step does to the blocks, the trust and the start.
LEMMA StepIs ==
    ASSUME Base, Next, ~Restart
    PROVE  /\ torn => torn'
           /\ \/ /\ addr' = addr
                 /\ rpc' = "running" <=> rpc = "running"
              \/ /\ addr' = addr + 1 /\ torn' = torn /\ rpc = "bytes" /\ rpc' = "bytes"
              \/ /\ addr' = addr /\ torn' = torn /\ rpc = "prompt" /\ rpc' = "running"
<1> USE DEF receiver, sender, line
<1>1. CASE GetByte
  <2>1. PICK rb \in Byte : SohOrEot(rb) \/ BlockNumber(rb) \/ Data(rb) \/ Checksum(rb)
    BY <1>1 DEF GetByte
  <2>2. rpc = "bytes" /\ torn' = torn
    BY <1>1 DEF GetByte
  <2>3. rpc' \in {"bytes", "ended"} /\ (addr' = addr \/ (addr' = addr + 1 /\ rpc' = rpc))
    BY <2>1, <2>2 DEF SohOrEot, BlockNumber, Data, Checksum
  <2> QED BY <2>2, <2>3
<1>2. CASE ReadKey
  BY <1>2 DEF ReadKey
<1>3. CASE NakAgain \/ FirstByte \/ BailOut \/ ShowPrompt
  BY <1>3 DEF NakAgain, FirstByte, BailOut, ShowPrompt
<1>4. CASE Deliver \/ Overrun \/ Lose
  <2>1. UNCHANGED <<rpc, addr>>
    BY <1>4 DEF Deliver, Overrun, Lose
  <2>2. torn => torn'
    BY <1>4, Zenon DEF Deliver, Overrun, Lose
  <2> QED BY <2>1, <2>2
<1>5. CASE StartSender \/ TakeAnswer \/ Timeout \/ PressG
  BY <1>5 DEF StartSender, TakeAnswer, Timeout, PressG
<1> QED BY <1>1, <1>2, <1>3, <1>4, <1>5 DEF Next, Receiver

LEMMA PromiseInit == Init => Promise!Init
<1> SUFFICES ASSUME Init PROVE Promise!Init
  OBVIOUS
<1>1. addr = 0 /\ torn = FALSE /\ rpc = "wait"
  BY DEF Init
<1>2. Blocks = <<>>
  BY <1>1 DEF Blocks
<1> QED BY <1>1, <1>2 DEF Promise!Init

LEMMA PromiseStep ==
    ASSUME Base, Base', Whole, Whole', [Next]_vars
    PROVE  [Promise!Next]_<<IF torn THEN <<>> ELSE Blocks, ~torn, rpc = "running">>
<1> DEFINE im == IF torn THEN <<>> ELSE Blocks
<1>0. torn \in BOOLEAN /\ torn' \in BOOLEAN /\ Len(File) \in Nat
  BY Constants DEF Base, TypeOK
<1>1. CASE UNCHANGED vars
  <2>1. UNCHANGED <<torn, addr, image, rpc>>
    BY <1>1 DEF vars, receiver
  <2>2. Blocks' = Blocks
    BY <2>1 DEF Blocks
  <2> QED BY <2>1, <2>2
<1>2. CASE Restart
  <2>1. rpc = "cancelled" /\ rpc' = "wait" /\ addr' = 0
    BY <1>2, BaseRestart DEF Restart
  <2>2. im' = <<>>
    BY <2>1 DEF Blocks
  <2>3. Promise!Cancel
    BY <2>1, <2>2 DEF Promise!Cancel
  <2> QED BY <2>3 DEF Promise!Next
<1>3. CASE Next /\ ~Restart
  <2>1. torn => torn'
    BY <1>3, StepIs
  <2>2. ~torn' => ~torn /\ im = SubSeq(File, 1, addr) /\ im' = SubSeq(File, 1, addr')
                  /\ addr' \in 0 .. Len(File)
    BY <2>1 DEF Whole
  <2>3. torn' => im' = <<>>
    OBVIOUS
  <2>4. CASE addr' = addr /\ (rpc' = "running" <=> rpc = "running")
    <3>1. CASE torn'
      <4>1. Promise!Distrust
        BY <2>3, <2>4, <3>1 DEF Promise!Distrust
      <4> QED BY <4>1 DEF Promise!Next
    <3>2. CASE ~torn'
      BY <2>2, <2>4, <3>2
    <3> QED BY <3>1, <3>2
  <2>5. CASE addr' = addr + 1 /\ torn' = torn /\ rpc = "bytes" /\ rpc' = "bytes"
    <3>1. CASE torn'
      <4>1. Promise!Distrust
        BY <2>3, <2>5, <3>1 DEF Promise!Distrust
      <4> QED BY <4>1 DEF Promise!Next
    <3>2. CASE ~torn'
      <4>1. /\ addr' \in DOMAIN File /\ im = SubSeq(File, 1, addr' - 1)
            /\ im' = SubSeq(File, 1, addr')
        <5>1. addr \in Nat /\ addr' - 1 = addr /\ addr' \in 1 .. Len(File)
          BY <1>0, <2>2, <2>5, <3>2 DEF Base, TypeOK
        <5>2. DOMAIN File = 1 .. Len(File)
          BY BootAssumption
        <5> HIDE DEF im
        <5> QED BY <2>2, <3>2, <5>1, <5>2
      <4>2. Promise!Grow
        BY <2>5, <3>2, <4>1 DEF Promise!Grow
      <4> QED BY <4>2 DEF Promise!Next
    <3> QED BY <3>1, <3>2
  <2>6. CASE addr' = addr /\ torn' = torn /\ rpc = "prompt" /\ rpc' = "running"
    <3>1. ~torn => im = File
      BY <2>6 DEF Whole
    <3>2. im' = im
      <4>1. torn => im = <<>> /\ im' = <<>>
        BY <2>6
      <4>2. ~torn => im' = im
        BY <2>2, <2>6
      <4> QED BY <4>1, <4>2
    <3>3. Promise!Start
      BY <2>6, <3>1, <3>2 DEF Promise!Start
    <3> QED BY <3>3 DEF Promise!Next
  <2> QED BY <1>3, <2>4, <2>5, <2>6, StepIs
<1> QED BY <1>1, <1>2, <1>3

\* The boot loader implements Loading: in a transfer that is not torn the acknowledged
\* blocks are the file's, in their order and each once, and only the whole file is
\* started.
THEOREM Implements == Spec => LoadsTheFile
<1>1. Init => Promise!Init
  BY PromiseInit
<1>2. IInv => Base /\ Whole
  BY WholeFile DEF IInv, Base
<1>3. Base /\ Base' /\ Whole /\ Whole' /\ [Next]_vars
        => [Promise!Next]_<<IF torn THEN <<>> ELSE Blocks, ~torn, rpc = "running">>
  BY PromiseStep
<1> QED BY <1>1, <1>2, <1>3, Invariance, PTL DEF Spec, LoadsTheFile, Promise!Spec
================================================================================
