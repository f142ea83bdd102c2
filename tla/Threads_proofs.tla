---------------------------- MODULE Threads_proofs ----------------------------
(* Theorems about Threads, for any number of tasks and any program that forks *)
(* a task again only when it is over.                                         *)
EXTENDS ThreadsInv, FiniteSetTheorems, SequenceTheorems, TLAPS

--------------------------------------------------------------------------------
(* Sequences. *)

\* A label that a tick pushes under the handler it enters.
LEMMA Push ==
    ASSUME NEW f \in Seq(Labels), Framed(f), NEW l \in IF f = <<>> THEN Breaks ELSE Handlers
    PROVE  LET g == <<"tickret", l>> \o f
           IN  /\ g \in Seq(Labels) /\ Framed(g) /\ g # <<>>
               /\ g[Len(g)] = IF f = <<>> THEN l ELSE f[Len(f)]
<1> DEFINE g == <<"tickret", l>> \o f
<1>1. "tickret" \in Handlers /\ Handlers \subseteq Labels /\ Breaks \subseteq Labels
  BY DEF Handlers, Breaks, Labels, SchedLabels, ForkLabels, ExitLabels
<1>2. l \in Labels
  BY <1>1
<1>3. g \in Seq(Labels) /\ Len(g) = Len(f) + 2
  BY <1>1, <1>2
<1>4. g[1] = "tickret" /\ g[2] = l /\ \A i \in 3 .. Len(g) : g[i] = f[i - 2]
  BY <1>1, <1>2
<1>5. ASSUME NEW i \in 1 .. Len(g) PROVE g[i] \in IF i = Len(g) THEN Breaks ELSE Handlers
  <2>1. CASE i = 1
    BY <1>1, <1>3, <1>4, <2>1
  <2>2. CASE i = 2
    BY <1>3, <1>4, <2>2
  <2>3. CASE i >= 3
    <3>1. g[i] = f[i - 2] /\ i - 2 \in 1 .. Len(f) /\ (i = Len(g) <=> i - 2 = Len(f))
      BY <1>3, <1>4, <2>3
    <3> QED BY <3>1 DEF Framed
  <2> QED BY <1>3, <2>1, <2>2, <2>3
<1>6. g[Len(g)] = IF f = <<>> THEN l ELSE f[Len(f)]
  BY <1>3, <1>4
<1> QED BY <1>3, <1>5, <1>6 DEF Framed

\* The label a stack returns to, and what is left.
LEMMA Pop ==
    ASSUME NEW f \in Seq(Labels), Framed(f), f # <<>>
    PROVE  /\ Tail(f) \in Seq(Labels) /\ Framed(Tail(f)) /\ Head(f) \in Labels
           /\ Head(f) \in IF Tail(f) = <<>> THEN Breaks ELSE Handlers
           /\ f[Len(f)] = IF Tail(f) = <<>> THEN Head(f) ELSE Tail(f)[Len(Tail(f))]
<1> DEFINE g == Tail(f)
<1>1. g \in Seq(Labels) /\ Len(g) = Len(f) - 1 /\ Head(f) = f[1] /\ Head(f) \in Labels
  BY HeadTailProperties
<1>2. \A i \in 1 .. Len(g) : g[i] = f[i + 1]
  BY HeadTailProperties
<1>3. Framed(g)
  <2> SUFFICES ASSUME NEW i \in 1 .. Len(g) PROVE g[i] \in IF i = Len(g) THEN Breaks ELSE Handlers
    BY DEF Framed
  <2>1. g[i] = f[i + 1] /\ i + 1 \in 1 .. Len(f) /\ (i = Len(g) <=> i + 1 = Len(f))
    BY <1>1, <1>2
  <2> QED BY <2>1 DEF Framed
<1>4. Len(f) \in Nat /\ Len(f) >= 1 /\ (g = <<>> <=> Len(f) = 1)
  <2>1. Len(f) \in Nat \ {0}
    BY EmptySeq
  <2> HIDE DEF g
  <2>2. g = <<>> => Len(g) = 0
    BY EmptySeq
  <2>3. g # <<>> => Len(g) \in Nat \ {0}
    BY <1>1, EmptySeq
  <2> QED BY <1>1, <2>1, <2>2, <2>3
<1>5. Head(f) \in IF g = <<>> THEN Breaks ELSE Handlers
  <2>1. 1 \in 1 .. Len(f)
    BY <1>4
  <2>2. f[1] \in IF 1 = Len(f) THEN Breaks ELSE Handlers
    BY <2>1 DEF Framed
  <2> QED BY <1>1, <1>4, <2>2
<1>6. f[Len(f)] = IF g = <<>> THEN Head(f) ELSE g[Len(g)]
  BY <1>1, <1>2, <1>4
<1> QED BY <1>1, <1>3, <1>5, <1>6

\* The elements of a list and how many times they are there, when a node goes
\* behind the entry ...
LEMMA Add ==
    ASSUME NEW s \in Seq(Tasks), Once(s), NEW p \in Tasks, \A i \in DOMAIN s : s[i] # p
    PROVE  LET r == IF s = <<>> THEN <<p>> ELSE <<Head(s), p>> \o Tail(s)
           IN  /\ r \in Seq(Tasks) /\ Once(r) /\ Len(r) = Len(s) + 1
               /\ Head(r) = IF s = <<>> THEN p ELSE Head(s)
               /\ \A t : (\E i \in DOMAIN r : r[i] = t) <=> t = p \/ \E i \in DOMAIN s : s[i] = t
<1> DEFINE r == IF s = <<>> THEN <<p>> ELSE <<Head(s), p>> \o Tail(s)
<1>1. CASE s = <<>>
  <2>1. r = <<p>> /\ DOMAIN s = {}
    BY <1>1
  <2>2. DOMAIN r = {1} /\ r[1] = p /\ r \in Seq(Tasks) /\ Len(r) = 1 /\ Head(r) = p
    BY <2>1
  <2> QED BY <1>1, <2>1, <2>2 DEF Once
<1>2. CASE s # <<>>
  <2>1. /\ Tail(s) \in Seq(Tasks) /\ Len(Tail(s)) = Len(s) - 1 /\ Head(s) = s[1]
        /\ \A i \in 1 .. Len(Tail(s)) : Tail(s)[i] = s[i + 1]
        /\ Len(s) \in Nat \ {0} /\ Head(s) \in Tasks
    BY <1>2, HeadTailProperties, EmptySeq
  <2>2. <<Head(s), p>> \in Seq(Tasks) /\ Len(<<Head(s), p>>) = 2
    BY <2>1
  <2>3. /\ r \in Seq(Tasks) /\ Len(r) = Len(s) + 1
        /\ \A i \in 1 .. Len(s) + 1 : r[i] = IF i <= 2 THEN <<Head(s), p>>[i] ELSE Tail(s)[i - 2]
    BY <1>2, <2>1, <2>2, ConcatProperties
  <2>4. \A i \in 1 .. Len(r) : r[i] = IF i = 1 THEN s[1] ELSE IF i = 2 THEN p ELSE s[i - 1]
    BY <2>1, <2>3
  <2>5. DOMAIN r = 1 .. Len(s) + 1 /\ DOMAIN s = 1 .. Len(s) /\ Head(r) = r[1] /\ r[1] = s[1]
    BY <2>1, <2>3, <2>4
  <2>6. Once(r)
    <3> SUFFICES ASSUME NEW i \in DOMAIN r, NEW j \in DOMAIN r, r[i] = r[j] PROVE i = j
      BY DEF Once
    <3> DEFINE n(k) == IF k = 1 THEN 1 ELSE k - 1
    <3>1. CASE i = 2 \/ j = 2
      <4>1. ASSUME NEW k \in DOMAIN r, r[k] = p PROVE k = 2
        <5>1. k # 2 => n(k) \in DOMAIN s /\ r[k] = s[n(k)]
          BY <2>1, <2>3, <2>4, <2>5
        <5> QED BY <4>1, <5>1
      <4>2. r[2] = p
        BY <2>1, <2>3, <2>4
      <4> QED BY <3>1, <4>1, <4>2
    <3>2. CASE i # 2 /\ j # 2
      <4>1. r[i] = s[n(i)] /\ r[j] = s[n(j)] /\ n(i) \in DOMAIN s /\ n(j) \in DOMAIN s
        BY <2>1, <2>3, <2>4, <2>5, <3>2
      <4>2. n(i) = n(j)
        BY <4>1 DEF Once
      <4> QED BY <2>5, <3>2, <4>2
    <3> QED BY <3>1, <3>2
  <2>7. ASSUME NEW t
        PROVE  (\E i \in DOMAIN r : r[i] = t) <=> t = p \/ \E i \in DOMAIN s : s[i] = t
    <3>1. ASSUME NEW i \in DOMAIN s, s[i] = t PROVE \E j \in DOMAIN r : r[j] = t
      <4>1. CASE i = 1
        BY <2>1, <2>4, <2>5, <3>1, <4>1
      <4>2. CASE i # 1
        <5>1. i + 1 \in DOMAIN r /\ r[i + 1] = s[i]
          BY <2>1, <2>3, <2>4, <2>5, <4>2
        <5> QED BY <3>1, <5>1
      <4> QED BY <4>1, <4>2
    <3>2. 2 \in DOMAIN r /\ r[2] = p
      BY <2>1, <2>3, <2>4, <2>5
    <3>3. ASSUME NEW i \in DOMAIN r, r[i] = t PROVE t = p \/ \E j \in DOMAIN s : s[j] = t
      <4>1. CASE i = 1
        BY <2>1, <2>4, <2>5, <3>3, <4>1
      <4>2. CASE i = 2
        BY <3>2, <3>3, <4>2
      <4>3. CASE i > 2
        <5>1. i - 1 \in DOMAIN s /\ r[i] = s[i - 1]
          BY <2>1, <2>3, <2>4, <2>5, <4>3
        <5> QED BY <3>3, <5>1
      <4> QED BY <2>1, <2>5, <4>1, <4>2, <4>3
    <3> QED BY <3>1, <3>2, <3>3
  <2>8. Head(r) = IF s = <<>> THEN p ELSE Head(s)
    BY <1>2, <2>1, <2>5
  <2> HIDE DEF r
  <2>9. /\ r \in Seq(Tasks) /\ Once(r) /\ Len(r) = Len(s) + 1
        /\ Head(r) = IF s = <<>> THEN p ELSE Head(s)
        /\ \A t : (\E i \in DOMAIN r : r[i] = t) <=> t = p \/ \E i \in DOMAIN s : s[i] = t
    BY <2>3, <2>6, <2>7, <2>8
  <2> QED BY <2>9 DEF r
<1> QED BY <1>1, <1>2

\* ... when the list is read from another node ...
LEMMA Turn ==
    ASSUME NEW s \in Seq(Tasks), Once(s), NEW i \in DOMAIN s
    PROVE  LET r == SubSeq(s, i, Len(s)) \o SubSeq(s, 1, i - 1)
           IN  /\ r \in Seq(Tasks) /\ Once(r) /\ Len(r) = Len(s) /\ r # <<>>
               /\ Head(r) = s[i]
               /\ \A t : (\E k \in DOMAIN r : r[k] = t) <=> \E k \in DOMAIN s : s[k] = t
<1> DEFINE u == SubSeq(s, i, Len(s))
           v == SubSeq(s, 1, i - 1)
           r == u \o v
           m == Len(s) - i + 1
           n(k) == IF k <= m THEN i + k - 1 ELSE k - m
<1>1. Len(s) \in Nat /\ DOMAIN s = 1 .. Len(s) /\ i \in 1 .. Len(s) /\ m \in 1 .. Len(s)
  BY LenProperties
<1>2. u \in Seq(Tasks) /\ Len(u) = m /\ \A k \in 1 .. m : u[k] = s[i + k - 1]
  <2>1. \A k \in i .. Len(s) : s[k] \in Tasks
    BY <1>1, ElementOfSeq
  <2> QED BY <1>1, <2>1, SubSeqProperties
<1>3. v \in Seq(Tasks) /\ Len(v) = i - 1 /\ \A k \in 1 .. i - 1 : v[k] = s[k]
  <2>1. \A k \in 1 .. i - 1 : s[k] \in Tasks
    BY <1>1, ElementOfSeq
  <2>2. 1 \in Int /\ i - 1 \in Int
    BY <1>1
  <2>3. v \in Seq(Tasks) /\ Len(v) = (IF 1 <= i - 1 THEN i - 1 - 1 + 1 ELSE 0)
        /\ \A k \in 1 .. i - 1 - 1 + 1 : v[k] = s[1 + k - 1]
    BY <2>1, <2>2, SubSeqProperties
  <2> QED BY <1>1, <2>3
<1>4. /\ r \in Seq(Tasks) /\ Len(r) = Len(s)
      /\ \A k \in 1 .. Len(s) : r[k] = IF k <= m THEN u[k] ELSE v[k - m]
  <2>1. Len(u) + Len(v) = Len(s)
    BY <1>1, <1>2, <1>3
  <2> QED BY <1>2, <1>3, <2>1, ConcatProperties
<1> HIDE DEF u, v, r
<1>5. \A k \in 1 .. Len(s) : n(k) \in 1 .. Len(s) /\ r[k] = s[n(k)]
  <2> TAKE k \in 1 .. Len(s)
  <2>1. CASE k <= m
    BY <1>1, <1>2, <1>4, <2>1
  <2>2. CASE k > m
    BY <1>1, <1>3, <1>4, <2>2
  <2> QED BY <1>1, <2>1, <2>2
<1>6. DOMAIN r = 1 .. Len(s) /\ r # <<>>
  BY <1>1, <1>4
<1>7. Once(r)
  <2> SUFFICES ASSUME NEW j \in 1 .. Len(s), NEW k \in 1 .. Len(s), r[j] = r[k] PROVE j = k
    BY <1>6 DEF Once
  <2>1. n(j) = n(k)
    BY <1>1, <1>5 DEF Once
  <2> QED BY <1>1, <2>1
<1>8. Head(r) = s[i]
  <2>1. Head(r) = r[1] /\ n(1) = i
    BY <1>1, <1>4, <1>6
  <2> QED BY <1>1, <1>5, <2>1
<1>9. ASSUME NEW t PROVE (\E k \in DOMAIN r : r[k] = t) <=> \E k \in DOMAIN s : s[k] = t
  <2>1. ASSUME NEW k \in DOMAIN r, r[k] = t PROVE \E l \in DOMAIN s : s[l] = t
    BY <1>1, <1>5, <1>6, <2>1
  <2>2. ASSUME NEW l \in DOMAIN s, s[l] = t PROVE \E k \in DOMAIN r : r[k] = t
    <3> DEFINE k == IF l >= i THEN l - i + 1 ELSE l + m
    <3>1. k \in 1 .. Len(s) /\ n(k) = l
      BY <1>1
    <3> HIDE DEF k
    <3>2. r[k] = t
      BY <1>5, <2>2, <3>1
    <3> QED BY <1>6, <3>1, <3>2
  <2> QED BY <2>1, <2>2
<1> QED BY <1>4, <1>6, <1>7, <1>8, <1>9 DEF u, v, r

\* ... and when the entry is taken off it.
LEMMA Remove ==
    ASSUME NEW s \in Seq(Tasks), Once(s), s # <<>>
    PROVE  LET r == Tail(s)
           IN  /\ r \in Seq(Tasks) /\ Once(r) /\ Len(r) < Len(s)
               /\ \A t : (\E i \in DOMAIN r : r[i] = t)
                           <=> t # Head(s) /\ \E i \in DOMAIN s : s[i] = t
<1> DEFINE r == Tail(s)
<1>1. /\ r \in Seq(Tasks) /\ Len(r) = Len(s) - 1 /\ Len(s) \in Nat \ {0}
      /\ \A i \in 1 .. Len(r) : r[i] = s[i + 1]
      /\ Head(s) = s[1]
  BY HeadTailProperties, EmptySeq
<1>2. DOMAIN r = 1 .. Len(s) - 1 /\ DOMAIN s = 1 .. Len(s)
  BY <1>1
<1>3. Once(r)
  BY <1>1, <1>2 DEF Once
<1>4. ASSUME NEW t
      PROVE  (\E i \in DOMAIN r : r[i] = t) <=> t # Head(s) /\ \E i \in DOMAIN s : s[i] = t
  <2>1. ASSUME NEW i \in DOMAIN r, r[i] = t PROVE t # Head(s) /\ \E j \in DOMAIN s : s[j] = t
    <3>1. i + 1 \in DOMAIN s /\ 1 \in DOMAIN s /\ s[i + 1] = t
      BY <1>1, <1>2, <2>1
    <3>2. s[i + 1] # s[1]
      BY <1>2, <3>1 DEF Once
    <3> QED BY <1>1, <3>1, <3>2
  <2>2. ASSUME NEW i \in DOMAIN s, s[i] = t, t # Head(s) PROVE \E j \in DOMAIN r : r[j] = t
    <3>1. i - 1 \in DOMAIN r /\ r[i - 1] = t
      BY <1>1, <1>2, <2>2
    <3> QED BY <3>1
  <2> QED BY <2>1, <2>2
<1> QED BY <1>1, <1>3, <1>4

--------------------------------------------------------------------------------
(* Labels and stacks. *)

LEMMA LabelSets ==
    /\ Breaks \subseteq Labels /\ Handlers \subseteq Labels /\ Base \subseteq Labels
    /\ Breaks \subseteq Base /\ Handlers \cap Base = {}
    /\ \A l \in Labels : l \in Breaks \cup Handlers \/ l \in Locked
    /\ \A l \in Labels : l \in Base \/ l \in Handlers \cup {"scan", "switch", "resume"}
BY DEF Breaks, Handlers, Base, Locked, Labels, ForkLabels, SchedLabels, ExitLabels

LEMMA TaskFacts ==
    /\ Main \in Tasks /\ Main \in Endless
    /\ \A t \in Tasks : Program[t] \in Seq(Calls) /\ Len(Program[t]) \in Nat
                        /\ DOMAIN Program[t] = 1 .. Len(Program[t])
    /\ \A t \in Tasks : \A k \in DOMAIN Program[t] :
         /\ Program[t][k].p \in Tasks
         /\ Program[t][k].op \in {"fork", "join"} => Program[t][k].p # Main
<1>1. ASSUME NEW t \in Tasks
      PROVE  Program[t] \in Seq(Calls) /\ Len(Program[t]) \in Nat
             /\ DOMAIN Program[t] = 1 .. Len(Program[t])
  BY ProgramAssumption
<1>2. ASSUME NEW q \in Calls PROVE q.p \in Tasks /\ (q.op \in {"fork", "join"} => q.p # Main)
  BY TasksAssumption DEF Calls
<1>3. ASSUME NEW t \in Tasks, NEW k \in DOMAIN Program[t] PROVE Program[t][k] \in Calls
  BY <1>1
<1> QED BY <1>1, <1>2, <1>3, TasksAssumption

\* Where a tick can come, a task is running and its label is one of the function or
\* of a handler, as its stack says.
LEMMA WhereTicksCome ==
    ASSUME IInv, Preemptible
    PROVE  /\ cpu = current /\ state[cpu] = "running" /\ pc \in Breaks \cup Handlers
           /\ pc \in IF frames[cpu] = <<>> THEN Breaks ELSE Handlers
<1>1. pc \notin Locked /\ state[current] # "zombie"
  BY DEF IInv, PreemptOK, Preemptible
<1>2. pc \in Labels /\ pc \in Breaks \cup Handlers
  BY <1>1, LabelSets DEF IInv, TypeOK
<1>3. cpu = current /\ state[cpu] = "running"
  BY <1>1 DEF IInv, StatesOK, Locked
<1>4. frames[cpu] = <<>> <=> pc \in Base
  BY DEF IInv, FramesOK
<1> QED BY <1>2, <1>3, <1>4, LabelSets

\* The stacks after a step, whose only new one is the CPU's.
Restacked(f) ==
    /\ frames' = [frames EXCEPT ![cpu] = f]
    /\ frames' \in [Tasks -> Seq(Labels)]
    /\ \A t \in Tasks : Framed(frames'[t])
    /\ \A t \in Tasks : frames'[t] = IF t = cpu THEN f ELSE frames[t]

LEMMA Restack ==
    ASSUME IInv, NEW f \in Seq(Labels), Framed(f), frames' = [frames EXCEPT ![cpu] = f]
    PROVE  Restacked(f)
<1>1. frames \in [Tasks -> Seq(Labels)] /\ cpu \in Tasks /\ \A t \in Tasks : Framed(frames[t])
  BY DEF IInv, TypeOK, FramesOK
<1>2. frames' \in [Tasks -> Seq(Labels)]
  BY <1>1
<1>3. \A t \in Tasks : frames'[t] = IF t = cpu THEN f ELSE frames[t]
  BY <1>1
<1>4. \A t \in Tasks : Framed(frames'[t])
  BY <1>1, <1>3
<1> QED BY <1>2, <1>3, <1>4 DEF Restacked

LEMMA Called ==
    ASSUME IInv, NEW l \in Breaks, pc \in Base, CallSchedule(<<l>>)
    PROVE  Restacked(<<l>>) /\ pc' = "sched"
<1>1. frames[cpu] = <<>> /\ l \in Labels
  BY LabelSets DEF IInv, FramesOK
<1>2. <<l>> \o <<>> = <<l>> /\ <<l>> \in Seq(Labels)
  BY <1>1
<1>3. Framed(<<l>>)
  BY DEF Framed
<1>4. frames' = [frames EXCEPT ![cpu] = <<l>>]
  BY <1>1, <1>2 DEF CallSchedule
<1> QED BY <1>2, <1>3, <1>4, Restack DEF CallSchedule

LEMMA Ticked ==
    ASSUME IInv, Preemptible, CallSchedule(<<"tickret", pc>>)
    PROVE  \E f : /\ Restacked(f) /\ f # <<>> /\ f[Len(f)] = Place(cpu) /\ pc' = "sched"
<1> DEFINE f == <<"tickret", pc>> \o frames[cpu]
<1>1. pc \in IF frames[cpu] = <<>> THEN Breaks ELSE Handlers
  BY WhereTicksCome
<1>2. frames[cpu] \in Seq(Labels) /\ Framed(frames[cpu])
  BY DEF IInv, TypeOK, FramesOK
<1>3. f \in Seq(Labels) /\ Framed(f) /\ f # <<>> /\ f[Len(f)] = Place(cpu)
  BY <1>1, <1>2, Push DEF Place
<1>4. Restacked(f)
  BY <1>3, Restack DEF CallSchedule
<1> QED BY <1>3, <1>4 DEF CallSchedule

LEMMA Returned ==
    ASSUME IInv, pc \notin Base, Return
    PROVE  /\ Restacked(Tail(frames[cpu]))
           /\ Tail(frames[cpu]) = <<>> => pc' = Place(cpu)
           /\ Tail(frames[cpu]) # <<>> =>
                Tail(frames[cpu])[Len(Tail(frames[cpu]))] = Place(cpu)
           /\ pc' \in IF Tail(frames[cpu]) = <<>> THEN Breaks ELSE Handlers
<1>1. frames[cpu] \in Seq(Labels) /\ Framed(frames[cpu]) /\ frames[cpu] # <<>>
  BY DEF IInv, TypeOK, FramesOK
<1>2. Restacked(Tail(frames[cpu]))
  BY <1>1, Pop, Restack DEF Return
<1> QED BY <1>1, <1>2, Pop DEF Return, Place

--------------------------------------------------------------------------------
(* What the steps have in common. *)

\* Steps that move the CPU on without a change of the tasks' states or the list.
LEMMA ControlMoves ==
    ASSUME IInv, UNCHANGED <<state, stack_start, ctx, ring, current, cpu, held, up>>,
           ticking' \in BOOLEAN, at' \in [Tasks -> Nat],
           pc \notin {"switch", "link", "unlink"},
           pc' \in Labels \ {"switch", "link", "unlink"},
           frames' \in [Tasks -> Seq(Labels)], \A t \in Tasks : Framed(frames'[t]),
           \A t \in Tasks : t # cpu => frames'[t] = frames[t],
           frames'[cpu] = <<>> <=> pc' \in Base,
           preempt_count' = [preempt_count EXCEPT ![current] =
                               IF pc' \in Locked \/ state[current] = "zombie" THEN 1 ELSE 0],
           state[cpu] = "zombie" =>
             \/ pc' \in {"sched", "nopreempt", "scan"} /\ frames'[cpu] = <<"exit">>
             \/ pc' \in {"exit", "zombie"} /\ ring = <<Main>>
    PROVE  TypeOK' /\ FramesOK' /\ StatesOK' /\ PreemptOK' /\ RingOK' /\ StacksOK'
<1>1. /\ TypeOK /\ FramesOK /\ StatesOK /\ PreemptOK /\ RingOK /\ StacksOK
      /\ current \in Tasks /\ cpu = current
  BY DEF IInv, StatesOK, TypeOK
<1>2. preempt_count' \in [Tasks -> 0 .. 1]
  <2>1. (IF pc' \in Locked \/ state[current] = "zombie" THEN 1 ELSE 0) \in 0 .. 1
    OBVIOUS
  <2> QED BY <1>1, <2>1 DEF TypeOK
<1>3. TypeOK'
  BY <1>1, <1>2 DEF TypeOK
<1>4. FramesOK'
  BY DEF FramesOK
<1>5. StatesOK'
  BY <1>1 DEF StatesOK, Live, ExitLabels
<1>6. PreemptOK'
  BY <1>1 DEF PreemptOK, Live, TypeOK
<1>7. RingOK'
  BY <1>1 DEF RingOK, Live, InRing
<1>8. StacksOK'
  BY <1>1 DEF StacksOK, Live
<1> QED BY <1>3, <1>4, <1>5, <1>6, <1>7, <1>8

LEMMA PlacesMove ==
    ASSUME IInv, ring # <<>> => ring' # <<>>,
           \A t \in Tasks :
             \/ /\ at'[t] = at[t]
                /\ \/ Place(t)' = Place(t)
                   \/ Place(t) \in ForkLabels /\ Place(t)' \in ForkLabels
                   \/ Place(t) \in ExitLabels /\ Place(t)' \in ExitLabels
             \/ /\ at'[t] \in 1 .. Len(Program[t]) + 1
                /\ Place(t)' \notin ForkLabels \cup ExitLabels
    PROVE  PlacesOK'
<1>1. ForkLabels \cap ExitLabels = {}
  BY DEF ForkLabels, ExitLabels
<1> QED BY <1>1 DEF IInv, PlacesOK

\* Nobody loses the owner while no call is over.
LEMMA OwnersStay ==
    ASSUME IInv, at' = at, pc \notin {"link", "enable"},
           \A t \in Tasks : Live(t)' <=> Live(t)
    PROVE  OwnersOK'
<1> SUFFICES ASSUME NEW t \in Tasks \ {Main}, Live(t)
             PROVE  \E u \in Tasks : Live(u)' /\ Outstanding(u, t, at[u])
  BY DEF OwnersOK
<1> QED BY DEF IInv, OwnersOK

LEMMA RoomStays ==
    ASSUME IInv, ring # <<>>, ring' \in Seq(Tasks), Len(ring') <= Len(ring),
           \A t \in Tasks : Live(t)' /\ Place(t)' \in {"disable", "stack", "link"}
                              => Live(t) /\ Place(t) \in {"disable", "stack", "link"}
    PROVE  RoomOK'
<1>1. Late' \subseteq Late
  BY DEF Late
<1>2. IsFiniteSet(Late)
  BY TasksAssumption, FS_Subset DEF Late
<1>3. Cardinality(Late') <= Cardinality(Late) /\ IsFiniteSet(Late')
  BY <1>1, <1>2, FS_Subset
<1>4. IsFiniteSet(Forkers)
  BY TasksAssumption, FS_Subset DEF Forkers
<1>5. /\ Cardinality(Late) \in Nat /\ Cardinality(Late') \in Nat
      /\ Cardinality(Forkers) \in Nat /\ Len(ring) \in Nat /\ Len(ring') \in Nat
  BY <1>2, <1>3, <1>4, FS_CardinalityType DEF IInv, TypeOK
<1>6. Len(ring) + Cardinality(Late) <= NR_TASKS + Cardinality(Forkers) - 1
  BY DEF IInv, RoomOK
<1>7. Forkers' = Forkers
  BY DEF Forkers
<1> QED BY <1>3, <1>5, <1>6, <1>7, BoundsAssumption DEF RoomOK

\* The places of the tasks when the CPU goes on within a handler.
LEMMA PlacesSame ==
    ASSUME IInv, NEW f, Restacked(f), cpu' = cpu,
           IF f = <<>> THEN pc' = Place(cpu) ELSE f[Len(f)] = Place(cpu)
    PROVE  \A t \in Tasks : Place(t)' = Place(t)
<1> SUFFICES ASSUME NEW t \in Tasks PROVE Place(t)' = Place(t)
  OBVIOUS
<1>1. cpu \in Tasks
  BY DEF IInv, TypeOK
<1>2. CASE t = cpu
  BY <1>1, <1>2 DEF Restacked, Place
<1>3. CASE t # cpu
  BY <1>1, <1>3 DEF Restacked, Place
<1> QED BY <1>2, <1>3

\* The handlers' steps.
LEMMA HandlerMoves ==
    ASSUME IInv, UNCHANGED <<state, stack_start, ctx, at, ring, current, cpu, held, ticking, up>>,
           pc \notin {"switch", "link", "enable", "unlink"},
           pc' \in Labels \ {"switch", "link", "unlink"},
           NEW f, Restacked(f), f = <<>> <=> pc' \in Base,
           IF f = <<>> THEN pc' = Place(cpu) ELSE f[Len(f)] = Place(cpu),
           preempt_count' = [preempt_count EXCEPT ![current] =
                               IF pc' \in Locked \/ state[current] = "zombie" THEN 1 ELSE 0],
           state[cpu] = "zombie" =>
             \/ pc' \in {"sched", "nopreempt", "scan"} /\ f = <<"exit">>
             \/ pc' \in {"exit", "zombie"} /\ ring = <<Main>>
    PROVE  IInv'
<1>1. cpu \in Tasks /\ TypeOK
  BY DEF IInv, TypeOK
<1>2. /\ frames' \in [Tasks -> Seq(Labels)] /\ \A t \in Tasks : Framed(frames'[t])
      /\ \A t \in Tasks : t # cpu => frames'[t] = frames[t]
      /\ frames'[cpu] = f
  BY <1>1 DEF Restacked
<1>3. \A t \in Tasks : Place(t)' = Place(t) /\ (Live(t)' <=> Live(t))
  BY PlacesSame DEF Live
<1>4. TypeOK' /\ FramesOK' /\ StatesOK' /\ PreemptOK' /\ RingOK' /\ StacksOK'
  BY <1>1, <1>2, ControlMoves DEF TypeOK
<1>5. PlacesOK'
  BY <1>3, PlacesMove
<1>6. OwnersOK'
  BY <1>3, OwnersStay
<1>7. ring' # <<>> => RoomOK'
  <2>1. Len(ring') <= Len(ring) /\ ring' \in Seq(Tasks)
    BY <1>1 DEF TypeOK
  <2> QED BY <1>3, <2>1, RoomStays
<1> QED BY <1>4, <1>5, <1>6, <1>7 DEF IInv

--------------------------------------------------------------------------------
(* The steps of the timer's handler and of schedule(). *)

LEMMA TickInv ==
    ASSUME IInv, Tick PROVE IInv'
<1>1. /\ cpu = current /\ state[cpu] = "running" /\ pc \in Breaks \cup Handlers
      /\ CallSchedule(<<"tickret", pc>>) /\ preempt_count[current] = 0
      /\ current \in Tasks /\ preempt_count \in [Tasks -> 0 .. 1]
  BY WhereTicksCome DEF Tick, Preemptible, IInv, TypeOK
<1>2. PICK f : Restacked(f) /\ f # <<>> /\ f[Len(f)] = Place(cpu) /\ pc' = "sched"
  BY <1>1, Ticked DEF Tick
<1>3. preempt_count' = [preempt_count EXCEPT ![current] =
                          IF pc' \in Locked \/ state[current] = "zombie" THEN 1 ELSE 0]
  BY <1>1, <1>2 DEF Tick, Locked
<1>4. /\ pc \notin {"switch", "link", "enable", "unlink"} /\ "sched" \notin Base
      /\ "sched" \in Labels
  BY <1>1 DEF Breaks, Handlers, Base, ForkLabels, ExitLabels, Labels, SchedLabels
<1> QED BY <1>1, <1>2, <1>3, <1>4, HandlerMoves DEF Tick

\* A handler or schedule() that returns to a running task.
LEMMA ReturnInv ==
    ASSUME IInv, Return, state[cpu] = "running", pc \in {"tickret", "sched", "resume"},
           UNCHANGED <<state, stack_start, ctx, at, ring, current, cpu, held, ticking, up>>,
           preempt_count' = [preempt_count EXCEPT ![current] = 0]
    PROVE  IInv'
<1> DEFINE f == Tail(frames[cpu])
<1>1. cpu = current /\ pc \notin Base
  BY DEF IInv, StatesOK, Base, ForkLabels, ExitLabels
<1>2. Restacked(f) /\ pc' \in (IF f = <<>> THEN Breaks ELSE Handlers)
      /\ (IF f = <<>> THEN pc' = Place(cpu) ELSE f[Len(f)] = Place(cpu))
  BY <1>1, Returned
<1> HIDE DEF f
<1>3. (f = <<>> <=> pc' \in Base) /\ pc' \in Breaks \cup Handlers /\ pc' \in Labels
  BY <1>2, LabelSets
<1>4. pc' \notin Locked /\ pc' \notin {"switch", "link", "unlink"}
  BY <1>3 DEF Breaks, Handlers, Locked
<1> QED BY <1>1, <1>2, <1>3, <1>4, HandlerMoves

LEMMA TickReturnInv ==
    ASSUME IInv, TickReturn PROVE IInv'
<1>1. state[cpu] = "running" /\ cpu = current /\ preempt_count[current] = 0
  BY DEF IInv, StatesOK, PreemptOK, TickReturn, At, ExitLabels, Locked
<1>2. preempt_count' = [preempt_count EXCEPT ![current] = 0]
  BY <1>1 DEF TickReturn, IInv, TypeOK
<1> QED BY <1>1, <1>2, ReturnInv DEF TickReturn, At

LEMMA ScheduleReturnInv ==
    ASSUME IInv, ScheduleReturn PROVE IInv'
<1>1. state[cpu] = "running" /\ cpu = current
  BY DEF IInv, StatesOK, ScheduleReturn, At, ExitLabels
<1> QED BY <1>1, ReturnInv DEF ScheduleReturn, At, SetPreempt

\* main is on the list whenever there is one.
LEMMA MainIsListed ==
    ASSUME IInv, ring # <<>>
    PROVE  \E i \in DOMAIN ring : ring[i] = Main
<1>1. Live(Main) /\ (pc = "link" => Operand # Main)
  BY TaskFacts DEF IInv, StatesOK, RingOK, Live, Operand, PlacesOK, Place, FramesOK, Base, ForkLabels, TypeOK
<1> QED BY <1>1, TaskFacts DEF IInv, RingOK, InRing

LEMMA ScheduleInv ==
    ASSUME IInv, Schedule PROVE IInv'
<1>1. /\ pc = "sched" /\ cpu = current /\ current \in Tasks /\ pc \notin Base
      /\ state[cpu] \in {"running", "zombie"}
      /\ UNCHANGED <<state, preempt_count, stack_start, ctx, at, ring, current, cpu, held,
                     ticking, up>>
  BY DEF IInv, StatesOK, TypeOK, Schedule, At, Base, ForkLabels, ExitLabels
<1>2. preempt_count[current] = IF state[current] = "zombie" THEN 1 ELSE 0
  BY <1>1 DEF IInv, PreemptOK, Locked
<1>3. preempt_count' = [preempt_count EXCEPT ![current] =
                          IF state[current] = "zombie" THEN 1 ELSE 0]
  BY <1>1, <1>2 DEF IInv, TypeOK
<1>4. CASE Return /\ state[cpu] = "running"
  BY <1>1, <1>3, <1>4, ReturnInv
<1>5. CASE Return /\ Alone /\ state[cpu] = "zombie"
  <2>1. frames[cpu] = <<"exit">>
    BY <1>1, <1>5 DEF IInv, StatesOK
  <2>2. ring = <<Main>>
    <3>1. ring \in Seq(Tasks) /\ Len(ring) = 1
      BY <1>5 DEF Alone, IInv, TypeOK
    <3>2. ring # <<>>
      BY <3>1, EmptySeq
    <3>3. ring[1] = Main
      BY <3>1, <3>2, MainIsListed
    <3> QED BY <3>1, <3>3
  <2>3. pc' = "exit" /\ Tail(frames[cpu]) = <<>>
    BY <1>5, <2>1 DEF Return
  <2>4. Restacked(<<>>) /\ pc' = Place(cpu)
    BY <1>1, <1>5, <2>3, Returned
  <2>5. "exit" \in Base /\ "exit" \in Labels /\ "exit" \notin Locked
    BY DEF Base, Labels, ExitLabels, Locked
  <2> QED BY <1>1, <1>3, <2>2, <2>3, <2>4, <2>5, HandlerMoves
<1>6. CASE pc' = "nopreempt" /\ UNCHANGED frames
  <2>1. "nopreempt" \notin Base /\ "nopreempt" \in Labels /\ "nopreempt" \notin Locked
    BY DEF Base, Labels, ForkLabels, ExitLabels, SchedLabels, Locked
  <2>2. frames[cpu] # <<>> /\ Place(cpu) = frames[cpu][Len(frames[cpu])]
    BY <1>1 DEF IInv, FramesOK, Place
  <2>3. Restacked(frames[cpu])
    BY <1>1, <1>6 DEF Restacked, IInv, TypeOK, FramesOK
  <2>4. state[cpu] = "zombie" => frames[cpu] = <<"exit">>
    BY <1>1 DEF IInv, StatesOK
  <2> QED BY <1>1, <1>3, <1>6, <2>1, <2>2, <2>3, <2>4, HandlerMoves
<1> QED BY <1>1, <1>4, <1>5, <1>6 DEF Schedule

LEMMA PreemptDisableInv ==
    ASSUME IInv, PreemptDisable PROVE IInv'
<1>1. /\ pc = "nopreempt" /\ cpu = current /\ current \in Tasks /\ pc \notin Base
      /\ pc' = "scan" /\ UNCHANGED frames
      /\ UNCHANGED <<state, stack_start, ctx, at, ring, current, cpu, held, ticking, up>>
  BY DEF IInv, StatesOK, TypeOK, PreemptDisable, At, Base, ForkLabels, ExitLabels
<1>2. "scan" \notin Base /\ "scan" \in Labels /\ "scan" \in Locked
  BY DEF Base, Labels, ForkLabels, ExitLabels, SchedLabels, Locked
<1>3. preempt_count' = [preempt_count EXCEPT ![current] =
                          IF pc' \in Locked \/ state[current] = "zombie" THEN 1 ELSE 0]
  BY <1>1, <1>2 DEF PreemptDisable, SetPreempt
<1>4. frames[cpu] # <<>> /\ Place(cpu) = frames[cpu][Len(frames[cpu])]
  BY <1>1 DEF IInv, FramesOK, Place
<1>5. Restacked(frames[cpu])
  BY <1>1 DEF Restacked, IInv, TypeOK, FramesOK
<1>6. state[cpu] = "zombie" => frames[cpu] = <<"exit">>
  BY <1>1 DEF IInv, StatesOK
<1> QED BY <1>1, <1>2, <1>3, <1>4, <1>5, <1>6, HandlerMoves

\* schedule() finds a task whenever it comes from one that ended.
LEMMA SomeoneIsReady ==
    ASSUME IInv, pc = "scan", FirstReady = {}
    PROVE  state[current] = "running"
<1> SUFFICES ASSUME state[current] = "zombie" PROVE FALSE
  BY DEF IInv, StatesOK
<1>1. cpu = current /\ current \in Tasks /\ ring \in Seq(Tasks)
  BY DEF IInv, StatesOK, TypeOK
<1>2. current # Main
  BY DEF IInv, StatesOK, Live
<1>3. ring # <<>>
  BY <1>1, <1>2 DEF IInv, RingOK
<1>4. 1 \in DOMAIN ring /\ ring[1] \in Tasks
  BY <1>1, <1>3
<1>5. Live(ring[1]) /\ ring[1] # current
  BY <1>3, <1>4 DEF IInv, RingOK, InRing, Live
<1>6. state[ring[1]] = "ready"
  BY <1>4, <1>5 DEF IInv, StatesOK, Live
<1>7. 1 \in FirstReady
  BY <1>4, <1>6 DEF FirstReady
<1> QED BY <1>7

LEMMA ScanInv ==
    ASSUME IInv, Scan PROVE IInv'
<1>1. /\ pc = "scan" /\ cpu = current /\ current \in Tasks /\ pc \notin Base
      /\ state[cpu] \in {"running", "zombie"} /\ preempt_count[cpu] = 1
      /\ UNCHANGED <<preempt_count, stack_start, ctx, frames, at, cpu, held, ticking, up>>
      /\ TypeOK
  BY DEF IInv, StatesOK, PreemptOK, TypeOK, Scan, At, Base, ForkLabels, ExitLabels, Locked
<1>2. frames[cpu] # <<>> /\ Place(cpu) = frames[cpu][Len(frames[cpu])]
  BY <1>1 DEF IInv, FramesOK, Place
<1>3. CASE FirstReady = {} /\ pc' = "resume" /\ UNCHANGED <<state, ring, current>>
  <2>1. "resume" \notin Base /\ "resume" \in Labels /\ "resume" \in Locked
    BY DEF Base, Labels, ForkLabels, ExitLabels, SchedLabels, Locked
  <2>2. state[cpu] = "running"
    BY <1>1, <1>3, SomeoneIsReady
  <2>3. Restacked(frames[cpu])
    BY <1>1 DEF Restacked, IInv, TypeOK, FramesOK
  <2>4. preempt_count' = [preempt_count EXCEPT ![current] =
                            IF pc' \in Locked \/ state[current] = "zombie" THEN 1 ELSE 0]
    BY <1>1, <1>3, <2>1 DEF TypeOK
  <2> QED BY <1>1, <1>2, <1>3, <2>1, <2>2, <2>3, <2>4, HandlerMoves
<1>4. ASSUME NEW i \in FirstReady,
             state' = [Demoted EXCEPT ![ring[i]] = "running"],
             ring' = From(i), current' = ring[i],
             pc' = IF current = ring[i] THEN "resume" ELSE "switch"
      PROVE  IInv'
  <2> DEFINE n == ring[i]
  <2>1. i \in DOMAIN ring /\ state[n] = "ready" /\ ring # <<>>
    BY DEF FirstReady
  <2>2. n \in Tasks /\ n # current /\ pc' = "switch" /\ ring \in Seq(Tasks)
    BY <1>1, <1>4, <2>1 DEF TypeOK
  <2>3. /\ state' \in [Tasks -> {"unused", "ready", "running", "zombie"}]
        /\ \A t \in Tasks : state'[t] = IF t = n THEN "running"
                                        ELSE IF t = current /\ state[t] = "running" THEN "ready"
                                        ELSE state[t]
    BY <1>1, <1>4, <2>2 DEF TypeOK, Demoted
  <2>4. \A t \in Tasks : Live(t)' <=> Live(t)
    BY <2>1, <2>2, <2>3 DEF Live
  <2>5. Once(ring)
    BY DEF IInv, RingOK
  <2>6. /\ ring' \in Seq(Tasks) /\ Once(ring') /\ Len(ring') = Len(ring) /\ ring' # <<>>
        /\ Head(ring') = n
        /\ \A t : (\E k \in DOMAIN ring' : ring'[k] = t) <=> \E k \in DOMAIN ring : ring[k] = t
    <3>1. ring' = SubSeq(ring, i, Len(ring)) \o SubSeq(ring, 1, i - 1)
      BY <1>4 DEF From
    <3>2. LET r == SubSeq(ring, i, Len(ring)) \o SubSeq(ring, 1, i - 1)
          IN  /\ r \in Seq(Tasks) /\ Once(r) /\ Len(r) = Len(ring) /\ r # <<>>
              /\ Head(r) = ring[i]
              /\ \A t : (\E k \in DOMAIN r : r[k] = t) <=> \E k \in DOMAIN ring : ring[k] = t
      BY <2>1, <2>2, <2>5, Turn
    <3> QED BY <3>1, <3>2
  <2>7. "switch" \notin Base /\ "switch" \in Labels /\ "switch" \in Locked
    BY DEF Base, Labels, ForkLabels, ExitLabels, SchedLabels, Locked
  <2>8. TypeOK'
    BY <1>1, <1>4, <2>2, <2>3, <2>6, <2>7 DEF TypeOK
  <2>9. FramesOK'
    BY <1>1, <1>2, <2>2, <2>7 DEF IInv, FramesOK
  <2>10. \A t \in Tasks : Place(t)' = Place(t)
    BY <1>1, <1>2 DEF Place
  <2>11. PlacesOK'
    BY <1>1, <2>6, <2>10, PlacesMove
  <2>12. StatesOK'
    <3>1. Live(Main)'
      BY <2>4, TaskFacts DEF IInv, StatesOK
    <3>2. state[cpu] = "zombie" => frames[cpu] = <<"exit">>
      BY <1>1 DEF IInv, StatesOK
    <3>3. \A t \in Tasks \ {n} : state'[t] # "running"
      BY <2>3 DEF IInv, StatesOK
    <3>4. state'[cpu] \in {"ready", "zombie"} /\ state'[n] = "running"
          /\ (state'[cpu] = "zombie" => state[cpu] = "zombie")
      BY <1>1, <2>2, <2>3
    <3> QED BY <1>1, <1>4, <2>2, <3>1, <3>2, <3>3, <3>4 DEF StatesOK
  <2>13. PreemptOK'
    <3>1. preempt_count[n] = 1
      BY <1>1, <2>1, <2>2 DEF IInv, PreemptOK, Live
    <3> QED BY <1>1, <1>4, <2>2, <2>4, <2>7, <3>1 DEF IInv, PreemptOK
  <2>14. RingOK'
    <3>1. \A t \in Tasks : InRing(t)' <=> Live(t)'
      BY <1>1, <2>1, <2>4, <2>6 DEF IInv, RingOK, InRing
    <3> QED BY <1>4, <2>2, <2>6, <3>1 DEF RingOK
  <2>15. OwnersOK'
    BY <1>1, <2>4, OwnersStay
  <2>16. StacksOK'
    <3>1. state'[cpu] = "zombie" => state[cpu] = "zombie"
      BY <1>1, <2>2, <2>3
    <3> QED BY <1>1, <2>4, <3>1 DEF IInv, StacksOK
  <2>17. RoomOK'
    <3>1. Len(ring') <= Len(ring)
      BY <2>2, <2>6
    <3> QED BY <2>1, <2>4, <2>6, <2>10, <3>1, RoomStays
  <2> QED BY <2>8, <2>9, <2>11, <2>12, <2>13, <2>14, <2>15, <2>16, <2>17 DEF IInv
<1> QED BY <1>3, <1>4 DEF Scan

LEMMA ContextSwitchInv ==
    ASSUME IInv, ContextSwitch PROVE IInv'
<1>1. /\ pc = "switch" /\ cpu # current /\ current \in Tasks /\ cpu \in Tasks /\ pc \notin Base
      /\ state[current] = "running" /\ state[cpu] \in {"ready", "zombie"}
      /\ cpu' = current
      /\ UNCHANGED <<state, preempt_count, stack_start, frames, at, ring, current, held,
                     ticking, up>>
      /\ TypeOK
  BY DEF IInv, StatesOK, TypeOK, ContextSwitch, At, Base, ForkLabels, ExitLabels
<1>2. /\ frames[cpu] # <<>> /\ preempt_count[cpu] = 1 /\ preempt_count[current] = 1
      /\ ctx[current] = IF frames[current] = <<>> THEN "fork" ELSE "resume"
  BY <1>1 DEF IInv, FramesOK, PreemptOK, Live, Locked
<1>3. pc' = IF frames[current] = <<>> THEN "start" ELSE "resume"
  BY <1>2 DEF ContextSwitch
<1>4. /\ "start" \in Base /\ "resume" \notin Base /\ {"start", "resume"} \subseteq Labels
      /\ {"start", "resume"} \subseteq Locked
  BY DEF Base, Labels, ForkLabels, ExitLabels, SchedLabels, Locked
<1>5. ctx' \in [Tasks -> {"none", "fork", "resume"}]
      /\ ctx'[cpu] = "resume" /\ \A t \in Tasks \ {cpu, current} : ctx'[t] = ctx[t]
  BY <1>1 DEF ContextSwitch, TypeOK
<1>6. TypeOK'
  BY <1>1, <1>3, <1>4, <1>5 DEF TypeOK
<1>7. FramesOK'
  BY <1>1, <1>3, <1>4 DEF IInv, FramesOK
<1>8. \A t \in Tasks : Place(t)' = Place(t) /\ (Live(t)' <=> Live(t))
  BY <1>1, <1>2, <1>3 DEF Place, Live
<1>9. PlacesOK'
  BY <1>1, <1>8, PlacesMove
<1>10. StatesOK'
  BY <1>1, <1>3 DEF IInv, StatesOK, Live
<1>11. PreemptOK'
  BY <1>1, <1>2, <1>3, <1>4, <1>5, <1>8 DEF IInv, PreemptOK
<1>12. RingOK'
  BY <1>1, <1>3, <1>8 DEF IInv, RingOK, InRing
<1>13. OwnersOK'
  BY <1>1, <1>8, OwnersStay
<1>14. StacksOK'
  BY <1>1, <1>8 DEF IInv, StacksOK
<1>15. ring' # <<>> => RoomOK'
  <2>1. Len(ring') <= Len(ring) /\ ring' \in Seq(Tasks)
    BY <1>1 DEF TypeOK
  <2> QED BY <1>1, <1>8, <2>1, RoomStays
<1> QED BY <1>6, <1>7, <1>9, <1>10, <1>11, <1>12, <1>13, <1>14, <1>15 DEF IInv

--------------------------------------------------------------------------------
(* The calls of a function. *)

\* Where the CPU is in a function.
LEMMA InFunction ==
    ASSUME IInv, pc \in Base
    PROVE  /\ cpu = current /\ cpu \in Tasks /\ frames[cpu] = <<>> /\ Place(cpu) = pc
           /\ pc \notin ExitLabels => state[cpu] = "running"
           /\ at[cpu] \in 1 .. Len(Program[cpu]) + 1
<1>1. cpu \in Tasks /\ frames[cpu] = <<>> /\ pc \notin {"switch", "sched", "nopreempt", "scan"}
  BY DEF IInv, TypeOK, FramesOK, Base, ForkLabels, ExitLabels
<1>2. cpu = current /\ (pc \notin ExitLabels => state[cpu] = "running")
  BY <1>1 DEF IInv, StatesOK
<1> QED BY <1>1, <1>2 DEF Place, IInv, PlacesOK

\* The steps of a function that only move it on.
LEMMA FunctionMoves ==
    ASSUME IInv, UNCHANGED <<state, stack_start, ctx, frames, ring, current, cpu, held, up>>,
           ticking' \in BOOLEAN, at' \in [Tasks -> Nat],
           pc \in Base \ {"link", "unlink"}, pc' \in Base \ {"link", "unlink"},
           preempt_count' = [preempt_count EXCEPT ![current] = IF pc' \in Locked THEN 1 ELSE 0],
           (state[cpu] = "running" \/ (pc' = "zombie" /\ ring = <<Main>>))
    PROVE  /\ TypeOK' /\ FramesOK' /\ StatesOK' /\ PreemptOK' /\ RingOK' /\ StacksOK'
           /\ \A t \in Tasks : IF t = cpu THEN Place(t) = pc /\ Place(t)' = pc'
                               ELSE Place(t)' = Place(t)
           /\ \A t \in Tasks : Live(t)' <=> Live(t)
<1>1. cpu = current /\ cpu \in Tasks /\ frames[cpu] = <<>> /\ Place(cpu) = pc
  BY InFunction
<1>2. /\ pc \notin {"switch", "link", "unlink"} /\ pc' \in Labels \ {"switch", "link", "unlink"}
      /\ "zombie" \in Locked
  BY LabelSets DEF Base, ForkLabels, ExitLabels, Locked
<1>3. frames \in [Tasks -> Seq(Labels)] /\ \A t \in Tasks : Framed(frames[t])
  BY DEF IInv, TypeOK, FramesOK
<1>4. state[current] = "zombie" => state[current] # "running"
  OBVIOUS
<1>5. preempt_count' = [preempt_count EXCEPT ![current] =
                          IF pc' \in Locked \/ state[current] = "zombie" THEN 1 ELSE 0]
  BY <1>1, <1>2, <1>4
<1>6. TypeOK' /\ FramesOK' /\ StatesOK' /\ PreemptOK' /\ RingOK' /\ StacksOK'
  BY <1>1, <1>2, <1>3, <1>5, ControlMoves
<1> QED BY <1>1, <1>6 DEF Place, Live

\* A function goes on to its next call.
LEMMA OwnersAdvance ==
    ASSUME IInv, UNCHANGED <<state, cpu>>, Advance, pc \in Base \ {"link"},
           at[cpu] \in DOMAIN Program[cpu],
           \A t \in Tasks : Live(t) => ~Does(cpu, at[cpu], "join", t)
    PROVE  OwnersOK' /\ at' \in [Tasks -> Nat]
           /\ at'[cpu] \in 1 .. Len(Program[cpu]) + 1
           /\ \A t \in Tasks : t # cpu => at'[t] = at[t]
<1>1. /\ cpu \in Tasks /\ at \in [Tasks -> Nat] /\ at[cpu] \in 1 .. Len(Program[cpu])
      /\ Len(Program[cpu]) \in Nat
  BY TaskFacts DEF IInv, TypeOK
<1>2. /\ at' \in [Tasks -> Nat] /\ at'[cpu] = at[cpu] + 1
      /\ \A t \in Tasks : t # cpu => at'[t] = at[t]
  BY <1>1 DEF Advance
<1>3. ASSUME NEW t \in Tasks \ {Main}, Live(t)
      PROVE  \E u \in Tasks : Live(u)' /\ Outstanding(u, t, at'[u])
  <2>1. PICK u \in Tasks :
          /\ Live(u)
          /\ \/ Outstanding(u, t, at[u])
             \/ u = cpu /\ pc \in {"link", "enable"} /\ Does(u, at[u], "fork", t)
    BY <1>3 DEF IInv, OwnersOK
  <2>2. Live(u)'
    BY <2>1 DEF Live
  <2>3. CASE u # cpu
    BY <1>2, <2>1, <2>2, <2>3
  <2>4. CASE u = cpu /\ Outstanding(u, t, at[u])
    <3>1. PICK k \in 1 .. at[u] - 1 :
            Does(u, k, "fork", t) /\ \A m \in k + 1 .. at[u] - 1 : ~Does(u, m, "join", t)
      BY <2>4 DEF Outstanding
    <3>2. ~Does(u, at[u], "join", t)
      BY <1>3, <2>4
    <3>3. \A m \in k + 1 .. at'[u] - 1 : ~Does(u, m, "join", t)
      BY <1>1, <1>2, <2>4, <3>1, <3>2
    <3>4. k \in 1 .. at'[u] - 1
      BY <1>1, <1>2, <2>4
    <3> QED BY <2>2, <3>1, <3>3, <3>4 DEF Outstanding
  <2>5. CASE u = cpu /\ Does(u, at[u], "fork", t)
    <3>1. at[u] \in 1 .. at'[u] - 1 /\ \A m \in at[u] + 1 .. at'[u] - 1 : FALSE
      BY <1>1, <1>2, <2>5
    <3> QED BY <2>2, <2>5, <3>1 DEF Outstanding
  <2> QED BY <2>1, <2>3, <2>4, <2>5
<1>4. OwnersOK'
  BY <1>3 DEF OwnersOK, Live
<1> QED BY <1>1, <1>2, <1>4

LEMMA PanicInv ==
    ASSUME IInv, Panic PROVE IInv'
<1>1. /\ UNCHANGED <<state, preempt_count, stack_start, ctx, frames, at, ring, current, cpu,
                     pc, held, ticking>> /\ up' = FALSE
  BY DEF Panic, taskVars
<1>2. TypeOK' /\ FramesOK' /\ StatesOK' /\ PreemptOK'
  BY <1>1 DEF IInv, TypeOK, FramesOK, StatesOK, PreemptOK, Live
<1>3. PlacesOK'
  BY <1>1 DEF IInv, PlacesOK, Place
<1>4. RingOK' /\ StacksOK'
  BY <1>1 DEF IInv, RingOK, StacksOK, Live, InRing, Operand
<1>5. OwnersOK'
  BY <1>1 DEF IInv, OwnersOK, Live
<1>6. ring' # <<>> => RoomOK'
  BY <1>1 DEF IInv, RoomOK, Late, Live, Place, Forkers
<1> QED BY <1>2, <1>3, <1>4, <1>5, <1>6 DEF IInv

\* Steps that stay at the same call.
LEMMA FunctionGoesOn ==
    ASSUME IInv,
           UNCHANGED <<state, stack_start, ctx, frames, at, ring, current, cpu, held, ticking, up>>,
           pc \in Base \ {"link", "enable", "unlink"}, pc' \in Base \ {"link", "unlink"},
           preempt_count' = [preempt_count EXCEPT ![current] = IF pc' \in Locked THEN 1 ELSE 0],
           (state[cpu] = "running" \/ (pc' = "zombie" /\ ring = <<Main>>)),
           pc' \in ForkLabels => pc \in {"disable", "stack"},
           pc' \in ExitLabels => pc \in ExitLabels
    PROVE  IInv'
<1>1. /\ at \in [Tasks -> Nat] /\ ring \in Seq(Tasks) /\ ticking \in BOOLEAN
      /\ at[cpu] \in 1 .. Len(Program[cpu]) + 1
  BY InFunction DEF IInv, TypeOK
<1>2. /\ TypeOK' /\ FramesOK' /\ StatesOK' /\ PreemptOK' /\ RingOK' /\ StacksOK'
      /\ \A t \in Tasks : IF t = cpu THEN Place(t) = pc /\ Place(t)' = pc'
                          ELSE Place(t)' = Place(t)
      /\ \A t \in Tasks : Live(t)' <=> Live(t)
  BY <1>1, FunctionMoves
<1>3. {"disable", "stack"} \subseteq ForkLabels /\ {"disable", "stack", "link"} \subseteq ForkLabels
  BY DEF ForkLabels
<1>4. PlacesOK'
  BY <1>1, <1>2, <1>3, PlacesMove
<1>5. OwnersOK'
  BY <1>2, OwnersStay
<1>6. ring' # <<>> => RoomOK'
  <2>1. Len(ring') <= Len(ring) /\ ring' \in Seq(Tasks)
    BY <1>1
  <2> QED BY <1>2, <1>3, <2>1, RoomStays
<1> QED BY <1>2, <1>4, <1>5, <1>6 DEF IInv

LEMMA RetFromForkInv ==
    ASSUME IInv, RetFromFork PROVE IInv'
<1>1. /\ pc = "start" /\ pc' = "run"
      /\ pc \in Base \ {"link", "enable", "unlink"} /\ pc' \in Base \ {"link", "unlink"}
      /\ pc \notin ExitLabels /\ pc' \notin ForkLabels \cup ExitLabels /\ pc' \notin Locked
  BY DEF RetFromFork, At, Base, ForkLabels, ExitLabels, Locked
<1>2. state[cpu] = "running"
  BY <1>1, InFunction
<1> QED BY <1>1, <1>2, FunctionGoesOn DEF RetFromFork, SetPreempt

LEMMA ForkDisableInv ==
    ASSUME IInv, ForkDisable PROVE IInv'
<1>1. /\ pc = "disable" /\ pc' = "stack"
      /\ pc \in Base \ {"link", "enable", "unlink"} /\ pc' \in Base \ {"link", "unlink"}
      /\ pc \notin ExitLabels /\ pc' \notin ExitLabels /\ pc' \in Locked
  BY DEF ForkDisable, At, Base, ForkLabels, ExitLabels, Locked
<1>2. state[cpu] = "running"
  BY <1>1, InFunction
<1> QED BY <1>1, <1>2, FunctionGoesOn DEF ForkDisable, SetPreempt

LEMMA ExitTaskInv ==
    ASSUME IInv, ExitTask PROVE IInv'
<1>1. /\ pc = "exit" /\ pc' = "zombie"
      /\ pc \in Base \ {"link", "enable", "unlink"} /\ pc' \in Base \ {"link", "unlink"}
      /\ pc \in ExitLabels /\ pc' \notin ForkLabels /\ pc' \in Locked
  BY DEF ExitTask, At, Base, ForkLabels, ExitLabels, Locked
<1>2. state[cpu] \in {"running", "zombie"}
  BY <1>1, InFunction DEF IInv, StatesOK
<1>3. state[cpu] = "zombie" => ring = <<Main>>
  BY <1>1 DEF IInv, StatesOK
<1>4. (state[cpu] = "running" \/ (pc' = "zombie" /\ ring = <<Main>>))
  BY <1>1, <1>2, <1>3
<1> QED BY <1>1, <1>4, FunctionGoesOn DEF ExitTask, SetPreempt

\* The first fork_task().
LEMMA ThreadInitInv ==
    ASSUME IInv, NEW t \in Tasks, ThreadInit(t) PROVE IInv'
<1>1. /\ pc = "run" /\ cpu = t /\ pc \in Base /\ pc \notin ExitLabels /\ ring = <<>>
      /\ at[t] \in DOMAIN Program[t] /\ Program[t][at[t]].op = "fork"
      /\ UNCHANGED <<state, preempt_count, stack_start, ctx, frames, at, current, cpu, pc, held,
                     ticking, up>>
      /\ ring' = <<Main>>
  BY DEF ThreadInit, AtCall, At, Base, ForkLabels, ExitLabels, taskVars, AddCircular
<1>2. cpu = current /\ state[cpu] = "running" /\ TypeOK
  BY <1>1, InFunction DEF IInv
<1>3. \A u \in Tasks \ {Main} : state[u] = "unused"
  BY <1>1 DEF IInv, RingOK
<1>4. Main \in Tasks /\ cpu = Main
  BY <1>2, <1>3, TaskFacts DEF TypeOK
<1>5. /\ ring' \in Seq(Tasks) /\ ring' # <<>> /\ Len(ring') = 1 /\ DOMAIN ring' = {1}
      /\ ring'[1] = Main /\ Head(ring') = Main
  BY <1>1, <1>4
<1>6. \A u \in Tasks : Place(u)' = Place(u) /\ (Live(u)' <=> Live(u))
  BY <1>1 DEF Place, Live
<1>7. TypeOK'
  BY <1>1, <1>2, <1>5 DEF TypeOK
<1>8. FramesOK' /\ StatesOK' /\ PreemptOK'
  <2>1. FramesOK'
    BY <1>1 DEF IInv, FramesOK
  <2>2. StatesOK'
    BY <1>1, <1>2, <1>4, <1>6 DEF IInv, StatesOK
  <2>3. PreemptOK'
    BY <1>1, <1>6 DEF IInv, PreemptOK
  <2> QED BY <2>1, <2>2, <2>3
<1>9. PlacesOK'
  BY <1>1, <1>5, <1>6, PlacesMove
<1>10. RingOK'
  <2>1. \A u \in Tasks : InRing(u)' <=> Live(u)'
    BY <1>1, <1>2, <1>3, <1>4, <1>5 DEF InRing, Live
  <2> QED BY <1>1, <1>2, <1>4, <1>5, <2>1 DEF RingOK, Once
<1>11. OwnersOK'
  BY <1>1, <1>6, OwnersStay
<1>12. StacksOK'
  BY <1>1, <1>6 DEF IInv, StacksOK
<1>13. RoomOK'
  <2>1. Late' = {}
    BY <1>1, <1>6 DEF Late, IInv, PlacesOK, ForkLabels
  <2>2. IsFiniteSet(Forkers) /\ t \in Forkers
    BY <1>1, TasksAssumption, FS_Subset DEF Forkers
  <2>3. Cardinality(Forkers) \in Nat /\ Cardinality(Forkers) # 0
    BY <2>2, FS_CardinalityType, FS_EmptySet
  <2>4. Cardinality(Late') = 0 /\ Forkers' = Forkers
    BY <2>1, FS_EmptySet DEF Forkers
  <2> QED BY <1>5, <2>3, <2>4, BoundsAssumption DEF RoomOK
<1> QED BY <1>7, <1>8, <1>9, <1>10, <1>11, <1>12, <1>13 DEF IInv

LEMMA ForkTaskInv ==
    ASSUME IInv, NEW t \in Tasks, ForkTask(t) PROVE IInv'
<1>1. /\ pc = "run" /\ cpu = t /\ pc \in Base \ {"link", "unlink"} /\ pc \notin ExitLabels
      /\ ring # <<>> /\ at[t] \in DOMAIN Program[t] /\ Program[t][at[t]].op = "fork"
  BY DEF ForkTask, AtCall, At, Base, ForkLabels, ExitLabels
<1>2. CASE Panic
  BY <1>2, PanicInv
<1>3. CASE ~Full /\ pc' = "disable" /\ UNCHANGED <<taskVars, ring, current, cpu, held, ticking, up>>
  <2>1. UNCHANGED <<state, preempt_count, stack_start, ctx, frames, at, ring, current, cpu, held,
                    ticking, up>>
    BY <1>3 DEF taskVars
  <2>2. /\ cpu = current /\ state[cpu] = "running" /\ preempt_count[current] = 0
        /\ at \in [Tasks -> Nat] /\ ring \in Seq(Tasks) /\ ticking \in BOOLEAN
        /\ preempt_count \in [Tasks -> 0 .. 1] /\ pc \notin Locked
    BY <1>1, InFunction DEF IInv, TypeOK, PreemptOK, Locked
  <2>3. /\ pc' \in Base \ {"link", "unlink"} /\ pc' \notin Locked /\ pc' \in ForkLabels
        /\ pc' \notin ExitLabels
    BY <1>3 DEF Base, ForkLabels, ExitLabels, Locked
  <2>4. preempt_count' = [preempt_count EXCEPT ![current] = IF pc' \in Locked THEN 1 ELSE 0]
    BY <2>1, <2>2, <2>3
  <2>5. /\ TypeOK' /\ FramesOK' /\ StatesOK' /\ PreemptOK' /\ RingOK' /\ StacksOK'
        /\ \A u \in Tasks : IF u = cpu THEN Place(u) = pc /\ Place(u)' = pc'
                            ELSE Place(u)' = Place(u)
        /\ \A u \in Tasks : Live(u)' <=> Live(u)
    BY <1>1, <2>1, <2>2, <2>3, <2>4, FunctionMoves
  <2>6. PlacesOK'
    <3> SUFFICES ASSUME NEW u \in Tasks
                 PROVE  /\ at[u] \in 1 .. Len(Program[u]) + 1
                        /\ Place(u)' \in ForkLabels =>
                             ring # <<>> /\ at[u] \in DOMAIN Program[u]
                             /\ Program[u][at[u]].op = "fork"
                        /\ Place(u)' \in ExitLabels => u \notin Endless /\ at[u] = Len(Program[u]) + 1
      BY <2>1 DEF PlacesOK
    <3>1. CASE u = cpu
      BY <1>1, <2>3, <2>5, <3>1, InFunction
    <3>2. CASE u # cpu
      BY <2>5, <3>2 DEF IInv, PlacesOK
    <3> QED BY <3>1, <3>2
  <2>7. OwnersOK'
    BY <1>1, <2>1, <2>5, OwnersStay
  <2>8. RoomOK'
    <3>1. Late' \subseteq Forkers
      <4> SUFFICES ASSUME NEW u \in Tasks, Place(u)' \in ForkLabels PROVE u \in Forkers
        BY DEF Late, ForkLabels
      <4> QED BY <2>1, <2>6 DEF PlacesOK, Forkers
    <3>2. IsFiniteSet(Forkers) /\ Forkers' = Forkers
      BY TasksAssumption, FS_Subset DEF Forkers
    <3>3. /\ Cardinality(Late') <= Cardinality(Forkers) /\ Cardinality(Forkers) \in Nat
          /\ Cardinality(Late') \in Nat
      BY <3>1, <3>2, FS_Subset, FS_CardinalityType
    <3>4. Len(ring') \in Nat /\ Len(ring') < NR_TASKS
      BY <1>3, <2>1, <2>2, BoundsAssumption DEF Full
    <3> QED BY <3>2, <3>3, <3>4, BoundsAssumption DEF RoomOK
  <2> QED BY <2>5, <2>6, <2>7, <2>8 DEF IInv
<1> QED BY <1>2, <1>3 DEF ForkTask

\* What a function about to fork uses: a task that nobody runs.
LEMMA OperandIsOver ==
    ASSUME ForksAreJoined, IInv, pc = "stack"
    PROVE  /\ Operand \in Tasks \ {Main, cpu} /\ ~Live(Operand)
           /\ Does(cpu, at[cpu], "fork", Operand) /\ at[cpu] \in DOMAIN Program[cpu]
           /\ ring # <<>>
<1>1. pc \in Base /\ pc \in ForkLabels /\ pc \notin ExitLabels
  BY DEF Base, ForkLabels, ExitLabels
<1>2. /\ cpu \in Tasks /\ Place(cpu) = pc /\ state[cpu] = "running"
  BY <1>1, InFunction
<1>3. ring # <<>> /\ at[cpu] \in DOMAIN Program[cpu] /\ Program[cpu][at[cpu]].op = "fork"
  BY <1>1, <1>2 DEF IInv, PlacesOK
<1>4. Operand \in Tasks \ {Main} /\ Does(cpu, at[cpu], "fork", Operand)
  BY <1>2, <1>3, TaskFacts DEF Operand, Does
<1>5. ASSUME Live(Operand) PROVE FALSE
  <2>1. PICK u \in Tasks : Outstanding(u, Operand, at[u])
    BY <1>4, <1>5 DEF IInv, OwnersOK
  <2>2. PICK k \in 1 .. at[u] - 1 : Does(u, k, "fork", Operand)
    BY <2>1 DEF Outstanding
  <2>3. u = cpu
    BY <1>2, <1>3, <1>4, <2>2 DEF ForksAreJoined, Does
  <2> QED BY <1>2, <1>3, <1>4, <2>1, <2>3 DEF ForksAreJoined
<1>6. Operand # cpu
  BY <1>2, <1>5 DEF Live
<1> QED BY <1>3, <1>4, <1>5, <1>6

LEMMA ForkStackInv ==
    ASSUME ForksAreJoined, IInv, ForkStack PROVE IInv'
<1>1. pc = "stack" /\ pc \in Base /\ pc \in ForkLabels /\ pc \notin ExitLabels /\ pc \in Locked
  BY DEF ForkStack, At, Base, ForkLabels, ExitLabels, Locked
<1>2. CASE Panic
  BY <1>2, PanicInv
<1>3. ASSUME NEW s \in LowestHole,
             held' = held \cup {s},
             stack_start' = [stack_start EXCEPT ![Operand] = s],
             state' = [state EXCEPT ![Operand] = "ready"],
             preempt_count' = [preempt_count EXCEPT ![Operand] = NewCount],
             ctx' = [ctx EXCEPT ![Operand] = "fork"],
             frames' = [frames EXCEPT ![Operand] = <<>>],
             at' = [at EXCEPT ![Operand] = 1],
             pc' = "link", UNCHANGED <<ring, current, cpu, ticking, up>>
      PROVE  IInv'
  <2>1. PICK p \in Tasks \ {Main, cpu} :
          /\ p = Operand /\ ~Live(p) /\ Does(cpu, at[cpu], "fork", p)
          /\ at[cpu] \in DOMAIN Program[cpu] /\ ring # <<>>
    BY <1>1, OperandIsOver
  <2>2. /\ cpu = current /\ cpu \in Tasks /\ state[cpu] = "running" /\ frames[cpu] = <<>>
        /\ Place(cpu) = pc /\ TypeOK
    BY <1>1, InFunction DEF IInv
  <2>3. s \in Stacks /\ s \notin held
    BY <1>3 DEF LowestHole
  <2>4. /\ stack_start' \in [Tasks -> Stacks \cup {NULL}] /\ stack_start'[p] = s
        /\ state' \in [Tasks -> {"unused", "ready", "running", "zombie"}] /\ state'[p] = "ready"
        /\ preempt_count' \in [Tasks -> 0 .. 1] /\ preempt_count'[p] = 1
        /\ ctx' \in [Tasks -> {"none", "fork", "resume"}] /\ ctx'[p] = "fork"
        /\ frames' \in [Tasks -> Seq(Labels)] /\ frames'[p] = <<>>
        /\ at' \in [Tasks -> Nat] /\ at'[p] = 1
    BY <1>3, <2>1, <2>2, <2>3 DEF TypeOK, NewCount
  <2>5. \A t \in Tasks \ {p} :
          /\ stack_start'[t] = stack_start[t] /\ state'[t] = state[t]
          /\ preempt_count'[t] = preempt_count[t] /\ ctx'[t] = ctx[t]
          /\ frames'[t] = frames[t] /\ at'[t] = at[t]
    BY <1>3, <2>1, <2>2 DEF TypeOK
  <2>6. /\ \A t \in Tasks \ {p} : Live(t)' <=> Live(t)
        /\ Live(p)'
    BY <2>4, <2>5 DEF Live
  <2>7. pc' \in Labels /\ pc' \in Base /\ pc' \in ForkLabels /\ pc' \notin ExitLabels /\ pc' \in Locked
    BY <1>3 DEF Labels, Base, ForkLabels, ExitLabels, Locked
  <2>8. TypeOK'
    BY <1>3, <2>2, <2>3, <2>4, <2>7 DEF TypeOK
  <2>9. FramesOK'
    <3>1. Framed(<<>>)
      BY DEF Framed
    <3>2. \A t \in Tasks : Framed(frames'[t])
      BY <2>4, <2>5, <3>1 DEF IInv, FramesOK
    <3> QED BY <1>3, <2>1, <2>2, <2>5, <2>7, <3>2 DEF FramesOK
  <2>10. /\ \A t \in Tasks \ {p, cpu} : Place(t)' = Place(t)
         /\ Place(p)' = "start" /\ (\A t \in Tasks : t = cpu => Place(t)' = pc')
    BY <1>3, <2>1, <2>2, <2>4, <2>5 DEF Place
  <2>11. PlacesOK'
    <3>1. at'[p] \in 1 .. Len(Program[p]) + 1 /\ Place(p)' \notin ForkLabels \cup ExitLabels
      BY <2>1, <2>4, <2>10, TaskFacts DEF ForkLabels, ExitLabels
    <3>2. \A t \in Tasks \ {p} : at'[t] = at[t]
      BY <2>5
    <3> QED BY <1>1, <1>3, <2>1, <2>2, <2>7, <2>10, <3>1, <3>2, PlacesMove
  <2>12. StatesOK'
    BY <1>3, <2>1, <2>2, <2>4, <2>5, <2>6 DEF IInv, StatesOK, Live
  <2>13. PreemptOK'
    BY <1>1, <1>3, <2>1, <2>2, <2>4, <2>5, <2>6, <2>7 DEF IInv, PreemptOK
  <2>14. Operand' = p
    BY <1>3, <2>1, <2>2, <2>5 DEF Operand
  <2>15. RingOK'
    <3>1. \A t \in Tasks : InRing(t)' <=> InRing(t)
      BY <1>3 DEF InRing
    <3>2. \A t \in Tasks : InRing(t) <=> Live(t)
      BY <1>1, <2>1 DEF IInv, RingOK
    <3>3. \A t \in Tasks : InRing(t)' <=> Live(t)' /\ t # p
      BY <2>1, <2>6, <3>1, <3>2
    <3>4. Once(ring) /\ Head(ring) = current
      BY <1>1, <2>1, <2>2 DEF IInv, RingOK
    <3> QED BY <1>3, <2>1, <2>4, <2>14, <3>3, <3>4 DEF RingOK
  <2>16. OwnersOK'
    <3> SUFFICES ASSUME NEW t \in Tasks \ {Main}, Live(t)'
                 PROVE  \E u \in Tasks :
                          /\ Live(u)'
                          /\ \/ Outstanding(u, t, at'[u])
                             \/ u = cpu /\ Does(u, at'[u], "fork", t)
      BY <1>3 DEF OwnersOK
    <3>1. CASE t = p
      <4>1. Live(cpu) /\ cpu # p
        BY <2>1, <2>2 DEF Live
      <4> QED BY <2>1, <2>2, <2>5, <2>6, <3>1, <4>1
    <3>2. CASE t # p
      <4>1. PICK u \in Tasks : Live(u) /\ Outstanding(u, t, at[u])
        BY <1>1, <2>6, <3>2 DEF IInv, OwnersOK
      <4> QED BY <2>1, <2>5, <2>6, <4>1
    <3> QED BY <3>1, <3>2
  <2>17. StacksOK'
    <3>1. \A t \in Tasks \ {Main, p} : Live(t)' => stack_start'[t] \in held
      BY <2>5, <2>6 DEF IInv, StacksOK
    <3>2. \A t, u \in Tasks \ {Main, p} :
            Live(t)' /\ Live(u)' /\ stack_start'[t] = stack_start'[u] => t = u
      BY <2>5, <2>6 DEF IInv, StacksOK
    <3>3. state'[cpu] # "zombie"
      BY <2>1, <2>2, <2>5
    <3> QED BY <1>3, <2>3, <2>4, <3>1, <3>2, <3>3 DEF StacksOK
  <2>18. RoomOK'
    <3>1. Len(ring') <= Len(ring) /\ ring' \in Seq(Tasks)
      BY <1>3, <2>2 DEF TypeOK
    <3>2. \A t \in Tasks : Live(t)' /\ Place(t)' \in {"disable", "stack", "link"}
                             => Live(t) /\ Place(t) \in {"disable", "stack", "link"}
      BY <1>1, <2>2, <2>6, <2>10 DEF Live
    <3> QED BY <2>1, <3>1, <3>2, RoomStays
  <2> QED BY <2>8, <2>9, <2>11, <2>12, <2>13, <2>15, <2>16, <2>17, <2>18 DEF IInv
<1> QED BY <1>2, <1>3 DEF ForkStack

LEMMA ForkLinkInv ==
    ASSUME IInv, ForkLink PROVE IInv'
<1>1. /\ pc = "link" /\ pc \in Base /\ pc \in ForkLabels /\ pc \notin ExitLabels /\ pc \in Locked
      /\ pc' = "enable" /\ pc' \in Base /\ pc' \in ForkLabels /\ pc' \notin ExitLabels
      /\ pc' \in Locked /\ pc' \in Labels
      /\ UNCHANGED <<state, preempt_count, stack_start, ctx, frames, at, current, cpu, held,
                     ticking, up>>
      /\ ring' = AddCircular(Operand)
  BY DEF ForkLink, At, Base, ForkLabels, ExitLabels, Locked, Labels, taskVars
<1>2. /\ cpu = current /\ cpu \in Tasks /\ state[cpu] = "running" /\ frames[cpu] = <<>>
      /\ Place(cpu) = pc /\ TypeOK
  BY <1>1, InFunction DEF IInv
<1>3. ring # <<>> /\ at[cpu] \in DOMAIN Program[cpu]
  BY <1>1, <1>2 DEF IInv, PlacesOK
<1>4. PICK p \in Tasks : p = Operand
  BY <1>2, <1>3, TaskFacts DEF Operand
<1>5. state[p] = "ready" /\ Live(p) /\ ~InRing(p) /\ Once(ring) /\ Head(ring) = current
  BY <1>1, <1>2, <1>3, <1>4 DEF IInv, RingOK, Live
<1>6. /\ ring' \in Seq(Tasks) /\ Once(ring') /\ Len(ring') = Len(ring) + 1
      /\ Head(ring') = current
      /\ \A t : (\E i \in DOMAIN ring' : ring'[i] = t) <=> t = p \/ \E i \in DOMAIN ring : ring[i] = t
  <2>1. ring' = IF ring = <<>> THEN <<p>> ELSE <<Head(ring), p>> \o Tail(ring)
    BY <1>1, <1>4 DEF AddCircular
  <2>2. ring \in Seq(Tasks) /\ \A i \in DOMAIN ring : ring[i] # p
    BY <1>2, <1>5 DEF TypeOK, InRing
  <2>3. LET r == IF ring = <<>> THEN <<p>> ELSE <<Head(ring), p>> \o Tail(ring)
        IN  /\ r \in Seq(Tasks) /\ Once(r) /\ Len(r) = Len(ring) + 1
            /\ Head(r) = IF ring = <<>> THEN p ELSE Head(ring)
            /\ \A t : (\E i \in DOMAIN r : r[i] = t) <=> t = p \/ \E i \in DOMAIN ring : ring[i] = t
    BY <1>5, <2>2, Add
  <2> QED BY <1>3, <1>5, <2>1, <2>3
<1>7. Len(ring) \in Nat /\ ring' # <<>>
  BY <1>2, <1>6, EmptySeq DEF TypeOK
<1>8. \A t \in Tasks : Live(t)' <=> Live(t)
  BY <1>1 DEF Live
<1>9. \A t \in Tasks : IF t = cpu THEN Place(t)' = pc' ELSE Place(t)' = Place(t)
  BY <1>1, <1>2 DEF Place
<1>10. TypeOK'
  BY <1>1, <1>2, <1>6 DEF TypeOK
<1>11. FramesOK'
  BY <1>1, <1>2 DEF IInv, FramesOK
<1>12. PlacesOK'
  BY <1>1, <1>2, <1>7, <1>9, PlacesMove
<1>13. StatesOK'
  BY <1>1, <1>2, <1>8, TaskFacts DEF IInv, StatesOK
<1>14. PreemptOK'
  BY <1>1, <1>8 DEF IInv, PreemptOK
<1>15. RingOK'
  <2>1. \A t \in Tasks : InRing(t) <=> Live(t) /\ t # p
    BY <1>1, <1>3, <1>4 DEF IInv, RingOK
  <2>2. \A t \in Tasks : InRing(t)' <=> Live(t)'
    BY <1>4, <1>5, <1>6, <1>8, <2>1 DEF InRing
  <2> QED BY <1>1, <1>6, <1>7, <2>2 DEF RingOK
<1>16. OwnersOK'
  BY <1>1, <1>8 DEF IInv, OwnersOK
<1>17. StacksOK'
  BY <1>1, <1>8 DEF IInv, StacksOK
<1>18. RoomOK'
  <2>1. Late' = Late \ {cpu} /\ cpu \in Late
    BY <1>1, <1>2, <1>8, <1>9 DEF Late, Live
  <2>2. IsFiniteSet(Late) /\ IsFiniteSet(Forkers) /\ Forkers' = Forkers
    BY TasksAssumption, FS_Subset DEF Late, Forkers
  <2>3. Cardinality(Late') = Cardinality(Late) - 1
    BY <2>1, <2>2, FS_RemoveElement
  <2>4. Cardinality(Late) \in Nat /\ Cardinality(Forkers) \in Nat
    BY <2>2, FS_CardinalityType
  <2> QED BY <1>3, <1>6, <1>7, <2>2, <2>3, <2>4, BoundsAssumption DEF IInv, RoomOK
<1> QED BY <1>10, <1>11, <1>12, <1>13, <1>14, <1>15, <1>16, <1>17, <1>18 DEF IInv

\* Where a call ends, the CPU is in the function again.
LEMMA CallEnds ==
    ASSUME IInv, UNCHANGED <<state, stack_start, ctx, frames, ring, current, cpu, held, up>>,
           ticking' \in BOOLEAN, pc \in {"run", "enable"}, pc' = "run", Advance,
           at[cpu] \in DOMAIN Program[cpu],
           preempt_count' = [preempt_count EXCEPT ![current] = 0],
           \A t \in Tasks : Live(t) => ~Does(cpu, at[cpu], "join", t)
    PROVE  IInv'
<1>1. /\ pc \in Base \ {"link", "unlink"} /\ pc' \in Base \ {"link", "unlink"}
      /\ pc' \notin Locked /\ pc \notin ExitLabels /\ pc' \notin ForkLabels \cup ExitLabels
  BY DEF Base, ForkLabels, ExitLabels, Locked
<1>2. state[cpu] = "running" /\ ring \in Seq(Tasks)
  BY <1>1, InFunction DEF IInv, TypeOK
<1>3. /\ OwnersOK' /\ at' \in [Tasks -> Nat] /\ at'[cpu] \in 1 .. Len(Program[cpu]) + 1
      /\ \A t \in Tasks : t # cpu => at'[t] = at[t]
  BY <1>1, OwnersAdvance
<1>4. /\ TypeOK' /\ FramesOK' /\ StatesOK' /\ PreemptOK' /\ RingOK' /\ StacksOK'
      /\ \A t \in Tasks : IF t = cpu THEN Place(t) = pc /\ Place(t)' = pc'
                          ELSE Place(t)' = Place(t)
      /\ \A t \in Tasks : Live(t)' <=> Live(t)
  BY <1>1, <1>2, <1>3, FunctionMoves
<1>5. PlacesOK'
  BY <1>1, <1>3, <1>4, PlacesMove
<1>6. ring' # <<>> => RoomOK'
  <2>1. Len(ring') <= Len(ring) /\ ring' \in Seq(Tasks)
    BY <1>2
  <2> QED BY <1>4, <2>1, RoomStays
<1> QED BY <1>3, <1>4, <1>5, <1>6 DEF IInv

LEMMA ForkEnableInv ==
    ASSUME IInv, ForkEnable PROVE IInv'
<1>1. /\ pc = "enable" /\ pc \in Base /\ pc \in ForkLabels
  BY DEF ForkEnable, At, Base, ForkLabels
<1>2. Place(cpu) = pc /\ cpu \in Tasks
  BY <1>1, InFunction
<1>3. /\ at[cpu] \in DOMAIN Program[cpu] /\ Program[cpu][at[cpu]].op = "fork"
      /\ ticking \in BOOLEAN
  BY <1>1, <1>2 DEF IInv, PlacesOK, TypeOK
<1>4. \A t \in Tasks : ~Does(cpu, at[cpu], "join", t)
  BY <1>3 DEF Does
<1> QED BY <1>1, <1>3, <1>4, CallEnds DEF ForkEnable, SetPreempt

\* A function at its next call.
LEMMA AtRun ==
    ASSUME IInv, pc = "run"
    PROVE  /\ pc \in Base \ {"link", "enable", "unlink"} /\ pc \notin Locked
           /\ pc \notin ForkLabels \cup ExitLabels
           /\ cpu = current /\ cpu \in Tasks /\ state[cpu] = "running" /\ frames[cpu] = <<>>
           /\ preempt_count[current] = 0
           /\ preempt_count = [preempt_count EXCEPT ![current] = 0]
           /\ ring \in Seq(Tasks) /\ ticking \in BOOLEAN /\ at \in [Tasks -> Nat]
<1>1. /\ pc \in Base \ {"link", "enable", "unlink"} /\ pc \notin Locked
      /\ pc \notin ForkLabels \cup ExitLabels
  BY DEF Base, ForkLabels, ExitLabels, Locked
<1>2. cpu = current /\ cpu \in Tasks /\ state[cpu] = "running" /\ frames[cpu] = <<>>
  BY <1>1, InFunction
<1>3. preempt_count[current] = 0
  BY <1>1, <1>2 DEF IInv, PreemptOK
<1> QED BY <1>1, <1>2, <1>3 DEF IInv, TypeOK

LEMMA TimerInterruptInitInv ==
    ASSUME IInv, NEW t \in Tasks, TimerInterruptInit(t) PROVE IInv'
<1>1. /\ pc = "run" /\ pc' = "run" /\ cpu = t /\ at[cpu] \in DOMAIN Program[cpu]
      /\ Program[cpu][at[cpu]].op = "timer" /\ Advance /\ ticking' = TRUE
      /\ UNCHANGED <<state, preempt_count, stack_start, ctx, frames, ring, current, cpu, held, up>>
  BY DEF TimerInterruptInit, AtCall, At
<1>2. \A u \in Tasks : ~Does(cpu, at[cpu], "join", u)
  BY <1>1 DEF Does
<1>3. preempt_count' = [preempt_count EXCEPT ![current] = 0]
  BY <1>1, AtRun
<1> QED BY <1>1, <1>2, <1>3, CallEnds

\* A call that goes through schedule().
LEMMA CallsSchedule ==
    ASSUME IInv, UNCHANGED <<state, preempt_count, stack_start, ctx, ring, current, cpu, held,
                             ticking, up>>,
           pc = "run", CallSchedule(<<"run">>), OwnersOK', at' \in [Tasks -> Nat],
           at'[cpu] \in 1 .. Len(Program[cpu]) + 1,
           \A t \in Tasks : t # cpu => at'[t] = at[t]
    PROVE  IInv'
<1>1. "run" \in Breaks /\ {"sched"} \subseteq Labels /\ "sched" \notin Base /\ "sched" \notin Locked
  BY DEF Breaks, Labels, SchedLabels, Base, ForkLabels, ExitLabels, Locked
<1>2. Restacked(<<"run">>) /\ pc' = "sched"
  BY <1>1, AtRun, Called
<1>3. /\ frames' \in [Tasks -> Seq(Labels)] /\ \A t \in Tasks : Framed(frames'[t])
      /\ \A t \in Tasks : t # cpu => frames'[t] = frames[t]
      /\ frames'[cpu] # <<>> /\ frames'[cpu][Len(frames'[cpu])] = "run"
  BY <1>2, AtRun DEF Restacked
<1>4. preempt_count' = [preempt_count EXCEPT ![current] =
                          IF pc' \in Locked \/ state[current] = "zombie" THEN 1 ELSE 0]
  BY <1>1, <1>2, AtRun
<1>5. TypeOK' /\ FramesOK' /\ StatesOK' /\ PreemptOK' /\ RingOK' /\ StacksOK'
  <2>1. state[cpu] # "zombie" /\ pc' \in Labels \ {"switch", "link", "unlink"}
        /\ pc \notin {"switch", "link", "unlink"} /\ ticking' \in BOOLEAN
    BY <1>1, <1>2, AtRun
  <2> QED BY <1>1, <1>2, <1>3, <1>4, <2>1, ControlMoves
<1>6. \A t \in Tasks : IF t = cpu THEN Place(t)' = "run" ELSE Place(t)' = Place(t)
  BY <1>3, AtRun DEF Place
<1>7. PlacesOK'
  BY <1>6, AtRun, PlacesMove
<1>8. ring' # <<>> => RoomOK'
  <2>1. Len(ring') <= Len(ring) /\ ring' \in Seq(Tasks)
    BY AtRun
  <2> QED BY <1>6, <2>1, RoomStays DEF Live
<1> QED BY <1>5, <1>7, <1>8 DEF IInv

LEMMA YieldTaskInv ==
    ASSUME IInv, NEW t \in Tasks, YieldTask(t) PROVE IInv'
<1>1. /\ pc = "run" /\ cpu = t /\ at[cpu] \in DOMAIN Program[cpu]
      /\ Program[cpu][at[cpu]].op = "yield" /\ Advance /\ CallSchedule(<<"run">>)
      /\ UNCHANGED <<state, preempt_count, stack_start, ctx, ring, current, cpu, held, ticking, up>>
  BY DEF YieldTask, AtCall, At
<1>2. \A u \in Tasks : ~Does(cpu, at[cpu], "join", u)
  BY <1>1 DEF Does
<1>3. /\ OwnersOK' /\ at' \in [Tasks -> Nat] /\ at'[cpu] \in 1 .. Len(Program[cpu]) + 1
      /\ \A u \in Tasks : u # cpu => at'[u] = at[u]
  BY <1>1, <1>2, AtRun, OwnersAdvance
<1> QED BY <1>1, <1>3, CallsSchedule

LEMMA JoinTaskInv ==
    ASSUME IInv, NEW t \in Tasks, JoinTask(t) PROVE IInv'
<1>1. /\ pc = "run" /\ cpu = t /\ at[cpu] \in DOMAIN Program[cpu]
      /\ Program[cpu][at[cpu]].op = "join"
      /\ UNCHANGED <<state, preempt_count, stack_start, ctx, ring, current, cpu, held, ticking, up>>
  BY DEF JoinTask, AtCall, At
<1>2. CASE CallSchedule(<<"run">>) /\ UNCHANGED at
  <2>1. OwnersOK'
    BY <1>1, <1>2, AtRun, OwnersStay DEF Live
  <2>2. at[cpu] \in 1 .. Len(Program[cpu]) + 1
    BY <1>1, AtRun, InFunction
  <2> QED BY <1>1, <1>2, <2>1, <2>2, AtRun, CallsSchedule
<1>3. CASE Joinable(Operand) /\ Advance /\ UNCHANGED <<frames, pc>>
  <2>1. ASSUME NEW u \in Tasks, Live(u) PROVE ~Does(cpu, at[cpu], "join", u)
    BY <1>3, <2>1 DEF Does, Joinable, Operand, Live
  <2>2. preempt_count' = [preempt_count EXCEPT ![current] = 0]
    BY <1>1, AtRun
  <2>3. ticking' \in BOOLEAN
    BY <1>1, AtRun
  <2> QED BY <1>1, <1>3, <2>1, <2>2, <2>3, CallEnds
<1> QED BY <1>2, <1>3 DEF JoinTask

LEMMA FunctionReturnsInv ==
    ASSUME IInv, NEW t \in Tasks, FunctionReturns(t) PROVE IInv'
<1>1. /\ pc = "run" /\ pc' = "exit" /\ cpu = t /\ t \notin Endless /\ at[t] \notin DOMAIN Program[t]
      /\ UNCHANGED <<state, preempt_count, stack_start, ctx, frames, at, ring, current, cpu, held,
                     ticking, up>>
  BY DEF FunctionReturns, At, taskVars
<1>2. pc' \in Base \ {"link", "unlink"} /\ pc' \notin Locked /\ pc' \notin ForkLabels
  BY <1>1 DEF Base, ForkLabels, ExitLabels, Locked
<1>3. /\ TypeOK' /\ FramesOK' /\ StatesOK' /\ PreemptOK' /\ RingOK' /\ StacksOK'
      /\ \A u \in Tasks : IF u = cpu THEN Place(u) = pc /\ Place(u)' = pc'
                          ELSE Place(u)' = Place(u)
      /\ \A u \in Tasks : Live(u)' <=> Live(u)
  BY <1>1, <1>2, AtRun, FunctionMoves
<1>4. at[t] = Len(Program[t]) + 1
  BY <1>1, AtRun, InFunction, TaskFacts
<1>5. PlacesOK'
  <2> SUFFICES ASSUME NEW u \in Tasks
               PROVE  /\ at[u] \in 1 .. Len(Program[u]) + 1
                      /\ Place(u)' \in ForkLabels =>
                           ring # <<>> /\ at[u] \in DOMAIN Program[u]
                           /\ Program[u][at[u]].op = "fork"
                      /\ Place(u)' \in ExitLabels => u \notin Endless /\ at[u] = Len(Program[u]) + 1
    BY <1>1 DEF PlacesOK
  <2>1. CASE u = cpu
    BY <1>1, <1>2, <1>3, <1>4, <2>1, AtRun, InFunction
  <2>2. CASE u # cpu
    BY <1>3, <2>2 DEF IInv, PlacesOK
  <2> QED BY <2>1, <2>2
<1>6. OwnersOK'
  BY <1>1, <1>3, OwnersStay
<1>7. ring' # <<>> => RoomOK'
  <2>1. Len(ring') <= Len(ring) /\ ring' \in Seq(Tasks)
    BY <1>1, AtRun
  <2> QED BY <1>1, <1>2, <1>3, <2>1, RoomStays DEF ForkLabels
<1> QED BY <1>3, <1>5, <1>6, <1>7 DEF IInv

--------------------------------------------------------------------------------
(* exit_task(). *)

LEMMA ExitFreeInv ==
    ASSUME ForksAreJoined, IInv, ExitFree PROVE IInv'
<1>1. pc = "zombie" /\ pc \in Base /\ pc \in ExitLabels /\ pc \notin ForkLabels /\ pc \in Locked
  BY DEF ExitFree, At, Base, ForkLabels, ExitLabels, Locked
<1>2. /\ cpu = current /\ cpu \in Tasks /\ frames[cpu] = <<>> /\ Place(cpu) = pc /\ TypeOK
      /\ state[cpu] \in {"running", "zombie"}
  BY <1>1, InFunction DEF IInv, StatesOK
<1>3. /\ cpu \notin Endless /\ cpu # Main /\ at[cpu] = Len(Program[cpu]) + 1
  BY <1>1, <1>2, TaskFacts DEF IInv, PlacesOK
<1>4. CASE Panic
  BY <1>4, PanicInv
<1>5. ASSUME stack_start[current] \in held,
             state' = [state EXCEPT ![current] = "zombie"],
             held' = held \ {stack_start[current]},
             pc' = "unlink",
             UNCHANGED <<preempt_count, stack_start, ctx, frames, at, ring, current, cpu, ticking,
                         up>>
      PROVE  IInv'
  <2>1. state[cpu] = "running" /\ Live(cpu)
    BY <1>2, <1>5 DEF IInv, StacksOK, Live
  <2>2. ring # <<>>
    BY <1>2, <1>3, <2>1 DEF IInv, RingOK
  <2>3. /\ state' \in [Tasks -> {"unused", "ready", "running", "zombie"}] /\ state'[cpu] = "zombie"
        /\ \A t \in Tasks \ {cpu} : state'[t] = state[t]
    BY <1>2, <1>5 DEF TypeOK
  <2>4. \A t \in Tasks : Live(t)' <=> Live(t) /\ t # cpu
    BY <2>3 DEF Live
  <2>5. /\ pc' \in Labels /\ pc' \in Base /\ pc' \in ExitLabels /\ pc' \notin ForkLabels
        /\ pc' \in Locked
    BY <1>5 DEF Labels, Base, ForkLabels, ExitLabels, Locked
  <2>6. \A t \in Tasks : IF t = cpu THEN Place(t)' = pc' ELSE Place(t)' = Place(t)
    BY <1>2, <1>5 DEF Place
  <2>7. TypeOK'
    BY <1>2, <1>5, <2>3, <2>5 DEF TypeOK
  <2>8. FramesOK'
    BY <1>2, <1>5, <2>5 DEF IInv, FramesOK
  <2>9. PlacesOK'
    BY <1>1, <1>2, <1>5, <2>2, <2>5, <2>6, PlacesMove
  <2>10. StatesOK'
    <3>1. Live(Main)'
      BY <1>3, <2>4, TaskFacts DEF IInv, StatesOK
    <3>2. \A t \in Tasks \ {current} : state'[t] # "running"
      BY <1>2, <2>3 DEF IInv, StatesOK
    <3> QED BY <1>2, <1>5, <2>3, <2>5, <3>1, <3>2 DEF StatesOK
  <2>11. PreemptOK'
    <3>1. preempt_count[current] = 1
      BY <1>1, <1>2 DEF IInv, PreemptOK
    <3> QED BY <1>2, <1>5, <2>4, <2>5, <3>1 DEF IInv, PreemptOK
  <2>12. RingOK'
    <3>1. \A t \in Tasks : InRing(t) <=> Live(t)
      BY <1>1, <2>2 DEF IInv, RingOK
    <3>2. \A t \in Tasks : InRing(t)' <=> Live(t)
      BY <1>5, <3>1 DEF InRing
    <3>3. \A t \in Tasks : InRing(t)' <=> Live(t)' \/ t = current
      BY <1>2, <2>1, <2>4, <3>2
    <3>4. Once(ring) /\ Head(ring) = current
      BY <1>1, <1>2, <2>1, <2>2 DEF IInv, RingOK
    <3> QED BY <1>5, <2>2, <3>3, <3>4 DEF RingOK
  <2>13. OwnersOK'
    <3> SUFFICES ASSUME NEW t \in Tasks \ {Main}, Live(t)'
                 PROVE  \E u \in Tasks : Live(u)' /\ Outstanding(u, t, at[u])
      BY <1>5 DEF OwnersOK
    <3>1. PICK u \in Tasks : Live(u) /\ Outstanding(u, t, at[u])
      BY <1>1, <2>4 DEF IInv, OwnersOK
    <3>2. u # cpu
      BY <1>2, <1>3, <3>1 DEF ForksAreJoined
    <3> QED BY <2>4, <3>1, <3>2
  <2>14. StacksOK'
    <3>1. \A t \in Tasks \ {Main} : Live(t)' => stack_start[t] # stack_start[cpu]
      BY <1>2, <1>3, <2>1, <2>4 DEF IInv, StacksOK
    <3> QED BY <1>2, <1>5, <2>4, <3>1 DEF IInv, StacksOK
  <2>15. RoomOK'
    <3>1. Len(ring') <= Len(ring) /\ ring' \in Seq(Tasks)
      BY <1>2, <1>5 DEF TypeOK
    <3> QED BY <2>2, <2>4, <2>6, <3>1, RoomStays
  <2> QED BY <2>7, <2>8, <2>9, <2>10, <2>11, <2>12, <2>13, <2>14, <2>15 DEF IInv
<1> QED BY <1>4, <1>5 DEF ExitFree

LEMMA ExitUnlinkInv ==
    ASSUME IInv, ExitUnlink PROVE IInv'
<1>1. /\ pc = "unlink" /\ pc \in Base /\ pc \in ExitLabels /\ pc \in Locked
      /\ ring' = Tail(ring) /\ CallSchedule(<<"exit">>) /\ "exit" \in Breaks
      /\ UNCHANGED <<state, preempt_count, stack_start, ctx, at, current, cpu, held, ticking, up>>
  BY DEF ExitUnlink, At, Base, ForkLabels, ExitLabels, Locked, RemoveEntry, Breaks
<1>2. /\ cpu = current /\ cpu \in Tasks /\ Place(cpu) = pc /\ TypeOK /\ frames[cpu] = <<>>
  BY <1>1, InFunction DEF IInv
<1>3. state[cpu] = "zombie" /\ preempt_count[current] = 1
  BY <1>1, <1>2 DEF IInv, StatesOK, PreemptOK
<1>4. cpu # Main /\ Live(Main)
  BY <1>3 DEF IInv, StatesOK, Live
<1>5. ring # <<>> /\ Head(ring) = cpu /\ Once(ring)
  BY <1>1, <1>2, <1>3, <1>4 DEF IInv, RingOK
<1>6. Restacked(<<"exit">>) /\ pc' = "sched"
  BY <1>1, Called
<1>7. /\ frames' \in [Tasks -> Seq(Labels)] /\ \A t \in Tasks : Framed(frames'[t])
      /\ \A t \in Tasks : t # cpu => frames'[t] = frames[t]
      /\ frames'[cpu] = <<"exit">> /\ frames'[cpu] # <<>>
      /\ frames'[cpu][Len(frames'[cpu])] = "exit"
  BY <1>2, <1>6 DEF Restacked
<1>8. /\ ring' \in Seq(Tasks) /\ Once(ring') /\ Len(ring') < Len(ring)
      /\ \A t : (\E i \in DOMAIN ring' : ring'[i] = t)
                  <=> t # cpu /\ \E i \in DOMAIN ring : ring[i] = t
  <2>1. ring \in Seq(Tasks)
    BY <1>2 DEF TypeOK
  <2>2. LET r == Tail(ring)
        IN  /\ r \in Seq(Tasks) /\ Once(r) /\ Len(r) < Len(ring)
            /\ \A t : (\E i \in DOMAIN r : r[i] = t)
                        <=> t # Head(ring) /\ \E i \in DOMAIN ring : ring[i] = t
    BY <1>5, <2>1, Remove
  <2> QED BY <1>1, <1>5, <2>2
<1>9. \A t \in Tasks : Live(t)' <=> Live(t)
  BY <1>1 DEF Live
<1>10. \A t \in Tasks : IF t = cpu THEN Place(t)' = "exit" ELSE Place(t)' = Place(t)
  BY <1>1, <1>7 DEF Place
<1>11. "sched" \in Labels /\ "sched" \notin Base /\ "exit" \in ExitLabels
  BY DEF Labels, SchedLabels, Base, ForkLabels, ExitLabels
<1>12. TypeOK'
  BY <1>1, <1>2, <1>6, <1>7, <1>8, <1>11 DEF TypeOK
<1>13. FramesOK'
  BY <1>1, <1>6, <1>7, <1>11 DEF FramesOK
<1>14. \A t \in Tasks : InRing(t)' <=> Live(t)'
  <2>1. \A t \in Tasks : InRing(t) <=> Live(t) \/ t = cpu
    BY <1>1, <1>2, <1>5 DEF IInv, RingOK
  <2>2. ~Live(cpu)
    BY <1>3 DEF Live
  <2> QED BY <1>8, <1>9, <2>1, <2>2 DEF InRing
<1>15. ring' # <<>>
  BY <1>4, <1>9, <1>14, TaskFacts DEF InRing
<1>16. PlacesOK'
  BY <1>1, <1>2, <1>10, <1>11, <1>15, PlacesMove
<1>17. StatesOK'
  BY <1>1, <1>2, <1>3, <1>4, <1>6, <1>7, <1>9, TaskFacts DEF IInv, StatesOK
<1>18. PreemptOK'
  <2>1. \A t \in Tasks : t # cpu => frames'[t] = frames[t]
    BY <1>7
  <2> QED BY <1>1, <1>2, <1>3, <1>6, <1>9, <2>1 DEF IInv, PreemptOK
<1>19. RingOK'
  BY <1>1, <1>2, <1>3, <1>6, <1>8, <1>14, <1>15 DEF RingOK
<1>20. OwnersOK'
  BY <1>1, <1>9, OwnersStay
<1>21. StacksOK'
  BY <1>1, <1>9 DEF IInv, StacksOK
<1>22. RoomOK'
  <2>1. Len(ring') <= Len(ring)
    BY <1>2, <1>8 DEF TypeOK
  <2> QED BY <1>5, <1>8, <1>9, <1>10, <2>1, RoomStays
<1> QED BY <1>12, <1>13, <1>16, <1>17, <1>18, <1>19, <1>20, <1>21, <1>22 DEF IInv

--------------------------------------------------------------------------------
(* The theorems. *)

LEMMA InitInv == Init => IInv
<1> SUFFICES ASSUME Init PROVE IInv
  OBVIOUS
<1>1. /\ Main \in Tasks /\ cpu = Main /\ current = Main /\ pc = "run" /\ ring = <<>>
      /\ \A t \in Tasks : /\ state[t] = IF t = Main THEN "running" ELSE "unused"
                          /\ frames[t] = <<>> /\ at[t] = 1 /\ preempt_count[t] = 0
  BY TaskFacts DEF Init
<1>2. pc \in Labels /\ pc \in Base /\ pc \notin ForkLabels \cup ExitLabels /\ pc \notin Locked
      /\ "start" \notin ForkLabels \cup ExitLabels
  BY <1>1 DEF Labels, Base, ForkLabels, ExitLabels, Locked
<1>3. TypeOK
  <2>1. <<>> \in Seq(Labels) /\ <<>> \in Seq(Tasks) /\ NULL \in Stacks \cup {NULL}
        /\ 1 \in Nat /\ 0 \in 0 .. 1
    OBVIOUS
  <2>2. state \in [Tasks -> {"unused", "ready", "running", "zombie"}]
    BY DEF Init
  <2>3. frames \in [Tasks -> Seq(Labels)]
    <3> DEFINE S == Seq(Labels)
    <3>1. <<>> \in S
      BY <2>1
    <3> HIDE DEF S
    <3> QED BY <3>1 DEF Init, S
  <2>4. /\ preempt_count \in [Tasks -> 0 .. 1] /\ at \in [Tasks -> Nat]
        /\ stack_start \in [Tasks -> Stacks \cup {NULL}]
        /\ ctx \in [Tasks -> {"none", "fork", "resume"}]
    BY <2>1 DEF Init
  <2>5. held \subseteq Stacks /\ ticking \in BOOLEAN /\ up \in BOOLEAN
    BY DEF Init
  <2> QED BY <1>1, <1>2, <2>1, <2>2, <2>3, <2>4, <2>5 DEF TypeOK
<1>4. FramesOK
  BY <1>1, <1>2 DEF FramesOK, Framed
<1>5. PlacesOK
  BY <1>1, <1>2, TaskFacts DEF PlacesOK, Place
<1>6. StatesOK /\ PreemptOK
  BY <1>1, <1>2 DEF StatesOK, PreemptOK, Live
<1>7. RingOK
  BY <1>1 DEF RingOK, Once
<1>8. OwnersOK /\ StacksOK
  BY <1>1 DEF OwnersOK, StacksOK, Live
<1> QED BY <1>1, <1>3, <1>4, <1>5, <1>6, <1>7, <1>8 DEF IInv

LEMMA StutterInv ==
    ASSUME IInv, UNCHANGED vars PROVE IInv'
<1>1. /\ UNCHANGED <<state, preempt_count, stack_start, ctx, frames, at, ring, current, cpu,
                     pc, held, ticking>> /\ up' = up
  BY DEF vars, taskVars
<1>2. TypeOK' /\ FramesOK' /\ StatesOK' /\ PreemptOK'
  BY <1>1 DEF IInv, TypeOK, FramesOK, StatesOK, PreemptOK, Live
<1>3. PlacesOK'
  BY <1>1 DEF IInv, PlacesOK, Place
<1>4. RingOK' /\ StacksOK'
  BY <1>1 DEF IInv, RingOK, StacksOK, Live, InRing, Operand
<1>5. OwnersOK'
  BY <1>1 DEF IInv, OwnersOK, Live
<1>6. ring' # <<>> => RoomOK'
  BY <1>1 DEF IInv, RoomOK, Late, Live, Place, Forkers
<1> QED BY <1>2, <1>3, <1>4, <1>5, <1>6 DEF IInv

LEMMA NextInv ==
    ASSUME ForksAreJoined, IInv, [Next]_vars PROVE IInv'
<1>1. ASSUME NEW t \in Tasks, FunctionStep(t) PROVE IInv'
  BY <1>1, ThreadInitInv, ForkTaskInv, JoinTaskInv, YieldTaskInv, TimerInterruptInitInv,
     FunctionReturnsInv DEF FunctionStep
<1>2. ASSUME CpuStep PROVE IInv'
  BY <1>1, <1>2, TickReturnInv, ScheduleInv, PreemptDisableInv, ScanInv, ContextSwitchInv,
     ScheduleReturnInv, RetFromForkInv, ForkDisableInv, ForkStackInv, ForkLinkInv, ForkEnableInv,
     ExitTaskInv, ExitFreeInv, ExitUnlinkInv DEF CpuStep
<1> QED BY <1>2, TickInv, StutterInv DEF Next

\* Through every tick and every call, IInv holds: what the stacks, the list, the
\* heap and the programs have to do with each other.
THEOREM Invariance ==
    ASSUME ForksAreJoined
    PROVE  Spec => []IInv
<1>1. Init => IInv
  BY InitInv
<1>2. IInv /\ [Next]_vars => IInv'
  BY NextInv
<1> QED BY <1>1, <1>2, PTL DEF Spec

\* Wherever a tick can strike, the list has every live task once and the running one
\* at its entry, and it is never longer than NR_TASKS and one task more for each
\* further function that forks.
THEOREM TheList ==
    ASSUME ForksAreJoined
    PROVE  Spec => []ListIsRight
<1>1. ASSUME IInv PROVE EntryIsCurrent
  <2> SUFFICES ASSUME Preemptible, ring # <<>>
               PROVE  /\ Head(ring) = current /\ current = cpu
                      /\ \A t \in Tasks : Count(t) = IF Live(t) THEN 1 ELSE 0
    BY DEF EntryIsCurrent
  <2>1. cpu = current /\ state[cpu] = "running" /\ pc \notin {"link", "unlink"}
    BY <1>1, WhereTicksCome DEF Breaks, Handlers
  <2>2. Head(ring) = current /\ Once(ring) /\ \A t \in Tasks : InRing(t) <=> Live(t)
    BY <1>1, <2>1 DEF IInv, RingOK
  <2>3. ASSUME NEW t \in Tasks PROVE Count(t) = IF Live(t) THEN 1 ELSE 0
    <3> DEFINE S == {i \in DOMAIN ring : ring[i] = t}
    <3>1. CASE Live(t)
      <4>1. PICK i \in DOMAIN ring : ring[i] = t
        BY <2>2, <3>1 DEF InRing
      <4>2. S = {i}
        BY <2>2, <4>1 DEF Once
      <4> QED BY <3>1, <4>2, FS_Singleton DEF Count
    <3>2. CASE ~Live(t)
      <4>1. S = {}
        BY <2>2, <3>2 DEF InRing
      <4> QED BY <3>2, <4>1, FS_EmptySet DEF Count
    <3> QED BY <3>1, <3>2
  <2> QED BY <2>1, <2>2, <2>3
<1>2. ASSUME IInv PROVE LimitOvershoot
  <2>1. IsFiniteSet(Late) /\ IsFiniteSet(Forkers)
    BY TasksAssumption, FS_Subset DEF Late, Forkers
  <2>2. Cardinality(Late) \in Nat /\ Cardinality(Forkers) \in Nat /\ Len(ring) \in Nat
    BY <1>2, <2>1, FS_CardinalityType DEF IInv, TypeOK
  <2>3. CASE ring = <<>>
    BY <2>2, <2>3, EmptySeq, BoundsAssumption DEF LimitOvershoot
  <2>4. CASE ring # <<>>
    BY <1>2, <2>2, <2>4, BoundsAssumption DEF IInv, RoomOK, LimitOvershoot
  <2> QED BY <2>3, <2>4
<1>3. IInv => ListIsRight
  BY <1>1, <1>2 DEF ListIsRight, IInv
<1> QED BY <1>3, Invariance, PTL

\* No tick comes between a switch and the first step of the task it switched to.
THEOREM SavedContexts ==
    ASSUME ForksAreJoined
    PROVE  Spec => []ReadyIsResumable
<1>1. IInv => ReadyIsResumable
  BY DEF IInv, PreemptOK, ReadyIsResumable, Live
<1> QED BY <1>1, Invariance, PTL

\* A dying task may free the stack it runs on: until it has left the CPU no other
\* task gets the block.
THEOREM OwnStacks ==
    ASSUME ForksAreJoined
    PROVE  Spec => []StacksAreOwn
<1>1. ASSUME IInv PROVE StacksAreOwn
  <2> SUFFICES ASSUME NEW t \in Tasks \ {Main}, NEW u \in Tasks \ {Main}
               PROVE  /\ Live(t) => stack_start[t] \in held
                      /\ Live(t) /\ (Live(u) \/ u = cpu) /\ t # u
                           => stack_start[t] # stack_start[u]
    BY DEF StacksAreOwn
  <2>1. state[cpu] \in {"ready", "running", "zombie"}
    BY <1>1 DEF IInv, StatesOK
  <2>2. u = cpu => Live(u) \/ stack_start[u] \notin held
    BY <1>1, <2>1 DEF IInv, StacksOK, Live
  <2> QED BY <1>1, <2>2 DEF IInv, StacksOK
<1>2. IInv => StacksAreOwn
  BY <1>1
<1> QED BY <1>2, Invariance, PTL

\* join_task() returns when the task it names is over and off the list.
THEOREM JoinsAreSound ==
    ASSUME ForksAreJoined
    PROVE  Spec => JoinSound
<1> DEFINE A == \A t \in Tasks : AtCall(t, "join") /\ at'[t] > at[t] =>
                   state[Operand] = "zombie" /\ ~InRing(Operand)
<1>1. ASSUME IInv, [Next]_vars PROVE A
  <2> SUFFICES ASSUME NEW t \in Tasks, AtCall(t, "join"), at'[t] > at[t]
               PROVE  state[Operand] = "zombie" /\ ~InRing(Operand)
    OBVIOUS
  <2>1. /\ pc = "run" /\ cpu = t /\ at[t] \in DOMAIN Program[t] /\ Program[t][at[t]].op = "join"
        /\ at[t] \in Nat /\ ~(at[t] > at[t])
    BY <1>1 DEF AtCall, At, IInv, TypeOK
  <2>2. at' # at
    BY <2>1
  <2>3. JoinTask(t)
    <3>1. CpuStep
      BY <1>1, <2>2 DEF Next, Tick, vars, taskVars
    <3>2. PICK u \in Tasks : FunctionStep(u)
      BY <2>1, <3>1 DEF CpuStep, TickReturn, Schedule, PreemptDisable, Scan, ContextSwitch,
            ScheduleReturn, RetFromFork, ForkDisable, ForkStack, ForkLink, ForkEnable,
            ExitTask, ExitFree, ExitUnlink, At
    <3>3. u = t
      BY <2>1, <3>2 DEF FunctionStep, ThreadInit, ForkTask, JoinTask, YieldTask,
            TimerInterruptInit, FunctionReturns, AtCall
    <3> QED BY <2>1, <3>2, <3>3 DEF FunctionStep, ThreadInit, ForkTask, YieldTask,
            TimerInterruptInit, FunctionReturns, AtCall
  <2>4. state[Operand] = "zombie"
    BY <2>2, <2>3 DEF JoinTask, Joinable
  <2>5. Operand \in Tasks
    BY <1>1, <2>1, TaskFacts DEF Operand
  <2>6. ~InRing(Operand)
    <3>1. CASE ring = <<>>
      BY <3>1 DEF InRing
    <3>2. CASE ring # <<>>
      BY <1>1, <2>1, <2>4, <2>5, <3>2 DEF IInv, RingOK, Live
    <3> QED BY <3>1, <3>2
  <2> QED BY <2>4, <2>6
<1>2. IInv /\ [Next]_vars => [A]_vars
  BY <1>1
<1> QED BY <1>2, Invariance, PTL DEF Spec, JoinSound

\* exit_task() goes on behind its schedule() only in the last task but main.
THEOREM OnlyTheLastReturns ==
    ASSUME ForksAreJoined
    PROVE  Spec => [](~ExitNeverReturns => ring = <<Main>>)
<1>1. IInv => (~ExitNeverReturns => ring = <<Main>>)
  BY DEF IInv, StatesOK, ExitNeverReturns
<1> QED BY <1>1, Invariance, PTL

\* As long as exit_task() never goes on behind its schedule(), the board reboots only
\* for want of room or memory: kfree() never meets a stack that is free already.
THEOREM Reboots ==
    ASSUME ForksAreJoined
    PROVE  Spec => ([]ExitNeverReturns => PanicsForAReason)
<1> DEFINE A == up /\ ~up' => \/ pc = "run" /\ Len(ring) >= NR_TASKS
                              \/ pc = "stack" /\ held = Stacks
<1>1. ASSUME IInv, ExitNeverReturns, [Next]_vars PROVE A
  <2> SUFFICES ASSUME up, ~up'
               PROVE  \/ pc = "run" /\ Len(ring) >= NR_TASKS
                      \/ pc = "stack" /\ held = Stacks
    OBVIOUS
  <2>1. up' # up
    OBVIOUS
  <2>2. CpuStep
    BY <1>1, <2>1 DEF Next, Tick, vars
  <2>3. \/ \E t \in Tasks : ForkTask(t)
        \/ ForkStack
        \/ ExitFree
    BY <2>1, <2>2 DEF CpuStep, TickReturn, Schedule, PreemptDisable, Scan, ContextSwitch,
          ScheduleReturn, RetFromFork, ForkDisable, ForkLink, ForkEnable, ExitTask, ExitUnlink,
          FunctionStep, ThreadInit, JoinTask, YieldTask, TimerInterruptInit, FunctionReturns,
          taskVars
  <2>4. ASSUME NEW t \in Tasks, ForkTask(t) PROVE pc = "run" /\ Len(ring) >= NR_TASKS
    BY <2>1, <2>4 DEF ForkTask, AtCall, At, Full
  <2>5. ASSUME ForkStack PROVE pc = "stack" /\ held = Stacks
    BY <2>1, <2>5 DEF ForkStack, At
  <2>6. ASSUME ExitFree PROVE FALSE
    <3>1. pc = "zombie" /\ stack_start[current] \notin held
      BY <2>1, <2>6 DEF ExitFree, At
    <3>2. pc \in Base /\ pc \in ExitLabels
      BY <3>1 DEF Base, ExitLabels
    <3>3. cpu = current /\ cpu \in Tasks /\ Place(cpu) = pc /\ state[cpu] \in {"running", "zombie"}
      BY <1>1, <3>2, InFunction DEF IInv, StatesOK
    <3>4. cpu # Main
      BY <1>1, <3>2, <3>3, TaskFacts DEF IInv, PlacesOK
    <3>5. state[cpu] = "zombie"
      BY <1>1, <3>1, <3>3, <3>4 DEF IInv, StacksOK, Live
    <3> QED BY <1>1, <3>1, <3>5 DEF ExitNeverReturns
  <2> QED BY <2>3, <2>4, <2>5, <2>6
<1>2. IInv /\ ExitNeverReturns /\ [Next]_vars => [A]_vars
  BY <1>1
<1> QED BY <1>2, Invariance, PTL DEF Spec, PanicsForAReason
================================================================================
