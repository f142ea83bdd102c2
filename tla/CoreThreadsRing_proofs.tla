------------------------ MODULE CoreThreadsRing_proofs ------------------------
(* Theorems about the circular lists and the rounds of CoreThreads, and the     *)
(* proof that it implements the pool of jobs: every step of it is a step of     *)
(* TaskPool, or changes neither job nor phase.                                  *)
EXTENDS CoreThreadsRing, CoreThreadsPool, CoreThreads_proofs, FiniteSetTheorems

USE DEF TASK_ZOMBIE, TASK_READY, TASK_RUNNING

--------------------------------------------------------------------------------
(* Rings. *)

\* What the links of other tasks are does not matter.
LEMMA RingElsewhere ==
    ASSUME NEW L, NEW n, NEW b, NEW n2, NEW b2, IsRing(L, n, b),
           \A t \in L : n2[t] = n[t] /\ b2[t] = b[t]
    PROVE  IsRing(L, n2, b2)
BY DEF IsRing

\* Main and the first task of its core.
LEMMA RingPair ==
    ASSUME NEW p, p # Main, NEW n, NEW b,
           n[Main] = p, n[p] = Main, b[Main] = p, b[p] = Main
    PROVE  IsRing({Main, p}, n, b)
<1>1. ASSUME NEW S \in SUBSET {Main, p}, Main \in S, \A t \in S : n[t] \in S
      PROVE  S = {Main, p}
  BY <1>1
<1> QED BY <1>1 DEF IsRing

\* p comes between u and the task behind it.
LEMMA RingInsert ==
    ASSUME NEW L, NEW n, NEW b, IsRing(L, n, b),
           NEW u \in L, NEW p, p \notin L, NEW n2, NEW b2,
           n2[u] = p, n2[p] = n[u], \A t \in L \ {u} : n2[t] = n[t],
           b2[n[u]] = p, b2[p] = u, \A t \in L \ {n[u]} : b2[t] = b[t]
    PROVE  IsRing(L \cup {p}, n2, b2)
<1>1. /\ Main \in L /\ p # Main
      /\ \A t \in L : n[t] \in L /\ b[t] \in L /\ b[n[t]] = t /\ n[b[t]] = t
  BY DEF IsRing
<1>2. ASSUME NEW t \in L \cup {p}
      PROVE  /\ n2[t] \in L \cup {p} /\ b2[t] \in L \cup {p}
             /\ b2[n2[t]] = t /\ n2[b2[t]] = t
  BY <1>1, <1>2
<1>3. ASSUME NEW S \in SUBSET (L \cup {p}), Main \in S, \A t \in S : n2[t] \in S
      PROVE  S = L \cup {p}
  <2> DEFINE T == S \ {p}
  <2>1. T \in SUBSET L /\ Main \in T
    BY <1>1, <1>3
  <2>2. ASSUME NEW t \in T PROVE n[t] \in T
    BY <1>1, <1>3, <2>1, <2>2
  <2>3. T = L
    BY <2>1, <2>2 DEF IsRing
  <2> QED BY <1>3, <2>3
<1> QED BY <1>1, <1>2, <1>3 DEF IsRing

\* A task other than main has two neighbours other than itself.
LEMMA RingNeighbours ==
    ASSUME NEW L, NEW n, NEW b, IsRing(L, n, b), NEW u \in L, u # Main
    PROVE  n[u] \in L \ {u} /\ b[u] \in L \ {u}
<1>1. /\ Main \in L
      /\ \A t \in L : n[t] \in L /\ b[t] \in L /\ b[n[t]] = t /\ n[b[t]] = t
  BY DEF IsRing
<1>2. ASSUME n[u] = u PROVE FALSE
  <2> DEFINE S == L \ {u}
  <2>1. S \in SUBSET L /\ Main \in S /\ S # L
    BY <1>1
  <2>2. ASSUME NEW t \in S PROVE n[t] \in S
    BY <1>1, <1>2, <2>2
  <2> QED BY <2>1, <2>2 DEF IsRing
<1> QED BY <1>1, <1>2

\* u leaves.
LEMMA RingRemove ==
    ASSUME NEW L, NEW n, NEW b, IsRing(L, n, b),
           NEW u \in L, u # Main, NEW n2, NEW b2,
           n2[b[u]] = n[u], \A t \in L \ {b[u]} : n2[t] = n[t],
           b2[n[u]] = b[u], \A t \in L \ {n[u], u} : b2[t] = b[t]
    PROVE  IsRing(L \ {u}, n2, b2)
<1>1. /\ Main \in L
      /\ \A t \in L : n[t] \in L /\ b[t] \in L /\ b[n[t]] = t /\ n[b[t]] = t
      /\ n[u] # u /\ b[u] # u
  BY RingNeighbours DEF IsRing
<1>2. ASSUME NEW t \in L \ {u}
      PROVE  /\ n2[t] \in L \ {u} /\ b2[t] \in L \ {u}
             /\ b2[n2[t]] = t /\ n2[b2[t]] = t
  BY <1>1, <1>2
<1>3. ASSUME NEW S \in SUBSET (L \ {u}), Main \in S, \A t \in S : n2[t] \in S
      PROVE  S = L \ {u}
  <2>1. CASE b[u] \in S
    <3> DEFINE T == S \cup {u}
    <3>1. T \in SUBSET L /\ Main \in T
      BY <1>3
    <3>2. ASSUME NEW t \in T PROVE n[t] \in T
      BY <1>1, <1>3, <2>1, <3>2
    <3>3. T = L
      BY <3>1, <3>2 DEF IsRing
    <3> QED BY <1>3, <3>3
  <2>2. CASE b[u] \notin S
    <3>1. S \in SUBSET L
      BY <1>3
    <3>2. ASSUME NEW t \in S PROVE n[t] \in S
      BY <1>1, <1>3, <2>2, <3>2
    <3>3. S = L
      BY <1>3, <3>1, <3>2 DEF IsRing
    <3> QED BY <1>1, <2>2, <3>3
  <2> QED BY <2>1, <2>2
<1> QED BY <1>1, <1>2, <1>3 DEF IsRing

\* Whoever follows next from main meets the ring.
LEMMA RingIsLinked ==
    ASSUME NEW c \in Cores, NEW L \in SUBSET Tasks, NEW b, IsRing(L, next[c], b)
    PROVE  Ring(c) = L
<1>1. Main \in L /\ \A t \in L : next[c][t] \in L
  BY DEF IsRing
<1>2. Ring(c) \subseteq L
  BY <1>1 DEF Ring
<1>3. ASSUME NEW t \in L, NEW S \in SUBSET Tasks, Main \in S,
             \A u \in S : next[c][u] \in S \cup {NULL}
      PROVE  t \in S
  <2> DEFINE T == S \cap L
  <2>1. T \in SUBSET L /\ Main \in T
    BY <1>1, <1>3
  <2>2. ASSUME NEW u \in T PROVE next[c][u] \in T
    BY <1>1, <1>3, <2>2, TaskFacts
  <2>3. T = L
    BY <2>1, <2>2 DEF IsRing
  <2> QED BY <2>3
<1> QED BY <1>2, <1>3 DEF Ring

--------------------------------------------------------------------------------
(* The circular list of a core. *)

\* fork_task() is not between its steps on core c.
NoFork(c) == ~Forking(c, "link") /\ ~Forking(c, "link2") /\ ~Forking(c, "count")

\* A core's own steps come when nobody forks for it, unless it is early.
LEMMA OwnNoFork ==
    ASSUME IInv, NEW c \in Cores \ early, Step(c) \/ Tick(c) \/ ExitTask(c)
    PROVE  NoFork(c) /\ NoFork(c)'
<1>1. UNCHANGED target /\ \A d \in Cores \ {c} : pc'[d] = pc[d]
  BY OwnStep DEF RowUnchanged
<1>2. CASE c = CORE0
  <2>1. pc[CORE0] \notin ForkLabels /\ pc'[CORE0] \notin ForkLabels
    BY <1>2, ForkingAlone, OwnStep
  <2> QED BY <2>1 DEF NoFork, Forking, ForkLabels
<1>3. CASE c # CORE0
  <2>1. ASSUME ~NoFork(c) PROVE FALSE
    <3>1. Forked(c)
      BY <2>1 DEF NoFork, Forking, IInv, TodoFits
    <3>2. Asleep(c)
      BY <1>3, <3>1 DEF IInv, OthersSleep
    <3> QED BY <3>2, SleepingAlone
  <2>2. pc'[CORE0] = pc[CORE0]
    BY <1>1, <1>3, CoresAssumption
  <2> QED BY <1>1, <2>1, <2>2 DEF NoFork, Forking
<1> QED BY <1>2, <1>3

\* The task that runs is in the list, unless it has just left.
LEMMA CurrentLinked ==
    ASSUME NEW c \in Cores, RingInv(c), current[c] # NULL,
           pc[c] \notin {"sched", "scan"} \/ preempt_count[c][current[c]] = 0
    PROVE  current[c] \in Linked(c)
BY DEF RingInv

\* A step that writes no link and no state.
LEMMA RingStill ==
    ASSUME NEW c \in Cores, RingInv(c), NoFork(c), NoFork(c)',
           UNCHANGED <<state[c], next[c], previous[c], current[c], tasks_num[c]>>,
           \/ UNCHANGED <<pc[c], temp[c], preempt_count[c]>>
           \/ /\ pc[c] \notin ExitLabels /\ pc'[c] \notin ExitLabels \cup {"scan"}
              /\ current[c] \in Linked(c) \cup {NULL}
    PROVE  RingInv(c)'
<1>1. Live(c)' = Live(c)
  BY DEF Live
<1>2. pc[c] \in ExitLabels \/ pc'[c] \in ExitLabels \/ pc'[c] = "scan" => pc'[c] = pc[c]
  OBVIOUS
<1>3. CASE current[c] = NULL
  BY <1>1, <1>3 DEF RingInv, NoFork
<1>4. CASE current[c] # NULL
  <2>1. Linked(c)' = Linked(c)
    BY <1>1, <1>2 DEF Linked, NoFork
  <2>2. Back(c)' = Back(c) /\ Uncounted(c)' = Uncounted(c)
    BY <1>2 DEF Back, Uncounted, NoFork, ExitLabels
  <2>3. IsRing(Linked(c)', next'[c], Back(c)')
    BY <1>4, <2>1, <2>2 DEF RingInv
  <2> QED BY <1>1, <1>2, <1>4, <2>1, <2>2, <2>3 DEF RingInv, ExitLabels
<1> QED BY <1>3, <1>4

\* Ticks, returns, the switch itself and what main does change no list.
LEMMA RingHandler ==
    ASSUME IInv, TypeOK', NEW c \in Cores \ early, RingInv(c),
           \/ Tick(c) \/ TickReturn(c) \/ ScheduleReturn(c) \/ ContextSwitch(c)
           \/ RetFromFork(c) \/ Wake(c) \/ SecondaryInit(c) \/ ArmTimer(c)
           \/ JoinAll(c) \/ JoinLeave(c) \/ SleepAgain(c)
    PROVE  RingInv(c)'
<1> USE DEF At, Goto, tableVars, coreVars, timerVars, progVars
<1>0. TypeOK /\ StacksReturn(c) /\ CoreInv(c)
  BY DEF IInv
<1>1. NoFork(c) /\ NoFork(c)'
  BY OwnNoFork DEF Step
<1>2. UNCHANGED <<state[c], next[c], previous[c], current[c], tasks_num[c]>>
  BY DEF Tick, TickReturn, ScheduleReturn, ContextSwitch, RetFromFork, Wake,
         SecondaryInit, ArmTimer, JoinAll, JoinLeave, SleepAgain
<1>3. pc[c] \notin ExitLabels /\ pc'[c] \notin ExitLabels \cup {"scan"}
  <2>1. CASE Tick(c)
    <3>1. pc[c] \notin ExitLabels
      BY <1>0, <2>1 DEF Tick, Preemptible, CoreInv, GuardHeld, Critical
    <3>2. pc'[c] = "sched"
      BY <1>0, <2>1 DEF Tick, CallSchedule, TypeOK
    <3> QED BY <3>1, <3>2 DEF ExitLabels
  <2>2. CASE TickReturn(c) \/ ScheduleReturn(c)
    <3>1. pc'[c] \in Returns(cpu[c])
      BY <1>0, <2>2, ReturnStack DEF TickReturn, ScheduleReturn
    <3>2. pc[c] \in {"tickret", "resume"}
      BY <2>2 DEF TickReturn, ScheduleReturn
    <3> QED BY <3>1, <3>2 DEF Returns, MainReturns, TaskReturns, SuspendedHandler, ExitLabels
  <2>3. CASE ContextSwitch(c) \/ RetFromFork(c)
    BY <1>0, <2>3 DEF ContextSwitch, RetFromFork, TypeOK, ExitLabels
  <2>4. CASE Wake(c) \/ SecondaryInit(c)
    BY <1>0, <2>4 DEF Wake, SecondaryInit, TypeOK, ExitLabels
  <2>5. CASE ArmTimer(c) \/ JoinLeave(c) \/ SleepAgain(c)
    BY <1>0, <2>5 DEF ArmTimer, JoinLeave, SleepAgain, TypeOK, ExitLabels
  <2>6. CASE JoinAll(c)
    BY <1>0, <2>6 DEF JoinAll, CallSchedule, TypeOK, ExitLabels
  <2> QED BY <2>1, <2>2, <2>3, <2>4, <2>5, <2>6
<1>4. current[c] \in Linked(c) \cup {NULL}
  <2>1. \/ Tick(c) /\ preempt_count[c][current[c]] = 0
        \/ pc[c] \notin {"sched", "scan"}
    BY DEF Tick, Preemptible, TickReturn, ScheduleReturn, ContextSwitch, RetFromFork, Wake,
           SecondaryInit, ArmTimer, JoinAll, JoinLeave, SleepAgain
  <2> QED BY <2>1, CurrentLinked
<1> QED BY <1>1, <1>2, <1>3, <1>4, RingStill

\* What follows from the type of the rows.
LEMMA LinkedType ==
    ASSUME NEW c \in Cores
    PROVE  Linked(c) \subseteq Tasks /\ (NoFork(c) => Main \in Linked(c))
BY TaskFacts DEF Linked, NoFork

\* The scan stays on the list, also when a dead task starts it.
LEMMA RingSchedule ==
    ASSUME IInv, TypeOK', NEW c \in Cores \ early, RingInv(c),
           Schedule(c) \/ ScanNext(c) \/ ScanFound(c)
    PROVE  RingInv(c)'
<1> USE DEF At, Goto, tableVars, coreVars, timerVars, progVars
<1>0. TypeOK /\ CoreInv(c) /\ CurrentSet(c)
  BY DEF IInv
<1>1. NoFork(c) /\ NoFork(c)'
  BY OwnNoFork DEF Step
<1>2. pc[c] \in {"sched", "scan"} /\ current[c] # NULL /\ current[c] \in Tasks
  BY <1>0 DEF Schedule, ScanNext, ScanFound, TypeOK, CoreInv, CurrentSet, ForkLabels
<1>3. UNCHANGED <<next, previous, tasks_num>> /\ pc'[c] \in {"scan", "resume", "switch"}
  BY <1>0 DEF Schedule, ScanNext, ScanFound, TypeOK
<1>4. /\ IsRing(Linked(c), next[c], Back(c))
      /\ Cardinality(Linked(c)) = tasks_num[c] + Uncounted(c)
      /\ current[c] \notin Linked(c) =>
              /\ next[c][current[c]] \in Linked(c)
              /\ preempt_count[c][current[c]] = 1
      /\ pc[c] = "scan" => temp[c] \in Linked(c) \cup {current[c]}
  BY <1>2 DEF RingInv
<1>5. Live(c)' = Live(c)
  <2>1. CASE ScanFound(c)
    <3>1. state[c] \in [Tasks -> {TASK_ZOMBIE, TASK_READY, TASK_RUNNING}]
          /\ temp[c] \in Tasks /\ state[c][temp[c]] = TASK_READY
      BY <1>0, <2>1 DEF ScanFound, TypeOK
    <3>2. state'[c] = [Demoted(c) EXCEPT ![temp[c]] = TASK_RUNNING]
      BY <1>0, <2>1 DEF ScanFound, TypeOK
    <3>3. ASSUME NEW t \in Tasks
          PROVE  state'[c][t] # TASK_ZOMBIE <=> state[c][t] # TASK_ZOMBIE
      BY <1>2, <3>1, <3>2 DEF Demoted
    <3> QED BY <3>3 DEF Live
  <2>2. CASE ~ScanFound(c)
    BY <2>2 DEF Schedule, ScanNext, Live
  <2> QED BY <2>1, <2>2
<1>6. Linked(c)' = Linked(c)
  BY <1>1, <1>2, <1>3, <1>5 DEF Linked, NoFork, ExitLabels
<1>7. Back(c)' = Back(c) /\ Uncounted(c)' = Uncounted(c)
  BY <1>1, <1>2, <1>3 DEF Back, Uncounted, NoFork
<1>8. /\ IsRing(Linked(c)', next'[c], Back(c)')
      /\ Cardinality(Linked(c))' = tasks_num'[c] + Uncounted(c)'
  BY <1>3, <1>4, <1>6, <1>7
<1>9. CASE Schedule(c)
  <2>1. UNCHANGED current /\ temp'[c] = current[c] /\ pc'[c] = "scan"
    BY <1>0, <1>9 DEF Schedule, ScanStart, TypeOK
  <2>2. preempt_count'[c][current[c]] = 1
    BY <1>0, <1>2, <1>9 DEF Schedule, SetPreempt, TypeOK
  <2> QED BY <1>2, <1>3, <1>4, <1>6, <1>8, <2>1, <2>2 DEF RingInv, ExitLabels
<1>10. CASE ScanNext(c)
  <2>1. UNCHANGED <<current, preempt_count>> /\ temp[c] \in Linked(c) \cup {current[c]}
    BY <1>4, <1>10 DEF ScanNext
  <2>2. temp[c] \in Tasks /\ temp[c] # NULL
    BY <1>2, <2>1, LinkedType, TaskFacts
  <2>3. temp'[c] = next[c][temp[c]] /\ pc'[c] = "scan"
    BY <1>0, <1>10, <2>2 DEF ScanNext, TypeOK
  <2>4. next[c][temp[c]] \in Linked(c)
    BY <1>4, <2>1 DEF IsRing
  <2> QED BY <1>2, <1>3, <1>4, <1>6, <1>8, <2>1, <2>3, <2>4 DEF RingInv, ExitLabels
<1>11. CASE ScanFound(c)
  <2>1. /\ current'[c] = temp[c] /\ temp[c] \in Tasks /\ temp[c] # NULL
        /\ state[c][temp[c]] = TASK_READY
    BY <1>0, <1>11 DEF ScanFound, TypeOK
  <2>2. temp[c] \in Linked(c)
    BY <1>1, <2>1 DEF Linked, NoFork, Live
  <2>3. pc'[c] \in {"resume", "switch"}
    BY <1>0, <1>11 DEF ScanFound, TypeOK
  <2> QED BY <1>6, <1>8, <2>1, <2>2, <2>3 DEF RingInv, ExitLabels
<1> QED BY <1>9, <1>10, <1>11

\* main becomes a live task, and is in the list either way.
LEMMA RingStart ==
    ASSUME IInv, TypeOK', NEW c \in Cores \ early, RingInv(c), StartMain(c)
    PROVE  RingInv(c)'
<1> USE DEF At, Goto, tableVars, coreVars, timerVars, progVars
<1>0. TypeOK /\ CoreInv(c) /\ CurrentSet(c)
  BY DEF IInv
<1>1. NoFork(c) /\ NoFork(c)'
  BY OwnNoFork DEF Step
<1>2. /\ pc[c] = "start" /\ pc'[c] = "arm" /\ current[c] = Main /\ current[c] # NULL
      /\ UNCHANGED <<next, previous, tasks_num, current>>
  <2>1. pc[c] = "start" /\ pc'[c] = "arm" /\ UNCHANGED <<next, previous, tasks_num, current>>
    BY <1>0 DEF StartMain, TypeOK
  <2>2. cpu[c] = Main
    BY <1>0, <2>1 DEF CoreInv, LabelFitsTask, MainLabels
  <2> QED BY <1>0, <2>1, <2>2 DEF CoreInv, CpuIsCurrent, CurrentSet, ForkLabels
<1>3. \A t \in Tasks \ {Main} : t \in Live(c)' <=> t \in Live(c)
  BY <1>0, <1>2 DEF StartMain, Started, TypeOK, Live
<1>4. Linked(c)' = Linked(c) /\ Back(c)' = Back(c) /\ Uncounted(c)' = Uncounted(c)
  BY <1>1, <1>2, <1>3 DEF Linked, NoFork, ExitLabels, Back, Uncounted
<1>5. IsRing(Linked(c)', next'[c], Back(c)')
  BY <1>2, <1>4 DEF RingInv
<1> QED BY <1>2, <1>4, <1>5 DEF RingInv, ExitLabels

\* A task that exits is dead first, then uncounted, then off the list.
LEMMA RingExit ==
    ASSUME IInv, TypeOK', NEW c \in Cores \ early, RingInv(c),
           ExitTask(c) \/ ExitCount(c) \/ ExitUnlinkNext(c)
    PROVE  RingInv(c)'
<1> USE DEF At, Goto, tableVars, coreVars, timerVars, progVars
<1>0. TypeOK /\ CoreInv(c) /\ CurrentSet(c)
  BY DEF IInv
<1>1. NoFork(c) /\ NoFork(c)'
  BY OwnNoFork DEF Step
<1>2. /\ pc[c] \in {"body", "zombied", "counted"} /\ UNCHANGED <<next, current>>
      /\ pc'[c] \in ExitLabels /\ pc'[c] # "scan"
  BY <1>0 DEF ExitTask, ExitCount, ExitUnlinkNext, TypeOK, ExitLabels
<1>3. current[c] \in Tasks /\ current[c] # Main /\ current[c] # NULL
  BY <1>0, <1>2, TaskFacts DEF CoreInv, CurrentSet, CpuIsCurrent, LabelFitsTask, TypeOK,
     ForkLabels, TaskLabels, ExitLabels
<1>4. current[c] \in Linked(c)
  BY <1>2, <1>3, CurrentLinked
<1>5. \A t \in Tasks : t \in Live(c)' <=> t \in Live(c) /\ ~(ExitTask(c) /\ t = current[c])
  <2>1. CASE ExitTask(c)
    BY <1>0, <1>3, <2>1 DEF ExitTask, TypeOK, Live
  <2>2. CASE ~ExitTask(c)
    BY <2>2 DEF ExitCount, ExitUnlinkNext, Live
  <2> QED BY <2>1, <2>2
<1>6. Linked(c)' = Linked(c)
  BY <1>1, <1>2, <1>3, <1>4, <1>5 DEF Linked, NoFork, ExitLabels
<1>7. /\ IsRing(Linked(c), next[c], Back(c))
      /\ Cardinality(Linked(c)) = tasks_num[c] + Uncounted(c)
  BY <1>3 DEF RingInv
<1>8. Cardinality(Linked(c))' = tasks_num'[c] + Uncounted(c)'
  <2>1. CASE ExitTask(c) \/ ExitUnlinkNext(c)
    BY <1>0, <1>1, <1>6, <1>7, <2>1
    DEF ExitTask, ExitUnlinkNext, TypeOK, Uncounted, NoFork
  <2>2. CASE ExitCount(c)
    BY <1>0, <1>1, <1>6, <1>7, <2>2 DEF ExitCount, TypeOK, Uncounted, NoFork
  <2> QED BY <2>1, <2>2
<1>9. current'[c] \notin Live(c)'
  BY <1>2, <1>3, <1>5 DEF RingInv, ExitTask, ExitCount, ExitUnlinkNext, ExitLabels
<1>10. CASE ExitTask(c) \/ ExitCount(c)
  <2>1. Back(c)' = Back(c) /\ pc'[c] # "unlinked"
    BY <1>0, <1>1, <1>10 DEF ExitTask, ExitCount, TypeOK, Back, NoFork
  <2>2. IsRing(Linked(c)', next'[c], Back(c)')
    BY <1>2, <1>6, <1>7, <2>1
  <2> QED BY <1>2, <1>3, <1>4, <1>6, <1>8, <1>9, <2>1, <2>2 DEF RingInv
<1>11. CASE ExitUnlinkNext(c)
  <2> DEFINE t == current[c]
  <2> DEFINE q == next[c][t]
  <2>1. pc[c] = "counted" /\ pc'[c] = "unlinked" /\ Back(c) = previous[c]
    BY <1>0, <1>1, <1>11 DEF ExitUnlinkNext, TypeOK, Back, NoFork
  <2>2. q \in Tasks /\ q # t /\ previous[c][q] = t
    <3>1. IsRing(Linked(c), next[c], previous[c])
      BY <1>7, <2>1
    <3>2. q \in Linked(c) \ {t}
      BY <1>3, <1>4, <3>1, RingNeighbours
    <3> QED BY <1>4, <3>1, <3>2, LinkedType DEF IsRing
  <2>3. previous'[c] = [previous[c] EXCEPT ![q] = previous[c][t]]
    BY <1>0, <1>11 DEF ExitUnlinkNext, TypeOK
  <2>4. Back(c)' = [previous'[c] EXCEPT ![q] = t]
    BY <1>1, <1>2, <2>1 DEF Back, NoFork
  <2>5. Back(c)' = previous[c]
    <3>1. previous[c] \in [Tasks -> Tasks \cup {NULL}]
      BY <1>0 DEF TypeOK
    <3> HIDE DEF t, q
    <3> QED BY <2>2, <2>3, <2>4, <3>1
  <2>6. IsRing(Linked(c)', next'[c], Back(c)')
    BY <1>2, <1>6, <1>7, <2>1, <2>5
  <2>7. previous'[c][q] = previous'[c][t]
    BY <1>0, <1>3, <2>2, <2>3 DEF TypeOK
  <2> QED BY <1>2, <1>3, <1>4, <1>6, <1>8, <1>9, <2>6, <2>7 DEF RingInv
<1> QED BY <1>10, <1>11

\* A list has at most NR_TASKS tasks.
LEMMA LinkedFinite ==
    ASSUME NEW c \in Cores
    PROVE  IsFiniteSet(Linked(c)) /\ Cardinality(Linked(c)) \in Nat
<1>1. IsFiniteSet(Tasks)
  BY FS_Interval, NRTasksAssumption DEF Tasks
<1> QED BY <1>1, LinkedType, FS_Subset, FS_CardinalityType

\* The last write of exit_task() closes the list behind the task.
LEMMA RingUnlink ==
    ASSUME IInv, TypeOK', NEW c \in Cores \ early, RingInv(c), ExitUnlinkPrevious(c)
    PROVE  RingInv(c)'
<1> USE DEF At, Goto, tableVars, coreVars, timerVars, progVars
<1> DEFINE t == current[c]
<1> DEFINE q == next[c][t]
<1> DEFINE r == previous[c][t]
<1>0. TypeOK /\ CoreInv(c) /\ CurrentSet(c)
  BY DEF IInv
<1>1. NoFork(c) /\ NoFork(c)'
  BY OwnNoFork DEF Step
<1>2. /\ pc[c] = "unlinked" /\ pc'[c] = "sched"
      /\ UNCHANGED <<state, previous, current, tasks_num, preempt_count>>
  BY <1>0 DEF ExitUnlinkPrevious, CallSchedule, TypeOK
<1>3. t \in Tasks /\ t # Main /\ t # NULL
  BY <1>0, <1>2, TaskFacts DEF CoreInv, CurrentSet, CpuIsCurrent, LabelFitsTask, TypeOK,
     ForkLabels, TaskLabels, ExitLabels
<1>4. t \in Linked(c)
  BY <1>2, <1>3, CurrentLinked
<1>5. /\ IsRing(Linked(c), next[c], Back(c))
      /\ Cardinality(Linked(c)) = tasks_num[c] + 1
      /\ previous[c][q] = r
  BY <1>1, <1>2, <1>3 DEF RingInv, Uncounted
<1>6. Back(c) = [previous[c] EXCEPT ![q] = t]
  BY <1>1, <1>2 DEF Back, NoFork
<1>7. q \in Linked(c) \ {t} /\ Back(c)[t] \in Linked(c) \ {t}
  BY <1>3, <1>4, <1>5, RingNeighbours
<1>8. /\ Linked(c) \subseteq Tasks
      /\ previous[c] \in [Tasks -> Tasks \cup {NULL}] /\ next[c] \in [Tasks -> Tasks \cup {NULL}]
  BY <1>0, LinkedType DEF TypeOK
<1>9. Back(c)[t] = r /\ r \in Linked(c) \ {t}
  BY <1>3, <1>6, <1>7, <1>8
<1>10. next'[c] = [next[c] EXCEPT ![r] = q]
  BY <1>0 DEF ExitUnlinkPrevious, TypeOK
<1>11. IsRing(Linked(c) \ {t}, next'[c], previous[c])
  <2>1. next'[c][Back(c)[t]] = q /\ \A u \in Linked(c) \ {Back(c)[t]} : next'[c][u] = next[c][u]
    BY <1>8, <1>9, <1>10
  <2>2. previous[c][q] = Back(c)[t] /\ \A u \in Linked(c) \ {q, t} : previous[c][u] = Back(c)[u]
    BY <1>5, <1>6, <1>8, <1>9
  <2> QED BY <1>3, <1>4, <1>5, <2>1, <2>2, RingRemove
<1>12. t \notin Live(c)
  BY <1>2, <1>3 DEF RingInv, ExitLabels
<1>13. Linked(c)' = Linked(c) \ {t}
  BY <1>1, <1>2, <1>3, <1>12 DEF Linked, NoFork, ExitLabels, Live
<1>14. Back(c)' = previous[c] /\ Uncounted(c)' = 0
  BY <1>1, <1>2 DEF Back, Uncounted, NoFork
<1>15. Cardinality(Linked(c) \ {t}) = Cardinality(Linked(c)) - 1
  BY <1>4, LinkedFinite, FS_RemoveElement
<1>16. Cardinality(Linked(c))' = tasks_num'[c] + Uncounted(c)'
  BY <1>0, <1>2, <1>5, <1>13, <1>14, <1>15 DEF TypeOK
<1>17. IsRing(Linked(c)', next'[c], Back(c)')
  BY <1>11, <1>13, <1>14
<1>18. next'[c][t] \in Linked(c)'
  BY <1>3, <1>7, <1>8, <1>9, <1>10, <1>13
<1>19. preempt_count'[c][t] = 1
  BY <1>0, <1>2, <1>3 DEF CoreInv, GuardHeld, Critical, ExitLabels
<1> QED BY <1>2, <1>3, <1>16, <1>17, <1>18, <1>19 DEF RingInv, ExitLabels

\* The program of core 0 changes no list outside fork_task().
LEMMA RingProgram ==
    ASSUME IInv, TypeOK', NEW c \in Cores, RingInv(c),
           ThreadingInit \/ KickCores \/ StartJoin \/ JoinTask \/ NextRound
    PROVE  RingInv(c)'
<1> USE CoresAssumption DEF At, Goto, tableVars, coreVars, timerVars, progVars
<1>0. TypeOK
  BY DEF IInv
<1>1. /\ pc[CORE0] \in {"forks", "kick", "started", "joinT", "rest"}
      /\ pc'[CORE0] \in {"forks", "kick", "start", "sched", "joinT", "join", "halt"}
      /\ \A d \in Cores \ {CORE0} : pc'[d] = pc[d]
  <2>1. pc \in [Cores -> Labels]
    BY <1>0 DEF TypeOK
  <2>2. PICK l \in {"forks", "kick", "start", "sched", "joinT", "join", "halt"} :
          pc' = [pc EXCEPT ![CORE0] = l]
    BY DEF ThreadingInit, KickCores, StartJoin, JoinTask, NextRound, CallSchedule
  <2>3. pc[CORE0] \in {"forks", "kick", "started", "joinT", "rest"}
    BY DEF ThreadingInit, KickCores, StartJoin, JoinTask, NextRound
  <2> QED BY <2>1, <2>2, <2>3
<1>2. NoFork(c) /\ NoFork(c)'
  BY <1>1 DEF NoFork, Forking
<1>3. UNCHANGED <<state, next, previous, current, tasks_num, temp, preempt_count>>
  BY DEF ThreadingInit, KickCores, StartJoin, JoinTask, NextRound
<1>4. CASE c # CORE0
  BY <1>1, <1>2, <1>3, <1>4, RingStill
<1>5. CASE c = CORE0
  <2>1. /\ pc[c] \notin ExitLabels \cup {"sched", "scan"}
        /\ pc'[c] \notin ExitLabels \cup {"scan"}
    BY <1>1, <1>5 DEF ExitLabels
  <2>2. current[c] \in Linked(c) \cup {NULL}
    BY <2>1, CurrentLinked
  <2> QED BY <1>2, <1>3, <2>1, <2>2, RingStill
<1> QED BY <1>4, <1>5

\* fork_task() is core 0's, which stays in it or goes on to the next task to fork.
LEMMA ForkPlaces ==
    ASSUME TypeOK, NEW d \in Cores, Fork(d)
    PROVE  /\ pc[CORE0] \in {"forks", "link", "link2", "count"}
           /\ pc'[CORE0] \in {"forks", "link", "link2", "count"}
           /\ \A e \in Cores \ {CORE0} : pc'[e] = pc[e]
<1> USE CoresAssumption DEF At, Goto, cpuVars
<1>0. CORE0 \in Cores /\ pc \in [Cores -> Labels]
  BY DEF TypeOK
<1>1. CASE ForkTask(d)
  BY <1>0, <1>1 DEF ForkTask
<1>2. CASE ForkPanic(d)
  BY <1>0, <1>2 DEF ForkPanic
<1>3. ASSUME NEW p \in Tasks, LinkFirst(d, p)
      PROVE  pc[CORE0] = "link" /\ pc' = [pc EXCEPT ![CORE0] = "count"]
  BY <1>3 DEF LinkFirst
<1>4. ASSUME NEW p \in Tasks, LinkNext(d, p)
      PROVE  pc[CORE0] = "link" /\ pc' = [pc EXCEPT ![CORE0] = "link2"]
  BY <1>4 DEF LinkNext
<1>5. ASSUME NEW p \in Tasks, LinkPrevious(d, p)
      PROVE  pc[CORE0] = "link2" /\ pc' = [pc EXCEPT ![CORE0] = "count"]
  BY <1>5 DEF LinkPrevious
<1>6. CASE ForkCount(d)
  BY <1>0, <1>6 DEF ForkCount
<1> QED BY <1>0, <1>1, <1>2, <1>3, <1>4, <1>5, <1>6 DEF Fork

\* What every step of fork_task() for a core that it may fork for finds.
LEMMA ForkSetting ==
    ASSUME IInv, NEW c \in Cores \ early, NEW d \in Cores, Fork(d),
           c = CORE0 \/ Asleep(c), RingInv(c)
    PROVE  /\ pc[CORE0] \in ForkLabels /\ pc'[CORE0] \in ForkLabels
           /\ \A e \in Cores \ {CORE0} : pc'[e] = pc[e]
           /\ pc[c] \in ForkLabels \cup {"wfe"} /\ pc'[c] \in ForkLabels \cup {"wfe"}
           /\ pc[c] \notin ExitLabels \cup {"sched", "scan"}
           /\ pc'[c] \notin ExitLabels \cup {"sched", "scan"}
           /\ current[c] # NULL => current[c] = Main /\ Main \in Linked(c)
<1>1. /\ pc[CORE0] \in ForkLabels /\ pc'[CORE0] \in ForkLabels
      /\ \A e \in Cores \ {CORE0} : pc'[e] = pc[e]
  BY ForkAt
<1>2. /\ pc[c] \in ForkLabels \cup {"wfe"} /\ current[c] \in {NULL, Main}
      /\ c # CORE0 => pc[c] = "wfe"
  BY <1>1, WhileForking DEF Asleep
<1>3. pc'[c] \in ForkLabels \cup {"wfe"}
  BY <1>1, <1>2
<1>4. /\ pc[c] \notin ExitLabels \cup {"sched", "scan"}
      /\ pc'[c] \notin ExitLabels \cup {"sched", "scan"}
  BY <1>2, <1>3 DEF ForkLabels, ExitLabels
<1> QED BY <1>1, <1>2, <1>3, <1>4, CurrentLinked

\* fork_task() leaves the lists of the other cores alone.
LEMMA RingForkOther ==
    ASSUME IInv, TypeOK', NEW d \in Cores, Fork(d), NEW c \in Cores \ early, c # d,
           RingInv(c)
    PROVE  RingInv(c)'
<1> USE CoresAssumption DEF At, Goto, tableVars, coreVars, cpuVars, timerVars, progVars
<1>0. TypeOK
  BY DEF IInv
<1>1. NoFork(c) /\ NoFork(c)'
  <2>1. CASE ForkTask(d)
    BY <1>0, <2>1 DEF ForkTask, TypeOK, NoFork, Forking
  <2>2. CASE ForkPanic(d)
    BY <1>0, <2>2 DEF ForkPanic, TypeOK, NoFork, Forking
  <2>3. CASE \E p \in Tasks : LinkFirst(d, p) \/ LinkNext(d, p) \/ LinkPrevious(d, p)
    <3>1. target[1] = d /\ target' = target
      BY <2>3 DEF LinkFirst, LinkNext, LinkPrevious
    <3> QED BY <3>1 DEF NoFork, Forking
  <2>4. CASE ForkCount(d)
    BY <1>0, <2>4 DEF ForkCount, TypeOK, NoFork, Forking
  <2> QED BY <2>1, <2>2, <2>3, <2>4 DEF Fork
<1>2. UNCHANGED <<state[c], next[c], previous[c], current[c], tasks_num[c]>>
  <2>1. CASE ForkTask(d)
    BY <1>0, <2>1 DEF ForkTask, TypeOK
  <2>2. CASE ForkPanic(d)
    BY <1>0, <2>2 DEF ForkPanic
  <2>3. CASE \E p \in Tasks : LinkFirst(d, p) \/ LinkNext(d, p) \/ LinkPrevious(d, p)
    <3>1. CASE \E p \in Tasks : LinkFirst(d, p)
      BY <1>0, <3>1 DEF LinkFirst, TypeOK
    <3>2. CASE \E p \in Tasks : LinkNext(d, p)
      BY <1>0, <3>2 DEF LinkNext, TypeOK
    <3>3. CASE \E p \in Tasks : LinkPrevious(d, p)
      BY <1>0, <3>3 DEF LinkPrevious, TypeOK
    <3> QED BY <2>3, <3>1, <3>2, <3>3
  <2>4. CASE ForkCount(d)
    BY <1>0, <2>4 DEF ForkCount, TypeOK
  <2> QED BY <2>1, <2>2, <2>3, <2>4 DEF Fork
<1>3. CASE c = CORE0
  <2>1. /\ pc[c] \notin ExitLabels /\ pc'[c] \notin ExitLabels \cup {"scan"}
        /\ current[c] \in Linked(c) \cup {NULL}
    BY <1>3, ForkSetting
  <2> QED BY <1>1, <1>2, <2>1, RingStill
<1>4. CASE c # CORE0
  <2>1. UNCHANGED <<pc[c], temp[c], preempt_count[c]>>
    BY <1>0, <1>4, ForkAt, ForkElsewhere
  <2> QED BY <1>1, <1>2, <2>1, RingStill
<1> QED BY <1>3, <1>4

\* A new task is live, and not linked.
LEMMA RingForkTask ==
    ASSUME IInv, TypeOK', NEW c \in Cores \ early,
           c = CORE0 \/ Asleep(c), RingInv(c), ForkTask(c)
    PROVE  RingInv(c)'
<1> USE CoresAssumption DEF At, Goto, tableVars, coreVars, cpuVars, timerVars, progVars
<1>0. TypeOK
  BY DEF IInv
<1>1. PICK p \in FreeSlots(c) :
          /\ target' = <<c, p>>
          /\ state' = [state EXCEPT ![c][p] = TASK_READY]
          /\ preempt_count' = [preempt_count EXCEPT ![c][p] = 1]
          /\ next' = [next EXCEPT ![c][p] = NULL]
          /\ previous' = [previous EXCEPT ![c][p] = NULL]
  BY DEF ForkTask
<1>2. p \in Tasks /\ p # Main /\ state[c][p] = TASK_ZOMBIE
  BY TaskFacts DEF FreeSlots
<1>3. /\ pc[c] \notin ExitLabels \cup {"sched", "scan"}
      /\ pc'[c] \notin ExitLabels \cup {"sched", "scan"}
      /\ current[c] # NULL => current[c] = Main /\ Main \in Linked(c)
  BY ForkSetting DEF Fork
<1>4. pc[CORE0] = "forks" /\ pc'[CORE0] = "link" /\ UNCHANGED <<current, tasks_num>>
  BY <1>0 DEF ForkTask, TypeOK
<1>5. NoFork(c) /\ Forking(c, "link")' /\ ~Forking(c, "link2")' /\ ~Forking(c, "count")'
      /\ target'[2] = p
  BY <1>1, <1>4 DEF NoFork, Forking
<1>6. \A t \in Tasks : t \in Live(c)' <=> t \in Live(c) \/ t = p
  BY <1>0, <1>1, <1>2 DEF TypeOK, Live
<1>7. CASE current[c] = NULL
  <2>1. Live(c) = {}
    BY <1>5, <1>7 DEF RingInv, NoFork
  <2>2. Live(c)' \subseteq Tasks
    BY DEF Live
  <2> QED BY <1>4, <1>5, <1>6, <1>7, <2>1, <2>2 DEF RingInv
<1>8. CASE current[c] # NULL
  <2>1. p \notin Linked(c)
    BY <1>2, <1>3 DEF Linked, Live
  <2>2. Linked(c)' = Linked(c)
    <3>1. \A t \in Tasks : t \in Linked(c)' <=> t \in Linked(c)
      BY <1>2, <1>3, <1>5, <1>6, <2>1 DEF Linked, NoFork
    <3> QED BY <3>1 DEF Linked
  <2>3. /\ IsRing(Linked(c), next[c], previous[c])
        /\ Cardinality(Linked(c)) = tasks_num[c]
    BY <1>0, <1>3, <1>5, <1>8 DEF RingInv, Back, Uncounted, NoFork, ExitLabels, TypeOK
  <2>4. \A t \in Linked(c) : next'[c][t] = next[c][t] /\ previous'[c][t] = previous[c][t]
    <3>1. /\ next \in [Cores -> [Tasks -> Tasks \cup {NULL}]]
          /\ previous \in [Cores -> [Tasks -> Tasks \cup {NULL}]]
      BY <1>0 DEF TypeOK
    <3>2. \A t \in Tasks \ {p} : next'[c][t] = next[c][t] /\ previous'[c][t] = previous[c][t]
      BY <1>1, <3>1
    <3> QED BY <2>1, <3>2, LinkedType
  <2>5. IsRing(Linked(c), next'[c], previous'[c])
    BY <2>3, <2>4, RingElsewhere
  <2>6. Back(c)' = previous'[c] /\ Uncounted(c)' = 0
    BY <1>3, <1>5 DEF Back, Uncounted, ExitLabels
  <2>7. IsRing(Linked(c)', next'[c], Back(c)')
    BY <2>2, <2>5, <2>6
  <2>8. Cardinality(Linked(c))' = tasks_num'[c] + Uncounted(c)'
    BY <1>0, <1>4, <2>2, <2>3, <2>6 DEF TypeOK
  <2> QED BY <1>3, <1>4, <1>8, <2>2, <2>7, <2>8 DEF RingInv, ExitLabels
<1> QED BY <1>7, <1>8

\* The first task of a core and its main make a ring.
LEMMA RingLinkFirst ==
    ASSUME IInv, TypeOK', TargetIsNew, NEW c \in Cores \ early,
           c = CORE0 \/ Asleep(c), RingInv(c),
           NEW p \in Tasks, LinkFirst(c, p)
    PROVE  RingInv(c)'
<1> USE CoresAssumption DEF At, Goto, tableVars, coreVars, cpuVars, timerVars, progVars
<1>0. TypeOK
  BY DEF IInv
<1>1. /\ pc[CORE0] = "link" /\ pc'[CORE0] = "count" /\ UNCHANGED <<state, target>>
      /\ target = <<c, p>> /\ tasks_num[c] = 0
  BY <1>0 DEF LinkFirst, TypeOK
<1>2. p \in Live(c) /\ p # Main
  BY <1>1, TaskFacts DEF TargetIsNew
<1>3. /\ pc[c] \notin ExitLabels \cup {"sched", "scan"}
      /\ pc'[c] \notin ExitLabels \cup {"sched", "scan"}
      /\ current[c] # NULL => current[c] = Main /\ Main \in Linked(c)
  BY ForkSetting DEF Fork
<1>4. current[c] = NULL
  <2> SUFFICES ASSUME current[c] # NULL PROVE FALSE
    OBVIOUS
  <2>1. Main \in Linked(c) /\ Cardinality(Linked(c)) = 0
    BY <1>1, <1>3 DEF RingInv, Uncounted, Forking, ExitLabels
  <2> QED BY <2>1, LinkedFinite, FS_EmptySet
<1>5. \A t \in Live(c) : t = p
  BY <1>1, <1>4 DEF RingInv
<1>6. Linked(c)' = {Main, p}
  BY <1>1, <1>2, <1>3, <1>5, TaskFacts DEF Linked, Forking, Live
<1>7. /\ next'[c][Main] = p /\ next'[c][p] = Main
      /\ previous'[c][Main] = p /\ previous'[c][p] = Main
      /\ current'[c] = Main /\ tasks_num'[c] = 1
  BY <1>0, <1>2, TaskFacts DEF LinkFirst, TypeOK
<1>8. Back(c)' = previous'[c] /\ Uncounted(c)' = 1
  BY <1>1, <1>3 DEF Back, Uncounted, Forking, ExitLabels
<1>9. IsRing(Linked(c)', next'[c], Back(c)')
  <2>1. IsRing({Main, p}, next'[c], previous'[c])
    BY <1>2, <1>7, RingPair
  <2> QED BY <1>6, <1>8, <2>1
<1>10. Cardinality(Linked(c))' = tasks_num'[c] + Uncounted(c)'
  <2>1. Cardinality({Main}) = 1 /\ IsFiniteSet({Main})
    BY FS_Singleton
  <2>2. Cardinality({Main} \cup {p}) = 2
    <3>1. p \notin {Main}
      BY <1>2
    <3>2. Cardinality({Main} \cup {p}) = Cardinality({Main}) + 1
      BY <2>1, <3>1, FS_AddElement
    <3> QED BY <2>1, <3>2
  <2>3. {Main} \cup {p} = {Main, p}
    OBVIOUS
  <2> QED BY <1>6, <1>7, <1>8, <2>2, <2>3
<1> QED BY <1>3, <1>6, <1>7, <1>9, <1>10, TaskFacts DEF RingInv, ExitLabels

\* Any other task comes behind current.
LEMMA RingLinkNext ==
    ASSUME IInv, TypeOK', TargetIsNew, NEW c \in Cores \ early,
           c = CORE0 \/ Asleep(c), RingInv(c),
           NEW p \in Tasks, LinkNext(c, p)
    PROVE  RingInv(c)'
<1> USE CoresAssumption DEF At, Goto, tableVars, coreVars, cpuVars, timerVars, progVars
<1> DEFINE q == next[c][Main]
<1>0. TypeOK
  BY DEF IInv
<1>1. /\ pc[CORE0] = "link" /\ pc'[CORE0] = "link2"
      /\ UNCHANGED <<state, target, current, tasks_num, previous>>
      /\ target = <<c, p>> /\ tasks_num[c] # 0
  BY <1>0 DEF LinkNext, TypeOK
<1>2. p \in Live(c) /\ p # Main
  BY <1>1, TaskFacts DEF TargetIsNew
<1>3. /\ pc[c] \notin ExitLabels \cup {"sched", "scan"}
      /\ pc'[c] \notin ExitLabels \cup {"sched", "scan"}
      /\ current[c] # NULL => current[c] = Main /\ Main \in Linked(c)
  BY ForkSetting DEF Fork
<1>4. current[c] # NULL /\ current[c] = Main /\ Main \in Linked(c)
  BY <1>1, <1>3 DEF IInv, CurrentSet
<1>5. p \notin Linked(c) /\ Linked(c) \subseteq Tasks
  BY <1>1, LinkedType DEF Linked, Forking
<1>6. Linked(c)' = Linked(c) \cup {p}
  <2>1. \A t \in Tasks : t \in Linked(c)' <=> t \in Linked(c) \/ t = p
    BY <1>1, <1>2, <1>3, TaskFacts DEF Linked, Forking, Live
  <2>2. Linked(c)' \subseteq Tasks
    BY DEF Linked
  <2> QED BY <1>5, <2>1, <2>2
<1>7. /\ IsRing(Linked(c), next[c], previous[c])
      /\ Cardinality(Linked(c)) = tasks_num[c]
  BY <1>0, <1>1, <1>3, <1>4 DEF RingInv, Back, Uncounted, Forking, ExitLabels, TypeOK
<1>8. q \in Linked(c) /\ q # p
  BY <1>4, <1>5, <1>7 DEF IsRing
<1>9. next'[c] = [next[c] EXCEPT ![Main] = p, ![p] = q]
  BY <1>0, <1>4 DEF LinkNext, TypeOK
<1>10. Back(c)' = [previous[c] EXCEPT ![next'[c][p]] = p, ![p] = Main] /\ Uncounted(c)' = 1
  BY <1>1, <1>3, <1>4 DEF Back, BackLinks, Uncounted, Forking, ExitLabels
<1>11. IsRing(Linked(c)', next'[c], Back(c)')
  <2>1. next[c] \in [Tasks -> Tasks \cup {NULL}] /\ previous[c] \in [Tasks -> Tasks \cup {NULL}]
    BY <1>0 DEF TypeOK
  <2>2. next'[c][Main] = p /\ next'[c][p] = q
        /\ \A t \in Linked(c) \ {Main} : next'[c][t] = next[c][t]
    BY <1>2, <1>5, <1>9, <2>1, TaskFacts
  <2>3. Back(c)'[q] = p /\ Back(c)'[p] = Main
        /\ \A t \in Linked(c) \ {q} : Back(c)'[t] = previous[c][t]
    BY <1>5, <1>8, <1>10, <2>1, <2>2
  <2>4. IsRing(Linked(c) \cup {p}, next'[c], Back(c)')
    BY <1>4, <1>5, <1>7, <2>2, <2>3, RingInsert
  <2> QED BY <1>6, <2>4
<1>12. Cardinality(Linked(c))' = tasks_num'[c] + Uncounted(c)'
  <2>1. Cardinality(Linked(c) \cup {p}) = Cardinality(Linked(c)) + 1
    BY <1>5, LinkedFinite, FS_AddElement
  <2> QED BY <1>1, <1>6, <1>7, <1>10, <2>1
<1> QED BY <1>1, <1>3, <1>4, <1>6, <1>11, <1>12 DEF RingInv, ExitLabels

\* The links back complete it, and then it is counted.
LEMMA RingLinked ==
    ASSUME IInv, TypeOK', NEW c \in Cores \ early,
           c = CORE0 \/ Asleep(c), RingInv(c), TargetLinked,
           (\E p \in Tasks : LinkPrevious(c, p)) \/ ForkCount(c)
    PROVE  RingInv(c)'
<1> USE CoresAssumption DEF At, Goto, tableVars, coreVars, cpuVars, timerVars, progVars
<1>0. TypeOK
  BY DEF IInv
<1>1. /\ pc[CORE0] \in {"link2", "count"} /\ pc'[CORE0] \in {"count", "forks"}
      /\ UNCHANGED <<state, current, next>> /\ target[1] = c
  <2>1. CASE \E p \in Tasks : LinkPrevious(c, p)
    BY <1>0, <2>1 DEF LinkPrevious, TypeOK
  <2>2. CASE ForkCount(c)
    BY <1>0, <2>2 DEF ForkCount, TypeOK
  <2> QED BY <2>1, <2>2
<1>2. /\ pc[c] \notin ExitLabels \cup {"sched", "scan"}
      /\ pc'[c] \notin ExitLabels \cup {"sched", "scan"}
      /\ current[c] # NULL => current[c] = Main /\ Main \in Linked(c)
  BY ForkSetting DEF Fork
<1>3. current[c] # NULL /\ current[c] = Main /\ Main \in Linked(c)
  BY <1>1, <1>2 DEF TargetLinked
<1>4. Linked(c)' = Linked(c)
  <2>1. Live(c)' = Live(c)
    BY <1>1 DEF Live
  <2> QED BY <1>1, <1>2, <2>1 DEF Linked, Forking
<1>5. /\ IsRing(Linked(c), next[c], Back(c))
      /\ Cardinality(Linked(c)) = tasks_num[c] + 1
  BY <1>1, <1>2, <1>3 DEF RingInv, Uncounted, Forking, ExitLabels
<1>6. CASE \E p \in Tasks : LinkPrevious(c, p)
  <2>1. PICK p \in Tasks : LinkPrevious(c, p)
    BY <1>6
  <2>2. /\ pc[CORE0] = "link2" /\ pc'[CORE0] = "count" /\ target = <<c, p>>
        /\ UNCHANGED <<target, tasks_num>> /\ previous'[c] = BackLinks(c, p)
    BY <1>0, <2>1 DEF LinkPrevious, TypeOK
  <2>3. Back(c) = previous'[c] /\ Back(c)' = previous'[c] /\ Uncounted(c)' = 1
    BY <1>2, <2>2 DEF Back, Uncounted, Forking, ExitLabels
  <2>4. IsRing(Linked(c)', next'[c], Back(c)')
    BY <1>1, <1>4, <1>5, <2>3
  <2> QED BY <1>1, <1>2, <1>3, <1>4, <1>5, <2>2, <2>3, <2>4 DEF RingInv, ExitLabels
<1>7. CASE ForkCount(c)
  <2>1. /\ pc[CORE0] = "count" /\ pc'[CORE0] = "forks" /\ UNCHANGED previous
        /\ tasks_num'[c] = tasks_num[c] + 1
    BY <1>0, <1>7 DEF ForkCount, TypeOK
  <2>2. Back(c) = previous[c] /\ Back(c)' = previous[c] /\ Uncounted(c)' = 0
    BY <1>2, <2>1 DEF Back, Uncounted, Forking, ExitLabels
  <2>3. IsRing(Linked(c)', next'[c], Back(c)')
    BY <1>1, <1>4, <1>5, <2>2
  <2>4. Cardinality(Linked(c))' = tasks_num'[c] + Uncounted(c)'
    BY <1>0, <1>4, <1>5, <2>1, <2>2 DEF TypeOK
  <2> QED BY <1>1, <1>2, <1>3, <1>4, <2>3, <2>4 DEF RingInv, ExitLabels
<1> QED BY <1>6, <1>7

\* p is a task of its core until fork_task() is through with it.
LEMMA TargetStep ==
    ASSUME IInv, TypeOK', TargetIsNew, [Next]_vars
    PROVE  TargetIsNew'
<1> USE CoresAssumption DEF At, Goto, tableVars, coreVars, cpuVars, timerVars, progVars
<1>0. TypeOK
  BY DEF IInv
<1>1. ASSUME NEW c \in Cores, Step(c) \/ Tick(c) \/ ExitTask(c) PROVE TargetIsNew'
  <2>1. UNCHANGED <<target, early>> /\ \A d \in Cores \ {c} : RowUnchanged(d)
    BY <1>1, OwnStep
  <2>2. CASE c = CORE0
    <3>1. pc'[CORE0] \notin ForkLabels
      BY <1>1, <2>2, ForkingAlone, OwnStep DEF IInv, TypeOK
    <3> QED BY <3>1 DEF TargetIsNew, ForkLabels
  <2>3. CASE c # CORE0
    <3>1. pc'[CORE0] = pc[CORE0]
      BY <2>1, <2>3 DEF RowUnchanged
    <3> SUFFICES ASSUME pc[CORE0] \in {"link", "link2", "count"}, target[1] \notin early
                 PROVE  target[2] \in Slots /\ target[2] \in Live(target[1])'
      BY <2>1, <3>1 DEF TargetIsNew
    <3>2. target[1] \in Cores \ early
      BY <1>0 DEF TypeOK
    <3>3. ASSUME target[1] = c PROVE FALSE
      <4>1. ~NoFork(c)
        BY <3>3 DEF NoFork, Forking
      <4> QED BY <1>1, <3>2, <3>3, <4>1, OwnNoFork
    <3>4. state'[target[1]] = state[target[1]]
      BY <2>1, <3>2, <3>3 DEF RowUnchanged
    <3>5. target' = target /\ target[2] \in Slots /\ target[2] \in Live(target[1])
      BY <2>1 DEF TargetIsNew
    <3> QED BY <3>4, <3>5 DEF Live
  <2> QED BY <2>2, <2>3
<1>2. ASSUME NEW c \in Cores, ForkTask(c) PROVE TargetIsNew'
  <2>1. PICK p \in FreeSlots(c) :
          target' = <<c, p>> /\ state' = [state EXCEPT ![c][p] = TASK_READY]
    BY <1>2 DEF ForkTask
  <2>2. p \in Slots /\ p \in Tasks
    BY TaskFacts DEF FreeSlots
  <2> QED BY <1>0, <2>1, <2>2 DEF TargetIsNew, Live, TypeOK
<1>3. ASSUME NEW c \in Cores, NEW p \in Tasks,
             LinkFirst(c, p) \/ LinkNext(c, p) \/ LinkPrevious(c, p)
      PROVE  TargetIsNew'
  <2>1. pc[CORE0] \in {"link", "link2", "count"} /\ UNCHANGED <<state, target, early>>
    BY <1>3 DEF LinkFirst, LinkNext, LinkPrevious
  <2> QED BY <2>1 DEF TargetIsNew, Live
<1>4. ASSUME NEW c \in Cores, ForkCount(c) PROVE TargetIsNew'
  BY <1>0, <1>4 DEF ForkCount, TargetIsNew, TypeOK
<1>5. CASE ThreadingInit \/ KickCores \/ StartJoin \/ JoinTask \/ NextRound
  <2>1. PICK l \in {"forks", "kick", "start", "sched", "joinT", "join", "halt"} :
          pc' = [pc EXCEPT ![CORE0] = l]
    BY <1>5 DEF ThreadingInit, KickCores, StartJoin, JoinTask, NextRound, CallSchedule
  <2> QED BY <1>0, <2>1 DEF TypeOK, TargetIsNew
<1>6. ASSUME NEW c \in Cores, ForkPanic(c) PROVE TargetIsNew'
  BY <1>6 DEF ForkPanic, TargetIsNew, Live
<1>7. CASE UNCHANGED vars
  BY <1>7 DEF vars, TargetIsNew, Live
<1> QED BY <1>1, <1>2, <1>3, <1>4, <1>5, <1>6, <1>7 DEF Next, Program, Fork, Stopped

\* Any step keeps the list of any core.
LEMMA RingStep ==
    ASSUME IInv, TypeOK', TargetIsNew, [Next]_vars, NEW c \in Cores \ early', RingInv(c)
    PROVE  RingInv(c)'
<1>0. TypeOK /\ TargetLinked /\ c \notin early
  BY EarlyStays DEF IInv
<1>1. ASSUME NEW d \in Cores \ {c}, Step(d) \/ Tick(d) \/ ExitTask(d) PROVE RingInv(c)'
  <2>1. RowUnchanged(c) /\ UNCHANGED target
    BY <1>1, OwnStep
  <2>2. UNCHANGED <<next[c], previous[c]>>
    <3>1. CASE ExitUnlinkNext(d)
      BY <1>0, <3>1 DEF ExitUnlinkNext, TypeOK
    <3>2. CASE ExitUnlinkPrevious(d)
      BY <1>0, <3>2 DEF ExitUnlinkPrevious, TypeOK
    <3>3. CASE ~ExitUnlinkNext(d) /\ ~ExitUnlinkPrevious(d)
      BY <1>1, <3>3
      DEF Step, TickReturn, Schedule, ScanNext, ScanFound, ContextSwitch, Tick, tableVars,
          ScheduleReturn, RetFromFork, ExitTask, ExitCount, Wake, SecondaryInit, StartMain,
          ArmTimer, JoinAll, JoinLeave, SleepAgain
    <3> QED BY <3>1, <3>2, <3>3
  <2>3. CASE d = CORE0
    <3>1. pc[CORE0] \notin ForkLabels /\ pc'[CORE0] \notin ForkLabels
      BY <1>1, <2>3, ForkingAlone, OwnStep DEF IInv, TypeOK
    <3>2. NoFork(c) /\ NoFork(c)'
      BY <3>1 DEF NoFork, Forking, ForkLabels
    <3> QED BY <2>1, <2>2, <3>2, RingStill DEF RowUnchanged
  <2>4. CASE d # CORE0
    <3>1. pc'[CORE0] = pc[CORE0]
      BY <1>1, <2>4, OwnStep, CoresAssumption DEF RowUnchanged
    <3> QED
      BY <2>1, <2>2, <3>1
      DEF RowUnchanged, RingInv, Linked, Live, Back, BackLinks, Uncounted, Forking
  <2> QED BY <2>3, <2>4
<1>2. CASE Step(c) \/ Tick(c) \/ ExitTask(c)
  BY <1>0, <1>2, RingHandler, RingSchedule, RingStart, RingExit, RingUnlink DEF Step
<1>3. ASSUME NEW d \in Cores \ {c}, Fork(d) PROVE RingInv(c)'
  BY <1>0, <1>3, RingForkOther
<1>4. CASE Fork(c)
  <2>1. CASE ForkPanic(c)
    <3>1. UNCHANGED <<state, next, previous, current, tasks_num, pc, temp, preempt_count, target>>
      BY <2>1 DEF ForkPanic, tableVars, coreVars, cpuVars
    <3> QED BY <3>1 DEF RingInv, Linked, Live, Back, BackLinks, Uncounted, Forking
  <2>2. CASE ~ForkPanic(c)
    <3>1. c = CORE0 \/ Asleep(c)
      BY <1>4, <2>2, ForkAt
    <3> QED BY <1>0, <1>4, <2>2, <3>1, RingForkTask, RingLinkFirst, RingLinkNext,
               RingLinked DEF Fork
  <2> QED BY <2>1, <2>2
<1>5. CASE ThreadingInit \/ KickCores \/ StartJoin \/ JoinTask \/ NextRound
  BY <1>5, RingProgram
<1>6. CASE UNCHANGED vars
  BY <1>6
  DEF vars, tableVars, coreVars, cpuVars, progVars, RingInv, Linked, Live, Back, BackLinks,
      Uncounted, Forking
<1> QED BY <1>1, <1>2, <1>3, <1>4, <1>5, <1>6 DEF Next, Program, Stopped

\* No list, no task and nobody who forks one.
LEMMA InitList == Init => ListInv
<1> SUFFICES ASSUME Init PROVE ListInv
  OBVIOUS
<1> USE CoresAssumption, TaskFacts
<1>1. TargetIsNew
  BY DEF Init, TargetIsNew
<1>2. ASSUME NEW c \in Cores PROVE RingInv(c)
  BY DEF Init, RingInv, Live
<1> QED BY <1>1, <1>2 DEF ListInv

\* No step breaks a list, or leaves half an operation other than those that
\* Linked, Back and Uncounted tell of.
THEOREM ListInvariance == ASSUME ~EarlyTick PROVE Spec => [](IInv /\ ListInv)
<1>1. Init => IInv /\ ListInv
  BY InitInv, InitList
<1>2. IInv /\ ListInv /\ [Next]_vars => (IInv /\ ListInv)'
  <2> SUFFICES ASSUME IInv, ListInv, [Next]_vars PROVE (IInv /\ ListInv)'
    OBVIOUS
  <2>1. IInv' /\ TypeOK'
    BY InvStep DEF IInv
  <2>2. ASSUME NEW c \in Cores \ early' PROVE RingInv(c)'
    <3>1. RingInv(c)
      BY EarlyStays DEF ListInv
    <3> QED BY <2>1, <3>1, RingStep DEF ListInv
  <2> QED BY <2>1, <2>2, TargetStep DEF ListInv
<1> QED BY <1>1, <1>2, PTL DEF Spec

\* What the list of a core with tasks is between two operations.
LEMMA SettledList ==
    ASSUME IInv, NEW c \in Cores, RingInv(c), Settled(c)
    PROVE  /\ IsRing({Main} \cup Live(c), next[c], previous[c])
           /\ Cardinality({Main} \cup Live(c)) = tasks_num[c]
           /\ Linked(c) = {Main} \cup Live(c)
           /\ next[c][current[c]] \in Linked(c)
<1>1. tasks_num[c] > 0 /\ pc[c] \notin ExitLabels /\ NoFork(c) /\ tasks_num[c] \in Int
  BY DEF Settled, NoFork, Forking, IInv, TypeOK
<1>2. current[c] # NULL
  BY <1>1 DEF IInv, CurrentSet
<1>3. Linked(c) = {Main} \cup Live(c)
  BY <1>1, TaskFacts DEF Linked, NoFork, Live
<1>4. Back(c) = previous[c] /\ Uncounted(c) = 0
  BY <1>1 DEF Back, Uncounted, NoFork, ExitLabels
<1>5. /\ IsRing(Linked(c), next[c], Back(c))
      /\ Cardinality(Linked(c)) = tasks_num[c] + 0
  BY <1>2, <1>4 DEF RingInv
<1>6. next[c][current[c]] \in Linked(c)
  BY <1>2, <1>5 DEF RingInv, IsRing
<1> QED BY <1>1, <1>3, <1>4, <1>5, <1>6

\* fork_task(), exit_task() and the steps of schedule() on tasks that leave keep
\* the circular list whole and counted, on core 0 and on every core that slept
\* whenever core 0 forked for it.
THEOREM ListsAreRight == ASSUME ~EarlyTick PROVE Spec => []RingWellFormed
<1>1. ASSUME IInv, ListInv PROVE RingWellFormed
  <2> SUFFICES ASSUME NEW c \in Cores \ early, Settled(c)
               PROVE  /\ Ring(c) = {Main} \cup Live(c)
                      /\ \A t \in Ring(c) : previous[c][next[c][t]] = t
                      /\ Cardinality(Ring(c)) = tasks_num[c]
                      /\ next[c][current[c]] \in Ring(c)
    BY DEF RingWellFormed
  <2>1. /\ IsRing({Main} \cup Live(c), next[c], previous[c])
        /\ Cardinality({Main} \cup Live(c)) = tasks_num[c]
        /\ next[c][current[c]] \in {Main} \cup Live(c)
    BY <1>1, SettledList DEF ListInv
  <2>2. {Main} \cup Live(c) \in SUBSET Tasks
    BY TaskFacts DEF Live
  <2>3. Ring(c) = {Main} \cup Live(c)
    BY <2>1, <2>2, RingIsLinked
  <2> QED BY <2>1, <2>3 DEF IsRing
<1> QED BY <1>1, ListInvariance, PTL

--------------------------------------------------------------------------------
(* Stacks, and where the mains are. *)

\* The label at the bottom of a stack, or the one the core is at.
Bottom(f, l) == IF f = <<>> THEN l ELSE f[Len(f)]

\* A tick puts the handler and the label it interrupts on a stack.
LEMMA Push ==
    ASSUME NEW f \in Seq(Labels), Framed(f), NEW l \in Labels,
           l \in SuspendedHandler <=> f # <<>>
    PROVE  LET g == <<"tickret", l>> \o f
           IN  g \in Seq(Labels) /\ Framed(g) /\ g # <<>> /\ g[Len(g)] = Bottom(f, l)
<1> DEFINE g == <<"tickret", l>> \o f
<1>1. "tickret" \in SuspendedHandler /\ "tickret" \in Labels
  BY LabelFacts DEF SuspendedHandler
<1>2. g \in Seq(Labels) /\ Len(g) = Len(f) + 2
  BY <1>1
<1>3. g[1] = "tickret" /\ g[2] = l /\ \A i \in 3 .. Len(g) : g[i] = f[i - 2]
  BY <1>1
<1>4. f # <<>> <=> Len(f) > 0
  BY EmptySeq
<1>5. ASSUME NEW i \in 1 .. Len(g) PROVE g[i] \in SuspendedHandler <=> i < Len(g)
  <2>1. CASE i = 1
    BY <1>1, <1>2, <1>3, <2>1
  <2>2. CASE i = 2
    BY <1>2, <1>3, <1>4, <2>2
  <2>3. CASE i >= 3
    <3>1. g[i] = f[i - 2] /\ i - 2 \in 1 .. Len(f) /\ (i < Len(g) <=> i - 2 < Len(f))
      BY <1>2, <1>3, <2>3
    <3> QED BY <3>1 DEF Framed
  <2> QED BY <1>2, <2>1, <2>2, <2>3
<1>6. g[Len(g)] = Bottom(f, l)
  BY <1>2, <1>3, <1>4 DEF Bottom
<1>7. g # <<>>
  BY <1>2, EmptySeq
<1> QED BY <1>2, <1>5, <1>6, <1>7 DEF Framed

\* A return takes the innermost label off a stack.
LEMMA Pop ==
    ASSUME NEW f \in Seq(Labels), Framed(f), f # <<>>
    PROVE  /\ Tail(f) \in Seq(Labels) /\ Framed(Tail(f))
           /\ Head(f) \in SuspendedHandler <=> Tail(f) # <<>>
           /\ f[Len(f)] = Bottom(Tail(f), Head(f))
<1> DEFINE g == Tail(f)
<1>1. g \in Seq(Labels) /\ Len(g) = Len(f) - 1 /\ Head(f) = f[1]
  BY HeadTailProperties
<1>2. \A i \in 1 .. Len(g) : g[i] = f[i + 1]
  BY HeadTailProperties
<1>3. Framed(g)
  <2> SUFFICES ASSUME NEW i \in 1 .. Len(g) PROVE g[i] \in SuspendedHandler <=> i < Len(g)
    BY DEF Framed
  <2>1. g[i] = f[i + 1] /\ i + 1 \in 1 .. Len(f) /\ (i < Len(g) <=> i + 1 < Len(f))
    BY <1>1, <1>2
  <2> QED BY <2>1 DEF Framed
<1>4. Len(f) \in Nat /\ Len(f) >= 1 /\ (g = <<>> <=> Len(f) = 1)
  <2>1. Len(f) \in Nat \ {0}
    BY EmptySeq
  <2> HIDE DEF g
  <2>2. g = <<>> => Len(g) = 0
    BY EmptySeq
  <2>3. g # <<>> => Len(g) \in Nat \ {0}
    BY <1>1, EmptySeq
  <2> QED BY <1>1, <2>1, <2>2, <2>3
<1>5. Head(f) \in SuspendedHandler <=> g # <<>>
  <2>1. 1 \in 1 .. Len(f)
    BY <1>4
  <2>2. f[1] \in SuspendedHandler <=> 1 < Len(f)
    BY <2>1 DEF Framed
  <2> QED BY <1>1, <1>4, <2>2
<1>6. f[Len(f)] = Bottom(g, Head(f))
  BY <1>1, <1>2, <1>4 DEF Bottom
<1> QED BY <1>1, <1>3, <1>5, <1>6

\* The label of main is at the bottom of its stack.
LEMMA MainAtIs ==
    ASSUME NEW c \in Cores
    PROVE  /\ MainAt(c) = Bottom(frames[c][Main], pc[c])
           /\ MainAt(c)' = Bottom(frames'[c][Main], pc'[c])
BY DEF MainAt, Bottom

\* main waits in schedule() while another task has the core.
LEMMA MainWaits ==
    ASSUME TypeOK, NEW c \in Cores, CoreInv(c), FramesInv(c), cpu[c] # Main
    PROVE  frames[c][Main] # <<>>
<1>1. current[c] # NULL /\ ctx[c][Main] \in {"none", "fork", "resume"}
  BY TaskFacts DEF TypeOK, CoreInv, CpuIsCurrent
<1>2. ctx[c][Main] # "none"
  <2>1. CASE current[c] = Main
    BY <2>1 DEF CoreInv, CpuIsCurrent, FramesInv
  <2>2. CASE current[c] # Main
    BY <1>1, <2>2, TaskFacts DEF CoreInv, MainReady, Resumable
  <2> QED BY <2>1, <2>2
<1> QED BY <1>1, <1>2, TaskFacts DEF CoreInv, LabelFitsTask, FramesInv

\* main goes from one of its labels to another.
MainGoes(c) == frames[c][Main] = <<>> /\ frames'[c][Main] = <<>>

\* What a step with a new stack for the running task keeps.
LEMMA Restack ==
    ASSUME TypeOK, NEW c \in Cores, CoreInv(c), FramesInv(c), NEW f \in Seq(Labels), Framed(f),
           frames' = [frames EXCEPT ![c][cpu[c]] = f],
           f = <<>> <=> pc'[c] \notin SchedLabels, pc'[c] # "switch",
           UNCHANGED <<cpu[c], ctx[c]>>,
           cpu[c] = Main => Bottom(f, pc'[c]) = Bottom(frames[c][cpu[c]], pc[c])
    PROVE  FramesInv(c)' /\ MainAt(c)' = MainAt(c)
<1>1. /\ frames \in [Cores -> [Tasks -> Seq(Labels)]] /\ cpu[c] \in Tasks
  BY DEF TypeOK
<1>2. \A t \in Tasks : frames'[c][t] = IF t = cpu[c] THEN f ELSE frames[c][t]
  BY <1>1
<1>3. FramesInv(c)'
  <2>1. \A t \in Tasks : Framed(frames'[c][t])
    BY <1>2 DEF FramesInv
  <2>2. frames'[c][cpu'[c]] = <<>> <=> pc'[c] \notin SchedLabels
    BY <1>1, <1>2
  <2>3. \A t \in Tasks : ctx'[c][t] = "resume" => frames'[c][t] # <<>>
    BY <1>2 DEF FramesInv
  <2> QED BY <2>1, <2>2, <2>3 DEF FramesInv
<1>4. MainAt(c)' = MainAt(c)
  <2>1. CASE cpu[c] = Main
    BY <1>2, <2>1, TaskFacts, MainAtIs
  <2>2. CASE cpu[c] # Main
    <3>1. frames'[c][Main] = frames[c][Main] /\ frames[c][Main] # <<>>
      BY <1>2, <2>2, TaskFacts, MainWaits
    <3> QED BY <3>1, MainAtIs DEF Bottom
  <2> QED BY <2>1, <2>2
<1> QED BY <1>3, <1>4

\* A step that leaves the stacks alone.
LEMMA FramesStill ==
    ASSUME NEW c \in Cores, FramesInv(c), UNCHANGED <<frames[c], cpu[c], ctx[c]>>,
           pc'[c] \in SchedLabels <=> pc[c] \in SchedLabels,
           pc'[c] = "switch" => ctx[c][current'[c]] # "none"
    PROVE  FramesInv(c)' /\ (MainAt(c)' = MainAt(c) \/ MainGoes(c))
<1>1. FramesInv(c)'
  BY DEF FramesInv
<1>2. MainAt(c)' = MainAt(c) \/ MainGoes(c)
  BY MainAtIs DEF Bottom, MainGoes
<1> QED BY <1>1, <1>2

\* A call of schedule() out of main, or out of exit_task().
LEMMA FramesCall ==
    ASSUME TypeOK, NEW c \in Cores, CoreInv(c), FramesInv(c), pc[c] \notin SchedLabels,
           NEW k \in Labels \ SchedLabels, CallSchedule(c, <<k>>),
           cpu[c] = Main => k = pc[c], UNCHANGED <<cpu[c], ctx[c]>>
    PROVE  FramesInv(c)' /\ MainAt(c)' = MainAt(c)
<1>1. frames[c][cpu[c]] = <<>> /\ pc'[c] = "sched" /\ "sched" \in SchedLabels
  BY DEF FramesInv, CallSchedule, Goto, TypeOK, SchedLabels
<1>2. <<k>> \in Seq(Labels) /\ <<k>> # <<>> /\ Len(<<k>>) = 1 /\ <<k>>[1] = k
  OBVIOUS
<1>3. frames' = [frames EXCEPT ![c][cpu[c]] = <<k>>]
  <2>1. <<k>> \o <<>> = <<k>>
    OBVIOUS
  <2>2. frames' = [frames EXCEPT ![c][cpu[c]] = <<k>> \o frames[c][cpu[c]]]
    BY DEF CallSchedule
  <2> QED BY <1>1, <2>1, <2>2
<1>4. Framed(<<k>>)
  <2>1. k \notin SuspendedHandler
    BY DEF SuspendedHandler, SchedLabels
  <2> QED BY <1>2, <2>1 DEF Framed
<1>5. cpu[c] = Main => Bottom(<<k>>, pc'[c]) = Bottom(frames[c][cpu[c]], pc[c])
  BY <1>1, <1>2 DEF Bottom
<1> QED BY <1>1, <1>2, <1>3, <1>4, <1>5, Restack

\* A timer interrupt.
LEMMA FramesTick ==
    ASSUME TypeOK, NEW c \in Cores, CoreInv(c), FramesInv(c), Tick(c)
    PROVE  FramesInv(c)' /\ MainAt(c)' = MainAt(c)
<1> DEFINE f == frames[c][cpu[c]]
<1> DEFINE g == <<"tickret", pc[c]>> \o f
<1>1. f \in Seq(Labels) /\ pc[c] \in Labels /\ Framed(f)
  BY DEF TypeOK, FramesInv
<1>2. pc[c] \notin Critical
  BY DEF Tick, Preemptible, CoreInv, GuardHeld
<1>3. pc[c] \in SuspendedHandler <=> f # <<>>
  BY <1>2 DEF FramesInv, SuspendedHandler, SchedLabels, Critical
<1>4. g \in Seq(Labels) /\ Framed(g) /\ g # <<>> /\ g[Len(g)] = Bottom(f, pc[c])
  <2> HIDE DEF f
  <2> QED BY <1>1, <1>3, Push
<1>5. frames' = [frames EXCEPT ![c][cpu[c]] = g] /\ pc'[c] = "sched"
  BY DEF Tick, CallSchedule, Goto, TypeOK
<1>6. UNCHANGED <<cpu[c], ctx[c]>> /\ "sched" \in SchedLabels
  BY DEF Tick, SchedLabels
<1>7. Bottom(g, pc'[c]) = Bottom(f, pc[c])
  <2> HIDE DEF f, g
  <2> QED BY <1>4 DEF Bottom
<1> HIDE DEF g
<1> QED BY <1>4, <1>5, <1>6, <1>7, Restack

\* schedule() or the handler returns.
LEMMA FramesReturn ==
    ASSUME TypeOK, NEW c \in Cores, StacksReturn(c), CoreInv(c), FramesInv(c), Return(c),
           UNCHANGED <<cpu[c], ctx[c]>>
    PROVE  FramesInv(c)' /\ MainAt(c)' = MainAt(c)
<1> DEFINE f == frames[c][cpu[c]]
<1> DEFINE g == Tail(f)
<1>1. f \in Seq(Labels) /\ Framed(f) /\ f # <<>>
  BY DEF TypeOK, FramesInv, Return
<1>2. /\ g \in Seq(Labels) /\ Framed(g)
      /\ Head(f) \in SuspendedHandler <=> g # <<>>
      /\ f[Len(f)] = Bottom(g, Head(f))
  <2> HIDE DEF f
  <2> QED BY <1>1, Pop
<1>3. frames' = [frames EXCEPT ![c][cpu[c]] = g] /\ pc'[c] = Head(f)
  BY DEF Return, Goto, TypeOK
<1>4. pc'[c] \in Returns(cpu[c])
  BY ReturnStack
<1>5. pc'[c] \in SchedLabels <=> pc'[c] \in SuspendedHandler
  BY <1>4 DEF Returns, MainReturns, TaskReturns, SuspendedHandler, SchedLabels
<1>6. pc'[c] # "switch"
  BY <1>4 DEF Returns, MainReturns, TaskReturns, SuspendedHandler
<1>7. Bottom(g, pc'[c]) = Bottom(f, pc[c])
  <2> HIDE DEF f, g
  <2> QED BY <1>1, <1>2, <1>3 DEF Bottom
<1> HIDE DEF g
<1> QED BY <1>2, <1>3, <1>5, <1>6, <1>7, Restack

\* The stack that is left stays as it is, and so does the one that is resumed.
LEMMA FramesSwitch ==
    ASSUME TypeOK, TypeOK', NEW c \in Cores, CoreInv(c), FramesInv(c), ContextSwitch(c)
    PROVE  FramesInv(c)' /\ MainAt(c)' = MainAt(c)
<1> DEFINE t == temp[c]
<1>1. /\ pc[c] = "switch" /\ current[c] = t /\ t # NULL /\ t # cpu[c]
      /\ t \in Tasks /\ cpu[c] \in Tasks
  BY DEF ContextSwitch, At, TypeOK, CoreInv, CpuIsCurrent
<1>2. /\ cpu'[c] = t /\ UNCHANGED current
      /\ pc'[c] = (IF ctx[c][t] = "fork" THEN "fork" ELSE "resume")
      /\ ctx'[c] = [Saved(c) EXCEPT ![t] = "none"]
  BY DEF ContextSwitch, Goto, coreVars, TypeOK
<1>3. \A u \in Tasks : ctx'[c][u] = IF u = t THEN "none"
                                     ELSE IF u = cpu[c] THEN "resume" ELSE ctx[c][u]
  <2>1. ctx[c] \in [Tasks -> {"none", "fork", "resume"}]
    BY DEF TypeOK
  <2> QED BY <1>1, <1>2, <2>1 DEF Saved
<1>4. ctx[c][t] \in {"fork", "resume"}
  BY <1>1 DEF FramesInv, TypeOK
<1>5. frames[c][cpu[c]] # <<>>
  BY <1>1 DEF FramesInv, SchedLabels
<1>6. \A u \in Tasks : frames'[c][u] = IF u = t /\ ctx[c][t] = "fork" THEN <<>>
                                        ELSE frames[c][u]
  <2>1. frames \in [Cores -> [Tasks -> Seq(Labels)]]
    BY DEF TypeOK
  <2> QED BY <1>1, <2>1 DEF ContextSwitch
<1>7. FramesInv(c)'
  <2>1. frames'[c][t] = <<>> <=> pc'[c] \notin SchedLabels
    <3>1. CASE ctx[c][t] = "fork"
      BY <1>1, <1>2, <1>6, <3>1 DEF SchedLabels
    <3>2. CASE ctx[c][t] # "fork"
      BY <1>1, <1>2, <1>4, <1>6, <3>2 DEF FramesInv, SchedLabels
    <3> QED BY <3>1, <3>2
  <2>2. \A u \in Tasks : ctx'[c][u] = "resume" => frames'[c][u] # <<>>
    BY <1>1, <1>3, <1>5, <1>6 DEF FramesInv
  <2>3. ctx'[c][cpu'[c]] = "none" /\ pc'[c] # "switch"
    BY <1>1, <1>2, <1>3
  <2>4. \A u \in Tasks : Framed(frames'[c][u])
    <3>1. Framed(<<>>)
      BY DEF Framed
    <3> QED BY <1>6, <3>1 DEF FramesInv
  <2> QED BY <1>2, <2>1, <2>2, <2>3, <2>4 DEF FramesInv
<1>8. MainAt(c)' = MainAt(c)
  <2>1. frames[c][Main] # <<>>
    BY <1>1, <1>5, MainWaits
  <2>2. Main \in Tasks /\ (Main = t => ctx[c][t] # "fork")
    BY TaskFacts DEF CoreInv, LabelFitsTask
  <2>3. frames'[c][Main] = frames[c][Main]
    BY <1>6, <2>2
  <2> QED BY <2>1, <2>3, MainAtIs DEF Bottom
<1> QED BY <1>7, <1>8

\* A core's own steps.
LEMMA FramesOwn ==
    ASSUME IInv, TypeOK', NEW c \in Cores \ early, FramesInv(c),
           Step(c) \/ Tick(c) \/ ExitTask(c)
    PROVE  FramesInv(c)' /\ (MainAt(c)' = MainAt(c) \/ MainGoes(c))
<1> USE DEF At, Goto, tableVars, coreVars, timerVars, progVars
<1>0. TypeOK /\ StacksReturn(c) /\ CoreInv(c)
  BY DEF IInv
<1>1. CASE Tick(c)
  BY <1>0, <1>1, FramesTick
<1>2. CASE TickReturn(c) \/ ScheduleReturn(c)
  BY <1>0, <1>2, FramesReturn DEF TickReturn, ScheduleReturn
<1>3. CASE ContextSwitch(c)
  BY <1>0, <1>3, FramesSwitch
<1>4. CASE Schedule(c) \/ ScanNext(c) \/ ScanFound(c)
  <2>1. UNCHANGED <<frames, cpu, ctx>>
    BY <1>4 DEF Schedule, ScanNext, ScanFound
  <2>2. pc[c] \in {"sched", "scan"} /\ pc'[c] \in {"scan", "resume", "switch"}
    BY <1>0, <1>4 DEF Schedule, ScanNext, ScanFound, TypeOK
  <2>3. ASSUME pc'[c] = "switch" PROVE ctx[c][current'[c]] # "none"
    <3>1. ScanFound(c)
      BY <1>0, <1>4, <2>3 DEF Schedule, ScanNext, TypeOK
    <3>2. current'[c] = temp[c] /\ temp[c] \in Tasks /\ state[c][temp[c]] = TASK_READY
          /\ pc[c] = "scan"
      BY <1>0, <3>1 DEF ScanFound, TypeOK
    <3> QED BY <1>0, <3>2 DEF CoreInv, Resumable
  <2> QED BY <2>1, <2>2, <2>3, FramesStill DEF SchedLabels
<1>5. CASE ExitUnlinkPrevious(c)
  <2>1. pc[c] = "unlinked" /\ CallSchedule(c, <<"body">>) /\ UNCHANGED <<cpu, ctx>>
    BY <1>5 DEF ExitUnlinkPrevious
  <2>2. cpu[c] # Main
    BY <1>0, <2>1 DEF CoreInv, LabelFitsTask, TaskLabels, ExitLabels
  <2>3. "body" \in Labels \ SchedLabels /\ pc[c] \notin SchedLabels
    BY <2>1, LabelFacts DEF SchedLabels
  <2> QED BY <1>0, <2>1, <2>2, <2>3, FramesCall
<1>6. CASE JoinAll(c) /\ MustWait(c)
  <2>1. pc[c] = "join" /\ CallSchedule(c, <<"join">>) /\ UNCHANGED <<cpu, ctx>>
    BY <1>6 DEF JoinAll
  <2>2. "join" \in Labels \ SchedLabels
    BY LabelFacts DEF SchedLabels
  <2> QED BY <1>0, <2>1, <2>2, FramesCall
<1>7. CASE RetFromFork(c) \/ ExitTask(c) \/ ExitCount(c) \/ ExitUnlinkNext(c)
  <2>1. UNCHANGED <<frames, cpu, ctx>> /\ pc[c] \notin SchedLabels
    BY <1>7 DEF RetFromFork, ExitTask, ExitCount, ExitUnlinkNext, SchedLabels
  <2>2. pc'[c] \notin SchedLabels
    <3>1. CASE RetFromFork(c)
      BY <1>0, <3>1 DEF RetFromFork, SchedLabels, TypeOK
    <3>2. CASE ExitTask(c)
      BY <1>0, <3>2 DEF ExitTask, SchedLabels, TypeOK
    <3>3. CASE ExitCount(c)
      BY <1>0, <3>3 DEF ExitCount, SchedLabels, TypeOK
    <3>4. CASE ExitUnlinkNext(c)
      BY <1>0, <3>4 DEF ExitUnlinkNext, SchedLabels, TypeOK
    <3> QED BY <1>7, <3>1, <3>2, <3>3, <3>4
  <2> QED BY <2>1, <2>2, FramesStill DEF SchedLabels
<1>8. CASE \/ Wake(c) \/ SecondaryInit(c) \/ StartMain(c) \/ ArmTimer(c)
           \/ (JoinAll(c) /\ ~MustWait(c)) \/ JoinLeave(c) \/ SleepAgain(c)
  <2>1. UNCHANGED <<frames, cpu, ctx>> /\ pc[c] \notin SchedLabels
    BY <1>8 DEF Wake, SecondaryInit, StartMain, ArmTimer, JoinAll, JoinLeave, SleepAgain, SchedLabels
  <2>2. pc'[c] \notin SchedLabels
    <3>1. CASE Wake(c)
      BY <1>0, <3>1 DEF Wake, SchedLabels, TypeOK
    <3>2. CASE SecondaryInit(c)
      BY <1>0, <3>2 DEF SecondaryInit, SchedLabels, TypeOK
    <3>3. CASE StartMain(c)
      BY <1>0, <3>3 DEF StartMain, SchedLabels, TypeOK
    <3>4. CASE ArmTimer(c)
      BY <1>0, <3>4 DEF ArmTimer, SchedLabels, TypeOK
    <3>5. CASE JoinAll(c) /\ ~MustWait(c)
      BY <1>0, <3>5 DEF JoinAll, SchedLabels, TypeOK
    <3>6. CASE JoinLeave(c)
      BY <1>0, <3>6 DEF JoinLeave, SchedLabels, TypeOK
    <3>7. CASE SleepAgain(c)
      BY <1>0, <3>7 DEF SleepAgain, SchedLabels, TypeOK
    <3> QED BY <1>8, <3>1, <3>2, <3>3, <3>4, <3>5, <3>6, <3>7
  <2> QED BY <2>1, <2>2, FramesStill DEF SchedLabels
<1> QED BY <1>1, <1>2, <1>3, <1>4, <1>5, <1>6, <1>7, <1>8 DEF Step

\* fork_task() touches no stack, and no main moves but core 0's.
LEMMA FramesFork ==
    ASSUME IInv, NEW d \in Cores, Fork(d), NEW c \in Cores \ early', c \notin early,
           FramesInv(c)
    PROVE  FramesInv(c)' /\ (MainAt(c)' = MainAt(c) \/ MainGoes(c))
<1> USE CoresAssumption DEF tableVars
<1>0. TypeOK
  BY DEF IInv
<1>1. /\ pc[CORE0] \in ForkLabels /\ pc'[CORE0] \in ForkLabels
      /\ c # CORE0 => pc'[c] = pc[c]
      /\ UNCHANGED cpu
  BY ForkAt
<1>2. UNCHANGED frames
  BY DEF Fork, ForkTask, ForkPanic, LinkFirst, LinkNext, LinkPrevious, ForkCount
<1>3. /\ pc'[c] \in SchedLabels <=> pc[c] \in SchedLabels
      /\ pc'[c] = "switch" => pc[c] = "switch" /\ c # CORE0
  BY <1>1 DEF ForkLabels, SchedLabels
<1>4. CASE ForkTask(d) /\ c = d
  <2>1. c = CORE0 \/ Asleep(c)
    BY <1>4, ForkAt DEF ForkTask, ForkPanic
  <2>2. cpu[c] = Main /\ pc[c] \notin SchedLabels
    BY <1>1, <2>1, WhileForking DEF Asleep, ForkLabels, SchedLabels
  <2>3. PICK p \in FreeSlots(c) : ctx' = [ctx EXCEPT ![c][p] = "fork"]
    BY <1>4 DEF ForkTask
  <2>4. p \in Tasks /\ p # Main /\ Main \in Tasks
    BY TaskFacts DEF FreeSlots
  <2>5. \A t \in Tasks : ctx'[c][t] = IF t = p THEN "fork" ELSE ctx[c][t]
    BY <1>0, <2>3, <2>4 DEF TypeOK
  <2>6. FramesInv(c)'
    BY <1>1, <1>2, <1>3, <2>2, <2>4, <2>5 DEF FramesInv, SchedLabels
  <2> QED BY <1>2, <2>2, <2>6, MainAtIs DEF Bottom, MainGoes, FramesInv
<1>5. CASE ~(ForkTask(d) /\ c = d)
  <2>1. UNCHANGED ctx[c]
    <3>1. CASE c # d
      BY <1>0, <3>1, ForkElsewhere
    <3>2. CASE c = d
      BY <1>5, <3>2 DEF Fork, ForkPanic, LinkFirst, LinkNext, LinkPrevious, ForkCount
    <3> QED BY <3>1, <3>2
  <2>2. ASSUME pc'[c] = "switch" PROVE current'[c] = current[c]
    <3>1. c # d \/ ForkPanic(d)
      BY <1>3, <2>2, ForkAt DEF Asleep
    <3> QED BY <1>0, <3>1, ForkElsewhere
  <2>3. pc'[c] = "switch" => ctx[c][current'[c]] # "none"
    BY <1>3, <2>2 DEF FramesInv
  <2> QED BY <1>1, <1>2, <1>3, <2>1, <2>3, FramesStill
<1> QED BY <1>4, <1>5

\* The rest of the program of core 0.
LEMMA FramesProgram ==
    ASSUME IInv, TypeOK', NEW c \in Cores \ early, FramesInv(c),
           ThreadingInit \/ KickCores \/ StartJoin \/ JoinTask \/ NextRound
    PROVE  FramesInv(c)' /\ (MainAt(c)' = MainAt(c) \/ MainGoes(c))
<1> USE CoresAssumption DEF At, Goto, tableVars, coreVars, cpuVars, timerVars, progVars
<1>0. TypeOK /\ CoreInv(c) /\ CoreInv(CORE0)
  BY DEF IInv, TypeOK
<1>1. CASE JoinTask /\ state[target[1]][target[2]] # TASK_ZOMBIE
  <2>1. pc[CORE0] = "joinT" /\ CallSchedule(CORE0, <<"joinT">>)
        /\ UNCHANGED <<cpu, ctx, current>>
    BY <1>1 DEF JoinTask
  <2>2. "joinT" \in Labels \ SchedLabels /\ "joinT" \notin SchedLabels
    BY LabelFacts DEF SchedLabels
  <2>3. CASE c = CORE0
    BY <1>0, <2>1, <2>2, <2>3, FramesCall
  <2>4. CASE c # CORE0
    <3>1. UNCHANGED <<frames[c], pc[c]>>
      BY <1>0, <2>1, <2>4 DEF CallSchedule, TypeOK
    <3> QED BY <2>1, <3>1, MainAtIs DEF FramesInv, MainAt
  <2> QED BY <2>3, <2>4
<1>2. CASE ~(JoinTask /\ state[target[1]][target[2]] # TASK_ZOMBIE)
  <2>1. PICK l \in {"forks", "kick", "start", "joinT", "join", "halt"} :
          pc' = [pc EXCEPT ![CORE0] = l]
    BY <1>2 DEF ThreadingInit, KickCores, StartJoin, JoinTask, NextRound
  <2>2. UNCHANGED <<frames, cpu, ctx, current>>
        /\ pc[CORE0] \in {"forks", "kick", "started", "joinT", "rest"}
    BY <1>2 DEF ThreadingInit, KickCores, StartJoin, JoinTask, NextRound
  <2>3. pc'[c] \in SchedLabels <=> pc[c] \in SchedLabels
    BY <1>0, <2>1, <2>2 DEF TypeOK, SchedLabels
  <2>4. pc'[c] = "switch" => pc[c] = "switch"
    BY <1>0, <2>1, <2>2 DEF TypeOK
  <2> QED BY <2>2, <2>3, <2>4, FramesStill DEF FramesInv
<1> QED BY <1>1, <1>2

\* The stacks of a core after any step, and where its main is.
LEMMA FramesStep ==
    ASSUME IInv, TypeOK', [Next]_vars, NEW c \in Cores \ early', FramesInv(c)
    PROVE  FramesInv(c)' /\ (MainAt(c)' = MainAt(c) \/ MainGoes(c))
<1>0. TypeOK /\ c \notin early
  BY EarlyStays DEF IInv
<1>1. ASSUME NEW d \in Cores \ {c}, Step(d) \/ Tick(d) \/ ExitTask(d)
      PROVE  FramesInv(c)' /\ MainAt(c)' = MainAt(c)
  <2>1. RowUnchanged(c)
    BY <1>1, OwnStep
  <2>2. frames'[c] = frames[c]
    <3>1. CASE UNCHANGED frames
      BY <3>1
    <3>2. CASE CallSchedule(d, <<"tickret", pc[d]>>) \/ CallSchedule(d, <<"body">>)
               \/ CallSchedule(d, <<"join">>) \/ Return(d)
      BY <1>0, <1>1, <3>2 DEF CallSchedule, Return, TypeOK
    <3>3. CASE ContextSwitch(d)
      BY <1>0, <1>1, <3>3 DEF ContextSwitch, TypeOK
    <3> QED BY <1>1, <3>1, <3>2, <3>3
        DEF Step, TickReturn, Schedule, ScanNext, ScanFound, Tick, tableVars, ScheduleReturn, RetFromFork, ExitTask, ExitCount, ExitUnlinkNext,
            ExitUnlinkPrevious, Wake, SecondaryInit, StartMain, ArmTimer, JoinAll, JoinLeave,
            SleepAgain
  <2> QED BY <2>1, <2>2 DEF RowUnchanged, FramesInv, MainAt
<1>2. CASE Step(c) \/ Tick(c) \/ ExitTask(c)
  BY <1>0, <1>2, FramesOwn
<1>3. ASSUME NEW d \in Cores, Fork(d)
      PROVE  FramesInv(c)' /\ (MainAt(c)' = MainAt(c) \/ MainGoes(c))
  BY <1>0, <1>3, FramesFork
<1>4. CASE ThreadingInit \/ KickCores \/ StartJoin \/ JoinTask \/ NextRound
  BY <1>0, <1>4, FramesProgram
<1>5. CASE UNCHANGED vars
  BY <1>5 DEF vars, tableVars, coreVars, cpuVars, FramesInv, MainAt
<1> QED BY <1>1, <1>2, <1>3, <1>4, <1>5 DEF Next, Program, Stopped

--------------------------------------------------------------------------------
(* Rounds of forks, threads and joins. *)

\* The last schedule() of a dead task ends in another task.
LEMMA DeadLeavesStep ==
    ASSUME IInv, TypeOK', [Next]_vars, NEW c \in Cores \ early', RingInv(c), DeadLeaves(c)
    PROVE  DeadLeaves(c)'
<1> USE CoresAssumption, TaskFacts DEF At, Goto, tableVars, coreVars, cpuVars, timerVars, progVars
<1>0. TypeOK /\ c \notin early /\ CoreInv(c) /\ CurrentSet(c)
  BY EarlyStays DEF IInv
<1>1. ASSUME UNCHANGED <<state[c], current[c]>>,
             \/ pc[c] \notin ExitLabels \cup {"sched", "scan"}
             \/ pc'[c] \in ExitLabels \cup {"sched", "scan"}
      PROVE  DeadLeaves(c)'
  BY <1>1 DEF DeadLeaves, Live
<1>2. ASSUME NEW d \in Cores \ {c}, Step(d) \/ Tick(d) \/ ExitTask(d) PROVE DeadLeaves(c)'
  BY <1>1, <1>2, OwnStep DEF RowUnchanged
<1>3. CASE \/ Tick(c) \/ Schedule(c) \/ ExitCount(c) \/ ExitUnlinkNext(c) \/ ExitUnlinkPrevious(c)
  <2>1. /\ UNCHANGED <<state, current>> /\ pc'[c] \in ExitLabels \cup {"sched", "scan"}
    BY <1>0, <1>3 DEF Tick, Schedule, ExitCount, ExitUnlinkNext, ExitUnlinkPrevious,
                      CallSchedule, TypeOK, ExitLabels
  <2> QED BY <1>1, <2>1
<1>4. CASE ScanNext(c)
  <2>1. current[c] # NULL /\ pc[c] = "scan" /\ current[c] \in Tasks
    BY <1>0, <1>4 DEF ScanNext, CoreInv, CurrentSet, ForkLabels, TypeOK
  <2>2. temp[c] # NULL
    BY <2>1, LinkedType DEF RingInv
  <2>3. UNCHANGED <<pc, state, current>>
    BY <1>4, <2>2 DEF ScanNext
  <2> QED BY <1>1, <2>1, <2>3
<1>5. CASE ScanFound(c)
  <2>1. /\ current'[c] = temp[c] /\ temp[c] \in Tasks
        /\ state'[c] = [Demoted(c) EXCEPT ![temp[c]] = TASK_RUNNING]
    BY <1>0, <1>5 DEF ScanFound, TypeOK
  <2>2. Demoted(c) \in [Tasks -> {TASK_ZOMBIE, TASK_READY, TASK_RUNNING}]
    BY <1>0 DEF Demoted, TypeOK
  <2>3. state'[c][temp[c]] = TASK_RUNNING
    BY <2>1, <2>2
  <2> QED BY <2>1, <2>3 DEF DeadLeaves, Live
<1>6. CASE ExitTask(c)
  <2>1. pc'[c] = "zombied"
    BY <1>0, <1>6 DEF ExitTask, TypeOK
  <2> QED BY <2>1 DEF DeadLeaves, ExitLabels
<1>7. CASE StartMain(c)
  <2>1. current'[c] = current[c] /\ current[c] \in {Main, NULL}
    BY <1>0, <1>7 DEF StartMain, CoreInv, CpuIsCurrent, LabelFitsTask, MainLabels
  <2> QED BY <2>1 DEF DeadLeaves
<1>8. CASE \/ TickReturn(c) \/ ContextSwitch(c) \/ ScheduleReturn(c) \/ RetFromFork(c)
           \/ Wake(c) \/ SecondaryInit(c) \/ ArmTimer(c) \/ JoinAll(c) \/ JoinLeave(c)
           \/ SleepAgain(c)
  <2>1. UNCHANGED <<state, current>> /\ pc[c] \notin ExitLabels \cup {"sched", "scan"}
    BY <1>8 DEF TickReturn, ContextSwitch, ScheduleReturn, RetFromFork, Wake, SecondaryInit,
                ArmTimer, JoinAll, JoinLeave, SleepAgain, ExitLabels
  <2> QED BY <1>1, <2>1
<1>9. ASSUME NEW d \in Cores, Fork(d) PROVE DeadLeaves(c)'
  <2>1. pc[CORE0] \in ForkLabels /\ (c # CORE0 => pc'[c] = pc[c])
    BY <1>9, ForkAt
  <2>2. CASE c # d \/ ForkPanic(d)
    <3>1. UNCHANGED <<state[c], current[c]>>
      BY <1>0, <1>9, <2>2, ForkElsewhere
    <3> QED BY <1>1, <2>1, <3>1 DEF ForkLabels, ExitLabels
  <2>3. CASE c = d /\ ~ForkPanic(d)
    <3>1. c = CORE0 \/ Asleep(c)
      BY <1>9, <2>3, ForkAt
    <3>2. current[c] \in {NULL, Main}
      BY <1>0, <2>1, <3>1, WhileForking DEF Asleep
    <3>3. current' = current \/ current' = [current EXCEPT ![d] = Main]
      BY <1>9 DEF Fork, ForkTask, ForkPanic, LinkFirst, LinkNext, LinkPrevious, ForkCount
    <3>4. current'[c] \in {NULL, Main}
      BY <1>0, <3>2, <3>3 DEF TypeOK
    <3> QED BY <3>4 DEF DeadLeaves
  <2> QED BY <2>2, <2>3
<1>10. CASE ThreadingInit \/ KickCores \/ StartJoin \/ JoinTask \/ NextRound
  <2>1. PICK l \in Labels : pc' = [pc EXCEPT ![CORE0] = l]
    BY <1>10, LabelFacts DEF ThreadingInit, KickCores, StartJoin, JoinTask, NextRound, CallSchedule
  <2>2. UNCHANGED <<state, current>>
        /\ pc[CORE0] \in {"forks", "kick", "started", "joinT", "rest"}
    BY <1>10 DEF ThreadingInit, KickCores, StartJoin, JoinTask, NextRound
  <2>3. pc[c] \in ExitLabels \cup {"sched", "scan"} => pc'[c] = pc[c]
    BY <1>0, <2>1, <2>2 DEF TypeOK, ExitLabels
  <2> QED BY <1>1, <2>2, <2>3
<1>11. CASE UNCHANGED vars
  BY <1>11 DEF vars, DeadLeaves, Live
<1> QED
  BY <1>2, <1>3, <1>4, <1>5, <1>6, <1>7, <1>8, <1>9, <1>10, <1>11
  DEF Next, Step, Program, Stopped

\* fork_task() alone makes tasks live, one at a time.
LEMMA WorkersStep ==
    ASSUME IInv, [Next]_vars, NEW c \in Cores \ early'
    PROVE  \/ Workers(c)' \subseteq Workers(c)
           \/ ForkTask(c) /\ \E p \in FreeSlots(c) : Workers(c)' = Workers(c) \cup {p}
<1> USE CoresAssumption, TaskFacts DEF At, tableVars
<1>0. /\ TypeOK /\ c \notin early /\ CoreInv(c) /\ CurrentSet(c)
      /\ state \in [Cores -> [Tasks -> {TASK_ZOMBIE, TASK_READY, TASK_RUNNING}]]
  BY EarlyStays DEF IInv, TypeOK
<1>1. ASSUME NEW t \in Tasks \cup {NULL}, NEW d \in Cores,
             state' = [state EXCEPT ![d][t] = TASK_ZOMBIE] \/ t = Main,
             NEW x, state' = [state EXCEPT ![d][t] = x]
      PROVE  Workers(c)' \subseteq Workers(c)
  <2> SUFFICES ASSUME NEW u \in Tasks, u # Main, state'[c][u] # TASK_ZOMBIE
               PROVE  state[c][u] # TASK_ZOMBIE
    BY DEF Workers, Live
  <2>1. d # c \/ u # t => state'[c][u] = state[c][u]
    BY <1>0, <1>1
  <2>2. d = c /\ u = t => state'[c][u] = TASK_ZOMBIE
    BY <1>0, <1>1
  <2> QED BY <2>1, <2>2
<1>2. CASE UNCHANGED state
  BY <1>2 DEF Workers, Live
<1>3. ASSUME NEW d \in Cores, ScanFound(d) PROVE Workers(c)' \subseteq Workers(c)
  <2>1. /\ state' = [state EXCEPT ![d] = [Demoted(d) EXCEPT ![temp[d]] = TASK_RUNNING]]
        /\ temp[d] \in Tasks /\ state[d][temp[d]] = TASK_READY
    BY <1>0, <1>3 DEF ScanFound, TypeOK
  <2>2. CASE c # d
    <3>1. state'[c] = state[c]
      BY <1>0, <2>1, <2>2
    <3> QED BY <3>1 DEF Workers, Live
  <2>3. CASE c = d
    <3>1. state'[c] = [Demoted(c) EXCEPT ![temp[c]] = TASK_RUNNING]
      BY <1>0, <2>1, <2>3
    <3>2. ASSUME NEW u \in Tasks, state[c][u] = TASK_ZOMBIE PROVE state'[c][u] = TASK_ZOMBIE
      <4>1. /\ Demoted(c)[u] = TASK_ZOMBIE
            /\ Demoted(c) \in [Tasks -> {TASK_ZOMBIE, TASK_READY, TASK_RUNNING}]
        BY <1>0, <3>2 DEF Demoted
      <4>2. u # temp[c]
        BY <2>1, <2>3, <3>2
      <4> QED BY <3>1, <4>1, <4>2
    <3> QED BY <3>2 DEF Workers, Live
  <2> QED BY <2>2, <2>3
<1>4. ASSUME NEW d \in Cores, ExitTask(d) PROVE Workers(c)' \subseteq Workers(c)
  <2>1. state' = [state EXCEPT ![d][current[d]] = TASK_ZOMBIE] /\ current[d] \in Tasks \cup {NULL}
    BY <1>0, <1>4 DEF ExitTask, TypeOK
  <2> QED BY <1>1, <2>1
<1>5. ASSUME NEW d \in Cores, StartMain(d) PROVE Workers(c)' \subseteq Workers(c)
  <2>1. CASE c # d
    <3>1. state'[c] = state[c]
      BY <1>0, <1>5, <2>1 DEF StartMain
    <3> QED BY <3>1 DEF Workers, Live
  <2>2. CASE c = d
    <3>1. current[c] = Main
      BY <1>0, <1>5, <2>2
      DEF StartMain, CoreInv, CpuIsCurrent, LabelFitsTask, MainLabels, CurrentSet, ForkLabels
    <3>2. state' = [state EXCEPT ![c] = [state[c] EXCEPT ![Main] = TASK_RUNNING]]
      BY <1>5, <2>2, <3>1 DEF StartMain, Started
    <3>3. state' = [state EXCEPT ![c][Main] = TASK_RUNNING]
      BY <1>0, <3>2
    <3> QED BY <1>1, <3>3
  <2> QED BY <2>1, <2>2
<1>6. ASSUME NEW d \in Cores, ForkTask(d)
      PROVE  \/ Workers(c)' \subseteq Workers(c)
             \/ ForkTask(c) /\ \E p \in FreeSlots(c) : Workers(c)' = Workers(c) \cup {p}
  <2>1. PICK p \in FreeSlots(d) : state' = [state EXCEPT ![d][p] = TASK_READY]
    BY <1>6 DEF ForkTask
  <2>2. p \in Tasks /\ p # Main
    BY DEF FreeSlots
  <2>3. CASE c # d
    <3>1. state'[c] = state[c]
      BY <1>0, <2>1, <2>3
    <3> QED BY <3>1 DEF Workers, Live
  <2>4. CASE c = d
    <3>1. \A u \in Tasks : state'[c][u] = IF u = p THEN TASK_READY ELSE state[c][u]
      BY <1>0, <2>1, <2>2, <2>4
    <3>2. Workers(c)' = Workers(c) \cup {p}
      BY <2>2, <3>1 DEF Workers, Live
    <3> QED BY <1>6, <2>4, <3>2
  <2> QED BY <2>3, <2>4
<1>7. CASE UNCHANGED vars
  BY <1>2, <1>7 DEF vars
<1> QED
  BY <1>2, <1>3, <1>4, <1>5, <1>6, <1>7
  DEF Next, Step, Fork, Program, Stopped, TickReturn, Schedule, ScanNext, ContextSwitch, Tick,
      ScheduleReturn, RetFromFork, ExitCount, ExitUnlinkNext, ExitUnlinkPrevious, Wake,
      SecondaryInit, ArmTimer, JoinAll, JoinLeave, SleepAgain, ForkPanic, LinkFirst, LinkNext,
      LinkPrevious, ForkCount, ThreadingInit, KickCores, StartJoin, JoinTask, NextRound

\* How large small sets are.
LEMMA TwoSet ==
    ASSUME NEW a, NEW b, a # b
    PROVE  IsFiniteSet({a, b}) /\ Cardinality({a, b}) = 2
<1>1. Cardinality({a}) = 1 /\ IsFiniteSet({a})
  BY FS_Singleton
<1>2. b \notin {a} /\ {a} \cup {b} = {a, b}
  OBVIOUS
<1>3. IsFiniteSet({a} \cup {b}) /\ Cardinality({a} \cup {b}) = Cardinality({a}) + 1
  BY <1>1, <1>2, FS_AddElement
<1>4. IsFiniteSet({a, b}) /\ Cardinality({a, b}) = 2
  BY <1>1, <1>2, <1>3
<1> QED BY <1>4

\* Three members.
LEMMA ThreeSet ==
    ASSUME NEW a, NEW b, NEW x, a # b, x \notin {a, b}
    PROVE  Cardinality({a, b} \cup {x}) = 3
<1>1. IsFiniteSet({a, b}) /\ Cardinality({a, b}) = 2
  BY TwoSet
<1>2. Cardinality({a, b} \cup {x}) = Cardinality({a, b}) + 1
  BY <1>1, FS_AddElement
<1> QED BY <1>1, <1>2

\* A list of one is main's, whether or not a task is on its way out of it.
LEMMA FewTasks ==
    ASSUME IInv, NEW c \in Cores \ early, RingInv(c), NoFork(c), current[c] # NULL,
           tasks_num[c] <= 1
    PROVE  Workers(c) = {}
<1>1. /\ Main \in Linked(c) /\ IsFiniteSet(Linked(c)) /\ tasks_num[c] \in Int
      /\ Cardinality(Linked(c)) = tasks_num[c] + Uncounted(c)
  BY LinkedType, LinkedFinite DEF RingInv, IInv, TypeOK
<1>2. Live(c) \subseteq Linked(c)
  BY DEF Linked, Live, NoFork
<1> SUFFICES ASSUME NEW t \in Workers(c) PROVE FALSE
  OBVIOUS
<1>3. t \in Linked(c) /\ t # Main
  BY <1>2 DEF Workers
<1>4. {Main, t} \subseteq Linked(c) /\ Cardinality({Main, t}) = 2
  BY <1>1, <1>3, TwoSet
<1>5. CASE Uncounted(c) = 0
  <2>1. Cardinality({Main, t}) <= Cardinality(Linked(c))
    BY <1>1, <1>4, FS_Subset
  <2> QED BY <1>1, <1>4, <1>5, <2>1
<1>6. CASE Uncounted(c) # 0
  <2>1. pc[c] \in ExitLabels /\ Uncounted(c) = 1
    BY <1>6 DEF Uncounted, NoFork, ExitLabels
  <2>2. current[c] \in Linked(c) /\ current[c] \notin Live(c) /\ current[c] # Main
    BY <2>1, TaskFacts
    DEF RingInv, IInv, CoreInv, LabelFitsTask, CpuIsCurrent, TaskLabels, ExitLabels
  <2>3. current[c] \notin {Main, t}
    BY <2>2 DEF Workers
  <2> DEFINE S == {Main, t} \cup {current[c]}
  <2>4. Cardinality(S) = 3
    BY <1>3, <2>3, ThreeSet
  <2>5. S \subseteq Linked(c)
    BY <1>4, <2>2
  <2>6. Cardinality(S) <= Cardinality(Linked(c))
    <3> HIDE DEF S
    <3> QED BY <1>1, <2>5, FS_Subset
  <2>7. Cardinality(Linked(c)) <= 2
    <3>1. Cardinality(Linked(c)) = tasks_num[c] + 1 /\ tasks_num[c] \in Int
      BY <1>1, <2>1
    <3> HIDE DEF S
    <3> QED BY <3>1
  <2> HIDE DEF S
  <2> QED BY <1>1, <2>4, <2>6, <2>7, LinkedFinite
<1> QED BY <1>5, <1>6

\* main comes there through the loop of JoinAll.
LEMMA LeaveStep ==
    ASSUME IInv, [Next]_vars, NEW c \in Cores \ early, MainGoes(c), pc'[c] \in Left
    PROVE  \/ pc[c] \in Left
           \/ JoinAll(c) /\ ~MustWait(c)
<1> USE CoresAssumption DEF At, Goto, Left
<1>0. TypeOK /\ StacksReturn(c) /\ CoreInv(c)
  BY DEF IInv
<1>1. ASSUME NEW d \in Cores \ {c}, Step(d) \/ Tick(d) \/ ExitTask(d) PROVE pc'[c] = pc[c]
  BY <1>1, OwnStep DEF RowUnchanged
<1>2. CASE TickReturn(c) \/ ScheduleReturn(c)
  <2>1. Return(c) /\ frames[c][cpu[c]] # <<>>
    BY <1>2 DEF TickReturn, ScheduleReturn, Return
  <2>2. cpu[c] # Main
    BY <2>1 DEF MainGoes
  <2>3. pc'[c] \in Returns(cpu[c])
    BY <1>0, <2>1, ReturnStack
  <2> QED BY <2>2, <2>3 DEF Returns, TaskReturns, SuspendedHandler
<1>3. CASE \/ Tick(c) \/ Schedule(c) \/ ScanNext(c) \/ ScanFound(c) \/ ContextSwitch(c)
           \/ RetFromFork(c) \/ ExitTask(c) \/ ExitCount(c) \/ ExitUnlinkNext(c)
           \/ ExitUnlinkPrevious(c) \/ Wake(c) \/ SecondaryInit(c) \/ StartMain(c) \/ ArmTimer(c)
  <2>1. CASE Tick(c) \/ Schedule(c) \/ ScanNext(c)
    BY <1>0, <2>1 DEF Tick, Schedule, ScanNext, CallSchedule, TypeOK
  <2>2. CASE ScanFound(c) \/ ContextSwitch(c) \/ RetFromFork(c)
    BY <1>0, <2>2 DEF ScanFound, ContextSwitch, RetFromFork, TypeOK
  <2>3. CASE ExitTask(c) \/ ExitCount(c) \/ ExitUnlinkNext(c)
    BY <1>0, <2>3 DEF ExitTask, ExitCount, ExitUnlinkNext, TypeOK
  <2>4. CASE ExitUnlinkPrevious(c) \/ Wake(c)
    BY <1>0, <2>4 DEF ExitUnlinkPrevious, CallSchedule, Wake, TypeOK
  <2>5. CASE SecondaryInit(c) \/ StartMain(c) \/ ArmTimer(c)
    BY <1>0, <2>5 DEF SecondaryInit, StartMain, ArmTimer, TypeOK
  <2> QED BY <1>3, <2>1, <2>2, <2>3, <2>4, <2>5
<1>4. CASE JoinAll(c)
  BY <1>0, <1>4 DEF JoinAll, CallSchedule, TypeOK
<1>5. CASE JoinLeave(c) \/ SleepAgain(c)
  BY <1>5 DEF JoinLeave, SleepAgain
<1>6. ASSUME NEW d \in Cores, Fork(d) PROVE pc'[c] \notin Left \/ pc'[c] = pc[c]
  BY <1>0, <1>6, ForkPlaces
<1>7. CASE ThreadingInit \/ KickCores \/ StartJoin \/ JoinTask \/ NextRound
  BY <1>0, <1>7 DEF ThreadingInit, KickCores, StartJoin, JoinTask, NextRound, CallSchedule,
     TypeOK
<1>8. CASE UNCHANGED vars
  BY <1>8 DEF vars, cpuVars
<1> QED
  BY <1>1, <1>2, <1>3, <1>4, <1>5, <1>6, <1>7, <1>8 DEF Next, Step, Program, Stopped

\* While core 0 forks, its main, and that of a core it may fork for, is where the
\* label of its core says.
LEMMA MainForks ==
    ASSUME IInv, NEW c \in Cores \ early, FramesInv(c), pc[CORE0] \in ForkLabels,
           c = CORE0 \/ Asleep(c)
    PROVE  MainAt(c) = pc[c] /\ pc[c] \in ForkLabels \cup {"wfe"}
<1>1. pc[c] \in ForkLabels \cup {"wfe"} /\ cpu[c] = Main
  BY WhileForking DEF Asleep
<1>2. frames[c][Main] = <<>>
  BY <1>1 DEF FramesInv, ForkLabels, SchedLabels
<1> QED BY <1>1, <1>2 DEF MainAt

\* A main gets behind its loop at the loop's end.
LEMMA LeaveMain ==
    ASSUME IInv, TypeOK', [Next]_vars, NEW c \in Cores \ early', FramesInv(c),
           MainAt(c)' \in Left
    PROVE  MainAt(c) \in Left \/ (JoinAll(c) /\ ~MustWait(c))
<1>0. c \notin early
  BY EarlyStays
<1>1. CASE MainAt(c)' = MainAt(c)
  BY <1>1
<1>2. CASE MainGoes(c)
  <2>1. pc'[c] = MainAt(c)' /\ pc[c] = MainAt(c)
    BY <1>2, MainAtIs DEF MainGoes, Bottom
  <2> QED BY <1>0, <1>2, <2>1, LeaveStep
<1> QED BY <1>1, <1>2, FramesStep

\* What the loop finds when it ends: as many tasks as main alone.
LEMMA LoopEnds ==
    ASSUME IInv, NEW c \in Cores, JoinAll(c), ~MustWait(c),
           NEW d \in Cores \ early, d = c \/ c = CORE0, RingInv(d)
    PROVE  /\ NoFork(d) /\ current[d] # NULL
           /\ tasks_num[d] <= 1 /\ (d # c => tasks_num[d] = 1)
<1> USE CoresAssumption DEF At
<1>1. pc[c] = "join" /\ CurrentSet(d) /\ tasks_num[d] \in Int
  BY DEF JoinAll, IInv, TypeOK
<1>2. NoFork(d)
  <2>1. CASE d = c
    BY <2>1, OwnNoFork DEF Step
  <2>2. CASE d # c
    BY <1>1, <2>2 DEF NoFork, Forking
  <2> QED BY <2>1, <2>2
<1>3. tasks_num[d] <= 1 /\ (d # c => tasks_num[d] = 1)
  BY <1>1 DEF MustWait
<1>4. current[d] # NULL
  BY <1>1, <1>3 DEF CurrentSet, ForkLabels
<1> QED BY <1>2, <1>3, <1>4

\* The two loops end when the tasks they wait for are gone, and none comes back.
LEMMA JoinedStep ==
    ASSUME IInv, TypeOK', [Next]_vars, ListInv, JoinedInv,
           \A c \in Cores \ early : FramesInv(c)
    PROVE  JoinedInv'
<1> USE CoresAssumption DEF At
<1>0. TypeOK /\ CORE0 \in Cores \ early' /\ early \subseteq early'
  BY EarlyStays DEF IInv, TypeOK
<1>1. ASSUME NEW c \in Cores \ early', MainAt(c)' \in Left, NEW d \in Cores \ early',
             d = c \/ c = CORE0, Workers(d) = {}
      PROVE  Workers(d)' = {}
  <2>1. ASSUME ForkTask(d) PROVE FALSE
    <3>1. pc[CORE0] \in ForkLabels /\ (d = CORE0 \/ Asleep(d))
      <4>1. Fork(d) /\ ~ForkPanic(d)
        BY <2>1 DEF Fork, ForkTask, ForkPanic
      <4> QED BY <1>1, <4>1, ForkAt
    <3>2. MainAt(c) = pc[c] /\ pc[c] \in ForkLabels \cup {"wfe"}
      BY <1>0, <1>1, <3>1, MainForks
    <3>3. MainAt(c) \in Left \/ JoinAll(c)
      BY <1>0, <1>1, LeaveMain
    <3> QED BY <3>2, <3>3 DEF JoinAll, ForkLabels, Left
  <2> QED BY <1>1, <2>1, WorkersStep
<1>2. ASSUME NEW c \in Cores \ early, JoinAll(c), ~MustWait(c),
             NEW d \in Cores \ early, d = c \/ c = CORE0
      PROVE  Workers(d) = {}
  BY <1>2, LoopEnds, FewTasks DEF ListInv
<1>3. ASSUME NEW c \in Cores \ early', MainAt(c)' \in Left, NEW d \in Cores \ early',
             d = c \/ c = CORE0
      PROVE  Workers(d)' = {}
  <2>1. Workers(d) = {}
    BY <1>0, <1>2, <1>3, LeaveMain DEF JoinedInv
  <2> QED BY <1>1, <1>3, <2>1
<1> QED BY <1>0, <1>3 DEF JoinedInv

\* How many tasks a core can have.
LEMMA WorkersFinite ==
    ASSUME NEW c \in Cores
    PROVE  /\ Workers(c) \subseteq Slots /\ IsFiniteSet(Workers(c))
           /\ Cardinality(Workers(c)) \in Nat
           /\ IsFiniteSet(Slots) /\ Cardinality(Slots) = NR_TASKS - 1
           /\ IsFiniteSet(Tasks) /\ Cardinality(Tasks) = NR_TASKS
<1>1. Workers(c) \subseteq Slots
  BY TaskFacts DEF Workers, Live
<1>2. /\ IsFiniteSet(Slots) /\ Cardinality(Slots) = NR_TASKS - 1
      /\ IsFiniteSet(Tasks) /\ Cardinality(Tasks) = NR_TASKS
  BY FS_Interval, NRTasksAssumption DEF Slots, Tasks
<1> QED BY <1>1, <1>2, FS_Subset, FS_CardinalityType

\* While core 0 forks, a core that is still awake has no task.
LEMMA AwakeIdle ==
    ASSUME IInv, BudgetInv, pc[CORE0] \in ForkLabels,
           NEW c \in Cores \ early, c # CORE0, ~Asleep(c)
    PROVE  Workers(c) = {}
<1>1. todo[c] = Forks[round][c]
  BY DEF IInv, OthersSleep, Forked
<1>2. Cardinality(Workers(c)) + todo[c] = Forks[round][c]
  BY DEF BudgetInv
<1>3. todo[c] \in Nat
  BY DEF IInv, TypeOK
<1>4. Cardinality(Workers(c)) = 0
  BY <1>1, <1>2, <1>3, WorkersFinite
<1> QED BY <1>4, WorkersFinite, FS_EmptySet

\* Outside its joins core 0 leaves the other cores no task to run.
LEMMA IdleRuns ==
    ASSUME IInv, JoinedInv, BudgetInv, NEW c \in Cores \ early,
           Step(c) \/ Tick(c) \/ ExitTask(c),
           MainAt(CORE0) \in Left \/ pc[CORE0] \in ForkLabels
    PROVE  Workers(c) = {}
<1>1. CASE MainAt(CORE0) \in Left
  BY <1>1 DEF JoinedInv
<1>2. CASE pc[CORE0] \in ForkLabels
  BY <1>2, AwakeIdle, ForkingAlone, SleepingAlone
<1> QED BY <1>1, <1>2

\* Each fork makes one task of one that was still to come.
LEMMA BudgetStep ==
    ASSUME IInv, TypeOK', [Next]_vars, JoinedInv, FramesInv(CORE0), BudgetInv
    PROVE  BudgetInv'
<1> USE CoresAssumption DEF At, Goto, progVars
<1> SUFFICES ASSUME pc'[CORE0] \in ForkLabels, NEW c \in Cores \ early'
             PROVE  Cardinality(Workers(c)') + todo'[c] = Forks[round'][c]
  BY DEF BudgetInv
<1>0. TypeOK /\ CoreInv(CORE0) /\ c \notin early
  BY EarlyStays DEF IInv, TypeOK
<1>1. ASSUME NEW d \in Cores, Step(d) \/ Tick(d) \/ ExitTask(d)
      PROVE  Cardinality(Workers(c)') + todo'[c] = Forks[round'][c]
  <2>1. UNCHANGED <<todo, round>> /\ \A e \in Cores \ {d} : RowUnchanged(e)
    BY <1>1, OwnStep
  <2>2. d # CORE0
    BY <1>1, OwnStep DEF IInv, TypeOK
  <2>3. pc[CORE0] \in ForkLabels
    BY <2>1, <2>2 DEF RowUnchanged
  <2>4. Workers(c)' = Workers(c)
    <3>1. CASE c # d
      BY <2>1, <3>1 DEF RowUnchanged, Workers, Live
    <3>2. CASE c = d
      <4>1. Workers(c) = {}
        BY <1>0, <1>1, <2>3, <3>2, IdleRuns
      <4>2. ~ForkTask(c)
        <5>1. pc'[CORE0] = pc[CORE0]
          BY <2>1, <2>2 DEF RowUnchanged
        <5> QED BY <1>0, <5>1 DEF ForkTask, TypeOK
      <4> QED BY <4>1, <4>2, WorkersStep
    <3> QED BY <3>1, <3>2
  <2> QED BY <1>0, <2>1, <2>3, <2>4 DEF BudgetInv
<1>2. ASSUME pc[CORE0] \in ForkLabels, UNCHANGED <<state, todo, round>>
      PROVE  Cardinality(Workers(c)') + todo'[c] = Forks[round'][c]
  <2>1. Workers(c)' = Workers(c)
    BY <1>2 DEF Workers, Live
  <2> QED BY <1>0, <1>2, <2>1 DEF BudgetInv
<1>3. ASSUME NEW d \in Cores, ForkTask(d)
      PROVE  Cardinality(Workers(c)') + todo'[c] = Forks[round'][c]
  <2>1. PICK p \in FreeSlots(d) : state' = [state EXCEPT ![d][p] = TASK_READY]
    BY <1>3 DEF ForkTask
  <2>2. /\ pc[CORE0] \in ForkLabels /\ round' = round
        /\ todo' = [todo EXCEPT ![d] = @ - 1] /\ p \in Tasks /\ p # Main
    BY <1>3, TaskFacts DEF ForkTask, ForkLabels, FreeSlots
  <2>3. Cardinality(Workers(c)) + todo[c] = Forks[round][c]
    BY <1>0, <2>2 DEF BudgetInv
  <2>4. todo \in [Cores -> Nat] /\ todo[c] \in Nat
    BY <1>0 DEF TypeOK
  <2>5. CASE c = d
    <3>1. \A u \in Tasks : state'[c][u] = IF u = p THEN TASK_READY ELSE state[c][u]
      BY <1>0, <2>1, <2>2, <2>5 DEF TypeOK
    <3>2. Workers(c)' = Workers(c) \cup {p} /\ p \notin Workers(c)
      BY <2>2, <2>5, <3>1 DEF Workers, Live, FreeSlots
    <3>3. Cardinality(Workers(c)') = Cardinality(Workers(c)) + 1
      BY <3>2, WorkersFinite, FS_AddElement
    <3>4. todo'[c] = todo[c] - 1
      BY <2>2, <2>4, <2>5
    <3> QED BY <2>2, <2>3, <2>4, <3>3, <3>4, WorkersFinite
  <2>6. CASE c # d
    <3>1. state'[c] = state[c] /\ todo'[c] = todo[c]
      BY <1>0, <2>1, <2>2, <2>4, <2>6 DEF TypeOK
    <3>2. Workers(c)' = Workers(c)
      BY <3>1 DEF Workers, Live
    <3> QED BY <2>2, <2>3, <3>1, <3>2
  <2> QED BY <2>5, <2>6
<1>4. ASSUME NEW d \in Cores, Fork(d), ~ForkTask(d)
      PROVE  Cardinality(Workers(c)') + todo'[c] = Forks[round'][c]
  BY <1>2, <1>4 DEF Fork, ForkPanic, LinkFirst, LinkNext, LinkPrevious, ForkCount, ForkLabels,
                    tableVars
<1>5. CASE NextRound
  <2>1. pc[CORE0] = "rest" /\ state' = state
    BY <1>5 DEF NextRound, tableVars
  <2>2. todo' = Forks[round + 1] /\ round' = round + 1
    BY <1>0, <1>5, <2>1 DEF NextRound, TypeOK, ForkLabels
  <2>3. MainAt(CORE0) = "rest"
    <3>1. cpu[CORE0] = Main
      BY <1>0, <2>1 DEF CoreInv, LabelFitsTask, MainLabels, ProgramLabels
    <3>2. frames[CORE0][Main] = <<>>
      BY <2>1, <3>1 DEF FramesInv, SchedLabels
    <3> QED BY <2>1, <3>2 DEF MainAt
  <2>4. Workers(c) = {} /\ Workers(c)' = Workers(c)
    BY <1>0, <2>1, <2>3 DEF JoinedInv, Left, Workers, Live
  <2>5. Cardinality(Workers(c)') = 0 /\ todo'[c] \in Nat
    BY <2>4, FS_EmptySet DEF TypeOK
  <2> QED BY <2>2, <2>5
<1>6. CASE ThreadingInit \/ KickCores \/ StartJoin \/ JoinTask
  <2>1. CASE ThreadingInit
    BY <1>0, <2>1 DEF ThreadingInit, TypeOK, ForkLabels
  <2>2. CASE KickCores
    BY <1>0, <2>2 DEF KickCores, TypeOK, ForkLabels
  <2>3. CASE StartJoin
    BY <1>0, <2>3 DEF StartJoin, TypeOK, ForkLabels
  <2>4. CASE JoinTask
    BY <1>0, <2>4 DEF JoinTask, CallSchedule, TypeOK, ForkLabels
  <2> QED BY <1>6, <2>1, <2>2, <2>3, <2>4
<1>7. CASE UNCHANGED vars
  BY <1>2, <1>7 DEF vars, tableVars, cpuVars
<1> QED BY <1>1, <1>3, <1>4, <1>5, <1>6, <1>7 DEF Next, Program, Stopped

\* Whoever ends has been counted before join_all() is over, and nobody ends after.
LEMMA CountedStep ==
    ASSUME IInv, TypeOK', [Next]_vars, ListInv, RInv
    PROVE  CountedInv'
<1> USE CoresAssumption DEF At, Goto
<1> SUFFICES ASSUME MainAt(CORE0)' \in Left \/ pc'[CORE0] \in ForkLabels,
                    NEW c \in Cores \ early', pc'[c] = "zombied"
             PROVE  FALSE
  BY DEF CountedInv
<1>0. /\ TypeOK /\ c \notin early /\ CORE0 \in Cores \ early'
      /\ CORE0 \in Cores \ early /\ CoreInv(c) /\ RingInv(c) /\ CurrentSet(c)
      /\ FramesInv(CORE0) /\ DeadLeaves(c)
  BY EarlyStays DEF IInv, TypeOK, ListInv, RInv
<1>1. \/ MainAt(CORE0) \in Left \/ pc[CORE0] \in ForkLabels
      \/ JoinAll(CORE0) /\ ~MustWait(CORE0)
  <2>1. CASE MainAt(CORE0)' \in Left
    BY <1>0, <2>1, LeaveMain
  <2>2. CASE pc'[CORE0] \in ForkLabels
    <3> SUFFICES ASSUME pc[CORE0] \notin ForkLabels PROVE MainAt(CORE0) \in Left
      OBVIOUS
    <3>1. ~(\E d \in Cores : Step(d) \/ Tick(d) \/ ExitTask(d))
      BY <1>0, <2>2, OwnStep DEF RowUnchanged
    <3>2. ~(\E d \in Cores : Fork(d))
      BY ForkAt
    <3>3. ~ThreadingInit /\ ~KickCores /\ ~StartJoin /\ ~JoinTask
      <4>1. DOMAIN pc = Cores /\ CORE0 \in Cores
        BY <1>0 DEF TypeOK
      <4>2. ~ThreadingInit /\ ~KickCores
        BY <2>2, <4>1 DEF ThreadingInit, KickCores, ForkLabels
      <4>3. ~StartJoin /\ ~JoinTask
        BY <2>2, <4>1 DEF StartJoin, JoinTask, CallSchedule, ForkLabels
      <4> QED BY <4>2, <4>3
    <3>4. pc[CORE0] = "rest"
      BY <2>2, <3>1, <3>2, <3>3 DEF Next, Program, NextRound, Stopped, vars, cpuVars
    <3>5. cpu[CORE0] = Main
      BY <1>0, <3>4 DEF IInv, CoreInv, LabelFitsTask, MainLabels, ProgramLabels
    <3>6. MainAt(CORE0) = "rest"
      BY <1>0, <3>4, <3>5 DEF FramesInv, SchedLabels, MainAt
    <3> QED BY <3>6 DEF Left
  <2> QED BY <2>1, <2>2
<1>2. CASE pc[c] = "zombied"
  <2>1. JoinAll(CORE0) /\ ~MustWait(CORE0)
    BY <1>0, <1>1, <1>2 DEF RInv, CountedInv
  <2>2. c # CORE0
    BY <1>2, <2>1 DEF JoinAll
  <2>3. NoFork(c) /\ current[c] # NULL /\ tasks_num[c] = 1
    BY <1>0, <2>1, <2>2, LoopEnds
  <2>4. current[c] \in Linked(c) /\ current[c] # Main
    BY <1>0, <1>2, <2>3, TaskFacts
    DEF RingInv, CoreInv, LabelFitsTask, CpuIsCurrent, TaskLabels, ExitLabels
  <2>5. /\ {Main, current[c]} \subseteq Linked(c) /\ IsFiniteSet(Linked(c))
        /\ Cardinality(Linked(c)) = 1
    BY <1>0, <1>2, <2>3, <2>4, LinkedType, LinkedFinite DEF RingInv, Uncounted, NoFork
  <2>6. Cardinality({Main, current[c]}) = 2
    BY <2>4, TwoSet
  <2> QED BY <2>5, <2>6, FS_Subset
<1>3. CASE pc[c] # "zombied"
  <2>1. ExitTask(c)
    <3>1. ASSUME NEW d \in Cores \ {c}, Step(d) \/ Tick(d) \/ ExitTask(d) PROVE FALSE
      BY <1>3, <3>1, OwnStep DEF RowUnchanged
    <3>2. ASSUME Step(c) \/ Tick(c) PROVE FALSE
      <4>1. CASE TickReturn(c) \/ ScheduleReturn(c)
        <5>1. Return(c) /\ StacksReturn(c)
          BY <1>0, <4>1 DEF TickReturn, ScheduleReturn, IInv
        <5>2. pc'[c] \in Returns(cpu[c])
          BY <1>0, <5>1, ReturnStack
        <5> QED BY <5>2 DEF Returns, TaskReturns, MainReturns, SuspendedHandler
      <4>2. CASE Schedule(c) \/ ScanNext(c) \/ ScanFound(c) \/ ContextSwitch(c) \/ Tick(c)
        BY <1>0, <1>3, <4>2
        DEF Schedule, ScanNext, ScanFound, ContextSwitch, Tick, CallSchedule, TypeOK
      <4>3. CASE RetFromFork(c) \/ ExitCount(c) \/ ExitUnlinkNext(c) \/ ExitUnlinkPrevious(c)
        BY <1>0, <1>3, <4>3
        DEF RetFromFork, ExitCount, ExitUnlinkNext, ExitUnlinkPrevious, CallSchedule, TypeOK
      <4>4. CASE \/ Wake(c) \/ SecondaryInit(c) \/ StartMain(c) \/ ArmTimer(c)
                 \/ JoinAll(c) \/ JoinLeave(c) \/ SleepAgain(c)
        BY <1>0, <1>3, <4>4
        DEF Wake, SecondaryInit, StartMain, ArmTimer, JoinAll, JoinLeave, SleepAgain,
            CallSchedule, TypeOK
      <4> QED BY <3>2, <4>1, <4>2, <4>3, <4>4 DEF Step
    <3>3. ASSUME NEW d \in Cores, Fork(d) PROVE FALSE
      BY <1>3, <3>3, ForkAt DEF ForkLabels
    <3>4. ~ThreadingInit /\ ~KickCores /\ ~StartJoin /\ ~JoinTask /\ ~NextRound
      <4>1. DOMAIN pc = Cores /\ CORE0 \in Cores
        BY <1>0 DEF TypeOK
      <4>2. ~ThreadingInit /\ ~KickCores /\ ~NextRound
        BY <1>0, <1>3, <4>1 DEF ThreadingInit, KickCores, NextRound
      <4>3. ~StartJoin /\ ~JoinTask
        BY <1>0, <1>3, <4>1 DEF StartJoin, JoinTask, CallSchedule
      <4> QED BY <4>2, <4>3
    <3>5. ~UNCHANGED vars
      BY <1>3 DEF vars, cpuVars
    <3> QED BY <3>1, <3>2, <3>3, <3>4, <3>5 DEF Next, Program, Stopped
  <2>2. pc[c] = "body" /\ current[c] # NULL
    BY <1>0, <2>1 DEF ExitTask, CurrentSet, ForkLabels
  <2>3. current[c] \in Workers(c)
    <3>1. current[c] # Main
      BY <1>0, <2>2, TaskFacts DEF CoreInv, LabelFitsTask, CpuIsCurrent, TaskLabels
    <3> QED BY <1>0, <2>2, <3>1 DEF DeadLeaves, ExitLabels, Workers, Live
  <2>4. ~JoinAll(CORE0)
    <3> SUFFICES ASSUME JoinAll(CORE0) PROVE FALSE
      OBVIOUS
    <3>1. pc[CORE0] = "join" /\ pc'[CORE0] \in {"sched", "leave"}
      BY <1>0 DEF JoinAll, CallSchedule, TypeOK
    <3>2. pc' = [pc EXCEPT ![c] = "zombied"]
      BY <2>1 DEF ExitTask
    <3> QED BY <1>0, <2>2, <3>1, <3>2 DEF TypeOK
  <2>5. Workers(c) = {}
    BY <1>0, <1>1, <2>1, <2>4, IdleRuns DEF RInv
  <2> QED BY <2>3, <2>5
<1> QED BY <1>2, <1>3

\* The demand() of a core that goes to sleep holds.
LEMMA RebootStep ==
    ASSUME IInv, TypeOK', [Next]_vars, ListInv, JoinedInv,
           \A c \in Cores \ early : FramesInv(c), RebootInv
    PROVE  RebootInv'
<1> USE CoresAssumption DEF At
<1> SUFFICES ASSUME early' = {} PROVE RebootInv'
  BY DEF RebootInv
<1>0. TypeOK /\ early = {}
  BY EarlyStays DEF IInv
<1>1. ASSUME NEW c \in Cores, SleepAgain(c) PROVE up'
  <2>1. pc[c] = "demand" /\ CoreInv(c) /\ CurrentSet(c) /\ RingInv(c) /\ FramesInv(c)
    BY <1>0, <1>1 DEF SleepAgain, IInv, ListInv
  <2>2. cpu[c] = Main /\ current[c] # NULL
    BY <2>1 DEF CoreInv, LabelFitsTask, MainLabels, SecondaryLabels, CurrentSet, ForkLabels
  <2>3. frames[c][Main] = <<>>
    BY <2>1, <2>2 DEF FramesInv, SchedLabels
  <2>4. Workers(c) = {}
    BY <1>0, <2>1, <2>3 DEF MainAt, JoinedInv, Left
  <2>5. Linked(c) = {Main}
    <3>1. NoFork(c) /\ pc[c] \notin ExitLabels
      BY <1>0, <1>1, <2>1, OwnNoFork DEF Step, ExitLabels
    <3> QED BY <2>4, <3>1, TaskFacts DEF Linked, Workers, NoFork, Live
  <2>6. tasks_num[c] + Uncounted(c) = 1
    BY <2>1, <2>2, <2>5, FS_Singleton DEF RingInv
  <2>7. Uncounted(c) = 0 /\ tasks_num[c] \in Int
    BY <1>0, <1>1, <2>1, OwnNoFork DEF Step, Uncounted, NoFork, TypeOK
  <2>8. tasks_num[c] = 1
    BY <2>6, <2>7
  <2> QED BY <1>1, <2>8 DEF SleepAgain
<1>2. ASSUME NEW c \in Cores, ForkPanic(c) PROVE RebootInv'
  BY <1>2 DEF ForkPanic, RebootInv, tableVars, coreVars, cpuVars, Full, FreeSlots
<1>3. CASE UNCHANGED vars
  BY <1>3 DEF vars, tableVars, coreVars, cpuVars, progVars, RebootInv, Full, FreeSlots
<1>4. CASE up /\ up' = up
  BY <1>4 DEF RebootInv
<1> QED
  BY <1>1, <1>2, <1>3, <1>4
  DEF Next, Step, Fork, Program, Stopped, TickReturn, Schedule, ScanNext, ScanFound, ContextSwitch,
      Tick, ScheduleReturn, RetFromFork, ExitTask, ExitCount, ExitUnlinkNext, ExitUnlinkPrevious,
      Wake, SecondaryInit, StartMain, ArmTimer, JoinAll, JoinLeave, SleepAgain, ForkTask, LinkFirst,
      LinkNext, LinkPrevious, ForkCount, ThreadingInit, KickCores, StartJoin, JoinTask, NextRound,
      progVars, RebootInv
  
\* Nobody has forked or left a loop yet.
LEMMA InitRInv == Init => RInv
<1> SUFFICES ASSUME Init PROVE RInv
  OBVIOUS
<1> USE CoresAssumption, TaskFacts
<1>1. ASSUME NEW c \in Cores
      PROVE  FramesInv(c) /\ DeadLeaves(c) /\ Workers(c) = {} /\ MainAt(c) \notin Left
  BY DEF Init, FramesInv, Framed, DeadLeaves, Workers, Live, MainAt, Left, SchedLabels
<1>2. BudgetInv
  <2> SUFFICES ASSUME NEW c \in Cores
               PROVE  Cardinality(Workers(c)) + todo[c] = Forks[round][c]
    BY DEF BudgetInv
  <2>1. Cardinality(Workers(c)) = 0
    BY <1>1, FS_EmptySet
  <2>2. todo = Forks[1] /\ round = 1 /\ Forks[1][c] \in Nat
    BY ForksAssumption, BoundsAssumption DEF Init
  <2> QED BY <2>1, <2>2
<1>3. RebootInv /\ CountedInv
  BY DEF Init, RebootInv, CountedInv
<1> QED BY <1>1, <1>2, <1>3 DEF RInv, JoinedInv

\* Any step keeps the stacks, the loops of the joins and the count of forks.
LEMMA RStep == IInv /\ ListInv /\ RInv /\ [Next]_vars => RInv'
<1> SUFFICES ASSUME IInv, ListInv, RInv, [Next]_vars PROVE RInv'
  OBVIOUS
<1>1. TypeOK'
  BY InvStep DEF IInv
<1>2. /\ \A c \in Cores \ early : RingInv(c) /\ FramesInv(c) /\ DeadLeaves(c)
      /\ early \subseteq early' /\ CORE0 \in Cores \ early
  BY EarlyStays, CoresAssumption DEF ListInv, RInv, IInv, TypeOK
<1>3. JoinedInv /\ BudgetInv /\ RebootInv
  BY DEF RInv
<1>4. ASSUME NEW c \in Cores \ early' PROVE FramesInv(c)' /\ DeadLeaves(c)'
  BY <1>1, <1>2, FramesStep, DeadLeavesStep
<1>5. JoinedInv'
  BY <1>1, <1>2, <1>3, JoinedStep
<1>6. BudgetInv'
  BY <1>1, <1>2, <1>3, BudgetStep
<1>7. CountedInv'
  BY <1>1, CountedStep
<1>8. RebootInv'
  BY <1>1, <1>2, <1>3, RebootStep
<1> QED BY <1>4, <1>5, <1>6, <1>7, <1>8 DEF RInv

\* When join_all() is over no task is left and none is still to be counted; the
\* forks of the next round are as many as the program asks for, or stop for want
\* of a slot.  Cores that are still awake by then are part of this.
THEOREM RoundInvariance ==
    ASSUME ~EarlyTick PROVE Spec => [](IInv /\ ListInv /\ RInv)
<1>1. Init => RInv
  BY InitRInv
<1>2. IInv /\ ListInv /\ RInv /\ [Next]_vars => RInv'
  BY RStep
<1> QED BY <1>1, <1>2, ListInvariance, PTL DEF Spec

\* An awake core has room: its list is main's.
LEMMA AwakeHasRoom ==
    ASSUME IInv, BudgetInv, CountedInv, NEW c \in Cores \ early, RingInv(c),
           pc[CORE0] = "forks", c # CORE0, ~Asleep(c)
    PROVE  ~Full(c) /\ FreeSlots(c) # {}
<1>1. pc[CORE0] \in ForkLabels /\ NoFork(c)
  BY DEF ForkLabels, NoFork, Forking
<1>2. Workers(c) = {} /\ pc[c] # "zombied"
  BY <1>1, AwakeIdle DEF CountedInv
<1>3. FreeSlots(c) # {}
  <2>1. 1 \in Slots /\ 1 \in Tasks /\ 1 # Main
    BY NRTasksAssumption DEF Slots, Tasks, Main
  <2>2. 1 \in FreeSlots(c)
    BY <1>2, <2>1 DEF Workers, Live, FreeSlots
  <2> QED BY <2>2
<1>4. tasks_num[c] <= 1
  <2>1. CASE current[c] = NULL
    BY <2>1 DEF IInv, CurrentSet
  <2>2. CASE current[c] # NULL
    <3>1. /\ Cardinality(Linked(c)) = tasks_num[c] + Uncounted(c) /\ tasks_num[c] \in Int
          /\ IsFiniteSet(Linked(c))
      BY <2>2, LinkedFinite DEF RingInv, IInv, TypeOK
    <3>2. CASE pc[c] \notin ExitLabels
      <4>1. Linked(c) \subseteq {Main} /\ Uncounted(c) = 0
        BY <1>1, <1>2, <3>2 DEF Linked, Workers, Uncounted, NoFork, ExitLabels
      <4>2. Cardinality(Linked(c)) <= Cardinality({Main}) /\ Cardinality({Main}) = 1
        BY <4>1, FS_Singleton, FS_Subset
      <4> QED BY <3>1, <4>1, <4>2
    <3>3. CASE pc[c] \in ExitLabels
      <4>1. Linked(c) \subseteq {Main, current[c]} /\ Uncounted(c) = 1
        BY <1>1, <1>2, <3>3 DEF Linked, Workers, Uncounted, NoFork, ExitLabels
      <4>2. Main # current[c]
        BY <2>2, <3>3, TaskFacts
        DEF IInv, CoreInv, LabelFitsTask, CpuIsCurrent, TaskLabels, ExitLabels
      <4>3. Cardinality({Main, current[c]}) = 2 /\ IsFiniteSet({Main, current[c]})
        BY <4>2, TwoSet
      <4>4. Cardinality(Linked(c)) <= 2
        BY <4>1, <4>3, FS_Subset
      <4> QED BY <3>1, <4>1, <4>4
    <3> QED BY <3>2, <3>3
  <2> QED BY <2>1, <2>2
<1>5. tasks_num[c] \in Int
  BY DEF IInv, TypeOK
<1> QED BY <1>3, <1>4, <1>5, NRTasksAssumption DEF Full

\* A core without a free slot has a full list.
LEMMA FullList ==
    ASSUME IInv, BudgetInv, CountedInv, NEW c \in Cores \ early, RingInv(c),
           pc[CORE0] = "forks", Full(c) \/ FreeSlots(c) = {}
    PROVE  Workers(c) = Slots /\ Ring(c) = Tasks
<1>1. /\ NoFork(c) /\ pc[c] \notin ExitLabels /\ tasks_num[c] \in Int
      /\ pc[CORE0] \in ForkLabels
  <2>1. c = CORE0 \/ Asleep(c)
    BY AwakeHasRoom
  <2> QED BY <2>1 DEF NoFork, Forking, ForkLabels, ExitLabels, Asleep, IInv, TypeOK
<1>2. Linked(c) = {Main} \cup Live(c)
  BY <1>1, TaskFacts DEF Linked, NoFork, Live
<1>3. Uncounted(c) = 0
  BY <1>1 DEF Uncounted, NoFork, ExitLabels
<1>4. current[c] # NULL
  <2>1. CASE Full(c)
    BY <1>1, <2>1, NRTasksAssumption DEF Full, IInv, CoreInv, CurrentSet
  <2>2. CASE FreeSlots(c) = {}
    <3>1. 1 \in Slots /\ 1 \in Tasks
      BY NRTasksAssumption DEF Slots, Tasks
    <3>2. 1 \in Live(c)
      BY <2>2, <3>1 DEF FreeSlots, Live
    <3> QED BY <1>1, <3>2 DEF RingInv, NoFork
  <2> QED BY <2>1, <2>2
<1>5. Workers(c) = Slots
  <2>1. CASE Full(c)
    <3>1. Cardinality(Linked(c)) = tasks_num[c]
      BY <1>1, <1>3, <1>4 DEF RingInv
    <3>2. /\ IsFiniteSet(Tasks) /\ Cardinality(Tasks) = NR_TASKS /\ Linked(c) \in SUBSET Tasks
          /\ Cardinality(Linked(c)) <= Cardinality(Tasks)
      BY WorkersFinite, LinkedType, FS_Subset
    <3>3. Cardinality(Linked(c)) = Cardinality(Tasks)
      BY <1>1, <2>1, <3>1, <3>2, NRTasksAssumption DEF Full
    <3>4. Linked(c) = Tasks
      BY <3>2, <3>3, FS_Subset
    <3> QED BY <1>2, <3>4, TaskFacts DEF Workers
  <2>2. CASE FreeSlots(c) = {}
    BY <2>2, TaskFacts DEF FreeSlots, Workers, Live
  <2> QED BY <2>1, <2>2
<1>6. Linked(c) = Tasks
  BY <1>2, <1>5, TaskFacts DEF Workers, Live
<1>7. IsRing(Tasks, next[c], Back(c))
  BY <1>4, <1>6 DEF RingInv
<1> QED BY <1>5, <1>7, RingIsLinked

\* fork_task() panics only when the program asks for more tasks than the core
\* has slots, and the demand() of a core that goes to sleep never fails, as long
\* as core 0 has forked for no other core too early.
THEOREM Reboots == ASSUME ~EarlyTick PROVE Spec => []RebootsOnlyWhenFull
<1>1. ASSUME IInv, ListInv, RInv PROVE RebootsOnlyWhenFull
  <2> SUFFICES ASSUME ~up, early = {}
               PROVE  \E c \in Cores : Forks[round][c] >= NR_TASKS /\ Ring(c) = Tasks
    BY DEF RebootsOnlyWhenFull
  <2>1. PICK c \in Cores : todo[c] > 0 /\ (Full(c) \/ FreeSlots(c) = {})
    BY <1>1 DEF RInv, RebootInv
  <2>2. pc[CORE0] = "forks" /\ pc[CORE0] \in ForkLabels
    BY <1>1 DEF RInv, RebootInv, ForkLabels
  <2>3. Workers(c) = Slots /\ Ring(c) = Tasks
    BY <1>1, <2>1, <2>2, FullList DEF ListInv, RInv
  <2>4. Cardinality(Workers(c)) = NR_TASKS - 1
    BY <2>3, WorkersFinite
  <2>5. Cardinality(Workers(c)) + todo[c] = Forks[round][c]
    BY <1>1, <2>2 DEF RInv, BudgetInv
  <2>6. Forks[round][c] >= NR_TASKS
    BY <1>1, <2>1, <2>4, <2>5, NRTasksAssumption DEF IInv, TypeOK
  <2> QED BY <2>3, <2>6
<1> QED BY <1>1, RoundInvariance, PTL

--------------------------------------------------------------------------------
(* Programs that fork for every core. *)

\* A core that still lacks its first task will get it.
LEMMA AllForkStep ==
    ASSUME IInv, TypeOK', [Next]_vars, AllFork
    PROVE  AllFork'
<1> USE TaskFacts, CoresAssumption
    DEF At, Goto, tableVars, coreVars, cpuVars, timerVars, progVars
<1>0. /\ pc \in [Cores -> Labels] /\ current \in [Cores -> Tasks \cup {NULL}]
      /\ target \in Cores \X Tasks /\ todo \in [Cores -> Nat]
  BY DEF IInv, TypeOK
<1>1. ASSUME NEW d \in Cores, Step(d) \/ Tick(d) \/ ExitTask(d) PROVE AllFork'
  <2>1. /\ UNCHANGED <<target, todo>> /\ \A e \in Cores \ {d} : pc'[e] = pc[e]
        /\ \A c \in Cores : current'[c] = NULL => current[c] = NULL
    BY <1>1, OwnStep DEF RowUnchanged
  <2>2. pc[CORE0] \in ForkLabels => pc'[CORE0] = pc[CORE0]
    BY <1>1, <2>1, ForkingAlone
  <2> QED BY <2>1, <2>2 DEF AllFork, Forking
<1>2. ASSUME NEW d \in Cores, ForkTask(d) PROVE AllFork'
  <2>1. /\ pc' = [pc EXCEPT ![CORE0] = "link"] /\ UNCHANGED current
        /\ todo' = [todo EXCEPT ![d] = @ - 1] /\ target'[1] = d
    BY <1>2 DEF ForkTask
  <2>2. \A c \in Cores \ {d} : todo'[c] = todo[c]
    BY <1>0, <2>1
  <2>3. pc[CORE0] = "forks" /\ pc'[CORE0] = "link"
    BY <1>0, <1>2, <2>1 DEF ForkTask
  <2> QED BY <2>1, <2>2, <2>3 DEF AllFork, Forking, ForkLabels
<1>3. ASSUME NEW d \in Cores, NEW p \in Tasks, LinkFirst(d, p) PROVE AllFork'
  <2>1. /\ pc[CORE0] = "link" /\ pc'[CORE0] = "count" /\ target[1] = d /\ UNCHANGED todo
        /\ current' = [current EXCEPT ![d] = Main]
    BY <1>0, <1>3 DEF LinkFirst
  <2> QED BY <1>0, <2>1 DEF AllFork, Forking, ForkLabels
<1>4. ASSUME NEW d \in Cores, NEW p \in Tasks, LinkNext(d, p) PROVE AllFork'
  <2>1. /\ pc[CORE0] = "link" /\ pc'[CORE0] = "link2" /\ target[1] = d
        /\ UNCHANGED <<todo, current>> /\ tasks_num[d] # 0
    BY <1>0, <1>4 DEF LinkNext
  <2>2. current[d] # NULL
    BY <2>1 DEF IInv, CurrentSet
  <2> QED BY <2>1, <2>2 DEF AllFork, Forking, ForkLabels
<1>5. ASSUME NEW d \in Cores, (\E p \in Tasks : LinkPrevious(d, p)) \/ ForkCount(d) PROVE AllFork'
  <2>1. /\ pc[CORE0] \in {"link2", "count"} /\ pc'[CORE0] \in {"count", "forks"}
        /\ UNCHANGED <<todo, current>>
    BY <1>0, <1>5 DEF LinkPrevious, ForkCount
  <2> QED BY <2>1 DEF AllFork, Forking, ForkLabels
<1>6. ASSUME NEW d \in Cores, ForkPanic(d) PROVE AllFork'
  BY <1>6 DEF ForkPanic, AllFork, Forking
<1>7. CASE ThreadingInit \/ KickCores \/ StartJoin \/ JoinTask \/ NextRound
  <2>1. ASSUME NEW c \in Cores, current[c] = NULL PROVE pc[CORE0] \in ForkLabels /\ todo[c] # 0
    <3>1. pc[CORE0] \in {"forks", "kick", "started", "joinT", "rest"}
      BY <1>7 DEF ThreadingInit, KickCores, StartJoin, JoinTask, NextRound
    <3> QED BY <1>0, <2>1, <3>1 DEF AllFork, Forking
  <2>2. \A c \in Cores : current[c] # NULL
    BY <1>7, <2>1 DEF ThreadingInit, KickCores, StartJoin, JoinTask, NextRound, ForkLabels
  <2>3. current' = current
    BY <1>7 DEF ThreadingInit, KickCores, StartJoin, JoinTask, NextRound
  <2> QED BY <2>2, <2>3 DEF AllFork
<1>8. CASE UNCHANGED vars
  BY <1>8 DEF vars, AllFork, Forking
<1> QED BY <1>1, <1>2, <1>3, <1>4, <1>5, <1>6, <1>7, <1>8 DEF Next, Program, Fork, Stopped

\* If the program forks for every core before it first joins, and for none too
\* early, nothing but live tasks and cores on their way to sleep holds join_all()
\* back.
THEOREM JoinAllEnds ==
    ASSUME ~EarlyTick, \A c \in Cores : Forks[1][c] > 0
    PROVE  Spec => [](early = {} => JoinAllMayEnd)
<1>1. Init => AllFork
  BY CoresAssumption DEF Init, AllFork, ForkLabels
<1>2. IInv /\ AllFork /\ [Next]_vars => AllFork'
  <2> SUFFICES ASSUME IInv, AllFork, [Next]_vars PROVE AllFork'
    OBVIOUS
  <2>1. TypeOK'
    BY TypeStep
  <2> QED BY <2>1, AllForkStep
<1>3. ASSUME IInv, ListInv, AllFork, early = {} PROVE JoinAllMayEnd
  <2> SUFFICES ASSUME pc[CORE0] = "join",
                      \A c \in Cores : \A s \in Slots : state[c][s] = TASK_ZOMBIE,
                      \A c \in Cores \ {CORE0} : Asleep(c)
               PROVE  ~MustWait(CORE0)
    BY DEF JoinAllMayEnd
  <2>1. ASSUME NEW c \in Cores PROVE tasks_num[c] = 1
    <3>1. NoFork(c) /\ pc[c] \notin ExitLabels /\ tasks_num[c] \in Int
      BY <1>3 DEF NoFork, Forking, Asleep, ExitLabels, IInv, TypeOK
    <3>2. current[c] # NULL
      BY <1>3 DEF AllFork, ForkLabels
    <3>3. Live(c) \subseteq {Main}
      BY TaskFacts DEF Live
    <3>4. Linked(c) = {Main}
      BY <3>1, <3>3, TaskFacts DEF Linked, NoFork
    <3>5. Uncounted(c) = 0
      BY <3>1 DEF Uncounted, NoFork, ExitLabels
    <3>6. Cardinality({Main}) = tasks_num[c] + 0
      BY <1>3, <3>2, <3>4, <3>5 DEF ListInv, RingInv
    <3>7. Cardinality({Main}) = 1
      BY FS_Singleton
    <3> QED BY <3>1, <3>6, <3>7
  <2> QED BY <2>1, CoresAssumption DEF MustWait
<1> QED BY <1>1, <1>2, <1>3, ListInvariance, PTL DEF Spec

--------------------------------------------------------------------------------
(* The pool of jobs. *)

\* All that is known of a state.
Known == IInv /\ ListInv /\ RInv

\* What the pool sees of a state.
LEMMA JobIs ==
    ASSUME TypeOK, NEW c \in Cores \ early, NEW s \in Slots
    PROVE  /\ job[c][s] = JobOf(state[c][s])
           /\ \/ state[c][s] = TASK_ZOMBIE /\ job[c][s] = "free"
              \/ state[c][s] = TASK_READY /\ job[c][s] = "ready"
              \/ state[c][s] = TASK_RUNNING /\ job[c][s] = "running"
<1>1. state[c][s] \in {TASK_ZOMBIE, TASK_READY, TASK_RUNNING}
  BY TaskFacts DEF TypeOK
<1>2. /\ JobOf(TASK_ZOMBIE) = "free"
      /\ JobOf(TASK_READY) = "ready"
      /\ JobOf(TASK_RUNNING) = "running"
  BY DEF JobOf
<1>3. job[c][s] = JobOf(state[c][s])
  BY DEF job
<1> QED BY <1>1, <1>2, <1>3

\* The same of the next state.
LEMMA JobIsNext ==
    ASSUME TypeOK', NEW c \in Cores \ early', NEW s \in Slots
    PROVE  \/ state'[c][s] = TASK_ZOMBIE /\ job'[c][s] = "free"
           \/ state'[c][s] = TASK_READY /\ job'[c][s] = "ready"
           \/ state'[c][s] = TASK_RUNNING /\ job'[c][s] = "running"
<1>1. state'[c][s] \in {TASK_ZOMBIE, TASK_READY, TASK_RUNNING}
  BY TaskFacts DEF TypeOK
<1>2. /\ JobOf(TASK_ZOMBIE) = "free"
      /\ JobOf(TASK_READY) = "ready"
      /\ JobOf(TASK_RUNNING) = "running"
  BY DEF JobOf
<1>3. job'[c][s] = JobOf(state'[c][s])
  BY DEF job
<1> QED BY <1>1, <1>2, <1>3

\* Nor a state of a main or of a core that is lost.
LEMMA JobRow ==
    ASSUME NEW c \in Cores, c \in early' <=> c \in early,
           c \in early \/ \A s \in Slots : state'[c][s] = state[c][s]
    PROVE  job'[c] = job[c]
<1>1. c \notin early => \A s \in Slots : JobOf(state'[c][s]) = JobOf(state[c][s])
  OBVIOUS
<1> QED BY <1>1 DEF job

LEMMA JobStill ==
    ASSUME UNCHANGED early,
           \A c \in Cores \ early : \A s \in Slots : state'[c][s] = state[c][s]
    PROVE  job' = job
<1>1. \A c \in Cores : job'[c] = job[c]
  BY JobRow
<1>2. job = [d \in Cores |-> job[d]] /\ job' = [d \in Cores |-> job'[d]]
  BY DEF job
<1> QED BY <1>1, <1>2

\* A job changes on one core.
LEMMA JobOn ==
    ASSUME NEW c \in Cores, NEW f,
           \A d \in Cores \ {c} : /\ d \in early' <=> d \in early
                                  /\ \A s \in Slots : state'[d][s] = state[d][s],
           f = [s \in Slots |-> f[s]], \A s \in Slots : job'[c][s] = f[s]
    PROVE  job' = [job EXCEPT ![c] = f]
<1>1. \A d \in Cores \ {c} : job'[d] = job[d]
  BY JobRow
<1>2. job'[c] = f
  <2>1. job'[c] = [s \in Slots |-> job'[c][s]]
    BY DEF job
  <2> QED BY <2>1
<1>3. job = [d \in Cores |-> job[d]] /\ job' = [d \in Cores |-> job'[d]]
  BY DEF job
<1> QED BY <1>1, <1>2, <1>3

\* While core 0 submits, or is done, its main stands outside every handler.
LEMMA SubmitLabel ==
    ASSUME Known, MainAt(CORE0) \in Submitting
    PROVE  pc[CORE0] = MainAt(CORE0)
<1> DEFINE f == frames[CORE0][Main]
<1>1. f \in Seq(MainReturns)
  BY CoresAssumption, TaskFacts DEF Known, IInv, TypeOK, StacksReturn, Returns
<1>2. CASE f = <<>>
  BY <1>2 DEF MainAt
<1>3. CASE f # <<>>
  <2>1. f[Len(f)] \in MainReturns
    BY <1>1, <1>3, EmptySeq
  <2>2. MainAt(CORE0) = f[Len(f)]
    BY <1>3 DEF MainAt
  <2> QED BY <2>1, <2>2 DEF MainReturns, SuspendedHandler, Submitting
<1> QED BY <1>2, <1>3

\* Tasks run only while the program waits.
LEMMA RunsWhenWaiting ==
    ASSUME Known, NEW c \in Cores \ early, Step(c) \/ Tick(c) \/ ExitTask(c), Workers(c) # {}
    PROVE  phase = "wait"
<1> SUFFICES ASSUME MainAt(CORE0) \in Submitting PROVE FALSE
  BY DEF phase
<1>1. pc[CORE0] = MainAt(CORE0)
  BY SubmitLabel
<1>2. MainAt(CORE0) \in Left \/ pc[CORE0] \in ForkLabels
  BY <1>1 DEF Submitting, ForkLabels, Left
<1> QED BY <1>2, IdleRuns DEF Known, RInv

\* What core 0 is behind or still before its first join.
SamePhase ==
    \/ pc[CORE0] \notin Submitting /\ pc'[CORE0] \notin Submitting
    \/ pc[CORE0] \in ForkLabels /\ pc'[CORE0] \in ForkLabels /\ round' = round
    \/ pc'[CORE0] = pc[CORE0] /\ round' = round
    \/ pc[CORE0] = "rest" /\ pc'[CORE0] = "halt"
    \/ pc[CORE0] = "rest" /\ pc'[CORE0] = "forks" /\ round' = round + 1

\* threading_init() and the end of join_all() alone change the phase.
LEMMA PhaseStill ==
    ASSUME Known, TypeOK', [Next]_vars, ~ThreadingInit, ~JoinLeave(CORE0)
    PROVE  phase' = phase
<1> USE CoresAssumption DEF At, Goto
<1>0. /\ TypeOK /\ CORE0 \in Cores \ early /\ CORE0 \in Cores \ early'
      /\ StacksReturn(CORE0) /\ CoreInv(CORE0) /\ FramesInv(CORE0)
  BY DEF Known, IInv, RInv, TypeOK
<1>r. NextRound \/ round' = round
  <2>1. ASSUME NEW d \in Cores, Step(d) \/ Tick(d) \/ ExitTask(d) PROVE round' = round
    BY <2>1, OwnStep DEF Known
  <2>2. ASSUME NEW d \in Cores, Fork(d) PROVE round' = round
    BY <2>2, ForkAt DEF Known
  <2> QED BY <2>1, <2>2
      DEF Next, Program, Stopped, ThreadingInit, KickCores, StartJoin, JoinTask, vars, progVars
<1>g. ASSUME NextRound PROVE MainGoes(CORE0)
  <2>1. pc[CORE0] = "rest" /\ frames' = frames
    BY <1>g DEF NextRound, tableVars
  <2>2. cpu[CORE0] = Main
    BY <1>0, <2>1 DEF CoreInv, LabelFitsTask, MainLabels, ProgramLabels
  <2> QED BY <2>1, <2>2, <1>0 DEF FramesInv, SchedLabels, MainGoes
<1> SUFFICES ASSUME MainGoes(CORE0) PROVE SamePhase
  <2>1. MainAt(CORE0)' = MainAt(CORE0) \/ MainGoes(CORE0)
    BY <1>0, FramesStep DEF Known
  <2>2. ASSUME ~MainGoes(CORE0) PROVE phase' = phase
    <3>1. round' = round /\ MainAt(CORE0)' = MainAt(CORE0)
      BY <1>r, <1>g, <2>1, <2>2
    <3> QED BY <3>1 DEF phase
  <2>3. MainGoes(CORE0) => MainAt(CORE0) = pc[CORE0] /\ MainAt(CORE0)' = pc'[CORE0]
    BY DEF MainGoes, MainAt
  <2>4. round \in 1 .. Rounds /\ Rounds \in Nat
    BY <1>0, BoundsAssumption DEF TypeOK
  <2>5. round + 1 # 1 /\ (round' = round + 1 => round' # 1)
    BY <2>4
  <2>6. ASSUME MainGoes(CORE0), SamePhase PROVE phase' = phase
    <3>1. CASE pc[CORE0] \notin Submitting /\ pc'[CORE0] \notin Submitting
      BY <2>3, <2>6, <3>1 DEF phase
    <3>2. CASE pc[CORE0] \in ForkLabels /\ pc'[CORE0] \in ForkLabels /\ round' = round
      BY <2>3, <2>6, <3>2 DEF phase, ForkLabels, Submitting
    <3>3. CASE pc'[CORE0] = pc[CORE0] /\ round' = round
      BY <2>3, <2>6, <3>3 DEF phase
    <3>4. CASE pc[CORE0] = "rest" /\ pc'[CORE0] = "halt"
      BY <2>3, <2>6, <3>4 DEF phase, Submitting
    <3>5. CASE pc[CORE0] = "rest" /\ pc'[CORE0] = "forks" /\ round' = round + 1
      BY <2>3, <2>5, <2>6, <3>5 DEF phase, Submitting
    <3> QED BY <2>6, <3>1, <3>2, <3>3, <3>4, <3>5 DEF SamePhase
  <2> QED BY <2>2, <2>6
<1>1. ASSUME NEW d \in Cores \ {CORE0}, Step(d) \/ Tick(d) \/ ExitTask(d)
      PROVE  SamePhase
  BY <1>1, OwnStep DEF RowUnchanged, Known, SamePhase
<1>2. CASE TickReturn(CORE0) \/ ScheduleReturn(CORE0)
  <2>1. Return(CORE0) /\ frames[CORE0][cpu[CORE0]] # <<>> /\ pc[CORE0] \in {"tickret", "resume"}
    BY <1>2 DEF TickReturn, ScheduleReturn, Return
  <2>2. cpu[CORE0] # Main
    BY <2>1 DEF MainGoes
  <2>3. pc'[CORE0] \in Returns(cpu[CORE0])
    BY <1>0, <2>1, ReturnStack
  <2> QED BY <2>1, <2>2, <2>3 DEF Returns, TaskReturns, SuspendedHandler, Submitting, SamePhase
<1>3. CASE Tick(CORE0)
  <2>1. pc[CORE0] \notin QuietLabels /\ pc'[CORE0] = "sched"
    BY <1>0, <1>3 DEF Tick, CoreInv, TimerQuiet, CallSchedule, TypeOK
  <2> QED BY <2>1 DEF QuietLabels, ForkLabels, Submitting, SamePhase
<1>4. CASE \/ Schedule(CORE0) \/ ScanNext(CORE0) \/ ScanFound(CORE0) \/ ContextSwitch(CORE0)
           \/ RetFromFork(CORE0) \/ ExitTask(CORE0) \/ ExitCount(CORE0) \/ ExitUnlinkNext(CORE0)
           \/ ExitUnlinkPrevious(CORE0)
  <2>1. pc[CORE0] \in {"sched", "scan", "switch", "fork", "body"} \cup ExitLabels
    BY <1>4 DEF Schedule, ScanNext, ScanFound, ContextSwitch, RetFromFork, ExitTask, ExitCount,
                ExitUnlinkNext, ExitUnlinkPrevious, ExitLabels
  <2>2. pc'[CORE0] \in {"sched", "scan", "switch", "resume", "fork", "body"} \cup ExitLabels
    BY <1>0, <1>4 DEF Schedule, ScanNext, ScanFound, ContextSwitch, RetFromFork, ExitTask,
       ExitCount, ExitUnlinkNext, ExitUnlinkPrevious, ExitLabels, CallSchedule, TypeOK
  <2> QED BY <2>1, <2>2 DEF ExitLabels, Submitting, SamePhase
<1>5. CASE \/ Wake(CORE0) \/ SecondaryInit(CORE0) \/ StartMain(CORE0) \/ ArmTimer(CORE0)
           \/ JoinAll(CORE0) \/ SleepAgain(CORE0)
  <2>1. pc[CORE0] \in {"wfe", "entry", "start", "arm", "join", "demand"}
    BY <1>5 DEF Wake, SecondaryInit, StartMain, ArmTimer, JoinAll, SleepAgain
  <2>2. pc'[CORE0] \in {"wfe", "entry", "start", "arm", "started", "join", "leave", "sched", "demand"}
    BY <1>0, <1>5 DEF Wake, SecondaryInit, StartMain, ArmTimer, JoinAll, SleepAgain, CallSchedule,
       TypeOK
  <2> QED BY <2>1, <2>2 DEF Submitting, SamePhase
<1>6. ASSUME NEW d \in Cores, Fork(d) PROVE SamePhase
  BY <1>6, ForkAt DEF Known, SamePhase
<1>7. CASE KickCores \/ StartJoin \/ JoinTask
  <2>1. pc[CORE0] \in {"kick", "started", "joinT"}
    BY <1>7 DEF KickCores, StartJoin, JoinTask
  <2>2. pc'[CORE0] \in {"start", "joinT", "join", "sched"}
    BY <1>0, <1>7 DEF KickCores, StartJoin, JoinTask, CallSchedule, TypeOK
  <2> QED BY <2>1, <2>2 DEF Submitting, SamePhase
<1>9. CASE NextRound
  BY <1>0, <1>9 DEF NextRound, TypeOK, SamePhase
<1>8. CASE UNCHANGED vars
  BY <1>8 DEF vars, cpuVars, progVars, SamePhase
<1> QED
  BY <1>1, <1>2, <1>3, <1>4, <1>5, <1>6, <1>7, <1>8, <1>9 DEF Next, Step, Program, Stopped

\* A core that schedules or runs a task changes no phase and loses nobody.
LEMMA OwnPhase ==
    ASSUME Known, TypeOK', [Next]_vars, NEW c \in Cores, ScanFound(c) \/ ExitTask(c)
    PROVE  phase' = phase /\ UNCHANGED early
<1> USE CoresAssumption DEF At, Goto
<1>1. TypeOK
  BY DEF Known, IInv
<1>2. /\ pc[c] \in {"scan", "body"} /\ pc'[c] \in {"switch", "resume", "zombied"}
      /\ UNCHANGED early
  BY <1>1 DEF ScanFound, ExitTask, TypeOK, progVars
<1>3. ~ThreadingInit /\ ~JoinLeave(CORE0)
  BY <1>1, <1>2 DEF ThreadingInit, JoinLeave, TypeOK
<1> QED BY <1>2, <1>3, PhaseStill

\* A READY task takes the core from the one that had it.
LEMMA FoundImplements ==
    ASSUME Known, TypeOK', [Next]_vars, NEW c \in Cores \ early, ScanFound(c)
    PROVE  Pool!Next \/ UNCHANGED Pool!vars
<1> USE CoresAssumption DEF At
<1> DEFINE t == temp[c]
<1>0. TypeOK /\ CoreInv(c) /\ CurrentSet(c)
  BY DEF Known, IInv
<1>1. /\ state' = [state EXCEPT ![c] = [Demoted(c) EXCEPT ![t] = TASK_RUNNING]]
      /\ t \in Tasks /\ state[c][t] = TASK_READY /\ pc[c] = "scan"
  BY <1>0 DEF ScanFound, TypeOK
<1>2. phase' = phase /\ UNCHANGED early
  BY OwnPhase
<1>3. \A d \in Cores \ {c} : state'[d] = state[d]
  BY <1>0, <1>1 DEF TypeOK
<1>4. CASE Workers(c) = {}
  <2>1. Workers(c)' = {}
    <3>1. ~ForkTask(c)
      BY <1>0, <1>1 DEF ScanFound, ForkTask, Goto, TypeOK
    <3> QED BY <1>2, <1>4, <3>1, WorkersStep DEF Known
  <2>2. \A s \in Slots : state[c][s] = TASK_ZOMBIE /\ state'[c][s] = TASK_ZOMBIE
    BY <1>4, <2>1, TaskFacts DEF Workers, Live
  <2>3. job' = job
    BY <1>2, <1>3, <2>2, JobStill
  <2> QED BY <1>2, <2>3 DEF Pool!vars
<1>5. CASE Workers(c) # {}
  <2>1. phase = "wait"
    BY <1>5, RunsWhenWaiting DEF Step
  <2>2. current[c] # NULL /\ current[c] \in Tasks
    BY <1>0, <1>1 DEF CurrentSet, ForkLabels, TypeOK
  <2>3. \A s \in Tasks : Demoted(c)[s] = IF s = current[c] /\ state[c][s] # TASK_ZOMBIE
                                         THEN TASK_READY ELSE state[c][s]
    BY <1>0, <2>2 DEF Demoted, TypeOK
  <2>4. \A s \in Tasks : state'[c][s] = IF s = t THEN TASK_RUNNING ELSE Demoted(c)[s]
    <3>1. Demoted(c) \in [Tasks -> {TASK_ZOMBIE, TASK_READY, TASK_RUNNING}]
      BY <1>0 DEF Demoted, TypeOK
    <3>2. state'[c] = [Demoted(c) EXCEPT ![t] = TASK_RUNNING]
      BY <1>0, <1>1 DEF TypeOK
    <3> QED BY <3>1, <3>2
  <2>5. \A s \in Tasks : /\ state[c][s] = TASK_RUNNING => s = current[c]
                         /\ s = current[c] => state[c][s] # TASK_READY
    BY <1>0, <2>2 DEF CoreInv, StatesFit
  <2>6. ASSUME NEW s \in Slots
        PROVE  /\ s # t => job'[c][s] = Pool!GiveWay(c)[s]
               /\ s = t => job'[c][s] = "running" /\ job[c][s] = "ready"
    <3>1. s \in Tasks /\ state[c][s] \in {TASK_ZOMBIE, TASK_READY, TASK_RUNNING}
      BY <1>0, TaskFacts DEF TypeOK
    <3>2. /\ state[c][s] = TASK_ZOMBIE => job[c][s] = "free"
          /\ state[c][s] = TASK_READY => job[c][s] = "ready"
          /\ state[c][s] = TASK_RUNNING => job[c][s] = "running"
      BY <1>0, JobIs
    <3>4. /\ state'[c][s] = TASK_ZOMBIE => job'[c][s] = "free"
          /\ state'[c][s] = TASK_READY => job'[c][s] = "ready"
          /\ state'[c][s] = TASK_RUNNING => job'[c][s] = "running"
      BY <1>2, JobIsNext
    <3>3. Pool!GiveWay(c)[s] = IF job[c][s] = "running" THEN "ready" ELSE job[c][s]
      BY DEF Pool!GiveWay
    <3> QED BY <1>1, <2>3, <2>4, <2>5, <3>1, <3>2, <3>3, <3>4
  <2>7. CASE t = Main
    <3>1. job' = [job EXCEPT ![c] = Pool!GiveWay(c)]
      <4>1. \A s \in Slots : job'[c][s] = Pool!GiveWay(c)[s]
        BY <2>6, <2>7, TaskFacts
      <4>2. Pool!GiveWay(c) = [s \in Slots |-> Pool!GiveWay(c)[s]]
        BY DEF Pool!GiveWay
      <4> QED BY <1>2, <1>3, <4>1, <4>2, JobOn
    <3>2. Pool!Preempt(c)
      BY <1>2, <2>1, <3>1 DEF Pool!Preempt
    <3> QED BY <3>2 DEF Pool!Next
  <2>8. CASE t # Main
    <3>1. t \in Slots
      BY <1>1, <2>8, TaskFacts
    <3>2. job' = [job EXCEPT ![c] = [Pool!GiveWay(c) EXCEPT ![t] = "running"]]
      <4> DEFINE f == [Pool!GiveWay(c) EXCEPT ![t] = "running"]
      <4>1. \A s \in Slots : f[s] = IF s = t THEN "running" ELSE Pool!GiveWay(c)[s]
        BY DEF Pool!GiveWay
      <4>2. f = [s \in Slots |-> f[s]]
        BY DEF Pool!GiveWay
      <4>3. \A s \in Slots : job'[c][s] = f[s]
        BY <2>6, <4>1
      <4> HIDE DEF f
      <4>4. job' = [job EXCEPT ![c] = f]
        BY <1>2, <1>3, <4>2, <4>3, JobOn
      <4> QED BY <4>4 DEF f
    <3>3. Pool!Run(c, t)
      BY <1>2, <2>1, <2>6, <3>1, <3>2 DEF Pool!Run
    <3> QED BY <3>1, <3>3 DEF Pool!Next
  <2> QED BY <2>7, <2>8
<1> QED BY <1>4, <1>5

\* The job of a task that exits was running.
LEMMA ExitImplements ==
    ASSUME Known, TypeOK', [Next]_vars, NEW c \in Cores \ early, ExitTask(c)
    PROVE  Pool!Next
<1> USE CoresAssumption DEF At
<1> DEFINE t == current[c]
<1>0. TypeOK /\ CoreInv(c) /\ CurrentSet(c) /\ DeadLeaves(c)
  BY DEF Known, IInv, RInv
<1>1. pc[c] = "body" /\ state' = [state EXCEPT ![c][t] = TASK_ZOMBIE]
  BY DEF ExitTask
<1>2. t \in Slots /\ t \in Tasks
  BY <1>0, <1>1, TaskFacts
  DEF CoreInv, LabelFitsTask, CpuIsCurrent, CurrentSet, ForkLabels, TaskLabels, TypeOK
<1>3. t \in Live(c)
  BY <1>0, <1>1, <1>2, TaskFacts DEF DeadLeaves, ExitLabels
<1>4. state[c][t] # TASK_ZOMBIE /\ state[c][t] # TASK_READY
  BY <1>0, <1>2, <1>3, TaskFacts DEF Live, CoreInv, StatesFit
<1>5. job[c][t] = "running"
  BY <1>0, <1>2, <1>4, JobIs
<1>6. Workers(c) # {}
  BY <1>2, <1>3, TaskFacts DEF Workers
<1>7. phase = "wait"
  BY <1>6, RunsWhenWaiting
<1>8. phase' = phase /\ UNCHANGED early
  BY OwnPhase
<1>9. job' = [job EXCEPT ![c][t] = "free"]
  <2> DEFINE f == [job[c] EXCEPT ![t] = "free"]
  <2>1. \A d \in Cores : \A s \in Tasks :
          state'[d][s] = IF d = c /\ s = t THEN TASK_ZOMBIE ELSE state[d][s]
    <3>1. state \in [Cores -> [Tasks -> {TASK_READY, TASK_RUNNING, TASK_ZOMBIE}]]
      BY <1>0 DEF TypeOK
    <3> QED BY <1>1, <1>2, <3>1
  <2>2. \A d \in Cores \ {c} : \A s \in Slots : state'[d][s] = state[d][s]
    BY <2>1, TaskFacts
  <2>3. ASSUME NEW s \in Slots PROVE job'[c][s] = IF s = t THEN "free" ELSE job[c][s]
    <3>1. CASE s = t
      BY <1>2, <1>8, <2>1, <3>1, JobIsNext
    <3>2. CASE s # t
      <4>1. state'[c][s] = state[c][s]
        BY <2>1, <3>2, TaskFacts
      <4> QED BY <1>8, <3>2, <4>1 DEF job
    <3> QED BY <3>1, <3>2
  <2>4. f = [s \in Slots |-> IF s = t THEN "free" ELSE job[c][s]]
    BY DEF job
  <2>5. f = [s \in Slots |-> f[s]] /\ \A s \in Slots : job'[c][s] = f[s]
    BY <2>3, <2>4
  <2>6. job' = [job EXCEPT ![c] = f]
    <3> HIDE DEF f
    <3> QED BY <1>8, <2>2, <2>5, JobOn
  <2> QED BY <2>6
<1>10. Pool!Finish(c, t)
  BY <1>5, <1>7, <1>8, <1>9 DEF Pool!Finish
<1> QED BY <1>2, <1>10 DEF Pool!Next

\* fork_task() changes no phase.
LEMMA ForkPhase ==
    ASSUME Known, TypeOK', [Next]_vars, NEW c \in Cores, ForkTask(c)
    PROVE  phase' = phase /\ phase = IF round = 1 THEN "first" ELSE "submit"
<1> USE CoresAssumption DEF At
<1>1. TypeOK /\ CORE0 \in Cores \ early /\ FramesInv(CORE0)
  BY DEF Known, IInv, RInv, TypeOK
<1>2. pc[CORE0] = "forks" /\ pc[CORE0] \in ForkLabels /\ pc'[CORE0] = "link"
  BY <1>1 DEF ForkTask, ForkLabels, Goto, TypeOK
<1>3. MainAt(CORE0) = "forks"
  BY <1>1, <1>2, MainForks DEF Known
<1>4. ~ThreadingInit /\ ~JoinLeave(CORE0)
  BY <1>1, <1>2 DEF ThreadingInit, JoinLeave, Goto, TypeOK
<1> QED BY <1>3, <1>4, PhaseStill DEF phase, Submitting

\* fork_task() submits a job.
LEMMA ForkSubmits ==
    ASSUME Known, TypeOK', [Next]_vars, NEW c \in Cores \ early', ForkTask(c)
    PROVE  Pool!Next
<1>0. TypeOK /\ c \notin early /\ UNCHANGED early
  <2>1. c \notin early
    BY EarlyStays
  <2> QED BY <2>1 DEF Known, IInv, ForkTask
<1>1. PICK p \in FreeSlots(c) : state' = [state EXCEPT ![c][p] = TASK_READY]
  BY DEF ForkTask
<1>2. p \in Slots /\ p \in Tasks /\ state[c][p] = TASK_ZOMBIE
  BY TaskFacts DEF FreeSlots
<1>3. phase # "wait" /\ phase' = phase
  BY ForkPhase
<1>4. job[c][p] = "free"
  BY <1>0, <1>2, JobIs
<1>5. job' = [job EXCEPT ![c][p] = "ready"]
  <2> DEFINE f == [job[c] EXCEPT ![p] = "ready"]
  <2>1. \A d \in Cores : \A s \in Tasks :
          state'[d][s] = IF d = c /\ s = p THEN TASK_READY ELSE state[d][s]
    <3>1. state \in [Cores -> [Tasks -> {TASK_READY, TASK_RUNNING, TASK_ZOMBIE}]]
      BY <1>0 DEF TypeOK
    <3> QED BY <1>1, <1>2, <3>1
  <2>2. \A d \in Cores \ {c} : \A s \in Slots : state'[d][s] = state[d][s]
    BY <2>1, TaskFacts
  <2>3. ASSUME NEW s \in Slots PROVE job'[c][s] = IF s = p THEN "ready" ELSE job[c][s]
    <3>1. CASE s = p
      BY <1>2, <2>1, <3>1, JobIsNext
    <3>2. CASE s # p
      <4>1. state'[c][s] = state[c][s]
        BY <2>1, <3>2, TaskFacts
      <4> QED BY <1>0, <3>2, <4>1 DEF job
    <3> QED BY <3>1, <3>2
  <2>4. f = [s \in Slots |-> IF s = p THEN "ready" ELSE job[c][s]]
    BY DEF job
  <2>5. f = [s \in Slots |-> f[s]] /\ \A s \in Slots : job'[c][s] = f[s]
    BY <2>3, <2>4
  <2>6. job' = [job EXCEPT ![c] = f]
    <3> HIDE DEF f
    <3> QED BY <1>0, <2>2, <2>5, JobOn
  <2> QED BY <2>6
<1>6. Pool!Submit(c, p)
  BY <1>3, <1>4, <1>5 DEF Pool!Submit
<1> QED BY <1>2, <1>6 DEF Pool!Next

\* A fork that comes too early loses a core that has no job.
LEMMA ForkLoses ==
    ASSUME Known, TypeOK', [Next]_vars, NEW c \in Cores \ early, c \in early', ForkTask(c)
    PROVE  Pool!Next
<1> USE CoresAssumption
<1>0. TypeOK
  BY DEF Known, IInv
<1>1. /\ c # CORE0 /\ ~Asleep(c) /\ early' = early \cup {c}
      /\ pc[CORE0] \in ForkLabels
  BY DEF ForkTask, TooEarly, At, ForkLabels
<1>2. phase' = phase /\ phase = "submit"
  <2>1. round # 1
    BY <1>1 DEF Known, IInv, OthersSleep
  <2> QED BY <2>1, ForkPhase
<1>3. \A s \in Slots : job[c][s] = "free"
  <2>1. Workers(c) = {}
    BY <1>1, AwakeIdle DEF Known, RInv
  <2>2. \A s \in Slots : state[c][s] = TASK_ZOMBIE
    BY <2>1, TaskFacts DEF Workers, Live
  <2> QED BY <1>0, <2>2, JobIs
<1>4. job' = [job EXCEPT ![c] = [s \in Slots |-> "lost"]]
  <2>1. \A d \in Cores \ {c} : state'[d] = state[d]
    BY <1>0 DEF ForkTask, TypeOK
  <2>2. ASSUME NEW d \in Cores \ {c} PROVE job'[d] = job[d]
    BY <1>1, <2>1, JobRow
  <2>3. job'[c] = [s \in Slots |-> "lost"]
    BY <1>1 DEF job
  <2>4. job = [d \in Cores |-> job[d]] /\ job' = [d \in Cores |-> job'[d]]
    BY DEF job
  <2> QED BY <2>2, <2>3, <2>4
<1>5. Pool!Lose(c)
  BY <1>1, <1>2, <1>3, <1>4 DEF Pool!Lose, Losable
<1> QED BY <1>5 DEF Pool!Next

\* threading_init() begins the wait, and the end of join_all() is its end.
LEMMA WaitImplements ==
    ASSUME Known, TypeOK', [Next]_vars, ThreadingInit \/ JoinLeave(CORE0)
    PROVE  Pool!Next
<1> USE CoresAssumption, TaskFacts DEF At, Goto, Submitting, tableVars
<1>0. TypeOK /\ CoreInv(CORE0) /\ FramesInv(CORE0)
  BY DEF Known, IInv, RInv, TypeOK
<1>1. job' = job /\ frames' = frames
  BY JobStill DEF ThreadingInit, JoinLeave, progVars
<1>2. pc[CORE0] \in {"forks", "leave"} /\ cpu[CORE0] = Main
  BY <1>0 DEF ThreadingInit, JoinLeave, CoreInv, LabelFitsTask, MainLabels, ProgramLabels
<1>3. MainAt(CORE0) = pc[CORE0] /\ MainAt(CORE0)' = pc'[CORE0]
  <2>1. frames[CORE0][Main] = <<>>
    BY <1>0, <1>2 DEF FramesInv, SchedLabels
  <2> QED BY <1>1, <2>1 DEF MainAt
<1>4. CASE ThreadingInit
  <2>1. pc[CORE0] = "forks" /\ pc'[CORE0] = "kick"
    BY <1>0, <1>4 DEF ThreadingInit, TypeOK
  <2>2. Pool!Wait
    BY <1>1, <1>3, <2>1 DEF Pool!Wait, phase
  <2> QED BY <2>2 DEF Pool!Next
<1>5. CASE JoinLeave(CORE0)
  <2>1. pc[CORE0] = "leave" /\ pc'[CORE0] = "rest"
    BY <1>0, <1>5 DEF JoinLeave, TypeOK
  <2>2. ASSUME NEW c \in Cores, NEW s \in Slots PROVE job[c][s] \in {"free", "lost"}
    <3>1. CASE c \in early
      BY <3>1 DEF job
    <3>2. CASE c \notin early
      <4>1. Workers(c) = {}
        BY <1>3, <2>1, <3>2 DEF Known, RInv, JoinedInv, Left
      <4>2. state[c][s] = TASK_ZOMBIE
        BY <4>1 DEF Workers, Live
      <4> QED BY <1>0, <3>2, <4>2, JobIs
    <3> QED BY <3>1, <3>2
  <2>3. Pool!Resume
    BY <1>1, <1>3, <2>1, <2>2 DEF Pool!Resume, phase
  <2> QED BY <2>3 DEF Pool!Next
<1> QED BY <1>4, <1>5

\* Every step is one of the pool, or one that it does not see.
LEMMA StepImplements ==
    ASSUME Known, TypeOK', [Next]_vars
    PROVE  Pool!Next \/ UNCHANGED Pool!vars
<1> USE CoresAssumption, TaskFacts DEF tableVars
<1>0. TypeOK
  BY DEF Known, IInv
<1>1. CASE \E c \in Cores \ early : ScanFound(c) \/ ExitTask(c)
  BY <1>1, FoundImplements, ExitImplements
<1>2. ASSUME NEW c \in Cores, ForkTask(c), c \notin early \/ c \notin early'
      PROVE  Pool!Next
  BY <1>2, ForkSubmits, ForkLoses
<1>3. CASE ThreadingInit \/ JoinLeave(CORE0)
  BY <1>3, WaitImplements
<1>4. CASE \E c \in early : ScanFound(c) \/ ExitTask(c) \/ ForkTask(c)
  <2>1. PICK c \in early : ScanFound(c) \/ ExitTask(c) \/ ForkTask(c)
    BY <1>4
  <2>2. c \in Cores
    BY <1>0 DEF TypeOK
  <2>3. phase' = phase /\ UNCHANGED early
    BY <2>1, <2>2, OwnPhase, ForkPhase DEF ForkTask
  <2>4. \A d \in Cores \ early : state'[d] = state[d]
    BY <1>0, <2>1 DEF ScanFound, ExitTask, ForkTask, TypeOK
  <2>5. job' = job
    BY <2>3, <2>4, JobStill
  <2> QED BY <2>3, <2>5 DEF Pool!vars
<1>5. CASE /\ ~(\E c \in Cores : ScanFound(c) \/ ExitTask(c) \/ ForkTask(c))
           /\ ~ThreadingInit /\ ~JoinLeave(CORE0)
  <2>1. phase' = phase /\ UNCHANGED early
    BY <1>5, PhaseStill, EarlyStays
  <2>2. \A c \in Cores \ early : \A s \in Slots : state'[c][s] = state[c][s]
    <3>1. ASSUME NEW d \in Cores, StartMain(d)
          PROVE  \A c \in Cores \ early : \A s \in Slots : state'[c][s] = state[c][s]
      <4>1. CASE d \in early
        BY <1>0, <3>1, <4>1 DEF StartMain, TypeOK
      <4>2. CASE d \notin early
        <5>1. pc[d] = "start" /\ CoreInv(d) /\ CurrentSet(d)
          BY <3>1, <4>2 DEF StartMain, At, Known, IInv
        <5>2. current[d] = Main
          BY <5>1 DEF CoreInv, CpuIsCurrent, LabelFitsTask, MainLabels, CurrentSet, ForkLabels
        <5>3. state' = [state EXCEPT ![d] = [state[d] EXCEPT ![Main] = TASK_RUNNING]]
          BY <3>1, <5>2 DEF StartMain, Started
        <5> QED BY <1>0, <5>3 DEF TypeOK
      <4> QED BY <4>1, <4>2
    <3>2. CASE UNCHANGED state
      BY <3>2
    <3>3. CASE UNCHANGED vars
      BY <3>3 DEF vars
    <3> QED
      BY <1>5, <3>1, <3>2, <3>3
      DEF Next, Step, Fork, Program, Stopped, TickReturn, Schedule, ScanNext, ContextSwitch, Tick,
          ScheduleReturn, RetFromFork, ExitCount, ExitUnlinkNext, ExitUnlinkPrevious, Wake,
          SecondaryInit, ArmTimer, JoinAll, JoinLeave, SleepAgain, ForkPanic, LinkFirst, LinkNext,
          LinkPrevious, ForkCount, KickCores, StartJoin, JoinTask, NextRound
  <2>3. job' = job
    BY <2>1, <2>2, JobStill
  <2> QED BY <2>1, <2>3 DEF Pool!vars
<1> QED BY <1>1, <1>2, <1>3, <1>4, <1>5

\* No slot has a job before the first fork.
LEMMA InitImplements == Init => Pool!Init
<1> SUFFICES ASSUME Init PROVE Pool!Init
  OBVIOUS
<1> USE CoresAssumption, TaskFacts
<1>1. TypeOK
  BY TypeInit
<1>2. ASSUME NEW c \in Cores, NEW s \in Slots PROVE job[c][s] = "free"
  <2>1. state[c][s] = TASK_ZOMBIE /\ c \notin early
    BY DEF Init
  <2> QED BY <1>1, <2>1, JobIs
<1>3. job = [c \in Cores |-> [s \in Slots |-> "free"]]
  BY <1>2 DEF job
<1>4. phase = "first"
  BY DEF Init, phase, MainAt, Submitting
<1> QED BY <1>3, <1>4 DEF Pool!Init

\* What the threads promise: between threading_init() and join_all()'s return,
\* and only then, each core runs its tasks one at a time, each to its end, and
\* join_all() returns when none is left; all that is lost is a core that was awake
\* and without a task when core 0 forked for it.
THEOREM Implements == ASSUME ~EarlyTick PROVE Spec => PoolSpec
<1>1. Init => Pool!Init
  BY InitImplements
<1>2. Known /\ [Next]_vars => [Pool!Next]_Pool!vars
  <2> SUFFICES ASSUME Known, [Next]_vars PROVE [Pool!Next]_Pool!vars
    OBVIOUS
  <2>1. TypeOK'
    BY TypeStep DEF Known
  <2> QED BY <2>1, StepImplements
<1>3. Spec => []Known
  BY RoundInvariance DEF Known
<1> QED BY <1>1, <1>2, <1>3, PTL DEF Spec, PoolSpec, Pool!Spec

================================================================================
