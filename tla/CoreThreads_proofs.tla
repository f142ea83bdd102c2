--------------------------- MODULE CoreThreads_proofs ---------------------------
(* Theorems about CoreThreads, for every number of cores, slots, rounds and   *)
(* nested ticks.                                                              *)
EXTENDS CoreThreadsInv, SequenceTheorems, TLAPS

USE DEF TASK_ZOMBIE, TASK_READY, TASK_RUNNING

--------------------------------------------------------------------------------
(* Type correctness. *)

\* Slot 0 and the others.
LEMMA TaskFacts ==
    /\ Main \in Tasks /\ Main \notin Slots /\ Slots \subseteq Tasks
    /\ \A t \in Tasks : t = Main \/ t \in Slots
    /\ NULL \notin Tasks /\ NULL # Main /\ NULL \notin Slots
BY NRTasksAssumption, NullAssumption DEF Main, Tasks, Slots

\* The labels the actions go to.
LEMMA LabelFacts ==
    /\ "forks" \in Labels /\ "link" \in Labels /\ "link2" \in Labels /\ "count" \in Labels
    /\ "kick" \in Labels /\ "started" \in Labels /\ "joinT" \in Labels /\ "rest" \in Labels
    /\ "halt" \in Labels /\ "wfe" \in Labels /\ "entry" \in Labels /\ "demand" \in Labels
    /\ "start" \in Labels /\ "arm" \in Labels /\ "join" \in Labels /\ "leave" \in Labels
    /\ "fork" \in Labels /\ "body" \in Labels /\ "zombied" \in Labels /\ "counted" \in Labels
    /\ "unlinked" \in Labels /\ "tickret" \in Labels /\ "sched" \in Labels /\ "scan" \in Labels
    /\ "switch" \in Labels /\ "resume" \in Labels
BY DEF Labels, MainLabels, ProgramLabels, SecondaryLabels, TaskLabels,
       ExitLabels, SchedLabels

\* Writing one entry of a table that has a row for each core.
LEMMA EntryType ==
    ASSUME NEW S, NEW T, NEW R, NEW f \in [S -> [T -> R]],
           NEW s \in S, NEW t, NEW r \in R
    PROVE  [f EXCEPT ![s][t] = r] \in [S -> [T -> R]]
OBVIOUS

LEMMA GotoType ==
    ASSUME pc \in [Cores -> Labels], NEW c \in Cores, NEW l \in Labels,
           Goto(c, l)
    PROVE  pc' \in [Cores -> Labels]
BY DEF Goto

\* Pushing labels and calling schedule(), or returning to the label on top of
\* the stack, keeps stacks and label typed.
LEMMA CallType ==
    ASSUME frames \in [Cores -> [Tasks -> Seq(Labels)]], cpu \in [Cores -> Tasks],
           pc \in [Cores -> Labels],
           NEW c \in Cores, NEW r \in Seq(Labels), CallSchedule(c, r)
    PROVE  /\ frames' \in [Cores -> [Tasks -> Seq(Labels)]]
           /\ pc' \in [Cores -> Labels]
<1>1. frames[c][cpu[c]] \in Seq(Labels)
  OBVIOUS
<1>2. r \o frames[c][cpu[c]] \in Seq(Labels)
  BY <1>1, ConcatProperties
<1>3. frames' \in [Cores -> [Tasks -> Seq(Labels)]]
  BY <1>2 DEF CallSchedule
<1>4. "sched" \in Labels
  BY LabelFacts
<1> QED BY <1>3, <1>4, GotoType DEF CallSchedule

LEMMA ReturnType ==
    ASSUME frames \in [Cores -> [Tasks -> Seq(Labels)]], cpu \in [Cores -> Tasks],
           pc \in [Cores -> Labels], NEW c \in Cores, Return(c)
    PROVE  /\ frames' \in [Cores -> [Tasks -> Seq(Labels)]]
           /\ pc' \in [Cores -> Labels]
<1> DEFINE f == frames[c][cpu[c]]
<1>1. f \in Seq(Labels) /\ f # <<>>
  BY DEF Return
<1>2. Head(f) \in Labels /\ Tail(f) \in Seq(Labels)
  BY <1>1, HeadTailProperties
<1>3. frames' \in [Cores -> [Tasks -> Seq(Labels)]]
  BY <1>2 DEF Return
<1> QED BY <1>2, <1>3, GotoType DEF Return

LEMMA SetPreemptType ==
    ASSUME preempt_count \in [Cores -> [Tasks -> 0 .. 1]],
           NEW c \in Cores, NEW n \in 0 .. 1, SetPreempt(c, n)
    PROVE  preempt_count' \in [Cores -> [Tasks -> 0 .. 1]]
BY EntryType DEF SetPreempt

\* A core that runs exit_task() has a current.
LEMMA CurrentIn ==
    ASSUME IInv, NEW c \in Cores, pc[c] \in ExitLabels
    PROVE  current[c] \in Tasks
<1>1. CurrentSet(c)
  BY DEF IInv
<1>2. current[c] \in Tasks \cup {NULL}
  BY DEF IInv, TypeOK
<1> QED BY <1>1, <1>2 DEF CurrentSet, ForkLabels, ExitLabels

\* What a round forks.
LEMMA ForksInNat ==
    ASSUME TypeOK, NEW c \in Cores
    PROVE  Forks[round][c] \in Nat
<1>1. round \in 1 .. Rounds
  BY DEF TypeOK
<1>2. Forks[round] \in [Cores -> Nat]
  BY <1>1, ForksAssumption
<1> QED BY <1>2

LEMMA TypeInit == Init => TypeOK
<1> SUFFICES ASSUME Init PROVE TypeOK
  OBVIOUS
<1>1. pc \in [Cores -> Labels]
  BY LabelFacts DEF Init
<1>2. todo \in [Cores -> Nat] /\ round \in 1 .. Rounds
  BY ForksAssumption, BoundsAssumption DEF Init
<1>3. frames \in [Cores -> [Tasks -> Seq(Labels)]]
  BY DEF Init
<1>4. target \in Cores \X Tasks
  BY CoresAssumption, TaskFacts DEF Init, NoTask
<1> QED BY <1>1, <1>2, <1>3, <1>4, TaskFacts, FlagsAssumption DEF Init, TypeOK

LEMMA TypeStep == IInv /\ [Next]_vars => TypeOK'
<1> SUFFICES ASSUME IInv, [Next]_vars PROVE TypeOK'
  OBVIOUS
<1> USE CoresAssumption, TaskFacts
<1> USE DEF At, tableVars, coreVars, cpuVars, timerVars, progVars
<1>0. TypeOK
  BY DEF IInv
<1>1. ASSUME NEW c \in Cores, Tick(c) PROVE TypeOK'
  <2>1. <<"tickret", pc[c]>> \in Seq(Labels)
    BY <1>0, LabelFacts DEF TypeOK
  <2> QED BY <1>0, <1>1, <2>1, CallType DEF Tick, TypeOK
<1>2. ASSUME NEW c \in Cores, TickReturn(c) PROVE TypeOK'
  BY <1>0, <1>2, ReturnType DEF TickReturn, TypeOK
<1>3. ASSUME NEW c \in Cores, Schedule(c) PROVE TypeOK'
  <2>1. preempt_count' \in [Cores -> [Tasks -> 0 .. 1]]
    <3>1. SetPreempt(c, 1) /\ 1 \in 0 .. 1
      BY <1>3 DEF Schedule
    <3> QED BY <1>0, <3>1, SetPreemptType DEF TypeOK
  <2>2. pc' \in [Cores -> Labels]
    BY <1>0, <1>3, LabelFacts, GotoType DEF Schedule, TypeOK
  <2>3. temp' \in [Cores -> Tasks \cup {NULL}]
    BY <1>0, <1>3 DEF Schedule, ScanStart, TypeOK
  <2> QED BY <1>0, <1>3, <2>1, <2>2, <2>3 DEF Schedule, TypeOK
<1>4. ASSUME NEW c \in Cores, ScanNext(c) PROVE TypeOK'
  <2>1. pc' \in [Cores -> Labels]
    BY <1>0, <1>4, LabelFacts, GotoType DEF ScanNext, TypeOK
  <2>2. temp' \in [Cores -> Tasks \cup {NULL}]
    <3>1. CASE temp[c] = NULL
      BY <1>0, <1>4, <3>1 DEF ScanNext, TypeOK
    <3>2. CASE temp[c] # NULL
      <4>1. temp[c] \in Tasks
        BY <1>0, <3>2 DEF TypeOK
      <4>2. next[c][temp[c]] \in Tasks \cup {NULL}
        BY <1>0, <4>1 DEF TypeOK
      <4>3. temp' = [temp EXCEPT ![c] = next[c][temp[c]]]
        BY <1>4, <3>2 DEF ScanNext
      <4>4. temp \in [Cores -> Tasks \cup {NULL}]
        BY <1>0 DEF TypeOK
      <4> QED BY <4>2, <4>3, <4>4
    <3> QED BY <3>1, <3>2
  <2> QED BY <1>0, <1>4, <2>1, <2>2 DEF ScanNext, TypeOK
<1>5. ASSUME NEW c \in Cores, ScanFound(c) PROVE TypeOK'
  <2>1. pc' \in [Cores -> Labels]
    BY <1>0, <1>5, LabelFacts, GotoType DEF ScanFound, TypeOK
  <2>2. [Demoted(c) EXCEPT ![temp[c]] = TASK_RUNNING]
           \in [Tasks -> {TASK_ZOMBIE, TASK_READY, TASK_RUNNING}]
    BY <1>0 DEF Demoted, TypeOK
  <2>3. state' \in [Cores -> [Tasks -> {TASK_ZOMBIE, TASK_READY, TASK_RUNNING}]]
    BY <1>0, <1>5, <2>2 DEF ScanFound, TypeOK
  <2>4. current' \in [Cores -> Tasks \cup {NULL}]
    BY <1>0, <1>5 DEF ScanFound, TypeOK
  <2> QED BY <1>0, <1>5, <2>1, <2>3, <2>4 DEF ScanFound, TypeOK
<1>6. ASSUME NEW c \in Cores, ContextSwitch(c) PROVE TypeOK'
  <2>1. [Saved(c) EXCEPT ![temp[c]] = "none"]
           \in [Tasks -> {"none", "fork", "resume"}]
    BY <1>0 DEF Saved, TypeOK
  <2>2. ctx' \in [Cores -> [Tasks -> {"none", "fork", "resume"}]]
    <3>1. ctx' = [ctx EXCEPT ![c] = [Saved(c) EXCEPT ![temp[c]] = "none"]]
      BY <1>6 DEF ContextSwitch
    <3> QED BY <1>0, <2>1, <3>1 DEF TypeOK
  <2>3. cpu' \in [Cores -> Tasks]
    <3>1. temp[c] \in Tasks
      BY <1>0, <1>6 DEF ContextSwitch, TypeOK
    <3> QED BY <1>0, <1>6, <3>1 DEF ContextSwitch, TypeOK
  <2>4. pc' \in [Cores -> Labels]
    BY <1>0, <1>6, LabelFacts, GotoType DEF ContextSwitch, TypeOK
  <2>5. temp' \in [Cores -> Tasks \cup {NULL}]
    BY <1>0, <1>6 DEF ContextSwitch, TypeOK
  <2>6. frames' \in [Cores -> [Tasks -> Seq(Labels)]]
    <3>1. <<>> \in Seq(Labels)
      OBVIOUS
    <3>2. \/ frames' = frames
          \/ frames' = [frames EXCEPT ![c][temp[c]] = <<>>]
      BY <1>6 DEF ContextSwitch
    <3>3. frames \in [Cores -> [Tasks -> Seq(Labels)]]
      BY <1>0 DEF TypeOK
    <3> QED BY <3>1, <3>2, <3>3, EntryType
  <2> QED BY <1>0, <1>6, <2>2, <2>3, <2>4, <2>5, <2>6 DEF ContextSwitch, TypeOK
<1>7. ASSUME NEW c \in Cores, ScheduleReturn(c) PROVE TypeOK'
  <2>1. preempt_count' \in [Cores -> [Tasks -> 0 .. 1]]
    <3>1. SetPreempt(c, 0) /\ 0 \in 0 .. 1
      BY <1>7 DEF ScheduleReturn
    <3> QED BY <1>0, <3>1, SetPreemptType DEF TypeOK
  <2>2. /\ frames' \in [Cores -> [Tasks -> Seq(Labels)]]
        /\ pc' \in [Cores -> Labels]
    BY <1>0, <1>7, ReturnType DEF ScheduleReturn, TypeOK
  <2>3. temp' \in [Cores -> Tasks \cup {NULL}]
    BY <1>0, <1>7 DEF ScheduleReturn, TypeOK
  <2> QED BY <1>0, <1>7, <2>1, <2>2, <2>3 DEF ScheduleReturn, TypeOK
<1>8. ASSUME NEW c \in Cores, RetFromFork(c) PROVE TypeOK'
  <2>1. preempt_count' \in [Cores -> [Tasks -> 0 .. 1]]
    <3>1. SetPreempt(c, 0) /\ 0 \in 0 .. 1
      BY <1>8 DEF RetFromFork
    <3> QED BY <1>0, <3>1, SetPreemptType DEF TypeOK
  <2>2. pc' \in [Cores -> Labels]
    BY <1>0, <1>8, LabelFacts, GotoType DEF RetFromFork, TypeOK
  <2> QED BY <1>0, <1>8, <2>1, <2>2 DEF RetFromFork, TypeOK
<1>9. ASSUME NEW c \in Cores, ExitTask(c) PROVE TypeOK'
  <2>1. preempt_count' \in [Cores -> [Tasks -> 0 .. 1]]
    <3>1. SetPreempt(c, 1) /\ 1 \in 0 .. 1
      BY <1>9 DEF ExitTask
    <3> QED BY <1>0, <3>1, SetPreemptType DEF TypeOK
  <2>2. pc' \in [Cores -> Labels]
    BY <1>0, <1>9, LabelFacts, GotoType DEF ExitTask, TypeOK
  <2>3. state' \in [Cores -> [Tasks -> {TASK_ZOMBIE, TASK_READY, TASK_RUNNING}]]
    BY <1>0, <1>9 DEF ExitTask, TypeOK
  <2> QED BY <1>0, <1>9, <2>1, <2>2, <2>3 DEF ExitTask, TypeOK
<1>10. ASSUME NEW c \in Cores, ExitCount(c) PROVE TypeOK'
  <2>1. pc' \in [Cores -> Labels]
    BY <1>0, <1>10, LabelFacts, GotoType DEF ExitCount, TypeOK
  <2>2. tasks_num' \in [Cores -> Int]
    <3>1. tasks_num[c] - 1 \in Int
      BY <1>0 DEF TypeOK
    <3> QED BY <1>0, <1>10, <3>1 DEF ExitCount, TypeOK
  <2> QED BY <1>0, <1>10, <2>1, <2>2 DEF ExitCount, TypeOK
<1>11. ASSUME NEW c \in Cores, ExitUnlinkNext(c) PROVE TypeOK'
  <2>1. pc' \in [Cores -> Labels]
    BY <1>0, <1>11, LabelFacts, GotoType DEF ExitUnlinkNext, TypeOK
  <2>2. previous' \in [Cores -> [Tasks -> Tasks \cup {NULL}]]
    <3>1. current[c] \in Tasks
      BY <1>0, <1>11, CurrentIn DEF ExitUnlinkNext, At, ExitLabels
    <3>2. previous[c][current[c]] \in Tasks \cup {NULL}
      BY <1>0, <3>1 DEF TypeOK
    <3>3. previous' = [previous EXCEPT ![c][next[c][current[c]]] =
                         previous[c][current[c]]]
      BY <1>11 DEF ExitUnlinkNext
    <3> QED BY <1>0, <3>2, <3>3 DEF TypeOK
  <2> QED BY <1>0, <1>11, <2>1, <2>2 DEF ExitUnlinkNext, TypeOK
<1>12. ASSUME NEW c \in Cores, ExitUnlinkPrevious(c) PROVE TypeOK'
  <2>1. <<"body">> \in Seq(Labels)
    BY LabelFacts
  <2>2. /\ frames' \in [Cores -> [Tasks -> Seq(Labels)]]
        /\ pc' \in [Cores -> Labels]
    BY <1>0, <1>12, <2>1, CallType DEF ExitUnlinkPrevious, TypeOK
  <2>3. next' \in [Cores -> [Tasks -> Tasks \cup {NULL}]]
    <3>1. current[c] \in Tasks
      BY <1>0, <1>12, CurrentIn DEF ExitUnlinkPrevious, At, ExitLabels
    <3>2. next[c][current[c]] \in Tasks \cup {NULL}
      BY <1>0, <3>1 DEF TypeOK
    <3>3. next' = [next EXCEPT ![c][previous[c][current[c]]] =
                     next[c][current[c]]]
      BY <1>12 DEF ExitUnlinkPrevious
    <3> QED BY <1>0, <3>2, <3>3 DEF TypeOK
  <2> QED BY <1>0, <1>12, <2>2, <2>3 DEF ExitUnlinkPrevious, TypeOK
<1>13. ASSUME NEW c \in Cores, ForkTask(c) PROVE TypeOK'
  <2>1. pc' \in [Cores -> Labels]
    BY <1>0, <1>13, LabelFacts, GotoType DEF ForkTask, TypeOK
  <2>2. todo' \in [Cores -> Nat]
    <3>1. todo[c] \in Nat /\ todo[c] > 0
      BY <1>0, <1>13 DEF ForkTask, TypeOK
    <3>2. todo[c] - 1 \in Nat
      BY <3>1
    <3>3. todo' = [todo EXCEPT ![c] = todo[c] - 1]
      BY <1>13 DEF ForkTask
    <3> QED BY <1>0, <3>2, <3>3 DEF TypeOK
  <2>3. PICK p \in FreeSlots(c) :
          /\ target' = <<c, p>>
          /\ state' = [state EXCEPT ![c][p] = TASK_READY]
          /\ preempt_count' = [preempt_count EXCEPT ![c][p] = 1]
          /\ next' = [next EXCEPT ![c][p] = NULL]
          /\ previous' = [previous EXCEPT ![c][p] = NULL]
          /\ ctx' = [ctx EXCEPT ![c][p] = "fork"]
    BY <1>13 DEF ForkTask
  <2>4. p \in Tasks
    BY DEF FreeSlots
  <2>5. target' \in Cores \X Tasks
    BY <2>3, <2>4
  <2>6. state' \in [Cores -> [Tasks -> {TASK_ZOMBIE, TASK_READY, TASK_RUNNING}]]
    BY <1>0, <2>3 DEF TypeOK
  <2>7. preempt_count' \in [Cores -> [Tasks -> 0 .. 1]]
    <3>1. 1 \in 0 .. 1
      OBVIOUS
    <3>2. preempt_count \in [Cores -> [Tasks -> 0 .. 1]]
      BY <1>0 DEF TypeOK
    <3>3. preempt_count' = [preempt_count EXCEPT ![c][p] = 1]
      BY <2>3
    <3> QED BY <3>1, <3>2, <3>3, EntryType
  <2>8. /\ next' \in [Cores -> [Tasks -> Tasks \cup {NULL}]]
        /\ previous' \in [Cores -> [Tasks -> Tasks \cup {NULL}]]
    BY <1>0, <2>3 DEF TypeOK
  <2>9. ctx' \in [Cores -> [Tasks -> {"none", "fork", "resume"}]]
    BY <1>0, <2>3 DEF TypeOK
  <2>10. early' \subseteq Cores \ {CORE0}
    BY <1>0, <1>13 DEF ForkTask, TooEarly, TypeOK
  <2> QED
    BY <1>0, <1>13, <2>1, <2>2, <2>5, <2>6, <2>7, <2>8, <2>9, <2>10
    DEF ForkTask, TypeOK
<1>14. ASSUME NEW c \in Cores, ForkPanic(c) PROVE TypeOK'
  BY <1>0, <1>14 DEF ForkPanic, Panic, TypeOK
<1>15. ASSUME NEW c \in Cores, NEW p \in Tasks, LinkFirst(c, p) PROVE TypeOK'
  <2>1. pc' \in [Cores -> Labels]
    BY <1>0, <1>15, LabelFacts, GotoType DEF LinkFirst, TypeOK
  <2>2. /\ next' \in [Cores -> [Tasks -> Tasks \cup {NULL}]]
        /\ previous' \in [Cores -> [Tasks -> Tasks \cup {NULL}]]
    BY <1>0, <1>15 DEF LinkFirst, TypeOK
  <2>3. /\ current' \in [Cores -> Tasks \cup {NULL}]
        /\ tasks_num' \in [Cores -> Int]
    BY <1>0, <1>15 DEF LinkFirst, TypeOK
  <2> QED BY <1>0, <1>15, <2>1, <2>2, <2>3 DEF LinkFirst, TypeOK
<1>16. ASSUME NEW c \in Cores, NEW p \in Tasks, LinkNext(c, p) PROVE TypeOK'
  <2>1. pc' \in [Cores -> Labels]
    BY <1>0, <1>16, LabelFacts, GotoType DEF LinkNext, TypeOK
  <2>2. current[c] \in Tasks
    BY <1>0, <1>16 DEF LinkNext, TypeOK, IInv, CurrentSet
  <2>3. next' \in [Cores -> [Tasks -> Tasks \cup {NULL}]]
    <3>1. [next[c] EXCEPT ![current[c]] = p, ![p] = next[c][current[c]]]
             \in [Tasks -> Tasks \cup {NULL}]
      <4>1. next[c] \in [Tasks -> Tasks \cup {NULL}]
        BY <1>0 DEF TypeOK
      <4> QED BY <2>2, <4>1
    <3> QED BY <1>0, <1>16, <3>1 DEF LinkNext, TypeOK
  <2> QED BY <1>0, <1>16, <2>1, <2>3 DEF LinkNext, TypeOK
<1>17. ASSUME NEW c \in Cores, NEW p \in Tasks, LinkPrevious(c, p) PROVE TypeOK'
  <2>1. pc' \in [Cores -> Labels]
    BY <1>0, <1>17, LabelFacts, GotoType DEF LinkPrevious, TypeOK
  <2>2. BackLinks(c, p) \in [Tasks -> Tasks \cup {NULL}]
    BY <1>0 DEF BackLinks, TypeOK
  <2>3. previous' \in [Cores -> [Tasks -> Tasks \cup {NULL}]]
    BY <1>0, <1>17, <2>2 DEF LinkPrevious, TypeOK
  <2> QED BY <1>0, <1>17, <2>1, <2>3 DEF LinkPrevious, TypeOK
<1>18. ASSUME NEW c \in Cores, ForkCount(c) PROVE TypeOK'
  <2>1. pc' \in [Cores -> Labels]
    BY <1>0, <1>18, LabelFacts, GotoType DEF ForkCount, TypeOK
  <2>2. tasks_num' \in [Cores -> Int]
    BY <1>0, <1>18 DEF ForkCount, TypeOK
  <2> QED BY <1>0, <1>18, <2>1, <2>2 DEF ForkCount, TypeOK, NoTask
<1>19. CASE ThreadingInit
  <2>1. pc' \in [Cores -> Labels]
    BY <1>0, <1>19, LabelFacts, GotoType DEF ThreadingInit, TypeOK
  <2> QED BY <1>0, <1>19, <2>1 DEF ThreadingInit, TypeOK
<1>20. CASE KickCores
  <2>1. pc' \in [Cores -> Labels]
    BY <1>0, <1>20, LabelFacts, GotoType DEF KickCores, TypeOK
  <2> QED BY <1>0, <1>20, <2>1 DEF KickCores, Posted, TypeOK
<1>21. ASSUME NEW c \in Cores, Wake(c) PROVE TypeOK'
  <2>1. pc' \in [Cores -> Labels]
    BY <1>0, <1>21, LabelFacts, GotoType DEF Wake, TypeOK
  <2> QED BY <1>0, <1>21, <2>1 DEF Wake, TypeOK
<1>22. ASSUME NEW c \in Cores, SecondaryInit(c) PROVE TypeOK'
  <2>1. pc' \in [Cores -> Labels]
    BY <1>0, <1>22, LabelFacts, GotoType DEF SecondaryInit, TypeOK
  <2> QED BY <1>0, <1>22, <2>1 DEF SecondaryInit, TypeOK
<1>23. ASSUME NEW c \in Cores, StartMain(c) PROVE TypeOK'
  <2>1. pc' \in [Cores -> Labels]
    BY <1>0, <1>23, LabelFacts, GotoType DEF StartMain, TypeOK
  <2>2. Started(c) \in [Tasks -> {TASK_ZOMBIE, TASK_READY, TASK_RUNNING}]
    BY <1>0 DEF Started, TypeOK
  <2>3. state' \in [Cores -> [Tasks -> {TASK_ZOMBIE, TASK_READY, TASK_RUNNING}]]
    BY <1>0, <1>23, <2>2 DEF StartMain, TypeOK
  <2> QED BY <1>0, <1>23, <2>1, <2>3 DEF StartMain, TypeOK
<1>24. ASSUME NEW c \in Cores, ArmTimer(c) PROVE TypeOK'
  <2>1. pc' \in [Cores -> Labels]
    BY <1>0, <1>24, LabelFacts, GotoType DEF ArmTimer, TypeOK
  <2> QED BY <1>0, <1>24, <2>1 DEF ArmTimer, TypeOK
<1>25. CASE StartJoin
  <2>1. pc' \in [Cores -> Labels]
    BY <1>0, <1>25, LabelFacts, GotoType DEF StartJoin, TypeOK
  <2>2. target' \in Cores \X Tasks
    BY <1>0, <1>25, JoinAssumption DEF StartJoin, TypeOK
  <2> QED BY <1>0, <1>25, <2>1, <2>2 DEF StartJoin, TypeOK
<1>26. CASE JoinTask
  <2>1. <<"joinT">> \in Seq(Labels)
    BY LabelFacts
  <2>2. /\ frames' \in [Cores -> [Tasks -> Seq(Labels)]]
        /\ pc' \in [Cores -> Labels]
    BY <1>0, <1>26, <2>1, LabelFacts, CallType, GotoType DEF JoinTask, TypeOK
  <2>3. target' \in Cores \X Tasks
    BY <1>0, <1>26 DEF JoinTask, NoTask, TypeOK
  <2> QED BY <1>0, <1>26, <2>2, <2>3 DEF JoinTask, TypeOK
<1>27. ASSUME NEW c \in Cores, JoinAll(c) PROVE TypeOK'
  <2>1. <<"join">> \in Seq(Labels)
    BY LabelFacts
  <2>2. /\ frames' \in [Cores -> [Tasks -> Seq(Labels)]]
        /\ pc' \in [Cores -> Labels]
    BY <1>0, <1>27, <2>1, LabelFacts, CallType, GotoType DEF JoinAll, TypeOK
  <2> QED BY <1>0, <1>27, <2>2 DEF JoinAll, TypeOK
<1>28. ASSUME NEW c \in Cores, JoinLeave(c) PROVE TypeOK'
  <2>1. pc' \in [Cores -> Labels]
    BY <1>0, <1>28, LabelFacts, GotoType DEF JoinLeave, TypeOK
  <2> QED BY <1>0, <1>28, <2>1 DEF JoinLeave, TimerOff, TypeOK
<1>29. ASSUME NEW c \in Cores, SleepAgain(c) PROVE TypeOK'
  <2>1. pc' \in [Cores -> Labels]
    BY <1>0, <1>29, LabelFacts, GotoType DEF SleepAgain, TypeOK
  <2> QED BY <1>0, <1>29, <2>1 DEF SleepAgain, Panic, TypeOK
<1>30. CASE NextRound
  <2>1. pc' \in [Cores -> Labels]
    BY <1>0, <1>30, LabelFacts, GotoType DEF NextRound, TypeOK
  <2>2. todo' \in [Cores -> Nat] /\ round' \in 1 .. Rounds
    <3>1. CASE round < Rounds
      <4>1. round + 1 \in 1 .. Rounds
        BY <1>0, <3>1, BoundsAssumption DEF TypeOK
      <4> QED BY <1>30, <3>1, <4>1, ForksAssumption DEF NextRound
    <3>2. CASE ~(round < Rounds)
      BY <1>0, <1>30, <3>2 DEF NextRound, TypeOK
    <3> QED BY <3>1, <3>2
  <2> QED BY <1>0, <1>30, <2>1, <2>2 DEF NextRound, TypeOK
<1>31. CASE UNCHANGED vars
  BY <1>0, <1>31 DEF vars, TypeOK
<1> QED
  BY <1>1, <1>2, <1>3, <1>4, <1>5, <1>6, <1>7, <1>8, <1>9, <1>10, <1>11, <1>12,
     <1>13, <1>14, <1>15, <1>16, <1>17, <1>18, <1>19, <1>20, <1>21, <1>22, <1>23,
     <1>24, <1>25, <1>26, <1>27, <1>28, <1>29, <1>30, <1>31
  DEF Next, Step, Fork, Program, Stopped

--------------------------------------------------------------------------------
(* The cores that core 0 forked too early for. *)

\* Only fork_task() adds to them, and none is ever taken out.
LEMMA EarlyStays ==
    ASSUME [Next]_vars
    PROVE  /\ early \subseteq early'
           /\ early' # early => \E c \in Cores : ForkTask(c)
<1> USE DEF progVars
<1>1. ASSUME NEW c \in Cores, Step(c) \/ Tick(c) \/ ExitTask(c) PROVE UNCHANGED early
  BY <1>1
  DEF Step, TickReturn, Schedule, ScanNext, ScanFound, ContextSwitch, Tick,
      ScheduleReturn, RetFromFork, ExitTask, ExitCount, ExitUnlinkNext,
      ExitUnlinkPrevious, Wake, SecondaryInit, StartMain, ArmTimer, JoinAll,
      JoinLeave, SleepAgain
<1>2. ASSUME NEW c \in Cores, ForkTask(c) PROVE early \subseteq early'
  BY <1>2 DEF ForkTask
<1>3. CASE Program
  BY <1>2, <1>3
  DEF Program, Fork, ForkPanic, LinkFirst, LinkNext, LinkPrevious, ForkCount,
      ThreadingInit, KickCores, StartJoin, JoinTask, NextRound
<1>4. CASE UNCHANGED vars
  BY <1>4 DEF vars
<1> QED BY <1>1, <1>3, <1>4 DEF Next, Stopped

--------------------------------------------------------------------------------
(* Stacks. *)

\* What a core pushes fits its task, so does the stack it leaves behind.
LEMMA CallStack ==
    ASSUME TypeOK, NEW c \in Cores, StacksReturn(c),
           NEW r \in Seq(Returns(cpu[c])), CallSchedule(c, r)
    PROVE  /\ StacksReturn(c)'
           /\ \A d \in Cores \ {c} : frames'[d] = frames[d]
<1>1. frames[c][cpu[c]] \in Seq(Returns(cpu[c]))
  BY DEF TypeOK, StacksReturn
<1>2. r \o frames[c][cpu[c]] \in Seq(Returns(cpu[c]))
  BY <1>1, ConcatProperties
<1>3. frames' = [frames EXCEPT ![c][cpu[c]] = r \o frames[c][cpu[c]]]
  BY DEF CallSchedule
<1>4. ASSUME NEW t \in Tasks PROVE frames'[c][t] \in Seq(Returns(t))
  BY <1>2, <1>3 DEF TypeOK, StacksReturn
<1>5. \A d \in Cores \ {c} : frames'[d] = frames[d]
  BY <1>3 DEF TypeOK
<1> QED BY <1>4, <1>5 DEF StacksReturn

LEMMA ReturnStack ==
    ASSUME TypeOK, NEW c \in Cores, StacksReturn(c), Return(c)
    PROVE  /\ StacksReturn(c)'
           /\ pc'[c] \in Returns(cpu[c])
           /\ \A d \in Cores \ {c} : pc'[d] = pc[d]
<1> DEFINE f == frames[c][cpu[c]]
<1>1. f \in Seq(Returns(cpu[c])) /\ f # <<>>
  BY DEF TypeOK, StacksReturn, Return
<1>2. Head(f) \in Returns(cpu[c]) /\ Tail(f) \in Seq(Returns(cpu[c]))
  BY <1>1, HeadTailProperties
<1>3. frames' = [frames EXCEPT ![c][cpu[c]] = Tail(f)]
  BY DEF Return
<1>4. ASSUME NEW t \in Tasks PROVE frames'[c][t] \in Seq(Returns(t))
  BY <1>2, <1>3 DEF TypeOK, StacksReturn
<1>5. pc' = [pc EXCEPT ![c] = Head(f)]
  BY DEF Return, Goto
<1>6. pc'[c] \in Returns(cpu[c]) /\ \A d \in Cores \ {c} : pc'[d] = pc[d]
  BY <1>2, <1>5 DEF TypeOK
<1> QED BY <1>4, <1>6 DEF StacksReturn

\* The stacks of core 0, and of every core it never forked too early for.
LEMMA StacksStep ==
    ASSUME IInv, [Next]_vars, NEW c \in Cores \ early'
    PROVE  StacksReturn(c)'
<1>0. TypeOK /\ c \notin early
  BY EarlyStays DEF IInv
<1>1. StacksReturn(c) /\ CoreInv(c) /\ pc[c] \in Labels
  BY <1>0 DEF IInv, TypeOK
<1>2. CASE UNCHANGED frames
  BY <1>1, <1>2 DEF StacksReturn
<1>3. ASSUME NEW d \in Cores,
             \/ Tick(d) \/ TickReturn(d) \/ ScheduleReturn(d) \/ ContextSwitch(d)
             \/ ExitUnlinkPrevious(d) \/ (d = CORE0 /\ JoinTask) \/ JoinAll(d),
             c # d
      PROVE  StacksReturn(c)'
  <2>1. frames'[c] = frames[c]
    BY <1>0, <1>3
    DEF TypeOK, Tick, TickReturn, ScheduleReturn, ContextSwitch, ExitUnlinkPrevious,
        JoinTask, JoinAll, CallSchedule, Return
  <2> QED BY <1>1, <2>1 DEF StacksReturn
<1>4. CASE Tick(c)
  <2>1. pc[c] \in Returns(cpu[c])
    BY <1>1, <1>4
    DEF Tick, Preemptible, Labels, TaskLabels, MainLabels, ProgramLabels,
        SecondaryLabels, ExitLabels, SchedLabels, CoreInv, LabelFitsTask, GuardHeld,
        Critical, TimerQuiet, QuietLabels, ForkLabels, Returns, MainReturns,
        TaskReturns, SuspendedHandler
  <2>2. <<"tickret", pc[c]>> \in Seq(Returns(cpu[c]))
    <3> DEFINE R == Returns(cpu[c])
    <3>1. "tickret" \in R /\ pc[c] \in R
      BY <2>1 DEF Returns, MainReturns, TaskReturns, SuspendedHandler
    <3> HIDE DEF R
    <3>2. <<"tickret", pc[c]>> \in Seq(R)
      BY <3>1
    <3> QED BY <3>2 DEF R
  <2> QED BY <1>0, <1>1, <1>4, <2>2, CallStack DEF Tick
<1>5. CASE TickReturn(c) \/ ScheduleReturn(c)
  BY <1>0, <1>1, <1>5, ReturnStack DEF TickReturn, ScheduleReturn
<1>6. CASE ContextSwitch(c)
  <2>1. ASSUME NEW t \in Tasks PROVE frames'[c][t] \in Seq(Returns(t))
    <3>1. frames'[c][t] = <<>> \/ frames'[c][t] = frames[c][t]
      BY <1>0, <1>6 DEF ContextSwitch, TypeOK
    <3>2. <<>> \in Seq(Returns(t)) /\ frames[c][t] \in Seq(Returns(t))
      BY <1>1 DEF StacksReturn
    <3> QED BY <3>1, <3>2
  <2> QED BY <2>1 DEF StacksReturn
<1>7. CASE ExitUnlinkPrevious(c)
  <2>1. cpu[c] # Main
    BY <1>1, <1>7 DEF ExitUnlinkPrevious, At, CoreInv, LabelFitsTask, TaskLabels,
                      ExitLabels
  <2>2. <<"body">> \in Seq(Returns(cpu[c]))
    BY <2>1 DEF Returns, TaskReturns
  <2> QED BY <1>0, <1>1, <1>7, <2>2, CallStack DEF ExitUnlinkPrevious
<1>8. CASE JoinTask /\ c = CORE0
  <2>1. cpu[CORE0] = Main
    BY <1>1, <1>8 DEF JoinTask, At, CoreInv, LabelFitsTask, MainLabels, ProgramLabels
  <2>2. <<"joinT">> \in Seq(Returns(cpu[CORE0]))
    BY <2>1 DEF Returns, MainReturns
  <2> QED BY <1>0, <1>1, <1>2, <1>8, <2>2, CallStack DEF JoinTask
<1>9. CASE JoinAll(c)
  <2>1. cpu[c] = Main
    BY <1>1, <1>9 DEF JoinAll, At, CoreInv, LabelFitsTask, MainLabels
  <2>2. <<"join">> \in Seq(Returns(cpu[c]))
    BY <2>1 DEF Returns, MainReturns
  <2> QED BY <1>0, <1>1, <1>2, <1>9, <2>2, CallStack DEF JoinAll
<1>10. CASE JoinTask /\ c # CORE0
  BY <1>3, <1>10, CoresAssumption
<1> QED
  BY <1>2, <1>3, <1>4, <1>5, <1>6, <1>7, <1>8, <1>9, <1>10
  DEF Next, Step, Fork, Program, Stopped, vars, tableVars, Schedule, ScanNext,
      ScanFound, RetFromFork, ExitTask, ExitCount, ExitUnlinkNext,
      ForkTask, ForkPanic, LinkFirst, LinkNext, LinkPrevious, ForkCount,
      ThreadingInit, KickCores, Wake, SecondaryInit, StartMain, ArmTimer, StartJoin,
      JoinLeave, SleepAgain, NextRound

--------------------------------------------------------------------------------
(* The invariant of a core, under the steps of its own code. *)

\* What CoreInv(c) reads.
RowUnchanged(c) ==
    UNCHANGED <<state[c], preempt_count[c], ctx[c], current[c], tasks_num[c],
                cpu[c], pc[c], temp[c], timerInt[c], armed[c]>>

LEMMA RowFrame ==
    ASSUME NEW c, CoreInv(c), RowUnchanged(c)
    PROVE  CoreInv(c)'
BY DEF CoreInv, RowUnchanged, LabelFitsTask, CpuIsCurrent, StatesFit, GuardHeld,
       Live, Resumable, MainReady, TimerQuiet, MainStarted

\* Ticks and returns move the core between its code and the handler.
LEMMA HandlerRow ==
    ASSUME TypeOK, TypeOK', NEW c \in Cores, CurrentSet(c), StacksReturn(c),
           CoreInv(c),
           Tick(c) \/ TickReturn(c) \/ ScheduleReturn(c)
    PROVE  CoreInv(c)'
<1> USE TaskFacts
    DEF At, Goto, coreVars, timerVars, progVars, Critical, ExitLabels, TaskLabels,
        MainLabels, ProgramLabels, SecondaryLabels, ForkLabels, QuietLabels, Live
<1>1. CASE Tick(c)
  BY <1>1 DEF CoreInv, TypeOK, LabelFitsTask, CpuIsCurrent, StatesFit, GuardHeld,
              Resumable, MainReady, TimerQuiet, MainStarted, CurrentSet, Tick,
              CallSchedule, Preemptible
<1>2. CASE TickReturn(c) \/ ScheduleReturn(c)
  <2>1. pc'[c] \in Returns(cpu[c])
    BY <1>2, ReturnStack DEF TickReturn, ScheduleReturn
  <2>2. pc'[c] \notin Critical \cup QuietLabels \cup {"switch"}
    BY <2>1 DEF Returns, MainReturns, TaskReturns, SuspendedHandler
  <2>3. pc[c] \in {"tickret", "resume"} /\ current[c] # NULL /\ cpu[c] = current[c]
    BY <1>2 DEF TickReturn, ScheduleReturn, CoreInv, CpuIsCurrent, CurrentSet
  <2>4. UNCHANGED <<state, ctx, current, cpu, tasks_num, timerInt, armed>>
    BY <1>2 DEF TickReturn, ScheduleReturn
  <2>5. LabelFitsTask(c)'
    <3>1. IF cpu[c] = Main THEN pc'[c] \notin TaskLabels ELSE pc'[c] \notin MainLabels
      BY <2>1 DEF Returns, MainReturns, TaskReturns, SuspendedHandler
    <3> QED BY <2>4, <3>1 DEF LabelFitsTask, CoreInv
  <2>6. CpuIsCurrent(c)'
    BY <2>2, <2>3, <2>4 DEF CpuIsCurrent
  <2>7. StatesFit(c)' /\ MainReady(c)' /\ TimerQuiet(c)'
    BY <2>2, <2>3, <2>4 DEF CoreInv, StatesFit, MainReady, CurrentSet, TimerQuiet
  <2>8. GuardHeld(c)'
    <3>1. \A t \in Tasks \ {current[c]} : preempt_count'[c][t] = preempt_count[c][t]
      <4>1. \/ preempt_count' = preempt_count
            \/ preempt_count' = [preempt_count EXCEPT ![c][current[c]] = 0]
        BY <1>2 DEF TickReturn, ScheduleReturn, SetPreempt
      <4>2. preempt_count \in [Cores -> [Tasks -> 0 .. 1]]
        BY DEF TypeOK
      <4> QED BY <4>1, <4>2
    <3>2. Live(c)' = Live(c) /\ current' = current
      BY <2>4
    <3>3. \A t \in Live(c) \ {current[c]} : preempt_count'[c][t] = 1
      BY <3>1 DEF CoreInv, GuardHeld
    <3> QED BY <2>2, <3>2, <3>3 DEF GuardHeld
  <2>9. Resumable(c)' /\ MainStarted(c)'
    BY <2>2, <2>3, <2>4 DEF CoreInv, Resumable, MainStarted
  <2> QED BY <2>5, <2>6, <2>7, <2>8, <2>9 DEF CoreInv
<1> QED BY <1>1, <1>2

\* schedule() hands the core from one task to another.
LEMMA ScheduleRow ==
    ASSUME TypeOK, TypeOK', NEW c \in Cores, CurrentSet(c), CoreInv(c),
           Schedule(c) \/ ScanNext(c) \/ ScanFound(c) \/ ContextSwitch(c)
    PROVE  CoreInv(c)'
<1> USE TaskFacts
    DEF At, Goto, tableVars, coreVars, timerVars, progVars, Critical, ExitLabels,
        TaskLabels, MainLabels, ProgramLabels, SecondaryLabels, ForkLabels,
        QuietLabels, Live
<1>1. CASE Schedule(c)
  <2>1. pc[c] = "sched" /\ pc'[c] = "scan" /\ current[c] # NULL /\ cpu[c] = current[c]
    BY <1>1 DEF CoreInv, TypeOK, CpuIsCurrent, CurrentSet, Schedule
  <2>2. UNCHANGED <<state, ctx, current, cpu, tasks_num, timerInt, armed>>
    BY <1>1 DEF Schedule
  <2>3. preempt_count' = [preempt_count EXCEPT ![c][current[c]] = 1]
    BY <1>1 DEF Schedule, SetPreempt
  <2>4. LabelFitsTask(c)' /\ CpuIsCurrent(c)' /\ StatesFit(c)'
    BY <2>1, <2>2 DEF CoreInv, LabelFitsTask, CpuIsCurrent, StatesFit
  <2>5. GuardHeld(c)'
    BY <2>2, <2>3 DEF CoreInv, TypeOK, GuardHeld
  <2>6. Resumable(c)' /\ MainReady(c)' /\ TimerQuiet(c)'
    BY <2>1, <2>2 DEF CoreInv, Resumable, MainReady, TimerQuiet
  <2>7. MainStarted(c)'
    BY <2>1, <2>2 DEF CoreInv, MainStarted, CurrentSet
  <2> QED BY <2>4, <2>5, <2>6, <2>7 DEF CoreInv
<1>2. CASE ScanNext(c)
  <2>1. /\ pc[c] = "scan" /\ pc'[c] \in {"scan", "resume"}
        /\ current[c] # NULL /\ cpu[c] = current[c]
    BY <1>2 DEF CoreInv, TypeOK, CpuIsCurrent, CurrentSet, ScanNext
  <2>2. UNCHANGED <<tableVars, coreVars, cpu, timerVars>>
    BY <1>2 DEF ScanNext
  <2>3. LabelFitsTask(c)' /\ CpuIsCurrent(c)' /\ StatesFit(c)'
    BY <2>1, <2>2 DEF CoreInv, LabelFitsTask, CpuIsCurrent, StatesFit
  <2>4. GuardHeld(c)' /\ Resumable(c)' /\ MainReady(c)' /\ TimerQuiet(c)'
    BY <2>1, <2>2 DEF CoreInv, GuardHeld, Resumable, MainReady, TimerQuiet
  <2>5. MainStarted(c)'
    BY <2>1, <2>2 DEF CoreInv, MainStarted, CurrentSet
  <2> QED BY <2>3, <2>4, <2>5 DEF CoreInv
<1>3. CASE ScanFound(c)
  <2> DEFINE p == current[c]
             n == temp[c]
  <2>1. pc[c] = "scan" /\ p \in Tasks /\ cpu[c] = p /\ n \in Tasks /\ p # n
    BY <1>3 DEF ScanFound, CoreInv, CpuIsCurrent, CurrentSet, StatesFit, TypeOK
  <2>2. /\ pc'[c] = "switch" /\ current'[c] = n
        /\ UNCHANGED <<preempt_count, ctx, cpu, temp, timerInt, armed>>
    BY <1>3, <2>1 DEF ScanFound, TypeOK
  <2>3. /\ state'[c][n] = TASK_RUNNING
        /\ state'[c][p] = IF state[c][p] = TASK_ZOMBIE THEN TASK_ZOMBIE ELSE TASK_READY
        /\ \A t \in Tasks \ {n, p} : state'[c][t] = state[c][t]
    BY <1>3, <2>1 DEF ScanFound, Demoted, TypeOK
  <2>4. state[c][n] = TASK_READY
    BY <1>3 DEF ScanFound
  <2>5. LabelFitsTask(c)' /\ CpuIsCurrent(c)'
    BY <2>1, <2>2 DEF CoreInv, LabelFitsTask, CpuIsCurrent
  <2>6. StatesFit(c)' /\ MainReady(c)' /\ TimerQuiet(c)'
    BY <2>1, <2>2, <2>3, <2>4
    DEF CoreInv, StatesFit, MainReady, MainStarted, CurrentSet, TimerQuiet
  <2>7. GuardHeld(c)'
    BY <2>1, <2>2, <2>3, <2>4 DEF CoreInv, GuardHeld
  <2>8. Resumable(c)' /\ MainStarted(c)'
    BY <2>1, <2>2, <2>3, <2>4 DEF CoreInv, Resumable, MainStarted
  <2> QED BY <2>5, <2>6, <2>7, <2>8 DEF CoreInv
<1>4. CASE ContextSwitch(c)
  <2> DEFINE p == cpu[c]
             n == temp[c]
  <2>1. pc[c] = "switch" /\ current[c] = n /\ n \in Tasks /\ p \in Tasks /\ p # n
    BY <1>4 DEF ContextSwitch, CoreInv, CpuIsCurrent, TypeOK
  <2>2. /\ cpu'[c] = n
        /\ pc'[c] = IF ctx[c][n] = "fork" THEN "fork" ELSE "resume"
        /\ UNCHANGED <<state, preempt_count, current, timerInt, armed, tasks_num>>
    BY <1>4, <2>1 DEF ContextSwitch, TypeOK
  <2>3. /\ ctx'[c][p] = "resume" /\ ctx'[c][n] = "none"
        /\ \A t \in Tasks \ {n, p} : ctx'[c][t] = ctx[c][t]
    BY <1>4, <2>1 DEF ContextSwitch, Saved, TypeOK
  <2>4. LabelFitsTask(c)' /\ CpuIsCurrent(c)'
    BY <2>1, <2>2, <2>3 DEF CoreInv, LabelFitsTask, CpuIsCurrent
  <2>5. StatesFit(c)' /\ MainReady(c)' /\ TimerQuiet(c)'
    BY <2>1, <2>2 DEF CoreInv, StatesFit, MainReady, CurrentSet, TimerQuiet
  <2>6. GuardHeld(c)'
    BY <2>1, <2>2 DEF CoreInv, GuardHeld
  <2>7. Resumable(c)' /\ MainStarted(c)'
    BY <2>1, <2>2, <2>3 DEF CoreInv, Resumable, MainStarted, StatesFit
  <2> QED BY <2>4, <2>5, <2>6, <2>7 DEF CoreInv
<1> QED BY <1>1, <1>2, <1>3, <1>4

\* A task starts, ends and leaves the list.
LEMMA TaskRow ==
    ASSUME TypeOK, TypeOK', NEW c \in Cores, CurrentSet(c), CoreInv(c),
           \/ RetFromFork(c) \/ ExitTask(c) \/ ExitCount(c)
           \/ ExitUnlinkNext(c) \/ ExitUnlinkPrevious(c)
    PROVE  CoreInv(c)'
<1> USE TaskFacts
    DEF At, Goto, tableVars, coreVars, timerVars, progVars, Critical, ExitLabels,
        TaskLabels, MainLabels, ProgramLabels, SecondaryLabels, ForkLabels,
        QuietLabels, Live, CoreInv, TypeOK, LabelFitsTask, CpuIsCurrent, StatesFit,
        GuardHeld, Resumable, MainReady, TimerQuiet, MainStarted, CurrentSet
<1>1. CASE RetFromFork(c)
  BY <1>1 DEF RetFromFork, SetPreempt
<1>2. CASE ExitTask(c)
  BY <1>2 DEF ExitTask, SetPreempt
<1>3. CASE ExitCount(c)
  BY <1>3 DEF ExitCount
<1>4. CASE ExitUnlinkNext(c)
  BY <1>4 DEF ExitUnlinkNext
<1>5. CASE ExitUnlinkPrevious(c)
  BY <1>5 DEF ExitUnlinkPrevious, CallSchedule
<1> QED BY <1>1, <1>2, <1>3, <1>4, <1>5

\* The main of a core starts, joins and sleeps.
LEMMA MainRow ==
    ASSUME TypeOK, TypeOK', NEW c \in Cores, CurrentSet(c), CoreInv(c),
           \/ Wake(c) \/ SecondaryInit(c) \/ StartMain(c) \/ ArmTimer(c)
           \/ JoinAll(c) \/ JoinLeave(c) \/ SleepAgain(c)
    PROVE  CoreInv(c)'
<1> USE TaskFacts
    DEF At, Goto, tableVars, coreVars, timerVars, progVars, Critical, ExitLabels,
        TaskLabels, MainLabels, ProgramLabels, SecondaryLabels, ForkLabels,
        QuietLabels, Live, CoreInv, TypeOK, LabelFitsTask, CpuIsCurrent, StatesFit,
        GuardHeld, Resumable, MainReady, TimerQuiet, MainStarted, CurrentSet
<1>1. CASE Wake(c)
  BY <1>1 DEF Wake
<1>2. CASE SecondaryInit(c)
  BY <1>2 DEF SecondaryInit, NothingForked
<1>3. CASE StartMain(c)
  BY <1>3 DEF StartMain, Started
<1>4. CASE ArmTimer(c)
  BY <1>4 DEF ArmTimer
<1>5. CASE JoinAll(c)
  <2>1. CASE MustWait(c)
    BY <1>5, <2>1 DEF JoinAll, CallSchedule
  <2>2. CASE ~MustWait(c)
    BY <1>5, <2>2 DEF JoinAll
  <2> QED BY <2>1, <2>2
<1>6. CASE JoinLeave(c)
  BY <1>6 DEF JoinLeave, TimerOff
<1>7. CASE SleepAgain(c)
  <2>1. CASE tasks_num[c] = 1
    BY <1>7, <2>1 DEF SleepAgain
  <2>2. CASE tasks_num[c] # 1
    BY <1>7, <2>2 DEF SleepAgain, Panic
  <2> QED BY <2>1, <2>2
<1> QED BY <1>1, <1>2, <1>3, <1>4, <1>5, <1>6, <1>7

\* While core 0 forks, it is in its main, and so is the core it forks for, unless
\* that one is early.
LEMMA WhileForking ==
    ASSUME IInv, pc[CORE0] \in ForkLabels, NEW c \in Cores \ early,
           c = CORE0 \/ pc[c] = "wfe"
    PROVE  /\ cpu[c] = Main
           /\ current[c] = NULL \/ current[c] = Main
<1>1. pc[c] \in ForkLabels \cup {"wfe"} /\ CoreInv(c)
  BY DEF IInv
<1>2. cpu[c] = Main
  BY <1>1 DEF CoreInv, LabelFitsTask, ForkLabels, MainLabels, ProgramLabels,
              SecondaryLabels
<1> QED BY <1>1, <1>2 DEF CoreInv, CpuIsCurrent, ForkLabels

\* What fork_task() for d leaves alone.
LEMMA ForkElsewhere ==
    ASSUME TypeOK, NEW d \in Cores, Fork(d), NEW c \in Cores,
           \/ c # d \/ ForkPanic(d)
           \/ \E p \in Tasks : LinkNext(d, p) \/ LinkPrevious(d, p)
    PROVE  UNCHANGED <<state[c], preempt_count[c], ctx[c], current[c], tasks_num[c]>>
<1> USE DEF tableVars, coreVars
<1>1. CASE ForkPanic(d) \/ \E p \in Tasks : LinkNext(d, p) \/ LinkPrevious(d, p)
  BY <1>1 DEF ForkPanic, LinkNext, LinkPrevious
<1>2. CASE ForkTask(d) /\ c # d
  BY <1>2 DEF ForkTask, TypeOK
<1>3. ASSUME NEW p \in Tasks, LinkFirst(d, p), c # d
      PROVE  UNCHANGED <<state[c], preempt_count[c], ctx[c], current[c], tasks_num[c]>>
  BY <1>3 DEF LinkFirst, TypeOK
<1>4. CASE ForkCount(d) /\ c # d
  BY <1>4 DEF ForkCount, TypeOK
<1> QED BY <1>1, <1>2, <1>3, <1>4 DEF Fork

\* Core 0's label moves on, and the core it forks for sleeps or is early.
LEMMA ForkAt ==
    ASSUME IInv, NEW d \in Cores, Fork(d)
    PROVE  /\ pc[CORE0] \in ForkLabels /\ pc'[CORE0] \in ForkLabels
           /\ \A c \in Cores \ {CORE0} : pc'[c] = pc[c]
           /\ UNCHANGED <<cpu, temp, timerInt, armed, mail, round>>
           /\ \/ d = CORE0 \/ d \in early' \/ Asleep(d)
              \/ ForkPanic(d)
<1> USE CoresAssumption DEF At, Goto, cpuVars, timerVars, progVars
<1>1. pc[CORE0] \in ForkLabels
  BY DEF Fork, ForkTask, ForkPanic, LinkFirst, LinkNext, LinkPrevious, ForkCount,
         ForkLabels
<1>2. pc'[CORE0] \in ForkLabels /\ \A c \in Cores \ {CORE0} : pc'[c] = pc[c]
  <2>1. pc \in [Cores -> Labels]
    BY DEF IInv, TypeOK
  <2>2. ForkPanic(d) \/ \E k \in ForkLabels : pc' = [pc EXCEPT ![CORE0] = k]
    BY DEF Fork, ForkTask, LinkFirst, LinkNext, LinkPrevious, ForkCount, ForkLabels
  <2> QED BY <1>1, <2>1, <2>2 DEF ForkPanic
<1>3. UNCHANGED <<cpu, temp, timerInt, armed, mail, round>>
  BY DEF Fork, ForkTask, ForkPanic, LinkFirst, LinkNext, LinkPrevious, ForkCount
<1>4. d = CORE0 \/ d \in early' \/ Asleep(d) \/ ForkPanic(d)
  <2>1. CASE ForkTask(d)
    <3>1. CASE TooEarly(d)
      BY <2>1, <3>1 DEF ForkTask
    <3>2. CASE Forked(d)
      BY <2>1, <3>2 DEF ForkTask, IInv, OthersSleep
    <3>3. CASE d = CORE0 \/ Asleep(d)
      BY <3>3
    <3> QED BY <1>1, <3>1, <3>2, <3>3 DEF TooEarly, Forked
  <2>2. CASE (\E p \in Tasks : LinkFirst(d, p) \/ LinkNext(d, p) \/ LinkPrevious(d, p))
             \/ ForkCount(d)
    <3>1. pc[CORE0] \in {"link", "link2", "count"} /\ target[1] = d /\ early' = early
      BY <2>2 DEF LinkFirst, LinkNext, LinkPrevious, ForkCount
    <3>2. Forked(d)
      BY <3>1 DEF IInv, TodoFits
    <3> QED BY <3>1, <3>2 DEF IInv, OthersSleep
  <2> QED BY <2>1, <2>2 DEF Fork
<1> QED BY <1>1, <1>2, <1>3, <1>4

\* fork_task() readies a task that no core runs and links it.
LEMMA ForkRow ==
    ASSUME IInv, [Next]_vars, TypeOK', NEW d \in Cores, Fork(d),
           NEW c \in Cores \ early'
    PROVE  CoreInv(c)'
<1> USE TaskFacts, CoresAssumption
    DEF At, Goto, tableVars, coreVars, cpuVars, timerVars, progVars
<1>1. /\ pc[CORE0] \in ForkLabels /\ pc'[CORE0] \in ForkLabels
      /\ \A e \in Cores \ {CORE0} : pc'[e] = pc[e]
      /\ UNCHANGED <<cpu, temp, timerInt, armed>>
  BY ForkAt
<1>2. c \notin early /\ TypeOK /\ CoreInv(c) /\ CurrentSet(c)
  BY EarlyStays DEF IInv
<1>3. CASE c # CORE0 /\ (c # d \/ ForkPanic(d))
  <2>1. RowUnchanged(c)
    BY <1>1, <1>2, <1>3, ForkElsewhere DEF RowUnchanged
  <2> QED BY <1>2, <2>1, RowFrame
<1>4. ASSUME c = CORE0 \/ pc[c] = "wfe"
      PROVE  /\ pc[c] \in ForkLabels \cup {"wfe"} /\ pc'[c] \in ForkLabels \cup {"wfe"}
             /\ cpu[c] = Main /\ (current[c] = NULL \/ current[c] = Main)
  BY <1>1, <1>2, <1>4, WhileForking
<1>5. c = CORE0 \/ pc[c] = "wfe" \/ (c # CORE0 /\ (c # d \/ ForkPanic(d)))
  BY <1>2, ForkAt DEF Asleep
<1>6. ASSUME c = CORE0 \/ pc[c] = "wfe",
             UNCHANGED <<state[c], preempt_count[c], ctx[c], current[c], tasks_num[c]>>
      PROVE  CoreInv(c)'
  <2>1. LabelFitsTask(c)' /\ CpuIsCurrent(c)' /\ StatesFit(c)' /\ MainReady(c)'
    BY <1>1, <1>2, <1>4, <1>6
    DEF CoreInv, LabelFitsTask, CpuIsCurrent, StatesFit, MainReady, ForkLabels,
        TaskLabels, ExitLabels
  <2>2. GuardHeld(c)' /\ Resumable(c)'
    BY <1>1, <1>2, <1>4, <1>6
    DEF CoreInv, GuardHeld, Resumable, Live, Critical, ExitLabels, ForkLabels
  <2>3. TimerQuiet(c)' /\ MainStarted(c)'
    BY <1>1, <1>2, <1>4, <1>6
    DEF CoreInv, TimerQuiet, MainStarted, QuietLabels, ForkLabels
  <2> QED BY <2>1, <2>2, <2>3 DEF CoreInv
<1>7. CASE ForkTask(d) /\ c = d /\ (c = CORE0 \/ pc[c] = "wfe")
  <2>1. PICK p \in Slots :
          /\ state[c][p] = TASK_ZOMBIE
          /\ state' = [state EXCEPT ![c][p] = TASK_READY]
          /\ preempt_count' = [preempt_count EXCEPT ![c][p] = 1]
          /\ ctx' = [ctx EXCEPT ![c][p] = "fork"]
    BY <1>7 DEF ForkTask, FreeSlots
  <2>2. /\ state'[c][p] = TASK_READY /\ preempt_count'[c][p] = 1 /\ ctx'[c][p] = "fork"
        /\ \A t \in Tasks \ {p} :
             /\ state'[c][t] = state[c][t] /\ ctx'[c][t] = ctx[c][t]
             /\ preempt_count'[c][t] = preempt_count[c][t]
        /\ p \in Tasks /\ p # Main
    BY <2>1 DEF IInv, TypeOK
  <2>3. UNCHANGED <<current, tasks_num>>
    BY <1>7 DEF ForkTask
  <2>4. LabelFitsTask(c)' /\ CpuIsCurrent(c)' /\ StatesFit(c)' /\ MainReady(c)'
    BY <1>1, <1>2, <1>4, <1>7, <2>2, <2>3
    DEF CoreInv, LabelFitsTask, CpuIsCurrent, StatesFit, MainReady, ForkLabels,
        TaskLabels, ExitLabels
  <2>5. GuardHeld(c)' /\ Resumable(c)'
    BY <1>1, <1>2, <1>4, <1>7, <2>2, <2>3
    DEF CoreInv, GuardHeld, Resumable, Live, Critical, ExitLabels, ForkLabels
  <2>6. TimerQuiet(c)' /\ MainStarted(c)'
    BY <1>1, <1>2, <1>4, <1>7, <2>2, <2>3
    DEF CoreInv, TimerQuiet, MainStarted, QuietLabels, ForkLabels
  <2> QED BY <2>4, <2>5, <2>6 DEF CoreInv
<1>8. ASSUME NEW p \in Tasks, LinkFirst(d, p), c = d, c = CORE0 \/ pc[c] = "wfe"
      PROVE  CoreInv(c)'
  <2>1. current'[c] = Main /\ UNCHANGED <<state, preempt_count, ctx>>
    BY <1>8 DEF LinkFirst, IInv, TypeOK
  <2>2. LabelFitsTask(c)' /\ CpuIsCurrent(c)' /\ StatesFit(c)' /\ MainReady(c)'
    BY <1>1, <1>2, <1>4, <1>8, <2>1
    DEF CoreInv, LabelFitsTask, CpuIsCurrent, StatesFit, MainReady, ForkLabels,
        TaskLabels, ExitLabels, CurrentSet
  <2>3. GuardHeld(c)' /\ Resumable(c)'
    BY <1>1, <1>2, <1>4, <1>8, <2>1
    DEF CoreInv, GuardHeld, Resumable, Live, Critical, ExitLabels, ForkLabels
  <2>4. TimerQuiet(c)' /\ MainStarted(c)'
    BY <1>1, <1>2, <1>4, <1>8, <2>1
    DEF CoreInv, TimerQuiet, MainStarted, CurrentSet, QuietLabels, ForkLabels
  <2> QED BY <2>2, <2>3, <2>4 DEF CoreInv
<1>9. CASE ForkCount(d) /\ c = d /\ (c = CORE0 \/ pc[c] = "wfe")
  <2>1. current[c] = Main
    BY <1>4, <1>9 DEF ForkCount, IInv, TargetLinked
  <2>2. UNCHANGED <<state, preempt_count, ctx, current>>
    BY <1>9 DEF ForkCount
  <2>3. LabelFitsTask(c)' /\ CpuIsCurrent(c)' /\ StatesFit(c)' /\ MainReady(c)'
    BY <1>1, <1>2, <1>4, <1>9, <2>1, <2>2
    DEF CoreInv, LabelFitsTask, CpuIsCurrent, StatesFit, MainReady, ForkLabels,
        TaskLabels, ExitLabels
  <2>4. GuardHeld(c)' /\ Resumable(c)'
    BY <1>1, <1>2, <1>4, <1>9, <2>1, <2>2
    DEF CoreInv, GuardHeld, Resumable, Live, Critical, ExitLabels, ForkLabels
  <2>5. TimerQuiet(c)' /\ MainStarted(c)'
    BY <1>1, <1>2, <1>4, <1>9, <2>1, <2>2
    DEF CoreInv, TimerQuiet, MainStarted, QuietLabels, ForkLabels
  <2> QED BY <2>3, <2>4, <2>5 DEF CoreInv
<1>10. CASE \/ c # d \/ ForkPanic(d)
            \/ \E p \in Tasks : LinkNext(d, p) \/ LinkPrevious(d, p)
  BY <1>2, <1>3, <1>5, <1>6, <1>10, ForkElsewhere
<1> QED BY <1>3, <1>5, <1>7, <1>8, <1>9, <1>10 DEF Fork

\* The rest of core 0's program runs in its main and only moves it on.
LEMMA ProgramRow ==
    ASSUME IInv, TypeOK', NEW c \in Cores \ early,
           ThreadingInit \/ KickCores \/ StartJoin \/ JoinTask \/ NextRound
    PROVE  CoreInv(c)'
<1> USE TaskFacts, CoresAssumption
    DEF At, Goto, tableVars, coreVars, cpuVars, timerVars, progVars
<1>1. CoreInv(c) /\ CurrentSet(c) /\ pc \in [Cores -> Labels]
      /\ timerInt \in [Cores -> BOOLEAN]
  BY DEF IInv, TypeOK
<1>2. /\ pc[CORE0] \in {"forks", "kick", "started", "joinT", "rest"}
      /\ \E l \in {"kick", "start", "joinT", "join", "sched", "forks", "halt"} :
           /\ pc' = [pc EXCEPT ![CORE0] = l]
           /\ l \in {"forks", "halt"} => pc[CORE0] = "rest"
           /\ l \in {"joinT", "join", "sched"} => pc[CORE0] \in {"started", "joinT"}
      /\ UNCHANGED <<state, preempt_count, ctx, current, tasks_num, cpu, temp, armed>>
  BY DEF ThreadingInit, KickCores, StartJoin, JoinTask, NextRound, CallSchedule
<1>3. /\ \A d \in Cores \ {CORE0} : timerInt'[d] = timerInt[d]
      /\ pc[CORE0] # "forks" => timerInt' = timerInt
  BY <1>1 DEF ThreadingInit, KickCores, StartJoin, JoinTask, NextRound
<1>4. CASE c # CORE0
  BY <1>1, <1>2, <1>3, <1>4, RowFrame DEF RowUnchanged
<1>5. CASE c = CORE0
  <2>1. /\ pc'[c] \in {"kick", "start", "joinT", "join", "sched", "forks", "halt"}
        /\ pc'[c] \in {"forks", "halt"} => pc[c] = "rest"
        /\ pc'[c] \in {"joinT", "join", "sched"} => pc[c] \in {"started", "joinT"}
        /\ cpu[c] = Main
    BY <1>1, <1>2, <1>5 DEF CoreInv, LabelFitsTask, MainLabels, ProgramLabels
  <2>2. current[c] # NULL
    <3>1. CASE ThreadingInit
      BY <1>5, <3>1 DEF ThreadingInit, IInv, CORE0Forks, TypeOK
    <3>2. CASE ~ThreadingInit
      BY <1>1, <1>5, <3>2 DEF CoreInv, CurrentSet, ForkLabels, KickCores, StartJoin,
                              JoinTask, NextRound
    <3> QED BY <3>1, <3>2
  <2>3. LabelFitsTask(c)' /\ CpuIsCurrent(c)' /\ StatesFit(c)' /\ MainReady(c)'
    BY <1>1, <1>2, <1>5, <2>1, <2>2
    DEF CoreInv, LabelFitsTask, CpuIsCurrent, StatesFit, MainReady, ForkLabels,
        TaskLabels, ExitLabels
  <2>4. GuardHeld(c)' /\ Resumable(c)'
    BY <1>1, <1>2, <1>5, <2>1, <2>2
    DEF CoreInv, GuardHeld, Resumable, Live, Critical, ExitLabels
  <2>5. TimerQuiet(c)' /\ MainStarted(c)'
    BY <1>1, <1>2, <1>3, <1>5, <2>1, <2>2
    DEF CoreInv, TimerQuiet, MainStarted, QuietLabels, ForkLabels
  <2> QED BY <2>3, <2>4, <2>5 DEF CoreInv
<1> QED BY <1>4, <1>5

\* While core 0 forks, it has no step of its own.
LEMMA ForkingAlone ==
    ASSUME IInv, pc[CORE0] \in ForkLabels,
           Step(CORE0) \/ Tick(CORE0) \/ ExitTask(CORE0)
    PROVE  FALSE
<1>1. CoreInv(CORE0)
  BY CoresAssumption DEF IInv, TypeOK
<1>2. CASE Tick(CORE0)
  BY <1>1, <1>2 DEF Tick, CoreInv, TimerQuiet, QuietLabels
<1> QED
  BY <1>2
  DEF Step, At, ForkLabels, TickReturn, Schedule, ScanNext, ScanFound, ContextSwitch,
      ScheduleReturn, RetFromFork, ExitTask, ExitCount, ExitUnlinkNext,
      ExitUnlinkPrevious, Wake, SecondaryInit, StartMain, ArmTimer, JoinAll, JoinLeave,
      SleepAgain

\* A core that sleeps has none either.
LEMMA SleepingAlone ==
    ASSUME IInv, NEW c \in Cores \ early, Asleep(c),
           Step(c) \/ Tick(c) \/ ExitTask(c)
    PROVE  FALSE
<1>1. CoreInv(c)
  BY DEF IInv
<1>2. CASE Tick(c)
  BY <1>1, <1>2 DEF Tick, Asleep, CoreInv, TimerQuiet, QuietLabels
<1> QED
  BY <1>2
  DEF Asleep, Step, At, TickReturn, Schedule, ScanNext, ScanFound, ContextSwitch,
      ScheduleReturn, RetFromFork, ExitTask, ExitCount, ExitUnlinkNext,
      ExitUnlinkPrevious, Wake, SecondaryInit, StartMain, ArmTimer, JoinAll, JoinLeave,
      SleepAgain

\* What a core's own steps leave alone.
LEMMA OwnStep ==
    ASSUME IInv, NEW c \in Cores, Step(c) \/ Tick(c) \/ ExitTask(c)
    PROVE  /\ \A d \in Cores \ {c} : RowUnchanged(d)
           /\ c \notin early => pc'[c] \notin ForkLabels
           /\ current'[c] = NULL => current[c] = NULL
           /\ UNCHANGED <<target, todo, round, early>>
           /\ \A d \in Cores : mail'[d] => mail[d]
<1> USE TaskFacts DEF At, Goto, tableVars, coreVars, cpuVars, timerVars, progVars
<1>0. TypeOK
  BY DEF IInv
<1>1. UNCHANGED <<target, todo, round, early>> /\ \A d \in Cores : mail'[d] => mail[d]
  BY <1>0
  DEF TypeOK, Step, TickReturn, Schedule, ScanNext, ScanFound, ContextSwitch, Tick,
         ScheduleReturn, RetFromFork, ExitTask, ExitCount, ExitUnlinkNext,
         ExitUnlinkPrevious, Wake, SecondaryInit, StartMain, ArmTimer, JoinAll,
         JoinLeave, SleepAgain
<1>2. ASSUME TickReturn(c) \/ ScheduleReturn(c)
      PROVE  /\ \A d \in Cores \ {c} : pc'[d] = pc[d]
             /\ c \notin early => pc'[c] \notin ForkLabels
  <2>1. Return(c)
    BY <1>2 DEF TickReturn, ScheduleReturn
  <2>2. \A d \in Cores \ {c} : pc'[d] = pc[d]
    BY <1>0, <2>1 DEF Return, TypeOK
  <2>3. c \notin early => pc'[c] \in Returns(cpu[c])
    BY <1>0, <2>1, ReturnStack DEF IInv
  <2> QED BY <2>2, <2>3 DEF ForkLabels, Returns, MainReturns, TaskReturns,
                            SuspendedHandler
<1>3. /\ \A d \in Cores \ {c} : pc'[d] = pc[d]
      /\ c \notin early => pc'[c] \notin ForkLabels
  <2>1. pc \in [Cores -> Labels]
    BY <1>0 DEF TypeOK
  <2>2. CASE \E l : l \notin ForkLabels /\ pc' = [pc EXCEPT ![c] = l]
    BY <2>1, <2>2
  <2>3. CASE ScanNext(c)
    BY <2>1, <2>3 DEF ScanNext, ForkLabels
  <2>4. CASE SleepAgain(c)
    BY <2>1, <2>4 DEF SleepAgain, ForkLabels
  <2>5. CASE ArmTimer(c) \/ ContextSwitch(c) \/ ScanFound(c) \/ JoinLeave(c)
    BY <2>1, <2>5 DEF ArmTimer, ContextSwitch, ScanFound, JoinLeave, ForkLabels
  <2>6. CASE JoinAll(c) \/ SecondaryInit(c)
    BY <2>1, <2>6 DEF JoinAll, SecondaryInit, CallSchedule, ForkLabels
  <2>7. CASE Tick(c) \/ Schedule(c) \/ RetFromFork(c) \/ ExitTask(c) \/ ExitCount(c)
    BY <2>2, <2>7 DEF Tick, Schedule, RetFromFork, ExitTask, ExitCount, CallSchedule,
                      ForkLabels
  <2>8. CASE \/ ExitUnlinkNext(c) \/ ExitUnlinkPrevious(c) \/ Wake(c) \/ StartMain(c)
    BY <2>2, <2>8 DEF ExitUnlinkNext, ExitUnlinkPrevious, Wake, StartMain, CallSchedule,
                      ForkLabels
  <2> QED BY <1>2, <2>3, <2>4, <2>5, <2>6, <2>7, <2>8 DEF Step
<1>4. current'[c] = NULL => current[c] = NULL
  <2>1. CASE ScanFound(c)
    BY <1>0, <2>1 DEF ScanFound, TypeOK
  <2>2. CASE ~ScanFound(c)
    BY <2>2 DEF Step, TickReturn, Schedule, ScanNext, ContextSwitch, Tick,
         ScheduleReturn, RetFromFork, ExitTask, ExitCount, ExitUnlinkNext,
         ExitUnlinkPrevious, Wake, SecondaryInit, StartMain, ArmTimer, JoinAll,
         JoinLeave, SleepAgain
  <2> QED BY <2>1, <2>2
<1>5. ASSUME NEW d \in Cores \ {c}
      PROVE  UNCHANGED <<state[d], preempt_count[d], ctx[d], current[d], tasks_num[d],
                         cpu[d], temp[d], timerInt[d], armed[d]>>
  <2>1. CASE TickReturn(c) \/ Schedule(c) \/ ScanNext(c) \/ Tick(c) \/ ScheduleReturn(c)
    BY <1>0, <1>5, <2>1 DEF TypeOK, TickReturn, Schedule, ScanNext, Tick,
                            ScheduleReturn, SetPreempt
  <2>2. CASE ScanFound(c)
    BY <1>0, <1>5, <2>2 DEF TypeOK, ScanFound
  <2>3. CASE ContextSwitch(c)
    BY <1>0, <1>5, <2>3 DEF TypeOK, ContextSwitch
  <2>4. CASE RetFromFork(c) \/ ExitTask(c) \/ ExitCount(c)
    BY <1>0, <1>5, <2>4 DEF TypeOK, RetFromFork, ExitTask, ExitCount, SetPreempt
  <2>5. CASE ExitUnlinkNext(c) \/ ExitUnlinkPrevious(c) \/ Wake(c) \/ SecondaryInit(c)
    BY <1>0, <1>5, <2>5 DEF TypeOK, ExitUnlinkNext, ExitUnlinkPrevious, Wake,
                            SecondaryInit
  <2>6. CASE \/ StartMain(c) \/ ArmTimer(c) \/ JoinAll(c) \/ JoinLeave(c)
             \/ SleepAgain(c)
    BY <1>0, <1>5, <2>6 DEF TypeOK, StartMain, ArmTimer, JoinAll, JoinLeave, TimerOff,
                            SleepAgain
  <2> QED BY <2>1, <2>2, <2>3, <2>4, <2>5, <2>6 DEF Step
<1> QED BY <1>1, <1>3, <1>4, <1>5 DEF RowUnchanged

--------------------------------------------------------------------------------
(* The invariant, from the first state on. *)

LEMMA InitInv == ~EarlyTick /\ Init => IInv
<1> SUFFICES ASSUME ~EarlyTick, Init PROVE IInv
  OBVIOUS
<1> USE TaskFacts, CoresAssumption
<1>1. TypeOK
  BY TypeInit
<1>2. ASSUME NEW c \in Cores PROVE StacksReturn(c)
  <2>1. ASSUME NEW t \in Tasks PROVE <<>> \in Seq(Returns(t))
    OBVIOUS
  <2> QED BY <2>1 DEF Init, StacksReturn
<1>3. ASSUME NEW c \in Cores PROVE CoreInv(c) /\ CurrentSet(c)
  BY <1>3 DEF Init, CoreInv, LabelFitsTask, CpuIsCurrent, StatesFit, GuardHeld, Live,
              Resumable, MainReady, TimerQuiet, MainStarted, CurrentSet, Critical,
              ExitLabels, TaskLabels, MainLabels, ProgramLabels, SecondaryLabels,
              ForkLabels, QuietLabels
<1>4. OthersSleep /\ TargetLinked
  BY DEF Init, OthersSleep, Forked, Asleep, TargetLinked
<1>5. TodoFits
  BY ForksAssumption, BoundsAssumption DEF Init, TodoFits
<1>6. CORE0Forks
  BY CORE0Assumption DEF Init, CORE0Forks, ForkLabels
<1> QED BY <1>1, <1>2, <1>3, <1>4, <1>5, <1>6 DEF IInv

LEMMA CoreInvStep ==
    ASSUME IInv, [Next]_vars, TypeOK', NEW c \in Cores \ early'
    PROVE  CoreInv(c)'
<1>1. c \notin early
  BY EarlyStays
<1>2. CoreInv(c) /\ CurrentSet(c) /\ TypeOK /\ StacksReturn(c)
  BY <1>1 DEF IInv
<1>3. ASSUME NEW d \in Cores, Step(d) \/ Tick(d) \/ ExitTask(d) PROVE CoreInv(c)'
  <2>1. CASE c # d
    BY <1>2, <1>3, <2>1, OwnStep, RowFrame
  <2>2. CASE c = d
    BY <1>2, <1>3, <2>2, HandlerRow, ScheduleRow, TaskRow, MainRow DEF Step
  <2> QED BY <2>1, <2>2
<1>4. ASSUME NEW d \in Cores, Fork(d) PROVE CoreInv(c)'
  BY <1>4, ForkRow
<1>5. CASE ThreadingInit \/ KickCores \/ StartJoin \/ JoinTask \/ NextRound
  BY <1>1, <1>5, ProgramRow
<1>6. CASE UNCHANGED vars
  BY <1>2, <1>6, RowFrame
  DEF RowUnchanged, vars, tableVars, coreVars, cpuVars, timerVars
<1> QED BY <1>3, <1>4, <1>5, <1>6 DEF Next, Program, Stopped

\* A core without current gets one from fork_task() only.
LEMMA CurrentSetStep ==
    ASSUME IInv, [Next]_vars, TypeOK', NEW c \in Cores
    PROVE  CurrentSet(c)'
<1> USE TaskFacts, CoresAssumption
    DEF At, Goto, tableVars, coreVars, cpuVars, timerVars, progVars
<1> SUFFICES ASSUME current'[c] = NULL
             PROVE  /\ ~armed'[c] /\ pc'[c] \in ForkLabels \cup {"wfe", "entry"}
                    /\ state'[c][Main] = TASK_ZOMBIE /\ tasks_num'[c] = 0
  BY DEF CurrentSet
<1>0. TypeOK
  BY DEF IInv
<1>1. ASSUME current[c] = NULL
      PROVE  /\ ~armed[c] /\ pc[c] \in ForkLabels \cup {"wfe", "entry"}
             /\ state[c][Main] = TASK_ZOMBIE /\ tasks_num[c] = 0
  BY <1>1 DEF IInv, CurrentSet
<1>2. ASSUME NEW d \in Cores, Step(d) \/ Tick(d) \/ ExitTask(d)
      PROVE  CurrentSet(c)'
  <2>1. CASE c # d
    BY <1>2, <2>1, OwnStep DEF RowUnchanged, IInv, CurrentSet
  <2>2. CASE c = d
    <3>1. current[c] = NULL
      BY <1>2, <2>2, OwnStep
    <3>2. ~Tick(c) /\ ~ExitTask(c)
      BY <1>1, <3>1 DEF Tick, ExitTask, ForkLabels
    <3>3. Wake(c) \/ SecondaryInit(c)
      BY <1>1, <1>2, <2>2, <3>1, <3>2
      DEF Step, ForkLabels, TickReturn, Schedule, ScanNext, ScanFound, ContextSwitch,
          ScheduleReturn, RetFromFork, ExitCount, ExitUnlinkNext, ExitUnlinkPrevious,
          StartMain, ArmTimer, JoinAll, JoinLeave, SleepAgain
    <3>4. pc'[c] \in {"wfe", "entry"}
      BY <1>0, <1>1, <3>1, <3>3 DEF Wake, SecondaryInit, NothingForked, TypeOK
    <3>5. UNCHANGED <<armed, state, tasks_num>>
      BY <3>3 DEF Wake, SecondaryInit
    <3> QED BY <1>1, <3>1, <3>4, <3>5 DEF CurrentSet
  <2> QED BY <2>1, <2>2
<1>3. ASSUME NEW d \in Cores, Fork(d) PROVE CurrentSet(c)'
  <2>1. /\ pc'[CORE0] \in ForkLabels /\ \A e \in Cores \ {CORE0} : pc'[e] = pc[e]
        /\ UNCHANGED armed
    BY <1>3, ForkAt
  <2>2. CASE \/ c # d \/ ForkPanic(d)
             \/ \E p \in Tasks : LinkNext(d, p) \/ LinkPrevious(d, p)
    <3>1. UNCHANGED <<state[c], current[c], tasks_num[c]>>
      BY <1>0, <1>3, <2>2, ForkElsewhere
    <3> QED BY <1>1, <2>1, <3>1 DEF CurrentSet
  <2>3. CASE ForkTask(d) /\ c = d
    <3>1. UNCHANGED <<current, tasks_num>>
      BY <2>3 DEF ForkTask
    <3>2. state'[c][Main] = state[c][Main]
      BY <1>0, <2>3 DEF ForkTask, FreeSlots, TypeOK
    <3> QED BY <1>1, <2>1, <3>1, <3>2 DEF CurrentSet
  <2>4. ASSUME NEW p \in Tasks, LinkFirst(d, p), c = d PROVE FALSE
    BY <1>0, <2>4 DEF LinkFirst, TypeOK
  <2>5. CASE ForkCount(d) /\ c = d
    BY <2>5 DEF ForkCount, IInv, TargetLinked
  <2> QED BY <1>3, <2>2, <2>3, <2>4, <2>5 DEF Fork
<1>4. CASE ThreadingInit \/ KickCores \/ StartJoin \/ JoinTask \/ NextRound
  <2>1. UNCHANGED <<state, current, tasks_num, armed>>
    BY <1>4 DEF ThreadingInit, KickCores, StartJoin, JoinTask, NextRound
  <2>2. c # CORE0 => pc'[c] = pc[c]
    <3>1. \E l : pc' = [pc EXCEPT ![CORE0] = l]
      BY <1>4 DEF ThreadingInit, KickCores, StartJoin, JoinTask, NextRound,
                  CallSchedule
    <3>2. pc \in [Cores -> Labels]
      BY <1>0 DEF TypeOK
    <3> QED BY <3>1, <3>2
  <2>3. c # CORE0
    <3>1. ASSUME c = CORE0 PROVE FALSE
      <4>1. pc[CORE0] \in ForkLabels /\ (todo[CORE0] > 0 \/ pc[CORE0] = "link")
        BY <2>1, <3>1 DEF IInv, CORE0Forks
      <4>2. CASE ThreadingInit
        BY <1>0, <4>1, <4>2 DEF ThreadingInit
      <4> QED BY <1>4, <4>1, <4>2 DEF ForkLabels, KickCores, StartJoin, JoinTask,
                                      NextRound
    <3> QED BY <3>1
  <2> QED BY <1>1, <2>1, <2>2, <2>3 DEF CurrentSet
<1>5. CASE UNCHANGED vars
  BY <1>1, <1>5 DEF vars
<1> QED BY <1>2, <1>3, <1>4, <1>5 DEF Next, Program, Stopped, CurrentSet

\* While core 0 forks for a core, that core stays asleep or is early.
LEMMA OthersSleepStep ==
    ASSUME IInv, [Next]_vars
    PROVE  OthersSleep' /\ TodoFits'
<1> USE CoresAssumption DEF At, Goto, tableVars, coreVars, cpuVars, timerVars, progVars
<1>0. /\ OthersSleep /\ TodoFits /\ TypeOK
      /\ pc \in [Cores -> Labels] /\ CORE0 \notin early
  BY DEF IInv, TypeOK
<1>1. ASSUME NEW c \in Cores, Step(c) \/ Tick(c) \/ ExitTask(c)
      PROVE  OthersSleep' /\ TodoFits'
  <2>1. UNCHANGED <<target, todo, round, early>> /\ \A d \in Cores : mail'[d] => mail[d]
    BY <1>1, OwnStep
  <2>2. pc'[CORE0] \in ForkLabels => pc'[CORE0] = pc[CORE0] /\ c # CORE0
    <3>1. CASE c = CORE0
      BY <1>0, <1>1, <3>1, OwnStep
    <3>2. CASE c # CORE0
      BY <1>1, <3>2, OwnStep DEF RowUnchanged
    <3> QED BY <3>1, <3>2
  <2>3. ASSUME NEW d \in Cores \ early, Asleep(d) PROVE Asleep(d)'
    <3>1. d # c
      BY <1>1, <2>3, SleepingAlone
    <3> QED BY <1>1, <2>1, <2>3, <3>1, OwnStep DEF RowUnchanged, Asleep
  <2>4. OthersSleep'
    <3>1. round' = 1 /\ pc'[CORE0] \in ForkLabels =>
            \A d \in Cores \ {CORE0} : Asleep(d)'
      BY <1>0, <2>1, <2>2, <2>3 DEF OthersSleep
    <3>2. \A d \in Cores \ early' : Forked(d)' /\ d # CORE0 => Asleep(d)'
      BY <1>0, <2>1, <2>2, <2>3 DEF OthersSleep, Forked
    <3>3. round' = 1 => early' = {}
      BY <1>0, <2>1 DEF OthersSleep
    <3> QED BY <3>1, <3>2, <3>3 DEF OthersSleep
  <2>5. TodoFits'
    BY <1>0, <2>1, <2>2 DEF TodoFits, Forked, ForkLabels
  <2> QED BY <2>4, <2>5
<1>2. ASSUME NEW c \in Cores, Fork(c) PROVE OthersSleep' /\ TodoFits'
  <2>1. /\ pc[CORE0] \in ForkLabels /\ pc'[CORE0] \in ForkLabels
        /\ \A d \in Cores \ {CORE0} : pc'[d] = pc[d]
        /\ UNCHANGED <<mail, round>>
    BY <1>2, ForkAt
  <2>2. \A d \in Cores \ {CORE0} : Asleep(d)' = Asleep(d)
    BY <2>1 DEF Asleep
  <2>3. todo \in [Cores -> Nat] /\ \A d \in Cores : todo[d] <= Forks[round][d]
    BY <1>0, <2>1 DEF TodoFits, TypeOK
  <2>4. CASE ForkTask(c)
    <3>1. /\ target'[1] = c /\ todo' = [todo EXCEPT ![c] = todo[c] - 1] /\ todo[c] > 0
          /\ early' = IF TooEarly(c) THEN early \cup {c} ELSE early
          /\ ~ForkPanic(c)
      BY <2>4 DEF ForkTask, ForkPanic
    <3>2. \A d \in Cores : d # c => todo'[d] = todo[d]
      BY <2>3, <3>1
    <3>3. todo'[c] < Forks[round][c] /\ todo'[c] \in Nat
      <4>1. Forks[round][c] \in Nat
        BY <1>0, ForksInNat
      <4> QED BY <2>3, <3>1, <4>1
    <3>4. TodoFits'
      <4>1. \A d \in Cores : todo'[d] <= Forks[round][d]
        <5>1. Forks[round][c] \in Nat
          BY <1>0, ForksInNat
        <5> QED BY <2>3, <3>2, <3>3, <5>1
      <4>2. Forked(c)'
        BY <2>1, <3>3 DEF Forked
      <4> QED BY <2>1, <3>1, <4>1, <4>2 DEF TodoFits
    <3>5. OthersSleep'
      <4>1. ASSUME NEW d \in Cores \ early', Forked(d)', d # CORE0 PROVE Asleep(d)'
        <5>1. CASE d = c
          BY <1>2, <2>2, <3>1, <4>1, <5>1, ForkAt
        <5>2. CASE d # c
          BY <1>0, <2>1, <2>2, <3>1, <3>2, <4>1, <5>2 DEF OthersSleep, Forked
        <5> QED BY <5>1, <5>2
      <4>2. round = 1 => early' = {}
        BY <1>0, <2>1, <3>1 DEF OthersSleep, TooEarly
      <4> QED BY <1>0, <2>1, <2>2, <4>1, <4>2 DEF OthersSleep
    <3> QED BY <3>4, <3>5
  <2>5. CASE ~ForkTask(c)
    <3>1. UNCHANGED <<todo, early>>
      BY <1>2, <2>5
      DEF Fork, ForkPanic, LinkFirst, LinkNext, LinkPrevious, ForkCount
    <3>2. pc'[CORE0] \in {"link", "link2", "count"} =>
            pc[CORE0] \in {"link", "link2", "count"} /\ target' = target
      BY <1>0, <1>2, <2>5
      DEF Fork, ForkPanic, LinkFirst, LinkNext, LinkPrevious, ForkCount
    <3> QED BY <1>0, <2>1, <2>2, <3>1, <3>2 DEF OthersSleep, TodoFits, Forked
  <2> QED BY <2>4, <2>5
<1>3. CASE ThreadingInit \/ KickCores \/ StartJoin \/ JoinTask
  <2>1. pc'[CORE0] \notin ForkLabels /\ UNCHANGED <<round, early>>
    BY <1>0, <1>3 DEF ThreadingInit, KickCores, StartJoin, JoinTask, CallSchedule,
                      ForkLabels
  <2> QED BY <1>0, <2>1 DEF OthersSleep, TodoFits, Forked, ForkLabels
<1>4. CASE NextRound
  <2>1. CASE round < Rounds
    <3>1. round' = round + 1 /\ round' # 1 /\ todo' = Forks[round'] /\ early' = early
          /\ pc'[CORE0] = "forks"
      BY <1>0, <1>4, <2>1 DEF NextRound, TypeOK
    <3>2. \A d \in Cores : Forks[round'][d] \in Nat
      BY <1>0, <2>1, <3>1, ForksAssumption, BoundsAssumption DEF TypeOK
    <3> QED BY <3>1, <3>2 DEF OthersSleep, TodoFits, Forked
  <2>2. CASE ~(round < Rounds)
    BY <1>0, <1>4, <2>2 DEF NextRound, OthersSleep, TodoFits, Forked, ForkLabels
  <2> QED BY <2>1, <2>2
<1>5. CASE UNCHANGED vars
  BY <1>0, <1>5 DEF OthersSleep, TodoFits, Forked, Asleep, vars
<1> QED BY <1>1, <1>2, <1>3, <1>4, <1>5 DEF Next, Program, Stopped

\* Core 0 gets a current before it leaves its forks, and so does every core a
\* task is linked into.
LEMMA CurrentStep ==
    ASSUME IInv, [Next]_vars
    PROVE  CORE0Forks' /\ TargetLinked'
<1> USE TaskFacts, CoresAssumption
    DEF At, Goto, tableVars, coreVars, cpuVars, timerVars, progVars
<1>0. /\ CORE0Forks /\ TargetLinked
      /\ pc \in [Cores -> Labels] /\ current \in [Cores -> Tasks \cup {NULL}]
      /\ target \in Cores \X Tasks /\ todo \in [Cores -> Nat]
  BY DEF IInv, TypeOK
<1>1. ASSUME NEW c \in Cores, Step(c) \/ Tick(c) \/ ExitTask(c)
      PROVE  CORE0Forks' /\ TargetLinked'
  <2>1. /\ UNCHANGED <<target, todo>>
        /\ \A d \in Cores : current'[d] = NULL => current[d] = NULL
    BY <1>1, OwnStep DEF RowUnchanged
  <2>2. CASE c # CORE0
    <3>1. pc'[CORE0] = pc[CORE0]
      BY <1>1, <2>2, OwnStep DEF RowUnchanged
    <3>2. target[1] \in Cores
      BY <1>0
    <3> QED BY <1>0, <2>1, <3>1, <3>2 DEF CORE0Forks, TargetLinked
  <2>3. CASE c = CORE0
    <3>1. pc[CORE0] \notin ForkLabels
      BY <1>1, <2>3, ForkingAlone
    <3>2. pc'[CORE0] \notin ForkLabels
      BY <1>1, <2>3, OwnStep DEF IInv, TypeOK
    <3> QED BY <1>0, <2>1, <3>1, <3>2 DEF CORE0Forks, TargetLinked, ForkLabels
  <2> QED BY <2>2, <2>3
<1>2. ASSUME NEW c \in Cores, ForkTask(c) PROVE CORE0Forks' /\ TargetLinked'
  <2>1. /\ pc[CORE0] = "forks" /\ pc'[CORE0] = "link" /\ target'[1] = c
        /\ UNCHANGED current /\ todo' = [todo EXCEPT ![c] = @ - 1]
    BY <1>0, <1>2 DEF ForkTask
  <2>2. c # CORE0 => todo'[CORE0] = todo[CORE0]
    BY <1>0, <2>1
  <2> QED BY <1>0, <2>1, <2>2 DEF CORE0Forks, TargetLinked, ForkLabels
<1>3. ASSUME NEW c \in Cores, NEW p \in Tasks, LinkFirst(c, p)
      PROVE  CORE0Forks' /\ TargetLinked'
  <2>1. /\ pc[CORE0] = "link" /\ pc'[CORE0] = "count" /\ target = <<c, p>>
        /\ current' = [current EXCEPT ![c] = Main] /\ UNCHANGED <<todo, target>>
    BY <1>0, <1>3 DEF LinkFirst
  <2> QED BY <1>0, <2>1 DEF CORE0Forks, TargetLinked, ForkLabels
<1>4. ASSUME NEW c \in Cores, NEW p \in Tasks, LinkNext(c, p) \/ LinkPrevious(c, p)
      PROVE  CORE0Forks' /\ TargetLinked'
  <2>1. /\ pc[CORE0] \in {"link", "link2"} /\ pc'[CORE0] \in {"link2", "count"}
        /\ target = <<c, p>> /\ UNCHANGED <<todo, target, current>>
        /\ pc[CORE0] = "link" => tasks_num[c] # 0
    BY <1>0, <1>4 DEF LinkNext, LinkPrevious
  <2>2. current[c] # NULL
    BY <1>0, <2>1 DEF IInv, CurrentSet, TargetLinked
  <2> QED BY <1>0, <2>1, <2>2 DEF CORE0Forks, TargetLinked, ForkLabels
<1>5. ASSUME NEW c \in Cores, ForkCount(c) PROVE CORE0Forks' /\ TargetLinked'
  BY <1>0, <1>5 DEF ForkCount, CORE0Forks, TargetLinked, ForkLabels
<1>6. CASE ThreadingInit \/ KickCores \/ StartJoin \/ JoinTask \/ NextRound
  <2>1. /\ current' = current
        /\ pc'[CORE0] \notin {"link2", "count"}
        /\ pc[CORE0] \in ForkLabels => pc[CORE0] = "forks" /\ todo[CORE0] = 0
    BY <1>0, <1>6 DEF ThreadingInit, KickCores, StartJoin, JoinTask, NextRound,
                      CallSchedule, ForkLabels
  <2> QED BY <1>0, <2>1 DEF CORE0Forks, TargetLinked
<1>7. ASSUME NEW c \in Cores, ForkPanic(c) PROVE CORE0Forks' /\ TargetLinked'
  BY <1>0, <1>7 DEF ForkPanic, CORE0Forks, TargetLinked
<1>8. CASE UNCHANGED vars
  BY <1>0, <1>8 DEF CORE0Forks, TargetLinked, vars
<1> QED BY <1>1, <1>2, <1>3, <1>4, <1>5, <1>6, <1>7, <1>8
        DEF Next, Program, Fork, Stopped

LEMMA InvStep == IInv /\ [Next]_vars => IInv'
<1> SUFFICES ASSUME IInv, [Next]_vars PROVE IInv'
  OBVIOUS
<1>1. TypeOK'
  BY TypeStep
<1>2. ASSUME NEW c \in Cores PROVE CurrentSet(c)'
  BY <1>1, CurrentSetStep
<1>3. ASSUME NEW c \in Cores \ early' PROVE StacksReturn(c)' /\ CoreInv(c)'
  BY <1>1, StacksStep, CoreInvStep
<1> QED BY <1>1, <1>2, <1>3, OthersSleepStep, CurrentStep DEF IInv

\* IInv holds in every state the program reaches.
THEOREM Invariance == ASSUME ~EarlyTick PROVE Spec => []IInv
BY InitInv, InvStep, PTL DEF Spec

--------------------------------------------------------------------------------
(* What follows from the invariant, on boards whose timers stay silent until *)
(* they are set, of core 0 and of every core it never forked too early for.  *)

\* Every variable keeps its type: a current that is NULL or a task, labels that
\* belong to the code, stacks of labels.
THEOREM TypeCorrect == ASSUME ~EarlyTick PROVE Spec => []TypeOK
<1>1. IInv => TypeOK
  BY DEF IInv
<1> QED BY <1>1, Invariance, PTL

\* preempt_disable() keeps ticks out of schedule(), of context_switch() and of
\* exit_task(), whatever task's counter it ends up in.
THEOREM CriticalSections ==
    ASSUME ~EarlyTick PROVE Spec => []CriticalSectionsClosed
<1>1. IInv => CriticalSectionsClosed
  BY DEF IInv, CoreInv, GuardHeld, CriticalSectionsClosed
<1> QED BY <1>1, Invariance, PTL

\* At most one task of a core is RUNNING, and the core uses its stack.
THEOREM MutualExclusion == ASSUME ~EarlyTick PROVE Spec => []OneRunning
<1>1. IInv => OneRunning
  BY DEF IInv, CoreInv, CpuIsCurrent, StatesFit, OneRunning
<1> QED BY <1>1, Invariance, PTL

\* schedule() never restores a context that context_switch() did not save.
THEOREM SavedContexts == ASSUME ~EarlyTick PROVE Spec => []ReadyIsResumable
<1>1. IInv => ReadyIsResumable
  BY DEF IInv, CoreInv, Resumable, ReadyIsResumable
<1> QED BY <1>1, Invariance, PTL

\* The last task of a core to exit finds main READY.
THEOREM MainIsThere == ASSUME ~EarlyTick PROVE Spec => []MainSchedulable
<1>1. IInv => MainSchedulable
  BY DEF IInv, CoreInv, MainReady, MainSchedulable
<1> QED BY <1>1, Invariance, PTL

\* fork_task() takes no slot whose stack a core still uses: not on core 0, however
\* far the other cores are behind, nor on a core that sleeps when it forks.
THEOREM StackReuse == ASSUME ~EarlyTick PROVE Spec => NoLiveStackReset
<1> DEFINE Kept == \A c \in Cores \ early' : \A s \in Slots :
                     ctx'[c][s] = "fork" /\ ctx[c][s] # "fork" => cpu[c] # s
<1>1. ASSUME IInv, [Next]_vars PROVE Kept
  <2> SUFFICES ASSUME NEW c \in Cores \ early', NEW s \in Slots,
                      ctx'[c][s] = "fork", ctx[c][s] # "fork"
               PROVE  cpu[c] # s
    OBVIOUS
  <2>0. ctx \in [Cores -> [Tasks -> {"none", "fork", "resume"}]] /\ s \in Tasks
        /\ pc \in [Cores -> Labels] /\ cpu \in [Cores -> Tasks]
    BY <1>1, TaskFacts DEF IInv, TypeOK
  <2>1. ASSUME UNCHANGED ctx PROVE FALSE
    BY <2>1
  <2>2. ASSUME NEW d \in Cores, ForkTask(d) PROVE cpu[c] # s
    <3>1. c = d
      BY <2>0, <2>2 DEF ForkTask
    <3>2. Fork(c) /\ ~ForkPanic(c) /\ c \notin early
      BY <2>2, <3>1 DEF Fork, ForkTask, ForkPanic
    <3>3. pc[CORE0] \in ForkLabels /\ (c = CORE0 \/ pc[c] = "wfe")
      BY <1>1, <3>2, ForkAt DEF Asleep
    <3>4. cpu[c] = Main
      BY <1>1, <3>2, <3>3, WhileForking
    <3> QED BY <3>4, TaskFacts
  <2>3. ASSUME NEW d \in Cores, ContextSwitch(d) PROVE FALSE
    <3>1. ctx' = [ctx EXCEPT ![d] = [Saved(d) EXCEPT ![temp[d]] = "none"]]
      BY <2>3 DEF ContextSwitch
    <3>2. ctx'[c][s] \in {ctx[c][s], "resume", "none"}
      BY <2>0, <3>1 DEF Saved
    <3> QED BY <3>2
  <2>4. ASSUME NEW d \in Cores, Step(d) \/ Tick(d) \/ ExitTask(d) PROVE FALSE
    <3> USE DEF tableVars
    <3>1. CASE TickReturn(d) \/ Schedule(d) \/ ScanNext(d) \/ ScanFound(d) \/ Tick(d)
      BY <2>1, <3>1 DEF TickReturn, Schedule, ScanNext, ScanFound, Tick
    <3>2. CASE \/ ScheduleReturn(d) \/ RetFromFork(d) \/ ExitTask(d) \/ ExitCount(d)
               \/ ExitUnlinkNext(d) \/ ExitUnlinkPrevious(d)
      BY <2>1, <3>2 DEF ScheduleReturn, RetFromFork, ExitTask, ExitCount,
                        ExitUnlinkNext, ExitUnlinkPrevious
    <3>3. CASE \/ Wake(d) \/ SecondaryInit(d) \/ StartMain(d) \/ ArmTimer(d)
               \/ JoinAll(d) \/ JoinLeave(d) \/ SleepAgain(d)
      BY <2>1, <3>3 DEF Wake, SecondaryInit, StartMain, ArmTimer, JoinAll, JoinLeave,
                        SleepAgain
    <3> QED BY <2>3, <2>4, <3>1, <3>2, <3>3 DEF Step
  <2>5. CASE Program
    BY <2>1, <2>2, <2>5
    DEF Program, tableVars, Fork, ForkPanic, LinkFirst, LinkNext, LinkPrevious,
        ForkCount, ThreadingInit, KickCores, StartJoin, JoinTask, NextRound
  <2>6. CASE UNCHANGED vars
    BY <2>1, <2>6 DEF vars, tableVars
  <2> QED BY <1>1, <2>4, <2>5, <2>6 DEF Next, Stopped
<1>2. Spec => [][Kept]_vars
  <2>1. IInv /\ [Next]_vars => [Kept]_vars
    BY <1>1
  <2> QED BY <2>1, Invariance, PTL DEF Spec
<1> QED BY <1>2 DEF NoLiveStackReset
====
