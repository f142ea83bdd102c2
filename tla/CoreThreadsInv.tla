----------------------------- MODULE CoreThreadsInv -----------------------------
(* The inductive invariant behind the safety properties of CoreThreads, for    *)
(* timers that stay silent until they are set (~EarlyTick).                    *)
EXTENDS CoreThreads

\* What a stack may return to.  A tick suspends main or a task's function only
\* where preempt_count is 0, and main only where the timer is on.
SuspendedHandler == {"tickret", "sched"}
MainReturns == SuspendedHandler \cup
    {"kick", "start", "arm", "started", "joinT", "join", "leave"}
TaskReturns == SuspendedHandler \cup {"body"}
Returns(t)  == IF t = Main THEN MainReturns ELSE TaskReturns

StacksReturn(c) == \A t \in Tasks : frames[c][t] \in Seq(Returns(t))

\* The code a stack executes belongs to its task.
LabelFitsTask(c) ==
    /\ IF cpu[c] = Main THEN pc[c] \notin TaskLabels
                        ELSE pc[c] \notin MainLabels
    /\ ctx[c][Main] # "fork"

\* cpu and current agree outside the switch, and temp is who comes next in it.
CpuIsCurrent(c) ==
    IF pc[c] = "switch"
    THEN current[c] # NULL /\ temp[c] = current[c] /\ cpu[c] # current[c]
    ELSE IF current[c] = NULL THEN cpu[c] = Main /\ temp[c] = NULL
                              ELSE cpu[c] = current[c]

\* At most current is RUNNING, and current is never READY.
StatesFit(c) ==
    /\ \A t \in Tasks : state[c][t] = TASK_RUNNING => t = current[c]
    /\ current[c] # NULL => state[c][current[c]] # TASK_READY

\* The critical section and the counts of CriticalSectionsClosed, on core c.
GuardHeld(c) ==
    /\ pc[c] \in Critical /\ current[c] # NULL => preempt_count[c][current[c]] = 1
    /\ \A t \in Live(c) \ {current[c]} : preempt_count[c][t] = 1

\* ReadyIsResumable, on core c.
Resumable(c) ==
    \A t \in Tasks :
        state[c][t] = TASK_READY /\ ~(pc[c] = "switch" /\ t = cpu[c])
            => ctx[c][t] # "none"

\* MainSchedulable, on core c.
MainReady(c) == current[c] \notin {NULL, Main} => state[c][Main] = TASK_READY

\* The labels at which no timer interrupt can come.
ForkLabels  == {"forks", "link", "link2", "count"}
QuietLabels == ForkLabels \cup {"rest", "halt", "wfe", "entry", "demand"}

TimerQuiet(c) == pc[c] \in QuietLabels => ~(timerInt[c] /\ armed[c])

\* main is a live task from StartMain on, and the timer is set after that.
MainStarted(c) ==
    /\ current[c] # NULL
    /\ armed[c] \/ pc[c] \notin QuietLabels \cup {"kick", "start"}
    => state[c][Main] # TASK_ZOMBIE

\* A core has no current only before its first task, while it sleeps or forks.
\* This holds of every core, whatever core 0 does to its table.
CurrentSet(c) ==
    current[c] = NULL =>
        /\ ~armed[c]
        /\ pc[c] \in ForkLabels \cup {"wfe", "entry"}
        /\ state[c][Main] = TASK_ZOMBIE
        /\ tasks_num[c] = 0

\* What holds of a core for which core 0 never forked too early.
CoreInv(c) ==
    /\ LabelFitsTask(c)
    /\ CpuIsCurrent(c)
    /\ StatesFit(c)
    /\ GuardHeld(c)
    /\ Resumable(c)
    /\ MainReady(c)
    /\ TimerQuiet(c)
    /\ MainStarted(c)

\* core 0 has begun to fork for c in this round.
Forked(c) == pc[CORE0] \in ForkLabels /\ todo[c] # Forks[round][c]

\* A core it forks for sleeps, unless it is early, and in the first round all do.
OthersSleep ==
    /\ \A c \in Cores \ early : Forked(c) /\ c # CORE0 => Asleep(c)
    /\ round = 1 => early = {}
    /\ round = 1 /\ pc[CORE0] \in ForkLabels => \A c \in Cores \ {CORE0} : Asleep(c)

\* The rest of what the program forks in this round.
TodoFits ==
    /\ pc[CORE0] \in ForkLabels => \A c \in Cores : todo[c] <= Forks[round][c]
    /\ pc[CORE0] \in {"link", "link2", "count"} => Forked(target[1])

\* Core 0 does not leave its forks without a task of its own.
CORE0Forks ==
    current[CORE0] = NULL =>
        /\ pc[CORE0] \in ForkLabels
        /\ todo[CORE0] > 0 \/ (pc[CORE0] = "link" /\ target[1] = CORE0)

\* The core a task is linked into has a current.
TargetLinked ==
    pc[CORE0] \in {"link2", "count"} => current[target[1]] # NULL

IInv ==
    /\ TypeOK
    /\ \A c \in Cores : CurrentSet(c)
    /\ \A c \in Cores \ early : StacksReturn(c) /\ CoreInv(c)
    /\ OthersSleep
    /\ TodoFits
    /\ CORE0Forks
    /\ TargetLinked
================================================================================
