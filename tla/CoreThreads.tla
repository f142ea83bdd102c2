------------------------------ MODULE CoreThreads ------------------------------
(***************************************************************************)
(* The preemptive threads of the multicore capstone (src/thread.c,         *)
(* thread_asm.s, the timer interrupt path of interrupt.c and entry.S, and  *)
(* the mailbox sleep loop of core_UntilEvent.s), together with the program *)
(* that uses them: core 0 forks tasks for every core, calls threading_init,*)
(* joins all of them and starts again.                                     *)
(*                                                                         *)
(* The program does not wait for the other cores to sleep before it forks  *)
(* again.  The history variable early, which no step reads, records the    *)
(* cores it forks for too early: from then on two cores write the same     *)
(* table without a lock.  The model follows such a core step by step, up   *)
(* to the bounds named below, and the properties that leave out the cores  *)
(* in early promise nothing of it.                                         *)
(*                                                                         *)
(* A core's control is the label pc[c] of the next step it executes, on    *)
(* the stack of task cpu[c].  Each step is one shared-memory access of the *)
(* code, or several between which a timer interrupt changes nothing.       *)
(*                                                                         *)
(* A definition whose name ends in _Bug is no part of the model: it is a   *)
(* faulty variant of the definition below it, kept to show that the        *)
(* properties notice the fault when it takes that definition's place.      *)
(***************************************************************************)
EXTENDS Integers, Sequences, FiniteSets

CONSTANTS
    Cores,        \* the cores, CORE_NUM of them
    CORE0,        \* the core that runs notmain
    NR_TASKS,     \* slots of a core's task table, slot 0 is its main
    NULL,         \* the null pointer
    Forks,        \* Forks[r][c]: the tasks forked for core c in round r
    JoinTargets,  \* the <<core, slot>> the program may join_task() by itself
    Rounds,       \* bound: how often the program forks, starts and joins
    MaxNest,      \* bound: timer handlers live on one stack
    EarlyTick     \* TRUE: a timer compare value left by reset may fire

Main  == 0
Tasks == 0 .. NR_TASKS - 1
Slots == 1 .. NR_TASKS - 1
NoTask == <<CORE0, Main>>  \* target while p is out of scope

TASK_ZOMBIE  == "zombie"
TASK_READY   == "ready"
TASK_RUNNING == "running"

ASSUME NRTasksAssumption == NR_TASKS \in Nat /\ NR_TASKS >= 2
ASSUME CoresAssumption   == CORE0 \in Cores
ASSUME NullAssumption    == NULL \notin Tasks
ASSUME ForksAssumption   == Forks \in [1 .. Rounds -> [Cores -> Nat]]
\* threading_init() uses the current that fork_task() sets on core 0.
ASSUME CORE0Assumption   == Forks[1][CORE0] > 0
ASSUME JoinAssumption    == JoinTargets \subseteq Cores \X Slots
ASSUME BoundsAssumption  == Rounds \in Nat \ {0} /\ MaxNest \in Nat
ASSUME FlagsAssumption   == EarlyTick \in BOOLEAN

\* Where a main stands outside schedule(): the program of core 0 ...
ProgramLabels == {"forks", "link", "link2", "count", "kick", "started",
                  "joinT", "rest", "halt"}
\* ... the secondary cores ...
SecondaryLabels == {"wfe", "entry", "demand"}
\* ... and what both run.
MainLabels == ProgramLabels \cup SecondaryLabels
                            \cup {"start", "arm", "join", "leave"}
\* A task proper: its function, then the steps of exit_task.
ExitLabels == {"zombied", "counted", "unlinked"}
TaskLabels == {"fork", "body"} \cup ExitLabels
\* The timer handler and schedule() run on any stack.
SchedLabels == {"tickret", "sched", "scan", "switch", "resume"}
Labels == MainLabels \cup TaskLabels \cup SchedLabels

VARIABLES
    state, preempt_count, next, previous,  \* struct task_struct
    ctx,       \* cpu_context: "none" (stale), "fork", "resume" (in schedule)
    frames,    \* the labels a task's stack returns to, innermost first
    current, tasks_num,  \* struct core_tasks_ctrl
    cpu,       \* the task whose registers and stack the core uses
    pc, temp,  \* the core's label and schedule()'s local
    timerInt,  \* CORE_TIMER_INTERRUPT_CTRL lets the timer interrupt through
    armed,     \* the timer's compare value has been set
    mail,      \* secondary_cores_threading_init waits in the mailbox
    target,    \* fork_task's p, or join_task's argument
    todo, round, \* the forks the program still has to do, and its round
    up,        \* FALSE once a panic() or demand() reboots the board
    early      \* the cores that were not asleep when core 0 forked for them

tableVars == <<state, preempt_count, next, previous, ctx, frames>>
coreVars  == <<current, tasks_num>>
cpuVars   == <<cpu, pc, temp>>
timerVars == <<timerInt, armed, mail>>
progVars  == <<target, todo, round, up, early>>
vars == <<tableVars, coreVars, cpuVars, timerVars, progVars>>

TypeOK ==
    /\ state \in [Cores -> [Tasks -> {TASK_ZOMBIE, TASK_READY, TASK_RUNNING}]]
    /\ preempt_count \in [Cores -> [Tasks -> 0 .. 1]]
    /\ next \in [Cores -> [Tasks -> Tasks \cup {NULL}]]
    /\ previous \in [Cores -> [Tasks -> Tasks \cup {NULL}]]
    /\ ctx \in [Cores -> [Tasks -> {"none", "fork", "resume"}]]
    /\ frames \in [Cores -> [Tasks -> Seq(Labels)]]
    /\ current \in [Cores -> Tasks \cup {NULL}]
    /\ tasks_num \in [Cores -> Int]
    /\ cpu \in [Cores -> Tasks]
    /\ pc \in [Cores -> Labels]
    /\ temp \in [Cores -> Tasks \cup {NULL}]
    /\ timerInt \in [Cores -> BOOLEAN]
    /\ armed \in [Cores -> BOOLEAN]
    /\ mail \in [Cores -> BOOLEAN]
    /\ target \in Cores \X Tasks
    /\ todo \in [Cores -> Nat]
    /\ round \in 1 .. Rounds
    /\ up \in BOOLEAN
    /\ early \subseteq Cores \ {CORE0}

--------------------------------------------------------------------------------
(* Control. *)

At(c, l) == up /\ pc[c] = l
Goto(c, l) == pc' = [pc EXCEPT ![c] = l]

\* Pushes return labels on the running stack and enters schedule().
CallSchedule(c, returns) ==
    /\ frames' = [frames EXCEPT ![c][cpu[c]] = returns \o @]
    /\ Goto(c, "sched")

\* Returns to the innermost frame of the running stack.
Return(c) ==
    /\ frames[c][cpu[c]] # <<>>
    /\ Goto(c, Head(frames[c][cpu[c]]))
    /\ frames' = [frames EXCEPT ![c][cpu[c]] = Tail(@)]

SetPreempt_Bug(c, n) ==
    preempt_count' = [preempt_count EXCEPT ![c][current[c]] =
                        IF n = 1 THEN @ + 1 ELSE @ - 1]

SetPreempt(c, n) ==
    preempt_count' = [preempt_count EXCEPT ![c][current[c]] = n]

\* A panic() or a failed demand(): clean_reboot() ends this boot.
Panic == up' = FALSE

\* How many timer handlers are suspended on the stack the core uses.
Nest(c) ==
    LET f == frames[c][cpu[c]]
    IN  Cardinality({i \in DOMAIN f : f[i] = "tickret"})
          + (IF pc[c] = "tickret" THEN 1 ELSE 0)

Init ==
    /\ state = [c \in Cores |-> [t \in Tasks |-> TASK_ZOMBIE]]
    /\ preempt_count = [c \in Cores |-> [t \in Tasks |-> 0]]
    /\ next = [c \in Cores |-> [t \in Tasks |-> NULL]]
    /\ previous = [c \in Cores |-> [t \in Tasks |-> NULL]]
    /\ ctx = [c \in Cores |-> [t \in Tasks |-> "none"]]
    /\ frames = [c \in Cores |-> [t \in Tasks |-> <<>>]]
    /\ current = [c \in Cores |-> NULL]
    /\ tasks_num = [c \in Cores |-> 0]
    /\ cpu = [c \in Cores |-> Main]
    /\ pc = [c \in Cores |-> IF c = CORE0 THEN "forks" ELSE "wfe"]
    /\ temp = [c \in Cores |-> NULL]
    /\ timerInt = [c \in Cores |-> TRUE]  \* register_irq_handler did it
    /\ armed = [c \in Cores |-> EarlyTick]
    /\ mail = [c \in Cores |-> FALSE]
    /\ target = NoTask
    /\ todo = Forks[1]
    /\ round = 1
    /\ up = TRUE
    /\ early = {}

--------------------------------------------------------------------------------
(* The timer interrupt: el1_irq, irq_handler, core_timer_clearer and       *)
(* scheduler_tick.  A tick that finds preempt_count # 0 returns at once and *)
(* changes nothing here, and so does one that finds current NULL.          *)

Preemptible_Bug(c) == current[c] # NULL

Preemptible(c) == current[c] # NULL /\ preempt_count[c][current[c]] = 0

Tick(c) ==
    /\ up
    /\ timerInt[c] /\ armed[c]
    /\ Preemptible(c)
    /\ Nest(c) < MaxNest
    /\ CallSchedule(c, <<"tickret", pc[c]>>)
    /\ UNCHANGED <<state, preempt_count, next, previous, ctx, coreVars, cpu,
                   temp, timerVars, progVars>>

\* schedule() came back: disable_irq, then kernel_exit and eret.
TickReturn(c) ==
    /\ At(c, "tickret")
    /\ Return(c)
    /\ UNCHANGED <<state, preempt_count, next, previous, ctx, coreVars, cpu,
                   temp, timerVars, progVars>>

--------------------------------------------------------------------------------
(* schedule() and switch_to(). *)

ScanStart_Bug(c) == Main

\* The scan starts at the current task, which is what makes it round-robin.
ScanStart(c) == current[c]

\* preempt_disable(), and the scan begins.
Schedule(c) ==
    /\ At(c, "sched")
    /\ SetPreempt(c, 1)
    /\ temp' = [temp EXCEPT ![c] = ScanStart(c)]
    /\ Goto(c, "scan")
    /\ UNCHANGED <<state, next, previous, ctx, frames, coreVars, cpu,
                   timerVars, progVars>>

\* temp = temp->next; running off the end of the list finds nobody.
ScanNext(c) ==
    /\ At(c, "scan")
    /\ \/ /\ temp[c] # NULL
          /\ state[c][temp[c]] # TASK_READY
          /\ temp' = [temp EXCEPT ![c] = next[c][temp[c]]]
          /\ UNCHANGED pc
       \/ /\ temp[c] = NULL
          /\ Goto(c, "resume")
          /\ UNCHANGED temp
    /\ UNCHANGED <<tableVars, coreVars, cpu, timerVars, progVars>>

Demoted_Bug(c) == state[c]

\* The states once current has given way: a dead task stays dead.
Demoted(c) ==
    IF state[c][current[c]] = TASK_ZOMBIE
    THEN state[c]
    ELSE [state[c] EXCEPT ![current[c]] = TASK_READY]

\* A READY task: it and current swap states, and switch_to() installs it.
ScanFound(c) ==
    /\ At(c, "scan")
    /\ temp[c] # NULL
    /\ state[c][temp[c]] = TASK_READY
    /\ state' = [state EXCEPT ![c] =
                    [Demoted(c) EXCEPT ![temp[c]] = TASK_RUNNING]]
    /\ current' = [current EXCEPT ![c] = temp[c]]
    /\ Goto(c, IF current[c] = temp[c] THEN "resume" ELSE "switch")
    /\ UNCHANGED <<preempt_count, next, previous, ctx, frames, tasks_num, cpu,
                   temp, timerVars, progVars>>

Saved_Bug(c) == ctx[c]

\* The callee-saved registers, sp and lr go to prev's cpu_context.
Saved(c) == [ctx[c] EXCEPT ![cpu[c]] = "resume"]

\* context_switch(prev, next): what it restores is stale from then on, and the
\* stack pointer that fork_task() set is the empty stack's.  The local temp stays
\* behind on the old stack, where nothing reads it again.  Bound: the temp of a
\* schedule() that a tick has entered a second time, which only a core in early
\* lets it do, is not kept; such a core is followed no further.
ContextSwitch(c) ==
    /\ At(c, "switch")
    /\ temp[c] # NULL
    /\ ctx' = [ctx EXCEPT ![c] = [Saved(c) EXCEPT ![temp[c]] = "none"]]
    /\ cpu' = [cpu EXCEPT ![c] = temp[c]]
    /\ temp' = [temp EXCEPT ![c] = NULL]
    /\ frames' = IF ctx[c][temp[c]] = "fork"
                 THEN [frames EXCEPT ![c][temp[c]] = <<>>] ELSE frames
    /\ Goto(c, IF ctx[c][temp[c]] = "fork" THEN "fork" ELSE "resume")
    /\ UNCHANGED <<state, preempt_count, next, previous, coreVars, timerVars,
                   progVars>>

\* schedule()'s closing preempt_enable() and its return.
ScheduleReturn(c) ==
    /\ At(c, "resume")
    /\ SetPreempt(c, 0)
    /\ temp' = [temp EXCEPT ![c] = NULL]
    /\ Return(c)
    /\ UNCHANGED <<state, next, previous, ctx, coreVars, cpu, timerVars,
                   progVars>>

--------------------------------------------------------------------------------
(* The life of a task: ret_from_fork, its function, exit_task(). *)

RetFromFork(c) ==
    /\ At(c, "fork")
    /\ SetPreempt(c, 0)
    /\ Goto(c, "body")
    /\ UNCHANGED <<state, next, previous, ctx, frames, coreVars, cpu, temp,
                   timerVars, progVars>>

\* Bound: a core that has counted more ends than forks is followed no further.
Followed(c) == tasks_num[c] > 0

\* The function returns into exit_task: preempt_disable() and TASK_ZOMBIE.
ExitTask(c) ==
    /\ At(c, "body")
    /\ Followed(c)
    /\ SetPreempt(c, 1)
    /\ state' = [state EXCEPT ![c][current[c]] = TASK_ZOMBIE]
    /\ Goto(c, "zombied")
    /\ UNCHANGED <<next, previous, ctx, frames, coreVars, cpu, temp, timerVars,
                   progVars>>

ExitCount(c) ==
    /\ At(c, "zombied")
    /\ tasks_num' = [tasks_num EXCEPT ![c] = @ - 1]
    /\ Goto(c, "counted")
    /\ UNCHANGED <<tableVars, current, cpu, temp, timerVars, progVars>>

\* current->next->previous = current->previous.  Here and below a write
\* through NULL misses the task table: EXCEPT at NULL changes nothing.
ExitUnlinkNext(c) ==
    /\ At(c, "counted")
    /\ LET t == current[c]
       IN  previous' = [previous EXCEPT ![c][next[c][t]] = previous[c][t]]
    /\ Goto(c, "unlinked")
    /\ UNCHANGED <<state, preempt_count, next, ctx, frames, coreVars, cpu, temp,
                   timerVars, progVars>>

\* current->previous->next = current->next, then schedule().  Were it ever to
\* return, ret_from_fork's branch would enter exit_task a second time.
ExitUnlinkPrevious(c) ==
    /\ At(c, "unlinked")
    /\ LET t == current[c]
       IN  next' = [next EXCEPT ![c][previous[c][t]] = next[c][t]]
    /\ CallSchedule(c, <<"body">>)
    /\ UNCHANGED <<state, preempt_count, previous, ctx, coreVars, cpu, temp,
                   timerVars, progVars>>

--------------------------------------------------------------------------------
(* The program of core 0: fork_task() for each task of the round. *)

Full_Bug(c) == tasks_num[c] >= NR_TASKS - 1

\* "max threads reached"
Full(c) == tasks_num[c] >= NR_TASKS

\* c has left thread.c, and will not enter it before the next threading_init().
Asleep(c) == pc[c] = "wfe" /\ ~mail[c]

\* Core 0 begins to fork for a core that does not sleep.  That one that does stays
\* asleep for the rest of the round's forks is left to the code.
TooEarly(c) == c # CORE0 /\ todo[c] = Forks[round][c] /\ ~Asleep(c)

FreeSlots(c) == {s \in Slots : state[c][s] = TASK_ZOMBIE}

\* The first ZOMBIE slot is reset, its saved context starts at ret_from_fork.  Of
\* its stack only the pointer is reset: context_switch() will load it.
ForkTask(c) ==
    /\ At(CORE0, "forks")
    /\ todo[c] > 0
    /\ ~Full(c)
    /\ \E p \in FreeSlots(c) :
        /\ \A s \in FreeSlots(c) : p <= s
        /\ target' = <<c, p>>
        /\ state' = [state EXCEPT ![c][p] = TASK_READY]
        /\ preempt_count' = [preempt_count EXCEPT ![c][p] = 1]
        /\ next' = [next EXCEPT ![c][p] = NULL]
        /\ previous' = [previous EXCEPT ![c][p] = NULL]
        /\ ctx' = [ctx EXCEPT ![c][p] = "fork"]
    /\ todo' = [todo EXCEPT ![c] = @ - 1]
    /\ early' = IF TooEarly(c) THEN early \cup {c} ELSE early
    /\ Goto(CORE0, "link")
    /\ UNCHANGED <<frames, coreVars, cpu, temp, timerVars, round, up>>

\* Both ways fork_task() panics.
ForkPanic(c) ==
    /\ At(CORE0, "forks")
    /\ todo[c] > 0
    /\ Full(c) \/ FreeSlots(c) = {}
    /\ Panic
    /\ UNCHANGED <<tableVars, coreVars, cpuVars, timerVars, target, todo, round,
                   early>>

\* The first task of a core forms a ring with main, and main is counted.
LinkFirst(c, p) ==
    /\ At(CORE0, "link")
    /\ target = <<c, p>>
    /\ tasks_num[c] = 0
    /\ next' = [next EXCEPT ![c] = [@ EXCEPT ![Main] = p, ![p] = Main]]
    /\ previous' = [previous EXCEPT ![c] = [@ EXCEPT ![Main] = p, ![p] = Main]]
    /\ current' = [current EXCEPT ![c] = Main]
    /\ tasks_num' = [tasks_num EXCEPT ![c] = 1]
    /\ Goto(CORE0, "count")
    /\ UNCHANGED <<state, preempt_count, ctx, frames, cpu, temp, timerVars,
                   progVars>>

\* Any other goes between current and q == current->next.
LinkNext(c, p) ==
    /\ At(CORE0, "link")
    /\ target = <<c, p>>
    /\ tasks_num[c] # 0
    /\ next' = [next EXCEPT ![c] =
                  [@ EXCEPT ![current[c]] = p, ![p] = next[c][current[c]]]]
    /\ Goto(CORE0, "link2")
    /\ UNCHANGED <<state, preempt_count, previous, ctx, frames, coreVars, cpu,
                   temp, timerVars, progVars>>

BackLinks_Bug(c, p) == [previous[c] EXCEPT ![p] = current[c]]

\* q->previous = p, p->previous = current
BackLinks(c, p) == [previous[c] EXCEPT ![next[c][p]] = p, ![p] = current[c]]

LinkPrevious(c, p) ==
    /\ At(CORE0, "link2")
    /\ target = <<c, p>>
    /\ previous' = [previous EXCEPT ![c] = BackLinks(c, p)]
    /\ Goto(CORE0, "count")
    /\ UNCHANGED <<state, preempt_count, next, ctx, frames, coreVars, cpu, temp,
                   timerVars, progVars>>

ForkCount(c) ==
    /\ At(CORE0, "count")
    /\ target[1] = c
    /\ tasks_num' = [tasks_num EXCEPT ![c] = @ + 1]
    /\ target' = NoTask
    /\ Goto(CORE0, "forks")
    /\ UNCHANGED <<tableVars, current, cpu, temp, timerVars, todo, round, up,
                   early>>

--------------------------------------------------------------------------------
(* threading_init() and secondary_cores_threading_init(). *)

ThreadingInit ==
    /\ At(CORE0, "forks")
    /\ \A c \in Cores : todo[c] = 0
    /\ timerInt' = [timerInt EXCEPT ![CORE0] = TRUE]
    /\ Goto(CORE0, "kick")
    /\ UNCHANGED <<tableVars, coreVars, cpu, temp, armed, mail, progVars>>

Posted == [c \in Cores |-> c # CORE0]

\* The three mailbox writes and WAKE_CORES.
KickCores ==
    /\ At(CORE0, "kick")
    /\ mail' = Posted
    /\ Goto(CORE0, "start")
    /\ UNCHANGED <<tableVars, coreVars, cpu, temp, timerInt, armed, progVars>>

\* WAIT_UNTIL_EVENT: a mail takes the core out of wfe and is cleared.
Wake(c) ==
    /\ At(c, "wfe")
    /\ mail[c]
    /\ mail' = [mail EXCEPT ![c] = FALSE]
    /\ Goto(c, "entry")
    /\ UNCHANGED <<tableVars, coreVars, cpu, temp, timerInt, armed, progVars>>

NothingForked(c) == tasks_num[c] = 0

\* A core nobody forked for goes back to sleep.
SecondaryInit(c) ==
    /\ At(c, "entry")
    /\ IF NothingForked(c)
       THEN Goto(c, "wfe") /\ UNCHANGED timerInt
       ELSE Goto(c, "start") /\ timerInt' = [timerInt EXCEPT ![c] = TRUE]
    /\ UNCHANGED <<tableVars, coreVars, cpu, temp, armed, mail, progVars>>

Started_Bug(c) == state[c]

Started(c) == [state[c] EXCEPT ![current[c]] = TASK_RUNNING]

\* main becomes a task like the others.
StartMain(c) ==
    /\ At(c, "start")
    /\ state' = [state EXCEPT ![c] = Started(c)]
    /\ Goto(c, "arm")
    /\ UNCHANGED <<preempt_count, next, previous, ctx, frames, coreVars, cpu,
                   temp, timerVars, progVars>>

\* SET_CORE_TIMER(TIMER_INT_PERIOD)
ArmTimer(c) ==
    /\ At(c, "arm")
    /\ armed' = [armed EXCEPT ![c] = TRUE]
    /\ Goto(c, IF c = CORE0 THEN "started" ELSE "join")
    /\ UNCHANGED <<tableVars, coreVars, cpu, temp, timerInt, mail, progVars>>

--------------------------------------------------------------------------------
(* join_task(), join_all_core_tasks() and join_all(). *)

\* The program may wait for single tasks before it waits for all of them.
StartJoin ==
    /\ At(CORE0, "started")
    /\ \/ /\ \E p \in JoinTargets : target' = p
          /\ Goto(CORE0, "joinT")
       \/ /\ Goto(CORE0, "join")
          /\ UNCHANGED target
    /\ UNCHANGED <<tableVars, coreVars, cpu, temp, timerVars, todo, round, up,
                   early>>

JoinTask ==
    /\ At(CORE0, "joinT")
    /\ IF state[target[1]][target[2]] # TASK_ZOMBIE
       THEN /\ CallSchedule(CORE0, <<"joinT">>)
            /\ UNCHANGED target
       ELSE Goto(CORE0, "join") /\ target' = NoTask /\ UNCHANGED frames
    /\ UNCHANGED <<state, preempt_count, next, previous, ctx, coreVars, cpu,
                   temp, timerVars, todo, round, up, early>>

MustWait_Bug(c) == tasks_num[c] > 1
MustWait_Bug2(c) ==
    \/ tasks_num[c] > 1
    \/ c = CORE0 /\ \E d \in Cores \ {CORE0} : tasks_num[d] # 0

\* The loop condition of join_all() on core 0, join_all_core_tasks() elsewhere.
MustWait(c) ==
    \/ tasks_num[c] > 1
    \/ c = CORE0 /\ \E d \in Cores \ {CORE0} : tasks_num[d] # 1

JoinAll(c) ==
    /\ At(c, "join")
    /\ IF MustWait(c)
       THEN CallSchedule(c, <<"join">>)
       ELSE Goto(c, "leave") /\ UNCHANGED frames
    /\ UNCHANGED <<state, preempt_count, next, previous, ctx, coreVars, cpu,
                   temp, timerVars, progVars>>

TimerOff_Bug(c) == timerInt

TimerOff(c) == [timerInt EXCEPT ![c] = FALSE]

\* disable_core_timer_int() behind either loop.
JoinLeave(c) ==
    /\ At(c, "leave")
    /\ timerInt' = TimerOff(c)
    /\ Goto(c, IF c = CORE0 THEN "rest" ELSE "demand")
    /\ UNCHANGED <<tableVars, coreVars, cpu, temp, armed, mail, progVars>>

\* A secondary core sleeps again, if its main is the only task left.
SleepAgain(c) ==
    /\ At(c, "demand")
    /\ IF tasks_num[c] = 1
       THEN Goto(c, "wfe") /\ UNCHANGED up
       ELSE Panic /\ UNCHANGED pc
    /\ UNCHANGED <<tableVars, coreVars, cpu, temp, timerVars, target, todo,
                   round, early>>

\* The program reuses the threads, or ends in its while(1).  What it does in
\* between, printing and waiting for a key, does not wait for the other cores:
\* they may still be on their way to sleep, or in a scan that never ends.
NextRound ==
    /\ At(CORE0, "rest")
    /\ IF round < Rounds
       THEN /\ todo' = Forks[round + 1]
            /\ round' = round + 1
            /\ Goto(CORE0, "forks")
       ELSE Goto(CORE0, "halt") /\ UNCHANGED <<todo, round>>
    /\ UNCHANGED <<tableVars, coreVars, cpu, temp, timerVars, target, up,
                   early>>

--------------------------------------------------------------------------------
(* The steps the code of core c takes by itself, its tasks' functions aside. *)
Step(c) ==
    \/ TickReturn(c)
    \/ Schedule(c)
    \/ ScanNext(c)
    \/ ScanFound(c)
    \/ ContextSwitch(c)
    \/ ScheduleReturn(c)
    \/ RetFromFork(c)
    \/ ExitCount(c)
    \/ ExitUnlinkNext(c)
    \/ ExitUnlinkPrevious(c)
    \/ Wake(c)
    \/ SecondaryInit(c)
    \/ StartMain(c)
    \/ ArmTimer(c)
    \/ JoinAll(c)
    \/ JoinLeave(c)
    \/ SleepAgain(c)

Fork(c) ==
    \/ ForkTask(c)
    \/ ForkPanic(c)
    \/ \E p \in Tasks : LinkFirst(c, p) \/ LinkNext(c, p) \/ LinkPrevious(c, p)
    \/ ForkCount(c)

Program ==
    \/ \E c \in Cores : Fork(c)
    \/ ThreadingInit
    \/ KickCores
    \/ StartJoin
    \/ JoinTask
    \/ NextRound

\* The board reboots, or the program has ended and everybody idles.
Stopped ==
    /\ \/ ~up
       \/ /\ pc[CORE0] = "halt"
          /\ \A c \in Cores \ {CORE0} : Asleep(c) \/ c \in early
    /\ UNCHANGED vars

Next ==
    \/ \E c \in Cores : Step(c) \/ Tick(c) \/ ExitTask(c)
    \/ Program
    \/ Stopped

Spec == Init /\ [][Next]_vars

\* Every core executes its next instruction sooner or later.  Nothing is asked
\* of the timer or of the functions of tasks.
FairSpec ==
    /\ Spec
    /\ \A c \in Cores : WF_vars(Step(c))
    /\ WF_vars(Program)

\* A task that gets the core again and again gets out of the timer handler it is
\* in, not ticked in it every time: the period is many times as long.
HandlersReturn(c, t) ==
    SF_vars(cpu[c] = t /\ Nest(c) = 1 /\ (Schedule(c) \/ TickReturn(c)))

\* Its function then returns some day.
FunctionsReturn ==
    \A c \in Cores : \A t \in Slots :
        HandlersReturn(c, t) /\ SF_vars(cpu[c] = t /\ ExitTask(c))

\* The timer does interrupt a function that runs on and on.
TimerInterrupts == \A c \in Cores : SF_vars(pc[c] = "body" /\ Tick(c))

--------------------------------------------------------------------------------
(* Correctness.  The cores in early are left out where the code promises      *)
(* nothing of them: a fork that overlaps what the core still does spoils its *)
(* table, as IdleCoresSleep shows.  No other core, core 0 included, suffers. *)

\* Labels of the code that relies on ticks leaving it alone.
Critical == {"scan", "switch", "resume", "fork"} \cup ExitLabels

Live(c) == {t \in Tasks : state[c][t] # TASK_ZOMBIE}

\* preempt_disable() of schedule() and exit_task() covers the whole section in
\* spite of every tick and of every switch to another task's count, and a task
\* off the cpu keeps the count it will leave schedule() or fork with.
CriticalSectionsClosed ==
    \A c \in Cores \ early :
        /\ pc[c] \in Critical /\ current[c] # NULL =>
             preempt_count[c][current[c]] = 1
        /\ \A t \in Live(c) \ {current[c]} : preempt_count[c][t] = 1

\* switch_to() and context_switch() agree on who runs: outside the switch the
\* stack in use is current's, and no other task is RUNNING.
OneRunning ==
    \A c \in Cores \ early :
        /\ current[c] \notin {NULL, cpu[c]} => pc[c] = "switch"
        /\ \A t \in Tasks : state[c][t] = TASK_RUNNING => t = current[c]

\* Whoever schedule() may pick has a context that is worth restoring.
ReadyIsResumable ==
    \A c \in Cores \ early : \A t \in Tasks :
        state[c][t] = TASK_READY /\ ~(pc[c] = "switch" /\ t = cpu[c])
            => ctx[c][t] # "none"

\* An exiting task always finds somebody: while another task is current, main
\* is READY, so exit_task() never returns into a dead task.
MainSchedulable ==
    \A c \in Cores \ early :
        current[c] \notin {NULL, Main} => state[c][Main] = TASK_READY

\* The tasks found on the way from main along next.
Ring(c) ==
    {t \in Tasks : \A S \in SUBSET Tasks :
        Main \in S /\ (\A u \in S : next[c][u] \in S \cup {NULL}) => t \in S}

\* Nobody is between the list operations of fork_task() or exit_task() on c.
Settled(c) ==
    /\ tasks_num[c] > 0
    /\ pc[c] \notin ExitLabels
    /\ ~(pc[CORE0] \in {"link", "link2", "count"} /\ target[1] = c)

\* The circular list, the states and tasks_num tell the same story, and the
\* task that runs schedule(), dead or not, still leads into the list.
RingWellFormed ==
    \A c \in Cores \ early : Settled(c) =>
        /\ Ring(c) = {Main} \cup Live(c)
        /\ \A t \in Ring(c) : previous[c][next[c][t]] = t
        /\ Cardinality(Ring(c)) = tasks_num[c]
        /\ next[c][current[c]] \in Ring(c)

\* Neither fork_task()'s panics nor the demand() of a core that goes to sleep
\* end the boot, unless the program forks more tasks than there are slots, or
\* forks too early: a slot that was given back is always found again, and a core
\* that leaves its join has no task.
RebootsOnlyWhenFull ==
    ~up => \/ early # {}
           \/ \E c \in Cores : Forks[round][c] >= NR_TASKS /\ Ring(c) = Tasks

\* fork_task() never resets a slot whose task still uses its stack: not on core
\* 0, which may overtake the others, nor on a core that slept when the round's
\* forks for it began.  No tick and no old mail makes such a core run before the
\* last of them.
NoLiveStackReset ==
    [][\A c \in Cores \ early' : \A s \in Slots :
         ctx'[c][s] = "fork" /\ ctx[c][s] # "fork" => cpu[c] # s]_vars

\* The demand() of thread.c:172: no core goes to sleep that is not idle.
IdleCoresSleep == \A c \in Cores : pc[c] = "demand" => tasks_num[c] = 1

\* If functions return, every task of a core that has been woken finishes,
\* wherever the ticks land, although main itself may end up in a scan that never
\* ends; unless the board reboots before.
EveryTaskFinishes ==
    FunctionsReturn =>
        \A c \in Cores : \A s \in Slots :
            pc[c] # "wfe" /\ state[c][s] = TASK_READY
                ~> state[c][s] = TASK_ZOMBIE \/ c \in early \/ ~up

\* A READY task, main included, gets the core although no function returns: the
\* timer alone makes the scheduler go round.
NoStarvation ==
    TimerInterrupts =>
        \A c \in Cores : \A t \in Tasks :
            pc[c] # "wfe" /\ state[c][t] = TASK_READY
                ~> state[c][t] = TASK_RUNNING \/ c \in early \/ ~up

\* The label main stands at, looked up on its stack while schedule() runs.
MainAt(c) ==
    LET f == frames[c][Main] IN IF f = <<>> THEN pc[c] ELSE f[Len(f)]

\* What the programs rely on: join_all() comes back.
JoinAllReturns ==
    FunctionsReturn => (MainAt(CORE0) = "join" ~> pc[CORE0] = "rest")

\* Once every task has finished and every other core sleeps again, the condition
\* of join_all() no longer holds it back.
JoinAllMayEnd ==
    /\ pc[CORE0] = "join"
    /\ \A c \in Cores : \A s \in Slots : state[c][s] = TASK_ZOMBIE
    /\ \A c \in Cores \ {CORE0} : Asleep(c)
    => ~MustWait(CORE0)
================================================================================
