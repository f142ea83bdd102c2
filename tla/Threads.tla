-------------------------------- MODULE Threads --------------------------------
(***************************************************************************)
(* The preemptive threads of libpi on one core (thread.c, thread_asm.s,    *)
(* the circular list of linkedlist.c) under a program that forks and       *)
(* joins.  A task_struct belongs to the program; its stack is a heap block *)
(* that exit_task() frees while it still runs on it.                       *)
(*                                                                         *)
(* pc is the label of the CPU's next step, on the stack of task cpu.  A    *)
(* step is one access that a timer tick can tell from the next, or a piece *)
(* of code that runs with preempt_count set.                               *)
(*                                                                         *)
(* A definition whose name ends in _Bug is a faulty variant of the one it   *)
(* precedes, not a part of the model.                                      *)
(***************************************************************************)
EXTENDS Naturals, Sequences, FiniteSets

CONSTANTS
    Tasks,      \* the task_structs
    Main,       \* main_task
    Program,    \* Program[t]: the calls of t's function, then it returns
    Endless,    \* the tasks whose function does not return
    Stacks,     \* the addresses kmalloc(THREAD_SIZE) can return
    NULL,
    NR_TASKS,
    MaxNest     \* bound: timer handlers live on one stack

Calls == [op : {"fork", "join"}, p : Tasks \ {Main}]
           \cup [op : {"yield", "timer"}, p : {Main}]

ASSUME TasksAssumption ==
    IsFiniteSet(Tasks) /\ Main \in Endless /\ Endless \subseteq Tasks
ASSUME ProgramAssumption == Program \in [Tasks -> Seq(Calls)]
ASSUME NULLAssumption == Stacks \subseteq Nat /\ NULL \notin Stacks
ASSUME BoundsAssumption == NR_TASKS \in Nat \ {0} /\ MaxNest \in Nat

VARIABLES
    state, preempt_count, stack_start,  \* struct task_struct
    ctx,        \* cpu_context: "none", "fork", or "resume" in schedule()
    frames,     \* the labels a task's stack returns to, innermost first
    at,         \* the call of its function a task comes to next
    ring,       \* the tasks on the circular list, from entry.next on
    current,    \* the task thread.c takes for the running one
    cpu, pc,    \* the task on the CPU, and the label it is at
    held,       \* the stacks that are allocated
    ticking,    \* the timer has been started
    up          \* FALSE once a panic() or demand() reboots the board

taskVars == <<state, preempt_count, stack_start, ctx, frames, at>>
vars == <<taskVars, ring, current, cpu, pc, held, ticking, up>>

ForkLabels  == {"disable", "stack", "link", "enable"}
SchedLabels == {"sched", "nopreempt", "scan", "switch", "resume", "tickret"}
ExitLabels  == {"exit", "zombie", "unlink"}
Labels == {"run", "start"} \cup ForkLabels \cup SchedLabels \cup ExitLabels

TypeOK ==
    /\ state \in [Tasks -> {"unused", "ready", "running", "zombie"}]
    /\ preempt_count \in [Tasks -> 0 .. 1]
    /\ stack_start \in [Tasks -> Stacks \cup {NULL}]
    /\ ctx \in [Tasks -> {"none", "fork", "resume"}]
    /\ frames \in [Tasks -> Seq(Labels)]
    /\ at \in [Tasks -> Nat]
    /\ ring \in Seq(Tasks)
    /\ current \in Tasks /\ cpu \in Tasks /\ pc \in Labels
    /\ held \subseteq Stacks
    /\ ticking \in BOOLEAN /\ up \in BOOLEAN

--------------------------------------------------------------------------------
(* Control. *)

At(l) == up /\ pc = l

\* t is at a call of op in its function.
AtCall(t, op) ==
    /\ At("run")
    /\ cpu = t
    /\ at[t] \in DOMAIN Program[t]
    /\ Program[t][at[t]].op = op

Operand == Program[cpu][at[cpu]].p
Advance == at' = [at EXCEPT ![cpu] = @ + 1]

SetPreempt(n) == preempt_count' = [preempt_count EXCEPT ![current] = n]

\* Pushes return labels on the running stack and enters schedule().
CallSchedule(returns) ==
    /\ frames' = [frames EXCEPT ![cpu] = returns \o @]
    /\ pc' = "sched"

Return ==
    /\ pc' = Head(frames[cpu])
    /\ frames' = [frames EXCEPT ![cpu] = Tail(@)]

\* A panic() or a failed demand(): clean_reboot().
Panic == up' = FALSE /\ UNCHANGED <<taskVars, ring, current, cpu, pc, held,
                                    ticking>>

Nest == Cardinality({i \in DOMAIN frames[cpu] : frames[cpu][i] = "tickret"})
          + (IF pc = "tickret" THEN 1 ELSE 0)

Init ==
    /\ state = [t \in Tasks |-> IF t = Main THEN "running" ELSE "unused"]
    /\ preempt_count = [t \in Tasks |-> 0]
    /\ stack_start = [t \in Tasks |-> NULL]
    /\ ctx = [t \in Tasks |-> "none"]
    /\ frames = [t \in Tasks |-> <<>>]
    /\ at = [t \in Tasks |-> 1]
    /\ ring = <<>>
    /\ current = Main /\ cpu = Main /\ pc = "run"
    /\ held = {}
    /\ ticking = FALSE /\ up = TRUE

--------------------------------------------------------------------------------
(* The circular list. *)

AddCircular_Bug(p) == <<p>> \o ring

\* The new node goes behind the entry.
AddCircular(p) == IF ring = <<>> THEN <<p>> ELSE <<Head(ring), p>> \o Tail(ring)

\* remove_circular() of the node that entry.next points to.
RemoveEntry == Tail(ring)

From_Bug(i) == ring

\* The list read from its i-th node on.
From(i) == SubSeq(ring, i, Len(ring)) \o SubSeq(ring, 1, i - 1)

\* The nodes at which schedule()'s loop stops.
FirstReady == {i \in DOMAIN ring :
                 /\ state[ring[i]] = "ready"
                 /\ \A j \in 1 .. i - 1 : state[ring[j]] # "ready"}

--------------------------------------------------------------------------------
(* The timer interrupt and schedule(). *)

Preemptible == preempt_count[current] = 0

\* scheduler_tick() that finds preempt_count # 0 returns and is no step here.
Tick ==
    /\ up /\ ticking
    /\ Preemptible
    /\ Nest < MaxNest
    /\ CallSchedule(<<"tickret", pc>>)
    /\ UNCHANGED <<state, preempt_count, stack_start, ctx, at, ring, current,
                   cpu, held, ticking, up>>

TickReturn ==
    /\ At("tickret")
    /\ Return
    /\ UNCHANGED <<state, preempt_count, stack_start, ctx, at, ring, current,
                   cpu, held, ticking, up>>

Alone_Bug == Len(ring) <= 2

\* Only the init task is on the list.
Alone == Len(ring) = 1

Schedule ==
    /\ At("sched")
    /\ \/ Alone /\ Return
       \/ ~Alone /\ pc' = "nopreempt" /\ UNCHANGED frames
    /\ UNCHANGED <<state, preempt_count, stack_start, ctx, at, ring, current,
                   cpu, held, ticking, up>>

PreemptDisable ==
    /\ At("nopreempt")
    /\ SetPreempt(1)
    /\ pc' = "scan"
    /\ UNCHANGED <<state, stack_start, ctx, frames, at, ring, current, cpu,
                   held, ticking, up>>

Demoted_Bug == [state EXCEPT ![current] = "ready"]

Demoted == IF state[current] = "zombie" THEN state
           ELSE [state EXCEPT ![current] = "ready"]

\* The first READY node becomes the entry and its task current.
Scan ==
    /\ At("scan")
    /\ \/ /\ FirstReady = {}
          /\ pc' = "resume"
          /\ UNCHANGED <<state, ring, current>>
       \/ \E i \in FirstReady :
            /\ state' = [Demoted EXCEPT ![ring[i]] = "running"]
            /\ ring' = From(i)
            /\ current' = ring[i]
            /\ pc' = IF current = ring[i] THEN "resume" ELSE "switch"
    /\ UNCHANGED <<preempt_count, stack_start, ctx, frames, at, cpu, held,
                   ticking, up>>

ContextSwitch ==
    /\ At("switch")
    /\ ctx' = [ctx EXCEPT ![cpu] = "resume", ![current] = "none"]
    /\ cpu' = current
    /\ pc' = IF ctx[current] = "fork" THEN "start" ELSE "resume"
    /\ UNCHANGED <<state, preempt_count, stack_start, frames, at, ring, current,
                   held, ticking, up>>

\* Either of schedule()'s closing preempt_enable()s.
ScheduleReturn ==
    /\ At("resume")
    /\ SetPreempt(0)
    /\ Return
    /\ UNCHANGED <<state, stack_start, ctx, at, ring, current, cpu, held,
                   ticking, up>>

--------------------------------------------------------------------------------
(* The calls of a function. *)

RetFromFork ==
    /\ At("start")
    /\ SetPreempt(0)
    /\ pc' = "run"
    /\ UNCHANGED <<state, stack_start, ctx, frames, at, ring, current, cpu,
                   held, ticking, up>>

\* The first fork_task() puts main on the list.
ThreadInit(t) ==
    /\ AtCall(t, "fork")
    /\ ring = <<>>
    /\ ring' = AddCircular(Main)
    /\ UNCHANGED <<taskVars, current, cpu, pc, held, ticking, up>>

Full == Len(ring) >= NR_TASKS

\* The bound is checked before preemption is off.
ForkTask(t) ==
    /\ AtCall(t, "fork")
    /\ ring # <<>>
    /\ \/ Full /\ Panic
       \/ /\ ~Full
          /\ pc' = "disable"
          /\ UNCHANGED <<taskVars, ring, current, cpu, held, ticking, up>>

ForkDisable ==
    /\ At("disable")
    /\ SetPreempt(1)
    /\ pc' = "stack"
    /\ UNCHANGED <<state, stack_start, ctx, frames, at, ring, current, cpu,
                   held, ticking, up>>

NewCount_Bug == 0

\* Preemption stays off until the thread starts.
NewCount == 1

\* Among holes of one size kmalloc() takes the lowest.
LowestHole == {s \in Stacks \ held : \A r \in Stacks \ held : s <= r}

ForkStack ==
    /\ At("stack")
    /\ \/ held = Stacks /\ Panic
       \/ \E s \in LowestHole :
            /\ held' = held \cup {s}
            /\ stack_start' = [stack_start EXCEPT ![Operand] = s]
            /\ state' = [state EXCEPT ![Operand] = "ready"]
            /\ preempt_count' = [preempt_count EXCEPT ![Operand] = NewCount]
            /\ ctx' = [ctx EXCEPT ![Operand] = "fork"]
            /\ frames' = [frames EXCEPT ![Operand] = <<>>]
            /\ at' = [at EXCEPT ![Operand] = 1]
            /\ pc' = "link"
            /\ UNCHANGED <<ring, current, cpu, ticking, up>>

ForkLink ==
    /\ At("link")
    /\ ring' = AddCircular(Operand)
    /\ pc' = "enable"
    /\ UNCHANGED <<taskVars, current, cpu, held, ticking, up>>

ForkEnable ==
    /\ At("enable")
    /\ SetPreempt(0)
    /\ Advance
    /\ pc' = "run"
    /\ UNCHANGED <<state, stack_start, ctx, frames, ring, current, cpu, held,
                   ticking, up>>

Joinable_Bug(t) == state[t] # "running"

Joinable(t) == state[t] = "zombie"

JoinTask(t) ==
    /\ AtCall(t, "join")
    /\ \/ /\ ~Joinable(Operand)
          /\ CallSchedule(<<"run">>)
          /\ UNCHANGED at
       \/ /\ Joinable(Operand)
          /\ Advance
          /\ UNCHANGED <<frames, pc>>
    /\ UNCHANGED <<state, preempt_count, stack_start, ctx, ring, current, cpu,
                   held, ticking, up>>

YieldTask(t) ==
    /\ AtCall(t, "yield")
    /\ Advance
    /\ CallSchedule(<<"run">>)
    /\ UNCHANGED <<state, preempt_count, stack_start, ctx, ring, current, cpu,
                   held, ticking, up>>

TimerInterruptInit(t) ==
    /\ AtCall(t, "timer")
    /\ Advance
    /\ ticking' = TRUE
    /\ UNCHANGED <<state, preempt_count, stack_start, ctx, frames, ring,
                   current, cpu, pc, held, up>>

\* The function returns to ret_from_fork, which branches to exit_task.
FunctionReturns(t) ==
    /\ At("run")
    /\ cpu = t
    /\ t \notin Endless
    /\ at[t] \notin DOMAIN Program[t]
    /\ pc' = "exit"
    /\ UNCHANGED <<taskVars, ring, current, cpu, held, ticking, up>>

ExitTask ==
    /\ At("exit")
    /\ SetPreempt(1)
    /\ pc' = "zombie"
    /\ UNCHANGED <<state, stack_start, ctx, frames, at, ring, current, cpu,
                   held, ticking, up>>

\* kfree() of a block that is not allocated fails its demand().
ExitFree ==
    /\ At("zombie")
    /\ \/ stack_start[current] \notin held /\ Panic
       \/ /\ stack_start[current] \in held
          /\ state' = [state EXCEPT ![current] = "zombie"]
          /\ held' = held \ {stack_start[current]}
          /\ pc' = "unlink"
          /\ UNCHANGED <<preempt_count, stack_start, ctx, frames, at, ring,
                         current, cpu, ticking, up>>

\* What schedule() would return to is the branch to exit_task.
ExitUnlink ==
    /\ At("unlink")
    /\ ring' = RemoveEntry
    /\ CallSchedule(<<"exit">>)
    /\ UNCHANGED <<state, preempt_count, stack_start, ctx, at, current, cpu,
                   held, ticking, up>>

--------------------------------------------------------------------------------
FunctionStep(t) ==
    \/ ThreadInit(t) \/ ForkTask(t) \/ JoinTask(t) \/ YieldTask(t)
    \/ TimerInterruptInit(t) \/ FunctionReturns(t)

CpuStep ==
    \/ TickReturn \/ Schedule \/ PreemptDisable \/ Scan \/ ContextSwitch
    \/ ScheduleReturn \/ RetFromFork
    \/ \E t \in Tasks : FunctionStep(t)
    \/ ForkDisable \/ ForkStack \/ ForkLink \/ ForkEnable
    \/ ExitTask \/ ExitFree \/ ExitUnlink

Next == Tick \/ CpuStep

Spec == Init /\ [][Next]_vars

\* A step of what the timer interrupted.
OutsideHandlers(t) == cpu = t /\ Nest = 0 /\ CpuStep

\* The CPU executes, the timer keeps interrupting, and its period leaves what
\* it interrupts time for a step now and then.
FairSpec ==
    /\ Spec
    /\ WF_vars(CpuStep)
    /\ \A t \in Tasks : SF_vars(OutsideHandlers(t))
    /\ SF_vars(Tick)

--------------------------------------------------------------------------------
(* Properties. *)

Live(t)   == state[t] \in {"ready", "running"}
InRing(t) == \E i \in DOMAIN ring : ring[i] = t
Count(t)  == Cardinality({i \in DOMAIN ring : ring[i] = t})
Forkers   == {t \in Tasks : \E i \in DOMAIN Program[t] : Program[t][i].op = "fork"}

\* Wherever a tick can strike, entry.next is the node of the running task, as
\* exit_task() takes for granted, and the list holds every live task once.
EntryIsCurrent ==
    Preemptible /\ ring # <<>> =>
        /\ Head(ring) = current
        /\ current = cpu
        /\ \A t \in Tasks :
             Count(t) = IF Live(t) THEN 1 ELSE 0

\* A task that waits for the CPU left it with preemption off and has a context
\* to come back to: no tick can come between the switch and its first step.
ReadyIsResumable ==
    \A t \in Tasks : state[t] = "ready" /\ t # cpu =>
        /\ preempt_count[t] = 1
        /\ ctx[t] # "none"

\* Freeing the stack it runs on does a dying task no harm: while it is on the
\* CPU nobody else gets the block, and the live tasks' blocks are their own.
StacksAreOwn ==
    \A t, u \in Tasks \ {Main} :
        /\ Live(t) => stack_start[t] \in held
        /\ Live(t) /\ (Live(u) \/ u = cpu) /\ t # u
             => stack_start[t] # stack_start[u]

\* Two callers may both pass the check of NR_TASKS before either links its
\* task; each caller exceeds the bound by one task at most.
LimitOvershoot == Len(ring) <= NR_TASKS + Cardinality(Forkers) - 1

\* The circular list at every step: no tick and no call, of whatever task, leaves
\* a node too many, one too few or the wrong one at its entry.
ListIsRight == TypeOK /\ EntryIsCurrent /\ LimitOvershoot

\* join_task() returns when the task it names is over, and not before.
JoinSound ==
    [][\A t \in Tasks :
         AtCall(t, "join") /\ at'[t] > at[t] =>
            state[Operand] = "zombie" /\ ~InRing(Operand)]_vars

\* The board reboots for want of room or memory: no task's stack is freed twice.
PanicsForAReason ==
    [][up /\ ~up' => \/ pc = "run" /\ Len(ring) >= NR_TASKS
                     \/ pc = "stack" /\ held = Stacks]_vars

\* exit_task() ends in a switch and "won't return ever": no task that is over runs on
\* into exit_task() once more, where it would free its stack a second time.
ExitNeverReturns == state[cpu] = "zombie" => pc \notin {"exit", "zombie"}

\* Every join of main comes back and every forked task whose function returns
\* ends, whatever functions loop: the tick alone makes the list go round.
ProgramEnds ==
    <>(~up \/ /\ at[Main] \notin DOMAIN Program[Main]
              /\ \A t \in Tasks \ Endless : ~Live(t))
================================================================================
