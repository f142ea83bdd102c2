------------------------------- MODULE ThreadsInv -------------------------------
(* The inductive invariant of Threads, for programs that fork a task again  *)
(* only when it is over.                                                    *)
EXTENDS Threads

--------------------------------------------------------------------------------
(* What the programs must do: thread.c checks none of it. *)

Does(u, k, op, t) == k \in DOMAIN Program[u] /\ Program[u][k].op = op /\ Program[u][k].p = t

\* u, which comes to its n-th call, has forked t and not joined it since.
Outstanding(u, t, n) ==
    \E k \in 1 .. n - 1 :
        /\ Does(u, k, "fork", t)
        /\ \A m \in k + 1 .. n - 1 : ~Does(u, m, "join", t)

\* A task_struct belongs to one function, which joins the task before it uses the
\* structure again and, if it returns, before that.
ForksAreJoined ==
    /\ \A t \in Tasks, u, v \in Tasks :
         \A k \in DOMAIN Program[u], l \in DOMAIN Program[v] :
            Does(u, k, "fork", t) /\ Does(v, l, "fork", t) => u = v
    /\ \A t, u \in Tasks : \A n \in DOMAIN Program[u] :
         Does(u, n, "fork", t) => ~Outstanding(u, t, n)
    /\ \A t \in Tasks, u \in Tasks \ Endless : ~Outstanding(u, t, Len(Program[u]) + 1)

--------------------------------------------------------------------------------
(* Where the tasks are. *)

Base     == {"run", "start"} \cup ForkLabels \cup ExitLabels
Breaks   == {"run", "disable", "exit"}          \* where a tick finds a function
Handlers == {"sched", "nopreempt", "tickret"}   \* and where one finds a handler
Locked   == {"stack", "link", "enable", "scan", "switch", "resume", "start",
             "zombie", "unlink"}

\* The label of t's function.
Place(t) == IF frames[t] # <<>> THEN frames[t][Len(frames[t])]
            ELSE IF t = cpu THEN pc ELSE "start"

\* The labels of a stack, from the innermost handler out to the function.
Framed(f) == \A i \in 1 .. Len(f) : f[i] \in IF i = Len(f) THEN Breaks ELSE Handlers

FramesOK ==
    /\ \A t \in Tasks : Framed(frames[t])
    /\ frames[cpu] = <<>> <=> pc \in Base

PlacesOK ==
    \A t \in Tasks :
        /\ at[t] \in 1 .. Len(Program[t]) + 1
        /\ Place(t) \in ForkLabels =>
             /\ ring # <<>>
             /\ at[t] \in DOMAIN Program[t] /\ Program[t][at[t]].op = "fork"
        /\ Place(t) \in ExitLabels => t \notin Endless /\ at[t] = Len(Program[t]) + 1

\* One task runs; a task that ends is a zombie from its kfree() to the switch.
StatesOK ==
    /\ state[current] \in {"running", "zombie"} /\ Live(Main)
    /\ \A t \in Tasks \ {current} : state[t] # "running"
    /\ state[current] = "zombie" => pc \in ExitLabels \cup {"sched", "nopreempt", "scan"}
    /\ IF pc = "switch" THEN cpu # current /\ state[cpu] \in {"ready", "zombie"}
       ELSE cpu = current
    /\ pc = "unlink" => state[current] = "zombie"
    /\ state[cpu] = "zombie" =>
         /\ pc \in {"sched", "nopreempt", "scan", "switch"} => frames[cpu] = <<"exit">>
         /\ pc \in {"exit", "zombie"} => ring = <<Main>>

PreemptOK ==
    /\ preempt_count[current] = IF pc \in Locked \/ state[current] = "zombie" THEN 1 ELSE 0
    /\ pc = "switch" => preempt_count[cpu] = 1
    /\ \A t \in Tasks : Live(t) /\ t # cpu =>
         /\ preempt_count[t] = 1
         /\ ctx[t] = IF frames[t] = <<>> THEN "fork" ELSE "resume"

\* s has no task twice.
Once(s) == \A i, j \in DOMAIN s : s[i] = s[j] => i = j

RingOK ==
    /\ Once(ring)
    /\ ring # <<>> => \A t \in Tasks :
         InRing(t) <=> \/ Live(t) /\ ~(pc = "link" /\ t = Operand)
                       \/ pc = "unlink" /\ t = current
    /\ ring = <<>> => \A t \in Tasks \ {Main} : state[t] = "unused"
    /\ pc = "link" => state[Operand] = "ready"
    /\ ring # <<>> /\ (state[current] # "zombie" \/ pc = "unlink") => Head(ring) = current

\* The task that forked t and is yet to join it.
OwnersOK ==
    \A t \in Tasks \ {Main} : Live(t) =>
        \E u \in Tasks :
            /\ Live(u)
            /\ \/ Outstanding(u, t, at[u])
               \/ u = cpu /\ pc \in {"link", "enable"} /\ Does(u, at[u], "fork", t)

StacksOK ==
    /\ \A t \in Tasks \ {Main} : Live(t) => stack_start[t] \in held
    /\ \A t, u \in Tasks \ {Main} :
         Live(t) /\ Live(u) /\ stack_start[t] = stack_start[u] => t = u
    /\ state[cpu] = "zombie" => stack_start[cpu] \notin held

\* The callers that passed the check of NR_TASKS and have not linked their task.
Late == {t \in Tasks : Live(t) /\ Place(t) \in {"disable", "stack", "link"}}

RoomOK == Len(ring) + Cardinality(Late) <= NR_TASKS + Cardinality(Forkers) - 1

IInv == /\ TypeOK /\ FramesOK /\ PlacesOK /\ StatesOK /\ PreemptOK
        /\ RingOK /\ OwnersOK /\ StacksOK /\ (ring # <<>> => RoomOK)
================================================================================
