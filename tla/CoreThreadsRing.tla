----------------------------- MODULE CoreThreadsRing -----------------------------
(* The inductive invariant behind the circular lists and the rounds of        *)
(* CoreThreads, on top of CoreThreadsInv.                                      *)
EXTENDS CoreThreadsInv

\* b is the inverse of n on L, and n leads from main through all of L.
IsRing(L, n, b) ==
    /\ Main \in L
    /\ \A t \in L : n[t] \in L /\ b[t] \in L /\ b[n[t]] = t /\ n[b[t]] = t
    /\ \A S \in SUBSET L : Main \in S /\ (\A t \in S : n[t] \in S) => S = L

\* fork_task() is between the label l and the next one, for a task of core c.
Forking(c, l) == pc[CORE0] = l /\ target[1] = c

\* The tasks that next leads through: a task that exits leaves with the last of
\* its steps, one that is forked enters when current->next is written.
Linked(c) ==
    {t \in Tasks :
        /\ t = Main \/ t \in Live(c) \/ (pc[c] \in ExitLabels /\ t = current[c])
        /\ ~(Forking(c, "link") /\ t = target[2])}

\* previous, with the half of an operation that is still to come or already done.
Back(c) ==
    IF Forking(c, "link2") THEN BackLinks(c, target[2])
    ELSE IF pc[c] = "unlinked"
         THEN [previous[c] EXCEPT ![next[c][current[c]]] = current[c]]
         ELSE previous[c]

\* A task is linked before it is counted, and unlinked after.
Uncounted(c) ==
    IF Forking(c, "link2") \/ Forking(c, "count") \/ pc[c] \in {"counted", "unlinked"}
    THEN 1 ELSE 0

RingInv(c) ==
    IF current[c] = NULL
    THEN \A t \in Live(c) : Forking(c, "link") /\ t = target[2]
    ELSE /\ IsRing(Linked(c), next[c], Back(c))
         /\ Cardinality(Linked(c)) = tasks_num[c] + Uncounted(c)
         /\ pc[c] \in ExitLabels => current[c] \notin Live(c)
         /\ pc[c] = "unlinked" =>
              previous[c][next[c][current[c]]] = previous[c][current[c]]
         /\ current[c] \notin Linked(c) =>
              /\ pc[c] \in {"sched", "scan"}
              /\ next[c][current[c]] \in Linked(c)
              /\ preempt_count[c][current[c]] = 1
         /\ pc[c] = "scan" => temp[c] \in Linked(c) \cup {current[c]}

\* The task that fork_task() links is new.
TargetIsNew ==
    pc[CORE0] \in {"link", "link2", "count"} /\ target[1] \notin early =>
        target[2] \in Slots /\ target[2] \in Live(target[1])

ListInv == TargetIsNew /\ \A c \in Cores \ early : RingInv(c)

--------------------------------------------------------------------------------
(* Where the mains are. *)

\* A stack holds the label of its function at the bottom, those of handlers above.
Framed(f) ==
    \A i \in 1 .. Len(f) : f[i] \in SuspendedHandler <=> i < Len(f)

FramesInv(c) ==
    /\ \A t \in Tasks : Framed(frames[c][t])
    /\ frames[c][cpu[c]] = <<>> <=> pc[c] \notin SchedLabels
    /\ \A t \in Tasks : ctx[c][t] = "resume" => frames[c][t] # <<>>
    /\ ctx[c][cpu[c]] = "none"
    /\ pc[c] = "switch" => ctx[c][current[c]] # "none"

\* A task that is dead never gets past the scan of its last schedule().
DeadLeaves(c) ==
    current[c] \notin Live(c) \cup {Main, NULL} =>
        pc[c] \in ExitLabels \cup {"sched", "scan"}

Workers(c) == Live(c) \ {Main}

\* Where join_all_core_tasks() or join_all() is over.
Left == {"leave", "rest", "halt", "demand"}

\* Behind the one no task of the core is alive, behind the other none anywhere.
JoinedInv ==
    /\ \A c \in Cores \ early : MainAt(c) \in Left => Workers(c) = {}
    /\ MainAt(CORE0) \in Left => \A c \in Cores \ early : Workers(c) = {}

\* The tasks that are forked and those that still will be.
BudgetInv ==
    pc[CORE0] \in ForkLabels =>
        \A c \in Cores \ early : Cardinality(Workers(c)) + todo[c] = Forks[round][c]

\* Nobody is about to count a task as ended once join_all() is over.
CountedInv ==
    MainAt(CORE0) \in Left \/ pc[CORE0] \in ForkLabels =>
        \A c \in Cores \ early : pc[c] # "zombied"

\* Only a lack of slots reboots, or a fork too early.
RebootInv ==
    ~up /\ early = {} =>
        /\ pc[CORE0] = "forks"
        /\ \E c \in Cores : todo[c] > 0 /\ (Full(c) \/ FreeSlots(c) = {})

\* CORE0Forks, for every core, of a program that forks for all of them first.
AllFork ==
    \A c \in Cores : current[c] = NULL =>
        pc[CORE0] \in ForkLabels /\ (todo[c] > 0 \/ Forking(c, "link"))

RInv ==
    /\ \A c \in Cores \ early : FramesInv(c) /\ DeadLeaves(c)
    /\ JoinedInv
    /\ BudgetInv
    /\ CountedInv
    /\ RebootInv
================================================================================
