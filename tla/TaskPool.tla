-------------------------------- MODULE TaskPool --------------------------------
(***************************************************************************)
(* What the threads promise to the program that uses them.  The program    *)
(* submits jobs to cores, then waits.  While it waits, and only then, each *)
(* core runs its jobs, one at a time and each to its end, passing from one *)
(* to another whenever it likes.  The wait ends when no job is left.       *)
(*                                                                         *)
(* After a wait the program may submit to a core that has not come to rest. *)
(* Nothing is promised of such a core any more: it is lost.                *)
(***************************************************************************)
CONSTANTS
    Cores, Slots,
    Losable     \* the cores that may get lost

VARIABLES
    job,    \* job[c][s]: "free", "ready" or "running", or "lost"
    phase   \* "first" before the first wait, then "wait" and "submit"

vars == <<job, phase>>

TypeOK ==
    /\ job \in [Cores -> [Slots -> {"free", "ready", "running", "lost"}]]
    /\ phase \in {"first", "submit", "wait"}

Init ==
    /\ job = [c \in Cores |-> [s \in Slots |-> "free"]]
    /\ phase = "first"

Submit(c, s) ==
    /\ phase # "wait"
    /\ job[c][s] = "free"
    /\ job' = [job EXCEPT ![c][s] = "ready"]
    /\ UNCHANGED phase

\* The program submits to a core that is not at rest, before all it submits to
\* the core in this round.
Lose(c) ==
    /\ phase = "submit"
    /\ c \in Losable
    /\ \A s \in Slots : job[c][s] = "free"
    /\ job' = [job EXCEPT ![c] = [s \in Slots |-> "lost"]]
    /\ UNCHANGED phase

\* The program starts to wait.
Wait ==
    /\ phase # "wait"
    /\ phase' = "wait"
    /\ UNCHANGED job

\* The job that ran on c, if one did, gives way.
GiveWay(c) ==
    [s \in Slots |-> IF job[c][s] = "running" THEN "ready" ELSE job[c][s]]

Run(c, s) ==
    /\ phase = "wait"
    /\ job[c][s] = "ready"
    /\ job' = [job EXCEPT ![c] = [GiveWay(c) EXCEPT ![s] = "running"]]
    /\ UNCHANGED phase

Preempt(c) ==
    /\ phase = "wait"
    /\ job' = [job EXCEPT ![c] = GiveWay(c)]
    /\ UNCHANGED phase

Finish(c, s) ==
    /\ phase = "wait"
    /\ job[c][s] = "running"
    /\ job' = [job EXCEPT ![c][s] = "free"]
    /\ UNCHANGED phase

Resume ==
    /\ phase = "wait"
    /\ \A c \in Cores : \A s \in Slots : job[c][s] \in {"free", "lost"}
    /\ phase' = "submit"
    /\ UNCHANGED job

Next ==
    \/ \E c \in Cores : \E s \in Slots :
         Submit(c, s) \/ Run(c, s) \/ Finish(c, s)
    \/ \E c \in Cores : Preempt(c) \/ Lose(c)
    \/ Wait
    \/ Resume

Spec == Init /\ [][Next]_vars
================================================================================
