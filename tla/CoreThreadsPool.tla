---------------------------- MODULE CoreThreadsPool ----------------------------
(* The multicore threads implement the pool of jobs of TaskPool.  A slot's   *)
(* job is its task's state; the program waits from threading_init() until    *)
(* join_all() has returned.                                                  *)
EXTENDS CoreThreads

\* The labels of core 0's main at which it submits, or is done.
Submitting == {"forks", "link", "link2", "count", "rest", "halt"}

\* The job of a task in state st.
JobOf(st) ==
    CASE st = TASK_ZOMBIE  -> "free"
      [] st = TASK_READY   -> "ready"
      [] st = TASK_RUNNING -> "running"

job == [c \in Cores |-> [s \in Slots |->
          IF c \in early THEN "lost" ELSE JobOf(state[c][s])]]

phase == IF MainAt(CORE0) \notin Submitting THEN "wait"
         ELSE IF round = 1 /\ MainAt(CORE0) \notin {"rest", "halt"} THEN "first"
         ELSE "submit"

Losable == Cores \ {CORE0}

Pool == INSTANCE TaskPool

\* A core's tasks run only between threading_init() and join_all()'s return,
\* one at a time, and join_all() returns only when all of them have finished;
\* only a core that had no task left and was awake when the program forked for
\* it in a later round is excepted.  Every other step of thread.c is a step of
\* the pool or none that it sees.
PoolSpec == Pool!Spec
================================================================================
