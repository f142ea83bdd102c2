----------------------------- MODULE MCCoreThreads -----------------------------
(* Small instances of CoreThreads for TLC. *)
EXTENDS CoreThreadsPool, CoreThreadsRing

OneCore  == 0 .. 0
TwoCores == 0 .. 1

\* What the program forks on two cores, n on core 0 and m on core 1.
Both(n, m) == [c \in TwoCores |-> IF c = 0 THEN n ELSE m]
On0(n) == [c \in OneCore |-> n]

\* One core: slots in use again, all of them, then one task more than there are.
ThenOneTooMany == <<On0(2), On0(3), On0(4)>>

\* Two cores, one round, and two of which the second is for core 1 alone.
OneAndTwo == <<Both(1, 2)>>
ThenMore  == <<Both(1, 1), Both(0, 2)>>

FirstOfCore0 == {<<0, 1>>}
NoTargets == {}
================================================================================
