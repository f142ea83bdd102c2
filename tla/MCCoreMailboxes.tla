---------------------------- MODULE MCCoreMailboxes ----------------------------
(* Small instances of CoreMailboxes for TLC. *)
EXTENDS CoreMailboxes

TwoOthers == 1 .. 2
FourBits  == 0 .. 3

\* Any two addresses share a bit and make up no third one.
SharedBits ==
    [f \in Functions |-> CASE f = "irq" -> {0, 1}
                           [] f = "mmu" -> {0, 2}
                           [] f = "threads" -> {0, 3}]
================================================================================
