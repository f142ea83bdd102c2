-------------------------------- MODULE Loading --------------------------------
(***************************************************************************)
(* What the boot loader promises: the image in memory is a beginning of    *)
(* the file that grows block by block, and only the whole file is started. *)
(* It promises nothing of a transfer that lost bytes, had two bytes of a   *)
(* packet damaged or began with bytes left over from an older one: such a  *)
(* transfer is not trusted, and no image is told of it.                    *)
(***************************************************************************)
EXTENDS Sequences, Naturals

CONSTANT File       \* a sequence of blocks
VARIABLES image, trusted, started

Init == image = <<>> /\ trusted = TRUE /\ started = FALSE

Grow ==
    /\ trusted /\ ~started
    /\ \E n \in DOMAIN File :
        /\ image = SubSeq(File, 1, n - 1)
        /\ image' = SubSeq(File, 1, n)
    /\ UNCHANGED <<trusted, started>>

Cancel == ~started /\ image' = <<>> /\ trusted' \in BOOLEAN /\ UNCHANGED started

Distrust == image' = <<>> /\ trusted' = FALSE /\ UNCHANGED started

Start ==
    /\ trusted => image = File
    /\ started' = TRUE
    /\ UNCHANGED <<image, trusted>>

Next == Grow \/ Cancel \/ Distrust \/ Start

Spec == Init /\ [][Next]_<<image, trusted, started>>
================================================================================
