------------------------------ MODULE MCBootloader ------------------------------
(* A small instance of Bootloader for TLC. *)
EXTENDS BootloaderInv

\* As many blocks as there are numbers of two bits, some equal to EOT.
FourBlocks == <<<<2>>, <<3>>, <<0>>, <<2>>>>
================================================================================
