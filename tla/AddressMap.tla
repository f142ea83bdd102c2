------------------------------- MODULE AddressMap -------------------------------
(***************************************************************************)
(* The translation tables of mmu.c: one entry of L1 per GB and one of L2   *)
(* for every block of 2 MB.  Addresses are counted in blocks and pages of  *)
(* a block, Pages of them; the code maps blocks only.                      *)
(***************************************************************************)
EXTENDS Integers

CONSTANT Pages
ASSUME PagesAssumption == Pages \in Nat \ {0}

\* Blocks per GB, the first of the peripherals, and what the 2 L1 entries reach.
PerGB    == 512
Mmio     == PerGB - 8
Reach    == 0 .. 2 * PerGB - 1

Device  == "MT_DEVICE_NGNRNE"
Uncached == "MT_NORMAL_NC"
Normal  == "MT_NORMAL"
Fault   == [type |-> "fault"]

Block(i, type) == [type |-> type, base |-> i]

\* vc_mem_start_address() / (1 << 21).
VcBlock_Bug(vc) == (vc + Pages - 1) \div Pages

VcBlock(vc) == vc \div Pages

LastMapped == PerGB

\* populate_tables(): a loop goes on from the i_block that the last one left.
populate_tables(vc) ==
    [i \in Reach |->
       CASE i < VcBlock(vc)   -> Block(i, Normal)
         [] i >= VcBlock(vc) /\ i < Mmio -> Block(i, Uncached)
         [] i >= VcBlock(vc) /\ i >= Mmio /\ i <= LastMapped -> Block(i, Device)
         [] OTHER -> Fault]

\* L1_table[i] is the index of the first of its 512 entries in L2_table.
L1_table == [i \in 0 .. 1 |-> i * PerGB]

\* The walk of the MMU for an address in pages.
Translated(vc, page) ==
    LET block == page \div Pages
        l1 == block \div PerGB
    IN  populate_tables(vc)[L1_table[l1] + (block % PerGB)]

--------------------------------------------------------------------------------
(* Properties, for a start vc of the memory of the VideoCore, in pages. *)

\* Up to the core registers behind the first GB every address is mapped, to
\* itself; behind them nothing is: no loop leaves a gap or maps a block twice.
Identity(vc) ==
    \A b \in Reach :
        LET w == Translated(vc, b * Pages)
        IN  IF b <= PerGB THEN w # Fault /\ w.base = b ELSE w = Fault

\* What the VideoCore writes is never read from a cache, and a device register
\* neither, as long as its memory starts below the peripherals.
VcUncached(vc) ==
    vc <= Mmio * Pages =>
        \A p \in {q \in vc - Pages .. vc + Pages : q >= 0} \cup
                   {b * Pages : b \in VcBlock(vc) .. PerGB} :
            p >= vc => Translated(vc, p).type # Normal

DevicesOrdered(vc) ==
    vc <= Mmio * Pages => \A b \in Mmio .. PerGB : Translated(vc, b * Pages).type = Device
================================================================================
