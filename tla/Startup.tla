--------------------------------- MODULE Startup ---------------------------------
(***************************************************************************)
(* From power on to notmain() (start.s), and the registers that switch the *)
(* MMU on (mmu_setup.S).  A core is a record of what the code sets; bytes  *)
(* are counted from __bss_start.  In the code StackBytes is 2^22.          *)
(***************************************************************************)
EXTENDS AddressMap, Sequences, SequencesExt

CONSTANT StackBytes
ASSUME StackAssumption == StackBytes \in Nat \ {0} /\ StackBytes % 16 = 0

CoreNumbers == 0 .. 3

\* 4096 in the code; any multiple of 16 does here.
Page == 64

\* The linker script, for b bytes of variables: four stacks, each aligned to 16,
\* then the heap, from the next page on, all behind the variables.
stack_start(b, core) == 16 * ((b + 15) \div 16) + core * StackBytes
stack_end(b, core) == stack_start(b, core) + StackBytes
heap_start(b) == Page * ((stack_end(b, 3) + Page - 1) \div Page)

bss_words(b) == b \div 8

--------------------------------------------------------------------------------
(* start.s *)

Powered(core, el) ==
    [core |-> core, el |-> el, at |-> "_start", sp |-> 0, aarch64 |-> FALSE,
     vbar |-> "none", fp |-> FALSE, sctlr |-> {}, timer |-> "trapped"]

\* The comparisons of the core's number; the last stack is for all others.
StackOf(b, core) == IF core \in 0 .. 2 THEN stack_end(b, core) ELSE stack_end(b, 3)

\* 1: msr sp_el1, which EL1 itself must not execute.
SetStack(b, m) ==
    IF m.el = 1 THEN [m EXCEPT !.at = "undefined"] ELSE [m EXCEPT !.sp = StackOf(b, m.core)]

FromEL3(m) == IF m.el = 3 THEN [m EXCEPT !.el = 2] ELSE m

\* 5: with vectors, floating point and the timer for EL1, down to it.
FromEL2(m) ==
    IF m.el = 1 THEN m
    ELSE [m EXCEPT !.timer = "free", !.aarch64 = TRUE, !.sctlr = {11, 20, 22, 23, 28, 29},
                   !.vbar = "vectors", !.fp = TRUE, !.el = 1]

\* Core 0 goes on, the others to start_sleep.
Boot(b, core, el) ==
    LET m == SetStack(b, Powered(core, el))
    IN  IF m.at = "undefined" THEN m
        ELSE [FromEL2(FromEL3(m)) EXCEPT !.at = IF core = 0 THEN "6" ELSE "start_sleep"]

\* 3: the loop writes words of 8 bytes.
Cleared(b) == 0 .. 8 * bss_words(b) - 1

\* Without a word to clear, cbz jumps behind 9: where the others get their
\* address and are woken.
Wakes(b) == IF bss_words(b) = 0 THEN {} ELSE CoreNumbers \ {0}

\* What follows if notmain() returns: a branch back to 1:.
AfterMain(b, m) == SetStack(b, m)

--------------------------------------------------------------------------------
(* mmu_setup.S *)

\* MT_... as mmu.h puts it into a table entry, and the attribute of an index.
Index == [t \in {Device, Uncached, Normal} |->
            CASE t = Device -> 0 [] t = Uncached -> 3 [] t = Normal -> 4]

MAIR1VAL == <<0, 4, 12, 68, 255>>

\* T0SZ and the bits or'ed into SCTLR: M, A, C, SA, SA0, I and reserved ones.
T0SZ == 33
SCTLREL1VAL == {0, 1, 2, 3, 4, 11, 12, 22, 23}

\* The order of enable_mmu_tables(): dsb, behind which the tables are in memory, a
\* register to write, or isb, behind which the writes before it are in effect.
EnableSteps == <<"dsb", "mair", "ttbr0", "isb", "tcr", "isb", "sctlr">>

enable_mmu_tables(m) ==
    LET Do(s, op) ==
          CASE op = "dsb" -> [s EXCEPT !.done = @ \cup {"tables"}]
            [] op = "isb" -> [s EXCEPT !.done = @ \cup s.written]
            [] op = "sctlr" -> [s EXCEPT !.sctlr = @ \cup SCTLREL1VAL, !.before = s.done]
            [] OTHER -> [s EXCEPT !.written = @ \cup {op}]
    IN  FoldLeft(Do, [written |-> {}, done |-> {}, before |-> {}, sctlr |-> m.sctlr], EnableSteps)

\* What a memory attribute means.
Meaning(attr) == CASE attr = 0 -> Device [] attr = 68 -> Uncached [] attr = 255 -> Normal
                   [] OTHER -> "unused"

--------------------------------------------------------------------------------
(* Properties, for b bytes of variables and the level a core is started in. *)

Bytes(from, to) == from .. to - 1

\* From EL3 or EL2 every core arrives in EL1 with the vectors and a stack that
\* shares no byte with another one, the variables or the heap.
CoresArrive(b, el) ==
    el # 1 =>
        \A c \in CoreNumbers :
            LET m == Boot(b, c, el)
            IN  /\ m.el = 1 /\ m.aarch64 /\ m.fp /\ m.vbar = "vectors"
                /\ \A d \in CoreNumbers \ {c} :
                     Bytes(m.sp - StackBytes, m.sp)
                       \cap Bytes(Boot(b, d, el).sp - StackBytes, Boot(b, d, el).sp) = {}
                /\ m.sp - StackBytes >= b /\ m.sp <= heap_start(b) /\ m.sp % 16 = 0

\* The loop writes nothing but the variables, all of them if they fill whole words,
\* and the other cores are started if there is a word to clear.
ClearsWords(b) ==
    /\ Cleared(b) \subseteq Bytes(0, b)
    /\ b % 8 = 0 => Cleared(b) = Bytes(0, b)
    /\ b >= 8 => Wakes(b) = CoreNumbers \ {0}

\* "clear bss": notmain() finds every byte of its variables 0.
BssIsClear(b) == Bytes(0, b) \subseteq Cleared(b)

\* "for failsafe, halt this core too": behind notmain() core 0 comes to no
\* instruction that its level may not execute.
HaltsBehindMain(b, el) == el # 1 => AfterMain(b, Boot(b, 0, el)).at # "undefined"

\* The MMU goes on when all it reads is in effect, and then takes every block for
\* what populate_tables() meant: two files number the attributes, and the
\* addresses reach exactly as far as the tables.
MmuFits(b, el) ==
    LET m == Boot(b, 0, el)
        s == enable_mmu_tables(m)
    IN  /\ s.before = {"tables", "mair", "ttbr0", "tcr"}
        /\ {0, 2} \subseteq s.sctlr /\ m.sctlr \subseteq s.sctlr
        /\ \A t \in DOMAIN Index : Meaning(MAIR1VAL[Index[t] + 1]) = t
        /\ Reach = 0 .. 2 ^ (64 - T0SZ - 21) - 1
================================================================================
