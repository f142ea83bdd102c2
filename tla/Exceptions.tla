------------------------------- MODULE Exceptions -------------------------------
(***************************************************************************)
(* The vectors (entry.S) and what is printed for an exception that nothing *)
(* handles (interrupt.c), and the first version of interrupts that runs on *)
(* one core (04- exceptions): its frame and its irq_handler().             *)
(***************************************************************************)
EXTENDS Frames, FiniteSets

\* ventry: the labels that the table of 16 entries branches to.
vectors ==
    <<"sync_invalid_el1t", "irq_invalid_el1t", "fiq_invalid_el1t", "error_invalid_el1t",
      "sync_invalid_el1h", "el1_irq", "fiq_invalid_el1h", "error_invalid_el1h",
      "sync_invalid_el0_64", "irq_invalid_el0_64", "fiq_invalid_el0_64", "error_invalid_el0_64",
      "sync_invalid_el0_32", "irq_invalid_el0_32", "fiq_invalid_el0_32", "error_invalid_el0_32">>

\* The labels in the order of the numbers that entry.h gives to their types.
Types ==
    <<"sync_invalid_el1t", "irq_invalid_el1t", "fiq_invalid_el1t", "error_invalid_el1t",
      "sync_invalid_el1h", "irq_invalid_el1h", "fiq_invalid_el1h", "error_invalid_el1h",
      "sync_invalid_el0_64", "irq_invalid_el0_64", "fiq_invalid_el0_64", "error_invalid_el0_64",
      "sync_invalid_el0_32", "irq_invalid_el0_32", "fiq_invalid_el0_32", "error_invalid_el0_32">>

\* entry_error_messages, as the kind and the level each of them names.
entry_error_messages ==
    <<<<"SYNC", "EL1t">>, <<"IRQ", "EL1t">>, <<"FIQ", "EL1t">>, <<"ERROR", "EL1t">>,
      <<"SYNC", "EL1h">>, <<"IRQ", "EL1h">>, <<"FIQ", "EL1h">>, <<"ERROR", "EL1h">>,
      <<"SYNC", "EL0_64">>, <<"IRQ", "EL0_64">>, <<"FIQ", "EL0_64">>, <<"ERROR", "EL0_64">>,
      <<"SYNC", "EL0_32">>, <<"IRQ", "EL0_32">>, <<"FIQ", "EL0_32">>, <<"ERROR", "EL0_32">>>>

\* handle_invalid_entry: the message for an exception taken at vector v.
Reported(v) ==
    entry_error_messages[CHOOSE t \in DOMAIN Types : Types[t] = vectors[v]]

\* The processor's order of vectors: four kinds for each of four levels.
Taken(v) == <<<<"SYNC", "IRQ", "FIQ", "ERROR">>[((v - 1) % 4) + 1],
              <<"EL1t", "EL1h", "EL0_64", "EL0_32">>[((v - 1) \div 4) + 1]>>

\* The cause it prints behind a data abort, and the level.
Causes == <<"address size", "translation", "access flag", "permission">>
Decoded(fsc) == <<Causes[((fsc \div 4) % 4) + 1], fsc % 4>>

\* What the processor means by a fault status.
Cause(fsc) == CASE fsc \in 0 .. 15 -> <<Causes[(fsc \div 4) + 1], fsc % 4>>
                [] fsc = 16 -> <<"external", 0>>
                [] fsc = 33 -> <<"alignment", 0>>
                [] OTHER -> <<"other", 0>>

--------------------------------------------------------------------------------
(* 04- exceptions: the frame. *)

S_FRAME_SIZE == 256

kernel_entry_04 ==
    <<Add(Sp, -S_FRAME_SIZE)>>
      \o [i \in 1 .. 15 |-> StAt(Pairs[i], Sp, 16 * (i - 1))]
      \o <<StAt(<<X(30)>>, Sp, 16 * 15)>>

kernel_exit_04 ==
    [i \in 1 .. 15 |-> LdAt(Pairs[i], Sp, 16 * (i - 1))]
      \o <<LdAt(<<X(30)>>, Sp, 16 * 15), Add(Sp, S_FRAME_SIZE)>>

\* Interrupts stay masked in its handler, so ELR and SPSR stay.
HandledMasked(m) ==
    [m EXCEPT !.reg = [r \in Registers |->
                         IF r \in Preserved \cup {Elr, Spsr} THEN m.reg[r] ELSE Handler]]

el1_irq_04(m) == Execute(HandledMasked(Execute(m, kernel_entry_04)), kernel_exit_04)

--------------------------------------------------------------------------------
(* 04- exceptions: the interrupts.  s has the tables (which always agree), the *)
(* bits of the enable registers, what devices raise, and the calls made.       *)

NUM_IRQS == 72

BankOf(j) == CASE j >= 64 -> "BASIC" [] j >= 32 /\ j < 64 -> "GPU2" [] j < 32 -> "GPU1"

FirstOf == [BASIC |-> 64, GPU2 |-> 32, GPU1 |-> 0]
Position(j) == j - FirstOf[BankOf(j)]

interrupt_init_04 ==
    [handlers |-> {}, enabled |-> [b \in DOMAIN FirstOf |-> {}], raised |-> {}, calls |-> <<>>]

register_irq_handler_04(s, j) ==
    [s EXCEPT !.handlers = @ \cup {j}, !.enabled[BankOf(j)] = @ \cup {Position(j)}]

unregister_irq_handler_04(s, j) ==
    [s EXCEPT !.handlers = @ \ {j}, !.enabled[BankOf(j)] = @ \ {Position(j)}]

\* The controller: interrupt 32 * k + p is bit p of the k-th pending register.
Pending(s, b) == {p \in s.enabled[b] :
                    (CASE b = "GPU1" -> p [] b = "GPU2" -> 32 + p [] b = "BASIC" -> 64 + p) \in s.raised}

is_pending_04(s, j) == Position(j) \in Pending(s, BankOf(j))

\* The loop over the numbers; serving one leaves the others as they are.
irq_handler_04(s) ==
    LET served == SelectSeq([i \in 1 .. NUM_IRQS |-> i - 1],
                            LAMBDA j : is_pending_04(s, j) /\ j \in s.handlers)
    IN  [s EXCEPT !.raised = @ \ ToSet(served), !.calls = @ \o served]

--------------------------------------------------------------------------------
(* Properties. *)

\* The table of vectors, the numbers of the types and the messages, lists in three
\* files, agree: every exception but the interrupt at EL1h is reported as what it is.
VectorsReport == \A v \in DOMAIN vectors : v = 6 \/ Reported(v) = Taken(v)

\* The cause printed for a data abort is the cause for the four kinds of faults of
\* a walk.  All others it takes for one of these, the alignment fault too that the
\* bit A of SCTLR enables: that is printed as an address size fault at level 1.
CausesNamed ==
    /\ \A fsc \in 0 .. 63 : Decoded(fsc) = Cause(fsc) \/ fsc > 15
    /\ Decoded(33) = <<"address size", 1>>

\* The short frame restores all but the vector registers as long as nothing nests.
ShortFrame(sp) ==
    LET m == Execute(Struck(sp), kernel_entry_04)
    IN  /\ \A r \in (0 .. 30) \cup {Sp, Elr, Spsr} :
             el1_irq_04(Struck(sp)).reg[r] = Struck(sp).reg[r]
        /\ \A c \in DOMAIN m.mem : m.reg[Sp] <= c /\ c + 8 <= sp

\* Whatever was registered, of these and then unregistered, one run of
\* irq_handler() serves what is raised and registered, once and in order of the
\* numbers, also at the ends of the three registers.
ServedInOrder(registered, undone, raised) ==
    LET Each(s, op(_, _), js) == FoldLeft(op, s, SetToSeq(js))
        s == Each(Each(interrupt_init_04, register_irq_handler_04, registered),
                  unregister_irq_handler_04, undone)
        t == irq_handler_04([s EXCEPT !.raised = raised])
        due == raised \cap (registered \ undone)
    IN  /\ t.calls = SetToSortSeq(due, LAMBDA a, b : a < b)
        /\ t.raised = raised \ due
================================================================================
