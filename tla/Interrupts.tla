------------------------------- MODULE Interrupts -------------------------------
(***************************************************************************)
(* The interrupts of libpi (interrupt.c) on several cores: the tables of   *)
(* handlers and clearers, which all cores share, the enable bits of both   *)
(* interrupt controllers, and irq_handler() on each core.  Programs        *)
(* register and unregister step by step while devices raise interrupts and *)
(* other cores handle theirs.                                              *)
(***************************************************************************)
EXTENDS Integers, FiniteSets

CONSTANTS
    Cores,          \* 0 is the one the GPU's interrupts are routed to
    Irqs,           \* the numbers that devices use, of irq_number_t
    Registering,    \* Registering[c]: what the program on core c registers
    Unregistering   \* and unregisters

IRQ_IS_BASIC(j) == 64 <= j /\ j < 72
IRQ_IS_ARM_CONTROL(j) == j >= 72

\* The core whose source register shows j.
CoreOf(j) == IF IRQ_IS_BASIC(j) THEN 0 ELSE (j - 72) \div 12

ASSUME InterruptsAssumption ==
    /\ Cores \subseteq 0 .. 3 /\ 0 \in Cores
    /\ Irqs \subseteq 64 .. 119
    /\ \A j \in Irqs : IRQ_IS_ARM_CONTROL(j) => ((j - 72) % 12) \in 0 .. 7 \/ j = 83
    /\ \A j \in Irqs : CoreOf(j) \in Cores
    /\ Registering \in [Cores -> SUBSET Irqs] /\ Unregistering \in [Cores -> SUBSET Irqs]

None == -1

VARIABLES
    handlers, clearers,     \* the numbers whose entry is not 0
    enabled,                \* enabled[r]: the bits set in register r
    raised,                 \* what the devices ask for
    prog,                   \* prog[c]: the call the program on core c is in
    isr,                    \* isr[c]: irq_handler()'s j, and what is next for it
    nullCall                \* a core called through an entry that is 0

interruptVars == <<handlers, clearers, enabled, raised, prog, isr, nullCall>>

Idle == [op |-> "none", irq |-> None, step |-> 0, read |-> {}]
Outside == [j |-> None, at |-> "none"]

\* Enable registers: of the basic interrupts, and per core of timers and mailboxes.
EnableRegisters == {<<"BASIC", 0>>, <<"LOCAL_TIMER_CONTROL", 0>>}
                     \cup {"CORE_TIMER_INTERRUPT_CTRL", "CORE_MAILBOX_INTERRUPT"} \X Cores

TypeOK ==
    /\ handlers \subseteq Irqs /\ clearers \subseteq Irqs /\ raised \subseteq Irqs
    /\ enabled \in [EnableRegisters -> SUBSET (0 .. 31)]
    /\ prog \in [Cores -> [op : {"none", "register", "unregister"}, irq : Irqs \cup {None},
                           step : 0 .. 4, read : SUBSET (0 .. 31)]]
    /\ isr \in [Cores -> [j : -1 .. 120, at : {"none", "scan", "clear", "handle"}]]
    /\ nullCall \in BOOLEAN

\* After interrupt_init(), on every core.
InterruptsInit ==
    /\ handlers = {} /\ clearers = {} /\ raised = {}
    /\ enabled = [r \in EnableRegisters |-> {}]
    /\ prog = [c \in Cores |-> Idle] /\ isr = [c \in Cores |-> Outside]
    /\ nullCall = FALSE

--------------------------------------------------------------------------------
(* The controllers. *)

\* The register and the bit of it that enable j for core c.
Control(j, c) ==
    LET pos == j - (72 + 12 * c)
    IN  CASE IRQ_IS_BASIC(j) -> <<<<"BASIC", 0>>, j - 64>>
          [] IRQ_IS_ARM_CONTROL(j) /\ pos < 4 -> <<<<"CORE_TIMER_INTERRUPT_CTRL", c>>, pos>>
          [] IRQ_IS_ARM_CONTROL(j) /\ pos = 11 -> <<<<"LOCAL_TIMER_CONTROL", 0>>, 29>>
          [] IRQ_IS_ARM_CONTROL(j) /\ pos > 3 /\ pos < 8 ->
               <<<<"CORE_MAILBOX_INTERRUPT", c>>, pos - 4>>

\* What the controllers do, whatever the code takes for the bit of j.
Enables == [j \in Irqs |->
              CASE IRQ_IS_BASIC(j) -> <<<<"BASIC", 0>>, j - 64>>
                [] j = 83 -> <<<<"LOCAL_TIMER_CONTROL", 0>>, 29>>
                [] j # 83 /\ ~IRQ_IS_BASIC(j) /\ (j % 12) \in 0 .. 3 ->
                     <<<<"CORE_TIMER_INTERRUPT_CTRL", CoreOf(j)>>, j % 12>>
                [] OTHER -> <<<<"CORE_MAILBOX_INTERRUPT", CoreOf(j)>>, (j % 12) - 4>>]
Enabled(j) == Enables[j][2] \in enabled[Enables[j][1]]

Asserted == {j \in raised : Enabled(j)}

\* CORE_INTERRUPT_IRQ_SOURCE of core c; bit 8 stands for all the basic ones.
Source(c) == {j - 72 - 12 * c : j \in {i \in Asserted : ~IRQ_IS_BASIC(i) /\ CoreOf(i) = c}}
               \cup {8 : j \in {i \in Asserted : IRQ_IS_BASIC(i) /\ c = 0}}

is_pending(j, c) ==
    IF c # 0 THEN j - (72 + 12 * c) \in Source(c)
    ELSE \/ IRQ_IS_BASIC(j) /\ j \in Asserted
         \/ IRQ_IS_ARM_CONTROL(j) /\ j - 72 \in Source(0)

--------------------------------------------------------------------------------
(* register_irq_handler(j, CoreOf(j), ...) and unregister_irq_handler(). *)

\* A program is stopped while its core is in irq_handler().
Runs(c) == isr[c] = Outside

Call(c) ==
    /\ Runs(c) /\ prog[c] = Idle
    /\ \E call \in {"register"} \X Registering[c] \cup {"unregister"} \X Unregistering[c] :
         prog' = [prog EXCEPT ![c] = [op |-> call[1], irq |-> call[2], step |-> 1, read |-> {}]]
    /\ UNCHANGED <<handlers, clearers, enabled, raised, isr, nullCall>>

\* The order of the four steps.
CallSteps == <<"handler", "clearer", "read", "write">>

With(table, c) == IF prog[c].op = "register" THEN table \cup {prog[c].irq}
                  ELSE table \ {prog[c].irq}

\* The bits written: those read with the one of the interrupt set or cleared.
NewBits_Bug(c, bit) == {bit}

NewBits(c, bit) == IF prog[c].op = "register" THEN prog[c].read \cup {bit}
                ELSE prog[c].read \ {bit}

Advance(c) == IF prog[c].step = 4 THEN Idle ELSE [prog[c] EXCEPT !.step = @ + 1]

ProgramStep(c) ==
    /\ Runs(c) /\ prog[c] # Idle
    /\ LET step == CallSteps[prog[c].step]
           reg  == Control(prog[c].irq, CoreOf(prog[c].irq))[1]
           bit  == Control(prog[c].irq, CoreOf(prog[c].irq))[2]
       IN  /\ handlers' = IF step = "handler" THEN With(handlers, c) ELSE handlers
           /\ clearers' = IF step = "clearer" THEN With(clearers, c) ELSE clearers
           /\ prog' = [prog EXCEPT ![c] = IF step = "read"
                                          THEN [Advance(c) EXCEPT !.read = enabled[reg]]
                                          ELSE Advance(c)]
           \* A write to an enable or a disable register of the basic interrupts
           \* leaves the others alone; the disable register is taken to read as 0.
           /\ enabled' = IF step # "write" THEN enabled
                         ELSE [enabled EXCEPT ![reg] =
                                 IF reg = <<"BASIC", 0>> /\ prog[c].op = "register"
                                 THEN @ \cup NewBits(c, bit)
                                 ELSE IF reg = <<"BASIC", 0>> THEN @ \ {bit}
                                 ELSE NewBits(c, bit)]
    /\ UNCHANGED <<raised, isr, nullCall>>

--------------------------------------------------------------------------------
(* irq_handler(). *)

FirstIrq(c) == IF c # 0 THEN 72 + 12 * c ELSE 0

LastIrq_Bug(c) == IF c # 0 THEN FirstIrq(c) + 12 ELSE 83

LastIrq(c) == IF c # 0 THEN FirstIrq(c) + 12 ELSE 84

TakeIrq(c) ==
    /\ Runs(c) /\ Source(c) # {}
    /\ isr' = [isr EXCEPT ![c] = [j |-> FirstIrq(c), at |-> "scan"]]
    /\ UNCHANGED <<handlers, clearers, enabled, raised, prog, nullCall>>

Found(j, c) == is_pending(j, c) /\ j \in handlers

\* The scan up to the next number that is found, or to the end; numbers that no
\* device uses are never found.
Scan(c) ==
    /\ isr[c].at = "scan"
    /\ LET rest == {j \in Irqs : isr[c].j <= j /\ j < LastIrq(c)}
       IN  \/ rest = {} /\ isr' = [isr EXCEPT ![c] = Outside]
           \/ \E j \in rest :
                /\ \A i \in rest : j <= i
                /\ isr' = [isr EXCEPT ![c] = IF Found(j, c) THEN [j |-> j, at |-> "clear"]
                                            ELSE [j |-> j + 1, at |-> "scan"]]
    /\ UNCHANGED <<handlers, clearers, enabled, raised, prog, nullCall>>

\* clearers[j](): the device takes its request back.
Clear(c) ==
    /\ isr[c].at = "clear"
    /\ nullCall' = (nullCall \/ isr[c].j \notin clearers)
    /\ raised' = raised \ {isr[c].j}
    /\ isr' = [isr EXCEPT ![c].at = "handle"]
    /\ UNCHANGED <<handlers, clearers, enabled, prog>>

\* handlers[j]()
Handle(c) ==
    /\ isr[c].at = "handle"
    /\ nullCall' = (nullCall \/ isr[c].j \notin handlers)
    /\ isr' = [isr EXCEPT ![c] = [j |-> @.j + 1, at |-> "scan"]]
    /\ UNCHANGED <<handlers, clearers, enabled, raised, prog>>

Raise(j) ==
    /\ j \notin raised /\ raised' = raised \cup {j}
    /\ UNCHANGED <<handlers, clearers, enabled, prog, isr, nullCall>>

Isr(c) == TakeIrq(c) \/ Scan(c) \/ Clear(c) \/ Handle(c)

InterruptsNext == \/ \E c \in Cores : Call(c) \/ ProgramStep(c) \/ Isr(c)
        \/ \E j \in Irqs : Raise(j)

InterruptsSpec == InterruptsInit /\ [][InterruptsNext]_interruptVars

\* A core takes an interrupt that is not masked, and executes its handler.
InterruptsAreTaken == \A c \in Cores : WF_interruptVars(Isr(c))

--------------------------------------------------------------------------------
(* Properties. *)

InCall(j, op) == \E c \in Cores : prog[c].irq = j /\ prog[c].op = op

\* No interrupt is let through whose handler or clearer is missing, on whatever
\* core it arrives, except within the call that unregisters it.
EnabledIsHandled ==
    \A j \in Irqs : Enabled(j) /\ ~InCall(j, "unregister") => j \in handlers \cap clearers

\* A registered interrupt stays enabled through what is registered and
\* unregistered beside it.
HandledIsEnabled == \A j \in handlers : ~InCall(j, "register") => Enabled(j)

\* irq_handler() looks at an entry before it calls through it; with interrupts
\* unregistered by their own core only, nothing comes between.
NoNullCall == ~nullCall

\* The tables and the enable bits, which programs and handlers on all cores read
\* and write without a lock, agree at every step.
TablesFit == TypeOK /\ EnabledIsHandled /\ HandledIsEnabled /\ NoNullCall

\* An enabled interrupt is served, by the core it arrives at and whatever that
\* core is called through before, as long as its handler is registered: the scans
\* of the cores cover all numbers, the last one of each core too.
EachIsServed ==
    \A j \in Irqs : Enabled(j) /\ j \in raised ~> (~Enabled(j) \/ j \notin raised \/ j \notin handlers)
--------------------------------------------------------------------------------
(* What TablesFit rests on. *)

Uses(c) == Registering[c] \cup Unregistering[c]

\* The code locks nothing and leaves it to the programs to keep apart: no enable
\* register is written by two cores' programs, and an interrupt is unregistered
\* by the core it arrives at.
CallersKeepApart ==
    /\ \A c, d \in Cores : c # d =>
         \A j \in Uses(c), k \in Uses(d) : Enables[j][1] # Enables[k][1]
    /\ \A c \in Cores : \A j \in Unregistering[c] : CoreOf(j) = c

\* Where the program on core c is, and what it has done so far.
InProgram(c) ==
    LET p == prog[c]
    IN  \/ p = Idle
        \/ /\ p.op = "register" /\ p.irq \in Registering[c] /\ p.step \in 1 .. 4
           /\ p.step >= 2 => p.irq \in handlers
           /\ p.step >= 3 => p.irq \in clearers
           /\ p.step = 4 => p.read = enabled[Enables[p.irq][1]]
        \/ /\ p.op = "unregister" /\ p.irq \in Unregistering[c] /\ p.step \in 1 .. 4
           /\ p.step >= 2 => p.irq \notin handlers
           /\ p.step = 4 => p.read = enabled[Enables[p.irq][1]]

\* A call that has already cleared an entry of j.
Clearing(j) == \E c \in Cores :
                 prog[c].irq = j /\ prog[c].op = "unregister" /\ prog[c].step >= 2

\* irq_handler() of core c only holds numbers of interrupts that it found.
InHandler(c) ==
    /\ isr[c].at \in {"clear", "handle"} =>
         isr[c].j \in Irqs /\ CoreOf(isr[c].j) = c /\ isr[c].j \in handlers
    /\ isr[c].at = "clear" => isr[c].j \in clearers

\* The inductive invariant.
IInv ==
    /\ TypeOK
    /\ \A c \in Cores : InProgram(c) /\ InHandler(c)
    /\ \A j \in Irqs : Enabled(j) /\ ~Clearing(j) => j \in handlers \cap clearers
    /\ HandledIsEnabled
    /\ NoNullCall
================================================================================
