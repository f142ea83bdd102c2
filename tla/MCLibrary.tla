-------------------------------- MODULE MCLibrary --------------------------------
(***************************************************************************)
(* Small instances of libpi for TLC.  A behaviour is about one part, and   *)
(* case says which: the interrupts, on two cores, the lists and the        *)
(* devices run, the others are functions that a state gives one input.     *)
(***************************************************************************)
EXTENDS Interrupts, LinkedList, Devices, Frames, Printing, AddressMap, Delays, Mailbox,
        Startup, RegisterMap, Exceptions, Fractal

CONSTANTS n1, n2, n3, n4

VARIABLE case

TwoCores == 0 .. 1

\* ARM_TIMER and LOCAL_TIMER; MAILBOX0_CORE1 and MAILBOX1_CORE1.
FourIrqs == {64, 83, 88, 89}

\* Core 0 sets up all of them and takes its own back.
SetUp == [c \in TwoCores |-> IF c = 0 THEN FourIrqs ELSE {}]
TearDown == [c \in TwoCores |-> IF c = 0 THEN {64, 83} ELSE {}]

ASSUME SetUpKeepsApart == CallersKeepApart

Case(part, inputs) == [part : {part}, in : inputs]

\* Words at the ends of the range and around powers of the bases.
WordInputs == {0, 1, 9, 10, 15, 16, 99, 100, 127, 128, 200, 255}
Items == [spec : {"u", "x", "b"}, arg : WordInputs, width : {0, 3, Bits - 1}]
FormatItems == {[spec |-> "plain", arg |-> "a", width |-> 0],
                [spec |-> "%", arg |-> 0, width |-> 0],
                [spec |-> "c", arg |-> 1, width |-> 0],
                [spec |-> "s", arg |-> <<"x", "-">>, width |-> 0],
                [spec |-> "u", arg |-> 200, width |-> 4],
                [spec |-> "d", arg |-> -1, width |-> 0]}

FrameInputs == [sp : {65536}, p : {0, 176}, q : {352}]
StartInputs == [bytes : {0, 1, 7, 8, 9, 24, 40}, el : 1 .. 3]

Cases ==
    Case("interrupts", {0}) \cup Case("lists", {0}) \cup Case("devices", {0})
      \cup Case("mailbox", Messages)
      \cup Case("claims", {0})
      \cup Case("frames", FrameInputs)
      \cup Case("item", Items)
      \cup Case("int", -8 .. 7)
      \cup Case("float", {-1205, -7, -1, 0, 5, 10, 99, 100, 101, 1205})
      \cup Case("format", [n : 1 .. 9, fmt : UNION {[1 .. k -> FormatItems] : k \in 0 .. 3}])
      \cup Case("map", 0 .. 3 \cup {500, 501, 1007, 1008, 2014, 2015, 2016})
      \cup Case("wait", [us : 0 .. Ticks - 1, start : 0 .. Ticks - 1, gap : {1, 3}])
      \cup Case("start", StartInputs)
      \cup Case("exception", {65536})
      \cup Case("irq04", [registered : SUBSET {1, 31, 32, 63, 64}, undone : {{}, {31, 64}},
                         raised : {{31, 32, 63, 64}, {0, 1, 32}}])
      \cup Case("fractal", [1 .. 4 -> 1 .. iterations + 1])
      \cup Case("core", [f : {1, 7, 16, 17}, divisor : 1 .. 5, gap : {1, 3}])

Init ==
    /\ case \in Cases
    /\ InterruptsInit /\ ListInit /\ DevicesInit

Next ==
    /\ UNCHANGED case
    /\ \/ case.part = "interrupts" /\ InterruptsNext /\ UNCHANGED <<listVars, deviceVars>>
       \/ case.part = "lists" /\ ListNext /\ UNCHANGED <<interruptVars, deviceVars>>
       \/ case.part = "devices" /\ DevicesNext /\ UNCHANGED <<interruptVars, listVars>>

\* In the other parts nothing raises an interrupt, and the fairness asks for nothing.
Spec ==
    /\ Init
    /\ [][Next]_<<case, interruptVars, listVars, deviceVars>>
    /\ InterruptsAreTaken

--------------------------------------------------------------------------------
(* Properties, each of the modules' own for the inputs of its part. *)

If(part) == case.part = part

\* kernel_entry and kernel_exit restore all registers but x22 and x23,
\* context_switch() there and back keeps what a call preserves, and the first
\* switch to a task enters ret_from_fork with its function.
\* Exceptions end in the right vector and text, and the first version of the
\* interrupts serves all it should.
FramesKeep ==
    /\ If("frames") =>
         /\ AllButTwo(case.in.sp)
         /\ SwitchesBack(case.in.sp, case.in.p, case.in.q)
         /\ StartsForked(case.in.sp, case.in.p, case.in.q)
    /\ If("exception") => VectorsReport /\ CausesNamed /\ ShortFrame(case.in)
    /\ If("irq04") => ServedInOrder(case.in.registered, case.in.undone, case.in.raised)

\* emit(), __emit_float() and va_printk(): unsigned arguments in three bases with
\* padding, ints and floats of both signs, and room for all, some or no text.
NumbersPrinted ==
    /\ If("item") => ReadsBack(case.in) /\ BufHolds(case.in)
    /\ If("int") => NegativesWrap(case.in)
    /\ If("float") => FloatReadsBack(case.in)
    /\ If("format") => Truncates(case.in.n, case.in.fmt)

\* From power on to a running MMU, for variables of any size and wherever the
\* VideoCore's memory starts; and the device registers in the map.
MemoryIsReady ==
    /\ If("map") => /\ Identity(case.in) /\ VcUncached(case.in) /\ DevicesOrdered(case.in)
                    /\ RegistersApart(case.in) /\ TimerRuns
    /\ If("start") => /\ CoresArrive(case.in.bytes, case.in.el)
                      /\ ClearsWords(case.in.bytes)
                      /\ MmuFits(case.in.bytes, case.in.el)

\* delay_us() and delay_ms() from any count of the timer, delay_core_timer() for
\* parts of a second, and the loops of the tasks that share a picture.
LoopsEndRight ==
    /\ If("wait") => /\ WaitsAsLong(case.in.us, case.in.start, case.in.gap)
                     /\ MillisCutOff(case.in.us, case.in.start, case.in.gap)
    /\ If("core") => CorePart(case.in.f, case.in.divisor, case.in.gap)
    /\ If("fractal") => TasksTile /\ LanesAgree(case.in)

\* The messages to the VideoCore: their sizes, where the tags of those without a
\* pitch end, and whether the words that are read, but the pitch, are answers.
MessagesHold ==
    If("mailbox") =>
        /\ SizeRight(case.in)
        /\ case.in # fb_init => TagsTile(case.in)
        /\ ReadsAnswers(case.in, TagNames \ {GETPITCH})

--------------------------------------------------------------------------------
(* What the comments of five files say, for the inputs above. *)

\* thread.h of an interrupt: "when a normal function is called, at the return it
\* finds everything as it left it".
InterruptTransparent ==
    \A i \in FrameInputs : \A r \in Registers : Unchanged(i.sp, r)

\* start.s of the loop that clears whole words: "clear bss".
NoBssLeft == \A i \in StartInputs : BssIsClear(i.bytes)

\* start.s of the branch behind notmain(): "for failsafe, halt this core too".
MainReturnHalts == \A i \in StartInputs : HaltsBehindMain(i.bytes, i.el)

\* fb.c: the tags end with MBOX_TAG_LAST, and its pitch is the bytes per line.
PitchIsRead == TagsTile(fb_init) /\ ReadsAnswers(fb_init, {GETPITCH})

\* One at least of the five comments tells what the code does: these four, and
\* armtimer.h of the prescaler that timer_interrupt_init() sets, "11 = clock/256".
\* A violation shows each of them to be wrong, for some input.
SomeCommentHolds ==
    If("claims") => \/ InterruptTransparent
                    \/ NoBssLeft
                    \/ MainReturnHalts
                    \/ PrescalerIs256
                    \/ PitchIsRead
================================================================================
