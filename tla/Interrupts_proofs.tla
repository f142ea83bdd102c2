--------------------------- MODULE Interrupts_proofs ---------------------------
(* Theorems about Interrupts, for any interrupts and any programs that keep   *)
(* apart.                                                                     *)
EXTENDS Interrupts, TLAPS

--------------------------------------------------------------------------------
(* The numbers and their bits. *)

\* The four ranges of the numbers in use.
LEMMA Ranges ==
    ASSUME NEW j \in Irqs
    PROVE  /\ j \in 64 .. 119
           /\ \/ j < 72
              \/ j = 83
              \/ j >= 72 /\ j # 83 /\ (j - 72) % 12 \in 0 .. 3
              \/ j >= 72 /\ j # 83 /\ (j - 72) % 12 \in 4 .. 7
<1>1. j \in 64 .. 119 /\ (j >= 72 => (j - 72) % 12 \in 0 .. 7 \/ j = 83)
  BY InterruptsAssumption DEF IRQ_IS_ARM_CONTROL
<1> QED BY <1>1

\* Twelve numbers for each core.
LEMMA Twelves ==
    ASSUME NEW j \in 72 .. 119
    PROVE  /\ (j - 72) % 12 = j % 12 /\ j % 12 \in 0 .. 11
           /\ (j - 72) \div 12 \in 0 .. 3
           /\ j - (72 + 12 * ((j - 72) \div 12)) = j % 12
OBVIOUS
\* The bit that lets j through, as the controllers have it ...
LEMMA EnableOf ==
    ASSUME NEW j \in Irqs
    PROVE  /\ j < 72 => Enables[j] = <<<<"BASIC", 0>>, j - 64>>
           /\ j = 83 => Enables[j] = <<<<"LOCAL_TIMER_CONTROL", 0>>, 29>>
           /\ j >= 72 /\ j # 83 /\ j % 12 \in 0 .. 3
                => Enables[j] = <<<<"CORE_TIMER_INTERRUPT_CTRL", CoreOf(j)>>, j % 12>>
           /\ j >= 72 /\ j # 83 /\ j % 12 \in 4 .. 7
                => Enables[j] = <<<<"CORE_MAILBOX_INTERRUPT", CoreOf(j)>>, (j % 12) - 4>>
<1>1. j \in 64 .. 119
  BY Ranges
<1>2. CASE j < 72
  BY <1>1, <1>2 DEF Enables, IRQ_IS_BASIC
<1>3. CASE j = 83
  BY <1>3 DEF Enables, IRQ_IS_BASIC
<1>4. CASE j >= 72 /\ j # 83 /\ j % 12 \in 0 .. 3
  BY <1>1, <1>4 DEF Enables, IRQ_IS_BASIC
<1>5. CASE j >= 72 /\ j # 83 /\ j % 12 \in 4 .. 7
  <2>1. j % 12 \notin 0 .. 3
    BY <1>5
  <2> QED BY <1>1, <1>5, <2>1 DEF Enables, IRQ_IS_BASIC
<1> QED BY <1>2, <1>3, <1>4, <1>5

\* ... and the same as the code computes it.
LEMMA ControlIsEnable ==
    ASSUME NEW j \in Irqs
    PROVE  Control(j, CoreOf(j)) = Enables[j]
<1>1. j \in 64 .. 119
  BY Ranges
<1>2. CASE j < 72
  BY <1>1, <1>2, EnableOf DEF Control, IRQ_IS_BASIC, IRQ_IS_ARM_CONTROL
<1>3. CASE j >= 72
  <2>1. CoreOf(j) = (j - 72) \div 12
    BY <1>1, <1>3 DEF CoreOf, IRQ_IS_BASIC
  <2>2. j - (72 + 12 * CoreOf(j)) = j % 12
    BY <1>1, <1>3, <2>1, Twelves
  <2> DEFINE pos == j - (72 + 12 * CoreOf(j))
  <2>3. ~(64 <= j /\ j < 72) /\ j >= 72
    BY <1>3, <1>1
  <2>4. CASE j = 83
    <3>1. pos = 11 /\ CoreOf(j) = 0
      BY <2>1, <2>4
    <3> QED BY <2>3, <2>4, <3>1, EnableOf DEF Control, IRQ_IS_BASIC, IRQ_IS_ARM_CONTROL
  <2>5. CASE j # 83 /\ j % 12 \in 0 .. 3
    <3>1. pos \in 0 .. 3
      BY <2>2, <2>5
    <3> QED BY <1>3, <2>2, <2>3, <2>5, <3>1, EnableOf DEF Control, IRQ_IS_BASIC, IRQ_IS_ARM_CONTROL
  <2>6. CASE j # 83 /\ j % 12 \in 4 .. 7
    <3>1. pos \in 4 .. 7
      BY <2>2, <2>6
    <3> QED BY <1>3, <2>2, <2>3, <2>6, <3>1, EnableOf DEF Control, IRQ_IS_BASIC, IRQ_IS_ARM_CONTROL
  <2>7. (j - 72) % 12 = j % 12
    BY <1>1, <1>3, Twelves
  <2> QED BY <1>3, <2>4, <2>5, <2>6, <2>7, Ranges
<1> QED BY <1>1, <1>2, <1>3

\* Every interrupt has a bit of its own in a register that exists.
LEMMA BitsApart ==
    /\ \A j \in Irqs : Enables[j][1] \in EnableRegisters /\ Enables[j][2] \in 0 .. 31
    /\ \A j, k \in Irqs : Enables[j][1] = Enables[k][1] /\ Enables[j][2] = Enables[k][2]
                            => j = k
<1>1. ASSUME NEW j \in Irqs
      PROVE  /\ Enables[j][1] \in EnableRegisters /\ Enables[j][2] \in 0 .. 31
             /\ j = CASE Enables[j][1][1] = "BASIC" -> 64 + Enables[j][2]
                      [] Enables[j][1][1] = "LOCAL_TIMER_CONTROL" -> 83
                      [] Enables[j][1][1] = "CORE_TIMER_INTERRUPT_CTRL" ->
                           72 + 12 * Enables[j][1][2] + Enables[j][2]
                      [] Enables[j][1][1] = "CORE_MAILBOX_INTERRUPT" ->
                           76 + 12 * Enables[j][1][2] + Enables[j][2]
  <2>1. j \in 64 .. 119 /\ CoreOf(j) \in Cores
    BY Ranges, InterruptsAssumption
  <2>2. CASE j < 72
    BY <2>1, <2>2, EnableOf DEF EnableRegisters
  <2>3. CASE j = 83
    BY <2>1, <2>3, EnableOf DEF EnableRegisters
  <2>4. ASSUME j >= 72
        PROVE  /\ j = 72 + 12 * CoreOf(j) + (j % 12) /\ CoreOf(j) \in 0 .. 3
               /\ (j - 72) % 12 = j % 12
    <3>1. CoreOf(j) = (j - 72) \div 12
      BY <2>1, <2>4 DEF CoreOf, IRQ_IS_BASIC
    <3> QED BY <2>1, <2>4, <3>1, Twelves
  <2>5. CASE j >= 72 /\ j # 83 /\ j % 12 \in 0 .. 3
    BY <2>1, <2>4, <2>5, EnableOf DEF EnableRegisters
  <2>6. CASE j >= 72 /\ j # 83 /\ j % 12 \in 4 .. 7
    BY <2>1, <2>4, <2>6, EnableOf DEF EnableRegisters
  <2> QED BY <2>1, <2>2, <2>3, <2>4, <2>5, <2>6, Ranges
<1>2. ASSUME NEW j \in Irqs, NEW k \in Irqs,
             Enables[j][1] = Enables[k][1], Enables[j][2] = Enables[k][2]
      PROVE  j = k
  BY <1>1, <1>2
<1> QED BY <1>1, <1>2
--------------------------------------------------------------------------------
(* The steps of a program. *)

LEMMA RecordTypes ==
    /\ Idle \in [op : {"none", "register", "unregister"}, irq : Irqs \cup {None},
                 step : 0 .. 4, read : SUBSET (0 .. 31)]
    /\ Outside \in [j : -1 .. 120, at : {"none", "scan", "clear", "handle"}]
    /\ None \notin Irqs
<1>1. -1 \in -1 .. 120
  OBVIOUS
<1>2. None \notin Irqs
  BY Ranges DEF None
<1> QED BY <1>1, <1>2 DEF Idle, Outside, None

LEMMA InitInv == InterruptsInit => IInv
<1> SUFFICES ASSUME InterruptsInit PROVE IInv
  OBVIOUS
<1>1. TypeOK
  BY RecordTypes DEF InterruptsInit, TypeOK
<1>2. \A c \in Cores : InProgram(c) /\ InHandler(c)
  BY DEF InterruptsInit, InProgram, InHandler, Outside
<1>3. \A j \in Irqs : ~Enabled(j)
  BY BitsApart DEF InterruptsInit, Enabled
<1>4. HandledIsEnabled /\ NoNullCall
  BY DEF InterruptsInit, HandledIsEnabled, NoNullCall
<1> QED BY <1>1, <1>2, <1>3, <1>4 DEF IInv

\* What a program in a call is about to do: the code's four steps.
LEMMA ProgramStepIs ==
    ASSUME IInv, NEW c \in Cores, ProgramStep(c)
    PROVE  LET i == prog[c].irq
               r == Enables[i][1]
               b == Enables[i][2]
           IN  /\ i \in Irqs /\ prog[c].step \in 1 .. 4
               /\ \/ /\ prog[c].op = "register" /\ i \in Registering[c]
                     /\ handlers' = IF prog[c].step = 1 THEN handlers \cup {i} ELSE handlers
                     /\ clearers' = IF prog[c].step = 2 THEN clearers \cup {i} ELSE clearers
                     /\ enabled' = IF prog[c].step = 4
                                   THEN [enabled EXCEPT ![r] = @ \cup {b}] ELSE enabled
                  \/ /\ prog[c].op = "unregister" /\ i \in Unregistering[c]
                     /\ handlers' = IF prog[c].step = 1 THEN handlers \ {i} ELSE handlers
                     /\ clearers' = IF prog[c].step = 2 THEN clearers \ {i} ELSE clearers
                     /\ enabled' = IF prog[c].step = 4
                                   THEN [enabled EXCEPT ![r] = @ \ {b}] ELSE enabled
               /\ prog' = [prog EXCEPT ![c] =
                             IF prog[c].step = 4 THEN Idle
                             ELSE IF prog[c].step = 3
                             THEN [prog[c] EXCEPT !.step = 4, !.read = enabled[r]]
                             ELSE [prog[c] EXCEPT !.step = @ + 1]]
               /\ Runs(c) /\ UNCHANGED <<raised, isr, nullCall>>
<1> DEFINE i == prog[c].irq
           r == Enables[i][1]
           b == Enables[i][2]
<1>1. /\ prog[c].step \in 1 .. 4 /\ i \in Irqs
      /\ \/ /\ prog[c].op = "register" /\ i \in Registering[c]
         \/ /\ prog[c].op = "unregister" /\ i \in Unregistering[c]
      /\ prog[c].step = 4 => prog[c].read = enabled[r]
  <2>1. InProgram(c) /\ prog[c] # Idle
    BY DEF IInv, ProgramStep
  <2> QED BY <2>1, InterruptsAssumption DEF InProgram
<1>2. Control(i, CoreOf(i)) = <<r, b>>
  <2>1. Control(i, CoreOf(i)) = Enables[i]
    BY <1>1, ControlIsEnable
  <2>2. Enables[i] = <<r, b>>
    BY <1>1, EnableOf, Ranges, Twelves
  <2> QED BY <2>1, <2>2
<1>3. r \in EnableRegisters /\ enabled \in [EnableRegisters -> SUBSET (0 .. 31)]
  BY <1>1, BitsApart DEF IInv, TypeOK
<1>4. /\ Runs(c) /\ UNCHANGED <<raised, isr, nullCall>>
      /\ handlers' = IF CallSteps[prog[c].step] = "handler" THEN With(handlers, c) ELSE handlers
      /\ clearers' = IF CallSteps[prog[c].step] = "clearer" THEN With(clearers, c) ELSE clearers
      /\ prog' = [prog EXCEPT ![c] = IF CallSteps[prog[c].step] = "read"
                                     THEN [Advance(c) EXCEPT !.read = enabled[r]]
                                     ELSE Advance(c)]
      /\ enabled' = IF CallSteps[prog[c].step] # "write" THEN enabled
                    ELSE [enabled EXCEPT ![r] =
                            IF r = <<"BASIC", 0>> /\ prog[c].op = "register"
                            THEN @ \cup NewBits(c, b)
                            ELSE IF r = <<"BASIC", 0>> THEN @ \ {b}
                            ELSE NewBits(c, b)]
  BY <1>2 DEF ProgramStep
<1>5. /\ CallSteps[1] = "handler" /\ CallSteps[2] = "clearer"
      /\ CallSteps[3] = "read" /\ CallSteps[4] = "write"
  BY DEF CallSteps
<1>6. /\ handlers' = IF prog[c].step = 1 THEN With(handlers, c) ELSE handlers
      /\ clearers' = IF prog[c].step = 2 THEN With(clearers, c) ELSE clearers
  BY <1>1, <1>4, <1>5
<1>7. prog' = [prog EXCEPT ![c] =
                 IF prog[c].step = 4 THEN Idle
                 ELSE IF prog[c].step = 3
                 THEN [prog[c] EXCEPT !.step = 4, !.read = enabled[r]]
                 ELSE [prog[c] EXCEPT !.step = @ + 1]]
  <2>1. CASE prog[c].step = 3
    BY <1>4, <1>5, <2>1 DEF Advance
  <2>2. CASE prog[c].step # 3
    <3>1. CallSteps[prog[c].step] # "read"
      BY <1>1, <1>5, <2>2
    <3> QED BY <1>4, <2>2, <3>1 DEF Advance
  <2> QED BY <2>1, <2>2
<1>8. CASE prog[c].op = "register"
  <2>1. enabled' = IF prog[c].step = 4 THEN [enabled EXCEPT ![r] = @ \cup {b}] ELSE enabled
    <3>1. CASE prog[c].step = 4
      <4>1. NewBits(c, b) = enabled[r] \cup {b}
        BY <1>1, <1>8, <3>1 DEF NewBits
      <4>2. enabled[r] \cup (enabled[r] \cup {b}) = enabled[r] \cup {b}
        OBVIOUS
      <4> QED BY <1>4, <1>5, <1>8, <3>1, <4>1, <4>2
    <3>2. CASE prog[c].step # 4
      BY <1>1, <1>4, <1>5, <3>2
    <3> QED BY <3>1, <3>2
  <2> QED BY <1>1, <1>4, <1>6, <1>7, <1>8, <2>1 DEF With
<1>9. CASE prog[c].op = "unregister"
  <2>1. enabled' = IF prog[c].step = 4 THEN [enabled EXCEPT ![r] = @ \ {b}] ELSE enabled
    <3>1. CASE prog[c].step = 4
      <4>1. NewBits(c, b) = enabled[r] \ {b}
        BY <1>1, <1>9, <3>1 DEF NewBits
      <4> QED BY <1>4, <1>5, <1>9, <3>1, <4>1
    <3>2. CASE prog[c].step # 4
      BY <1>1, <1>4, <1>5, <3>2
    <3> QED BY <3>1, <3>2
  <2> QED BY <1>1, <1>4, <1>6, <1>7, <1>9, <2>1 DEF With
<1> QED BY <1>1, <1>8, <1>9
\* The programs of two cores have no interrupt and no register in common.
LEMMA Apart ==
    ASSUME CallersKeepApart, NEW c \in Cores, NEW d \in Cores \ {c},
           NEW j \in Uses(c), NEW k \in Uses(d)
    PROVE  j # k /\ Enables[j][1] # Enables[k][1]
<1>1. Enables[j][1] # Enables[k][1]
  BY DEF CallersKeepApart
<1> QED BY <1>1

LEMMA ProgramStepInv ==
    ASSUME CallersKeepApart, IInv, NEW c \in Cores, ProgramStep(c)
    PROVE  IInv'
<1> DEFINE p == prog[c]
           i == prog[c].irq
           r == Enables[i][1]
           b == Enables[i][2]
<1>1. /\ i \in Irqs /\ p.step \in 1 .. 4
      /\ \/ /\ p.op = "register" /\ i \in Registering[c]
            /\ handlers' = IF p.step = 1 THEN handlers \cup {i} ELSE handlers
            /\ clearers' = IF p.step = 2 THEN clearers \cup {i} ELSE clearers
            /\ enabled' = IF p.step = 4 THEN [enabled EXCEPT ![r] = @ \cup {b}] ELSE enabled
         \/ /\ p.op = "unregister" /\ i \in Unregistering[c]
            /\ handlers' = IF p.step = 1 THEN handlers \ {i} ELSE handlers
            /\ clearers' = IF p.step = 2 THEN clearers \ {i} ELSE clearers
            /\ enabled' = IF p.step = 4 THEN [enabled EXCEPT ![r] = @ \ {b}] ELSE enabled
      /\ prog' = [prog EXCEPT ![c] =
                    IF p.step = 4 THEN Idle
                    ELSE IF p.step = 3 THEN [p EXCEPT !.step = 4, !.read = enabled[r]]
                    ELSE [p EXCEPT !.step = @ + 1]]
      /\ Runs(c) /\ UNCHANGED <<raised, isr, nullCall>>
  BY ProgramStepIs
<1>2. TypeOK /\ InProgram(c) /\ p # Idle
  BY DEF IInv, ProgramStep
<1>3. r \in EnableRegisters /\ b \in 0 .. 31
  BY <1>1, BitsApart
<1>4. i \in Uses(c)
  BY <1>1 DEF Uses
<1>5. /\ p \in [op : {"none", "register", "unregister"}, irq : Irqs \cup {None},
                step : 0 .. 4, read : SUBSET (0 .. 31)]
      /\ enabled[r] \in SUBSET (0 .. 31)
  BY <1>2, <1>3 DEF TypeOK
<1>6. prog'[c] = IF p.step = 4 THEN Idle
                 ELSE IF p.step = 3 THEN [p EXCEPT !.step = 4, !.read = enabled[r]]
                 ELSE [p EXCEPT !.step = @ + 1]
  BY <1>1, <1>2 DEF TypeOK
<1>7. \/ p.step = 4 /\ prog'[c] = Idle
      \/ /\ p.step < 4 /\ prog'[c].op = p.op /\ prog'[c].irq = i
         /\ prog'[c].step = p.step + 1
         /\ p.step = 3 => prog'[c].read = enabled[r]
  <2>1. CASE p.step = 4
    BY <1>6, <2>1
  <2>2. CASE p.step = 3
    <3>1. prog'[c] = [p EXCEPT !.step = 4, !.read = enabled[r]]
      BY <1>6, <2>2
    <3> QED BY <1>5, <2>2, <3>1
  <2>3. CASE p.step \in 1 .. 2
    <3>1. prog'[c] = [p EXCEPT !.step = p.step + 1]
      BY <1>6, <2>3
    <3> QED BY <1>5, <2>3, <3>1
  <2> QED BY <1>1, <2>1, <2>2, <2>3
<1>8. \A d \in Cores \ {c} : prog'[d] = prog[d]
  BY <1>1, <1>2 DEF TypeOK
<1>9. TypeOK'
  <2>1. enabled' \in [EnableRegisters -> SUBSET (0 .. 31)]
    <3>1. enabled \in [EnableRegisters -> SUBSET (0 .. 31)]
      BY <1>2 DEF TypeOK
    <3>2. CASE enabled' = enabled
      BY <3>1, <3>2
    <3>3. ASSUME NEW X \in SUBSET (0 .. 31), enabled' = [enabled EXCEPT ![r] = X]
          PROVE  enabled' \in [EnableRegisters -> SUBSET (0 .. 31)]
      BY <3>1, <3>3
    <3> QED BY <1>1, <1>2, <1>3, <1>5, <3>1, <3>2, <3>3
  <2>2. prog'[c] \in [op : {"none", "register", "unregister"}, irq : Irqs \cup {None},
                      step : 0 .. 4, read : SUBSET (0 .. 31)]
    <3>1. CASE p.step = 4
      BY <1>6, <3>1, RecordTypes
    <3>2. CASE p.step = 3
      <4>1. prog'[c] = [p EXCEPT !.step = 4, !.read = enabled[r]]
        BY <1>6, <3>2
      <4>2. 4 \in 0 .. 4
        OBVIOUS
      <4>3. [p EXCEPT !.read = enabled[r]]
              \in [op : {"none", "register", "unregister"}, irq : Irqs \cup {None},
                  step : 0 .. 4, read : SUBSET (0 .. 31)]
        BY <1>5
      <4>4. prog'[c] = [[p EXCEPT !.read = enabled[r]] EXCEPT !.step = 4]
        BY <1>5, <4>1
      <4> QED BY <4>2, <4>3, <4>4
    <3>3. CASE p.step \in 1 .. 2
      <4>1. prog'[c] = [p EXCEPT !.step = p.step + 1] /\ p.step + 1 \in 0 .. 4
        BY <1>6, <3>3
      <4> QED BY <1>5, <4>1
    <3> QED BY <1>1, <3>1, <3>2, <3>3
  <2>3. prog' \in [Cores -> [op : {"none", "register", "unregister"}, irq : Irqs \cup {None},
                             step : 0 .. 4, read : SUBSET (0 .. 31)]]
    BY <1>1, <1>2, <1>6, <2>2 DEF TypeOK
  <2>4. handlers' \subseteq Irqs /\ clearers' \subseteq Irqs
    BY <1>1, <1>2 DEF TypeOK
  <2> QED BY <1>1, <1>2, <2>1, <2>3, <2>4 DEF TypeOK
<1>10. ASSUME NEW j \in Irqs, j # i
       PROVE  /\ (j \in handlers') = (j \in handlers) /\ (j \in clearers') = (j \in clearers)
              /\ Enabled(j)' = Enabled(j)
              /\ Clearing(j)' = Clearing(j)
              /\ InCall(j, "register")' = InCall(j, "register")
  <2>1. Enabled(j)' = Enabled(j)
    <3>1. Enables[j][1] \in EnableRegisters /\ (Enables[j][1] = r => Enables[j][2] # b)
      BY <1>1, <1>10, BitsApart
    <3> QED BY <1>1, <1>2, <1>3, <3>1 DEF Enabled, TypeOK
  <2>2. prog'[c].irq # j /\ prog[c].irq # j
    BY <1>7, <1>10, RecordTypes DEF Idle
  <2>3. Clearing(j)' = Clearing(j) /\ InCall(j, "register")' = InCall(j, "register")
    BY <1>8, <2>2 DEF Clearing, InCall
  <2> QED BY <1>1, <1>10, <2>1, <2>3
<1>11. ASSUME NEW d \in Cores PROVE InProgram(d)'
  <2>1. CASE d = c
    <3>1. CASE p.step = 4
      BY <1>7, <2>1, <3>1 DEF InProgram
    <3>2. CASE p.step < 4 /\ p.op = "register"
      <4>1. i \in handlers' /\ (p.step >= 2 => i \in clearers') /\ enabled' = enabled
        BY <1>1, <1>2, <3>2 DEF InProgram
      <4> QED BY <1>1, <1>7, <2>1, <3>2, <4>1 DEF InProgram
    <3>3. CASE p.step < 4 /\ p.op = "unregister"
      <4>1. i \notin handlers' /\ enabled' = enabled
        BY <1>1, <1>2, <3>3 DEF InProgram
      <4> QED BY <1>1, <1>7, <2>1, <3>3, <4>1 DEF InProgram
    <3> QED BY <1>1, <3>1, <3>2, <3>3
  <2>2. CASE d # c
    <3>1. InProgram(d) /\ prog'[d] = prog[d]
      BY <1>8, <2>2 DEF IInv
    <3>2. CASE prog[d] = Idle
      BY <3>1, <3>2 DEF InProgram
    <3>3. CASE prog[d] # Idle
      <4> DEFINE k == prog[d].irq
      <4>1. k \in Uses(d) /\ k \in Irqs
        BY <3>1, <3>3, InterruptsAssumption DEF InProgram, Uses
      <4>2. k # i /\ Enables[k][1] # r
        BY <1>4, <2>2, <4>1, Apart
      <4>3. enabled'[Enables[k][1]] = enabled[Enables[k][1]]
        <5>1. Enables[k][1] \in EnableRegisters
          BY <4>1, BitsApart
        <5> QED BY <1>1, <1>2, <1>3, <4>2, <5>1 DEF TypeOK
      <4>4. (k \in handlers') = (k \in handlers) /\ (k \in clearers') = (k \in clearers)
        BY <1>10, <4>1, <4>2
      <4> QED BY <3>1, <3>3, <4>3, <4>4 DEF InProgram
    <3> QED BY <3>2, <3>3
  <2> QED BY <2>1, <2>2
<1>12. ASSUME NEW d \in Cores PROVE InHandler(d)'
  <2>1. InHandler(d) /\ isr' = isr
    BY <1>1 DEF IInv
  <2>2. CASE isr[d].at \notin {"clear", "handle"}
    BY <2>1, <2>2 DEF InHandler
  <2>3. CASE isr[d].at \in {"clear", "handle"}
    <3>1. d # c
      BY <1>1, <2>3 DEF Runs, Outside
    <3>2. isr[d].j \in Irqs /\ CoreOf(isr[d].j) = d
      BY <2>1, <2>3 DEF InHandler
    <3>3. isr[d].j \in handlers => isr[d].j \in handlers'
      BY <1>1, <3>1, <3>2 DEF CallersKeepApart
    <3>4. isr[d].j \in clearers => isr[d].j \in clearers'
      BY <1>1, <3>1, <3>2 DEF CallersKeepApart
    <3> QED BY <2>1, <3>2, <3>3, <3>4 DEF InHandler
  <2> QED BY <2>2, <2>3
<1>13. ASSUME NEW j \in Irqs, Enabled(j)', ~Clearing(j)'
       PROVE  j \in handlers' \cap clearers'
  <2>1. CASE j # i
    BY <1>10, <1>13, <2>1 DEF IInv
  <2>2. CASE j = i /\ p.op = "register" /\ p.step < 4
    <3>1. enabled' = enabled
      BY <1>1, <2>2
    <3>2. ~Clearing(i)
      <4>1. SUFFICES ASSUME NEW d \in Cores, prog[d].irq = i, prog[d].op = "unregister"
                     PROVE  FALSE
        BY DEF Clearing
      <4>2. d # c
        BY <2>2, <4>1
      <4>3. i \in Uses(d)
        <5>1. InProgram(d)
          BY DEF IInv
        <5> QED BY <1>1, <4>1, <5>1, RecordTypes DEF InProgram, Uses, Idle
      <4> QED BY <1>4, <4>2, <4>3, Apart
    <3>3. i \in handlers /\ i \in clearers
      BY <1>13, <2>2, <3>1, <3>2 DEF IInv, Enabled
    <3> QED BY <1>1, <2>2, <3>3
  <2>3. CASE j = i /\ p.op = "register" /\ p.step = 4
    BY <1>1, <1>2, <2>3 DEF InProgram
  <2>4. CASE j = i /\ p.op = "unregister" /\ p.step < 4
    <3>1. Clearing(j)'
      BY <1>1, <1>7, <2>4 DEF Clearing
    <3> QED BY <1>13, <2>4, <3>1
  <2>5. CASE j = i /\ p.op = "unregister" /\ p.step = 4
    <3>1. b \notin enabled'[r]
      BY <1>1, <1>2, <1>3, <2>5 DEF TypeOK
    <3> QED BY <1>13, <2>5, <3>1 DEF Enabled
  <2> QED BY <1>1, <2>1, <2>2, <2>3, <2>4, <2>5
<1>14. ASSUME NEW j \in handlers', ~InCall(j, "register")'
       PROVE  Enabled(j)'
  <2>0. j \in Irqs
    BY <1>9 DEF TypeOK
  <2>1. CASE j # i
    BY <1>10, <1>14, <2>0, <2>1 DEF IInv, HandledIsEnabled
  <2>2. CASE j = i /\ p.op = "register" /\ p.step < 4
    <3>1. InCall(j, "register")'
      BY <1>7, <2>2 DEF InCall
    <3> QED BY <1>14, <2>2, <3>1
  <2>3. CASE j = i /\ p.op = "register" /\ p.step = 4
    BY <1>1, <1>2, <1>3, <2>3 DEF TypeOK, Enabled
  <2>4. CASE j = i /\ p.op = "unregister"
    <3>1. i \notin handlers'
      BY <1>1, <1>2, <2>4 DEF InProgram
    <3> QED BY <1>14, <2>4, <3>1
  <2> QED BY <1>1, <2>1, <2>2, <2>3, <2>4
<1>15. NoNullCall'
  BY <1>1 DEF IInv, NoNullCall
<1> QED BY <1>9, <1>11, <1>12, <1>13, <1>14, <1>15 DEF IInv, HandledIsEnabled
--------------------------------------------------------------------------------
(* Calls, devices and irq_handler(). *)

LEMMA CallInv ==
    ASSUME IInv, NEW c \in Cores, Call(c)
    PROVE  IInv'
<1>1. PICK call \in {"register"} \X Registering[c] \cup {"unregister"} \X Unregistering[c] :
        prog' = [prog EXCEPT ![c] = [op |-> call[1], irq |-> call[2], step |-> 1, read |-> {}]]
  BY DEF Call
<1>2. /\ UNCHANGED <<handlers, clearers, enabled, raised, isr, nullCall>>
      /\ prog[c] = Idle /\ TypeOK
  BY DEF Call, IInv
<1>3. \/ call[1] = "register" /\ call[2] \in Registering[c]
      \/ call[1] = "unregister" /\ call[2] \in Unregistering[c]
  BY <1>1
<1>4. call[2] \in Irqs
  BY <1>3, InterruptsAssumption
<1> DEFINE q == [op |-> call[1], irq |-> call[2], step |-> 1, read |-> {}]
<1>5. prog' = [prog EXCEPT ![c] = q]
  BY <1>1
<1>6. q \in [op : {"none", "register", "unregister"}, irq : Irqs \cup {None},
             step : 0 .. 4, read : SUBSET (0 .. 31)]
  BY <1>3, <1>4
<1>7. prog'[c] = q /\ \A d \in Cores \ {c} : prog'[d] = prog[d]
  BY <1>2, <1>5 DEF TypeOK
<1>8. TypeOK'
  BY <1>2, <1>5, <1>6 DEF TypeOK
<1>9. ASSUME NEW d \in Cores PROVE InProgram(d)' /\ InHandler(d)'
  <2>1. InHandler(d)'
    BY <1>2 DEF IInv, InHandler
  <2>2. CASE d = c
    BY <1>3, <1>7, <2>1, <2>2 DEF InProgram
  <2>3. CASE d # c
    BY <1>2, <1>7, <2>1, <2>3 DEF IInv, InProgram
  <2> QED BY <2>2, <2>3
<1>10. ASSUME NEW j \in Irqs
       PROVE  /\ Clearing(j) => Clearing(j)'
              /\ InCall(j, "register") => InCall(j, "register")'
              /\ Enabled(j)' = Enabled(j)
  <2>1. Enabled(j)' = Enabled(j)
    BY <1>2 DEF Enabled
  <2>2. Clearing(j) => Clearing(j)'
    BY <1>2, <1>7 DEF Clearing, Idle
  <2>3. InCall(j, "register") => InCall(j, "register")'
    BY <1>2, <1>7 DEF InCall, Idle
  <2> QED BY <2>1, <2>2, <2>3
<1>11. ASSUME NEW j \in Irqs, Enabled(j)', ~Clearing(j)'
       PROVE  j \in handlers' \cap clearers'
  BY <1>2, <1>10, <1>11 DEF IInv
<1>12. HandledIsEnabled'
  <2> SUFFICES ASSUME NEW j \in handlers', ~InCall(j, "register")' PROVE Enabled(j)'
    BY DEF HandledIsEnabled
  <2> QED BY <1>2, <1>10 DEF IInv, HandledIsEnabled, TypeOK
<1>13. NoNullCall'
  BY <1>2 DEF IInv, NoNullCall
<1> QED BY <1>8, <1>9, <1>11, <1>12, <1>13 DEF IInv

\* irq_handler() and the devices leave the tables and the enable bits alone.
LEMMA TablesStay ==
    ASSUME IInv, UNCHANGED <<handlers, clearers, enabled, prog>>, TypeOK', NoNullCall',
           \A c \in Cores : InHandler(c)'
    PROVE  IInv'
<1>1. \A c \in Cores : InProgram(c)'
  BY DEF IInv, InProgram
<1>2. \A j \in Irqs : Enabled(j)' = Enabled(j) /\ Clearing(j)' = Clearing(j)
                       /\ InCall(j, "register")' = InCall(j, "register")
  BY DEF Enabled, Clearing, InCall
<1>3. \A j \in Irqs : Enabled(j)' /\ ~Clearing(j)' => j \in handlers' \cap clearers'
  BY <1>2 DEF IInv
<1>4. HandledIsEnabled'
  <2> SUFFICES ASSUME NEW j \in handlers', ~InCall(j, "register")' PROVE Enabled(j)'
    BY DEF HandledIsEnabled
  <2> QED BY <1>2 DEF IInv, HandledIsEnabled, TypeOK
<1> QED BY <1>1, <1>3, <1>4 DEF IInv

\* Core c's irq_handler() goes on as x.
LEMMA IsrMoves ==
    ASSUME IInv, NEW c \in Cores,
           NEW x \in [j : -1 .. 120, at : {"none", "scan", "clear", "handle"}],
           isr' = [isr EXCEPT ![c] = x], UNCHANGED <<handlers, clearers, enabled, prog>>,
           raised' \subseteq Irqs, nullCall' = FALSE,
           x.at \in {"clear", "handle"} => x.j \in handlers /\ CoreOf(x.j) = c,
           x.at = "clear" => x.j \in clearers
    PROVE  IInv'
<1>1. TypeOK
  BY DEF IInv
<1>2. TypeOK' /\ NoNullCall'
  BY <1>1 DEF TypeOK, NoNullCall
<1>3. isr'[c] = x /\ \A d \in Cores \ {c} : isr'[d] = isr[d]
  BY <1>1 DEF TypeOK
<1>4. ASSUME NEW d \in Cores PROVE InHandler(d)'
  <2>1. CASE d = c
    BY <1>1, <1>3, <2>1 DEF InHandler, TypeOK
  <2>2. CASE d # c
    <3>1. InHandler(d) /\ isr'[d] = isr[d]
      BY <1>3, <2>2 DEF IInv
    <3> QED BY <3>1 DEF InHandler
  <2> QED BY <2>1, <2>2
<1> QED BY <1>2, <1>4, TablesStay

\* What the scan of core c finds arrives at c, and both entries are there: the
\* unregister_irq_handler() that removes the clearer has removed the handler first.
LEMMA FoundIs ==
    ASSUME IInv, NEW c \in Cores, NEW j \in Irqs, Found(j, c)
    PROVE  CoreOf(j) = c /\ j \in handlers \cap clearers
<1>1. j \in 64 .. 119 /\ is_pending(j, c) /\ j \in handlers
  BY Ranges DEF Found
<1>2. ASSUME NEW n \in Source(c), n # 8 \/ c # 0
      PROVE  \E i \in Asserted : CoreOf(i) = c /\ n = i - 72 - 12 * c
  BY <1>2 DEF Source
<1>3. c \in 0 .. 3
  BY InterruptsAssumption
<1>4. Asserted \subseteq Irqs
  BY DEF Asserted, IInv, TypeOK
<1>5. ASSUME c # 0 PROVE CoreOf(j) = c /\ j \in Asserted
  <2>1. j - (72 + 12 * c) \in Source(c)
    BY <1>1, <1>5 DEF is_pending
  <2>2. PICK i \in Asserted : CoreOf(i) = c /\ j - (72 + 12 * c) = i - 72 - 12 * c
    BY <1>2, <1>5, <2>1
  <2>3. i \in 64 .. 119
    BY <1>4, Ranges
  <2>4. i = j
    BY <1>1, <1>3, <2>2, <2>3
  <2> QED BY <2>2, <2>4
<1>6. ASSUME c = 0, IRQ_IS_BASIC(j), j \in Asserted PROVE CoreOf(j) = c /\ j \in Asserted
  BY <1>6 DEF CoreOf
<1>7. ASSUME c = 0, IRQ_IS_ARM_CONTROL(j), j - 72 \in Source(0)
      PROVE  CoreOf(j) = c /\ j \in Asserted
  <2>1. j # 80
    BY Ranges
  <2>2. j - 72 # 8
    BY <1>1, <2>1
  <2>3. PICK i \in Asserted : CoreOf(i) = c /\ j - 72 = i - 72 - 12 * c
    BY <1>2, <1>7, <2>2
  <2>4. i \in 64 .. 119
    BY <1>4, Ranges
  <2>5. i = j
    BY <1>1, <1>7, <2>3, <2>4
  <2> QED BY <2>3, <2>5
<1>8. CoreOf(j) = c /\ j \in Asserted
  BY <1>1, <1>5, <1>6, <1>7 DEF is_pending
<1>9. ~Clearing(j)
  BY <1>1 DEF IInv, Clearing, InProgram, Idle
<1> QED BY <1>1, <1>8, <1>9 DEF IInv, Asserted

LEMMA IsrInv ==
    ASSUME IInv, NEW c \in Cores, Isr(c)
    PROVE  IInv'
<1>1. /\ TypeOK /\ InHandler(c) /\ nullCall = FALSE
      /\ isr[c] \in [j : -1 .. 120, at : {"none", "scan", "clear", "handle"}]
  BY DEF IInv, TypeOK, NoNullCall
<1>2. raised \subseteq Irqs
  BY <1>1 DEF TypeOK
<1>3. CASE TakeIrq(c)
  <2> DEFINE x == [j |-> FirstIrq(c), at |-> "scan"]
  <2>1. FirstIrq(c) \in -1 .. 120
    BY InterruptsAssumption DEF FirstIrq
  <2>2. x \in [j : -1 .. 120, at : {"none", "scan", "clear", "handle"}]
    BY <2>1
  <2> QED BY <1>1, <1>2, <1>3, <2>2, IsrMoves DEF TakeIrq
<1>4. CASE Scan(c)
  <2> DEFINE rest == {j \in Irqs : isr[c].j <= j /\ j < LastIrq(c)}
  <2>1. CASE isr' = [isr EXCEPT ![c] = Outside]
    <3>1. Outside.at = "none"
      BY DEF Outside
    <3> QED BY <1>1, <1>2, <1>4, <2>1, <3>1, RecordTypes, IsrMoves DEF Scan
  <2>2. ASSUME NEW j \in rest,
               isr' = [isr EXCEPT ![c] = IF Found(j, c) THEN [j |-> j, at |-> "clear"]
                                         ELSE [j |-> j + 1, at |-> "scan"]]
        PROVE  IInv'
    <3>1. j \in Irqs /\ j \in 64 .. 119
      BY Ranges
    <3>2. CASE Found(j, c)
      <4> DEFINE x == [j |-> j, at |-> "clear"]
      <4>1. x \in [j : -1 .. 120, at : {"none", "scan", "clear", "handle"}]
        BY <3>1
      <4>2. CoreOf(j) = c /\ j \in handlers /\ j \in clearers
        BY <3>1, <3>2, FoundIs
      <4>3. isr' = [isr EXCEPT ![c] = x]
        BY <2>2, <3>2
      <4> QED BY <1>1, <1>2, <1>4, <4>1, <4>2, <4>3, IsrMoves DEF Scan
    <3>3. CASE ~Found(j, c)
      <4> DEFINE x == [j |-> j + 1, at |-> "scan"]
      <4>1. x \in [j : -1 .. 120, at : {"none", "scan", "clear", "handle"}]
        BY <3>1
      <4>2. isr' = [isr EXCEPT ![c] = x]
        BY <2>2, <3>3
      <4> QED BY <1>1, <1>2, <1>4, <4>1, <4>2, IsrMoves DEF Scan
    <3> QED BY <3>2, <3>3
  <2> QED BY <1>4, <2>1, <2>2 DEF Scan
<1>5. CASE Clear(c)
  <2> DEFINE x == [isr[c] EXCEPT !.at = "handle"]
  <2>1. x \in [j : -1 .. 120, at : {"none", "scan", "clear", "handle"}]
    BY <1>1
  <2>2. /\ isr[c].j \in handlers /\ isr[c].j \in clearers /\ CoreOf(isr[c].j) = c
        /\ x.j = isr[c].j /\ x.at = "handle"
    BY <1>1, <1>5 DEF Clear, InHandler
  <2>3. isr' = [isr EXCEPT ![c] = x] /\ nullCall' = FALSE /\ raised' \subseteq Irqs
    BY <1>1, <1>2, <1>5, <2>2 DEF Clear
  <2> QED BY <1>5, <2>1, <2>2, <2>3, IsrMoves DEF Clear
<1>6. CASE Handle(c)
  <2> DEFINE x == [j |-> isr[c].j + 1, at |-> "scan"]
  <2>1. isr[c].j \in Irqs /\ isr[c].j \in handlers
    BY <1>1, <1>6 DEF Handle, InHandler
  <2>2. x \in [j : -1 .. 120, at : {"none", "scan", "clear", "handle"}]
    BY <2>1, Ranges
  <2>3. isr' = [isr EXCEPT ![c] = x] /\ nullCall' = FALSE
    BY <1>1, <1>6, <2>1 DEF Handle
  <2> QED BY <1>2, <1>6, <2>2, <2>3, IsrMoves DEF Handle
<1> QED BY <1>3, <1>4, <1>5, <1>6 DEF Isr

LEMMA RaiseInv ==
    ASSUME IInv, NEW j \in Irqs, Raise(j)
    PROVE  IInv'
<1>1. TypeOK' /\ NoNullCall'
  BY DEF IInv, TypeOK, NoNullCall, Raise
<1>2. \A c \in Cores : InHandler(c)'
  BY DEF IInv, InHandler, Raise
<1> QED BY <1>1, <1>2, TablesStay DEF Raise

LEMMA NextInv ==
    ASSUME CallersKeepApart, IInv, [InterruptsNext]_interruptVars
    PROVE  IInv'
<1>1. ASSUME UNCHANGED interruptVars PROVE IInv'
  <2>1. TypeOK' /\ NoNullCall' /\ \A c \in Cores : InHandler(c)'
    BY <1>1 DEF interruptVars, IInv, TypeOK, NoNullCall, InHandler
  <2> QED BY <1>1, <2>1, TablesStay DEF interruptVars
<1> QED BY <1>1, CallInv, ProgramStepInv, IsrInv, RaiseInv DEF InterruptsNext

--------------------------------------------------------------------------------
(* The theorems. *)

\* While programs and irq_handler() of all cores take their steps in any order, the
\* two tables and the enable bits stay in the relation that IInv states.
THEOREM Invariance ==
    ASSUME CallersKeepApart
    PROVE  InterruptsSpec => []IInv
<1>1. InterruptsInit => IInv
  BY InitInv
<1>2. IInv /\ [InterruptsNext]_interruptVars => IInv'
  BY NextInv
<1> QED BY <1>1, <1>2, PTL DEF InterruptsSpec

\* No interrupt is let through whose handler or clearer is missing, a registered one
\* stays enabled, and irq_handler() never calls through an empty entry: although
\* nothing is locked, when no enable register is written by the programs of two cores
\* and each core unregisters its own interrupts only.
THEOREM TablesAgree ==
    ASSUME CallersKeepApart
    PROVE  InterruptsSpec => []TablesFit
<1>1. IInv => TablesFit
  <2> SUFFICES ASSUME IInv PROVE EnabledIsHandled
    BY DEF IInv, TablesFit
  <2>1. \A j \in Irqs : Clearing(j) => InCall(j, "unregister")
    BY DEF Clearing, InCall
  <2> QED BY <2>1 DEF IInv, EnabledIsHandled
<1> QED BY <1>1, Invariance, PTL
================================================================================
