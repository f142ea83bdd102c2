-------------------------- MODULE CoreMailboxes_proofs --------------------------
(* Theorems about CoreMailboxes, for every number of cores and rounds and any *)
(* addresses, under SlowStart.                                                *)
EXTENDS CoreMailboxes, TLAPS

\* The addresses differ from each other and from an empty mailbox.
LEMMA AddressFacts ==
    /\ "irq" \in Functions /\ "mmu" \in Functions /\ "threads" \in Functions
    /\ "join" \notin Functions /\ "halt" \notin Functions
    /\ \A f \in Functions : Address[f] \in SUBSET Bits /\ Address[f] # {}
    /\ Address["irq"] # Address["mmu"] /\ Address["irq"] # Address["threads"]
    /\ Address["mmu"] # Address["threads"]
BY AddressAssumption DEF Functions

LEMMA InitInv == Init => IInv
<1> SUFFICES ASSUME Init PROVE IInv
  OBVIOUS
<1>1. TypeOK
  BY AddressFacts, RoundsAssumption DEF Init, TypeOK
<1>2. Booting /\ \A c \in Others : BootCore(c)
  BY AddressFacts DEF Init, Booting, BootCore, BeforePost, Looks
<1> QED BY <1>1, <1>2, AddressFacts DEF Init, IInv

--------------------------------------------------------------------------------
(* The steps of a secondary core. *)

\* A step of a secondary core keeps the types, and touches no other core.
LEMMA StepFrame ==
    ASSUME TypeOK, NEW c \in Others, Step(c)
    PROVE  /\ TypeOK'
           /\ UNCHANGED progVars
           /\ \A d \in Others \ {c} :
                /\ mailbox'[d] = mailbox[d] /\ event'[d] = event[d] /\ pc'[d] = pc[d]
                /\ w4'[d] = w4[d] /\ irqOn'[d] = irqOn[d] /\ mmuOn'[d] = mmuOn[d]
                /\ work'[d] = work[d]
<1> USE DEF TypeOK, progVars, Goto
<1>1. CASE StartSleep(c)
  BY <1>1 DEF StartSleep, Read
<1>2. CASE CleanMailbox(c)
  BY <1>2 DEF CleanMailbox, Clear
<1>3. CASE Wfe(c)
  BY <1>3 DEF Wfe
<1>4. CASE ReadMailbox(c)
  BY <1>4 DEF ReadMailbox, Read
<1>5. CASE ClearMailbox(c)
  BY <1>5 DEF ClearMailbox, Clear
<1>6. CASE Call(c)
  BY <1>6 DEF Call
<1>7. CASE FinishWork(c)
  BY <1>7 DEF FinishWork
<1>8. CASE LeaveThreads(c)
  BY <1>8 DEF LeaveThreads
<1>9. CASE ReturnFromThreads(c)
  BY <1>9 DEF ReturnFromThreads
<1> QED BY <1>1, <1>2, <1>3, <1>4, <1>5, <1>6, <1>7, <1>8, <1>9 DEF Step, Serve

\* While core 0 boots, a core that steps goes on with the function before.
LEMMA BootStep ==
    ASSUME IInv, Booting, NEW c \in Others, Step(c)
    PROVE  BootCore(c)'
<1> USE AddressFacts
<1>1. TypeOK /\ TypeOK' /\ UNCHANGED progVars
  BY StepFrame DEF IInv
<1>2. stage \in {"irq", "mmu", "threads"} /\ stage' = stage /\ posts' = posts
  BY <1>1 DEF progVars, Booting, Functions
<1>3. BootCore(c)
  BY DEF IInv
<1> USE DEF TypeOK, Goto, Settled, Looks, Handles
<1>4. posts = Others
  <2> SUFFICES ASSUME posts # Others PROVE FALSE
    OBVIOUS
  <2>1. pc[c] = "wfe" /\ ~event[c]
    BY <1>3 DEF BootCore, WhilePosting
  <2> QED BY <2>1 DEF Step, Serve, StartSleep, CleanMailbox, Wfe, ReadMailbox,
                      ClearMailbox, Call, FinishWork, LeaveThreads, ReturnFromThreads
<1>5. BeforePost(c) /\ work[c] = (stage = "threads")
  BY <1>3, <1>4 DEF BootCore
<1>6. pc[c] \in {"start", "clean", "wfe", "read", "clear", "call"}
  BY <1>2, <1>5 DEF BeforePost
<1>7. BeforePost(c)' /\ work'[c] = work[c]
  <2>1. CASE StartSleep(c)
    BY <1>1, <1>2, <1>5, <2>1 DEF StartSleep, Read, BeforePost
  <2>2. CASE CleanMailbox(c)
    BY <1>1, <1>2, <1>5, <2>2 DEF CleanMailbox, Clear, BeforePost
  <2>3. CASE Wfe(c)
    BY <1>1, <1>2, <1>5, <2>3 DEF Wfe, BeforePost
  <2>4. CASE ReadMailbox(c)
    BY <1>1, <1>2, <1>5, <2>4 DEF ReadMailbox, Read, BeforePost
  <2>5. CASE ClearMailbox(c)
    <3>1. pc[c] = "clear" /\ mailbox' = [mailbox EXCEPT ![c] = @ \ w4[c]]
          /\ pc' = [pc EXCEPT ![c] = "call"] /\ UNCHANGED <<event, w4, irqOn, mmuOn, work>>
      BY <2>5 DEF ClearMailbox, Clear
    <3>2. mailbox[c] = w4[c] /\ stage # "irq"
      BY <1>2, <1>5, <3>1 DEF BeforePost
    <3>3. mailbox'[c] = {} /\ pc'[c] = "call"
      BY <1>1, <3>1, <3>2
    <3> QED BY <1>1, <1>2, <1>5, <3>1, <3>2, <3>3 DEF BeforePost
  <2>6. CASE Call(c)
    BY <1>1, <1>2, <1>5, <2>6 DEF Call, BeforePost
  <2> QED BY <1>6, <2>1, <2>2, <2>3, <2>4, <2>5, <2>6
          DEF Step, Serve, FinishWork, LeaveThreads, ReturnFromThreads
<1> QED BY <1>2, <1>4, <1>5, <1>7 DEF BootCore

\* In the rounds a core that steps goes on with its work.
LEMMA WorkStep ==
    ASSUME IInv, ~Booting, NEW c \in Others, Step(c)
    PROVE  WorkCore(c)'
<1> USE AddressFacts
<1>1. TypeOK /\ TypeOK' /\ UNCHANGED progVars
  BY StepFrame DEF IInv
<1>2. stage' = stage /\ posts' = posts
  BY <1>1 DEF progVars
<1>3. WorkCore(c)
  BY DEF IInv
<1> USE DEF TypeOK, Goto
<1>4. pc[c] \in {"wfe", "read", "return", "reboot", "clear", "call", "threads"}
  BY <1>3 DEF WorkCore
<1>5. CASE Wfe(c)
  BY <1>1, <1>2, <1>3, <1>5 DEF Wfe, WorkCore
<1>6. CASE ReadMailbox(c)
  BY <1>1, <1>2, <1>3, <1>6 DEF ReadMailbox, Read, WorkCore
<1>7. CASE ClearMailbox(c)
  BY <1>1, <1>2, <1>3, <1>7 DEF ClearMailbox, Clear, WorkCore
<1>8. CASE Call(c)
  BY <1>1, <1>2, <1>3, <1>8 DEF Call, WorkCore
<1>9. CASE FinishWork(c)
  BY <1>1, <1>2, <1>3, <1>9 DEF FinishWork, WorkCore
<1>10. CASE LeaveThreads(c)
  BY <1>1, <1>2, <1>3, <1>10 DEF LeaveThreads, WorkCore
<1>11. CASE ReturnFromThreads(c)
  BY <1>1, <1>2, <1>3, <1>11 DEF ReturnFromThreads, WorkCore
<1> QED BY <1>4, <1>5, <1>6, <1>7, <1>8, <1>9, <1>10, <1>11
        DEF Step, Serve, StartSleep, CleanMailbox

LEMMA StepInv ==
    ASSUME IInv, NEW c \in Others, Step(c)
    PROVE  IInv'
<1>1. /\ TypeOK'
      /\ UNCHANGED progVars
      /\ \A d \in Others \ {c} :
           /\ mailbox'[d] = mailbox[d] /\ event'[d] = event[d] /\ pc'[d] = pc[d]
           /\ w4'[d] = w4[d] /\ irqOn'[d] = irqOn[d] /\ mmuOn'[d] = mmuOn[d]
           /\ work'[d] = work[d]
  BY StepFrame DEF IInv
<1>2. Booting' = Booting
  BY <1>1 DEF progVars, Booting
<1>3. CASE Booting
  <2>1. ASSUME NEW d \in Others \ {c} PROVE BootCore(d)'
    <3>1. BootCore(d)
      BY <1>3 DEF IInv
    <3> QED BY <1>1, <3>1 DEF progVars, BootCore, BeforePost, WhilePosting, Handles,
                              Looks, Settled
  <2> QED BY <1>1, <1>2, <1>3, <2>1, BootStep DEF IInv, progVars
<1>4. CASE ~Booting
  <2>1. ASSUME NEW d \in Others \ {c} PROVE WorkCore(d)'
    <3>1. WorkCore(d)
      BY <1>4 DEF IInv
    <3> QED BY <1>1, <3>1 DEF progVars, WorkCore
  <2> QED BY <1>1, <1>2, <1>4, <2>1, WorkStep DEF IInv, progVars
<1> QED BY <1>3, <1>4

--------------------------------------------------------------------------------
(* The steps of core 0. *)

\* The first post of a stage finds all cores asleep, the function before called.
LEMMA PostInv ==
    ASSUME SlowStart, IInv, NEW c \in Others, Post(c)
    PROVE  IInv'
<1> USE AddressFacts
<1>1. /\ c \in posts /\ posts' = posts \ {c} /\ posts' # Others
      /\ mailbox' = [mailbox EXCEPT ![c] = @ \cup Address[stage]]
      /\ UNCHANGED <<event, coreVars, work, stage, round>>
  BY DEF Post
<1>2. TypeOK /\ stage \in Functions
  BY <1>1 DEF IInv
<1>3. TypeOK'
  BY <1>1, <1>2 DEF TypeOK, coreVars
<1>4. Booting' = Booting
  BY <1>1 DEF Booting
<1> USE <1>1, <1>2 DEF TypeOK, coreVars
<1>5. CASE Booting
  <2>1. ASSUME NEW d \in Others PROVE BootCore(d)'
    <3>1. BootCore(d) /\ stage \in {"irq", "mmu", "threads"}
      BY <1>5 DEF IInv, Functions
    <3>2. WhilePosting(d)
      <4>1. CASE posts # Others
        BY <3>1, <4>1 DEF BootCore
      <4>2. CASE posts = Others
        <5>1. Settled(d)
          BY <1>5, <4>2 DEF Post, Booting
        <5> QED BY <3>1, <4>2, <5>1 DEF BootCore, BeforePost, WhilePosting, Settled,
                                        Looks, Handles
      <4> QED BY <4>1, <4>2
    <3>3. WhilePosting(d)'
      BY <3>1, <3>2 DEF WhilePosting, Settled
    <3> QED BY <3>1, <3>3 DEF BootCore
  <2> QED BY <1>3, <1>4, <1>5, <2>1 DEF IInv
<1>6. CASE ~Booting
  <2>1. stage = "threads"
    BY <1>6, RoundsAssumption DEF IInv, Booting
  <2>2. ASSUME NEW d \in Others PROVE WorkCore(d)'
    <3>1. WorkCore(d)
      BY <1>6 DEF IInv
    <3> QED BY <2>1, <3>1 DEF WorkCore
  <2> QED BY <1>3, <1>4, <1>6, <2>2 DEF IInv
<1> QED BY <1>5, <1>6

LEMMA WakeInv ==
    ASSUME SlowStart, IInv, WakeCores
    PROVE  IInv'
<1> USE AddressFacts
<1>1. /\ stage \in Functions /\ posts = {} /\ event' = [d \in Others |-> TRUE]
      /\ stage' = [irq |-> "mmu", mmu |-> "threads", threads |-> "join"][stage]
      /\ posts' = IF stage' = "join" THEN {} ELSE Others
      /\ work' = IF stage' = "threads" THEN [d \in Others |-> TRUE] ELSE work
      /\ UNCHANGED <<mailbox, coreVars, round>>
  BY DEF WakeCores, Woken, After, ForkFor
<1>2. TypeOK
  BY DEF IInv
<1>3. \/ stage = "irq" /\ stage' = "mmu"
      \/ stage = "mmu" /\ stage' = "threads"
      \/ stage = "threads" /\ stage' = "join"
  BY <1>1 DEF Functions
<1>4. TypeOK'
  BY <1>1, <1>2, <1>3 DEF TypeOK, coreVars
<1> USE <1>1, <1>2 DEF TypeOK, coreVars
<1>5. CASE Others = {}
  BY <1>3, <1>4, <1>5 DEF IInv
<1>6. CASE Others # {} /\ Booting
  <2>1. ASSUME NEW d \in Others PROVE WhilePosting(d) /\ work[d] = (stage = "threads")
    BY <1>6 DEF IInv, BootCore
  <2>2. CASE stage = "threads"
    <3>1. ~Booting'
      BY <1>3, <2>2 DEF Booting
    <3>2. ASSUME NEW d \in Others PROVE WorkCore(d)'
      BY <1>3, <2>1, <2>2 DEF WorkCore, WhilePosting, Settled
    <3> QED BY <1>3, <1>4, <2>2, <3>1, <3>2 DEF IInv
  <2>3. CASE stage \in {"irq", "mmu"}
    <3>1. Booting'
      BY <1>3, <1>6, <2>3 DEF Booting
    <3>2. ASSUME NEW d \in Others PROVE BootCore(d)'
      BY <1>3, <2>1, <2>3
      DEF BootCore, BeforePost, WhilePosting, Settled, Handles, Looks
    <3>3. round' = 1
      BY <3>1 DEF Booting
    <3> QED BY <1>3, <1>4, <3>1, <3>2, <3>3 DEF IInv
  <2> QED BY <1>3, <2>2, <2>3
<1>7. CASE ~Booting
  <2>1. stage = "threads" /\ stage' = "join"
    BY <1>3, <1>7, RoundsAssumption DEF IInv, Booting
  <2>2. ~Booting'
    BY <2>1 DEF Booting
  <2>3. ASSUME NEW d \in Others PROVE WorkCore(d)'
    <3>1. WorkCore(d)
      BY <1>7 DEF IInv
    <3> QED BY <2>1, <3>1 DEF WorkCore
  <2> QED BY <1>4, <2>1, <2>2, <2>3 DEF IInv
<1> QED BY <1>5, <1>6, <1>7

LEMMA JoinInv ==
    ASSUME IInv, JoinAll
    PROVE  IInv'
<1> USE AddressFacts, RoundsAssumption
<1>1. /\ stage = "join" /\ posts = {} /\ \A d \in Others : ~work[d]
      /\ UNCHANGED <<mailbox, event, coreVars>>
  BY DEF JoinAll, IInv
<1>2. TypeOK /\ ~Booting /\ \A d \in Others : WorkCore(d)
  BY <1>1 DEF IInv, Booting
<1>3. \/ /\ round < Rounds /\ stage' = "threads" /\ posts' = Others /\ round' = round + 1
         /\ work' = [d \in Others |-> TRUE]
      \/ stage' = "halt" /\ UNCHANGED <<posts, work, round>>
  BY DEF JoinAll, OnceMore, ForkFor
<1>4. TypeOK'
  <2>1. round' \in 1 .. Rounds
    BY <1>2, <1>3 DEF TypeOK
  <2> QED BY <1>1, <1>2, <1>3, <2>1 DEF TypeOK, coreVars
<1>5. ~Booting' /\ (round' > 1 => stage' \in {"threads", "join", "halt"})
  BY <1>2, <1>3 DEF TypeOK, Booting
<1>6. ASSUME NEW d \in Others PROVE WorkCore(d)'
  BY <1>1, <1>2, <1>3 DEF TypeOK, coreVars, WorkCore
<1> QED BY <1>1, <1>3, <1>4, <1>5, <1>6 DEF IInv

LEMMA StutterInv == IInv /\ UNCHANGED vars => IInv'
<1> SUFFICES ASSUME IInv, UNCHANGED vars PROVE IInv'
  OBVIOUS
<1> USE DEF vars
<1>1. TypeOK' = TypeOK /\ Booting' = Booting
  BY DEF TypeOK, Booting
<1>2. ASSUME NEW c \in Others
      PROVE  BootCore(c)' = BootCore(c) /\ WorkCore(c)' = WorkCore(c)
  BY DEF BootCore, BeforePost, WhilePosting, Handles, Looks, Settled, WorkCore
<1> QED BY <1>1, <1>2 DEF IInv

LEMMA NextInv == SlowStart /\ IInv /\ [Next]_vars => IInv'
BY StepInv, PostInv, WakeInv, JoinInv, StutterInv DEF Next, Program, Posting

--------------------------------------------------------------------------------
(* The theorems. *)

\* What follows of the invariant in a state.
LEMMA InvImplies == IInv => CallsAFunction /\ ThreadsOnReadyCores /\ MailIsKept
<1> SUFFICES ASSUME IInv PROVE CallsAFunction /\ ThreadsOnReadyCores /\ MailIsKept
  OBVIOUS
<1> USE AddressFacts
<1>1. TypeOK
  BY DEF IInv
<1>2. CASE Booting
  <2>1. ASSUME NEW c \in Others
        PROVE  /\ pc[c] \notin {"wild", "threads"}
               /\ pc[c] = "wfe" /\ mailbox[c] # {} /\ ~event[c] => c \notin posts
    <3>1. BootCore(c) /\ stage \in {"irq", "mmu", "threads"}
      BY <1>2 DEF IInv, Booting, Functions
    <3> QED BY <3>1 DEF BootCore, BeforePost, WhilePosting, Handles, Looks, Settled
  <2>2. stage \in Functions
    BY <1>2 DEF Booting
  <2> QED BY <1>1, <2>1, <2>2 DEF CallsAFunction, ThreadsOnReadyCores, MailIsKept,
                                  NoSleepOnMail, WorkIsReachable
<1>3. CASE ~Booting
  <2>1. ASSUME NEW c \in Others
        PROVE  /\ pc[c] # "wild" /\ irqOn[c] /\ mmuOn[c]
               /\ pc[c] = "wfe" /\ mailbox[c] # {} /\ ~event[c]
                    => stage \in Functions /\ c \notin posts
               /\ stage = "join" /\ work[c] =>
                    \/ mailbox[c] = Address["threads"]
                    \/ pc[c] \in {"clear", "call"} /\ w4[c] = Address["threads"]
                    \/ pc[c] \in {"threads", "reboot"}
    <3>1. WorkCore(c)
      BY <1>3 DEF IInv
    <3>2. stage = "join" => c \notin posts
      BY DEF IInv
    <3> QED BY <3>1, <3>2 DEF WorkCore
  <2> QED BY <1>1, <2>1 DEF CallsAFunction, ThreadsOnReadyCores, MailIsKept,
                            NoSleepOnMail, WorkIsReachable
<1> QED BY <1>2, <1>3

\* The inductive invariant: through the start-up each core handles one function
\* at a time, in the rounds its mail holds at most the function for its work.
THEOREM Invariance == ASSUME SlowStart PROVE Spec => []IInv
<1>1. Init => IInv
  BY InitInv
<1>2. IInv /\ [Next]_vars => IInv'
  BY NextInv
<1> QED BY <1>1, <1>2, PTL DEF Spec

\* WAIT_UNTIL_EVENT only ever calls functions that core 0 has posted: no two
\* addresses meet in a mailbox.
THEOREM OnlyFunctions == ASSUME SlowStart PROVE Spec => []CallsAFunction
<1>1. IInv => CallsAFunction
  BY InvImplies
<1> QED BY <1>1, Invariance, PTL

\* No core runs tasks before its interrupts and its MMU are on.
THEOREM ReadyForThreads == ASSUME SlowStart PROVE Spec => []ThreadsOnReadyCores
<1>1. IInv => ThreadsOnReadyCores
  BY InvImplies
<1> QED BY <1>1, Invariance, PTL

\* Types; no core sleeps on its mail, and no mail is lost.
THEOREM NoLostMail == ASSUME SlowStart PROVE Spec => []MailIsKept
<1>1. IInv => MailIsKept
  BY InvImplies
<1> QED BY <1>1, Invariance, PTL
================================================================================
