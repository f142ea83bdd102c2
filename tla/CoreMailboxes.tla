------------------------------ MODULE CoreMailboxes ------------------------------
(***************************************************************************)
(* How core 0 hands functions to the other cores of the capstone: it writes *)
(* an address to their mailboxes and wakes them; they sleep in              *)
(* WAIT_UNTIL_EVENT, read, clear and call.  A mailbox is a register of bits *)
(* that a write can only set, and that its owner clears bit by bit; nothing *)
(* tells core 0 when it is empty again.  An address is the set of its bits. *)
(*                                                                         *)
(* A definition whose name ends in _Bug is a faulty variant of the one it   *)
(* precedes, not a part of the model.                                      *)
(***************************************************************************)
EXTENDS Naturals, FiniteSets

CONSTANTS
    Others,     \* the numbers of the secondary cores
    Bits,       \* the bits of an address
    Address,    \* the address of each function core 0 posts
    Rounds,     \* bound: how often the program starts threads
    SlowStart   \* TRUE: between two posts of the start-up the others settle

\* enable_irq_secondary, mmu_enable_secondary, secondary_cores_threading_init
Functions == {"irq", "mmu", "threads"}

ASSUME OthersAssumption  == Others \subseteq Nat /\ IsFiniteSet(Others)
ASSUME AddressAssumption ==
    /\ Address \in [Functions -> SUBSET Bits]
    /\ \A f, g \in Functions : Address[f] = Address[g] => f = g
    /\ \A f \in Functions : Address[f] # {}
ASSUME RoundsAssumption == Rounds \in Nat \ {0} /\ SlowStart \in BOOLEAN

VARIABLES
    mailbox,    \* what a read of a core's mailbox returns
    event,      \* a core's event register, which wfe consumes
    pc, w4,     \* a secondary core's label and the register it reads into
    irqOn, mmuOn,  \* what the functions have done on a core
    work,       \* the core has tasks that it has not finished
    stage,      \* what core 0 does: the function it posts, or "join", "halt"
    posts,      \* the cores it still has to post to
    round

vars == <<mailbox, event, pc, w4, irqOn, mmuOn, work, stage, posts, round>>
coreVars == <<pc, w4, irqOn, mmuOn>>
progVars == <<stage, posts, round>>

TypeOK ==
    /\ mailbox \in [Others -> SUBSET Bits]
    /\ event \in [Others -> BOOLEAN]
    /\ pc \in [Others -> {"start", "clean", "wfe", "read", "clear", "call",
                          "threads", "return", "wild", "reboot"}]
    /\ w4 \in [Others -> SUBSET Bits]
    /\ irqOn \in [Others -> BOOLEAN]
    /\ mmuOn \in [Others -> BOOLEAN]
    /\ work \in [Others -> BOOLEAN]
    /\ stage \in Functions \cup {"join", "halt"}
    /\ posts \subseteq Others
    /\ round \in 1 .. Rounds

\* _start wakes the cores out of the firmware's loop before notmain begins.
Init ==
    /\ mailbox = [c \in Others |-> {}]
    /\ event = [c \in Others |-> TRUE]
    /\ pc = [c \in Others |-> "start"]
    /\ w4 = [c \in Others |-> {}]
    /\ irqOn = [c \in Others |-> FALSE]
    /\ mmuOn = [c \in Others |-> FALSE]
    /\ work = [c \in Others |-> FALSE]
    /\ stage = "irq"
    /\ posts = Others
    /\ round = 1

--------------------------------------------------------------------------------
(* A secondary core. *)

Goto(c, l) == pc' = [pc EXCEPT ![c] = l]

Read(c) == w4' = [w4 EXCEPT ![c] = mailbox[c]]

Clear_Bug(c) == UNCHANGED mailbox

\* Writing the value read to the read address clears those bits.
Clear(c) == mailbox' = [mailbox EXCEPT ![c] = @ \ w4[c]]

\* start_sleep reads and clears whatever the mailbox holds at that time.
StartSleep(c) ==
    /\ pc[c] = "start"
    /\ Read(c)
    /\ Goto(c, "clean")
    /\ UNCHANGED <<mailbox, event, irqOn, mmuOn, work, progVars>>

CleanMailbox(c) ==
    /\ pc[c] = "clean"
    /\ Clear(c)
    /\ Goto(c, "wfe")
    /\ UNCHANGED <<event, w4, irqOn, mmuOn, work, progVars>>

Wfe(c) ==
    /\ pc[c] = "wfe"
    /\ event[c]
    /\ event' = [event EXCEPT ![c] = FALSE]
    /\ Goto(c, "read")
    /\ UNCHANGED <<mailbox, w4, irqOn, mmuOn, work, progVars>>

\* ldr w4; cbz w4, WAIT_UNTIL_EVENT
ReadMailbox(c) ==
    /\ pc[c] = "read"
    /\ Read(c)
    /\ Goto(c, IF mailbox[c] = {} THEN "wfe" ELSE "clear")
    /\ UNCHANGED <<mailbox, event, irqOn, mmuOn, work, progVars>>

ClearMailbox(c) ==
    /\ pc[c] = "clear"
    /\ Clear(c)
    /\ Goto(c, "call")
    /\ UNCHANGED <<event, w4, irqOn, mmuOn, work, progVars>>

\* blr w4: the first two functions return at once; an address that is no
\* function's leads anywhere.
Call(c) ==
    /\ pc[c] = "call"
    /\ \/ /\ w4[c] = Address["irq"]
          /\ irqOn' = [irqOn EXCEPT ![c] = TRUE]
          /\ Goto(c, "wfe")
          /\ UNCHANGED mmuOn
       \/ /\ w4[c] = Address["mmu"]
          /\ mmuOn' = [mmuOn EXCEPT ![c] = TRUE]
          /\ Goto(c, "wfe")
          /\ UNCHANGED irqOn
       \/ /\ w4[c] = Address["threads"]
          /\ Goto(c, "threads")
          /\ UNCHANGED <<irqOn, mmuOn>>
       \/ /\ \A f \in Functions : w4[c] # Address[f]
          /\ Goto(c, "wild")
          /\ UNCHANGED <<irqOn, mmuOn>>
    /\ UNCHANGED <<mailbox, event, w4, work, progVars>>

\* secondary_cores_threading_init(), which CoreThreads models: the core finishes the
\* tasks it has, those of several rounds in one call if they keep coming.  The ticks
\* go on a little behind the loop, until disable_core_timer_int().
FinishWork(c) ==
    /\ pc[c] \in {"threads", "return"}
    /\ work[c]
    /\ work' = [work EXCEPT ![c] = FALSE]
    /\ UNCHANGED <<mailbox, event, pc, w4, irqOn, mmuOn, progVars>>

\* The loop of join_all_core_tasks() finds the core idle.  It may never do so: a
\* schedule() begun too late hangs (JoinAllReturns of CoreThreads).
LeaveThreads(c) ==
    /\ pc[c] = "threads"
    /\ ~work[c]
    /\ Goto(c, "return")
    /\ UNCHANGED <<mailbox, event, w4, irqOn, mmuOn, work, progVars>>

\* The core goes back to start_sleep instead of WAIT_UNTIL_EVENT.
ReturnFromThreads_Bug(c) ==
    /\ pc[c] = "return"
    /\ Goto(c, IF work[c] THEN "reboot" ELSE "start")
    /\ UNCHANGED <<mailbox, event, w4, irqOn, mmuOn, work, progVars>>

\* The demand() that the core is idle, behind which it would reboot.
ReturnFromThreads(c) ==
    /\ pc[c] = "return"
    /\ Goto(c, IF work[c] THEN "reboot" ELSE "wfe")
    /\ UNCHANGED <<mailbox, event, w4, irqOn, mmuOn, work, progVars>>

--------------------------------------------------------------------------------
(* Core 0. *)

\* c sleeps and nothing is about to wake it.
Settled(c) == pc[c] = "wfe" /\ ~event[c]

\* A write to CORE_MAILBOX_WRITETOSET, to one core after the other.  SlowStart:
\* what core 0 does in between (it prints) lets the other cores settle.
Post(c) ==
    /\ c \in posts
    /\ \A d \in posts : c <= d
    /\ SlowStart /\ round = 1 /\ posts = Others => \A d \in Others : Settled(d)
    /\ mailbox' = [mailbox EXCEPT ![c] = @ \cup Address[stage]]
    /\ posts' = posts \ {c}
    /\ UNCHANGED <<event, coreVars, work, stage, round>>

\* The event is not sent.
Woken_Bug == event

Woken == [c \in Others |-> TRUE]

\* mmu_enable() keeps to core 0.
After_Bug == [irq |-> "threads", mmu |-> "threads", threads |-> "join"]

\* The order of the calls in notmain().
After == [irq |-> "mmu", mmu |-> "threads", threads |-> "join"]

\* Core 0 forks tasks for every core before it posts "threads".
ForkFor(s) == work' = IF s = "threads" THEN [c \in Others |-> TRUE] ELSE work

\* WAKE_CORES, then on to the next post or to the join.
WakeCores ==
    /\ stage \in Functions
    /\ posts = {}
    /\ event' = Woken
    /\ stage' = After[stage]
    /\ posts' = IF stage' = "join" THEN {} ELSE Others
    /\ ForkFor(stage')
    /\ UNCHANGED <<mailbox, coreVars, round>>

OnceMore == round < Rounds

\* join_all() returns when no core has tasks left, or never, and the program goes
\* round, whether or not the other cores are out of their threads.
JoinAll ==
    /\ stage = "join"
    /\ \A c \in Others : ~work[c]
    /\ IF OnceMore
       THEN /\ stage' = "threads" /\ posts' = Others /\ round' = round + 1
            /\ ForkFor("threads")
       ELSE stage' = "halt" /\ UNCHANGED <<posts, work, round>>
    /\ UNCHANGED <<mailbox, event, coreVars>>

--------------------------------------------------------------------------------
\* From the sleep to the call of a function, and from its end to the sleep.
Serve(c) ==
    \/ StartSleep(c) \/ CleanMailbox(c)
    \/ Wfe(c) \/ ReadMailbox(c) \/ ClearMailbox(c) \/ Call(c)
    \/ ReturnFromThreads(c)

Step(c) == Serve(c) \/ FinishWork(c) \/ LeaveThreads(c)

Posting == (\E c \in Others : Post(c)) \/ WakeCores

Program == Posting \/ JoinAll

Next == (\E c \in Others : Step(c)) \/ Program

Spec == Init /\ [][Next]_vars

\* Every core executes instructions, unless it is asleep; whether the tasks and the
\* joins ever end is left open.
FairSpec == Spec /\ (\A c \in Others : WF_vars(Serve(c))) /\ WF_vars(Posting)

--------------------------------------------------------------------------------
(* Correctness. *)

\* A core only ever jumps to an address that core 0 has posted, never to two
\* addresses or'ed together or to what a clear has left of one.
CallsAFunction == \A c \in Others : pc[c] # "wild"

\* Tasks run on a core only when its interrupts and its MMU are on, although
\* nothing but time orders the three posts.
ThreadsOnReadyCores ==
    \A c \in Others : pc[c] = "threads" => irqOn[c] /\ mmuOn[c]

\* No core sleeps on a full mailbox: behind WAKE_CORES its event is pending.
NoSleepOnMail ==
    \A c \in Others :
        pc[c] = "wfe" /\ mailbox[c] # {} /\ ~event[c]
            => stage \in Functions /\ c \notin posts

\* While join_all() waits for a core, that core has yet to run its tasks or is
\* about to: its mail has not been cleared away between the read and the call.
WorkIsReachable ==
    \A c \in Others : stage = "join" /\ work[c] =>
        \/ mailbox[c] = Address["threads"]
        \/ pc[c] \in {"clear", "call"} /\ w4[c] = Address["threads"]
        \/ pc[c] \in {"threads", "reboot"}

\* Nothing acknowledges a post, yet no mail is lost: a core that has mail gets up
\* for it, and what it reads, clears and calls is what was posted.
MailIsKept == TypeOK /\ NoSleepOnMail /\ WorkIsReachable

\* Every post is called: by a core that gets up for it, or that comes out of its
\* threads to it, unless it stays in them for ever or reboots the board.
PostsAreCalled ==
    \A c \in Others, f \in Functions :
        mailbox[c] = Address[f] ~>
            \/ pc[c] = "call" /\ w4[c] = Address[f]
            \/ [](pc[c] = "threads")
            \/ pc[c] = "reboot"
--------------------------------------------------------------------------------
(* The inductive invariant behind them, for a SlowStart. *)

\* Core 0 posts for the first time, one function after the other.
Booting == round = 1 /\ stage \in Functions

\* c is about to call f: it has its mail, has read it, or has cleared it.
Handles(c, f) ==
    \/ mailbox[c] = Address[f] /\ (pc[c] = "read" \/ (pc[c] = "wfe" /\ event[c]))
    \/ mailbox[c] = Address[f] /\ pc[c] = "clear" /\ w4[c] = Address[f]
    \/ mailbox[c] = {} /\ pc[c] = "call" /\ w4[c] = Address[f]

\* c looks for mail, or will do so soon.
Looks(c) == pc[c] \in {"wfe", "read"}

\* c before the first post of a stage: it handles the one before.
BeforePost(c) ==
    /\ stage = "irq" =>
         /\ mailbox[c] = {}
         /\ Looks(c) \/ pc[c] = "start" \/ (pc[c] = "clean" /\ w4[c] = {})
    /\ stage = "mmu" => Handles(c, "irq") \/ (mailbox[c] = {} /\ Looks(c) /\ irqOn[c])
    /\ stage = "threads" =>
         /\ irqOn[c]
         /\ Handles(c, "mmu") \/ (mailbox[c] = {} /\ Looks(c) /\ mmuOn[c])

\* c from the first post of a stage on: it sleeps, with its mail if it has some.
WhilePosting(c) ==
    /\ Settled(c)
    /\ mailbox[c] = IF c \in posts THEN {} ELSE Address[stage]
    /\ stage \in {"mmu", "threads"} => irqOn[c]
    /\ stage = "threads" => mmuOn[c]

BootCore(c) ==
    /\ IF posts = Others THEN BeforePost(c) ELSE WhilePosting(c)
    /\ work[c] = (stage = "threads")

\* c in the rounds: its mail is a call of the threads or nothing, and while its work
\* is posted it has that call before it or is in it; it never sleeps on it.
WorkCore(c) ==
    /\ irqOn[c] /\ mmuOn[c]
    /\ mailbox[c] \in {{}, Address["threads"]}
    /\ pc[c] \in {"wfe", "read", "clear", "call", "threads", "return", "reboot"}
    /\ pc[c] \in {"clear", "call"} => w4[c] = Address["threads"]
    /\ pc[c] = "clear" => mailbox[c] = Address["threads"]
    /\ work[c] /\ c \notin posts =>
         mailbox[c] = Address["threads"] \/ pc[c] \in {"call", "threads"}
    /\ pc[c] \in {"wfe", "call", "threads", "return"} /\ mailbox[c] # {} =>
         event[c] \/ (stage = "threads" /\ c \notin posts)

IInv ==
    /\ TypeOK
    /\ stage \notin Functions => posts = {}
    /\ round > 1 => stage \in {"threads", "join", "halt"}
    /\ IF Booting THEN \A c \in Others : BootCore(c) ELSE \A c \in Others : WorkCore(c)
================================================================================
