------------------------------- MODULE Bootloader -------------------------------
(***************************************************************************)
(* The boot loader (02- Bootloader/bootloader.c) receives a program over   *)
(* the mini UART by XMODEM and starts it.  With it: the serial line, which *)
(* loses and damages bytes, the UART's FIFO, the sender (sx, external) and *)
(* the user who starts the sender and types g.                             *)
(*                                                                         *)
(* A byte has Values values, a block BlockSize data bytes; 256 and 128 in  *)
(* the code.  Answers of the receiver are names; texts it prints are left  *)
(* out.  Seconds pass only when what is on the line has arrived.           *)
(***************************************************************************)
EXTENDS Integers, Sequences

CONSTANTS
    Values, BlockSize, FifoSize,
    SOH, EOT, G,        \* bytes; G stands for 'g'
    File,               \* the blocks the sender has
    Losses, Flips,      \* bounds: how many bytes the line loses and damages
    MaxRetries          \* the sender's

Byte == 0 .. Values - 1

\* The bits of a byte, and what the line makes of b by changing one of them.
Bits == {1, 2, 4, 8, 16, 32, 64, 128}
Flipped(b) == {v \in Byte : \E bit \in Bits :
                 /\ bit < Values
                 /\ v = IF (b \div bit) % 2 = 0 THEN b + bit ELSE b - bit}

\* 192 and more are states (see StartState); no changed bit turns an SOH to an EOT
\* or back, 1 and 4 in the code; the FIFO of 8 holds no whole packet.
ASSUME BootAssumption ==
    /\ Values \in Nat /\ BlockSize \in 1 .. 191
    /\ {SOH, EOT, G} \subseteq Byte /\ SOH # EOT
    /\ EOT \notin Flipped(SOH) /\ SOH \notin Flipped(EOT)
    /\ FifoSize \in 1 .. BlockSize + 3
    /\ File \in Seq([1 .. BlockSize -> Byte]) /\ File # <<>>
    /\ {Losses, Flips, MaxRetries} \subseteq Nat

VARIABLES
    rpc,                \* where the receiver is
    state, block, csum, \* its variables of these names
    image,              \* what it has written from ARMBASE on
    addr,               \* xstring, in blocks from ARMBASE on
    fifo,               \* of the UART
    toR, toS,           \* bytes and answers on the line
    spc, n, retries,    \* the sender: where, at which block, how often again
    losses, flips,      \* what the line may still do
    damaged,            \* it has damaged a byte of the last packet
    torn,               \* this transfer began with old bytes, lost some, or had
                        \* two bytes of a packet damaged
    eager               \* the user starts the sender while the receiver is busy

receiver == <<rpc, state, block, csum, image, addr>>
sender == <<spc, n, retries>>
line == <<losses, flips, damaged>>
vars == <<receiver, fifo, toR, toS, sender, line, torn, eager>>

BlockState == 193
InverseState == 194
StartState == 192
ErrorState == 255

Answers == {"NAK", "ACK", "CAN"}

TypeOK ==
    /\ rpc \in {"wait", "bytes", "ended", "prompt", "cancelled", "running"}
    /\ state \in 0 .. BlockSize \cup {StartState, BlockState, InverseState, ErrorState}
    /\ block \in Byte /\ csum \in Nat /\ addr \in Nat
    /\ image \in Seq(Byte)
    /\ fifo \in Seq(Byte) /\ Len(fifo) <= FifoSize
    /\ toR \in Seq(Byte) /\ toS \in Seq(Answers)
    /\ spc \in {"idle", "ready", "sent", "done"}
    /\ n \in 1 .. Len(File) + 1 /\ retries \in 0 .. MaxRetries
    /\ losses \in 0 .. Losses /\ flips \in 0 .. Flips
    /\ damaged \in BOOLEAN /\ torn \in BOOLEAN /\ eager \in BOOLEAN

\* After uart_init() and the first NAK.
Init ==
    /\ rpc = "wait" /\ state = StartState /\ block = 1 /\ csum = 0
    /\ image = <<>> /\ addr = 0
    /\ fifo = <<>> /\ toR = <<>> /\ toS = <<"NAK">>
    /\ spc = "idle" /\ n = 1 /\ retries = 0
    /\ losses = Losses /\ flips = Flips
    /\ damaged = FALSE /\ torn = FALSE /\ eager \in BOOLEAN

--------------------------------------------------------------------------------
(* The receiver. *)

uart_can_getc == fifo # <<>>

uart_getc(rb) == uart_can_getc /\ rb = Head(fifo) /\ fifo' = Tail(fifo)

uart_putc(c) == toS' = Append(toS, c)

\* All that was on the line has arrived when so much time has passed.
SecondsPass == toR = <<>> /\ toS = <<>>

\* Four seconds without a byte.
NakAgain ==
    /\ rpc = "wait" /\ toS = <<>>
    /\ uart_putc("NAK")
    /\ UNCHANGED <<receiver, fifo, toR, sender, line, torn, eager>>

FirstByte ==
    /\ rpc = "wait" /\ uart_can_getc
    /\ rpc' = "bytes"
    /\ UNCHANGED <<state, block, csum, image, addr, fifo, toR, toS, sender, line,
                   torn, eager>>

\* SOH or EOT.
SohOrEot(rb) ==
    /\ state = StartState
    /\ \/ /\ rb = SOH
          /\ csum' = rb /\ state' = BlockState
          /\ UNCHANGED <<rpc, toS>>
       \/ /\ rb = EOT
          /\ uart_putc("ACK") /\ rpc' = "ended"
          /\ UNCHANGED <<state, csum>>
       \/ /\ rb \notin {SOH, EOT}
          /\ state' = ErrorState
          /\ UNCHANGED <<rpc, csum, toS>>
    /\ UNCHANGED <<block, image, addr>>

Inverted(b) == Values - 1 - b

Expected_Bug(rb) == rb \in Byte

\* rb is the number of the block, or its inverse.
Expected(rb) == rb = IF state = BlockState THEN block ELSE Inverted(block)

\* The number of the block and its inverse.
BlockNumber(rb) ==
    /\ state \in {BlockState, InverseState}
    /\ \/ /\ Expected(rb)
          /\ csum' = csum + rb
          /\ state' = IF state = BlockState THEN InverseState ELSE 0
       \/ /\ ~Expected(rb)
          /\ state' = ErrorState
          /\ UNCHANGED csum
    /\ UNCHANGED <<rpc, block, image, addr, toS>>

\* xstring[state] = rb, over what an earlier try at this block has left.
Data(rb) ==
    /\ state < BlockSize
    /\ csum' = csum + rb
    /\ image' = Append(SubSeq(image, 1, addr * BlockSize + state), rb)
    /\ state' = state + 1
    /\ UNCHANGED <<rpc, block, addr, toS>>

NextBlock == (block + 1) % Values

SumRight_Bug(rb) == rb \in Byte

SumRight(rb) == rb = csum % Values

Checksum(rb) ==
    /\ state = BlockSize
    /\ csum' = csum % Values
    /\ \/ /\ SumRight(rb)
          /\ uart_putc("ACK")
          /\ block' = NextBlock
          /\ addr' = addr + 1
          /\ state' = StartState
       \/ /\ ~SumRight(rb)
          /\ state' = ErrorState
          /\ UNCHANGED <<block, addr, toS>>
    /\ UNCHANGED <<rpc, image>>

GetByte ==
    /\ rpc = "bytes" /\ state # ErrorState
    /\ \E rb \in Byte :
        /\ uart_getc(rb)
        /\ SohOrEot(rb) \/ BlockNumber(rb) \/ Data(rb) \/ Checksum(rb)
    /\ UNCHANGED <<toR, sender, line, torn, eager>>

\* The five CANs are one here, which the line never loses.
BailOut ==
    /\ rpc = "bytes" /\ state = ErrorState
    /\ uart_putc("CAN") /\ rpc' = "cancelled"
    /\ UNCHANGED <<state, block, csum, image, addr, fifo, toR, sender, line, torn, eager>>

FirstState_Bug == state

FirstState == StartState

\* Two seconds later the loop starts again.
Restart ==
    /\ rpc = "cancelled" /\ SecondsPass
    /\ rpc' = "wait" /\ state' = FirstState /\ block' = 1 /\ csum' = 0
    /\ image' = <<>> /\ addr' = 0
    /\ uart_putc("NAK")
    /\ torn' = (fifo # <<>>)
    /\ UNCHANGED <<fifo, toR, sender, line, eager>>

\* Two seconds after the ACK of EOT.
ShowPrompt ==
    /\ rpc = "ended" /\ SecondsPass
    /\ rpc' = "prompt"
    /\ UNCHANGED <<state, block, csum, image, addr, fifo, toR, toS, sender, line,
                   torn, eager>>

ReadKey ==
    /\ rpc = "prompt"
    /\ \E rb \in Byte :
        /\ uart_getc(rb)
        /\ rpc' = IF rb = G THEN "running" ELSE "prompt"
    /\ UNCHANGED <<state, block, csum, image, addr, toR, toS, sender, line, torn, eager>>

--------------------------------------------------------------------------------
(* The line. *)

Deliver ==
    /\ toR # <<>> /\ Len(fifo) < FifoSize
    /\ \/ fifo' = Append(fifo, Head(toR)) /\ UNCHANGED <<flips, damaged, torn>>
       \/ /\ flips > 0 /\ flips' = flips - 1
          /\ \E b \in Flipped(Head(toR)) : fifo' = Append(fifo, b)
          /\ damaged' = TRUE /\ torn' = (torn \/ damaged)
    /\ toR' = Tail(toR)
    /\ UNCHANGED <<receiver, toS, sender, losses, eager>>

\* The FIFO overflows only while the receiver does not poll it.
Overrun ==
    /\ toR # <<>> /\ Len(fifo) = FifoSize /\ rpc \in {"cancelled", "ended"}
    /\ toR' = Tail(toR) /\ torn' = TRUE
    /\ UNCHANGED <<receiver, fifo, toS, sender, line, eager>>

Lose ==
    /\ losses > 0 /\ losses' = losses - 1
    /\ \/ toR # <<>> /\ toR' = Tail(toR) /\ torn' = TRUE /\ UNCHANGED toS
       \/ /\ toS # <<>> /\ Head(toS) # "CAN"
          /\ toS' = Tail(toS) /\ UNCHANGED <<toR, torn>>
    /\ UNCHANGED <<receiver, fifo, sender, flips, damaged, eager>>

--------------------------------------------------------------------------------
(* The sender and the user. *)

\* The sums of the beginnings of s.
Sums(s) ==
    LET sum[i \in 0 .. Len(s)] == IF i = 0 THEN 0 ELSE sum[i - 1] + s[i]
    IN  sum

\* A block with its number, and what is sent for it.
Numbered(k) == <<SOH, k % Values, Inverted(k % Values)>> \o File[k]

Packet(k) ==
    IF k > Len(File) THEN <<EOT>>
    ELSE Append(Numbered(k), Sums(Numbered(k))[BlockSize + 3] % Values)

\* One packet at a time is on the line.
Send(k) ==
    /\ toR = <<>> /\ toR' = Packet(k)
    /\ damaged' = FALSE
    /\ n' = k /\ spc' = "sent"

StartSender ==
    /\ spc \in {"idle", "done"} /\ rpc # "running"
    /\ eager \/ (rpc = "wait" /\ fifo = <<>> /\ toR = <<>>)
    /\ spc' = "ready" /\ n' = 1 /\ retries' = 0
    /\ UNCHANGED <<receiver, fifo, toR, toS, line, torn, eager>>

\* The sender, or while there is none the terminal, takes an answer.
TakeAnswer ==
    /\ toS # <<>> /\ toS' = Tail(toS)
    /\ LET a == Head(toS)
       IN  \/ /\ a = "NAK"
              /\ spc = "ready" \/ (spc = "sent" /\ retries < MaxRetries)
              /\ Send(n)
              /\ retries' = IF spc = "sent" THEN retries + 1 ELSE 0
           \/ /\ spc = "sent" /\ a = "ACK" /\ n <= Len(File)
              /\ Send(n + 1) /\ retries' = 0
           \/ /\ spc = "sent" /\ a = "ACK" /\ n > Len(File)
              /\ spc' = "done" /\ UNCHANGED <<toR, n, retries, damaged>>
           \/ /\ spc \in {"ready", "sent"} /\ a = "CAN"
              /\ spc' = "idle" /\ UNCHANGED <<toR, n, retries, damaged>>
           \/ /\ \/ spc \in {"idle", "done"}
                 \/ spc = "ready" /\ a = "ACK"
                 \/ spc = "sent" /\ a = "NAK" /\ retries = MaxRetries
              /\ UNCHANGED <<toR, sender, damaged>>
    /\ UNCHANGED <<receiver, fifo, losses, flips, torn, eager>>

\* No answer, and nothing under way that could bring one.
Timeout ==
    /\ spc = "sent" /\ toS = <<>> /\ toR = <<>> /\ fifo = <<>>
    /\ rpc \in {"wait", "bytes", "prompt", "running"}
    /\ \/ retries < MaxRetries /\ Send(n) /\ retries' = retries + 1
       \/ retries = MaxRetries /\ spc' = "idle" /\ UNCHANGED <<toR, n, retries, damaged>>
    /\ UNCHANGED <<receiver, fifo, toS, losses, flips, torn, eager>>

PressG ==
    /\ spc \in {"idle", "done"} /\ rpc = "prompt" /\ toR = <<>> /\ fifo = <<>>
    /\ toR' = <<G>>
    /\ UNCHANGED <<receiver, fifo, toS, sender, line, torn, eager>>

--------------------------------------------------------------------------------
Receiver == \/ FirstByte \/ GetByte \/ BailOut \/ Restart \/ ShowPrompt \/ ReadKey

Next == \/ NakAgain \/ Receiver
        \/ Deliver \/ Overrun \/ Lose
        \/ StartSender \/ TakeAnswer \/ Timeout \/ PressG

Spec == Init /\ [][Next]_vars

\* The receiver polls, the line carries what it does not lose, and the user
\* comes back to the receiver.
FairSpec ==
    /\ Spec
    /\ WF_vars(Receiver) /\ WF_vars(NakAgain)
    /\ WF_vars(Deliver \/ Overrun)
    /\ WF_vars(TakeAnswer) /\ WF_vars(Timeout)
    /\ WF_vars(StartSender) /\ WF_vars(PressG)

--------------------------------------------------------------------------------
(* Properties. *)

\* The accepted blocks.
Blocks == [k \in 1 .. addr |-> SubSeq(image, (k - 1) * BlockSize + 1, k * BlockSize)]

Promise == INSTANCE Loading
             WITH image <- IF torn THEN <<>> ELSE Blocks,
                  trusted <- ~torn,
                  started <- rpc = "running"

\* In a transfer that began with an empty FIFO, lost no byte on its way and had at
\* most one byte of each packet damaged, the blocks acknowledged are the file's,
\* in their order and each once, and only the whole file is started: damaged
\* bytes, lost answers, repeated blocks and numbers that begin again at 0
\* notwithstanding.
LoadsTheFile == Promise!Spec

\* When the sender reports success the receiver has the whole file, until it
\* begins anew; a torn transfer may be told to be a success and then be cancelled.
SuccessIsTrue == spc = "done" /\ ~torn => Blocks = File \/ rpc = "wait"

\* The variables stay in their ranges: sums, block numbers and the FIFO included,
\* and what the sender is told about them is right.
Received == TypeOK /\ SuccessIsTrue

\* Within a block the receiver waits for ever, also when nobody sends any more.
Stuck ==
    /\ rpc = "bytes" /\ state # ErrorState /\ fifo = <<>> /\ toR = <<>>
    /\ spc \in {"idle", "ready", "done"}

\* A user who starts the sender only when the receiver asks gets the program
\* started, whatever the line did, unless the sender gives up within a block:
\* every transfer that goes wrong is cancelled in the end and the next begins
\* with an empty FIFO.
ProgramStarts == ~eager => <>(rpc = "running") \/ <>[]Stuck
================================================================================
