----------------------------- MODULE BootloaderInv -----------------------------
(***************************************************************************)
(* The inductive invariant of the boot loader's transfer: which bytes are  *)
(* under way, told from where the receiver and the sender are.             *)
(***************************************************************************)
EXTENDS Bootloader

\* The bytes on their way to the receiver, those in its UART first.
wire == fifo \o toR

\* How many bytes of the packet the receiver is in it has read.
Read == CASE state = StartState   -> 0
          [] state = BlockState   -> 1
          [] state = InverseState -> 2
          [] OTHER                -> 3 + state

\* The bytes of packet p behind the first `from` are those of w behind the first
\* at + from: unharmed, or all but one.
Intact(w, p, from, at) == \A i \in from + 1 .. Len(p) : w[at + i] = p[i]

Carries(w, p, from, at) ==
    /\ \A i \in from + 1 .. Len(p) : w[at + i] \in {p[i]} \cup Flipped(p[i])
    /\ \A i, j \in from + 1 .. Len(p) :
         w[at + i] # p[i] /\ w[at + j] # p[j] => i = j

\* Behind the rest of packet p the wire carries nothing or the packet that the
\* sender sent last, of which ends bytes at most have not arrived.
Alone(p) == Len(wire) = Len(p) - Read
Follows(p) ==
    /\ Read > 0
    /\ Len(wire) = Len(p) - Read + Len(Packet(n)) /\ Len(toR) <= Len(Packet(n))
    /\ Carries(wire, Packet(n), 0, Len(p) - Read)
    /\ ~damaged => Intact(wire, Packet(n), 0, Len(p) - Read)

--------------------------------------------------------------------------------
\* The block the receiver is in.
this == addr + 1

\* What memory has of the block the receiver is in.
Written == IF state \in 0 .. BlockSize THEN state ELSE 0

\* The sum is that of the bytes sent so far; or it is not, and then the damaged
\* byte has been read.
Sum == Sums(Numbered(this))[Read]
SumIsRight == Read > 0 => csum = Sum
SumIsWrong == Read > 3 /\ \E e \in 1 .. Values - 1 : csum = Sum + e \/ csum = Sum - e

\* Nothing is under way, between two packets.
Quiet ==
    /\ wire = <<>> /\ state = StartState
    /\ \/ /\ rpc = "wait" /\ toS \in {<<>>, <<"NAK">>}
          /\ spc \in {"ready", "sent"} => n = 1
       \/ /\ rpc = "bytes" /\ spc \in {"idle", "ready"} /\ toS = <<>>
       \/ /\ rpc = "bytes" /\ spc = "sent" /\ n = addr
          /\ \/ toS \in {<<>>, <<"ACK">>}
             \/ toS = <<"NAK", "ACK">> /\ addr = 1

\* The packet under way is the one the receiver expects: as long as no damaged
\* byte of it has been read, memory has what the file has.
ThisComes ==
    /\ this > Len(File) => Read = 0
    /\ \/ /\ Alone(Packet(this))
          /\ ~damaged => SumIsRight /\ Intact(wire, Packet(this), Read, -Read)
       \/ Follows(Packet(this)) /\ addr = 0
    /\ \/ /\ SumIsRight /\ Carries(wire, Packet(this), Read, -Read)
          /\ \A d \in 1 .. Written : image[addr * BlockSize + d] = File[this][d]
       \/ SumIsWrong /\ Intact(wire, Packet(this), Read, -Read)

Expecting ==
    /\ spc = "sent" /\ n = this
    /\ toS = <<>> \/ (toS = <<"NAK">> /\ addr = 0 /\ Alone(Packet(this)))
    /\ ThisComes

\* The packet under way is one that the receiver has had: it finds that out by
\* the number of the block, or by its inverse.
LastComes ==
    /\ addr > 0 /\ Read \in 0 .. 2
    /\ \/ /\ Alone(Packet(addr)) /\ n = addr
          /\ ~damaged => Read < 2 /\ Intact(wire, Packet(addr), Read, -Read)
       \/ Follows(Packet(addr)) /\ n = this
    /\ Carries(wire, Packet(addr), Read, -Read)
    /\ Read = 2 => Intact(wire, Packet(addr), 2, -2)

Repeated ==
    /\ rpc = "bytes" /\ spc = "sent"
    /\ toS = <<>> \/ (toS = <<"ACK">> /\ n = addr)
    /\ LastComes

--------------------------------------------------------------------------------
\* What the sender may still be told in a transfer that goes wrong: with and
\* without an ACK, with and without the CAN.
Unanswered == {<<>>, <<"NAK">>}
Answered   == {<<"ACK">>, <<"NAK", "ACK">>}
Refused    == {<<"CAN">>, <<"NAK", "CAN">>}
Revoked    == {<<"ACK", "CAN">>, <<"NAK", "ACK", "CAN">>}

\* A transfer that goes wrong: nothing more is read of it, and the sender is not
\* ahead of what the receiver has acknowledged.
Failed ==
    /\ toS \in Unanswered \cup Answered \cup Refused \cup Revoked
    /\ rpc = "bytes" => toS \in Unanswered \cup Answered
    /\ spc # "done"
    /\ toS \in Answered \cup Revoked => addr > 0
    /\ spc \in {"ready", "sent"} =>
         n <= IF toS \in Answered \cup Revoked THEN addr ELSE this

BlocksAreFiles ==
    /\ addr <= Len(File)
    /\ \A k \in 1 .. addr : \A d \in 1 .. BlockSize :
         image[(k - 1) * BlockSize + d] = File[k][d]

Transfer ==
    /\ BlocksAreFiles
    /\ block = this % Values
    /\ rpc \in {"wait", "bytes"} /\ state # ErrorState =>
         Quiet \/ Expecting \/ Repeated
    /\ rpc \in {"bytes", "cancelled"} /\ state = ErrorState => Failed
    /\ rpc \in {"ended", "prompt", "running"} => addr = Len(File)

\* A cancelled transfer is over for the sender when its CAN has arrived.
Cancelled ==
    /\ rpc = "cancelled" =>
         /\ state = ErrorState
         /\ \/ toS = <<>> /\ spc # "sent"
            \/ toS # <<>> /\ toS[Len(toS)] = "CAN"
    /\ spc = "ready" => n = 1
    /\ rpc = "wait" => state = StartState /\ addr = 0

ImageIsLong == Len(image) >= addr * BlockSize + Written

IInv == TypeOK /\ ImageIsLong /\ Cancelled /\ (torn \/ Transfer)
================================================================================
