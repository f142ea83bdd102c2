-------------------------------- MODULE Printing --------------------------------
(***************************************************************************)
(* Formatted printing (va-printk.c), for words of Bits bits of which an    *)
(* int has half; in the code Bits is 64.  Texts are sequences of one-letter*)
(* strings without the terminating 0.                                      *)
(***************************************************************************)
EXTENDS Integers, Sequences, FiniteSetsExt, SequencesExt

CONSTANTS Bits, FracLen     \* FracLen digits of fraction, 8 in the code
ASSUME PrintingAssumption == Bits \in 2 .. 30 /\ FracLen \in 1 .. 8

\* char buf[64] of emit() and char num[128] of va_printk().
BufSize == Bits
NumSize == 2 * Bits

Digit == <<"0", "1", "2", "3", "4", "5", "6", "7", "8", "9", "a", "b", "c", "d", "e", "f">>
Letters == <<"x", "-">>

\* The digits of u, the lowest one first: the do loops of emit().
Digits(base, u) ==
    LET n == CHOOSE k \in 1 .. Bits : base ^ k > u /\ (k = 1 \/ base ^ (k - 1) <= u)
    IN  [i \in 1 .. n |-> Digit[((u \div base ^ (i - 1)) % base) + 1]]

Padded(p, width) == p \o [i \in 1 .. Max({0, width - Len(p)}) |-> " "]

\* Blanks behind the last digit, which reverse() brings to the front.
pad(p, width) == Padded(p, width)

\* n is the room, with the 0; what does not fit are the lowest digits.
reverse(n, p) == Reverse(SubSeq(p, Max({0, Len(p) + 1 - n}) + 1, Len(p)))

\* val is a uint64_t, so val < 0 never is.
Negative(val, signed) == val < 0 /\ signed

\* The text emit() collects in its buf.  Base 8 is a single character.
Collected(base, val, width, signed) ==
    pad(CASE base = 8 -> <<Letters[val]>>
          [] Negative(val, signed) -> Append(Digits(base, -val), "-")
          [] OTHER -> Digits(base, val),
        width)

emit(base, val, width, signed) == reverse(NumSize, Collected(base, val, width, signed))

\* An int argument as the uint64_t that emit() takes.
Promoted(i) == i % 2 ^ Bits

\* d is a multiple of 10 ^ -FracLen; cutting off integral to an int is not modelled.
fp_get_frac(d) == d % 10 ^ FracLen
fp_get_integral(d) == d \div 10 ^ FracLen

LeadingZeros_Bug(s) == [i \in DOMAIN s |-> IF s[i] = " " THEN "" ELSE s[i]]

LeadingZeros(s) == [i \in DOMAIN s |-> IF i <= FracLen /\ s[i] = " " THEN "0" ELSE s[i]]

__emit_float(d, width) ==
    LET abs == IF d < 0 THEN -d ELSE d
    IN  (IF d < 0 THEN <<"-">> ELSE <<>>)
          \o emit(10, fp_get_integral(abs), width, TRUE)
          \o <<".">>
          \o LeadingZeros(emit(10, fp_get_frac(abs), FracLen, FALSE))

\* The text of one item of a format with its argument.
Text(item) ==
    CASE item.spec = "f" -> __emit_float(item.arg, item.width)
      [] item.spec = "d" -> emit(10, Promoted(item.arg), item.width, TRUE)
      [] item.spec = "u" -> emit(10, item.arg, item.width, FALSE)
      [] item.spec = "x" -> emit(16, item.arg, item.width, FALSE)
      [] item.spec = "b" -> emit(2, item.arg, item.width, FALSE)
      [] item.spec = "c" -> emit(8, item.arg, item.width, FALSE)
      [] item.spec = "s" -> item.arg
      [] item.spec = "%" -> <<"%">>
      [] item.spec = "plain" -> <<item.arg>>

\* The characters that fit in front of buf + n - 1.
Room(n) == n - 1

\* The text left in buf and the value returned.
va_printk(n, fmt) ==
    LET Copy(out, item) == IF Len(out) < Room(n)
                           THEN LET all == out \o Text(item)
                                IN  SubSeq(all, 1, Min({Len(all), Room(n)}))
                           ELSE out
        out == FoldLeft(Copy, <<>>, fmt)
    IN  [buf |-> out, ret |-> Len(out) + 1]

--------------------------------------------------------------------------------
(* Properties, of one item or of a format and the room for its text. *)

Value(c) == (CHOOSE i \in DOMAIN Digit : Digit[i] = c) - 1
IsDigit(c) == \E i \in DOMAIN Digit : Digit[i] = c

\* The number a text of digits stands for.
Number(base, s) == FoldLeft(LAMBDA v, c : base * v + Value(c), 0, s)
NoBlanks(s) == SelectSeq(s, LAMBDA c : c # " ")

Base(spec) == CASE spec = "x" -> 16 [] spec = "b" -> 2 [] OTHER -> 10

\* What is printed for a number is read back as that number, blanks come only
\* in front, and the text has the width asked for or more.  The loops of emit()
\* build the text backwards and pad() and reverse() turn it round.
ReadsBack(item) ==
    LET s == Text(item)
        n == NoBlanks(s)
    IN  /\ Number(Base(item.spec), n) = item.arg
        /\ s = [i \in 1 .. Len(s) - Len(n) |-> " "] \o n
        /\ Len(s) >= item.width

\* A negative int is read back as itself plus 2^Bits: emit() looks for the sign
\* of an unsigned word, so "%d" never prints a minus.
NegativesWrap(i) ==
    LET s == Text([spec |-> "d", arg |-> i, width |-> 0])
    IN  Number(10, s) = (IF i < 0 THEN i + 2 ^ Bits ELSE i) /\ "-" \notin ToSet(s)

\* A float is read back with its sign and all FracLen digits of its fraction,
\* also where the fraction starts with zeros.
FloatReadsBack(d) ==
    LET s == __emit_float(d, 0)
        abs == IF d < 0 THEN -d ELSE d
        dot == CHOOSE i \in DOMAIN s : s[i] = "."
    IN  /\ (s[1] = "-") = (d < 0)
        /\ Number(10, SelectSeq(s, IsDigit)) = abs
        /\ Len(s) - dot = FracLen

\* emit() has room for the text and the 0 behind it, except for a number of
\* Bits binary digits: pad() then writes the 0 behind the end of buf.
BufHolds(item) ==
    LET p == Collected(Base(item.spec), item.arg, item.width, FALSE)
    IN  \/ Len(p) + 1 <= BufSize
        \/ item.spec = "b" /\ item.arg >= 2 ^ (Bits - 1) /\ Len(p) = BufSize

\* Whatever the format, va_printk() stays in the n bytes of buf with the 0, and
\* what is missing in buf is missing at the end.
Truncates(n, fmt) ==
    LET all == FoldLeft(LAMBDA s, item : s \o Text(item), <<>>, fmt)
        r == va_printk(n, fmt)
    IN  /\ Len(r.buf) + 1 <= n
        /\ IsPrefix(r.buf, all)
        /\ Len(r.buf) = n - 1 \/ r.buf = all
================================================================================
