--------------------------------- MODULE Frames ---------------------------------
(***************************************************************************)
(* What an interrupt and a context switch do to the registers: the macros  *)
(* kernel_entry and kernel_exit of entry.S and context_switch of           *)
(* thread_asm.s, as lists of instructions that FoldLeft executes.           *)
(*                                                                         *)
(* A machine is a record of registers and memory, in cells of 8 bytes.  A  *)
(* vector register is two cells, of which functions preserve the lower one *)
(* of v8 to v15.  Registers start with their own name as value, so a value *)
(* tells where it came from.                                               *)
(***************************************************************************)
EXTENDS Integers, Sequences, SequencesExt

\* Registers are numbered; D(n) and U(n) are the halves of v(n).
X(n) == n
D(n) == 32 + n
U(n) == 64 + n
Sp   == 96
Elr  == 97
Spsr == 98

Registers == (0 .. 98) \ {31}

\* Values that are no addresses: what a register held, and what others put there.
Held(r)  == -1 - r
Handler  == -100
OtherTask == -101
Fn == -102
Arg == -103
Ret == -104
RetFromFork == -105
Garbage == -106

\* x19 to x29 and d8 to d15 survive a call, and so does sp.
Preserved == {X(n) : n \in 19 .. 29} \cup {D(n) : n \in 8 .. 15} \cup {Sp}

\* Instructions: move, add to a base, store and load cells at base + off and step
\* the base.
Instruction(op, regs, base, off, step) ==
    [op |-> op, regs |-> regs, base |-> base, off |-> off, step |-> step]
Move(to, from)       == Instruction("move", <<to, from>>, Sp, 0, 0)
Add(base, n)         == Instruction("add", <<>>, base, 0, n)
St(regs, base, n)    == Instruction("st", regs, base, 0, n)
Ld(regs, base, n)    == Instruction("ld", regs, base, 0, n)
StAt(regs, base, off) == Instruction("st", regs, base, off, 0)
LdAt(regs, base, off) == Instruction("ld", regs, base, off, 0)

\* The cells from address a on, one for each of regs.
Cell(a, i) == a + 8 * (i - 1)

Exec(m, ins) ==
    LET a == m.reg[ins.base] + ins.off
        stepped == [m.reg EXCEPT ![ins.base] = @ + ins.step]
        cells == {Cell(a, i) : i \in DOMAIN ins.regs}
        place(r) == CHOOSE i \in DOMAIN ins.regs : ins.regs[i] = r
    IN  CASE ins.op = "move" ->
               [m EXCEPT !.reg[ins.regs[1]] = m.reg[ins.regs[2]]]
          [] ins.op = "add" -> [m EXCEPT !.reg = stepped]
          [] ins.op = "st" ->
               [reg |-> stepped,
                mem |-> [c \in cells |-> m.reg[ins.regs[(c - a) \div 8 + 1]]] @@ m.mem]
          [] ins.op = "ld" ->
               [m EXCEPT !.reg = [r \in Range(ins.regs) |-> m.mem[Cell(a, place(r))]] @@ stepped]

Execute(m, code) == FoldLeft(Exec, m, code)

--------------------------------------------------------------------------------
(* entry.S *)

Pairs == [i \in 1 .. 15 |-> <<X(2 * i - 2), X(2 * i - 1)>>]
Quads == [i \in 1 .. 8 |-> <<D(4 * i - 4), U(4 * i - 4), D(4 * i - 3), U(4 * i - 3),
                             D(4 * i - 2), U(4 * i - 2), D(4 * i - 1), U(4 * i - 1)>>]

FrameBytes == 784

kernel_entry ==
    <<Add(Sp, -FrameBytes)>>
      \o [i \in 1 .. 15 |-> St(Pairs[i], Sp, 16)]
      \o <<Move(X(22), Elr), Move(X(23), Spsr),
           St(<<X(30), X(22)>>, Sp, 16), St(<<X(23)>>, Sp, 16)>>
      \o [i \in 1 .. 8 |-> St(Quads[i], Sp, 64)]
      \o <<Add(Sp, -784)>>

kernel_exit ==
    [i \in 1 .. 15 |-> Ld(Pairs[i], Sp, 16)]
      \o <<Ld(<<X(30), X(22)>>, Sp, 16), Ld(<<X(23)>>, Sp, 16),
           Move(Elr, X(22)), Move(Spsr, X(23))>>
      \o [i \in 1 .. 8 |-> Ld(Quads[i], Sp, 64)]

\* What a handler written in C leaves of the registers; interrupts it enables
\* again overwrite the exception registers too.
Handled(m) == [m EXCEPT !.reg = [r \in Registers |->
                                   IF r \in Preserved THEN m.reg[r] ELSE Handler]]

\* The machine an interrupt strikes, with its stack pointer at sp.
Struck(sp) == [reg |-> [r \in Registers |-> IF r = Sp THEN sp ELSE Held(r)],
               mem |-> [c \in {} |-> 0]]

el1_irq(m) == Execute(Handled(Execute(m, kernel_entry)), kernel_exit)

--------------------------------------------------------------------------------
(* thread_asm.s; x0 and x1 point to the cpu_contexts of prev and next. *)

Callee == <<<<X(19), X(20)>>, <<X(21), X(22)>>, <<X(23), X(24)>>, <<X(25), X(26)>>,
            <<X(27), X(28)>>>>

SavedBase_Bug == X(1)

SavedBase == X(0)

Low(n) == <<D(n), D(n + 1), D(n + 2), D(n + 3)>>

Save ==
    <<Move(X(8), SavedBase), Move(X(9), Sp)>>
      \o [i \in 1 .. 5 |-> St(Callee[i], X(8), 16)]
      \o <<St(Low(8), X(8), 32), St(Low(12), X(8), 32),
           St(<<X(29), X(9)>>, X(8), 16), St(<<X(30)>>, X(8), 0)>>

Restore ==
    <<Move(X(8), X(1))>>
      \o [i \in 1 .. 5 |-> Ld(Callee[i], X(8), 16)]
      \o <<Ld(Low(8), X(8), 32), Ld(Low(12), X(8), 32),
           Ld(<<X(29), X(9)>>, X(8), 16), Ld(<<X(30)>>, X(8), 0), Move(Sp, X(9))>>

\* Called with the contexts at the addresses prev and next.
context_switch(m, prev, next) ==
    Execute([m EXCEPT !.reg[X(0)] = prev, !.reg[X(1)] = next], Save \o Restore)

\* struct cpu_context: the offset of each field.
Offset(field) ==
    CASE field = "sp" -> 152 [] field = "pc" -> 160
      [] field = "x19" -> 0 [] field = "x20" -> 8 [] field = "x21" -> 16

\* What fork_task() writes into the context at address p.
Forked(m, p, top) ==
    LET written == [c \in {p + Offset(f) : f \in {"x19", "x20", "x21", "sp", "pc"}} |->
                      CASE c = p + Offset("x19") -> Fn
                        [] c = p + Offset("x20") -> Arg
                        [] c = p + Offset("x21") -> Ret
                        [] c = p + Offset("sp") -> top
                        [] c = p + Offset("pc") -> RetFromFork]
    IN  [m EXCEPT !.mem = [c \in DOMAIN m.mem \cup {p + 8 * i : i \in 0 .. 20} |->
                             IF c \in DOMAIN written THEN written[c]
                             ELSE IF c \in DOMAIN m.mem THEN m.mem[c] ELSE Garbage]]

--------------------------------------------------------------------------------
(* Properties, for a stack pointer sp and contexts at p and q. *)

\* The interrupted code finds its registers as they were.
Unchanged(sp, r) == el1_irq(Struck(sp)).reg[r] = Struck(sp).reg[r]

\* All but x22 and x23, which kernel_exit uses after it has restored them; the
\* frame lies below sp, in the bytes it was given.
AllButTwo(sp) ==
    LET m == Execute(Struck(sp), kernel_entry)
    IN  /\ \A r \in Registers \ {X(22), X(23)} : Unchanged(sp, r)
        /\ \A c \in DOMAIN m.mem : m.reg[Sp] <= c /\ c + 8 <= sp

\* A task that is switched out and in again finds what a call preserves, while
\* another has used every register and its own context and stack.
SwitchesBack(sp, p, q) ==
    LET m   == Struck(sp)
        out == context_switch(Forked(m, q, sp - 4096), p, q)
        off == [out EXCEPT !.reg = [r \in Registers |-> IF r = Sp THEN 0 ELSE OtherTask]]
        in  == context_switch(off, q, p)
    IN  \A r \in Preserved \cup {X(30)} : in.reg[r] = m.reg[r]

\* A forked task starts in ret_from_fork on top of its stack, with its function
\* and arguments where that code looks for them.
StartsForked(sp, p, q) ==
    LET m == context_switch(Forked(Struck(sp), q, sp - 4096), p, q)
    IN  /\ m.reg[X(30)] = RetFromFork
        /\ m.reg[Sp] = sp - 4096
        /\ <<m.reg[X(19)], m.reg[X(20)], m.reg[X(21)]>> = <<Fn, Arg, Ret>>
================================================================================
