------------------------------- MODULE MCThreads -------------------------------
(* Small instances of Threads for TLC. *)
EXTENDS ThreadsInv

CONSTANTS a, b, c, e

Call(o, t) == [op |-> o, p |-> t]
Nullary(o) == [op |-> o, p |-> Main]

\* Main and e fork at the same time, main uses a twice; e never ends.
Busy == [t \in Tasks |->
    CASE t = Main -> <<Call("fork", e), Nullary("timer"), Call("fork", a),
                       Call("fork", b), Call("join", a), Call("fork", a),
                       Call("join", a), Call("join", b)>>
      [] t = e -> <<Call("fork", c), Call("join", c)>>
      [] t = a -> <<Nullary("yield")>>
      [] OTHER -> <<>>]

\* No function loops, so that main is left alone on the list.
Last == [t \in Tasks |->
    IF t = Main THEN <<Call("fork", a), Nullary("timer"), Call("fork", b),
                       Call("join", a), Call("join", b)>>
    ELSE <<>>]

\* The programs of these instances keep to the discipline.
ASSUME ProgramKeepsDiscipline == ForksAreJoined
================================================================================
