--------------------------------- MODULE Fractal ---------------------------------
(***************************************************************************)
(* How the capstone's tasks draw the Mandelbrot set: each task takes every *)
(* total_threads-th line and computes four neighbouring pixels at a time.  *)
(* The arithmetic is left out: a pixel is the number of passes after which *)
(* its |z| has reached 2, from where on it only grows.                     *)
(***************************************************************************)
EXTENDS Integers, Sequences, FiniteSets, SequencesExt

CONSTANTS total_threads, line_per_thread, width, iterations
ASSUME FractalAssumption ==
    /\ {total_threads, line_per_thread, width, iterations} \subseteq Nat \ {0}
    /\ width % 4 = 0

height == total_threads * line_per_thread

\* The argument of the k-th task that notmain() forks: &ith_line[k].
ith_line == [k \in 0 .. total_threads - 1 |-> k]

\* The loop at r: with the four pixels of which p has out[p] passes.  mask0 are
\* those below 2, mask1 those of them that still count.
Counts(out) ==
    LET run[k \in 1 .. iterations + 1] ==
          LET n     == IF k = 1 THEN [p \in 1 .. 4 |-> 0] ELSE run[k - 1]
              mask0 == {p \in 1 .. 4 : out[p] >= k}
              mask1 == {p \in mask0 : n[p] < iterations}
          IN  IF mask0 = {} THEN n ELSE [p \in 1 .. 4 |-> IF p \in mask1 THEN n[p] + 1 ELSE n[p]]
    IN  run[iterations + 1]

\* colour: black outside the set, white inside.
Colour(n) == IF n < iterations THEN "black" ELSE "white"

\* The pointer behind a line, which has gone through width pixels, goes on to the
\* task's next one.
NextLine(buffer) == buffer + (total_threads - 1) * width

\* What a task writes: the index into the frame buffer and the pixel meant by it.
draw_fractal_mandelbrot(line) ==
    LET at[k \in 0 .. line_per_thread - 1] ==
          IF k = 0 THEN line * width ELSE NextLine(at[k - 1] + width)
        y(k) == line + k * total_threads
    IN  {[index |-> at[k] + x, x |-> x, y |-> y(k)]
           : k \in 0 .. line_per_thread - 1, x \in 0 .. width - 1}

--------------------------------------------------------------------------------
(* Properties. *)

Writes(k) == draw_fractal_mandelbrot(ith_line[k])

\* The tasks on all four cores share the picture without a lock: each of its
\* pixels is written by exactly one task, once, at its place, and nothing else is.
TasksTile ==
    LET all == UNION {{<<k, w>> : w \in Writes(k)} : k \in DOMAIN ith_line}
    IN  /\ {p[2].index : p \in all} = 0 .. width * height - 1
        /\ Cardinality(all) = width * height
        /\ \A p \in all : p[2].index = p[2].y * width + p[2].x

\* Each of four pixels gets the colour it would get alone, although all four go
\* on until the last one is done.
LanesAgree(out) ==
    \A p \in 1 .. 4 :
        Colour(Counts(out)[p]) = (IF out[p] < iterations THEN "black" ELSE "white")
================================================================================
