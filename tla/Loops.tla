------------------------------- MODULE Loops -------------------------------
(***************************************************************************)
(* The accumulating `for` loops of the Go code, as recursive functions.    *)
(*                                                                         *)
(* Loop(n, init, step) is the value an accumulator that starts as init     *)
(* has after the body has run for k = 1, 2, ..., n, where the body turns   *)
(* acc into step[k][acc].  A function and not an operator carries the      *)
(* body, so that LoopTheorems can reason about every such loop with one    *)
(* lemma (the folds of the community modules take an operator).            *)
(***************************************************************************)
EXTENDS Integers

Loop(n, init, step) ==
    LET after[k \in 0..n] == IF k = 0 THEN init ELSE step[k][after[k-1]]
    IN  after[n]

(* f[1] + ... + f[n] *)
SumTo(n, f) == Loop(n, 0, [k \in 1..n |-> [acc \in Int |-> acc + f[k]]])
=============================================================================
