----------------------------- MODULE MCSingular -----------------------------
(* A small instance of Singular: lease tokens and documents are            *)
(* interchangeable, and the keys' rows are never touched together.         *)
EXTENDS Singular, TLC

CONSTANT MaxTime        \* bound: callers' times are 1 .. MaxTime

MCTimes == 1 .. MaxTime

Symmetry == Permutations(Tokens) \cup Permutations(Payloads)
=============================================================================
