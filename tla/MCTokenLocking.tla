--------------------------- MODULE MCTokenLocking ---------------------------
(* TokenLocking with two users and two obligators, which are interchangeable. *)
EXTENDS TokenLocking, TLC

MCAmounts == 1 .. 2

Interchangeable == Permutations(Users) \cup Permutations(Obligators)
=============================================================================
