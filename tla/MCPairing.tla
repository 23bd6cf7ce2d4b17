----------------------------- MODULE MCPairing -----------------------------
(***************************************************************************)
(* A small instance of the pairing transaction for TLC: one member, who    *)
(* may ask for a second code.                                              *)
(***************************************************************************)
EXTENDS Pairing, TLC

CONSTANT ada
OneMember == [c \in Code |-> ada]
Interchangeable == Permutations(Code)
=============================================================================
