--------------------------- MODULE MCDeviceCalls ---------------------------
(* Two calls of one turn, two links. *)
EXTENDS DeviceCalls
=============================================================================
