------------------------- MODULE MCProviderCapacity -------------------------
(***************************************************************************)
(* Small instances of the provider's admission controller for TLC: three   *)
(* interactive requests, one of which hangs until it is aborted, two       *)
(* passive gates of one identity, and a title.                             *)
(***************************************************************************)
EXTENDS ProviderCapacity, TLC

CONSTANTS i1, i2, h1, p1, p2, t1

MCKind ==
  [r \in Request |->
     CASE r \in {i1, i2, h1} -> "interactive" [] r \in {p1, p2} -> "passive"
       [] OTHER -> "title"]

MCIdentity == [r \in Request |-> IF r \in {i2, h1} THEN "grace" ELSE "ada"]
=============================================================================
