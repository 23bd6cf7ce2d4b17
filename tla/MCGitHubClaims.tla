--------------------------- MODULE MCGitHubClaims ---------------------------
(***************************************************************************)
(* A small instance of the GitHub surface for TLC.                         *)
(***************************************************************************)
EXTENDS GitHubClaims, TLC

OneThread == [t \in Trigger |-> "thread"]
=============================================================================
