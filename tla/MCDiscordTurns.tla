--------------------------- MODULE MCDiscordTurns ---------------------------
(***************************************************************************)
(* Small instances of the Discord bot's turns for TLC. The first           *)
(* conversation has a message and the event, the second (where there is    *)
(* one) has the other messages.                                            *)
(***************************************************************************)
EXTENDS DiscordTurns, TLC

CONSTANTS m1, m2, e1, c1, c2

MCConvOf == [t \in Turn |-> IF t = m2 THEN c2 ELSE c1]
=============================================================================
