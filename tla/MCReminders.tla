---------------------------- MODULE MCReminders ----------------------------
(***************************************************************************)
(* A small instance of a reminder for TLC.                                 *)
(***************************************************************************)
EXTENDS Reminders
=============================================================================
