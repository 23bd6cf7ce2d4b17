--------------------------- MODULE MCEventWatcher ---------------------------
(***************************************************************************)
(* A small instance of the event watcher for TLC.                          *)
(***************************************************************************)
EXTENDS EventWatcher
=============================================================================
