--------------------------- MODULE MCDurableOutbox ---------------------------
(***************************************************************************)
(* Small instances of the durable outbox for TLC: every worker has a       *)
(* handler for every key, and workers and payloads are interchangeable.    *)
(***************************************************************************)
EXTENDS DurableOutbox, TLC

MCHandles == [w \in Worker |-> Key]

Interchangeable == Permutations(Worker) \union Permutations(Work)
=============================================================================
