------------------------- MODULE AtLeastOnceDelivery -------------------------
(***************************************************************************)
(* What the durable outbox promises to the surfaces that use it, without   *)
(* workers, leases, timers or files: a job accepted under a key is one     *)
(* piece of work for ever, its chunks take effect in order and each at     *)
(* least once before the job is reported complete, and a verdict is final. *)
(* An effect may be repeated, even after the verdict.                      *)
(***************************************************************************)
EXTENDS Naturals

CONSTANTS
  Key,        \* idempotency keys
  Work,       \* pieces of work a caller may ask for under a key
  Chunks,     \* external effects one job consists of, at least one
  Many        \* effects are counted up to this number, at least two

VARIABLES
  job,        \* job[k]: the verdict on the job accepted under k
  asked,      \* asked[k]: the work accepted under k, {} before
  effects     \* effects[k][c]: how often chunk c took effect

vars == <<job, asked, effects>>

Chunk == 0 .. Chunks - 1

Count(n) == IF n < Many THEN n + 1 ELSE n

Init ==
  /\ job = [k \in Key |-> "none"]
  /\ asked = [k \in Key |-> {}]
  /\ effects = [k \in Key |-> [c \in Chunk |-> 0]]

Accept(k, p) ==
  /\ job[k] = "none"
  /\ job' = [job EXCEPT ![k] = "owed"]
  /\ asked' = [asked EXCEPT ![k] = {p}]
  /\ UNCHANGED effects

(* An effect needs an accepted job and its predecessor; it may come late.  *)
Perform(k, c) ==
  /\ job[k] # "none"
  /\ \A b \in 0 .. c - 1 : effects[k][b] > 0
  /\ effects' = [effects EXCEPT ![k][c] = Count(@)]
  /\ UNCHANGED <<job, asked>>

Complete(k) ==
  /\ job[k] = "owed"
  /\ \A c \in Chunk : effects[k][c] > 0
  /\ job' = [job EXCEPT ![k] = "completed"]
  /\ UNCHANGED <<asked, effects>>

Refuse(k) ==
  /\ job[k] = "owed"
  /\ job' = [job EXCEPT ![k] = "failed"]
  /\ UNCHANGED <<asked, effects>>

Next ==
  \E k \in Key :
    \/ \E p \in Work : Accept(k, p)
    \/ \E c \in Chunk : Perform(k, c)
    \/ Complete(k)
    \/ Refuse(k)

Spec == Init /\ [][Next]_vars
=============================================================================
