-------------------------- MODULE ProviderCapacity --------------------------
(***************************************************************************)
(* The admission controller in front of the model provider                 *)
(* (src/lib/provider/capacity-controller.ts): a bounded queue with         *)
(* priorities, a bounded set of active turns, and an orderly shutdown.     *)
(*                                                                         *)
(* A request is a client that has at most one provider turn outstanding    *)
(* and may come back with another. The code is single-threaded, so each    *)
(* method and callback is one step. #queue is kept in the order of         *)
(* `sequence', in which entries are pushed. #pump's loop is one turn of it:*)
(* WorkConserving says that a second would find nothing to do.             *)
(*                                                                         *)
(* An operator named Op_Mistake stands before Op and is Op with a          *)
(* plausible mistake in it: the properties are tested against these.       *)
(***************************************************************************)
EXTENDS Naturals, Sequences, FiniteSets

CONSTANTS
  Request,       \* clients of the provider
  Kind,          \* Kind[r]: the kind of work r asks for
  Identity,      \* Identity[r]: the identity its work is accounted to
  Hangs,         \* requests whose provider call returns only when aborted
  MaxConcurrent, MaxQueued, MaxQueuedPerIdentity,
  Burst          \* interactive starts in a row before others get a slot: 4

Kinds == {"interactive", "passive", "background", "title"}

ASSUME CapacityAssumption ==
  /\ IsFiniteSet(Request) /\ Hangs \subseteq Request
  /\ Kind \in [Request -> Kinds] /\ DOMAIN Identity = Request
  /\ MaxConcurrent \in Nat \ {0} /\ MaxQueued \in Nat \ {0}
  /\ MaxQueuedPerIdentity \in Nat \ {0} /\ Burst \in Nat \ {0}

VARIABLES
  queue,      \* #queue: requests waiting
  active,     \* #active: requests whose provider call is under way
  aborted,    \* active requests whose signal is aborted
  streak,     \* #interactiveStreak
  shutdown,   \* "open", "grace" (the timer runs), "cut" (it fired), "closed"
  bypassed    \* observer: interactive starts in a row that passed over a
              \*   waiting request of another kind

vars == <<queue, active, aborted, streak, shutdown, bypassed>>

Init ==
  /\ queue = <<>> /\ active = {} /\ aborted = {}
  /\ streak = 0 /\ shutdown = "open" /\ bypassed = 0

Accepting == shutdown = "open"

Entries(q) == {q[i] : i \in DOMAIN q}
Queued == Entries(queue)
Interactive(r) == Kind[r] = "interactive"

(* priorityOf *)
Priority(r) ==
  CASE Kind[r] = "interactive" -> 0 [] Kind[r] = "passive" -> 1
    [] Kind[r] = "background" -> 2  [] OTHER -> 3

\* The oldest entry of q that is in S.
OldestIndex(q, S) ==
  CHOOSE i \in DOMAIN q : q[i] \in S /\ \A j \in 1 .. i - 1 : q[j] \notin S

Without(q, n) == [i \in 1 .. Len(q) - 1 |-> IF i < n THEN q[i] ELSE q[i + 1]]

Foremost(q) == {r \in Entries(q) : \A s \in Entries(q) : Priority(r) <= Priority(s)}
Low(q) == {r \in Entries(q) : ~Interactive(r)}

Relieved_Never == FALSE
Relieved_Late == streak > Burst
Relieved == streak >= Burst

(* #takeNext: the foremost kind, or after a burst of interactive starts    *)
(* the oldest of the others.                                               *)
TakeNext(q) == OldestIndex(q, IF Relieved /\ Low(q) # {} THEN Low(q) ELSE Foremost(q))

Free(run) == Cardinality(run) < MaxConcurrent

\* Counting goes on to just above Burst, which tells all that matters.
Bump(n) == IF n <= Burst THEN n + 1 ELSE n

(* #pump with q as the queue and run as the active turns.                  *)
Pump(q, run) ==
  IF Accepting /\ Free(run) /\ q # <<>>
  THEN LET n == TakeNext(q) IN
       /\ queue' = Without(q, n)
       /\ active' = run \union {q[n]}
       /\ streak' = IF Interactive(q[n]) THEN Bump(streak) ELSE 0
       /\ bypassed' = IF Interactive(q[n]) /\ Low(q) # {} THEN Bump(bypassed) ELSE 0
  ELSE queue' = q /\ active' = run /\ UNCHANGED <<streak, bypassed>>

(***************************************************************************)
(* generateTurn. A rejected request changes nothing.                       *)
(***************************************************************************)

UnderPressure ==
  (\E r \in Queued : Interactive(r)) \/ Len(queue) >= (MaxQueued + 1) \div 2

Coalesced(r) ==
  Kind[r] = "passive" /\ \E s \in Queued : Kind[s] = "passive" /\ Identity[s] = Identity[r]

QueuedForIdentity(r) == Cardinality({i \in DOMAIN queue : Identity[queue[i]] = Identity[r]})

Full_OneMore == Len(queue) > MaxQueued
Full == Len(queue) >= MaxQueued

Admitted(r) ==
  /\ Accepting
  /\ ~Coalesced(r)
  /\ ~(Kind[r] = "title" /\ UnderPressure)
  /\ ~Full
  /\ QueuedForIdentity(r) < MaxQueuedPerIdentity

GenerateTurn(r) ==
  /\ r \notin Queued \union active
  /\ Admitted(r)
  /\ Pump(Append(queue, r), active)
  /\ UNCHANGED <<aborted, shutdown>>

(***************************************************************************)
(* What may happen to it.                                                  *)
(***************************************************************************)

(* The caller aborts: onAbort takes a waiting request out of the queue; an *)
(* active one is told through its signal.                                  *)
Abort(r) ==
  \/ /\ r \in Queued
     /\ queue' = Without(queue, OldestIndex(queue, {r}))
     /\ UNCHANGED <<active, aborted, streak, shutdown, bypassed>>
  \/ /\ r \in active \ aborted
     /\ aborted' = aborted \union {r}
     /\ UNCHANGED <<queue, active, streak, shutdown, bypassed>>

Refill_Not(run) == queue' = queue /\ active' = run /\ UNCHANGED <<streak, bypassed>>
Refill(run) == Pump(queue, run)

\* #notifyIdle
Idle(run) == run = {} /\ queue = <<>>

(* The provider call returns, in success or not: #finish.                  *)
Finish(r) ==
  /\ r \in active
  /\ r \in Hangs => r \in aborted
  /\ Refill(active \ {r})
  /\ aborted' = aborted \ {r}
  /\ shutdown' = IF ~Accepting /\ Idle(active \ {r}) THEN "closed" ELSE shutdown

(* shutdown rejects what waits and leaves what runs a grace period.        *)
Shutdown ==
  /\ Accepting
  /\ queue' = <<>>
  /\ shutdown' = IF active = {} THEN "closed" ELSE "grace"
  /\ UNCHANGED <<active, aborted, streak, bypassed>>

Cut_Nothing == {}
Cut == active

GraceExpires ==
  /\ shutdown = "grace"
  /\ aborted' = aborted \union Cut
  /\ shutdown' = "cut"
  /\ UNCHANGED <<queue, active, streak, bypassed>>

Next ==
  \/ \E r \in Request : GenerateTurn(r) \/ Abort(r) \/ Finish(r)
  \/ Shutdown \/ GraceExpires

(* Provider calls return, those in Hangs once their signal is aborted, and *)
(* the timer of shutdown fires. No caller has to come back or to abort.    *)
Fairness == (\A r \in Request : WF_vars(Finish(r))) /\ WF_vars(GraceExpires)

Spec == Init /\ [][Next]_vars
FairSpec == Spec /\ Fairness

(***************************************************************************)
(* Properties.                                                             *)
(***************************************************************************)

(* The shape of the state; a request is in one place at a time.            *)
TypeOK ==
  /\ queue \in Seq(Request)
  /\ \A i, j \in DOMAIN queue : queue[i] = queue[j] => i = j
  /\ active \subseteq Request \ Queued /\ aborted \subseteq active
  /\ streak \in 0 .. Burst + 1 /\ bypassed \in 0 .. Burst + 1
  /\ shutdown \in {"open", "grace", "cut", "closed"}

(* "at most 3 provider turns concurrently, ... at most 64 waiting turns    *)
(* globally, and ... at most 8 ... for one identity", and one queued gate  *)
(* per identity, whatever finishes, aborts and arrives. No request is      *)
(* queued twice, or queued and active at once.                             *)
LimitsHold ==
  /\ TypeOK
  /\ Cardinality(active) <= MaxConcurrent
  /\ Len(queue) <= MaxQueued
  /\ \A r \in Request : QueuedForIdentity(r) <= MaxQueuedPerIdentity
  /\ \A r, s \in Queued :
       Kind[r] = "passive" /\ Kind[s] = "passive" /\ Identity[r] = Identity[s] => r = s

(* No slot stays free while work waits: no wake-up of #pump is missing,    *)
(* after an abort, a rejection or a turn that ends. Once the controller    *)
(* is closed nothing runs or waits.                                        *)
WorkConserving ==
  /\ queue # <<>> => Accepting /\ Cardinality(active) >= MaxConcurrent
  /\ shutdown = "closed" => active = {}

(* While a request of another kind waits, at most Burst interactive turns  *)
(* in a row start before one of these.                                     *)
BoundedBypass == bypassed <= Burst

(* Interactive work and passive gates that wait get a slot, or are turned  *)
(* away by their caller or by shutdown, whatever else arrives.             *)
InteractiveAndPassiveServed ==
  \A r \in Request : Kind[r] \in {"interactive", "passive"} => (r \in Queued ~> r \notin Queued)

(* shutdown returns, though a provider call may never return by itself.    *)
ShutdownEnds == shutdown = "grace" ~> shutdown = "closed"
=============================================================================
