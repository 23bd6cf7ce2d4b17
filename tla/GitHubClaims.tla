---------------------------- MODULE GitHubClaims ----------------------------
(***************************************************************************)
(* The GitHub surface (src/surfaces/github/bot/github-bot.ts): processes   *)
(* that share one data directory poll the same notifications, claim a      *)
(* trigger in github/state.json, run one provider turn for it, put the     *)
(* response into the delivery outbox and mark the trigger processed.       *)
(*                                                                         *)
(* A store update is one step, since it runs under the managed-write lock  *)
(* (module ManagedWrite); what follows an await is another step. Time is   *)
(* relative: ages are ticks since the instant a timestamp names.           *)
(*                                                                         *)
(* An operator named Op_Mistake stands before Op and is Op with a          *)
(* plausible mistake in it: the properties are tested against these.       *)
(***************************************************************************)
EXTENDS Integers, Sequences, FiniteSets

CONSTANTS
  Process,         \* GitHubBot processes over one data directory
  Trigger,         \* trigger keys
  ThreadOf,        \* the issue or pull request of a trigger
  ProcessExisting, \* SANDI_GITHUB_PROCESS_EXISTING_NOTIFICATIONS
  Stale,           \* CLAIM_STALE_MS in ticks
  Renewal,         \* CLAIM_RENEWAL_MS in ticks
  Safety,          \* expirySafetyMs in ticks
  MaxProcessed,    \* MAX_PROCESSED_TRIGGERS
  MaxOpen,         \* listed triggers that wait to be processed (bound)
  MaxStarts,       \* process starts (bound)
  MaxFaults        \* stops, crashes, failures and oversleeps (bound)

NoOne == "no process"

ASSUME ClaimAssumption ==
  /\ NoOne \notin Process
  /\ ProcessExisting \in BOOLEAN
  /\ Stale \in Nat /\ Renewal \in Nat /\ Safety \in Nat
  /\ 0 < Renewal /\ Renewal < Stale - Safety     \* validateClaimLeaseRuntime
  /\ MaxProcessed \in Nat /\ MaxOpen \in Nat /\ MaxStarts \in Nat /\ MaxFaults \in Nat

VARIABLES
  listed,    \* triggers that a poll collects from the notifications, or has collected
  claim,     \* state.json, processingClaims: who holds t and since when
  processed, \* state.json, processedTriggers, oldest first
  response,  \* triggers whose response is a record of the delivery outbox
  status,    \* status[p]: "down", "polling", or "stopped": only its jobs go on
  ignored,   \* ignored[p]: triggers p's polls pass over
  queue,     \* queue[p]: jobs waiting in the ThreadQueue
  job,       \* job[p][t]: the job p has for t (#pendingTriggerKeys) and its lease
  turns,     \* observer: provider turns that began, counted up to 2
  excused,   \* observer: unanswered triggers whose turn was cut short or forgotten
  starts,    \* process starts so far
  faults     \* faults so far

disk == <<claim, processed, response>>
memory == <<status, ignored, queue, job>>
vars == <<listed, disk, memory, turns, excused, starts, faults>>

Capped(n) == IF n <= Stale THEN n + 1 ELSE n

Unclaimed == [by |-> NoOne, age |-> 0]
NoAttempt == -1
\* age: since confirmedAt; attempt: since a renewal under way was sent.
NoJob == [pc |-> "none", age |-> 0, aborted |-> FALSE, attempt |-> NoAttempt]

Init ==
  /\ listed = {}
  /\ claim = [t \in Trigger |-> Unclaimed] /\ processed = <<>> /\ response = {}
  /\ status = [p \in Process |-> "down"]
  /\ ignored = [p \in Process |-> {}]
  /\ queue = [p \in Process |-> <<>>]
  /\ job = [p \in Process |-> [t \in Trigger |-> NoJob]]
  /\ turns = [t \in Trigger |-> 0] /\ excused = {}
  /\ starts = 0 /\ faults = 0

At(p, t, label) == job[p][t].pc = label
Becomes(p, t, content) == job' = [job EXCEPT ![p][t] = content]
Goto(p, t, label) == Becomes(p, t, [job[p][t] EXCEPT !.pc = label])

\* s without t, which it holds at most once.
Removed(s, t) ==
  IF \E i \in DOMAIN s : s[i] = t
  THEN LET n == CHOOSE i \in DOMAIN s : s[i] = t
       IN  SubSeq(s, 1, n - 1) \o SubSeq(s, n + 1, Len(s))
  ELSE s

\* Steps of the job's callback, with the claim's lease running.
Leased == {"claimed", "checked", "turn", "enqueuing", "responding", "marking", "releasing"}
Active == Leased \union {"claiming"}

Fault == faults < MaxFaults /\ faults' = faults + 1
NoFault == UNCHANGED faults
Unobserved == UNCHANGED <<turns, excused>>
Excuse(t) == excused' = IF t \in response THEN excused ELSE excused \union {t}

(***************************************************************************)
(* GitHub and the life of a process.                                       *)
(***************************************************************************)

IsProcessed(t) == \E i \in DOMAIN processed : processed[i] = t

(* A comment mentions Sandi, a review is requested, or there is news in    *)
(* the thread: the notification is newer than the start of any process.    *)
Notify(t) ==
  /\ t \notin listed \/ \E p \in Process : t \in ignored[p]
  /\ Cardinality({u \in listed \ {t} : ~IsProcessed(u)}) < MaxOpen
  /\ listed' = listed \union {t}
  /\ ignored' = [p \in Process |-> ignored[p] \ {t}]
  /\ NoFault /\ Unobserved /\ UNCHANGED <<disk, status, queue, job, starts>>

(* A notification yields its latest comment alone, or the latest request:  *)
(* a later comment, by Sandi or by others, takes the place of t, or the    *)
(* notification was read, and the polls that had collected t are over.     *)
(* This matters to a trigger that was not processed and that no process    *)
(* has a job for, and is taken then: a job goes on without its             *)
(* notification, and no poll need come before it ends.                     *)
Supersede(t) ==
  /\ t \in listed /\ ~IsProcessed(t) /\ \A p \in Process : At(p, t, "none")
  /\ listed' = listed \ {t}
  /\ NoFault /\ Unobserved /\ UNCHANGED <<disk, memory, starts>>

(* #startOnce: what is listed by then is ignored until there is news of    *)
(* it, because of #ignoreNotificationsBefore.                              *)
Start(p) ==
  /\ status[p] = "down" /\ starts < MaxStarts
  /\ status' = [status EXCEPT ![p] = "polling"]
  /\ ignored' = [ignored EXCEPT ![p] = IF ProcessExisting THEN {} ELSE listed]
  /\ starts' = starts + 1
  /\ NoFault /\ Unobserved /\ UNCHANGED <<listed, disk, queue, job>>

(* No more polls; jobs that are queued or under way go on.                 *)
Stop(p) ==
  /\ status[p] = "polling"
  /\ status' = [status EXCEPT ![p] = "stopped"]
  /\ Fault /\ Unobserved /\ UNCHANGED <<listed, disk, ignored, queue, job, starts>>

(* The process ends: the host exits after stop(), or by a crash.           *)
Exit(p) ==
  /\ status[p] # "down"
  /\ status' = [status EXCEPT ![p] = "down"]
  /\ ignored' = [ignored EXCEPT ![p] = {}]
  /\ queue' = [queue EXCEPT ![p] = <<>>]
  /\ job' = [job EXCEPT ![p] = [t \in Trigger |-> NoJob]]
  /\ IF status[p] = "stopped" THEN NoFault ELSE Fault
  /\ Unobserved /\ UNCHANGED <<listed, disk, starts>>

(***************************************************************************)
(* pollOnce and #enqueueTrigger.                                           *)
(***************************************************************************)

IsStale_Never(c) == FALSE
IsStale_AtTheDeadline(c) == c.age >= Stale - Safety
IsStale(c) == c.age > Stale

(* The loop over the notifications comes to t, loads its identity and its  *)
(* conversation and queues the job; if that fails, t is as before. Polls   *)
(* whose claim would be refused at once change nothing and are left out.   *)
Poll(p, t) ==
  /\ status[p] = "polling" /\ t \in listed \ ignored[p] /\ At(p, t, "none")
  /\ ~IsProcessed(t) /\ (claim[t].by = NoOne \/ IsStale(claim[t]))
  /\ Goto(p, t, "queued")
  /\ queue' = [queue EXCEPT ![p] = Append(@, t)]
  /\ NoFault /\ Unobserved /\ UNCHANGED <<listed, disk, status, ignored, starts>>

Foremost(p, t) ==
  /\ \E i \in DOMAIN queue[p] :
       /\ queue[p][i] = t
       /\ \A j \in 1 .. i - 1 : ThreadOf[queue[p][j]] # ThreadOf[t]
  /\ \A u \in Trigger : ThreadOf[u] = ThreadOf[t] => job[p][u].pc \notin Active

(* The queue runs the job, which notes the time and asks for the claim.    *)
BeginJob(p, t) ==
  /\ At(p, t, "queued") /\ Foremost(p, t)
  /\ Goto(p, t, "claiming")
  /\ queue' = [queue EXCEPT ![p] = Removed(@, t)]
  /\ NoFault /\ Unobserved /\ UNCHANGED <<listed, disk, status, ignored, starts>>

(***************************************************************************)
(* The claim: tryClaim, renewClaim, releaseClaim, markProcessed.           *)
(***************************************************************************)

WithoutStale == [t \in Trigger |-> IF IsStale(claim[t]) THEN Unclaimed ELSE claim[t]]

(* tryClaim. Whatever the answer, claims that are stale are dropped.       *)
Claim(p, t) ==
  /\ At(p, t, "claiming")
  /\ LET free == WithoutStale[t].by = NoOne /\ ~IsProcessed(t) IN
     /\ claim' = IF free THEN [WithoutStale EXCEPT ![t] = [by |-> p, age |-> 0]]
                 ELSE WithoutStale
     /\ IF free THEN Goto(p, t, "claimed") ELSE Becomes(p, t, NoJob)
  /\ excused' = excused \union {u \in Trigger \ response : IsStale(claim[u])}
  /\ NoFault /\ UNCHANGED <<listed, processed, response, status, ignored, queue, turns, starts>>

ClaimFails(p, t) ==
  /\ At(p, t, "claiming")
  /\ Becomes(p, t, NoJob)
  /\ Fault /\ Unobserved /\ UNCHANGED <<listed, disk, status, ignored, queue, starts>>

Owns_AnyClaim(p, t) == claim[t].by # NoOne
Owns(p, t) == claim[t].by = p

\* The lease's timers run until it is stopped or has aborted the turn.
Guarded(p, t) == job[p][t].pc \in Leased /\ ~job[p][t].aborted
Overdue(p, t) == job[p][t].age >= Stale - Safety

Aborted(content) == [content EXCEPT !.aborted = TRUE]

Expire(p, t) ==
  /\ Guarded(p, t) /\ Overdue(p, t)
  /\ Becomes(p, t, Aborted(job[p][t]))
  /\ NoFault /\ Unobserved /\ UNCHANGED <<listed, disk, status, ignored, queue, starts>>

RenewalDue(p, t) ==
  Guarded(p, t) /\ job[p][t].age >= Renewal /\ job[p][t].attempt = NoAttempt

BeginRenewal(p, t) ==
  /\ RenewalDue(p, t)
  /\ Becomes(p, t, [job[p][t] EXCEPT !.attempt = 0])
  /\ NoFault /\ Unobserved /\ UNCHANGED <<listed, disk, status, ignored, queue, starts>>

Renewing(p, t) == job[p][t].attempt # NoAttempt

\* What the answer to a renewal does to the lease, unless it has stopped.
Renewed(p, t) ==
  IF job[p][t].aborted THEN [job[p][t] EXCEPT !.attempt = NoAttempt]
  ELSE [job[p][t] EXCEPT !.attempt = NoAttempt, !.age = job[p][t].attempt]

(* The file is written although the lease may have expired meanwhile.      *)
Renew(p, t) ==
  /\ Renewing(p, t)
  /\ IF Owns(p, t)
     THEN /\ claim' = [claim EXCEPT ![t].age = 0]
          /\ Becomes(p, t, Renewed(p, t))
     ELSE /\ Becomes(p, t, Aborted([job[p][t] EXCEPT !.attempt = NoAttempt]))
          /\ UNCHANGED claim
  /\ NoFault /\ Unobserved
  /\ UNCHANGED <<listed, processed, response, status, ignored, queue, starts>>

(* A failed renewal is tried again, or at the deadline aborts the turn.    *)
RenewFails(p, t) ==
  /\ Renewing(p, t)
  /\ Becomes(p, t, [job[p][t] EXCEPT !.attempt = NoAttempt, !.aborted = @ \/ Overdue(p, t)])
  /\ Fault /\ Unobserved /\ UNCHANGED <<listed, disk, status, ignored, queue, starts>>

Newest(s) == IF Len(s) > MaxProcessed THEN SubSeq(s, 2, Len(s)) ELSE s
Forgotten(s) == IF Len(s) > MaxProcessed THEN {s[1]} ELSE {}

(* markProcessed. A claim that is another's by now is left alone.          *)
Mark(p, t) ==
  /\ At(p, t, "marking")
  /\ LET all == Append(Removed(processed, t), t) IN
     IF Owns(p, t)
     THEN /\ processed' = Newest(all)
          /\ claim' = [claim EXCEPT ![t] = Unclaimed]
          /\ excused' = excused \union (Forgotten(all) \ response)
     ELSE UNCHANGED <<processed, claim, excused>>
  /\ Becomes(p, t, NoJob)
  /\ NoFault /\ UNCHANGED <<listed, response, status, ignored, queue, turns, starts>>

(* releaseClaim, after a turn that did not complete.                       *)
Release(p, t) ==
  /\ At(p, t, "releasing")
  /\ claim' = IF Owns(p, t) THEN [claim EXCEPT ![t] = Unclaimed] ELSE claim
  /\ Becomes(p, t, NoJob)
  /\ NoFault /\ Unobserved
  /\ UNCHANGED <<listed, processed, response, status, ignored, queue, starts>>

(* The state file refuses the update: the claim is left to age.            *)
SettlementFails(p, t) ==
  /\ At(p, t, "marking") \/ At(p, t, "releasing")
  /\ Becomes(p, t, NoJob)
  /\ Fault /\ Unobserved /\ UNCHANGED <<listed, disk, status, ignored, queue, starts>>

(***************************************************************************)
(* #runTriggerTurn.                                                        *)
(***************************************************************************)

\* The callback throws, in its last throwIfAborted if not before.
Completed(p, t) == IF job[p][t].aborted THEN "releasing" ELSE "marking"

Answered_Unchecked(t) == FALSE
Answered(t) == t \in response

(* outbox.get: a response that is durable ends the job.                    *)
LookUp(p, t) ==
  /\ At(p, t, "claimed")
  /\ Goto(p, t, IF Answered(t) THEN Completed(p, t) ELSE "checked")
  /\ NoFault /\ Unobserved /\ UNCHANGED <<listed, disk, status, ignored, queue, starts>>

(* The context is compiled; the turn begins unless it was aborted.         *)
BeginTurn(p, t) ==
  /\ At(p, t, "checked")
  /\ Goto(p, t, IF job[p][t].aborted THEN "releasing" ELSE "turn")
  /\ turns' = IF job[p][t].aborted \/ turns[t] = 2 THEN turns ELSE [turns EXCEPT ![t] = @ + 1]
  /\ NoFault /\ UNCHANGED <<excused, listed, disk, status, ignored, queue, starts>>

(* The provider answers with text.                                         *)
TurnAnswers(p, t) ==
  /\ At(p, t, "turn")
  /\ Goto(p, t, IF job[p][t].aborted THEN "releasing" ELSE "enqueuing")
  /\ IF job[p][t].aborted THEN Excuse(t) ELSE UNCHANGED excused
  /\ NoFault /\ UNCHANGED <<turns, listed, disk, status, ignored, queue, starts>>

(* No text, or the turn has posted by itself, even if it failed then.      *)
TurnEndsSilently(p, t) ==
  /\ At(p, t, "turn")
  /\ Goto(p, t, Completed(p, t))
  /\ IF job[p][t].aborted THEN Excuse(t) ELSE UNCHANGED excused
  /\ NoFault /\ UNCHANGED <<turns, listed, disk, status, ignored, queue, starts>>

(* outbox.enqueue: another text under the same key is refused.             *)
EnqueueResponse(p, t) ==
  /\ At(p, t, "enqueuing")
  /\ Goto(p, t, IF t \in response THEN "releasing" ELSE "responding")
  /\ response' = response \union {t}
  /\ NoFault /\ Unobserved
  /\ UNCHANGED <<listed, claim, processed, status, ignored, queue, starts>>

(* deliverNow returns, or a delivery was under way and need not be awaited.*)
Respond(p, t) ==
  /\ At(p, t, "responding")
  /\ Goto(p, t, Completed(p, t))
  /\ NoFault /\ Unobserved /\ UNCHANGED <<listed, disk, status, ignored, queue, starts>>

(* A file cannot be read or written, or the provider fails or heeds the    *)
(* abort.                                                                  *)
JobThrows(p, t) ==
  /\ job[p][t].pc \in {"claimed", "checked", "turn", "enqueuing", "responding"}
  /\ Goto(p, t, "releasing")
  /\ IF job[p][t].pc \in {"turn", "enqueuing"} THEN Excuse(t) ELSE UNCHANGED excused
  /\ IF At(p, t, "turn") /\ job[p][t].aborted THEN NoFault ELSE Fault
  /\ UNCHANGED <<turns, listed, disk, status, ignored, queue, starts>>

(***************************************************************************)
(* Time.                                                                   *)
(***************************************************************************)

\* Due timers have fired, and reads and updates of files have returned.
Punctual(p, t) ==
  /\ job[p][t].pc \notin {"claiming", "claimed", "enqueuing", "marking", "releasing"}
  /\ ~Renewing(p, t) /\ ~RenewalDue(p, t)
  /\ ~(Guarded(p, t) /\ Overdue(p, t))

Older_FromTheStart(content) ==
  [content EXCEPT !.age = IF content.pc # "none" THEN Capped(@) ELSE @,
                  !.attempt = IF @ = NoAttempt THEN @ ELSE Capped(@)]

Older(content) ==
  [content EXCEPT !.age = IF content.pc \in Active THEN Capped(@) ELSE @,
                  !.attempt = IF @ = NoAttempt THEN @ ELSE Capped(@)]

(* A tick that finds a process asleep, or a file slow, is a fault.      *)
Tick ==
  /\ claim' = [t \in Trigger |->
                 IF claim[t].by = NoOne THEN claim[t] ELSE [claim[t] EXCEPT !.age = Capped(@)]]
  /\ job' = [p \in Process |-> [t \in Trigger |-> Older(job[p][t])]]
  /\ <<claim, job>>' # <<claim, job>>
  /\ IF \A p \in Process, t \in Trigger : Punctual(p, t) THEN NoFault ELSE Fault
  /\ Unobserved /\ UNCHANGED <<listed, processed, response, status, ignored, queue, starts>>

\* What a job does once it is there.
Working(p, t) ==
  \/ BeginJob(p, t) \/ Claim(p, t)
  \/ LookUp(p, t) \/ BeginTurn(p, t) \/ TurnAnswers(p, t) \/ TurnEndsSilently(p, t)
  \/ EnqueueResponse(p, t) \/ Respond(p, t) \/ Mark(p, t) \/ Release(p, t)

Failing(p, t) ==
  ClaimFails(p, t) \/ SettlementFails(p, t) \/ JobThrows(p, t)

Guarding(p, t) == Expire(p, t) \/ BeginRenewal(p, t) \/ Renew(p, t)

Next ==
  \/ Tick
  \/ \E t \in Trigger : Notify(t) \/ Supersede(t)
  \/ \E p \in Process : Start(p) \/ Stop(p) \/ Exit(p)
  \/ \E p \in Process, t \in Trigger :
       Poll(p, t) \/ Working(p, t) \/ Guarding(p, t) \/ RenewFails(p, t) \/ Failing(p, t)

(* Polls recur and come to the notifications they may act on; a provider   *)
(* turn ends, files answer, timers fire and the clock goes on. That some   *)
(* job goes on is enough: no job goes on for ever.                         *)
Fairness ==
  /\ SF_vars(Tick)
  /\ WF_vars(\E p \in Process, t \in Trigger : Poll(p, t))
  /\ WF_vars(\E p \in Process, t \in Trigger : Working(p, t))
  /\ WF_vars(\E p \in Process, t \in Trigger : Guarding(p, t))

Spec == Init /\ [][Next]_vars
FairSpec == Spec /\ Fairness

(***************************************************************************)
(* Properties.                                                             *)
(***************************************************************************)

Ages == 0 .. Stale + 1
Jobs ==
  [pc : Active \union {"none", "queued"}, age : Ages, aborted : BOOLEAN,
   attempt : Ages \union {NoAttempt}]

(* The shape of the state; a job's lease is at rest outside its callback.  *)
TypeOK ==
  /\ listed \subseteq Trigger /\ response \subseteq Trigger /\ excused \subseteq Trigger
  /\ claim \in [Trigger -> [by : Process \union {NoOne}, age : Ages]]
  /\ processed \in Seq(Trigger)
  /\ status \in [Process -> {"down", "polling", "stopped"}]
  /\ ignored \in [Process -> SUBSET Trigger]
  /\ queue \in [Process -> Seq(Trigger)]
  /\ job \in [Process -> [Trigger -> Jobs]]
  /\ \A p \in Process, t \in Trigger :
       /\ job[p][t].pc \notin Leased => ~job[p][t].aborted /\ ~Renewing(p, t)
       /\ job[p][t].pc \notin Active => job[p][t].age = 0
  /\ turns \in [Trigger -> 0 .. 2]
  /\ starts \in 0 .. MaxStarts /\ faults \in 0 .. MaxFaults

(* A job that has confirmed its claim within CLAIM_STALE_MS still owns it  *)
(* in the state file, whatever else happened: oversleeping, failed or late *)
(* renewals, crashes, stale claims that others swept away.                 *)
LeaseIsOwned ==
  \A p \in Process, t \in Trigger :
    job[p][t].pc \in Leased /\ job[p][t].age <= Stale =>
      claim[t].by = p /\ claim[t].age <= job[p][t].age

(* "Two processes can therefore never both run the same trigger"           *)
(* (state.ts:68-71): two turns of one trigger are under way only if one of *)
(* them goes on although its claim has been unconfirmed for longer than    *)
(* CLAIM_STALE_MS, that is, the expiry timer and the safety interval that  *)
(* an aborted provider has to settle in were both overrun.                 *)
TurnsOverlapOnlyWhenOverrun ==
  \A p, q \in Process, t \in Trigger :
    p # q /\ At(p, t, "turn") /\ At(q, t, "turn") =>
      job[p][t].age > Stale \/ job[q][t].age > Stale

(* A trigger's turn is run again only if no response of it was durable and *)
(* the former turn failed, lost its claim or its process, or ended without *)
(* text and was then dropped from the list of processed triggers.          *)
RepeatsAreExplained == \A t \in Trigger : turns[t] > 1 => t \in excused

(* A worker that finishes late leaves its successor's claim alone: a claim *)
(* that is not stale is only ended by the job that holds it, and only that *)
(* job's trigger becomes processed.                                        *)
OnlyTheHolderSettles ==
  [][\A t \in Trigger :
       /\ claim[t].by # NoOne /\ ~IsStale(claim[t]) /\ claim'[t].by # claim[t].by =>
            job[claim[t].by][t].pc \in {"marking", "releasing"} /\ job'[claim[t].by][t] = NoJob
       /\ IsProcessed(t)' /\ ~IsProcessed(t) =>
            claim[t].by # NoOne /\ At(claim[t].by, t, "marking")]_vars

\* No process that polls would look at t.
Unheard(t) == \A p \in Process : status[p] = "polling" => t \in ignored[p]

\* The notifications do not yield t any more, and nobody has a job for it.
Superseded(t) == t \notin listed /\ \A p \in Process : At(p, t, "none")

(* A trigger is processed in the end, over crashes, failures and claims    *)
(* left behind, unless every process that polls was started after it was   *)
(* listed, and passes over it for that, or a later comment takes its place *)
(* while no process has a job for it: before it was ever polled, or after  *)
(* its turn had failed or its process had crashed.                         *)
ProcessedUnlessLost ==
  \A t \in Trigger : t \in listed ~> IsProcessed(t) \/ Unheard(t) \/ Superseded(t)
=============================================================================
