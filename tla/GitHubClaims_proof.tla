-------------------------- MODULE GitHubClaims_proof --------------------------
(***************************************************************************)
(* Theorems about the claims of the GitHub surface, for any number of      *)
(* processes and triggers, any timing that validateClaimLeaseRuntime       *)
(* accepts, and any number of starts and faults.                           *)
(***************************************************************************)
EXTENDS GitHubClaims, SequenceTheorems, TLAPS

(* What the type invariant says of one job.                                *)
Sound(c) ==
  /\ c \in Jobs
  /\ c.pc \notin Leased => ~c.aborted /\ c.attempt = NoAttempt
  /\ c.pc \notin Active => c.age = 0

JobsOK ==
  /\ job \in [Process -> [Trigger -> Jobs]]
  /\ \A p \in Process, t \in Trigger : Sound(job[p][t])

Claims == [by : Process \union {NoOne}, age : Ages]

\* The rest of the type invariant, in the groups that steps leave alone.
DiskOK ==
  claim \in [Trigger -> Claims] /\ processed \in Seq(Trigger) /\ response \subseteq Trigger
BotsOK ==
  /\ status \in [Process -> {"down", "polling", "stopped"}] /\ ignored \in [Process -> SUBSET Trigger]
  /\ queue \in [Process -> Seq(Trigger)]
CountsOK ==
  /\ listed \subseteq Trigger /\ excused \subseteq Trigger
  /\ turns \in [Trigger -> 0 .. 2]
  /\ starts \in 0 .. MaxStarts /\ faults \in 0 .. MaxFaults

LEMMA TypeParts ==
  /\ TypeOK <=> JobsOK /\ DiskOK /\ BotsOK /\ CountsOK
  /\ TypeOK' <=> JobsOK' /\ DiskOK' /\ BotsOK' /\ CountsOK'
BY DEF TypeOK, JobsOK, DiskOK, BotsOK, CountsOK, Sound, Claims, Renewing

LEMMA Bounds ==
  /\ Stale \in Nat /\ Renewal \in Nat /\ Safety \in Nat
  /\ MaxProcessed \in Nat /\ MaxStarts \in Nat /\ MaxFaults \in Nat
  /\ 0 \in Ages /\ NoAttempt \notin Ages /\ NoOne \notin Process
BY ClaimAssumption DEF Ages, NoAttempt

LEMMA CappedAge ==
  ASSUME NEW n \in Ages
  PROVE  Capped(n) \in Ages
BY Bounds DEF Capped, Ages

LEMMA Labels ==
  /\ Leased \subseteq Active
  /\ "none" \notin Active /\ "queued" \notin Active /\ "claiming" \notin Leased
  /\ "claiming" \in Active
BY DEF Leased, Active

LEMMA RemovedType ==
  ASSUME NEW s \in Seq(Trigger), NEW t
  PROVE  Removed(s, t) \in Seq(Trigger)
<1>1. CASE ~\E i \in DOMAIN s : s[i] = t
  BY <1>1 DEF Removed
<1>2. CASE \E i \in DOMAIN s : s[i] = t
  <2> DEFINE n == CHOOSE i \in DOMAIN s : s[i] = t
  <2>1. n \in 1 .. Len(s)
    BY <1>2
  <2> HIDE DEF n
  <2>2. SubSeq(s, 1, n - 1) \in Seq(Trigger)
    BY <2>1, SubSeqProperties
  <2>3. SubSeq(s, n + 1, Len(s)) \in Seq(Trigger)
    BY <2>1, SubSeqProperties
  <2>4. SubSeq(s, 1, n - 1) \o SubSeq(s, n + 1, Len(s)) \in Seq(Trigger)
    BY <2>2, <2>3, ConcatProperties
  <2>5. Removed(s, t) = SubSeq(s, 1, n - 1) \o SubSeq(s, n + 1, Len(s))
    BY <1>2 DEF Removed, n
  <2> QED BY <2>4, <2>5
<1> QED BY <1>1, <1>2

LEMMA NewestType ==
  ASSUME NEW s \in Seq(Trigger)
  PROVE  Newest(s) \in Seq(Trigger) /\ Forgotten(s) \subseteq Trigger
<1>1. Len(s) \in Nat /\ MaxProcessed \in Nat
  BY Bounds
<1>2. Newest(s) \in Seq(Trigger)
  <2>1. CASE Len(s) > MaxProcessed
    <3>1. 2 \in 1 .. Len(s) + 1
      BY <1>1, <2>1
    <3>2. SubSeq(s, 2, Len(s)) \in Seq(Trigger)
      BY <1>1, <3>1, SubSeqProperties
    <3> QED BY <2>1, <3>2 DEF Newest
  <2>2. CASE ~(Len(s) > MaxProcessed)
    BY <2>2 DEF Newest
  <2> QED BY <2>1, <2>2
<1>3. Forgotten(s) \subseteq Trigger
  <2>1. Len(s) > MaxProcessed => s[1] \in Trigger
    BY <1>1
  <2> QED BY <2>1 DEF Forgotten
<1> QED BY <1>2, <1>3

LEMMA NoJobType == Sound(NoJob)
BY Bounds, Labels DEF NoJob, Sound, Jobs

(* A job that is replaced by a sound one leaves all jobs sound.            *)
LEMMA JobType ==
  ASSUME JobsOK, NEW p \in Process, NEW t \in Trigger, NEW c, Sound(c), Becomes(p, t, c)
  PROVE  JobsOK'
<1>1. c \in Jobs
  BY DEF Sound
<1>2. job' \in [Process -> [Trigger -> Jobs]]
  BY <1>1 DEF JobsOK, Becomes
<1>3. ASSUME NEW q \in Process, NEW u \in Trigger PROVE Sound(job'[q][u])
  BY <1>1 DEF JobsOK, Becomes
<1> QED BY <1>2, <1>3 DEF JobsOK, Sound

LEMMA GotoType ==
  ASSUME JobsOK, NEW p \in Process, NEW t \in Trigger, NEW label \in Leased,
         job[p][t].pc \in Leased, Goto(p, t, label)
  PROVE  JobsOK'
<1> DEFINE c == [job[p][t] EXCEPT !.pc = label]
<1>1. Sound(job[p][t]) /\ job[p][t] \in Jobs
  BY DEF JobsOK
<1>2. Sound(c)
  BY <1>1, Labels DEF Sound, Jobs
<1>3. Becomes(p, t, c)
  BY DEF Goto
<1> HIDE DEF c
<1> QED BY <1>2, <1>3, JobType

LEMMA FaultType ==
  ASSUME CountsOK, Fault \/ NoFault
  PROVE  faults' \in 0 .. MaxFaults
BY Bounds DEF CountsOK, Fault, NoFault

LEMMA InitType == Init => TypeOK
<1> SUFFICES ASSUME Init PROVE TypeOK
  OBVIOUS
<1>1. JobsOK
  <2>1. NoJob \in Jobs
    BY NoJobType DEF Sound
  <2> QED BY <2>1, NoJobType DEF Init, JobsOK
<1>2. DiskOK
  BY Bounds DEF Init, DiskOK, Unclaimed, Claims
<1>3. BotsOK
  BY DEF Init, BotsOK
<1>4. CountsOK
  BY Bounds DEF Init, CountsOK
<1> QED BY <1>1, <1>2, <1>3, <1>4, TypeParts

(* The shape of the state, as each kind of step keeps it.                  *)
LEMMA CountsStep ==
  ASSUME CountsOK, UNCHANGED <<listed, turns, starts>>, Fault \/ NoFault,
         excused' \subseteq Trigger
  PROVE  CountsOK'
BY FaultType DEF CountsOK

LEMMA ExcuseType ==
  ASSUME CountsOK, NEW t \in Trigger, Excuse(t) \/ UNCHANGED excused
  PROVE  excused' \subseteq Trigger
BY DEF CountsOK, Excuse

\* A step of p's job for t: another label, nothing else in the bots.
LEMMA PlainStep ==
  ASSUME TypeOK, NEW p \in Process, NEW t \in Trigger, NEW c, Sound(c), Becomes(p, t, c),
         UNCHANGED <<listed, disk, status, ignored, queue, turns, starts>>,
         Fault \/ NoFault, excused' \subseteq Trigger
  PROVE  TypeOK'
<1>1. JobsOK /\ DiskOK /\ BotsOK /\ CountsOK
  BY TypeParts
<1>2. JobsOK'
  BY <1>1, JobType
<1>3. DiskOK' /\ BotsOK'
  BY <1>1 DEF DiskOK, BotsOK, disk
<1>4. CountsOK'
  BY <1>1, CountsStep
<1> QED BY <1>2, <1>3, <1>4, TypeParts

\* The shapes of job that steps put in place.
LEMMA Relabelled ==
  ASSUME JobsOK, NEW p \in Process, NEW t \in Trigger, NEW label \in Leased,
         job[p][t].pc \in Leased
  PROVE  Sound([job[p][t] EXCEPT !.pc = label])
BY Labels DEF JobsOK, Sound, Jobs

LEMMA AbortedSound ==
  ASSUME NEW c, Sound(c), c.pc \in Leased
  PROVE  Sound(Aborted(c)) /\ Sound([c EXCEPT !.attempt = NoAttempt])
         /\ Sound(Aborted([c EXCEPT !.attempt = NoAttempt]))
BY Labels DEF Aborted, Sound, Jobs

LEMMA LiveJobs ==
  ASSUME JobsOK, NEW p \in Process, NEW t \in Trigger, Guarded(p, t) \/ Renewing(p, t)
  PROVE  job[p][t].pc \in Leased /\ Sound(job[p][t])
BY DEF JobsOK, Sound, Guarded, Renewing

(* Every step keeps the shape of the state.                                *)
LEMMA TypeStep == TypeOK /\ [Next]_vars => TypeOK'
<1> SUFFICES ASSUME TypeOK, [Next]_vars PROVE TypeOK'
  OBVIOUS
<1>0. JobsOK /\ DiskOK /\ BotsOK /\ CountsOK
  BY TypeParts
<1>1. CASE Tick
  <2>1. ASSUME NEW c, Sound(c) PROVE Sound(Older(c))
    <3>1. c.age \in Ages /\ Capped(c.age) \in Ages
      BY <2>1, CappedAge DEF Sound, Jobs
    <3>2. c.attempt # NoAttempt => Capped(c.attempt) \in Ages
      BY <2>1, CappedAge DEF Sound, Jobs
    <3> DEFINE a == IF c.pc \in Active THEN Capped(c.age) ELSE c.age
               b == IF c.attempt = NoAttempt THEN c.attempt ELSE Capped(c.attempt)
    <3>3. Older(c) = [c EXCEPT !.age = a, !.attempt = b]
      BY DEF Older
    <3>4. a \in Ages /\ b \in Ages \union {NoAttempt} /\ (c.pc \notin Active => a = c.age)
          /\ (c.attempt = NoAttempt => b = NoAttempt)
      BY <3>1, <3>2
    <3> HIDE DEF a, b
    <3> QED BY <2>1, <3>3, <3>4 DEF Sound, Jobs
  <2>2. JobsOK'
    <3>1. job' = [p \in Process |-> [t \in Trigger |-> Older(job[p][t])]]
      BY <1>1 DEF Tick
    <3>2. \A p \in Process, t \in Trigger : Sound(Older(job[p][t])) /\ Older(job[p][t]) \in Jobs
      BY <1>0, <2>1 DEF JobsOK, Sound
    <3> QED BY <3>1, <3>2 DEF JobsOK, Sound
  <2>3. DiskOK'
    <3>1. ASSUME NEW t \in Trigger PROVE [claim[t] EXCEPT !.age = Capped(@)] \in Claims
      BY <1>0, CappedAge DEF DiskOK, Claims
    <3> QED BY <1>0, <1>1, <3>1 DEF Tick, DiskOK
  <2>4. BotsOK' /\ CountsOK'
    <3>1. Fault \/ NoFault
      BY <1>1 DEF Tick
    <3> QED BY <1>0, <1>1, <3>1, CountsStep DEF Tick, BotsOK, Unobserved, CountsOK
  <2> QED BY <2>2, <2>3, <2>4, TypeParts
<1>2. ASSUME NEW t \in Trigger, Notify(t) \/ Supersede(t) PROVE TypeOK'
  <2>1. JobsOK' /\ DiskOK' /\ BotsOK' /\ CountsOK'
    BY <1>0, <1>2
    DEF Notify, Supersede, JobsOK, DiskOK, BotsOK, CountsOK, disk, memory, Unobserved, NoFault, Sound
  <2> QED BY <2>1, TypeParts
<1>3. ASSUME NEW p \in Process, Start(p) PROVE TypeOK'
  <2>1. JobsOK' /\ DiskOK' /\ BotsOK'
    BY <1>0, <1>3 DEF Start, JobsOK, DiskOK, BotsOK, CountsOK, disk, Sound
  <2>2. CountsOK'
    BY <1>0, <1>3, Bounds DEF Start, CountsOK, Unobserved, NoFault
  <2> QED BY <2>1, <2>2, TypeParts
<1>4. ASSUME NEW p \in Process, Stop(p) PROVE TypeOK'
  <2>1. JobsOK' /\ DiskOK' /\ BotsOK'
    BY <1>0, <1>4 DEF Stop, JobsOK, DiskOK, BotsOK, disk, Sound
  <2>2. CountsOK'
    BY <1>0, <1>4, CountsStep DEF Stop, Unobserved, CountsOK
  <2> QED BY <2>1, <2>2, TypeParts
<1>5. ASSUME NEW p \in Process, Exit(p) PROVE TypeOK'
  <2>1. JobsOK'
    <3>1. NoJob \in Jobs /\ Sound(NoJob)
      BY NoJobType DEF Sound
    <3> QED BY <1>0, <1>5, <3>1 DEF Exit, JobsOK, Sound
  <2>2. DiskOK' /\ BotsOK'
    BY <1>0, <1>5 DEF Exit, DiskOK, BotsOK, disk
  <2>3. Fault \/ NoFault
    BY <1>5 DEF Exit
  <2>4. CountsOK'
    BY <1>0, <1>5, <2>3, CountsStep DEF Exit, Unobserved, CountsOK
  <2> QED BY <2>1, <2>2, <2>4, TypeParts
<1>6. ASSUME NEW p \in Process, NEW t \in Trigger,
             Poll(p, t) \/ Working(p, t) \/ Guarding(p, t) \/ RenewFails(p, t) \/ Failing(p, t)
      PROVE  TypeOK'
  <2>0. /\ job[p][t] \in Jobs /\ Sound(job[p][t]) /\ Sound(NoJob)
        /\ excused \subseteq Trigger
    BY <1>0, NoJobType, Labels DEF JobsOK, CountsOK
  <2>1. CASE Poll(p, t)
    <3>1. Sound([job[p][t] EXCEPT !.pc = "queued"])
      BY <2>0, <2>1 DEF Poll, At, Sound, Jobs, Active, Leased
    <3>2. JobsOK'
      BY <1>0, <2>1, <3>1, JobType DEF Poll, Goto
    <3>3. DiskOK' /\ BotsOK'
      BY <1>0, <2>1 DEF Poll, DiskOK, BotsOK, disk
    <3>4. CountsOK'
      BY <1>0, <2>0, <2>1, CountsStep DEF Poll, Unobserved
    <3> QED BY <3>2, <3>3, <3>4, TypeParts
  <2>2. CASE BeginJob(p, t)
    <3>1. Sound([job[p][t] EXCEPT !.pc = "claiming"])
      BY <2>0, <2>2 DEF BeginJob, At, Sound, Jobs, Active, Leased
    <3>2. JobsOK'
      BY <1>0, <2>2, <3>1, JobType DEF BeginJob, Goto
    <3>3. Removed(queue[p], t) \in Seq(Trigger)
      BY <1>0, RemovedType DEF BotsOK
    <3>4. DiskOK' /\ BotsOK'
      BY <1>0, <2>2, <3>3 DEF BeginJob, DiskOK, BotsOK, disk
    <3>5. CountsOK'
      BY <1>0, <2>0, <2>2, CountsStep DEF BeginJob, Unobserved
    <3> QED BY <3>2, <3>4, <3>5, TypeParts
  <2>3. CASE Claim(p, t)
    <3>1. Sound([job[p][t] EXCEPT !.pc = "claimed"])
      BY <2>0, <2>3 DEF Claim, At, Sound, Jobs, Active, Leased
    <3>2. JobsOK'
      BY <1>0, <2>0, <2>3, <3>1, JobType DEF Claim, Goto
    <3>3. Unclaimed \in Claims /\ [by |-> p, age |-> 0] \in Claims
      BY Bounds DEF Unclaimed, Claims
    <3>4. WithoutStale \in [Trigger -> Claims]
      BY <1>0, <3>3 DEF WithoutStale, DiskOK
    <3>5. claim' \in [Trigger -> Claims]
      BY <2>3, <3>3, <3>4 DEF Claim
    <3>6. DiskOK' /\ BotsOK'
      BY <1>0, <2>3, <3>5 DEF Claim, DiskOK, BotsOK
    <3>7. CountsOK'
      BY <1>0, <2>0, <2>3, CountsStep DEF Claim
    <3> QED BY <3>2, <3>6, <3>7, TypeParts
  <2>4. CASE ClaimFails(p, t)
    BY <2>0, <2>4, PlainStep DEF ClaimFails, Unobserved
  <2>5. CASE Expire(p, t)
    <3>1. Sound(Aborted(job[p][t]))
      BY <1>0, <2>5, LiveJobs, AbortedSound DEF Expire
    <3> QED BY <2>0, <2>5, <3>1, PlainStep DEF Expire, Unobserved
  <2>6. CASE BeginRenewal(p, t)
    <3>1. Sound([job[p][t] EXCEPT !.attempt = 0])
      BY <1>0, <2>6, LiveJobs, Labels, Bounds DEF BeginRenewal, RenewalDue, Sound, Jobs
    <3> QED BY <2>0, <2>6, <3>1, PlainStep DEF BeginRenewal, Unobserved
  <2>7. CASE Renew(p, t)
    <3> DEFINE calm == [job[p][t] EXCEPT !.attempt = NoAttempt]
    <3>1. Sound(calm) /\ Sound(Aborted(calm)) /\ job[p][t].pc \in Leased
      BY <1>0, <2>7, LiveJobs, AbortedSound DEF Renew
    <3>2. Sound(Renewed(p, t))
      <4>1. job[p][t].attempt \in Ages
        BY <2>0, <2>7 DEF Renew, Renewing, Jobs
      <4>2. Sound([job[p][t] EXCEPT !.attempt = NoAttempt, !.age = job[p][t].attempt])
        BY <2>0, <3>1, <4>1, Labels DEF Sound, Jobs
      <4> QED BY <3>1, <4>2 DEF Renewed
    <3>3. JobsOK'
      <4>1. CASE Owns(p, t)
        BY <1>0, <2>7, <3>2, <4>1, JobType DEF Renew
      <4>2. CASE ~Owns(p, t)
        BY <1>0, <2>7, <3>1, <4>2, JobType DEF Renew
      <4> QED BY <4>1, <4>2
    <3>4. claim' \in [Trigger -> Claims]
      BY <1>0, <2>7, Bounds DEF Renew, DiskOK, Claims
    <3>5. DiskOK' /\ BotsOK'
      BY <1>0, <2>7, <3>4 DEF Renew, DiskOK, BotsOK
    <3>6. CountsOK'
      BY <1>0, <2>0, <2>7, CountsStep DEF Renew, Unobserved
    <3> QED BY <3>3, <3>5, <3>6, TypeParts
  <2>8. CASE RenewFails(p, t)
    <3> DEFINE c == [job[p][t] EXCEPT !.attempt = NoAttempt, !.aborted = @ \/ Overdue(p, t)]
    <3>1. job[p][t].pc \in Leased
      BY <1>0, <2>8, LiveJobs DEF RenewFails
    <3>2. (job[p][t].aborted \/ Overdue(p, t)) \in BOOLEAN
      BY Zenon DEF Overdue
    <3>3. Sound(c)
      <4> DEFINE b == job[p][t].aborted \/ Overdue(p, t)
      <4>1. b \in BOOLEAN /\ c = [job[p][t] EXCEPT !.attempt = NoAttempt, !.aborted = b]
        BY <3>2
      <4> HIDE DEF b, c
      <4> QED BY <2>0, <3>1, <4>1, Labels DEF Sound, Jobs
    <3>4. Becomes(p, t, c)
      BY <2>8 DEF RenewFails
    <3> HIDE DEF c
    <3> QED BY <2>0, <2>8, <3>3, <3>4, PlainStep DEF RenewFails, Unobserved
  <2>9. CASE Mark(p, t)
    <3> DEFINE all == Append(Removed(processed, t), t)
    <3>1. all \in Seq(Trigger)
      <4>1. Removed(processed, t) \in Seq(Trigger)
        BY <1>0, RemovedType DEF DiskOK
      <4> QED BY <4>1
    <3> HIDE DEF all
    <3>2. Newest(all) \in Seq(Trigger) /\ Forgotten(all) \subseteq Trigger
      BY <3>1, NewestType
    <3>3. JobsOK'
      BY <1>0, <2>0, <2>9, JobType DEF Mark
    <3>4. claim' \in [Trigger -> Claims]
      BY <1>0, <2>9, Bounds DEF Mark, DiskOK, Unclaimed, Claims
    <3>5. processed' \in Seq(Trigger) /\ excused' \subseteq Trigger
      BY <1>0, <2>9, <3>2 DEF Mark, DiskOK, CountsOK, all
    <3>6. DiskOK' /\ BotsOK'
      BY <1>0, <2>9, <3>4, <3>5 DEF Mark, DiskOK, BotsOK
    <3>7. CountsOK'
      BY <1>0, <2>9, <3>5, CountsStep DEF Mark
    <3> QED BY <3>3, <3>6, <3>7, TypeParts
  <2>10. CASE Release(p, t)
    <3>1. JobsOK'
      BY <1>0, <2>0, <2>10, JobType DEF Release
    <3>2. claim' \in [Trigger -> Claims]
      BY <1>0, <2>10, Bounds DEF Release, DiskOK, Unclaimed, Claims
    <3>3. DiskOK' /\ BotsOK'
      BY <1>0, <2>10, <3>2 DEF Release, DiskOK, BotsOK
    <3>4. CountsOK'
      BY <1>0, <2>0, <2>10, CountsStep DEF Release, Unobserved
    <3> QED BY <3>1, <3>3, <3>4, TypeParts
  <2>11. CASE SettlementFails(p, t)
    BY <2>0, <2>11, PlainStep DEF SettlementFails, Unobserved
  <2>12. ASSUME job[p][t].pc \in Leased, NEW label \in Leased, Goto(p, t, label),
                UNCHANGED <<listed, disk, status, ignored, queue, turns, starts>>,
                Fault \/ NoFault, Excuse(t) \/ UNCHANGED excused
         PROVE  TypeOK'
    <3> DEFINE c == [job[p][t] EXCEPT !.pc = label]
    <3>1. Sound(c) /\ Becomes(p, t, c)
      BY <1>0, <2>12, Relabelled DEF Goto
    <3> HIDE DEF c
    <3>2. excused' \subseteq Trigger
      BY <1>0, <2>12, ExcuseType
    <3> QED BY <2>12, <3>1, <3>2, PlainStep
  <2>13. CASE LookUp(p, t)
    BY <2>12, <2>13 DEF LookUp, At, Completed, Leased, Unobserved
  <2>14. CASE BeginTurn(p, t)
    <3> DEFINE c == [job[p][t] EXCEPT !.pc = IF job[p][t].aborted THEN "releasing" ELSE "turn"]
    <3>1. job[p][t].pc \in Leased /\ Sound(c) /\ Becomes(p, t, c)
      BY <1>0, <2>14, Relabelled DEF BeginTurn, At, Goto, Leased
    <3> HIDE DEF c
    <3>2. JobsOK'
      BY <1>0, <3>1, JobType
    <3>3. DiskOK' /\ BotsOK'
      BY <1>0, <2>14 DEF BeginTurn, DiskOK, BotsOK, disk
    <3>4. turns' \in [Trigger -> 0 .. 2]
      BY <1>0, <2>14 DEF BeginTurn, CountsOK
    <3>5. CountsOK'
      BY <1>0, <2>14, <3>4, FaultType DEF BeginTurn, CountsOK
    <3> QED BY <3>2, <3>3, <3>5, TypeParts
  <2>15. CASE TurnAnswers(p, t)
    BY <2>12, <2>15 DEF TurnAnswers, At, Leased
  <2>16. CASE TurnEndsSilently(p, t)
    BY <2>12, <2>16 DEF TurnEndsSilently, At, Leased, Completed
  <2>17. CASE EnqueueResponse(p, t)
    <3> DEFINE c == [job[p][t] EXCEPT !.pc = IF t \in response THEN "releasing" ELSE "responding"]
    <3>1. job[p][t].pc \in Leased /\ Sound(c) /\ Becomes(p, t, c)
      BY <1>0, <2>17, Relabelled DEF EnqueueResponse, At, Goto, Leased
    <3> HIDE DEF c
    <3>2. JobsOK'
      BY <1>0, <3>1, JobType
    <3>3. DiskOK' /\ BotsOK'
      BY <1>0, <2>17 DEF EnqueueResponse, DiskOK, BotsOK
    <3>4. CountsOK'
      BY <1>0, <2>0, <2>17, CountsStep DEF EnqueueResponse, Unobserved
    <3> QED BY <3>2, <3>3, <3>4, TypeParts
  <2>18. CASE Respond(p, t)
    BY <2>12, <2>18 DEF Respond, At, Leased, Completed, Unobserved
  <2>19. CASE JobThrows(p, t)
    <3>1. job[p][t].pc \in Leased /\ "releasing" \in Leased
      BY <2>19 DEF JobThrows, Leased
    <3>2. Fault \/ NoFault
      BY <2>19 DEF JobThrows
    <3> QED BY <2>12, <2>19, <3>1, <3>2 DEF JobThrows
  <2> QED
    BY <1>6, <2>1, <2>2, <2>3, <2>4, <2>5, <2>6, <2>7, <2>8, <2>9, <2>10, <2>11, <2>13,
       <2>14, <2>15, <2>16, <2>17, <2>18, <2>19 DEF Working, Guarding, Failing
<1>7. CASE UNCHANGED vars
  BY <1>7 DEF vars, disk, memory, TypeOK, Renewing
<1> QED BY <1>1, <1>2, <1>3, <1>4, <1>5, <1>6, <1>7 DEF Next

(***************************************************************************)
(* LeaseIsOwned is inductive with the type invariant. A claim that is      *)
(* swept away or taken over is stale, so that no job with a lease confirmed*)
(* in time rests on it; a claim that is ended or renewed is its owner's,   *)
(* and no two jobs own one claim.                                          *)
(***************************************************************************)
LEMMA JobTypes ==
  ASSUME TypeOK, NEW q \in Process, NEW u \in Trigger
  PROVE  /\ job[q][u] \in Jobs /\ job[q][u].age \in Ages
         /\ claim[u] \in Claims /\ claim[u].age \in Ages
BY TypeParts DEF JobsOK, DiskOK, Jobs, Claims

\* Steps that change one job and no claim, and start no lease.
LEMMA LeaseKept ==
  ASSUME TypeOK, LeaseIsOwned, NEW p \in Process, NEW t \in Trigger, NEW c,
         Becomes(p, t, c), UNCHANGED claim,
         c.pc \in Leased => job[p][t].pc \in Leased /\ c.age = job[p][t].age
  PROVE  LeaseIsOwned'
<1> SUFFICES ASSUME NEW q \in Process, NEW u \in Trigger,
                    job'[q][u].pc \in Leased, job'[q][u].age <= Stale
             PROVE  claim'[u].by = q /\ claim'[u].age <= job'[q][u].age
  BY DEF LeaseIsOwned
<1>1. job'[q][u] = IF q = p /\ u = t THEN c ELSE job[q][u]
  BY TypeParts DEF Becomes, JobsOK
<1>2. job[q][u].pc \in Leased /\ job[q][u].age = job'[q][u].age
  BY <1>1
<1> QED BY <1>2 DEF LeaseIsOwned

LEMMA RelabelKeeps ==
  ASSUME TypeOK, LeaseIsOwned, NEW p \in Process, NEW t \in Trigger, NEW label,
         job[p][t].pc \in Leased, Goto(p, t, label), UNCHANGED claim
  PROVE  LeaseIsOwned'
<1> DEFINE c == [job[p][t] EXCEPT !.pc = label]
<1>1. Becomes(p, t, c) /\ c.age = job[p][t].age
  BY JobTypes DEF Goto, Jobs
<1> HIDE DEF c
<1> QED BY <1>1, LeaseKept

\* Steps that change one claim, which its owner holds, and end the job.
LEMMA LeaseEnded ==
  ASSUME TypeOK, LeaseIsOwned, NEW p \in Process, NEW t \in Trigger,
         Becomes(p, t, NoJob),
         UNCHANGED claim \/ (Owns(p, t) /\ claim' = [claim EXCEPT ![t] = Unclaimed])
  PROVE  LeaseIsOwned'
<1> SUFFICES ASSUME NEW q \in Process, NEW u \in Trigger,
                    job'[q][u].pc \in Leased, job'[q][u].age <= Stale
             PROVE  claim'[u].by = q /\ claim'[u].age <= job'[q][u].age
  BY DEF LeaseIsOwned
<1>1. job'[q][u] = IF q = p /\ u = t THEN NoJob ELSE job[q][u]
  BY TypeParts DEF Becomes, JobsOK
<1>2. ~(q = p /\ u = t) /\ job'[q][u] = job[q][u]
  BY <1>1 DEF NoJob, Leased
<1>3. claim[u].by = q /\ claim[u].age <= job[q][u].age
  BY <1>2 DEF LeaseIsOwned
<1>4. claim'[u] = claim[u]
  BY <1>2, <1>3, TypeParts DEF Owns, DiskOK
<1> QED BY <1>2, <1>3, <1>4

LEMMA LeaseStep == TypeOK /\ LeaseIsOwned /\ [Next]_vars => LeaseIsOwned'
<1> SUFFICES ASSUME TypeOK, LeaseIsOwned, [Next]_vars PROVE LeaseIsOwned'
  OBVIOUS
<1>0. JobsOK /\ DiskOK
  BY TypeParts
<1>1. CASE Tick
  <2> SUFFICES ASSUME NEW q \in Process, NEW u \in Trigger,
                      job'[q][u].pc \in Leased, job'[q][u].age <= Stale
               PROVE  claim'[u].by = q /\ claim'[u].age <= job'[q][u].age
    BY DEF LeaseIsOwned
  <2>1. job[q][u] \in Jobs /\ claim[u] \in Claims
        /\ job[q][u].age \in Ages /\ claim[u].age \in Ages
    BY JobTypes
  <2>2. job'[q][u] = Older(job[q][u])
    BY <1>1 DEF Tick
  <2>3. Older(job[q][u]).pc = job[q][u].pc
        /\ (job[q][u].pc \in Active => Older(job[q][u]).age = Capped(job[q][u].age))
    BY <2>1 DEF Older, Jobs
  <2>4. job[q][u].pc \in Leased /\ job'[q][u].age = Capped(job[q][u].age)
    BY <2>2, <2>3, Labels
  <2>5. job[q][u].age < Stale /\ job'[q][u].age = job[q][u].age + 1
    BY <2>1, <2>4, Bounds DEF Capped, Ages
  <2>6. claim[u].by = q /\ claim[u].age <= job[q][u].age
    BY <2>1, <2>4, <2>5, Bounds DEF LeaseIsOwned, Ages
  <2>7. claim'[u] = [claim[u] EXCEPT !.age = Capped(@)]
    BY <1>1, <2>6, Bounds DEF Tick
  <2>8. claim'[u].by = q /\ claim'[u].age = claim[u].age + 1
    BY <2>1, <2>5, <2>6, <2>7, Bounds DEF Claims, Capped, Ages
  <2> QED BY <2>1, <2>5, <2>6, <2>8 DEF Ages
<1>2. CASE UNCHANGED <<claim, job>>
  BY <1>2 DEF LeaseIsOwned
<1>3. ASSUME NEW t \in Trigger, Notify(t) \/ Supersede(t) PROVE LeaseIsOwned'
  BY <1>2, <1>3 DEF Notify, Supersede, disk, memory
<1>4. ASSUME NEW p \in Process, Start(p) \/ Stop(p) PROVE LeaseIsOwned'
  BY <1>2, <1>4 DEF Start, Stop, disk
<1>5. ASSUME NEW p \in Process, Exit(p) PROVE LeaseIsOwned'
  <2> SUFFICES ASSUME NEW q \in Process, NEW u \in Trigger,
                      job'[q][u].pc \in Leased, job'[q][u].age <= Stale
               PROVE  claim'[u].by = q /\ claim'[u].age <= job'[q][u].age
    BY DEF LeaseIsOwned
  <2>1. job'[q][u] = IF q = p THEN NoJob ELSE job[q][u]
    BY <1>0, <1>5 DEF Exit, JobsOK
  <2>2. job'[q][u] = job[q][u]
    BY <2>1 DEF NoJob, Leased
  <2> QED BY <1>5, <2>2 DEF Exit, disk, LeaseIsOwned
<1>6. ASSUME NEW p \in Process, NEW t \in Trigger,
             Poll(p, t) \/ Working(p, t) \/ Guarding(p, t) \/ RenewFails(p, t) \/ Failing(p, t)
      PROVE  LeaseIsOwned'
  <2>0. job[p][t] \in Jobs /\ NoJob.pc \notin Leased
    BY JobTypes DEF NoJob, Leased
  <2>1. CASE Poll(p, t) \/ BeginJob(p, t)
    <3>1. PICK label \in {"queued", "claiming"} : Goto(p, t, label) /\ UNCHANGED claim
      BY <2>1 DEF Poll, BeginJob, disk
    <3> DEFINE c == [job[p][t] EXCEPT !.pc = label]
    <3>2. Becomes(p, t, c) /\ c.pc \notin Leased
      BY <2>0, <3>1 DEF Goto, Jobs, Leased
    <3> HIDE DEF c
    <3> QED BY <3>1, <3>2, LeaseKept
  <2>2. CASE Claim(p, t)
    <3> SUFFICES ASSUME NEW q \in Process, NEW u \in Trigger,
                        job'[q][u].pc \in Leased, job'[q][u].age <= Stale
                 PROVE  claim'[u].by = q /\ claim'[u].age <= job'[q][u].age
      BY DEF LeaseIsOwned
    <3>1. job[q][u].age \in Ages /\ claim[u].age \in Ages /\ job[p][t].age \in Ages
      BY JobTypes
    <3>2. CASE q = p /\ u = t
      <4>1. claim' = [WithoutStale EXCEPT ![t] = [by |-> p, age |-> 0]]
            /\ job'[p][t] = [job[p][t] EXCEPT !.pc = "claimed"]
        BY <1>0, <2>0, <2>2, <3>2 DEF Claim, Goto, Becomes, JobsOK
      <4>2. claim'[t] = [by |-> p, age |-> 0]
        BY <4>1 DEF WithoutStale
      <4>3. job'[p][t].age = job[p][t].age
        BY <2>0, <4>1 DEF Jobs
      <4> QED BY <3>1, <3>2, <4>2, <4>3 DEF Ages
    <3>3. CASE ~(q = p /\ u = t)
      <4>1. job'[q][u] = job[q][u]
        BY <1>0, <2>2, <3>3 DEF Claim, Goto, Becomes, JobsOK
      <4>2. claim[u].by = q /\ claim[u].age <= job[q][u].age
        BY <4>1 DEF LeaseIsOwned
      <4>3. ~IsStale(claim[u])
        BY <3>1, <4>1, <4>2, Bounds DEF IsStale, Ages
      <4>4. WithoutStale[u] = claim[u]
        BY <4>3 DEF WithoutStale
      <4>5. claim'[u] = WithoutStale[u]
        <5>1. CASE u = t
          BY <2>2, <4>2, <4>4, <5>1, Bounds DEF Claim
        <5>2. CASE u # t
          BY <2>2, <5>2 DEF Claim, WithoutStale
        <5> QED BY <5>1, <5>2
      <4> QED BY <4>1, <4>2, <4>4, <4>5
    <3> QED BY <3>2, <3>3
  <2>3. CASE ClaimFails(p, t) \/ SettlementFails(p, t)
    BY <2>0, <2>3, LeaseKept DEF ClaimFails, SettlementFails, disk
  <2>4. CASE Expire(p, t) \/ BeginRenewal(p, t) \/ RenewFails(p, t)
    <3>1. job[p][t].pc \in Leased
      BY <1>0, <2>4, LiveJobs DEF Expire, BeginRenewal, RenewalDue, RenewFails
    <3>2. ASSUME NEW c, Becomes(p, t, c), c.age = job[p][t].age PROVE LeaseIsOwned'
      BY <2>4, <3>1, <3>2, LeaseKept DEF Expire, BeginRenewal, RenewFails, disk
    <3>3. CASE Expire(p, t)
      BY <2>0, <3>2, <3>3 DEF Expire, Aborted, Jobs
    <3>4. CASE BeginRenewal(p, t)
      BY <2>0, <3>2, <3>4 DEF BeginRenewal, Jobs
    <3>5. CASE RenewFails(p, t)
      BY <2>0, <3>2, <3>5 DEF RenewFails, Jobs
    <3> QED BY <2>4, <3>3, <3>4, <3>5
  <2>5. CASE Renew(p, t) /\ ~Owns(p, t)
    <3>1. job[p][t].pc \in Leased
      BY <1>0, <2>5, LiveJobs DEF Renew
    <3> DEFINE c == Aborted([job[p][t] EXCEPT !.attempt = NoAttempt])
    <3>2. c.age = job[p][t].age /\ Becomes(p, t, c)
      BY <2>0, <2>5 DEF Renew, Aborted, Jobs
    <3> HIDE DEF c
    <3> QED BY <2>5, <3>1, <3>2, LeaseKept DEF Renew
  <2>6. CASE Renew(p, t) /\ Owns(p, t)
    <3> SUFFICES ASSUME NEW q \in Process, NEW u \in Trigger,
                        job'[q][u].pc \in Leased, job'[q][u].age <= Stale
                 PROVE  claim'[u].by = q /\ claim'[u].age <= job'[q][u].age
      BY DEF LeaseIsOwned
    <3>1. job[p][t].age \in Ages /\ job[p][t].attempt \in Ages
      BY <2>0, <2>6, JobTypes DEF Renew, Renewing, Jobs
    <3>2. claim[t] \in Claims /\ claim[u] \in Claims
      BY JobTypes
    <3>3. claim' = [claim EXCEPT ![t].age = 0] /\ Becomes(p, t, Renewed(p, t))
      BY <2>6 DEF Renew
    <3>4. claim'[t] = [claim[t] EXCEPT !.age = 0]
      BY <1>0, <3>3 DEF DiskOK
    <3>5. claim'[t].by = p /\ claim'[t].age = 0
      BY <2>6, <3>2, <3>4 DEF Owns, Claims
    <3>6. CASE q = p /\ u = t
      <4>1. job'[p][t] = Renewed(p, t)
        BY <1>0, <3>3 DEF Becomes, JobsOK
      <4>2. Renewed(p, t).age \in Ages
        BY <2>0, <3>1 DEF Renewed, Jobs
      <4> QED BY <3>5, <3>6, <4>1, <4>2 DEF Ages
    <3>7. CASE ~(q = p /\ u = t)
      <4>1. job'[q][u] = job[q][u]
        BY <1>0, <3>3, <3>7 DEF Becomes, JobsOK
      <4>2. claim[u].by = q /\ claim[u].age <= job[q][u].age
        BY <4>1 DEF LeaseIsOwned
      <4>3. u # t
        BY <2>6, <3>7, <4>2 DEF Owns
      <4>4. claim'[u] = claim[u]
        BY <1>0, <3>3, <4>3 DEF DiskOK
      <4> QED BY <4>1, <4>2, <4>4
    <3> QED BY <3>6, <3>7
  <2>7. CASE Mark(p, t)
    BY <2>7, LeaseEnded DEF Mark
  <2>8. CASE Release(p, t)
    BY <2>8, LeaseEnded DEF Release
  <2>9. CASE LookUp(p, t) \/ BeginTurn(p, t) \/ TurnAnswers(p, t) \/ TurnEndsSilently(p, t)
             \/ EnqueueResponse(p, t) \/ Respond(p, t) \/ JobThrows(p, t)
    <3>1. job[p][t].pc \in Leased /\ UNCHANGED claim
      BY <2>9 DEF LookUp, BeginTurn, TurnAnswers, TurnEndsSilently, EnqueueResponse, Respond,
                  JobThrows, At, Leased, disk
    <3>2. \E label : Goto(p, t, label)
      BY <2>9 DEF LookUp, BeginTurn, TurnAnswers, TurnEndsSilently, EnqueueResponse, Respond,
                  JobThrows
    <3> QED BY <3>1, <3>2, RelabelKeeps
  <2> QED
    BY <1>6, <2>1, <2>2, <2>3, <2>4, <2>5, <2>6, <2>7, <2>8, <2>9 DEF Working, Guarding, Failing
<1>7. CASE UNCHANGED vars
  BY <1>2, <1>7 DEF vars, disk, memory
<1> QED BY <1>1, <1>3, <1>4, <1>5, <1>6, <1>7 DEF Next

(* The claims, jobs and counters of the GitHub surface keep their shape in *)
(* every behaviour.                                                        *)
THEOREM TypeCorrect == Spec => []TypeOK
<1>1. Init => TypeOK
  BY InitType
<1>2. TypeOK /\ [Next]_vars => TypeOK'
  BY TypeStep
<1> QED BY <1>1, <1>2, PTL DEF Spec

(* Whatever oversleeps, fails or crashes, a job that has confirmed its     *)
(* claim within CLAIM_STALE_MS is the one the state file names.            *)
THEOREM LeaseExcludes == Spec => []LeaseIsOwned
<1>1. Init => TypeOK /\ LeaseIsOwned
  <2>1. Init => LeaseIsOwned
    BY DEF Init, LeaseIsOwned, NoJob, Leased
  <2> QED BY <2>1, InitType
<1>2. TypeOK /\ LeaseIsOwned /\ [Next]_vars => (TypeOK /\ LeaseIsOwned)'
  BY TypeStep, LeaseStep
<1> QED BY <1>1, <1>2, PTL DEF Spec

(* Two turns of one trigger are under way at once only if one of them has  *)
(* outlived its claim: tryClaim's promise, as far as the code keeps it.    *)
THEOREM OverlapNeedsOverrun == Spec => []TurnsOverlapOnlyWhenOverrun
<1>1. TypeOK /\ LeaseIsOwned => TurnsOverlapOnlyWhenOverrun
  <2> SUFFICES ASSUME TypeOK, LeaseIsOwned,
                      NEW p \in Process, NEW q \in Process, NEW t \in Trigger,
                      p # q, At(p, t, "turn"), At(q, t, "turn"),
                      ~(job[p][t].age > Stale), ~(job[q][t].age > Stale)
               PROVE  FALSE
    BY DEF TurnsOverlapOnlyWhenOverrun
  <2>1. job[p][t].age <= Stale /\ job[q][t].age <= Stale
    BY JobTypes, Bounds DEF Ages
  <2>2. job[p][t].pc \in Leased /\ job[q][t].pc \in Leased
    BY DEF At, Leased
  <2>3. claim[t].by = p /\ claim[t].by = q
    BY <2>1, <2>2 DEF LeaseIsOwned
  <2> QED BY <2>3
<1> QED BY <1>1, TypeCorrect, LeaseExcludes, PTL

(***************************************************************************)
(* What the state file's list of processed triggers keeps.                 *)
(***************************************************************************)
Entry(s, x) == \E i \in DOMAIN s : s[i] = x

LEMMA RemovedEntries ==
  ASSUME NEW s \in Seq(Trigger), NEW x, NEW y, y # x
  PROVE  Entry(Removed(s, x), y) <=> Entry(s, y)
<1>1. CASE ~\E i \in DOMAIN s : s[i] = x
  BY <1>1 DEF Removed
<1>2. CASE \E i \in DOMAIN s : s[i] = x
  <2> DEFINE n == CHOOSE i \in DOMAIN s : s[i] = x
             a == SubSeq(s, 1, n - 1)
             b == SubSeq(s, n + 1, Len(s))
  <2>1. n \in 1 .. Len(s) /\ s[n] = x /\ Len(s) \in Nat
    BY <1>2
  <2>2. Removed(s, x) = a \o b
    BY <1>2 DEF Removed
  <2> HIDE DEF n
  <2>3. /\ a \in Seq(Trigger) /\ Len(a) = n - 1
        /\ \A i \in 1 .. n - 1 : a[i] = s[i]
    BY <2>1, SubSeqProperties
  <2>4. /\ b \in Seq(Trigger) /\ Len(b) = Len(s) - n
        /\ \A i \in 1 .. Len(s) - n : b[i] = s[n + i]
    BY <2>1, SubSeqProperties
  <2> HIDE DEF a, b
  <2>5. /\ Len(a \o b) = Len(s) - 1 /\ DOMAIN (a \o b) = 1 .. Len(s) - 1
        /\ \A i \in 1 .. n - 1 : (a \o b)[i] = s[i]
        /\ \A i \in n .. Len(s) - 1 : (a \o b)[i] = s[i + 1]
    <3>1. a \o b \in Seq(Trigger) /\ Len(a \o b) = Len(a) + Len(b)
      BY <2>3, <2>4, ConcatProperties
    <3>2. \A i \in 1 .. Len(a) + Len(b) :
            (a \o b)[i] = IF i <= Len(a) THEN a[i] ELSE b[i - Len(a)]
      BY <2>3, <2>4, ConcatProperties
    <3>3. Len(a) + Len(b) = Len(s) - 1
      BY <2>1, <2>3, <2>4
    <3>4. DOMAIN (a \o b) = 1 .. Len(s) - 1
      BY <3>1, <3>3
    <3>5. ASSUME NEW i \in 1 .. n - 1 PROVE (a \o b)[i] = s[i]
      BY <2>1, <2>3, <3>2, <3>3
    <3>6. ASSUME NEW i \in n .. Len(s) - 1 PROVE (a \o b)[i] = s[i + 1]
      <4>1. (a \o b)[i] = b[i - (n - 1)]
        BY <2>1, <2>3, <3>2, <3>3
      <4>2. i - (n - 1) \in 1 .. Len(s) - n /\ n + (i - (n - 1)) = i + 1
        BY <2>1
      <4> QED BY <2>4, <4>1, <4>2
    <3> QED BY <3>1, <3>3, <3>4, <3>5, <3>6
  <2>6. ASSUME NEW i \in DOMAIN (a \o b), (a \o b)[i] = y PROVE Entry(s, y)
    <3>1. i \in 1 .. n - 1 \/ i \in n .. Len(s) - 1
      BY <2>1, <2>5
    <3>2. i \in DOMAIN s /\ i + 1 \in DOMAIN s
      BY <2>1, <2>5
    <3> QED BY <2>5, <2>6, <3>1, <3>2 DEF Entry
  <2>7. ASSUME NEW i \in DOMAIN s, s[i] = y PROVE Entry(a \o b, y)
    <3>1. i \in 1 .. Len(s) /\ i # n
      BY <2>1, <2>7
    <3>2. CASE i < n
      <4>1. i \in 1 .. n - 1 /\ i \in DOMAIN (a \o b)
        BY <2>1, <2>5, <3>1, <3>2
      <4> QED BY <2>5, <2>7, <4>1 DEF Entry
    <3>3. CASE i > n
      <4>1. i - 1 \in n .. Len(s) - 1 /\ i - 1 \in DOMAIN (a \o b) /\ (i - 1) + 1 = i
        BY <2>1, <2>5, <3>1, <3>3
      <4> QED BY <2>5, <2>7, <4>1 DEF Entry
    <3> QED BY <2>1, <3>1, <3>2, <3>3
  <2> QED BY <2>2, <2>6, <2>7 DEF Entry
<1> QED BY <1>1, <1>2

LEMMA NewestEntries ==
  ASSUME NEW s \in Seq(Trigger), NEW y
  PROVE  /\ Entry(Newest(s), y) => Entry(s, y)
         /\ Entry(s, y) => Entry(Newest(s), y) \/ y \in Forgotten(s)
<1>1. CASE ~(Len(s) > MaxProcessed)
  BY <1>1 DEF Newest
<1>2. CASE Len(s) > MaxProcessed
  <2> DEFINE r == SubSeq(s, 2, Len(s))
  <2>1. Len(s) \in Nat /\ Len(s) >= 1
    BY <1>2, Bounds
  <2>2. /\ r \in Seq(Trigger) /\ Len(r) = Len(s) - 1
        /\ \A i \in 1 .. Len(s) - 1 : r[i] = s[i + 1]
    <3>2. \A i \in 2 .. Len(s) : s[i] \in Trigger
      BY <2>1
    <3>3. /\ r \in Seq(Trigger) /\ Len(r) = IF 2 <= Len(s) THEN Len(s) - 2 + 1 ELSE 0
          /\ \A i \in 1 .. Len(s) - 2 + 1 : r[i] = s[2 + i - 1]
      BY <2>1, <3>2, SubSeqProperties
    <3>4. ASSUME NEW i \in 1 .. Len(s) - 1 PROVE r[i] = s[i + 1]
      <4>1. i \in 1 .. Len(s) - 2 + 1 /\ 2 + i - 1 = i + 1
        BY <2>1
      <4> QED BY <3>3, <4>1
    <3> HIDE DEF r
    <3>5. Len(r) = Len(s) - 1
      <4> DEFINE n == Len(s)
                 m == Len(r)
      <4>1. n \in Nat /\ n >= 1 /\ m = IF 2 <= n THEN n - 2 + 1 ELSE 0
        BY <2>1, <3>3
      <4> HIDE DEF n, m
      <4>2. m = n - 1
        BY <4>1
      <4> QED BY <4>2 DEF n, m
    <3> QED BY <3>3, <3>4, <3>5
  <2>3. Newest(s) = r /\ Forgotten(s) = {s[1]}
    BY <1>2 DEF Newest, Forgotten
  <2> HIDE DEF r
  <2>4. ASSUME NEW i \in DOMAIN r, r[i] = y PROVE Entry(s, y)
    <3>1. i \in 1 .. Len(s) - 1 /\ i + 1 \in DOMAIN s
      BY <2>1, <2>2
    <3> QED BY <2>2, <2>4, <3>1 DEF Entry
  <2>5. ASSUME NEW i \in DOMAIN s, s[i] = y, i # 1 PROVE Entry(r, y)
    <3>1. i - 1 \in 1 .. Len(s) - 1 /\ i - 1 \in DOMAIN r /\ (i - 1) + 1 = i
      BY <2>1, <2>2, <2>5
    <3> QED BY <2>2, <2>5, <3>1 DEF Entry
  <2> QED BY <2>3, <2>4, <2>5 DEF Entry
<1> QED BY <1>1, <1>2

(* What markProcessed makes of the list: x is its newest entry, the others *)
(* stay but for the one that is forgotten.                                 *)
LEMMA MarkedEntries ==
  ASSUME NEW s \in Seq(Trigger), NEW x \in Trigger, NEW y,
         NEW all, all = Append(Removed(s, x), x)
  PROVE  /\ Entry(Newest(all), x) \/ x \in Forgotten(all)
         /\ y # x => /\ Entry(Newest(all), y) => Entry(s, y)
                     /\ Entry(s, y) => Entry(Newest(all), y) \/ y \in Forgotten(all)
<1> DEFINE r == Removed(s, x)
<1>1. r \in Seq(Trigger)
  BY RemovedType
<1>2. all = Append(r, x)
  OBVIOUS
<1>3. y # x => (Entry(r, y) <=> Entry(s, y))
  BY RemovedEntries
<1> HIDE DEF r
<1>4. /\ all \in Seq(Trigger) /\ Len(all) = Len(r) + 1 /\ all[Len(r) + 1] = x
      /\ \A i \in 1 .. Len(r) : all[i] = r[i]
  BY <1>1, <1>2
<1>5. Entry(all, x)
  BY <1>1, <1>4 DEF Entry
<1>6. ASSUME y # x PROVE Entry(all, y) <=> Entry(r, y)
  <2>1. Len(r) \in Nat /\ DOMAIN r = 1 .. Len(r) /\ DOMAIN all = 1 .. Len(r) + 1
    BY <1>1, <1>4
  <2>2. ASSUME NEW i \in DOMAIN all, all[i] = y PROVE i \in DOMAIN r /\ r[i] = y
    <3>1. i # Len(r) + 1
      BY <1>4, <1>6, <2>2
    <3>2. i \in 1 .. Len(r)
      BY <2>1, <3>1
    <3> QED BY <1>4, <2>1, <2>2, <3>2
  <2>3. ASSUME NEW i \in DOMAIN r, r[i] = y PROVE i \in DOMAIN all /\ all[i] = y
    BY <1>4, <2>1, <2>3
  <2> QED BY <2>2, <2>3 DEF Entry
<1> QED BY <1>3, <1>4, <1>5, <1>6, NewestEntries

(***************************************************************************)
(* What one step does to one trigger. Every step leaves it Calm, unless it *)
(* is a step of a job for it that moves its claim, turn or response.       *)
(***************************************************************************)
Idle == {"none", "queued", "claiming"}

Calm(t) ==
  /\ \A q \in Process : job'[q][t].pc = job[q][t].pc \/ job'[q][t].pc \in Idle
  /\ t \in response' <=> t \in response
  /\ turns'[t] = turns[t]
  /\ t \in excused => t \in excused'
  /\ IsProcessed(t)' => IsProcessed(t)
  /\ claim'[t].by = claim[t].by \/ IsStale(claim[t])
  /\ \/ t \in response \/ t \in excused'
     \/ claim'[t].by = claim[t].by /\ (IsProcessed(t) => IsProcessed(t)')

Free(t) == WithoutStale[t].by = NoOne /\ ~IsProcessed(t)

\* The steps of p's job that settle or advance t.
Turns(p, t) ==
  \/ LookUp(p, t) \/ BeginTurn(p, t) \/ TurnAnswers(p, t) \/ TurnEndsSilently(p, t)
  \/ EnqueueResponse(p, t) \/ Respond(p, t) \/ JobThrows(p, t)
Settles(p, t) == (Mark(p, t) \/ Release(p, t)) /\ Owns(p, t)
Acquires(p, t) == Claim(p, t) /\ Free(t)

LEMMA Becoming ==
  ASSUME TypeOK, NEW p \in Process, NEW t \in Trigger, NEW c, Becomes(p, t, c)
  PROVE  /\ \A q \in Process, u \in Trigger :
              job'[q][u] = IF q = p /\ u = t THEN c ELSE job[q][u]
         /\ job'[p][t] = c
         /\ \A q \in Process, u \in Trigger : (q # p \/ u # t) => job'[q][u] = job[q][u]
BY TypeParts DEF Becomes, JobsOK

LEMMA Going ==
  ASSUME TypeOK, NEW p \in Process, NEW t \in Trigger, NEW label, Goto(p, t, label)
  PROVE  /\ job'[p][t].pc = label
         /\ \A q \in Process, u \in Trigger : (q # p \/ u # t) => job'[q][u] = job[q][u]
<1> DEFINE c == [job[p][t] EXCEPT !.pc = label]
<1>1. Becomes(p, t, c) /\ c.pc = label
  BY JobTypes DEF Goto, Jobs
<1> HIDE DEF c
<1> QED BY <1>1, Becoming

LEMMA ProcessedStays == ASSUME UNCHANGED processed, NEW t PROVE IsProcessed(t)' <=> IsProcessed(t)
BY DEF IsProcessed

\* Steps that leave the disk and the observers alone, and no lease begins.
LEMMA CalmStep ==
  ASSUME UNCHANGED <<disk, turns, excused>>, NEW t \in Trigger,
         \A q \in Process : job'[q][t].pc = job[q][t].pc \/ job'[q][t].pc \in Idle
  PROVE  Calm(t)
BY ProcessedStays DEF Calm, disk

LEMMA StepShape ==
  ASSUME TypeOK, [Next]_vars, NEW t \in Trigger
  PROVE  Calm(t) \/ \E p \in Process : Acquires(p, t) \/ Turns(p, t) \/ Settles(p, t)
<1>0. JobsOK /\ DiskOK
  BY TypeParts
<1>1. CASE Tick
  <2>1. ASSUME NEW q \in Process PROVE job'[q][t].pc = job[q][t].pc
    <3>1. job'[q][t] = Older(job[q][t])
      BY <1>1 DEF Tick
    <3> QED BY <3>1, JobTypes DEF Older, Jobs
  <2>2. claim'[t].by = claim[t].by
    <3>1. claim[t] \in Claims
      BY <1>0 DEF DiskOK
    <3>2. claim'[t] = claim[t] \/ claim'[t] = [claim[t] EXCEPT !.age = Capped(@)]
      BY <1>1 DEF Tick
    <3> QED BY <3>1, <3>2 DEF Claims
  <2>3. UNCHANGED <<processed, response, turns, excused>>
    BY <1>1 DEF Tick, Unobserved
  <2> QED BY <2>1, <2>2, <2>3, ProcessedStays DEF Calm
<1>2. ASSUME NEW u \in Trigger, Notify(u) \/ Supersede(u) PROVE Calm(t)
  BY <1>2, CalmStep DEF Notify, Supersede, memory, Unobserved
<1>3. ASSUME NEW p \in Process, Start(p) \/ Stop(p) PROVE Calm(t)
  BY <1>3, CalmStep DEF Start, Stop, Unobserved
<1>4. ASSUME NEW p \in Process, Exit(p) PROVE Calm(t)
  <2>1. \A q \in Process : job'[q][t] = IF q = p THEN NoJob ELSE job[q][t]
    BY <1>0, <1>4 DEF Exit, JobsOK
  <2> QED BY <1>4, <2>1, CalmStep DEF Exit, Unobserved, NoJob, Idle
<1>5. ASSUME NEW p \in Process, NEW u \in Trigger,
             Poll(p, u) \/ Working(p, u) \/ Guarding(p, u) \/ RenewFails(p, u) \/ Failing(p, u)
      PROVE  Calm(t) \/ \E q \in Process : Acquires(q, t) \/ Turns(q, t) \/ Settles(q, t)
  <2>0. job[p][u] \in Jobs /\ NoJob.pc = "none"
    BY JobTypes DEF NoJob
  <2>1. CASE Poll(p, u) \/ BeginJob(p, u)
    <3>1. PICK label \in {"queued", "claiming"} : Goto(p, u, label)
      BY <2>1 DEF Poll, BeginJob
    <3>2. \A q \in Process : job'[q][t].pc = job[q][t].pc \/ job'[q][t].pc \in Idle
      BY <3>1, Going DEF Idle
    <3> QED BY <2>1, <3>2, CalmStep DEF Poll, BeginJob, Unobserved
  <2>2. CASE ClaimFails(p, u) \/ SettlementFails(p, u)
    <3>1. Becomes(p, u, NoJob)
      BY <2>2 DEF ClaimFails, SettlementFails
    <3>2. \A q \in Process : job'[q][t].pc = job[q][t].pc \/ job'[q][t].pc \in Idle
      BY <2>0, <3>1, Becoming DEF Idle
    <3> QED BY <2>2, <3>2, CalmStep DEF ClaimFails, SettlementFails, Unobserved
  <2>3. CASE Expire(p, u) \/ BeginRenewal(p, u) \/ RenewFails(p, u)
    <3>1. \E c : Becomes(p, u, c) /\ c.pc = job[p][u].pc
      <4>1. ASSUME NEW c, Becomes(p, u, c), c.pc = job[p][u].pc PROVE \E d : Becomes(p, u, d) /\ d.pc = job[p][u].pc
        BY <4>1
      <4>2. CASE Expire(p, u)
        BY <2>0, <4>1, <4>2 DEF Expire, Aborted, Jobs
      <4>3. CASE BeginRenewal(p, u)
        BY <2>0, <4>1, <4>3 DEF BeginRenewal, Jobs
      <4>4. CASE RenewFails(p, u)
        BY <2>0, <4>1, <4>4 DEF RenewFails, Jobs
      <4> QED BY <2>3, <4>2, <4>3, <4>4
    <3>2. \A q \in Process : job'[q][t].pc = job[q][t].pc
      BY <3>1, Becoming
    <3> QED BY <2>3, <3>2, CalmStep DEF Expire, BeginRenewal, RenewFails, Unobserved
  <2>4. CASE Renew(p, u)
    <3>1. \E c : Becomes(p, u, c) /\ c.pc = job[p][u].pc
      <4> DEFINE lost == Aborted([job[p][u] EXCEPT !.attempt = NoAttempt])
      <4>1. Renewed(p, u).pc = job[p][u].pc /\ lost.pc = job[p][u].pc
        BY <2>0 DEF Renewed, Aborted, Jobs
      <4>2. Becomes(p, u, Renewed(p, u)) \/ Becomes(p, u, lost)
        BY <2>4 DEF Renew
      <4> HIDE DEF lost
      <4> QED BY <4>1, <4>2
    <3>2. \A q \in Process : job'[q][t].pc = job[q][t].pc
      BY <3>1, Becoming
    <3>3. claim[t] \in Claims /\ claim[u] \in Claims
      BY JobTypes
    <3>4. claim'[t].by = claim[t].by
      BY <1>0, <2>4, <3>3 DEF Renew, DiskOK, Claims
    <3>5. UNCHANGED <<processed, response, turns, excused>>
      BY <2>4 DEF Renew, Unobserved
    <3> QED BY <3>2, <3>4, <3>5, ProcessedStays DEF Calm
  <2>5. CASE Claim(p, u) /\ ~Acquires(p, t)
    <3>1. CASE u = t
      <4>1. claim' = WithoutStale /\ Becomes(p, t, NoJob)
        BY <2>5, <3>1 DEF Claim, Acquires, Free
      <4>2. \A q \in Process : job'[q][t].pc = job[q][t].pc \/ job'[q][t].pc \in Idle
        BY <2>0, <4>1, Becoming DEF Idle
      <4>3. claim'[t].by = claim[t].by \/ IsStale(claim[t])
        BY <4>1 DEF WithoutStale
      <4>4. t \in response \/ t \in excused' \/ claim'[t].by = claim[t].by
        BY <2>5, <4>3 DEF Claim
      <4>5. UNCHANGED <<processed, response, turns>> /\ (t \in excused => t \in excused')
        BY <2>5 DEF Claim
      <4> QED BY <4>2, <4>3, <4>4, <4>5, ProcessedStays DEF Calm
    <3>2. CASE u # t
      <4>1. \A q \in Process : job'[q][t] = job[q][t]
        BY <2>5, <3>2, Becoming, Going DEF Claim
      <4>2. claim'[t] = WithoutStale[t]
        BY <2>5, <3>2 DEF Claim, WithoutStale
      <4>3. claim'[t].by = claim[t].by \/ IsStale(claim[t])
        BY <4>2 DEF WithoutStale
      <4>4. t \in response \/ t \in excused' \/ claim'[t].by = claim[t].by
        BY <2>5, <4>3 DEF Claim
      <4>5. UNCHANGED <<processed, response, turns>> /\ (t \in excused => t \in excused')
        BY <2>5 DEF Claim
      <4> QED BY <4>1, <4>3, <4>4, <4>5, ProcessedStays DEF Calm
    <3> QED BY <3>1, <3>2
  <2>6. CASE (Mark(p, u) \/ Release(p, u)) /\ ~(u = t /\ Owns(p, t))
    <3>1. Becomes(p, u, NoJob)
      BY <2>6 DEF Mark, Release
    <3>2. \A q \in Process : job'[q][t].pc = job[q][t].pc \/ job'[q][t].pc \in Idle
      BY <2>0, <3>1, Becoming DEF Idle
    <3>3. claim'[t] = claim[t]
      BY <1>0, <2>6 DEF Mark, Release, DiskOK
    <3>4. UNCHANGED <<response, turns>> /\ (t \in excused => t \in excused')
      BY <2>6 DEF Mark, Release, Unobserved
    <3>5. /\ IsProcessed(t)' => IsProcessed(t)
          /\ IsProcessed(t) => IsProcessed(t)' \/ t \in response \/ t \in excused'
      <4>1. CASE UNCHANGED processed
        BY <4>1, ProcessedStays
      <4>2. CASE Mark(p, u) /\ Owns(p, u)
        <5> DEFINE all == Append(Removed(processed, u), u)
        <5>1. t # u
          BY <2>6, <4>2
        <5>2. processed' = Newest(all) /\ excused' = excused \union (Forgotten(all) \ response)
          BY <4>2 DEF Mark
        <5>3. processed \in Seq(Trigger)
          BY <1>0 DEF DiskOK
        <5>4. /\ Entry(Newest(all), t) => Entry(processed, t)
              /\ Entry(processed, t) => Entry(Newest(all), t) \/ t \in Forgotten(all)
          BY <5>1, <5>3, MarkedEntries
        <5> HIDE DEF all
        <5> QED BY <5>2, <5>4 DEF IsProcessed, Entry
      <4> QED BY <2>6, <4>1, <4>2 DEF Mark, Release
    <3> QED BY <3>2, <3>3, <3>4, <3>5 DEF Calm
  <2>7. CASE Turns(p, u) /\ u # t
    <3>1. \A q \in Process : job'[q][t] = job[q][t]
      BY <2>7, Going DEF Turns, LookUp, BeginTurn, TurnAnswers, TurnEndsSilently,
                         EnqueueResponse, Respond, JobThrows
    <3>2. UNCHANGED <<claim, processed>> /\ (t \in excused => t \in excused')
      BY <2>7 DEF Turns, LookUp, BeginTurn, TurnAnswers, TurnEndsSilently, EnqueueResponse,
                  Respond, JobThrows, disk, Unobserved, Excuse
    <3>3. t \in response' <=> t \in response
      BY <2>7 DEF Turns, LookUp, BeginTurn, TurnAnswers, TurnEndsSilently, EnqueueResponse,
                  Respond, JobThrows, disk
    <3>4. turns'[t] = turns[t]
      BY <2>7, TypeParts DEF Turns, LookUp, BeginTurn, TurnAnswers, TurnEndsSilently,
                  EnqueueResponse, Respond, JobThrows, Unobserved, CountsOK
    <3> QED BY <3>1, <3>2, <3>3, <3>4, ProcessedStays DEF Calm
  <2> QED
    BY <1>5, <2>1, <2>2, <2>3, <2>4, <2>5, <2>6, <2>7
    DEF Working, Guarding, Failing, Turns, Settles, Acquires
<1>6. CASE UNCHANGED vars
  <2>1. UNCHANGED <<job, disk, turns, excused>>
    BY <1>6 DEF vars, memory
  <2> QED BY <2>1, CalmStep
<1> QED BY <1>1, <1>2, <1>3, <1>4, <1>5, <1>6 DEF Next

(***************************************************************************)
(* A trigger nothing has gone wrong with has had one turn at most, and as  *)
(* long as no response of it is durable, whoever has a lease on it is the  *)
(* process its claim names; once a turn has begun, that claim, or after it *)
(* the list of processed triggers, keeps every other job from the turn.    *)
(***************************************************************************)
Unanswered(t) ==
  /\ \A p \in Process : job[p][t].pc \in Leased => claim[t].by = p /\ ~IsProcessed(t)
  /\ turns[t] > 0 =>
       \/ IsProcessed(t)
       \/ /\ claim[t].by # NoOne
          /\ job[claim[t].by][t].pc \notin {"claimed", "checked", "releasing"}

Explained(t) ==
  /\ \A p \in Process : At(p, t, "responding") => t \in response
  /\ t \notin excused =>
       /\ turns[t] <= 1
       /\ t \in response => \A p \in Process : job[p][t].pc \notin {"checked", "turn", "enqueuing"}
       /\ t \notin response => Unanswered(t)

LEMMA Responding ==
  ASSUME TypeOK, [Next]_vars, NEW t \in Trigger,
         \A p \in Process : At(p, t, "responding") => t \in response
  PROVE  \A p \in Process : At(p, t, "responding")' => t \in response'
<1> SUFFICES ASSUME NEW p \in Process, job'[p][t].pc = "responding" PROVE t \in response'
  BY DEF At
<1>1. CASE Calm(t)
  BY <1>1 DEF Calm, Idle, At
<1>2. ASSUME NEW q \in Process, Acquires(q, t) \/ Turns(q, t) \/ Settles(q, t)
      PROVE  t \in response'
  <2>0. NoJob.pc = "none"
    BY DEF NoJob
  <2>1. response \subseteq response'
    BY <1>2 DEF Acquires, Claim, Settles, Mark, Release, Turns, LookUp, BeginTurn, TurnAnswers,
                TurnEndsSilently, EnqueueResponse, Respond, JobThrows, disk
  <2>2. CASE p # q
    <3>1. job'[p][t] = job[p][t]
      BY <1>2, <2>2, Going, Becoming
      DEF Acquires, Free, Claim, Settles, Mark, Release, Turns, LookUp, BeginTurn, TurnAnswers,
          TurnEndsSilently, EnqueueResponse, Respond, JobThrows
    <3> QED BY <2>1, <3>1 DEF At
  <2>3. CASE p = q
    <3>1. CASE EnqueueResponse(q, t)
      BY <3>1 DEF EnqueueResponse
    <3>2. CASE ~EnqueueResponse(q, t)
      BY <1>2, <2>0, <2>3, <3>2, Going, Becoming
      DEF Acquires, Free, Claim, Settles, Mark, Release, Turns, LookUp, BeginTurn, TurnAnswers,
          TurnEndsSilently, Respond, JobThrows, Completed
    <3> QED BY <3>1, <3>2
  <2> QED BY <2>2, <2>3
<1> QED BY <1>1, <1>2, StepShape

LEMMA ExplainedStep ==
  ASSUME TypeOK, [Next]_vars, NEW t \in Trigger, Explained(t)
  PROVE  Explained(t)'
<1> SUFFICES ASSUME t \notin excused'
             PROVE  /\ turns'[t] <= 1
                    /\ t \in response' =>
                         \A p \in Process : job'[p][t].pc \notin {"checked", "turn", "enqueuing"}
                    /\ t \notin response' => Unanswered(t)'
  BY Responding DEF Explained
<1>0. turns[t] \in 0 .. 2 /\ claim[t].by \in Process \union {NoOne} /\ NoOne \notin Process
  BY TypeParts, Bounds DEF CountsOK, DiskOK, Claims
<1>1. CASE Calm(t)
  <2>1. t \notin excused /\ turns'[t] = turns[t] /\ (t \in response' <=> t \in response)
    BY <1>1 DEF Calm
  <2>2. \A q \in Process : job'[q][t].pc = job[q][t].pc \/ job'[q][t].pc \in Idle
    BY <1>1 DEF Calm
  <2>3. CASE t \in response
    BY <2>1, <2>2, <2>3 DEF Explained, Idle
  <2>4. CASE t \notin response
    <3>1. claim'[t].by = claim[t].by /\ (IsProcessed(t)' <=> IsProcessed(t)) /\ Unanswered(t)
      BY <1>1, <2>1, <2>4 DEF Calm, Explained
    <3>2. \A q \in Process : job'[q][t].pc \in Leased => job[q][t].pc \in Leased
      BY <2>2 DEF Idle, Leased
    <3>3. \A q \in Process : job'[q][t].pc \in {"claimed", "checked", "releasing"} =>
                               job[q][t].pc \in {"claimed", "checked", "releasing"}
      BY <2>2 DEF Idle
    <3>4. Unanswered(t)'
      BY <1>0, <2>1, <3>1, <3>2, <3>3 DEF Unanswered
    <3> QED BY <2>1, <2>4, <3>4 DEF Explained
  <2> QED BY <2>3, <2>4
<1>2. ASSUME NEW p \in Process, Acquires(p, t)
      PROVE  /\ turns'[t] <= 1
             /\ t \in response' =>
                  \A q \in Process : job'[q][t].pc \notin {"checked", "turn", "enqueuing"}
             /\ t \notin response' => Unanswered(t)'
  <2>1. /\ UNCHANGED <<processed, response, turns>> /\ t \notin excused /\ ~IsProcessed(t)
        /\ t \in response \/ ~IsStale(claim[t])
        /\ claim'[t].by = p /\ WithoutStale[t].by = NoOne
    BY <1>2 DEF Acquires, Claim, Free, WithoutStale
  <2>2. /\ job'[p][t].pc = "claimed"
        /\ \A q \in Process : q # p => job'[q][t] = job[q][t]
    BY <1>2, Going DEF Acquires, Claim, Free
  <2>3. CASE t \in response
    BY <2>1, <2>2, <2>3 DEF Explained
  <2>4. CASE t \notin response
    <3>1. claim[t].by = NoOne
      BY <2>1, <2>4 DEF WithoutStale
    <3>2. Unanswered(t) /\ turns[t] = 0
      BY <1>0, <2>1, <2>4, <3>1 DEF Explained, Unanswered
    <3>3. \A q \in Process : job[q][t].pc \notin Leased
      BY <1>0, <3>1, <3>2 DEF Unanswered
    <3>4. IsProcessed(t)' <=> IsProcessed(t)
      BY <2>1, ProcessedStays
    <3>5. Unanswered(t)'
      BY <2>1, <2>2, <3>2, <3>3, <3>4 DEF Unanswered
    <3> QED BY <2>1, <2>4, <3>2, <3>5
  <2> QED BY <2>3, <2>4
<1>3. ASSUME NEW p \in Process, Settles(p, t)
      PROVE  /\ turns'[t] <= 1
             /\ t \in response' =>
                  \A q \in Process : job'[q][t].pc \notin {"checked", "turn", "enqueuing"}
             /\ t \notin response' => Unanswered(t)'
  <2>1. UNCHANGED <<response, turns>> /\ t \notin excused /\ claim[t].by = p
    BY <1>3 DEF Settles, Mark, Release, Owns, Unobserved
  <2>2. /\ job'[p][t].pc = "none" /\ job[p][t].pc \in Leased
        /\ \A q \in Process : q # p => job'[q][t] = job[q][t]
    BY <1>3, Becoming DEF Settles, Mark, Release, NoJob, At, Leased
  <2>3. CASE t \in response
    BY <2>1, <2>2, <2>3 DEF Explained
  <2>4. CASE t \notin response
    <3>1. Unanswered(t) /\ turns[t] <= 1
      BY <2>1, <2>4 DEF Explained
    <3>2. \A q \in Process : job'[q][t].pc \notin Leased
      BY <2>1, <2>2, <3>1 DEF Unanswered, Leased
    <3>3. turns[t] > 0 => IsProcessed(t)'
      <4>1. CASE Mark(p, t)
        <5> DEFINE all == Append(Removed(processed, t), t)
        <5>1. processed' = Newest(all) /\ excused' = excused \union (Forgotten(all) \ response)
          BY <1>3, <4>1 DEF Mark, Settles
        <5>2. processed \in Seq(Trigger)
          BY TypeParts DEF DiskOK
        <5>3. Entry(Newest(all), t) \/ t \in Forgotten(all)
          BY <5>2, MarkedEntries
        <5> HIDE DEF all
        <5> QED BY <2>4, <5>1, <5>3 DEF IsProcessed, Entry
      <4>2. CASE Release(p, t)
        <5>1. job[p][t].pc = "releasing" /\ UNCHANGED processed
          BY <4>2 DEF Release, At
        <5> QED BY <2>1, <2>2, <3>1, <5>1, ProcessedStays DEF Unanswered
      <4> QED BY <1>3, <4>1, <4>2 DEF Settles
    <3> QED BY <2>1, <2>4, <3>1, <3>2, <3>3 DEF Unanswered
  <2> QED BY <2>3, <2>4
<1>4. ASSUME NEW p \in Process, Turns(p, t)
      PROVE  /\ turns'[t] <= 1
             /\ t \in response' =>
                  \A q \in Process : job'[q][t].pc \notin {"checked", "turn", "enqueuing"}
             /\ t \notin response' => Unanswered(t)'
  <2>0. /\ UNCHANGED <<claim, processed>> /\ t \notin excused
        /\ job[p][t].pc \in Leased
        /\ IsProcessed(t)' <=> IsProcessed(t)
    BY <1>4, ProcessedStays
    DEF Turns, LookUp, BeginTurn, TurnAnswers, TurnEndsSilently, EnqueueResponse,
        Respond, JobThrows, disk, Unobserved, Excuse, At, Leased
  <2>1. PICK label : Goto(p, t, label)
    BY <1>4 DEF Turns, LookUp, BeginTurn, TurnAnswers, TurnEndsSilently, EnqueueResponse,
                Respond, JobThrows
  <2>2. /\ job'[p][t].pc = label
        /\ \A q \in Process : q # p => job'[q][t] = job[q][t]
    BY <2>1, Going
  <2>3. CASE t \in response
    <3>1. t \in response' /\ job[p][t].pc \notin {"checked", "turn", "enqueuing"}
          /\ turns[t] <= 1
      BY <1>4, <2>0, <2>3 DEF Turns, LookUp, BeginTurn, TurnAnswers, TurnEndsSilently,
         EnqueueResponse, Respond, JobThrows, disk, Explained
    <3>2. UNCHANGED turns /\ job'[p][t].pc \in {"marking", "releasing"}
      BY <1>4, <2>3, <3>1, Going DEF Turns, LookUp, BeginTurn, TurnAnswers, TurnEndsSilently,
         EnqueueResponse, Respond, JobThrows, Unobserved, At, Completed, Answered
    <3> QED BY <2>0, <2>2, <2>3, <3>1, <3>2 DEF Explained
  <2>4. CASE t \notin response
    <3>1. Unanswered(t) /\ turns[t] <= 1 /\ ~IsProcessed(t) /\ claim[t].by = p
      BY <2>0, <2>4 DEF Explained, Unanswered
    <3>2. \A q \in Process : q # p => job'[q][t].pc \notin Leased
      BY <2>2, <3>1 DEF Unanswered
    <3>3. CASE EnqueueResponse(p, t)
      <4>1. UNCHANGED turns /\ job'[p][t].pc = "responding" /\ t \in response'
        BY <2>4, <3>3, Going DEF EnqueueResponse, Unobserved
      <4> QED BY <3>1, <3>2, <4>1 DEF Leased
    <3>4. CASE ~EnqueueResponse(p, t)
      <4>1. t \notin response' /\ ~Respond(p, t)
        BY <1>4, <2>4, <3>4 DEF Turns, LookUp, BeginTurn, TurnAnswers, TurnEndsSilently,
           Respond, JobThrows, disk, Explained, At
      <4>2. /\ turns'[t] <= 1
            /\ turns'[t] > 0 => job'[p][t].pc \notin {"claimed", "checked", "releasing"}
        <5>1. job[p][t].pc \in {"claimed", "checked"} => turns[t] = 0
          BY <1>0, <2>0, <3>1 DEF Unanswered
        <5>2. CASE LookUp(p, t)
          BY <5>1, <5>2 DEF LookUp, Unobserved, At
        <5>3. CASE BeginTurn(p, t)
          <6>1. turns[t] = 0 /\ turns \in [Trigger -> 0 .. 2]
            BY <5>1, <5>3, TypeParts DEF BeginTurn, At, CountsOK
          <6>2. CASE job[p][t].aborted
            BY <5>3, <6>1, <6>2 DEF BeginTurn
          <6>3. CASE ~job[p][t].aborted
            <7>1. turns'[t] = 1 /\ job'[p][t].pc = "turn"
              BY <5>3, <6>1, <6>3, Going DEF BeginTurn
            <7> QED BY <7>1
          <6> QED BY <6>2, <6>3
        <5>4. CASE TurnAnswers(p, t)
          <6>1. ~job[p][t].aborted /\ UNCHANGED turns /\ job'[p][t].pc = "enqueuing"
            BY <2>4, <5>4, Going DEF TurnAnswers, Excuse
          <6> QED BY <3>1, <6>1
        <5>5. CASE TurnEndsSilently(p, t)
          <6>1. ~job[p][t].aborted /\ UNCHANGED turns /\ job'[p][t].pc = "marking"
            BY <2>4, <5>5, Going DEF TurnEndsSilently, Excuse, Completed
          <6> QED BY <3>1, <6>1
        <5>6. CASE JobThrows(p, t)
          <6>1. job[p][t].pc \notin {"turn", "enqueuing"} /\ UNCHANGED turns
            BY <2>4, <5>6 DEF JobThrows, Excuse
          <6>2. job[p][t].pc \in {"claimed", "checked"}
            BY <2>4, <5>6, <6>1 DEF JobThrows, Explained, At
          <6> QED BY <5>1, <6>1, <6>2
        <5> QED BY <1>4, <3>4, <4>1, <5>2, <5>3, <5>4, <5>5, <5>6 DEF Turns
      <4> QED BY <1>0, <2>0, <3>1, <3>2, <4>1, <4>2 DEF Unanswered
    <3> QED BY <3>3, <3>4
  <2> QED BY <2>3, <2>4
<1> QED BY <1>1, <1>2, <1>3, <1>4, StepShape

(* A trigger's turn is run again only if no response of it was durable and *)
(* the former turn was cut short, lost its claim, or was forgotten.        *)
THEOREM RepeatsExplained == Spec => []RepeatsAreExplained
<1>1. Init => \A t \in Trigger : Explained(t)
  BY DEF Init, Explained, Unanswered, At, NoJob, Leased
<1>2. TypeOK /\ (\A t \in Trigger : Explained(t)) /\ [Next]_vars =>
        (\A t \in Trigger : Explained(t))'
  BY ExplainedStep
<1>3. TypeOK /\ (\A t \in Trigger : Explained(t)) => RepeatsAreExplained
  <2> SUFFICES ASSUME TypeOK, NEW t \in Trigger, Explained(t), turns[t] > 1, t \notin excused
               PROVE  FALSE
    BY DEF RepeatsAreExplained
  <2>1. turns[t] \in 0 .. 2 /\ turns[t] <= 1
    BY TypeParts DEF CountsOK, Explained
  <2> QED BY <2>1
<1> QED BY <1>1, <1>2, <1>3, TypeCorrect, PTL DEF Spec

(* A worker that finishes late ends no claim but its own, and only the     *)
(* holder's trigger becomes processed.                                     *)
THEOREM HolderSettles == Spec => OnlyTheHolderSettles
<1> DEFINE Held(t) ==
      /\ claim[t].by # NoOne /\ ~IsStale(claim[t]) /\ claim'[t].by # claim[t].by =>
           job[claim[t].by][t].pc \in {"marking", "releasing"} /\ job'[claim[t].by][t] = NoJob
      /\ IsProcessed(t)' /\ ~IsProcessed(t) =>
           claim[t].by # NoOne /\ At(claim[t].by, t, "marking")
<1>1. ASSUME TypeOK, [Next]_vars, NEW t \in Trigger PROVE Held(t)
  <2>1. CASE Calm(t)
    BY <2>1 DEF Calm
  <2>2. ASSUME NEW p \in Process, Acquires(p, t) PROVE Held(t)
    <3>1. UNCHANGED processed /\ WithoutStale[t].by = NoOne
      BY <2>2 DEF Acquires, Claim, Free
    <3>2. IsStale(claim[t]) \/ claim[t].by = NoOne
      BY <3>1 DEF WithoutStale
    <3> QED BY <3>1, <3>2, ProcessedStays
  <2>3. ASSUME NEW p \in Process, Turns(p, t) PROVE Held(t)
    <3>1. UNCHANGED <<claim, processed>>
      BY <2>3 DEF Turns, LookUp, BeginTurn, TurnAnswers, TurnEndsSilently, EnqueueResponse,
                  Respond, JobThrows, disk
    <3> QED BY <3>1, ProcessedStays
  <2>4. ASSUME NEW p \in Process, Settles(p, t) PROVE Held(t)
    <3>1. claim[t].by = p /\ p # NoOne /\ job[p][t].pc \in {"marking", "releasing"}
      BY <2>4, Bounds DEF Settles, Owns, Mark, Release, At
    <3>2. job'[p][t] = NoJob
      BY <1>1, <2>4, Becoming DEF Settles, Mark, Release
    <3>3. ~At(p, t, "marking") => UNCHANGED processed
      BY <2>4 DEF Settles, Mark, Release
    <3> QED BY <3>1, <3>2, <3>3, ProcessedStays
  <2> QED BY <1>1, <2>1, <2>2, <2>3, <2>4, StepShape
<1>2. TypeOK /\ [Next]_vars => [\A t \in Trigger : Held(t)]_vars
  BY <1>1
<1> QED BY <1>2, TypeCorrect, PTL DEF Spec, OnlyTheHolderSettles

=============================================================================
