-------------------------- MODULE Schedules_proof --------------------------
(***************************************************************************)
(* The invariants of the two schedulers of the Discord surface.            *)
(*                                                                         *)
(* Reminders, first: FiresAreLimited and LiveMessagesAreTracked, for any   *)
(* number of changes under way, any limit, window and recurrence and any   *)
(* number of faults.  The limit rests on the list in the file (Listed):    *)
(* every recent post is on it, but for that of the fire under way, and     *)
(* whatever is due is later than all of it.  The messages rest on who      *)
(* knows of them (Tracked): the file, the fire that posted one, or the     *)
(* button that is about to clean up.  And an active reminder is never      *)
(* forgotten (ActiveIsBound): its time has a timer, is on its way to the   *)
(* outbox, or was there, or a reload is about to see to it.                *)
(*                                                                         *)
(* Events, second: ScheduleIsTheFiles for any number of reloads, timers,   *)
(* changes and faults.  The two share no state, and no name.               *)
(***************************************************************************)
EXTENDS Reminders, EventWatcher, FiniteSetTheorems, WellFoundedInduction, TLAPS

\* The records with a list within the limit.
Contents == {r \in Content : Cardinality(r.recent) <= MaxFires}

LEMMA Limits ==
  /\ Horizon \in Nat /\ Snooze \in Nat \ {0} /\ Cycle \in Nat \ {0}
  /\ Window \in Nat \ {0} /\ MaxFires \in Nat \ {0} /\ MaxChanges \in Nat /\ MaxFaults \in Nat
  /\ Time \subseteq Nat /\ Time \subseteq Instant /\ Instant \subseteq Nat
  /\ \A t \in Time : t + 1 \in Instant /\ t + Window \in Instant /\ t + Snooze \in Instant
  /\ \A t \in Instant, n \in Time : t <= n => t \in Time
  /\ Never \notin Nat
BY ReminderAssumption DEF Time, Instant, Never

(* The times of fires are finite sets with an earliest element.            *)
LEMMA TimesAreFinite ==
  ASSUME NEW S \in SUBSET Time
  PROVE  IsFiniteSet(S) /\ Cardinality(S) \in Nat
<1>1. IsFiniteSet(Time)
  BY Limits, FS_Interval DEF Time
<1> QED BY <1>1, FS_Subset, FS_CardinalityType

LEMMA EarliestIs ==
  ASSUME NEW S \in SUBSET Time, S # {}
  PROVE  Earliest(S) \in S /\ \A u \in S : Earliest(S) <= u
<1> DEFINE R == OpToRel(<, Nat)
<1>1. IsWellFoundedOn(R, Nat)
  BY NatLessThanWellFounded
<1>2. \A x, y \in Nat : <<y, x>> \in R <=> y < x
  BY DEF OpToRel
<1> HIDE DEF R
<1>3. S \subseteq Nat
  BY Limits
<1>4. PICK x \in S : \A y \in S : ~ (<<y, x>> \in R)
  BY <1>1, <1>3, WFMin
<1>5. ASSUME NEW y \in S PROVE x <= y
  <2>1. x \in Nat /\ y \in Nat
    BY <1>3
  <2>2. ~ (y < x)
    BY <1>2, <1>4, <2>1, Zenon
  <2> QED BY <2>1, <2>2
<1> QED BY <1>5 DEF Earliest

LEMMA RecentIs ==
  ASSUME NEW r \in Contents
  PROVE  /\ Recent(r) \subseteq r.recent /\ Recent(r) \subseteq Time
         /\ Cardinality(Recent(r)) \in 0 .. MaxFires
         /\ Cardinality(r.recent) \in 0 .. MaxFires
<1>1. r.recent \in SUBSET Time /\ Cardinality(r.recent) <= MaxFires
  BY DEF Contents, Content
<1>2. Recent(r) \in SUBSET r.recent
  BY DEF Recent
<1>3. Cardinality(Recent(r)) <= Cardinality(r.recent)
  BY <1>1, <1>2, TimesAreFinite, FS_Subset
<1>4. Cardinality(Recent(r)) \in Nat /\ Cardinality(r.recent) \in Nat
  BY <1>1, <1>2, TimesAreFinite
<1> QED BY <1>1, <1>2, <1>3, <1>4, Limits

\* A list with room for one more loses nothing.
LEMMA NewestIs ==
  ASSUME NEW r \in Contents, now \in Time
  PROVE  LET s == Newest(Recent(r) \union {now}) IN
         /\ s \subseteq Recent(r) \union {now} /\ Cardinality(s) <= MaxFires
         /\ Cardinality(Recent(r)) < MaxFires => s = Recent(r) \union {now}
<1> DEFINE S == Recent(r) \union {now}
<1>1. Recent(r) \in SUBSET Time /\ Cardinality(Recent(r)) \in 0 .. MaxFires
  BY RecentIs
<1>2. S \in SUBSET Time /\ S # {} /\ Cardinality(S) \in Nat
  BY <1>1, TimesAreFinite
<1>3. Cardinality(S) = IF now \in Recent(r) THEN Cardinality(Recent(r)) ELSE Cardinality(Recent(r)) + 1
  BY <1>1, TimesAreFinite, FS_AddElement
<1> HIDE DEF S
<1>4. Earliest(S) \in S
  BY <1>2, EarliestIs
<1>5. Cardinality(S \ {Earliest(S)}) = Cardinality(S) - 1
  BY <1>2, <1>4, TimesAreFinite, FS_RemoveElement
<1>6. /\ Newest(S) \subseteq S /\ Cardinality(Newest(S)) <= MaxFires
      /\ Cardinality(Recent(r)) < MaxFires => Newest(S) = S
  BY <1>1, <1>2, <1>3, <1>5, Limits DEF Newest
<1> QED BY <1>6 DEF S

(* What is written is a record, and keeps the rest of what was read.       *)
LEMMA PutOffIs ==
  ASSUME NEW r \in Contents, now \in Time, Recent(r) # {}
  PROVE  LET w == [r EXCEPT !.next = Earliest(Recent(r)) + Window, !.recent = Recent(r)] IN
         /\ w \in Contents /\ w.recent = Recent(r)
         /\ w.status = r.status /\ w.refs = r.refs /\ w.next > now
<1>1. Recent(r) \in SUBSET Time /\ Cardinality(Recent(r)) <= MaxFires
  BY RecentIs, Limits
<1>2. Earliest(Recent(r)) \in Recent(r)
  BY <1>1, EarliestIs
<1>3. Earliest(Recent(r)) + Window \in Instant /\ Earliest(Recent(r)) + Window > now
  <2> DEFINE e == Earliest(Recent(r))
  <2>1. e \in Time /\ now - e < Window
    BY <1>1, <1>2 DEF Recent
  <2> HIDE DEF e
  <2>2. e \in Nat /\ now \in Nat /\ Window \in Nat
    BY <2>1, Limits
  <2> QED BY <2>1, <2>2, Limits DEF e
<1> HIDE DEF Recent, Earliest
<1> QED BY <1>1, <1>3 DEF Contents, Content

LEMMA RecordedIs ==
  ASSUME NEW r \in Contents, now \in Time, NEW k \in Time
  PROVE  LET w == Recorded(r, k) IN
         /\ w \in Contents /\ w.recent \subseteq Recent(r) \union {now}
         /\ Cardinality(Recent(r)) < MaxFires => w.recent = Recent(r) \union {now}
         /\ w.status = r.status /\ w.refs = r.refs \union {k} /\ w.next = now + 1
<1> DEFINE s == Newest(Recent(r) \union {now})
<1>1. /\ s \subseteq Recent(r) \union {now} /\ Cardinality(s) <= MaxFires
      /\ Cardinality(Recent(r)) < MaxFires => s = Recent(r) \union {now}
  BY NewestIs
<1>2. Recorded(r, k) = [r EXCEPT !.next = now + 1, !.refs = @ \union {k}, !.recent = s]
  BY DEF Recorded
<1>3. s \in SUBSET Time /\ now + 1 \in Instant
  BY <1>1, RecentIs, Limits
<1> HIDE DEF s
<1>4. r \in Content
  BY DEF Contents
<1>5. Recorded(r, k).recent = s /\ Recorded(r, k) \in Content
  <2>1. r.refs \union {k} \in SUBSET Time
    BY <1>4 DEF Content
  <2> DEFINE f == r.refs \union {k}
  <2>2. Recorded(r, k) = [r EXCEPT !.next = now + 1, !.refs = f, !.recent = s]
    BY <1>2, <1>4 DEF Content
  <2> HIDE DEF f
  <2>3. f \in SUBSET Time
    BY <2>1 DEF f
  <2> QED BY <1>3, <1>4, <2>2, <2>3 DEF Content
<1>6. /\ Recorded(r, k).status = r.status /\ Recorded(r, k).refs = r.refs \union {k}
      /\ Recorded(r, k).next = now + 1
  BY <1>2, <1>4 DEF Content
<1> QED BY <1>1, <1>5, <1>6 DEF Contents

LEMMA NextRunIs == now \in Time => NextRun \in Instant /\ NextRun > now
<1> SUFFICES ASSUME now \in Time PROVE NextRun \in Instant /\ NextRun > now
  OBVIOUS
<1>1. now \in Nat /\ Cycle \in Nat \ {0}
  BY Limits
<1>2. now % Cycle \in 0 .. Cycle - 1
  BY <1>1
<1>3. now % Cycle <= now
  BY <1>1
<1> QED
  <2> DEFINE m == now % Cycle
  <2>1. NextRun = now - m + Cycle /\ m \in 0 .. Cycle - 1
    BY <1>2 DEF NextRun
  <2>2. m <= now
    BY <1>3
  <2> HIDE DEF m
  <2> QED BY <1>1, <2>1, <2>2, Limits DEF Time, Instant

LEMMA ChangedIs ==
  ASSUME NEW r \in Contents, now \in Time, NEW kind \in Button \union Helper
  PROVE  LET w == Changed(kind, r) IN
         /\ w \in Contents /\ w.recent = r.recent
         /\ w.next = r.next \/ w.next > now
<1>1. NextRun \in Instant /\ NextRun > now /\ now + Snooze \in Instant /\ now + Snooze > now
  BY NextRunIs, Limits
<1> HIDE DEF NextRun
<1>2. r \in Content /\ Cardinality(r.recent) <= MaxFires
  BY DEF Contents
<1>3. ASSUME NEW w, w \in {Completed(r), [r EXCEPT !.status = "deleted"], [r EXCEPT !.next = now + Snooze],
                           [r EXCEPT !.status = "active", !.next = now + Snooze], r}
      PROVE  w \in Contents /\ w.recent = r.recent /\ (w.next = r.next \/ w.next > now)
  BY <1>1, <1>2, <1>3 DEF Contents, Content, Completed
<1> QED BY <1>3 DEF Changed, Button, Helper

(***************************************************************************)
(* The shape of the state.                                                 *)
(***************************************************************************)
Memory ==
  [timers : SUBSET Instant, mapped : Instant \union {Never}, triggered : Time \union {Never},
   changed : BOOLEAN, read : [Reload -> {Idle} \union [pc : {"read"}, record : Contents]],
   enqueuing : SUBSET Time, dropped : BOOLEAN]

\* The watcher triggers what is due.
Sound(m) ==
  /\ m \in Memory /\ m.mapped \in m.timers \union {Never}
  /\ \A k \in m.enqueuing : k <= now

Fires ==
  {Idle} \union [pc : {"put off", "send", "sent", "record"}, key : Time, record : Contents]
Changings ==
  {Idle} \union [pc : {"write", "clean"}, kind : Button \union Helper, record : Contents]

ClockOK == now \in Time /\ changes \in 0 .. MaxChanges /\ faults \in 0 .. MaxFaults
BoxOK ==
  /\ box \in [Time -> {"none", "due", "done", "failed"}]
  /\ \A k \in Time : box[k] # "none" => k <= now
FireOK ==
  /\ fire \in Fires
  /\ fire # Idle => box[fire.key] = "due"
  /\ Firing("put off") => Recent(fire.record) # {}
HandOK == hand \in [Hand -> Changings]
PostsOK ==
  /\ message \in [Time -> {"none", "live", "off"}]
  /\ posts \subseteq [key : Time, at : Time] /\ \A p \in posts : p.at <= now
  /\ cut \subseteq Time /\ left \subseteq Time

Shape == ClockOK /\ file \in Contents /\ BoxOK /\ Sound(watcher) /\ FireOK /\ HandOK /\ PostsOK

LEMMA ShapeIsType == Shape => TypeOK
<1> SUFFICES ASSUME Shape PROVE TypeOK
  OBVIOUS
<1>1. file \in Content /\ Cardinality(file.recent) <= MaxFires
  BY DEF Shape, Contents
<1>2. fire = Idle \/ (fire.key \in Time /\ fire.record \in Content /\ box[fire.key] = "due")
  BY DEF Shape, FireOK, Fires, Contents
<1>3. \A h \in Hand : hand[h] = Idle \/ hand[h].record \in Content
  BY DEF Shape, HandOK, Changings, Contents
<1>4. watcher \in Memory
  BY DEF Shape, Sound
<1>5. \A i \in Reload : watcher.read[i] = Idle \/ watcher.read[i].record \in Content
  BY <1>4 DEF Memory, Contents
<1>6. /\ watcher.timers \subseteq Instant /\ watcher.enqueuing \subseteq Time
      /\ watcher.mapped \in watcher.timers \union {Never} /\ watcher.triggered \in Time \union {Never}
      /\ watcher.dropped \in BOOLEAN
  BY <1>4 DEF Shape, Sound, Memory
<1> QED BY <1>1, <1>2, <1>3, <1>5, <1>6 DEF Shape, TypeOK, ClockOK, BoxOK, PostsOK

LEMMA InitShape == Init => Shape
<1> SUFFICES ASSUME Init PROVE Shape
  OBVIOUS
<1>1. now \in Time /\ ClockOK /\ BoxOK /\ PostsOK
  BY Limits DEF Init, ClockOK, BoxOK, PostsOK, Time
<1>2. file \in Contents
  <2>1. \A first \in 0 .. 1, recurs \in BOOLEAN :
          New(first, recurs) \in Content /\ New(first, recurs).recent = {}
    BY Limits DEF New, Content, Instant
  <2>2. Cardinality({}) <= MaxFires
    BY FS_EmptySet, Limits
  <2>3. \E first \in 0 .. 1, recurs \in BOOLEAN : file = New(first, recurs)
    BY DEF Init
  <2> QED BY <2>1, <2>2, <2>3 DEF Contents
<1>3. Sound(watcher)
  BY DEF Init, Sound, Asleep, Memory
<1>4. FireOK
  BY DEF Init, FireOK, Fires, Firing
<1>5. HandOK
  BY DEF Init, HandOK, Changings
<1> QED BY <1>1, <1>2, <1>3, <1>4, <1>5 DEF Shape

LEMMA ClockStep == Shape /\ [Next]_vars => ClockOK'
<1> SUFFICES ASSUME Shape, [Next]_vars PROVE ClockOK'
  OBVIOUS
<1>1. now' = now \/ (now' = now + 1 /\ now < Horizon)
  BY DEF Next, vars, Tick, Start, Crash, Watching, BeginReload, EndReload, TimerFires, EnqueueReminder,
     Watch, Delivering, BeginFire, PutOff, Send, Reread, Record, SendFails, TargetMissing, FireFails,
     EnqueueFails, FireMisses, ReloadFails, BeginChange, WriteChange, CleanUp
<1>2. faults' = faults \/ (faults' = faults + 1 /\ faults < MaxFaults)
  BY DEF Next, vars, Tick, Start, Crash, Watching, BeginReload, EndReload, TimerFires, EnqueueReminder,
     Watch, Delivering, BeginFire, PutOff, Send, Reread, Record, SendFails, TargetMissing, FireFails,
     EnqueueFails, FireMisses, ReloadFails, BeginChange, WriteChange, CleanUp, Fault, NoFault
<1>3. changes' = changes \/ (changes' = changes + 1 /\ changes < MaxChanges)
  BY DEF Next, vars, Tick, Start, Crash, Watching, BeginReload, EndReload, TimerFires, EnqueueReminder,
     Watch, Delivering, BeginFire, PutOff, Send, Reread, Record, SendFails, TargetMissing, FireFails,
     EnqueueFails, FireMisses, ReloadFails, BeginChange, WriteChange, CleanUp
<1> QED BY <1>1, <1>2, <1>3, Limits DEF Shape, ClockOK, Time

LEMMA FileStep == Shape /\ [Next]_vars => file' \in Contents
<1> SUFFICES ASSUME Shape, [Next]_vars PROVE file' \in Contents
  OBVIOUS
<1>0. now \in Time /\ file \in Contents /\ FireOK /\ HandOK
  BY DEF Shape, ClockOK
<1>1. CASE PutOff
  <2>1. fire.record \in Contents /\ Recent(fire.record) # {}
    BY <1>0, <1>1 DEF PutOff, Firing, FireOK, Fires
  <2>2. file' = [fire.record EXCEPT !.next = Earliest(Recent(fire.record)) + Window,
                                    !.recent = Recent(fire.record)]
    BY <1>1 DEF PutOff, Write
  <2> QED BY <1>0, <2>1, <2>2, PutOffIs
<1>2. CASE Record
  <2>1. fire.record \in Contents /\ fire.key \in Time
    BY <1>0, <1>2 DEF Record, Firing, FireOK, Fires
  <2>2. file' = Recorded(fire.record, fire.key)
    BY <1>2 DEF Record, Write
  <2> QED BY <1>0, <2>1, <2>2, RecordedIs
<1>3. ASSUME NEW h \in Hand, WriteChange(h) PROVE file' \in Contents
  <2>1. hand[h].record \in Contents /\ hand[h].kind \in Button \union Helper
    BY <1>0, <1>3 DEF WriteChange, HandOK, Changings
  <2>2. file' = Changed(hand[h].kind, hand[h].record)
    BY <1>3 DEF WriteChange, Write
  <2> QED BY <1>0, <2>1, <2>2, ChangedIs
<1>4. CASE UNCHANGED file
  BY <1>0, <1>4
<1> QED
  BY <1>1, <1>2, <1>3, <1>4
  DEF Next, vars, Tick, Start, Crash, Watching, BeginReload, EndReload, TimerFires, EnqueueReminder,
     Watch, Delivering, BeginFire, Send, Reread, SendFails, TargetMissing, FireFails,
     EnqueueFails, FireMisses, ReloadFails, BeginChange, CleanUp

(* The watcher's memory.                                                   *)
LEMMA AsleepIsSound ==
  /\ Sound(Asleep) /\ Sound([Asleep EXCEPT !.changed = TRUE])
BY DEF Sound, Memory, Asleep

LEMMA ScheduledIsSound ==
  ASSUME NEW m, Sound(m), NEW k \in Instant, now \in Time
  PROVE  Sound(Scheduled(m, k))
<1>1. CASE k > now
  BY <1>1 DEF Scheduled, Sound, Memory
<1>2. CASE ~ (k > now) /\ m.triggered # k
  <2>1. k \in Time /\ k <= now
    BY <1>2, Limits
  <2> DEFINE f == m.enqueuing \union {k}
  <2>2. Scheduled(m, k) = [m EXCEPT !.triggered = k, !.enqueuing = f]
    BY <1>2 DEF Scheduled
  <2>3. f \in SUBSET Time /\ \A j \in f : j <= now
    BY <2>1 DEF Sound, Memory
  <2> HIDE DEF f
  <2>4. Scheduled(m, k) \in Memory /\ Scheduled(m, k).enqueuing = f
    BY <2>1, <2>2, <2>3 DEF Sound, Memory
  <2>5. Scheduled(m, k).mapped = m.mapped /\ Scheduled(m, k).timers = m.timers
    BY <2>2 DEF Sound, Memory
  <2> QED BY <2>3, <2>4, <2>5 DEF Sound
<1>3. CASE ~ (k > now) /\ m.triggered = k
  BY <1>3 DEF Scheduled
<1> QED BY <1>1, <1>2, <1>3

LEMMA WatcherStep == Shape /\ [Next]_vars => Sound(watcher)'
<1> SUFFICES ASSUME Shape, [Next]_vars PROVE Sound(watcher)'
  OBVIOUS
<1> USE DEF Sound
<1>0. now \in Time /\ file \in Contents /\ Sound(watcher) /\ watcher \in Memory
  BY DEF Shape, ClockOK
<1>1. CASE UNCHANGED watcher /\ UNCHANGED now
  BY <1>0, <1>1
<1>2. CASE Tick
  <2>1. UNCHANGED watcher /\ now' = now + 1
    BY <1>2 DEF Tick, watching
  <2>2. \A k \in watcher.enqueuing : k \in Nat /\ now \in Nat
    BY <1>0, Limits DEF Memory
  <2> QED BY <1>0, <2>1, <2>2
<1>3. CASE Start \/ Crash
  BY <1>3, AsleepIsSound DEF Start, Crash
<1>4. ASSUME NEW i \in Reload, BeginReload(i) PROVE Sound(watcher)'
  <2> DEFINE r == [pc |-> "read", record |-> file]
  <2>1. /\ UNCHANGED now
        /\ watcher' = [watcher EXCEPT !.changed = FALSE, !.timers = @ \ {watcher.mapped},
                           !.mapped = Never, !.dropped = FALSE, !.read[i] = r]
    BY <1>4 DEF BeginReload, Watch
  <2>2. r \in [pc : {"read"}, record : Contents]
    BY <1>0
  <2> HIDE DEF r
  <2> QED BY <1>0, <2>1, <2>2 DEF Memory
<1>5. ASSUME NEW i \in Reload, EndReload(i) PROVE Sound(watcher)'
  <2> DEFINE r == watcher.read[i].record
             done == [watcher EXCEPT !.read[i] = Idle]
  <2>1. /\ UNCHANGED now
        /\ watcher' = IF r.status = "active" THEN Scheduled(done, r.next)
                      ELSE [done EXCEPT !.triggered = Never]
    BY <1>5 DEF EndReload, Watch
  <2>2. r \in Contents /\ r.next \in Instant
    BY <1>0, <1>5 DEF EndReload, Memory, Contents, Content
  <2>3. Sound(done)
    BY <1>0 DEF Memory
  <2>4. Sound([done EXCEPT !.triggered = Never])
    BY <2>3 DEF Memory
  <2>5. Sound(Scheduled(done, r.next))
    BY <1>0, <2>2, <2>3, ScheduledIsSound
  <2> QED BY <2>1, <2>4, <2>5
<1>6. ASSUME NEW i \in Reload, ReloadFails(i) PROVE Sound(watcher)'
  <2>1. /\ UNCHANGED now
        /\ watcher' = [watcher EXCEPT !.read[i] = Idle, !.dropped = TRUE]
    BY <1>6 DEF ReloadFails, Watch
  <2> QED BY <1>0, <2>1 DEF Memory
<1>7. ASSUME NEW k \in Time, TimerFires(k) PROVE Sound(watcher)'
  <2>1. UNCHANGED now /\ watcher' = Scheduled(Fired(watcher, k), k)
    BY <1>7 DEF TimerFires, Watch
  <2>2. Sound(Fired(watcher, k))
    BY <1>0 DEF Fired, Memory
  <2> QED BY <1>0, <2>1, <2>2, ScheduledIsSound, Limits
<1>8. ASSUME NEW k \in Time, EnqueueReminder(k) PROVE Sound(watcher)'
  <2>1. UNCHANGED now /\ watcher' = [watcher EXCEPT !.enqueuing = @ \ {k}]
    BY <1>8 DEF EnqueueReminder, Watch
  <2> QED BY <1>0, <2>1 DEF Memory
<1>9. ASSUME NEW k \in Time, EnqueueFails(k) PROVE Sound(watcher)'
  <2>1. /\ UNCHANGED now
        /\ watcher' = [watcher EXCEPT !.enqueuing = @ \ {k}, !.timers = @ \union {k}, !.mapped = k,
                           !.triggered = IF @ = k THEN Never ELSE @]
    BY <1>9 DEF EnqueueFails, Watch
  <2> QED BY <1>0, <2>1, Limits DEF Memory
<1>10. ASSUME NEW r, NEW q, Write(r, q), UNCHANGED now PROVE Sound(watcher)'
  BY <1>0, <1>10 DEF Write, Memory
<1>11. CASE PutOff \/ Record \/ \E h \in Hand : WriteChange(h)
  BY <1>10, <1>11 DEF PutOff, Record, WriteChange
<1> QED
  BY <1>1, <1>2, <1>3, <1>4, <1>5, <1>6, <1>7, <1>8, <1>9, <1>11
  DEF Next, vars, watching, Watching, Delivering, BeginFire, Send, Reread, SendFails, TargetMissing,
      FireFails, FireMisses, BeginChange, CleanUp

(***************************************************************************)
(* The handler, and what it does to the outbox.                            *)
(***************************************************************************)
Underway(f) == f \in [pc : {"put off", "send", "sent", "record"}, key : Time, record : Contents]

LEMMA FireIs ==
  ASSUME FireOK
  PROVE  /\ fire # Idle => Underway(fire)
         /\ \A pc : Firing(pc) => fire # Idle /\ Underway(fire) /\ fire.pc = pc
         /\ fire # Idle => fire.pc \in {"put off", "send", "sent", "record"}
BY DEF FireOK, Fires, Underway, Firing

LEMMA EndsIs ==
  ASSUME FireOK, BoxOK, fire # Idle, NEW verdict \in {"due", "done", "failed"},
         FireEnds(verdict), now' = now
  PROVE  FireOK' /\ BoxOK'
<1>1. fire.key \in Time /\ box[fire.key] = "due"
  BY FireIs DEF FireOK, Underway
<1>2. fire' = Idle /\ box' = [box EXCEPT ![fire.key] = verdict]
  BY DEF FireEnds
<1>3. BoxOK'
  BY <1>1, <1>2 DEF BoxOK
<1>4. FireOK'
  BY <1>2 DEF FireOK, Fires, Firing, Idle
<1> QED BY <1>3, <1>4

LEMMA GoesIs ==
  ASSUME FireOK, fire # Idle, NEW pc \in {"send", "sent", "record"}, NEW r \in Contents,
         fire' = [fire EXCEPT !.pc = pc, !.record = r], UNCHANGED box
  PROVE  /\ FireOK' /\ Underway(fire') /\ fire' # Idle
         /\ fire'.key = fire.key /\ fire'.pc = pc /\ fire'.record = r
<1>1. Underway(fire) /\ box[fire.key] = "due"
  BY FireIs DEF FireOK
<1>2. Underway(fire') /\ fire'.key = fire.key /\ fire'.pc = pc /\ fire'.record = r
  BY <1>1 DEF Underway
<1>3. fire' # Idle
  BY <1>2 DEF Idle
<1> QED BY <1>1, <1>2, <1>3 DEF FireOK, Fires, Underway, Firing

LEMMA FireStep == Shape /\ [Next]_vars => FireOK' /\ BoxOK'
<1> SUFFICES ASSUME Shape, [Next]_vars PROVE FireOK' /\ BoxOK'
  OBVIOUS
<1>0. now \in Time /\ file \in Contents /\ FireOK /\ BoxOK /\ Sound(watcher)
  BY DEF Shape, ClockOK
<1>1. CASE UNCHANGED <<fire, box, now>>
  BY <1>0, <1>1 DEF FireOK, BoxOK, Firing, Recent
<1>2. CASE Tick
  <2>1. UNCHANGED <<fire, box>> /\ fire = Idle /\ now' = now + 1
    BY <1>2 DEF Tick
  <2>2. \A k \in Time : k \in Nat /\ now \in Nat
    BY <1>0, Limits
  <2>3. BoxOK'
    BY <1>0, <2>1, <2>2 DEF BoxOK
  <2>4. FireOK'
    BY <1>0, <2>1 DEF FireOK, Firing
  <2> QED BY <2>3, <2>4
<1>3. CASE Crash
  <2>1. UNCHANGED <<box, now>> /\ fire' = Idle
    BY <1>3 DEF Crash
  <2> QED BY <1>0, <2>1 DEF FireOK, Fires, Firing, BoxOK
<1>4. ASSUME NEW k \in Time, EnqueueReminder(k) PROVE FireOK' /\ BoxOK'
  <2>1. UNCHANGED <<fire, now>> /\ box' = [box EXCEPT ![k] = IF @ = "none" THEN "due" ELSE @] /\ k <= now
    BY <1>0, <1>4 DEF EnqueueReminder, Watch, Sound
  <2>2. BoxOK'
    BY <1>0, <2>1 DEF BoxOK
  <2>3. fire # Idle => fire.key \in Time
    BY <1>0, FireIs DEF Underway
  <2>4. FireOK'
    BY <1>0, <2>1, <2>3 DEF FireOK, BoxOK, Firing, Recent
  <2> QED BY <2>2, <2>4
<1>5. ASSUME NEW k \in Time, BeginFire(k) PROVE FireOK' /\ BoxOK'
  <2>1. fire = Idle /\ box[k] = "due" /\ UNCHANGED now
    BY <1>5 DEF BeginFire
  <2>2. CASE ~Current(file, k)
    <3>1. fire' = Idle /\ box' = [box EXCEPT ![k] = "done"]
      BY <1>5, <2>2 DEF BeginFire
    <3> QED BY <1>0, <2>1, <3>1 DEF FireOK, Fires, Firing, BoxOK, Idle
  <2>3. CASE Current(file, k)
    <3>1. /\ UNCHANGED box
          /\ fire' = [pc |-> IF Limited(file) THEN "put off" ELSE "send", key |-> k, record |-> file]
      BY <1>5, <2>3 DEF BeginFire, Fire
    <3>2. fire'.key = k /\ fire'.record = file /\ fire'.pc = (IF Limited(file) THEN "put off" ELSE "send")
      BY <3>1
    <3>3. fire' \in Fires
      BY <1>0, <3>1 DEF Fires
    <3>4. Limited(file) => Recent(file) # {}
      BY FS_EmptySet, Limits DEF Limited
    <3>5. Recent(fire.record)' = Recent(file)
      BY <2>1, <3>2 DEF Recent
    <3>6. BoxOK'
      BY <1>0, <2>1, <3>1 DEF BoxOK
    <3>7. Firing("put off")' => Limited(file)
      BY <3>2 DEF Firing
    <3>8. Firing("put off")' => Recent(fire.record)' # {}
      BY <3>4, <3>5, <3>7
    <3>9. box'[fire'.key] = "due"
      BY <2>1, <3>1, <3>2
    <3> QED BY <3>3, <3>6, <3>8, <3>9 DEF FireOK
  <2> QED BY <2>2, <2>3
<1>6. CASE Send
  <2>1. fire # Idle /\ fire' = [fire EXCEPT !.pc = "sent"] /\ UNCHANGED <<box, now>>
    BY <1>6 DEF Send, FireGoes, Firing
  <2>2. fire.record \in Contents /\ fire' = [fire EXCEPT !.pc = "sent", !.record = fire.record]
    BY <1>0, <2>1, FireIs DEF Underway
  <2> QED BY <1>0, <2>1, <2>2, GoesIs DEF BoxOK
<1>7. CASE Reread /\ Current(file, fire.key)
  <2>1. fire # Idle /\ fire' = [fire EXCEPT !.pc = "record", !.record = file] /\ UNCHANGED <<box, now>>
    BY <1>7 DEF Reread, Firing
  <2> QED BY <1>0, <2>1, GoesIs DEF BoxOK
<1>8. ASSUME NEW k \in Time, FireMisses(k), fire = Idle PROVE FireOK' /\ BoxOK'
  <2>1. UNCHANGED <<fire, now>> /\ box[k] = "due" /\ box' = [box EXCEPT ![k] = "done"]
    BY <1>8 DEF FireMisses, Firing
  <2> QED BY <1>0, <1>8, <2>1 DEF FireOK, Fires, Firing, BoxOK, Idle
<1>9. CASE \/ PutOff \/ SendFails \/ TargetMissing \/ FireFails \/ Record
           \/ Reread /\ ~Current(file, fire.key)
           \/ \E k \in Time : FireMisses(k) /\ fire # Idle
  <2>1. fire # Idle /\ now' = now /\ \E verdict \in {"due", "done", "failed"} : FireEnds(verdict)
    BY <1>9 DEF PutOff, SendFails, TargetMissing, FireFails, Record, Reread, FireMisses, Firing
  <2> QED BY <1>0, <2>1, EndsIs
<1> QED
  BY <1>1, <1>2, <1>3, <1>4, <1>5, <1>6, <1>7, <1>8, <1>9
  DEF Next, vars, Start, Watching, BeginReload, EndReload, TimerFires, Watch, Delivering,
     EnqueueFails, ReloadFails, BeginChange, WriteChange, CleanUp

LEMMA HandStep == Shape /\ [Next]_vars => HandOK'
<1> SUFFICES ASSUME Shape, [Next]_vars PROVE HandOK'
  OBVIOUS
<1>0. file \in Contents /\ HandOK
  BY DEF Shape
<1>1. ASSUME NEW h \in Hand, NEW kind \in Button \union Helper, BeginChange(h, kind) PROVE HandOK'
  <2> DEFINE c == [pc |-> "write", kind |-> kind, record |-> file]
  <2>1. hand' = [hand EXCEPT ![h] = c]
    BY <1>1 DEF BeginChange
  <2>2. c \in Changings
    BY <1>0 DEF Changings
  <2> HIDE DEF c
  <2> QED BY <1>0, <2>1, <2>2 DEF HandOK
<1>2. ASSUME NEW h \in Hand, WriteChange(h) PROVE HandOK'
  <2>1. hand[h] \in [pc : {"write", "clean"}, kind : Button \union Helper, record : Contents]
    BY <1>0, <1>2 DEF WriteChange, HandOK, Changings
  <2>2. [hand[h] EXCEPT !.pc = "clean"] \in Changings /\ Idle \in Changings
    BY <2>1 DEF Changings
  <2>3. hand' = [hand EXCEPT ![h] = [hand[h] EXCEPT !.pc = "clean"]] \/ hand' = [hand EXCEPT ![h] = Idle]
    BY <1>2 DEF WriteChange
  <2> QED BY <1>0, <2>2, <2>3 DEF HandOK
<1>3. ASSUME NEW h \in Hand, CleanUp(h) PROVE HandOK'
  BY <1>0, <1>3 DEF CleanUp, HandOK, Changings
<1>4. CASE Crash
  <2>1. hand' = [h \in Hand |-> IF hand[h] # Idle /\ hand[h].kind \in Button THEN Idle ELSE hand[h]]
    BY <1>4 DEF Crash
  <2> QED BY <1>0, <2>1 DEF HandOK, Changings
<1>5. CASE UNCHANGED hand
  BY <1>0, <1>5 DEF HandOK
<1> QED
  BY <1>1, <1>2, <1>3, <1>4, <1>5
  DEF Next, vars, Tick, Start, Watching, BeginReload, EndReload, TimerFires, EnqueueReminder,
     Watch, Delivering, BeginFire, PutOff, Send, Reread, Record, SendFails, TargetMissing, FireFails,
     EnqueueFails, FireMisses, ReloadFails

\* What a step does to the messages: it posts that of the handler's key, or takes some away.
Posts == fire # Idle /\ fire.pc = "send" /\ Post(fire.key) /\ message' # message
Withdraws ==
  /\ posts' \subseteq posts
  /\ message' \in [Time -> {"none", "live", "off"}]
  /\ \A k \in Time : message'[k] = message[k] \/ message'[k] = "off"

LEMMA PostShape ==
  ASSUME Shape, [Next]_vars
  PROVE  Posts \/ Withdraws
<1>0. message \in [Time -> {"none", "live", "off"}] /\ FireOK
  BY DEF Shape, PostsOK
<1>1. CASE UNCHANGED <<message, posts>>
  BY <1>0, <1>1 DEF Withdraws
<1>2. CASE Withdraw /\ fire # Idle
  <2>1. fire.key \in Time
    BY <1>0, <1>2, FireIs DEF Underway
  <2> QED BY <1>0, <1>2, <2>1 DEF Withdraw, Withdraws
<1>3. ASSUME NEW h \in Hand, CleanUp(h) PROVE Withdraws
  <2>1. UNCHANGED posts /\ \E failed : message' =
          [k \in Time |-> IF k \in hand[h].record.refs \ failed THEN "off" ELSE message[k]]
    BY <1>3 DEF CleanUp
  <2> QED BY <1>0, <2>1 DEF Withdraws
<1>4. CASE (Send \/ SendFails) /\ Post(fire.key)
  <2>1. fire # Idle /\ fire.pc = "send"
    BY <1>4 DEF Send, SendFails, Firing
  <2>2. CASE message[fire.key] = "none"
    <3>1. fire.key \in Time /\ message'[fire.key] = "live"
      BY <1>0, <1>4, <2>1, <2>2, FireIs DEF Post, Underway
    <3> QED BY <1>4, <2>1, <2>2, <3>1 DEF Posts
  <2>3. CASE message[fire.key] # "none"
    BY <1>1, <1>4, <2>3 DEF Post
  <2> QED BY <2>2, <2>3
<1> QED
  BY <1>1, <1>2, <1>3, <1>4
  DEF Next, vars, observers, Tick, Start, Crash, Watching, BeginReload, EndReload, TimerFires,
     EnqueueReminder, Watch, Delivering, BeginFire, PutOff, Send, Reread, Record, SendFails, TargetMissing, FireFails,
     EnqueueFails, FireMisses, ReloadFails, BeginChange, WriteChange, Firing

(* What was posted stays in the past.                                      *)
LEMMA PostsStep == Shape /\ [Next]_vars => PostsOK'
<1> SUFFICES ASSUME Shape, [Next]_vars PROVE PostsOK'
  OBVIOUS
<1>0. PostsOK /\ FireOK /\ now \in Time /\ now' \in Time
  BY ClockStep DEF Shape, ClockOK
<1>1. now' = now \/ now' = now + 1
  BY DEF Next, vars, Tick, Start, Crash, Watching, BeginReload, EndReload, TimerFires, EnqueueReminder,
     Watch, Delivering, BeginFire, PutOff, Send, Reread, Record, SendFails, TargetMissing, FireFails,
     EnqueueFails, FireMisses, ReloadFails, BeginChange, WriteChange, CleanUp
<1>2. now <= now' /\ \A p \in posts : p.at <= now'
  <2>1. \A p \in posts : p.at \in Nat /\ p.at <= now /\ now \in Nat /\ now' \in Nat
    BY <1>0, Limits DEF PostsOK
  <2>2. now \in Nat /\ now' \in Nat
    BY <1>0, Limits
  <2> QED BY <1>1, <2>1, <2>2
<1>a. cut' \subseteq Time /\ left' \subseteq Time
  <2>1. fire # Idle => fire.key \in Time
    BY <1>0, FireIs DEF Underway
  <2>2. \A h \in Hand : Cleaning(h) => hand[h].record.refs \subseteq Time
    BY DEF Shape, HandOK, Changings, Cleaning, Contents, Content
  <2>3. CASE UNCHANGED left
    BY <1>0, <2>1, <2>3
    DEF Next, vars, observers, Tick, Start, Crash, Watching, BeginReload, EndReload, TimerFires,
      EnqueueReminder, Watch, Delivering, BeginFire, PutOff, Send, Reread, Record, SendFails, TargetMissing,
      FireFails, EnqueueFails, FireMisses, ReloadFails, BeginChange, WriteChange, CleanUp, Firing, PostsOK
  <2>4. CASE Crash
    BY <1>0, <2>1, <2>2, <2>4 DEF Crash, Firing, PostsOK
  <2>5. CASE \E h \in Hand : CleanUp(h)
    BY <1>0, <2>2, <2>5 DEF CleanUp, PostsOK
  <2> QED
    BY <2>3, <2>4, <2>5
    DEF Next, vars, observers, Tick, Start, Watching, BeginReload, EndReload, TimerFires,
      EnqueueReminder, Watch, Delivering, BeginFire, PutOff, Send, Reread, Record, SendFails, TargetMissing,
      FireFails, EnqueueFails, FireMisses, ReloadFails, BeginChange, WriteChange
<1>3. CASE Withdraws
  BY <1>0, <1>2, <1>3, <1>a DEF Withdraws, PostsOK
<1>4. CASE Posts
  <2>1. fire.key \in Time
    BY <1>0, <1>4, FireIs DEF Posts, Underway
  <2>2. /\ message' = [message EXCEPT ![fire.key] = "live"]
        /\ posts' = posts \union {[key |-> fire.key, at |-> now]}
    BY <1>4 DEF Posts, Post
  <2>3. message' \in [Time -> {"none", "live", "off"}]
    BY <1>0, <2>1, <2>2 DEF PostsOK
  <2>4. posts' \subseteq [key : Time, at : Time] /\ \A p \in posts' : p.at <= now'
    BY <1>0, <1>2, <2>1, <2>2 DEF PostsOK
  <2> QED BY <1>a, <2>3, <2>4 DEF PostsOK
<1> QED BY <1>3, <1>4, PostShape

LEMMA ShapeStep == Shape /\ [Next]_vars => Shape'
BY ClockStep, FileStep, WatcherStep, FireStep, HandStep, PostsStep DEF Shape

(***************************************************************************)
(* The limit. The list in the file holds every recent post, but for that   *)
(* of the fire under way, which is not recorded yet.                       *)
(***************************************************************************)
UnderWay(p) == fire # Idle /\ fire.pc \in {"sent", "record"} /\ p = [key |-> fire.key, at |-> now]

ListIsPast == \A t \in file.recent : t <= now /\ t < file.next
RoomIsLeft ==
  fire # Idle => /\ \A t \in file.recent : t < fire.key
                 /\ fire.pc # "put off" => Cardinality(Recent(file)) < MaxFires
PostsAreListed == \A p \in posts : now - p.at < Window => p.at \in file.recent \/ UnderWay(p)
PostsAreApart == \A p, q \in posts : p.at = q.at => p = q
PostsAreLimited == \A p \in posts : Cardinality(Within(p.at)) <= MaxFires

Listed ==
  \/ raced \/ cut # {}
  \/ ListIsPast /\ RoomIsLeft /\ PostsAreListed /\ PostsAreApart /\ PostsAreLimited

(* Posts at different times are no more than the times.                    *)
LEMMA PostsAreFew ==
  ASSUME NEW S, NEW T \in SUBSET Time, \A p \in S : p.at \in T,
         \A p, q \in S : p.at = q.at => p = q
  PROVE  IsFiniteSet(S) /\ Cardinality(S) \in Nat /\ Cardinality(S) <= Cardinality(T)
<1> DEFINE f == [p \in S |-> p.at]
<1>1. f \in Injection(S, T)
  BY DEF Injection, IsInjective
<1>2. IsFiniteSet(T)
  BY TimesAreFinite
<1> QED BY <1>1, <1>2, FS_Injection, FS_CardinalityType

(* A message is posted only where the list leaves room, and the windows    *)
(* that it falls into hold, of the posts, nothing but what is on the list. *)
LEMMA PostStep ==
  ASSUME Shape, ListIsPast, RoomIsLeft, PostsAreListed, PostsAreApart, PostsAreLimited,
         fire # Idle, fire.pc = "send",
         posts' = posts \union {[key |-> fire.key, at |-> now]}
  PROVE  PostsAreApart' /\ PostsAreLimited'
<1> DEFINE new == [key |-> fire.key, at |-> now]
<1>0. /\ now \in Nat /\ Window \in Nat \ {0} /\ MaxFires \in Nat \ {0} /\ now \in Time
      /\ posts \subseteq [key : Time, at : Time] /\ \A p \in posts : p.at \in Nat /\ p.at <= now
  BY Limits DEF Shape, ClockOK, PostsOK
<1>1. fire.key \in Nat /\ fire.key <= now
  BY FireIs, Limits DEF Shape, FireOK, BoxOK, Underway
<1>2. \A t \in file.recent : t \in Nat /\ t < now
  <2>1. \A t \in file.recent : t \in Nat /\ t < fire.key
    BY Limits DEF RoomIsLeft, Shape, Contents, Content
  <2> QED BY <1>0, <1>1, <2>1
<1>3. \A p \in posts : now - p.at < Window => p.at \in Recent(file)
  BY DEF PostsAreListed, UnderWay, Recent
<1>4. \A p \in posts : p.at < now
  <2> SUFFICES ASSUME NEW p \in posts, ~ (p.at < now) PROVE FALSE
    OBVIOUS
  <2>1. p.at = now
    BY <1>0
  <2>2. p.at \in file.recent
    BY <1>0, <1>3, <2>1 DEF Recent
  <2> QED BY <1>0, <1>2, <2>1, <2>2
<1>5. PostsAreApart'
  <2> SUFFICES ASSUME NEW p \in posts', NEW q \in posts', p.at = q.at PROVE p = q
    BY DEF PostsAreApart
  <2>1. \A r \in posts' : r \in posts \/ (r = new /\ r.at = now)
    OBVIOUS
  <2>2. \A r \in posts : r.at # now
    BY <1>0, <1>4
  <2> QED BY <2>1, <2>2 DEF PostsAreApart
<1>6. ASSUME NEW p \in posts' PROVE Cardinality(Within(p.at)') <= MaxFires
  <2> DEFINE W == {r \in posts' : p.at <= r.at /\ r.at < p.at + Window}
  <2>0. Within(p.at)' = W
    BY DEF Within
  <2>1. CASE p = new
    <3>1. W = {new}
      BY <1>0, <1>4, <2>1
    <3> HIDE DEF W, new
    <3>2. Cardinality(W) = 1
      BY <3>1, FS_Singleton
    <3> QED BY <1>0, <2>0, <3>2
  <2>2. CASE p \in posts /\ p.at + Window <= now
    <3>1. W = Within(p.at)
      BY <1>0, <2>2 DEF Within
    <3> QED BY <2>0, <2>2, <3>1 DEF PostsAreLimited
  <2>3. CASE p \in posts /\ now < p.at + Window
    <3>1. \A r \in Within(p.at) : r.at \in Recent(file)
      <4> SUFFICES ASSUME NEW r \in Within(p.at) PROVE r.at \in Recent(file)
        OBVIOUS
      <4>1. r \in posts /\ p.at <= r.at
        BY DEF Within
      <4>2. now - r.at < Window
        BY <1>0, <2>3, <4>1
      <4> QED BY <1>3, <4>1, <4>2
    <3>2. Recent(file) \in SUBSET Time /\ Cardinality(Recent(file)) \in Nat
      BY RecentIs DEF Shape
    <3>3. Cardinality(Recent(file)) < MaxFires
      BY DEF RoomIsLeft
    <3>4. \A r, q \in Within(p.at) : r.at = q.at => r = q
      BY DEF Within, PostsAreApart
    <3>5. /\ IsFiniteSet(Within(p.at)) /\ Cardinality(Within(p.at)) \in Nat
          /\ Cardinality(Within(p.at)) <= Cardinality(Recent(file))
      BY <3>1, <3>2, <3>4, PostsAreFew
    <3>6. W = Within(p.at) \union {new}
      BY <1>0, <2>3 DEF Within
    <3> HIDE DEF W, new
    <3>7. Cardinality(W) \in {Cardinality(Within(p.at)), Cardinality(Within(p.at)) + 1}
      BY <3>5, <3>6, FS_AddElement
    <3>8. Cardinality(W) \in Nat
      BY <3>5, <3>6, FS_AddElement, FS_CardinalityType
    <3> QED BY <1>0, <2>0, <3>2, <3>3, <3>5, <3>7, <3>8
  <2> QED BY <1>0, <2>1, <2>2, <2>3
<1> QED BY <1>5, <1>6 DEF PostsAreLimited

(* Without a lost write, what a write rests on is still in the file.       *)
LEMMA Remains ==
  ASSUME [Next]_vars
  PROVE  (raced => raced') /\ cut \subseteq cut' /\ left \subseteq left' /\ (loose => loose')
<1>1. raced => raced'
  BY Zenon
  DEF Next, vars, observers, Tick, Start, Crash, Watching, BeginReload, EndReload, TimerFires,
     EnqueueReminder, Watch, Delivering, BeginFire, PutOff, Send, Reread, Record, SendFails, TargetMissing, FireFails,
     EnqueueFails, FireMisses, ReloadFails, BeginChange, WriteChange, CleanUp, Write
<1>2. cut \subseteq cut' /\ left \subseteq left'
  BY
  DEF Next, vars, observers, Tick, Start, Crash, Watching, BeginReload, EndReload, TimerFires,
     EnqueueReminder, Watch, Delivering, BeginFire, PutOff, Send, Reread, Record, SendFails, TargetMissing, FireFails,
     EnqueueFails, FireMisses, ReloadFails, BeginChange, WriteChange, CleanUp, Write
<1>3. loose => loose'
  BY Zenon
  DEF Next, vars, observers, Tick, Start, Crash, Watching, BeginReload, EndReload, TimerFires,
     EnqueueReminder, Watch, Delivering, BeginFire, PutOff, Send, Reread, Record, SendFails, TargetMissing, FireFails,
     EnqueueFails, FireMisses, ReloadFails, BeginChange, WriteChange, CleanUp, Write
<1> QED BY <1>1, <1>2, <1>3

LEMMA ListedStep == Shape /\ Listed /\ [Next]_vars => Listed'
<1> SUFFICES ASSUME Shape, Listed, [Next]_vars, ~raced', cut' = {} PROVE Listed'
  BY DEF Listed
<1> DEFINE All == ListIsPast /\ RoomIsLeft /\ PostsAreListed /\ PostsAreApart /\ PostsAreLimited
<1>0. /\ ~raced /\ cut = {} /\ All
      /\ now \in Time /\ file \in Contents /\ FireOK /\ HandOK
      /\ posts \subseteq [key : Time, at : Time] /\ now \in Nat /\ Window \in Nat \ {0}
  BY Remains, Limits DEF Listed, Shape, ClockOK, PostsOK
<1>a. file.recent \in SUBSET Time /\ (\A t \in file.recent : t \in Nat) /\ file.next \in Nat
  BY <1>0, Limits DEF Contents, Content
<1>b. \A p \in posts : p.at \in Nat
  BY <1>0, Limits
<1> SUFFICES ListIsPast' /\ RoomIsLeft' /\ PostsAreListed' /\ PostsAreApart' /\ PostsAreLimited'
  BY DEF Listed
<1>1. CASE UNCHANGED <<file, fire, posts, now>>
  BY <1>0, <1>1 DEF ListIsPast, RoomIsLeft, PostsAreListed, PostsAreApart, PostsAreLimited,
      Recent, Within, UnderWay
<1>2. CASE Tick
  <2>1. UNCHANGED <<file, fire, posts>> /\ now' = now + 1 /\ fire = Idle
    BY <1>2 DEF Tick, observers
  <2>2. ListIsPast' /\ RoomIsLeft'
    BY <1>0, <1>a, <2>1 DEF ListIsPast, RoomIsLeft
  <2>3. PostsAreListed'
    BY <1>0, <1>b, <2>1 DEF PostsAreListed, UnderWay
  <2>4. PostsAreApart' /\ PostsAreLimited'
    BY <1>0, <2>1 DEF PostsAreApart, PostsAreLimited, Within
  <2> QED BY <2>2, <2>3, <2>4
\* The fire ends with nothing to record.
<1>3. ASSUME UNCHANGED <<file, posts, now>>, fire' = Idle, ~Firing("sent"), ~Firing("record")
      PROVE  All'
  BY <1>0, <1>3 DEF ListIsPast, RoomIsLeft, PostsAreListed, PostsAreApart, PostsAreLimited,
      Recent, Within, UnderWay, Firing
<1>4. CASE Crash \/ FireFails \/ TargetMissing \/ SendFails
  <2>1. CASE SendFails
    <3>1. UNCHANGED <<file, now>> /\ fire' = Idle /\ Firing("send") /\ UNCHANGED message
      BY <1>0, <2>1 DEF SendFails, FireEnds
    <3>2. UNCHANGED posts
      <4>1. CASE Post(fire.key) /\ message[fire.key] = "none"
        <5>1. message' = [message EXCEPT ![fire.key] = "live"] /\ fire.key \in Time
          BY <1>0, <3>1, <4>1, FireIs DEF Post, Underway
        <5>2. message'[fire.key] = "live"
          BY <5>1 DEF Shape, PostsOK
        <5> QED BY <3>1, <4>1, <5>2
      <4> QED BY <2>1, <4>1 DEF SendFails, Post
    <3> QED BY <1>3, <3>1, <3>2 DEF Firing
  <2>2. CASE Crash
    BY <1>0, <1>3, <2>2 DEF Crash
  <2>3. CASE FireFails \/ TargetMissing
    BY <1>0, <1>3, <2>3 DEF FireFails, TargetMissing, FireEnds, observers, Firing
  <2> QED BY <1>4, <2>1, <2>2, <2>3
<1>5. ASSUME NEW k \in Time, BeginFire(k) PROVE All'
  <2>1. fire = Idle /\ UNCHANGED <<file, posts, now>>
    BY <1>5 DEF BeginFire, observers
  <2>2. CASE fire' = Idle
    BY <1>0, <2>1, <2>2 DEF ListIsPast, RoomIsLeft, PostsAreListed, PostsAreApart, PostsAreLimited,
        Within, UnderWay
  <2>3. CASE fire' # Idle
    <3>1. /\ file.next = k
          /\ fire' = [pc |-> IF Limited(file) THEN "put off" ELSE "send", key |-> k, record |-> file]
      BY <1>5, <2>1, <2>3 DEF BeginFire, Fire, Current
    <3>2. fire'.key = k /\ (fire'.pc # "put off" => ~Limited(file))
      BY <3>1
    <3>3. Cardinality(Recent(file)) \in Nat
      BY <1>0, RecentIs
    <3>4. ~Limited(file) => Cardinality(Recent(file)) < MaxFires
      BY <3>3, Limits DEF Limited
    <3>5. RoomIsLeft'
      BY <1>0, <2>1, <3>1, <3>2, <3>4 DEF RoomIsLeft, ListIsPast, Recent
    <3>6. ListIsPast' /\ PostsAreListed' /\ PostsAreApart' /\ PostsAreLimited'
      BY <1>0, <2>1 DEF ListIsPast, PostsAreListed, PostsAreApart, PostsAreLimited, Within, UnderWay
    <3> QED BY <3>5, <3>6
  <2> QED BY <2>2, <2>3
<1>6. CASE Send
  <2>1. /\ Firing("send") /\ Post(fire.key) /\ UNCHANGED <<file, now>>
        /\ fire' = [fire EXCEPT !.pc = "sent"]
    BY <1>6 DEF Send, FireGoes
  <2>2. fire # Idle /\ fire.pc = "send" /\ Underway(fire)
    BY <1>0, <2>1, FireIs
  <2>3. fire'.key = fire.key /\ fire'.pc = "sent" /\ fire' # Idle
    BY <2>1, <2>2 DEF Underway, Idle
  <2>4. ListIsPast' /\ RoomIsLeft'
    BY <1>0, <2>1, <2>2, <2>3 DEF ListIsPast, RoomIsLeft, Recent
  <2>5. CASE UNCHANGED posts
    <3>1. PostsAreListed'
      BY <1>0, <2>1, <2>2, <2>5 DEF PostsAreListed, UnderWay
    <3>2. PostsAreApart' /\ PostsAreLimited'
      BY <1>0, <2>5 DEF PostsAreApart, PostsAreLimited, Within
    <3> QED BY <2>4, <3>1, <3>2
  <2>6. CASE posts' = posts \union {[key |-> fire.key, at |-> now]}
    <3>1. PostsAreListed'
      <4>1. \A p \in posts : now - p.at < Window => p.at \in file.recent
        BY <1>0, <2>2 DEF PostsAreListed, UnderWay
      <4> QED BY <2>1, <2>3, <2>6, <4>1 DEF PostsAreListed, UnderWay
    <3>2. PostsAreApart' /\ PostsAreLimited'
      BY <1>0, <2>2, <2>6, PostStep
    <3> QED BY <2>4, <3>1, <3>2
  <2> QED BY <2>1, <2>5, <2>6 DEF Post
<1>7. CASE Reread /\ Current(file, fire.key)
  <2>1. /\ Firing("sent") /\ UNCHANGED <<file, now, posts>>
        /\ fire' = [fire EXCEPT !.pc = "record", !.record = file]
    BY <1>7 DEF Reread
  <2>2. fire # Idle /\ fire.pc = "sent" /\ Underway(fire)
    BY <1>0, <2>1, FireIs
  <2>3. fire'.key = fire.key /\ fire'.pc = "record" /\ fire' # Idle
    BY <2>1, <2>2 DEF Underway, Idle
  <2>4. ListIsPast' /\ RoomIsLeft'
    BY <1>0, <2>1, <2>2, <2>3 DEF ListIsPast, RoomIsLeft, Recent
  <2>5. PostsAreListed'
    BY <1>0, <2>1, <2>2, <2>3 DEF PostsAreListed, UnderWay
  <2>6. PostsAreApart' /\ PostsAreLimited'
    BY <1>0, <2>1 DEF PostsAreApart, PostsAreLimited, Within
  <2> QED BY <2>4, <2>5, <2>6
\* What is withdrawn does not count.
<1>8. ASSUME Firing("sent"), Withdraw, fire' = Idle, UNCHANGED <<file, now>>
      PROVE  All'
  <2>1. posts' = {p \in posts : p.key # fire.key} /\ fire # Idle /\ fire.pc = "sent"
    BY <1>8 DEF Withdraw, Firing
  <2>2. ListIsPast' /\ RoomIsLeft'
    BY <1>0, <1>8 DEF ListIsPast, RoomIsLeft
  <2>3. PostsAreListed'
    BY <1>0, <1>8, <2>1 DEF PostsAreListed, UnderWay
  <2>4. PostsAreApart'
    BY <1>0, <2>1 DEF PostsAreApart
  <2>5. ASSUME NEW p \in posts' PROVE Cardinality(Within(p.at)') <= MaxFires
    <3> DEFINE W == {r \in posts' : p.at <= r.at /\ r.at < p.at + Window}
    <3>0. Within(p.at)' = W
      BY DEF Within
    <3>1. p \in posts /\ W \in SUBSET Within(p.at)
      BY <2>1 DEF Within
    <3>2. IsFiniteSet(Within(p.at)) /\ Cardinality(Within(p.at)) \in Nat
      <4>1. (\A r \in Within(p.at) : r.at \in Time) /\ \A r, q \in Within(p.at) : r.at = q.at => r = q
        BY <1>0 DEF Within, PostsAreApart
      <4> QED BY <4>1, PostsAreFew
    <3>3. Cardinality(Within(p.at)) <= MaxFires
      BY <1>0, <3>1 DEF PostsAreLimited
    <3> HIDE DEF W
    <3>4. Cardinality(W) \in Nat /\ Cardinality(W) <= Cardinality(Within(p.at))
      BY <3>1, <3>2, FS_Subset, FS_CardinalityType
    <3> QED BY <3>0, <3>2, <3>3, <3>4, Limits
  <2> QED BY <2>2, <2>3, <2>4, <2>5 DEF PostsAreLimited
<1>9. CASE \/ Reread /\ ~Current(file, fire.key)
           \/ \E k \in Time : FireMisses(k)
  <2>1. CASE Reread /\ ~Current(file, fire.key)
    BY <1>8, <2>1 DEF Reread, FireEnds
  <2>2. ASSUME NEW k \in Time, FireMisses(k) PROVE All'
    <3>1. CASE Firing("sent") /\ Withdraw /\ FireEnds("done")
      BY <1>8, <2>2, <3>1 DEF FireMisses, FireEnds
    <3>2. CASE UNCHANGED <<fire, message, posts>>
      BY <1>1, <2>2, <3>2 DEF FireMisses
    <3> QED BY <2>2, <3>1, <3>2 DEF FireMisses
  <2> QED BY <1>9, <2>1, <2>2
<1>10. CASE PutOff
  <2> DEFINE r == fire.record
  <2>1. /\ Firing("put off") /\ fire' = Idle /\ UNCHANGED <<posts, now>> /\ r = file
        /\ file' = [r EXCEPT !.next = Earliest(Recent(r)) + Window, !.recent = Recent(r)]
    BY <1>0, <1>10 DEF PutOff, FireEnds, Write
  <2>2. Recent(r) # {}
    BY <1>0, <2>1 DEF FireOK
  <2>3. file'.recent = Recent(file) /\ file'.next > now
    BY <1>0, <2>1, <2>2, PutOffIs
  <2>4. file' \in Contents
    BY FileStep
  <2>5. ListIsPast'
    <3>1. file'.next \in Nat
      BY <2>4, Limits DEF Contents, Content
    <3>2. \A t \in file'.recent : t \in Nat /\ t <= now
      BY <1>0, <1>a, <2>3 DEF ListIsPast, Recent
    <3>3. \A t \in file'.recent : t < file'.next
      BY <1>0, <2>3, <3>1, <3>2
    <3>4. now' = now
      BY <2>1
    <3> QED BY <3>2, <3>3, <3>4 DEF ListIsPast
  <2>6. RoomIsLeft'
    BY <2>1 DEF RoomIsLeft
  <2>7. PostsAreListed'
    BY <1>0, <2>1, <2>3 DEF PostsAreListed, UnderWay, Recent, Firing
  <2>8. PostsAreApart' /\ PostsAreLimited'
    BY <1>0, <2>1 DEF PostsAreApart, PostsAreLimited, Within
  <2> QED BY <2>5, <2>6, <2>7, <2>8
<1>11. CASE Record
  <2>1. /\ Firing("record") /\ fire' = Idle /\ UNCHANGED <<posts, now>> /\ fire.record = file
        /\ file' = Recorded(file, fire.key)
    BY <1>0, <1>11 DEF Record, FireEnds, Write
  <2>2. fire # Idle /\ fire.pc = "record" /\ fire.key \in Time
    BY <1>0, <2>1, FireIs DEF Underway
  <2>3. file'.recent = Recent(file) \union {now} /\ file'.next = now + 1
    BY <1>0, <2>1, <2>2, RecordedIs DEF RoomIsLeft
  <2>4. ListIsPast'
    BY <1>0, <1>a, <2>1, <2>3 DEF ListIsPast, Recent
  <2>5. RoomIsLeft'
    BY <2>1 DEF RoomIsLeft
  <2>6. PostsAreListed'
    BY <1>0, <2>1, <2>3 DEF PostsAreListed, UnderWay, Recent
  <2>7. PostsAreApart' /\ PostsAreLimited'
    BY <1>0, <2>1 DEF PostsAreApart, PostsAreLimited, Within
  <2> QED BY <2>4, <2>5, <2>6, <2>7
<1>12. ASSUME NEW h \in Hand, WriteChange(h) PROVE All'
  <2>1. /\ UNCHANGED <<fire, posts, now>> /\ hand[h].record = file
        /\ file' = Changed(hand[h].kind, file)
    BY <1>0, <1>12 DEF WriteChange, Write
  <2>2. hand[h].kind \in Button \union Helper
    BY <1>0, <1>12 DEF WriteChange, HandOK, Changings
  <2>3. file'.recent = file.recent /\ (file'.next = file.next \/ file'.next > now)
    BY <1>0, <2>1, <2>2, ChangedIs
  <2>4. file'.next \in Nat
    BY FileStep, Limits DEF Contents, Content
  <2>5. ListIsPast'
    BY <1>0, <1>a, <2>1, <2>3, <2>4 DEF ListIsPast
  <2>6. RoomIsLeft'
    BY <1>0, <2>1, <2>3 DEF RoomIsLeft, Recent
  <2>7. PostsAreListed'
    BY <1>0, <2>1, <2>3 DEF PostsAreListed, UnderWay
  <2>8. PostsAreApart' /\ PostsAreLimited'
    BY <1>0, <2>1 DEF PostsAreApart, PostsAreLimited, Within
  <2> QED BY <2>5, <2>6, <2>7, <2>8
<1> QED
  BY <1>1, <1>2, <1>4, <1>5, <1>6, <1>7, <1>9, <1>10, <1>11, <1>12
  DEF Next, vars, observers, Start, Watching, BeginReload, EndReload, TimerFires, EnqueueReminder,
     Watch, Delivering, EnqueueFails, ReloadFails, BeginChange, CleanUp

(***************************************************************************)
(* The messages. A live message is named by the record, or by someone who  *)
(* is about to see to it.                                                  *)
(***************************************************************************)
InFile(k) == file.status = "active" /\ k \in file.refs
InFire(k) == fire # Idle /\ fire.pc \in {"sent", "record"} /\ k = fire.key
InHand(h, k) == hand[h] # Idle /\ hand[h].pc = "clean" /\ k \in hand[h].record.refs
Tracked(k) == InFile(k) \/ InFire(k) \/ \E h \in Hand : InHand(h, k)

RecordsActive == Firing("record") => fire.record.status = "active"
MessagesAreTracked == \A k \in Time \ (cut \union left) : message[k] = "live" => Tracked(k)
AllTracked == RecordsActive /\ (raced \/ loose \/ MessagesAreTracked)

LEMMA RecordsActiveStep == Shape /\ RecordsActive /\ [Next]_vars => RecordsActive'
<1> SUFFICES ASSUME Shape, RecordsActive, [Next]_vars PROVE RecordsActive'
  OBVIOUS
<1>0. FireOK
  BY DEF Shape
<1>1. CASE UNCHANGED fire \/ fire' = Idle
  BY <1>1 DEF RecordsActive, Firing
<1>2. ASSUME NEW k \in Time, BeginFire(k), fire' # Idle PROVE RecordsActive'
  <2>1. fire' = [pc |-> IF Limited(file) THEN "put off" ELSE "send", key |-> k, record |-> file]
    BY <1>2 DEF BeginFire, Fire
  <2> QED BY <2>1 DEF RecordsActive, Firing
<1>3. CASE Send
  <2>1. fire' = [fire EXCEPT !.pc = "sent"] /\ Underway(fire)
    BY <1>0, <1>3, FireIs DEF Send, FireGoes
  <2> QED BY <2>1 DEF RecordsActive, Firing, Underway
<1>4. CASE Reread /\ Current(file, fire.key)
  <2>1. fire' = [fire EXCEPT !.pc = "record", !.record = file] /\ Underway(fire) /\ file.status = "active"
    BY <1>0, <1>4, FireIs DEF Reread, Current
  <2> QED BY <2>1 DEF RecordsActive, Underway
<1> QED
  BY <1>1, <1>2, <1>3, <1>4
  DEF Next, vars, Tick, Start, Crash, Watching, BeginReload, EndReload, TimerFires, EnqueueReminder,
     Watch, Delivering, PutOff, Reread, Record, SendFails, TargetMissing, FireFails, FireEnds,
     EnqueueFails, FireMisses, ReloadFails, BeginChange, WriteChange, CleanUp

LEMMA TrackedStep == Shape /\ AllTracked /\ [Next]_vars => AllTracked'
<1> SUFFICES ASSUME Shape, AllTracked, [Next]_vars, ~raced', ~loose' PROVE MessagesAreTracked'
  BY RecordsActiveStep DEF AllTracked
<1>0. /\ ~raced /\ ~loose /\ MessagesAreTracked /\ RecordsActive
      /\ cut \subseteq cut' /\ left \subseteq left'
      /\ now \in Time /\ file \in Contents /\ FireOK /\ HandOK
      /\ message \in [Time -> {"none", "live", "off"}]
  BY Remains DEF AllTracked, Shape, ClockOK, PostsOK
<1>1. CASE UNCHANGED <<file, fire, hand, message>>
  BY <1>0, <1>1 DEF MessagesAreTracked, Tracked, InFile, InFire, InHand
<1>2. ASSUME UNCHANGED <<file, hand, message>>, ~Firing("sent"), ~Firing("record")
      PROVE  MessagesAreTracked'
  BY <1>0, <1>2 DEF MessagesAreTracked, Tracked, InFile, InFire, InHand, Firing
<1>3. CASE Crash
  <2>1. UNCHANGED <<file, message>>
    BY <1>3 DEF Crash
  <2>2. \A k : InFire(k) => k \in cut'
    BY <1>3 DEF Crash, InFire, Firing
  <2>3. \A k, h : h \in Hand /\ InHand(h, k) => k \in left'
    BY <1>3 DEF Crash, InHand, Cleaning
  <2> QED BY <1>0, <2>1, <2>2, <2>3 DEF MessagesAreTracked, Tracked, InFile
<1>4. CASE FireFails \/ TargetMissing
  <2>1. CASE TargetMissing \/ (FireFails /\ Firing("put off"))
    BY <1>2, <2>1 DEF FireFails, TargetMissing, observers, Firing
  <2>2. CASE FireFails /\ ~Firing("put off")
    <3>1. UNCHANGED <<file, message, hand>> /\ \A k : InFire(k) => k \in cut'
      BY <2>2 DEF FireFails, InFire
    <3> QED BY <1>0, <3>1 DEF MessagesAreTracked, Tracked, InFile, InHand
  <2> QED BY <1>4, <2>1, <2>2
\* What a send that failed has posted is the message of a fire cut short.
<1>5. CASE SendFails
  <2>1. UNCHANGED <<file, hand>> /\ Firing("send")
    BY <1>5 DEF SendFails
  <2>2. \A k \in Time \ cut' : message'[k] = message[k]
    BY <1>0, <1>5 DEF SendFails, Post
  <2> QED BY <1>0, <2>1, <2>2 DEF MessagesAreTracked, Tracked, InFile, InFire, InHand, Firing
<1>6. ASSUME NEW k \in Time, BeginFire(k) PROVE MessagesAreTracked'
  BY <1>2, <1>6 DEF BeginFire, observers, Firing
<1>7. CASE Send
  <2>1. Firing("send") /\ Post(fire.key) /\ UNCHANGED <<file, hand>> /\ fire' = [fire EXCEPT !.pc = "sent"]
    BY <1>7 DEF Send, FireGoes
  <2>2. Underway(fire) /\ fire # Idle /\ fire.pc = "send"
    BY <1>0, <2>1, FireIs
  <2>3. fire'.key = fire.key /\ fire'.pc = "sent" /\ fire' # Idle
    BY <2>1, <2>2 DEF Underway, Idle
  <2>4. \A k \in Time : k # fire.key => message'[k] = message[k]
    BY <1>0, <2>1 DEF Post
  <2>5. ASSUME NEW k \in Time \ (cut' \union left'), message'[k] = "live" PROVE Tracked(k)'
    <3>1. CASE k = fire.key
      BY <2>3, <3>1 DEF Tracked, InFire
    <3>2. CASE k # fire.key
      <4>1. InFile(k) \/ \E h \in Hand : InHand(h, k)
        BY <1>0, <2>2, <2>4, <2>5, <3>2 DEF MessagesAreTracked, Tracked, InFire
      <4> QED BY <2>1, <4>1 DEF Tracked, InFile, InHand
    <3> QED BY <3>1, <3>2
  <2> QED BY <2>5 DEF MessagesAreTracked
<1>8. CASE Reread /\ Current(file, fire.key)
  <2>1. /\ Firing("sent") /\ UNCHANGED <<file, hand, message>>
        /\ fire' = [fire EXCEPT !.pc = "record", !.record = file]
    BY <1>8 DEF Reread
  <2>2. Underway(fire) /\ fire # Idle
    BY <1>0, <2>1, FireIs
  <2>3. fire'.key = fire.key /\ fire'.pc = "record" /\ fire' # Idle
    BY <2>1, <2>2 DEF Underway, Idle
  <2> QED BY <1>0, <2>1, <2>3 DEF MessagesAreTracked, Tracked, InFile, InFire, InHand
\* The message is withdrawn.
<1>9. ASSUME Firing("sent"), Withdraw, UNCHANGED <<file, hand>> PROVE MessagesAreTracked'
  <2>1. fire.key \in Time /\ message' = [message EXCEPT ![fire.key] = "off"]
    BY <1>0, <1>9, FireIs DEF Withdraw, Underway
  <2>2. \A k \in Time : message'[k] = "live" => k # fire.key /\ message[k] = "live"
    BY <1>0, <2>1
  <2> QED BY <1>0, <1>9, <2>2 DEF MessagesAreTracked, Tracked, InFile, InFire, InHand
<1>10. CASE \/ Reread /\ ~Current(file, fire.key)
            \/ \E k \in Time : FireMisses(k)
  <2>1. CASE Reread /\ ~Current(file, fire.key)
    BY <1>9, <2>1 DEF Reread
  <2>2. ASSUME NEW k \in Time, FireMisses(k) PROVE MessagesAreTracked'
    <3>1. CASE Firing("sent") /\ Withdraw
      BY <1>9, <2>2, <3>1 DEF FireMisses
    <3>2. CASE UNCHANGED <<fire, message, posts>>
      BY <1>1, <2>2, <3>2 DEF FireMisses
    <3> QED BY <2>2, <3>1, <3>2 DEF FireMisses
  <2> QED BY <1>10, <2>1, <2>2
<1>11. CASE PutOff
  <2> DEFINE r == fire.record
  <2>1. /\ Firing("put off") /\ UNCHANGED <<hand, message>> /\ r = file
        /\ file' = [r EXCEPT !.next = Earliest(Recent(r)) + Window, !.recent = Recent(r)]
    BY <1>0, <1>11 DEF PutOff, Write
  <2>2. Recent(r) # {}
    BY <1>0, <2>1 DEF FireOK
  <2>3. file'.status = file.status /\ file'.refs = file.refs
    BY <1>0, <2>1, <2>2, PutOffIs
  <2> QED BY <1>0, <2>1, <2>3 DEF MessagesAreTracked, Tracked, InFile, InFire, InHand, Firing
\* The file names the message from here on.
<1>12. CASE Record
  <2>1. /\ Firing("record") /\ UNCHANGED <<hand, message>> /\ fire.record = file
        /\ file' = Recorded(file, fire.key)
    BY <1>0, <1>12 DEF Record, Write
  <2>2. fire # Idle /\ fire.key \in Time /\ file.status = "active"
    BY <1>0, <2>1, FireIs DEF Underway, RecordsActive
  <2>3. file'.status = "active" /\ file'.refs = file.refs \union {fire.key}
    BY <1>0, <2>1, <2>2, RecordedIs
  <2> QED BY <1>0, <2>1, <2>2, <2>3 DEF MessagesAreTracked, Tracked, InFile, InFire, InHand
<1>13. ASSUME NEW h \in Hand, NEW kind \in Button \union Helper, BeginChange(h, kind)
       PROVE  MessagesAreTracked'
  <2>1. /\ hand[h] = Idle /\ UNCHANGED <<file, fire, message>>
        /\ hand' = [hand EXCEPT ![h] = [pc |-> "write", kind |-> kind, record |-> file]]
    BY <1>13 DEF BeginChange
  <2>2. \A k, g : g \in Hand /\ InHand(g, k) => InHand(g, k)'
    BY <1>0, <2>1 DEF InHand, HandOK
  <2> QED BY <1>0, <2>1, <2>2 DEF MessagesAreTracked, Tracked, InFile, InFire
\* The button that handles the reminder keeps what the record named.
<1>14. ASSUME NEW h \in Hand, WriteChange(h) PROVE MessagesAreTracked'
  <2> DEFINE c == [hand[h] EXCEPT !.pc = "clean"]
  <2>1. /\ hand[h] # Idle /\ hand[h].pc = "write" /\ UNCHANGED <<fire, message>>
        /\ hand[h].record = file /\ hand[h].kind \notin Helper
        /\ hand' = [hand EXCEPT ![h] = IF hand[h].kind \in Button THEN c ELSE Idle]
    BY <1>0, <1>14 DEF WriteChange, Write
  <2>2. hand[h] \in [pc : {"write", "clean"}, kind : Button \union Helper, record : Contents]
    BY <1>0, <2>1 DEF HandOK, Changings
  <2>3. hand' = [hand EXCEPT ![h] = c]
    BY <2>1, <2>2
  <2>4. c.pc = "clean" /\ c.record = file /\ c # Idle
    BY <2>1, <2>2 DEF Idle
  <2> HIDE DEF c
  <2>5. \A k, g : g \in Hand /\ InHand(g, k) => InHand(g, k)'
    BY <1>0, <2>1, <2>3 DEF InHand, HandOK
  <2>6. \A k : InFile(k) => InHand(h, k)'
    BY <1>0, <2>3, <2>4 DEF InFile, InHand, HandOK
  <2> QED BY <1>0, <2>1, <2>5, <2>6 DEF MessagesAreTracked, Tracked, InFire
<1>15. ASSUME NEW h \in Hand, CleanUp(h) PROVE MessagesAreTracked'
  <2>1. UNCHANGED <<file, fire>> /\ hand' = [hand EXCEPT ![h] = Idle]
    BY <1>15 DEF CleanUp
  <2>2. \A k \in Time \ left' : message'[k] = "live" => message[k] = "live" /\ ~InHand(h, k)
    BY <1>15 DEF CleanUp, InHand
  <2>3. \A k, g : g \in Hand \ {h} /\ InHand(g, k) => InHand(g, k)'
    BY <1>0, <2>1 DEF InHand, HandOK
  <2> QED BY <1>0, <2>1, <2>2, <2>3 DEF MessagesAreTracked, Tracked, InFile, InFire
<1> QED
  BY <1>1, <1>3, <1>4, <1>5, <1>6, <1>7, <1>8, <1>10, <1>11, <1>12, <1>13, <1>14, <1>15
  DEF Next, vars, Tick, Start, Watching, BeginReload, EndReload, TimerFires, EnqueueReminder,
     Watch, Delivering, EnqueueFails, ReloadFails

(***************************************************************************)
(* The theorems.                                                           *)
(***************************************************************************)
LEMMA InitListedAndTracked == Init => Listed /\ AllTracked
<1> SUFFICES ASSUME Init PROVE Listed /\ AllTracked
  OBVIOUS
<1>1. file.recent = {}
  BY DEF Init, New
<1> QED
  BY <1>1 DEF Init, Listed, ListIsPast, RoomIsLeft, PostsAreListed, PostsAreApart, PostsAreLimited,
              AllTracked, RecordsActive, MessagesAreTracked, Firing

(* The inductive invariant.                                                *)
THEOREM Invariance == Spec => [](Shape /\ Listed /\ AllTracked)
<1>1. Init => Shape /\ Listed /\ AllTracked
  BY InitShape, InitListedAndTracked
<1>2. Shape /\ Listed /\ AllTracked /\ [Next]_vars => (Shape /\ Listed /\ AllTracked)'
  BY ShapeStep, ListedStep, TrackedStep
<1> QED BY <1>1, <1>2, PTL DEF Spec

(* In no window are there more posts than the limit, and no two at a time, *)
(* unless a write was lost or a fire was cut short after its message.      *)
THEOREM FiresStayLimited == Spec => []FiresAreLimited
<1>1. Shape /\ Listed => FiresAreLimited
  BY ShapeIsType DEF FiresAreLimited, Listed, PostsAreApart, PostsAreLimited
<1> QED BY <1>1, Invariance, PTL

(* At rest, every live message is named by the active record.              *)
THEOREM LiveMessagesTracked == Spec => []LiveMessagesAreTracked
<1>1. Shape /\ AllTracked => LiveMessagesAreTracked
  BY DEF AllTracked, LiveMessagesAreTracked, AtRest, MessagesAreTracked, Tracked, InFile, InFire, InHand
<1> QED BY <1>1, Invariance, PTL

(***************************************************************************)
(* What the watcher is bound to do.                                        *)
(***************************************************************************)

\* The time that was triggered last is on its way to the outbox, or there.
TriggeredOK ==
  \A k \in Time : watcher.triggered = k => k \in watcher.enqueuing \/ box[k] # "none"

\* A reload holds the record, or its time has a timer, is being enqueued, or was.
Bound ==
  \/ \E i \in Reload : watcher.read[i] # Idle /\ watcher.read[i].record = file
  \/ file.next \in watcher.timers \union watcher.enqueuing
  \/ file.next \in Time /\ box[file.next] # "none"

(* The safety half of DueReminderFires: an active reminder is never        *)
(* forgotten. Once the watcher has taken note of the last change, either a *)
(* reload holds the reminder's present record, or its time has a timer, is *)
(* being enqueued, or is in the outbox, however many reloads overlap and   *)
(* whatever they have read: but for a reload that could not read the file  *)
(* and none begun since.                                                   *)
ActiveIsBound ==
  up /\ ~watcher.changed /\ ~watcher.dropped /\ file.status = "active" => Bound

\* The file and the outbox forget nothing behind the watcher's back.
LEMMA OthersKeepBound ==
  ASSUME Shape, TriggeredOK, ActiveIsBound, [Next]_vars,
         ~ Start, ~ Crash, ~ Watching, \A i \in Reload : ~ ReloadFails(i),
         \A k \in Time : ~ EnqueueFails(k)
  PROVE  TriggeredOK' /\ ActiveIsBound'
<1>1. \A k \in Time : box[k] # "none" => box'[k] # "none"
  <2>1. \/ UNCHANGED box
        \/ \E k \in Time, verdict \in {"due", "done", "failed"} : box' = [box EXCEPT ![k] = verdict]
    <3>1. fire # Idle => fire.key \in Time
      BY DEF Shape, FireOK, Fires
    <3> QED
      BY <3>1
      DEF Next, vars, Tick, Delivering, BeginFire, PutOff, Send, Reread, Record, SendFails,
         TargetMissing, FireFails, FireMisses, FireEnds, Firing, BeginChange, WriteChange, CleanUp
  <2> QED BY <2>1 DEF Shape, BoxOK
<1>2. \/ UNCHANGED <<watcher, file, up>>
      \/ UNCHANGED up /\ watcher' = IF up THEN [watcher EXCEPT !.changed = TRUE] ELSE watcher
  BY DEF Next, vars, watching, Tick, Delivering, BeginFire, PutOff, Send, Reread, Record, SendFails,
     TargetMissing, FireFails, FireMisses, Write, BeginChange, WriteChange, CleanUp
<1>3. watcher \in Memory
  BY DEF Shape, Sound
<1>4. TriggeredOK'
  BY <1>1, <1>2, <1>3 DEF TriggeredOK, Memory
<1>5. ActiveIsBound'
  BY <1>1, <1>2, <1>3 DEF ActiveIsBound, Bound, Memory
<1> QED BY <1>4, <1>5

\* #schedule binds the watcher to a time, and releases it from none.
LEMMA ScheduledBinds ==
  ASSUME NEW m \in Memory, NEW k \in Instant, now \in Time,
         \A j \in Time : m.triggered = j => j \in m.enqueuing \/ box[j] # "none"
  PROVE  LET n == Scheduled(m, k) IN
         /\ n.read = m.read /\ n.changed = m.changed /\ n.dropped = m.dropped
         /\ m.timers \subseteq n.timers /\ m.enqueuing \subseteq n.enqueuing
         /\ \A j \in Time : n.triggered = j => j \in n.enqueuing \/ box[j] # "none"
         /\ k \in n.timers \union n.enqueuing \/ (k \in Time /\ box[k] # "none")
<1>1. CASE k > now
  BY <1>1, Limits DEF Scheduled, Memory
<1>2. CASE ~ (k > now)
  <2>1. k \in Time
    BY <1>2, Limits
  <2> QED BY <1>2, <2>1 DEF Scheduled, Memory
<1> QED BY <1>1, <1>2

LEMMA BoundStep ==
  Shape /\ TriggeredOK /\ ActiveIsBound /\ [Next]_vars => TriggeredOK' /\ ActiveIsBound'
<1> SUFFICES ASSUME Shape, TriggeredOK, ActiveIsBound, [Next]_vars
             PROVE  TriggeredOK' /\ ActiveIsBound'
  OBVIOUS
<1>0. /\ watcher \in Memory /\ now \in Time /\ file \in Contents /\ Time \subseteq Instant
      /\ \A k \in watcher.enqueuing : k \in Time
  BY Limits DEF Shape, Sound, ClockOK, Memory
<1>1. CASE Start \/ Crash
  BY <1>1 DEF Start, Crash, Asleep, TriggeredOK, ActiveIsBound, Never, Time
<1>2. ASSUME NEW i \in Reload, BeginReload(i) PROVE TriggeredOK' /\ ActiveIsBound'
  <2> DEFINE r == [pc |-> "read", record |-> file]
  <2>1. /\ watcher' = [watcher EXCEPT !.changed = FALSE, !.timers = @ \ {watcher.mapped},
                           !.mapped = Never, !.dropped = FALSE, !.read[i] = r]
        /\ UNCHANGED <<file, up, box>>
    BY <1>2 DEF BeginReload, Watch
  <2>2. r # Idle /\ r.record = file
    BY DEF Idle
  <2> HIDE DEF r
  <2>3. watcher'.read[i] = r /\ UNCHANGED <<watcher.triggered, watcher.enqueuing>>
    BY <1>0, <2>1 DEF Memory
  <2> QED BY <2>1, <2>2, <2>3 DEF TriggeredOK, ActiveIsBound, Bound
<1>3. ASSUME NEW i \in Reload, EndReload(i) PROVE TriggeredOK' /\ ActiveIsBound'
  <2> DEFINE r == watcher.read[i].record
             done == [watcher EXCEPT !.read[i] = Idle]
  <2>1. /\ watcher' = IF r.status = "active" THEN Scheduled(done, r.next)
                      ELSE [done EXCEPT !.triggered = Never]
        /\ watcher.read[i] # Idle /\ UNCHANGED <<now, file, up, box>>
    BY <1>3 DEF EndReload, Watch
  <2>2. r.next \in Instant
    BY <1>0, <2>1 DEF Memory, Contents, Content
  <2>3. /\ done \in Memory /\ done.timers = watcher.timers /\ done.enqueuing = watcher.enqueuing
        /\ done.triggered = watcher.triggered /\ done.changed = watcher.changed
        /\ done.dropped = watcher.dropped
        /\ \A j \in Reload \ {i} : done.read[j] = watcher.read[j]
    BY <1>0 DEF Memory
  <2> HIDE DEF done
  <2>4. CASE r.status = "active"
    <3>1. \A j \in Time : done.triggered = j => j \in done.enqueuing \/ box[j] # "none"
      BY <2>3 DEF TriggeredOK
    <3> DEFINE n == Scheduled(done, r.next)
    <3>2. /\ n.read = done.read /\ n.changed = done.changed /\ n.dropped = done.dropped
          /\ done.timers \subseteq n.timers /\ done.enqueuing \subseteq n.enqueuing
          /\ \A j \in Time : n.triggered = j => j \in n.enqueuing \/ box[j] # "none"
          /\ r.next \in n.timers \union n.enqueuing \/ (r.next \in Time /\ box[r.next] # "none")
      BY <1>0, <2>2, <2>3, <3>1, ScheduledBinds
    <3>3. watcher' = n
      BY <2>1, <2>4
    <3> HIDE DEF n
    <3>4. TriggeredOK'
      BY <2>1, <3>2, <3>3 DEF TriggeredOK
    <3>5. Bound => Bound'
      <4>1. CASE r = file
        BY <2>1, <3>2, <3>3, <4>1 DEF Bound
      <4>2. ASSUME NEW j \in Reload \ {i}, watcher.read[j] # Idle, watcher.read[j].record = file
            PROVE  Bound'
        <5>1. watcher'.read = done.read
          BY <3>2, <3>3
        <5>2. done.read[j] = watcher.read[j]
          BY <2>3, <4>2
        <5>3. watcher'.read[j] # Idle /\ watcher'.read[j].record = file' /\ j \in Reload
          BY <2>1, <4>2, <5>1, <5>2
        <5> QED BY <5>3 DEF Bound
      <4>3. CASE \/ file.next \in watcher.timers \union watcher.enqueuing
                 \/ file.next \in Time /\ box[file.next] # "none"
        BY <2>1, <2>3, <3>2, <3>3, <4>3 DEF Bound
      <4> QED BY <4>1, <4>2, <4>3 DEF Bound
    <3>6. watcher'.changed = watcher.changed /\ watcher'.dropped = watcher.dropped
      BY <2>3, <3>2, <3>3
    <3> QED BY <2>1, <3>4, <3>5, <3>6 DEF ActiveIsBound
  <2>5. CASE r.status # "active"
    <3>1. /\ watcher'.triggered = Never /\ watcher'.timers = watcher.timers
          /\ watcher'.enqueuing = watcher.enqueuing /\ watcher'.changed = watcher.changed
          /\ watcher'.dropped = watcher.dropped /\ watcher'.read = done.read
      BY <2>1, <2>3, <2>5 DEF Memory
    <3> QED BY <2>1, <2>3, <2>5, <3>1, Limits DEF TriggeredOK, ActiveIsBound, Bound
  <2> QED BY <2>4, <2>5
<1>4. ASSUME NEW i \in Reload, ReloadFails(i) PROVE TriggeredOK' /\ ActiveIsBound'
  <2>1. watcher' = [watcher EXCEPT !.read[i] = Idle, !.dropped = TRUE] /\ UNCHANGED box
    BY <1>4 DEF ReloadFails, Watch
  <2> QED BY <1>0, <2>1 DEF TriggeredOK, ActiveIsBound, Memory
<1>5. ASSUME NEW k \in Time, TimerFires(k) PROVE TriggeredOK' /\ ActiveIsBound'
  <2> DEFINE m == Fired(watcher, k)
             n == Scheduled(m, k)
  <2>1. watcher' = n /\ UNCHANGED <<now, file, up, box>>
    BY <1>5 DEF TimerFires, Watch
  <2>2. /\ m \in Memory /\ m.timers = watcher.timers \ {k} /\ m.enqueuing = watcher.enqueuing
        /\ m.triggered = watcher.triggered /\ m.changed = watcher.changed
        /\ m.dropped = watcher.dropped /\ m.read = watcher.read
    BY <1>0 DEF Fired, Memory
  <2> HIDE DEF m
  <2>3. \A j \in Time : m.triggered = j => j \in m.enqueuing \/ box[j] # "none"
    BY <2>2 DEF TriggeredOK
  <2>4. /\ n.read = m.read /\ n.changed = m.changed /\ n.dropped = m.dropped
        /\ m.timers \subseteq n.timers /\ m.enqueuing \subseteq n.enqueuing
        /\ \A j \in Time : n.triggered = j => j \in n.enqueuing \/ box[j] # "none"
        /\ k \in n.timers \union n.enqueuing \/ (k \in Time /\ box[k] # "none")
    BY <1>0, <2>2, <2>3, ScheduledBinds
  <2> HIDE DEF n
  <2> QED BY <2>1, <2>2, <2>4 DEF TriggeredOK, ActiveIsBound, Bound
<1>6. ASSUME NEW k \in Time, EnqueueReminder(k) PROVE TriggeredOK' /\ ActiveIsBound'
  <2>1. /\ watcher' = [watcher EXCEPT !.enqueuing = @ \ {k}] /\ UNCHANGED <<file, up>>
        /\ box' = [box EXCEPT ![k] = IF @ = "none" THEN "due" ELSE @]
    BY <1>6 DEF EnqueueReminder, Watch
  <2>2. box'[k] # "none" /\ \A j \in Time : j # k => box'[j] = box[j]
    BY <2>1 DEF Shape, BoxOK
  <2>3. /\ watcher'.enqueuing = watcher.enqueuing \ {k} /\ watcher'.timers = watcher.timers
        /\ watcher'.triggered = watcher.triggered /\ watcher'.changed = watcher.changed
        /\ watcher'.dropped = watcher.dropped /\ watcher'.read = watcher.read
    BY <1>0, <2>1 DEF Memory
  <2> QED BY <2>1, <2>2, <2>3 DEF TriggeredOK, ActiveIsBound, Bound
<1>7. ASSUME NEW k \in Time, EnqueueFails(k) PROVE TriggeredOK' /\ ActiveIsBound'
  <2>1. /\ watcher' = [watcher EXCEPT !.enqueuing = @ \ {k}, !.timers = @ \union {k}, !.mapped = k,
                           !.triggered = IF @ = k THEN Never ELSE @]
        /\ UNCHANGED <<file, up, box>>
    BY <1>7 DEF EnqueueFails, Watch
  <2>2. /\ watcher'.enqueuing = watcher.enqueuing \ {k}
        /\ watcher'.timers = watcher.timers \union {k}
        /\ watcher'.triggered = IF watcher.triggered = k THEN Never ELSE watcher.triggered
        /\ watcher'.changed = watcher.changed /\ watcher'.dropped = watcher.dropped
        /\ watcher'.read = watcher.read
    BY <1>0, <2>1 DEF Memory
  <2> QED BY <2>1, <2>2, Limits DEF TriggeredOK, ActiveIsBound, Bound
<1> QED
  BY <1>1, <1>2, <1>3, <1>4, <1>5, <1>6, <1>7, OthersKeepBound DEF Watching

(* An active reminder is never forgotten, for any number of reloads that   *)
(* overlap, of hands, changes and faults.                                  *)
THEOREM ActiveRemindersBound == Spec => []ActiveIsBound
<1>1. Init => TriggeredOK /\ ActiveIsBound
  BY DEF Init, Asleep, TriggeredOK, ActiveIsBound, Never, Time
<1>2. TriggeredOK /\ ActiveIsBound /\ Shape /\ [Next]_vars => (TriggeredOK /\ ActiveIsBound)'
  BY BoundStep
<1>3. Spec => []Shape
  BY Invariance, PTL
<1> QED BY <1>1, <1>2, <1>3, PTL DEF Spec

(***************************************************************************)
(* Events.  The invariant follows one look at the file: as long as two     *)
(* reloads have not overlapped, a reload finds nothing armed when it ends  *)
(* (Alone), and what it has read is the file unless the watcher was told   *)
(* of a change since, and owes another look (Follows).  A trigger carries  *)
(* the occurrence of its event for as long as it is under way (KindsOK),   *)
(* so that one that failed is known by its retry.                          *)
(***************************************************************************)
\* What a trigger fires for: a tick of its cron, or the one time of its event.
Dated(t) ==
  IF t.event.kind = "periodic" THEN t.occurrence \in EventTime \X Late
  ELSE t.occurrence = OccurrenceOf(t.event)

KindsOK == \A t \in firing : Dated(t)

Alone ==
  ~overlapped =>
    /\ \A s \in Armed : s \in mapped
    /\ \A s, r \in Armed : s = r
    /\ \A i, j \in Look : read[i] # NoLook => Armed = {} /\ (read[j] # NoLook => i = j)

\* What the file says is scheduled, or under way.
EventScheduled ==
  /\ \A s \in Armed : armed[s].event = event
  /\ event # NoEvent /\ Armed = {} =>
       event.kind # "periodic" /\ \E t \in firing : t.occurrence = OccurrenceOf(event)

Follows ==
  IsWatching /\ notices = {} /\ ~overlapped /\ ~unread =>
    /\ \A i \in Look : read[i] # NoLook => read[i] = [seen |-> {event}]
    /\ (\A i \in Look : read[i] = NoLook) => EventScheduled


(* The type invariant by parts; the records are known field by field.      *)
NoticesOK ==
  /\ clock \in EventTime /\ event \in Event \union {NoEvent}
  /\ recorded \in [Occurrence -> Event \union {NoEvent}]
  /\ bot \in {"down", "watching", "stopped"} /\ notices \subseteq {"scan", "change"}

ReadsOK == read \in [Look -> {NoLook} \union [seen : {{e} : e \in Event \union {NoEvent}}]]

ArmedOK ==
  /\ armed \in [Slot -> {Off} \union [event : Event, next : 1 .. LastTick + 1]]
  /\ \A s \in mapped : s \in Slot /\ armed[s] # Off
  /\ ~IsWatching => mapped = {}

FiringOK ==
  /\ firing \subseteq [event : Event, occurrence : Occurrence, at : {"enqueue", "delete", "retry"}]
  /\ \A t, u \in Retries : t.occurrence = u.occurrence => t = u
  /\ ~IsWatching => Retries = {}

EventShape == NoticesOK /\ ReadsOK /\ ArmedOK /\ FiringOK

EventInv == EventShape /\ KindsOK /\ Alone /\ Follows

(***************************************************************************)
(* Events, triggers and their occurrences.                                 *)
(***************************************************************************)

LEMMA Bounds ==
  /\ LastTick \in Nat \ {0} /\ EventTime = 0 .. LastTick /\ MaxArmed \in Nat \ {0}
  /\ \A o \in EventTime \X Late : o \in Occurrence
BY EventAssumption DEF EventTime, Late, Occurrence

LEMMA Events ==
  ASSUME NEW e \in Event
  PROVE  /\ e # NoEvent /\ e.kind \in {"one-shot", "immediate", "periodic"}
         /\ e.kind = "one-shot" => e.at \in 1 .. LastTick
         /\ OccurrenceOf(e) \in Occurrence
         /\ \A o \in EventTime \X Late : o # OccurrenceOf(e)
         /\ \A n : [event |-> e, next |-> n] # Off
<1>1. /\ e # NoEvent /\ e.kind \in {"one-shot", "immediate", "periodic"}
      /\ e.kind = "one-shot" => e.at \in 1 .. LastTick
      /\ e.made \in Version
  BY DEF Event, NoEvent
<1>2. OccurrenceOf(e) \in Occurrence
  BY <1>1, EventAssumption DEF OccurrenceOf, Occurrence, EventTime, Late
<1>3. ASSUME NEW o \in EventTime \X Late PROVE o # OccurrenceOf(e)
  <2>1. o[1] \in 0 .. LastTick /\ o[2] \in {1, 2}
    BY <1>3 DEF EventTime, Late
  <2>2. CASE e.kind = "one-shot"
    BY <2>1, <2>2 DEF OccurrenceOf
  <2>3. CASE e.kind # "one-shot"
    BY <2>1, <2>3 DEF OccurrenceOf
  <2> QED BY <2>2, <2>3
<1>4. ASSUME NEW n PROVE [event |-> e, next |-> n] # Off
  BY <1>1 DEF Off
<1> QED BY <1>1, <1>2, <1>3, <1>4

LEMMA EventShapeIsType == EventShape => EventTypeOK
<1> SUFFICES ASSUME EventShape PROVE EventTypeOK
  OBVIOUS
<1>1. \A i \in Look : read[i] = NoLook \/ \E e \in Event \union {NoEvent} : read[i] = [seen |-> {e}]
  BY DEF EventShape, ReadsOK
<1>2. \A s \in Slot : armed[s] = Off \/ (armed[s].event \in Event /\ armed[s].next \in 1 .. LastTick + 1)
  BY DEF EventShape, ArmedOK
<1>3. \A t \in firing : t.event \in Event /\ t.occurrence \in Occurrence
                        /\ t.at \in {"enqueue", "delete", "retry"}
  BY DEF EventShape, FiringOK
<1> QED BY <1>1, <1>2, <1>3 DEF EventShape, NoticesOK, ArmedOK, FiringOK, EventTypeOK

LEMMA Triggers ==
  ASSUME NEW e \in Event, NEW o \in Occurrence
  PROVE  /\ Trigger(e, o) \in [event : Event, occurrence : Occurrence, at : {"enqueue", "delete", "retry"}]
         /\ Trigger(e, o).event = e /\ Trigger(e, o).occurrence = o /\ Trigger(e, o).at = "enqueue"
BY DEF Trigger

LEMMA Labelled ==
  ASSUME FiringOK, NEW t \in firing, NEW label \in {"enqueue", "delete", "retry"}
  PROVE  /\ [t EXCEPT !.at = label]
              \in [event : Event, occurrence : Occurrence, at : {"enqueue", "delete", "retry"}]
         /\ [t EXCEPT !.at = label].event = t.event /\ [t EXCEPT !.at = label].at = label
         /\ [t EXCEPT !.at = label].occurrence = t.occurrence
BY DEF FiringOK

(***************************************************************************)
(* What a step does to the triggers.                                       *)
(***************************************************************************)

TriggerStep(t) ==
  Enqueue(t) \/ Refuse(t) \/ RecordingFails(t) \/ Delete(t) \/ DeleteFails(t) \/ Retry(t)

\* The file is as it was, or the watcher is told of it.
Told == UNCHANGED <<event, notices>> \/ \E e \in Event \union {NoEvent} : SetFile(e)

\* Trigger t goes on, or ends: with its file, or in favour of a retry.
Goes(t) ==
  \/ \E label \in {"enqueue", "delete"} : Becomes(t, label)
  \/ Becomes(t, "retry") /\ IsWatching /\ \A r \in Retries : r.occurrence # t.occurrence
  \/ Ends(t) /\ t.at # "retry" /\ \/ t.event.kind = "periodic" \/ ~IsWatching \/ event' = NoEvent
                                  \/ \E r \in Retries : r.occurrence = t.occurrence

\* A new trigger, for an event that is due.
Begins(e, o) == firing' = firing \union {Trigger(e, o)} /\ Dated(Trigger(e, o))

LEMMA TriggerShape ==
  ASSUME NEW t \in firing, TriggerStep(t)
  PROVE  Goes(t) /\ Told /\ UNCHANGED <<clock, bot, read, armed, mapped, unread, overlapped>>
<1>1. CASE Enqueue(t)
  BY <1>1 DEF Enqueue, Enqueued, Goes, Told, memory, eventObservers
<1>2. CASE Refuse(t)
  BY <1>2 DEF Refuse, Failed, Goes, Told, memory, eventObservers
<1>3. CASE RecordingFails(t)
  BY <1>3 DEF RecordingFails, Failed, Goes, Told, memory, eventObservers
<1>4. CASE Delete(t)
  BY <1>4 DEF Delete, SetFile, Goes, Told
<1>5. CASE DeleteFails(t)
  BY <1>5 DEF DeleteFails, Failed, Goes, Told, memory, eventObservers
<1>6. CASE Retry(t)
  BY <1>6 DEF Retry, Goes, Told, memory, eventObservers
<1> QED BY <1>1, <1>2, <1>3, <1>4, <1>5, <1>6 DEF TriggerStep

\* An event that is not scheduled fires for its own occurrence.
LEMMA ScheduleShape ==
  ASSUME NEW e \in Event, Schedule(e)
  PROVE  \/ /\ e.kind # "immediate" /\ UNCHANGED firing
            /\ \E n : Arm(e, n) /\ (clock \in EventTime => n \in 1 .. LastTick + 1)
         \/ /\ e.kind # "periodic" /\ Begins(e, OccurrenceOf(e)) /\ UNCHANGED <<armed, mapped>>
<1>1. CASE e.kind = "periodic"
  <2>1. Arm(e, clock + 1)
    BY <1>1 DEF Schedule
  <2>2. clock \in EventTime => clock + 1 \in 1 .. LastTick + 1
    BY Bounds
  <2>3. UNCHANGED firing
    BY <2>1 DEF Arm
  <2> QED BY <1>1, <2>1, <2>2, <2>3
<1>2. CASE e.kind = "one-shot" /\ e.at > clock
  BY <1>2, Events, Bounds DEF Schedule, Arm
<1>3. CASE e.kind # "periodic" /\ ~(e.kind = "one-shot" /\ e.at > clock)
  <2>1. TriggersNow(Trigger(e, OccurrenceOf(e)))
    BY <1>3 DEF Schedule
  <2> QED BY <1>3, <2>1, Events, Triggers DEF TriggersNow, Begins, Dated
<1> QED BY <1>1, <1>2, <1>3

LEMMA TimerShape ==
  ASSUME ArmedOK, NEW s \in Slot, TimerTriggers(s)
  PROVE  /\ armed[s].event \in Event /\ armed[s].event.kind = "one-shot"
         /\ Begins(armed[s].event, OccurrenceOf(armed[s].event))
<1>1. armed[s] # Off => armed[s].event \in Event
  BY DEF ArmedOK
<1>2. armed[s].event.kind = "one-shot" /\ armed[s] # Off
  BY DEF TimerTriggers, Off, NoEvent
<1>3. firing' = firing \union {Trigger(armed[s].event, OccurrenceOf(armed[s].event))}
  BY DEF TimerTriggers
<1> QED BY <1>1, <1>2, <1>3, Events, Triggers DEF Begins, Dated

LEMMA CronShape ==
  ASSUME NoticesOK, ArmedOK, NEW s \in Slot, CronTriggers(s)
  PROVE  /\ armed[s].event \in Event /\ armed[s].event.kind = "periodic"
         /\ \E o \in Occurrence : Begins(armed[s].event, o)
<1>1. armed[s] # Off => armed[s].event \in Event
  BY DEF ArmedOK
<1>2. armed[s].event.kind = "periodic" /\ armed[s] # Off
  BY DEF CronTriggers, Off, NoEvent
<1>3. PICK m \in Late : firing' = firing \union {Trigger(armed[s].event, <<clock, m>>)}
  BY DEF CronTriggers
<1>4. <<clock, m>> \in EventTime \X Late
  BY DEF NoticesOK
<1> QED BY <1>1, <1>2, <1>3, <1>4, Bounds, Triggers DEF Begins, Dated

LEMMA FiringShape ==
  ASSUME EventShape, [EventNext]_eventVars
  PROVE  \/ UNCHANGED firing /\ (IsWatching => IsWatching')
         \/ firing' = firing \ Retries
         \/ firing' = {}
         \/ (IsWatching' <=> IsWatching) /\ \E t \in firing : Goes(t)
         \/ (IsWatching' <=> IsWatching) /\ \E e \in Event, o \in Occurrence : Begins(e, o)
<1> USE DEF EventShape
<1>1. CASE UNCHANGED eventVars
  BY <1>1 DEF eventVars, IsWatching
<1>2. CASE StartWatching \/ StopWatching \/ ProcessEnds \/ ClockTicks
  BY <1>2 DEF StartWatching, StopWatching, ProcessEnds, ClockTicks, IsWatching, Up
<1>3. ASSUME NEW i \in Look, EndLook(i)
      PROVE  (IsWatching' <=> IsWatching)
             /\ (UNCHANGED firing \/ \E e \in Event, o \in Occurrence : Begins(e, o))
  <2>1. IsWatching' <=> IsWatching
    BY <1>3 DEF EndLook, IsWatching
  <2>2. PICK e \in read[i].seen \union {event} :
          IF IsWatching /\ e # NoEvent THEN Schedule(e) ELSE UNCHANGED <<armed, mapped, firing>>
    BY <1>3 DEF EndLook
  <2>3. e \in Event \union {NoEvent}
    BY <1>3, <2>2 DEF EndLook, ReadsOK, NoticesOK, NoLook
  <2> QED BY <2>1, <2>2, <2>3, ScheduleShape, Events
<1>4. ASSUME NEW i \in Look, NEW why \in notices, BeginLook(i, why) PROVE firing' = firing \ Retries
  BY <1>4 DEF BeginLook, Cancelled
<1>5. ASSUME NEW i \in Look, LookFails(i) PROVE UNCHANGED firing /\ (IsWatching => IsWatching')
  BY <1>5 DEF LookFails, IsWatching
<1>6. ASSUME NEW s \in Slot, TimerTriggers(s) \/ CronTriggers(s)
      PROVE  (IsWatching' <=> IsWatching) /\ \E e \in Event, o \in Occurrence : Begins(e, o)
  <2>1. IsWatching' <=> IsWatching
    BY <1>6 DEF TimerTriggers, CronTriggers, IsWatching
  <2> QED BY <1>6, <2>1, TimerShape, CronShape, Events
<1>7. ASSUME NEW t \in firing, TriggerStep(t) PROVE (IsWatching' <=> IsWatching) /\ Goes(t)
  BY <1>7, TriggerShape DEF IsWatching
<1>8. CASE CancelEvent \/ \E e \in Event : WriteEvent(e)
  BY <1>8 DEF CancelEvent, WriteEvent, IsWatching
<1> QED BY <1>1, <1>2, <1>3, <1>4, <1>5, <1>6, <1>7, <1>8 DEF EventNext, Looking, TriggerStep

(***************************************************************************)
(* The shape is kept.                                                      *)
(***************************************************************************)

LEMMA FiringStep == EventShape /\ KindsOK /\ [EventNext]_eventVars => FiringOK' /\ KindsOK'
<1> SUFFICES ASSUME EventShape, KindsOK, [EventNext]_eventVars PROVE FiringOK' /\ KindsOK'
  OBVIOUS
<1> DEFINE Types == [event : Event, occurrence : Occurrence, at : {"enqueue", "delete", "retry"}]
<1>0. FiringOK /\ firing \subseteq Types
  BY DEF EventShape, FiringOK
<1>1. CASE UNCHANGED firing /\ (IsWatching => IsWatching')
  BY <1>0, <1>1 DEF FiringOK, Retries, KindsOK
<1>2. CASE firing' = firing \ Retries \/ firing' = {}
  BY <1>0, <1>2 DEF FiringOK, Retries, KindsOK
<1>3. ASSUME IsWatching' <=> IsWatching, NEW t \in firing, Goes(t) PROVE FiringOK' /\ KindsOK'
  <2>1. CASE Ends(t)
    BY <1>0, <1>3, <2>1 DEF Ends, FiringOK, Retries, KindsOK
  <2>2. ASSUME NEW label \in {"enqueue", "delete", "retry"}, Becomes(t, label),
               label = "retry" => IsWatching /\ \A r \in Retries : r.occurrence # t.occurrence
        PROVE  FiringOK' /\ KindsOK'
    <3> DEFINE u == [t EXCEPT !.at = label]
    <3>1. u \in Types /\ u.event = t.event /\ u.at = label /\ u.occurrence = t.occurrence
      BY <1>0, Labelled
    <3>2. firing' = (firing \ {t}) \union {u}
      BY <2>2 DEF Becomes
    <3> HIDE DEF u
    <3>3. firing' \subseteq Types
      BY <1>0, <3>1, <3>2
    <3>4. \A r \in Retries' : r \in Retries \/ (r = u /\ label = "retry")
      BY <3>1, <3>2 DEF Retries
    <3>5. \A r, v \in Retries' : r.occurrence = v.occurrence => r = v
      BY <1>0, <2>2, <3>1, <3>4 DEF FiringOK
    <3>6. ~IsWatching' => Retries' = {}
      BY <1>0, <1>3, <2>2, <3>4 DEF FiringOK
    <3>7. Dated(u)
      BY <3>1 DEF KindsOK, Dated
    <3> QED BY <3>2, <3>3, <3>5, <3>6, <3>7 DEF FiringOK, KindsOK
  <2> QED BY <1>3, <2>1, <2>2 DEF Goes
<1>4. ASSUME IsWatching' <=> IsWatching, NEW e \in Event, NEW o \in Occurrence, Begins(e, o)
      PROVE  FiringOK' /\ KindsOK'
  <2> DEFINE u == Trigger(e, o)
  <2>1. u \in Types /\ u.at = "enqueue"
    BY Triggers
  <2>2. firing' = firing \union {u} /\ Dated(u)
    BY <1>4 DEF Begins
  <2> HIDE DEF u
  <2>3. Retries' = Retries
    BY <2>1, <2>2 DEF Retries
  <2> QED BY <1>0, <1>4, <2>1, <2>2, <2>3 DEF FiringOK, KindsOK
<1> QED BY <1>1, <1>2, <1>3, <1>4, FiringShape

(* The steps beside the reloads, the start and the end of a watcher.       *)
Beside ==
  /\ Told /\ UNCHANGED <<read, unread, overlapped>> /\ (IsWatching' <=> IsWatching)
  /\ \/ UNCHANGED <<armed, mapped, firing>>
     \/ UNCHANGED <<armed, mapped>> /\ \E t \in firing : Goes(t)
     \/ \E s \in Slot : TimerTriggers(s) \/ CronTriggers(s)

\* A watcher that starts has still to look, one that stops looks no more.
StartsOrStops ==
  /\ UNCHANGED <<event, overlapped>> /\ (notices' = {} => ~IsWatching')
  /\ UNCHANGED read \/ read' = [i \in Look |-> NoLook]

LEMMA Looks ==
  ASSUME EventShape, [EventNext]_eventVars
  PROVE  \/ Beside \/ StartsOrStops
         \/ \E i \in Look : (\E why \in notices : BeginLook(i, why)) \/ EndLook(i) \/ LookFails(i)
<1>1. CASE UNCHANGED eventVars
  BY <1>1 DEF eventVars, Beside, Told, memory, eventObservers, IsWatching
<1>2. CASE StartWatching \/ StopWatching \/ ProcessEnds
  BY <1>2 DEF StartWatching, StopWatching, ProcessEnds, StartsOrStops, IsWatching, eventObservers
<1>3. CASE ClockTicks
  BY <1>3 DEF ClockTicks, Beside, Told, memory, eventObservers, IsWatching
<1>4. ASSUME NEW s \in Slot, TimerTriggers(s) \/ CronTriggers(s) PROVE Beside
  <2>1. Told /\ UNCHANGED <<read, unread, overlapped>> /\ (IsWatching' <=> IsWatching)
    BY <1>4 DEF TimerTriggers, CronTriggers, Told, eventObservers, IsWatching
  <2> QED BY <1>4, <2>1 DEF Beside
<1>5. ASSUME NEW t \in firing, TriggerStep(t) PROVE Beside
  BY <1>5, TriggerShape DEF Beside, IsWatching
<1>6. CASE CancelEvent \/ \E e \in Event : WriteEvent(e)
  BY <1>6 DEF CancelEvent, WriteEvent, Beside, Told, eventObservers, IsWatching
<1> QED BY <1>1, <1>2, <1>3, <1>4, <1>5, <1>6 DEF EventNext, Looking, TriggerStep

LEMMA NoticesStep == EventShape /\ [EventNext]_eventVars => NoticesOK'
<1> SUFFICES ASSUME EventShape, [EventNext]_eventVars PROVE NoticesOK'
  OBVIOUS
<1> USE DEF EventShape, NoticesOK
<1>1. CASE UNCHANGED eventVars
  BY <1>1 DEF eventVars, memory
<1>2. CASE StartWatching \/ StopWatching \/ ProcessEnds
  BY <1>2 DEF StartWatching, StopWatching, ProcessEnds
<1>3. CASE ClockTicks
  BY <1>3, Bounds DEF ClockTicks, memory
<1>4. CASE \E i \in Look : EndLook(i) \/ LookFails(i) \/ \E why \in notices : BeginLook(i, why)
  BY <1>4 DEF EndLook, LookFails, BeginLook
<1>5. CASE \E s \in Slot : TimerTriggers(s) \/ CronTriggers(s)
  BY <1>5 DEF TimerTriggers, CronTriggers
<1>6. CASE CancelEvent \/ \E e \in Event : WriteEvent(e)
  BY <1>6 DEF CancelEvent, WriteEvent, SetFile
<1>7. ASSUME NEW t \in firing, TriggerStep(t) PROVE NoticesOK'
  <2>1. clock' \in EventTime /\ bot' \in {"down", "watching", "stopped"}
    BY <1>7, TriggerShape
  <2>2. event' \in Event \union {NoEvent} /\ notices' \subseteq {"scan", "change"}
    BY <1>7, TriggerShape DEF Told, SetFile
  <2>3. t.event \in Event
    BY DEF FiringOK
  <2>4. recorded' \in [Occurrence -> Event \union {NoEvent}]
    BY <1>7, <2>3
    DEF TriggerStep, Enqueue, Refuse, RecordingFails, Delete, DeleteFails, Retry, EventRecorded
  <2> QED BY <2>1, <2>2, <2>4
<1> QED BY <1>1, <1>2, <1>3, <1>4, <1>5, <1>6, <1>7 DEF EventNext, Looking, TriggerStep

LEMMA ReadsStep == EventShape /\ [EventNext]_eventVars => ReadsOK'
<1> SUFFICES ASSUME EventShape, [EventNext]_eventVars PROVE ReadsOK'
  OBVIOUS
<1> DEFINE Reads == {NoLook} \union [seen : {{e} : e \in Event \union {NoEvent}}]
<1>0. read \in [Look -> Reads] /\ NoLook \in Reads /\ [seen |-> {event}] \in Reads
  BY DEF EventShape, ReadsOK, NoticesOK
<1> HIDE DEF Reads
<1>1. CASE Beside \/ StartsOrStops
  BY <1>0, <1>1 DEF Beside, StartsOrStops, ReadsOK, Reads
<1>2. ASSUME NEW i \in Look,
             (\E why \in notices : BeginLook(i, why)) \/ EndLook(i) \/ LookFails(i)
      PROVE  ReadsOK'
  <2>1. \E r \in Reads : read' = [read EXCEPT ![i] = r]
    BY <1>0, <1>2 DEF BeginLook, EndLook, LookFails
  <2>2. read' \in [Look -> Reads]
    BY <1>0, <2>1
  <2> QED BY <2>2 DEF ReadsOK, Reads
<1> QED BY <1>1, <1>2, Looks
(***************************************************************************)
(* Timers and crons.                                                       *)
(***************************************************************************)

\* Slot s, which was free, holds event e.
ArmsWith(s, e) ==
  /\ armed[s] = Off /\ mapped' \subseteq mapped \union {s} /\ s \in mapped'
  /\ \E n \in 1 .. LastTick + 1 : armed' = [armed EXCEPT ![s] = [event |-> e, next |-> n]]

LEMMA ArmedShape ==
  ASSUME EventShape, [EventNext]_eventVars
  PROVE  \/ UNCHANGED <<armed, mapped>> /\ (IsWatching => IsWatching')
         \/ Forgotten
         \/ \E i \in Look, why \in notices : BeginLook(i, why)
         \/ IsWatching' /\ \E i \in Look, e \in Event, s \in Slot :
              EndLook(i) /\ ArmsWith(s, e) /\ UNCHANGED firing /\ e \in read[i].seen \union {event}
         \/ \E s \in Slot : TimerTriggers(s) \/ CronTriggers(s)
<1>1. CASE UNCHANGED eventVars
  BY <1>1 DEF eventVars, memory, IsWatching
<1>2. CASE StartWatching \/ StopWatching \/ ProcessEnds
  BY <1>2 DEF StartWatching, StopWatching, ProcessEnds, IsWatching, Up
<1>3. CASE ClockTicks \/ CancelEvent \/ \E e \in Event : WriteEvent(e)
  BY <1>3 DEF ClockTicks, CancelEvent, WriteEvent, memory, IsWatching
<1>4. ASSUME NEW t \in firing, TriggerStep(t)
      PROVE  UNCHANGED <<armed, mapped>> /\ (IsWatching => IsWatching')
  BY <1>4, TriggerShape DEF IsWatching
<1>5. CASE \E i \in Look : LookFails(i)
  BY <1>5 DEF LookFails, IsWatching
<1>6. ASSUME NEW i \in Look, EndLook(i)
      PROVE  \/ UNCHANGED <<armed, mapped>> /\ (IsWatching => IsWatching')
             \/ IsWatching' /\ \E e \in Event, s \in Slot :
                  ArmsWith(s, e) /\ UNCHANGED firing /\ e \in read[i].seen \union {event}
  <2>1. IsWatching' <=> IsWatching
    BY <1>6 DEF EndLook, IsWatching
  <2>2. PICK e \in read[i].seen \union {event} :
          IF IsWatching /\ e # NoEvent THEN Schedule(e) ELSE UNCHANGED <<armed, mapped, firing>>
    BY <1>6 DEF EndLook
  <2>3. e \in Event \union {NoEvent}
    BY <1>6, <2>2 DEF EndLook, EventShape, ReadsOK, NoticesOK, NoLook
  <2>4. ASSUME NEW n \in 1 .. LastTick + 1, Arm(e, n), e \in Event PROVE \E s \in Slot : ArmsWith(s, e)
    <3>1. PICK s \in Slot : armed[s] = Off /\ armed' = [armed EXCEPT ![s] = [event |-> e, next |-> n]]
                            /\ mapped' = (mapped \ SameKind(e)) \union {s}
      BY <2>4 DEF Arm
    <3> QED BY <3>1 DEF ArmsWith
  <2>5. clock \in EventTime
    BY DEF EventShape, NoticesOK
  <2> QED BY <2>1, <2>2, <2>3, <2>4, <2>5, ScheduleShape
<1> QED BY <1>1, <1>2, <1>3, <1>4, <1>5, <1>6 DEF EventNext, Looking, TriggerStep

\* What each of these does to the slots.
LEMMA Slots ==
  ASSUME EventShape
  PROVE  /\ \A s \in Slot, e \in Event : ArmsWith(s, e) =>
              /\ armed' \in [Slot -> {Off} \union [event : Event, next : 1 .. LastTick + 1]]
              /\ armed'[s] # Off /\ armed'[s].event = e
              /\ \A r \in Slot : r # s => armed'[r] = armed[r]
         /\ \A s \in Slot : TimerTriggers(s) =>
              /\ armed' \in [Slot -> {Off} \union [event : Event, next : 1 .. LastTick + 1]]
              /\ armed[s] # Off /\ armed'[s] = Off
              /\ \A r \in Slot : r # s => armed'[r] = armed[r]
         /\ \A s \in Slot : CronTriggers(s) =>
              /\ armed' \in [Slot -> {Off} \union [event : Event, next : 1 .. LastTick + 1]]
              /\ armed[s] # Off /\ armed'[s] # Off /\ armed'[s].event = armed[s].event
              /\ \A r \in Slot : r # s => armed'[r] = armed[r]
<1> USE DEF EventShape
<1> DEFINE Holds == {Off} \union [event : Event, next : 1 .. LastTick + 1]
<1>0. armed \in [Slot -> Holds] /\ clock \in 0 .. LastTick
  BY Bounds DEF ArmedOK, NoticesOK
<1>1. ASSUME NEW s \in Slot, NEW e \in Event, ArmsWith(s, e)
      PROVE  /\ armed' \in [Slot -> Holds] /\ armed'[s] # Off /\ armed'[s].event = e
             /\ \A r \in Slot : r # s => armed'[r] = armed[r]
  <2>1. PICK n \in 1 .. LastTick + 1 : armed' = [armed EXCEPT ![s] = [event |-> e, next |-> n]]
    BY <1>1 DEF ArmsWith
  <2>2. [event |-> e, next |-> n] \in Holds /\ [event |-> e, next |-> n] # Off
    BY Events
  <2> QED BY <1>0, <2>1, <2>2
<1>2. ASSUME NEW s \in Slot, TimerTriggers(s)
      PROVE  /\ armed' \in [Slot -> Holds] /\ armed[s] # Off /\ armed'[s] = Off
             /\ \A r \in Slot : r # s => armed'[r] = armed[r]
  BY <1>0, <1>2 DEF TimerTriggers, Off, NoEvent
<1>3. ASSUME NEW s \in Slot, CronTriggers(s)
      PROVE  /\ armed' \in [Slot -> Holds]
             /\ armed[s] # Off /\ armed'[s] # Off /\ armed'[s].event = armed[s].event
             /\ \A r \in Slot : r # s => armed'[r] = armed[r]
  <2>1. armed[s] # Off
    BY <1>3 DEF CronTriggers, Off, NoEvent
  <2>2. armed[s] \in [event : Event, next : 1 .. LastTick + 1]
    BY <1>0, <2>1
  <2>3. PICK e \in Event, n \in 1 .. LastTick + 1 : armed[s] = [event |-> e, next |-> n]
    BY <2>2
  <2> DEFINE a == [event |-> e, next |-> clock + 1]
  <2>4. a \in Holds /\ a # Off /\ a.event = e
    BY <1>0, Bounds, Events
  <2>5. armed' = [armed EXCEPT ![s] = a]
    <3>1. armed' = [armed EXCEPT ![s] = [armed[s] EXCEPT !.next = clock + 1]]
      BY <1>3 DEF CronTriggers
    <3>2. [armed[s] EXCEPT !.next = clock + 1] = a
      BY <2>3
    <3> QED BY <3>1, <3>2
  <2> HIDE DEF a
  <2> QED BY <1>0, <2>1, <2>3, <2>4, <2>5
<1> QED BY <1>1, <1>2, <1>3

LEMMA ArmedStep == EventShape /\ [EventNext]_eventVars => ArmedOK'
<1> SUFFICES ASSUME EventShape, [EventNext]_eventVars PROVE ArmedOK'
  OBVIOUS
<1>0. ArmedOK
  BY DEF EventShape
<1>1. CASE UNCHANGED <<armed, mapped>> /\ (IsWatching => IsWatching')
  BY <1>0, <1>1 DEF ArmedOK
<1>2. CASE Forgotten
  BY <1>2 DEF Forgotten, ArmedOK
<1>3. ASSUME NEW i \in Look, NEW why \in notices, BeginLook(i, why) PROVE ArmedOK'
  BY <1>0, <1>3 DEF BeginLook, Cancelled, ArmedOK
<1>4. ASSUME IsWatching', NEW s \in Slot, NEW e \in Event, ArmsWith(s, e) PROVE ArmedOK'
  BY <1>0, <1>4, Slots DEF ArmedOK, ArmsWith
<1>5. ASSUME NEW s \in Slot, TimerTriggers(s) PROVE ArmedOK'
  <2>1. mapped' = mapped \ SameKind(armed[s].event) /\ bot' = bot
    BY <1>5 DEF TimerTriggers
  <2>2. s \notin mapped'
    BY <2>1 DEF SameKind
  <2> QED BY <1>0, <1>5, <2>1, <2>2, Slots DEF ArmedOK, IsWatching
<1>6. ASSUME NEW s \in Slot, CronTriggers(s) PROVE ArmedOK'
  <2>1. mapped' = mapped /\ bot' = bot
    BY <1>6 DEF CronTriggers
  <2> QED BY <1>0, <1>6, <2>1, Slots DEF ArmedOK, IsWatching
<1> QED BY <1>1, <1>2, <1>3, <1>4, <1>5, <1>6, ArmedShape

LEMMA EventShapeStep == EventShape /\ KindsOK /\ [EventNext]_eventVars => EventShape' /\ KindsOK'
BY NoticesStep, ReadsStep, ArmedStep, FiringStep DEF EventShape
(***************************************************************************)
(* One look at the file after the other.                                   *)
(***************************************************************************)

LEMMA AloneStep == EventShape /\ Alone /\ [EventNext]_eventVars => Alone'
<1> SUFFICES ASSUME EventShape, Alone, [EventNext]_eventVars, ~overlapped' PROVE Alone'
  BY DEF Alone
<1>0. ArmedOK /\ ReadsOK
  BY DEF EventShape
<1>1. ~overlapped
  <2>1. \/ UNCHANGED overlapped
        \/ \E i \in Look, why \in notices : BeginLook(i, why)
    BY Looks DEF Beside, StartsOrStops, EndLook, LookFails, eventObservers
  <2> QED BY <2>1 DEF BeginLook
<1>2. /\ \A s \in Armed : s \in mapped
      /\ \A s, r \in Armed : s = r
      /\ \A i, j \in Look : read[i] # NoLook => Armed = {} /\ (read[j] # NoLook => i = j)
  BY <1>1 DEF Alone
\* The reloads: none begins beside another.
<1>3. \/ \A i \in Look : read'[i] # NoLook => read'[i] = read[i]
      \/ \E i \in Look, why \in notices : BeginLook(i, why)
  BY <1>0, Looks DEF Beside, StartsOrStops, ReadsOK, EndLook, LookFails
<1>4. ASSUME NEW i \in Look, NEW why \in notices, BeginLook(i, why) PROVE Alone'
  <2>1. \A j \in Look : read[j] = NoLook
    BY <1>4 DEF BeginLook
  <2>2. Armed' = {}
    BY <1>0, <1>2, <1>4 DEF BeginLook, Cancelled, Armed, ArmedOK
  <2>3. \A j \in Look : j # i => read'[j] = NoLook
    BY <1>0, <1>4, <2>1 DEF BeginLook, ReadsOK
  <2> QED BY <2>2, <2>3 DEF Alone
<1>5. CASE \A i \in Look : read'[i] # NoLook => read'[i] = read[i]
  <2>1. CASE UNCHANGED <<armed, mapped>>
    BY <1>2, <1>5, <2>1 DEF Alone, Armed
  <2>2. CASE Forgotten
    BY <1>2, <1>5, <2>2 DEF Alone, Armed, Forgotten
  <2>3. ASSUME NEW i \in Look, NEW e \in Event, NEW s \in Slot, EndLook(i), ArmsWith(s, e)
        PROVE  Alone'
    <3>1. Armed = {} /\ \A j \in Look : j # i => read[j] = NoLook
      BY <1>2, <2>3 DEF EndLook
    <3>2. \A j \in Look : read'[j] = NoLook
      BY <1>0, <2>3, <3>1 DEF EndLook, ReadsOK
    <3>3. Armed' = {s} /\ s \in mapped'
      BY <2>3, <3>1, Slots DEF Armed, ArmsWith
    <3> QED BY <3>2, <3>3 DEF Alone
  <2>4. ASSUME NEW s \in Slot, TimerTriggers(s) PROVE Alone'
    <3>1. Armed' = {}
      BY <1>2, <2>4, Slots DEF Armed
    <3> QED BY <1>2, <1>5, <3>1 DEF Alone
  <2>5. ASSUME NEW s \in Slot, CronTriggers(s) PROVE Alone'
    <3>1. Armed' = Armed
      BY <2>5, Slots DEF Armed
    <3>2. mapped' = mapped
      BY <2>5 DEF CronTriggers
    <3> QED BY <1>2, <1>5, <3>1, <3>2 DEF Alone
  <2>6. CASE \E i \in Look, why \in notices : BeginLook(i, why)
    BY <1>4, <2>6
  <2> QED BY <2>1, <2>2, <2>3, <2>4, <2>5, <2>6, ArmedShape
<1> QED BY <1>3, <1>4, <1>5

\* A trigger that is not a cron's stays under way until its file is gone.
LEMMA TriggersUnderWay ==
  ASSUME EventShape, KindsOK, IsWatching, NEW t \in firing, Goes(t),
         event # NoEvent, event' = event, event.kind # "periodic",
         \E u \in firing : u.occurrence = OccurrenceOf(event)
  PROVE  \E u \in firing' : u.occurrence = OccurrenceOf(event)
<1> PICK u \in firing : u.occurrence = OccurrenceOf(event)
  OBVIOUS
<1>1. ASSUME NEW label \in {"enqueue", "delete", "retry"}, Becomes(t, label)
      PROVE  \E v \in firing' : v.occurrence = OccurrenceOf(event)
  <2> DEFINE v == [t EXCEPT !.at = label]
  <2>1. v.occurrence = t.occurrence
    BY Labelled DEF EventShape
  <2>2. firing' = (firing \ {t}) \union {v}
    BY <1>1 DEF Becomes
  <2> HIDE DEF v
  <2> QED BY <2>1, <2>2
<1>2. ASSUME Ends(t), t.event.kind # "periodic" => \E r \in Retries :
                          t.at # "retry" /\ r.occurrence = t.occurrence
      PROVE  \E v \in firing' : v.occurrence = OccurrenceOf(event)
  <2>1. CASE u # t
    BY <1>2, <2>1 DEF Ends
  <2>2. CASE u = t
    <3>1. event \in Event
      BY DEF EventShape, NoticesOK
    <3>2. t.event.kind # "periodic"
      BY <2>2, <3>1, Events DEF KindsOK, Dated
    <3>3. PICK r \in Retries : t.at # "retry" /\ r.occurrence = t.occurrence
      BY <1>2, <3>2
    <3>4. r \in firing'
      BY <1>2, <3>3 DEF Ends, Retries
    <3> QED BY <2>2, <3>3, <3>4
  <2> QED BY <2>1, <2>2
<1> QED BY <1>1, <1>2 DEF Goes

LEMMA FollowsStep == EventInv /\ Alone' /\ [EventNext]_eventVars => Follows'
<1> SUFFICES ASSUME EventInv, Alone', [EventNext]_eventVars,
                    IsWatching', notices' = {}, ~overlapped', ~unread'
             PROVE  /\ \A i \in Look : read'[i] # NoLook => read'[i] = [seen |-> {event'}]
                    /\ (\A i \in Look : read'[i] = NoLook) => EventScheduled'
  BY DEF Follows
<1> USE DEF EventInv
<1>0. ArmedOK /\ ReadsOK /\ event \in Event \union {NoEvent}
  BY DEF EventShape, NoticesOK
<1>1. CASE Beside
  <2>1. IsWatching /\ event' = event /\ notices = {} /\ ~overlapped /\ ~unread /\ read' = read
    BY <1>1 DEF Beside, Told, SetFile
  <2>2. /\ \A i \in Look : read[i] # NoLook => read[i] = [seen |-> {event}]
        /\ (\A i \in Look : read[i] = NoLook) => EventScheduled
    BY <2>1 DEF Follows
  <2> SUFFICES ASSUME EventScheduled PROVE EventScheduled'
    BY <2>1, <2>2
  <2>3. CASE UNCHANGED <<armed, mapped, firing>>
    BY <2>1, <2>3 DEF EventScheduled, Armed
  <2>4. ASSUME UNCHANGED <<armed, mapped>>, NEW t \in firing, Goes(t) PROVE EventScheduled'
    <3>1. Armed' = Armed
      BY <2>4 DEF Armed
    <3>2. ASSUME event # NoEvent, Armed = {} PROVE \E u \in firing' : u.occurrence = OccurrenceOf(event)
      BY <2>1, <2>4, <3>2, TriggersUnderWay DEF EventScheduled
    <3> QED BY <2>1, <2>4, <3>1, <3>2 DEF EventScheduled, Armed
  <2>5. ASSUME NEW s \in Slot, TimerTriggers(s) PROVE EventScheduled'
    <3>1. s \in Armed /\ armed[s].event = event /\ Armed' = {}
      BY <1>0, <2>1, <2>5, Slots DEF EventScheduled, Armed, Alone
    <3>2. event \in Event /\ event.kind = "one-shot" /\ Begins(event, OccurrenceOf(event))
      BY <1>0, <2>5, <3>1, TimerShape
    <3>3. \E u \in firing' : u.occurrence = OccurrenceOf(event)
      BY <3>2, Events, Triggers DEF Begins
    <3> QED BY <2>1, <3>1, <3>2, <3>3 DEF EventScheduled
  <2>6. ASSUME NEW s \in Slot, CronTriggers(s) PROVE EventScheduled'
    <3>1. s \in Armed /\ Armed' = Armed /\ \A r \in Armed : armed'[r].event = armed[r].event
      BY <2>6, Slots DEF Armed
    <3> QED BY <2>1, <3>1 DEF EventScheduled
  <2> QED BY <1>1, <2>3, <2>4, <2>5, <2>6 DEF Beside
<1>2. CASE StartsOrStops
  BY <1>2 DEF StartsOrStops
<1>3. ASSUME NEW i \in Look, NEW why \in notices, BeginLook(i, why)
      PROVE  /\ \A j \in Look : read'[j] # NoLook => read'[j] = [seen |-> {event'}]
             /\ \E j \in Look : read'[j] # NoLook
  <2>1. read'[i] = [seen |-> {event}] /\ event' = event
    BY <1>0, <1>3 DEF BeginLook, ReadsOK
  <2>2. read'[i] # NoLook
    BY <2>1 DEF NoLook
  <2>3. \A j \in Look : read'[j] # NoLook => j = i
    BY <2>2 DEF Alone
  <2> QED BY <2>1, <2>2, <2>3
<1>4. ASSUME NEW i \in Look, EndLook(i)
      PROVE  (\A j \in Look : read'[j] = NoLook) /\ EventScheduled'
  <2>1. /\ IsWatching /\ event' = event /\ notices = {} /\ ~overlapped /\ ~unread
        /\ read[i] # NoLook /\ read' = [read EXCEPT ![i] = NoLook]
    BY <1>4 DEF EndLook, eventObservers, IsWatching
  <2>2. read[i] = [seen |-> {event}]
    BY <2>1 DEF Follows
  <2>3. Armed = {} /\ \A j \in Look : read'[j] = NoLook
    BY <1>0, <2>1 DEF Alone, ReadsOK
  <2>4. read[i].seen \union {event} = {event}
    BY <2>2
  <2>5. IF event # NoEvent THEN Schedule(event) ELSE UNCHANGED <<armed, mapped, firing>>
    BY <1>4, <2>1, <2>4 DEF EndLook
  <2>6. CASE event = NoEvent
    BY <2>1, <2>3, <2>5, <2>6 DEF EventScheduled, Armed
  <2>7. CASE event # NoEvent
    <3>1. event \in Event /\ Schedule(event)
      BY <1>0, <2>5, <2>7
    <3>2. CASE Begins(event, OccurrenceOf(event)) /\ UNCHANGED <<armed, mapped>> /\ event.kind # "periodic"
      <4>1. \E u \in firing' : u.occurrence = OccurrenceOf(event)
        BY <3>1, <3>2, Events, Triggers DEF Begins
      <4> QED BY <2>1, <2>3, <3>2, <4>1 DEF EventScheduled, Armed
    <3>3. CASE \E n \in 1 .. LastTick + 1 : Arm(event, n)
      <4>1. \E s \in Slot : ArmsWith(s, event)
        BY <3>3 DEF Arm, ArmsWith
      <4>2. PICK s \in Slot : ArmsWith(s, event)
        BY <4>1
      <4>3. Armed' = {s} /\ armed'[s].event = event
        BY <2>3, <3>1, <4>2, Slots DEF Armed
      <4> QED BY <2>1, <2>3, <4>3 DEF EventScheduled
    <3>4. clock \in EventTime
      BY DEF EventShape, NoticesOK
    <3>5. \/ \E n \in 1 .. LastTick + 1 : Arm(event, n)
          \/ Begins(event, OccurrenceOf(event)) /\ UNCHANGED <<armed, mapped>> /\ event.kind # "periodic"
      BY <3>1, <3>4, ScheduleShape, Zenon
    <3> QED BY <3>2, <3>3, <3>5
  <2> QED BY <2>3, <2>6, <2>7
<1>5. ASSUME NEW i \in Look, LookFails(i) PROVE FALSE
  BY <1>5 DEF LookFails
<1> QED BY <1>1, <1>2, <1>3, <1>4, <1>5, Looks

(***************************************************************************)
(* The theorems.                                                           *)
(***************************************************************************)

(* One look at the file at a time leaves what the file says, and nothing   *)
(* else: the inductive invariant.                                          *)
THEOREM EventInvariance == EventSpec => []EventInv
<1>1. EventInit => EventInv
  <2> SUFFICES ASSUME EventInit PROVE EventInv
    OBVIOUS
  <2>1. NoticesOK /\ ReadsOK /\ FiringOK /\ KindsOK /\ Follows
    BY Bounds DEF EventInit, NoticesOK, ReadsOK, FiringOK, KindsOK, Follows, Retries, IsWatching
  <2>2. ArmedOK
    BY DEF EventInit, ArmedOK
  <2>3. Alone
    BY DEF EventInit, Alone, Armed
  <2> QED BY <2>1, <2>2, <2>3 DEF EventInv, EventShape
<1>2. EventInv /\ [EventNext]_eventVars => EventInv'
  BY EventShapeStep, AloneStep, FollowsStep DEF EventInv
<1> QED BY <1>1, <1>2, PTL DEF EventSpec

(* Once the watcher has looked at every change of the file, exactly what   *)
(* the file says is scheduled, or under way, and the state is as the type  *)
(* invariant says.                                                         *)
THEOREM ScheduleFollows == EventSpec => []ScheduleIsTheFiles
<1>1. EventInv => ScheduleIsTheFiles
  <2> SUFFICES ASSUME EventInv PROVE ScheduleIsTheFiles
    OBVIOUS
  <2>1. EventTypeOK
    BY EventShapeIsType DEF EventInv
  <2>2. ASSUME Settled, ~overlapped, ~unread
        PROVE  /\ \A s \in Armed : s \in mapped /\ armed[s].event = event
               /\ Cardinality(Armed) <= 1
               /\ event # NoEvent =>
                    Armed # {} \/ \E t \in firing : t.occurrence = OccurrenceOf(event)
    <3>1. EventScheduled /\ \A s \in Armed : s \in mapped
      BY <2>2 DEF EventInv, Follows, Alone, Settled
    <3>2. Cardinality(Armed) <= 1
      <4>1. CASE Armed = {}
        BY <4>1, FS_EmptySet
      <4>2. CASE Armed # {}
        <5>1. PICK s : Armed = {s}
          BY <2>2, <4>2 DEF EventInv, Alone
        <5>2. Cardinality({s}) = 1
          BY FS_Singleton
        <5> QED BY <5>1, <5>2
      <4> QED BY <4>1, <4>2
    <3> QED BY <3>1, <3>2 DEF EventScheduled
  <2> QED BY <2>1, <2>2 DEF ScheduleIsTheFiles
<1> QED BY <1>1, EventInvariance, PTL
=============================================================================
