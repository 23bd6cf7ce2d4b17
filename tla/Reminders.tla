----------------------------- MODULE Reminders -----------------------------
(***************************************************************************)
(* One interactive reminder of the Discord surface: its file, the watcher  *)
(* that schedules it (src/surfaces/discord/reminders/watcher.ts), the      *)
(* outbox handler that posts it and the buttons under its messages         *)
(* (bot/reminders.ts), and the runtime helpers by which a model turn, in   *)
(* another process, changes the same file (runtime/reminders.ts).          *)
(*                                                                         *)
(* Everyone reads the file, awaits something, and writes the whole record  *)
(* back: a read and the write that rests on it are two steps. Times are    *)
(* ticks of one follow-up interval. The outbox is kept as far as the       *)
(* reminder meets it: one record per scheduled time, claimed by one drain  *)
(* (module DurableOutbox). The list of recent fires, which the code sorts  *)
(* whenever it uses it, is the set of their times.                         *)
(*                                                                         *)
(* An operator named Op_Mistake stands before Op and is Op with a          *)
(* plausible mistake in it: the properties are tested against these.       *)
(***************************************************************************)
EXTENDS Integers, FiniteSets

CONSTANTS
  Hand,      \* who may be changing the reminder at a time: interactions, turns
  Reload,    \* reloads of the file that may be under way at a time (bound)
  Horizon,   \* the last tick (bound)
  Snooze,    \* ticks a snooze lasts
  Cycle,     \* ticks between the runs of a recurrence
  Window,    \* REMINDER_FIRE_LIMIT_WINDOW_MS in ticks
  MaxFires,  \* MAX_REMINDER_FIRES_PER_24_HOURS
  MaxChanges,\* changes by hands (bound)
  MaxFaults  \* crashes and failed calls (bound)

ASSUME ReminderAssumption ==
  /\ Horizon \in Nat /\ Snooze \in Nat \ {0} /\ Cycle \in Nat \ {0}
  /\ Window \in Nat \ {0} /\ MaxFires \in Nat \ {0}
  /\ MaxChanges \in Nat /\ MaxFaults \in Nat

VARIABLES
  now,       \* the clock
  file,      \* the reminder's record in its file
  box,       \* box[k]: the outbox record of the fire scheduled for k
  message,   \* message[k]: the message of that fire, and whether its buttons live
  up,        \* whether the bot's process runs
  watcher,   \* the ReminderWatcher's memory; dropped: a reload failed, none was begun since
  fire,      \* the handler under way
  hand,      \* hand[h]: a change under way
  posts,     \* observer: what was posted when, but for messages withdrawn at once
  raced,     \* observer: a write rested on a record that had changed since
  cut,       \* observer: fires that were cut short after their message was posted
  left,      \* observer: messages that a button's clean-up did not reach
  missed,    \* observer: a fire ended because the file could not be read
  loose,     \* observer: a helper handled the reminder beside its messages
  changes, faults

watching == <<up, watcher>>
observers == <<posts, raced, cut, left, missed, loose>>
vars == <<now, file, box, message, watching, fire, hand, observers, changes, faults>>

Time == 0 .. Horizon
Never == -1

Idle == [pc |-> "idle"]
Asleep ==
  [timers |-> {}, mapped |-> Never, triggered |-> Never, changed |-> FALSE,
   read |-> [i \in Reload |-> Idle], enqueuing |-> {}, dropped |-> FALSE]

New(first, recurs) ==
  [status |-> "active", next |-> first, recent |-> {}, refs |-> {}, recurs |-> recurs]

Init ==
  /\ now = 0
  /\ file \in {New(first, recurs) : first \in 0 .. 1, recurs \in BOOLEAN}
  /\ box = [k \in Time |-> "none"]
  /\ message = [k \in Time |-> "none"]
  /\ up = FALSE /\ watcher = Asleep
  /\ fire = Idle /\ hand = [h \in Hand |-> Idle]
  /\ posts = {} /\ raced = FALSE /\ cut = {} /\ left = {} /\ missed = FALSE /\ loose = FALSE
  /\ changes = 0 /\ faults = 0

Fault == faults < MaxFaults /\ faults' = faults + 1
NoFault == UNCHANGED faults

(* writeReminder: the whole record, on the strength of what was read; the  *)
(* watcher hears of it.                                                    *)
Write(record, readBefore) ==
  /\ file' = record
  /\ raced' = (raced \/ file # readBefore)
  /\ watcher' = IF up THEN [watcher EXCEPT !.changed = TRUE] ELSE watcher

(***************************************************************************)
(* The watcher.                                                            *)
(***************************************************************************)

Start ==
  /\ ~up
  /\ up' = TRUE /\ watcher' = [Asleep EXCEPT !.changed = TRUE]     \* #scanExisting
  /\ NoFault /\ UNCHANGED <<now, file, box, message, fire, hand, observers, changes>>

Watch(memory) ==
  /\ up /\ watcher' = memory
  /\ UNCHANGED <<now, file, message, up, fire, hand, observers, changes>>

(* #handleFileChange cancels the timer it knows and reads the file ...     *)
BeginReload(i) ==
  /\ watcher.changed /\ watcher.read[i] = Idle
  /\ Watch([watcher EXCEPT !.changed = FALSE, !.timers = @ \ {watcher.mapped},
                           !.mapped = Never, !.dropped = FALSE,
                           !.read[i] = [pc |-> "read", record |-> file]])
  /\ NoFault /\ UNCHANGED box

\* #schedule: a due time is triggered once, a later one gets a timer.
Scheduled_Tried(memory, k) ==
  IF k > now THEN [memory EXCEPT !.timers = @ \union {k}, !.mapped = k]
  ELSE IF memory.triggered # Never THEN memory
  ELSE [memory EXCEPT !.triggered = k, !.enqueuing = @ \union {k}]
Scheduled(memory, k) ==
  IF k > now THEN [memory EXCEPT !.triggered = Never, !.timers = @ \union {k}, !.mapped = k]
  ELSE IF memory.triggered = k THEN memory
  ELSE [memory EXCEPT !.triggered = k, !.enqueuing = @ \union {k}]

(* ... and schedules what it has read, which may be out of date.           *)
EndReload(i) ==
  /\ watcher.read[i] # Idle
  /\ LET r == watcher.read[i].record
         done == [watcher EXCEPT !.read[i] = Idle] IN
     Watch(IF r.status = "active" THEN Scheduled(done, r.next)
           ELSE [done EXCEPT !.triggered = Never])
  /\ NoFault /\ UNCHANGED box

(* The file cannot be read: its timer was cancelled and none is set.       *)
ReloadFails(i) ==
  /\ watcher.read[i] # Idle
  /\ Watch([watcher EXCEPT !.read[i] = Idle, !.dropped = TRUE])
  /\ Fault /\ UNCHANGED box

Fired(memory, k) == [memory EXCEPT !.timers = @ \ {k}, !.mapped = Never]

TimerFires(k) ==
  /\ k \in watcher.timers /\ k <= now
  /\ Watch(Scheduled(Fired(watcher, k), k))
  /\ NoFault /\ UNCHANGED box

(* outbox.enqueue: a key that was used before keeps its record.            *)
EnqueueReminder(k) ==
  /\ k \in watcher.enqueuing
  /\ Watch([watcher EXCEPT !.enqueuing = @ \ {k}])
  /\ box' = [box EXCEPT ![k] = IF @ = "none" THEN "due" ELSE @]
  /\ NoFault

(* The outbox cannot be written: a timer tries again.                      *)
EnqueueFails(k) ==
  /\ k \in watcher.enqueuing
  /\ Watch([watcher EXCEPT !.enqueuing = @ \ {k}, !.timers = @ \union {k}, !.mapped = k,
                           !.triggered = IF @ = k THEN Never ELSE @])
  /\ Fault /\ UNCHANGED box

(***************************************************************************)
(* #fireReminder, the outbox handler.                                      *)
(***************************************************************************)

Recent(record) == {t \in record.recent : now - t < Window}
Earliest(times) == CHOOSE t \in times : \A u \in times : t <= u

Current_Unchecked(record, k) == record.status = "active"
Current(record, k) == record.status = "active" /\ record.next = k

Limited_OneMore(record) == Cardinality(Recent(record)) > MaxFires
Limited(record) == Cardinality(Recent(record)) >= MaxFires

Fire(pc, k, record) == fire' = [pc |-> pc, key |-> k, record |-> record]
FireGoes(pc) == fire' = [fire EXCEPT !.pc = pc]
FireEnds(verdict) == fire' = Idle /\ box' = [box EXCEPT ![fire.key] = verdict]
Firing(pc) == fire # Idle /\ fire.pc = pc

BeginFire(k) ==
  /\ up /\ fire = Idle /\ box[k] = "due"
  /\ IF ~Current(file, k) THEN fire' = Idle /\ box' = [box EXCEPT ![k] = "done"]
     ELSE Fire(IF Limited(file) THEN "put off" ELSE "send", k, file) /\ UNCHANGED box
  /\ NoFault /\ UNCHANGED <<now, file, message, watching, hand, observers, changes>>

(* The reminder has fired often enough: the next time that is allowed.     *)
PutOff ==
  /\ Firing("put off")
  /\ LET recent == Recent(fire.record) IN
     Write([fire.record EXCEPT !.next = Earliest(recent) + Window, !.recent = recent], fire.record)
  /\ FireEnds("done")
  /\ NoFault /\ UNCHANGED <<now, message, up, hand, posts, cut, left, missed, loose, changes>>

\* The nonce makes Discord answer a repeated send with the first message.
Post(k) ==
  IF message[k] = "none"
  THEN message' = [message EXCEPT ![k] = "live"] /\ posts' = posts \union {[key |-> k, at |-> now]}
  ELSE UNCHANGED <<message, posts>>

Send ==
  /\ Firing("send")
  /\ Post(fire.key)
  /\ FireGoes("sent")
  /\ NoFault /\ UNCHANGED <<now, file, box, watching, hand, raced, cut, left, missed, loose, changes>>

(* The answer is lost, or nothing was posted: the outbox tries again.      *)
SendFails ==
  /\ Firing("send")
  /\ Post(fire.key) \/ UNCHANGED <<message, posts>>
  /\ cut' = IF message' # message THEN cut \union {fire.key} ELSE cut
  /\ FireEnds("due")
  /\ Fault /\ UNCHANGED <<now, file, watching, hand, raced, left, missed, loose, changes>>

(* The target is no text channel any more: PermanentDeliveryError.         *)
TargetMissing ==
  /\ Firing("send") /\ message[fire.key] = "none"
  /\ FireEnds("failed")
  /\ Fault /\ UNCHANGED <<now, file, message, watching, hand, observers, changes>>

Withdraw ==
  /\ message' = [message EXCEPT ![fire.key] = "off"]
  /\ posts' = {post \in posts : post.key # fire.key}

(* The file is read again: whoever handled or moved the reminder meanwhile *)
(* could not know of the message.                                          *)
Reread ==
  /\ Firing("sent")
  /\ IF Current(file, fire.key)
     THEN fire' = [fire EXCEPT !.pc = "record", !.record = file] /\ UNCHANGED <<box, message, posts>>
     ELSE Withdraw /\ FireEnds("done")
  /\ NoFault /\ UNCHANGED <<now, file, watching, hand, raced, cut, left, missed, loose, changes>>

Newest(times) == IF Cardinality(times) > MaxFires THEN times \ {Earliest(times)} ELSE times

\* The follow-up is due one interval later.
Recorded_LatestOnly(record, k) ==
  [record EXCEPT !.next = now + 1, !.refs = {k},
                 !.recent = Newest(Recent(record) \union {now})]
Recorded(record, k) ==
  [record EXCEPT !.next = now + 1, !.refs = @ \union {k},
                 !.recent = Newest(Recent(record) \union {now})]

Record ==
  /\ Firing("record")
  /\ Write(Recorded(fire.record, fire.key), fire.record)
  /\ FireEnds("done")
  /\ NoFault /\ UNCHANGED <<now, message, up, hand, posts, cut, left, missed, loose, changes>>

(* The file cannot be read, before or after the message was sent: that is  *)
(* taken for a reminder that is gone, and the delivery is complete.        *)
FireMisses(k) ==
  /\ \/ up /\ fire = Idle /\ box[k] = "due" /\ UNCHANGED <<fire, message, posts>>
        /\ box' = [box EXCEPT ![k] = "done"]
     \/ Firing("sent") /\ fire.key = k /\ Withdraw /\ FireEnds("done")
  /\ missed' = TRUE
  /\ Fault /\ UNCHANGED <<now, file, watching, hand, raced, cut, left, loose, changes>>

(* The delivery is aborted, or the file cannot be written: the outbox      *)
(* tries again.                                                            *)
FireFails ==
  /\ Firing("put off") \/ Firing("sent") \/ Firing("record")
  /\ FireEnds("due")
  /\ cut' = IF Firing("put off") THEN cut ELSE cut \union {fire.key}
  /\ Fault /\ UNCHANGED <<now, file, message, watching, hand, posts, raced, left, missed, loose, changes>>

(***************************************************************************)
(* Buttons and helpers.                                                    *)
(***************************************************************************)

\* The next multiple of Cycle.
NextRun == now - (now % Cycle) + Cycle

\* completedReminder
Completed(record) ==
  IF record.recurs THEN [record EXCEPT !.next = NextRun, !.refs = {}]
  ELSE [record EXCEPT !.status = "done"]

Changed(kind, record) ==
  CASE kind \in {"done", "helper done"} -> Completed(record)
    [] kind \in {"delete", "helper delete"} -> [record EXCEPT !.status = "deleted"]
    [] kind = "snooze" -> [record EXCEPT !.next = now + Snooze]
    [] kind = "helper snooze" -> [record EXCEPT !.status = "active", !.next = now + Snooze]
    [] kind = "helper recurrence" -> record        \* but for what is abstracted

Button == {"done", "snooze", "delete"}
Helper == {"helper done", "helper snooze", "helper delete", "helper recurrence"}

\* A button is refused if the reminder is handled already.
Accepts(kind, record) ==
  CASE kind \in {"done", "snooze"} -> record.status = "active"
    [] kind = "delete" -> record.status # "deleted"
    [] OTHER -> TRUE

\* Done is pressed under a message, the others in a menu opened there.
Offered(kind) ==
  \/ kind \in Helper
  \/ kind = "done" /\ up /\ \E k \in Time : message[k] = "live"
  \/ kind \in {"snooze", "delete"} /\ up /\ \E k \in Time : message[k] # "none"

BeginChange(h, kind) ==
  /\ changes < MaxChanges /\ hand[h] = Idle
  /\ Offered(kind) /\ Accepts(kind, file)
  /\ hand' = [hand EXCEPT ![h] = [pc |-> "write", kind |-> kind, record |-> file]]
  /\ changes' = changes + 1
  /\ NoFault /\ UNCHANGED <<now, file, box, message, watching, fire, observers>>

WriteChange(h) ==
  /\ hand[h] # Idle /\ hand[h].pc = "write"
  /\ LET c == hand[h] IN
     /\ Write(Changed(c.kind, c.record), c.record)
     /\ hand' = [hand EXCEPT ![h] = IF c.kind \in Button THEN [c EXCEPT !.pc = "clean"] ELSE Idle]
     /\ loose' = (loose \/ c.kind \in Helper)
  /\ NoFault /\ UNCHANGED <<now, box, message, up, fire, posts, cut, left, missed, changes>>

Cleaning(h) == hand[h] # Idle /\ hand[h].pc = "clean"

(* The messages that the record named when it was read are disabled or     *)
(* deleted, each by itself. One whose channel cannot be fetched or is no   *)
(* text channel, or that Discord refuses to change, is passed over.        *)
CleanUp(h) ==
  /\ Cleaning(h)
  /\ \E failed \in SUBSET hand[h].record.refs :
       /\ message' = [k \in Time |->
                        IF k \in hand[h].record.refs \ failed THEN "off" ELSE message[k]]
       /\ left' = left \union failed
       /\ IF failed = {} THEN NoFault ELSE Fault
  /\ hand' = [hand EXCEPT ![h] = Idle]
  /\ UNCHANGED <<now, file, box, watching, fire, posts, raced, cut, missed, loose, changes>>

(***************************************************************************)
(* The environment.                                                        *)
(***************************************************************************)

(* Timers and handlers are lost, the records in the outbox stay; a helper  *)
(* runs in a process of its own and goes on.                               *)
Crash ==
  /\ up /\ up' = FALSE /\ watcher' = Asleep
  /\ fire' = Idle
  /\ cut' = IF Firing("sent") \/ Firing("record") THEN cut \union {fire.key} ELSE cut
  /\ left' = left \union UNION {hand[h].record.refs : h \in {g \in Hand : Cleaning(g)}}
  /\ hand' = [h \in Hand |->
                IF hand[h] # Idle /\ hand[h].kind \in Button THEN Idle ELSE hand[h]]
  /\ Fault /\ UNCHANGED <<now, file, box, message, posts, raced, missed, loose, changes>>

(* A follow-up interval is at least an hour: changes, handlers and the     *)
(* watcher are faster, a record that is due in the outbox need not be.     *)
Tick ==
  /\ now < Horizon /\ now' = now + 1
  /\ fire = Idle /\ \A h \in Hand : hand[h] = Idle
  /\ up => /\ ~watcher.changed /\ watcher.enqueuing = {}
           /\ \A i \in Reload : watcher.read[i] = Idle
           /\ \A k \in watcher.timers : k > now
  /\ NoFault
  /\ UNCHANGED <<file, box, message, watching, fire, hand, observers, changes>>

Watching ==
  \/ \E i \in Reload : BeginReload(i) \/ EndReload(i)
  \/ \E k \in Time : TimerFires(k) \/ EnqueueReminder(k)

Delivering == (\E k \in Time : BeginFire(k)) \/ PutOff \/ Send \/ Reread \/ Record

Next ==
  \/ Tick \/ Start \/ Crash \/ Watching \/ Delivering
  \/ SendFails \/ TargetMissing \/ FireFails
  \/ \E k \in Time : EnqueueFails(k) \/ FireMisses(k)
  \/ \E i \in Reload : ReloadFails(i)
  \/ \E h \in Hand :
       (\E kind \in Button \union Helper : BeginChange(h, kind)) \/ WriteChange(h) \/ CleanUp(h)

(* The host keeps the process running; timers fire, files and Discord      *)
(* answer.                                                                 *)
Fairness == WF_vars(Start) /\ WF_vars(Watching) /\ WF_vars(Delivering)

Spec == Init /\ [][Next]_vars
FairSpec == Spec /\ Fairness
(***************************************************************************)
(* Properties.                                                             *)
(***************************************************************************)

Instant == 0 .. Horizon + Window + Snooze + Cycle
Content ==
  [status : {"active", "done", "deleted"}, next : Instant, recent : SUBSET Time,
   refs : SUBSET Time, recurs : BOOLEAN]

(* The shape of the state.                                                 *)
TypeOK ==
  /\ now \in Time
  /\ file \in Content /\ Cardinality(file.recent) <= MaxFires
  /\ box \in [Time -> {"none", "due", "done", "failed"}]
  /\ message \in [Time -> {"none", "live", "off"}]
  /\ watcher.timers \subseteq Instant /\ watcher.enqueuing \subseteq Time
  /\ watcher.mapped \in watcher.timers \union {Never} /\ watcher.triggered \in Time \union {Never}
  /\ \A i \in Reload : watcher.read[i] = Idle \/ watcher.read[i].record \in Content
  /\ fire = Idle \/ (fire.key \in Time /\ fire.record \in Content /\ box[fire.key] = "due")
  /\ \A h \in Hand : hand[h] = Idle \/ hand[h].record \in Content
  /\ watcher.dropped \in BOOLEAN /\ cut \subseteq Time /\ left \subseteq Time
  /\ changes \in 0 .. MaxChanges /\ faults \in 0 .. MaxFaults

\* What was posted in the window that begins at t.
Within(t) == {p \in posts : t <= p.at /\ p.at < t + Window}

AtRest == fire = Idle /\ \A h \in Hand : hand[h] = Idle

(* "... and no more than 3 fires in a rolling 24-hour window"              *)
(* (docs/partners/interacting.md:90-92): the limit rests on a list in the  *)
(* file, and holds for the messages that were posted (and not withdrawn    *)
(* because the reminder was handled on their way), over retries, snoozes   *)
(* and recurrences, unless a write was lost or a fire cut short between    *)
(* its message and the file. The list itself, part of the shape, never     *)
(* grows past the limit. (The other half of that sentence, an hour between *)
(* two follow-ups, is the tick itself.)                                    *)
FiresAreLimited ==
  /\ TypeOK
  /\ \/ raced \/ cut # {}
     \/ /\ \A p, q \in posts : p.at = q.at => p = q
        /\ \A p \in posts : Cardinality(Within(p.at)) <= MaxFires

(* Whenever nobody is at work, a message whose buttons live is named by    *)
(* the record, and none is left when the reminder was handled, though it   *)
(* may have been on its way when Done, Snooze or Delete was pressed, but   *)
(* for the messages of fires that were cut short and those that a clean-up *)
(* could not reach or did not live to reach. The exceptions for all: a     *)
(* lost write, and the helpers, which leave the messages alone.            *)
LiveMessagesAreTracked ==
  \/ raced \/ loose
  \/ AtRest => \A k \in Time \ (cut \union left) :
                 message[k] = "live" => file.status = "active" /\ k \in file.refs

Due == file.status = "active" /\ file.next <= now

(* A reminder that is due is posted, put off or handled in the end, over   *)
(* crashes, failed calls, late and outdated reloads and leaked timers,     *)
(* unless its target is gone, or a reload could not read the file and none *)
(* was begun since: the watcher has cancelled the timer by then, and waits *)
(* for another change of the file. It never waits for a fire whose outbox  *)
(* key is spent, and which enqueue would therefore drop, but after a write *)
(* that rested on an outdated read has turned its schedule back, or a fire *)
(* that could not read the file was taken for done.                        *)
DueReminderFires ==
  Due ~> \/ ~Due \/ watcher.dropped \/ box[file.next] = "failed"
         \/ box[file.next] = "done" /\ (raced \/ missed)
=============================================================================
