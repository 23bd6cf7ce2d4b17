---------------------------- MODULE EventWatcher ----------------------------
(***************************************************************************)
(* One scheduled event of the Discord surface: its file                    *)
(* (src/src/surfaces/discord/events/store.ts), which turns in other        *)
(* processes write and delete, and the EventWatcher of the bot's process   *)
(* (events/watcher.ts), which turns it into records of the outbox and      *)
(* deletes it once it has fired.                                           *)
(*                                                                         *)
(* #handleFileChange cancels what it finds scheduled, awaits the file and  *)
(* schedules what it has read; #triggerAndDelete awaits the outbox and     *)
(* deletes the file, whatever that says by then.  A step is what runs      *)
(* between two awaits.  A periodic event is due at every tick.             *)
(*                                                                         *)
(* No name here is one of module Reminders: Schedules_proof extends both.  *)
(***************************************************************************)
EXTENDS Integers, FiniteSets

CONSTANTS
  Look,       \* reloads of the file that may be under way at a time (bound)
  MaxArmed,   \* timers and crons there may be at a time (bound)
  LastTick,   \* the last tick (bound)
  MaxEdits,   \* writes and deletions by turns (bound)
  MaxFailures \* crashes and failed calls (bound)

ASSUME EventAssumption ==
  /\ MaxArmed \in Nat \ {0} /\ LastTick \in Nat \ {0}
  /\ MaxEdits \in Nat \ {0} /\ MaxFailures \in Nat

VARIABLES
  clock,      \* the clock
  event,      \* the event in the file, or NoEvent
  recorded,   \* recorded[o]: the event recorded in the outbox for occurrence o
  bot,        \* "down", "watching", or "stopped": up, but not watching
  notices,    \* what makes the watcher look at the file
  read,       \* reloads under way
  armed,      \* timers and crons, also those the watcher has lost sight of
  mapped,     \* those in #timers and #crons
  firing,     \* triggers under way, and those that wait for a retry
  edits, failures,
  \* observers
  unread,     \* a reload failed, and none was begun since
  overlapped, \* two reloads were under way at once
  overtaken   \* events deleted by the trigger of another

memory == <<notices, read, armed, mapped, unread>>
eventObservers == <<overlapped, overtaken>>
eventVars == <<clock, event, recorded, bot, memory, firing, edits, failures, eventObservers>>

EventTime == 0 .. LastTick
Slot == 1 .. MaxArmed
Version == 1 .. MaxEdits

\* "made" is createdAt, which every write draws anew.
Event ==
  [kind : {"one-shot"}, at : 1 .. LastTick, made : Version] \union
  [kind : {"immediate", "periodic"}, at : {0}, made : Version]
NoEvent == [kind |-> "none"]

\* <<t, m>>: a tick and the milliseconds after it, which a one-shot event has
\* none of, and two crons may share or not; <<-1, n>>: when version n was made.
Late == {1, 2}
Occurrence == (EventTime \X ({0} \union Late)) \union ({-1} \X Version)
OccurrenceOf(e) == IF e.kind = "one-shot" THEN <<e.at, 0>> ELSE <<-1, e.made>>

Trigger(e, o) == [event |-> e, occurrence |-> o, at |-> "enqueue"]

Off == [event |-> NoEvent, next |-> 0]
NoLook == [seen |-> {}]

EventInit ==
  /\ clock = 0 /\ event = NoEvent
  /\ recorded = [o \in Occurrence |-> NoEvent]
  /\ bot = "down"
  /\ notices = {} /\ read = [i \in Look |-> NoLook]
  /\ armed = [s \in Slot |-> Off] /\ mapped = {} /\ unread = FALSE
  /\ firing = {}
  /\ edits = 0 /\ failures = 0
  /\ overlapped = FALSE /\ overtaken = {}

Failure == failures < MaxFailures /\ failures' = failures + 1
NoFailure == UNCHANGED failures

Up == bot # "down"
IsWatching == bot = "watching"

(* The file is replaced or deleted: fs.watch hears of it.                  *)
SetFile(e) ==
  /\ event' = e
  /\ notices' = IF IsWatching /\ event # e THEN notices \union {"change"} ELSE notices

(***************************************************************************)
(* Looking at the file.                                                    *)
(***************************************************************************)

Forgotten ==
  /\ armed' = [s \in Slot |-> Off] /\ mapped' = {} /\ unread' = FALSE

(* The watch is installed before the directory is scanned.                 *)
StartWatching ==
  /\ ~Up
  /\ bot' = "watching" /\ notices' = {"scan"}
  /\ NoFailure
  /\ UNCHANGED <<clock, event, recorded, read, armed, mapped, unread, firing, edits, eventObservers>>

Retries == {t \in firing : t.at = "retry"}

Cancelled_Timers ==
  /\ armed' = [s \in Slot |-> IF s \in mapped /\ armed[s].event.kind = "one-shot" THEN Off ELSE armed[s]]
  /\ mapped' = {} /\ firing' = firing \ Retries

\* #cancel: what is in the maps, and all retries.
Cancelled ==
  /\ armed' = [s \in Slot |-> IF s \in mapped THEN Off ELSE armed[s]]
  /\ mapped' = {} /\ firing' = firing \ Retries

(* #handleFileChange up to its await: after 200 ms without another change, *)
(* or for the scan.                                                        *)
BeginLook(i, why) ==
  /\ IsWatching /\ why \in notices /\ read[i] = NoLook
  /\ Cancelled
  /\ notices' = notices \ {why}
  /\ read' = [read EXCEPT ![i] = [seen |-> {event}]]
  /\ unread' = FALSE /\ overlapped' = (overlapped \/ \E j \in Look : read[j] # NoLook)
  /\ NoFailure /\ UNCHANGED <<clock, event, recorded, bot, edits, overtaken>>

SameKind(e) == {s \in mapped : armed[s].event.kind = e.kind}

\* A timer or cron is set and entered in its map, in the place of another.
Arm(e, next) ==
  \E s \in Slot :
    /\ armed[s] = Off /\ \A r \in 1 .. s - 1 : armed[r] # Off
    /\ armed' = [armed EXCEPT ![s] = [event |-> e, next |-> next]]
    /\ mapped' = (mapped \ SameKind(e)) \union {s}
    /\ UNCHANGED firing

TriggersNow(t) == firing' = firing \union {t} /\ UNCHANGED <<armed, mapped>>

\* #schedule
Schedule(e) ==
  CASE e.kind = "periodic" -> Arm(e, clock + 1)
    [] e.kind = "one-shot" /\ e.at > clock -> Arm(e, e.at)
    [] OTHER -> TriggersNow(Trigger(e, OccurrenceOf(e)))

(* ... and after it.  What was read is what the file said when it was      *)
(* opened, or what it says now.                                            *)
EndLook(i) ==
  /\ Up /\ read[i] # NoLook
  /\ read' = [read EXCEPT ![i] = NoLook]
  /\ \E e \in read[i].seen \union {event} :
       IF IsWatching /\ e # NoEvent THEN Schedule(e) ELSE UNCHANGED <<armed, mapped, firing>>
  /\ NoFailure /\ UNCHANGED <<clock, event, recorded, bot, notices, unread, edits, eventObservers>>

(* The file cannot be read, parsed or scheduled: nothing is any more.      *)
LookFails(i) ==
  /\ Up /\ read[i] # NoLook
  /\ read' = [read EXCEPT ![i] = NoLook] /\ unread' = TRUE
  /\ Failure
  /\ UNCHANGED <<clock, event, recorded, bot, notices, armed, mapped, firing, edits, eventObservers>>

(* A timer of #scheduleOneShot: it takes out of the map what is there.     *)
TimerTriggers(s) ==
  LET e == armed[s].event IN
  /\ e.kind = "one-shot" /\ armed[s].next <= clock
  /\ armed' = [armed EXCEPT ![s] = Off] /\ mapped' = mapped \ SameKind(e)
  /\ firing' = firing \union {Trigger(e, OccurrenceOf(e))}
  /\ NoFailure /\ UNCHANGED <<clock, event, recorded, bot, notices, read, unread, edits, eventObservers>>

CronTriggers(s) ==
  LET e == armed[s].event IN
  /\ e.kind = "periodic" /\ armed[s].next <= clock
  /\ armed' = [armed EXCEPT ![s].next = clock + 1]
  /\ \E m \in Late : firing' = firing \union {Trigger(e, <<clock, m>>)}
  /\ NoFailure
  /\ UNCHANGED <<clock, event, recorded, bot, notices, read, mapped, unread, edits, eventObservers>>

(***************************************************************************)
(* Firing: #triggerPeriodic, #triggerAndDelete.                            *)
(***************************************************************************)

Becomes(t, label) == firing' = (firing \ {t}) \union {[t EXCEPT !.at = label]}
Ends(t) == firing' = firing \ {t}

Failed_Swallowed(t) == Becomes(t, "delete")

\* #scheduleTriggerRetry: one retry per occurrence.
Failed(t) ==
  IF IsWatching /\ \A r \in Retries : r.occurrence # t.occurrence
  THEN Becomes(t, "retry") ELSE Ends(t)

EventRecorded(t) == recorded' = [recorded EXCEPT ![t.occurrence] = t.event]
Reused(t) == recorded[t.occurrence] \notin {NoEvent, t.event}

\* An event that is not periodic has its file deleted next.
Enqueued(t) == IF t.event.kind = "periodic" THEN Ends(t) ELSE Becomes(t, "delete")

(* DurableOutbox.enqueue                                                   *)
Enqueue(t) ==
  /\ t.at = "enqueue" /\ ~Reused(t)
  /\ EventRecorded(t) /\ Enqueued(t)
  /\ NoFailure /\ UNCHANGED <<clock, event, bot, memory, edits, eventObservers>>

(* ... refuses a key that was used for other work.                         *)
Refuse(t) ==
  /\ t.at = "enqueue" /\ Reused(t)
  /\ Failed(t)
  /\ NoFailure /\ UNCHANGED <<clock, event, recorded, bot, memory, edits, eventObservers>>

(* ... cannot write the store, or not be sure that it has.                 *)
RecordingFails(t) ==
  /\ t.at = "enqueue" /\ Failed(t)
  /\ \/ UNCHANGED recorded
     \/ ~Reused(t) /\ EventRecorded(t)
  /\ Failure /\ UNCHANGED <<clock, event, bot, memory, edits, eventObservers>>

(* deleteEvent: the file of that id, whatever is in it.                    *)
Delete(t) ==
  /\ t.at = "delete"
  /\ SetFile(NoEvent) /\ Ends(t)
  /\ overtaken' = IF event \in {NoEvent, t.event} THEN overtaken ELSE overtaken \union {event.made}
  /\ NoFailure
  /\ UNCHANGED <<clock, recorded, bot, read, armed, mapped, unread, edits, overlapped>>

DeleteFails(t) ==
  /\ t.at = "delete" /\ Failed(t)
  /\ Failure /\ UNCHANGED <<clock, event, recorded, bot, memory, edits, eventObservers>>

Retry(t) ==
  /\ t.at = "retry" /\ Becomes(t, "enqueue")
  /\ NoFailure /\ UNCHANGED <<clock, event, recorded, bot, memory, edits, eventObservers>>

(***************************************************************************)
(* The world around.                                                       *)
(***************************************************************************)

Change == edits < MaxEdits /\ edits' = edits + 1

(* createEvent, event_create: a new event, or another under its id.        *)
WriteEvent(e) ==
  /\ Change /\ e.made = edits + 1
  /\ SetFile(e)
  /\ NoFailure
  /\ UNCHANGED <<clock, recorded, bot, read, armed, mapped, unread, firing, eventObservers>>

(* cancelEvent, event_cancel                                               *)
CancelEvent ==
  /\ Change /\ event # NoEvent
  /\ SetFile(NoEvent)
  /\ NoFailure
  /\ UNCHANGED <<clock, recorded, bot, read, armed, mapped, unread, firing, eventObservers>>

(* The bot stops, or fs.watch reports an error: what is under way goes on. *)
StopWatching ==
  /\ IsWatching
  /\ bot' = "stopped" /\ notices' = {} /\ Forgotten
  /\ firing' = firing \ Retries
  /\ Failure /\ UNCHANGED <<clock, event, recorded, read, edits, eventObservers>>

(* The process ends.                                                       *)
ProcessEnds ==
  /\ Up
  /\ bot' = "down" /\ notices' = {} /\ Forgotten
  /\ read' = [i \in Look |-> NoLook] /\ firing' = {}
  /\ Failure /\ UNCHANGED <<clock, event, recorded, edits, eventObservers>>

(* Timers fire in time.                                                    *)
ClockTicks ==
  /\ clock < LastTick /\ clock' = clock + 1
  /\ \A s \in Slot : armed[s] # Off => armed[s].next > clock
  /\ NoFailure /\ UNCHANGED <<event, recorded, bot, memory, firing, edits, eventObservers>>

Looking ==
  \E i \in Look : EndLook(i) \/ \E why \in notices : BeginLook(i, why)

EventNext ==
  \/ StartWatching \/ StopWatching \/ ProcessEnds \/ ClockTicks \/ Looking
  \/ \E i \in Look : LookFails(i)
  \/ \E s \in Slot : TimerTriggers(s) \/ CronTriggers(s)
  \/ \E t \in firing :
       Enqueue(t) \/ Refuse(t) \/ RecordingFails(t) \/ Delete(t) \/ DeleteFails(t) \/ Retry(t)
  \/ \E e \in Event : WriteEvent(e)
  \/ CancelEvent

(* The host starts the process; files answer, timers fire.  Each           *)
(* occurrence has its own retry timer: one that is refused over and over   *)
(* does not hold up the others.                                            *)
EventFairness ==
  /\ WF_eventVars(StartWatching) /\ WF_eventVars(Looking)
  /\ WF_eventVars(\E s \in Slot : TimerTriggers(s) \/ CronTriggers(s))
  /\ WF_eventVars(\E t \in firing : Enqueue(t)) /\ WF_eventVars(\E t \in firing : Delete(t))
  /\ \A o \in Occurrence : WF_eventVars(\E t \in Retries : t.occurrence = o /\ Retry(t))

EventSpec == EventInit /\ [][EventNext]_eventVars
EventFairSpec == EventSpec /\ EventFairness

(***************************************************************************)
(* Properties.                                                             *)
(***************************************************************************)

(* The shape of the state: what is entered in the maps is armed, there is  *)
(* one retry per occurrence, and a watcher that stopped has none of either.*)
EventTypeOK ==
  /\ clock \in EventTime /\ event \in Event \union {NoEvent}
  /\ recorded \in [Occurrence -> Event \union {NoEvent}]
  /\ bot \in {"down", "watching", "stopped"} /\ notices \subseteq {"scan", "change"}
  /\ \A i \in Look : read[i] = NoLook \/ \E e \in Event \union {NoEvent} : read[i] = [seen |-> {e}]
  /\ \A s \in Slot : armed[s] = Off \/ (armed[s].event \in Event /\ armed[s].next \in 1 .. LastTick + 1)
  /\ \A s \in mapped : armed[s] # Off
  /\ \A t \in firing :
       t.event \in Event /\ t.occurrence \in Occurrence /\ t.at \in {"enqueue", "delete", "retry"}
  /\ \A t, u \in Retries : t.occurrence = u.occurrence => t = u
  /\ ~IsWatching => mapped = {} /\ Retries = {}

\* The watcher has taken notice of everything that happened to the file.
Settled == IsWatching /\ notices = {} /\ \A i \in Look : read[i] = NoLook

Armed == {s \in Slot : armed[s] # Off}

(* Once the watcher has looked at every change of the file, exactly what   *)
(* the file says is scheduled, or under way, and nothing the file has said *)
(* before: an event is "periodic ... until cancelled" (docs/developers/    *)
(* current-state.md:582-583), over failed triggers, late reads, deletions  *)
(* by its own triggers, stops and restarts.  The exceptions: the file      *)
(* could not be read, or two reloads have overlapped, of which each armed  *)
(* a timer or cron and only the last is ever cancelled.                    *)
ScheduleIsTheFiles ==
  /\ EventTypeOK
  /\ Settled /\ ~overlapped /\ ~unread =>
       /\ \A s \in Armed : s \in mapped /\ armed[s].event = event
       /\ Cardinality(Armed) <= 1
       /\ event # NoEvent =>
            Armed # {} \/ \E t \in firing : t.occurrence = OccurrenceOf(event)

EventIsDue ==
  event # NoEvent /\ (event.kind = "immediate" \/ (event.kind = "one-shot" /\ event.at <= clock))

(* An immediate event, and a one-shot event whose time has come, is in the *)
(* outbox in the end, over crashes, failed calls, overlapping reloads and  *)
(* timers that were lost sight of, unless somebody replaces or cancels it  *)
(* first, the file cannot be read, or the watch broke.  The event is also  *)
(* lost when the trigger of another deletes its file: of one it replaced   *)
(* on its way, or of a leaked timer.  And it cannot be recorded if another *)
(* event of the same id was, for the same time.                            *)
DueEventsFire ==
  \A n \in Version :
    EventIsDue /\ event.made = n ~>
      \/ edits # n
      \/ \E o \in Occurrence : recorded[o] # NoEvent /\ recorded[o].made = n
      \/ n \in overtaken
      \/ (event # NoEvent /\ recorded[OccurrenceOf(event)] \notin {NoEvent, event})
      \/ unread \/ bot = "stopped"
=============================================================================
