---------------------------- MODULE DiscordTurns ----------------------------
(***************************************************************************)
(* One Discord process and its restarts: the in-memory ThreadQueue that    *)
(* runs one turn per conversation (src/lib/turns/turn-queue.ts), the       *)
(* TurnJournal that remembers owed turns (src/lib/turns/turn-journal.ts),  *)
(* the bot that feeds both from messages, replays and events (sandi-       *)
(* bot.ts), and the drain of its outbox that posts responses and runs      *)
(* event turns.                                                            *)
(*                                                                         *)
(* Of the outbox (module DurableOutbox) only what the turns meet is kept:  *)
(* a record is due, put off, or settled; a drain is one loop that others   *)
(* wait for; a record a dead process was working on is due again.          *)
(*                                                                         *)
(* An operator named Op_Mistake stands before Op and is Op with a          *)
(* plausible mistake in it: the properties are tested against these.       *)
(***************************************************************************)
EXTENDS Naturals, Sequences, FiniteSets

CONSTANTS
  Message,      \* Discord messages that ask for a turn
  Event,        \* event occurrences that ask for a turn
  Conversation, \* queue keys
  ConvOf,       \* ConvOf[t]: the conversation of message or event t
  NoTurn,       \* "nothing"
  MaxAttempts,  \* maxAttempts of the journal
  MaxStarts,    \* how often the process is started (bound)
  MaxFaults     \* provider, platform and store failures (bound)

Turn == Message \union Event

ASSUME TurnsAssumption ==
  /\ Message \intersect Event = {} /\ NoTurn \notin Turn
  /\ {"none", "timer"} \intersect Conversation = {}
  /\ ConvOf \in [Turn -> Conversation]
  /\ MaxAttempts \in Nat \ {0} /\ MaxStarts \in Nat /\ MaxFaults \in Nat

VARIABLES
  phase,     \* where the bot is between login and exit
  journal,   \* journal[m]: the entry of m, on disk
  outbox,    \* outbox[k]: the record of key k, on disk
  queue,     \* queue[c]: turns waiting in conversation c
  active,    \* active[c]: the turn running in c, and how far it is
  drain,     \* the drain of the outbox
  replay,    \* entries #replayOwedTurns has still to look at
  checked,   \* the entry it has found without a response
  starts,    \* how often the process was started
  faults,    \* how many faults have happened
  accepted,  \* observer: messages whose turn was ever journaled
  concluded, \* observer: messages answered or told of a failure, or gone
  dropped,   \* observer: messages given up by age or attempts
  overlapped,\* observer: messages replayed while their live turn was there
  ran        \* observer: ran[m], how often a turn of m was begun

disk == <<journal, outbox>>
memory == <<phase, queue, active, drain, replay, checked>>
observers == <<accepted, concluded, dropped, overlapped, ran>>
vars == <<disk, memory, starts, faults, observers>>

Response(t) == <<"response", t>>     \* discord:response:<t>
Order(e) == <<"event", e>>           \* discord:event:<e>
Key == {Response(t) : t \in Turn} \union {Order(e) : e \in Event}

NoEntry == [owed |-> FALSE, attempts |-> 0, old |-> FALSE]
NoJob == [turn |-> NoTurn, at |-> "none"]
NoDrain == [at |-> "idle", scope |-> {}, by |-> "none", key |-> <<>>]

Init ==
  /\ phase = "down"
  /\ journal = [m \in Message |-> NoEntry]
  /\ outbox = [k \in Key |-> "none"]
  /\ queue = [c \in Conversation |-> <<>>]
  /\ active = [c \in Conversation |-> NoJob]
  /\ drain = NoDrain
  /\ replay = {} /\ checked = NoTurn
  /\ starts = 0 /\ faults = 0
  /\ accepted = {} /\ concluded = {} /\ dropped = {} /\ overlapped = {}
  /\ ran = [m \in Message |-> 0]

Up == phase # "down"
Running == phase \in {"replaying", "up"}        \* the outbox is started
Job(t, at) == [turn |-> t, at |-> at]
Fault == faults < MaxFaults /\ faults' = faults + 1
NoFault == UNCHANGED faults

Put(k, status) == outbox' = [outbox EXCEPT ![k] = status]
Push(t) == queue' = [queue EXCEPT ![ConvOf[t]] = Append(@, t)]
Runs(c, job) == active' = [active EXCEPT ![c] = job]

InQueue(t) ==
  \/ active[ConvOf[t]].turn = t
  \/ \E i \in DOMAIN queue[ConvOf[t]] : queue[ConvOf[t]][i] = t

(***************************************************************************)
(* Life cycle: #startOnce logs in and handles messages from then on, while *)
(* #initializeReady still looks for the forum.                             *)
(***************************************************************************)

Start ==
  /\ phase = "down" /\ starts < MaxStarts
  /\ phase' = "starting"
  /\ starts' = starts + 1
  /\ NoFault /\ UNCHANGED <<disk, queue, active, drain, replay, checked, observers>>

\* claimReplayable gives up on an entry: too old, or tried too often.
Exhausted(m) == journal[m].attempts + 1 > MaxAttempts

(* outbox.start() and claimReplayable: every entry kept is charged.        *)
ClaimReplayable ==
  /\ phase = "starting"
  /\ LET owed == {m \in Message : journal[m].owed}
         gone == {m \in owed : journal[m].old \/ Exhausted(m)}
     IN
     /\ journal' = [m \in Message |->
          IF m \in gone THEN NoEntry
          ELSE IF m \in owed THEN [journal[m] EXCEPT !.attempts = @ + 1]
          ELSE journal[m]]
     /\ replay' = owed \ gone
     /\ dropped' = dropped \union gone
     /\ overlapped' = overlapped \union {m \in owed \ gone : InQueue(m)}
  /\ phase' = "replaying"
  /\ NoFault /\ UNCHANGED <<outbox, queue, active, drain, checked, starts, accepted, concluded, ran>>

(* stop: no new messages, no timers, handlers are told to abort.           *)
Stop ==
  /\ phase \in {"starting", "replaying", "up"}
  /\ phase' = "stopping"
  /\ replay' = {}
  /\ NoFault /\ UNCHANGED <<disk, queue, active, drain, checked, starts, observers>>

(* The process is gone, after stop or in a crash.                          *)
Exit ==
  /\ Up
  /\ phase' = "down"
  /\ queue' = [c \in Conversation |-> <<>>]
  /\ active' = [c \in Conversation |-> NoJob]
  /\ drain' = NoDrain
  /\ replay' = {} /\ checked' = NoTurn
  /\ NoFault /\ UNCHANGED <<disk, starts, observers>>

(***************************************************************************)
(* Messages, replays and events.                                           *)
(***************************************************************************)

\* accept keeps the entry of a key it already has.
Accepted_Renewed(m) == [NoEntry EXCEPT !.owed = TRUE]
Accepted(m) == IF journal[m].owed THEN journal[m] ELSE [NoEntry EXCEPT !.owed = TRUE]

(* #enqueueDurableTurn: journal, then queue.                               *)
EnqueueDurableTurn(m) ==
  /\ journal' = [journal EXCEPT ![m] = Accepted(m)]
  /\ Push(m)
  /\ accepted' = accepted \union {m}

(* A live message has passed the gates of #handleMessage.                  *)
Live(m) ==
  /\ phase \in {"starting", "replaying", "up"} /\ m \notin accepted
  /\ EnqueueDurableTurn(m)
  /\ NoFault
  /\ UNCHANGED <<outbox, phase, active, drain, replay, checked, starts,
                 concluded, dropped, overlapped, ran>>

Time(m) ==
  /\ journal[m].owed /\ ~journal[m].old
  /\ journal' = [journal EXCEPT ![m].old = TRUE]
  /\ NoFault /\ UNCHANGED <<outbox, memory, starts, observers>>

Answered_Unchecked(t) == FALSE
Answered(t) == outbox[Response(t)] # "none"

(* #replayOwedTurns looks at the next entry: one whose response is durable *)
(* is settled.                                                             *)
ReplayCheck(m) ==
  /\ m \in replay /\ checked = NoTurn
  /\ replay' = replay \ {m}
  /\ IF Answered(m)
     THEN journal' = [journal EXCEPT ![m] = NoEntry] /\ UNCHANGED checked
     ELSE checked' = m /\ UNCHANGED journal
  /\ NoFault /\ UNCHANGED <<outbox, phase, queue, active, drain, starts, observers>>

(* Its message is fetched and handled again, which skips the gate. ...     *)
ReplayRun(m) ==
  /\ m = checked
  /\ EnqueueDurableTurn(m)
  /\ checked' = NoTurn
  /\ NoFault
  /\ UNCHANGED <<outbox, phase, active, drain, replay, starts,
                 concluded, dropped, overlapped, ran>>

(* ... or is gone, which settles the entry ...                             *)
ReplayGone(m) ==
  /\ m = checked
  /\ journal' = [journal EXCEPT ![m] = NoEntry]
  /\ concluded' = concluded \union {m}
  /\ checked' = NoTurn
  /\ Fault
  /\ UNCHANGED <<outbox, phase, queue, active, drain, replay, starts,
                 accepted, dropped, overlapped, ran>>

(* ... or fails (or is ignored by now), which leaves the entry in place.   *)
ReplayFails(m) ==
  /\ m = checked
  /\ checked' = NoTurn
  /\ Fault
  /\ UNCHANGED <<disk, phase, queue, active, drain, replay, starts, observers>>

(* The event and reminder watchers are started last.                       *)
ReplayDone ==
  /\ phase = "replaying" /\ replay = {} /\ checked = NoTurn
  /\ phase' = "up"
  /\ NoFault /\ UNCHANGED <<disk, queue, active, drain, replay, checked, starts, observers>>

(* The watcher hands an occurrence to enqueueDiscordEvent.                 *)
EventFires(e) ==
  /\ phase = "up" /\ outbox[Order(e)] = "none"
  /\ Put(Order(e), "due")
  /\ NoFault /\ UNCHANGED <<journal, memory, starts, observers>>

(***************************************************************************)
(* The turns of one conversation: ThreadQueue.#drain and #runTurn.         *)
(***************************************************************************)

Take(c) ==
  /\ active[c] = NoJob /\ queue[c] # <<>>
  /\ LET t == Head(queue[c]) IN
     /\ Runs(c, Job(t, IF t \in Event /\ phase = "stopping" THEN "failed" ELSE "run"))
     /\ ran' = IF t \in Message THEN [ran EXCEPT ![t] = @ + 1] ELSE ran
  /\ queue' = [queue EXCEPT ![c] = Tail(@)]
  /\ NoFault
  /\ UNCHANGED <<disk, phase, drain, replay, checked, starts,
                 accepted, concluded, dropped, overlapped>>

IsDelivering_Never == FALSE
IsDelivering == drain.at \in {"handling", "awaiting"}

Drain(scope, by) == [at |-> "claiming", scope |-> scope, by |-> by, key |-> <<>>]

(* The provider's answer is enqueued, then delivered by the turn itself    *)
(* unless a delivery is active: at once, or when the drain that is looking *)
(* for work has ended. An answer under a key that has one already throws.  *)
Answer(c) ==
  /\ active[c].at = "run"
  /\ LET t == active[c].turn
         k == Response(t)
     IN
     \/ /\ outbox[k] # "none"
        /\ Runs(c, Job(t, IF t \in Event THEN "failed" ELSE "done"))
        /\ UNCHANGED <<outbox, drain>>
     \/ /\ outbox[k] = "none"
        /\ Put(k, "due")
        /\ \/ IsDelivering /\ Runs(c, Job(t, "done")) /\ UNCHANGED drain
           \/ /\ ~IsDelivering /\ drain.at # "idle"
              /\ Runs(c, Job(t, "waiting")) /\ UNCHANGED drain
           \/ /\ ~IsDelivering /\ drain.at = "idle"
              /\ Runs(c, Job(t, "draining")) /\ drain' = Drain({k}, c)
  /\ NoFault
  /\ UNCHANGED <<journal, phase, queue, replay, checked, starts, observers>>

(* The turn ends without text to post, or a message's turn fails and its   *)
(* channel is told.                                                        *)
NoAnswer(c) ==
  /\ active[c].at = "run"
  /\ Runs(c, Job(active[c].turn, "done"))
  /\ NoFault /\ UNCHANGED <<disk, phase, queue, drain, replay, checked, starts, observers>>

(* An event's turn fails, or is aborted by /sandi stop or by the stop of   *)
(* the bot: the handler rejects.                                           *)
EventTurnFails(c) ==
  /\ active[c].at = "run" /\ active[c].turn \in Event
  /\ Runs(c, Job(active[c].turn, "failed"))
  /\ (phase = "stopping" /\ NoFault) \/ Fault
  /\ UNCHANGED <<disk, phase, queue, drain, replay, checked, starts, observers>>

(* `while (this.#draining) await this.#draining'                           *)
DrainForTurn(c) ==
  /\ active[c].at = "waiting" /\ drain.at = "idle"
  /\ drain' = Drain({Response(active[c].turn)}, c)
  /\ Runs(c, Job(active[c].turn, "draining"))
  /\ NoFault /\ UNCHANGED <<disk, phase, queue, replay, checked, starts, observers>>

Settles_EvenStopping(m) == TRUE
Settles(m) == phase # "stopping"

(* The finally block of #enqueueDurableTurn; the queue goes on.            *)
TurnEnds(c) ==
  /\ active[c].at \in {"done", "failed"} /\ active[c].turn \in Message
  /\ LET m == active[c].turn IN
     /\ journal' = IF Settles(m) THEN [journal EXCEPT ![m] = NoEntry] ELSE journal
     /\ concluded' = IF phase # "stopping" THEN concluded \union {m} ELSE concluded
  /\ Runs(c, NoJob)
  /\ NoFault
  /\ UNCHANGED <<outbox, phase, queue, drain, replay, checked, starts,
                 accepted, dropped, overlapped, ran>>

(* journal.settle rejects; the queue logs it and goes on.                  *)
SettleFails(c) ==
  /\ active[c].at = "done" /\ active[c].turn \in Message
  /\ concluded' = concluded \union {active[c].turn}
  /\ Runs(c, NoJob)
  /\ Fault
  /\ UNCHANGED <<disk, phase, queue, drain, replay, checked, starts,
                 accepted, dropped, overlapped, ran>>

(* The promise #executeEventTurn awaits is settled, and so is the record:  *)
(* completed, or put off for a retry.                                      *)
EventTurnEnds(c) ==
  /\ active[c].at \in {"done", "failed"} /\ active[c].turn \in Event
  /\ Put(Order(active[c].turn), IF active[c].at = "done" THEN "settled" ELSE "later")
  /\ drain' = [drain EXCEPT !.at = "claiming", !.key = <<>>]
  /\ Runs(c, NoJob)
  /\ NoFault /\ UNCHANGED <<journal, phase, queue, replay, checked, starts, observers>>

(***************************************************************************)
(* The drain of the outbox.                                                *)
(***************************************************************************)

TimerFires ==
  /\ Running /\ drain.at = "idle"
  /\ \E k \in Key : outbox[k] = "due"
  /\ drain' = Drain(Key, "timer")
  /\ NoFault /\ UNCHANGED <<disk, phase, queue, active, replay, checked, starts, observers>>

Claimable(k) ==
  /\ drain.at = "claiming" /\ k \in drain.scope /\ outbox[k] = "due"
  /\ Running \/ drain.by # "timer"

Claim(k) ==
  /\ Claimable(k)
  /\ drain' = [drain EXCEPT !.at = "handling", !.key = k]
  /\ NoFault /\ UNCHANGED <<disk, phase, queue, active, replay, checked, starts, observers>>

\* The drain of a turn is over: deliverNow returns to it.
Returned ==
  [c \in Conversation |-> IF drain.by = c THEN Job(active[c].turn, "done") ELSE active[c]]

DrainEnds ==
  /\ drain.at = "claiming" /\ \A k \in Key : ~Claimable(k)
  /\ drain' = NoDrain
  /\ active' = Returned
  /\ NoFault /\ UNCHANGED <<disk, phase, queue, replay, checked, starts, observers>>

(* Discord takes the last chunk, or refuses it.                            *)
Deliver ==
  /\ drain.at = "handling" /\ \E t \in Turn : drain.key = Response(t)
  /\ Put(drain.key, "settled")
  /\ drain' = [drain EXCEPT !.at = "claiming", !.key = <<>>]
  /\ NoFault /\ UNCHANGED <<journal, phase, queue, active, replay, checked, starts, observers>>

DeliverFails ==
  /\ drain.at = "handling"
  /\ Put(drain.key, "later")
  /\ drain' = [drain EXCEPT !.at = "claiming", !.key = <<>>]
  /\ Fault /\ UNCHANGED <<journal, phase, queue, active, replay, checked, starts, observers>>

(* #executeEventTurn: an event whose response is durable is over; another  *)
(* waits in the queue of its conversation, with the drain waiting for it.  *)
ExecuteEvent ==
  /\ drain.at = "handling"
  /\ \E e \in Event :
       /\ drain.key = Order(e)
       /\ IF Answered(e)
          THEN /\ Put(drain.key, "settled")
               /\ drain' = [drain EXCEPT !.at = "claiming", !.key = <<>>]
               /\ UNCHANGED queue
          ELSE /\ Push(e)
               /\ drain' = [drain EXCEPT !.at = "awaiting"]
               /\ UNCHANGED outbox
  /\ NoFault /\ UNCHANGED <<journal, phase, active, replay, checked, starts, observers>>

(* A record that was put off is due again.                                 *)
Elapse(k) ==
  /\ outbox[k] = "later"
  /\ Put(k, "due")
  /\ NoFault /\ UNCHANGED <<journal, memory, starts, observers>>

\* What each asynchronous loop of the process does of its own accord.
Replaying ==
  ClaimReplayable \/ ReplayDone \/ \E m \in Message : ReplayCheck(m) \/ ReplayRun(m)
Turning(c) ==
  \/ Take(c) \/ Answer(c) \/ NoAnswer(c) \/ DrainForTurn(c) \/ TurnEnds(c) \/ EventTurnEnds(c)
Draining == TimerFires \/ (\E k \in Key : Claim(k)) \/ DrainEnds \/ Deliver \/ ExecuteEvent

Next ==
  \/ Start \/ Replaying \/ Stop \/ Exit \/ Draining
  \/ \E m \in Message : Live(m) \/ Time(m) \/ ReplayGone(m) \/ ReplayFails(m)
  \/ \E e \in Event : EventFires(e)
  \/ \E c \in Conversation : Turning(c) \/ EventTurnFails(c) \/ SettleFails(c)
  \/ DeliverFails
  \/ \E k \in Key : Elapse(k)

(* Provider turns end, requests come back, timers fire, and a process that *)
(* is up runs what is ready. Nothing makes it start, stop or fail.         *)
Fairness ==
  /\ WF_vars(Replaying) /\ WF_vars(Draining) /\ WF_vars(\E k \in Key : Elapse(k))
  /\ \A c \in Conversation : WF_vars(Turning(c))

Spec == Init /\ [][Next]_vars
FairSpec == Spec /\ Fairness

(***************************************************************************)
(* Properties.                                                             *)
(***************************************************************************)

Statuses == {"none", "due", "later", "settled"}

(* The shape of the state. The queue of a conversation never holds a turn  *)
(* of another, and the drain awaits an event exactly while that event's    *)
(* turn is queued or running.                                              *)
TypeOK ==
  /\ phase \in {"down", "starting", "replaying", "up", "stopping"}
  /\ journal \in [Message -> [owed : BOOLEAN, attempts : 0 .. MaxAttempts, old : BOOLEAN]]
  /\ outbox \in [Key -> Statuses]
  /\ queue \in [Conversation -> Seq(Turn)]
  /\ active \in [Conversation -> [turn : Turn \union {NoTurn},
       at : {"none", "run", "waiting", "draining", "done", "failed"}]]
  /\ drain \in [at : {"idle", "claiming", "handling", "awaiting"}, scope : SUBSET Key,
                by : Conversation \union {"none", "timer"}, key : Key \union {<<>>}]
  /\ replay \subseteq Message /\ checked \in Message \union {NoTurn}
  /\ starts \in 0 .. MaxStarts /\ faults \in 0 .. MaxFaults
  /\ accepted \subseteq Message /\ concluded \subseteq Message
  /\ dropped \subseteq Message /\ overlapped \subseteq Message
  /\ ran \in [Message -> Nat]
  /\ \A t \in Turn : \A c \in Conversation \ {ConvOf[t]} :
       active[c].turn # t /\ \A i \in DOMAIN queue[c] : queue[c][i] # t
  /\ \A e \in Event : InQueue(e) <=> drain.at = "awaiting" /\ drain.key = Order(e)

HasResponse(t) == outbox[Response(t)] # "none"

(* Every message whose turn was accepted is still owed, or its turn ran to *)
(* its end, or its response is in the outbox, or the journal gave it up by *)
(* its declared limits: no crash, stop, failed replay or second run makes  *)
(* a message silently disappear.                                           *)
NoMessageIsForgotten ==
  \A m \in accepted :
    journal[m].owed \/ m \in concluded \/ HasResponse(m) \/ m \in dropped

(* A message that keeps taking the process down is run once when it comes  *)
(* and at most MaxAttempts times by replays, however starts and stops fall;*)
(* only a message replayed next to its own live turn may exceed that. The  *)
(* journal counts replays, not the first run, so with the code's limit of 3*)
(* a turn may fail four times before it is abandoned; "A turn that fails to*)
(* finish 3 times is abandoned" (docs/developers/current-state.md:228) is  *)
(* one failure short of what the code does. The journal's own count, part  *)
(* of the shape, never exceeds the limit.                                  *)
PoisonIsAbandoned ==
  /\ TypeOK
  /\ \A m \in Message \ overlapped : ran[m] <= MaxAttempts + 1

Begins(t) == active[ConvOf[t]].turn # t /\ active'[ConvOf[t]].turn = t

(* "Running it again would answer twice" (sandi-bot.ts:1338-1339): no turn *)
(* of a message or an event begins once its response is durable, but for   *)
(* messages that were replayed while their live turn of the same process   *)
(* was still there.                                                        *)
OnlyOverlappedTurnsRepeat ==
  [][\A t \in Turn \ overlapped : Begins(t) => ~HasResponse(t)]_vars

(* The turn running in c waits for a drain, which waits for an event whose *)
(* turn waits behind it in the queue of c.                                 *)
CircularWait(c) ==
  /\ active[c].at = "waiting"
  /\ drain.at = "awaiting"
  /\ \E i \in DOMAIN queue[c] : drain.key = Order(queue[c][i])

Ended == phase \in {"down", "stopping"}

(* "Delivery is at least once" (docs/developers/current-state.md:207): in  *)
(* a process that stays up, a response that is due is delivered.           *)
ResponsesAreDelivered ==
  \A t \in Turn : outbox[Response(t)] = "due" ~> outbox[Response(t)] = "settled" \/ Ended

(* It is, unless a turn and the drain have come to wait for each other;    *)
(* and until then every queued turn gets to run.                           *)
DeliveredUnlessCircular ==
  /\ \A t \in Turn : outbox[Response(t)] = "due" ~>
       outbox[Response(t)] = "settled" \/ Ended \/ \E c \in Conversation : CircularWait(c)
  /\ \A t \in Turn : InQueue(t) ~>
       ~InQueue(t) \/ \E c \in Conversation : CircularWait(c)
=============================================================================
