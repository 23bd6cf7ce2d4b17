-------------------------- MODULE DiscordTurns_proof --------------------------
(***************************************************************************)
(* Theorems about the turns of the Discord bot, for any messages, events   *)
(* and conversations, any maxAttempts of the journal, and any number of    *)
(* starts and faults.                                                      *)
(***************************************************************************)
EXTENDS DiscordTurns, SequenceTheorems, TLAPS

LEMMA Bounds ==
  /\ Message \intersect Event = {} /\ NoTurn \notin Turn /\ NoTurn \notin Message
  /\ Message \subseteq Turn /\ Event \subseteq Turn
  /\ \A t \in Turn : ConvOf[t] \in Conversation
  /\ "none" \notin Conversation /\ "timer" \notin Conversation
  /\ MaxAttempts \in Nat \ {0} /\ MaxStarts \in Nat /\ MaxFaults \in Nat
BY TurnsAssumption DEF Turn

LEMMA Keys ==
  /\ \A t \in Turn : Response(t) \in Key
  /\ \A e \in Event : Order(e) \in Key
  /\ \A t, u : Response(t) = Response(u) => t = u
  /\ \A t, u : Order(t) = Order(u) => t = u
  /\ \A t, u : Response(t) # Order(u)
  /\ \A t : Response(t) # <<>> /\ Order(t) # <<>>
BY DEF Key, Response, Order

(***************************************************************************)
(* The inductive invariant. Its first part is the shape of the state, in   *)
(* the groups that steps leave alone.                                      *)
(***************************************************************************)
Replayed(m) == m \in replay \/ m = checked

\* A start finds nothing left of the replay of another process.
PhaseOK ==
  /\ phase \in {"down", "starting", "replaying", "up", "stopping"}
  /\ replay \subseteq Message /\ checked \in Message \union {NoTurn}
  /\ phase \in {"down", "starting"} => replay = {} /\ checked = NoTurn

Entries == [owed : BOOLEAN, attempts : 0 .. MaxAttempts, old : BOOLEAN]
DiskOK == journal \in [Message -> Entries] /\ outbox \in [Key -> Statuses]

QueueOK ==
  /\ queue \in [Conversation -> Seq(Turn)]
  /\ \A c \in Conversation : \A i \in DOMAIN queue[c] : ConvOf[queue[c][i]] = c

Jobs == [turn : Turn \union {NoTurn},
         at : {"none", "run", "waiting", "draining", "done", "failed"}]
ActiveOK ==
  /\ active \in [Conversation -> Jobs]
  /\ \A c \in Conversation :
       /\ active[c].at = "none" <=> active[c].turn = NoTurn
       /\ active[c].turn # NoTurn => ConvOf[active[c].turn] = c

\* The turn a drain was begun for waits for it, and what it handles is there.
DrainOK ==
  /\ drain \in [at : {"idle", "claiming", "handling", "awaiting"}, scope : SUBSET Key,
                by : Conversation \union {"none", "timer"}, key : Key \union {<<>>}]
  /\ drain.by \in Conversation => active[drain.by].at = "draining"
  /\ drain.at = "handling" => drain.key \in Key /\ outbox[drain.key] # "none"

CountsOK ==
  /\ starts \in 0 .. MaxStarts /\ faults \in 0 .. MaxFaults
  /\ accepted \subseteq Message /\ concluded \subseteq Message
  /\ dropped \subseteq Message /\ overlapped \subseteq Message
  /\ ran \in [Message -> Nat]

Shape == PhaseOK /\ DiskOK /\ QueueOK /\ ActiveOK /\ DrainOK /\ CountsOK

Active(t) == active[ConvOf[t]].turn = t
Queued(t) == \E i \in DOMAIN queue[ConvOf[t]] : queue[ConvOf[t]][i] = t

LEMMA InQueueMeans == \A t : InQueue(t) <=> Active(t) \/ Queued(t)
BY DEF InQueue, Active, Queued

\* The drain awaits an event exactly while its turn is there.
Awaited == \A e \in Event : InQueue(e) <=> drain.at = "awaiting" /\ drain.key = Order(e)

(* TypeOK is the shape of the state without what only its proof needs.     *)
LEMMA ShapeIsType == Shape /\ Awaited => TypeOK
<1> SUFFICES ASSUME Shape, Awaited PROVE TypeOK
  OBVIOUS
<1>1. ASSUME NEW t \in Turn, NEW c \in Conversation \ {ConvOf[t]}
      PROVE  active[c].turn # t /\ \A i \in DOMAIN queue[c] : queue[c][i] # t
  BY <1>1, Bounds DEF Shape, ActiveOK, QueueOK
<1> QED BY <1>1 DEF Shape, Awaited, TypeOK, PhaseOK, DiskOK, QueueOK, ActiveOK, DrainOK, CountsOK,
                    Entries, Jobs

(***************************************************************************)
(* Who writes what.                                                        *)
(***************************************************************************)
LEMMA DiskWriters ==
  ASSUME [Next]_vars
  PROVE  /\ \/ UNCHANGED journal \/ ClaimReplayable
            \/ \E m \in Message : Live(m) \/ Time(m) \/ ReplayCheck(m) \/ ReplayRun(m) \/ ReplayGone(m)
            \/ \E c \in Conversation : TurnEnds(c)
         /\ \/ UNCHANGED outbox
            \/ Deliver \/ DeliverFails \/ ExecuteEvent
            \/ \E e \in Event : EventFires(e)
            \/ \E k \in Key : Elapse(k)
            \/ \E c \in Conversation : Answer(c) \/ EventTurnEnds(c)
<1>1. CASE Start \/ Stop \/ Exit \/ DeliverFails
  BY <1>1 DEF Start, Stop, Exit, DeliverFails, disk
<1>2. CASE Replaying
  BY <1>2 DEF Replaying, ClaimReplayable, ReplayDone, ReplayCheck, ReplayRun, disk
<1>3. CASE Draining
  BY <1>3 DEF Draining, TimerFires, Claim, DrainEnds, Deliver, ExecuteEvent, disk
<1>4. ASSUME NEW m \in Message, Live(m) \/ Time(m) \/ ReplayGone(m) \/ ReplayFails(m)
      PROVE  UNCHANGED outbox /\ (UNCHANGED journal \/ Live(m) \/ Time(m) \/ ReplayGone(m))
  BY <1>4 DEF Live, Time, ReplayGone, ReplayFails, disk
<1>5. ASSUME NEW e \in Event, EventFires(e) PROVE UNCHANGED journal
  BY <1>5 DEF EventFires
<1>6. ASSUME NEW c \in Conversation, Turning(c) \/ EventTurnFails(c) \/ SettleFails(c)
      PROVE  /\ UNCHANGED journal \/ TurnEnds(c)
             /\ UNCHANGED outbox \/ Answer(c) \/ EventTurnEnds(c)
  BY <1>6 DEF Turning, Take, Answer, NoAnswer, DrainForTurn, TurnEnds, EventTurnEnds,
              EventTurnFails, SettleFails, disk
<1>7. ASSUME NEW k \in Key, Elapse(k) PROVE UNCHANGED journal
  BY <1>7 DEF Elapse
<1>8. CASE UNCHANGED vars
  BY <1>8 DEF vars, disk
<1> QED BY <1>1, <1>2, <1>3, <1>4, <1>5, <1>6, <1>7, <1>8 DEF Next

LEMMA MemoryWriters ==
  ASSUME [Next]_vars
  PROVE  /\ \/ UNCHANGED <<phase, replay, checked>>
            \/ Start \/ ClaimReplayable \/ ReplayDone \/ Stop \/ Exit
            \/ \E m \in Message : ReplayCheck(m) \/ ReplayRun(m) \/ ReplayGone(m) \/ ReplayFails(m)
         /\ \/ UNCHANGED queue \/ Exit \/ ExecuteEvent
            \/ \E m \in Message : Live(m) \/ ReplayRun(m)
            \/ \E c \in Conversation : Take(c)
         /\ \/ UNCHANGED active \/ Exit \/ DrainEnds
            \/ \E c \in Conversation : \/ Take(c) \/ Answer(c) \/ NoAnswer(c) \/ EventTurnFails(c)
                                       \/ DrainForTurn(c) \/ TurnEnds(c) \/ SettleFails(c)
                                       \/ EventTurnEnds(c)
         /\ \/ UNCHANGED drain \/ Exit \/ TimerFires \/ DrainEnds \/ Deliver \/ DeliverFails
            \/ ExecuteEvent \/ \E k \in Key : Claim(k)
            \/ \E c \in Conversation : Answer(c) \/ DrainForTurn(c) \/ EventTurnEnds(c)
<1>1. CASE Start \/ Stop \/ Exit \/ DeliverFails
  BY <1>1 DEF Start, Stop, Exit, DeliverFails
<1>2. CASE Replaying
  BY <1>2 DEF Replaying, ClaimReplayable, ReplayDone, ReplayCheck, ReplayRun
<1>3. CASE Draining
  BY <1>3 DEF Draining, TimerFires, Claim, DrainEnds, Deliver, ExecuteEvent
<1>4. ASSUME NEW m \in Message, Live(m) \/ Time(m) \/ ReplayGone(m) \/ ReplayFails(m)
      PROVE  /\ UNCHANGED <<active, drain>> /\ (UNCHANGED queue \/ Live(m))
             /\ UNCHANGED <<phase, replay, checked>> \/ ReplayGone(m) \/ ReplayFails(m)
  BY <1>4 DEF Live, Time, ReplayGone, ReplayFails, memory
<1>5. ASSUME NEW e \in Event, EventFires(e) PROVE UNCHANGED memory
  BY <1>5 DEF EventFires
<1>6. ASSUME NEW c \in Conversation, Turning(c) \/ EventTurnFails(c) \/ SettleFails(c)
      PROVE  /\ UNCHANGED <<phase, replay, checked>> /\ (UNCHANGED queue \/ Take(c))
             /\ \/ UNCHANGED active \/ Take(c) \/ Answer(c) \/ NoAnswer(c) \/ EventTurnFails(c)
                \/ DrainForTurn(c) \/ TurnEnds(c) \/ SettleFails(c) \/ EventTurnEnds(c)
             /\ UNCHANGED drain \/ Answer(c) \/ DrainForTurn(c) \/ EventTurnEnds(c)
  BY <1>6 DEF Turning, Take, Answer, NoAnswer, DrainForTurn, TurnEnds, EventTurnEnds,
              EventTurnFails, SettleFails
<1>7. ASSUME NEW k \in Key, Elapse(k) PROVE UNCHANGED memory
  BY <1>7 DEF Elapse
<1>8. CASE UNCHANGED vars
  BY <1>8 DEF vars, memory
<1> QED BY <1>1, <1>2, <1>3, <1>4, <1>5, <1>6, <1>7, <1>8 DEF Next, memory

LEMMA ObserverWriters ==
  ASSUME [Next]_vars
  PROVE  /\ UNCHANGED accepted \/ \E m \in Message : Live(m) \/ ReplayRun(m)
         /\ \/ UNCHANGED concluded \/ \E m \in Message : ReplayGone(m)
            \/ \E c \in Conversation : TurnEnds(c) \/ SettleFails(c)
         /\ UNCHANGED <<dropped, overlapped>> \/ ClaimReplayable
         /\ UNCHANGED ran \/ \E c \in Conversation : Take(c)
         /\ UNCHANGED starts \/ Start
         /\ Fault \/ NoFault
<1>1. CASE Start \/ Stop \/ Exit \/ DeliverFails
  BY <1>1 DEF Start, Stop, Exit, DeliverFails, observers
<1>2. CASE Replaying
  BY <1>2 DEF Replaying, ClaimReplayable, ReplayDone, ReplayCheck, ReplayRun, observers
<1>3. CASE Draining
  BY <1>3 DEF Draining, TimerFires, Claim, DrainEnds, Deliver, ExecuteEvent, observers
<1>4. ASSUME NEW m \in Message, Live(m) \/ Time(m) \/ ReplayGone(m) \/ ReplayFails(m)
      PROVE  /\ (UNCHANGED accepted \/ Live(m)) /\ (UNCHANGED concluded \/ ReplayGone(m))
             /\ UNCHANGED <<dropped, overlapped, ran, starts>> /\ (Fault \/ NoFault)
  BY <1>4 DEF Live, Time, ReplayGone, ReplayFails, observers
<1>5. ASSUME NEW e \in Event, EventFires(e) PROVE UNCHANGED <<observers, starts>> /\ NoFault
  BY <1>5 DEF EventFires
<1>6. ASSUME NEW c \in Conversation, Turning(c) \/ EventTurnFails(c) \/ SettleFails(c)
      PROVE  /\ UNCHANGED <<accepted, dropped, overlapped, starts>>
             /\ UNCHANGED concluded \/ TurnEnds(c) \/ SettleFails(c)
             /\ UNCHANGED ran \/ Take(c)
             /\ Fault \/ NoFault
  BY <1>6 DEF Turning, Take, Answer, NoAnswer, DrainForTurn, TurnEnds, EventTurnEnds,
              EventTurnFails, SettleFails, observers
<1>7. ASSUME NEW k \in Key, Elapse(k) PROVE UNCHANGED <<observers, starts>> /\ NoFault
  BY <1>7 DEF Elapse
<1>8. CASE UNCHANGED vars
  BY <1>8 DEF vars, observers, NoFault
<1> QED BY <1>1, <1>2, <1>3, <1>4, <1>5, <1>6, <1>7, <1>8 DEF Next, observers

(***************************************************************************)
(* Every step keeps the shape of the state.                                *)
(***************************************************************************)
\* Where one turn is waiting: a turn comes to the end of its queue ...
Single(t) ==
  \A i, j \in DOMAIN queue[ConvOf[t]] :
    queue[ConvOf[t]][i] = t /\ queue[ConvOf[t]][j] = t => i = j

LEMMA Pushed ==
  ASSUME QueueOK, NEW t \in Turn, Push(t)
  PROVE  /\ QueueOK'
         /\ \A u \in Turn : Queued(u)' <=> Queued(u) \/ u = t
         /\ \A u \in Turn : Single(u) /\ (u = t => ~Queued(t)) => Single(u)'
<1> DEFINE c == ConvOf[t]
           q == queue[c]
<1>1. c \in Conversation /\ q \in Seq(Turn) /\ Len(q) \in Nat /\ DOMAIN q = 1 .. Len(q)
  BY Bounds DEF QueueOK
<1>2. queue' = [queue EXCEPT ![c] = Append(q, t)]
  BY DEF Push
<1>3. /\ queue' \in [Conversation -> Seq(Turn)] /\ queue'[c] = Append(q, t)
      /\ \A d \in Conversation : d # c => queue'[d] = queue[d]
  BY <1>1, <1>2 DEF QueueOK
<1> DEFINE r == queue'[c]
<1>4. /\ DOMAIN r = 1 .. Len(q) + 1 /\ r[Len(q) + 1] = t
      /\ \A i \in 1 .. Len(q) : r[i] = q[i]
  BY <1>1, <1>3
<1>5. \A i \in DOMAIN r : (i \in DOMAIN q /\ r[i] = q[i]) \/ (i = Len(q) + 1 /\ r[i] = t)
  BY <1>1, <1>4
<1> HIDE DEF q, r, c
<1>6. QueueOK'
  <2> SUFFICES ASSUME NEW d \in Conversation, NEW i \in DOMAIN queue'[d]
               PROVE  ConvOf[queue'[d][i]] = d
    BY <1>3 DEF QueueOK
  <2>1. CASE d # c
    BY <1>3, <2>1 DEF QueueOK
  <2>2. CASE d = c
    BY <1>5, <2>2 DEF QueueOK, q, r, c
  <2> QED BY <2>1, <2>2
<1>7. ASSUME NEW u \in Turn PROVE Queued(u)' <=> Queued(u) \/ u = t
  <2>1. CASE ConvOf[u] # c
    BY <1>3, <2>1, Bounds DEF Queued, c
  <2>2. CASE ConvOf[u] = c
    <3>1. Queued(u) <=> \E i \in DOMAIN q : q[i] = u
      BY <2>2 DEF Queued, q
    <3>2. Queued(u)' <=> \E i \in DOMAIN r : r[i] = u
      BY <2>2 DEF Queued, r
    <3>3. \A i \in DOMAIN q : i \in DOMAIN r /\ r[i] = q[i]
      BY <1>1, <1>4
    <3>4. Len(q) + 1 \in DOMAIN r
      BY <1>1, <1>4
    <3> QED BY <1>4, <1>5, <3>1, <3>2, <3>3, <3>4
  <2> QED BY <2>1, <2>2
<1>8. ASSUME NEW u \in Turn, Single(u), u = t => ~Queued(t) PROVE Single(u)'
  <2>1. CASE ConvOf[u] # c
    BY <1>3, <1>8, <2>1, Bounds DEF Single, c
  <2>2. CASE ConvOf[u] = c
    <3> SUFFICES ASSUME NEW i \in DOMAIN r, NEW j \in DOMAIN r, r[i] = u, r[j] = u PROVE i = j
      BY <2>2 DEF Single, r
    <3>1. u # t => i \in DOMAIN q /\ j \in DOMAIN q /\ q[i] = u /\ q[j] = u
      BY <1>5
    <3>2. \A k \in DOMAIN q : q[k] = u => u # t
      BY <1>8, <2>2 DEF Queued, q
    <3>3. u = t => i = Len(q) + 1 /\ j = Len(q) + 1
      BY <1>5, <3>2
    <3> QED BY <1>8, <2>2, <3>1, <3>3 DEF Single, q
  <2> QED BY <2>1, <2>2
<1> QED BY <1>6, <1>7, <1>8

\* ... and leaves from its head.
LEMMA Taken ==
  ASSUME QueueOK, NEW c \in Conversation, queue[c] # <<>>,
         queue' = [queue EXCEPT ![c] = Tail(@)], NEW t, t = Head(queue[c])
  PROVE  /\ QueueOK' /\ t \in Turn /\ ConvOf[t] = c /\ Queued(t)
         /\ \A u \in Turn : u # t => (Queued(u)' <=> Queued(u))
         /\ \A u \in Turn : Single(u) => Single(u)'
         /\ Single(t) => ~Queued(t)'
<1> DEFINE q == queue[c]
           r == queue'[c]
<1>1. q \in Seq(Turn) /\ Len(q) \in Nat /\ DOMAIN q = 1 .. Len(q) /\ Len(q) >= 1
  BY DEF QueueOK
<1>2. /\ queue' \in [Conversation -> Seq(Turn)] /\ r = Tail(q)
      /\ \A d \in Conversation : d # c => queue'[d] = queue[d]
  BY <1>1 DEF QueueOK
<1>3. t = q[1] /\ 1 \in DOMAIN q
  BY <1>1
<1>4. DOMAIN r = 1 .. Len(q) - 1 /\ \A i \in 1 .. Len(q) - 1 : r[i] = q[i + 1]
  BY <1>1, <1>2
<1>5. t \in Turn /\ ConvOf[t] = c /\ Queued(t)
  BY <1>1, <1>3 DEF QueueOK, Queued
<1> HIDE DEF q, r
<1>6. \A i \in DOMAIN r : i + 1 \in DOMAIN q /\ r[i] = q[i + 1] /\ i \in Nat /\ i >= 1
  BY <1>1, <1>4
<1>7. \A i \in DOMAIN q : i # 1 => i - 1 \in DOMAIN r /\ r[i - 1] = q[i]
  <2> SUFFICES ASSUME NEW i \in DOMAIN q, i # 1 PROVE i - 1 \in DOMAIN r /\ r[i - 1] = q[i]
    OBVIOUS
  <2>1. i - 1 \in 1 .. Len(q) - 1 /\ (i - 1) + 1 = i
    BY <1>1
  <2> QED BY <1>4, <2>1
<1>8. QueueOK'
  <2> SUFFICES ASSUME NEW d \in Conversation, NEW i \in DOMAIN queue'[d]
               PROVE  ConvOf[queue'[d][i]] = d
    BY <1>2 DEF QueueOK
  <2>1. CASE d # c
    BY <1>2, <2>1 DEF QueueOK
  <2>2. CASE d = c
    BY <1>6, <2>2 DEF QueueOK, q, r
  <2> QED BY <2>1, <2>2
<1>9. ASSUME NEW u \in Turn, u # t PROVE Queued(u)' <=> Queued(u)
  <2>1. CASE ConvOf[u] # c
    BY <1>2, <2>1, Bounds DEF Queued
  <2>2. CASE ConvOf[u] = c
    <3>1. Queued(u) <=> \E i \in DOMAIN q : q[i] = u
      BY <2>2 DEF Queued, q
    <3>2. Queued(u)' <=> \E i \in DOMAIN r : r[i] = u
      BY <2>2 DEF Queued, r
    <3> QED BY <1>3, <1>6, <1>7, <1>9, <3>1, <3>2
  <2> QED BY <2>1, <2>2
<1>10. ASSUME NEW u \in Turn, Single(u) PROVE Single(u)'
  <2>1. CASE ConvOf[u] # c
    BY <1>2, <1>10, <2>1, Bounds DEF Single
  <2>2. CASE ConvOf[u] = c
    <3> SUFFICES ASSUME NEW i \in DOMAIN r, NEW j \in DOMAIN r, r[i] = u, r[j] = u PROVE i = j
      BY <2>2 DEF Single, r
    <3>1. i + 1 = j + 1
      BY <1>6, <1>10, <2>2 DEF Single, q
    <3> QED BY <1>6, <3>1
  <2> QED BY <2>1, <2>2
<1>11. ASSUME Single(t) PROVE ~Queued(t)'
  <2> SUFFICES ASSUME NEW i \in DOMAIN r, r[i] = t PROVE FALSE
    BY <1>5 DEF Queued, r
  <2>1. i + 1 = 1
    BY <1>3, <1>5, <1>6, <1>11 DEF Single, q
  <2> QED BY <1>6, <2>1
<1> QED BY <1>5, <1>8, <1>9, <1>10, <1>11

LEMMA PhaseStep == PhaseOK /\ [Next]_vars => PhaseOK'
<1> SUFFICES ASSUME PhaseOK, [Next]_vars PROVE PhaseOK'
  OBVIOUS
<1>1. CASE UNCHANGED <<phase, replay, checked>>
  BY <1>1 DEF PhaseOK
<1>2. CASE Start \/ ClaimReplayable \/ ReplayDone \/ Stop \/ Exit
  BY <1>2 DEF PhaseOK, Start, ClaimReplayable, ReplayDone, Stop, Exit
<1>3. ASSUME NEW m \in Message, ReplayCheck(m) \/ ReplayRun(m) \/ ReplayGone(m) \/ ReplayFails(m)
      PROVE  PhaseOK'
  BY <1>3, Bounds DEF PhaseOK, ReplayCheck, ReplayRun, ReplayGone, ReplayFails
<1> QED BY <1>1, <1>2, <1>3, MemoryWriters

LEMMA EntryTypes ==
  /\ NoEntry \in Entries /\ [NoEntry EXCEPT !.owed = TRUE] \in Entries
  /\ ~NoEntry.owed /\ [NoEntry EXCEPT !.owed = TRUE].owed
  /\ [NoEntry EXCEPT !.owed = TRUE].attempts = 0
<1>1. 0 \in 0 .. MaxAttempts
  BY Bounds
<1> QED BY <1>1 DEF NoEntry, Entries

\* What one step makes of an entry of the journal.
LEMMA JournalStep ==
  ASSUME DiskOK, [Next]_vars
  PROVE  /\ journal' \in [Message -> Entries]
         /\ \A m \in Message :
              \/ journal'[m].owed = journal[m].owed /\ journal'[m].attempts = journal[m].attempts
              \/ ClaimReplayable
              \/ Live(m) \/ ReplayRun(m) \/ ReplayCheck(m) \/ ReplayGone(m)
              \/ \E c \in Conversation : TurnEnds(c) /\ active[c].turn = m
<1>0. \A u \in Message : journal[u] \in Entries
  BY DEF DiskOK
<1>1. CASE UNCHANGED journal
  BY <1>1 DEF DiskOK
<1>2. CASE ClaimReplayable
  <2>1. ASSUME NEW u \in Message, ~Exhausted(u) PROVE [journal[u] EXCEPT !.attempts = @ + 1] \in Entries
    BY <1>0, <2>1, Bounds DEF Exhausted, Entries
  <2> DEFINE owed == {u \in Message : journal[u].owed}
             gone == {u \in owed : journal[u].old \/ Exhausted(u)}
  <2>2. journal' = [u \in Message |->
          IF u \in gone THEN NoEntry
          ELSE IF u \in owed THEN [journal[u] EXCEPT !.attempts = @ + 1] ELSE journal[u]]
    BY <1>2 DEF ClaimReplayable
  <2>3. ASSUME NEW u \in Message
        PROVE  (IF u \in gone THEN NoEntry
                ELSE IF u \in owed THEN [journal[u] EXCEPT !.attempts = @ + 1]
                ELSE journal[u]) \in Entries
    <3>1. CASE u \in gone
      BY <3>1, EntryTypes
    <3>2. CASE u \notin gone /\ u \in owed
      BY <2>1, <3>2
    <3>3. CASE u \notin owed
      BY <1>0, <3>3
    <3> QED BY <3>1, <3>2, <3>3
  <2> HIDE DEF owed, gone
  <2> QED BY <1>2, <2>2, <2>3
<1>3. ASSUME NEW u \in Message, NEW entry \in Entries, journal' = [journal EXCEPT ![u] = entry]
      PROVE  /\ journal' \in [Message -> Entries]
             /\ \A m \in Message : u # m => journal'[m] = journal[m]
             /\ journal'[u] = entry
  BY <1>3 DEF DiskOK
<1>4. ASSUME NEW u \in Message, Live(u) \/ ReplayRun(u)
      PROVE  journal' \in [Message -> Entries] /\ \A m \in Message : u # m => journal'[m] = journal[m]
  <2>1. Accepted(u) \in Entries
    BY <1>0, EntryTypes DEF Accepted
  <2> QED BY <1>3, <1>4, <2>1 DEF Live, ReplayRun, EnqueueDurableTurn
<1>5. ASSUME NEW u \in Message, Time(u)
      PROVE  /\ journal' \in [Message -> Entries]
             /\ \A m \in Message : /\ journal'[m].owed = journal[m].owed
                                  /\ journal'[m].attempts = journal[m].attempts
  <2> DEFINE entry == [journal[u] EXCEPT !.old = TRUE]
  <2>1. /\ journal' = [journal EXCEPT ![u] = entry] /\ entry \in Entries
        /\ entry.owed = journal[u].owed /\ entry.attempts = journal[u].attempts
    BY <1>0, <1>5 DEF Time, Entries
  <2> HIDE DEF entry
  <2> QED BY <1>3, <2>1
<1>6. ASSUME NEW u \in Message, ReplayCheck(u) \/ ReplayGone(u)
      PROVE  journal' \in [Message -> Entries] /\ \A m \in Message : u # m => journal'[m] = journal[m]
  BY <1>1, <1>3, <1>6, EntryTypes DEF ReplayCheck, ReplayGone, DiskOK
<1>7. ASSUME NEW c \in Conversation, TurnEnds(c)
      PROVE  journal' \in [Message -> Entries] /\ \A m \in Message : active[c].turn # m => journal'[m] = journal[m]
  BY <1>3, <1>7, EntryTypes DEF TurnEnds, DiskOK
<1> QED BY <1>1, <1>2, <1>4, <1>5, <1>6, <1>7, DiskWriters

\* A response that is durable stays so.
LEMMA OutboxStep ==
  ASSUME DiskOK, DrainOK, [Next]_vars
  PROVE  /\ outbox' \in [Key -> Statuses]
         /\ \A k \in Key : outbox[k] # "none" => outbox'[k] # "none"
         /\ \A t \in Turn : HasResponse(t)' => \/ HasResponse(t)
               \/ \E c \in Conversation : Answer(c) /\ active[c].turn = t
<1>1. CASE UNCHANGED outbox
  BY <1>1 DEF DiskOK, HasResponse
<1>2. ASSUME NEW k, NEW status \in {"due", "later", "settled"}, Put(k, status)
      PROVE  /\ outbox' \in [Key -> Statuses]
             /\ \A l \in Key : outbox[l] # "none" => outbox'[l] # "none"
             /\ \A t \in Turn : k # Response(t) => (HasResponse(t)' <=> HasResponse(t))
  BY <1>2, Keys DEF Put, DiskOK, Statuses, HasResponse
<1>3. CASE Deliver \/ DeliverFails
  <2>1. Put(drain.key, "settled") \/ Put(drain.key, "later")
    BY <1>3 DEF Deliver, DeliverFails
  <2>2. \A t \in Turn : drain.key = Response(t) => HasResponse(t)
    BY <1>3 DEF Deliver, DeliverFails, DrainOK, HasResponse
  <2> QED BY <1>2, <2>1, <2>2
<1>4. CASE ExecuteEvent
  BY <1>1, <1>2, <1>4, Keys DEF ExecuteEvent
<1>5. ASSUME NEW e \in Event, EventFires(e)
      PROVE  /\ outbox' \in [Key -> Statuses]
             /\ \A l \in Key : outbox[l] # "none" => outbox'[l] # "none"
             /\ \A t \in Turn : HasResponse(t)' <=> HasResponse(t)
  BY <1>2, <1>5, Keys DEF EventFires
<1>6. ASSUME NEW k \in Key, Elapse(k)
      PROVE  /\ outbox' \in [Key -> Statuses]
             /\ \A l \in Key : outbox[l] # "none" => outbox'[l] # "none"
             /\ \A t \in Turn : HasResponse(t)' <=> HasResponse(t)
  BY <1>6, Keys DEF Elapse, Put, DiskOK, Statuses, HasResponse
<1>7. ASSUME NEW c \in Conversation, Answer(c)
      PROVE  /\ outbox' \in [Key -> Statuses]
             /\ \A l \in Key : outbox[l] # "none" => outbox'[l] # "none"
             /\ \A t \in Turn : HasResponse(t)' => HasResponse(t) \/ active[c].turn = t
  <2>1. UNCHANGED outbox \/ Put(Response(active[c].turn), "due")
    BY <1>7 DEF Answer
  <2>2. CASE UNCHANGED outbox
    BY <2>2 DEF DiskOK, HasResponse
  <2>3. CASE Put(Response(active[c].turn), "due")
    BY <1>2, <2>3, Keys
  <2> QED BY <2>1, <2>2, <2>3
<1>8. ASSUME NEW c \in Conversation, EventTurnEnds(c)
      PROVE  /\ outbox' \in [Key -> Statuses]
             /\ \A l \in Key : outbox[l] # "none" => outbox'[l] # "none"
             /\ \A t \in Turn : HasResponse(t)' <=> HasResponse(t)
  BY <1>2, <1>8, Keys DEF EventTurnEnds
<1> QED BY <1>1, <1>3, <1>4, <1>5, <1>6, <1>7, <1>8, DiskWriters

LEMMA Ran ==
  ASSUME ActiveOK, NEW c \in Conversation, NEW t \in Turn \union {NoTurn},
         NEW at \in {"none", "run", "waiting", "draining", "done", "failed"}, Runs(c, Job(t, at)),
         at = "none" <=> t = NoTurn, t # NoTurn => ConvOf[t] = c
  PROVE  /\ ActiveOK' /\ active'[c] = Job(t, at) /\ active'[c].turn = t /\ active'[c].at = at
         /\ \A d \in Conversation : d # c => active'[d] = active[d]
<1> DEFINE j == Job(t, at)
<1>1. j \in Jobs /\ j.turn = t /\ j.at = at
  BY DEF Job, Jobs
<1>2. active' = [active EXCEPT ![c] = j]
  BY DEF Runs
<1> HIDE DEF j
<1> QED BY <1>1, <1>2 DEF ActiveOK, j

\* The steps by which a turn that runs comes to its end.
TurnLeaves(c) == TurnEnds(c) \/ SettleFails(c) \/ EventTurnEnds(c)

LEMMA ActiveStep ==
  ASSUME PhaseOK, ActiveOK, QueueOK, DrainOK, [Next]_vars
  PROVE  /\ ActiveOK'
         /\ \A c \in Conversation :
              \/ active'[c].turn = active[c].turn
              \/ Exit \/ Take(c) \/ TurnLeaves(c)
         /\ \A c \in Conversation : active[c].at = "draining" =>
              active'[c] = active[c] \/ Exit \/ DrainEnds
<1>0. \A c \in Conversation : /\ active[c] \in Jobs /\ active[c].turn \in Turn \union {NoTurn}
                              /\ active[c].at = "none" <=> active[c].turn = NoTurn
                              /\ active[c].turn # NoTurn => ConvOf[active[c].turn] = c
  BY DEF ActiveOK, Jobs
<1>1. CASE UNCHANGED active
  BY <1>1 DEF ActiveOK
<1>2. CASE Exit
  <2>1. ActiveOK'
    BY <1>2 DEF Exit, ActiveOK, NoJob, Jobs
  <2> QED BY <1>2, <2>1
<1>3. CASE DrainEnds
  <2>1. active' = [c \in Conversation |->
                     IF drain.by = c THEN Job(active[c].turn, "done") ELSE active[c]]
    BY <1>3 DEF DrainEnds, Returned
  <2>2. ASSUME NEW c \in Conversation, drain.by = c
        PROVE  /\ Job(active[c].turn, "done") \in Jobs /\ active[c].turn # NoTurn
               /\ Job(active[c].turn, "done").turn = active[c].turn
               /\ Job(active[c].turn, "done").at = "done"
    BY <1>0, <2>2 DEF DrainOK, Job, Jobs
  <2>3. ASSUME NEW c \in Conversation
        PROVE  /\ active'[c] \in Jobs /\ active'[c].turn = active[c].turn
               /\ active'[c].at = "none" <=> active'[c].turn = NoTurn
    BY <1>0, <2>1, <2>2
  <2> QED BY <1>0, <1>3, <2>1, <2>3 DEF ActiveOK
<1>4. ASSUME NEW c \in Conversation, Take(c)
      PROVE  /\ ActiveOK' /\ active[c].at = "none"
             /\ \A d \in Conversation : d # c => active'[d] = active[d]
  <2> DEFINE t == Head(queue[c])
  <2>1. t \in Turn /\ ConvOf[t] = c /\ t # NoTurn
    BY <1>4, Taken, Bounds DEF Take
  <2>2. PICK at \in {"run", "failed"} : Runs(c, Job(t, at))
    BY <1>4 DEF Take
  <2> HIDE DEF t
  <2>3. active[c].at = "none"
    BY <1>4 DEF Take, NoJob
  <2> QED BY <2>1, <2>2, <2>3, Ran
<1>5. ASSUME NEW c \in Conversation,
             Answer(c) \/ NoAnswer(c) \/ EventTurnFails(c) \/ DrainForTurn(c)
      PROVE  /\ ActiveOK' /\ active[c].at # "draining" /\ active'[c].turn = active[c].turn
             /\ \A d \in Conversation : d # c => active'[d] = active[d]
  <2>1. active[c].at \in {"run", "waiting"} /\ active[c].turn # NoTurn
    BY <1>0, <1>5 DEF Answer, NoAnswer, EventTurnFails, DrainForTurn
  <2>2. PICK at \in {"waiting", "draining", "done", "failed"} : Runs(c, Job(active[c].turn, at))
    BY <1>5 DEF Answer, NoAnswer, EventTurnFails, DrainForTurn
  <2> QED BY <1>0, <2>1, <2>2, Ran
<1>6. ASSUME NEW c \in Conversation, TurnLeaves(c)
      PROVE  /\ ActiveOK' /\ active[c].at # "draining" /\ active'[c].turn = NoTurn
             /\ \A d \in Conversation : d # c => active'[d] = active[d]
  <2>1. Runs(c, Job(NoTurn, "none")) /\ active[c].at \in {"done", "failed"}
    BY <1>6 DEF TurnLeaves, TurnEnds, SettleFails, EventTurnEnds, NoJob, Job
  <2> QED BY <2>1, Ran
<1> QED BY <1>1, <1>2, <1>3, <1>4, <1>5, <1>6, MemoryWriters DEF TurnLeaves

LEMMA DrainFields ==
  ASSUME DrainOK, NEW at, NEW key
  PROVE  /\ [drain EXCEPT !.at = at, !.key = key].at = at
         /\ [drain EXCEPT !.at = at, !.key = key].key = key
         /\ [drain EXCEPT !.at = at].at = at /\ [drain EXCEPT !.at = at].key = drain.key
BY DEF DrainOK

LEMMA DrainStep ==
  ASSUME Shape, [Next]_vars
  PROVE  DrainOK'
<1>0. /\ PhaseOK /\ DiskOK /\ QueueOK /\ ActiveOK /\ DrainOK
      /\ \A k \in Key : outbox[k] # "none" => outbox'[k] # "none"
  BY OutboxStep DEF Shape
<1> DEFINE Drains == [at : {"idle", "claiming", "handling", "awaiting"}, scope : SUBSET Key,
                      by : Conversation \union {"none", "timer"}, key : Key \union {<<>>}]
<1>1. drain \in Drains
  BY <1>0 DEF DrainOK
<1>2. CASE UNCHANGED drain /\ ~Exit /\ ~DrainEnds
  BY <1>0, <1>2, ActiveStep DEF DrainOK
<1>3. CASE Exit \/ DrainEnds
  <2>1. drain' = NoDrain
    BY <1>3 DEF Exit, DrainEnds
  <2>2. NoDrain \in Drains /\ NoDrain.by \notin Conversation /\ NoDrain.at = "idle"
    BY Bounds DEF NoDrain
  <2> QED BY <2>1, <2>2 DEF DrainOK
<1>4. CASE TimerFires
  <2>1. drain' = Drain(Key, "timer")
    BY <1>4 DEF TimerFires
  <2>2. Drain(Key, "timer") \in Drains /\ Drain(Key, "timer").by = "timer"
        /\ Drain(Key, "timer").at = "claiming"
    BY DEF Drain
  <2> QED BY <2>1, <2>2, Bounds DEF DrainOK
<1>5. ASSUME NEW c \in Conversation, NEW k \in Key, drain' = Drain({k}, c), active'[c].at = "draining"
      PROVE  DrainOK'
  <2>1. Drain({k}, c) \in Drains /\ Drain({k}, c).by = c /\ Drain({k}, c).at = "claiming"
    BY DEF Drain
  <2> QED BY <1>5, <2>1 DEF DrainOK
<1>6. ASSUME NEW c \in Conversation, Answer(c) \/ DrainForTurn(c) PROVE DrainOK'
  <2>1. active[c].turn \in Turn /\ ConvOf[active[c].turn] = c /\ active[c].turn # NoTurn
    BY <1>0, <1>6, Bounds DEF Answer, DrainForTurn, ActiveOK, Jobs
  <2>2. Response(active[c].turn) \in Key
    BY <2>1, Keys
  <2>3. \/ UNCHANGED drain
        \/ drain' = Drain({Response(active[c].turn)}, c) /\ Runs(c, Job(active[c].turn, "draining"))
    BY <1>6 DEF Answer, DrainForTurn
  <2>4. CASE UNCHANGED drain
    BY <1>2, <1>3, <2>4
  <2>5. CASE drain' = Drain({Response(active[c].turn)}, c) /\ Runs(c, Job(active[c].turn, "draining"))
    <3>1. active'[c].at = "draining"
      BY <1>0, <2>1, <2>5, Ran
    <3> QED BY <1>5, <2>2, <2>5, <3>1
  <2> QED BY <2>3, <2>4, <2>5
<1>7. ASSUME NEW at \in {"claiming", "awaiting"}, NEW k \in Key \union {<<>>},
             drain' = [drain EXCEPT !.at = at, !.key = k], ~Exit, ~DrainEnds
      PROVE  DrainOK'
  <2>1. drain' \in Drains /\ drain'.by = drain.by /\ drain'.at = at
    BY <1>1, <1>7
  <2> QED BY <1>0, <1>7, <2>1, ActiveStep DEF DrainOK
<1>8. CASE (Deliver \/ DeliverFails \/ ExecuteEvent \/ \E c \in Conversation : EventTurnEnds(c))
           /\ ~Exit /\ ~DrainEnds
  <2>1. \/ drain' = [drain EXCEPT !.at = "claiming", !.key = <<>>]
        \/ drain' = [drain EXCEPT !.at = "awaiting"]
    BY <1>8 DEF Deliver, DeliverFails, ExecuteEvent, EventTurnEnds
  <2>2. [drain EXCEPT !.at = "awaiting"] = [drain EXCEPT !.at = "awaiting", !.key = drain.key]
        /\ drain.key \in Key \union {<<>>}
    BY <1>1
  <2> QED BY <1>7, <1>8, <2>1, <2>2
<1>9. ASSUME NEW k \in Key, Claim(k), ~Exit, ~DrainEnds PROVE DrainOK'
  <2>1. /\ drain' = [drain EXCEPT !.at = "handling", !.key = k] /\ UNCHANGED outbox
        /\ outbox[k] # "none"
    BY <1>9 DEF Claim, Claimable, disk
  <2>2. drain' \in Drains /\ drain'.by = drain.by /\ drain'.key = k
    BY <1>1, <2>1
  <2> QED BY <1>0, <1>9, <2>1, <2>2, ActiveStep DEF DrainOK
<1> QED BY <1>2, <1>3, <1>4, <1>6, <1>8, <1>9, MemoryWriters

LEMMA CountsStep == CountsOK /\ ActiveOK /\ QueueOK /\ [Next]_vars => CountsOK'
<1> SUFFICES ASSUME CountsOK, ActiveOK, QueueOK, [Next]_vars PROVE CountsOK'
  OBVIOUS
<1>1. starts' \in 0 .. MaxStarts /\ faults' \in 0 .. MaxFaults
  BY ObserverWriters, Bounds DEF CountsOK, Start, Fault, NoFault
<1>2. accepted' \subseteq Message
  BY ObserverWriters DEF CountsOK, Live, ReplayRun, EnqueueDurableTurn
<1>3. concluded' \subseteq Message
  BY ObserverWriters DEF CountsOK, ReplayGone, TurnEnds, SettleFails
<1>4. dropped' \subseteq Message /\ overlapped' \subseteq Message
  BY ObserverWriters DEF CountsOK, ClaimReplayable
<1>5. ran' \in [Message -> Nat]
  BY ObserverWriters DEF CountsOK, Take
<1> QED BY <1>1, <1>2, <1>3, <1>4, <1>5 DEF CountsOK

LEMMA QueueStep == QueueOK /\ [Next]_vars => QueueOK'
<1> SUFFICES ASSUME QueueOK, [Next]_vars PROVE QueueOK'
  OBVIOUS
<1>1. CASE UNCHANGED queue
  BY <1>1 DEF QueueOK
<1>2. CASE Exit
  BY <1>2 DEF Exit, QueueOK
<1>3. CASE ExecuteEvent
  BY <1>1, <1>3, Pushed, Bounds DEF ExecuteEvent
<1>4. ASSUME NEW m \in Message, Live(m) \/ ReplayRun(m) PROVE QueueOK'
  BY <1>4, Pushed, Bounds DEF Live, ReplayRun, EnqueueDurableTurn
<1>5. ASSUME NEW c \in Conversation, Take(c) PROVE QueueOK'
  BY <1>5, Taken DEF Take
<1> QED BY <1>1, <1>2, <1>3, <1>4, <1>5, MemoryWriters

LEMMA ShapeStep == Shape /\ [Next]_vars => Shape'
<1> SUFFICES ASSUME Shape, [Next]_vars PROVE Shape'
  OBVIOUS
<1>1. PhaseOK' /\ QueueOK' /\ CountsOK' /\ DrainOK'
  BY PhaseStep, QueueStep, CountsStep, DrainStep DEF Shape
<1>2. ActiveOK'
  BY ActiveStep DEF Shape
<1>3. outbox' \in [Key -> Statuses]
  BY OutboxStep DEF Shape
<1>4. journal' \in [Message -> Entries]
  BY JournalStep DEF Shape
<1> QED BY <1>1, <1>2, <1>3, <1>4 DEF Shape, DiskOK

(***************************************************************************)
(* The way of one turn: into the queue of its conversation, from its head  *)
(* into the running, and out.                                              *)
(***************************************************************************)
Still(t) == (Queued(t)' <=> Queued(t)) /\ (Active(t)' <=> Active(t)) /\ (Single(t) => Single(t)')

Executes(e) ==
  /\ ExecuteEvent /\ drain.at = "handling" /\ drain.key = Order(e) /\ ~HasResponse(e)
  /\ drain'.at = "awaiting" /\ drain'.key = Order(e)

Enters(t) ==
  /\ \/ t \in Message /\ (Live(t) \/ ReplayRun(t))
     \/ t \in Event /\ Executes(t)
  /\ Queued(t)' /\ (Active(t)' <=> Active(t)) /\ (~Queued(t) => Single(t)')

BeginsNow(t) ==
  /\ Take(ConvOf[t]) /\ Head(queue[ConvOf[t]]) = t
  /\ Queued(t) /\ ~Active(t) /\ Active(t)'
  /\ Single(t) => ~Queued(t)' /\ Single(t)'

Leaves(t) ==
  /\ TurnLeaves(ConvOf[t]) /\ Active(t) /\ ~Active(t)'
  /\ Queued(t)' <=> Queued(t)
  /\ Single(t) => Single(t)'

Vanishes(t) == ~Active(t)' /\ ~Queued(t)' /\ Single(t)'

LEMMA Unmoved ==
  ASSUME NEW t \in Turn, UNCHANGED queue,
         active'[ConvOf[t]].turn = active[ConvOf[t]].turn
  PROVE  Still(t)
BY DEF Still, Queued, Active, Single

\* t enters if u, which is pushed, is t.
LEMMA Entering ==
  ASSUME QueueOK, NEW t \in Turn, NEW u \in Turn, Push(u), UNCHANGED active
  PROVE  /\ t # u => Still(t)
         /\ t = u => Queued(t)' /\ (Active(t)' <=> Active(t)) /\ (~Queued(t) => Single(t)')
<1>1. Active(t)' <=> Active(t)
  BY DEF Active
<1>2. ~Queued(t) => Single(t)
  BY DEF Queued, Single
<1> QED BY <1>1, <1>2, Pushed DEF Still

LEMMA Moves ==
  ASSUME Shape, [Next]_vars, NEW t \in Turn
  PROVE  /\ Exit => Vanishes(t)
         /\ ~Exit => Still(t) \/ Enters(t) \/ BeginsNow(t) \/ Leaves(t)
<1>0. /\ PhaseOK /\ QueueOK /\ ActiveOK /\ DrainOK
      /\ ConvOf[t] \in Conversation /\ t # NoTurn
  BY Bounds DEF Shape
<1>1. CASE Exit
  <2>1. queue'[ConvOf[t]] = <<>> /\ active'[ConvOf[t]].turn = NoTurn
    BY <1>0, <1>1 DEF Exit, NoJob
  <2> QED BY <1>0, <1>1, <2>1 DEF Vanishes, Active, Queued, Single
<1>2. ASSUME UNCHANGED queue, ~Exit PROVE Still(t) \/ Leaves(t) \/ \E c \in Conversation : Take(c)
  <2>1. CASE active'[ConvOf[t]].turn = active[ConvOf[t]].turn
    BY <1>2, <2>1, Unmoved
  <2>2. CASE TurnLeaves(ConvOf[t])
    <3>1. active'[ConvOf[t]].turn = NoTurn
      BY <1>0, <2>2 DEF TurnLeaves, TurnEnds, SettleFails, EventTurnEnds, Runs, NoJob, ActiveOK
    <3>2. ~Active(t)' /\ (Queued(t)' <=> Queued(t)) /\ (Single(t) => Single(t)')
      BY <1>0, <1>2, <3>1 DEF Active, Queued, Single
    <3> QED BY <2>2, <3>2 DEF Still, Leaves
  <2> QED BY <1>0, <1>2, <2>1, <2>2, ActiveStep
<1>3. CASE ExecuteEvent /\ ~Exit
  <2>1. PICK e \in Event : /\ drain.key = Order(e)
                           /\ \/ UNCHANGED queue
                              \/ /\ ~Answered(e) /\ Push(e)
                                 /\ drain' = [drain EXCEPT !.at = "awaiting"]
    BY <1>3 DEF ExecuteEvent
  <2>2. UNCHANGED active /\ drain.at = "handling"
    BY <1>3 DEF ExecuteEvent
  <2>3. CASE UNCHANGED queue
    BY <1>3, <2>2, <2>3, Unmoved
  <2>4. CASE ~Answered(e) /\ Push(e) /\ drain' = [drain EXCEPT !.at = "awaiting"]
    <3>1. drain'.at = "awaiting" /\ drain'.key = drain.key
      BY <1>0, <2>4 DEF DrainOK
    <3>2. CASE t = e
      BY <1>0, <1>3, <2>1, <2>2, <2>4, <3>1, <3>2, Entering
      DEF Enters, Executes, Answered, HasResponse
    <3>3. CASE t # e
      BY <1>0, <1>3, <2>2, <2>4, <3>3, Entering, Bounds
    <3> QED BY <3>2, <3>3
  <2> QED BY <2>1, <2>3, <2>4
<1>4. ASSUME NEW m \in Message, Live(m) \/ ReplayRun(m), ~Exit PROVE Still(t) \/ Enters(t)
  <2>1. Push(m) /\ UNCHANGED active
    BY <1>4 DEF Live, ReplayRun, EnqueueDurableTurn
  <2>2. CASE t = m
    <3>1. (Live(t) \/ ReplayRun(t)) /\ Push(t) /\ t \in Message
      BY <1>4, <2>1, <2>2, Zenon
    <3>2. Queued(t)' /\ (Active(t)' <=> Active(t)) /\ (~Queued(t) => Single(t)')
      BY <1>0, <2>1, <3>1, Entering
    <3> QED BY <3>1, <3>2 DEF Enters
  <2>3. CASE t # m
    BY <1>0, <2>1, <2>3, Entering, Bounds
  <2> QED BY <2>2, <2>3
<1>5. ASSUME NEW c \in Conversation, Take(c), ~Exit PROVE Still(t) \/ BeginsNow(t)
  <2>0. PICK h : h = Head(queue[c])
    OBVIOUS
  <2>1. PICK at \in {"run", "failed"} : Runs(c, Job(h, at))
    BY <1>5, <2>0 DEF Take
  <2>2. /\ queue[c] # <<>> /\ queue' = [queue EXCEPT ![c] = Tail(@)]
        /\ active[c] = NoJob
    BY <1>5 DEF Take
  <2>3. /\ h \in Turn /\ ConvOf[h] = c /\ Queued(h) /\ (Single(h) => ~Queued(h)')
        /\ t # h => (Queued(t)' <=> Queued(t))
        /\ Single(t) => Single(t)'
    BY <1>0, <2>2, <2>0, Taken
  <2>4. /\ active'[c].turn = h /\ active[c].turn = NoTurn
        /\ \A d \in Conversation : d # c => active'[d] = active[d]
    BY <1>0, <2>1, <2>2, <2>3, Ran, Bounds DEF NoJob
  <2>5. CASE t = h
    <3>1. Active(t)' /\ ~Active(t)
      BY <1>0, <2>3, <2>4, <2>5 DEF Active
    <3>2. /\ Take(ConvOf[t]) /\ Head(queue[ConvOf[t]]) = t
          /\ Queued(t) /\ (Single(t) => ~Queued(t)')
      BY <1>5, <2>3, <2>5, <2>0, Zenon
    <3> QED BY <2>3, <3>1, <3>2 DEF BeginsNow
  <2>6. CASE t # h
    BY <1>0, <2>3, <2>4, <2>6 DEF Still, Active
  <2> QED BY <2>5, <2>6
<1> QED BY <1>1, <1>2, <1>3, <1>4, <1>5, MemoryWriters

LEMMA AwaitedStep ==
  ASSUME Shape, Awaited, [Next]_vars, NEW e \in Event, Single(e), Active(e) => ~Queued(e)
  PROVE  InQueue(e)' <=> drain'.at = "awaiting" /\ drain'.key = Order(e)
<1>0. /\ e \in Turn /\ e \notin Message /\ ConvOf[e] \in Conversation
      /\ PhaseOK /\ QueueOK /\ ActiveOK /\ DrainOK
      /\ InQueue(e) <=> drain.at = "awaiting" /\ drain.key = Order(e)
  BY Bounds DEF Shape, Awaited
<1>1. InQueue(e) <=> Active(e) \/ Queued(e)
  BY InQueueMeans
<1>2. InQueue(e)' <=> Active(e)' \/ Queued(e)'
  BY DEF InQueue, Active, Queued
<1>3. CASE Exit
  BY <1>0, <1>2, <1>3, Moves DEF Exit, NoDrain, Vanishes
<1>4. CASE UNCHANGED drain /\ ~Exit
  <2>1. CASE Still(e)
    BY <1>0, <1>1, <1>2, <1>4, <2>1 DEF Still
  <2>2. CASE Enters(e)
    BY <1>0, <1>4, <2>2 DEF Enters, Executes
  <2>3. CASE BeginsNow(e)
    BY <1>0, <1>1, <1>2, <1>4, <2>3 DEF BeginsNow
  <2>4. CASE Leaves(e)
    <3>1. EventTurnEnds(ConvOf[e])
      BY <1>0, <2>4 DEF Leaves, TurnLeaves, TurnEnds, SettleFails, Active
    <3>2. drain'.at = "claiming"
      BY <1>0, <3>1 DEF EventTurnEnds, DrainOK
    <3> QED BY <1>0, <1>1, <1>4, <2>4, <3>2 DEF Leaves
  <2> QED BY <1>0, <1>4, <2>1, <2>2, <2>3, <2>4, Moves
\* Nothing moves, and the drain awaits no event before or after.
<1>5. ASSUME UNCHANGED queue, active'[ConvOf[e]].turn = active[ConvOf[e]].turn,
             drain.at # "awaiting", drain'.at # "awaiting"
      PROVE  InQueue(e)' <=> drain'.at = "awaiting" /\ drain'.key = Order(e)
  BY <1>0, <1>1, <1>2, <1>5, Unmoved DEF Still
<1>6. CASE TimerFires \/ Deliver \/ DeliverFails
  <2>1. UNCHANGED <<queue, active>> /\ drain.at \in {"idle", "handling"}
    BY <1>6 DEF TimerFires, Deliver, DeliverFails
  <2>2. drain' = Drain(Key, "timer") \/ drain' = [drain EXCEPT !.at = "claiming", !.key = <<>>]
    BY <1>6 DEF TimerFires, Deliver, DeliverFails
  <2>3. drain'.at = "claiming"
    <3>1. CASE drain' = Drain(Key, "timer")
      BY <3>1 DEF Drain
    <3>2. CASE drain' = [drain EXCEPT !.at = "claiming", !.key = <<>>]
      BY <1>0, <3>2, DrainFields, Zenon
    <3> QED BY <2>2, <3>1, <3>2
  <2> QED BY <1>5, <2>1, <2>3
<1>7. CASE DrainEnds
  <2>1. active'[ConvOf[e]].turn = active[ConvOf[e]].turn
    BY <1>0, <1>7 DEF DrainEnds, Returned, Job
  <2> QED BY <1>5, <1>7, <2>1 DEF DrainEnds, NoDrain
<1>8. ASSUME NEW k \in Key, Claim(k)
      PROVE  InQueue(e)' <=> drain'.at = "awaiting" /\ drain'.key = Order(e)
  BY <1>0, <1>5, <1>8 DEF Claim, Claimable, DrainOK
<1>9. CASE ExecuteEvent
  <2>1. PICK f \in Event :
          /\ drain.key = Order(f)
          /\ \/ UNCHANGED queue /\ drain' = [drain EXCEPT !.at = "claiming", !.key = <<>>]
             \/ Push(f) /\ drain' = [drain EXCEPT !.at = "awaiting"]
    BY <1>9 DEF ExecuteEvent
  <2>2. drain.at = "handling" /\ UNCHANGED active
    BY <1>9 DEF ExecuteEvent
  <2>3. CASE UNCHANGED queue /\ drain' = [drain EXCEPT !.at = "claiming", !.key = <<>>]
    BY <1>0, <1>5, <2>2, <2>3 DEF DrainOK
  <2>4. CASE Push(f) /\ drain' = [drain EXCEPT !.at = "awaiting"]
    <3>1. drain'.at = "awaiting" /\ drain'.key = Order(f)
      BY <1>0, <2>1, <2>4 DEF DrainOK
    <3>2. Queued(e)' <=> Queued(e) \/ e = f
      BY <1>0, <2>4, Pushed, Bounds
    <3>3. Active(e)' <=> Active(e)
      BY <2>2 DEF Active
    <3> QED BY <1>0, <1>1, <1>2, <2>2, <3>1, <3>2, <3>3, Keys
  <2> QED BY <2>1, <2>3, <2>4
<1>10. ASSUME NEW c \in Conversation, Answer(c) \/ DrainForTurn(c), ~Exit
       PROVE  InQueue(e)' <=> drain'.at = "awaiting" /\ drain'.key = Order(e)
  <2>1. \/ UNCHANGED drain
        \/ drain.at = "idle" /\ \E k : drain' = Drain({k}, c)
    BY <1>10 DEF Answer, DrainForTurn
  <2>2. active[c].at \in {"run", "waiting"} /\ UNCHANGED queue
    BY <1>10 DEF Answer, DrainForTurn
  <2>3. active[c].turn \in Turn /\ ConvOf[active[c].turn] = c
    BY <1>0, <2>2, Bounds DEF ActiveOK, Jobs
  <2>4. PICK at \in {"waiting", "draining", "done", "failed"} : Runs(c, Job(active[c].turn, at))
    BY <1>10 DEF Answer, DrainForTurn
  <2>5. active'[ConvOf[e]].turn = active[ConvOf[e]].turn
    BY <1>0, <2>3, <2>4, Ran, Bounds
  <2> QED BY <1>4, <1>5, <1>10, <2>1, <2>2, <2>5 DEF Drain
<1>11. ASSUME NEW c \in Conversation, EventTurnEnds(c), ~Exit
       PROVE  InQueue(e)' <=> drain'.at = "awaiting" /\ drain'.key = Order(e)
  <2> DEFINE f == active[c].turn
  <2>1. /\ f \in Event /\ f \in Turn /\ Active(f) /\ ConvOf[f] = c
        /\ UNCHANGED queue /\ Runs(c, Job(NoTurn, "none"))
        /\ drain'.at = "claiming"
    BY <1>0, <1>11, Bounds DEF EventTurnEnds, ActiveOK, DrainOK, Active, NoJob, Job
  <2>2. drain.key = Order(f)
    BY <2>1, InQueueMeans DEF Awaited
  <2>3. /\ active'[c].turn = NoTurn
        /\ \A d \in Conversation : d # c => active'[d] = active[d]
    BY <1>0, <2>1, Ran
  <2> HIDE DEF f
  <2>4. CASE e = f
    <3>1. ~Active(e)' /\ ~Queued(e)
      BY <1>0, <2>1, <2>3, <2>4, Bounds DEF Active
    <3>2. ~Queued(e)'
      BY <2>1, <3>1 DEF Queued
    <3> QED BY <1>2, <2>1, <3>1, <3>2
  <2>5. CASE e # f
    <3>1. ~InQueue(e)
      BY <1>0, <2>2, <2>5, Keys
    <3>2. ~Queued(e)' /\ ~Active(e)'
      BY <1>0, <1>1, <2>1, <2>3, <3>1, Bounds DEF Queued, Active
    <3> QED BY <1>2, <2>1, <3>2
  <2> QED BY <2>4, <2>5
<1> QED
  BY <1>3, <1>4, <1>6, <1>7, <1>8, <1>9, <1>10, <1>11, MemoryWriters

(***************************************************************************)
(* The rest of the invariant. But for messages that were replayed beside   *)
(* their own live turn, a turn is in one place at a time: to be replayed,  *)
(* queued, or running; it has no durable response until it runs; and what  *)
(* it has run and may still run is within what the journal has charged.    *)
(***************************************************************************)
Once(t) == Single(t) /\ (Active(t) => ~Queued(t))

Fresh(t) ==
  /\ Queued(t) \/ t = checked => ~HasResponse(t)
  /\ t \in Message \ accepted => ~HasResponse(t)

Waiting(m) == IF Replayed(m) \/ Queued(m) THEN 1 ELSE 0
Budget(m) == IF journal[m].owed THEN journal[m].attempts + 1 ELSE MaxAttempts + 1

Budgeted(m) ==
  /\ m \notin accepted => ran[m] = 0 /\ ~Replayed(m) /\ ~InQueue(m) /\ ~journal[m].owed
  /\ Replayed(m) => journal[m].owed /\ ~InQueue(m) /\ ~(m \in replay /\ m = checked)
  /\ ran[m] + Waiting(m) <= Budget(m)

IInv ==
  /\ Shape /\ Awaited
  /\ \A t \in Turn \ overlapped : Once(t) /\ Fresh(t)
  /\ \A m \in Message \ overlapped : Budgeted(m)

LEMMA InitInv == Init => IInv
<1> SUFFICES ASSUME Init PROVE IInv
  OBVIOUS
<1>1. PhaseOK /\ QueueOK /\ ActiveOK /\ CountsOK
  BY Bounds DEF Init, PhaseOK, QueueOK, ActiveOK, CountsOK, NoJob, Jobs
<1>2. DiskOK
  BY EntryTypes DEF Init, DiskOK, Statuses
<1>3. DrainOK
  <2>1. NoDrain.by = "none" /\ NoDrain.at = "idle"
    BY DEF NoDrain
  <2>2. NoDrain \in [at : {"idle", "claiming", "handling", "awaiting"}, scope : SUBSET Key,
                     by : Conversation \union {"none", "timer"}, key : Key \union {<<>>}]
    BY DEF NoDrain
  <2> QED BY <2>1, <2>2, Bounds DEF Init, DrainOK
<1>4. ASSUME NEW t \in Turn PROVE ~Active(t) /\ ~Queued(t) /\ Single(t)
  BY <1>4, Bounds DEF Init, Active, Queued, Single, NoJob
<1>5. Awaited
  <2>1. drain.at = "idle"
    BY DEF Init, NoDrain
  <2> QED BY <1>4, <2>1, InQueueMeans, Bounds DEF Awaited
<1>6. ASSUME NEW t \in Turn PROVE Once(t) /\ Fresh(t)
  BY <1>4, <1>6, Keys, Bounds DEF Once, Fresh, Init, HasResponse
<1>7. ASSUME NEW m \in Message PROVE Budgeted(m)
  <2>1. ran[m] = 0 /\ ~Replayed(m) /\ ~journal[m].owed /\ ~InQueue(m) /\ ~Queued(m)
    BY <1>4, <1>7, InQueueMeans, EntryTypes, Bounds DEF Init, Replayed
  <2> QED BY <2>1, Bounds DEF Budgeted, Waiting, Budget
<1> QED BY <1>1, <1>2, <1>3, <1>5, <1>6, <1>7 DEF Shape, IInv

\* Facts about one turn that the invariant is about.
LEMMA Given ==
  ASSUME IInv, [Next]_vars, NEW t \in Turn, t \notin overlapped'
  PROVE  /\ t \notin overlapped /\ Once(t) /\ Fresh(t)
         /\ t \in Message => Budgeted(t)
         /\ Shape /\ PhaseOK /\ DiskOK /\ QueueOK /\ ActiveOK /\ DrainOK /\ CountsOK
<1>1. overlapped \subseteq overlapped'
  BY ObserverWriters DEF ClaimReplayable
<1> QED BY <1>1 DEF IInv, Shape

LEMMA NewcomersAreNew ==
  ASSUME IInv, [Next]_vars, NEW t \in Turn, t \notin overlapped', Enters(t)
  PROVE  ~InQueue(t) /\ ~Queued(t) /\ ~Active(t) /\ ~HasResponse(t)
<1>1. CASE t \in Event /\ Executes(t)
  <2>1. ~InQueue(t)
    BY <1>1 DEF IInv, Awaited, Executes
  <2> QED BY <1>1, <2>1, InQueueMeans DEF Executes
<1>2. CASE t \in Message /\ Live(t)
  BY <1>2, Given, InQueueMeans DEF Live, Budgeted, Fresh
<1>3. CASE t \in Message /\ ReplayRun(t)
  BY <1>3, Given, InQueueMeans DEF ReplayRun, Budgeted, Replayed, Fresh
<1> QED BY <1>1, <1>2, <1>3 DEF Enters

LEMMA OnceStep ==
  ASSUME IInv, [Next]_vars, NEW t \in Turn, t \notin overlapped'
  PROVE  Once(t)'
<1>1. Once(t) /\ Shape
  BY Given
<1>2. CASE Exit
  BY <1>1, <1>2, Moves DEF Vanishes, Once
<1>3. CASE Still(t)
  BY <1>1, <1>3 DEF Still, Once
<1>4. CASE Enters(t)
  BY <1>4, NewcomersAreNew DEF Enters, Once
<1>5. CASE BeginsNow(t)
  BY <1>1, <1>5 DEF BeginsNow, Once
<1>6. CASE Leaves(t)
  BY <1>1, <1>6 DEF Leaves, Once
<1> QED BY <1>1, <1>2, <1>3, <1>4, <1>5, <1>6, Moves

LEMMA FreshStep ==
  ASSUME IInv, [Next]_vars, NEW t \in Turn, t \notin overlapped'
  PROVE  Fresh(t)'
<1>1. /\ Once(t) /\ Fresh(t) /\ Shape /\ t # NoTurn
      /\ t \in Message => Budgeted(t)
  BY Given, Bounds
<1>2. CASE HasResponse(t)' /\ ~HasResponse(t)
  <2>1. PICK c \in Conversation : Answer(c) /\ active[c].turn = t
    BY <1>1, <1>2, OutboxStep DEF Shape
  <2>2. Active(t)
    BY <1>1, <2>1 DEF Shape, ActiveOK, Active
  <2>3. ~Queued(t) /\ InQueue(t)
    BY <1>1, <2>2, InQueueMeans DEF Once
  <2>4. UNCHANGED <<queue, checked, accepted>>
    BY <2>1 DEF Answer, observers
  <2>5. ~Queued(t)'
    BY <2>3, <2>4 DEF Queued
  <2>6. t \in Message => t # checked /\ t \in accepted
    BY <1>1, <2>3 DEF Budgeted, Replayed
  <2>7. checked \in Message \union {NoTurn}
    BY <1>1 DEF Shape, PhaseOK
  <2> QED BY <1>1, <2>4, <2>5, <2>6, <2>7 DEF Fresh
<1>3. CASE HasResponse(t)' => HasResponse(t)
  <2>1. accepted \subseteq accepted'
    BY ObserverWriters DEF Live, ReplayRun, EnqueueDurableTurn
  <2>2. Queued(t)' => Queued(t) \/ Enters(t)
    BY <1>1, Moves DEF Vanishes, Still, BeginsNow, Leaves
  <2>3. t = checked' => t = checked \/ ~HasResponse(t)
    <3>1. CASE UNCHANGED checked
      BY <3>1
    <3>2. CASE \E m \in Message : ReplayCheck(m)
      BY <3>2 DEF ReplayCheck, Answered, HasResponse
    <3>3. CASE Exit \/ \E m \in Message : ReplayRun(m) \/ ReplayGone(m) \/ ReplayFails(m)
      BY <1>1, <3>3 DEF Exit, ReplayRun, ReplayGone, ReplayFails
    <3>4. CASE Start \/ ClaimReplayable \/ ReplayDone \/ Stop
      BY <3>1, <3>4 DEF Start, ClaimReplayable, ReplayDone, Stop
    <3> QED BY <3>1, <3>2, <3>3, <3>4, MemoryWriters
  <2>4. Queued(t)' \/ t = checked' => ~HasResponse(t)
    BY <1>1, <2>2, <2>3, NewcomersAreNew DEF Fresh
  <2> QED BY <1>1, <1>3, <2>1, <2>4 DEF Fresh
<1> QED BY <1>2, <1>3

\* What a step leaves to be replayed.
LEMMA ReplayStep ==
  ASSUME PhaseOK, [Next]_vars, NEW m \in Message, ~(m \in replay /\ m = checked)
  PROVE  /\ Replayed(m)' => Replayed(m) \/ ClaimReplayable
         /\ ~ClaimReplayable => ~(m \in replay' /\ m = checked')
         /\ ReplayRun(m) \/ ReplayGone(m) => Replayed(m) /\ ~Replayed(m)'
         /\ ReplayCheck(m) => Replayed(m) /\ (~Replayed(m)' \/ UNCHANGED journal)
<1>0. m # NoTurn /\ ConvOf[m] \in Conversation
  BY Bounds
<1>1. ReplayRun(m) \/ ReplayGone(m) => Replayed(m) /\ ~Replayed(m)'
  BY <1>0 DEF ReplayRun, ReplayGone, Replayed
<1>2. ReplayCheck(m) => Replayed(m) /\ (~Replayed(m)' \/ UNCHANGED journal)
  BY <1>0 DEF ReplayCheck, Replayed
<1>3. CASE UNCHANGED <<phase, replay, checked>>
  BY <1>1, <1>2, <1>3 DEF Replayed
<1>4. CASE Start \/ ReplayDone \/ Stop \/ Exit
  BY <1>0, <1>1, <1>2, <1>4 DEF Start, ReplayDone, Stop, Exit, Replayed
<1>5. CASE ClaimReplayable
  BY <1>1, <1>2, <1>5
<1>6. ASSUME NEW u \in Message, ReplayCheck(u) \/ ReplayRun(u) \/ ReplayGone(u) \/ ReplayFails(u)
      PROVE  (Replayed(m)' => Replayed(m)) /\ ~(m \in replay' /\ m = checked')
  BY <1>0, <1>6 DEF ReplayCheck, ReplayRun, ReplayGone, ReplayFails, Replayed
<1> QED BY <1>1, <1>2, <1>3, <1>4, <1>5, <1>6, MemoryWriters

(* ClaimReplayable charges what it keeps, and only that is replayed.       *)
LEMMA ClaimStep ==
  ASSUME IInv, ClaimReplayable, [Next]_vars, NEW m \in Message, m \notin overlapped'
  PROVE  Budgeted(m)'
<1> DEFINE owed == {u \in Message : journal[u].owed}
           gone == {u \in owed : journal[u].old \/ Exhausted(u)}
<1>1. /\ Budgeted(m) /\ PhaseOK /\ DiskOK /\ CountsOK
      /\ m # NoTurn /\ ConvOf[m] \in Conversation
  BY Given, Bounds
<1>2. /\ journal[m] \in Entries /\ journal[m].attempts \in 0 .. MaxAttempts
      /\ ran[m] \in Nat /\ MaxAttempts \in Nat
  BY <1>1, Bounds DEF DiskOK, CountsOK, Entries
<1>3. replay = {} /\ checked = NoTurn /\ checked' = NoTurn /\ replay' = owed \ gone
  BY <1>1 DEF ClaimReplayable, PhaseOK
<1>4. UNCHANGED <<queue, active, ran, accepted>>
  BY DEF ClaimReplayable
<1>5. /\ InQueue(m)' <=> InQueue(m)
      /\ Queued(m)' <=> Queued(m)
      /\ Queued(m) => InQueue(m)
  BY <1>4 DEF InQueue, Queued
<1>6. ~Replayed(m) /\ (Replayed(m)' <=> m \in owed /\ m \notin gone)
  BY <1>1, <1>3 DEF Replayed
<1>7. journal'[m] = IF m \in gone THEN NoEntry
                    ELSE IF m \in owed THEN [journal[m] EXCEPT !.attempts = @ + 1]
                    ELSE journal[m]
  BY DEF ClaimReplayable
<1>8. m \in owed /\ m \notin gone => ~InQueue(m)
  BY DEF ClaimReplayable
<1>9. (m \in owed <=> journal[m].owed) /\ (m \in gone => m \in owed)
  OBVIOUS
<1> HIDE DEF owed, gone
<1>10. CASE m \notin owed
  <2>1. journal'[m] = journal[m] /\ ~Replayed(m)'
    BY <1>6, <1>7, <1>9, <1>10
  <2> QED BY <1>1, <1>4, <1>5, <1>6, <2>1 DEF Budgeted, Waiting, Budget
<1>11. CASE m \in gone
  <2>1. ~journal'[m].owed /\ ~Replayed(m)'
    BY <1>6, <1>7, <1>11, EntryTypes
  <2>2. ran[m] + Waiting(m) <= MaxAttempts + 1 /\ Waiting(m)' = Waiting(m)
    BY <1>1, <1>2, <1>5, <1>6, <2>1 DEF Budgeted, Waiting, Budget
  <2> QED BY <1>1, <1>4, <1>5, <2>1, <2>2 DEF Budgeted, Budget
<1>12. CASE m \in owed /\ m \notin gone
  <2>1. journal'[m].owed /\ journal'[m].attempts = journal[m].attempts + 1
    BY <1>2, <1>7, <1>9, <1>12 DEF Entries
  <2>2. ~InQueue(m)' /\ ~Queued(m)' /\ ~Queued(m) /\ Waiting(m) = 0 /\ Waiting(m)' <= 1
    BY <1>5, <1>6, <1>8, <1>12 DEF Waiting
  <2>3. ran[m] <= journal[m].attempts + 1 /\ Waiting(m)' \in 0 .. 1
    BY <1>1, <1>2, <1>9, <1>12, <2>2 DEF Budgeted, Budget, Waiting
  <2>4. ran'[m] + Waiting(m)' <= Budget(m)'
    BY <1>2, <1>4, <2>1, <2>3 DEF Budget
  <2>5. m \in accepted'
    BY <1>1, <1>4, <1>9, <1>12 DEF Budgeted
  <2> QED BY <1>1, <1>3, <2>1, <2>2, <2>4, <2>5 DEF Budgeted
<1> QED BY <1>9, <1>10, <1>11, <1>12

LEMMA BudgetedStep ==
  ASSUME IInv, [Next]_vars, NEW m \in Message, m \notin overlapped'
  PROVE  Budgeted(m)'
<1>1. /\ Budgeted(m) /\ Once(m) /\ Shape /\ PhaseOK /\ DiskOK /\ ActiveOK /\ CountsOK
      /\ m \in Turn /\ m # NoTurn /\ ConvOf[m] \in Conversation /\ m \notin Event
  BY Given, Bounds
<1>2. /\ journal[m] \in Entries /\ journal[m].attempts \in 0 .. MaxAttempts
      /\ ran[m] \in Nat /\ MaxAttempts \in Nat
      /\ accepted \subseteq accepted'
  BY <1>1, ObserverWriters, Bounds
  DEF DiskOK, CountsOK, Entries, Live, ReplayRun, EnqueueDurableTurn
<1>3. /\ InQueue(m) <=> Active(m) \/ Queued(m)
      /\ InQueue(m)' <=> Active(m)' \/ Queued(m)'
  BY DEF InQueue, Active, Queued
<1>4. CASE ClaimReplayable
  BY <1>4, ClaimStep
<1>5. CASE Live(m)
  <2>1. /\ m \notin accepted /\ m \in accepted' /\ UNCHANGED <<replay, checked, ran>>
        /\ journal' = [journal EXCEPT ![m] = Accepted(m)]
    BY <1>5 DEF Live, EnqueueDurableTurn
  <2>2. journal'[m].owed /\ journal'[m].attempts = 0
    BY <1>1, <2>1, EntryTypes DEF Accepted, Budgeted, DiskOK
  <2>3. ran'[m] = 0 /\ ~Replayed(m)'
    BY <1>1, <2>1 DEF Budgeted, Replayed
  <2> QED BY <2>1, <2>2, <2>3 DEF Budgeted, Waiting, Budget, Replayed
<1>6. CASE ReplayRun(m)
  <2>1. /\ Replayed(m) /\ ~Replayed(m)' /\ m \in accepted' /\ UNCHANGED ran
        /\ journal' = [journal EXCEPT ![m] = Accepted(m)]
    BY <1>1, <1>6, ReplayStep DEF ReplayRun, EnqueueDurableTurn, Budgeted, Replayed
  <2>2. journal'[m] = journal[m] /\ Waiting(m) = 1 /\ Waiting(m)' \in 0 .. 1
    BY <1>1, <2>1 DEF Accepted, Budgeted, DiskOK, Waiting
  <2> QED BY <1>1, <1>2, <2>1, <2>2 DEF Budgeted, Budget, Replayed
<1>7. CASE ~ClaimReplayable /\ ~Live(m) /\ ~ReplayRun(m)
  <2>1. ~Enters(m)
    BY <1>1, <1>7 DEF Enters
  <2>2. /\ InQueue(m)' => InQueue(m)
        /\ Queued(m)' => Queued(m)
    BY <1>1, <1>3, <2>1, Moves DEF Vanishes, Still, BeginsNow, Leaves
  <2>3. /\ Replayed(m)' => Replayed(m)
        /\ Replayed(m) => ~(m \in replay' /\ m = checked')
    <3>1. ~(m \in replay /\ m = checked)
      BY <1>1 DEF Budgeted, Replayed
    <3> QED BY <1>1, <1>7, <3>1, ReplayStep
  \* The entry is as before, or the turn is over and done with.
  <2>4. \/ /\ journal'[m].owed = journal[m].owed
           /\ journal'[m].attempts = journal[m].attempts
        \/ ~journal'[m].owed /\ ~Replayed(m)'
    <3>1. CASE ReplayCheck(m) \/ ReplayGone(m)
      <4>1. UNCHANGED journal \/ ~Replayed(m)'
        BY <1>1, <3>1, ReplayStep DEF Budgeted, Replayed
      <4>2. UNCHANGED journal \/ journal' = [journal EXCEPT ![m] = NoEntry]
        BY <3>1 DEF ReplayCheck, ReplayGone
      <4> QED BY <1>1, <4>1, <4>2, EntryTypes DEF DiskOK
    <3>2. ASSUME NEW c \in Conversation, TurnEnds(c), active[c].turn = m
          PROVE  UNCHANGED journal \/ (~journal'[m].owed /\ ~Replayed(m)')
      <4>1. InQueue(m)
        BY <1>1, <1>3, <3>2 DEF ActiveOK, Active
      <4>2. ~Replayed(m)'
        BY <1>1, <2>3, <4>1 DEF Budgeted
      <4>3. UNCHANGED journal \/ journal' = [journal EXCEPT ![m] = NoEntry]
        BY <3>2 DEF TurnEnds
      <4> QED BY <1>1, <4>2, <4>3, EntryTypes DEF DiskOK
    <3> QED BY <1>1, <1>7, <3>1, <3>2, JournalStep
  <2>5. journal'[m].owed => journal[m].owed
    BY <2>4
  <2>6. Budget(m) <= Budget(m)'
    BY <1>2, <2>4 DEF Budget
  <2>7. ran'[m] + Waiting(m)' <= ran[m] + Waiting(m) /\ (Queued(m) \/ ran'[m] = ran[m])
    <3>1. CASE ran'[m] = ran[m]
      BY <1>2, <2>2, <2>3, <3>1 DEF Waiting
    <3>2. CASE ran'[m] # ran[m]
      <4>1. PICK c \in Conversation : Take(c)
        BY <3>2, ObserverWriters
      <4>2. /\ Head(queue[c]) = m /\ ran'[m] = ran[m] + 1
            /\ queue[c] # <<>> /\ queue' = [queue EXCEPT ![c] = Tail(@)]
        BY <1>1, <3>2, <4>1 DEF Take, CountsOK
      <4>3. Queued(m) /\ ~Queued(m)'
        BY <1>1, <4>2, Taken DEF Once, Shape
      <4>4. ~Replayed(m)
        BY <1>1, <1>3, <4>3 DEF Budgeted
      <4>5. Waiting(m) = 1 /\ Waiting(m)' = 0
        BY <2>3, <4>3, <4>4 DEF Waiting
      <4> QED BY <1>2, <4>2, <4>3, <4>5
    <3> QED BY <3>1, <3>2
  <2>8. ran'[m] + Waiting(m)' <= Budget(m)'
    <3>1. /\ ran'[m] \in Nat /\ Waiting(m) \in 0 .. 1 /\ Waiting(m)' \in 0 .. 1
          /\ Budget(m) \in Nat /\ Budget(m)' \in Nat
      BY <1>1, <1>2, <2>4, CountsStep DEF Waiting, Budget, Shape, CountsOK
    <3>2. ran[m] + Waiting(m) <= Budget(m)
      BY <1>1 DEF Budgeted
    <3> QED BY <1>2, <2>6, <2>7, <3>1, <3>2
  <2>9. m \notin accepted' => ran'[m] = 0 /\ ~Replayed(m)' /\ ~InQueue(m)' /\ ~journal'[m].owed
    BY <1>1, <1>2, <1>3, <2>2, <2>3, <2>5, <2>7 DEF Budgeted
  <2>10. Replayed(m)' => journal'[m].owed /\ ~InQueue(m)' /\ ~(m \in replay' /\ m = checked')
    BY <1>1, <2>2, <2>3, <2>4 DEF Budgeted
  <2> QED BY <2>8, <2>9, <2>10 DEF Budgeted
<1> QED BY <1>4, <1>5, <1>6, <1>7

LEMMA InvStep == IInv /\ [Next]_vars => IInv'
<1> SUFFICES ASSUME IInv, [Next]_vars PROVE IInv'
  OBVIOUS
<1>1. Shape'
  BY ShapeStep DEF IInv
<1>2. Awaited'
  <2> SUFFICES ASSUME NEW e \in Event
               PROVE  InQueue(e)' <=> drain'.at = "awaiting" /\ drain'.key = Order(e)
    BY DEF Awaited
  <2>1. e \in Turn /\ e \notin overlapped
    BY Bounds DEF IInv, Shape, CountsOK
  <2> QED BY <2>1, AwaitedStep DEF IInv, Once
<1>3. \A t \in Turn \ overlapped' : Once(t)' /\ Fresh(t)'
  BY OnceStep, FreshStep
<1>4. \A m \in Message \ overlapped' : Budgeted(m)'
  BY BudgetedStep
<1> QED BY <1>1, <1>2, <1>3, <1>4 DEF IInv

THEOREM Invariance == Spec => []IInv
<1> QED BY InitInv, InvStep, PTL DEF Spec

(* A message that keeps taking the process down is run at most once when   *)
(* it comes and maxAttempts times by replays, and what the journal charges *)
(* is as the type invariant says.                                          *)
THEOREM AbandonsPoison == Spec => []PoisonIsAbandoned
<1>1. IInv => PoisonIsAbandoned
  <2> SUFFICES ASSUME IInv PROVE PoisonIsAbandoned
    OBVIOUS
  <2>1. TypeOK
    BY ShapeIsType DEF IInv
  <2>2. ASSUME NEW m \in Message, m \notin overlapped PROVE ran[m] <= MaxAttempts + 1
    <3>1. /\ ran[m] \in Nat /\ MaxAttempts \in Nat /\ journal[m].attempts \in 0 .. MaxAttempts
          /\ ran[m] + Waiting(m) <= Budget(m)
      BY <2>2, Bounds DEF IInv, Shape, CountsOK, DiskOK, Entries, Budgeted
    <3> QED BY <3>1 DEF Waiting, Budget
  <2> QED BY <2>1, <2>2 DEF PoisonIsAbandoned
<1> QED BY <1>1, Invariance, PTL

(* No accepted message is forgotten: what clears its entry of the journal  *)
(* is a durable response, a turn that came to its end, or a limit.         *)
THEOREM ForgetsNothing == Spec => []NoMessageIsForgotten
<1>1. Init => NoMessageIsForgotten
  BY DEF Init, NoMessageIsForgotten
<1>2. IInv /\ NoMessageIsForgotten /\ [Next]_vars => NoMessageIsForgotten'
  <2> SUFFICES ASSUME IInv, NoMessageIsForgotten, [Next]_vars, NEW m \in Message, m \in accepted',
                      ~journal'[m].owed
               PROVE  m \in concluded' \/ HasResponse(m)' \/ m \in dropped'
    <3>1. IInv /\ [Next]_vars => CountsOK'
      BY CountsStep DEF IInv, Shape
    <3>2. CountsOK' => accepted' \subseteq Message
      BY DEF CountsOK
    <3> QED BY <3>1, <3>2 DEF NoMessageIsForgotten
  <2>0. DiskOK /\ DrainOK /\ m \in Turn /\ journal[m] \in Entries
    BY Bounds DEF IInv, Shape, DiskOK
  <2>1. /\ HasResponse(m) => HasResponse(m)'
        /\ concluded \subseteq concluded' /\ dropped \subseteq dropped'
    <3>1. HasResponse(m) => HasResponse(m)'
      BY <2>0, OutboxStep, Keys DEF HasResponse
    <3>2. concluded \subseteq concluded'
      BY ObserverWriters DEF ReplayGone, TurnEnds, SettleFails
    <3>3. dropped \subseteq dropped'
      BY ObserverWriters DEF ClaimReplayable
    <3> QED BY <3>1, <3>2, <3>3
  <2>2. CASE m \in accepted /\ ~journal[m].owed
    BY <2>1, <2>2 DEF NoMessageIsForgotten
  <2>3. CASE m \notin accepted
    <3>1. PICK u \in Message : Live(u) \/ ReplayRun(u)
      BY <2>3, ObserverWriters
    <3>2. u = m /\ journal' = [journal EXCEPT ![m] = Accepted(m)]
      BY <2>3, <3>1 DEF Live, ReplayRun, EnqueueDurableTurn
    <3> QED BY <2>0, <3>2, EntryTypes DEF Accepted, DiskOK
  <2>4. CASE journal[m].owed
    <3>1. CASE ClaimReplayable
      <4> DEFINE owed == {u \in Message : journal[u].owed}
                 gone == {u \in owed : journal[u].old \/ Exhausted(u)}
      <4>1. journal'[m] = IF m \in gone THEN NoEntry
                          ELSE IF m \in owed THEN [journal[m] EXCEPT !.attempts = @ + 1]
                          ELSE journal[m]
        BY <3>1 DEF ClaimReplayable
      <4>2. dropped' = dropped \union gone
        BY <3>1 DEF ClaimReplayable
      <4>3. m \notin gone => journal'[m].owed
        BY <2>0, <2>4, <4>1 DEF Entries
      <4> QED BY <4>2, <4>3
    <3>2. CASE Live(m) \/ ReplayRun(m)
      BY <2>0, <2>4, <3>2 DEF Live, ReplayRun, EnqueueDurableTurn, Accepted, DiskOK
    <3>3. CASE ReplayCheck(m)
      BY <2>1, <2>4, <3>3 DEF ReplayCheck, Answered, HasResponse
    <3>4. CASE ReplayGone(m)
      BY <3>4 DEF ReplayGone
    <3>5. ASSUME NEW c \in Conversation, TurnEnds(c), active[c].turn = m PROVE m \in concluded'
      BY <2>4, <3>5 DEF TurnEnds, Settles
    <3> QED BY <2>0, <2>4, <3>1, <3>2, <3>3, <3>4, <3>5, JournalStep
  <2> QED BY <2>2, <2>3, <2>4
<1> QED BY <1>1, <1>2, Invariance, PTL DEF Spec

(* No turn begins once its response is durable, but for messages that were *)
(* replayed while their live turn was still there.                         *)
THEOREM RepeatsNeedOverlap == Spec => OnlyOverlappedTurnsRepeat
<1>1. ASSUME IInv, [Next]_vars, NEW t \in Turn \ overlapped, Begins(t) PROVE ~HasResponse(t)
  <2>1. ~Active(t) /\ Active(t)'
    BY <1>1 DEF Begins, Active
  <2>2. BeginsNow(t)
    <3>1. Shape
      BY <1>1 DEF IInv
    <3> QED BY <1>1, <2>1, <3>1, Moves DEF Vanishes, Still, Enters, Leaves
  <2> QED BY <1>1, <2>2 DEF BeginsNow, IInv, Fresh
<1>2. IInv /\ [Next]_vars => [\A t \in Turn \ overlapped : Begins(t) => ~HasResponse(t)]_vars
  BY <1>1
<1> QED BY <1>2, Invariance, PTL DEF Spec, OnlyOverlappedTurnsRepeat

=============================================================================
