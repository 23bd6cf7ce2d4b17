---------------------------- MODULE DurableOutbox ----------------------------
(***************************************************************************)
(* The durable delivery outbox (src/lib/delivery/outbox.ts): a file of     *)
(* records, one per idempotency key, and the workers (DurableOutbox        *)
(* instances, one per process and surface) that claim due records under a  *)
(* lease, run the handler of their kind and settle the outcome.            *)
(*                                                                         *)
(* Each store.updateManaged call is one step: its read, its mutator and    *)
(* its write run under the managed-write lock (module ManagedWrite).       *)
(* Wall-clock instants are kept as distances from now: `lease' and `wait'  *)
(* count the ticks left, and `wait' goes on below zero, down to -LateBound *)
(* (a bound of the model), so that older due work still sorts first.       *)
(*                                                                         *)
(* An operator named Op_Mistake stands before Op and is Op with a          *)
(* plausible mistake in it: the properties are tested against these.       *)
(***************************************************************************)
EXTENDS Integers, FiniteSets

CONSTANTS
  Worker,      \* DurableOutbox instances; a restarted process is a new one
  NoWorker,    \* "no claim"
  Key, NoKey,  \* idempotency keys
  Work,        \* payload hashes callers use
  Handles,     \* Handles[w]: keys whose kind worker w has a handler for
  Marked,      \* keys whose handler searches for its marker before a repost
  Chunks,      \* chunks of one delivery
  Lease,       \* claimLeaseMs, in ticks
  RetryBase, RetryMax,  \* retryBaseMs, retryMaxMs, in ticks
  RetryAfters, \* retryAfterMs values a transient error may carry, 0 for none
  LateBound,   \* how long overdue is still told apart
  AttemptCap,  \* attempts are counted up to this number
  Many,        \* external effects are counted up to this number
  MaxFaults    \* how many errors, stops and overruns happen in a behaviour

ASSUME OutboxAssumption ==
  /\ NoWorker \notin Worker /\ NoKey \notin Key
  /\ Handles \in [Worker -> SUBSET Key] /\ Marked \subseteq Key
  /\ Chunks \in Nat \ {0} /\ Lease \in Nat \ {0} /\ LateBound \in Nat
  /\ RetryBase \in Nat \ {0} /\ RetryMax \in Nat /\ RetryBase <= RetryMax
  /\ RetryAfters \subseteq Nat
  /\ AttemptCap \in Nat \ {0, 1} /\ Many \in Nat \ {0, 1} /\ MaxFaults \in Nat

\* The powers of two the back-off uses, stated for the provers.
ASSUME PowersAssumption == \A n \in 0 .. 20 : 2 ^ n \in Nat

VARIABLES
  rec,        \* the outbox file: rec[k] is the record of key k
  wk,         \* wk[w]: what worker w keeps in memory
  sent,       \* observer: sent[k][c], how often chunk c of k was posted
  disturbed,  \* observer: keys whose attempt was cut short after it started
  overtaken,  \* observer: keys claimed while their handler still ran elsewhere
  faults      \* how many faults have happened so far

vars == <<rec, wk, sent, disturbed, overtaken, faults>>
observers == <<sent, disturbed, overtaken>>

Chunk == 0 .. Chunks - 1
Least(a, b) == IF a <= b THEN a ELSE b
Most(a, b) == IF a <= b THEN b ELSE a
Count(n) == IF n < Many THEN n + 1 ELSE n

(* renewalMs: a third of the lease, at least one tick.                     *)
Renewal == Most(1, Lease \div 3)

(* #retryDelay *)
RetryDelay(attempts) ==
  Least(RetryMax, RetryBase * 2 ^ Most(0, Least(20, attempts - 1)))

Delivering == {"search", "post", "posted", "settle"}   \* what is left of an attempt

\* signal: of the attempt's AbortController, "none" while there is none;
\* lag: observer, the time from the claim's clock reading to that of #runClaimed.
Idle ==
  [alive |-> TRUE, running |-> FALSE, timer |-> "none", pc |-> "idle",
   via |-> "none", scope |-> {}, key |-> NoKey, at |-> 0, ack |-> "none",
   signal |-> "none", confirmed |-> 0, lag |-> 0]

Absent ==
  [status |-> "absent", work |-> {}, attempts |-> 0, wait |-> 0,
   progress |-> 0, ambiguity |-> 0, owner |-> NoWorker, lease |-> 0]

Init ==
  /\ rec = [k \in Key |-> Absent]
  /\ wk = [w \in Worker |-> Idle]
  /\ sent = [k \in Key |-> [c \in Chunk |-> 0]]
  /\ disturbed = {} /\ overtaken = {}
  /\ faults = 0

\* w has claimed a record and its handler has not begun; #active has an entry.
Claimed(w) == wk[w].pc \in Delivering /\ wk[w].signal = "none"
Active(w) == wk[w].pc \in Delivering /\ wk[w].signal # "none"

Becomes(w, memory) == wk' = [wk EXCEPT ![w] = memory]
Write(k, record) == rec' = [rec EXCEPT ![k] = record]

Fault == faults < MaxFaults /\ faults' = faults + 1
NoFault == UNCHANGED faults

(***************************************************************************)
(* Callers and life cycle.                                                 *)
(***************************************************************************)

Fresh_ForgetsCompleted(k) == rec[k].status \in {"absent", "completed"}

Fresh(k) == rec[k].status = "absent"

(* enqueue by a caller in w's process: a new key is written pending and    *)
(* due; a known key with the same work keeps its record; a known key with  *)
(* other work throws before #wake.                                         *)
Enqueue(w, k, p) ==
  /\ wk[w].alive
  /\ \/ /\ Fresh(k)
        /\ Write(k, [Absent EXCEPT !.status = "pending", !.work = {p}])
     \/ ~Fresh(k) /\ rec[k].work = {p} /\ UNCHANGED rec
  /\ Becomes(w, [wk[w] EXCEPT !.timer = IF wk[w].running THEN "wake" ELSE @])
  /\ NoFault /\ UNCHANGED observers

Start(w) ==
  /\ wk[w].alive /\ ~wk[w].running
  /\ Becomes(w, [wk[w] EXCEPT !.running = TRUE, !.timer = "wake"])
  /\ NoFault /\ UNCHANGED <<rec, observers>>

(* stop: no timer, no renewals, every active handler is told to abort. One *)
(* whose claim is being written is not active yet and hears nothing.       *)
Stop(w) ==
  /\ wk[w].alive
  /\ wk[w].running \/ Active(w)
  /\ Becomes(w, [wk[w] EXCEPT !.running = FALSE, !.timer = "none",
                              !.signal = IF Active(w) THEN "stopped" ELSE @])
  /\ Fault /\ UNCHANGED <<rec, observers>>

(* The process dies; another one is left to carry on.                      *)
Crash(w) ==
  /\ wk[w].alive
  /\ \E v \in Worker \ {w} : wk[v].alive /\ Handles[w] \subseteq Handles[v]
  /\ Becomes(w, [Idle EXCEPT !.alive = FALSE])
  /\ disturbed' = IF wk[w].pc \in Delivering THEN disturbed \union {wk[w].key} ELSE disturbed
  /\ NoFault /\ UNCHANGED <<rec, sent, overtaken>>

(***************************************************************************)
(* The drain of one worker: #drain lets one run at a time.                 *)
(***************************************************************************)

(* A timer armed by #wake or #wakeLater fires and drains everything due.   *)
TimerFires(w) ==
  /\ wk[w].pc = "idle" /\ wk[w].timer # "none"
  /\ Becomes(w, [wk[w] EXCEPT !.timer = "none", !.pc = "claim",
                              !.via = wk[w].timer, !.scope = Key])
  /\ NoFault /\ UNCHANGED <<rec, observers>>

(* deliverNow(k), which a caller that has just enqueued k awaits.          *)
DeliverNow(w, k) ==
  /\ wk[w].alive /\ wk[w].pc = "idle"
  /\ rec[k].status \in {"pending", "processing"}
  /\ Becomes(w, [wk[w] EXCEPT !.pc = "claim", !.via = "call", !.scope = {k}])
  /\ NoFault /\ UNCHANGED <<rec, observers>>

Draining(w) == wk[w].pc = "claim" /\ (wk[w].running \/ wk[w].via = "call")

Due_IgnoringLease(k) ==
  \/ rec[k].status = "processing"
  \/ rec[k].status = "pending" /\ rec[k].wait <= 0

Due_PendingOnly(k) == rec[k].status = "pending" /\ rec[k].wait <= 0

Due(k) ==
  \/ rec[k].status = "pending" /\ rec[k].wait <= 0
  \/ rec[k].status = "processing" /\ rec[k].lease = 0

Candidates(w) == {k \in wk[w].scope \intersect Handles[w] : Due(k)}

\* The owner of k is alive and its attempt at k still goes on, or is yet to begin.
Overrun(k) ==
  \E v \in Worker : rec[k].owner = v /\ wk[v].key = k /\ wk[v].pc \in Delivering

NeedsSearch_OffByOne(k) == k \in Marked /\ rec[k].attempts > 1

\* The claim that follows makes record.attempts > 1.
NeedsSearch(k) == k \in Marked /\ rec[k].attempts > 0

(* #claimNext: the candidate that has been due longest is charged an       *)
(* attempt and leased to w, by the clock as the update reads it.           *)
Claim(w, k) ==
  /\ Draining(w)
  /\ k \in Candidates(w)
  /\ \A other \in Candidates(w) : rec[k].wait <= rec[other].wait
  /\ Write(k, [rec[k] EXCEPT !.status = "processing",
                             !.attempts = Least(AttemptCap, @ + 1),
                             !.owner = w, !.lease = Lease])
  /\ Becomes(w, [wk[w] EXCEPT !.pc = IF NeedsSearch(k) THEN "search" ELSE "post",
                              !.key = k, !.at = rec[k].progress])
  /\ IF Overrun(k) THEN /\ Fault
                        /\ overtaken' = overtaken \union {k}
                        /\ disturbed' = disturbed \union {k}
     ELSE NoFault /\ UNCHANGED <<overtaken, disturbed>>
  /\ UNCHANGED sent

(* #runClaimed, once the claim is written and the lock is released: by the *)
(* clock as it is then, which may be later than the one in the file.       *)
RunClaimed(w) ==
  /\ Claimed(w)
  /\ Becomes(w, [wk[w] EXCEPT !.signal = "live", !.confirmed = Lease])
  /\ NoFault /\ UNCHANGED <<rec, observers>>

(* #runDrain ends: nothing is due, or the worker was stopped.              *)
DrainEnds(w) ==
  /\ wk[w].pc = "claim"
  /\ ~Draining(w) \/ Candidates(w) = {}
  /\ Becomes(w, [wk[w] EXCEPT !.pc = "drained"])
  /\ NoFault /\ UNCHANGED <<rec, observers>>

(* The store refuses the claim (lock timeout, I/O error): #drain rejects.  *)
ClaimFails(w) ==
  /\ Draining(w)
  /\ Becomes(w, [wk[w] EXCEPT !.pc = "rejected"])
  /\ Fault /\ UNCHANGED <<rec, observers>>

(* #drain's finally block and #scheduleNext; a rejected drain started by   *)
(* #wake is caught there, which re-arms the poll once more if need be.     *)
Finish(w) ==
  /\ wk[w].pc \in {"drained", "rejected"}
  /\ Becomes(w, [wk[w] EXCEPT !.pc = "idle", !.via = "none", !.scope = {},
       !.timer = IF wk[w].running /\ @ = "none" THEN "later" ELSE @])
  /\ NoFault /\ UNCHANGED <<rec, observers>>

(* #scheduleNext cannot read the store, so #drain rejects from its finally *)
(* block: only the callback of #wake arms another timer.                   *)
FinishFails(w) ==
  /\ wk[w].pc \in {"drained", "rejected"}
  /\ wk[w].running /\ wk[w].timer = "none"
  /\ Becomes(w, [wk[w] EXCEPT !.pc = "idle", !.via = "none", !.scope = {},
       !.timer = IF wk[w].via = "wake" THEN "later" ELSE "none"])
  /\ Fault /\ UNCHANGED <<rec, observers>>

(***************************************************************************)
(* The handler of the claimed record: one chunk per claim.                 *)
(***************************************************************************)

(* The GitHub handler, on any attempt but the first, looks for its marker  *)
(* and reuses the comment that carries it.                                 *)
Search(w) ==
  /\ wk[w].pc = "search" /\ wk[w].signal = "live"
  /\ \/ /\ sent[wk[w].key][wk[w].at] > 0
        /\ Becomes(w, [wk[w] EXCEPT !.pc = "settle", !.ack = "ok"])
     \/ /\ sent[wk[w].key][wk[w].at] = 0
        /\ Becomes(w, [wk[w] EXCEPT !.pc = "post"])
  /\ NoFault /\ UNCHANGED <<rec, observers>>

(* The platform accepts the chunk.                                         *)
Post(w) ==
  /\ wk[w].pc = "post" /\ wk[w].signal = "live"
  /\ sent' = [sent EXCEPT ![wk[w].key][wk[w].at] = Count(@)]
  /\ Becomes(w, [wk[w] EXCEPT !.pc = "posted"])
  /\ NoFault /\ UNCHANGED <<rec, disturbed, overtaken>>

Acknowledged(w) ==
  /\ wk[w].pc = "posted"
  /\ Becomes(w, [wk[w] EXCEPT !.pc = "settle", !.ack = "ok"])
  /\ NoFault /\ UNCHANGED <<rec, observers>>

HandlerThrows(w, class) ==
  /\ Becomes(w, [wk[w] EXCEPT !.pc = "settle", !.ack = class])
  /\ disturbed' = disturbed \union {wk[w].key}
  /\ UNCHANGED <<rec, sent, overtaken>>

(* The connection breaks before or after the platform took the request.    *)
AckLost(w) ==
  /\ \/ wk[w].pc = "posted"
     \/ wk[w].pc = "post" /\ wk[w].signal = "live"
  /\ Fault /\ HandlerThrows(w, "ambiguous")

(* An error from before the request: the search failed, an event handler's *)
(* turn failed.                                                            *)
FailsEarly(w) ==
  /\ wk[w].pc \in {"search", "post"} /\ Active(w)
  /\ Fault /\ HandlerThrows(w, "transient")

(* signal.throwIfAborted() *)
HandlerAborts(w) ==
  /\ wk[w].pc \in {"search", "post"} /\ wk[w].signal \in {"aborted", "stopped"}
  /\ NoFault /\ HandlerThrows(w, "transient")

(* Discord answers 4xx: a PermanentDeliveryError. The GitHub handler has   *)
(* no such case.                                                           *)
Refused(w) ==
  /\ wk[w].pc = "post" /\ wk[w].signal = "live" /\ wk[w].key \notin Marked
  /\ NoFault /\ HandlerThrows(w, "permanent")

(***************************************************************************)
(* The lease and the settlement.                                           *)
(***************************************************************************)

Owns_AnyClaim(w) == rec[wk[w].key].status = "processing"

Owns(w) == rec[wk[w].key].status = "processing" /\ rec[wk[w].key].owner = w

Renewing(w) == wk[w].pc \in Delivering /\ wk[w].signal \in {"live", "aborted"}

(* The renewal timer of #runClaimed: #renewClaim extends a lease w still   *)
(* owns, in the file and in memory by one reading of the clock from before *)
(* the update (left: what there then is of the lease, all of it unless the *)
(* lock or the disk is slow), and aborts the handler once a lost lease     *)
(* cannot be trusted longer.                                               *)
Renew(w) ==
  /\ Renewing(w)
  /\ LET k == wk[w].key IN
     \/ /\ Owns(w) /\ wk[w].confirmed < Lease
        /\ \E left \in rec[k].lease .. Lease :
             /\ Write(k, [rec[k] EXCEPT !.lease = left])
             /\ Becomes(w, [wk[w] EXCEPT !.confirmed = left, !.lag = 0])
             /\ IF left < Lease THEN Fault ELSE NoFault
     \/ /\ ~Owns(w) /\ wk[w].confirmed <= Renewal /\ wk[w].signal = "live"
        /\ Becomes(w, [wk[w] EXCEPT !.signal = "aborted"])
        /\ NoFault /\ UNCHANGED rec
  /\ UNCHANGED observers

(* The store refuses the renewal when the lease is about to run out.       *)
RenewFails(w) ==
  /\ Renewing(w) /\ wk[w].confirmed <= Renewal /\ wk[w].signal = "live"
  /\ Becomes(w, [wk[w] EXCEPT !.signal = "aborted"])
  /\ Fault /\ UNCHANGED <<rec, observers>>

Checkpoint_Skips(w) == wk[w].at + 2
Checkpoint_Stays(w) == wk[w].at
IsLast_OffByOne(w) == wk[w].at + 2 >= Chunks

(* nextChunk, and whether the chunk just posted was the last one.          *)
Checkpoint(w) == wk[w].at + 1
IsLast(w) == wk[w].at + 1 >= Chunks

(* #settleSuccess and #settleError, for a record w still owns.             *)
SettleRecord(w, k) ==
  LET free == [rec[k] EXCEPT !.owner = NoWorker, !.lease = 0]
      delay == RetryDelay(rec[k].attempts)
  IN
  \/ /\ wk[w].ack = "ok" /\ ~IsLast(w)
     /\ Write(k, [free EXCEPT !.status = "pending", !.progress = Checkpoint(w), !.wait = 0])
  \/ /\ wk[w].ack = "ok" /\ IsLast(w)
     /\ Write(k, [free EXCEPT !.status = "completed", !.progress = 0])
  \/ /\ wk[w].ack = "permanent"
     /\ Write(k, [free EXCEPT !.status = "failed"])
  \/ /\ wk[w].ack = "ambiguous"
     /\ Write(k, [free EXCEPT !.status = "pending", !.wait = delay, !.ambiguity = Count(@)])
  \/ /\ wk[w].ack = "transient"
     /\ \E after \in RetryAfters :
          Write(k, [free EXCEPT !.status = "pending", !.wait = Most(delay, after)])

Leave(w, pc) ==
  Becomes(w, [wk[w] EXCEPT !.pc = pc, !.key = NoKey, !.at = 0, !.ack = "none",
                           !.signal = "none", !.confirmed = 0, !.lag = 0])

(* #updateOwned: a worker that lost its claim settles nothing. The drain   *)
(* then looks for more.                                                    *)
Settle(w) ==
  /\ wk[w].pc = "settle"
  /\ LET k == wk[w].key IN
     IF Owns(w) THEN SettleRecord(w, k) ELSE UNCHANGED rec
  /\ Leave(w, "claim")
  /\ NoFault /\ UNCHANGED observers

(* The store refuses the settlement: a success is then settled as a        *)
(* transient error by #runClaimed's catch block; an error's rejects the    *)
(* drain and leaves the claim to expire.                                   *)
SettleFails(w) ==
  /\ wk[w].pc = "settle"
  /\ IF wk[w].ack = "ok" THEN Becomes(w, [wk[w] EXCEPT !.ack = "transient"])
     ELSE Leave(w, "rejected")
  /\ disturbed' = disturbed \union {wk[w].key}
  /\ Fault /\ UNCHANGED <<rec, sent, overtaken>>

(* A tick of the wall clock. One that finds a claim being written is a     *)
(* fault: the lock or the disk is slow.                                    *)
Tick ==
  /\ rec' = [k \in Key |-> IF rec[k].status \in {"pending", "processing"}
               THEN [rec[k] EXCEPT !.wait = Most(-LateBound, @ - 1), !.lease = Most(0, @ - 1)]
               ELSE rec[k]]
  /\ wk' = [w \in Worker |->
              [wk[w] EXCEPT !.confirmed = Most(0, @ - 1),
                            !.lag = IF Claimed(w) THEN Least(Lease, @ + 1) ELSE @]]
  /\ <<rec, wk>>' # <<rec, wk>>
  /\ IF \E w \in Worker : Claimed(w) THEN Fault ELSE NoFault
  /\ UNCHANGED observers

Next ==
  \/ Tick
  \/ \E w \in Worker :
       \/ \E k \in Key : (\E p \in Work : Enqueue(w, k, p)) \/ DeliverNow(w, k) \/ Claim(w, k)
       \/ Start(w) \/ Stop(w) \/ Crash(w)
       \/ TimerFires(w) \/ DrainEnds(w) \/ ClaimFails(w) \/ Finish(w) \/ FinishFails(w)
       \/ RunClaimed(w) \/ Search(w) \/ Post(w) \/ Acknowledged(w)
       \/ AckLost(w) \/ FailsEarly(w) \/ HandlerAborts(w) \/ Refused(w)
       \/ Renew(w) \/ RenewFails(w) \/ Settle(w) \/ SettleFails(w)

(***************************************************************************)
(* Fairness: the clock goes on, a process that is up is started, its event *)
(* loop runs the continuations that are ready, and requests come back. A   *)
(* timer that fires while another drain runs waits for its turn, which     *)
(* callers of deliverNow may put off but not for ever: strong fairness.    *)
(***************************************************************************)
Fairness ==
  /\ WF_vars(Tick)
  /\ \A w \in Worker :
       /\ WF_vars(Start(w))
       /\ SF_vars(TimerFires(w))
       /\ WF_vars(\E k \in Key : Claim(w, k))
       /\ WF_vars(DrainEnds(w) \/ Finish(w))
       /\ WF_vars(RunClaimed(w) \/ Search(w) \/ Post(w) \/ Acknowledged(w) \/ HandlerAborts(w))
       /\ WF_vars(Settle(w))

Spec == Init /\ [][Next]_vars
FairSpec == Spec /\ Fairness

(***************************************************************************)
(* Properties.                                                             *)
(***************************************************************************)

Status == {"absent", "pending", "processing", "completed", "failed"}

Records ==
  [status : Status, work : SUBSET Work, attempts : 0 .. AttemptCap, wait : Int,
   progress : Chunk, ambiguity : 0 .. Many, owner : Worker \union {NoWorker},
   lease : 0 .. Lease]

Workers ==
  [alive : BOOLEAN, running : BOOLEAN, timer : {"none", "wake", "later"},
   pc : {"idle", "claim", "drained", "rejected"} \union Delivering,
   via : {"none", "wake", "later", "call"}, scope : SUBSET Key,
   key : Key \union {NoKey}, at : Chunk,
   ack : {"none", "ok", "transient", "ambiguous", "permanent"},
   signal : {"none", "live", "aborted", "stopped"}, confirmed : 0 .. Lease, lag : 0 .. Lease]

(* The shape of the records and of a worker's memory; a worker has a       *)
(* record in hand exactly while #active has an entry.                      *)
TypeOK ==
  /\ rec \in [Key -> Records]
  /\ wk \in [Worker -> Workers]
  /\ \A w \in Worker : wk[w].pc \in Delivering <=> wk[w].key \in Key
  /\ sent \in [Key -> [Chunk -> 0 .. Many]]
  /\ disturbed \subseteq Key /\ overtaken \subseteq Key
  /\ faults \in 0 .. MaxFaults

\* What w may trust of its lease, or could if its handler began now.
Assured(w) == (IF Claimed(w) THEN Lease ELSE wk[w].confirmed) - wk[w].lag

(* Until its confirmed lease has run out (active.confirmedUntil), less the *)
(* time by which the first confirmation came later than the claim, a       *)
(* worker that delivers k is the one the file names: nobody else can have  *)
(* claimed k, however claims, renewals, crashes and clock ticks interleave.*)
(* The rest of a first confirmation may outlast the file's lease; a        *)
(* renewal confirms no more than it writes.                                *)
ConfirmedLeaseIsOwned ==
  \A w \in Worker :
    wk[w].pc \in Delivering /\ Assured(w) > 0 =>
      /\ Owns(w)
      /\ Assured(w) <= rec[wk[w].key].lease

(* A record is reported complete only when every chunk was posted, and its *)
(* checkpoint is past chunk c only when c was: no settlement, not even by  *)
(* a worker that was overtaken and comes back, loses a chunk.              *)
NothingReportedUnsent ==
  \A k \in Key :
    /\ rec[k].status = "completed" => \A c \in Chunk : sent[k][c] > 0
    /\ \A c \in Chunk : c < rec[k].progress => sent[k][c] > 0

(* A chunk is posted twice only after an attempt was cut short: an error,  *)
(* a crash, a failed settlement, an abort or an overrun lease. Two workers *)
(* over one file, re-enqueues and restarts alone never repeat one.         *)
RepeatsAreExplained ==
  \A k \in Key, c \in Chunk : sent[k][c] > 1 => k \in disturbed

(* The GitHub handler's marker search keeps a comment from being repeated  *)
(* whatever attempts fail or crash, unless a handler outlived its lease    *)
(* and searched and posted next to the one that took over.                 *)
MarkedPostedOnce ==
  \A k \in Marked, c \in Chunk : sent[k][c] > 1 => k \in overtaken

(* A settlement frees the record of the worker that claimed it and of no   *)
(* other, a verdict is final, and attempts and the checkpoint never go     *)
(* back while the job lasts: what a late worker knows cannot overwrite     *)
(* what its successor has recorded (#updateOwned).                         *)
OnlyTheOwnerSettles ==
  [][\A k \in Key :
       /\ rec[k].status = "processing" /\ rec'[k].status # "processing" =>
            wk[rec[k].owner].pc = "settle" /\ wk[rec[k].owner].key = k
       /\ rec[k].status \in {"completed", "failed"} => rec'[k] = rec[k]
       /\ rec'[k].status # "completed" =>
            rec'[k].progress >= rec[k].progress /\ rec'[k].attempts >= rec[k].attempts
    ]_vars

(* The outbox implements at-least-once delivery: a job is owed from the    *)
(* moment it is written until a verdict is recorded.                       *)
Verdict(k) ==
  CASE rec[k].status = "absent" -> "none"
    [] rec[k].status \in {"pending", "processing"} -> "owed"
    [] OTHER -> rec[k].status

Delivery == INSTANCE AtLeastOnceDelivery WITH
  job <- [k \in Key |-> Verdict(k)],
  asked <- [k \in Key |-> rec[k].work],
  effects <- sent

ImplementsDelivery == Delivery!Spec

(* A worker that runs but has no drain in progress and no timer will not   *)
(* look at the file again by itself.                                       *)
Silent(w) == wk[w].alive /\ wk[w].running /\ wk[w].pc = "idle" /\ wk[w].timer = "none"

(* Every accepted job gets a verdict, across crashes, stops, errors and    *)
(* overruns, unless a worker's polling has stopped for good because the    *)
(* store could not be read when the next poll was to be scheduled.         *)
OwedIsSettledUnlessSilent ==
  \A k \in Key :
    rec[k].status = "pending" ~>
      rec[k].status \in {"completed", "failed"} \/ \E w \in Worker : Silent(w)
=============================================================================
