------------------------ MODULE DurableOutbox_proof ------------------------
(***************************************************************************)
(* Theorems about the durable outbox, for every set of workers, keys and   *)
(* payloads and every value of the bounds.                                 *)
(***************************************************************************)
EXTENDS DurableOutbox, TLAPS

(* The back-off is a natural number, at most RetryMax.                     *)
LEMMA RetryDelayBounded ==
  ASSUME NEW a \in 0 .. AttemptCap
  PROVE  RetryDelay(a) \in 0 .. RetryMax
<1> DEFINE e == Most(0, Least(20, a - 1))
<1>1. AttemptCap \in Nat /\ RetryMax \in Nat /\ RetryBase \in Nat
  BY OutboxAssumption
<1>2. e \in 0 .. 20
  BY <1>1 DEF Most, Least
<1>3. 2 ^ e \in Nat
  BY <1>2, PowersAssumption
<1>4. RetryBase * 2 ^ e \in Nat
  <2> DEFINE p == 2 ^ e
  <2>1. p \in Nat
    BY <1>3
  <2> HIDE DEF p
  <2>2. RetryBase * p \in Nat
    BY <1>1, <2>1
  <2> QED BY <2>2 DEF p
<1>5. RetryDelay(a) = Least(RetryMax, RetryBase * 2 ^ e)
  BY DEF RetryDelay
<1> QED
  <2> DEFINE d == RetryBase * 2 ^ e
  <2>1. d \in Nat
    BY <1>4
  <2> HIDE DEF d
  <2>2. Least(RetryMax, d) \in 0 .. RetryMax
    BY <1>1, <2>1 DEF Least
  <2> QED BY <1>5, <2>2 DEF d

(* Steps change one worker's memory, or one record, as a whole.            *)
Busy(m) == m.pc \in Delivering <=> m.key \in Key

LEMMA MemoryType ==
  ASSUME TypeOK, NEW w \in Worker, NEW m \in Workers, Becomes(w, m), Busy(m)
  PROVE  /\ wk' \in [Worker -> Workers]
         /\ \A v \in Worker : wk'[v].pc \in Delivering <=> wk'[v].key \in Key
BY DEF TypeOK, Becomes, Busy

LEMMA RecordType ==
  ASSUME rec \in [Key -> Records], NEW k \in Key, NEW r \in Records, Write(k, r)
  PROVE  rec' \in [Key -> Records]
BY DEF Write

LEMMA FaultType ==
  ASSUME faults \in 0 .. MaxFaults, Fault \/ NoFault
  PROVE  faults' \in 0 .. MaxFaults
BY OutboxAssumption DEF Fault, NoFault

LEMMA SettledType ==
  ASSUME TypeOK, NEW w \in Worker, NEW k \in Key, SettleRecord(w, k)
  PROVE  rec' \in [Key -> Records]
<1> DEFINE free == [rec[k] EXCEPT !.owner = NoWorker, !.lease = 0]
           delay == RetryDelay(rec[k].attempts)
<1>0. /\ 0 \in 0 .. Lease /\ 0 \in Chunk /\ Chunks \in Nat /\ 0 \in Int
      /\ RetryAfters \subseteq Nat /\ Many \in Nat
      /\ rec[k] \in Records /\ rec \in [Key -> Records] /\ wk[w] \in Workers
  BY OutboxAssumption DEF TypeOK, Chunk
<1>1. free \in Records
  BY <1>0 DEF Records
<1>2. delay \in Int
  BY <1>0, RetryDelayBounded DEF Records
<1> HIDE DEF free, delay
<1>3. CASE wk[w].ack = "ok" /\ ~IsLast(w)
           /\ Write(k, [free EXCEPT !.status = "pending", !.progress = Checkpoint(w), !.wait = 0])
  <2>1. Checkpoint(w) \in Chunk
    BY <1>0, <1>3 DEF IsLast, Checkpoint, Chunk, Workers
  <2>2. [free EXCEPT !.status = "pending", !.progress = Checkpoint(w), !.wait = 0] \in Records
    BY <1>0, <1>1, <2>1 DEF Records, Status
  <2> QED BY <1>0, <1>3, <2>2, RecordType
<1>4. CASE Write(k, [free EXCEPT !.status = "completed", !.progress = 0])
  <2>1. [free EXCEPT !.status = "completed", !.progress = 0] \in Records
    BY <1>0, <1>1 DEF Records, Status
  <2> QED BY <1>0, <1>4, <2>1, RecordType
<1>5. CASE Write(k, [free EXCEPT !.status = "failed"])
  <2>1. [free EXCEPT !.status = "failed"] \in Records
    BY <1>1 DEF Records, Status
  <2> QED BY <1>0, <1>5, <2>1, RecordType
<1>6. CASE Write(k, [free EXCEPT !.status = "pending", !.wait = delay, !.ambiguity = Count(@)])
  <2>1. Count(free.ambiguity) \in 0 .. Many
    BY <1>0, <1>1 DEF Records, Count
  <2>2. [free EXCEPT !.status = "pending", !.wait = delay, !.ambiguity = Count(@)] \in Records
    BY <1>1, <1>2, <2>1 DEF Records, Status
  <2> QED BY <1>0, <1>6, <2>2, RecordType
<1>7. ASSUME NEW after \in RetryAfters,
             Write(k, [free EXCEPT !.status = "pending", !.wait = Most(delay, after)])
      PROVE  rec' \in [Key -> Records]
  <2>1. Most(delay, after) \in Int
    BY <1>0, <1>2 DEF Most
  <2>2. [free EXCEPT !.status = "pending", !.wait = Most(delay, after)] \in Records
    BY <1>1, <2>1 DEF Records, Status
  <2> QED BY <1>0, <1>7, <2>2, RecordType
<1> QED BY <1>3, <1>4, <1>5, <1>6, <1>7 DEF SettleRecord, free, delay

LEMMA ZeroFits ==
  /\ 0 \in 0 .. Lease /\ Lease \in 0 .. Lease /\ 0 \in Chunk /\ 0 \in Int
  /\ 0 \in 0 .. Many /\ 0 \in 0 .. AttemptCap /\ 0 \in 0 .. MaxFaults
  /\ AttemptCap \in Nat /\ Lease \in Nat /\ Many \in Nat /\ LateBound \in Nat
  /\ NoKey \notin Key
BY OutboxAssumption DEF Chunk

LEMMA AbsentType == Absent \in Records
BY ZeroFits DEF Absent, Records, Status

LEMMA IdleType == Idle \in Workers /\ Busy(Idle)
BY ZeroFits DEF Idle, Workers, Busy, Delivering

LEMMA InitType == Init => TypeOK
BY ZeroFits, AbsentType, IdleType DEF Init, TypeOK, Busy

(* Every step keeps the records and the workers' memories well formed.     *)
LEMMA TypeStep == TypeOK /\ [Next]_vars => TypeOK'
<1> SUFFICES ASSUME TypeOK, [Next]_vars PROVE TypeOK'
  OBVIOUS
<1>t. /\ rec \in [Key -> Records] /\ wk \in [Worker -> Workers]
      /\ sent \in [Key -> [Chunk -> 0 .. Many]] /\ faults \in 0 .. MaxFaults
      /\ disturbed \subseteq Key /\ overtaken \subseteq Key
  BY DEF TypeOK
<1>w. \A w \in Worker : wk[w] \in Workers
  BY <1>t
<1>k. \A w \in Worker : Busy(wk[w])
  BY DEF TypeOK, Busy
<1>r. \A k \in Key : rec[k] \in Records
  BY <1>t
<1>m. ASSUME NEW w \in Worker, NEW m \in Workers, Becomes(w, m), Busy(m), Fault \/ NoFault,
             UNCHANGED <<rec, observers>>
      PROVE  TypeOK'
  BY <1>t, <1>m, MemoryType, FaultType DEF TypeOK, observers
<1>1. CASE Tick
  <2>1. ASSUME NEW k \in Key PROVE rec'[k] \in Records
    <3>1. rec[k] \in Records
      BY <1>t
    <3>2. Most(-LateBound, rec[k].wait - 1) \in Int /\ Most(0, rec[k].lease - 1) \in 0 .. Lease
      BY ZeroFits, <3>1 DEF Most, Records
    <3>3. [rec[k] EXCEPT !.wait = Most(-LateBound, @ - 1), !.lease = Most(0, @ - 1)] \in Records
      BY <3>1, <3>2 DEF Records
    <3> QED BY <1>1, <3>1, <3>3 DEF Tick
  <2>2. ASSUME NEW w \in Worker PROVE wk'[w] \in Workers /\ Busy(wk'[w])
    <3>1. wk[w] \in Workers /\ Busy(wk[w])
      BY <1>w, <1>k
    <3> DEFINE c == Most(0, wk[w].confirmed - 1)
               l == IF Claimed(w) THEN Least(Lease, wk[w].lag + 1) ELSE wk[w].lag
               m == [wk[w] EXCEPT !.confirmed = c, !.lag = l]
    <3>2. c \in 0 .. Lease /\ l \in 0 .. Lease
      BY ZeroFits, <3>1 DEF Most, Least, Workers
    <3>3. wk'[w] = m
      BY <1>1 DEF Tick
    <3> HIDE DEF c, l
    <3>4. m \in Workers
      BY <3>1, <3>2 DEF Workers
    <3>5. Busy(m)
      BY <3>1 DEF Workers, Busy
    <3> QED BY <3>3, <3>4, <3>5
  <2>3. rec' \in [Key -> Records] /\ wk' \in [Worker -> Workers]
    BY <1>1, <2>1, <2>2 DEF Tick
  <2>4. faults' \in 0 .. MaxFaults /\ UNCHANGED observers
    BY <1>1, <1>t, FaultType DEF Tick
  <2> QED BY <1>t, <2>2, <2>3, <2>4 DEF TypeOK, observers, Busy
<1>2. ASSUME NEW w \in Worker, NEW k \in Key, NEW p \in Work, Enqueue(w, k, p)
      PROVE  TypeOK'
  <2> DEFINE t == IF wk[w].running THEN "wake" ELSE wk[w].timer
             m == [wk[w] EXCEPT !.timer = t]
             r == [Absent EXCEPT !.status = "pending", !.work = {p}]
  <2>1. t \in {"none", "wake", "later"}
    BY <1>w DEF Workers
  <2>2. Becomes(w, m) /\ (Write(k, r) \/ UNCHANGED rec) /\ NoFault /\ UNCHANGED observers
    BY <1>2 DEF Enqueue
  <2> HIDE DEF t
  <2>3. m \in Workers /\ Busy(m)
    BY <1>w, <1>k, <2>1 DEF Workers, Busy
  <2>4. r \in Records
    BY AbsentType DEF Records, Status
  <2> HIDE DEF m, r
  <2>5. rec' \in [Key -> Records]
    BY <1>t, <2>2, <2>4, RecordType
  <2> QED BY <1>t, <2>2, <2>3, <2>5, MemoryType, FaultType DEF TypeOK, observers
<1>3. ASSUME NEW w \in Worker, NEW k \in Key, DeliverNow(w, k)
      PROVE  TypeOK'
  <2> DEFINE m == [wk[w] EXCEPT !.pc = "claim", !.via = "call", !.scope = {k}]
  <2>1. {k} \in SUBSET Key /\ wk[w].key \notin Key
    BY <1>3, <1>k DEF DeliverNow, Busy, Delivering
  <2>2. m \in Workers
    BY <1>w, <2>1 DEF Workers
  <2>3. Busy(m)
    BY <1>w, <2>1 DEF Workers, Busy, Delivering
  <2> QED BY <1>3, <1>m, <2>2, <2>3 DEF DeliverNow
<1>4. ASSUME NEW w \in Worker, NEW k \in Key, Claim(w, k)
      PROVE  TypeOK'
  <2> DEFINE pc == IF NeedsSearch(k) THEN "search" ELSE "post"
             n == Least(AttemptCap, rec[k].attempts + 1)
             m == [wk[w] EXCEPT !.pc = pc, !.key = k, !.at = rec[k].progress]
             r == [rec[k] EXCEPT !.status = "processing", !.attempts = n,
                                 !.owner = w, !.lease = Lease]
  <2>1. n \in 0 .. AttemptCap /\ rec[k].progress \in Chunk /\ pc \in Delivering
    BY ZeroFits, <1>r DEF Least, Records, Delivering
  <2>2. Becomes(w, m) /\ Write(k, r) /\ (Fault \/ NoFault)
    BY <1>4 DEF Claim
  <2>3. disturbed' \subseteq Key /\ overtaken' \subseteq Key /\ sent' = sent
    BY <1>4, <1>t DEF Claim
  <2> HIDE DEF n, pc
  <2>4. r \in Records
    BY ZeroFits, <1>r, <2>1 DEF Records, Status
  <2>5. m \in Workers
    BY ZeroFits, <1>w, <2>1 DEF Workers
  <2>6. Busy(m)
    BY <1>w, <2>1 DEF Workers, Busy
  <2> HIDE DEF m, r
  <2>7. rec' \in [Key -> Records]
    BY <1>t, <2>2, <2>4, RecordType
  <2> QED BY <1>t, <2>2, <2>3, <2>5, <2>6, <2>7, MemoryType, FaultType DEF TypeOK
<1>5. ASSUME NEW w \in Worker, Start(w) \/ Stop(w) PROVE TypeOK'
  <2> DEFINE sig == IF Active(w) THEN "stopped" ELSE wk[w].signal
             on == [wk[w] EXCEPT !.running = TRUE, !.timer = "wake"]
             off == [wk[w] EXCEPT !.running = FALSE, !.timer = "none", !.signal = sig]
  <2>1. sig \in {"none", "live", "aborted", "stopped"}
    BY <1>w DEF Workers
  <2>2. \/ Becomes(w, on) /\ NoFault /\ UNCHANGED <<rec, observers>>
        \/ Becomes(w, off) /\ Fault /\ UNCHANGED <<rec, observers>>
    BY <1>5 DEF Start, Stop
  <2> HIDE DEF sig
  <2>3. on \in Workers /\ off \in Workers
    BY <1>w, <2>1 DEF Workers
  <2>4. Busy(on) /\ Busy(off)
    BY <1>w, <1>k DEF Workers, Busy
  <2> HIDE DEF on, off
  <2> QED BY <1>m, <2>2, <2>3, <2>4
<1>6. ASSUME NEW w \in Worker, Crash(w) PROVE TypeOK'
  <2> DEFINE m == [Idle EXCEPT !.alive = FALSE]
  <2>1. m \in Workers
    BY IdleType DEF Workers
  <2>2. Busy(m)
    BY IdleType DEF Workers, Busy
  <2>3. disturbed' \subseteq Key
    BY <1>6, <1>t, <1>k DEF Crash, Busy
  <2>4. Becomes(w, m) /\ NoFault /\ UNCHANGED <<rec, sent, overtaken>>
    BY <1>6 DEF Crash
  <2> HIDE DEF m
  <2> QED BY <1>t, <2>1, <2>2, <2>3, <2>4, MemoryType, FaultType DEF TypeOK
<1>7. ASSUME NEW w \in Worker, TimerFires(w) PROVE TypeOK'
  <2> DEFINE m == [wk[w] EXCEPT !.timer = "none", !.pc = "claim", !.via = wk[w].timer, !.scope = Key]
  <2>1. wk[w].key \notin Key /\ wk[w].timer \in {"none", "wake", "later"} /\ Key \in SUBSET Key
    BY <1>7, <1>w, <1>k DEF TimerFires, Busy, Delivering, Workers
  <2>2. m \in Workers
    BY <1>w, <2>1 DEF Workers
  <2>3. Busy(m)
    BY <1>w, <2>1 DEF Workers, Busy, Delivering
  <2> QED BY <1>7, <1>m, <2>2, <2>3 DEF TimerFires
<1>8. ASSUME NEW w \in Worker, DrainEnds(w) \/ ClaimFails(w) PROVE TypeOK'
  <2> DEFINE m(pc) == [wk[w] EXCEPT !.pc = pc]
  <2>1. wk[w].key \notin Key
    BY <1>8, <1>k DEF DrainEnds, ClaimFails, Draining, Busy, Delivering
  <2>2. m("drained") \in Workers /\ m("rejected") \in Workers
    BY <1>w DEF Workers
  <2>3. Busy(m("drained")) /\ Busy(m("rejected"))
    BY <1>w, <2>1 DEF Workers, Busy, Delivering
  <2> QED BY <1>8, <1>m, <2>2, <2>3 DEF DrainEnds, ClaimFails
<1>9. ASSUME NEW w \in Worker, Finish(w) \/ FinishFails(w) PROVE TypeOK'
  <2> DEFINE m(t) == [wk[w] EXCEPT !.pc = "idle", !.via = "none", !.scope = {}, !.timer = t]
  <2>1. wk[w].key \notin Key
    BY <1>9, <1>k DEF Finish, FinishFails, Busy, Delivering
  <2>2. PICK t \in {"none", "wake", "later"} :
          Becomes(w, m(t)) /\ (Fault \/ NoFault) /\ UNCHANGED <<rec, observers>>
    BY <1>9, <1>w DEF Finish, FinishFails, Workers
  <2>3. m(t) \in Workers
    BY <1>w DEF Workers
  <2>4. Busy(m(t))
    BY <1>w, <2>1 DEF Workers, Busy, Delivering
  <2> HIDE DEF m
  <2> QED BY <1>m, <2>2, <2>3, <2>4
<1>10. ASSUME NEW w \in Worker, Search(w) \/ Acknowledged(w) PROVE TypeOK'
  <2> DEFINE m(pc, ack) == [wk[w] EXCEPT !.pc = pc, !.ack = ack]
             post == [wk[w] EXCEPT !.pc = "post"]
  <2>1. wk[w].key \in Key
    BY <1>10, <1>k DEF Search, Acknowledged, Busy, Delivering
  <2>2. /\ Becomes(w, m("settle", "ok")) \/ Becomes(w, post)
        /\ NoFault /\ UNCHANGED <<rec, observers>>
    BY <1>10 DEF Search, Acknowledged
  <2>3. m("settle", "ok") \in Workers /\ post \in Workers
    BY <1>w DEF Workers, Delivering
  <2>4. Busy(m("settle", "ok")) /\ Busy(post)
    BY <1>w, <2>1 DEF Workers, Busy, Delivering
  <2> HIDE DEF m, post
  <2> QED BY <1>m, <2>2, <2>3, <2>4
<1>11. ASSUME NEW w \in Worker, Post(w) PROVE TypeOK'
  <2> DEFINE m == [wk[w] EXCEPT !.pc = "posted"]
  <2>1. wk[w].key \in Key /\ wk[w].at \in Chunk
    BY <1>11, <1>w, <1>k DEF Post, Busy, Delivering, Workers
  <2>2. m \in Workers
    BY <1>w DEF Workers, Delivering
  <2>3. Busy(m)
    BY <1>w, <2>1 DEF Workers, Busy, Delivering
  <2>4. \A n \in 0 .. Many : Count(n) \in 0 .. Many
    BY ZeroFits DEF Count
  <2>5. sent' \in [Key -> [Chunk -> 0 .. Many]]
    BY <1>11, <1>t, <2>1, <2>4 DEF Post
  <2>6. Becomes(w, m) /\ NoFault /\ UNCHANGED <<rec, disturbed, overtaken>>
    BY <1>11 DEF Post
  <2> HIDE DEF m
  <2> QED BY <1>t, <2>2, <2>3, <2>5, <2>6, MemoryType, FaultType DEF TypeOK
<1>12. ASSUME NEW w \in Worker, NEW class \in {"transient", "ambiguous", "permanent"},
              wk[w].pc \in Delivering, HandlerThrows(w, class), Fault \/ NoFault
       PROVE  TypeOK'
  <2> DEFINE m == [wk[w] EXCEPT !.pc = "settle", !.ack = class]
  <2>1. wk[w].key \in Key
    BY <1>12, <1>k DEF Busy
  <2>2. m \in Workers
    BY <1>w DEF Workers, Delivering
  <2>3. Busy(m)
    BY <1>w, <2>1 DEF Workers, Busy, Delivering
  <2>4. Becomes(w, m) /\ disturbed' \subseteq Key /\ UNCHANGED <<rec, sent, overtaken>>
    BY <1>12, <1>t, <2>1 DEF HandlerThrows
  <2> HIDE DEF m
  <2> QED BY <1>12, <1>t, <2>2, <2>3, <2>4, MemoryType, FaultType DEF TypeOK
<1>13. ASSUME NEW w \in Worker, AckLost(w) \/ FailsEarly(w) \/ HandlerAborts(w) \/ Refused(w)
       PROVE  TypeOK'
  BY <1>12, <1>13 DEF AckLost, FailsEarly, HandlerAborts, Refused, Delivering
<1>14. ASSUME NEW w \in Worker, Renew(w) \/ RenewFails(w) PROVE TypeOK'
  <2> DEFINE k == wk[w].key
             renewed(left) == [wk[w] EXCEPT !.confirmed = left, !.lag = 0]
             aborted == [wk[w] EXCEPT !.signal = "aborted"]
             r(left) == [rec[k] EXCEPT !.lease = left]
  <2>1. k \in Key
    BY <1>14, <1>k DEF Renew, RenewFails, Renewing, Busy
  <2>2. /\ \A left \in 0 .. Lease : renewed(left) \in Workers /\ Busy(renewed(left))
        /\ aborted \in Workers /\ Busy(aborted)
    BY ZeroFits, <1>w, <1>k DEF Workers, Busy
  <2>3. \A left \in 0 .. Lease : r(left) \in Records
    BY <1>r, <2>1 DEF Records
  <2>4. rec[k].lease .. Lease \subseteq 0 .. Lease
    BY <1>r, <2>1, ZeroFits DEF Records
  <2>5. /\ Fault \/ NoFault
        /\ UNCHANGED observers
        /\ \/ \E left \in 0 .. Lease : Becomes(w, renewed(left)) /\ Write(k, r(left))
           \/ Becomes(w, aborted) /\ UNCHANGED rec
    BY <1>14, <2>4 DEF Renew, RenewFails
  <2> HIDE DEF renewed, aborted, k, r
  <2>6. /\ rec' \in [Key -> Records]
        /\ \E m \in Workers : Becomes(w, m) /\ Busy(m)
    BY <1>t, <2>1, <2>2, <2>3, <2>5, RecordType
  <2> QED BY <1>t, <2>5, <2>6, MemoryType, FaultType DEF TypeOK, observers
<1>15. ASSUME NEW w \in Worker, Settle(w) \/ SettleFails(w) PROVE TypeOK'
  <2> DEFINE m(pc) == [wk[w] EXCEPT !.pc = pc, !.key = NoKey, !.at = 0, !.ack = "none",
                                    !.signal = "none", !.confirmed = 0, !.lag = 0]
             again == [wk[w] EXCEPT !.ack = "transient"]
  <2>1. wk[w].key \in Key
    BY <1>15, <1>k DEF Settle, SettleFails, Busy, Delivering
  <2>2. m("claim") \in Workers /\ m("rejected") \in Workers
    BY ZeroFits, <1>w DEF Workers
  <2>3. again \in Workers
    BY <1>w DEF Workers
  <2>4. Busy(m("claim")) /\ Busy(m("rejected")) /\ Busy(again)
    BY ZeroFits, <1>w, <1>k DEF Workers, Busy, Delivering
  <2>5. rec' \in [Key -> Records]
    BY <1>15, <1>t, <2>1, SettledType DEF Settle, SettleFails
  <2>6. disturbed' \subseteq Key /\ (Fault \/ NoFault) /\ UNCHANGED <<sent, overtaken>>
    BY <1>15, <1>t, <2>1 DEF Settle, SettleFails, observers
  <2>7. Becomes(w, m("claim")) \/ Becomes(w, m("rejected")) \/ Becomes(w, again)
    BY <1>15 DEF Settle, SettleFails, Leave
  <2> HIDE DEF m, again
  <2> QED BY <1>t, <2>2, <2>3, <2>4, <2>5, <2>6, <2>7, MemoryType, FaultType DEF TypeOK
<1>16. ASSUME NEW w \in Worker, RunClaimed(w) PROVE TypeOK'
  <2> DEFINE m == [wk[w] EXCEPT !.signal = "live", !.confirmed = Lease]
  <2>1. m \in Workers
    BY ZeroFits, <1>w DEF Workers
  <2>2. Busy(m)
    BY <1>w, <1>k DEF Workers, Busy
  <2> QED BY <1>16, <1>m, <2>1, <2>2 DEF RunClaimed
<1>17. CASE UNCHANGED vars
  BY <1>17, <1>t DEF TypeOK, vars
<1> QED
  BY <1>1, <1>2, <1>3, <1>4, <1>5, <1>6, <1>7, <1>8, <1>9, <1>10, <1>11, <1>13, <1>14, <1>15,
     <1>16, <1>17 DEF Next

(* The records and the workers' memories are always well formed.           *)
THEOREM TypeCorrect == Spec => []TypeOK
<1>1. TypeOK /\ [Next]_vars => TypeOK'
  BY TypeStep
<1> QED BY InitType, <1>1, PTL DEF Spec

(***************************************************************************)
(* The lease. Leases only shrink with the clock, together with what their  *)
(* holders may trust of them, and only a record whose lease is spent       *)
(* changes hands: ConfirmedLeaseIsOwned is inductive as it stands.         *)
(***************************************************************************)

Holding(w) ==
  wk[w].pc \in Delivering /\ Assured(w) > 0 =>
    /\ Owns(w)
    /\ Assured(w) <= rec[wk[w].key].lease

\* Assured, of a worker with memory m.
Trust(m) ==
  (IF m.pc \in Delivering /\ m.signal = "none" THEN Lease ELSE m.confirmed) - m.lag

LEMMA TrustAt ==
  /\ \A w \in Worker : Assured(w) = Trust(wk[w])
  /\ \A w \in Worker : Assured(w)' = Trust(wk'[w])
BY DEF Assured, Claimed, Trust

LEMMA BecomesAt ==
  ASSUME TypeOK, NEW w \in Worker, NEW m, Becomes(w, m)
  PROVE  wk'[w] = m /\ \A v \in Worker \ {w} : wk'[v] = wk[v]
BY DEF TypeOK, Becomes

LEMMA WriteAt ==
  ASSUME TypeOK, NEW k \in Key, NEW r, Write(k, r)
  PROVE  rec'[k] = r /\ \A j \in Key \ {k} : rec'[j] = rec[j]
BY DEF TypeOK, Write

\* A step that changes no record, and takes up no new one, keeps every lease.
LEMMA HoldingFrame ==
  ASSUME TypeOK, NEW w \in Worker, NEW m, Becomes(w, m), UNCHANGED rec,
         \/ m.pc \notin Delivering
         \/ /\ wk[w].pc \in Delivering
            /\ m.key = wk[w].key /\ Trust(m) = Trust(wk[w]),
         NEW v \in Worker, Holding(v)
  PROVE  Holding(v)'
<1>1. CASE v = w
  BY <1>1, BecomesAt, TrustAt DEF Holding, Owns
<1>2. CASE v # w
  BY <1>2, BecomesAt, TrustAt DEF Holding, Owns
<1> QED BY <1>1, <1>2

LEMMA LeaseStep ==
  ASSUME TypeOK, [Next]_vars, ConfirmedLeaseIsOwned
  PROVE  ConfirmedLeaseIsOwned'
<1> SUFFICES ASSUME NEW v \in Worker PROVE Holding(v)'
  BY DEF ConfirmedLeaseIsOwned, Holding, Owns
<1>h. \A w \in Worker : Holding(w)
  BY DEF ConfirmedLeaseIsOwned, Holding
<1>w. \A w \in Worker : wk[w] \in Workers
  BY DEF TypeOK
<1>k. \A w \in Worker : wk[w].pc \in Delivering => wk[w].key \in Key
  BY DEF TypeOK
<1>r. \A k \in Key : rec[k] \in Records
  BY DEF TypeOK
<1>1. CASE Tick
  <2> SUFFICES ASSUME wk'[v].pc \in Delivering, Assured(v)' > 0
               PROVE  Owns(v)' /\ Assured(v)' <= rec'[wk'[v].key].lease
    BY DEF Holding
  <2> DEFINE k == wk[v].key
             c == Most(0, wk[v].confirmed - 1)
             l == IF Claimed(v) THEN Least(Lease, wk[v].lag + 1) ELSE wk[v].lag
             m == [wk[v] EXCEPT !.confirmed = c, !.lag = l]
  <2>1. wk'[v] = m
    BY <1>1 DEF Tick
  <2>2. /\ m.pc = wk[v].pc /\ m.key = k /\ m.signal = wk[v].signal
        /\ m.confirmed = c /\ m.lag = l
    <3> HIDE DEF c, l
    <3> QED BY <1>w DEF Workers
  <2>a. /\ wk[v].confirmed \in 0 .. Lease /\ wk[v].lag \in 0 .. Lease /\ Lease \in Nat
        /\ wk[v].pc \in Delivering /\ Assured(v) = Trust(wk[v]) /\ Assured(v)' = Trust(m)
    BY <1>w, <2>1, <2>2, ZeroFits, TrustAt DEF Workers
  <2>b. Assured(v)' = Assured(v) - 1 /\ Assured(v) \in Int
    <3>1. CASE Claimed(v)
      <4>1. Assured(v) = Lease - wk[v].lag /\ Assured(v)' = Lease - l
        BY <2>2, <2>a, <3>1 DEF Trust, Claimed
      <4>2. l = Least(Lease, wk[v].lag + 1)
        BY <3>1
      <4>3. Lease - l > 0
        BY <4>1
      <4> HIDE DEF l
      <4>4. l = wk[v].lag + 1
        BY <2>a, <4>2, <4>3 DEF Least
      <4>5. wk[v].lag \in Int /\ Lease \in Int
        BY <2>a
      <4> QED BY <4>1, <4>4, <4>5
    <3>2. CASE ~Claimed(v)
      <4>1. Assured(v) = wk[v].confirmed - wk[v].lag /\ Assured(v)' = c - wk[v].lag
        BY <2>2, <2>a, <3>2 DEF Trust, Claimed
      <4> QED BY <2>a, <4>1 DEF Most
    <3> QED BY <3>1, <3>2
  <2> HIDE DEF m
  <2>3. k \in Key /\ Owns(v) /\ Assured(v) <= rec[k].lease
    BY <1>h, <1>k, <2>a, <2>b DEF Holding
  <2>4. rec'[k] = [rec[k] EXCEPT !.wait = Most(-LateBound, @ - 1), !.lease = Most(0, @ - 1)]
    BY <1>1, <2>3 DEF Tick, Owns
  <2>5. /\ rec'[k].status = rec[k].status /\ rec'[k].owner = rec[k].owner
        /\ rec'[k].lease >= rec[k].lease - 1
    BY <1>r, <2>3, <2>4 DEF Records, Most
  <2>6. rec[k].lease \in Int /\ rec'[k].lease \in Int
    <3>1. rec'[k].lease = Most(0, rec[k].lease - 1)
      BY <1>r, <2>3, <2>4 DEF Records
    <3> QED BY <1>r, <2>3, <3>1 DEF Records, Most
  <2>7. wk'[v].key = k
    BY <2>1, <2>2 DEF m
  <2> QED BY <2>3, <2>5, <2>6, <2>7, <2>b DEF Owns
<1>2. ASSUME NEW w \in Worker, NEW k \in Key, NEW p \in Work, Enqueue(w, k, p)
      PROVE  Holding(v)'
  <2>1. wk'[v].pc = wk[v].pc /\ wk'[v].key = wk[v].key /\ Trust(wk'[v]) = Trust(wk[v])
    BY <1>2, <1>w DEF Enqueue, Becomes, TypeOK, Workers, Trust
  <2>2. \A j \in Key : rec[j].status = "processing" => rec'[j] = rec[j]
    BY <1>2, WriteAt DEF Enqueue, Fresh
  <2> QED BY <1>h, <1>k, <2>1, <2>2, TrustAt DEF Holding, Owns
<1>3. ASSUME NEW w \in Worker, NEW k \in Key, Claim(w, k)
      PROVE  Holding(v)'
  <2> DEFINE m == [wk[w] EXCEPT !.pc = IF NeedsSearch(k) THEN "search" ELSE "post",
                                !.key = k, !.at = rec[k].progress]
             r == [rec[k] EXCEPT !.status = "processing", !.attempts = Least(AttemptCap, @ + 1),
                                 !.owner = w, !.lease = Lease]
  <2>1. wk'[w] = m /\ rec'[k] = r
    BY <1>3, BecomesAt, WriteAt DEF Claim
  <2>2. /\ m.key = k /\ m.confirmed \in 0 .. Lease /\ m.lag \in 0 .. Lease
        /\ r.status = "processing" /\ r.owner = w /\ r.lease = Lease
    BY <1>w, <1>r DEF Workers, Records
  <2> HIDE DEF m, r
  <2>3. CASE v = w
    <3>1. Assured(v)' <= Lease
      BY <2>1, <2>2, <2>3, ZeroFits, TrustAt DEF Trust
    <3> QED BY <2>1, <2>2, <2>3, <3>1 DEF Holding, Owns
  <2>4. CASE v # w /\ wk[v].pc \in Delivering /\ Assured(v) > 0 /\ wk[v].key = k
    <3>1. rec[k].status = "processing" /\ rec[k].lease = 0
      BY <1>3, <1>h, <2>4 DEF Claim, Candidates, Due, Holding, Owns
    <3>2. Assured(v) <= 0
      BY <1>h, <2>4, <3>1 DEF Holding
    <3>3. Assured(v) \in Int
      BY <1>w, ZeroFits, TrustAt DEF Workers, Trust
    <3> QED BY <2>4, <3>2, <3>3
  <2>5. CASE v # w /\ ~(wk[v].pc \in Delivering /\ Assured(v) > 0 /\ wk[v].key = k)
    <3>1. wk'[v] = wk[v]
      BY <1>3, <2>5, BecomesAt DEF Claim
    <3>2. \A j \in Key \ {k} : rec'[j] = rec[j]
      BY <1>3, WriteAt DEF Claim
    <3> QED BY <1>h, <1>k, <2>5, <3>1, <3>2, TrustAt DEF Holding, Owns
  <2> QED BY <2>3, <2>4, <2>5
<1>4. ASSUME NEW w \in Worker, NEW k \in Key, DeliverNow(w, k)
      PROVE  Holding(v)'
  <2> DEFINE m == [wk[w] EXCEPT !.pc = "claim", !.via = "call", !.scope = {k}]
  <2>1. m.pc \notin Delivering
    BY <1>w DEF Workers, Delivering
  <2> QED BY <1>4, <1>h, <2>1, HoldingFrame DEF DeliverNow, observers
<1>5. ASSUME NEW w \in Worker, Start(w) \/ Stop(w) PROVE Holding(v)'
  <2> DEFINE Same(m) == m.pc = wk[w].pc /\ m.key = wk[w].key /\ Trust(m) = Trust(wk[w])
  <2>1. CASE Start(w)
    <3> DEFINE m == [wk[w] EXCEPT !.running = TRUE, !.timer = "wake"]
    <3>1. Same(m)
      BY <1>w DEF Workers, Trust
    <3>2. Becomes(w, m) /\ UNCHANGED rec
      BY <2>1 DEF Start
    <3> HIDE DEF m
    <3> QED BY <1>h, <3>1, <3>2, HoldingFrame
  <2>2. CASE Stop(w)
    <3> DEFINE sig == IF Active(w) THEN "stopped" ELSE wk[w].signal
           m == [wk[w] EXCEPT !.running = FALSE, !.timer = "none", !.signal = sig]
    <3>1. Becomes(w, m) /\ UNCHANGED rec
      BY <2>2 DEF Stop
    <3>2. wk[w].pc \in Delivering => (sig = "none" <=> wk[w].signal = "none")
      BY DEF Active
    <3> HIDE DEF sig
    <3>3. Same(m)
      BY <1>w, <3>2 DEF Workers, Trust
    <3> HIDE DEF m
    <3> QED BY <1>h, <3>1, <3>3, HoldingFrame
  <2> QED BY <1>5, <2>1, <2>2
<1>6. ASSUME NEW w \in Worker,
             \/ Crash(w) \/ TimerFires(w) \/ DrainEnds(w) \/ ClaimFails(w)
             \/ Finish(w) \/ FinishFails(w)
      PROVE  Holding(v)'
  <2>1. PICK m : Becomes(w, m) /\ m.pc \notin Delivering /\ UNCHANGED rec
    BY <1>6, <1>w DEF Crash, TimerFires, DrainEnds, ClaimFails, Finish, FinishFails, Idle,
                      Delivering, Workers
  <2> QED BY <1>h, <2>1, HoldingFrame
<1>7. ASSUME NEW w \in Worker,
             \/ Search(w) \/ Post(w) \/ Acknowledged(w) \/ AckLost(w)
             \/ FailsEarly(w) \/ HandlerAborts(w) \/ Refused(w)
      PROVE  Holding(v)'
  <2>1. wk[w].pc \in Delivering /\ UNCHANGED rec
    BY <1>7 DEF Search, Post, Acknowledged, AckLost, FailsEarly, HandlerAborts, Refused,
                HandlerThrows, Delivering, observers
  <2> DEFINE Same(m) == m.key = wk[w].key /\ Trust(m) = Trust(wk[w])
  <2>2. \A ack : \A pc \in Delivering : /\ Same([wk[w] EXCEPT !.pc = pc, !.ack = ack])
                                        /\ Same([wk[w] EXCEPT !.pc = pc])
    BY <1>w, <2>1 DEF Workers, Trust
  <2>p. {"settle", "post", "posted"} \subseteq Delivering
    BY DEF Delivering
  <2> HIDE DEF Same
  <2>3. CASE Search(w) \/ Acknowledged(w)
    <3>1. PICK m : Becomes(w, m) /\ Same(m)
      BY <2>2, <2>3, <2>p DEF Search, Acknowledged
    <3> QED BY <1>h, <2>1, <3>1, HoldingFrame DEF Same
  <2>4. CASE Post(w)
    <3>1. PICK m : Becomes(w, m) /\ Same(m)
      BY <2>2, <2>4, <2>p DEF Post
    <3> QED BY <1>h, <2>1, <3>1, HoldingFrame DEF Same
  <2>5. CASE \E class : HandlerThrows(w, class)
    <3>1. PICK m : Becomes(w, m) /\ Same(m)
      BY <2>2, <2>5, <2>p DEF HandlerThrows
    <3> QED BY <1>h, <2>1, <3>1, HoldingFrame DEF Same
  <2> QED BY <1>7, <2>3, <2>4, <2>5 DEF AckLost, FailsEarly, HandlerAborts, Refused
<1>8. ASSUME NEW w \in Worker, Renew(w) \/ RenewFails(w) PROVE Holding(v)'
  <2> DEFINE k == wk[w].key
             renewed(left) == [wk[w] EXCEPT !.confirmed = left, !.lag = 0]
             aborted == [wk[w] EXCEPT !.signal = "aborted"]
             r(left) == [rec[k] EXCEPT !.lease = left]
  <2>1. k \in Key /\ wk[w].pc \in Delivering /\ wk[w].signal \in {"live", "aborted"}
    BY <1>8, <1>k DEF Renew, RenewFails, Renewing
  <2>2. CASE UNCHANGED rec /\ Becomes(w, aborted)
    <3>1. aborted.key = wk[w].key /\ Trust(aborted) = Trust(wk[w])
      BY <1>w, <2>1 DEF Workers, Trust
    <3> HIDE DEF aborted
    <3> QED BY <1>h, <2>1, <2>2, <3>1, HoldingFrame
  <2>3. ASSUME NEW left \in rec[k].lease .. Lease, Owns(w), Write(k, r(left)), Becomes(w, renewed(left))
        PROVE  Holding(v)'
    <3>1. left \in Nat
      BY <1>r, <2>1, ZeroFits DEF Records
    <3>2. renewed(left).key = k /\ Trust(renewed(left)) = left
      BY <1>w, <2>1, <3>1 DEF Workers, Trust
    <3>3. /\ r(left).status = rec[k].status /\ r(left).owner = rec[k].owner
          /\ r(left).lease = left
      BY <1>r, <2>1 DEF Records
    <3>4. /\ wk'[w] = renewed(left) /\ \A u \in Worker \ {w} : wk'[u] = wk[u]
          /\ rec'[k] = r(left) /\ \A j \in Key \ {k} : rec'[j] = rec[j]
      BY <2>1, <2>3, BecomesAt, WriteAt
    <3> HIDE DEF k, r, renewed
    <3>5. CASE v = w
      BY <2>3, <3>1, <3>2, <3>3, <3>4, <3>5, TrustAt DEF Holding, Owns, k
    <3>6. CASE v # w
      <4>1. wk[v].pc \in Delivering /\ Assured(v) > 0 => wk[v].key # k
        BY <1>h, <2>3, <3>6 DEF Holding, Owns, k
      <4> QED BY <1>h, <1>k, <3>4, <3>6, <4>1, TrustAt DEF Holding, Owns
    <3> QED BY <3>5, <3>6
  <2> QED BY <1>8, <2>2, <2>3 DEF Renew, RenewFails
<1>9. ASSUME NEW w \in Worker, Settle(w) \/ SettleFails(w) PROVE Holding(v)'
  <2> DEFINE k == wk[w].key
  <2>1. k \in Key /\ wk[w].pc \in Delivering
    BY <1>9, <1>k DEF Settle, SettleFails, Delivering
  <2> DEFINE done == [wk[w] EXCEPT !.pc = "claim", !.key = NoKey, !.at = 0, !.ack = "none",
                                   !.signal = "none", !.confirmed = 0, !.lag = 0]
             given == [wk[w] EXCEPT !.pc = "rejected", !.key = NoKey, !.at = 0, !.ack = "none",
                                    !.signal = "none", !.confirmed = 0, !.lag = 0]
             again == [wk[w] EXCEPT !.ack = "transient"]
  <2>a. done.pc \notin Delivering /\ given.pc \notin Delivering
    BY <1>w DEF Workers, Delivering
  <2>b. again.key = k /\ Trust(again) = Trust(wk[w])
    BY <1>w DEF Workers, Trust
  <2>c. Becomes(w, done) \/ Becomes(w, given) \/ Becomes(w, again)
    BY <1>9 DEF Settle, SettleFails, Leave
  <2>d. Leave(w, "claim") => Becomes(w, done)
    BY DEF Leave
  <2> HIDE DEF done, given, again
  <2> DEFINE Fits(m) == m.pc \notin Delivering \/ (m.key = k /\ Trust(m) = Trust(wk[w]))
  <2>e. Fits(done) /\ Fits(given) /\ Fits(again)
    BY <2>a, <2>b
  <2> HIDE DEF Fits
  <2>2. PICK m : Becomes(w, m) /\ Fits(m)
    BY <2>c, <2>e
  <2>3. CASE UNCHANGED rec
    BY <1>h, <2>1, <2>2, <2>3, HoldingFrame DEF Fits
  <2>4. CASE Owns(w) /\ SettleRecord(w, k) /\ Leave(w, "claim")
    <3>1. \A j \in Key \ {k} : rec'[j] = rec[j]
      BY <2>1, <2>4, WriteAt DEF SettleRecord
    <3>2. CASE v = w
      <4>1. PICK n : Becomes(w, n) /\ n.pc \notin Delivering
        BY <2>4, <2>a, <2>d
      <4> QED BY <3>2, <4>1, BecomesAt DEF Holding
    <3>3. CASE v # w
      <4>1. wk'[v] = wk[v]
        BY <2>2, <3>3, BecomesAt
      <4>2. wk[v].pc \in Delivering /\ Assured(v) > 0 => wk[v].key # k
        BY <1>h, <2>4, <3>3 DEF Holding, Owns
      <4> QED BY <1>h, <1>k, <3>1, <4>1, <4>2, TrustAt DEF Holding, Owns
    <3> QED BY <3>2, <3>3
  <2> QED BY <1>9, <2>3, <2>4 DEF Settle, SettleFails
<1>10. ASSUME NEW w \in Worker, RunClaimed(w) PROVE Holding(v)'
  <2> DEFINE m == [wk[w] EXCEPT !.signal = "live", !.confirmed = Lease]
  <2>1. m.key = wk[w].key /\ Trust(m) = Trust(wk[w])
    BY <1>10, <1>w DEF RunClaimed, Claimed, Workers, Trust
  <2>2. wk[w].pc \in Delivering /\ Becomes(w, m) /\ UNCHANGED rec
    BY <1>10 DEF RunClaimed, Claimed
  <2> HIDE DEF m
  <2> QED BY <1>h, <2>1, <2>2, HoldingFrame
<1>11. CASE UNCHANGED vars
  BY <1>11, <1>h, TrustAt DEF vars, Holding, Owns
<1> QED
  BY <1>1, <1>2, <1>3, <1>4, <1>5, <1>6, <1>7, <1>8, <1>9, <1>10, <1>11 DEF Next

(* While the part of a confirmed lease lasts that does not come from the   *)
(* delay of the claim's write, the record the worker delivers is its own:  *)
(* no interleaving of claims, renewals, crashes, stops and errors lets a   *)
(* second worker claim it. From the first renewal on, that is the whole    *)
(* confirmed lease.                                                        *)
THEOREM LeaseExcludes == Spec => []ConfirmedLeaseIsOwned
<1>1. Init => ConfirmedLeaseIsOwned
  BY DEF Init, ConfirmedLeaseIsOwned, Idle, Delivering
<1>2. TypeOK /\ ConfirmedLeaseIsOwned /\ [Next]_vars => ConfirmedLeaseIsOwned'
  BY LeaseStep
<1> QED BY <1>1, <1>2, TypeCorrect, PTL DEF Spec

(***************************************************************************)
(* What a step does, as far as the delivery of records is concerned. A     *)
(* step accepts a record, claims one, posts a chunk, settles a record for  *)
(* its owner, or is quiet: no effect, no record's owner, progress or       *)
(* verdict changes, and each worker at most goes on with its handler or    *)
(* gives its record up.                                                    *)
(***************************************************************************)

Bears(w, k) == wk[w].pc \in Delivering /\ wk[w].key = k

\* Every record, or every worker, but one stays as it is.
OtherRecords(k) == \A j \in Key \ {k} : rec'[j] = rec[j]
OtherWorkers(w) == \A v \in Worker \ {w} : wk'[v] = wk[v]

\* The clock and renewals change nothing else of a record, and of a settled one nothing.
Kept(k) ==
  /\ rec'[k].status = rec[k].status /\ rec'[k].work = rec[k].work
  /\ rec'[k].owner = rec[k].owner /\ rec'[k].attempts = rec[k].attempts
  /\ rec'[k].progress = rec[k].progress
  /\ rec[k].status \in {"completed", "failed"} => rec'[k] = rec[k]

Same(w) ==
  /\ wk'[w].pc = wk[w].pc /\ wk'[w].key = wk[w].key
  /\ wk'[w].at = wk[w].at /\ wk'[w].ack = wk[w].ack

Idles(w) ==
  wk[w].pc \notin Delivering /\ wk'[w].pc \notin Delivering /\ wk'[w].ack \in {wk[w].ack, "none"}

GivesUp(w) ==
  /\ wk[w].pc \in Delivering /\ wk'[w].pc \notin Delivering /\ wk'[w].ack = "none"
  /\ wk[w].key \in disturbed' \/ (wk[w].pc = "settle" /\ ~Owns(w))

GoesOn(w) ==
  /\ wk[w].pc \in Delivering /\ wk'[w].key = wk[w].key /\ wk'[w].at = wk[w].at
  /\ \/ /\ wk[w].pc = "search" /\ wk'[w].pc = "post" /\ wk'[w].ack = wk[w].ack
        /\ sent[wk[w].key][wk[w].at] = 0
     \/ /\ wk'[w].pc = "settle" /\ wk'[w].ack = "ok"
        /\ \/ wk[w].pc = "posted"
           \/ wk[w].pc = "search" /\ sent[wk[w].key][wk[w].at] > 0
     \/ /\ wk'[w].pc = "settle" /\ wk'[w].ack # "ok" /\ wk[w].key \in disturbed'

Moves(w) == Same(w) \/ Idles(w) \/ GivesUp(w) \/ GoesOn(w)

Accepts(k, p) ==
  /\ rec[k].status = "absent"
  /\ rec'[k] = [Absent EXCEPT !.status = "pending", !.work = {p}] /\ OtherRecords(k)
  /\ \A w \in Worker : Same(w)
  /\ UNCHANGED observers

Claims(w, k) ==
  /\ rec[k].status \in {"pending", "processing"} /\ wk[w].pc = "claim"
  /\ rec'[k].status = "processing" /\ rec'[k].work = rec[k].work /\ rec'[k].owner = w
  /\ rec'[k].attempts = Least(AttemptCap, rec[k].attempts + 1)
  /\ rec'[k].progress = rec[k].progress /\ OtherRecords(k)
  /\ wk'[w].pc = IF NeedsSearch(k) THEN "search" ELSE "post"
  /\ wk'[w].key = k /\ wk'[w].at = rec[k].progress /\ wk'[w].ack = wk[w].ack
  /\ OtherWorkers(w)
  /\ UNCHANGED sent
  /\ overtaken' = IF Overrun(k) THEN overtaken \union {k} ELSE overtaken
  /\ disturbed' = IF Overrun(k) THEN disturbed \union {k} ELSE disturbed

Posts(w) ==
  /\ wk[w].pc = "post" /\ wk'[w].pc = "posted"
  /\ wk'[w].key = wk[w].key /\ wk'[w].at = wk[w].at /\ wk'[w].ack = wk[w].ack
  /\ OtherWorkers(w)
  /\ sent' = [sent EXCEPT ![wk[w].key][wk[w].at] = Count(@)]
  /\ UNCHANGED <<rec, disturbed, overtaken>>

Settles(w) ==
  LET k == wk[w].key IN
  /\ wk[w].pc = "settle" /\ Owns(w)
  /\ wk'[w].pc = "claim" /\ wk'[w].ack = "none" /\ OtherWorkers(w)
  /\ rec'[k].work = rec[k].work /\ rec'[k].attempts = rec[k].attempts
  /\ rec'[k].owner = NoWorker /\ OtherRecords(k)
  /\ \/ /\ wk[w].ack = "ok" /\ ~IsLast(w)
        /\ rec'[k].status = "pending" /\ rec'[k].progress = Checkpoint(w)
     \/ /\ wk[w].ack = "ok" /\ IsLast(w)
        /\ rec'[k].status = "completed" /\ rec'[k].progress = 0
     \/ /\ wk[w].ack # "ok"
        /\ rec'[k].status \in {"pending", "failed"} /\ rec'[k].progress = rec[k].progress
  /\ UNCHANGED observers

Quiet ==
  /\ \A k \in Key : Kept(k)
  /\ \A w \in Worker : Moves(w)
  /\ sent' = sent /\ overtaken' = overtaken /\ disturbed \subseteq disturbed'

LEMMA KeptFrame ==
  ASSUME UNCHANGED rec, NEW k \in Key
  PROVE  Kept(k)
BY DEF Kept

\* A step that changes no record and one worker's memory is quiet if that worker's move is.
LEMMA QuietFrame ==
  ASSUME TypeOK, NEW w \in Worker, NEW m, Becomes(w, m), Moves(w),
         UNCHANGED <<rec, sent, overtaken>>, disturbed \subseteq disturbed'
  PROVE  Quiet
<1>1. ASSUME NEW v \in Worker PROVE Moves(v)
  BY BecomesAt DEF Moves, Same
<1>2. \A k \in Key : Kept(k)
  BY KeptFrame
<1> QED BY <1>1, <1>2 DEF Quiet

LEMMA ClaimShape ==
  ASSUME TypeOK, NEW w \in Worker, NEW k \in Key, Claim(w, k)
  PROVE  Claims(w, k)
<1> DEFINE pc == IF NeedsSearch(k) THEN "search" ELSE "post"
           n == Least(AttemptCap, rec[k].attempts + 1)
           m == [wk[w] EXCEPT !.pc = pc, !.key = k, !.at = rec[k].progress]
           r == [rec[k] EXCEPT !.status = "processing", !.attempts = n, !.owner = w, !.lease = Lease]
<1>1. wk'[w] = m /\ OtherWorkers(w) /\ rec'[k] = r /\ OtherRecords(k)
  BY BecomesAt, WriteAt DEF Claim, OtherWorkers, OtherRecords
<1>2. rec[k] \in Records /\ wk[w] \in Workers
  BY DEF TypeOK
<1> HIDE DEF pc, n
<1>3. /\ m.pc = pc /\ m.key = k /\ m.at = rec[k].progress /\ m.ack = wk[w].ack
      /\ r.status = "processing" /\ r.work = rec[k].work /\ r.owner = w
      /\ r.attempts = n /\ r.progress = rec[k].progress
  BY <1>2 DEF Records, Workers
<1>4. rec[k].status \in {"pending", "processing"} /\ wk[w].pc = "claim" /\ UNCHANGED sent
  BY DEF Claim, Candidates, Due, Draining
<1>5. /\ overtaken' = IF Overrun(k) THEN overtaken \union {k} ELSE overtaken
      /\ disturbed' = IF Overrun(k) THEN disturbed \union {k} ELSE disturbed
  BY DEF Claim
<1> HIDE DEF m, r
<1> QED BY <1>1, <1>3, <1>4, <1>5 DEF Claims, pc, n

LEMMA AcceptShape ==
  ASSUME TypeOK, NEW w \in Worker, NEW k \in Key, NEW p \in Work, Enqueue(w, k, p)
  PROVE  Accepts(k, p) \/ Quiet
<1>1. wk[w] \in Workers
  BY DEF TypeOK
<1>2. PICK m : Becomes(w, m) /\ m.pc = wk[w].pc /\ m.key = wk[w].key /\ m.at = wk[w].at /\ m.ack = wk[w].ack
  BY <1>1 DEF Enqueue, Workers
<1>3. \A v \in Worker : Same(v)
  BY <1>2, BecomesAt DEF Same
<1>4. CASE UNCHANGED rec
  BY <1>2, <1>3, <1>4, QuietFrame DEF Enqueue, observers, Moves
<1>5. CASE Fresh(k) /\ Write(k, [Absent EXCEPT !.status = "pending", !.work = {p}])
  BY <1>3, <1>5, WriteAt DEF Enqueue, Fresh, Accepts, OtherRecords
<1> QED BY <1>4, <1>5 DEF Enqueue

LEMMA PostShape ==
  ASSUME TypeOK, NEW w \in Worker, Post(w)
  PROVE  Posts(w)
<1> DEFINE m == [wk[w] EXCEPT !.pc = "posted"]
<1>1. wk'[w] = m /\ OtherWorkers(w)
  BY BecomesAt DEF Post, OtherWorkers
<1>2. m.pc = "posted" /\ m.key = wk[w].key /\ m.at = wk[w].at /\ m.ack = wk[w].ack
  BY DEF TypeOK, Workers
<1> QED BY <1>1, <1>2 DEF Post, Posts

LEMMA TickShape ==
  ASSUME TypeOK, Tick
  PROVE  Quiet
<1>1. ASSUME NEW k \in Key PROVE Kept(k)
  <2>1. rec[k] \in Records
    BY DEF TypeOK
  <2>2. CASE rec[k].status \in {"pending", "processing"}
    <3> DEFINE wait == Most(-LateBound, rec[k].wait - 1)
               lease == Most(0, rec[k].lease - 1)
    <3>1. rec'[k] = [rec[k] EXCEPT !.wait = wait, !.lease = lease]
      BY <2>2 DEF Tick
    <3> HIDE DEF wait, lease
    <3> QED BY <2>1, <2>2, <3>1 DEF Kept, Records
  <2>3. CASE rec[k].status \notin {"pending", "processing"}
    BY <2>3 DEF Tick, Kept
  <2> QED BY <2>2, <2>3
<1>2. ASSUME NEW w \in Worker PROVE Same(w)
  <2> DEFINE c == Most(0, wk[w].confirmed - 1)
             l == IF Claimed(w) THEN Least(Lease, wk[w].lag + 1) ELSE wk[w].lag
  <2>1. wk[w] \in Workers /\ wk'[w] = [wk[w] EXCEPT !.confirmed = c, !.lag = l]
    BY DEF TypeOK, Tick
  <2> HIDE DEF c, l
  <2> QED BY <2>1 DEF Same, Workers
<1> QED BY <1>1, <1>2 DEF Quiet, Moves, Tick, observers

\* The life cycle and the drain: the handler, if one runs, is not touched or dies.
LEMMA DrainShape ==
  ASSUME TypeOK, NEW w \in Worker,
         \/ Start(w) \/ Stop(w) \/ Crash(w) \/ TimerFires(w) \/ DrainEnds(w) \/ ClaimFails(w)
         \/ Finish(w) \/ FinishFails(w) \/ \E k \in Key : DeliverNow(w, k)
  PROVE  Quiet
<1> DEFINE Slot(m) == m.pc = wk[w].pc /\ m.key = wk[w].key /\ m.at = wk[w].at /\ m.ack = wk[w].ack
           Leaves(m) == m.pc \notin Delivering /\ m.ack \in {wk[w].ack, "none"}
<1>0. wk[w] \in Workers
  BY DEF TypeOK
<1>1. CASE Start(w) \/ Stop(w)
  <2> DEFINE sig == IF Active(w) THEN "stopped" ELSE wk[w].signal
             on == [wk[w] EXCEPT !.running = TRUE, !.timer = "wake"]
             off == [wk[w] EXCEPT !.running = FALSE, !.timer = "none", !.signal = sig]
  <2>1. Becomes(w, on) \/ Becomes(w, off)
    BY <1>1 DEF Start, Stop
  <2> HIDE DEF sig
  <2>2. Slot(on) /\ Slot(off)
    BY <1>0 DEF Workers
  <2> HIDE DEF on, off, Slot
  <2>3. PICK m : Becomes(w, m) /\ Slot(m)
    BY <2>1, <2>2
  <2>4. Same(w)
    BY <2>3, BecomesAt DEF Same, Slot
  <2> QED BY <1>1, <2>3, <2>4, QuietFrame DEF Start, Stop, observers, Moves
<1>2. CASE Crash(w)
  <2> DEFINE m == [Idle EXCEPT !.alive = FALSE]
  <2>1. m.pc \notin Delivering /\ m.ack = "none"
    BY DEF Idle, Delivering
  <2>2. wk'[w] = m /\ Becomes(w, m)
    BY <1>2, BecomesAt DEF Crash
  <2>3. wk[w].pc \in Delivering => wk[w].key \in disturbed'
    BY <1>2 DEF Crash
  <2>4. Moves(w)
    BY <2>1, <2>2, <2>3 DEF Moves, Idles, GivesUp
  <2>5. disturbed \subseteq disturbed' /\ UNCHANGED <<rec, sent, overtaken>>
    BY <1>2 DEF Crash
  <2> QED BY <2>2, <2>4, <2>5, QuietFrame
<1>3. CASE \/ TimerFires(w) \/ DrainEnds(w) \/ ClaimFails(w)
           \/ Finish(w) \/ FinishFails(w) \/ \E k \in Key : DeliverNow(w, k)
  <2> DEFINE fired == [wk[w] EXCEPT !.timer = "none", !.pc = "claim", !.via = wk[w].timer,
                                    !.scope = Key]
             called(k) == [wk[w] EXCEPT !.pc = "claim", !.via = "call", !.scope = {k}]
             ended(pc) == [wk[w] EXCEPT !.pc = pc]
             done(t) == [wk[w] EXCEPT !.pc = "idle", !.via = "none", !.scope = {}, !.timer = t]
  <2>a. \E m : /\ Becomes(w, m)
              /\ \/ m = fired \/ m = ended("drained") \/ m = ended("rejected")
                 \/ (\E k \in Key : m = called(k)) \/ \E t : m = done(t)
    BY <1>3 DEF TimerFires, DrainEnds, ClaimFails, Finish, FinishFails, DeliverNow
  <2>b. /\ Leaves(fired) /\ Leaves(ended("drained")) /\ Leaves(ended("rejected"))
        /\ (\A k \in Key : Leaves(called(k))) /\ \A t : Leaves(done(t))
    BY <1>0 DEF Workers, Delivering
  <2> HIDE DEF fired, called, ended, done, Leaves
  <2>1. PICK m : Becomes(w, m) /\ Leaves(m)
    BY <2>a, <2>b
  <2>2. wk[w].pc \notin Delivering /\ UNCHANGED <<rec, observers>>
    BY <1>3 DEF TimerFires, DrainEnds, ClaimFails, Draining, Finish, FinishFails, DeliverNow,
                Delivering
  <2>3. Idles(w)
    BY <2>1, <2>2, BecomesAt DEF Idles, Leaves
  <2> QED BY <2>1, <2>2, <2>3, QuietFrame DEF Moves, observers
<1> QED BY <1>1, <1>2, <1>3

LEMMA HandlerShape ==
  ASSUME TypeOK, NEW w \in Worker,
         \/ Search(w) \/ Acknowledged(w) \/ AckLost(w) \/ FailsEarly(w)
         \/ HandlerAborts(w) \/ Refused(w)
  PROVE  Quiet
<1> DEFINE Slot(m, pc, ack) == m.pc = pc /\ m.key = wk[w].key /\ m.at = wk[w].at /\ m.ack = ack
<1>0. /\ wk[w] \in Workers
      /\ \A pc, ack : Slot([wk[w] EXCEPT !.pc = pc, !.ack = ack], pc, ack)
      /\ \A pc : Slot([wk[w] EXCEPT !.pc = pc], pc, wk[w].ack)
  BY DEF TypeOK, Workers
<1> HIDE DEF Slot
<1>1. CASE Search(w)
  <2>1. /\ wk[w].pc = "search" /\ UNCHANGED <<rec, observers>>
        /\ \/ /\ sent[wk[w].key][wk[w].at] > 0
              /\ \E m : Becomes(w, m) /\ Slot(m, "settle", "ok")
           \/ /\ sent[wk[w].key][wk[w].at] = 0
              /\ \E m : Becomes(w, m) /\ Slot(m, "post", wk[w].ack)
    BY <1>0, <1>1 DEF Search
  <2>2. PICK m : /\ Becomes(w, m)
                 /\ \/ sent[wk[w].key][wk[w].at] > 0 /\ Slot(m, "settle", "ok")
                    \/ sent[wk[w].key][wk[w].at] = 0 /\ Slot(m, "post", wk[w].ack)
    BY <2>1
  <2>3. GoesOn(w)
    BY <2>1, <2>2, BecomesAt DEF GoesOn, Slot, Delivering
  <2> QED BY <2>1, <2>2, <2>3, QuietFrame DEF Moves, observers
<1>2. CASE Acknowledged(w)
  <2>1. PICK m : Becomes(w, m) /\ Slot(m, "settle", "ok")
    BY <1>0, <1>2 DEF Acknowledged
  <2>2. GoesOn(w)
    BY <1>2, <2>1, BecomesAt DEF Acknowledged, GoesOn, Slot, Delivering
  <2> QED BY <1>2, <2>1, <2>2, QuietFrame DEF Acknowledged, Moves, observers
<1>3. ASSUME NEW class \in {"transient", "ambiguous", "permanent"},
             wk[w].pc \in Delivering, HandlerThrows(w, class)
      PROVE  Quiet
  <2>1. PICK m : Becomes(w, m) /\ Slot(m, "settle", class)
    BY <1>0, <1>3 DEF HandlerThrows
  <2>2. GoesOn(w)
    BY <1>3, <2>1, BecomesAt DEF HandlerThrows, GoesOn, Slot
  <2> QED BY <1>3, <2>1, <2>2, QuietFrame DEF HandlerThrows, Moves
<1> QED BY <1>1, <1>2, <1>3 DEF AckLost, FailsEarly, HandlerAborts, Refused, Delivering

\* The lease alone changes: no handler goes on.
LEMMA RenewShape ==
  ASSUME TypeOK, NEW w \in Worker, Renew(w) \/ RenewFails(w) \/ RunClaimed(w)
  PROVE  Quiet
<1> DEFINE k == wk[w].key
           r(left) == [rec[k] EXCEPT !.lease = left]
           renewed(left) == [wk[w] EXCEPT !.confirmed = left, !.lag = 0]
           aborted == [wk[w] EXCEPT !.signal = "aborted"]
           begun == [wk[w] EXCEPT !.signal = "live", !.confirmed = Lease]
           Slot(m) == m.pc = wk[w].pc /\ m.key = wk[w].key /\ m.at = wk[w].at /\ m.ack = wk[w].ack
<1>1. /\ k \in Key /\ wk[w] \in Workers /\ rec[k] \in Records
      /\ sent' = sent /\ overtaken' = overtaken /\ disturbed' = disturbed
  BY DEF TypeOK, Renew, RenewFails, RunClaimed, Claimed, Renewing, observers
<1>2. (\A left : Slot(renewed(left))) /\ Slot(aborted) /\ Slot(begun)
  BY <1>1 DEF Workers
<1>3. \/ \E left : Becomes(w, renewed(left)) /\ Owns(w) /\ Write(k, r(left))
      \/ (Becomes(w, aborted) \/ Becomes(w, begun)) /\ UNCHANGED rec
  BY DEF Renew, RenewFails, RunClaimed
<1> HIDE DEF renewed, aborted, begun, Slot
<1>4. PICK m : Becomes(w, m) /\ Slot(m)
  BY <1>2, <1>3
<1>5. \A v \in Worker : Same(v)
  BY <1>4, BecomesAt DEF Same, Slot
<1>6. CASE UNCHANGED rec
  BY <1>1, <1>5, <1>6, KeptFrame DEF Quiet, Moves
<1>7. ASSUME NEW left, Owns(w), Write(k, r(left))
      PROVE  Quiet
  <2>1. rec'[k] = r(left) /\ \A j \in Key \ {k} : rec'[j] = rec[j]
    BY <1>1, <1>7, WriteAt
  <2>2. /\ rec[k].status = "processing"
        /\ r(left).status = rec[k].status /\ r(left).work = rec[k].work
        /\ r(left).owner = rec[k].owner /\ r(left).attempts = rec[k].attempts
        /\ r(left).progress = rec[k].progress
    BY <1>1, <1>7 DEF Records, Owns
  <2> HIDE DEF k, r
  <2>3. \A j \in Key : Kept(j)
    BY <2>1, <2>2 DEF Kept
  <2> QED BY <1>1, <1>5, <2>3 DEF Quiet, Moves
<1> QED BY <1>3, <1>6, <1>7

LEMMA SettleShape ==
  ASSUME TypeOK, NEW w \in Worker, Settle(w)
  PROVE  Settles(w) \/ Quiet
<1> DEFINE k == wk[w].key
           free == [rec[k] EXCEPT !.owner = NoWorker, !.lease = 0]
           done == [wk[w] EXCEPT !.pc = "claim", !.key = NoKey, !.at = 0, !.ack = "none",
                                 !.signal = "none", !.confirmed = 0, !.lag = 0]
           delay == RetryDelay(rec[k].attempts)
<1>1. k \in Key /\ wk[w].pc = "settle" /\ wk[w] \in Workers /\ rec[k] \in Records
  BY DEF TypeOK, Settle, Delivering
<1>2. done.pc = "claim" /\ done.ack = "none"
  BY <1>1 DEF Workers
<1>3. Becomes(w, done) /\ UNCHANGED observers
  BY DEF Settle, Leave
<1> HIDE DEF done
<1>4. wk'[w].pc = "claim" /\ wk'[w].ack = "none" /\ OtherWorkers(w)
  BY <1>2, <1>3, BecomesAt DEF OtherWorkers
<1>5. CASE ~Owns(w)
  <2>1. GivesUp(w)
    BY <1>1, <1>4, <1>5 DEF GivesUp, Delivering
  <2> QED BY <1>3, <1>5, <2>1, QuietFrame DEF Settle, Moves, observers
<1>6. CASE Owns(w) /\ SettleRecord(w, k)
  <2> DEFINE Freed(r) == /\ r.work = rec[k].work /\ r.attempts = rec[k].attempts
                         /\ r.owner = NoWorker
             Ends(r) ==
               \/ /\ wk[w].ack = "ok" /\ ~IsLast(w)
                  /\ r.status = "pending" /\ r.progress = Checkpoint(w)
               \/ /\ wk[w].ack = "ok" /\ IsLast(w)
                  /\ r.status = "completed" /\ r.progress = 0
               \/ /\ wk[w].ack # "ok"
                  /\ r.status \in {"pending", "failed"} /\ r.progress = rec[k].progress
             Outcome(r) == Freed(r) /\ Ends(r)
             checkpointed == [free EXCEPT !.status = "pending", !.progress = Checkpoint(w), !.wait = 0]
             completed == [free EXCEPT !.status = "completed", !.progress = 0]
             failed == [free EXCEPT !.status = "failed"]
             doubtful == [free EXCEPT !.status = "pending", !.wait = delay, !.ambiguity = Count(@)]
             retried(after) == [free EXCEPT !.status = "pending", !.wait = Most(delay, after)]
  <2>1. \/ wk[w].ack = "ok" /\ ~IsLast(w) /\ Write(k, checkpointed)
        \/ wk[w].ack = "ok" /\ IsLast(w) /\ Write(k, completed)
        \/ wk[w].ack = "permanent" /\ Write(k, failed)
        \/ wk[w].ack = "ambiguous" /\ Write(k, doubtful)
        \/ wk[w].ack = "transient" /\ \E after \in RetryAfters : Write(k, retried(after))
    BY <1>6 DEF SettleRecord
  <2> HIDE DEF delay
  <2>2. wk[w].ack = "ok" /\ ~IsLast(w) => Outcome(checkpointed)
    BY <1>1 DEF Records
  <2>3. wk[w].ack = "ok" /\ IsLast(w) => Outcome(completed)
    BY <1>1 DEF Records
  <2>4. wk[w].ack # "ok" => Outcome(failed) /\ Outcome(doubtful) /\ \A after : Outcome(retried(after))
    BY <1>1 DEF Records
  <2> HIDE DEF checkpointed, completed, failed, doubtful, retried, Outcome
  <2>5. PICK r : Write(k, r) /\ Outcome(r)
    BY <2>1, <2>2, <2>3, <2>4
  <2>6. rec'[k] = r /\ OtherRecords(k)
    BY <1>1, <2>5, WriteAt DEF OtherRecords
  <2> QED BY <1>1, <1>3, <1>4, <1>6, <2>5, <2>6 DEF Settles, Outcome
<1> QED BY <1>5, <1>6 DEF Settle

LEMMA SettleFailsShape ==
  ASSUME TypeOK, NEW w \in Worker, SettleFails(w)
  PROVE  Quiet
<1> DEFINE again == [wk[w] EXCEPT !.ack = "transient"]
           given == [wk[w] EXCEPT !.pc = "rejected", !.key = NoKey, !.at = 0, !.ack = "none",
                                  !.signal = "none", !.confirmed = 0, !.lag = 0]
<1>1. /\ again.pc = wk[w].pc /\ again.key = wk[w].key /\ again.at = wk[w].at
      /\ again.ack = "transient"
      /\ given.pc = "rejected" /\ given.ack = "none"
  BY DEF TypeOK, Workers
<1>2. /\ wk[w].pc = "settle" /\ UNCHANGED <<rec, sent, overtaken>>
      /\ wk[w].key \in disturbed' /\ disturbed \subseteq disturbed'
      /\ Becomes(w, again) \/ Becomes(w, given)
  BY DEF SettleFails, Leave
<1> HIDE DEF again, given
<1>3. PICK m : Becomes(w, m) /\ (m = again \/ m = given)
  BY <1>2
<1>4. Moves(w)
  BY <1>1, <1>2, <1>3, BecomesAt DEF Moves, GoesOn, GivesUp, Delivering
<1> QED BY <1>2, <1>3, <1>4, QuietFrame

(* Every step has one of the five shapes.                                  *)
LEMMA StepShape ==
  ASSUME TypeOK, [Next]_vars
  PROVE  \/ \E k \in Key, p \in Work : Accepts(k, p)
         \/ \E w \in Worker, k \in Key : Claims(w, k)
         \/ \E w \in Worker : Posts(w) \/ Settles(w)
         \/ Quiet
<1>1. CASE UNCHANGED vars
  BY <1>1 DEF vars, Quiet, Kept, Moves, Same
<1> QED BY <1>1, AcceptShape, ClaimShape, PostShape, TickShape, DrainShape, HandlerShape,
           RenewShape, SettleShape, SettleFailsShape DEF Next

(***************************************************************************)
(* What the records and the handlers at work say about the effects.        *)
(***************************************************************************)

\* A worker that delivers a record has posted what comes before its chunk, and its chunk once it
\* has an answer; the owner's chunk is the one the record's checkpoint names.
Carried(w) ==
  /\ wk[w].ack # "none" => wk[w].pc = "settle"
  /\ wk[w].pc \in Delivering =>
       LET k == wk[w].key IN
       /\ rec[k].attempts > 0 /\ rec[k].status # "absent"
       /\ Owns(w) => wk[w].at = rec[k].progress
       /\ \A c \in Chunk : c < wk[w].at => sent[k][c] > 0
       /\ wk[w].pc = "posted" \/ wk[w].ack = "ok" => sent[k][wk[w].at] > 0

\* A record claims no effect that did not happen, and none happens before the first claim.
Recorded(k) ==
  /\ rec[k].status = "completed" => \A c \in Chunk : sent[k][c] > 0
  /\ \A c \in Chunk : c < rec[k].progress => sent[k][c] > 0
  /\ rec[k].attempts = 0 => \A c \in Chunk : sent[k][c] = 0
  /\ rec[k].status = "absent" => rec[k].attempts = 0

DeliveryInv == (\A w \in Worker : Carried(w)) /\ (\A k \in Key : Recorded(k))

LEMMA PostEffect ==
  ASSUME TypeOK, NEW w \in Worker, Posts(w), NEW k \in Key, NEW c \in Chunk
  PROVE  /\ wk[w].key \in Key /\ wk[w].at \in Chunk
         /\ sent'[k][c] = IF k = wk[w].key /\ c = wk[w].at THEN Count(sent[k][c]) ELSE sent[k][c]
<1>1. wk[w].key \in Key /\ wk[w].at \in Chunk
  BY DEF TypeOK, Workers, Posts, Delivering
<1>2. sent \in [Key -> [Chunk -> 0 .. Many]]
  BY DEF TypeOK
<1> QED BY <1>1, <1>2 DEF Posts

LEMMA CountGrows ==
  ASSUME NEW n \in 0 .. Many
  PROVE  Count(n) \in 1 .. Many /\ Count(n) >= n /\ (n = 0 => Count(n) = 1)
BY OutboxAssumption DEF Count

LEMMA EffectsGrow ==
  ASSUME TypeOK, [Next]_vars, NEW k \in Key, NEW c \in Chunk
  PROVE  sent[k][c] > 0 => sent'[k][c] > 0
<1>1. sent[k][c] \in 0 .. Many
  BY DEF TypeOK
<1>2. CASE \E w \in Worker : Posts(w)
  BY <1>1, <1>2, PostEffect, CountGrows, ZeroFits
<1>3. CASE sent' = sent
  BY <1>3
<1> QED BY <1>2, <1>3, StepShape DEF Accepts, Claims, Settles, Quiet, observers

\* A worker that delivers after a quiet step delivered the same chunk of the same record before.
LEMMA QuietBearer ==
  ASSUME TypeOK, TypeOK', Quiet, NEW w \in Worker, wk'[w].pc \in Delivering
  PROVE  /\ wk[w].pc \in Delivering /\ wk'[w].key = wk[w].key /\ wk'[w].at = wk[w].at
         /\ wk[w].key \in Key /\ wk[w].at \in Chunk /\ Kept(wk[w].key) /\ (Owns(w)' <=> Owns(w))
         /\ (wk'[w].pc = wk[w].pc /\ wk'[w].ack = wk[w].ack) \/ GoesOn(w)
<1>1. Same(w) \/ GoesOn(w)
  BY DEF Quiet, Moves, Idles, GivesUp
<1>2. /\ wk[w].pc \in Delivering /\ wk'[w].key = wk[w].key /\ wk'[w].at = wk[w].at
      /\ (wk'[w].pc = wk[w].pc /\ wk'[w].ack = wk[w].ack) \/ GoesOn(w)
  BY <1>1 DEF Same, GoesOn
<1>3. wk[w].key \in Key /\ wk[w].at \in Chunk
  BY <1>2 DEF TypeOK, Workers
<1>4. Kept(wk[w].key)
  BY <1>3 DEF Quiet
<1> QED BY <1>2, <1>3, <1>4 DEF Owns, Kept

LEMMA CarriedStep ==
  ASSUME TypeOK, TypeOK', DeliveryInv, [Next]_vars, NEW v \in Worker
  PROVE  Carried(v)'
<1> DEFINE j == wk[v].key
<1>0. /\ Carried(v) /\ wk[v] \in Workers
      /\ wk[v].pc \in Delivering => j \in Key /\ wk[v].at \in Chunk
      /\ \A k \in Key : Recorded(k) /\ rec[k] \in Records
  BY DEF DeliveryInv, TypeOK, Workers
<1>g. \A k \in Key, c \in Chunk : sent[k][c] > 0 => sent'[k][c] > 0
  BY EffectsGrow
<1>1. ASSUME NEW k \in Key, NEW p \in Work, Accepts(k, p)
      PROVE  Carried(v)'
  <2>1. Same(v) /\ sent' = sent
    BY <1>1 DEF Accepts, observers
  <2>2. wk[v].pc \in Delivering => rec'[j] = rec[j]
    BY <1>0, <1>1 DEF Carried, Accepts, OtherRecords
  <2> QED BY <1>0, <2>1, <2>2 DEF Carried, Owns, Same
<1>2. ASSUME NEW w \in Worker, NEW k \in Key, Claims(w, k)
      PROVE  Carried(v)'
  <2>1. rec'[k].attempts > 0 /\ rec'[k].status = "processing" /\ sent' = sent
    BY <1>0, <1>2, ZeroFits, OutboxAssumption DEF Claims, Least, Records
  <2>2. CASE v = w
    BY <1>0, <1>2, <2>1, <2>2 DEF Claims, Carried, Recorded, Owns, Delivering
  <2>3. CASE v # w /\ (j # k \/ wk[v].pc \notin Delivering)
    BY <1>0, <1>2, <2>1, <2>3 DEF Claims, OtherWorkers, OtherRecords, Carried, Owns
  <2>4. CASE v # w /\ j = k
    BY <1>0, <1>2, <2>1, <2>4 DEF Claims, OtherWorkers, Carried, Owns
  <2> QED BY <2>2, <2>3, <2>4
<1>3. ASSUME NEW w \in Worker, Posts(w)
      PROVE  Carried(v)'
  <2>1. CASE v = w
    <3>1. /\ wk'[v].key = j /\ wk'[v].at = wk[v].at /\ wk'[v].ack = "none"
          /\ wk[v].pc \in Delivering /\ wk'[v].pc = "posted" /\ rec' = rec
      BY <1>0, <1>3, <2>1 DEF Posts, Carried, Delivering
    <3>2. sent'[j][wk[v].at] > 0
      <4>1. sent[j][wk[v].at] \in 0 .. Many
        BY <1>0, <3>1 DEF TypeOK
      <4>2. sent'[j][wk[v].at] = Count(sent[j][wk[v].at])
        BY <1>0, <1>3, <2>1, <3>1, PostEffect
      <4> QED BY <4>1, <4>2, CountGrows, ZeroFits
    <3> QED BY <1>0, <1>g, <3>1, <3>2 DEF Carried, Owns
  <2>2. CASE v # w
    BY <1>0, <1>3, <1>g, <2>2 DEF Posts, OtherWorkers, Carried, Owns
  <2> QED BY <2>1, <2>2
<1>4. ASSUME NEW w \in Worker, Settles(w)
      PROVE  Carried(v)'
  <2>1. CASE v = w
    BY <1>4, <2>1 DEF Settles, Carried, Delivering
  <2>2. CASE v # w /\ (j # wk[w].key \/ wk[v].pc \notin Delivering)
    BY <1>0, <1>4, <2>2 DEF Settles, OtherWorkers, OtherRecords, Carried, Owns, observers
  <2>3. CASE v # w /\ j = wk[w].key
    BY <1>0, <1>4, <2>3 DEF Settles, OtherWorkers, Carried, Owns, observers
  <2> QED BY <2>1, <2>2, <2>3
<1>5. CASE Quiet
  <2>1. CASE wk'[v].pc \notin Delivering
    BY <1>0, <1>5, <2>1 DEF Quiet, Moves, Same, Idles, GivesUp, GoesOn, Carried, Delivering
  <2>2. CASE wk'[v].pc \in Delivering
    <3>1. /\ wk[v].pc \in Delivering /\ wk'[v].key = j /\ wk'[v].at = wk[v].at
          /\ j \in Key /\ Kept(j) /\ (Owns(v)' <=> Owns(v)) /\ sent' = sent
          /\ (wk'[v].pc = wk[v].pc /\ wk'[v].ack = wk[v].ack) \/ GoesOn(v)
      BY <1>5, <2>2, QuietBearer DEF Quiet
    <3>2. wk'[v].ack # "none" => wk'[v].pc = "settle"
      BY <1>0, <3>1 DEF Carried, GoesOn
    <3>3. wk'[v].pc = "posted" \/ wk'[v].ack = "ok" => sent[j][wk[v].at] > 0
      BY <1>0, <3>1 DEF Carried, GoesOn
    <3> QED BY <1>0, <3>1, <3>2, <3>3 DEF Carried, Kept
  <2> QED BY <2>1, <2>2
<1> QED BY <1>1, <1>2, <1>3, <1>4, <1>5, StepShape

LEMMA RecordedStep ==
  ASSUME TypeOK, TypeOK', DeliveryInv, [Next]_vars, NEW j \in Key
  PROVE  Recorded(j)'
<1>0. /\ Recorded(j) /\ rec[j] \in Records
      /\ \A w \in Worker : Carried(w) /\ wk[w] \in Workers
  BY DEF DeliveryInv, TypeOK
<1>g. \A c \in Chunk : sent[j][c] > 0 => sent'[j][c] > 0
  BY EffectsGrow
<1>1. ASSUME NEW k \in Key, NEW p \in Work, Accepts(k, p)
      PROVE  Recorded(j)'
  <2>1. CASE j = k
    <3>1. /\ rec'[j].status = "pending" /\ rec'[j].attempts = 0 /\ rec'[j].progress = 0
          /\ rec[j].attempts = 0 /\ sent' = sent
      BY <1>0, <1>1, <2>1 DEF Accepts, Absent, Recorded, observers
    <3> QED BY <1>0, <3>1 DEF Recorded, Chunk
  <2>2. CASE j # k
    BY <1>0, <1>1, <2>2 DEF Accepts, OtherRecords, Recorded, observers
  <2> QED BY <2>1, <2>2
<1>2. ASSUME NEW w \in Worker, NEW k \in Key, Claims(w, k)
      PROVE  Recorded(j)'
  <2>1. rec'[k].attempts > 0
    BY <1>2, ZeroFits, OutboxAssumption DEF Claims, Least, Records, TypeOK
  <2> QED BY <1>0, <1>2, <2>1 DEF Claims, OtherRecords, Recorded
<1>3. ASSUME NEW w \in Worker, Posts(w)
      PROVE  Recorded(j)'
  <2>1. CASE wk[w].key = j
    BY <1>0, <1>3, <1>g, <2>1 DEF Posts, Carried, Recorded, Delivering
  <2>2. CASE wk[w].key # j
    <3>1. rec' = rec /\ \A c \in Chunk : sent'[j][c] = sent[j][c]
      BY <1>3, <2>2, PostEffect DEF Posts
    <3> QED BY <1>0, <3>1 DEF Recorded
  <2> QED BY <2>1, <2>2
<1>4. ASSUME NEW w \in Worker, Settles(w)
      PROVE  Recorded(j)'
  <2>1. CASE j # wk[w].key
    BY <1>0, <1>4, <2>1 DEF Settles, OtherRecords, Recorded, observers
  <2>2. CASE j = wk[w].key
    <3>1. /\ rec[j].attempts > 0 /\ rec'[j].attempts = rec[j].attempts /\ sent' = sent
          /\ wk[w].at \in Chunk /\ wk[w].at = rec[j].progress
          /\ wk[w].ack = "ok" => sent[j][wk[w].at] > 0
          /\ \A c \in Chunk : c < wk[w].at => sent[j][c] > 0
      BY <1>0, <1>4, <2>2 DEF Settles, Carried, Delivering, Workers, observers
    <3>2. wk[w].ack = "ok" => \A c \in Chunk : c <= wk[w].at => sent[j][c] > 0
      BY <3>1 DEF Chunk
    <3>3. /\ rec'[j].status = "completed" => wk[w].ack = "ok" /\ wk[w].at + 1 >= Chunks
          /\ \/ wk[w].ack = "ok" /\ rec'[j].progress \in {0, wk[w].at + 1}
             \/ rec'[j].progress = rec[j].progress
          /\ rec'[j].status # "absent"
      BY <1>4, <2>2 DEF Settles, IsLast, Checkpoint
    <3>4. rec'[j].status = "completed" => \A c \in Chunk : sent[j][c] > 0
      BY <3>1, <3>2, <3>3, ZeroFits, OutboxAssumption DEF Chunk
    <3>5. \A c \in Chunk : c < rec'[j].progress => sent[j][c] > 0
      BY <1>0, <3>1, <3>2, <3>3 DEF Chunk, Recorded
    <3> QED BY <3>1, <3>3, <3>4, <3>5 DEF Recorded
  <2> QED BY <2>1, <2>2
<1>5. CASE Quiet
  BY <1>0, <1>5 DEF Quiet, Kept, Recorded
<1> QED BY <1>1, <1>2, <1>3, <1>4, <1>5, StepShape

(* What the file and the handlers say about the effects stays true.        *)
LEMMA DeliveryHolds == Spec => [](TypeOK /\ DeliveryInv)
<1>1. Init => DeliveryInv
  <2> SUFFICES ASSUME Init PROVE DeliveryInv
    OBVIOUS
  <2>1. \A w \in Worker : Carried(w)
    BY DEF Init, Carried, Idle, Delivering
  <2>2. \A k \in Key : Recorded(k)
    BY DEF Init, Recorded, Absent, Chunk
  <2> QED BY <2>1, <2>2 DEF DeliveryInv
<1>2. TypeOK /\ DeliveryInv /\ [Next]_vars => DeliveryInv'
  <2> SUFFICES ASSUME TypeOK, DeliveryInv, [Next]_vars PROVE DeliveryInv'
    OBVIOUS
  <2>1. TypeOK'
    BY TypeStep
  <2> QED BY <2>1, CarriedStep, RecordedStep DEF DeliveryInv
<1> QED BY <1>1, <1>2, TypeCorrect, PTL DEF Spec

(* A record that is reported complete was posted to its last chunk, and a  *)
(* checkpoint is never past a chunk that was not: the settlement of a      *)
(* worker that was overtaken loses nothing (#updateOwned, #settleSuccess). *)
THEOREM NothingIsLost == Spec => []NothingReportedUnsent
<1>1. DeliveryInv => NothingReportedUnsent
  BY DEF DeliveryInv, Recorded, NothingReportedUnsent
<1> QED BY <1>1, DeliveryHolds, PTL

(***************************************************************************)
(* What a step may do to a record.                                         *)
(***************************************************************************)

\* The body of OnlyTheOwnerSettles for one key.
Settling(k) ==
  /\ rec[k].status = "processing" /\ rec'[k].status # "processing" =>
       wk[rec[k].owner].pc = "settle" /\ wk[rec[k].owner].key = k
  /\ rec[k].status \in {"completed", "failed"} => rec'[k] = rec[k]
  /\ rec'[k].status # "completed" =>
       rec'[k].progress >= rec[k].progress /\ rec'[k].attempts >= rec[k].attempts

LEMMA SettlingStep ==
  ASSUME TypeOK, DeliveryInv, [Next]_vars, NEW j \in Key
  PROVE  Settling(j)
<1>0. /\ Recorded(j) /\ rec[j] \in Records
      /\ \A w \in Worker : Carried(w) /\ wk[w] \in Workers
  BY DEF DeliveryInv, TypeOK
<1>1. /\ rec[j].progress >= rec[j].progress /\ rec[j].attempts >= rec[j].attempts
      /\ rec[j].progress \in Nat /\ rec[j].attempts \in 0 .. AttemptCap
  BY <1>0 DEF Records, Chunk
<1>2. CASE rec'[j] = rec[j]
  BY <1>1, <1>2 DEF Settling
<1>3. ASSUME NEW p \in Work, Accepts(j, p)
      PROVE  Settling(j)
  <2>1. rec[j].progress = 0 /\ rec[j].attempts = 0
    <3>1. rec[j].attempts = 0
      BY <1>0, <1>3 DEF Accepts, Recorded
    <3>2. \A c \in Chunk : ~ sent[j][c] > 0
      BY <1>0, <3>1 DEF Recorded
    <3>3. 0 \in Chunk /\ rec[j].progress \in Chunk
      BY <1>0, ZeroFits DEF Records
    <3> QED BY <1>0, <1>1, <3>1, <3>2, <3>3 DEF Recorded
  <2>2. rec'[j].progress = 0 /\ rec'[j].attempts = 0
    BY <1>3 DEF Accepts, Absent
  <2> QED BY <1>3, <2>1, <2>2 DEF Settling, Accepts
<1>4. ASSUME NEW w \in Worker, Claims(w, j)
      PROVE  Settling(j)
  <2>1. rec'[j].attempts >= rec[j].attempts
    BY <1>1, <1>4, ZeroFits DEF Claims, Least
  <2> QED BY <1>1, <1>4, <2>1 DEF Settling, Claims
<1>5. ASSUME NEW w \in Worker, Settles(w), wk[w].key = j
      PROVE  Settling(j)
  <2>1. /\ wk[w].at = rec[j].progress /\ wk[w].at \in Nat
        /\ rec[j].status = "processing" /\ rec[j].owner = w /\ wk[w].pc = "settle"
    BY <1>0, <1>1, <1>5 DEF Settles, Carried, Delivering, Owns
  <2> QED BY <1>1, <1>5, <2>1 DEF Settling, Settles, Checkpoint
<1>6. CASE Quiet
  BY <1>1, <1>6 DEF Quiet, Kept, Settling
<1> QED
  BY <1>2, <1>3, <1>4, <1>5, <1>6, StepShape DEF Accepts, Claims, Posts, Settles, OtherRecords

(* A record leaves "processing" only by the settlement of the worker it is *)
(* leased to, a verdict is never taken back, and attempts and the          *)
(* checkpoint only grow, whatever a late worker still holds in memory      *)
(* (#updateOwned compares the claim before it writes).                     *)
THEOREM OwnerSettles == Spec => OnlyTheOwnerSettles
<1>1. ASSUME TypeOK /\ DeliveryInv, [Next]_vars
      PROVE  [\A k \in Key : Settling(k)]_vars
  BY <1>1, SettlingStep
<1>2. TypeOK /\ DeliveryInv /\ [Next]_vars => [\A k \in Key :
       /\ rec[k].status = "processing" /\ rec'[k].status # "processing" =>
            wk[rec[k].owner].pc = "settle" /\ wk[rec[k].owner].key = k
       /\ rec[k].status \in {"completed", "failed"} => rec'[k] = rec[k]
       /\ rec'[k].status # "completed" =>
            rec'[k].progress >= rec[k].progress /\ rec'[k].attempts >= rec[k].attempts]_vars
  BY <1>1 DEF Settling
<1> QED BY <1>2, DeliveryHolds, PTL DEF Spec, OnlyTheOwnerSettles

(***************************************************************************)
(* The outbox implements at-least-once delivery: accepting a record, the   *)
(* platform's acceptance of a chunk and the two verdicts are the abstract  *)
(* steps; claims, renewals, retries, crashes and the clock are stutters.   *)
(***************************************************************************)

\* The verdicts after a step that changes the record of k alone.
LEMMA VerdictsBut ==
  ASSUME NEW k \in Key, OtherRecords(k)
  PROVE  \A j \in Key \ {k} : Verdict(j)' = Verdict(j) /\ rec'[j].work = rec[j].work
BY DEF OtherRecords, Verdict

LEMMA SameVerdicts ==
  ASSUME \A k \in Key : Verdict(k)' = Verdict(k) /\ rec'[k].work = rec[k].work, UNCHANGED sent
  PROVE  UNCHANGED Delivery!vars
BY DEF Delivery!vars

LEMMA AcceptRefines ==
  ASSUME NEW k \in Key, NEW p \in Work, Accepts(k, p)
  PROVE  Delivery!Accept(k, p)
<1>1. Verdict(k) = "none" /\ Verdict(k)' = "owed" /\ rec'[k].work = {p}
  BY DEF Accepts, Verdict, Absent
<1>2. \A j \in Key \ {k} : Verdict(j)' = Verdict(j) /\ rec'[j].work = rec[j].work
  BY VerdictsBut DEF Accepts
<1>3. UNCHANGED sent
  BY DEF Accepts, observers
<1> QED BY <1>1, <1>2, <1>3 DEF Delivery!Accept

LEMMA PostRefines ==
  ASSUME TypeOK, DeliveryInv, NEW w \in Worker, Posts(w)
  PROVE  Delivery!Perform(wk[w].key, wk[w].at)
<1> DEFINE k == wk[w].key
<1>1. k \in Key /\ wk[w].at \in Chunk /\ wk[w].pc \in Delivering /\ Carried(w)
  BY DEF TypeOK, Workers, Posts, Delivering, DeliveryInv
<1>2. Verdict(k) # "none"
  BY <1>1 DEF Carried, Verdict, TypeOK, Records, Status
<1>3. \A b \in 0 .. wk[w].at - 1 : sent[k][b] > 0
  BY <1>1, OutboxAssumption DEF Carried, Chunk
<1>4. sent' = [sent EXCEPT ![k][wk[w].at] = Delivery!Count(@)]
  BY DEF Posts, Count, Delivery!Count
<1>5. rec' = rec
  BY DEF Posts
<1> QED BY <1>1, <1>2, <1>3, <1>4, <1>5 DEF Delivery!Perform, Verdict

LEMMA SettleRefines ==
  ASSUME TypeOK, DeliveryInv, NEW w \in Worker, Settles(w),
         NEW k \in Key, wk[w].key = k, Recorded(k)'
  PROVE  Delivery!Complete(k) \/ Delivery!Refuse(k) \/ UNCHANGED Delivery!vars
<1>1. /\ Verdict(k) = "owed" /\ rec'[k].work = rec[k].work
      /\ rec'[k].status \in {"pending", "completed", "failed"} /\ sent' = sent
  BY DEF TypeOK, Settles, Owns, Verdict, Delivering, observers
<1>2. \A j \in Key \ {k} : Verdict(j)' = Verdict(j) /\ rec'[j].work = rec[j].work
  BY <1>1, VerdictsBut DEF Settles
<1>3. CASE rec'[k].status = "pending"
  <2>1. Verdict(k)' = "owed"
    BY <1>3 DEF Verdict
  <2> QED BY <1>1, <1>2, <2>1, SameVerdicts
<1>4. CASE rec'[k].status = "completed"
  <2>1. Verdict(k)' = "completed" /\ \A c \in Chunk : sent[k][c] > 0
    BY <1>1, <1>4 DEF Verdict, Recorded
  <2> QED BY <1>1, <1>2, <2>1 DEF Delivery!Complete, Delivery!Chunk, Chunk
<1>5. CASE rec'[k].status = "failed"
  <2>1. Verdict(k)' = "failed"
    BY <1>5 DEF Verdict
  <2> QED BY <1>1, <1>2, <2>1 DEF Delivery!Refuse
<1> QED BY <1>1, <1>3, <1>4, <1>5

LEMMA StepRefines ==
  ASSUME TypeOK, DeliveryInv, [Next]_vars
  PROVE  [Delivery!Next]_(Delivery!vars)
<1>0. TypeOK' /\ \A k \in Key : Recorded(k)'
  BY TypeStep, RecordedStep
<1>1. ASSUME NEW k \in Key, NEW p \in Work, Accepts(k, p)
      PROVE  Delivery!Next
  BY <1>1, AcceptRefines DEF Delivery!Next
<1>2. ASSUME NEW w \in Worker, NEW k \in Key, Claims(w, k)
      PROVE  UNCHANGED Delivery!vars
  <2>1. Verdict(k)' = Verdict(k) /\ rec'[k].work = rec[k].work /\ UNCHANGED sent
    BY <1>2 DEF Claims, Verdict
  <2>2. \A j \in Key \ {k} : Verdict(j)' = Verdict(j) /\ rec'[j].work = rec[j].work
    BY <1>2, VerdictsBut DEF Claims
  <2> QED BY <2>1, <2>2, SameVerdicts
<1>3. ASSUME NEW w \in Worker, Posts(w)
      PROVE  Delivery!Next
  <2>1. wk[w].key \in Key /\ wk[w].at \in Delivery!Chunk
    BY <1>3 DEF TypeOK, Workers, Posts, Delivering, Delivery!Chunk, Chunk
  <2> QED BY <1>3, <2>1, PostRefines DEF Delivery!Next
<1>4. ASSUME NEW w \in Worker, Settles(w)
      PROVE  Delivery!Next \/ UNCHANGED Delivery!vars
  <2>1. PICK k \in Key : wk[w].key = k
    BY <1>4 DEF TypeOK, Settles, Delivering
  <2> QED BY <1>0, <1>4, <2>1, SettleRefines DEF Delivery!Next
<1>5. CASE Quiet
  <2>1. ASSUME NEW k \in Key PROVE Verdict(k)' = Verdict(k) /\ rec'[k].work = rec[k].work
    BY <1>5 DEF Quiet, Kept, Verdict
  <2> QED BY <1>5, <2>1, SameVerdicts DEF Quiet
<1> QED BY <1>1, <1>2, <1>3, <1>4, <1>5, StepShape

(* Workers, leases, retries, crashes and checkpoints together deliver what *)
(* the abstract specification promises: a key names one piece of work for  *)
(* ever, chunks take effect in order and each at least once before the     *)
(* record is reported complete, and a verdict is final.                    *)
THEOREM DeliveryImplemented == Spec => ImplementsDelivery
<1>1. Init => Delivery!Init
  BY DEF Init, Delivery!Init, Delivery!Chunk, Chunk, Absent, Verdict
<1>2. TypeOK /\ DeliveryInv /\ [Next]_vars => [Delivery!Next]_(Delivery!vars)
  BY StepRefines
<1> QED BY <1>1, <1>2, DeliveryHolds, PTL DEF Spec, ImplementsDelivery, Delivery!Spec

(***************************************************************************)
(* Repeated effects. As long as no handler was overtaken at a record, the  *)
(* only worker that delivers it is its owner; what the marker search then  *)
(* finds, or an undisturbed delivery knows, is what was posted.            *)
(***************************************************************************)

Alone(k) == k \notin overtaken => \A w \in Worker : Bears(w, k) => Owns(w)

\* Nobody is about to post a chunk of a marked record that was already posted.
Searched(k) ==
  k \in Marked \ overtaken =>
    /\ \A c \in Chunk : sent[k][c] <= 1
    /\ \A w \in Worker : Bears(w, k) /\ wk[w].pc = "post" => sent[k][wk[w].at] = 0

\* An undisturbed record is delivered chunk by chunk: nothing is posted past its checkpoint but by
\* its owner, which is at work while the record is leased.
Smooth(k) ==
  k \notin disturbed =>
    /\ k \notin overtaken
    /\ \A c \in Chunk : sent[k][c] <= 1
    /\ rec[k].status \in {"absent", "pending"} =>
         \A c \in Chunk : c >= rec[k].progress => sent[k][c] = 0
    /\ rec[k].status = "processing" => Overrun(k)
    /\ \A w \in Worker : Bears(w, k) =>
         /\ \A c \in Chunk : c > wk[w].at => sent[k][c] = 0
         /\ wk[w].pc \in {"search", "post"} => sent[k][wk[w].at] = 0
         /\ wk[w].pc = "settle" => wk[w].ack = "ok"

RepeatsInv == \A k \in Key : Alone(k) /\ Searched(k) /\ Smooth(k)

LEMMA OnlyOneBears ==
  ASSUME NEW k \in Key, Alone(k), k \notin overtaken,
         NEW v \in Worker, NEW w \in Worker, Bears(v, k), Bears(w, k)
  PROVE  v = w /\ Owns(w)
BY DEF Alone, Bears, Owns

LEMMA DisturbedGrow ==
  ASSUME TypeOK, [Next]_vars
  PROVE  disturbed \subseteq disturbed' /\ overtaken \subseteq overtaken'
BY StepShape DEF Accepts, Claims, Posts, Settles, Quiet, observers

LEMMA AloneStep ==
  ASSUME TypeOK, TypeOK', DeliveryInv, RepeatsInv, [Next]_vars, NEW j \in Key
  PROVE  Alone(j)'
<1> SUFFICES ASSUME j \notin overtaken', NEW v \in Worker, Bears(v, j)'
             PROVE  Owns(v)'
  BY DEF Alone
<1>0. /\ Alone(j) /\ j \notin overtaken
      /\ Bears(v, j) => Owns(v) /\ rec[j].status = "processing" /\ rec[j].owner = v
  BY DisturbedGrow DEF RepeatsInv, Alone, Owns, Bears
<1>1. ASSUME NEW k \in Key, NEW p \in Work, Accepts(k, p)
      PROVE  Owns(v)'
  <2>1. Same(v) /\ Bears(v, j)
    BY <1>1 DEF Accepts, Same, Bears
  <2>2. rec'[j] = rec[j]
    BY <1>0, <1>1, <2>1 DEF Accepts, OtherRecords
  <2> QED BY <1>0, <2>1, <2>2 DEF Owns, Same, Bears
<1>2. ASSUME NEW w \in Worker, NEW k \in Key, Claims(w, k)
      PROVE  Owns(v)'
  <2>1. CASE v = w
    BY <1>2, <2>1 DEF Claims, Owns
  <2>2. CASE v # w
    <3>1. wk'[v] = wk[v] /\ Bears(v, j)
      BY <1>2, <2>2 DEF Claims, OtherWorkers, Bears
    <3>2. j # k
      BY <1>0, <1>2, <3>1 DEF Claims, Overrun, Bears
    <3> QED BY <1>0, <1>2, <3>1, <3>2 DEF Claims, OtherRecords, Owns, Bears
  <2> QED BY <2>1, <2>2
<1>3. ASSUME NEW w \in Worker, Posts(w)
      PROVE  Owns(v)'
  BY <1>0, <1>3 DEF Posts, OtherWorkers, Owns, Bears, Delivering
<1>4. ASSUME NEW w \in Worker, Settles(w)
      PROVE  Owns(v)'
  <2>1. v # w /\ wk'[v] = wk[v] /\ Bears(v, j)
    BY <1>4 DEF Settles, OtherWorkers, Bears, Delivering
  <2>2. j # wk[w].key
    BY <1>0, <1>4, <2>1 DEF Settles, Owns
  <2> QED BY <1>0, <1>4, <2>1, <2>2 DEF Settles, OtherRecords, Owns, Bears
<1>5. CASE Quiet
  BY <1>0, <1>5, QuietBearer DEF Bears
<1> QED BY <1>1, <1>2, <1>3, <1>4, <1>5, StepShape

LEMMA SearchedStep ==
  ASSUME TypeOK, TypeOK', DeliveryInv, RepeatsInv, [Next]_vars, NEW j \in Key
  PROVE  Searched(j)'
<1> SUFFICES ASSUME j \in Marked \ overtaken'
             PROVE  /\ \A c \in Chunk : sent'[j][c] <= 1
                    /\ \A w \in Worker : Bears(w, j)' /\ wk'[w].pc = "post" => sent'[j][wk'[w].at] = 0
  BY DEF Searched
<1>0. /\ j \notin overtaken /\ Alone(j) /\ Recorded(j) /\ rec[j] \in Records
      /\ \A c \in Chunk : sent[j][c] <= 1
      /\ \A w \in Worker : Bears(w, j) /\ wk[w].pc = "post" => sent[j][wk[w].at] = 0
  BY DisturbedGrow DEF RepeatsInv, Searched, DeliveryInv, TypeOK
<1>1. ASSUME NEW k \in Key, NEW p \in Work, Accepts(k, p)
      PROVE  /\ sent' = sent
             /\ \A w \in Worker : Bears(w, j)' /\ wk'[w].pc = "post" => sent[j][wk'[w].at] = 0
  BY <1>0, <1>1 DEF Accepts, Same, Bears, observers
<1>2. ASSUME NEW w \in Worker, NEW k \in Key, Claims(w, k)
      PROVE  /\ sent' = sent
             /\ \A v \in Worker : Bears(v, j)' /\ wk'[v].pc = "post" => sent[j][wk'[v].at] = 0
  <2>1. ASSUME j = k, wk'[w].pc = "post" PROVE sent[j][wk'[w].at] = 0
    <3>1. rec[j].attempts = 0
      BY <1>0, <1>2, <2>1, ZeroFits DEF Claims, NeedsSearch, Records
    <3> QED BY <1>0, <1>2, <2>1, <3>1 DEF Claims, Recorded, Records
  <2> QED BY <1>0, <1>2, <2>1 DEF Claims, OtherWorkers, Bears
<1>3. ASSUME NEW w \in Worker, Posts(w)
      PROVE  /\ \A c \in Chunk : sent'[j][c] <= 1
             /\ \A v \in Worker : Bears(v, j)' /\ wk'[v].pc = "post" => sent'[j][wk'[v].at] = 0
  <2>1. ASSUME NEW v \in Worker, Bears(v, j)', wk'[v].pc = "post"
        PROVE  v # w /\ Bears(v, j) /\ wk'[v] = wk[v] /\ wk[v].at \in Chunk
    BY <1>3, <2>1 DEF Posts, OtherWorkers, Bears, TypeOK, Workers
  <2>2. CASE wk[w].key = j
    <3>1. Bears(w, j) /\ wk[w].at \in Chunk /\ sent[j][wk[w].at] = 0
      BY <1>0, <1>3, <2>2 DEF Bears, Posts, Delivering, TypeOK, Workers
    <3>2. \A c \in Chunk : sent'[j][c] <= 1
      <4> SUFFICES ASSUME NEW c \in Chunk PROVE sent'[j][c] <= 1
        OBVIOUS
      <4>1. sent[j][c] \in 0 .. Many
        BY DEF TypeOK
      <4>2. sent'[j][c] = IF c = wk[w].at THEN Count(sent[j][c]) ELSE sent[j][c]
        BY <1>3, <2>2, PostEffect
      <4> QED BY <1>0, <3>1, <4>1, <4>2, CountGrows
    <3> QED BY <1>0, <2>1, <3>1, <3>2, OnlyOneBears
  <2>3. CASE wk[w].key # j
    <3>1. \A c \in Chunk : sent'[j][c] = sent[j][c]
      BY <1>3, <2>3, PostEffect
    <3> QED BY <1>0, <2>1, <3>1
  <2> QED BY <2>2, <2>3
<1>4. ASSUME NEW w \in Worker, Settles(w)
      PROVE  /\ sent' = sent
             /\ \A v \in Worker : Bears(v, j)' /\ wk'[v].pc = "post" => sent[j][wk'[v].at] = 0
  BY <1>0, <1>4 DEF Settles, OtherWorkers, Bears, observers
<1>5. CASE Quiet
  <2> SUFFICES ASSUME NEW v \in Worker, Bears(v, j)', wk'[v].pc = "post"
               PROVE  sent[j][wk'[v].at] = 0
    BY <1>0, <1>5 DEF Quiet
  <2>1. /\ Bears(v, j) /\ wk'[v].at = wk[v].at
        /\ wk'[v].pc = wk[v].pc \/ GoesOn(v)
    BY <1>5, QuietBearer DEF Bears
  <2> QED BY <1>0, <2>1 DEF GoesOn, Bears
<1> QED BY <1>0, <1>1, <1>2, <1>3, <1>4, <1>5, StepShape

LEMMA SmoothStep ==
  ASSUME TypeOK, TypeOK', DeliveryInv, RepeatsInv, [Next]_vars, NEW j \in Key
  PROVE  Smooth(j)'
<1> DEFINE Ahead == rec'[j].status \in {"absent", "pending"} =>
                      \A c \in Chunk : c >= rec'[j].progress => sent'[j][c] = 0
           Once == \A c \in Chunk : sent'[j][c] <= 1
           Led == rec'[j].status = "processing" => Overrun(j)'
           At(w) == Bears(w, j)' =>
                      /\ \A c \in Chunk : c > wk'[w].at => sent'[j][c] = 0
                      /\ wk'[w].pc \in {"search", "post"} => sent'[j][wk'[w].at] = 0
                      /\ wk'[w].pc = "settle" => wk'[w].ack = "ok"
           Goal == j \notin overtaken' /\ Once /\ Ahead /\ Led /\ \A w \in Worker : At(w)
<1> SUFFICES ASSUME j \notin disturbed'
             PROVE  Goal
  BY DEF Smooth
<1>0. /\ j \notin disturbed /\ j \notin overtaken /\ Alone(j) /\ Recorded(j) /\ rec[j] \in Records
      /\ \A c \in Chunk : sent[j][c] <= 1
      /\ rec[j].status \in {"absent", "pending"} =>
           \A c \in Chunk : c >= rec[j].progress => sent[j][c] = 0
      /\ rec[j].status = "processing" => Overrun(j)
      /\ \A w \in Worker : Bears(w, j) =>
           /\ \A c \in Chunk : c > wk[w].at => sent[j][c] = 0
           /\ wk[w].pc \in {"search", "post"} => sent[j][wk[w].at] = 0
           /\ wk[w].pc = "settle" => wk[w].ack = "ok"
  BY DisturbedGrow DEF RepeatsInv, Smooth, DeliveryInv, TypeOK
<1>1. ASSUME NEW k \in Key, NEW p \in Work, Accepts(k, p)
      PROVE  Goal
  <2>1. sent' = sent /\ overtaken' = overtaken /\ \A w \in Worker : Same(w)
    BY <1>1 DEF Accepts, observers
  <2>2. \A w \in Worker : At(w)
    BY <1>0, <2>1 DEF Same, Bears
  <2>3. CASE j = k
    <3>1. \A c \in Chunk : sent[j][c] = 0
      BY <1>0, <1>1, <2>3 DEF Accepts, Recorded
    <3> QED BY <1>0, <1>1, <2>1, <2>2, <2>3, <3>1 DEF Accepts, Absent
  <2>4. CASE j # k
    <3>1. rec'[j] = rec[j]
      BY <1>1, <2>4 DEF Accepts, OtherRecords
    <3>2. Led
      BY <1>0, <2>1, <3>1 DEF Overrun, Same
    <3> QED BY <1>0, <2>1, <2>2, <3>1, <3>2
  <2> QED BY <2>3, <2>4
<1>2. ASSUME NEW w \in Worker, NEW k \in Key, Claims(w, k)
      PROVE  Goal
  <2>1. sent' = sent /\ j \notin overtaken'
    BY <1>0, <1>2 DEF Claims
  <2>2. \A v \in Worker \ {w} : At(v)
    BY <1>0, <1>2 DEF Claims, OtherWorkers, Bears
  <2>3. CASE j = k
    <3>1. rec[j].status = "pending"
      BY <1>0, <1>2, <2>3 DEF Claims
    <3>2. /\ wk'[w].at = rec[j].progress /\ wk'[w].pc \in {"search", "post"}
          /\ wk'[w].key = j /\ rec'[j].status = "processing" /\ rec'[j].owner = w
      BY <1>2, <2>3 DEF Claims
    <3>3. rec[j].progress \in Chunk /\ rec[j].progress >= rec[j].progress
      BY <1>0 DEF Records, Chunk
    <3>4. \A c \in Chunk : c > rec[j].progress => c >= rec[j].progress
      BY <3>3 DEF Chunk
    <3>5. At(w)
      BY <1>0, <2>1, <3>1, <3>2, <3>3, <3>4
    <3>6. Led
      BY <3>2 DEF Overrun, Delivering
    <3> QED BY <1>0, <2>1, <2>2, <3>2, <3>5, <3>6
  <2>4. CASE j # k
    <3>1. rec'[j] = rec[j] /\ wk'[w].key # j
      BY <1>2, <2>4 DEF Claims, OtherRecords
    <3>2. At(w)
      BY <3>1 DEF Bears
    <3>3. Led
      BY <1>0, <1>2, <3>1 DEF Claims, OtherWorkers, Overrun, Delivering
    <3> QED BY <1>0, <2>1, <2>2, <3>1, <3>2, <3>3
  <2> QED BY <2>3, <2>4
<1>3. ASSUME NEW w \in Worker, Posts(w)
      PROVE  Goal
  <2>1. rec' = rec /\ overtaken' = overtaken
    BY <1>3 DEF Posts
  <2>2. Led
    BY <1>0, <1>3, <2>1 DEF Posts, OtherWorkers, Overrun, Delivering
  <2>3. CASE wk[w].key = j
    <3>1. Bears(w, j) /\ wk[w].at \in Chunk /\ sent[j][wk[w].at] = 0
      BY <1>0, <1>3, <2>3 DEF Bears, Posts, Delivering, TypeOK, Workers
    <3>2. \A c \in Chunk : sent'[j][c] = IF c = wk[w].at THEN Count(sent[j][c]) ELSE sent[j][c]
      BY <1>3, <2>3, PostEffect
    <3>3. Once
      <4> SUFFICES ASSUME NEW c \in Chunk PROVE sent'[j][c] <= 1
        OBVIOUS
      <4>1. sent[j][c] \in 0 .. Many
        BY DEF TypeOK
      <4> QED BY <1>0, <3>1, <3>2, <4>1, CountGrows
    <3>4. rec[j].status = "processing"
      BY <1>0, <3>1, OnlyOneBears DEF Owns, Bears
    <3>5. ASSUME NEW v \in Worker PROVE At(v)
      <4>1. CASE v = w
        <5>1. wk'[v].pc = "posted" /\ wk'[v].at = wk[w].at
          BY <1>3, <4>1 DEF Posts
        <5>2. \A c \in Chunk : c > wk[w].at => c # wk[w].at /\ sent[j][c] = 0
          BY <1>0, <3>1 DEF Chunk
        <5> QED BY <3>2, <5>1, <5>2
      <4>2. CASE v # w
        BY <1>0, <1>3, <3>1, <4>2, OnlyOneBears DEF Posts, OtherWorkers, Bears
      <4> QED BY <4>1, <4>2
    <3> QED BY <1>0, <2>1, <2>2, <3>3, <3>4, <3>5
  <2>4. CASE wk[w].key # j
    <3>1. \A c \in Chunk : sent'[j][c] = sent[j][c]
      BY <1>3, <2>4, PostEffect
    <3>2. ASSUME NEW v \in Worker PROVE At(v)
      <4>1. CASE v = w
        BY <1>3, <2>4, <4>1 DEF Posts, Bears
      <4>2. CASE v # w
        <5>1. wk'[v] = wk[v] /\ wk[v].at \in Chunk
          BY <1>3, <4>2 DEF Posts, OtherWorkers, TypeOK, Workers
        <5> QED BY <1>0, <3>1, <5>1 DEF Bears
      <4> QED BY <4>1, <4>2
    <3> QED BY <1>0, <2>1, <2>2, <3>1, <3>2
  <2> QED BY <2>3, <2>4
<1>4. ASSUME NEW w \in Worker, Settles(w)
      PROVE  Goal
  <2>1. sent' = sent /\ overtaken' = overtaken
    BY <1>4 DEF Settles, observers
  <2>2. \A v \in Worker : At(v)
    BY <1>0, <1>4, <2>1 DEF Settles, OtherWorkers, Bears, Delivering
  <2>3. CASE wk[w].key = j
    <3>1. wk[w].ack = "ok" /\ wk[w].at \in Chunk /\ \A c \in Chunk : c > wk[w].at => sent[j][c] = 0
      BY <1>0, <1>4, <2>3 DEF Settles, Bears, Delivering, TypeOK, Workers
    <3>2. \/ rec'[j].status = "pending" /\ rec'[j].progress = wk[w].at + 1
          \/ rec'[j].status = "completed"
      BY <1>4, <2>3, <3>1 DEF Settles, Checkpoint
    <3>3. \A c \in Chunk : c >= wk[w].at + 1 => c > wk[w].at
      BY <3>1 DEF Chunk
    <3> QED BY <1>0, <2>1, <2>2, <3>1, <3>2, <3>3
  <2>4. CASE wk[w].key # j
    <3>1. rec'[j] = rec[j]
      BY <1>4, <2>4 DEF Settles, OtherRecords
    <3>2. Led
      BY <1>0, <1>4, <2>4, <3>1 DEF Settles, OtherWorkers, Overrun
    <3> QED BY <1>0, <2>1, <2>2, <3>1, <3>2
  <2> QED BY <2>3, <2>4
<1>5. CASE Quiet
  <2>1. sent' = sent /\ overtaken' = overtaken /\ Kept(j)
    BY <1>5 DEF Quiet
  <2>2. ASSUME NEW w \in Worker PROVE At(w)
    <3> SUFFICES ASSUME Bears(w, j)'
                 PROVE  /\ \A c \in Chunk : c > wk'[w].at => sent'[j][c] = 0
                        /\ wk'[w].pc \in {"search", "post"} => sent'[j][wk'[w].at] = 0
                        /\ wk'[w].pc = "settle" => wk'[w].ack = "ok"
      OBVIOUS
    <3>1. /\ Bears(w, j) /\ wk'[w].at = wk[w].at /\ wk[w].key = j
          /\ (wk'[w].pc = wk[w].pc /\ wk'[w].ack = wk[w].ack) \/ GoesOn(w)
      BY <1>5, QuietBearer DEF Bears
    <3> QED BY <1>0, <2>1, <3>1 DEF GoesOn
  <2>3. Led
    <3> SUFFICES ASSUME rec[j].status = "processing" PROVE Overrun(j)'
      BY <2>1 DEF Kept
    <3>1. PICK v \in Worker : rec[j].owner = v /\ wk[v].key = j /\ wk[v].pc \in Delivering
      BY <1>0 DEF Overrun
    <3>2. Same(v) \/ GoesOn(v)
      BY <1>5, <3>1 DEF Quiet, Moves, Idles, GivesUp, Owns
    <3>3. rec'[j].owner = v /\ wk'[v].key = j /\ wk'[v].pc \in Delivering
      BY <2>1, <3>1, <3>2 DEF Kept, Same, GoesOn, Delivering
    <3> QED BY <3>3 DEF Overrun
  <2> QED BY <1>0, <2>1, <2>2, <2>3 DEF Kept
<1> QED BY <1>1, <1>2, <1>3, <1>4, <1>5, StepShape

LEMMA RepeatsHold == Spec => [](DeliveryInv /\ RepeatsInv)
<1>1. Init => RepeatsInv
  <2> SUFFICES ASSUME Init, NEW k \in Key PROVE Alone(k) /\ Searched(k) /\ Smooth(k)
    BY DEF RepeatsInv
  <2>1. /\ \A w \in Worker : ~Bears(w, k)
        /\ \A c \in Chunk : sent[k][c] = 0
        /\ rec[k].status = "absent"
        /\ disturbed = {} /\ overtaken = {}
    BY DEF Init, Bears, Idle, Delivering, Absent
  <2> QED BY <2>1 DEF Alone, Searched, Smooth
<1>2. TypeOK /\ DeliveryInv /\ RepeatsInv /\ [Next]_vars => RepeatsInv'
  <2> SUFFICES ASSUME TypeOK, DeliveryInv, RepeatsInv, [Next]_vars PROVE RepeatsInv'
    OBVIOUS
  <2>1. TypeOK'
    BY TypeStep
  <2> QED BY <2>1, AloneStep, SearchedStep, SmoothStep DEF RepeatsInv
<1> QED BY <1>1, <1>2, DeliveryHolds, PTL DEF Spec

(* A chunk is posted a second time only when an attempt at its record was  *)
(* cut short: two workers over one file, restarts and enqueuing the same   *)
(* work again never repeat one by themselves.                              *)
THEOREM RepeatsExplained == Spec => []RepeatsAreExplained
<1>1. TypeOK /\ RepeatsInv => RepeatsAreExplained
  <2> SUFFICES ASSUME TypeOK, RepeatsInv, NEW k \in Key, NEW c \in Chunk, k \notin disturbed
               PROVE  ~ sent[k][c] > 1
    BY DEF RepeatsAreExplained
  <2>1. sent[k][c] \in 0 .. Many
    BY DEF TypeOK
  <2> QED BY <2>1, ZeroFits DEF RepeatsInv, Smooth
<1> QED BY <1>1, RepeatsHold, TypeCorrect, PTL

(* The marker search keeps a GitHub comment from being posted twice,       *)
(* whatever attempts fail, crash or are aborted, unless its handler was    *)
(* overtaken while it still ran.                                           *)
THEOREM MarkedOnce == Spec => []MarkedPostedOnce
<1>1. TypeOK /\ RepeatsInv => MarkedPostedOnce
  <2> SUFFICES ASSUME TypeOK, RepeatsInv, NEW k \in Marked, NEW c \in Chunk, k \notin overtaken
               PROVE  ~ sent[k][c] > 1
    BY DEF MarkedPostedOnce
  <2>1. k \in Key
    BY OutboxAssumption
  <2>2. sent[k][c] \in 0 .. Many
    BY <2>1 DEF TypeOK
  <2> QED BY <2>1, <2>2, ZeroFits DEF RepeatsInv, Searched
<1> QED BY <1>1, RepeatsHold, TypeCorrect, PTL
=============================================================================
