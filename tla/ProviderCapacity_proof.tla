----------------------- MODULE ProviderCapacity_proof -----------------------
(***************************************************************************)
(* Theorems about the provider's admission controller, for every finite    *)
(* set of requests, every kind and identity of theirs and every limit.     *)
(***************************************************************************)
EXTENDS ProviderCapacity, SequenceTheorems, FiniteSetTheorems, WellFoundedInduction, TLAPS

(***************************************************************************)
(* The queue's operators.                                                  *)
(***************************************************************************)

(* The least-number principle, from the well-foundedness of < on Nat.      *)
LEMMA LeastNat ==
  ASSUME NEW T, T \subseteq Nat, T # {}
  PROVE  \E x \in T : \A y \in T : x <= y
<1> DEFINE R == OpToRel(<, Nat)
<1>1. IsWellFoundedOn(R, Nat)
  BY NatLessThanWellFounded
<1>2. \A x, y \in Nat : <<y, x>> \in R <=> y < x
  BY DEF OpToRel
<1> HIDE DEF R
<1>3. PICK x \in T : \A y \in T : ~ (<<y, x>> \in R)
  BY <1>1, WFMin
<1>4. ASSUME NEW y \in T PROVE ~ (y < x)
  BY <1>2, <1>3, Zenon
<1>5. ASSUME NEW y \in T PROVE x <= y
  <2>1. x \in Nat /\ y \in Nat /\ ~ (y < x)
    BY <1>4
  <2> QED BY <2>1
<1> QED BY <1>5

(* A queue that has an entry in S has an oldest one.                       *)
LEMMA OldestIndexIs ==
  ASSUME NEW q \in Seq(Request), NEW S, NEW r \in S, r \in Entries(q)
  PROVE  OldestIndex(q, S) \in DOMAIN q /\ q[OldestIndex(q, S)] \in S
<1> DEFINE T == {i \in DOMAIN q : q[i] \in S}
<1>1. T \subseteq Nat /\ T # {} /\ DOMAIN q = 1 .. Len(q) /\ Len(q) \in Nat
  BY LenProperties DEF Entries
<1>2. PICK i \in T : \A j \in T : i <= j
  BY <1>1, LeastNat
<1>3. ASSUME NEW j \in 1 .. i - 1 PROVE q[j] \notin S
  BY <1>1, <1>2
<1>4. \E n \in DOMAIN q : q[n] \in S /\ \A j \in 1 .. n - 1 : q[j] \notin S
  BY <1>2, <1>3
<1> QED BY <1>4 DEF OldestIndex

LEMMA PriorityIs ==
  ASSUME NEW r \in Request
  PROVE  Priority(r) \in 0 .. 3
BY CapacityAssumption DEF Priority, Kinds

LEMMA EntriesAre ==
  ASSUME NEW q \in Seq(Request)
  PROVE  Entries(q) \subseteq Request /\ (q # <<>> => Entries(q) # {})
<1>1. DOMAIN q = 1 .. Len(q) /\ Len(q) \in Nat /\ \A i \in 1 .. Len(q) : q[i] \in Request
  BY LenProperties, ElementOfSeq
<1>2. q # <<>> => Len(q) > 0
  BY EmptySeq
<1>3. q # <<>> => 1 \in DOMAIN q
  BY <1>1, <1>2
<1> QED BY <1>1, <1>3 DEF Entries

(* Some kind is foremost in a queue that is not empty.                     *)
LEMMA ForemostIs ==
  ASSUME NEW q \in Seq(Request), q # <<>>
  PROVE  Foremost(q) # {}
<1> DEFINE T == {Priority(r) : r \in Entries(q)}
<1>1. Entries(q) \subseteq Request /\ Entries(q) # {}
  BY EntriesAre
<1>2. T \subseteq Nat /\ T # {}
  BY <1>1, PriorityIs
<1>3. PICK p \in T : \A o \in T : p <= o
  BY <1>2, LeastNat
<1>4. PICK r \in Entries(q) : p = Priority(r)
  BY <1>3
<1> QED BY <1>3, <1>4 DEF Foremost

(* #takeNext takes an entry, and not an interactive one after a burst      *)
(* while another waits.                                                    *)
LEMMA TakeNextIs ==
  ASSUME NEW q \in Seq(Request), q # <<>>
  PROVE  /\ TakeNext(q) \in DOMAIN q
         /\ Relieved /\ Low(q) # {} => ~Interactive(q[TakeNext(q)])
<1> DEFINE S == IF Relieved /\ Low(q) # {} THEN Low(q) ELSE Foremost(q)
<1>1. PICK r \in S : r \in Entries(q)
  BY ForemostIs DEF Low, Foremost
<1>2. OldestIndex(q, S) \in DOMAIN q /\ q[OldestIndex(q, S)] \in S
  BY <1>1, OldestIndexIs
<1> QED BY <1>2 DEF TakeNext, Low

Distinct(q) == \A i, j \in DOMAIN q : q[i] = q[j] => i = j

(* Taking an entry out leaves the others, in their order and once each.    *)
LEMMA WithoutIs ==
  ASSUME NEW q \in Seq(Request), NEW n \in DOMAIN q
  PROVE  /\ Without(q, n) \in Seq(Request)
         /\ Len(Without(q, n)) = Len(q) - 1
         /\ Entries(Without(q, n)) \subseteq Entries(q)
         /\ Distinct(q) => Distinct(Without(q, n)) /\ q[n] \notin Entries(Without(q, n))
<1> DEFINE m == Len(q) - 1
           f == [i \in 1 .. m |-> IF i < n THEN q[i] ELSE q[i + 1]]
<1>1. /\ Len(q) \in Nat /\ DOMAIN q = 1 .. Len(q) /\ m \in Nat /\ n \in 1 .. Len(q)
      /\ \A i \in 1 .. Len(q) : q[i] \in Request
  BY LenProperties, ElementOfSeq
<1>2. Without(q, n) = f
  BY DEF Without
<1>3. \A i \in 1 .. m : i \in 1 .. Len(q) /\ i + 1 \in 1 .. Len(q)
  BY <1>1
<1>4. f \in [1 .. m -> Request]
  BY <1>1, <1>3
<1>5. f \in Seq(Request) /\ Len(f) = m /\ DOMAIN f = 1 .. m
  <2>1. f \in Seq(Request)
    BY <1>1, <1>4, SeqDef
  <2>2. DOMAIN f = 1 .. m /\ DOMAIN f = 1 .. Len(f) /\ Len(f) \in Nat
    BY <2>1, LenProperties
  <2> QED BY <1>1, <2>1, <2>2
<1>6. Entries(f) \subseteq Entries(q)
  BY <1>1, <1>3, <1>5 DEF Entries
<1>7. ASSUME Distinct(q) PROVE Distinct(f) /\ q[n] \notin Entries(f)
  <2>1. ASSUME NEW i \in 1 .. m, NEW j \in 1 .. m, f[i] = f[j] PROVE i = j
    <3> DEFINE At(x) == IF x < n THEN x ELSE x + 1
    <3>1. At(i) \in DOMAIN q /\ At(j) \in DOMAIN q /\ f[i] = q[At(i)] /\ f[j] = q[At(j)]
      BY <1>1, <1>3
    <3>2. At(i) = At(j)
      BY <1>7, <2>1, <3>1 DEF Distinct
    <3> QED BY <1>1, <3>2
  <2>2. ASSUME NEW i \in 1 .. m PROVE f[i] # q[n]
    BY <1>1, <1>3, <1>7 DEF Distinct
  <2> QED BY <1>5, <2>1, <2>2 DEF Distinct, Entries
<1> QED BY <1>1, <1>2, <1>5, <1>6, <1>7

LEMMA AppendIs ==
  ASSUME NEW q \in Seq(Request), NEW r \in Request
  PROVE  /\ Append(q, r) \in Seq(Request) /\ Append(q, r) # <<>>
         /\ Len(Append(q, r)) = Len(q) + 1
         /\ Entries(Append(q, r)) = Entries(q) \union {r}
         /\ Distinct(q) /\ r \notin Entries(q) => Distinct(Append(q, r))
<1> DEFINE p == Append(q, r)
<1>1. /\ p \in Seq(Request) /\ p # <<>> /\ Len(p) = Len(q) + 1 /\ Len(q) \in Nat
      /\ \A i \in 1 .. Len(q) : p[i] = q[i]
      /\ p[Len(q) + 1] = r
      /\ DOMAIN q = 1 .. Len(q) /\ DOMAIN p = 1 .. Len(q) + 1
  BY AppendProperties, LenProperties
<1> HIDE DEF p
<1>2. \A i \in 1 .. Len(q) + 1 : i \in 1 .. Len(q) \/ i = Len(q) + 1
  BY <1>1
<1>3. Entries(p) = Entries(q) \union {r}
  BY <1>1, <1>2 DEF Entries
<1>4. ASSUME Distinct(q), r \notin Entries(q) PROVE Distinct(p)
  BY <1>1, <1>2, <1>4 DEF Distinct, Entries
<1> QED BY <1>1, <1>3, <1>4 DEF p

(***************************************************************************)
(* What one identity has waiting.                                          *)
(***************************************************************************)

Of(q, a) == {i \in DOMAIN q : Identity[q[i]] = a}

LEMMA OfIsFinite ==
  ASSUME NEW q \in Seq(Request), NEW a
  PROVE  IsFiniteSet(Of(q, a)) /\ Cardinality(Of(q, a)) \in Nat
<1>1. DOMAIN q = 1 .. Len(q) /\ Len(q) \in Nat
  BY LenProperties
<1>2. IsFiniteSet(DOMAIN q)
  BY <1>1, FS_Interval
<1>3. Of(q, a) \in SUBSET DOMAIN q
  BY DEF Of
<1> QED BY <1>2, <1>3, FS_Subset, FS_CardinalityType

LEMMA OfAppend ==
  ASSUME NEW q \in Seq(Request), NEW r \in Request, NEW a
  PROVE  Cardinality(Of(Append(q, r), a)) <=
           IF Identity[r] = a THEN Cardinality(Of(q, a)) + 1 ELSE Cardinality(Of(q, a))
<1> DEFINE p == Append(q, r)
           n == Len(q) + 1
<1>1. /\ p \in Seq(Request) /\ Len(q) \in Nat
      /\ \A i \in 1 .. Len(q) : p[i] = q[i]
      /\ p[n] = r /\ DOMAIN q = 1 .. Len(q) /\ DOMAIN p = 1 .. n
  BY AppendProperties, LenProperties
<1>f. IsFiniteSet(Of(q, a)) /\ Cardinality(Of(q, a)) \in Nat
  BY OfIsFinite
<1> HIDE DEF p
<1>2. \A i \in 1 .. n : i \in 1 .. Len(q) \/ i = n
  BY <1>1
<1>3. Of(p, a) \subseteq IF Identity[r] = a THEN Of(q, a) \union {n} ELSE Of(q, a)
  BY <1>1, <1>2 DEF Of
<1>4. CASE Identity[r] = a
  <2>1. /\ IsFiniteSet(Of(q, a) \union {n})
        /\ Cardinality(Of(q, a) \union {n}) \in {Cardinality(Of(q, a)), Cardinality(Of(q, a)) + 1}
    BY <1>f, FS_AddElement
  <2>2. Cardinality(Of(p, a)) <= Cardinality(Of(q, a) \union {n})
    BY <1>3, <1>4, <2>1, FS_Subset
  <2>3. Cardinality(Of(p, a)) \in Nat
    BY <1>1, OfIsFinite
  <2> QED BY <1>4, <1>f, <2>1, <2>2, <2>3 DEF p
<1>5. CASE Identity[r] # a
  BY <1>3, <1>5, <1>f, FS_Subset DEF p
<1> QED BY <1>4, <1>5

LEMMA OfWithout ==
  ASSUME NEW q \in Seq(Request), NEW n \in DOMAIN q, NEW a
  PROVE  Cardinality(Of(Without(q, n), a)) <= Cardinality(Of(q, a))
<1> DEFINE m == Len(q) - 1
           p == Without(q, n)
           f == [i \in Of(p, a) |-> IF i < n THEN i ELSE i + 1]
<1>1. /\ Len(q) \in Nat /\ DOMAIN q = 1 .. Len(q) /\ m \in Nat /\ n \in 1 .. Len(q)
  BY LenProperties
<1>2. p = [i \in 1 .. m |-> IF i < n THEN q[i] ELSE q[i + 1]] /\ DOMAIN p = 1 .. m
  BY DEF Without
<1> HIDE DEF p
<1>3. ASSUME NEW i \in Of(p, a) PROVE i \in Nat /\ f[i] \in Of(q, a)
  BY <1>1, <1>2 DEF Of
<1>4. f \in [Of(p, a) -> Of(q, a)]
  BY <1>3
<1>5. ASSUME NEW i \in Of(p, a), NEW j \in Of(p, a), f[i] = f[j] PROVE i = j
  BY <1>1, <1>3, <1>5
<1>6. f \in Injection(Of(p, a), Of(q, a))
  BY <1>4, <1>5 DEF Injection, IsInjective
<1> QED BY <1>6, OfIsFinite, FS_Injection DEF p

(***************************************************************************)
(* #pump. Fits says of a queue and a set of active turns what LimitsHold   *)
(* says of the controller's.                                               *)
(***************************************************************************)

Fits(q, run) ==
  /\ q \in Seq(Request) /\ Distinct(q)
  /\ run \subseteq Request \ Entries(q) /\ Cardinality(run) <= MaxConcurrent
  /\ Len(q) <= MaxQueued
  /\ \A r \in Request : Cardinality(Of(q, Identity[r])) <= MaxQueuedPerIdentity
  /\ \A r, s \in Entries(q) :
       Kind[r] = "passive" /\ Kind[s] = "passive" /\ Identity[r] = Identity[s] => r = s

LEMMA RunIsFinite ==
  ASSUME NEW run, run \subseteq Request
  PROVE  IsFiniteSet(run) /\ Cardinality(run) \in Nat
BY CapacityAssumption, FS_Subset, FS_CardinalityType

LEMMA WithoutFits ==
  ASSUME NEW q, NEW run, Fits(q, run), NEW n \in DOMAIN q
  PROVE  Fits(Without(q, n), run)
<1> DEFINE p == Without(q, n)
<1>1. q \in Seq(Request) /\ Distinct(q)
  BY DEF Fits
<1>2. /\ p \in Seq(Request) /\ Len(p) = Len(q) - 1 /\ Entries(p) \subseteq Entries(q)
      /\ Distinct(p) /\ Len(q) \in Nat
  BY <1>1, WithoutIs, LenProperties
<1>3. ASSUME NEW r \in Request
      PROVE  Cardinality(Of(p, Identity[r])) <= MaxQueuedPerIdentity
  <2>1. Cardinality(Of(p, Identity[r])) <= Cardinality(Of(q, Identity[r]))
    BY <1>1, OfWithout
  <2>2. Cardinality(Of(p, Identity[r])) \in Nat /\ Cardinality(Of(q, Identity[r])) \in Nat
    BY <1>1, <1>2, OfIsFinite
  <2>3. Cardinality(Of(q, Identity[r])) <= MaxQueuedPerIdentity
    BY DEF Fits
  <2> QED BY <2>1, <2>2, <2>3, CapacityAssumption
<1> HIDE DEF p
<1>4. Len(p) <= MaxQueued
  BY <1>2, CapacityAssumption DEF Fits
<1>5. \A r, s \in Entries(p) :
        Kind[r] = "passive" /\ Kind[s] = "passive" /\ Identity[r] = Identity[s] => r = s
  BY <1>2 DEF Fits
<1>6. run \subseteq Request \ Entries(p) /\ Cardinality(run) <= MaxConcurrent
  BY <1>2 DEF Fits
<1>7. Fits(p, run)
  BY <1>2, <1>3, <1>4, <1>5, <1>6 DEF Fits
<1> QED BY <1>7 DEF p

Streaks ==
  streak \in 0 .. Burst + 1 /\ bypassed \in 0 .. Burst /\ bypassed <= streak

LEMMA PumpKeepsLimits ==
  ASSUME NEW q, NEW run, Fits(q, run), Pump(q, run)
  PROVE  Fits(queue', active') /\ run \subseteq active'
<1>1. CASE Accepting /\ Free(run) /\ q # <<>>
  <2> DEFINE n == TakeNext(q)
  <2>1. q \in Seq(Request) /\ Distinct(q) /\ run \subseteq Request /\ n \in DOMAIN q
    BY <1>1, TakeNextIs DEF Fits
  <2>2. queue' = Without(q, n) /\ active' = run \union {q[n]}
    BY <1>1 DEF Pump
  <2>3. Fits(Without(q, n), run) /\ q[n] \notin Entries(Without(q, n)) /\ q[n] \in Entries(q)
    BY <2>1, WithoutFits, WithoutIs DEF Entries
  <2>4. q[n] \in Request
    BY <2>1, <2>3, EntriesAre
  <2>5. Cardinality(run \union {q[n]}) <= MaxConcurrent
    <3>1. IsFiniteSet(run) /\ Cardinality(run) \in Nat
      BY <2>1, RunIsFinite
    <3>2. Cardinality(run \union {q[n]}) \in {Cardinality(run), Cardinality(run) + 1}
      BY <3>1, FS_AddElement
    <3> QED BY <1>1, <3>1, <3>2, CapacityAssumption DEF Free
  <2> HIDE DEF n
  <2> QED BY <2>2, <2>3, <2>4, <2>5 DEF Fits
<1>2. CASE ~(Accepting /\ Free(run) /\ q # <<>>)
  <2>1. queue' = q /\ active' = run
    BY <1>2 DEF Pump
  <2> QED BY <2>1
<1> QED BY <1>1, <1>2

(* One turn of #pump's loop leaves no slot free while work waits, when     *)
(* the queue or the free slots had just grown by one.                      *)
LEMMA PumpConserves ==
  ASSUME NEW q, NEW run, Fits(q, run), Pump(q, run),
         q # <<>> => Accepting,
         Len(q) <= 1 \/ Cardinality(run) >= MaxConcurrent - 1
  PROVE  queue' # <<>> => Cardinality(active') >= MaxConcurrent
<1>1. q \in Seq(Request) /\ Distinct(q) /\ run \subseteq Request \ Entries(q) /\ Len(q) \in Nat
  BY LenProperties DEF Fits
<1>2. IsFiniteSet(run) /\ Cardinality(run) \in Nat
  BY <1>1, RunIsFinite
<1>3. CASE Accepting /\ Free(run) /\ q # <<>>
  <2> DEFINE n == TakeNext(q)
  <2>1. n \in DOMAIN q
    BY <1>1, <1>3, TakeNextIs
  <2>2. queue' = Without(q, n) /\ active' = run \union {q[n]}
    BY <1>3 DEF Pump
  <2>3. q[n] \notin run
    BY <1>1, <2>1 DEF Entries
  <2>4. Cardinality(active') = Cardinality(run) + 1
    BY <1>2, <2>2, <2>3, FS_AddElement
  <2>5. Without(q, n) \in Seq(Request) /\ Len(Without(q, n)) = Len(q) - 1
    BY <1>1, <2>1, WithoutIs
  <2>6. Len(q) <= 1 => queue' = <<>>
    BY <1>1, <2>2, <2>5, EmptySeq
  <2> QED BY <1>2, <2>4, <2>6, CapacityAssumption
<1>4. CASE ~(Accepting /\ Free(run) /\ q # <<>>)
  <2>1. queue' = q /\ active' = run
    BY <1>4 DEF Pump
  <2> QED BY <1>2, <1>4, <2>1, CapacityAssumption DEF Free
<1> QED BY <1>3, <1>4

(* An interactive start that passes over another kind is one of a streak   *)
(* that has not reached Burst.                                             *)
LEMMA PumpKeepsStreaks ==
  ASSUME NEW q, NEW run, Fits(q, run), Pump(q, run), Streaks
  PROVE  Streaks'
<1>0. q \in Seq(Request) /\ Burst \in Nat \ {0}
  BY CapacityAssumption DEF Fits
<1>1. CASE Accepting /\ Free(run) /\ q # <<>>
  <2> DEFINE n == TakeNext(q)
  <2>1. Relieved /\ Low(q) # {} => ~Interactive(q[n])
    BY <1>0, <1>1, TakeNextIs
  <2>2. /\ streak' = IF Interactive(q[n]) THEN Bump(streak) ELSE 0
        /\ bypassed' = IF Interactive(q[n]) /\ Low(q) # {} THEN Bump(bypassed) ELSE 0
    BY <1>1 DEF Pump
  <2> HIDE DEF n
  <2>3. Interactive(q[n]) /\ Low(q) # {} => streak < Burst
    BY <1>0, <2>1 DEF Relieved, Streaks
  <2> QED BY <1>0, <2>2, <2>3 DEF Streaks, Bump
<1>2. CASE ~(Accepting /\ Free(run) /\ q # <<>>)
  BY <1>2 DEF Pump, Streaks
<1> QED BY <1>1, <1>2

(***************************************************************************)
(* The steps.                                                              *)
(***************************************************************************)

IInv ==
  /\ Fits(queue, active) /\ aborted \subseteq active /\ Streaks
  /\ shutdown \in {"open", "grace", "cut", "closed"}
  /\ WorkConserving

(* The admission checks are what a longer queue needs.                     *)
LEMMA AdmittedFits ==
  ASSUME IInv, NEW r \in Request, r \notin Queued \union active, Admitted(r)
  PROVE  Fits(Append(queue, r), active)
<1> DEFINE p == Append(queue, r)
<1>1. /\ queue \in Seq(Request) /\ Distinct(queue) /\ active \subseteq Request \ Entries(queue)
      /\ Cardinality(active) <= MaxConcurrent /\ Len(queue) \in Nat
  BY LenProperties DEF IInv, Fits
<1>2. /\ p \in Seq(Request) /\ Len(p) = Len(queue) + 1 /\ Distinct(p)
      /\ Entries(p) = Entries(queue) \union {r}
  BY <1>1, AppendIs DEF Queued
<1>3. Len(p) <= MaxQueued
  BY <1>1, <1>2, CapacityAssumption DEF Admitted, Full
<1>4. ASSUME NEW s \in Request
      PROVE  Cardinality(Of(p, Identity[s])) <= MaxQueuedPerIdentity
  <2> DEFINE c == Cardinality(Of(queue, Identity[s]))
  <2>1. Cardinality(Of(p, Identity[s])) <= IF Identity[r] = Identity[s] THEN c + 1 ELSE c
    BY <1>1, OfAppend
  <2>2. c <= MaxQueuedPerIdentity /\ (Identity[r] = Identity[s] => c < MaxQueuedPerIdentity)
    BY DEF IInv, Fits, Admitted, QueuedForIdentity, Of
  <2>3. c \in Nat /\ Cardinality(Of(p, Identity[s])) \in Nat /\ MaxQueuedPerIdentity \in Nat
    BY <1>1, <1>2, OfIsFinite, CapacityAssumption
  <2> QED BY <2>1, <2>2, <2>3
<1>5. \A s, t \in Entries(p) :
        Kind[s] = "passive" /\ Kind[t] = "passive" /\ Identity[s] = Identity[t] => s = t
  BY <1>2 DEF IInv, Fits, Admitted, Coalesced, Queued
<1>6. active \subseteq Request \ Entries(p)
  BY <1>1, <1>2
<1> HIDE DEF p
<1>7. Fits(p, active)
  BY <1>1, <1>2, <1>3, <1>4, <1>5, <1>6 DEF Fits
<1> QED BY <1>7 DEF p

LEMMA GenerateTurnKeeps ==
  ASSUME IInv, NEW r \in Request, GenerateTurn(r)
  PROVE  IInv'
<1> DEFINE p == Append(queue, r)
<1>1. /\ Fits(p, active) /\ Pump(p, active) /\ Accepting
      /\ shutdown' = shutdown /\ aborted' = aborted
  BY AdmittedFits DEF GenerateTurn, Admitted
<1>2. queue \in Seq(Request)
  BY DEF IInv, Fits
<1>3. Len(p) <= 1 \/ Cardinality(active) >= MaxConcurrent - 1
  <2>1. CASE queue = <<>>
    <3>1. Len(p) = Len(queue) + 1 /\ Len(queue) = 0
      BY <1>2, <2>1, AppendIs, EmptySeq
    <3> QED BY <3>1
  <2>2. CASE queue # <<>>
    <3>1. Cardinality(active) \in Nat
      BY RunIsFinite DEF IInv, Fits
    <3> QED BY <2>2, <3>1, CapacityAssumption DEF IInv, WorkConserving
  <2> QED BY <2>1, <2>2
<1> HIDE DEF p
<1>4. Fits(queue', active') /\ active \subseteq active'
  BY <1>1, PumpKeepsLimits
<1>5. queue' # <<>> => Cardinality(active') >= MaxConcurrent
  BY <1>1, <1>3, PumpConserves
<1>6. Streaks'
  BY <1>1, PumpKeepsStreaks DEF IInv
<1> QED BY <1>1, <1>4, <1>5, <1>6 DEF IInv, WorkConserving, Accepting

LEMMA FinishKeeps ==
  ASSUME IInv, NEW r \in Request, Finish(r)
  PROVE  IInv'
<1> DEFINE run == active \ {r}
<1>1. /\ Pump(queue, run) /\ r \in active /\ aborted' = aborted \ {r}
      /\ shutdown' = IF ~Accepting /\ Idle(run) THEN "closed" ELSE shutdown
  BY DEF Finish, Refill
<1>2. /\ queue \in Seq(Request) /\ active \subseteq Request /\ Cardinality(active) <= MaxConcurrent
      /\ IsFiniteSet(active) /\ Cardinality(active) \in Nat
  BY RunIsFinite DEF IInv, Fits
<1>3. Cardinality(run) = Cardinality(active) - 1
  BY <1>1, <1>2, FS_RemoveElement
<1>4. Fits(queue, run)
  BY <1>2, <1>3, CapacityAssumption DEF IInv, Fits
<1>5. queue # <<>> => Accepting
  BY DEF IInv, WorkConserving
<1>6. queue' # <<>> => Cardinality(active') >= MaxConcurrent
  <2>1. CASE queue # <<>>
    <3>1. Cardinality(run) >= MaxConcurrent - 1
      BY <1>2, <1>3, <2>1, CapacityAssumption DEF IInv, WorkConserving
    <3> HIDE DEF run
    <3> QED BY <1>1, <1>4, <1>5, <3>1, PumpConserves
  <2>2. CASE queue = <<>>
    BY <1>1, <2>2 DEF Pump
  <2> QED BY <2>1, <2>2
<1>7. queue' # <<>> => Accepting'
  <2>1. queue' # <<>> => queue # <<>>
    BY <1>1 DEF Pump
  <2> QED BY <1>1, <1>5, <2>1 DEF Accepting
<1>8. shutdown' = "closed" => active' = {}
  <2>1. CASE Accepting
    BY <1>1, <2>1 DEF Accepting
  <2>2. CASE ~Accepting
    <3>1. active' = run
      BY <1>1, <2>2 DEF Pump
    <3>2. shutdown' = "closed" => Idle(run) \/ shutdown = "closed"
      BY <1>1
    <3> QED BY <1>1, <3>1, <3>2 DEF Idle, IInv, WorkConserving
  <2> QED BY <2>1, <2>2
<1> HIDE DEF run
<1>9. Fits(queue', active') /\ run \subseteq active' /\ Streaks'
  BY <1>1, <1>4, PumpKeepsLimits, PumpKeepsStreaks DEF IInv
<1>10. aborted' \subseteq active'
  BY <1>1, <1>9 DEF IInv, run
<1>11. shutdown' \in {"open", "grace", "cut", "closed"}
  BY <1>1 DEF IInv
<1> QED BY <1>6, <1>7, <1>8, <1>9, <1>10, <1>11 DEF IInv, WorkConserving

LEMMA AbortKeeps ==
  ASSUME IInv, NEW r \in Request, Abort(r)
  PROVE  IInv'
<1>0. queue \in Seq(Request)
  BY DEF IInv, Fits
<1>1. CASE /\ r \in Queued
           /\ queue' = Without(queue, OldestIndex(queue, {r}))
           /\ UNCHANGED <<active, aborted, streak, shutdown, bypassed>>
  <2>1. OldestIndex(queue, {r}) \in DOMAIN queue
    BY <1>0, <1>1, OldestIndexIs DEF Queued
  <2>2. Fits(queue', active)
    BY <1>1, <2>1, WithoutFits DEF IInv
  <2>3. queue # <<>>
    BY <1>0, <2>1, EmptySeq, LenProperties
  <2> QED BY <1>1, <2>2, <2>3 DEF IInv, Streaks, WorkConserving, Accepting
<1>2. CASE /\ r \in active \ aborted
           /\ aborted' = aborted \union {r}
           /\ UNCHANGED <<queue, active, streak, shutdown, bypassed>>
  BY <1>2 DEF IInv, Streaks, WorkConserving, Accepting
<1> QED BY <1>1, <1>2 DEF Abort

LEMMA EmptyFits ==
  ASSUME NEW run, run \subseteq Request, Cardinality(run) <= MaxConcurrent
  PROVE  Fits(<<>>, run)
<1>1. /\ <<>> \in Seq(Request) /\ Len(<<>>) = 0 /\ DOMAIN <<>> = {}
  BY EmptySeq, LenProperties
<1>2. Entries(<<>>) = {} /\ \A a : Of(<<>>, a) = {}
  BY <1>1 DEF Entries, Of
<1>3. Cardinality({}) = 0
  BY FS_EmptySet
<1>4. \A r \in Request : Cardinality(Of(<<>>, Identity[r])) <= MaxQueuedPerIdentity
  <2> TAKE r \in Request
  <2> DEFINE n == Cardinality(Of(<<>>, Identity[r]))
  <2>1. n = 0
    BY <1>2, <1>3, Zenon
  <2> HIDE DEF n
  <2>2. n <= MaxQueuedPerIdentity
    BY <2>1, CapacityAssumption
  <2> QED BY <2>2 DEF n
<1> QED BY <1>1, <1>2, <1>4, CapacityAssumption DEF Fits, Distinct

LEMMA ShutdownKeeps ==
  ASSUME IInv, Shutdown \/ GraceExpires
  PROVE  IInv'
<1>1. CASE Shutdown
  <2>1. Fits(<<>>, active)
    BY EmptyFits DEF IInv, Fits
  <2> QED BY <1>1, <2>1 DEF Shutdown, IInv, Streaks, WorkConserving
<1>2. CASE GraceExpires
  BY <1>2 DEF GraceExpires, Cut, IInv, Streaks, WorkConserving, Accepting
<1> QED BY <1>1, <1>2

(* The limits, the streaks and work conservation hold together.            *)
THEOREM Invariance == Spec => []IInv
<1>1. Init => IInv
  <2> SUFFICES ASSUME Init PROVE IInv
    OBVIOUS
  <2>1. Cardinality({}) = 0
    BY FS_EmptySet
  <2>2. Fits(<<>>, {})
    BY <2>1, EmptyFits, CapacityAssumption
  <2> QED BY <2>2, CapacityAssumption DEF Init, IInv, Streaks, WorkConserving
<1>2. IInv /\ [Next]_vars => IInv'
  <2> SUFFICES ASSUME IInv, [Next]_vars PROVE IInv'
    OBVIOUS
  <2>1. CASE UNCHANGED vars
    BY <2>1 DEF vars, IInv, Streaks, WorkConserving, Accepting
  <2> QED BY <2>1, GenerateTurnKeeps, AbortKeeps, FinishKeeps, ShutdownKeeps DEF Next
<1> QED BY <1>1, <1>2, PTL DEF Spec

(* At most MaxConcurrent provider turns run, at most MaxQueued wait, at    *)
(* most MaxQueuedPerIdentity of one identity, one passive gate of each, no *)
(* request twice, whatever arrives, is aborted, finishes or is cut short.  *)
THEOREM LimitsAlwaysHold == Spec => []LimitsHold
<1>1. IInv => LimitsHold
  <2> SUFFICES ASSUME IInv PROVE LimitsHold
    OBVIOUS
  <2>1. TypeOK
    BY CapacityAssumption DEF IInv, Fits, Distinct, Streaks, TypeOK, Queued
  <2>2. \A r \in Request : QueuedForIdentity(r) <= MaxQueuedPerIdentity
    BY DEF IInv, Fits, QueuedForIdentity, Of
  <2> QED BY <2>1, <2>2 DEF IInv, Fits, LimitsHold, Queued
<1> QED BY <1>1, Invariance, PTL

(* No slot is free while a request waits: #pump is called wherever one may *)
(* have become startable. A controller that is closed runs nothing.        *)
THEOREM ConservesWork == Spec => []WorkConserving
<1>1. IInv => WorkConserving
  BY DEF IInv
<1> QED BY <1>1, Invariance, PTL

(* While another kind waits, at most Burst interactive turns in a row      *)
(* start before one of it: #takeNext starves passive, background and title  *)
(* work, taken together, by no stream of interactive work.                 *)
THEOREM BypassBounded == Spec => []BoundedBypass
<1>1. IInv => BoundedBypass
  BY CapacityAssumption DEF IInv, Streaks, BoundedBypass
<1> QED BY <1>1, Invariance, PTL
=============================================================================
