---------------------------- MODULE Pairing_proof ----------------------------
(***************************************************************************)
(* The properties of Pairing for any number of members, codes, requests,   *)
(* tokens, faults and edits.  The invariant relates the two files and what *)
(* the requests under way remember: as long as a code's reservation was    *)
(* not dropped (lapsed), a code that is free has no token on file, and one *)
(* that is reserved or completed has no other than the one it names.       *)
(***************************************************************************)
EXTENDS Pairing, FiniteSetTheorems, TLAPS

\* No token of c is on file, or only t.
Yielded(c, t) == \A u \in tokens : u[1] = c => u = t
Unyielded(c) == \A u \in tokens : u[1] # c

\* What the files say of a code.
Filed(c) ==
  /\ pairings[c] = Absent => expires[c] <= now \/ c \in superseded
  /\ expires[c] = 0 => pairings[c] = Absent /\ Unyielded(c)
  /\ pairings[c] = Unreserved /\ c \notin lapsed => Unyielded(c)
  /\ pairings[c] \notin {Absent, Unreserved} =>
       /\ pairings[c].token[1] = c
       /\ c \notin lapsed => Yielded(c, pairings[c].token)
       /\ pairings[c].state = "completed" => pairings[c].token \in tokens \union removed
  /\ c \notin lapsed => \A t \in tokens : t[1] = c => Yielded(c, t)

Landed == {"complete", "answer", "granted"}

\* What a request with memory m may rely on.
Sound(m) ==
  /\ m.at # "out" => m.code \in Code /\ expires[m.code] # 0 /\ m.asked <= now
  /\ m.at = "invalid" => expires[m.code] <= now \/ m.code \in superseded
  /\ m.at \in Critical => pairings[m.code] # Absent /\ expires[m.code] > m.asked
  /\ m.at = "reserve" => pairings[m.code] = Unreserved
  /\ m.at \in {"persist", "check", "rollback", "complete"} =>
       pairings[m.code] = Holding("reserved", m.token)
  /\ m.at = "rollback" => m.token \notin tokens
  /\ m.at \in Landed => m.token \in tokens \union removed

IInv ==
  /\ TypeOK
  /\ \A c \in Code : Filed(c)
  /\ \A r \in Request : Sound(req[r])
  /\ given \subseteq tokens \union removed

LEMMA Moved ==
  ASSUME TypeOK, NEW r \in Request, NEW m, Becomes(r, m)
  PROVE  req'[r] = m /\ \A s \in Request : s # r => req'[s] = req[s]
BY DEF TypeOK, Becomes

LEMMA IdleIsSound == Idle \in Memory /\ Sound(Idle)
BY DEF Idle, Memory, Stages, Sound, Critical, Landed

\* A step of request r, from what it does to the files and to its memory.
LEMMA RequestStep ==
  ASSUME IInv, NEW r \in Request, NEW m \in Memory, Becomes(r, m),
         UNCHANGED <<expires, mapped, now, superseded, removed>>,
         pairings' \in [Code -> Entry], drawn' \in [Code -> 0 .. MaxDraws],
         tokens' \subseteq Token, lapsed' \subseteq Code, given' \subseteq tokens \union removed,
         tokens \subseteq tokens',
         \A c \in Code : pairings[c] = Absent => pairings'[c] = Absent,
         req[r].at \in Critical \/ UNCHANGED tokens,
         req[r].at \in Critical \/ UNCHANGED pairings \/ ~Locked,
         m.at \in Critical => req[r].at \in Critical \/ ~Locked,
         \A c \in Code : Filed(c)', Sound(m)'
  PROVE  IInv'
<1>1. req'[r] = m /\ \A s \in Request : s # r => req'[s] = req[s]
  BY Moved DEF IInv
<1>2. ASSUME NEW s \in Request PROVE Sound(req[s])'
  <2>1. CASE s = r
    BY <1>1, <2>1 DEF Sound
  <2>2. CASE s # r
    <3>1. req'[s] = req[s] /\ Sound(req[s])
      BY <1>1, <2>2 DEF IInv
    <3>2. CASE req[s].at \in Critical
      <4>1. req[r].at \notin Critical /\ Locked
        BY <2>2, <3>2 DEF IInv, TypeOK, Locked
      <4>2. UNCHANGED <<tokens, pairings>>
        BY <4>1
      <4> QED BY <3>1, <4>2 DEF Sound
    <3>3. CASE req[s].at \notin Critical
      BY <3>1, <3>3 DEF Sound, Critical, Landed
    <3> QED BY <3>2, <3>3
  <2> QED BY <2>1, <2>2
<1>3. req' \in [Request -> Memory]
  BY DEF IInv, TypeOK, Becomes
<1>4. \A s, t \in Request : req'[s].at \in Critical /\ req'[t].at \in Critical => s = t
  <2> SUFFICES ASSUME NEW s \in Request, NEW t \in Request,
                      req'[s].at \in Critical, req'[t].at \in Critical, s # t
               PROVE  FALSE
    OBVIOUS
  <2>1. CASE s # r /\ t # r
    BY <1>1, <2>1 DEF IInv, TypeOK
  <2>2. CASE s = r \/ t = r
    BY <1>1, <2>2 DEF IInv, TypeOK, Locked
  <2> QED BY <2>1, <2>2
<1>5. \A s \in Request : req'[s].at \in {"persist", "check", "rollback", "complete"} =>
        pairings'[req'[s].code] = Holding("reserved", req'[s].token)
  BY <1>2 DEF Sound, Holding
<1>6. \A c, d \in Code :
        pairings'[c] # Absent /\ pairings'[d] # Absent /\ IdentityOf[c] = IdentityOf[d] => c = d
  BY DEF IInv, TypeOK
<1>7. TypeOK'
  BY <1>3, <1>4, <1>5, <1>6 DEF IInv, TypeOK
<1> QED BY <1>2, <1>7 DEF IInv

\* A request that writes no file.
LEMMA QuietStep ==
  ASSUME IInv, NEW r \in Request, NEW m \in Memory, Becomes(r, m), Sound(m),
         UNCHANGED <<files, drawn, now, superseded, lapsed, removed>>,
         given' \subseteq tokens \union removed,
         m.at \in Critical => req[r].at \in Critical \/ ~Locked
  PROVE  IInv'
<1>1. UNCHANGED <<pairings, expires, tokens, mapped, drawn, now, superseded, lapsed, removed>>
  BY DEF files
<1>2. \A c \in Code : Filed(c)'
  BY <1>1 DEF IInv, Filed, Yielded, Unyielded
<1>3. Sound(m)'
  BY <1>1 DEF Sound
<1> QED BY <1>1, <1>2, <1>3, RequestStep DEF IInv, TypeOK

\* What writePairings may leave in the file.
LEMMA Writing ==
  ASSUME IInv, NEW r \in Request, req[r].code \in Code, NEW e \in Entry,
         pairings' \in {pairings, Saved(r, e)}
  PROVE  /\ pairings' \in [Code -> Entry]
         /\ pairings'[req[r].code] \in {pairings[req[r].code], e}
         /\ \A c \in Code : c # req[r].code =>
              \/ pairings'[c] = pairings[c]
              \/ pairings'[c] = Absent /\ expires[c] <= req[r].asked
<1>1. \A c \in Code : Live(req[r].asked)[c] =
        IF expires[c] <= req[r].asked THEN Absent ELSE pairings[c]
  BY DEF Live
<1>2. Absent \in Entry /\ pairings \in [Code -> Entry]
  BY DEF Entry, IInv, TypeOK
<1>3. Live(req[r].asked) \in [Code -> Entry]
  BY <1>1, <1>2 DEF Live
<1>4. Saved(r, e) \in [Code -> Entry] /\ Saved(r, e)[req[r].code] = e
  BY <1>3 DEF Saved
<1>5. \A c \in Code : c # req[r].code => Saved(r, e)[c] = Live(req[r].asked)[c]
  BY <1>3 DEF Saved
<1> QED BY <1>1, <1>2, <1>4, <1>5

\* Codes that are left alone or pruned stay in order.
LEMMA FiledKept ==
  ASSUME IInv, NEW c \in Code, UNCHANGED <<expires, tokens, now, superseded, removed>>,
         c \in lapsed => c \in lapsed',
         pairings'[c] = pairings[c] \/ (pairings'[c] = Absent /\ expires[c] <= now)
  PROVE  Filed(c)'
<1>1. Filed(c)
  BY DEF IInv
<1> QED BY <1>1 DEF Filed, Yielded, Unyielded, Absent, Unreserved

LEMMA InitInv == Init => IInv
<1> SUFFICES ASSUME Init PROVE IInv
  OBVIOUS
<1>1. TypeOK
  BY PairingAssumption DEF Init, TypeOK, Entry, Absent, Idle, Memory, Stages, Critical
<1>2. \A c \in Code : Filed(c)
  BY DEF Init, Filed, Yielded, Unyielded, Absent, Unreserved
<1>3. \A r \in Request : Sound(req[r])
  BY IdleIsSound DEF Init
<1> QED BY <1>1, <1>2, <1>3 DEF IInv, Init

LEMMA AskInv == ASSUME IInv, NEW r \in Request, NEW c \in Code, Ask(r, c) PROVE IInv'
<1> DEFINE m == [at |-> "waiting", code |-> c, asked |-> now, token |-> NoToken]
<1>1. m \in Memory /\ Sound(m)
  BY DEF IInv, TypeOK, Ask, Memory, Stages, Sound, Critical, Landed
<1>2. m.at \notin Critical
  BY DEF Critical
<1>3. Becomes(r, m) /\ UNCHANGED <<files, drawn, now, superseded, lapsed, removed, given>>
  BY DEF Ask, observers
<1> HIDE DEF m
<1> QED BY <1>1, <1>2, <1>3, QuietStep DEF IInv

LEMMA EndInv ==
  ASSUME IInv, NEW r \in Request, Becomes(r, Idle),
         UNCHANGED <<files, drawn, now, superseded, lapsed, removed>>,
         given' \subseteq tokens \union removed
  PROVE  IInv'
BY IdleIsSound, QuietStep DEF Idle, Critical

LEMMA FailInv ==
  ASSUME IInv, NEW r \in Request, Fail(r) \/ Refuse(r) PROVE IInv'
BY EndInv DEF Fail, Refuse, observers, IInv

\* What a request that holds the lock writes into the pairings file.
LEMMA WriteStep ==
  ASSUME IInv, NEW r \in Request, NEW k \in Code, req[r].code = k, NEW e \in Entry,
         req[r].at \in Critical,
         pairings' \in {pairings, Saved(r, e)}, NEW m \in Memory, Becomes(r, m),
         UNCHANGED <<expires, tokens, mapped, now, superseded, removed, given>>,
         drawn' \in [Code -> 0 .. MaxDraws], lapsed' \subseteq Code, lapsed \subseteq lapsed',
         Filed(k)', Sound(m)'
  PROVE  IInv'
<1>1. Sound(req[r]) /\ pairings[req[r].code] # Absent /\ req[r].asked <= now
  BY DEF IInv, Sound, Critical
<1>2. pairings' \in [Code -> Entry]
  BY Writing
<1>3. ASSUME NEW c \in Code PROVE Filed(c)'
  <2>1. CASE c = k
    BY <2>1
  <2>2. CASE c # k
    <3>1. pairings'[c] = pairings[c] \/ (pairings'[c] = Absent /\ expires[c] <= req[r].asked)
      BY <2>2, Writing
    <3>2. expires[c] \in Nat /\ now \in Nat /\ req[r].asked \in Nat
      BY DEF IInv, TypeOK, Memory
    <3>3. pairings'[c] = pairings[c] \/ (pairings'[c] = Absent /\ expires[c] <= now)
      BY <1>1, <3>1, <3>2
    <3> QED BY <3>3, FiledKept
  <2> QED BY <2>1, <2>2
<1>4. \A c \in Code : pairings[c] = Absent => pairings'[c] = Absent
  BY <1>1, Writing
<1> QED BY <1>2, <1>3, <1>4, RequestStep DEF IInv, TypeOK

LEMMA FindInv == ASSUME IInv, NEW r \in Request, Find(r) PROVE IInv'
<1> DEFINE k == req[r].code
<1>1. At(r, "waiting") /\ ~Locked /\ Sound(req[r]) /\ req[r] \in Memory
  BY DEF Find, IInv, TypeOK
<1>2. k \in Code /\ expires[k] # 0 /\ req[r].asked <= now
  BY <1>1 DEF At, Sound
<1>3. now \in Nat /\ req[r].asked \in Nat /\ expires \in [Code -> Nat]
  BY <1>1 DEF IInv, TypeOK, Memory
<1>4. UNCHANGED <<expires, tokens, mapped, drawn, now, superseded, lapsed, removed, given>>
  BY DEF Find, observers
<1>5. CASE Live(req[r].asked)[k] = Absent
  <2> DEFINE invalid == [req[r] EXCEPT !.at = "invalid"]
  <2>1. PICK m \in {invalid, Idle} :
          Becomes(r, m) /\ pairings' \in {pairings, Live(req[r].asked)}
    BY <1>5 DEF Find, Save
  <2>2. m \in Memory /\ m.at \notin Critical
    BY <1>1, <2>1, IdleIsSound DEF Memory, Stages, Critical, Idle
  <2>3. expires[k] <= now \/ k \in superseded
    <3>1. CASE expires[k] <= req[r].asked
      BY <1>2, <1>3, <3>1
    <3>2. CASE pairings[k] = Absent
      BY <1>2, <3>2 DEF IInv, Filed
    <3> QED BY <1>2, <1>3, <1>5, <3>1, <3>2 DEF Live
  <2>4. m.at \in {"invalid", "out"} /\ (m.at = "invalid" => m.code = k /\ m.asked = req[r].asked)
    BY <1>1, <2>1 DEF Idle, Memory
  <2>5. Sound(m)'
    BY <1>2, <1>4, <2>3, <2>4 DEF Sound, Critical, Landed
  <2>6. \A c \in Code : pairings'[c] = pairings[c]
                       \/ (pairings'[c] = Absent /\ expires[c] <= req[r].asked)
    BY <2>1 DEF Live
  <2>7. \A c \in Code : Filed(c)'
    BY <1>2, <1>3, <1>4, <2>6, FiledKept
  <2>8. pairings' \in [Code -> Entry]
    <3>1. Live(req[r].asked) \in [Code -> Entry]
      BY DEF Live, Entry, IInv, TypeOK
    <3> QED BY <2>1, <3>1 DEF IInv, TypeOK
  <2> QED BY <1>1, <1>4, <2>1, <2>2, <2>5, <2>6, <2>7, <2>8, RequestStep DEF IInv, TypeOK
<1>6. CASE Live(req[r].asked)[k] # Absent
  <2> DEFINE m == [req[r] EXCEPT !.at = "authorize"]
  <2>1. Becomes(r, m) /\ UNCHANGED pairings
    BY <1>6 DEF Find, Goto
  <2>2. pairings[k] # Absent /\ expires[k] > req[r].asked
    BY <1>2, <1>3, <1>6 DEF Live
  <2>3. m \in Memory
    BY <1>1 DEF Memory, Stages, Critical
  <2>4. m.at = "authorize" /\ m.code = k /\ m.asked = req[r].asked
    BY <1>1 DEF Memory
  <2> HIDE DEF m
  <2>5. Sound(m)
    BY <1>2, <2>2, <2>4 DEF Sound, Landed
  <2> QED BY <1>1, <1>4, <2>1, <2>3, <2>5, QuietStep DEF files, IInv
<1> QED BY <1>5, <1>6

\* A request at work holds the lock for a pairing that is in the file.
LEMMA AtWork ==
  ASSUME IInv, NEW r \in Request, req[r].at \in Critical
  PROVE  /\ req[r] \in Memory /\ Sound(req[r])
         /\ req[r].code \in Code /\ expires[req[r].code] # 0 /\ req[r].asked <= now
         /\ pairings[req[r].code] # Absent /\ expires[req[r].code] > req[r].asked
         /\ Filed(req[r].code) /\ pairings[req[r].code] \in Entry
BY DEF IInv, TypeOK, Sound, Critical

LEMMA SavedCode ==
  ASSUME IInv, NEW r \in Request, req[r].at \in Critical, NEW e \in Entry
  PROVE  Saved(r, e)[req[r].code] = e
<1>1. Live(req[r].asked) \in [Code -> Entry]
  BY DEF Live, Entry, IInv, TypeOK
<1> QED BY <1>1, AtWork DEF Saved

\* A request that writes an entry for its code, or fails to.
LEMMA SaveInv ==
  ASSUME IInv, NEW r \in Request, req[r].at \in Critical, NEW k \in Code, req[r].code = k,
         NEW e \in Entry, NEW n \in Memory, Save(r, Saved(r, e), n),
         UNCHANGED <<expires, tokens, mapped, now, superseded, removed, given>>,
         drawn' \in [Code -> 0 .. MaxDraws], lapsed' \subseteq Code, lapsed \subseteq lapsed',
         pairings'[k] \in {pairings[k], e} => Filed(k)',
         pairings'[k] = e => Sound(n)'
  PROVE  IInv'
<1>1. CASE pairings' = Saved(r, e) /\ Becomes(r, n)
  <2>1. pairings'[k] = e
    BY <1>1, SavedCode
  <2> QED BY <1>1, <2>1, WriteStep
<1>2. CASE pairings' \in {pairings, Saved(r, e)} /\ Becomes(r, Idle)
  <2>1. pairings'[k] \in {pairings[k], e}
    BY <1>2, Writing
  <2>2. Idle \in Memory /\ Sound(Idle)'
    BY IdleIsSound DEF Idle, Sound, Critical, Landed
  <2> QED BY <1>2, <2>1, <2>2, WriteStep
<1> QED BY <1>1, <1>2 DEF Save

LEMMA Reservation ==
  ASSUME NEW state \in {"reserved", "completed"}, NEW t \in Token
  PROVE  /\ Holding(state, t) \in Entry \ {Absent, Unreserved}
         /\ Holding(state, t).token = t /\ Holding(state, t).state = state
BY DEF Holding, Entry, Absent, Unreserved

LEMMA ReserveInv == ASSUME IInv, NEW r \in Request, Reserve(r) PROVE IInv'
<1>1. At(r, "reserve") /\ req[r].at \in Critical
  BY DEF Reserve, At, Critical
<1>2. PICK k \in Code : k = req[r].code
  BY <1>1, AtWork
<1>3. PICK t \in Token : t = <<k, drawn[k] + 1>>
  BY <1>2, PairingAssumption DEF Reserve, IInv, TypeOK, Token
<1>4. PICK n \in Memory : n = [req[r] EXCEPT !.at = "persist", !.token = t]
  BY <1>1, AtWork DEF Memory, Stages, Critical
<1>5. t[1] = k /\ n.at = "persist" /\ n.code = k /\ n.asked = req[r].asked /\ n.token = t
  BY <1>1, <1>2, <1>3, <1>4, AtWork DEF Memory
<1>6. PICK e \in Entry \ {Absent, Unreserved} :
        e = Holding("reserved", t) /\ e.token = t /\ e.state = "reserved"
  BY Reservation
<1>7. Save(r, Saved(r, e), n)
  BY <1>2, <1>3, <1>4, <1>6 DEF Reserve
<1>8. UNCHANGED <<expires, tokens, mapped, now, superseded, lapsed, removed, given>>
  BY DEF Reserve, observers
<1>9. drawn' \in [Code -> 0 .. MaxDraws]
  BY <1>2, PairingAssumption DEF Reserve, IInv, TypeOK
<1>10. pairings[k] = Unreserved /\ Filed(k)
  BY <1>1, <1>2, AtWork DEF At, Sound
<1>11. pairings'[k] \in {pairings[k], e} => Filed(k)'
  BY <1>1, <1>2, <1>5, <1>6, <1>8, <1>10, AtWork DEF Filed, Yielded, Unyielded
<1>12. pairings'[k] = e => Sound(n)'
  BY <1>1, <1>2, <1>5, <1>6, <1>8, AtWork DEF Sound, Landed
<1> QED BY <1>1, <1>2, <1>7, <1>8, <1>9, <1>11, <1>12, SaveInv DEF IInv, TypeOK

\* The pairing of a request that has a reservation.
LEMMA AtReservation ==
  ASSUME IInv, NEW r \in Request, req[r].at \in {"persist", "check", "rollback", "complete"}
  PROVE  /\ req[r].at \in Critical /\ req[r].token \in Token
         /\ pairings[req[r].code] = Holding("reserved", req[r].token)
         /\ pairings[req[r].code] \notin {Absent, Unreserved}
         /\ pairings[req[r].code].token = req[r].token
         /\ pairings[req[r].code].state = "reserved"
<1>1. req[r].at \in Critical
  BY DEF Critical
<1>2. pairings[req[r].code] = Holding("reserved", req[r].token)
  BY <1>1, AtWork DEF Sound
<1>3. pairings[req[r].code] \in Entry /\ pairings[req[r].code].state = "reserved"
       /\ pairings[req[r].code].token = req[r].token
  BY <1>1, <1>2, AtWork DEF Holding
<1>4. Absent.state = "absent" /\ Unreserved.state = "issued"
  BY DEF Absent, Unreserved
<1> QED BY <1>1, <1>2, <1>3, <1>4 DEF Entry

LEMMA CompleteInv == ASSUME IInv, NEW r \in Request, Complete(r) PROVE IInv'
<1>1. At(r, "complete") /\ req[r].at \in Critical
  BY DEF Complete, At, Critical
<1>2. PICK k \in Code : k = req[r].code
  BY <1>1, AtWork
<1>3. PICK t \in Token : t = req[r].token
  BY <1>1, AtReservation DEF At
<1>4. PICK n \in Memory : n = [req[r] EXCEPT !.at = "answer"]
  BY <1>1, AtWork DEF Memory, Stages
<1>5. n.at = "answer" /\ n.code = k /\ n.asked = req[r].asked /\ n.token = t
  BY <1>1, <1>2, <1>3, <1>4, AtWork DEF Memory
<1>6. PICK e \in Entry \ {Absent, Unreserved} :
        e = Holding("completed", t) /\ e.token = t /\ e.state = "completed"
  BY Reservation
<1>7. Save(r, Saved(r, e), n)
  BY <1>3, <1>4, <1>6 DEF Complete
<1>8. UNCHANGED <<expires, tokens, mapped, drawn, now, superseded, lapsed, removed, given>>
  BY DEF Complete, observers
<1>9. Filed(k) /\ t \in tokens \union removed /\ pairings[k].token = t
       /\ pairings[k] \notin {Absent, Unreserved}
  BY <1>1, <1>2, <1>3, AtWork, AtReservation DEF At, Sound, Landed
<1>10. pairings'[k] \in {pairings[k], e} => Filed(k)'
  BY <1>1, <1>2, <1>6, <1>8, <1>9, AtWork DEF Filed, Yielded, Unyielded
<1>11. pairings'[k] = e => Sound(n)'
  BY <1>1, <1>2, <1>5, <1>8, <1>9, AtWork DEF Sound, Critical
<1> QED BY <1>1, <1>2, <1>7, <1>8, <1>10, <1>11, SaveInv DEF IInv, TypeOK

LEMMA RollbackInv == ASSUME IInv, NEW r \in Request, Rollback(r) PROVE IInv'
<1>1. At(r, "rollback") /\ req[r].at \in Critical
  BY DEF Rollback, At, Critical
<1>2. PICK k \in Code : k = req[r].code
  BY <1>1, AtWork
<1>3. PICK e \in Entry : e = Unreserved /\ e # Absent
  BY DEF Entry, Unreserved, Absent
<1>4. Save(r, Saved(r, e), Idle) /\ Idle \in Memory /\ Sound(Idle)'
  BY <1>3, IdleIsSound DEF Rollback, Released, Idle, Sound, Critical, Landed
<1>5. UNCHANGED <<expires, tokens, mapped, drawn, now, superseded, lapsed, removed, given>>
  BY DEF Rollback, observers
<1>6. Filed(k) /\ pairings[k].token \notin tokens /\ pairings[k] \notin {Absent, Unreserved}
  BY <1>1, <1>2, AtWork, AtReservation DEF At, Sound
<1>7. pairings'[k] \in {pairings[k], e} => Filed(k)'
  BY <1>1, <1>2, <1>3, <1>5, <1>6, AtWork DEF Filed, Yielded, Unyielded
<1> QED BY <1>1, <1>2, <1>4, <1>5, <1>7, SaveInv DEF IInv, TypeOK

LEMMA AuthorizeInv == ASSUME IInv, NEW r \in Request, Authorize(r) PROVE IInv'
<1>1. At(r, "authorize") /\ req[r].at \in Critical
  BY DEF Authorize, At, Critical
<1>2. PICK k \in Code : k = req[r].code
  BY <1>1, AtWork
<1>3. PICK p \in Entry : p = pairings[k] /\ p # Absent
  BY <1>1, <1>2, AtWork
<1>4. Filed(k) /\ expires[k] # 0 /\ req[r].asked <= now /\ expires[k] > req[r].asked
  BY <1>1, <1>2, AtWork
<1>5. UNCHANGED <<expires, tokens, mapped, drawn, now, superseded, removed, given>>
  BY DEF Authorize
<1>6. lapsed' = lapsed \union {c \in {k} : p.token \in tokens /\ pairings'[k] = Unreserved}
  BY <1>2, <1>3 DEF Authorize
<1>7. lapsed' \subseteq Code /\ lapsed \subseteq lapsed'
  BY <1>6 DEF IInv, TypeOK
<1>8. p.token \in Token \/ p.token = NoToken
  BY <1>3 DEF Entry, Unreserved
<1>9. CASE IdentityOf[k] \notin mapped
  <2>1. PICK e \in Entry : e = IF p.state = "reserved" THEN Unreserved ELSE p
    BY <1>3 DEF Entry
  <2>2. e # Absent
    BY <1>3, <2>1 DEF Absent, Unreserved
  <2>3. PICK n \in Memory : n = [req[r] EXCEPT !.at = "rejected"]
    BY <1>1, AtWork DEF Memory, Stages
  <2>4. n.at = "rejected" /\ n.code = k /\ n.asked = req[r].asked
    BY <1>1, <1>2, <2>3, AtWork DEF Memory
  <2>5. Save(r, Saved(r, e), n)
    BY <1>2, <1>3, <1>9, <2>1, <2>3 DEF Authorize
  <2>6. pairings'[k] \in {p, e} => Filed(k)'
    <3>1. CASE pairings'[k] = p
      BY <1>3, <1>4, <1>5, <1>7, <3>1 DEF Filed, Yielded, Unyielded
    <3>2. CASE pairings'[k] = Unreserved /\ p # Unreserved
      BY <1>3, <1>4, <1>5, <1>6, <2>2, <3>2 DEF Filed, Yielded, Unyielded, Unreserved, Absent
    <3> QED BY <2>1, <3>1, <3>2
  <2>7. Sound(n)'
    BY <1>4, <1>5, <2>4 DEF Sound, Critical, Landed
  <2> QED BY <1>1, <1>2, <1>3, <1>5, <1>7, <2>5, <2>6, <2>7, SaveInv DEF IInv, TypeOK
<1>10. CASE IdentityOf[k] \in mapped /\ p.state = "completed"
  <2>1. p \notin {Absent, Unreserved} /\ p.token \in Token
    BY <1>3, <1>10 DEF Absent, Unreserved, Entry
  <2>2. PICK n \in Memory : n = [req[r] EXCEPT !.at = "answer", !.token = p.token]
    BY <1>1, <2>1, AtWork DEF Memory, Stages
  <2>3. n.at = "answer" /\ n.code = k /\ n.asked = req[r].asked /\ n.token = p.token
    BY <1>1, <1>2, <2>2, AtWork DEF Memory
  <2>4. Save(r, Saved(r, p), n)
    BY <1>2, <1>3, <1>10, <2>2 DEF Authorize
  <2>5. pairings'[k] = p => Filed(k)'
    BY <1>3, <1>4, <1>5, <1>7, <2>1 DEF Filed, Yielded, Unyielded
  <2>6. Sound(n)'
    BY <1>3, <1>4, <1>5, <1>10, <2>1, <2>3 DEF Sound, Filed, Critical, Landed
  <2> QED BY <1>1, <1>2, <1>3, <1>5, <1>7, <2>4, <2>5, <2>6, SaveInv DEF IInv, TypeOK
<1>11. CASE IdentityOf[k] \in mapped /\ p.state # "completed"
  <2>1. PICK n \in Memory : n = [req[r] EXCEPT !.at = Resumed(p), !.token = p.token]
    BY <1>1, <1>8, AtWork DEF Memory, Stages, Critical, Resumed
  <2>2. n.at = Resumed(p) /\ n.code = k /\ n.asked = req[r].asked /\ n.token = p.token
    BY <1>1, <1>2, <2>1, AtWork DEF Memory
  <2>3. Becomes(r, n) /\ UNCHANGED <<faults, pairings>>
    BY <1>2, <1>3, <1>11, <2>1 DEF Authorize, NoFault
  <2>4. p.state = "reserved" => p = Holding("reserved", p.token)
    BY <1>3 DEF Entry, Absent, Unreserved, Holding
  <2>5. p.state # "reserved" => p = Unreserved
    BY <1>3, <1>11 DEF Entry
  <2>6. Sound(n)
    BY <1>3, <1>4, <2>2, <2>4, <2>5 DEF Sound, Resumed, Landed
  <2>7. \A c \in Code : Filed(c)'
    BY <1>5, <1>7, <2>3 DEF IInv, Filed, Yielded, Unyielded
  <2>8. Sound(n)'
    BY <1>5, <2>3, <2>6 DEF Sound
  <2> QED BY <1>1, <1>5, <1>7, <2>3, <2>7, <2>8, RequestStep DEF IInv, TypeOK
<1> QED BY <1>9, <1>10, <1>11

LEMMA PersistInv == ASSUME IInv, NEW r \in Request, Persist(r) PROVE IInv'
<1>1. At(r, "persist") /\ req[r].at \in Critical
  BY DEF Persist, At, Critical
<1>2. PICK k \in Code : k = req[r].code
  BY <1>1, AtWork
<1>3. PICK t \in Token : t = req[r].token
  BY <1>1, AtReservation DEF At
<1>4. UNCHANGED <<pairings, expires, mapped, drawn, now, superseded, lapsed, removed, given>>
  BY DEF Persist, observers
<1>5. tokens' \in {tokens, tokens \union {t}}
  BY <1>3 DEF Persist
<1>6. pairings[k] = Holding("reserved", t) /\ pairings[k].token = t
       /\ pairings[k] \notin {Absent, Unreserved} /\ t[1] = k
       /\ expires[k] # 0 /\ req[r].asked <= now /\ expires[k] > req[r].asked
  BY <1>1, <1>2, <1>3, AtReservation, AtWork DEF At, Filed
<1>7. ASSUME NEW c \in Code PROVE Filed(c)'
  <2>1. Filed(c)
    BY DEF IInv
  <2>2. CASE c = k
    BY <1>4, <1>5, <1>6, <2>1, <2>2 DEF Filed, Yielded, Unyielded
  <2>3. CASE c # k
    BY <1>4, <1>5, <1>6, <2>1, <2>3 DEF Filed, Yielded, Unyielded
  <2> QED BY <2>2, <2>3
<1>8. PICK n : n \in Memory /\ Becomes(r, n) /\ n.code = k /\ n.asked = req[r].asked /\ n.token = t
              /\ (n.at = "check" \/ (n.at = "complete" /\ t \in tokens'))
  <2>1. req[r] \in Memory
    BY <1>1, AtWork
  <2>2. CASE tokens' = tokens \union {t} /\ Goto(r, "complete")
    BY <1>2, <1>3, <2>1, <2>2 DEF Goto, Memory, Stages, Critical
  <2>3. CASE Goto(r, "check")
    BY <1>2, <1>3, <2>1, <2>3 DEF Goto, Memory, Stages, Critical
  <2> QED BY <1>3, <2>2, <2>3 DEF Persist
<1>9. Sound(n)'
  BY <1>4, <1>6, <1>8 DEF Sound, Landed
<1>10. tokens' \subseteq Token
  BY <1>5 DEF IInv, TypeOK
<1> QED BY <1>1, <1>4, <1>5, <1>7, <1>8, <1>9, <1>10, RequestStep DEF IInv, TypeOK

LEMMA CheckInv == ASSUME IInv, NEW r \in Request, Check(r) PROVE IInv'
<1>1. At(r, "check") /\ req[r].at \in Critical
  BY DEF Check, At, Critical
<1>2. UNCHANGED <<files, drawn, now, superseded, lapsed, removed, given>>
  BY DEF Check, observers
<1>3. CASE Goto(r, IF req[r].token \in tokens THEN "complete" ELSE "rollback")
  <2> DEFINE label == IF req[r].token \in tokens THEN "complete" ELSE "rollback"
  <2>1. PICK n \in Memory : n = [req[r] EXCEPT !.at = label]
    BY <1>1, AtWork DEF Memory, Stages, Critical
  <2>2. n.at = label /\ n.code = req[r].code /\ n.asked = req[r].asked /\ n.token = req[r].token
    BY <1>1, <2>1, AtWork DEF Memory
  <2>3. Sound(n)
    BY <1>1, <2>2, AtWork, AtReservation DEF Sound, At, Landed, Critical
  <2> QED BY <1>1, <1>2, <1>3, <2>1, <2>3, QuietStep DEF Goto, IInv
<1>4. CASE Becomes(r, Idle)
  BY <1>2, <1>4, EndInv DEF IInv
<1> QED BY <1>3, <1>4 DEF Check, Doubted

LEMMA AnswerInv == ASSUME IInv, NEW r \in Request, Answer(r) \/ Exchange(r) PROVE IInv'
<1>1. req[r] \in Memory /\ Sound(req[r]) /\ req[r].token \in tokens \union removed
  BY DEF Answer, Exchange, At, IInv, TypeOK, Sound, Landed
<1>2. UNCHANGED <<files, drawn, now, superseded, lapsed, removed>>
  BY DEF Answer, Exchange
<1>3. given' \subseteq tokens \union removed
  BY <1>1 DEF Answer, Exchange, IInv
<1>4. CASE Becomes(r, Idle)
  BY <1>2, <1>3, <1>4, EndInv
<1>5. CASE Answer(r) /\ Becomes(r, [req[r] EXCEPT !.at = "granted", !.asked = now])
  <2>1. PICK n \in Memory : n = [req[r] EXCEPT !.at = "granted", !.asked = now]
    BY <1>1 DEF Memory, Stages, IInv, TypeOK
  <2>2. n.at = "granted" /\ n.code = req[r].code /\ n.asked = now /\ n.token = req[r].token
    BY <1>1, <2>1 DEF Memory
  <2>3. now \in Nat
    BY DEF IInv, TypeOK
  <2>4. Sound(n)
    BY <1>1, <1>5, <2>2, <2>3 DEF Sound, Answer, At, Critical
  <2> QED BY <1>2, <1>3, <1>5, <2>1, <2>2, <2>4, QuietStep DEF Critical
<1> QED BY <1>4, <1>5 DEF Answer, Exchange

LEMMA CreateInv == ASSUME IInv, NEW k \in Code, Create(k) PROVE IInv'
<1>1. UNCHANGED <<tokens, mapped, req, drawn, now, changes, lapsed, removed, given>>
       /\ ~Locked /\ expires[k] = 0 /\ Filed(k)
  BY DEF Create, IInv
<1>2. expires' = [expires EXCEPT ![k] = now + Ttl] /\ now \in Nat /\ Ttl \in Nat /\ Ttl # 0
  BY PairingAssumption DEF Create, IInv, TypeOK
<1>3. pairings'[k] = Unreserved /\ Unreserved # Absent
  BY DEF Create, Unreserved, Absent
<1>4. ASSUME NEW c \in Code, c # k
      PROVE  /\ \/ pairings'[c] = pairings[c]
                \/ pairings'[c] = Absent /\ (expires[c] <= now \/ c \in superseded')
             /\ IdentityOf[c] = IdentityOf[k] => pairings'[c] = Absent
  <2>1. CASE c \in Superseding(k)
    <3>1. pairings'[c] = Absent /\ (expires[c] > 0 => c \in superseded')
      BY <1>4, <2>1 DEF Create
    <3> QED BY <1>2, <3>1 DEF IInv, TypeOK
  <2>2. CASE c \notin Superseding(k)
    BY <1>4, <2>2 DEF Create, Live, Superseding
  <2> QED BY <2>1, <2>2
<1>5. superseded \subseteq superseded' /\ superseded' \subseteq Code
  BY DEF Create, Superseding, IInv, TypeOK
<1>6. expires'[k] > now /\ \A c \in Code : c # k => expires'[c] = expires[c]
  BY <1>2 DEF IInv, TypeOK
<1>7. ASSUME NEW c \in Code PROVE Filed(c)'
  <2>1. Filed(c)
    BY DEF IInv
  <2>2. CASE c = k
    <3>1. expires'[k] # 0
      BY <1>2, <1>6
    <3> QED BY <1>1, <1>3, <2>2, <3>1 DEF Filed, Yielded, Unyielded
  <2>3. CASE c # k
    BY <1>1, <1>4, <1>5, <1>6, <2>1, <2>3 DEF Filed, Yielded, Unyielded, Absent, Unreserved
  <2> QED BY <2>2, <2>3
<1>8. ASSUME NEW r \in Request PROVE Sound(req[r])'
  <2>1. Sound(req[r]) /\ req[r].at \notin Critical
    BY <1>1 DEF IInv, Locked
  <2>2. req[r].at # "out" => req[r].code # k
    BY <1>1, <2>1 DEF Sound
  <2> QED BY <1>1, <1>5, <1>6, <2>1, <2>2 DEF Sound, Critical, Landed
<1>9. pairings' \in [Code -> Entry]
  <2>1. Absent \in Entry /\ Unreserved \in Entry
    BY DEF Entry
  <2> QED BY <2>1 DEF Create, Live, IInv, TypeOK
<1>10. \A c, d \in Code :
        pairings'[c] # Absent /\ pairings'[d] # Absent /\ IdentityOf[c] = IdentityOf[d] => c = d
  BY <1>3, <1>4 DEF IInv, TypeOK
<1>11. \A r \in Request : req[r].at \notin Critical
  BY <1>1 DEF Locked
<1>12. expires' \in [Code -> Nat]
  BY <1>2 DEF IInv, TypeOK
<1>13. TypeOK'
  BY <1>1, <1>5, <1>9, <1>10, <1>11, <1>12 DEF IInv, TypeOK, Critical
<1> QED BY <1>1, <1>7, <1>8, <1>13 DEF IInv

LEMMA CrashInv == ASSUME IInv, Crash PROVE IInv'
<1>1. UNCHANGED <<pairings, expires, tokens, mapped, drawn, now, superseded, lapsed, removed, given>>
  BY DEF Crash, files, observers
<1>2. \A r \in Request : req'[r] = Idle
  BY DEF Crash
<1>3. Idle \in Memory /\ Idle.at = "out"
  BY IdleIsSound DEF Idle
<1>4. \A c \in Code : Filed(c)'
  BY <1>1 DEF IInv, Filed, Yielded, Unyielded
<1>5. \A r \in Request : Sound(req[r])'
  BY <1>2, <1>3 DEF Sound, Critical, Landed
<1>6. req' \in [Request -> Memory]
  BY <1>3 DEF Crash
<1>7. TypeOK'
  BY <1>1, <1>2, <1>3, <1>6 DEF IInv, TypeOK, Critical
<1> QED BY <1>1, <1>4, <1>5, <1>7 DEF IInv

LEMMA TickInv == ASSUME IInv, Tick PROVE IInv'
<1>1. UNCHANGED <<pairings, expires, tokens, mapped, req, drawn, superseded, lapsed, removed, given>>
  BY DEF Tick, files, observers
<1>2. now \in Nat /\ now' = now + 1
  BY DEF Tick, IInv, TypeOK
<1>3. ASSUME NEW c \in Code PROVE Filed(c)'
  <2>1. expires[c] <= now => expires[c] <= now'
    BY <1>2 DEF IInv, TypeOK
  <2> QED BY <1>1, <2>1 DEF IInv, Filed, Yielded, Unyielded
<1>4. ASSUME NEW r \in Request PROVE Sound(req[r])'
  <2>1. Sound(req[r]) /\ req[r] \in Memory
    BY DEF IInv, TypeOK
  <2>2. req[r].asked <= now => req[r].asked <= now'
    BY <1>2, <2>1 DEF Memory
  <2>3. req[r].at = "invalid" /\ expires[req[r].code] <= now => expires[req[r].code] <= now'
    BY <1>2, <2>1 DEF Sound, IInv, TypeOK
  <2> QED BY <1>1, <2>1, <2>2, <2>3 DEF Sound
<1>5. TypeOK'
  BY <1>1, <1>2 DEF IInv, TypeOK
<1> QED BY <1>1, <1>3, <1>4, <1>5 DEF IInv

LEMMA RemoveInv == ASSUME IInv, NEW t \in tokens, Remove(t) PROVE IInv'
<1>1. UNCHANGED <<pairings, expires, mapped, req, drawn, now, superseded, lapsed, given>>
  BY DEF Remove
<1>2. tokens' = tokens \ {t} /\ removed' = removed \union {t}
  BY DEF Remove
<1>3. \A c \in Code : Filed(c)'
  BY <1>1, <1>2 DEF IInv, Filed, Yielded, Unyielded
<1>4. \A r \in Request : Sound(req[r])'
  BY <1>1, <1>2 DEF IInv, Sound
<1>5. TypeOK'
  BY <1>1, <1>2 DEF IInv, TypeOK
<1> QED BY <1>1, <1>2, <1>3, <1>4, <1>5 DEF IInv

LEMMA RestInv ==
  ASSUME IInv, (\E i \in Identity : Remap(i)) \/ UNCHANGED vars PROVE IInv'
<1>1. UNCHANGED <<pairings, expires, tokens, req, drawn, now, superseded, lapsed, removed, given>>
  BY DEF Remap, vars, files, observers
<1>2. mapped' \subseteq Identity
  BY DEF Remap, vars, files, IInv, TypeOK
<1>3. \A c \in Code : Filed(c)'
  BY <1>1 DEF IInv, Filed, Yielded, Unyielded
<1>4. \A r \in Request : Sound(req[r])'
  BY <1>1 DEF IInv, Sound
<1>5. TypeOK'
  BY <1>1, <1>2 DEF IInv, TypeOK
<1> QED BY <1>1, <1>3, <1>4, <1>5 DEF IInv

\* The two files and the requests of redeemPairingTransaction agree in every behaviour, as
\* IInv says: what is reserved, stored, completed and remembered is one token per code.
THEOREM Invariance == Spec => []IInv
<1>1. ASSUME IInv, [Next]_vars PROVE IInv'
  <2>1. ASSUME NEW c \in Code, Create(c) PROVE IInv'
    BY <1>1, <2>1, CreateInv
  <2>2. ASSUME NEW c \in Code, NEW r \in Request, Ask(r, c) PROVE IInv'
    BY <1>1, <2>2, AskInv
  <2>3. ASSUME NEW r \in Request, Redeeming(r) PROVE IInv'
    BY <1>1, <2>3, FindInv, FailInv, AuthorizeInv, ReserveInv, PersistInv, CheckInv, RollbackInv,
       CompleteInv, AnswerInv DEF Redeeming
  <2>4. ASSUME NEW t \in tokens, Remove(t) PROVE IInv'
    BY <1>1, <2>4, RemoveInv
  <2>5. CASE Crash \/ Tick
    BY <1>1, <2>5, CrashInv, TickInv
  <2>6. CASE (\E i \in Identity : Remap(i)) \/ UNCHANGED vars
    BY <1>1, <2>6, RestInv
  <2> QED BY <1>1, <2>1, <2>2, <2>3, <2>4, <2>5, <2>6 DEF Next
<1> QED BY <1>1, InitInv, PTL DEF Spec

\* In every behaviour the files and requests have their shape, api-pairings.json has one
\* pairing per identity, and one request at a time works on it, on the token it reserves.
THEOREM TypeCorrect == Spec => []TypeOK
<1>1. IInv => TypeOK
  BY DEF IInv
<1> QED BY <1>1, Invariance, PTL

\* redeemPairingTransaction stores at most one token per code over failed writes, crashes
\* and retries, unless the identity was unmapped between reservation and completion, and
\* no client is given a token that was not stored before.
THEOREM OneToken == Spec => []OneStoredToken
<1>1. ASSUME IInv PROVE OneStoredToken
  <2>1. ASSUME NEW c \in Code \ lapsed PROVE Cardinality(Stored(c)) <= 1
    <3>1. CASE Stored(c) = {}
      BY <3>1, FS_EmptySet
    <3>2. CASE Stored(c) # {}
      <4>1. PICK t : t \in Stored(c)
        BY <3>2
      <4>2. Stored(c) = {t}
        BY <1>1, <4>1 DEF IInv, Filed, Yielded, Stored
      <4>3. Cardinality({t}) = 1
        BY FS_Singleton
      <4> QED BY <4>2, <4>3
    <3> QED BY <3>1, <3>2
  <2> QED BY <1>1, <2>1 DEF IInv, OneStoredToken
<1> QED BY <1>1, Invariance, PTL

\* A client is refused a code as invalid only when it has expired or was superseded: no
\* failed write, rollback or crash of redeemPairingTransaction takes a code from the file.
THEOREM NotBurnt == Spec => []CodeIsNotBurnt
<1>1. IInv => CodeIsNotBurnt
  BY DEF IInv, Sound, CodeIsNotBurnt, At
<1> QED BY <1>1, Invariance, PTL
=============================================================================
