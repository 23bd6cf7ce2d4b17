------------------------------ MODULE Pairing ------------------------------
(***************************************************************************)
(* How a pairing code becomes a device token (src/src/lib/pairing/         *)
(* pairing-store.ts, src/src/surfaces/api/auth/{pairing,tokens,oauth}.ts). *)
(*                                                                         *)
(* redeemPairingTransaction writes two files under the lock of the first:  *)
(* it reserves a token in the pairings file, appends it to the tokens      *)
(* file, and completes the reservation.  Every write may fail before or    *)
(* after it took effect, and the process may die between any two.  Clients *)
(* ask again with the same code as often as they like; a lost response is  *)
(* an answer nobody makes use of.                                          *)
(*                                                                         *)
(* Discord issues codes, an operator edits humans.json and the tokens      *)
(* file.  A request of an Agent comes through OAuthRoutes, where the token *)
(* waits in memory for the agent to exchange its authorization code.       *)
(***************************************************************************)
EXTENDS Integers, FiniteSets

CONSTANTS
  Identity,     \* members of the household
  Code,         \* pairing codes that can be drawn
  IdentityOf,   \* whom a code is issued to
  Request,      \* requests the API process may handle at once
  Agent,        \* those that come from the sign-in page of an MCP agent
  Ttl,          \* PAIRING_TTL_MS
  GrantTtl,     \* AUTHORIZATION_CODE_TTL_MS
  MaxTime,      \* bound on the clock
  MaxDraws,     \* bound on the tokens drawn for one code
  MaxChanges,   \* bound on the operator's edits
  MaxFaults     \* bound on failed calls and crashes

ASSUME PairingAssumption ==
  /\ IdentityOf \in [Code -> Identity] /\ Agent \subseteq Request
  /\ Ttl \in Nat \ {0} /\ GrantTtl \in Nat \ {0}
  /\ MaxTime \in Nat /\ MaxDraws \in Nat /\ MaxChanges \in Nat /\ MaxFaults \in Nat

VARIABLES
  pairings,     \* api-pairings.json: what it says of a code
  expires,      \* expiresAtMs of an issued code; 0 before it is issued
  tokens,       \* the tokens file: the entries of enrolled devices
  mapped,       \* humans.json: identities that map to a platform account
  req,          \* requests and the grants they leave behind
  drawn,        \* how many tokens were drawn for a code
  now,          \* the clock
  changes, faults,
  \* observers
  superseded,   \* codes that a newer one has replaced
  lapsed,       \* codes whose reservation was dropped, its token being stored
  removed,      \* tokens the operator has removed
  given         \* tokens handed to a client

files == <<pairings, expires, tokens, mapped>>
observers == <<superseded, lapsed, removed, given>>
vars == <<files, req, drawn, now, changes, faults, observers>>

\* The n-th token drawn for a code.
Token == Code \X (1 .. MaxDraws)
NoToken == <<>>

Absent == [state |-> "absent", token |-> NoToken]
Unreserved == [state |-> "issued", token |-> NoToken]
Holding(state, token) == [state |-> state, token |-> token]

Idle == [at |-> "out", code |-> NoToken, asked |-> 0, token |-> NoToken]
At(r, label) == req[r].at = label

Init ==
  /\ pairings = [c \in Code |-> Absent]
  /\ expires = [c \in Code |-> 0]
  /\ tokens = {} /\ mapped = Identity
  /\ req = [r \in Request |-> Idle]
  /\ drawn = [c \in Code |-> 0]
  /\ now = 1 /\ changes = 0 /\ faults = 0
  /\ superseded = {} /\ lapsed = {} /\ removed = {} /\ given = {}

Fault == faults < MaxFaults /\ faults' = faults + 1
NoFault == UNCHANGED faults

\* The stages during which a request holds the lock of the pairings file.
Critical == {"authorize", "reserve", "persist", "check", "rollback", "complete"}
Locked == \E r \in Request : req[r].at \in Critical

\* The pairings that are not expired at time t.
Live(t) == [c \in Code |-> IF expires[c] <= t THEN Absent ELSE pairings[c]]

Superseding_Not(c) == {}

\* The codes a new one for the same identity replaces.
Superseding(c) == {d \in Code \ {c} : IdentityOf[d] = IdentityOf[c]}

(* createPairing, called by the Discord bot for a member it knows.  If it  *)
(* throws after its write nobody is shown the code, and nobody asks.       *)
Create(c) ==
  /\ ~Locked /\ expires[c] = 0 /\ IdentityOf[c] \in mapped
  /\ pairings' = [d \in Code |-> IF d = c THEN Unreserved
                                 ELSE IF d \in Superseding(c) THEN Absent ELSE Live(now)[d]]
  /\ expires' = [expires EXCEPT ![c] = now + Ttl]
  /\ superseded' = superseded \union {d \in Superseding(c) : expires[d] > 0}
  /\ NoFault /\ UNCHANGED <<tokens, mapped, req, drawn, now, changes, lapsed, removed, given>>

(***************************************************************************)
(* Requests.                                                               *)
(***************************************************************************)

Becomes(r, memory) == req' = [req EXCEPT ![r] = memory]
Goto(r, label) == Becomes(r, [req[r] EXCEPT !.at = label])

\* The entries a request writes: it has read the clock before it waited.
Saved(r, entry) == [Live(req[r].asked) EXCEPT ![req[r].code] = entry]

\* writePairings, then memory; or a write that throws, with effect or
\* without, and ends the request.
Save(r, entries, memory) ==
  \/ pairings' = entries /\ Becomes(r, memory) /\ NoFault
  \/ pairings' \in {pairings, entries} /\ Becomes(r, Idle) /\ Fault

(* A client asks with a code a member was shown; what was never issued is  *)
(* refused at once and changes nothing.                                    *)
Ask(r, c) ==
  /\ At(r, "out") /\ expires[c] # 0
  /\ Becomes(r, [at |-> "waiting", code |-> c, asked |-> now, token |-> NoToken])
  /\ NoFault /\ UNCHANGED <<files, drawn, now, changes, observers>>

(* The lock is taken and the file read: is the code in it?                 *)
Find(r) ==
  /\ At(r, "waiting") /\ ~Locked
  /\ IF Live(req[r].asked)[req[r].code] = Absent
     THEN Save(r, Live(req[r].asked), [req[r] EXCEPT !.at = "invalid"])
     ELSE Goto(r, "authorize") /\ NoFault /\ UNCHANGED pairings
  /\ UNCHANGED <<expires, tokens, mapped, drawn, now, changes, observers>>

(* The lock cannot be had in time, or a file not be read.                  *)
Fail(r) ==
  /\ req[r].at \in {"waiting", "authorize"}
  /\ Becomes(r, Idle)
  /\ Fault /\ UNCHANGED <<files, drawn, now, changes, observers>>

\* A reservation in the file is taken up where it was left.
Resumed(entry) == IF entry.state = "reserved" THEN "persist" ELSE "reserve"

(* humans.json is loaded.                                                  *)
Authorize(r) ==
  LET code == req[r].code
      entry == pairings[code]
  IN
  /\ At(r, "authorize")
  /\ IF IdentityOf[code] \notin mapped
     THEN Save(r, Saved(r, IF entry.state = "reserved" THEN Unreserved ELSE entry),
                  [req[r] EXCEPT !.at = "rejected"])
     ELSE IF entry.state = "completed"
     THEN Save(r, Saved(r, entry), [req[r] EXCEPT !.at = "answer", !.token = entry.token])
     ELSE /\ Becomes(r, [req[r] EXCEPT !.at = Resumed(entry), !.token = entry.token])
          /\ NoFault /\ UNCHANGED pairings
  /\ lapsed' = lapsed \union
       {c \in {code} : entry.token \in tokens /\ pairings'[code] = Unreserved}
  /\ UNCHANGED <<expires, tokens, mapped, drawn, now, changes, superseded, removed, given>>

Reserve(r) ==
  LET code == req[r].code
      token == <<code, drawn[code] + 1>>
  IN
  /\ At(r, "reserve") /\ drawn[code] < MaxDraws
  /\ drawn' = [drawn EXCEPT ![code] = @ + 1]
  /\ Save(r, Saved(r, Holding("reserved", token)), [req[r] EXCEPT !.at = "persist", !.token = token])
  /\ UNCHANGED <<expires, tokens, mapped, now, changes, observers>>

(* appendApiTokenEntry adds the entry unless it is there; it may throw     *)
(* before or after the file is in place.                                   *)
Persist(r) ==
  LET added == tokens \union {req[r].token} IN
  /\ At(r, "persist")
  /\ \/ tokens' = added /\ Goto(r, "complete") /\ NoFault
     \/ tokens' \in {tokens, added} /\ Goto(r, "check") /\ Fault
  /\ UNCHANGED <<pairings, expires, mapped, drawn, now, changes, observers>>

Doubted_MeansAbsent(r) == Goto(r, "rollback")

\* The tokens file cannot be read: the reservation stays, for a retry.
Doubted(r) == Becomes(r, Idle)

(* isPersisted, after appendApiTokenEntry has thrown.                      *)
Check(r) ==
  /\ At(r, "check")
  /\ \/ Goto(r, IF req[r].token \in tokens THEN "complete" ELSE "rollback") /\ NoFault
     \/ Doubted(r) /\ Fault
  /\ UNCHANGED <<files, drawn, now, changes, observers>>

Released_Dropped == Absent

\* withoutRedemption
Released == Unreserved

(* The token is known to be missing: the code is free again, and the       *)
(* request fails.                                                          *)
Rollback(r) ==
  /\ At(r, "rollback")
  /\ Save(r, Saved(r, Released), Idle)
  /\ UNCHANGED <<expires, tokens, mapped, drawn, now, changes, observers>>

Complete(r) ==
  /\ At(r, "complete")
  /\ Save(r, Saved(r, Holding("completed", req[r].token)), [req[r] EXCEPT !.at = "answer"])
  /\ UNCHANGED <<expires, tokens, mapped, drawn, now, changes, observers>>

(* 200 to a device; an agent is redirected, and its token kept for it.     *)
Answer(r) ==
  /\ At(r, "answer")
  /\ IF r \in Agent
     THEN Becomes(r, [req[r] EXCEPT !.at = "granted", !.asked = now]) /\ UNCHANGED given
     ELSE Becomes(r, Idle) /\ given' = given \union {req[r].token}
  /\ NoFault /\ UNCHANGED <<files, drawn, now, changes, superseded, lapsed, removed>>

(* 401 or 403.                                                             *)
Refuse(r) ==
  /\ req[r].at \in {"invalid", "rejected"}
  /\ Becomes(r, Idle)
  /\ NoFault /\ UNCHANGED <<files, drawn, now, changes, observers>>

(* POST /oauth/token: the first attempt spends the grant, and gets the     *)
(* token if it comes in time and matches.                                  *)
Exchange(r) ==
  /\ At(r, "granted")
  /\ Becomes(r, Idle)
  /\ \/ now < req[r].asked + GrantTtl /\ given' = given \union {req[r].token}
     \/ UNCHANGED given
  /\ NoFault /\ UNCHANGED <<files, drawn, now, changes, superseded, lapsed, removed>>

(***************************************************************************)
(* The world around.                                                       *)
(***************************************************************************)

(* The API process dies and is started again: requests and grants are gone.*)
Crash ==
  /\ \E r \in Request : ~At(r, "out")
  /\ req' = [r \in Request |-> Idle]
  /\ Fault /\ UNCHANGED <<files, drawn, now, changes, observers>>

Change == changes < MaxChanges /\ changes' = changes + 1

(* The operator unmaps a member, or maps one again.                        *)
Remap(i) ==
  /\ Change
  /\ mapped' = IF i \in mapped THEN mapped \ {i} ELSE mapped \union {i}
  /\ NoFault /\ UNCHANGED <<pairings, expires, tokens, req, drawn, now, observers>>

(* The operator removes a token.                                           *)
Remove(t) ==
  /\ t \in tokens /\ Change
  /\ tokens' = tokens \ {t} /\ removed' = removed \union {t}
  /\ NoFault /\ UNCHANGED <<pairings, expires, mapped, req, drawn, now, superseded, lapsed, given>>

Tick ==
  /\ now < MaxTime /\ now' = now + 1
  /\ NoFault /\ UNCHANGED <<files, req, drawn, changes, observers>>

Redeeming(r) ==
  \/ Find(r) \/ Fail(r) \/ Authorize(r) \/ Reserve(r) \/ Persist(r) \/ Check(r)
  \/ Rollback(r) \/ Complete(r) \/ Answer(r) \/ Refuse(r) \/ Exchange(r)

Next ==
  \/ \E c \in Code : Create(c) \/ \E r \in Request : Ask(r, c)
  \/ \E r \in Request : Redeeming(r)
  \/ Crash \/ Tick
  \/ \E i \in Identity : Remap(i)
  \/ \E t \in tokens : Remove(t)

Spec == Init /\ [][Next]_vars

(***************************************************************************)
(* Properties.                                                             *)
(***************************************************************************)

Entry == {Absent, Unreserved} \union
         [state : {"reserved", "completed"}, token : Token]

Stages == Critical \union {"out", "waiting", "invalid", "rejected", "answer", "granted"}

Memory == [at : Stages, code : Code \union {NoToken}, asked : Nat, token : Token \union {NoToken}]

(* The shape of the state.  The file has one pairing per identity, one     *)
(* request at a time works on it, and holds the token the file reserves.   *)
TypeOK ==
  /\ pairings \in [Code -> Entry]
  /\ expires \in [Code -> Nat] /\ now \in Nat
  /\ tokens \subseteq Token /\ mapped \subseteq Identity
  /\ req \in [Request -> Memory]
  /\ drawn \in [Code -> 0 .. MaxDraws]
  /\ superseded \subseteq Code /\ lapsed \subseteq Code
  /\ removed \subseteq Token /\ given \subseteq Token
  /\ \A c, d \in Code :
       pairings[c] # Absent /\ pairings[d] # Absent /\ IdentityOf[c] = IdentityOf[d] => c = d
  /\ \A r, s \in Request : req[r].at \in Critical /\ req[s].at \in Critical => r = s
  /\ \A r \in Request : req[r].at \in {"persist", "check", "rollback", "complete"} =>
       pairings[req[r].code] = Holding("reserved", req[r].token)

\* The tokens of a code that are on file.
Stored(c) == {t \in tokens : t[1] = c}

(* "Concurrent requests therefore persist at most one token" (docs/        *)
(* developers/api-surface.md:120-121), over failed writes, crashes between *)
(* the two files and retries, and what a client is given was stored first: *)
(* only an identity that is unmapped between the two halves of a           *)
(* redemption loses track of the token its code has already yielded.       *)
OneStoredToken ==
  /\ \A c \in Code \ lapsed : Cardinality(Stored(c)) <= 1
  /\ given \subseteq tokens \union removed

(* "leaving the code redeemable" (docs/developers/api-surface.md:116): a   *)
(* code is refused as unknown only if it has expired or was superseded,    *)
(* whatever failed or died while it was being redeemed.                    *)
CodeIsNotBurnt ==
  \A r \in Request : At(r, "invalid") =>
    expires[req[r].code] <= now \/ req[r].code \in superseded
=============================================================================
