-------------------------- MODULE DeviceCalls_proof --------------------------
(****************************************************************************)
(* The properties of DeviceCalls for any number of calls, links and faults. *)
(* The inductive invariant has four parts: Types; Tables (one open link at  *)
(* most, which is the one in the map, and pending calls are exactly those   *)
(* in its table); Aged (a load asked for when the token was gone finds it   *)
(* gone); and Shut (once the removal of the token has been reported, an     *)
(* open link has neither a load under way that could still find it listed,  *)
(* nor a call with an authorization in hand).  The desktop's limits rest on *)
(* DeskOK besides: a wire carries events of calls sent on its own link, and *)
(* what was never sent is unknown to the desktop.                           *)
(****************************************************************************)
EXTENDS DeviceCalls, FiniteSetTheorems, SequenceTheorems, TLAPS

OnItsWay == {"authorizing", "allowed", "denied"}

Tables(lk, cl, cur) ==
    /\ \A l \in Links : lk[l].server = "open" <=> cur = l
    /\ \A l \in Links : \A c \in lk[l].pending :
          cl[c].at = "pending" /\ cl[c].link = l /\ cur = l
    /\ \A c \in Calls : cl[c].at = "pending" =>
          cl[c].link \in Links /\ c \in lk[cl[c].link].pending
    /\ \A c \in Calls : cl[c].at \in OnItsWay =>
          cl[c].link \in Links /\ lk[cl[c].link].server \in {"open", "closed"}
    /\ \A l \in Links : Cardinality(lk[l].pending) <= MaxPending

\* What was asked for when the token was gone finds it gone; a link under
\* verification has asked.
AgedLinks(lk) ==
    \A l \in Links : /\ lk[l].auth = "gone" => file = "gone"
                     /\ lk[l].server = "verifying" => lk[l].auth # "none"

Aged(lk, po) ==
    /\ AgedLinks(lk)
    /\ \A c \in Calls : po[c] = "gone" => file = "gone"

Shut(lk, cl) ==
    seen =>
      /\ file = "gone"
      /\ \A l \in Links : lk[l].server = "open" => lk[l].auth # "listed"
      /\ \A c \in Calls : cl[c].at = "allowed" => lk[cl[c].link].server # "open"

IInv == Types /\ Tables(link, call, current) /\ Aged(link, post) /\ Shut(link, call)

----------------------------------------------------------------------------
(* What the helpers do. *)

LEMMA LinkIsNotNoLink == NoLink \notin Links
BY DeviceAssumption DEF NoLink, Links

LEMMA FaultType ==
    ASSUME faults \in 0 .. MaxFaults, NEW b, FaultIf(b) \/ Fault \/ UNCHANGED faults
    PROVE  faults' \in 0 .. MaxFaults
BY DeviceAssumption DEF FaultIf, Fault

LEMMA ClosedType ==
    ASSUME NEW r \in LinkRecords
    PROVE  /\ Closed(r) \in LinkRecords
           /\ Closed(r).server = "closed"
           /\ Closed(r).pending = {}
           /\ Closed(r).auth = r.auth
BY DEF Closed, LinkRecords

LEMMA WrittenType ==
    ASSUME NEW r \in LinkRecords, NEW events \in Seq(Events), NEW full \in BOOLEAN
    PROVE  /\ Written(r, events, full) \in LinkRecords
           /\ Written(r, events, full).server = r.server
           /\ Written(r, events, full).pending = r.pending
           /\ Written(r, events, full).auth = r.auth
<1>1. r.wire \o events \in Seq(Events)
  BY DEF LinkRecords
<1> QED BY <1>1 DEF Written, LinkRecords

LEMMA AskedType ==
    ASSUME NEW r \in LinkRecords, file \in Files
    PROVE  /\ Asked(r) \in LinkRecords
           /\ Asked(r).server = r.server
           /\ Asked(r).pending = r.pending
           /\ Asked(r).auth = IF r.auth = "none" THEN file ELSE r.auth
BY DEF Asked, LinkRecords, Files

LEMMA AnsweredEffect ==
    ASSUME NEW S, NEW cs \in [Calls -> CallRecords]
    PROVE  /\ Answered(S, cs) \in [Calls -> CallRecords]
           /\ \A c \in Calls : Answered(S, cs)[c].link = cs[c].link
           /\ \A c \in Calls : c \in S => Answered(S, cs)[c].at = "answered"
           /\ \A c \in Calls : c \notin S => Answered(S, cs)[c] = cs[c]
BY DEF Answered, CallRecords

Torn(S, ls, cs) ==
    /\ link' \in [Links -> LinkRecords]
    /\ call' \in [Calls -> CallRecords]
    /\ current' \in Links \cup {NoLink}
    /\ \A l \in Links : l \in S /\ ls[l].server = "open" =>
         /\ link'[l].server = "closed"
         /\ link'[l].pending = {}
         /\ link'[l].auth = ls[l].auth
         /\ current' # l
    /\ \A l \in Links : ~(l \in S /\ ls[l].server = "open") => link'[l] = ls[l]
    /\ current' \in {current, NoLink}
    /\ \A l \in Links : ~(l \in S /\ ls[l].server = "open") /\ current = l => current' = l
    /\ \A c \in Calls : call'[c].link = cs[c].link
    /\ \A c \in Calls : call'[c].at \in {cs[c].at, "answered"}
    /\ \A c \in Calls :
         (\E l \in Links : l \in S /\ ls[l].server = "open" /\ c \in ls[l].pending)
           => call'[c].at = "answered"
    /\ \A c \in Calls :
         ~(\E l \in Links : l \in S /\ ls[l].server = "open" /\ c \in ls[l].pending)
           => call'[c] = cs[c]

LEMMA TeardownEffect ==
    ASSUME NEW S \in SUBSET Links, NEW ls \in [Links -> LinkRecords],
           NEW cs \in [Calls -> CallRecords], current \in Links \cup {NoLink},
           Teardown(S, ls, cs)
    PROVE  Torn(S, ls, cs)
<1> DEFINE torn == {l \in S : ls[l].server = "open"}
           lost == UNION {ls[l].pending : l \in torn}
<1>1. /\ link' = [l \in Links |-> IF l \in torn THEN Closed(ls[l]) ELSE ls[l]]
      /\ call' = Answered(lost, cs)
      /\ current' = IF current \in torn THEN NoLink ELSE current
  BY DEF Teardown
<1>2. \A l \in Links : l \in torn <=> l \in S /\ ls[l].server = "open"
  OBVIOUS
<1> HIDE DEF torn
<1>3. \A l \in Links : /\ Closed(ls[l]) \in LinkRecords
                       /\ Closed(ls[l]).server = "closed"
                       /\ Closed(ls[l]).pending = {}
                       /\ Closed(ls[l]).auth = ls[l].auth
  BY ClosedType
<1>4. /\ Answered(lost, cs) \in [Calls -> CallRecords]
      /\ \A c \in Calls : Answered(lost, cs)[c].link = cs[c].link
      /\ \A c \in Calls : c \in lost => Answered(lost, cs)[c].at = "answered"
      /\ \A c \in Calls : c \notin lost => Answered(lost, cs)[c] = cs[c]
  <2> HIDE DEF lost
  <2> QED BY AnsweredEffect
<1>5. \A c \in Calls : c \in lost <=>
        \E l \in Links : l \in S /\ ls[l].server = "open" /\ c \in ls[l].pending
  BY <1>2 DEF torn
<1> HIDE DEF lost
<1>6. /\ link' \in [Links -> LinkRecords]
      /\ \A l \in Links : l \in torn => /\ link'[l].server = "closed"
                                       /\ link'[l].pending = {}
                                       /\ link'[l].auth = ls[l].auth
      /\ \A l \in Links : l \notin torn => link'[l] = ls[l]
  BY <1>1, <1>3
<1>7. /\ current' \in {current, NoLink}
      /\ current' \in Links \cup {NoLink}
      /\ \A l \in Links : l \in torn => current' # l
      /\ \A l \in Links : l \notin torn /\ current = l => current' = l
  BY <1>1, LinkIsNotNoLink
<1>8. /\ call' \in [Calls -> CallRecords]
      /\ \A c \in Calls : call'[c].link = cs[c].link
      /\ \A c \in Calls : call'[c].at \in {cs[c].at, "answered"}
      /\ \A c \in Calls : c \in lost => call'[c].at = "answered"
      /\ \A c \in Calls : c \notin lost => call'[c] = cs[c]
  BY <1>1, <1>4
<1>9. /\ link' \in [Links -> LinkRecords]
      /\ \A l \in Links : l \in S /\ ls[l].server = "open" =>
                /\ link'[l].server = "closed"
                /\ link'[l].pending = {}
                /\ link'[l].auth = ls[l].auth
                /\ current' # l
      /\ \A l \in Links : ~(l \in S /\ ls[l].server = "open") => link'[l] = ls[l]
      /\ \A l \in Links : ~(l \in S /\ ls[l].server = "open") /\ current = l => current' = l
  BY <1>2, <1>6, <1>7
<1>10. /\ \A c \in Calls :
            (\E l \in Links : l \in S /\ ls[l].server = "open" /\ c \in ls[l].pending)
                  => call'[c].at = "answered"
       /\ \A c \in Calls :
            ~(\E l \in Links : l \in S /\ ls[l].server = "open" /\ c \in ls[l].pending)
                  => call'[c] = cs[c]
  BY <1>5, <1>8
<1> QED BY <1>7, <1>8, <1>9, <1>10 DEF Torn

\* Tearing links down keeps the tables in order.
LEMMA TeardownTables ==
    ASSUME NEW S \in SUBSET Links, NEW ls \in [Links -> LinkRecords],
           NEW cs \in [Calls -> CallRecords], current \in Links \cup {NoLink},
           Tables(ls, cs, current), Teardown(S, ls, cs)
    PROVE  Tables(link', call', current')
<1>0. Torn(S, ls, cs)
  BY TeardownEffect
<1>1. \A l \in Links : link'[l].server = "open" <=> current' = l
  BY <1>0, LinkIsNotNoLink DEF Torn, Tables
<1>2. \A l \in Links : \A c \in link'[l].pending :
          call'[c].at = "pending" /\ call'[c].link = l /\ current' = l
  BY <1>0 DEF Torn, Tables
<1>3. \A c \in Calls : call'[c].at = "pending" =>
          call'[c].link \in Links /\ c \in link'[call'[c].link].pending
  BY <1>0 DEF Torn, Tables
<1>4. \A c \in Calls : call'[c].at \in OnItsWay =>
          call'[c].link \in Links /\ link'[call'[c].link].server \in {"open", "closed"}
  BY <1>0 DEF Torn, Tables, OnItsWay
<1>5. \A l \in Links : Cardinality(link'[l].pending) <= MaxPending
  <2>1. Cardinality({}) <= MaxPending
    BY FS_EmptySet, DeviceAssumption
  <2> QED BY <1>0, <2>1 DEF Torn, Tables
<1> QED BY <1>1, <1>2, <1>3, <1>4, <1>5 DEF Tables

\* Tearing links down disturbs no record of what was asked and seen.
LEMMA TeardownAged ==
    ASSUME NEW S \in SUBSET Links, NEW ls \in [Links -> LinkRecords],
           NEW cs \in [Calls -> CallRecords], Torn(S, ls, cs),
           Aged(ls, post)
    PROVE  AgedLinks(link')
BY DEF Torn, Aged, AgedLinks

\* After a teardown, Shut holds if it did, or if every link was torn down and
\* the token is gone.
LEMMA TeardownShut ==
    ASSUME NEW S \in SUBSET Links, NEW ls \in [Links -> LinkRecords],
           NEW cs \in [Calls -> CallRecords], Torn(S, ls, cs),
           Tables(link', call', current'),
           file' = file,
           \/ Shut(ls, cs) /\ seen' = seen
           \/ S = Links /\ (seen' => file = "gone")
    PROVE  Shut(link, call)'
<1>1. CASE Shut(ls, cs) /\ seen' = seen
  BY <1>1 DEF Torn, Shut, Tables, OnItsWay
<1>2. CASE S = Links /\ (seen' => file = "gone")
  <2>1. \A l \in Links : link'[l].server # "open"
    BY <1>2 DEF Torn
  <2> QED BY <1>2, <2>1 DEF Shut, Tables, OnItsWay
<1> QED BY <1>1, <1>2

----------------------------------------------------------------------------
(* Steps that leave the tables alone. *)

SameTables ==
    /\ \A l \in Links : /\ link'[l].server = link[l].server
                        /\ link'[l].pending = link[l].pending
                        /\ link'[l].auth = link[l].auth
    /\ \A c \in Calls : post'[c] \in {post[c], "none", "verified", file}
    /\ UNCHANGED <<file, current, call, seen>>

LEMMA Frame ==
    ASSUME IInv, Types', SameTables
    PROVE  IInv'
<1>1. Tables(link, call, current)'
  BY DEF IInv, Types, Tables, SameTables, OnItsWay
<1>2. Aged(link, post)'
  BY DEF IInv, Types, Aged, AgedLinks, SameTables
<1>3. Shut(link, call)'
  BY DEF IInv, Types, Tables, Shut, SameTables, OnItsWay
<1> QED BY <1>1, <1>2, <1>3 DEF IInv

\* A run record under a new position.
LEMMA RunType ==
    ASSUME NEW r \in RunRecords
    PROVE  /\ Stopped(r) \in RunRecords
           /\ Idle \in RunRecords
           /\ \A at \in {"none", "running", "stopping", "waiting", "posting"}, h \in BOOLEAN :
                [at |-> at, held |-> h] \in RunRecords
BY DEF Stopped, Idle, RunRecords

LEMMA ReportEffect ==
    ASSUME Types, NEW c \in Calls, NEW h \in BOOLEAN, Report(c, h)
    PROVE  /\ run' \in [Calls -> RunRecords]
           /\ post' \in [Calls -> {"none", "verified"} \cup Files]
           /\ \A d \in Calls : post'[d] \in {post[d], file}
<1>1. [at |-> "posting", held |-> h] \in RunRecords /\ [at |-> "waiting", held |-> h] \in RunRecords
  BY DEF RunRecords
<1> QED BY <1>1 DEF Report, Types

LEMMA RepliedType ==
    ASSUME Types, NEW c \in Calls
    PROVE  Replied(c) \in [Calls -> RunRecords]
BY DEF Replied, Idle, RunRecords, Types

LEMMA DeskSteps ==
    ASSUME IInv, NEW l \in Links, SeeEnd(l) \/ IdleTimeout(l) \/ StopLink(l)
    PROVE  IInv'
<1>1. Settle(l) /\ faults' \in 0 .. MaxFaults
  BY FaultType DEF SeeEnd, IdleTimeout, StopLink, IInv, Types
<1>2. run' \in [Calls -> RunRecords]
  BY <1>1, RunType DEF Settle, IInv, Types
<1>3. /\ link' \in [Links -> LinkRecords]
      /\ \A k \in Links : /\ link'[k].server = link[k].server
                          /\ link'[k].pending = link[k].pending
                          /\ link'[k].auth = link[k].auth
  <2>1. [link[l] EXCEPT !.desk = FALSE, !.wire = <<>>, !.net = "cut"] \in LinkRecords
    <3>1. link[l] \in LinkRecords /\ <<>> \in Seq(Events)
      BY DEF IInv, Types
    <3> QED BY <3>1 DEF LinkRecords
  <2>2. link' = [link EXCEPT ![l] =
                   [link[l] EXCEPT !.desk = FALSE, !.wire = <<>>, !.net = "cut"]]
    BY <1>1 DEF Settle, IInv, Types
  <2>3. link \in [Links -> LinkRecords]
    BY DEF IInv, Types
  <2> QED BY <2>1, <2>2, <2>3
<1>4. Types' /\ SameTables
  BY <1>1, <1>2, <1>3 DEF Settle, IInv, Types, SameTables
<1> QED BY <1>4, Frame

LEMMA ReceiveStep ==
    ASSUME IInv, NEW l \in Links, Receive(l)
    PROVE  IInv'
<1> DEFINE e == Head(link[l].wire)
<1>1. e \in Events /\ Tail(link[l].wire) \in Seq(Events)
  BY DEF Receive, IInv, Types, LinkRecords
<1>2. e.of \in Calls
  BY <1>1 DEF Events
<1>3. /\ run' \in [Calls -> RunRecords]
      /\ post' \in [Calls -> {"none", "verified"} \cup Files]
      /\ \A d \in Calls : post'[d] \in {post[d], file}
  <2>1. CASE Report(e.of, FALSE)
    BY <1>2, <2>1, ReportEffect DEF IInv
  <2>2. CASE ~Report(e.of, FALSE)
    <3> HIDE DEF e
    <3>1. /\ run' = [run EXCEPT ![e.of] =
                     IF e.kind = "call" THEN [at |-> "running", held |-> TRUE]
                     ELSE IF @.held THEN Stopped(@) ELSE @]
          /\ post' = post
      BY <2>2 DEF Receive, e
    <3>2. [at |-> "running", held |-> TRUE] \in RunRecords /\ Stopped(run[e.of]) \in RunRecords
      BY <1>2, RunType DEF IInv, Types, RunRecords
    <3> QED BY <1>2, <3>1, <3>2 DEF IInv, Types
  <2> QED BY <2>1, <2>2
<1>4. /\ link' \in [Links -> LinkRecords]
      /\ \A k \in Links : /\ link'[k].server = link[k].server
                          /\ link'[k].pending = link[k].pending
                          /\ link'[k].auth = link[k].auth
  <2>1. link[l] \in LinkRecords /\ link \in [Links -> LinkRecords]
    BY DEF IInv, Types
  <2>2. [link[l] EXCEPT !.wire = Tail(@)] \in LinkRecords
    BY <1>1, <2>1 DEF LinkRecords
  <2>3. link' = [link EXCEPT ![l] = [link[l] EXCEPT !.wire = Tail(@)]]
    BY DEF Receive
  <2> QED BY <2>1, <2>2, <2>3
<1>5. Types' /\ SameTables
  BY <1>3, <1>4 DEF Receive, IInv, Types, SameTables
<1> QED BY <1>5, Frame

LEMMA RunSteps ==
    ASSUME IInv, NEW c \in Calls, RunStep(c)
    PROVE  IInv'
<1>1. CASE FinishTool(c) \/ StartPost(c)
  <2>1. \E h \in BOOLEAN : Report(c, h)
    BY <1>1 DEF FinishTool, StartPost, IInv, Types, RunRecords
  <2>2. Types' /\ SameTables
    BY <1>1, <2>1, ReportEffect DEF FinishTool, StartPost, IInv, Types, SameTables
  <2> QED BY <2>2, Frame
<1>2. CASE StopTool(c) \/ DropResult(c)
  <2>1. Idle \in RunRecords
    BY DEF Idle, RunRecords
  <2>2. Types' /\ SameTables
    BY <1>2, <2>1 DEF StopTool, DropResult, IInv, Types, SameTables
  <2> QED BY <2>2, Frame
<1> QED BY <1>1, <1>2 DEF RunStep

LEMMA EnvironmentSteps ==
    ASSUME IInv,
           \/ Relay
           \/ \E l \in Links : Drain(l) \/ Cut(l)
           \/ \E c \in Calls : LosePost(c)
    PROVE  IInv'
<1>1. faults' \in 0 .. MaxFaults
  BY FaultType DEF Relay, Drain, Cut, LosePost, IInv, Types
<1>2. CASE Relay
  <2>1. current \in Links
    BY <1>2 DEF Relay, IInv, Types
  <2>2. Types' /\ SameTables
    BY <1>1, <1>2, <2>1 DEF Relay, IInv, Types, SameTables, LinkRecords
  <2> QED BY <2>2, Frame
<1>3. ASSUME NEW l \in Links, Drain(l) \/ Cut(l)
      PROVE  IInv'
  <2>1. link[l] \in LinkRecords /\ link \in [Links -> LinkRecords] /\ <<>> \in Seq(Events)
    BY DEF IInv, Types
  <2>2. /\ [link[l] EXCEPT !.blocked = FALSE] \in LinkRecords
        /\ [link[l] EXCEPT !.net = "cut", !.wire = <<>>] \in LinkRecords
    BY <2>1 DEF LinkRecords
  <2>3. \/ link' = [link EXCEPT ![l] = [link[l] EXCEPT !.blocked = FALSE]]
        \/ link' = [link EXCEPT ![l] = [link[l] EXCEPT !.net = "cut", !.wire = <<>>]]
    BY <1>3, <2>1 DEF Drain, Cut
  <2>4. /\ link' \in [Links -> LinkRecords]
        /\ \A k \in Links : /\ link'[k].server = link[k].server
                            /\ link'[k].pending = link[k].pending
                            /\ link'[k].auth = link[k].auth
    <3>1. CASE link' = [link EXCEPT ![l] = [link[l] EXCEPT !.blocked = FALSE]]
      BY <2>1, <2>2, <3>1
    <3>2. CASE link' = [link EXCEPT ![l] = [link[l] EXCEPT !.net = "cut", !.wire = <<>>]]
      BY <2>1, <2>2, <3>2
    <3> QED BY <2>3, <3>1, <3>2
  <2>5. Types' /\ SameTables
    BY <1>1, <1>3, <2>4 DEF Drain, Cut, IInv, Types, SameTables
  <2> QED BY <2>5, Frame
<1>4. ASSUME NEW c \in Calls, LosePost(c)
      PROVE  IInv'
  <2>1. Types' /\ SameTables
    BY <1>1, <1>4, RepliedType DEF LosePost, IInv, Types, SameTables
  <2> QED BY <2>1, Frame
<1> QED BY <1>2, <1>3, <1>4

----------------------------------------------------------------------------
(* Steps that ask for an authorization. *)

\* A link record under which only what no table looks at, or a load under way,
\* has changed.
LEMMA AskStep ==
    ASSUME IInv, NEW l \in Links, NEW r \in LinkRecords, link' = [link EXCEPT ![l] = r],
           r.server = link[l].server, r.pending = link[l].pending,
           r.auth \in {link[l].auth, file},
           r.auth = "listed" => link[l].auth = "listed" \/ file = "listed",
           call' = call, UNCHANGED <<file, current, seen, post>>
    PROVE  /\ link' \in [Links -> LinkRecords]
           /\ Tables(link, call, current)'
           /\ Aged(link, post)'
           /\ Shut(link, call)'
<1>1. link \in [Links -> LinkRecords]
  BY DEF IInv, Types
<1>2. /\ link' \in [Links -> LinkRecords]
      /\ \A k \in Links : /\ link'[k].server = link[k].server
                          /\ link'[k].pending = link[k].pending
                          /\ link'[k].auth \in {link[k].auth, file}
  BY <1>1
<1>3. Tables(link, call, current)'
  BY <1>2 DEF IInv, Types, Tables, OnItsWay
<1>4. Aged(link, post)'
  BY <1>2 DEF IInv, Types, Files, Aged, AgedLinks
<1>5. Shut(link, call)'
  BY <1>2, <1>3 DEF IInv, Types, Shut, Tables, OnItsWay
<1> QED BY <1>2, <1>3, <1>4, <1>5

LEMMA HeartbeatStep ==
    ASSUME IInv, NEW l \in Links, Heartbeat(l)
    PROVE  IInv'
<1> DEFINE r == [Asked(link[l]) EXCEPT !.beat = TRUE]
<1>1. link[l] \in LinkRecords /\ file \in Files
  BY DEF IInv, Types
<1>2. /\ Asked(link[l]) \in LinkRecords
      /\ Asked(link[l]).server = link[l].server
      /\ Asked(link[l]).pending = link[l].pending
      /\ Asked(link[l]).auth = IF link[l].auth = "none" THEN file ELSE link[l].auth
  BY <1>1, AskedType
<1>3. /\ r \in LinkRecords
      /\ r.server = link[l].server
      /\ r.pending = link[l].pending
      /\ r.auth \in {link[l].auth, file}
  BY <1>2 DEF LinkRecords
<1>4. link' = [link EXCEPT ![l] = r] /\ UNCHANGED <<file, current, call, turn, run, post, seen, faults>>
  BY DEF Heartbeat
<1> HIDE DEF r
<1>5. /\ link' \in [Links -> LinkRecords]
      /\ Tables(link, call, current)' /\ Aged(link, post)' /\ Shut(link, call)'
  BY <1>3, <1>4, AskStep
<1>6. Types'
  BY <1>4, <1>5 DEF IInv, Types
<1> QED BY <1>5, <1>6 DEF IInv

LEMMA GetLinkStep ==
    ASSUME IInv, NEW l \in Links, GetLink(l)
    PROVE  IInv'
<1> DEFINE r == [link[l] EXCEPT !.server = "verifying", !.auth = file, !.desk = TRUE]
<1>1. link[l] \in LinkRecords /\ file \in Files /\ link \in [Links -> LinkRecords]
  BY DEF IInv, Types
<1>2. /\ r \in LinkRecords
      /\ r.server = "verifying"
      /\ r.pending = link[l].pending
      /\ r.auth = file
  BY <1>1 DEF LinkRecords, Files
<1>3. link' = [link EXCEPT ![l] = r] /\ UNCHANGED <<file, current, call, turn, run, post, seen, faults>>
  BY DEF GetLink
<1>4. link[l].server = "unused"
  BY DEF GetLink
<1> HIDE DEF r
<1>5. /\ link' \in [Links -> LinkRecords]
      /\ link'[l] = r
      /\ \A k \in Links : k # l => link'[k] = link[k]
  BY <1>1, <1>2, <1>3
<1>6. Types'
  BY <1>3, <1>5 DEF IInv, Types
<1>7. Tables(link, call, current)'
  BY <1>2, <1>3, <1>4, <1>5 DEF IInv, Tables, OnItsWay
<1>8. Aged(link, post)'
  BY <1>2, <1>3, <1>5 DEF IInv, Types, Files, Aged, AgedLinks
<1>9. Shut(link, call)'
  BY <1>2, <1>3, <1>5 DEF IInv, Tables, Shut, OnItsWay
<1> QED BY <1>6, <1>7, <1>8, <1>9 DEF IInv

LEMMA DispatchStep ==
    ASSUME IInv, NEW c \in Calls, Dispatch(c)
    PROVE  IInv'
<1>0. /\ call \in [Calls -> CallRecords] /\ link \in [Links -> LinkRecords]
      /\ file \in Files /\ call[c].at = "idle" /\ current \in Links \cup {NoLink}
  BY DEF IInv, Types, Dispatch
<1>1. CASE current = NoLink
  <2>1. call' = Answered({c}, call) /\ UNCHANGED <<file, link, current, turn, run, post, seen, faults>>
    BY <1>1 DEF Dispatch
  <2>2. /\ call' \in [Calls -> CallRecords]
        /\ call'[c].at = "answered"
        /\ \A d \in Calls : d # c => call'[d] = call[d]
    <3>1. \A d \in Calls : d # c => d \notin {c}
      OBVIOUS
    <3> QED BY <1>0, <2>1, <3>1, AnsweredEffect
  <2>3. Types'
    BY <2>1, <2>2 DEF IInv, Types
  <2>4. Tables(link, call, current)'
    <3>1. Tables(link, call, current) /\ link' = link /\ current' = current
      BY <2>1 DEF IInv
    <3>2. \A l \in Links : \A d \in link[l].pending :
            call'[d].at = "pending" /\ call'[d].link = l /\ current = l
      <4>1. ASSUME NEW l \in Links, NEW d \in link[l].pending
            PROVE  call'[d].at = "pending" /\ call'[d].link = l /\ current = l
        <5>1. d \in Calls
          BY <1>0 DEF LinkRecords
        <5>2. call[d].at = "pending" /\ call[d].link = l /\ current = l
          BY <3>1 DEF Tables
        <5> QED BY <1>0, <2>2, <5>1, <5>2
      <4> QED BY <4>1
    <3>3. \A d \in Calls : call'[d].at = "pending" =>
            call'[d].link \in Links /\ d \in link[call'[d].link].pending
      BY <2>2, <3>1 DEF Tables
    <3>4. \A d \in Calls : call'[d].at \in OnItsWay =>
            call'[d].link \in Links /\ link[call'[d].link].server \in {"open", "closed"}
      BY <2>2, <3>1 DEF Tables, OnItsWay
    <3> QED BY <3>1, <3>2, <3>3, <3>4 DEF Tables
  <2>5. Aged(link, post)' /\ Shut(link, call)'
    BY <2>1, <2>2 DEF IInv, Aged, AgedLinks, Shut
  <2> QED BY <2>3, <2>4, <2>5 DEF IInv
<1>2. CASE current # NoLink
  <2> DEFINE r == Asked(link[current])
             q == [call[c] EXCEPT !.at = "authorizing", !.link = current]
  <2>1. current \in Links
    BY <1>0, <1>2
  <2>2. /\ r \in LinkRecords
        /\ r.server = link[current].server
        /\ r.pending = link[current].pending
        /\ r.auth = IF link[current].auth = "none" THEN file ELSE link[current].auth
    BY <1>0, <2>1, AskedType
  <2>3. q \in CallRecords /\ q.at = "authorizing" /\ q.link = current
    BY <1>0, <2>1 DEF CallRecords
  <2>4. /\ link' = [link EXCEPT ![current] = r]
        /\ call' = [call EXCEPT ![c] = q]
        /\ UNCHANGED <<file, current, turn, run, post, seen, faults>>
    BY <1>2 DEF Dispatch
  <2> HIDE DEF r, q
  <2>5. /\ link' \in [Links -> LinkRecords]
        /\ \A k \in Links : /\ link'[k].server = link[k].server
                            /\ link'[k].pending = link[k].pending
                            /\ link'[k].auth \in {link[k].auth, file}
    BY <1>0, <2>1, <2>2, <2>4
  <2>6. /\ call' \in [Calls -> CallRecords]
        /\ call'[c].at = "authorizing" /\ call'[c].link = current
        /\ \A d \in Calls : d # c => call'[d] = call[d]
    BY <1>0, <2>3, <2>4
  <2>7. Types'
    BY <2>4, <2>5, <2>6 DEF IInv, Types
  <2>8. Tables(link, call, current)'
    BY <1>0, <2>1, <2>4, <2>5, <2>6 DEF IInv, Tables, OnItsWay
  <2>9. Aged(link, post)'
    BY <2>4, <2>5 DEF IInv, Types, Files, Aged, AgedLinks
  <2>10. Shut(link, call)'
    BY <2>4, <2>5, <2>6, <2>8 DEF IInv, Tables, Shut, OnItsWay
  <2> QED BY <2>7, <2>8, <2>9, <2>10 DEF IInv
<1> QED BY <1>1, <1>2

----------------------------------------------------------------------------
(* Steps that end in a teardown. *)

\* What a load yields after the file was read as asked, once the removal shows.
LEMMA LoadEffect ==
    ASSUME file \in Files, NEW asked \in Files, asked = "gone" => file = "gone",
           NEW snapshot \in Loads(asked), seen \in BOOLEAN, Notified(snapshot)
    PROVE  /\ snapshot \in Snapshots
           /\ snapshot = "gone" => file = "gone"
           /\ snapshot = "listed" => asked = "listed" \/ file = "listed"
           /\ seen' \in BOOLEAN
           /\ snapshot # "gone" => seen' = seen
           /\ (seen => file = "gone") => (seen' => file = "gone")
BY DEF Loads, Files, Unread, Snapshots, Notified

\* A load's listeners, and whatever else is torn down with them.
LEMMA LoadTeardown ==
    ASSUME IInv, NEW snapshot \in Snapshots, NEW S \in SUBSET Links,
           NEW ls \in [Links -> LinkRecords], NEW cs \in [Calls -> CallRecords],
           Tables(ls, cs, current), Aged(ls, post),
           snapshot \in {"listed", "unstated"} => Shut(ls, cs) /\ seen' = seen,
           Unlisted(snapshot) \subseteq S,
           seen' => file = "gone",
           file' = file, Teardown(S, ls, cs)
    PROVE  /\ link' \in [Links -> LinkRecords]
           /\ call' \in [Calls -> CallRecords]
           /\ current' \in Links \cup {NoLink}
           /\ Tables(link, call, current)'
           /\ AgedLinks(link')
           /\ Shut(link, call)'
<1>0. current \in Links \cup {NoLink}
  BY DEF IInv, Types
<1>1. Torn(S, ls, cs)
  BY <1>0, TeardownEffect
<1>2. Tables(link', call', current')
  BY <1>0, TeardownTables
<1>3. AgedLinks(link')
  BY <1>1, TeardownAged
<1>4. Shut(link, call)'
  <2>1. snapshot \in {"gone", "unreadable"} => S = Links
    BY DEF Unlisted
  <2>2. snapshot \in {"listed", "unstated", "gone", "unreadable"}
    BY DEF Snapshots, Files, Unread
  <2> QED BY <1>1, <1>2, <2>1, <2>2, TeardownShut
<1> QED BY <1>1, <1>2, <1>3, <1>4 DEF Torn, Tables

LEMMA PostVerifiedStep ==
    ASSUME IInv, NEW c \in Calls, PostVerified(c)
    PROVE  IInv'
<1>1. PICK snapshot \in Loads(post[c]) :
         /\ Teardown(Unlisted(snapshot), link, call)
         /\ Notified(snapshot)
         /\ FaultIf(snapshot \in Unread)
         /\ IF snapshot = "listed"
            THEN post' = [post EXCEPT ![c] = "verified"] /\ UNCHANGED run
            ELSE post' = [post EXCEPT ![c] = "none"] /\ run' = Replied(c)
  BY DEF PostVerified
<1>2. post[c] \in Files /\ file' = file /\ turn' = turn
  BY DEF PostVerified
<1>3. /\ file \in Files /\ seen \in BOOLEAN
      /\ link \in [Links -> LinkRecords] /\ call \in [Calls -> CallRecords]
      /\ Tables(link, call, current) /\ Aged(link, post) /\ Shut(link, call)
      /\ seen => file = "gone"
      /\ post[c] = "gone" => file = "gone"
  BY DEF IInv, Types, Aged, AgedLinks, Shut
<1>4. /\ snapshot \in Snapshots
      /\ seen' \in BOOLEAN
      /\ snapshot # "gone" => seen' = seen
      /\ seen' => file = "gone"
  BY <1>1, <1>2, <1>3, LoadEffect
<1>5. Unlisted(snapshot) \in SUBSET Links
  BY DEF Unlisted
<1>6. /\ link' \in [Links -> LinkRecords]
      /\ call' \in [Calls -> CallRecords]
      /\ current' \in Links \cup {NoLink}
      /\ Tables(link, call, current)'
      /\ AgedLinks(link')
      /\ Shut(link, call)'
  BY <1>1, <1>2, <1>3, <1>4, <1>5, LoadTeardown
<1>7. faults' \in 0 .. MaxFaults
  BY <1>1, FaultType DEF IInv, Types
<1>8. /\ post' \in [Calls -> {"none", "verified"} \cup Files]
      /\ \A d \in Calls : post'[d] \in {post[d], "none", "verified"}
      /\ run' \in [Calls -> RunRecords]
  BY <1>1, RepliedType DEF IInv, Types
<1>9. Aged(link, post)'
  BY <1>2, <1>6, <1>8 DEF IInv, Aged, AgedLinks
<1>10. Types'
  BY <1>2, <1>4, <1>6, <1>7, <1>8 DEF IInv, Types
<1> QED BY <1>6, <1>9, <1>10 DEF IInv

LEMMA NoticeCloseStep ==
    ASSUME IInv, NEW l \in Links, NoticeClose(l)
    PROVE  IInv'
<1>1. Teardown({l}, link, call) /\ UNCHANGED <<file, turn, run, post, seen, faults>>
  BY DEF NoticeClose
<1>2. /\ link \in [Links -> LinkRecords] /\ call \in [Calls -> CallRecords]
      /\ Tables(link, call, current) /\ Aged(link, post) /\ Shut(link, call)
      /\ current \in Links \cup {NoLink} /\ {l} \in SUBSET Links
  BY DEF IInv, Types
<1>3. Torn({l}, link, call)
  BY <1>1, <1>2, TeardownEffect
<1>4. Tables(link', call', current')
  BY <1>1, <1>2, TeardownTables
<1>5. Shut(link, call)'
  BY <1>1, <1>2, <1>3, <1>4, TeardownShut
<1>6. Aged(link, post)'
  <2>1. AgedLinks(link')
    BY <1>2, <1>3, TeardownAged
  <2> QED BY <1>1, <1>2, <2>1 DEF Aged, AgedLinks
<1>7. Types'
  BY <1>1, <1>3 DEF IInv, Types, Torn
<1> QED BY <1>4, <1>5, <1>6, <1>7 DEF IInv

\* A fresh link replaces the one in the map.
LEMMA ConnectStep ==
    ASSUME IInv, NEW l \in Links, NEW full \in BOOLEAN, Connect(l, full),
           link[l].server = "verifying",
           "listed" \in Loads(link[l].auth),
           UNCHANGED <<file, turn, run, post, seen>>, faults' \in 0 .. MaxFaults
    PROVE  IInv'
<1> DEFINE r == [link[l] EXCEPT !.server = "open", !.auth = "none", !.blocked = full]
           fresh == [link EXCEPT ![l] = r]
           lost == IF current = NoLink THEN {} ELSE link[current].pending
<1>0. /\ link \in [Links -> LinkRecords] /\ call \in [Calls -> CallRecords]
      /\ current \in Links \cup {NoLink} /\ link[l] \in LinkRecords
      /\ Tables(link, call, current) /\ Aged(link, post) /\ Shut(link, call)
  BY DEF IInv, Types
<1>1. /\ r \in LinkRecords
      /\ r.server = "open" /\ r.auth = "none" /\ r.pending = link[l].pending
  BY <1>0 DEF LinkRecords
<1>2. /\ link' = [k \in Links |-> IF k = current THEN Closed(fresh[k]) ELSE fresh[k]]
      /\ call' = IF current = NoLink THEN call ELSE Answered(link[current].pending, call)
      /\ current' = l
  <2>1. fresh = [link EXCEPT ![l].server = "open", ![l].auth = "none", ![l].blocked = full]
    BY <1>0
  <2>2. link' = [k \in Links |->
                   IF k = current
                   THEN Closed([link EXCEPT ![l].server = "open", ![l].auth = "none",
                                            ![l].blocked = full][k])
                   ELSE [link EXCEPT ![l].server = "open", ![l].auth = "none",
                                     ![l].blocked = full][k]]
    BY DEF Connect
  <2>3. /\ call' = IF current = NoLink THEN call ELSE Answered(link[current].pending, call)
        /\ current' = l
    BY DEF Connect
  <2> HIDE DEF fresh
  <2> QED BY <2>1, <2>2, <2>3
<1>3. l # current /\ link[l].pending = {}
  <2>1. l # current
    BY <1>0 DEF Tables
  <2>2. \A c \in link[l].pending : current = l
    BY <1>0 DEF Tables
  <2> QED BY <2>1, <2>2
<1> HIDE DEF r
<1>4. /\ fresh \in [Links -> LinkRecords]
      /\ fresh[l] = r
      /\ \A k \in Links : k # l => fresh[k] = link[k]
  BY <1>0, <1>1
<1> HIDE DEF fresh
<1>5. \A k \in Links : /\ Closed(fresh[k]) \in LinkRecords
                       /\ Closed(fresh[k]).server = "closed"
                       /\ Closed(fresh[k]).pending = {}
                       /\ Closed(fresh[k]).auth = fresh[k].auth
  BY <1>4, ClosedType
<1>6. /\ link' \in [Links -> LinkRecords]
      /\ link'[l] = r
      /\ \A k \in Links : k # l /\ k # current => link'[k] = link[k]
      /\ \A k \in Links : k # l /\ k = current =>
            /\ link'[k].server = "closed" /\ link'[k].pending = {}
            /\ link'[k].auth = link[k].auth
  BY <1>2, <1>3, <1>4, <1>5
<1>7. /\ call' \in [Calls -> CallRecords]
      /\ \A c \in Calls : call'[c].link = call[c].link
      /\ \A c \in Calls : c \in lost => call'[c].at = "answered"
      /\ \A c \in Calls : c \notin lost => call'[c] = call[c]
  <2>1. CASE current = NoLink
    BY <1>0, <1>2, <2>1
  <2>2. CASE current # NoLink
    BY <1>0, <1>2, <2>2, AnsweredEffect
  <2> QED BY <2>1, <2>2
<1>8. \A c \in Calls : call[c].at = "pending" => c \in lost
  BY <1>0, LinkIsNotNoLink DEF Tables
<1> HIDE DEF lost
<1>9. \A c \in Calls : call'[c].at # "pending"
  BY <1>7, <1>8
<1>10. \A k \in Links : k # l => link'[k].server # "open" /\ link'[k].pending = {}
  <2>1. ASSUME NEW k \in Links, k # l, k # current
        PROVE  link[k].server # "open" /\ link[k].pending = {}
    <3>1. \A c \in link[k].pending : current = k
      BY <1>0 DEF Tables
    <3> QED BY <1>0, <2>1, <3>1 DEF Tables
  <2> QED BY <1>6, <2>1
<1>11. Tables(link, call, current)'
  <2>1. \A k \in Links : link'[k].server = "open" <=> current' = k
    BY <1>1, <1>2, <1>6, <1>10
  <2>2. \A k \in Links : link'[k].pending = {}
    BY <1>1, <1>3, <1>6, <1>10
  <2>3. \A c \in Calls : call'[c].at \in OnItsWay =>
          call'[c].link \in Links /\ link'[call'[c].link].server \in {"open", "closed"}
    <3>1. ASSUME NEW c \in Calls, call'[c].at \in OnItsWay
          PROVE  call'[c].link \in Links /\ link'[call'[c].link].server \in {"open", "closed"}
      <4>1. call[c].at \in OnItsWay /\ call'[c].link = call[c].link
        BY <1>7, <3>1 DEF OnItsWay
      <4>2. call[c].link \in Links /\ link[call[c].link].server \in {"open", "closed"}
        BY <1>0, <4>1 DEF Tables
      <4> QED BY <1>6, <4>1, <4>2
    <3> QED BY <3>1
  <2>4. Cardinality({}) <= MaxPending
    BY FS_EmptySet, DeviceAssumption
  <2>5. \A k \in Links : Cardinality(link'[k].pending) <= MaxPending
    BY <2>2, <2>4
  <2> QED BY <1>9, <2>1, <2>2, <2>3, <2>5 DEF Tables
<1>12. Aged(link, post)'
  BY <1>0, <1>1, <1>6 DEF Aged, AgedLinks
<1>13. Shut(link, call)'
  <2>1. ASSUME seen, NEW c \in Calls, call'[c].at = "allowed"
        PROVE  link'[call'[c].link].server # "open"
    <3>1. call[c] = call'[c]
      BY <1>7, <2>1
    <3>2. call[c].link \in Links /\ link[call[c].link].server \in {"open", "closed"}
      BY <1>0, <2>1, <3>1 DEF Tables, OnItsWay
    <3>3. call[c].link # l
      BY <3>2
    <3> QED BY <1>10, <3>1, <3>2, <3>3
  <2>2. \A k \in Links : link'[k].server = "open" => link'[k].auth = "none"
    BY <1>1, <1>6, <1>10
  <2> QED BY <1>0, <2>1, <2>2 DEF Shut
<1>14. Types'
  BY <1>2, <1>6, <1>7 DEF IInv, Types
<1> QED BY <1>11, <1>12, <1>13, <1>14 DEF IInv

LEMMA LinkVerifiedStep ==
    ASSUME IInv, NEW l \in Links, LinkVerified(l)
    PROVE  IInv'
<1>0. /\ link \in [Links -> LinkRecords] /\ call \in [Calls -> CallRecords]
      /\ link[l] \in LinkRecords /\ seen \in BOOLEAN /\ file \in Files
      /\ Tables(link, call, current) /\ Aged(link, post) /\ Shut(link, call)
      /\ link[l].server = "verifying"
      /\ UNCHANGED <<file, turn, run, post>>
  BY DEF IInv, Types, LinkVerified
<1>1. CASE /\ "listed" \in Loads(link[l].auth)
           /\ \E full \in BOOLEAN : Connect(l, full) /\ FaultIf(full)
           /\ Notified("listed")
  <2>1. PICK full \in BOOLEAN : Connect(l, full) /\ FaultIf(full)
    BY <1>1
  <2>2. faults' \in 0 .. MaxFaults
    BY <2>1, FaultType DEF IInv, Types
  <2>3. seen' = seen
    BY <1>0, <1>1 DEF Notified
  <2> QED BY <1>0, <1>1, <2>1, <2>2, <2>3, ConnectStep
<1>2. ASSUME NEW snapshot \in Loads(link[l].auth),
             Teardown(Unlisted(snapshot),
                      [link EXCEPT ![l] = [Closed(@) EXCEPT !.auth = "none"]], call),
             Notified(snapshot), FaultIf(snapshot \in Unread)
      PROVE  IInv'
  <2> DEFINE r == [Closed(link[l]) EXCEPT !.auth = "none"]
             ls == [link EXCEPT ![l] = r]
  <2>1. /\ r \in LinkRecords
        /\ r.server = "closed" /\ r.pending = {} /\ r.auth = "none"
    <3>1. Closed(link[l]) \in LinkRecords /\ Closed(link[l]).server = "closed" /\ Closed(link[l]).pending = {}
      BY <1>0, ClosedType
    <3> QED BY <3>1 DEF LinkRecords
  <2> HIDE DEF r
  <2>2. /\ ls \in [Links -> LinkRecords]
        /\ ls[l] = r
        /\ \A k \in Links : k # l => ls[k] = link[k]
    BY <1>0, <2>1
  <2>3. Teardown(Unlisted(snapshot), ls, call)
    BY <1>0, <1>2 DEF r
  <2> HIDE DEF ls
  <2>4. l # current /\ \A c \in Calls : call[c].at = "pending" => call[c].link # l
    BY <1>0 DEF Tables
  <2>5. Tables(ls, call, current)
    <3>1. \A k \in Links : ls[k].server = "open" <=> current = k
      BY <1>0, <2>1, <2>2, <2>4 DEF Tables
    <3>2. \A k \in Links : \A c \in ls[k].pending :
            call[c].at = "pending" /\ call[c].link = k /\ current = k
      BY <1>0, <2>1, <2>2 DEF Tables
    <3>3. \A c \in Calls : call[c].at = "pending" =>
            call[c].link \in Links /\ c \in ls[call[c].link].pending
      BY <1>0, <2>2, <2>4 DEF Tables
    <3>4. \A c \in Calls : call[c].at \in OnItsWay =>
            call[c].link \in Links /\ ls[call[c].link].server \in {"open", "closed"}
      BY <1>0, <2>1, <2>2 DEF Tables
    <3>5. Cardinality({}) <= MaxPending
      BY FS_EmptySet, DeviceAssumption
    <3>6. \A k \in Links : Cardinality(ls[k].pending) <= MaxPending
      BY <1>0, <2>1, <2>2, <3>5 DEF Tables
    <3> QED BY <3>1, <3>2, <3>3, <3>4, <3>6 DEF Tables
  <2>6. Aged(ls, post)
    BY <1>0, <2>1, <2>2 DEF Aged, AgedLinks
  <2>7. Shut(ls, call)
    BY <1>0, <2>1, <2>2 DEF Shut, Tables, OnItsWay
  <2>8. /\ snapshot \in Snapshots /\ seen' \in BOOLEAN
        /\ snapshot # "gone" => seen' = seen
        /\ seen' => file = "gone"
    BY <1>0, <1>2 DEF Loads, Files, Unread, Snapshots, Notified, Aged, AgedLinks, Shut, LinkRecords
  <2>9. Unlisted(snapshot) \in SUBSET Links
    BY DEF Unlisted
  <2>10. /\ link' \in [Links -> LinkRecords]
         /\ call' \in [Calls -> CallRecords]
         /\ current' \in Links \cup {NoLink}
         /\ Tables(link, call, current)'
         /\ AgedLinks(link')
         /\ Shut(link, call)'
    BY <1>0, <2>2, <2>3, <2>5, <2>6, <2>7, <2>8, <2>9, LoadTeardown
  <2>11. faults' \in 0 .. MaxFaults
    BY <1>2, FaultType DEF IInv, Types
  <2>12. Types'
    BY <1>0, <2>8, <2>10, <2>11 DEF IInv, Types
  <2>13. Aged(link, post)'
    BY <1>0, <2>10 DEF Aged, AgedLinks
  <2> QED BY <2>10, <2>12, <2>13 DEF IInv
<1> QED BY <1>1, <1>2 DEF LinkVerified

LEMMA AuthorizationLoadedStep ==
    ASSUME IInv, NEW l \in Links, AuthorizationLoaded(l)
    PROVE  IInv'
<1>0. /\ link \in [Links -> LinkRecords] /\ call \in [Calls -> CallRecords]
      /\ link[l] \in LinkRecords /\ seen \in BOOLEAN /\ file \in Files
      /\ Tables(link, call, current) /\ Aged(link, post) /\ Shut(link, call)
      /\ link[l].auth \in Files /\ link[l].server \in {"open", "closed"}
      /\ UNCHANGED <<file, turn, run, post>>
  BY DEF IInv, Types, AuthorizationLoaded, LinkRecords
<1> DEFINE Also(snapshot) == IF BeatCloses(l, snapshot) THEN {l} ELSE {}
           r(full) == [link[l] EXCEPT !.auth = "none", !.beat = FALSE, !.blocked = @ \/ full]
           ls(full) == [link EXCEPT ![l] = r(full)]
           cs(snapshot) == [c \in Calls |->
                 IF call[c].at = "authorizing" /\ call[c].link = l
                 THEN [call[c] EXCEPT
                         !.at = IF snapshot = "listed" THEN "allowed" ELSE "denied"]
                 ELSE call[c]]
<1>1. PICK snapshot \in Loads(link[l].auth), full \in BOOLEAN :
        /\ FaultIf(full \/ snapshot \in Unread)
        /\ Notified(snapshot)
        /\ Teardown(Unlisted(snapshot) \cup Also(snapshot), ls(full), cs(snapshot))
  <2>1. \A full \in BOOLEAN :
          ls(full) = [link EXCEPT ![l].auth = "none", ![l].beat = FALSE,
                                  ![l].blocked = @ \/ full]
    BY <1>0
  <2> HIDE DEF ls
  <2> QED BY <2>1 DEF AuthorizationLoaded
<1>2. /\ r(full) \in LinkRecords
      /\ r(full).server = link[l].server
      /\ r(full).pending = link[l].pending
      /\ r(full).auth = "none"
  BY <1>0 DEF LinkRecords
<1> HIDE DEF r
<1>3. /\ ls(full) \in [Links -> LinkRecords]
      /\ ls(full)[l] = r(full)
      /\ \A k \in Links : k # l => ls(full)[k] = link[k]
  BY <1>0, <1>2
<1>4. /\ cs(snapshot) \in [Calls -> CallRecords]
      /\ \A c \in Calls : cs(snapshot)[c].link = call[c].link
      /\ \A c \in Calls :
           IF call[c].at = "authorizing" /\ call[c].link = l
           THEN cs(snapshot)[c].at = IF snapshot = "listed" THEN "allowed" ELSE "denied"
           ELSE cs(snapshot)[c] = call[c]
  BY <1>0 DEF CallRecords
<1> HIDE DEF ls, cs
<1>5. Tables(ls(full), cs(snapshot), current)
  <2>1. \A k \in Links : /\ ls(full)[k].server = link[k].server
                         /\ ls(full)[k].pending = link[k].pending
    BY <1>2, <1>3
  <2>2. \A k \in Links : ls(full)[k].server = "open" <=> current = k
    BY <1>0, <2>1 DEF Tables
  <2>3. \A k \in Links : \A c \in ls(full)[k].pending :
          cs(snapshot)[c].at = "pending" /\ cs(snapshot)[c].link = k /\ current = k
    <3>1. ASSUME NEW k \in Links, NEW c \in ls(full)[k].pending
          PROVE  cs(snapshot)[c].at = "pending" /\ cs(snapshot)[c].link = k /\ current = k
      <4>1. c \in link[k].pending /\ link[k] \in LinkRecords
        BY <1>0, <2>1
      <4>2. c \in Calls
        BY <4>1 DEF LinkRecords
      <4>3. call[c].at = "pending" /\ call[c].link = k /\ current = k
        BY <1>0, <4>1 DEF Tables
      <4> QED BY <1>4, <4>2, <4>3
    <3> QED BY <3>1
  <2>4. \A c \in Calls : cs(snapshot)[c].at = "pending" =>
          cs(snapshot)[c].link \in Links /\ c \in ls(full)[cs(snapshot)[c].link].pending
    BY <1>0, <1>4, <2>1 DEF Tables
  <2>5. \A c \in Calls : cs(snapshot)[c].at \in OnItsWay =>
          /\ cs(snapshot)[c].link \in Links
          /\ ls(full)[cs(snapshot)[c].link].server \in {"open", "closed"}
    BY <1>0, <1>4, <2>1 DEF Tables, OnItsWay
  <2>6. \A k \in Links : Cardinality(ls(full)[k].pending) <= MaxPending
    BY <1>0, <2>1 DEF Tables
  <2> QED BY <2>2, <2>3, <2>4, <2>5, <2>6 DEF Tables
<1>6. Aged(ls(full), post)
  BY <1>0, <1>2, <1>3 DEF Aged, AgedLinks
<1>7. /\ snapshot \in Snapshots /\ seen' \in BOOLEAN
      /\ snapshot # "gone" => seen' = seen
      /\ seen' => file = "gone"
      /\ snapshot = "listed" => link[l].auth = "listed" \/ file = "listed"
  <2>1. link[l].auth = "gone" => file = "gone"
    BY <1>0 DEF Aged, AgedLinks
  <2>2. seen => file = "gone"
    BY <1>0 DEF Shut
  <2> QED BY <1>0, <1>1, <2>1, <2>2, LoadEffect
<1>8. Shut(ls(full), cs(snapshot))
  <2>1. SUFFICES ASSUME seen
                 PROVE  /\ file = "gone"
                        /\ \A k \in Links : ls(full)[k].server = "open" => ls(full)[k].auth # "listed"
                        /\ \A c \in Calls : cs(snapshot)[c].at = "allowed" =>
                              ls(full)[cs(snapshot)[c].link].server # "open"
    BY DEF Shut
  <2>2. file = "gone" /\ (snapshot = "listed" => link[l].server # "open")
    BY <1>0, <1>7, <2>1 DEF Shut, Files
  <2>3. \A k \in Links : ls(full)[k].server = "open" => ls(full)[k].auth # "listed"
    BY <1>0, <1>2, <1>3, <2>1 DEF Shut
  <2>4. ASSUME NEW c \in Calls, cs(snapshot)[c].at = "allowed"
        PROVE  ls(full)[cs(snapshot)[c].link].server # "open"
    <3>1. CASE call[c].at = "authorizing" /\ call[c].link = l
      <4>1. snapshot = "listed" /\ cs(snapshot)[c].link = l
        BY <1>4, <2>4, <3>1
      <4> QED BY <1>2, <1>3, <2>2, <4>1
    <3>2. CASE ~(call[c].at = "authorizing" /\ call[c].link = l)
      <4>1. cs(snapshot)[c] = call[c] /\ call[c].at = "allowed"
        BY <1>4, <2>4, <3>2
      <4>2. call[c].link \in Links /\ link[call[c].link].server # "open"
        BY <1>0, <2>1, <4>1 DEF Shut, Tables, OnItsWay
      <4> QED BY <1>2, <1>3, <4>1, <4>2
    <3> QED BY <3>1, <3>2
  <2> QED BY <2>2, <2>3, <2>4
<1>9. /\ Unlisted(snapshot) \cup Also(snapshot) \in SUBSET Links
      /\ Unlisted(snapshot) \subseteq Unlisted(snapshot) \cup Also(snapshot)
  BY DEF Unlisted
<1> HIDE DEF Also
<1>10. /\ link' \in [Links -> LinkRecords]
       /\ call' \in [Calls -> CallRecords]
       /\ current' \in Links \cup {NoLink}
       /\ Tables(link, call, current)'
       /\ AgedLinks(link')
       /\ Shut(link, call)'
  <2> DEFINE S == Unlisted(snapshot) \cup Also(snapshot)
  <2>1. Teardown(S, ls(full), cs(snapshot)) /\ S \in SUBSET Links /\ Unlisted(snapshot) \subseteq S
    BY <1>1, <1>9
  <2> HIDE DEF S
  <2> QED BY <1>0, <1>3, <1>4, <1>5, <1>6, <1>7, <1>8, <2>1, LoadTeardown
<1>11. faults' \in 0 .. MaxFaults
  BY <1>1, FaultType DEF IInv, Types
<1>12. Types'
  BY <1>0, <1>7, <1>10, <1>11 DEF IInv, Types
<1>13. Aged(link, post)'
  BY <1>0, <1>10 DEF Aged, AgedLinks
<1> QED BY <1>10, <1>12, <1>13 DEF IInv

LEMMA RevokeStep ==
    ASSUME IInv, Revoke
    PROVE  IInv'
BY DEF IInv, Revoke, Types, Files, Tables, Aged, AgedLinks, Shut, OnItsWay

----------------------------------------------------------------------------
(* Steps that settle calls. *)

LEMMA PendingIsFinite ==
    ASSUME NEW S \in SUBSET Calls
    PROVE  IsFiniteSet(S) /\ Cardinality(S) \in Nat
<1>1. IsFiniteSet(Calls)
  BY FS_Interval, DeviceAssumption DEF Calls
<1>2. IsFiniteSet(S)
  BY <1>1, FS_Subset
<1> QED BY <1>2, FS_CardinalityType

\* Nothing but calls of S has left the tables.
Eased(ls, S) ==
    /\ ls \in [Links -> LinkRecords]
    /\ \A k \in Links : /\ ls[k].server = link[k].server
                        /\ ls[k].auth = link[k].auth
                        /\ ls[k].pending = link[k].pending \ S

\* Calls that get their outcome leave the tables.
LEMMA SettledTables ==
    ASSUME IInv, NEW S \in SUBSET Calls, NEW ls, Eased(ls, S)
    PROVE  /\ Answered(S, call) \in [Calls -> CallRecords]
           /\ Tables(ls, Answered(S, call), current)
           /\ Aged(ls, post)
           /\ Shut(ls, Answered(S, call))
<1> DEFINE cs == Answered(S, call)
<1>0. /\ link \in [Links -> LinkRecords] /\ call \in [Calls -> CallRecords]
      /\ Tables(link, call, current) /\ Aged(link, post) /\ Shut(link, call)
      /\ ls \in [Links -> LinkRecords]
      /\ \A k \in Links : /\ ls[k].server = link[k].server
                          /\ ls[k].auth = link[k].auth
                          /\ ls[k].pending = link[k].pending \ S
  BY DEF IInv, Types, Eased
<1>1. /\ cs \in [Calls -> CallRecords]
      /\ \A c \in Calls : cs[c].link = call[c].link
      /\ \A c \in Calls : c \in S => cs[c].at = "answered"
      /\ \A c \in Calls : c \notin S => cs[c] = call[c]
  BY <1>0, AnsweredEffect
<1> HIDE DEF cs
<1>2. Tables(ls, cs, current)
  <2>1. \A k \in Links : ls[k].server = "open" <=> current = k
    BY <1>0 DEF Tables
  <2>2. \A k \in Links : \A c \in ls[k].pending :
          cs[c].at = "pending" /\ cs[c].link = k /\ current = k
    <3>1. ASSUME NEW k \in Links, NEW c \in ls[k].pending
          PROVE  cs[c].at = "pending" /\ cs[c].link = k /\ current = k
      <4>1. c \in link[k].pending /\ c \notin S /\ link[k] \in LinkRecords
        BY <1>0
      <4>2. c \in Calls
        BY <4>1 DEF LinkRecords
      <4> QED BY <1>0, <1>1, <4>1, <4>2 DEF Tables
    <3> QED BY <3>1
  <2>3. \A c \in Calls : cs[c].at = "pending" =>
          cs[c].link \in Links /\ c \in ls[cs[c].link].pending
    BY <1>0, <1>1 DEF Tables
  <2>4. \A c \in Calls : cs[c].at \in OnItsWay =>
          cs[c].link \in Links /\ ls[cs[c].link].server \in {"open", "closed"}
    BY <1>0, <1>1 DEF Tables, OnItsWay
  <2>5. ASSUME NEW k \in Links
        PROVE  Cardinality(ls[k].pending) <= MaxPending
    <3>1. link[k].pending \in SUBSET Calls /\ ls[k].pending \in SUBSET link[k].pending
      BY <1>0 DEF LinkRecords
    <3>2. Cardinality(ls[k].pending) <= Cardinality(link[k].pending)
      BY <3>1, PendingIsFinite, FS_Subset
    <3>3. Cardinality(ls[k].pending) \in Nat /\ Cardinality(link[k].pending) \in Nat
      BY <3>1, PendingIsFinite
    <3>4. Cardinality(link[k].pending) <= MaxPending
      BY <1>0 DEF Tables
    <3> QED BY <3>2, <3>3, <3>4, DeviceAssumption
  <2> QED BY <2>1, <2>2, <2>3, <2>4, <2>5 DEF Tables
<1>3. Aged(ls, post)
  BY <1>0 DEF Aged, AgedLinks
<1>4. Shut(ls, cs)
  <2>1. ASSUME seen, NEW c \in Calls, cs[c].at = "allowed"
        PROVE  ls[cs[c].link].server # "open"
    <3>1. cs[c] = call[c]
      BY <1>1, <2>1
    <3> QED BY <1>0, <2>1, <3>1 DEF Shut, Tables, OnItsWay
  <2> QED BY <1>0, <2>1 DEF Shut
<1> QED BY <1>1, <1>2, <1>3, <1>4 DEF cs

\* Calls settle, and links may go down with them.
LEMMA SettledTeardown ==
    ASSUME IInv, NEW S \in SUBSET Calls, NEW D \in SUBSET Links,
           NEW ls, Eased(ls, S), Teardown(D, ls, Answered(S, call)),
           UNCHANGED <<file, run, post, seen>>,
           turn' \in {"live", "over"}, faults' \in 0 .. MaxFaults
    PROVE  IInv'
<1> DEFINE cs == Answered(S, call)
<1>1. /\ cs \in [Calls -> CallRecords]
      /\ Tables(ls, cs, current) /\ Aged(ls, post) /\ Shut(ls, cs)
      /\ current \in Links \cup {NoLink} /\ ls \in [Links -> LinkRecords]
  BY SettledTables DEF IInv, Types, Eased
<1>2. Teardown(D, ls, cs)
  OBVIOUS
<1> HIDE DEF cs
<1>3. Torn(D, ls, cs)
  BY <1>1, <1>2, TeardownEffect
<1>4. Tables(link', call', current')
  BY <1>1, <1>2, TeardownTables
<1>5. Shut(link, call)'
  BY <1>1, <1>3, <1>4, TeardownShut
<1>6. Aged(link, post)'
  <2>1. AgedLinks(link')
    BY <1>1, <1>3, TeardownAged
  <2> QED BY <2>1 DEF IInv, Aged, AgedLinks
<1>7. Types'
  BY <1>3 DEF IInv, Types, Torn
<1> QED BY <1>4, <1>5, <1>6, <1>7 DEF IInv

LEMMA SettleResultStep ==
    ASSUME IInv, NEW c \in Calls, SettleResult(c)
    PROVE  IInv'
<1>0. /\ link \in [Links -> LinkRecords] /\ call \in [Calls -> CallRecords]
      /\ current \in Links \cup {NoLink}
      /\ UNCHANGED <<file, current, turn, seen, faults>>
      /\ post' = [post EXCEPT ![c] = "none"] /\ run' = Replied(c)
  BY DEF IInv, Types, SettleResult
<1>1. /\ post' \in [Calls -> {"none", "verified"} \cup Files]
      /\ \A d \in Calls : post'[d] \in {post[d], "none"}
      /\ run' \in [Calls -> RunRecords]
  BY <1>0, RepliedType DEF IInv, Types
<1>2. CASE current # NoLink /\ c \in link[current].pending
  <2> DEFINE r == [link[current] EXCEPT !.pending = @ \ {c}]
  <2>1. link' = [link EXCEPT ![current] = r] /\ call' = Answered({c}, call)
    BY <1>2 DEF SettleResult
  <2>2. current \in Links
    BY <1>0, <1>2
  <2>3. /\ r \in LinkRecords /\ r.server = link[current].server
        /\ r.auth = link[current].auth /\ r.pending = link[current].pending \ {c}
    BY <1>0, <2>2 DEF LinkRecords
  <2> HIDE DEF r
  <2>4. \A k \in Links : k # current => c \notin link[k].pending
    BY <1>2 DEF IInv, Tables
  <2>5. /\ link' \in [Links -> LinkRecords]
        /\ \A k \in Links : /\ link'[k].server = link[k].server
                            /\ link'[k].auth = link[k].auth
                            /\ link'[k].pending = link[k].pending \ {c}
    BY <1>0, <2>1, <2>2, <2>3, <2>4
  <2>10. Eased(link', {c})
    BY <2>5 DEF Eased
  <2>6. /\ Answered({c}, call) \in [Calls -> CallRecords]
        /\ Tables(link', Answered({c}, call), current)
        /\ Aged(link', post)
        /\ Shut(link', Answered({c}, call))
    BY <2>10, SettledTables
  <2>7. Types'
    BY <1>0, <1>1, <2>1, <2>5, <2>6 DEF IInv, Types
  <2>8. Aged(link, post)'
    BY <1>0, <1>1, <2>6 DEF Aged, AgedLinks
  <2>9. Tables(link, call, current)' /\ Shut(link, call)'
    BY <1>0, <2>1, <2>6 DEF Shut
  <2> QED BY <2>7, <2>8, <2>9 DEF IInv
<1>3. CASE ~(current # NoLink /\ c \in link[current].pending)
  <2>1. UNCHANGED <<link, call>>
    BY <1>3 DEF SettleResult
  <2>2. Types' /\ SameTables
    BY <1>0, <1>1, <2>1 DEF IInv, Types, SameTables
  <2> QED BY <2>2, Frame
<1> QED BY <1>2, <1>3

\* Events written to a link whose given-up calls leave its table.
GivenUp(l, S, events, full) ==
    [link EXCEPT ![l] = [Written(link[l], events, full) EXCEPT !.pending = @ \ S]]

LEMMA AfterGiveUp ==
    ASSUME IInv, NEW l \in Links, NEW S \in SUBSET Calls, S \subseteq link[l].pending,
           NEW events \in Seq(Events), NEW full \in BOOLEAN
    PROVE  Eased(GivenUp(l, S, events, full), S)
<1> DEFINE w == Written(link[l], events, full)
           r == [w EXCEPT !.pending = @ \ S]
           ls == GivenUp(l, S, events, full)
<1>0. link \in [Links -> LinkRecords] /\ link[l] \in LinkRecords
  BY DEF IInv, Types
<1>1. w \in LinkRecords /\ w.server = link[l].server /\ w.pending = link[l].pending
      /\ w.auth = link[l].auth
  BY <1>0, WrittenType
<1>2. ls = [link EXCEPT ![l] = r]
  BY <1>0 DEF GivenUp
<1> HIDE DEF w, ls
<1>3. r \in LinkRecords /\ r.server = link[l].server /\ r.auth = link[l].auth
      /\ r.pending = link[l].pending \ S
  BY <1>1 DEF LinkRecords
<1> HIDE DEF r
<1>4. ASSUME NEW k \in Links, k # l
      PROVE  link[k].pending = link[k].pending \ S
  <2>1. \A c \in S : call[c].link = l
    BY DEF IInv, Tables
  <2>2. \A c \in link[k].pending : call[c].link = k
    BY DEF IInv, Tables
  <2> QED BY <1>4, <2>1, <2>2
<1>5. Eased(ls, S)
  BY <1>0, <1>2, <1>3, <1>4 DEF Eased
<1> QED BY <1>5 DEF ls

LEMMA GiveUpStep ==
    ASSUME IInv, NEW l \in Links, NEW S \in SUBSET Calls, S \subseteq link[l].pending,
           GiveUp(l, S), UNCHANGED <<file, run, post, seen>>, turn' \in {"live", "over"}
    PROVE  IInv'
<1> DEFINE after(events, full) ==
             [link EXCEPT ![l] = [Written(link[l], events, full) EXCEPT !.pending = @ \ S]]
           cancels(order, n) == [i \in 1 .. n |-> [kind |-> "cancel", of |-> order[i]]]
<1>1. CASE link[l].blocked
  <2>1. Teardown({l}, after(<<>>, TRUE), Answered(S, call)) /\ UNCHANGED faults
    BY <1>1 DEF GiveUp
  <2> DEFINE ls == after(<<>>, TRUE)
  <2>2. /\ <<>> \in Seq(Events)
        /\ ls = GivenUp(l, S, <<>>, TRUE)
    BY DEF GivenUp
  <2>4. Teardown({l}, ls, Answered(S, call)) /\ {l} \in SUBSET Links /\ faults' \in 0 .. MaxFaults
    BY <2>1 DEF IInv, Types
  <2> HIDE DEF ls
  <2>3. Eased(ls, S)
    <3>1. Eased(GivenUp(l, S, <<>>, TRUE), S)
      BY <2>2, AfterGiveUp, Zenon
    <3> QED BY <2>2, <3>1
  <2> QED BY <2>3, <2>4, SettledTeardown
<1>2. CASE ~link[l].blocked
  <2>1. PICK order \in SetToSeqs(S), full \in BOOLEAN : \E n \in 1 .. Len(order) :
          /\ Teardown(IF n < Len(order) THEN {l} ELSE {},
                      after(cancels(order, n), full), Answered(S, call))
          /\ FaultIf(full)
    BY <1>2 DEF GiveUp
  <2>2. PICK n \in 1 .. Len(order) :
          /\ Teardown(IF n < Len(order) THEN {l} ELSE {},
                      after(cancels(order, n), full), Answered(S, call))
          /\ FaultIf(full)
    BY <2>1
  <2>3. Cardinality(S) \in Nat
    BY PendingIsFinite
  <2>4. order \in [1 .. Cardinality(S) -> S]
    BY DEF SetToSeqs
  <2>5. order \in Seq(S) /\ Len(order) = Cardinality(S)
    BY <2>3, <2>4
  <2>6. \A i \in 1 .. n : order[i] \in Calls
    BY <2>3, <2>4, <2>5
  <2>7. cancels(order, n) \in Seq(Events)
    <3>1. \A i \in 1 .. n : [kind |-> "cancel", of |-> order[i]] \in Events
      BY <2>6 DEF Events
    <3>2. n \in Nat
      BY <2>3, <2>5
    <3>3. cancels(order, n) \in [1 .. n -> Events]
      BY <3>1
    <3> QED BY <3>2, <3>3
  <2> DEFINE events == cancels(order, n)
             ls == after(events, full)
             D == IF n < Len(order) THEN {l} ELSE {}
  <2>8. Teardown(D, ls, Answered(S, call)) /\ D \in SUBSET Links
    BY <2>2
  <2>9. /\ events \in Seq(Events)
        /\ ls = GivenUp(l, S, events, full)
    BY <2>7 DEF GivenUp
  <2> HIDE DEF events, D, cancels, ls
  <2>10. Eased(ls, S)
    <3>1. Eased(GivenUp(l, S, events, full), S)
      BY <2>9, AfterGiveUp, Zenon
    <3> QED BY <2>9, <3>1
  <2>11. faults' \in 0 .. MaxFaults
    BY <2>2, FaultType DEF IInv, Types
  <2> QED BY <2>8, <2>10, <2>11, SettledTeardown
<1> QED BY <1>1, <1>2

LEMMA GivingUpSteps ==
    ASSUME IInv, EndTurn \/ \E c \in Calls : AbortRequest(c) \/ Backstop(c)
    PROVE  IInv'
<1>0. /\ link \in [Links -> LinkRecords] /\ current \in Links \cup {NoLink}
      /\ turn \in {"live", "over"}
  BY DEF IInv, Types
<1>1. ASSUME NEW c \in Calls, AbortRequest(c) \/ Backstop(c)
      PROVE  IInv'
  <2>1. /\ call[c].at = "pending" /\ GiveUp(call[c].link, {c})
        /\ UNCHANGED <<file, turn, run, post, seen>>
    BY <1>1 DEF AbortRequest, Backstop
  <2>2. call[c].link \in Links /\ c \in link[call[c].link].pending
    BY <2>1 DEF IInv, Tables
  <2>3. {c} \in SUBSET Calls /\ {c} \subseteq link[call[c].link].pending
    BY <2>2
  <2> QED BY <1>0, <2>1, <2>2, <2>3, GiveUpStep
<1>2. CASE EndTurn /\ current # NoLink /\ link[current].pending # {}
  <2>1. /\ GiveUp(current, link[current].pending) /\ UNCHANGED <<file, run, post, seen>>
        /\ turn' \in {"live", "over"}
    BY <1>2 DEF EndTurn
  <2>2. current \in Links
    BY <1>0, <1>2
  <2>3. link[current].pending \in SUBSET Calls
    BY <1>0, <2>2 DEF LinkRecords
  <2> QED BY <2>1, <2>2, <2>3, GiveUpStep
<1>3. CASE EndTurn /\ ~(current # NoLink /\ link[current].pending # {})
  <2>1. UNCHANGED <<file, link, current, call, run, post, seen, faults>> /\ turn' \in {"live", "over"}
    BY <1>3 DEF EndTurn
  <2>2. Types' /\ SameTables
    BY <2>1 DEF IInv, Types, SameTables
  <2> QED BY <2>2, Frame
<1> QED BY <1>1, <1>2, <1>3

\* A call is registered on its link and written: the one place where a call
\* becomes pending.
Registers(c) ==
    LET l == call[c].link
    IN  /\ call[c].at = "allowed"
        /\ Usable(l)
        /\ call' = [call EXCEPT ![c].at = "pending"]
        /\ \E full \in BOOLEAN :
             /\ link' = [link EXCEPT ![l] =
                  [Written(link[l], <<[kind |-> "call", of |-> c]>>, full)
                     EXCEPT !.pending = @ \cup {c}]]
             /\ FaultIf(full)
        /\ UNCHANGED <<file, current, turn, run, post, seen>>

LEMMA RegistersStep ==
    ASSUME IInv, NEW c \in Calls, Registers(c)
    PROVE  IInv' /\ ~seen
<1> DEFINE l == call[c].link
           events == <<[kind |-> "call", of |-> c]>>
           r(full) == [Written(link[l], events, full) EXCEPT !.pending = @ \cup {c}]
           q == [call[c] EXCEPT !.at = "pending"]
<1>0. /\ link \in [Links -> LinkRecords] /\ call \in [Calls -> CallRecords]
      /\ Tables(link, call, current) /\ Aged(link, post) /\ Shut(link, call)
      /\ call[c].at = "allowed" /\ current = l /\ link[l].server = "open"
      /\ Cardinality(link[l].pending) < MaxPending
      /\ UNCHANGED <<file, current, turn, run, post, seen>>
  BY DEF IInv, Types, Registers, Usable
<1>1. l \in Links /\ link[l] \in LinkRecords
  BY <1>0 DEF Tables, OnItsWay
<1>2. ~seen
  BY <1>0 DEF Shut
<1>3. events \in Seq(Events)
  <2>1. [kind |-> "call", of |-> c] \in Events
    BY DEF Events
  <2> QED BY <2>1
<1>4. PICK full \in BOOLEAN : link' = [link EXCEPT ![l] = r(full)] /\ FaultIf(full)
  BY DEF Registers
<1>5. call' = [call EXCEPT ![c] = q]
  BY <1>0 DEF Registers
<1>6. q \in CallRecords /\ q.at = "pending" /\ q.link = l
  BY <1>0 DEF CallRecords
<1> HIDE DEF events
<1>7. /\ r(full) \in LinkRecords
      /\ r(full).server = link[l].server
      /\ r(full).pending = link[l].pending \cup {c}
      /\ r(full).auth = link[l].auth
  <2> DEFINE w == Written(link[l], events, full)
  <2>1. /\ w \in LinkRecords /\ w.server = link[l].server
        /\ w.pending = link[l].pending /\ w.auth = link[l].auth
    BY <1>1, <1>3, WrittenType
  <2> HIDE DEF w
  <2>2. LET v == [w EXCEPT !.pending = @ \cup {c}]
        IN  /\ v \in LinkRecords /\ v.server = link[l].server
            /\ v.pending = link[l].pending \cup {c} /\ v.auth = link[l].auth
    BY <2>1 DEF LinkRecords
  <2> QED BY <2>2 DEF w
<1> HIDE DEF r, q
<1>8. /\ link' \in [Links -> LinkRecords]
      /\ link'[l].pending = link[l].pending \cup {c}
      /\ \A k \in Links : link'[k].server = link[k].server /\ link'[k].auth = link[k].auth
      /\ \A k \in Links : k # l => link'[k] = link[k]
  BY <1>0, <1>1, <1>4, <1>7
<1>9. /\ call' \in [Calls -> CallRecords]
      /\ call'[c].at = "pending" /\ call'[c].link = l
      /\ \A d \in Calls : d # c => call'[d] = call[d]
  BY <1>0, <1>5, <1>6
<1> HIDE DEF l
<1>10. Cardinality(link[l].pending \cup {c}) <= MaxPending
  <2>1. link[l].pending \in SUBSET Calls
    BY <1>1 DEF LinkRecords
  <2>2. IsFiniteSet(link[l].pending) /\ Cardinality(link[l].pending) \in Nat
    BY <2>1, PendingIsFinite
  <2>3. ASSUME NEW P, IsFiniteSet(P), Cardinality(P) \in Nat
        PROVE  /\ Cardinality(P \cup {c}) \in Nat
               /\ Cardinality(P \cup {c}) <= Cardinality(P) + 1
    <3>1. Cardinality(P \cup {c}) = IF c \in P THEN Cardinality(P) ELSE Cardinality(P) + 1
      BY <2>3, FS_AddElement
    <3> QED BY <2>3, <3>1
  <2>4. /\ Cardinality(link[l].pending \cup {c}) \in Nat
        /\ Cardinality(link[l].pending \cup {c}) <= Cardinality(link[l].pending) + 1
    BY <2>2, <2>3
  <2> QED BY <1>0, <2>2, <2>4, DeviceAssumption
<1>11. Tables(link, call, current)'
  <2>1. \A k \in Links : link'[k].server = "open" <=> current' = k
    BY <1>0, <1>8 DEF Tables
  <2>2. \A k \in Links : \A d \in link'[k].pending :
          call'[d].at = "pending" /\ call'[d].link = k /\ current' = k
    <3>1. ASSUME NEW k \in Links, NEW d \in link'[k].pending
          PROVE  call'[d].at = "pending" /\ call'[d].link = k /\ current' = k
      <4>1. CASE d = c /\ k = l
        BY <1>0, <1>9, <4>1
      <4>2. CASE d \in link[k].pending
        <5>1. d \in Calls /\ call[d].at = "pending" /\ call[d].link = k /\ current = k
          BY <1>0, <4>2 DEF Tables, LinkRecords
        <5> QED BY <1>0, <1>9, <5>1
      <4> QED BY <1>8, <3>1, <4>1, <4>2
    <3> QED BY <3>1
  <2>3. \A d \in Calls : call'[d].at = "pending" =>
          call'[d].link \in Links /\ d \in link'[call'[d].link].pending
    <3>1. ASSUME NEW d \in Calls, call'[d].at = "pending", d # c
          PROVE  call'[d].link \in Links /\ d \in link'[call'[d].link].pending
      <4>1. call'[d] = call[d] /\ call[d].link \in Links /\ d \in link[call[d].link].pending
        BY <1>0, <1>9, <3>1 DEF Tables
      <4> QED BY <1>8, <4>1
    <3> QED BY <1>1, <1>8, <1>9, <3>1
  <2>4. \A d \in Calls : call'[d].at \in OnItsWay =>
          call'[d].link \in Links /\ link'[call'[d].link].server \in {"open", "closed"}
    <3>1. ASSUME NEW d \in Calls, call'[d].at \in OnItsWay
          PROVE  call'[d].link \in Links /\ link'[call'[d].link].server \in {"open", "closed"}
      <4>1. call'[d] = call[d]
        BY <1>9, <3>1 DEF OnItsWay
      <4> QED BY <1>0, <1>8, <3>1, <4>1 DEF Tables
    <3> QED BY <3>1
  <2>5. \A k \in Links : Cardinality(link'[k].pending) <= MaxPending
    BY <1>0, <1>8, <1>10 DEF Tables
  <2> QED BY <2>1, <2>2, <2>3, <2>4, <2>5 DEF Tables
<1>12. Aged(link, post)'
  BY <1>0, <1>8 DEF Aged, AgedLinks
<1>13. Shut(link, call)'
  BY <1>0, <1>2 DEF Shut
<1>14. faults' \in 0 .. MaxFaults
  BY <1>4, FaultType DEF IInv, Types
<1>15. Types'
  BY <1>0, <1>8, <1>9, <1>14 DEF IInv, Types
<1> QED BY <1>2, <1>11, <1>12, <1>13, <1>15 DEF IInv

\* dispatch goes on: it refuses, tears its link down, or registers the call.
LEMMA DispatchContinuesStep ==
    ASSUME IInv, NEW c \in Calls, DispatchContinues(c)
    PROVE  /\ IInv'
           /\ \/ Registers(c)
              \/ \A d \in Calls : call'[d].at = "pending" => call[d].at = "pending"
<1> DEFINE l == call[c].link
<1>0. /\ link \in [Links -> LinkRecords] /\ call \in [Calls -> CallRecords]
      /\ Tables(link, call, current) /\ Aged(link, post) /\ Shut(link, call)
      /\ current \in Links \cup {NoLink} /\ turn \in {"live", "over"}
      /\ UNCHANGED <<file, turn, run, post, seen>>
  BY DEF IInv, Types, DispatchContinues
<1>1. ASSUME call[c].at \in OnItsWay
      PROVE  Eased(link, {c}) /\ l \in Links
  <2>1. \A k \in Links : c \notin link[k].pending
    BY <1>0, <1>1 DEF Tables, OnItsWay
  <2>2. \A k \in Links : link[k].pending = link[k].pending \ {c}
    BY <2>1
  <2> QED BY <1>0, <1>1, <2>2 DEF Eased, Tables
<1>2. \A d \in Calls : Answered({c}, call)[d].at \in {call[d].at, "answered"}
  BY <1>0 DEF Answered, CallRecords
<1>3. CASE call[c].at = "denied" /\ Teardown({l}, link, Answered({c}, call)) /\ UNCHANGED faults
  <2>1. Eased(link, {c}) /\ {l} \in SUBSET Links
    BY <1>1, <1>3 DEF OnItsWay
  <2>2. faults' \in 0 .. MaxFaults
    BY <1>3 DEF IInv, Types
  <2>3. IInv'
    BY <1>0, <1>3, <2>1, <2>2, SettledTeardown
  <2>4. Torn({l}, link, Answered({c}, call))
    BY <1>0, <1>3, <2>1, AnsweredEffect, TeardownEffect
  <2>5. \A d \in Calls : call'[d].at \in {call[d].at, "answered"}
    BY <1>2, <2>4 DEF Torn
  <2> QED BY <2>3, <2>5
<1>4. CASE call[c].at = "allowed" /\ call' = Answered({c}, call) /\ UNCHANGED <<link, current, faults>>
  <2>1. Eased(link, {c})
    BY <1>1, <1>4 DEF OnItsWay
  <2>2. /\ Answered({c}, call) \in [Calls -> CallRecords]
        /\ Tables(link, Answered({c}, call), current)
        /\ Aged(link, post)
        /\ Shut(link, Answered({c}, call))
    BY <2>1, SettledTables
  <2>3. Types'
    BY <1>0, <1>4, <2>2 DEF IInv, Types
  <2>4. Tables(link, call, current)' /\ Aged(link, post)' /\ Shut(link, call)'
    BY <1>0, <1>4, <2>2 DEF Aged, AgedLinks, Shut
  <2> QED BY <1>2, <1>4, <2>3, <2>4 DEF IInv
<1>5. CASE Registers(c)
  BY <1>5, RegistersStep
<1>6. \/ call[c].at = "denied" /\ Teardown({l}, link, Answered({c}, call)) /\ UNCHANGED faults
      \/ call[c].at = "allowed" /\ call' = Answered({c}, call) /\ UNCHANGED <<link, current, faults>>
      \/ Registers(c)
  BY DEF DispatchContinues, Registers
<1> QED BY <1>3, <1>4, <1>5, <1>6

LEMMA RestartStep ==
    ASSUME IInv, Restart
    PROVE  IInv'
<1> DEFINE lost == {c \in Calls : call[c].at \notin {"idle", "answered"}}
           r(l) == [Closed(link[l]) EXCEPT !.auth = "none", !.beat = FALSE]
<1>0. /\ link \in [Links -> LinkRecords] /\ call \in [Calls -> CallRecords]
      /\ Tables(link, call, current) /\ Aged(link, post) /\ Shut(link, call)
      /\ UNCHANGED <<file, seen>> /\ turn' = "over" /\ current' = NoLink
      /\ call' = Answered(lost, call) /\ Fault
      /\ link' = [l \in Links |-> IF link[l].server = "unused" THEN link[l] ELSE r(l)]
      /\ post' = [c \in Calls |-> "none"]
  BY DEF IInv, Types, Restart
<1>1. \A l \in Links : /\ r(l) \in LinkRecords
                       /\ r(l).server = "closed" /\ r(l).pending = {} /\ r(l).auth = "none"
  <2>1. ASSUME NEW l \in Links
        PROVE  /\ r(l) \in LinkRecords
               /\ r(l).server = "closed" /\ r(l).pending = {} /\ r(l).auth = "none"
    <3> DEFINE w == Closed(link[l])
    <3>1. w \in LinkRecords /\ w.server = "closed" /\ w.pending = {}
      BY <1>0, ClosedType
    <3> HIDE DEF w
    <3>2. LET v == [w EXCEPT !.auth = "none", !.beat = FALSE]
          IN  /\ v \in LinkRecords
              /\ v.server = "closed" /\ v.pending = {} /\ v.auth = "none"
      BY <3>1 DEF LinkRecords
    <3> QED BY <3>2 DEF w
  <2> QED BY <2>1
<1> HIDE DEF r
<1>2. /\ link' \in [Links -> LinkRecords]
      /\ \A l \in Links : IF link[l].server = "unused" THEN link'[l] = link[l]
                          ELSE /\ link'[l].server = "closed" /\ link'[l].pending = {}
                               /\ link'[l].auth = "none"
  BY <1>0, <1>1
<1>3. /\ call' \in [Calls -> CallRecords]
      /\ \A c \in Calls : call'[c].at \in {"idle", "answered"}
  <2>1. \A c \in Calls : c \notin lost => call[c].at \in {"idle", "answered"}
    OBVIOUS
  <2> HIDE DEF lost
  <2> QED BY <1>0, <2>1, AnsweredEffect
<1>4. run' \in [Calls -> RunRecords]
  <2>1. Idle \in RunRecords
    BY DEF Idle, RunRecords
  <2> QED BY <2>1 DEF Restart, IInv, Types
<1>5. Types'
  <2>1. faults' \in 0 .. MaxFaults
    BY <1>0, FaultType DEF IInv, Types
  <2> QED BY <1>0, <1>2, <1>3, <1>4, <2>1 DEF IInv, Types
<1>6. Tables(link, call, current)'
  <2>1. \A l \in Links : link'[l].server # "open" /\ link'[l].pending = {}
    <3>1. ASSUME NEW l \in Links, link[l].server = "unused"
          PROVE  link[l].pending = {}
      <4>1. \A c \in link[l].pending : current = l
        BY <1>0 DEF Tables
      <4> QED BY <1>0, <3>1, <4>1 DEF Tables
    <3> QED BY <1>2, <3>1
  <2>2. Cardinality({}) <= MaxPending
    BY FS_EmptySet, DeviceAssumption
  <2>3. \A l \in Links : Cardinality(link'[l].pending) <= MaxPending
    BY <2>1, <2>2
  <2> QED BY <1>0, <1>3, <2>1, <2>3, LinkIsNotNoLink DEF Tables, OnItsWay
<1>7. Aged(link, post)'
  BY <1>0, <1>2 DEF Aged, AgedLinks
<1>8. Shut(link, call)'
  BY <1>0, <1>2, <1>3 DEF Shut
<1> QED BY <1>5, <1>6, <1>7, <1>8 DEF IInv

----------------------------------------------------------------------------
(* Steps that let no call become pending. *)

NoneNew == \A c \in Calls : call'[c].at = "pending" => call[c].at = "pending"

LEMMA AnsweringAddsNone ==
    ASSUME NEW S, NEW cs \in [Calls -> CallRecords], call' = Answered(S, cs),
           \A c \in Calls : cs[c].at = "pending" => call[c].at = "pending"
    PROVE  NoneNew
BY AnsweredEffect DEF NoneNew

LEMMA OtherStepsAddNone ==
    ASSUME IInv, Next, ~\E c \in Calls : DispatchContinues(c)
    PROVE  NoneNew
<1>0. call \in [Calls -> CallRecords]
  BY DEF IInv, Types
<1>1. CASE UNCHANGED call
  BY <1>1 DEF NoneNew
<1>2. ASSUME NEW l \in Links, LinkVerified(l) \/ NoticeClose(l)
      PROVE  NoneNew
  <2>1. call' = call \/ \E S : call' = Answered(S, call)
    BY <1>2 DEF LinkVerified, NoticeClose, Teardown, Connect
  <2> QED BY <1>0, <1>1, <2>1, AnsweringAddsNone
<1>3. ASSUME NEW l \in Links, AuthorizationLoaded(l)
      PROVE  NoneNew
  <2> DEFINE cs(snapshot) == [c \in Calls |->
                 IF call[c].at = "authorizing" /\ call[c].link = l
                 THEN [call[c] EXCEPT
                         !.at = IF snapshot = "listed" THEN "allowed" ELSE "denied"]
                 ELSE call[c]]
  <2> DEFINE ls(full) == [link EXCEPT ![l].auth = "none", ![l].beat = FALSE,
                                      ![l].blocked = @ \/ full]
             D(snapshot) == Unlisted(snapshot) \cup (IF BeatCloses(l, snapshot) THEN {l} ELSE {})
  <2>3. PICK snapshot, full : Teardown(D(snapshot), ls(full), cs(snapshot))
    BY <1>3 DEF AuthorizationLoaded
  <2>1. \E S : call' = Answered(S, cs(snapshot))
    <3> HIDE DEF ls, D, cs
    <3> QED BY <2>3 DEF Teardown
  <2>2. /\ cs(snapshot) \in [Calls -> CallRecords]
        /\ \A c \in Calls : cs(snapshot)[c].at = "pending" => call[c].at = "pending"
    BY <1>0 DEF CallRecords
  <2> HIDE DEF cs
  <2> QED BY <2>1, <2>2, AnsweringAddsNone
<1>4. ASSUME NEW c \in Calls, Dispatch(c)
      PROVE  NoneNew
  <2>1. CASE call' = Answered({c}, call)
    BY <1>0, <2>1, AnsweringAddsNone
  <2>2. CASE call' = [call EXCEPT ![c].at = "authorizing", ![c].link = current]
    BY <1>0, <2>2 DEF NoneNew, CallRecords
  <2> QED BY <1>4, <2>1, <2>2 DEF Dispatch
<1>5. ASSUME NEW l, NEW S, GiveUp(l, S)
      PROVE  NoneNew
  <2>1. Answered(S, call) \in [Calls -> CallRecords]
    BY <1>0, AnsweredEffect
  <2>2. \A c \in Calls : Answered(S, call)[c].at = "pending" => call[c].at = "pending"
    BY <1>0, AnsweredEffect
  <2>3. \E T : call' = Answered(T, Answered(S, call))
    <3> DEFINE after(events, full) ==
                 [link EXCEPT ![l] = [Written(link[l], events, full) EXCEPT !.pending = @ \ S]]
               cancels(order, n) == [i \in 1 .. n |-> [kind |-> "cancel", of |-> order[i]]]
    <3>1. \A D, ls : Teardown(D, ls, Answered(S, call)) => \E T : call' = Answered(T, Answered(S, call))
      BY DEF Teardown
    <3>2. CASE link[l].blocked
      <4>1. Teardown({l}, after(<<>>, TRUE), Answered(S, call))
        BY <1>5, <3>2 DEF GiveUp
      <4> HIDE DEF after
      <4> QED BY <3>1, <4>1
    <3>3. CASE ~link[l].blocked
      <4>1. PICK order, n, full :
              Teardown(IF n < Len(order) THEN {l} ELSE {},
                       after(cancels(order, n), full), Answered(S, call))
        BY <1>5, <3>3 DEF GiveUp
      <4> HIDE DEF after, cancels
      <4> QED BY <3>1, <4>1
    <3> QED BY <3>2, <3>3
  <2> DEFINE cs == Answered(S, call)
  <2>4. cs \in [Calls -> CallRecords] /\ (\A c \in Calls : cs[c].at = "pending" => call[c].at = "pending")
        /\ \E T : call' = Answered(T, cs)
    BY <2>1, <2>2, <2>3
  <2> HIDE DEF cs
  <2> QED BY <2>4, AnsweringAddsNone
<1>6. CASE EndTurn
  BY <1>1, <1>5, <1>6 DEF EndTurn
<1>7. ASSUME NEW c \in Calls, AbortRequest(c) \/ Backstop(c)
      PROVE  NoneNew
  BY <1>5, <1>7 DEF AbortRequest, Backstop
<1>8. ASSUME NEW c \in Calls, PostVerified(c) \/ SettleResult(c)
      PROVE  NoneNew
  <2>1. call' = call \/ \E S : call' = Answered(S, call)
    BY <1>8 DEF PostVerified, SettleResult, Teardown
  <2> QED BY <1>0, <1>1, <2>1, AnsweringAddsNone
<1>9. CASE Restart
  BY <1>0, <1>9, AnsweringAddsNone DEF Restart
<1>10. CASE Revoke \/ Relay
  BY <1>1, <1>10 DEF Revoke, Relay
<1>11. ASSUME NEW l \in Links, Heartbeat(l) \/ Drain(l) \/ DeskStep(l) \/ Cut(l)
       PROVE  NoneNew
  BY <1>1, <1>11 DEF Heartbeat, Drain, DeskStep, Cut, GetLink, Receive, SeeEnd, IdleTimeout, StopLink, Settle
<1>12. ASSUME NEW c \in Calls, RunStep(c) \/ LosePost(c)
       PROVE  NoneNew
  BY <1>1, <1>12 DEF RunStep, LosePost, FinishTool, StopTool, StartPost, DropResult
<1> QED
  BY <1>2, <1>3, <1>4, <1>6, <1>7, <1>8, <1>9, <1>10, <1>11, <1>12
  DEF Next, LinkStep, LoadStep, CallStep, PostStep

----------------------------------------------------------------------------
(* The desktop's tables. *)

\* The events of calls that were dispatched on link l.
Own(l) == {e \in Events : call[e.of].link = l}

\* A wire carries the events of its own link's calls, a call that was not
\* dispatched is unknown to the desktop, and a tool at work has its entry.
DeskOK ==
    /\ \A l \in Links : link[l].wire \in Seq(Own(l))
    /\ \A c \in Calls :
         /\ call[c].at = "idle" => call[c].link = NoLink
         /\ call[c].link = NoLink => run[c] = Idle
         /\ run[c].at \in {"running", "stopping"} => run[c].held
    /\ DesktopLimits

\* Calls keep their link, and none is idle again.
SameLinks(cs) ==
    \A c \in Calls : cs[c].link = call[c].link /\ (cs[c].at = "idle" => call[c].at = "idle")

Dispatches(c) ==
    /\ call[c].at = "idle" /\ call'[c].at # "idle" /\ call'[c].link \in Links
    /\ \A d \in Calls : d # c => call'[d] = call[d]
    /\ UNCHANGED run /\ \A l \in Links : link'[l].wire = link[l].wire

\* Wires among the links ls carry their own calls' events.
Wired(ls) == \A l \in Links : ls[l].wire \in Seq(Own(l))

LEMMA TornKeeps ==
    ASSUME NEW S \in SUBSET Links, NEW ls \in [Links -> LinkRecords],
           NEW cs \in [Calls -> CallRecords], Teardown(S, ls, cs), Wired(ls), SameLinks(cs)
    PROVE  Wired(link') /\ SameLinks(call')
<1> DEFINE torn == {l \in S : ls[l].server = "open"}
           lost == UNION {ls[l].pending : l \in torn}
<1>1. /\ link' = [l \in Links |-> IF l \in torn THEN Closed(ls[l]) ELSE ls[l]]
      /\ call' = Answered(lost, cs)
  BY DEF Teardown
<1> HIDE DEF torn, lost
<1>2. \A l \in Links : Closed(ls[l]).wire = ls[l].wire
  BY DEF Closed, LinkRecords
<1>3. \A c \in Calls : Answered(lost, cs)[c].link = cs[c].link
                       /\ (Answered(lost, cs)[c].at = "idle" => cs[c].at = "idle")
  BY DEF Answered, CallRecords
<1> QED BY <1>1, <1>2, <1>3 DEF Wired, SameLinks

LEMMA AnsweredKeeps ==
    ASSUME NEW S, call \in [Calls -> CallRecords]
    PROVE  Answered(S, call) \in [Calls -> CallRecords] /\ SameLinks(Answered(S, call))
BY DEF Answered, CallRecords, SameLinks

\* A link with own events written to it, or nothing.
LEMMA WrittenKeeps ==
    ASSUME link \in [Links -> LinkRecords], Wired(link), NEW l \in Links,
           NEW events \in Seq(Own(l)), NEW full \in BOOLEAN, NEW S \in SUBSET Calls
    PROVE  LET ls == [link EXCEPT ![l] = [Written(link[l], events, full) EXCEPT !.pending = S]]
           IN  ls \in [Links -> LinkRecords] /\ Wired(ls)
<1> DEFINE w == Written(link[l], events, full)
           r == [w EXCEPT !.pending = S]
<1>1. events \in Seq(Events)
  BY DEF Own
<1>2. w \in LinkRecords
  BY <1>1, WrittenType
<1>3. link[l].wire \in Seq(Own(l)) /\ link[l].wire \o events \in Seq(Own(l))
  BY DEF Wired
<1>4. w.wire \in {link[l].wire, link[l].wire \o events}
  BY DEF Written, LinkRecords
<1> HIDE DEF w
<1>5. r \in LinkRecords /\ r.wire = w.wire
  BY <1>2 DEF LinkRecords
<1> HIDE DEF r
<1>6. [link EXCEPT ![l] = r] \in [Links -> LinkRecords] /\ Wired([link EXCEPT ![l] = r])
  BY <1>3, <1>4, <1>5 DEF Wired
<1> QED BY <1>6 DEF r, w

LEMMA GiveUpKeeps ==
    ASSUME IInv, Wired(link), NEW l \in Links, NEW S \in SUBSET Calls,
           S \subseteq link[l].pending, GiveUp(l, S)
    PROVE  Wired(link') /\ SameLinks(call')
<1> DEFINE after(events, full) ==
             [link EXCEPT ![l] = [Written(link[l], events, full) EXCEPT !.pending = @ \ S]]
           cancels(order, n) == [i \in 1 .. n |-> [kind |-> "cancel", of |-> order[i]]]
           cs == Answered(S, call)
<1>0. /\ link \in [Links -> LinkRecords] /\ cs \in [Calls -> CallRecords] /\ SameLinks(cs)
      /\ \A c \in S : call[c].link = l
  BY AnsweredKeeps DEF IInv, Types, Tables
<1> HIDE DEF cs
<1>1. ASSUME NEW events \in Seq(Own(l)), NEW full \in BOOLEAN
      PROVE  after(events, full) \in [Links -> LinkRecords] /\ Wired(after(events, full))
  <2> DEFINE w == Written(link[l], events, full)
  <2>1. w.pending = link[l].pending
    BY <1>0 DEF Written, LinkRecords
  <2>2. w.pending \ S \in SUBSET Calls
    BY <1>0, <2>1 DEF LinkRecords
  <2>3. /\ [link EXCEPT ![l] = [w EXCEPT !.pending = w.pending \ S]] \in [Links -> LinkRecords]
        /\ Wired([link EXCEPT ![l] = [w EXCEPT !.pending = w.pending \ S]])
    BY <1>0, <2>2, WrittenKeeps
  <2> QED BY <2>3
<1>2. ASSUME NEW D \in SUBSET Links, NEW events \in Seq(Own(l)), NEW full \in BOOLEAN,
             Teardown(D, after(events, full), cs)
      PROVE  Wired(link') /\ SameLinks(call')
  <2> DEFINE ls == after(events, full)
  <2>1. ls \in [Links -> LinkRecords] /\ Wired(ls)
    BY <1>1
  <2>2. Teardown(D, ls, cs)
    BY <1>2
  <2> HIDE DEF ls
  <2> QED BY <1>0, <2>1, <2>2, TornKeeps
<1>3. CASE link[l].blocked
  <2>1. Teardown({l}, after(<<>>, TRUE), cs) /\ <<>> \in Seq(Own(l))
    BY <1>3 DEF GiveUp, cs
  <2> HIDE DEF after
  <2> QED BY <1>2, <2>1
<1>4. CASE ~link[l].blocked
  <2>1. PICK order \in SetToSeqs(S), full \in BOOLEAN : \E n \in 1 .. Len(order) :
          Teardown(IF n < Len(order) THEN {l} ELSE {}, after(cancels(order, n), full), cs)
    BY <1>4 DEF GiveUp, cs
  <2>2. PICK n \in 1 .. Len(order) :
          Teardown(IF n < Len(order) THEN {l} ELSE {}, after(cancels(order, n), full), cs)
    BY <2>1
  <2>3. Cardinality(S) \in Nat
    BY PendingIsFinite
  <2>4. order \in [1 .. Cardinality(S) -> S]
    BY DEF SetToSeqs
  <2>5. order \in Seq(S) /\ Len(order) = Cardinality(S)
    BY <2>3, <2>4
  <2>6. \A i \in 1 .. n : order[i] \in S
    BY <2>3, <2>4, <2>5
  <2>7. cancels(order, n) \in Seq(Own(l))
    <3>1. \A i \in 1 .. n : [kind |-> "cancel", of |-> order[i]] \in Own(l)
      BY <1>0, <2>6 DEF Own, Events
    <3>2. n \in Nat
      BY <2>3, <2>5
    <3>3. cancels(order, n) \in [1 .. n -> Own(l)]
      BY <3>1
    <3> QED BY <3>2, <3>3
  <2> DEFINE events == cancels(order, n)
             D == IF n < Len(order) THEN {l} ELSE {}
  <2>8. Teardown(D, after(events, full), cs) /\ D \in SUBSET Links /\ events \in Seq(Own(l))
    BY <2>2, <2>7
  <2> HIDE DEF events, D, cancels, after
  <2> QED BY <1>2, <2>8
<1> QED BY <1>3, <1>4

\* Every step leaves own events on the wires, and only Dispatch gives a link.
LEMMA WiresStep ==
    ASSUME IInv, Wired(link), [Next]_vars
    PROVE  Wired(link') /\ (SameLinks(call') \/ \E c \in Calls : Dispatches(c))
<1>0. /\ link \in [Links -> LinkRecords] /\ call \in [Calls -> CallRecords] /\ SameLinks(call)
      /\ current \in Links \cup {NoLink} /\ file \in Files
  BY DEF IInv, Types, SameLinks
<1>1. CASE UNCHANGED <<link, call>>
  BY <1>0, <1>1 DEF Wired, SameLinks
<1>2. ASSUME NEW D \in SUBSET Links, Teardown(D, link, call) PROVE Wired(link') /\ SameLinks(call')
  BY <1>0, <1>2, TornKeeps
\* Links.
<1>3. ASSUME NEW l \in Links, LinkVerified(l) PROVE Wired(link') /\ SameLinks(call')
  <2>1. CASE \E full \in BOOLEAN : Connect(l, full)
    <3>1. PICK full \in BOOLEAN : Connect(l, full)
      BY <2>1
    <3> DEFINE r == [link[l] EXCEPT !.server = "open", !.auth = "none", !.blocked = full]
               fresh == [link EXCEPT ![l] = r]
    <3>2. r \in LinkRecords /\ r.wire = link[l].wire
      BY <1>0 DEF LinkRecords
    <3>4. link' = [k \in Links |-> IF k = current THEN Closed(fresh[k]) ELSE fresh[k]]
      <4>1. fresh = [link EXCEPT ![l].server = "open", ![l].auth = "none", ![l].blocked = full]
        BY <1>0
      <4>2. link' = [k \in Links |->
                       IF k = current
                       THEN Closed([link EXCEPT ![l].server = "open", ![l].auth = "none",
                                                ![l].blocked = full][k])
                       ELSE [link EXCEPT ![l].server = "open", ![l].auth = "none",
                                         ![l].blocked = full][k]]
        BY <3>1 DEF Connect
      <4> HIDE DEF fresh
      <4> QED BY <4>1, <4>2
    <3> HIDE DEF r
    <3>3. fresh \in [Links -> LinkRecords] /\ Wired(fresh)
      BY <1>0, <3>2 DEF Wired
    <3> HIDE DEF fresh
    <3>5. \A k \in Links : Closed(fresh[k]).wire = fresh[k].wire
      BY <3>3 DEF Closed, LinkRecords
    <3>6. call' = call \/ \E S : call' = Answered(S, call)
      BY <3>1 DEF Connect
    <3> QED BY <1>0, <3>3, <3>4, <3>5, <3>6, AnsweredKeeps DEF Wired
  <2>2. ASSUME NEW snapshot, Teardown(Unlisted(snapshot),
                         [link EXCEPT ![l] = [Closed(@) EXCEPT !.auth = "none"]], call)
        PROVE  Wired(link') /\ SameLinks(call')
    <3> DEFINE r == [Closed(link[l]) EXCEPT !.auth = "none"]
               ls == [link EXCEPT ![l] = r]
    <3>1. r \in LinkRecords /\ r.wire = link[l].wire
      BY <1>0 DEF Closed, LinkRecords
    <3>2. Teardown(Unlisted(snapshot), ls, call) /\ Unlisted(snapshot) \in SUBSET Links
      BY <2>2 DEF Unlisted
    <3> HIDE DEF r
    <3>3. ls \in [Links -> LinkRecords] /\ Wired(ls)
      BY <1>0, <3>1 DEF Wired
    <3> HIDE DEF ls
    <3> QED BY <1>0, <3>2, <3>3, TornKeeps
  <2> QED BY <1>3, <2>1, <2>2 DEF LinkVerified
<1>4. ASSUME NEW l \in Links, AuthorizationLoaded(l) PROVE Wired(link') /\ SameLinks(call')
  <2> DEFINE cs(snapshot) == [c \in Calls |->
                 IF call[c].at = "authorizing" /\ call[c].link = l
                 THEN [call[c] EXCEPT
                         !.at = IF snapshot = "listed" THEN "allowed" ELSE "denied"]
                 ELSE call[c]]
             r(full) == [link[l] EXCEPT !.auth = "none", !.beat = FALSE, !.blocked = @ \/ full]
             ls(full) == [link EXCEPT ![l] = r(full)]
             D(snapshot) == Unlisted(snapshot) \cup (IF BeatCloses(l, snapshot) THEN {l} ELSE {})
  <2>1. PICK snapshot \in Loads(link[l].auth), full \in BOOLEAN :
          Teardown(D(snapshot), ls(full), cs(snapshot))
    <3>1. \A full \in BOOLEAN :
            ls(full) = [link EXCEPT ![l].auth = "none", ![l].beat = FALSE,
                                    ![l].blocked = @ \/ full]
      BY <1>0
    <3> HIDE DEF ls
    <3> QED BY <1>4, <3>1 DEF AuthorizationLoaded
  <2>2. D(snapshot) \in SUBSET Links
    BY DEF Unlisted
  <2>3. cs(snapshot) \in [Calls -> CallRecords] /\ SameLinks(cs(snapshot))
    BY <1>0 DEF CallRecords, SameLinks
  <2>4. r(full) \in LinkRecords /\ r(full).wire = link[l].wire
    BY <1>0 DEF LinkRecords
  <2> HIDE DEF r, D, cs
  <2>5. ls(full) \in [Links -> LinkRecords] /\ Wired(ls(full))
    BY <1>0, <2>4 DEF Wired
  <2> HIDE DEF ls
  <2> QED BY <2>1, <2>2, <2>3, <2>5, TornKeeps
<1>5. ASSUME NEW l \in Links, Heartbeat(l) \/ Drain(l) \/ GetLink(l) \/ Cut(l)
      PROVE  Wired(link') /\ SameLinks(call')
  <2>1. PICK r \in LinkRecords : link' = [link EXCEPT ![l] = r] /\ r.wire \in {link[l].wire, <<>>}
    <3>1. CASE Heartbeat(l)
      <4> DEFINE r == [Asked(link[l]) EXCEPT !.beat = TRUE]
      <4>1. r \in LinkRecords /\ r.wire = link[l].wire
        BY <1>0 DEF Asked, LinkRecords
      <4> QED BY <3>1, <4>1 DEF Heartbeat
    <3>2. CASE Drain(l)
      <4> DEFINE r == [link[l] EXCEPT !.blocked = FALSE]
      <4>1. r \in LinkRecords /\ r.wire = link[l].wire
        BY <1>0 DEF LinkRecords
      <4> QED BY <3>2, <4>1 DEF Drain
    <3>3. CASE GetLink(l)
      <4> DEFINE r == [link[l] EXCEPT !.server = "verifying", !.auth = file, !.desk = TRUE]
      <4>1. r \in LinkRecords /\ r.wire = link[l].wire
        BY <1>0 DEF LinkRecords
      <4> QED BY <3>3, <4>1 DEF GetLink
    <3>4. CASE Cut(l)
      <4> DEFINE r == [link[l] EXCEPT !.net = "cut", !.wire = <<>>]
      <4>0. <<>> \in Seq(Events)
        OBVIOUS
      <4>1. r \in LinkRecords /\ r.wire = <<>>
        BY <1>0, <4>0 DEF LinkRecords
      <4> QED BY <3>4, <4>1 DEF Cut
    <3> QED BY <1>5, <3>1, <3>2, <3>3, <3>4
  <2>2. r.wire \in Seq(Own(l))
    <3>1. <<>> \in Seq(Own(l))
      OBVIOUS
    <3> QED BY <2>1, <3>1 DEF Wired
  <2>3. call' = call
    BY <1>5 DEF Heartbeat, Drain, GetLink, Cut
  <2> QED BY <1>0, <2>1, <2>2, <2>3 DEF Wired
<1>6. CASE Relay
  <2> DEFINE r == [link[current] EXCEPT !.blocked = TRUE]
  <2>1. current \in Links /\ link' = [link EXCEPT ![current] = r] /\ call' = call
    BY <1>0, <1>6 DEF Relay
  <2>2. r.wire = link[current].wire
    BY <1>0, <2>1 DEF LinkRecords
  <2> HIDE DEF r
  <2> QED BY <1>0, <2>1, <2>2 DEF Wired
<1>7. ASSUME NEW l \in Links, NoticeClose(l) PROVE Wired(link') /\ SameLinks(call')
  BY <1>2, <1>7 DEF NoticeClose
\* Calls.
<1>8. ASSUME NEW c \in Calls, Dispatch(c)
      PROVE  Wired(link') /\ (SameLinks(call') \/ Dispatches(c))
  <2>1. CASE current = NoLink
    BY <1>0, <1>8, <2>1, AnsweredKeeps DEF Dispatch, Wired
  <2>2. CASE current # NoLink
    <3> DEFINE r == Asked(link[current])
               q == [call[c] EXCEPT !.at = "authorizing", !.link = current]
    <3>1. /\ current \in Links /\ call[c].at = "idle"
          /\ link' = [link EXCEPT ![current] = r] /\ call' = [call EXCEPT ![c] = q]
          /\ UNCHANGED run
      BY <1>0, <1>8, <2>2 DEF Dispatch
    <3>2. r.wire = link[current].wire
      BY <1>0, <3>1 DEF Asked, LinkRecords
    <3>3. q.at = "authorizing" /\ q.link = current
      BY <1>0 DEF CallRecords
    <3> HIDE DEF r, q
    <3>4. \A l \in Links : link'[l].wire = link[l].wire
      BY <1>0, <3>1, <3>2
    <3>5. call'[c] = q /\ \A d \in Calls : d # c => call'[d] = call[d]
      BY <1>0, <3>1
    <3> QED BY <3>1, <3>3, <3>4, <3>5 DEF Wired, Dispatches
  <2> QED BY <2>1, <2>2
<1>9. ASSUME NEW c \in Calls, DispatchContinues(c) PROVE Wired(link') /\ SameLinks(call')
  <2> DEFINE l == call[c].link
  <2>1. CASE call[c].at = "denied" /\ Teardown({l}, link, Answered({c}, call))
    <3>1. {l} \in SUBSET Links
      BY <2>1 DEF IInv, Tables, OnItsWay
    <3> QED BY <1>0, <2>1, <3>1, AnsweredKeeps, TornKeeps
  <2>2. CASE call' = Answered({c}, call) /\ UNCHANGED link
    BY <1>0, <2>2, AnsweredKeeps DEF Wired
  <2>3. CASE Registers(c)
    <3>1. l \in Links /\ call[c].at = "allowed"
      BY <2>3 DEF Registers, IInv, Tables, OnItsWay
    <3> DEFINE events == <<[kind |-> "call", of |-> c]>>
               S == link[l].pending \cup {c}
    <3>2. PICK full \in BOOLEAN :
            link' = [link EXCEPT ![l] = [Written(link[l], events, full) EXCEPT !.pending = @ \cup {c}]]
      BY <2>3 DEF Registers
    <3>3. events \in Seq(Own(l))
      <4>1. [kind |-> "call", of |-> c] \in Own(l)
        BY DEF Own, Events
      <4> QED BY <4>1
    <3>4. S \in SUBSET Calls
      BY <1>0, <3>1 DEF LinkRecords
    <3>5. Written(link[l], events, full).pending = link[l].pending
      BY <1>0, <3>1 DEF Written, LinkRecords
    <3> HIDE DEF events
    <3>6. link' = [link EXCEPT ![l] = [Written(link[l], events, full) EXCEPT !.pending = S]]
      BY <3>2, <3>5
    <3>7. Wired(link')
      <4> HIDE DEF S, l
      <4> QED BY <1>0, <3>1, <3>3, <3>4, <3>6, WrittenKeeps
    <3>8. SameLinks(call')
      BY <1>0, <2>3 DEF Registers, SameLinks, CallRecords
    <3> QED BY <3>7, <3>8
  <2> QED BY <1>9, <2>1, <2>2, <2>3 DEF DispatchContinues, Registers
<1>10. CASE EndTurn
  <2>1. CASE GiveUp(current, link[current].pending) /\ current # NoLink
    BY <1>0, <2>1, GiveUpKeeps DEF LinkRecords
  <2> QED BY <1>1, <1>10, <2>1 DEF EndTurn
<1>11. ASSUME NEW c \in Calls, AbortRequest(c) \/ Backstop(c) PROVE Wired(link') /\ SameLinks(call')
  <2>1. call[c].link \in Links /\ {c} \subseteq link[call[c].link].pending /\ GiveUp(call[c].link, {c})
    BY <1>11 DEF AbortRequest, Backstop, IInv, Tables
  <2> QED BY <2>1, GiveUpKeeps
\* Results.
<1>12. ASSUME NEW c \in Calls, PostVerified(c) PROVE Wired(link') /\ SameLinks(call')
  <2>1. \E snapshot : Teardown(Unlisted(snapshot), link, call)
    BY <1>12 DEF PostVerified
  <2> QED BY <1>2, <2>1 DEF Unlisted
<1>13. ASSUME NEW c \in Calls, SettleResult(c) PROVE Wired(link') /\ SameLinks(call')
  <2>1. CASE current \in Links /\ call' = Answered({c}, call)
             /\ link' = [link EXCEPT ![current] = [link[current] EXCEPT !.pending = @ \ {c}]]
    <3> DEFINE r == [link[current] EXCEPT !.pending = @ \ {c}]
    <3>1. r.wire = link[current].wire
      BY <1>0, <2>1 DEF LinkRecords
    <3> HIDE DEF r
    <3>2. link' = [link EXCEPT ![current] = r]
      BY <2>1 DEF r
    <3> QED BY <1>0, <2>1, <3>1, <3>2, AnsweredKeeps DEF Wired
  <2> QED BY <1>0, <1>1, <1>13, <2>1 DEF SettleResult
\* The desktop and the environment.
<1>14. ASSUME NEW l \in Links, Receive(l) PROVE Wired(link') /\ SameLinks(call')
  <2> DEFINE r == [link[l] EXCEPT !.wire = Tail(link[l].wire)]
  <2>1. link' = [link EXCEPT ![l] = r] /\ call' = call /\ link[l].wire # <<>>
    BY <1>14 DEF Receive
  <2>2. r.wire = Tail(link[l].wire)
    BY <1>0 DEF LinkRecords
  <2>3. r.wire \in Seq(Own(l))
    BY <2>1, <2>2 DEF Wired
  <2> HIDE DEF r
  <2> QED BY <1>0, <2>1, <2>3 DEF Wired
<1>15. ASSUME NEW l \in Links, SeeEnd(l) \/ IdleTimeout(l) \/ StopLink(l)
       PROVE  Wired(link') /\ SameLinks(call')
  <2> DEFINE r == [link[l] EXCEPT !.desk = FALSE, !.wire = <<>>, !.net = "cut"]
  <2>1. link' = [link EXCEPT ![l] = r] /\ call' = call
    BY <1>15 DEF SeeEnd, IdleTimeout, StopLink, Settle
  <2>2. r.wire = <<>> /\ <<>> \in Seq(Own(l))
    BY <1>0 DEF LinkRecords
  <2> HIDE DEF r
  <2> QED BY <1>0, <2>1, <2>2 DEF Wired
<1>16. CASE Restart
  <2>1. \A l \in Links : [Closed(link[l]) EXCEPT !.auth = "none", !.beat = FALSE].wire = link[l].wire
    BY <1>0 DEF Closed, LinkRecords
  <2>2. \A l \in Links : link'[l].wire = link[l].wire
    BY <1>16, <2>1 DEF Restart
  <2>3. \E S : call' = Answered(S, call)
    BY <1>16 DEF Restart
  <2> QED BY <1>0, <2>2, <2>3, AnsweredKeeps DEF Wired
<1>17. CASE \/ UNCHANGED vars \/ Revoke
            \/ \E c \in Calls : RunStep(c) \/ LosePost(c)
  BY <1>1, <1>17 DEF vars, Revoke, RunStep, FinishTool, StopTool, StartPost, DropResult, LosePost
<1> QED BY <1>3, <1>4, <1>5, <1>6, <1>7, <1>8, <1>9, <1>10, <1>11, <1>12, <1>13, <1>14, <1>15,
           <1>16, <1>17
        DEF Next, LinkStep, LoadStep, CallStep, PostStep, DeskStep

\* Tools stop, results are dropped or arrive: nothing is added to either table.
Lessens == \A c \in Calls : run'[c] \in {run[c], Idle, Stopped(run[c])}

LEMMA RunShape ==
    ASSUME IInv, [Next]_vars
    PROVE  \/ Lessens
           \/ \E l \in Links : Receive(l)
           \/ \E c \in Calls, h \in BOOLEAN :
                /\ Report(c, h) /\ UNCHANGED call
                /\ run[c] # Idle /\ (h => run[c].held \/ run[c].at = "running")
<1>0. run \in [Calls -> RunRecords]
  BY DEF IInv, Types
<1>1. CASE UNCHANGED run
  BY <1>1 DEF Lessens
<1>2. ASSUME NEW c \in Calls, run' = Replied(c) PROVE Lessens
  BY <1>0, <1>2 DEF Replied, Lessens
<1>3. ASSUME NEW l \in Links, Settle(l) PROVE Lessens
  BY <1>0, <1>3 DEF Settle, Lessens
<1>4. CASE Restart
  BY <1>0, <1>4 DEF Restart, Lessens
<1>5. ASSUME NEW c \in Calls, FinishTool(c) \/ StartPost(c)
      PROVE  \E h \in BOOLEAN :
               /\ Report(c, h) /\ UNCHANGED call
               /\ run[c] # Idle /\ (h => run[c].held \/ run[c].at = "running")
  <2>1. run[c] # Idle /\ run[c].held \in BOOLEAN
    <3>1. run[c] \in RunRecords /\ run[c].at # "none"
      BY <1>0, <1>5 DEF FinishTool, StartPost
    <3> QED BY <3>1 DEF Idle, RunRecords
  <2>2. CASE FinishTool(c)
    BY <2>1, <2>2 DEF FinishTool
  <2>3. CASE StartPost(c)
    BY <2>1, <2>3 DEF StartPost
  <2> QED BY <1>5, <2>2, <2>3
<1>6. ASSUME NEW c \in Calls, StopTool(c) \/ DropResult(c) PROVE Lessens
  BY <1>0, <1>6 DEF StopTool, DropResult, Lessens
<1>7. ASSUME NEW c \in Calls, CallStep(c) PROVE UNCHANGED run
  BY <1>7 DEF CallStep, Dispatch, DispatchContinues, AbortRequest, Backstop
<1>8. ASSUME NEW c \in Calls, PostStep(c) \/ LosePost(c) PROVE UNCHANGED run \/ run' = Replied(c)
  BY <1>8 DEF PostStep, PostVerified, SettleResult, LosePost
<1>9. ASSUME NEW l \in Links, LinkStep(l) \/ GetLink(l) \/ Cut(l) PROVE UNCHANGED run
  BY <1>9 DEF LinkStep, LoadStep, LinkVerified, AuthorizationLoaded, Heartbeat, Drain, NoticeClose,
              GetLink, Cut
<1>10. CASE UNCHANGED vars \/ Revoke \/ Relay \/ EndTurn
  BY <1>1, <1>10 DEF vars, Revoke, Relay, EndTurn
<1> QED
  BY <1>1, <1>2, <1>3, <1>4, <1>5, <1>6, <1>7, <1>8, <1>9, <1>10
  DEF Next, DeskStep, SeeEnd, IdleTimeout, StopLink, RunStep

LEMMA Counts ==
    ASSUME NEW S \in SUBSET Calls, NEW T \in SUBSET Calls, NEW M \in Nat \ {0},
           Cardinality(S) <= M,
           T \subseteq S \/ (Cardinality(S) < M /\ \E c \in Calls : T \subseteq S \cup {c})
    PROVE  Cardinality(T) <= M
<1>1. IsFiniteSet(S) /\ Cardinality(S) \in Nat /\ Cardinality(T) \in Nat
  BY PendingIsFinite
<1>2. CASE T \subseteq S
  <2>1. Cardinality(T) <= Cardinality(S)
    BY <1>1, <1>2, FS_Subset
  <2> QED BY <1>1, <2>1
<1>3. CASE Cardinality(S) < M /\ \E c \in Calls : T \subseteq S \cup {c}
  <2>1. PICK c \in Calls : T \subseteq S \cup {c}
    BY <1>3
  <2>2. IsFiniteSet(S \cup {c}) /\ Cardinality(S \cup {c}) \in {Cardinality(S), Cardinality(S) + 1}
    BY <1>1, FS_AddElement
  <2>3. Cardinality(T) <= Cardinality(S \cup {c})
    BY <2>1, <2>2, FS_Subset
  <2> QED BY <1>1, <1>3, <2>2, <2>3
<1> QED BY <1>2, <1>3

\* The two tables grow by one at most, where they are not full.
Grows(T, S) ==
    T \subseteq S \/ (Cardinality(S) < MaxInflight /\ \E c \in Calls : T \subseteq S \cup {c})

LEMMA DeskStepOK == IInv /\ DeskOK /\ [Next]_vars => DeskOK'
<1> SUFFICES ASSUME IInv, DeskOK, [Next]_vars PROVE DeskOK'
  OBVIOUS
<1>0. /\ run \in [Calls -> RunRecords] /\ call \in [Calls -> CallRecords]
      /\ link \in [Links -> LinkRecords] /\ NoLink \notin Links
  BY LinkIsNotNoLink DEF IInv, Types
<1>1. /\ \A c \in Calls : call[c].at = "idle" => call[c].link = NoLink
      /\ \A c \in Calls : call[c].link = NoLink => run[c] = Idle
      /\ \A c \in Calls : run[c].at \in {"running", "stopping"} => run[c].held
      /\ \A l \in Links : Cardinality(Inflight(l)) <= MaxInflight
      /\ \A l \in Links : Cardinality(Posting(l)) <= MaxInflight
  BY DEF DeskOK, DesktopLimits
<1>2. Wired(link') /\ (SameLinks(call') \/ \E c \in Calls : Dispatches(c))
  BY WiresStep DEF DeskOK, Wired
\* A call's link is the one it had, unless it is dispatched and unknown.
<1>3. \A c \in Calls : call'[c].link = call[c].link \/ (run[c] = Idle /\ run' = run /\ call'[c].link # NoLink)
  BY <1>0, <1>1, <1>2 DEF SameLinks, Dispatches
<1>4. \A l \in Links : link'[l].wire \in Seq(Own(l)')
  <2>1. ASSUME NEW l \in Links PROVE Own(l) \subseteq Own(l)'
    <3>1. \A c \in Calls : call[c].link = l => call'[c].link = l
      BY <1>0, <1>1, <1>2 DEF SameLinks, Dispatches
    <3> QED BY <3>1 DEF Own, Events
  <2> QED BY <1>2, <2>1 DEF Wired
<1>5. \A c \in Calls : call'[c].at = "idle" => call'[c].link = NoLink
  BY <1>1, <1>2 DEF SameLinks, Dispatches
<1>6. SUFFICES
        /\ \A c \in Calls : call'[c].link = NoLink => run'[c] = Idle
        /\ \A c \in Calls : run'[c].at \in {"running", "stopping"} => run'[c].held
        /\ \A l \in Links : Grows(Inflight(l)', Inflight(l)) /\ Grows(Posting(l)', Posting(l))
  <2>1. MaxInflight \in Nat \ {0}
    BY DeviceAssumption
  <2>2. \A l \in Links : /\ Inflight(l) \in SUBSET Calls /\ Posting(l) \in SUBSET Calls
                         /\ Inflight(l)' \in SUBSET Calls /\ Posting(l)' \in SUBSET Calls
    BY DEF Inflight, Posting
  <2>3. ASSUME NEW l \in Links, Grows(Inflight(l)', Inflight(l)) PROVE Cardinality(Inflight(l)') <= MaxInflight
    BY <1>1, <2>1, <2>2, <2>3, Counts DEF Grows
  <2>4. ASSUME NEW l \in Links, Grows(Posting(l)', Posting(l)) PROVE Cardinality(Posting(l)') <= MaxInflight
    BY <1>1, <2>1, <2>2, <2>4, Counts DEF Grows
  <2> QED BY <1>4, <1>5, <2>3, <2>4 DEF DeskOK, DesktopLimits
<1>7. CASE Lessens
  <2>1. \A c \in Calls : run'[c] \in {run[c], Idle, Stopped(run[c])}
    BY <1>7 DEF Lessens
  <2>2. \A c \in Calls : /\ run[c] = Idle => run'[c] = Idle
                         /\ run'[c].held => run[c].held
                         /\ run'[c].at = "posting" => run[c].at = "posting"
                         /\ run'[c].at \in {"running", "stopping"} =>
                              run[c].at \in {"running", "stopping"} /\ run'[c].held = run[c].held
    <3> TAKE c \in Calls
    <3>1. run[c] \in RunRecords
      BY <1>0
    <3>2. CASE run'[c] = run[c] \/ run'[c] = Idle
      BY <3>2 DEF Idle
    <3>3. CASE run'[c] = Stopped(run[c])
      <4>1. CASE run[c].at = "running"
        <5>1. run'[c] = [run[c] EXCEPT !.at = "stopping"]
          BY <3>3, <4>1 DEF Stopped
        <5>2. run'[c].at = "stopping" /\ run'[c].held = run[c].held
          BY <3>1, <5>1 DEF RunRecords
        <5> QED BY <4>1, <5>2 DEF Idle
      <4>2. CASE run[c].at # "running"
        <5>1. run'[c] = Idle \/ run'[c] = run[c]
          BY <3>3, <4>2 DEF Stopped
        <5> QED BY <3>2, <5>1
      <4> QED BY <4>1, <4>2
    <3> QED BY <2>1, <3>2, <3>3
  <2>3. \A l \in Links : Inflight(l)' \subseteq Inflight(l) /\ Posting(l)' \subseteq Posting(l)
    BY <1>3, <2>2 DEF Inflight, Posting, Idle
  <2> QED BY <1>1, <1>3, <2>2, <2>3 DEF Grows
<1>8. ASSUME NEW c \in Calls, NEW h \in BOOLEAN, Report(c, h), UNCHANGED call,
             h => run[c].held, call[c].link # NoLink
      PROVE  /\ \A d \in Calls : call'[d].link = NoLink => run'[d] = Idle
             /\ \A d \in Calls : run'[d].at \in {"running", "stopping"} => run'[d].held
             /\ \A l \in Links : Grows(Inflight(l)', Inflight(l)) /\ Grows(Posting(l)', Posting(l))
  <2>1. PICK at \in {"posting", "waiting"} :
          /\ run' = [run EXCEPT ![c] = [at |-> at, held |-> h]]
          /\ at = "posting" => Cardinality(Posting(call[c].link)) < MaxInflight
    BY <1>8 DEF Report, PermitFree
  <2>2. /\ run'[c].at = at /\ run'[c].held = h
        /\ \A d \in Calls : d # c => run'[d] = run[d]
    BY <1>0, <2>1
  <2>3. \A l \in Links : Inflight(l)' \subseteq Inflight(l)
    BY <1>8, <2>2 DEF Inflight
  <2>4. \A l \in Links : l # call[c].link => Posting(l)' \subseteq Posting(l)
    BY <1>8, <2>2 DEF Posting
  <2>5. \A l \in Links : Posting(l)' \subseteq Posting(l) \cup {c}
    BY <1>8, <2>2 DEF Posting
  <2>6. at # "posting" => \A l \in Links : Posting(l)' \subseteq Posting(l)
    BY <1>8, <2>2 DEF Posting
  <2> QED BY <1>1, <1>8, <2>1, <2>2, <2>3, <2>4, <2>5, <2>6 DEF Grows
<1>9. ASSUME NEW l \in Links, Receive(l)
      PROVE  /\ \A d \in Calls : call'[d].link = NoLink => run'[d] = Idle
             /\ \A d \in Calls : run'[d].at \in {"running", "stopping"} => run'[d].held
             /\ \A k \in Links : Grows(Inflight(k)', Inflight(k)) /\ Grows(Posting(k)', Posting(k))
  <2> DEFINE e == Head(link[l].wire)
  <2>1. e \in Own(l)
    BY <1>9 DEF DeskOK, Receive
  <2>2. e.of \in Calls /\ call[e.of].link = l /\ e.kind \in {"call", "cancel"}
    BY <2>1 DEF Own, Events
  <2>3. UNCHANGED call
    BY <1>9 DEF Receive
  <2>4. CASE e.kind = "call" /\ Full(l)
    <3>1. Report(e.of, FALSE)
      BY <1>9, <2>4 DEF Receive
    <3> HIDE DEF e
    <3> QED BY <1>0, <1>8, <2>2, <2>3, <3>1
  <2>5. CASE ~(e.kind = "call" /\ Full(l))
    <3> DEFINE r == IF e.kind = "call" THEN [at |-> "running", held |-> TRUE]
                    ELSE IF run[e.of].held THEN Stopped(run[e.of]) ELSE run[e.of]
    <3>1. run' = [run EXCEPT ![e.of] = r]
      BY <1>9, <2>5 DEF Receive
    <3> HIDE DEF e
    <3>2. run'[e.of] = r /\ \A d \in Calls : d # e.of => run'[d] = run[d]
      BY <1>0, <2>2, <3>1
    <3>3. CASE e.kind = "cancel"
      <4>1. Lessens
        BY <2>2, <3>2, <3>3 DEF Lessens
      <4> QED BY <1>7, <4>1
    <3>4. CASE e.kind = "call" /\ Cardinality(Inflight(l)) < MaxInflight
      <4>1. run'[e.of].at = "running" /\ run'[e.of].held
        BY <3>2, <3>4
      <4>2. \A k \in Links : k # l => Inflight(k)' \subseteq Inflight(k)
        BY <2>2, <2>3, <3>2 DEF Inflight
      <4>3. Inflight(l)' \subseteq Inflight(l) \cup {e.of}
        BY <2>3, <3>2 DEF Inflight
      <4>4. \A k \in Links : Posting(k)' \subseteq Posting(k)
        BY <2>3, <3>2, <4>1 DEF Posting
      <4> QED BY <1>0, <1>1, <2>2, <2>3, <3>2, <3>4, <4>1, <4>2, <4>3, <4>4 DEF Grows
    <3>5. Cardinality(Inflight(l)) \in Nat /\ MaxInflight \in Nat
      BY PendingIsFinite, DeviceAssumption DEF Inflight
    <3> QED BY <2>2, <2>5, <3>3, <3>4, <3>5 DEF Full
  <2> QED BY <2>4, <2>5
<1> QED BY <1>0, <1>1, <1>7, <1>8, <1>9, RunShape

----------------------------------------------------------------------------
(* The theorems. *)

LEMMA InitialIsOrderly == Init => IInv
<1> SUFFICES ASSUME Init PROVE IInv
  OBVIOUS
<1>1. Types
  <2>1. <<>> \in Seq(Events)
    OBVIOUS
  <2>2. [server |-> "unused", blocked |-> FALSE, auth |-> "none", beat |-> FALSE, pending |-> {},
         wire |-> <<>>, net |-> "up", desk |-> FALSE] \in LinkRecords
    BY <2>1 DEF LinkRecords
  <2>3. [at |-> "idle", link |-> NoLink] \in CallRecords /\ Idle \in RunRecords
    BY DEF CallRecords, RunRecords, Idle
  <2>4. /\ link \in [Links -> LinkRecords] /\ call \in [Calls -> CallRecords]
        /\ run \in [Calls -> RunRecords]
    BY <2>2, <2>3 DEF Init
  <2>5. post \in [Calls -> {"none", "verified"} \cup Files]
    BY DEF Init
  <2>6. faults \in 0 .. MaxFaults
    BY DeviceAssumption DEF Init
  <2> QED BY <2>4, <2>5, <2>6 DEF Init, Types, Files
<1>2. Tables(link, call, current)
  <2>1. /\ \A l \in Links : link[l].server = "unused" /\ link[l].pending = {}
        /\ \A c \in Calls : call[c].at = "idle"
        /\ current = NoLink
    BY DEF Init
  <2>2. Cardinality({}) <= MaxPending
    BY FS_EmptySet, DeviceAssumption
  <2>3. \A l \in Links : Cardinality(link[l].pending) <= MaxPending
    BY <2>1, <2>2
  <2> QED BY <2>1, <2>3, LinkIsNotNoLink DEF Tables, OnItsWay
<1>3. Aged(link, post) /\ Shut(link, call)
  BY DEF Init, Aged, AgedLinks, Shut
<1> QED BY <1>1, <1>2, <1>3 DEF IInv

LEMMA StepsAreOrderly == IInv /\ [Next]_vars => IInv'
<1> SUFFICES ASSUME IInv, [Next]_vars PROVE IInv'
  OBVIOUS
<1>1. CASE UNCHANGED vars
  BY <1>1 DEF vars, IInv, Types, Tables, Aged, AgedLinks, Shut
<1>2. CASE Revoke
  BY <1>2, RevokeStep
<1>3. CASE Relay
  BY <1>3, EnvironmentSteps
<1>4. CASE EndTurn
  BY <1>4, GivingUpSteps
<1>5. CASE Restart
  BY <1>5, RestartStep
<1>6. ASSUME NEW l \in Links, LinkStep(l) \/ DeskStep(l) \/ Cut(l)
      PROVE  IInv'
  BY <1>6, LinkVerifiedStep, AuthorizationLoadedStep, HeartbeatStep, NoticeCloseStep,
     EnvironmentSteps, GetLinkStep, ReceiveStep, DeskSteps
  DEF LinkStep, LoadStep, DeskStep
<1>7. ASSUME NEW c \in Calls, CallStep(c) \/ PostStep(c) \/ RunStep(c) \/ LosePost(c)
      PROVE  IInv'
  BY <1>7, DispatchStep, DispatchContinuesStep, GivingUpSteps, PostVerifiedStep,
     SettleResultStep, RunSteps, EnvironmentSteps
  DEF CallStep, PostStep
<1> QED BY <1>1, <1>2, <1>3, <1>4, <1>5, <1>6, <1>7 DEF Next

\* The desktop never has more tools at work, nor more result POSTs under way,
\* than its limit, however links replace each other while cancelled tools linger
\* (desktop-client.ts:406, :515); the shape of the state goes with it.
THEOREM DesktopKeepsLimits == Spec => []TypeOK
<1>1. Init => DeskOK
  <2> SUFFICES ASSUME Init PROVE DeskOK
    OBVIOUS
  <2>1. /\ \A l \in Links : link[l].wire = <<>> /\ <<>> \in Seq(Own(l))
        /\ \A c \in Calls : call[c].link = NoLink /\ run[c] = Idle
    BY DEF Init
  <2>2. \A l \in Links : Inflight(l) = {} /\ Posting(l) = {}
    BY <2>1 DEF Inflight, Posting, Idle
  <2>3. \A l \in Links : Cardinality(Inflight(l)) <= MaxInflight /\ Cardinality(Posting(l)) <= MaxInflight
    <3>1. Cardinality({}) <= MaxInflight
      BY FS_EmptySet, DeviceAssumption
    <3> QED BY <2>2, <3>1
  <2>4. \A c \in Calls : run[c].at = "none"
    BY <2>1 DEF Idle
  <2> QED BY <2>1, <2>3, <2>4 DEF DeskOK, DesktopLimits
<1>2. IInv /\ DeskOK => TypeOK
  BY DEF IInv, DeskOK, TypeOK
<1> QED BY <1>1, <1>2, InitialIsOrderly, StepsAreOrderly, DeskStepOK, PTL DEF Spec

\* Every pending call can be settled: it is in the table of the one open link,
\* which is the one results are looked up in, however links replace each other,
\* close, or are torn down while a call awaits its authorization
\* (device-registry.ts:145-309).
THEOREM PendingReachable == Spec => []PendingIsReachable
<1>1. IInv => PendingIsReachable
  BY LinkIsNotNoLink DEF IInv, Types, Tables, PendingIsReachable
<1> QED BY <1>1, InitialIsOrderly, StepsAreOrderly, PTL DEF Spec

\* Once a load of the tokens file has reported the token's removal, no call is
\* sent to its desktop any more (device-registry.ts:205-273), whatever loads were
\* under way and whatever links are opened later.
THEOREM NoCallAfterRevocation == Spec => NoCallOnceRevocationSeen
<1>1. IInv /\ [Next]_vars =>
        [seen => \A c \in Calls : call'[c].at = "pending" => call[c].at = "pending"]_vars
  <2> SUFFICES ASSUME IInv, Next, seen
               PROVE  \A c \in Calls : call'[c].at = "pending" => call[c].at = "pending"
    OBVIOUS
  <2>1. CASE ~\E c \in Calls : DispatchContinues(c)
    BY <2>1, OtherStepsAddNone DEF NoneNew
  <2>2. ASSUME NEW c \in Calls, DispatchContinues(c)
        PROVE  \A d \in Calls : call'[d].at = "pending" => call[d].at = "pending"
    BY <2>2, DispatchContinuesStep, RegistersStep
  <2> QED BY <2>1, <2>2
<1> QED BY <1>1, InitialIsOrderly, StepsAreOrderly, PTL DEF Spec, NoCallOnceRevocationSeen
=============================================================================
