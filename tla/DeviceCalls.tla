---------------------------- MODULE DeviceCalls ----------------------------
(***************************************************************************)
(* Tool calls on a human's desktop: the links a desktop holds open to the  *)
(* API server (device-registry.ts, device-routes.ts), the calls of one     *)
(* provider turn that the loopback broker routes to them (tool-broker.ts), *)
(* the tokens file that authorizes both (tokens.ts), and the desktop that  *)
(* runs the calls and posts their results (desktop-client.ts).  One token, *)
(* hence one routing key; its links come one after the other or compete.   *)
(*                                                                         *)
(* Server and desktop are JavaScript: a step is what runs between two      *)
(* awaits.  A load of the tokens file is asked for in one step and gone on *)
(* with in a later one: what it read is the file of some moment between.   *)
(***************************************************************************)
EXTENDS Integers, Sequences, FiniteSets, SequencesExt

CONSTANTS
    MaxCalls,     \* bound: tool calls of the turn, in the order they are made
    MaxLinks,     \* bound: link requests the desktop makes
    MaxPending,   \* MAX_PENDING_CALLS_PER_DEVICE
    MaxInflight,  \* MAX_INFLIGHT_TOOL_CALLS
    MaxFaults     \* bound: broken or full connections, lost posts, failed
                  \* loads, restarts of either side

ASSUME DeviceAssumption ==
    /\ MaxCalls \in Nat
    /\ MaxLinks \in Nat \ {0}
    /\ MaxPending \in Nat \ {0}
    /\ MaxInflight \in Nat \ {0}
    /\ MaxFaults \in Nat

VARIABLES
    file,     \* what the tokens file says of the token
    link,     \* every link request: its server end, its wire, its desktop end
    current,  \* #connections.get(key), or NoLink
    call,     \* every call as dispatch sees it
    turn,     \* whether the turn holds its lease
    run,      \* every call as the desktop sees it
    post,     \* every result POST as the server sees it
    seen,     \* observer: a load has reported the token's removal
    faults

vars == <<file, link, current, call, turn, run, post, seen, faults>>

Calls == 1 .. MaxCalls
Links == 1 .. MaxLinks
NoLink == 0

Files == {"listed", "gone"}
Unread == {"unreadable", "unstated"}
Snapshots == Files \cup Unread
Events == [kind : {"call", "cancel"}, of : Calls]

LinkRecords ==
    [server  : {"unused", "verifying", "open", "closed"},
     blocked : BOOLEAN,               \* backpressured
     auth    : {"none"} \cup Files,   \* a load under way: the file as asked
     beat    : BOOLEAN,               \* a heartbeat awaits it
     pending : SUBSET Calls,
     wire    : Seq(Events),           \* written, not yet read
     net     : {"up", "ended", "cut"},
     desk    : BOOLEAN]               \* connectOnce has not settled

CallRecords ==
    [at      : {"idle", "authorizing", "allowed", "denied", "pending", "answered"},
     link    : Links \cup {NoLink}]   \* the link it was dispatched on

RunRecords ==
    [at   : {"none", "running", "stopping", "waiting", "posting"},
     held : BOOLEAN]                  \* has its entry in inflight

\* A call the desktop does not know, or no longer.
Idle == [at |-> "none", held |-> FALSE]

Init ==
    /\ file = "listed"
    /\ link = [l \in Links |->
                 [server |-> "unused", blocked |-> FALSE, auth |-> "none",
                  beat |-> FALSE, pending |-> {}, wire |-> <<>>,
                  net |-> "up", desk |-> FALSE]]
    /\ current = NoLink
    /\ call = [c \in Calls |-> [at |-> "idle", link |-> NoLink]]
    /\ turn = "live"
    /\ run = [c \in Calls |-> Idle]
    /\ post = [c \in Calls |-> "none"]
    /\ seen = FALSE
    /\ faults = 0

Fault == faults < MaxFaults /\ faults' = faults + 1
FaultIf(b) == IF b THEN Fault ELSE UNCHANGED faults

----------------------------------------------------------------------------
(* Helpers of the server. *)

\* The calls of a set get their outcome: a result, or an error (503, 504).
Answered(S, cs) ==
    [c \in Calls |-> IF c \in S THEN [cs[c] EXCEPT !.at = "answered"] ELSE cs[c]]

Closed(r) == [r EXCEPT !.server = "closed", !.pending = {}, !.blocked = FALSE, !.beat = FALSE,
                       !.net = IF @ = "up" THEN "ended" ELSE @]

\* #teardown of the open links among S, from the given links and calls: each
\* leaves the map, rejects what is pending on it and ends its response.
Teardown(S, ls, cs) ==
    LET torn == {l \in S : ls[l].server = "open"}
    IN  /\ link' = [l \in Links |-> IF l \in torn THEN Closed(ls[l]) ELSE ls[l]]
        /\ call' = Answered(UNION {ls[l].pending : l \in torn}, cs)
        /\ current' = IF current \in torn THEN NoLink ELSE current

\* Events on a link reach the wire unless the connection is broken; the last
\* of them may fill the socket.
Written(r, events, full) ==
    [r EXCEPT !.wire = IF r.net = "up" THEN @ \o events ELSE @, !.blocked = full]

\* What a load yields that was asked for when the file was `asked'.
Loads(asked) == {asked, file} \cup Unread

Unlisted_NobodyListens(snapshot) == {}

\* The listeners of a load (onChange): a file without the token, or one that
\* cannot be read, closes its links; a failing stat throws before they are told.
Unlisted(snapshot) == IF snapshot \in {"gone", "unreadable"} THEN Links ELSE {}
Notified(snapshot) == seen' = (seen \/ snapshot = "gone")

\* #authorized: one load at a time per link, shared by all who ask meanwhile.
Asked(r) == [r EXCEPT !.auth = IF @ = "none" THEN file ELSE @]

----------------------------------------------------------------------------
(* Links on the server. *)

\* The desktop, whose last link has settled, asks for another; the route verifies
\* its token first.
GetLink(l) ==
    /\ link[l].server = "unused"
    /\ \A k \in Links : k < l => link[k].server # "unused" /\ ~link[k].desk
    /\ link' = [link EXCEPT ![l].server = "verifying", ![l].auth = file,
                            ![l].desk = TRUE]
    /\ UNCHANGED <<file, current, call, turn, run, post, seen, faults>>

Connect_KeepsTheOld(l, full) ==
    /\ link' = [link EXCEPT ![l].server = "open", ![l].auth = "none",
                            ![l].blocked = full]
    /\ current' = l
    /\ UNCHANGED call

\* connect: the link replaces the key's link, which is torn down.
Connect(l, full) ==
    LET fresh == [link EXCEPT ![l].server = "open", ![l].auth = "none",
                              ![l].blocked = full]
    IN  /\ link' = [k \in Links |-> IF k = current THEN Closed(fresh[k]) ELSE fresh[k]]
        /\ call' = IF current = NoLink THEN call
                   ELSE Answered(link[current].pending, call)
        /\ current' = l

\* verify has loaded the file: the listeners hear of it, then the request is
\* refused (401, 500) or becomes a link, unless its response is gone already.
LinkVerified(l) ==
    /\ link[l].server = "verifying"
    /\ \/ /\ "listed" \in Loads(link[l].auth)
          /\ \E full \in BOOLEAN : Connect(l, full) /\ FaultIf(full)
          /\ Notified("listed")
       \/ \E snapshot \in Loads(link[l].auth) :
             /\ snapshot = "listed" => link[l].net = "cut"
             /\ Teardown(Unlisted(snapshot),
                         [link EXCEPT ![l] = [Closed(@) EXCEPT !.auth = "none"]], call)
             /\ Notified(snapshot)
             /\ FaultIf(snapshot \in Unread)
    /\ UNCHANGED <<file, turn, run, post>>

Heartbeat_OnlyWhenBusy(l) ==
    /\ link[l].server = "open"
    /\ ~link[l].beat
    /\ link[l].pending # {}
    /\ link' = [link EXCEPT ![l] = [Asked(@) EXCEPT !.beat = TRUE]]
    /\ UNCHANGED <<file, current, call, turn, run, post, seen, faults>>

\* The interval of a link fires.
Heartbeat(l) ==
    /\ link[l].server = "open"
    /\ ~link[l].beat
    /\ link' = [link EXCEPT ![l] = [Asked(@) EXCEPT !.beat = TRUE]]
    /\ UNCHANGED <<file, current, call, turn, run, post, seen, faults>>

\* The end of #heartbeat closes a link without authorization or still full, and
\* pings another, which may fill the socket.
BeatCloses(l, snapshot) == link[l].beat /\ (snapshot # "listed" \/ link[l].blocked)
BeatFills(l, snapshot) ==
    link[l].beat /\ link[l].server = "open" /\ ~BeatCloses(l, snapshot)

\* isAuthorized has loaded the file: the listeners hear of it, then everybody
\* who awaits the link's authorization goes on, the calls in steps of their own
\* (DispatchContinues).
AuthorizationLoaded(l) ==
    /\ link[l].server \in {"open", "closed"}
    /\ link[l].auth # "none"
    /\ \E snapshot \in Loads(link[l].auth), full \in BOOLEAN :
         /\ full => BeatFills(l, snapshot)
         /\ FaultIf(full \/ snapshot \in Unread)
         /\ Notified(snapshot)
         /\ Teardown(
              Unlisted(snapshot) \cup (IF BeatCloses(l, snapshot) THEN {l} ELSE {}),
              [link EXCEPT ![l].auth = "none", ![l].beat = FALSE,
                           ![l].blocked = @ \/ full],
              [c \in Calls |->
                 IF call[c].at = "authorizing" /\ call[c].link = l
                 THEN [call[c] EXCEPT
                         !.at = IF snapshot = "listed" THEN "allowed" ELSE "denied"]
                 ELSE call[c]])
    /\ UNCHANGED <<file, turn, run, post>>

\* The socket has room again.
Drain(l) ==
    /\ link[l].server = "open"
    /\ link[l].blocked
    /\ link[l].net = "up"
    /\ link' = [link EXCEPT ![l].blocked = FALSE]
    /\ UNCHANGED <<file, current, call, turn, run, post, seen, faults>>

\* A streamed chunk or attachment notice fills the socket (one that does not
\* changes nothing here).
Relay ==
    /\ turn = "live"
    /\ current # NoLink
    /\ ~link[current].blocked
    /\ Fault
    /\ link' = [link EXCEPT ![current].blocked = TRUE]
    /\ UNCHANGED <<file, current, call, turn, run, post, seen>>

\* The response of a broken connection closes.
NoticeClose(l) ==
    /\ link[l].server = "open"
    /\ link[l].net = "cut"
    /\ Teardown({l}, link, call)
    /\ UNCHANGED <<file, turn, run, post, seen, faults>>

----------------------------------------------------------------------------
(* Calls on the server. *)

\* The broker takes a call of a live turn and dispatch looks up the link.
Dispatch(c) ==
    /\ turn = "live"
    /\ call[c].at = "idle"
    /\ \A d \in Calls : d < c => call[d].at # "idle"
    /\ IF current = NoLink
       THEN call' = Answered({c}, call) /\ UNCHANGED link
       ELSE /\ call' = [call EXCEPT ![c].at = "authorizing", ![c].link = current]
            /\ link' = [link EXCEPT ![current] = Asked(@)]
    /\ UNCHANGED <<file, current, turn, run, post, seen, faults>>

\* What dispatch checks again once it is authorized.
Usable(l) ==
    /\ link[l].server = "open"
    /\ current = l
    /\ ~link[l].blocked
    /\ Cardinality(link[l].pending) < MaxPending

\* The rest of dispatch: refuse, find the signal aborted (by the end of the turn,
\* or because the call's own HTTP request has gone away meanwhile), or register
\* the call and write it.
DispatchContinues(c) ==
    LET l == call[c].link
    IN  /\ \/ /\ call[c].at = "denied"
              /\ Teardown({l}, link, Answered({c}, call))
              /\ UNCHANGED faults
           \/ /\ call[c].at = "allowed"
              /\ call' = Answered({c}, call)
              /\ UNCHANGED <<link, current, faults>>
           \/ /\ call[c].at = "allowed"
              /\ Usable(l)
              /\ turn = "live"
              /\ call' = [call EXCEPT ![c].at = "pending"]
              /\ \E full \in BOOLEAN :
                   /\ link' = [link EXCEPT ![l] =
                        [Written(link[l], <<[kind |-> "call", of |-> c]>>, full)
                           EXCEPT !.pending = @ \cup {c}]]
                   /\ FaultIf(full)
              /\ UNCHANGED current
        /\ UNCHANGED <<file, turn, run, post, seen>>

GiveUp_CancelIsLost(l, S) ==
    /\ link' = [link EXCEPT ![l] = [@ EXCEPT
                  !.pending = @ \ S,
                  !.wire = IF link[l].blocked \/ link[l].net # "up" THEN @
                           ELSE @ \o SetToSeq([kind : {"cancel"}, of : S])]]
    /\ call' = Answered(S, call)
    /\ UNCHANGED <<current, faults>>

\* A set of pending calls is given up in some order: each is rejected and a cancel
\* written for it.  A full socket takes no cancel, and the link is torn down.
GiveUp(l, S) ==
    LET after(events, full) ==
          [link EXCEPT ![l] = [Written(link[l], events, full) EXCEPT !.pending = @ \ S]]
        cancels(order, n) == [i \in 1 .. n |-> [kind |-> "cancel", of |-> order[i]]]
    IN  IF link[l].blocked
        THEN Teardown({l}, after(<<>>, TRUE), Answered(S, call)) /\ UNCHANGED faults
        ELSE \E order \in SetToSeqs(S), full \in BOOLEAN :
             \E n \in 1 .. Len(order) :
               /\ n < Len(order) => full
               /\ Teardown(IF n < Len(order) THEN {l} ELSE {},
                           after(cancels(order, n), full), Answered(S, call))
               /\ FaultIf(full)

\* The HTTP request of a pending call goes away.
AbortRequest(c) ==
    /\ call[c].at = "pending"
    /\ GiveUp(call[c].link, {c})
    /\ UNCHANGED <<file, turn, run, post, seen>>

\* DISPATCH_BACKSTOP_MS have passed without a result.
Backstop(c) ==
    /\ call[c].at = "pending"
    /\ GiveUp(call[c].link, {c})
    /\ UNCHANGED <<file, turn, run, post, seen>>

\* The turn is over: its lease is revoked, which aborts what it still awaits.
EndTurn ==
    /\ turn = "live"
    /\ turn' = "over"
    /\ IF current # NoLink /\ link[current].pending # {}
       THEN GiveUp(current, link[current].pending)
       ELSE UNCHANGED <<link, current, call, faults>>
    /\ UNCHANGED <<file, run, post, seen>>

----------------------------------------------------------------------------
(* The desktop. *)

Inflight(l) == {c \in Calls : call[c].link = l /\ run[c].held}
Posting(l) == {c \in Calls : call[c].link = l /\ run[c].at = "posting"}
Full_OffByOne(l) == Cardinality(Inflight(l)) > MaxInflight
Full(l) == Cardinality(Inflight(l)) >= MaxInflight
PermitFree(l) == Cardinality(Posting(l)) < MaxInflight

\* What an abort signal does to a call: the tool is asked to stop, a result
\* that waits for its permit or is under way is dropped.
Stopped(r) ==
    CASE r.at = "running" -> [r EXCEPT !.at = "stopping"]
      [] r.at \in {"waiting", "posting"} -> Idle
      [] OTHER -> r

\* A result is to be reported: its POST begins if the gate has a permit, and
\* waits (or, when the gate's queue is full, is dropped) if not.
Report(c, held) ==
    IF PermitFree(call[c].link)
    THEN /\ run' = [run EXCEPT ![c] = [at |-> "posting", held |-> held]]
         /\ post' = [post EXCEPT ![c] = file]
    ELSE /\ run' = [run EXCEPT ![c] = [at |-> "waiting", held |-> held]]
         /\ UNCHANGED post

\* handleEvent.  A call beyond the desktop's limit is answered with a refusal,
\* which takes the way of the results but no entry in inflight; a cancel aborts
\* the call's entry, if it still has one.
Receive(l) ==
    LET e == Head(link[l].wire)
    IN  /\ link[l].desk
        /\ link[l].wire # <<>>
        /\ link' = [link EXCEPT ![l].wire = Tail(@)]
        /\ IF e.kind = "call" /\ Full(l)
           THEN Report(e.of, FALSE)
           ELSE /\ run' = [run EXCEPT ![e.of] =
                     IF e.kind = "call" THEN [at |-> "running", held |-> TRUE]
                     ELSE IF @.held THEN Stopped(@) ELSE @]
                /\ UNCHANGED post
        /\ UNCHANGED <<file, current, call, turn, seen, faults>>

\* The tool is done of its own accord.
FinishTool(c) ==
    /\ run[c].at = "running"
    /\ Report(c, TRUE)
    /\ UNCHANGED <<file, link, current, call, turn, seen, faults>>

\* An aborted tool returns; nothing is reported.
StopTool(c) ==
    /\ run[c].at = "stopping"
    /\ run' = [run EXCEPT ![c] = Idle]
    /\ UNCHANGED <<file, link, current, call, turn, post, seen, faults>>

\* A permit is handed on.
StartPost(c) ==
    /\ run[c].at = "waiting"
    /\ PermitFree(call[c].link)
    /\ Report(c, run[c].held)
    /\ UNCHANGED <<file, link, current, call, turn, seen, faults>>

DropResult(c) ==
    /\ run[c].at = "waiting"
    /\ ~PermitFree(call[c].link)
    /\ run' = [run EXCEPT ![c] = Idle]
    /\ UNCHANGED <<file, link, current, call, turn, post, seen, faults>>

\* The POST's response arrives, unless the desktop no longer waits for it.
Replied(c) == [run EXCEPT ![c] = IF @.at = "posting" THEN Idle ELSE @]

\* connectOnce settles: its calls are aborted and the request is destroyed.
Settle(l) ==
    /\ link' = [link EXCEPT ![l].desk = FALSE, ![l].wire = <<>>, ![l].net = "cut"]
    /\ run' = [c \in Calls |-> IF call[c].link = l THEN Stopped(run[c]) ELSE run[c]]
    /\ UNCHANGED <<file, current, call, turn, post, seen>>

\* The stream has ended and everything on it is read.
SeeEnd(l) ==
    /\ link[l].desk
    /\ link[l].net = "ended"
    /\ link[l].wire = <<>>
    /\ Settle(l)
    /\ UNCHANGED faults

\* No heartbeat for LINK_IDLE_TIMEOUT_MS, no headers in time, or an error.
IdleTimeout(l) ==
    /\ link[l].desk
    /\ link[l].net = "cut"
    /\ Settle(l)
    /\ UNCHANGED faults

\* The application stops or restarts its link (link-manager.ts).
StopLink(l) ==
    /\ link[l].desk
    /\ link[l].net = "up"
    /\ Settle(l)
    /\ Fault

----------------------------------------------------------------------------
(* Results on the server. *)

\* A result POST is verified: the listeners hear of what was loaded.
PostVerified(c) ==
    /\ post[c] \in Files
    /\ \E snapshot \in Loads(post[c]) :
         /\ Teardown(Unlisted(snapshot), link, call)
         /\ Notified(snapshot)
         /\ FaultIf(snapshot \in Unread)
         /\ IF snapshot = "listed"
            THEN post' = [post EXCEPT ![c] = "verified"] /\ UNCHANGED run
            ELSE post' = [post EXCEPT ![c] = "none"] /\ run' = Replied(c)
    /\ UNCHANGED <<file, turn>>

\* Its body is read: settleResult looks for the call on the key's link.
SettleResult(c) ==
    /\ post[c] = "verified"
    /\ IF current # NoLink /\ c \in link[current].pending
       THEN /\ link' = [link EXCEPT ![current].pending = @ \ {c}]
            /\ call' = Answered({c}, call)
       ELSE UNCHANGED <<link, call>>
    /\ post' = [post EXCEPT ![c] = "none"]
    /\ run' = Replied(c)
    /\ UNCHANGED <<file, current, turn, seen, faults>>

----------------------------------------------------------------------------
(* The environment. *)

\* An operator removes the token.
Revoke ==
    /\ file = "listed"
    /\ file' = "gone"
    /\ UNCHANGED <<link, current, call, turn, run, post, seen, faults>>

\* A connection breaks without a word to either end.
Cut(l) ==
    /\ link[l].desk
    /\ link[l].net = "up"
    /\ Fault
    /\ link' = [link EXCEPT ![l].net = "cut", ![l].wire = <<>>]
    /\ UNCHANGED <<file, current, call, turn, run, post, seen>>

LosePost(c) ==
    /\ post[c] # "none"
    /\ Fault
    /\ post' = [post EXCEPT ![c] = "none"]
    /\ run' = Replied(c)
    /\ UNCHANGED <<file, link, current, call, turn, seen>>

\* The server's process ends (closeAll, then the broker's stop) and is started
\* again; its turn ends with it.
Restart ==
    /\ Fault
    /\ turn' = "over"
    /\ current' = NoLink
    /\ link' = [l \in Links |->
         IF link[l].server = "unused" THEN link[l]
         ELSE [Closed(link[l]) EXCEPT !.auth = "none", !.beat = FALSE]]
    /\ call' = Answered({c \in Calls : call[c].at \notin {"idle", "answered"}}, call)
    /\ post' = [c \in Calls |-> "none"]
    /\ run' = [c \in Calls |-> IF run[c].at = "posting" THEN Idle ELSE run[c]]
    /\ UNCHANGED <<file, seen>>

----------------------------------------------------------------------------
LoadStep(l) == LinkVerified(l) \/ AuthorizationLoaded(l)
LinkStep(l) == LoadStep(l) \/ Heartbeat(l) \/ Drain(l) \/ NoticeClose(l)
CallStep(c) == Dispatch(c) \/ DispatchContinues(c) \/ AbortRequest(c) \/ Backstop(c)
PostStep(c) == PostVerified(c) \/ SettleResult(c)
RunStep(c) == FinishTool(c) \/ StopTool(c) \/ StartPost(c) \/ DropResult(c)
DeskStep(l) == GetLink(l) \/ Receive(l) \/ SeeEnd(l) \/ IdleTimeout(l) \/ StopLink(l)

Next ==
    \/ Revoke
    \/ Relay
    \/ EndTurn
    \/ Restart
    \/ \E l \in Links : LinkStep(l) \/ DeskStep(l) \/ Cut(l)
    \/ \E c \in Calls : CallStep(c) \/ PostStep(c) \/ RunStep(c) \/ LosePost(c)

\* What the bounds let happen only finitely often: a broken connection is noticed
\* at both ends, the desktop reads its stream, an aborted tool returns, dispatch
\* goes on and its timer runs.
Prompt ==
    \/ \E l \in Links : NoticeClose(l) \/ Receive(l) \/ SeeEnd(l) \/ IdleTimeout(l)
    \/ \E c \in Calls : DispatchContinues(c) \/ Backstop(c) \/ StopTool(c)

\* Besides, loads return and the interval of the open link fires.  Nothing makes a
\* tool finish, a socket drain, a turn end, a request go away, a desktop link up
\* or the file change.
Fairness ==
    /\ WF_vars(Prompt)
    /\ WF_vars(\E l \in Links : Heartbeat(l))
    /\ \A l \in Links : WF_vars(LoadStep(l))

Spec == Init /\ [][Next]_vars /\ Fairness

----------------------------------------------------------------------------
Types ==
    /\ file \in Files
    /\ link \in [Links -> LinkRecords]
    /\ current \in Links \cup {NoLink}
    /\ call \in [Calls -> CallRecords]
    /\ turn \in {"live", "over"}
    /\ run \in [Calls -> RunRecords]
    /\ post \in [Calls -> {"none", "verified"} \cup Files]
    /\ seen \in BOOLEAN
    /\ faults \in 0 .. MaxFaults

\* The desktop's limits on tools and on result POSTs.
DesktopLimits ==
    \A l \in Links : /\ Cardinality(Inflight(l)) <= MaxInflight
                     /\ Cardinality(Posting(l)) <= MaxInflight

\* Types, and the sizes of the desktop's two tables (whatever a cancelled tool
\* that has not returned yet, or a refusal, adds to them).
TypeOK == Types /\ DesktopLimits

\* A call that dispatch awaits can be settled: it is in the table of the link
\* that results are looked up in, that link is open, and no link owes more calls
\* than its limit.
PendingIsReachable ==
    /\ \A c \in Calls : call[c].at = "pending" =>
         /\ current = call[c].link
         /\ c \in link[current].pending
    /\ \A l \in Links : Cardinality(link[l].pending) <= MaxPending
    /\ current # NoLink => link[current].server = "open"

\* Once any load of the tokens file has reported the token's removal, no call is
\* sent to its desktop: not with an authorization that was read before, not on a
\* link that was verified before and connected after.
NoCallOnceRevocationSeen ==
    [][seen => \A c \in Calls : call'[c].at = "pending" => call[c].at = "pending"]_vars

\* A call the server has given up does not run on for ever on the desktop.
GivenUpRunsEnd ==
    \A c \in Calls :
        (call[c].at = "answered" /\ run[c].at = "running") ~> run[c].at # "running"

\* A revoked token loses its links and gets none again.
RevocationSticks == file = "gone" ~> [](current = NoLink)
=============================================================================
