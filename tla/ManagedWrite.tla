---------------------------- MODULE ManagedWrite ----------------------------
(***************************************************************************)
(* The advisory lockfile of withManagedWrite (src/lib/state/               *)
(* managed-write.ts): processes that share data/ create `<target>.lock',   *)
(* beat its heartbeat while their critical section runs, unlink it, and    *)
(* steal it by rename when its holder is judged dead or silent.            *)
(*                                                                         *)
(* Every await is a point where other processes run, so each file-system   *)
(* call is a step. A path names an inode and an open descriptor keeps      *)
(* naming it after a rename or an unlink, as on POSIX. Inside one process  *)
(* the promise chain per path admits one acquireAndRun at a time, so a     *)
(* process has one program counter, plus one heartbeat callback that may   *)
(* still be under way when the section it belongs to is over.              *)
(*                                                                         *)
(* An operator named Op_Mistake stands before Op and is Op with a          *)
(* plausible mistake in it: the properties are tested against these.       *)
(***************************************************************************)
EXTENDS Naturals, FiniteSets

CONSTANTS
  Process,     \* processes sharing the data directory, each started once
  Inode,       \* inodes the file system can hand out
  MaxSections, \* lockfiles after which a process starts no section (bound)
  MaxTokens,   \* lockfiles a process creates (bound)
  MaxBeats,    \* heartbeats a process fires (bound)
  MaxFaults,   \* processes that die and lockfiles left half-written (bound)
  Stale,       \* STALE_MS in ticks; a tick is at least HEARTBEAT_MS
  Grace        \* MALFORMED_GRACE_MS in ticks

ASSUME LockAssumption ==
  /\ 0 \notin Inode
  /\ MaxSections \in Nat /\ MaxTokens \in Nat
  /\ MaxBeats \in Nat /\ MaxFaults \in Nat
  /\ Stale \in Nat \ {0} /\ Grace \in Nat /\ Grace > Stale

VARIABLES
  lock,      \* the inode at lockPath, 0 for none
  file,      \* file[i]: token and age of the heartbeat in it, age of its mtime
  proc,      \* proc[p]: where p is, and what it keeps in memory
  displaced, \* observer: a steal moved a lock that was not stale, or put one
             \*   back over another
  clobbered, \* observer: a heartbeat wrote to a file that was not its lock
  faults     \* how many faults have happened so far

vars == <<lock, file, proc, displaced, clobbered, faults>>

NoToken == <<>>                          \* an empty or half-written lockfile
Token(p) == <<p, proc[p].round>>         \* the token p drew last
Alive(p) == proc[p].pc # "dead"
Empty == [token |-> NoToken, age |-> 0, mtime |-> 0]
Holds(token) == [token |-> token, age |-> 0, mtime |-> 0]
Capped(n) == IF n <= Grace THEN n + 1 ELSE n

NoBeat == [at |-> "none", token |-> NoToken, fd |-> 0]
NoBytes == [token |-> NoToken, age |-> 0]

Outside ==
  [pc |-> "out", round |-> 0, fd |-> 0, aside |-> 0, judged |-> NoBytes,
   beat |-> NoBeat, beats |-> 0]

Init ==
  /\ lock = 0
  /\ file = [i \in Inode |-> Empty]
  /\ proc = [p \in Process |-> Outside]
  /\ displaced = FALSE /\ clobbered = FALSE /\ faults = 0

Becomes(p, memory) == proc' = [proc EXCEPT ![p] = memory]
Goto(p, label) == Becomes(p, [proc[p] EXCEPT !.pc = label])
At(p, label) == proc[p].pc = label

\* Inodes no path and no descriptor refers to; which one the file system
\* hands out does not matter.
Free == {i \in Inode \ {lock} :
           \A p \in Process : i \notin {proc[p].aside, proc[p].fd, proc[p].beat.fd}}
NewInode == CHOOSE i \in Free : TRUE

Fault == faults < MaxFaults /\ faults' = faults + 1
NoFault == UNCHANGED faults

(***************************************************************************)
(* acquireLock: create, or steal what is stale, or back off.               *)
(***************************************************************************)

Start(p) ==
  /\ At(p, "out") /\ proc[p].round < MaxSections
  /\ Goto(p, "create")
  /\ NoFault /\ UNCHANGED <<lock, file, displaced, clobbered>>

Vacant_IgnoringTheFile == TRUE
Vacant == lock = 0

(* open(lockPath, "wx") succeeds: the file exists and is empty. The token  *)
(* drawn for the attempt is counted here, where it first matters.          *)
Create(p) ==
  /\ At(p, "create") /\ Vacant /\ proc[p].round < MaxTokens /\ Free # {}
  /\ lock' = NewInode
  /\ file' = [file EXCEPT ![NewInode] = Empty]
  /\ Becomes(p, [proc[p] EXCEPT !.pc = "write", !.fd = NewInode, !.round = @ + 1])
  /\ NoFault /\ UNCHANGED <<displaced, clobbered>>

(* EEXIST: look at the lock in the way.                                    *)
CreateFails(p) ==
  /\ At(p, "create") /\ ~Vacant
  /\ Goto(p, "judge")
  /\ NoFault /\ UNCHANGED <<lock, file, displaced, clobbered>>

(* handle.writeFile goes to the descriptor, wherever the file is by now.   *)
WriteLock(p) ==
  /\ At(p, "write")
  /\ file' = [file EXCEPT ![proc[p].fd] = Holds(Token(p))]
  /\ Becomes(p, [proc[p] EXCEPT !.pc = "chmod", !.fd = 0])
  /\ NoFault /\ UNCHANGED <<lock, displaced, clobbered>>

(* The disk refuses the bytes: withManagedWrite throws, the file stays.    *)
WriteLockFails(p) ==
  /\ At(p, "write")
  /\ Becomes(p, [proc[p] EXCEPT !.pc = "out", !.fd = 0])
  /\ Fault /\ UNCHANGED <<lock, file, displaced, clobbered>>

(* chmod by path: ENOENT means a stealer moved the file; anything else     *)
(* lets p in.                                                              *)
Enter(p) ==
  /\ At(p, "chmod")
  /\ Goto(p, IF lock = 0 THEN "judge" ELSE "critical")
  /\ NoFault /\ UNCHANGED <<lock, file, displaced, clobbered>>

OwnerDead(token) == token # NoToken /\ ~Alive(token[1])

Expired_ByOwner(f) == OwnerDead(f.token)
Expired_HalfWay(f) == f.age >= Stale \/ OwnerDead(f.token)

\* A parsed lock whose heartbeat is too old or whose pid is gone.
Expired(f) == f.age > Stale \/ OwnerDead(f.token)

\* olderThanMtimeGrace
Untouched(f) == f.mtime > Grace

IsStale(i) ==
  IF file[i].token = NoToken THEN Untouched(file[i]) ELSE Expired(file[i])

(* stealIfStaleUnguarded reads the lock. One that is gone sends p back to  *)
(* create at once, a live one to the back-off, and an empty one is stat'ed.*)
Judge(p) ==
  /\ At(p, "judge")
  /\ IF lock = 0 THEN Goto(p, "create")
     ELSE Becomes(p, [proc[p] EXCEPT
            !.judged = [token |-> file[lock].token, age |-> file[lock].age],
            !.pc = IF file[lock].token = NoToken THEN "stat"
                   ELSE IF Expired(file[lock]) THEN "steal" ELSE "backoff"])
  /\ NoFault /\ UNCHANGED <<lock, file, displaced, clobbered>>

(* stat(lockPath) after an empty read: a file that is gone counts as stale.*)
StatLock(p) ==
  /\ At(p, "stat")
  /\ Goto(p, IF lock = 0 \/ Untouched(file[lock]) THEN "steal" ELSE "backoff")
  /\ NoFault /\ UNCHANGED <<lock, file, displaced, clobbered>>

Forget_ButNotTheFile(p, label) ==
  Becomes(p, [proc[p] EXCEPT !.pc = label, !.judged = NoBytes])

Forget(p, label) ==
  Becomes(p, [proc[p] EXCEPT !.pc = label, !.aside = 0, !.judged = NoBytes])

(* rename(lockPath, stolenPath) takes whatever is there by now.            *)
Steal(p) ==
  /\ At(p, "steal")
  /\ IF lock = 0 THEN Forget(p, "create") /\ UNCHANGED <<lock, displaced>>
     ELSE /\ Becomes(p, [proc[p] EXCEPT !.pc = "reread", !.aside = lock])
          /\ lock' = 0
          /\ displaced' = (displaced \/ ~IsStale(lock))
  /\ NoFault /\ UNCHANGED <<file, clobbered>>

\* after = beforeRaw: no tick passes in between, so an equal age is an
\* equal heartbeat.
SameBytes(p) ==
  LET f == file[proc[p].aside] IN
  /\ f.token = proc[p].judged.token
  /\ f.token = NoToken \/ f.age = proc[p].judged.age

(* The renamed bytes decide what becomes of the file.                      *)
Reread(p) ==
  /\ At(p, "reread")
  /\ Goto(p, IF SameBytes(p) THEN "remove" ELSE "restore")
  /\ NoFault /\ UNCHANGED <<lock, file, displaced, clobbered>>

Remove(p) ==
  /\ At(p, "remove")
  /\ Forget(p, "create")
  /\ NoFault /\ UNCHANGED <<lock, file, displaced, clobbered>>

(* rename(stolenPath, lockPath) replaces what has appeared meanwhile.      *)
Restore(p) ==
  /\ At(p, "restore")
  /\ lock' = proc[p].aside
  /\ displaced' = (displaced \/ lock # 0)
  /\ Forget(p, "backoff")
  /\ NoFault /\ UNCHANGED <<file, clobbered>>

Retry(p) ==
  /\ At(p, "backoff")
  /\ Forget(p, "create")
  /\ NoFault /\ UNCHANGED <<lock, file, displaced, clobbered>>

(* ACQUIRE_TIMEOUT_MS has passed: acquireLock throws.                      *)
GiveUp(p) ==
  /\ At(p, "backoff")
  /\ Forget(p, "out")
  /\ NoFault /\ UNCHANGED <<lock, file, displaced, clobbered>>

(***************************************************************************)
(* The critical section, its heartbeat and releaseLock.                    *)
(***************************************************************************)

(* The body ends or throws: heartbeat.stop() clears the interval, but no   *)
(* beat under way is awaited.                                              *)
Leave(p) ==
  /\ At(p, "critical")
  /\ Goto(p, "release")
  /\ NoFault /\ UNCHANGED <<lock, file, displaced, clobbered>>

OwnToken(p) == lock # 0 /\ file[lock].token = Token(p)

(* releaseLock reads the file at lockPath; only its own token is unlinked. *)
CheckRelease(p) ==
  /\ At(p, "release")
  /\ Goto(p, IF OwnToken(p) THEN "unlink" ELSE "out")
  /\ NoFault /\ UNCHANGED <<lock, file, displaced, clobbered>>

Unlink(p) ==
  /\ At(p, "unlink")
  /\ lock' = 0
  /\ Goto(p, "out")
  /\ NoFault /\ UNCHANGED <<file, displaced, clobbered>>

(* The interval fires and writeLock reads the lock: another's is left be.  *)
BeatRead(p) ==
  /\ At(p, "critical") /\ proc[p].beat = NoBeat /\ proc[p].beats < MaxBeats
  /\ Becomes(p, [proc[p] EXCEPT !.beats = @ + 1,
       !.beat = IF OwnToken(p) THEN [at |-> "open", token |-> Token(p), fd |-> 0] ELSE @])
  /\ NoFault /\ UNCHANGED <<lock, file, displaced, clobbered>>

(* writeFile opens lockPath with "w": truncate what is there, or create.   *)
BeatOpen(p) ==
  /\ proc[p].beat.at = "open"
  /\ lock # 0 \/ Free # {}
  /\ LET i == IF lock = 0 THEN NewInode ELSE lock IN
     /\ lock' = i
     /\ file' = [file EXCEPT ![i] = Empty]
     /\ Becomes(p, [proc[p] EXCEPT !.beat.at = "write", !.beat.fd = i])
  /\ clobbered' = (clobbered \/ lock = 0 \/ file[lock].token # proc[p].beat.token)
  /\ NoFault /\ UNCHANGED displaced

BeatWrite(p) ==
  /\ proc[p].beat.at = "write"
  /\ file' = [file EXCEPT ![proc[p].beat.fd] = Holds(proc[p].beat.token)]
  /\ Becomes(p, [proc[p] EXCEPT !.beat = NoBeat])
  /\ NoFault /\ UNCHANGED <<lock, displaced, clobbered>>

(***************************************************************************)
(* The environment.                                                        *)
(***************************************************************************)

Crash(p) ==
  /\ Alive(p)
  /\ Becomes(p, [Outside EXCEPT !.pc = "dead", !.round = proc[p].round])
  /\ Fault /\ UNCHANGED <<lock, file, displaced, clobbered>>

\* The calls by which p changes lockPath, or relies on what it has judged,
\* return within a tick: only looking at the lock, waiting for it, or
\* running a section takes longer.
Prompt(p) ==
  /\ proc[p].pc \in {"out", "create", "judge", "stat", "backoff", "critical", "dead"}
  /\ proc[p].beat = NoBeat

\* A section's lock is beaten before it could go stale.
Punctual(p) == At(p, "critical") /\ OwnToken(p) => file[lock].age < Stale

(* At least a heartbeat period passes. Processes are never suspended for   *)
(* that long between two calls, and live holders beat in time.             *)
Tick ==
  /\ \A p \in Process : Prompt(p) /\ Punctual(p)
  /\ file' = [i \in Inode |-> [file[i] EXCEPT !.age = Capped(@), !.mtime = Capped(@)]]
  /\ file' # file
  /\ NoFault /\ UNCHANGED <<lock, proc, displaced, clobbered>>

\* What p does of its own accord once it has asked for the lock.
Acquiring(p) ==
  \/ Create(p) \/ CreateFails(p) \/ WriteLock(p) \/ Enter(p)
  \/ Judge(p) \/ StatLock(p) \/ Steal(p) \/ Reread(p) \/ Remove(p) \/ Restore(p) \/ Retry(p)

Releasing(p) == Leave(p) \/ CheckRelease(p) \/ Unlink(p)

Beating(p) == BeatOpen(p) \/ BeatWrite(p)

Next ==
  \/ Tick
  \/ \E p \in Process :
       \/ Start(p) \/ Acquiring(p) \/ WriteLockFails(p) \/ GiveUp(p)
       \/ Releasing(p) \/ BeatRead(p) \/ Beating(p) \/ Crash(p)

(* The clock goes on though the calls it waits for come and go (strong      *)
(* fairness), pending file-system calls return, and sections end.          *)
Fairness ==
  /\ SF_vars(Tick)
  /\ \A p \in Process : WF_vars(Acquiring(p)) /\ WF_vars(Releasing(p)) /\ WF_vars(Beating(p))

Spec == Init /\ [][Next]_vars
FairSpec == Spec /\ Fairness

(***************************************************************************)
(* Properties.                                                             *)
(***************************************************************************)

Tokens == {NoToken} \union (Process \X (1 .. MaxTokens))
Places == Inode \union {0}

Memory ==
  [pc : {"out", "create", "write", "chmod", "judge", "stat", "steal", "reread", "remove",
         "restore", "backoff", "critical", "release", "unlink", "dead"},
   round : 0 .. MaxTokens, fd : Places, aside : Places,
   judged : [token : Tokens, age : 0 .. Grace + 1],
   beat : [at : {"none", "open", "write"}, token : Tokens, fd : Places],
   beats : 0 .. MaxBeats]

(* The shape of the state; a descriptor is open, and a stolen file is      *)
(* aside, exactly where the program counter says so.                       *)
TypeOK ==
  /\ lock \in Places
  /\ file \in [Inode -> [token : Tokens, age : 0 .. Grace + 1, mtime : 0 .. Grace + 1]]
  /\ proc \in [Process -> Memory]
  /\ \A p \in Process :
       /\ At(p, "write") <=> proc[p].fd # 0
       /\ proc[p].pc \in {"reread", "remove", "restore"} <=> proc[p].aside # 0
  /\ displaced \in BOOLEAN /\ clobbered \in BOOLEAN
  /\ faults \in 0 .. MaxFaults

Holding == {p \in Process : At(p, "critical")}

(* "withManagedWrite serializes the critical section ... across processes" *)
(* (managed-write.ts:27-29).                                               *)
MutualExclusion == \A p, q \in Holding : p = q

(* Two sections overlap only after a steal moved aside a lock that was not *)
(* stale (or put one back over another), or a late heartbeat wrote over    *)
(* another's lock: creation by "wx", the token check of the release and    *)
(* the stale rule admit no other way in, crashes and failed writes at any  *)
(* step included.                                                          *)
OverlapIsExplained == MutualExclusion \/ displaced \/ clobbered

(* No live section loses its lockfile but for the same two reasons: while  *)
(* p is in its section the file at lockPath is its own, or one its         *)
(* heartbeat is about to write.                                            *)
SectionKeepsItsLock ==
  \A p \in Holding :
    \/ OwnToken(p)
    \/ lock # 0 /\ proc[p].beat.at = "write" /\ proc[p].beat.fd = lock
    \/ displaced \/ clobbered

(* A lock left behind, by a crash at any step, by a failed write or by a   *)
(* release that met its own heartbeat, is recovered: whoever asks for the  *)
(* lock and does not give up gets in, whatever the others do.              *)
WaiterGetsIn ==
  \A p \in Process : At(p, "create") ~> proc[p].pc \in {"critical", "out", "dead"}
=============================================================================
