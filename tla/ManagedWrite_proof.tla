------------------------- MODULE ManagedWrite_proof -------------------------
(***************************************************************************)
(* Theorems about the lockfile protocol of                                 *)
(* src/src/lib/state/managed-write.ts, for any number of processes,        *)
(* inodes, lockfiles per process, heartbeats and faults.                   *)
(*                                                                         *)
(* While nothing was displaced or clobbered (Calm), every process past its *)
(* open("wx") is Secured: the file at lockPath is the one it made and      *)
(* still fresh, or carries its token, or is emptied by its own heartbeat.  *)
(* A lock is stolen only if it is stale, and none of these is; so two      *)
(* holders would have made the same file.                                  *)
(***************************************************************************)
EXTENDS ManagedWrite, TLAPS

HolderSteps == {"write", "chmod", "critical", "release", "unlink"}
AsideSteps == {"reread", "remove", "restore"}

Holder(p) == proc[p].pc \in HolderSteps
Writing(p) == proc[p].beat.at = "write"

Drawn ==
  \A p \in Process :
    /\ Holder(p) => proc[p].round # 0
    /\ proc[p].beat.at # "none" => proc[p].beat.token \in {p} \X (1 .. MaxTokens)
    /\ Writing(p) => proc[p].beat.fd \in Inode

IType == TypeOK /\ Drawn

\* What a step of p may put into its memory.
Sound(p, m) ==
  /\ m \in Memory
  /\ m.pc = "write" <=> m.fd # 0
  /\ m.pc \in AsideSteps <=> m.aside # 0
  /\ m.pc \in HolderSteps => m.round # 0
  /\ m.beat.at # "none" => m.beat.token \in {p} \X (1 .. MaxTokens)
  /\ m.beat.at = "write" => m.beat.fd \in Inode

LEMMA SoundMemory ==
  ASSUME IType, NEW p \in Process
  PROVE  Sound(p, proc[p])
BY DEF IType, TypeOK, Drawn, Sound, Holder, Writing, At, AsideSteps

Files == [Inode -> [token : Tokens, age : 0 .. Grace + 1, mtime : 0 .. Grace + 1]]

LEMMA StepType ==
  ASSUME IType, NEW p \in Process, NEW m, Sound(p, m), Becomes(p, m),
         lock' \in Places, file' \in Files,
         displaced' \in BOOLEAN, clobbered' \in BOOLEAN, Fault \/ NoFault
  PROVE  IType'
<1>1. proc' \in [Process -> Memory] /\ proc'[p] = m /\ \A q \in Process \ {p} : proc'[q] = proc[q]
  BY DEF IType, TypeOK, Becomes, Sound
<1>2. faults' \in 0 .. MaxFaults
  BY LockAssumption DEF IType, TypeOK, Fault, NoFault
<1>3. \A q \in Process : Sound(q, proc'[q])
  BY <1>1, SoundMemory
<1>4. TypeOK'
  BY <1>1, <1>2, <1>3 DEF TypeOK, Files, Sound, At, AsideSteps
<1>5. Drawn'
  BY <1>3 DEF Drawn, Sound, Holder, Writing
<1> QED BY <1>4, <1>5 DEF IType

LEMMA InitType == Init => IType
<1> SUFFICES ASSUME Init PROVE IType
  OBVIOUS
<1>1. NoToken \in Tokens /\ 0 \in Places
  BY DEF Tokens, Places
<1>2. Empty \in [token : Tokens, age : 0 .. Grace + 1, mtime : 0 .. Grace + 1]
  BY <1>1, LockAssumption DEF Empty
<1>3. NoBytes \in [token : Tokens, age : 0 .. Grace + 1]
  BY <1>1, LockAssumption DEF NoBytes
<1>4. NoBeat \in [at : {"none", "open", "write"}, token : Tokens, fd : Places] /\ NoBeat.at = "none"
  BY <1>1 DEF NoBeat
<1> HIDE DEF NoToken, Empty, NoBytes, NoBeat
<1>5. /\ Outside \in Memory
      /\ Outside.pc = "out" /\ Outside.fd = 0 /\ Outside.aside = 0 /\ Outside.beat.at = "none"
  BY <1>1, <1>3, <1>4, LockAssumption DEF Outside, Memory
<1> HIDE DEF Outside
<1>6. TypeOK
  <2>1. proc \in [Process -> Memory] /\ \A p \in Process : proc[p] = Outside
    BY <1>5 DEF Init
  <2>2. file \in [Inode -> [token : Tokens, age : 0 .. Grace + 1, mtime : 0 .. Grace + 1]]
    BY <1>2 DEF Init
  <2>3. \A p \in Process :
          /\ At(p, "write") <=> proc[p].fd # 0
          /\ proc[p].pc \in {"reread", "remove", "restore"} <=> proc[p].aside # 0
    BY <2>1, <1>5 DEF At
  <2>4. lock \in Places /\ faults \in 0 .. MaxFaults
    BY <1>1, LockAssumption DEF Init
  <2>5. displaced \in BOOLEAN /\ clobbered \in BOOLEAN
    BY DEF Init
  <2> QED BY <2>1, <2>2, <2>3, <2>4, <2>5 DEF TypeOK
<1>7. Drawn
  BY <1>5 DEF Init, Drawn, Holder, Writing, HolderSteps
<1> QED BY <1>6, <1>7 DEF IType

LEMMA GotoSound ==
  ASSUME IType, NEW p \in Process, NEW label \in {"out", "create", "judge", "stat", "steal",
           "backoff", "chmod", "critical", "release", "unlink", "reread", "remove", "restore"},
         label \in AsideSteps <=> proc[p].pc \in AsideSteps,
         label \in HolderSteps => Holder(p),
         ~At(p, "write")
  PROVE  Sound(p, [proc[p] EXCEPT !.pc = label])
<1> DEFINE r == proc[p]
<1>1. Sound(p, r)
  BY SoundMemory
<1> HIDE DEF r
<1>2. r.pc # "write" /\ (label \in AsideSteps <=> r.pc \in AsideSteps)
      /\ (label \in HolderSteps => r.pc \in HolderSteps)
  BY DEF r, At, Holder
<1>3. Sound(p, [r EXCEPT !.pc = label])
  BY <1>1, <1>2 DEF Sound, Memory, AsideSteps
<1> QED BY <1>3 DEF r

LEMMA TokenType ==
  ASSUME IType, NEW p \in Process, proc[p].round # 0
  PROVE  Token(p) \in Tokens /\ Token(p) \in {p} \X (1 .. MaxTokens)
BY LockAssumption DEF IType, TypeOK, Memory, Token, Tokens

LEMMA WrittenFile ==
  ASSUME IType, NEW i \in Inode, NEW token \in Tokens
  PROVE  [file EXCEPT ![i] = Holds(token)] \in Files
BY LockAssumption DEF IType, TypeOK, Files, Holds

LEMMA EmptiedFile ==
  ASSUME IType, NEW i \in Inode
  PROVE  [file EXCEPT ![i] = Empty] \in Files
BY LockAssumption DEF IType, TypeOK, Files, Empty, Tokens

\* A step that only moves p on.
LEMMA MoveType ==
  ASSUME IType, NEW p \in Process, NEW m, Sound(p, m), Becomes(p, m),
         UNCHANGED <<lock, file, displaced, clobbered>>, Fault \/ NoFault
  PROVE  IType'
<1>1. lock' \in Places /\ file' \in Files /\ displaced' \in BOOLEAN /\ clobbered' \in BOOLEAN
  BY DEF IType, TypeOK, Files
<1> QED BY <1>1, StepType

LEMMA GotoType ==
  ASSUME IType, NEW p \in Process,
         NEW label \in {"out", "create", "judge", "stat", "steal",
           "backoff", "chmod", "critical", "release", "unlink", "reread", "remove", "restore"},
         label \in AsideSteps <=> proc[p].pc \in AsideSteps,
         label \in HolderSteps => Holder(p),
         ~At(p, "write"), Goto(p, label),
         UNCHANGED <<lock, file, displaced, clobbered>>, Fault \/ NoFault
  PROVE  IType'
<1>1. Sound(p, [proc[p] EXCEPT !.pc = label])
  BY GotoSound
<1>2. Becomes(p, [proc[p] EXCEPT !.pc = label])
  BY DEF Goto
<1> DEFINE m == [proc[p] EXCEPT !.pc = label]
<1> HIDE DEF m
<1> QED BY <1>1, <1>2, MoveType DEF m

LEMMA ForgetSound ==
  ASSUME IType, NEW p \in Process, NEW label \in {"out", "create", "backoff"}, ~At(p, "write")
  PROVE  Sound(p, [proc[p] EXCEPT !.pc = label, !.aside = 0, !.judged = NoBytes])
<1> DEFINE r == proc[p]
<1>1. Sound(p, r) /\ r.pc # "write"
  BY SoundMemory DEF At
<1>2. NoBytes \in [token : Tokens, age : 0 .. Grace + 1]
  BY LockAssumption DEF NoBytes, Tokens
<1> HIDE DEF r, NoBytes
<1>3. Sound(p, [r EXCEPT !.pc = label, !.aside = 0, !.judged = NoBytes])
  BY <1>1, <1>2 DEF Sound, Memory, AsideSteps, HolderSteps, Places
<1> QED BY <1>3 DEF r

LEMMA ForgetType ==
  ASSUME IType, NEW p \in Process, NEW label \in {"out", "create", "backoff"}, ~At(p, "write"),
         Forget(p, label), lock' \in Places, displaced' \in BOOLEAN,
         UNCHANGED <<file, clobbered>>, Fault \/ NoFault
  PROVE  IType'
<1> DEFINE m == [proc[p] EXCEPT !.pc = label, !.aside = 0, !.judged = NoBytes]
<1>1. Sound(p, m)
  BY ForgetSound
<1>2. Becomes(p, m)
  BY DEF Forget
<1>3. file' \in Files /\ clobbered' \in BOOLEAN
  BY DEF IType, TypeOK, Files
<1> HIDE DEF m
<1> QED BY <1>1, <1>2, <1>3, StepType

LEMMA FreeInode == Free # {} => NewInode \in Free
BY DEF NewInode

LEMMA CreateType == ASSUME IType, NEW p \in Process, Create(p) PROVE IType'
<1> DEFINE r == proc[p]
           n == r.round + 1
           m == [r EXCEPT !.pc = "write", !.fd = NewInode, !.round = n]
<1>1. NewInode \in Free /\ NewInode \in Inode /\ NewInode # 0
  BY FreeInode, LockAssumption DEF Create, Free
<1>2. Sound(p, r) /\ r.pc = "create" /\ r.round < MaxTokens
  BY SoundMemory DEF Create, At
<1>3. Becomes(p, m)
  BY DEF Create
<1>4. lock' \in Places /\ file' \in Files
  BY <1>1, EmptiedFile DEF Create, Places
<1>5. displaced' \in BOOLEAN /\ clobbered' \in BOOLEAN /\ NoFault
  BY DEF Create, IType, TypeOK
<1>6. n \in 0 .. MaxTokens /\ n # 0
  BY <1>2, LockAssumption DEF Sound, Memory
<1> HIDE DEF r, n
<1>7. Sound(p, m)
  BY <1>1, <1>2, <1>6 DEF Sound, Memory, AsideSteps, HolderSteps, Places
<1> HIDE DEF m
<1> QED BY <1>3, <1>4, <1>5, <1>7, StepType

LEMMA WriteLockType == ASSUME IType, NEW p \in Process, WriteLock(p) PROVE IType'
<1> DEFINE r == proc[p]
           m == [r EXCEPT !.pc = "chmod", !.fd = 0]
<1>1. Sound(p, r) /\ r.pc = "write"
  BY SoundMemory DEF WriteLock, At
<1>2. Becomes(p, m)
  BY DEF WriteLock
<1>3. r.fd \in Inode /\ r.round # 0
  BY <1>1 DEF Sound, Memory, Places, HolderSteps
<1>4. file' \in Files
  BY <1>3, TokenType, WrittenFile DEF WriteLock
<1>5. displaced' \in BOOLEAN /\ clobbered' \in BOOLEAN /\ lock' \in Places /\ NoFault
  BY DEF WriteLock, IType, TypeOK
<1> HIDE DEF r
<1>6. Sound(p, m)
  BY <1>1, <1>3 DEF Sound, Memory, AsideSteps, HolderSteps, Places
<1> HIDE DEF m
<1> QED BY <1>2, <1>4, <1>5, <1>6, StepType

LEMMA WriteLockFailsType == ASSUME IType, NEW p \in Process, WriteLockFails(p) PROVE IType'
<1> DEFINE r == proc[p]
           m == [r EXCEPT !.pc = "out", !.fd = 0]
<1>1. Sound(p, r) /\ r.pc = "write"
  BY SoundMemory DEF WriteLockFails, At
<1>2. Becomes(p, m) /\ Fault /\ UNCHANGED <<lock, file, displaced, clobbered>>
  BY DEF WriteLockFails
<1> HIDE DEF r
<1>3. Sound(p, m)
  BY <1>1 DEF Sound, Memory, AsideSteps, HolderSteps, Places
<1> HIDE DEF m
<1> QED BY <1>2, <1>3, MoveType

LEMMA JudgeType == ASSUME IType, NEW p \in Process, Judge(p) PROVE IType'
<1>1. CASE lock = 0
  BY <1>1, GotoType DEF Judge, At, AsideSteps, HolderSteps
<1>2. CASE lock # 0
  <2> DEFINE r == proc[p]
             j == [token |-> file[lock].token, age |-> file[lock].age]
             label == IF file[lock].token = NoToken THEN "stat"
                      ELSE IF Expired(file[lock]) THEN "steal" ELSE "backoff"
             m == [r EXCEPT !.judged = j, !.pc = label]
  <2>1. Sound(p, r) /\ r.pc = "judge"
    BY SoundMemory DEF Judge, At
  <2>2. Becomes(p, m) /\ NoFault /\ UNCHANGED <<lock, file, displaced, clobbered>>
    BY <1>2 DEF Judge
  <2>3. lock \in Inode
    BY <1>2 DEF IType, TypeOK, Places
  <2>4. j \in [token : Tokens, age : 0 .. Grace + 1]
    BY <2>3 DEF IType, TypeOK
  <2>5. label \in {"stat", "steal", "backoff"}
    OBVIOUS
  <2> HIDE DEF r, j, label
  <2>6. Sound(p, m)
    BY <2>1, <2>4, <2>5 DEF Sound, Memory, AsideSteps, HolderSteps
  <2> HIDE DEF m
  <2> QED BY <2>2, <2>6, MoveType
<1> QED BY <1>1, <1>2

LEMMA StealType == ASSUME IType, NEW p \in Process, Steal(p) PROVE IType'
<1>1. CASE lock = 0
  <2>1. UNCHANGED <<lock, displaced>> /\ lock \in Places /\ displaced \in BOOLEAN
    BY <1>1 DEF Steal, IType, TypeOK
  <2> QED BY <1>1, <2>1, ForgetType DEF Steal, At
<1>2. CASE lock # 0
  <2> DEFINE r == proc[p]
             m == [r EXCEPT !.pc = "reread", !.aside = lock]
  <2>1. Sound(p, r) /\ r.pc = "steal"
    BY SoundMemory DEF Steal, At
  <2>2. Becomes(p, m) /\ NoFault /\ lock' = 0 /\ UNCHANGED <<file, clobbered>>
    BY <1>2 DEF Steal
  <2>3. lock \in Inode
    BY <1>2 DEF IType, TypeOK, Places
  <2>4. lock' \in Places /\ file' \in Files
    BY <2>2 DEF IType, TypeOK, Places, Files
  <2>5. clobbered' \in BOOLEAN
    BY <2>2 DEF IType, TypeOK
  <2>6. displaced' \in BOOLEAN
    BY <1>2 DEF Steal
  <2> HIDE DEF r
  <2>7. Sound(p, m)
    BY <1>2, <2>1, <2>3 DEF Sound, Memory, AsideSteps, HolderSteps, Places
  <2> HIDE DEF m
  <2> QED BY <2>2, <2>4, <2>5, <2>6, <2>7, StepType
<1> QED BY <1>1, <1>2

LEMMA RestoreType == ASSUME IType, NEW p \in Process, Restore(p) PROVE IType'
<1>1. lock' \in Places /\ ~At(p, "write")
  BY DEF Restore, IType, TypeOK, Memory, At
<1>2. displaced' \in BOOLEAN
  BY DEF Restore
<1> QED BY <1>1, <1>2, ForgetType DEF Restore

LEMMA UnlinkType == ASSUME IType, NEW p \in Process, Unlink(p) PROVE IType'
<1> DEFINE m == [proc[p] EXCEPT !.pc = "out"]
<1>1. Sound(p, m)
  BY GotoSound DEF Unlink, At, AsideSteps, HolderSteps
<1>2. Becomes(p, m) /\ NoFault
  BY DEF Unlink, Goto
<1>3. lock' \in Places /\ file' \in Files
  BY DEF Unlink, IType, TypeOK, Places, Files
<1>4. displaced' \in BOOLEAN /\ clobbered' \in BOOLEAN
  BY DEF Unlink, IType, TypeOK
<1> HIDE DEF m
<1> QED BY <1>1, <1>2, <1>3, <1>4, StepType

LEMMA BeatReadType == ASSUME IType, NEW p \in Process, BeatRead(p) PROVE IType'
<1> DEFINE r == proc[p]
           b == IF OwnToken(p) THEN [at |-> "open", token |-> Token(p), fd |-> 0] ELSE r.beat
           n == r.beats + 1
           m == [r EXCEPT !.beats = n, !.beat = b]
<1>1. Sound(p, r) /\ r.pc = "critical" /\ r.beat = NoBeat /\ r.beats < MaxBeats
  BY SoundMemory DEF BeatRead, At
<1>2. Becomes(p, m) /\ NoFault /\ UNCHANGED <<lock, file, displaced, clobbered>>
  BY DEF BeatRead
<1>3. r.round # 0
  BY <1>1 DEF Sound, HolderSteps
<1>4. Token(p) \in Tokens /\ Token(p) \in {p} \X (1 .. MaxTokens)
  BY <1>3, TokenType
<1>5. r.beat \in [at : {"none", "open", "write"}, token : Tokens, fd : Places]
      /\ r.beats \in 0 .. MaxBeats
  BY <1>1 DEF Sound, Memory
<1>6. /\ b \in [at : {"none", "open", "write"}, token : Tokens, fd : Places]
      /\ b.at # "none" => b.token \in {p} \X (1 .. MaxTokens)
      /\ b.at # "write"
  BY <1>1, <1>4, <1>5 DEF NoBeat, Places
<1>7. n \in 0 .. MaxBeats
  BY <1>1, <1>5, LockAssumption
<1> HIDE DEF r, b, n
<1>8. Sound(p, m)
  BY <1>1, <1>6, <1>7 DEF Sound, Memory
<1> HIDE DEF m
<1> QED BY <1>2, <1>8, MoveType

LEMMA BeatOpenType == ASSUME IType, NEW p \in Process, BeatOpen(p) PROVE IType'
<1> DEFINE r == proc[p]
           i == IF lock = 0 THEN NewInode ELSE lock
           m == [r EXCEPT !.beat.at = "write", !.beat.fd = i]
<1>1. Sound(p, r) /\ r.beat.at = "open"
  BY SoundMemory DEF BeatOpen
<1>2. i \in Inode
  BY FreeInode DEF BeatOpen, Free, IType, TypeOK, Places
<1>3. Becomes(p, m) /\ NoFault /\ lock' = i /\ file' = [file EXCEPT ![i] = Empty] /\ UNCHANGED displaced
  BY DEF BeatOpen
<1>4. lock' \in Places /\ file' \in Files
  BY <1>2, <1>3, EmptiedFile DEF Places
<1>5. displaced' \in BOOLEAN
  BY <1>3 DEF IType, TypeOK
<1>6. clobbered' \in BOOLEAN
  BY DEF BeatOpen
<1> HIDE DEF r, i
<1>7. Sound(p, m)
  BY <1>1, <1>2 DEF Sound, Memory, Places
<1> HIDE DEF m
<1> QED BY <1>3, <1>4, <1>5, <1>6, <1>7, StepType

LEMMA BeatWriteType == ASSUME IType, NEW p \in Process, BeatWrite(p) PROVE IType'
<1> DEFINE r == proc[p]
           m == [r EXCEPT !.beat = NoBeat]
<1>1. Sound(p, r) /\ r.beat.at = "write"
  BY SoundMemory DEF BeatWrite
<1>2. r.beat.fd \in Inode /\ r.beat.token \in Tokens
  BY <1>1 DEF Sound, Memory
<1>3. Becomes(p, m) /\ NoFault /\ UNCHANGED <<lock, displaced, clobbered>>
      /\ file' = [file EXCEPT ![r.beat.fd] = Holds(r.beat.token)]
  BY DEF BeatWrite
<1>4. file' \in Files
  BY <1>2, <1>3, WrittenFile
<1>5. displaced' \in BOOLEAN /\ clobbered' \in BOOLEAN /\ lock' \in Places
  BY <1>3 DEF IType, TypeOK
<1>6. NoBeat \in [at : {"none", "open", "write"}, token : Tokens, fd : Places] /\ NoBeat.at = "none"
  BY DEF NoBeat, Tokens, Places
<1> HIDE DEF r, NoBeat
<1>7. Sound(p, m)
  BY <1>1, <1>6 DEF Sound, Memory
<1> HIDE DEF m
<1> QED BY <1>3, <1>4, <1>5, <1>7, StepType

LEMMA CrashType == ASSUME IType, NEW p \in Process, Crash(p) PROVE IType'
<1> DEFINE n == proc[p].round
           m == [Outside EXCEPT !.pc = "dead", !.round = n]
<1>1. n \in 0 .. MaxTokens
  BY SoundMemory DEF Sound, Memory
<1>2. Becomes(p, m) /\ Fault /\ UNCHANGED <<lock, file, displaced, clobbered>>
  BY DEF Crash
<1>3. NoBeat \in [at : {"none", "open", "write"}, token : Tokens, fd : Places] /\ NoBeat.at = "none"
  BY DEF NoBeat, Tokens, Places
<1>4. NoBytes \in [token : Tokens, age : 0 .. Grace + 1]
  BY LockAssumption DEF NoBytes, Tokens
<1> HIDE DEF n, NoBeat, NoBytes
<1>5. 0 \in Places /\ 0 \in 0 .. MaxBeats
  BY LockAssumption DEF Places
<1>6. /\ Outside \in Memory
      /\ Outside.fd = 0 /\ Outside.aside = 0 /\ Outside.beat = NoBeat
  BY <1>3, <1>4, <1>5, LockAssumption DEF Outside, Memory
<1> HIDE DEF Outside
<1>7. Sound(p, m)
  BY <1>1, <1>3, <1>6 DEF Sound, Memory, AsideSteps, HolderSteps
<1> HIDE DEF m
<1> QED BY <1>2, <1>7, MoveType

LEMMA TickType == ASSUME IType, Tick PROVE IType'
<1> DEFINE f(i) == [file[i] EXCEPT !.age = Capped(@), !.mtime = Capped(@)]
<1>1. file' \in Files
  <2>1. ASSUME NEW n \in 0 .. Grace + 1 PROVE Capped(n) \in 0 .. Grace + 1
    BY LockAssumption DEF Capped
  <2>2. ASSUME NEW i \in Inode
        PROVE  f(i) \in [token : Tokens, age : 0 .. Grace + 1, mtime : 0 .. Grace + 1]
    <3> DEFINE r == file[i]
    <3>1. r \in [token : Tokens, age : 0 .. Grace + 1, mtime : 0 .. Grace + 1]
      BY DEF IType, TypeOK
    <3> HIDE DEF r
    <3>2. [r EXCEPT !.age = Capped(@), !.mtime = Capped(@)]
            \in [token : Tokens, age : 0 .. Grace + 1, mtime : 0 .. Grace + 1]
      BY <2>1, <3>1
    <3> QED BY <3>2 DEF r
  <2>3. file' = [i \in Inode |-> f(i)]
    BY DEF Tick
  <2> HIDE DEF f
  <2> QED BY <2>2, <2>3 DEF Files
<1>2. UNCHANGED <<lock, proc, displaced, clobbered, faults>>
  BY DEF Tick, NoFault
<1>3. TypeOK'
  BY <1>1, <1>2 DEF IType, TypeOK, Files, At
<1>4. Drawn'
  BY <1>2 DEF IType, Drawn, Holder, Writing
<1> QED BY <1>3, <1>4 DEF IType

LEMMA TypeStep == ASSUME IType, [Next]_vars PROVE IType'
<1>1. CASE Tick
  BY <1>1, TickType
<1>2. ASSUME NEW p \in Process,
             Start(p) \/ CreateFails(p) \/ Enter(p) \/ StatLock(p) \/ Reread(p) \/ Leave(p)
               \/ CheckRelease(p)
      PROVE  IType'
  BY <1>2, GotoType
     DEF Start, CreateFails, Enter, StatLock, Reread, Leave, CheckRelease, At, Holder,
         AsideSteps, HolderSteps
<1>3. ASSUME NEW p \in Process, Remove(p) \/ Retry(p) \/ GiveUp(p) PROVE IType'
  <2>1. /\ Forget(p, "create") \/ Forget(p, "out")
        /\ NoFault /\ UNCHANGED <<file, clobbered>> /\ ~At(p, "write")
        /\ lock' \in Places
    BY <1>3 DEF Remove, Retry, GiveUp, At, IType, TypeOK
  <2>2. displaced' \in BOOLEAN
    BY <1>3 DEF Remove, Retry, GiveUp, IType, TypeOK
  <2> QED BY <2>1, <2>2, ForgetType
<1>4. ASSUME NEW p \in Process,
             Create(p) \/ WriteLock(p) \/ WriteLockFails(p) \/ Judge(p) \/ Steal(p) \/ Restore(p)
               \/ Unlink(p) \/ BeatRead(p) \/ BeatOpen(p) \/ BeatWrite(p) \/ Crash(p)
      PROVE  IType'
  BY <1>4, CreateType, WriteLockType, WriteLockFailsType, JudgeType, StealType, RestoreType,
     UnlinkType, BeatReadType, BeatOpenType, BeatWriteType, CrashType
<1>5. CASE UNCHANGED vars
  <2>1. TypeOK'
    BY <1>5 DEF vars, IType, TypeOK, At
  <2>2. Drawn'
    BY <1>5 DEF vars, IType, Drawn, Holder, Writing
  <2> QED BY <2>1, <2>2 DEF IType
<1> QED BY <1>1, <1>2, <1>3, <1>4, <1>5 DEF Next, Acquiring, Releasing, Beating

\* In every behaviour the lockfile, the inodes and what acquireLock, the heartbeat and
\* releaseLock keep in memory have their shape; a process has a descriptor exactly while it
\* is about to write, and a file moved aside exactly while it decides about it.
THEOREM TypeCorrect == Spec => []TypeOK
<1>1. Spec => []IType
  BY InitType, TypeStep, PTL DEF Spec
<1>2. IType => TypeOK
  BY DEF IType
<1> QED BY <1>1, <1>2, PTL
----------------------------------------------------------------------------
Calm == ~displaced /\ ~clobbered

\* What a holder finds at lockPath: the file it has created and not filled
\* yet, its own token and a recent heartbeat, or a file its heartbeat fills.
Fresh(p) ==
  /\ At(p, "write") /\ proc[p].fd = lock
  /\ file[lock].token = NoToken /\ file[lock].mtime <= Grace
Beaten(p) ==
  ~At(p, "write") /\ file[lock].token = Token(p) /\ file[lock].age <= Stale
Emptied(p) ==
  /\ ~At(p, "write") /\ Writing(p) /\ proc[p].beat.fd = lock /\ proc[p].beat.token = Token(p)
Secured(p) == lock \in Inode /\ (Fresh(p) \/ Beaten(p) \/ Emptied(p))

Core ==
  /\ \A p \in Process : Holder(p) => Secured(p)
  /\ \A p, q \in Process : Holder(p) /\ Holder(q) => p = q
  /\ \A p \in Process : Writing(p) =>
       file[proc[p].beat.fd].token = NoToken /\ file[proc[p].beat.fd].mtime <= Grace
  /\ \A p, q \in Process :
       Writing(p) /\ Writing(q) /\ proc[p].beat.fd = proc[q].beat.fd => p = q
  /\ \A p, q \in Process : At(p, "write") /\ Writing(q) => proc[p].fd # proc[q].beat.fd

IInv == IType /\ (Calm => Core)

LEMMA TokensDiffer ==
  ASSUME NEW p \in Process, NEW q \in Process
  PROVE  Token(p) # NoToken /\ (Token(p) = Token(q) => p = q)
BY DEF Token, NoToken

LEMMA OthersToken ==
  ASSUME NEW p, NEW token \in {p} \X (1 .. MaxTokens), NEW q \in Process
  PROVE  token # NoToken /\ (token = Token(q) => p = q) /\ token[1] = p
BY DEF Token, NoToken

LEMMA HoldersLockIsNotStale ==
  ASSUME IType, Core, NEW p \in Process, Holder(p)
  PROVE  lock \in Inode /\ ~IsStale(lock)
<1>1. Secured(p) /\ lock \in Inode
  BY DEF Core, Secured
<1>2. Alive(p) /\ Token(p)[1] = p /\ Token(p) # NoToken
  BY TokensDiffer DEF Alive, Holder, HolderSteps, Token
<1> DEFINE f == file[lock]
<1>3. f.age \in Nat /\ f.mtime \in Nat /\ Grace \in Nat /\ Stale \in Nat
  BY <1>1, LockAssumption DEF IType, TypeOK
<1>4. ASSUME f.token = NoToken, f.mtime <= Grace PROVE ~IsStale(lock)
  <2>1. ~Untouched(f)
    BY <1>3, <1>4 DEF Untouched
  <2> QED BY <1>4, <2>1 DEF IsStale
<1>5. CASE Beaten(p)
  <2>1. f.token = Token(p) /\ ~(f.age > Stale)
    BY <1>3, <1>5 DEF Beaten
  <2>2. f.token # NoToken /\ ~OwnerDead(f.token)
    BY <1>2, <2>1 DEF OwnerDead
  <2>3. ~Expired(f)
    BY <2>1, <2>2 DEF Expired
  <2> QED BY <1>1, <2>2, <2>3 DEF IsStale
<1>6. CASE Fresh(p)
  BY <1>1, <1>4, <1>6 DEF Fresh
<1>7. CASE Emptied(p)
  <2>1. Writing(p) /\ proc[p].beat.fd = lock
    BY <1>7 DEF Emptied
  <2>2. file[proc[p].beat.fd].token = NoToken /\ file[proc[p].beat.fd].mtime <= Grace
    BY <2>1 DEF Core
  <2> QED BY <1>1, <1>4, <2>1, <2>2
<1> QED BY <1>1, <1>5, <1>6, <1>7 DEF Secured

\* Only p's memory changes, and it becomes m.
Moves(p, m) == proc'[p] = m /\ \A q \in Process \ {p} : proc'[q] = proc[q]

LEMMA BecomesMoves ==
  ASSUME IType, NEW p \in Process, NEW m, Becomes(p, m)
  PROVE  Moves(p, m)
BY DEF IType, TypeOK, Becomes, Moves

\* Nobody holds after the step, and no file or beat is touched.
LEMMA CoreNobody ==
  ASSUME Core, NEW p \in Process, NEW m, Moves(p, m),
         \A q \in Process : ~Holder(q)', file' = file, m.beat = proc[p].beat
  PROVE  Core'
<1>1. \A q \in Process : proc'[q].beat = proc[q].beat
  BY DEF Moves
<1>2. \A q \in Process : ~(At(q, "write"))'
  BY DEF Holder, HolderSteps, At
<1> QED BY <1>1, <1>2 DEF Core, Holder, Writing

\* p goes on without touching a file.
LEMMA CoreMove ==
  ASSUME Core, NEW p \in Process, NEW m, Moves(p, m), UNCHANGED <<lock, file>>,
         m.pc \in HolderSteps =>
           Holder(p) /\ m.pc # "write" /\ ~At(p, "write") /\ m.round = proc[p].round,
         \/ m.beat = proc[p].beat
         \/ ~Writing(p) /\ m.beat.at # "write"
         \/ m.pc \notin HolderSteps /\ m.beat.at # "write"
  PROVE  Core'
<1>1. \A q \in Process : Holder(q)' => Holder(q)
  BY DEF Moves, Holder
<1>2. \A q \in Process : Writing(q)' => Writing(q) /\ proc'[q].beat = proc[q].beat
  BY DEF Moves, Writing
<1>3. \A q \in Process : (At(q, "write"))' => At(q, "write") /\ proc'[q].fd = proc[q].fd
  BY DEF Moves, At, HolderSteps
<1>4. ASSUME NEW q \in Process, Holder(q)' PROVE Secured(q)'
  <2>1. Secured(q)
    BY <1>1, <1>4 DEF Core
  <2>2. CASE q # p
    BY <2>1, <2>2 DEF Moves, Secured, Fresh, Beaten, Emptied, At, Token, Writing
  <2>3. CASE q = p
    BY <1>4, <2>1, <2>3 DEF Moves, Secured, Fresh, Beaten, Emptied, At, Token, Writing, Holder
  <2> QED BY <2>2, <2>3
<1> QED BY <1>1, <1>2, <1>3, <1>4 DEF Core

LEMMA CoreGoto ==
  ASSUME IType, Core, NEW p \in Process, NEW label, Goto(p, label), UNCHANGED <<lock, file>>,
         label \in HolderSteps => Holder(p) /\ label # "write" /\ ~At(p, "write")
  PROVE  Core'
<1> DEFINE r == proc[p]
           m == [r EXCEPT !.pc = label]
<1>1. Moves(p, m)
  BY BecomesMoves DEF Goto
<1>2. Sound(p, r)
  BY SoundMemory
<1> HIDE DEF r
<1>3. m.pc = label /\ m.beat = r.beat /\ m.round = r.round
  BY <1>2 DEF Sound, Memory
<1> HIDE DEF m
<1> QED BY <1>1, <1>3, CoreMove DEF r

LEMMA CoreForget ==
  ASSUME IType, Core, NEW p \in Process, NEW label \in {"out", "create", "backoff"},
         Forget(p, label), file' = file,
         lock' = lock \/ \A q \in Process \ {p} : ~Holder(q)
  PROVE  Core'
<1> DEFINE r == proc[p]
           m == [r EXCEPT !.pc = label, !.aside = 0, !.judged = NoBytes]
<1>1. Moves(p, m)
  BY BecomesMoves DEF Forget
<1>2. Sound(p, r)
  BY SoundMemory
<1> HIDE DEF r
<1>3. m.pc = label /\ m.beat = r.beat /\ label \notin HolderSteps
  BY <1>2 DEF Sound, Memory, HolderSteps
<1> HIDE DEF m
<1>4. CASE lock' = lock
  BY <1>1, <1>3, <1>4, CoreMove DEF r
<1>5. CASE \A q \in Process \ {p} : ~Holder(q)
  <2>1. \A q \in Process : ~Holder(q)'
    BY <1>1, <1>3, <1>5 DEF Moves, Holder
  <2> QED BY <1>1, <1>3, <2>1, CoreNobody DEF r
<1> QED BY <1>4, <1>5

LEMMA CreateCore == ASSUME IType, Core, NEW p \in Process, Create(p) PROVE Core'
<1> DEFINE r == proc[p]
           n == r.round + 1
           i == NewInode
           m == [r EXCEPT !.pc = "write", !.fd = i, !.round = n]
<1>1. Moves(p, m)
  BY BecomesMoves DEF Create
<1>2. Sound(p, r)
  BY SoundMemory
<1>3. i \in Free /\ i \in Inode
  BY FreeInode DEF Create, Free
<1>4. \A q \in Process : proc[q].beat.fd # i
  BY <1>3 DEF Free
<1>5. lock' = i /\ file' = [file EXCEPT ![i] = Empty]
  BY DEF Create
<1>6. \A q \in Process : ~Holder(q)
  BY LockAssumption DEF Create, Vacant, Core, Secured
<1> HIDE DEF r, n, i
<1>7. m.pc = "write" /\ m.fd = i /\ m.beat = r.beat
  BY <1>2 DEF Sound, Memory
<1> HIDE DEF m
<1>8. \A q \in Process : proc'[q].beat = proc[q].beat
  BY <1>1, <1>7 DEF Moves, r
<1>9. \A q \in Process : (Holder(q)' => q = p) /\ ((At(q, "write"))' => q = p)
  BY <1>1, <1>6 DEF Moves, Holder, At, HolderSteps
<1>10. file'[i] = Empty /\ \A j \in Inode : j # i => file'[j] = file[j]
  BY <1>3, <1>5 DEF IType, TypeOK
<1>11. \A q \in Process : Writing(q) => proc[q].beat.fd \in Inode
  BY DEF IType, Drawn
<1>12. Secured(p)'
  <2>1. Empty.token = NoToken /\ Empty.mtime <= Grace
    BY LockAssumption DEF Empty
  <2> QED BY <1>1, <1>3, <1>5, <1>7, <1>10, <2>1 DEF Moves, Secured, Fresh, At
<1>13. \A q \in Process : Writing(q)' =>
         file'[proc'[q].beat.fd].token = NoToken /\ file'[proc'[q].beat.fd].mtime <= Grace
  BY <1>4, <1>8, <1>10, <1>11 DEF Writing, Core
<1> QED BY <1>1, <1>4, <1>7, <1>8, <1>9, <1>12, <1>13 DEF Core, Moves, Writing

\* p fills a file of its own with its token.
LEMMA WriteLockCore == ASSUME IType, Core, NEW p \in Process, WriteLock(p) PROVE Core'
<1> DEFINE r == proc[p]
           i == r.fd
           m == [r EXCEPT !.pc = "chmod", !.fd = 0]
<1>1. Moves(p, m)
  BY BecomesMoves DEF WriteLock
<1>2. Sound(p, r) /\ r.pc = "write"
  BY SoundMemory DEF WriteLock, At
<1>3. i = lock /\ lock \in Inode
  BY <1>2 DEF Core, Secured, Fresh, Beaten, Emptied, At, Holder, HolderSteps
<1>4. lock' = lock /\ file'[lock] = Holds(Token(p)) /\ \A j \in Inode : j # lock => file'[j] = file[j]
  BY <1>3 DEF WriteLock, IType, TypeOK
<1>5. \A q \in Process : Writing(q) => proc[q].beat.fd \in Inode /\ proc[q].beat.fd # lock
  BY <1>2, <1>3 DEF IType, Drawn, Core, At
<1>6. \A q \in Process : Holder(q) => q = p
  BY <1>2 DEF Core, Holder, HolderSteps
<1> HIDE DEF r, i
<1>7. m.pc = "chmod" /\ m.beat = r.beat /\ m.round = r.round
  BY <1>2 DEF Sound, Memory
<1> HIDE DEF m
<1>8. \A q \in Process : proc'[q].beat = proc[q].beat
  BY <1>1, <1>7 DEF Moves, r
<1>9. \A q \in Process : (Holder(q)' => q = p) /\ ~(At(q, "write"))'
  BY <1>1, <1>6, <1>7 DEF Moves, Holder, At, HolderSteps
<1>10. Secured(p)'
  <2>1. Token(p)' = Token(p)
    BY <1>1, <1>7 DEF Moves, Token, r
  <2>2. Holds(Token(p)).token = Token(p) /\ Holds(Token(p)).age <= Stale
    BY LockAssumption DEF Holds
  <2> QED BY <1>1, <1>3, <1>4, <1>7, <2>1, <2>2 DEF Moves, Secured, Beaten, At
<1>11. \A q \in Process : Writing(q)' =>
         file'[proc'[q].beat.fd].token = NoToken /\ file'[proc'[q].beat.fd].mtime <= Grace
  BY <1>4, <1>5, <1>8 DEF Writing, Core
<1> QED BY <1>8, <1>9, <1>10, <1>11 DEF Core, Writing

\* A lock that is moved aside without displacing anybody is stale: nobody holds.
LEMMA StealCore ==
  ASSUME IType, Core, NEW p \in Process, Steal(p), Calm' PROVE Core'
<1>1. CASE lock = 0
  BY <1>1, CoreForget DEF Steal
<1>2. CASE lock # 0
  <2> DEFINE r == proc[p]
             m == [r EXCEPT !.pc = "reread", !.aside = lock]
  <2>1. Moves(p, m)
    BY <1>2, BecomesMoves DEF Steal
  <2>2. Sound(p, r)
    BY SoundMemory
  <2>3. IsStale(lock)
    BY <1>2 DEF Steal, Calm
  <2>4. \A q \in Process : ~Holder(q)
    BY <2>3, HoldersLockIsNotStale
  <2>5. file' = file
    BY DEF Steal
  <2> HIDE DEF r
  <2>6. m.pc = "reread" /\ m.beat = r.beat
    BY <2>2 DEF Sound, Memory
  <2> HIDE DEF m
  <2>7. \A q \in Process : ~Holder(q)'
    BY <2>1, <2>4, <2>6 DEF Moves, Holder, HolderSteps
  <2> QED BY <2>1, <2>5, <2>6, <2>7, CoreNobody DEF r
<1> QED BY <1>1, <1>2

LEMMA RestoreCore ==
  ASSUME IType, Core, NEW p \in Process, Restore(p), Calm' PROVE Core'
<1>1. lock = 0
  BY DEF Restore, Calm
<1>2. \A q \in Process : ~Holder(q)
  BY <1>1, LockAssumption DEF Core, Secured
<1> QED BY <1>2, CoreForget DEF Restore

LEMMA UnlinkCore == ASSUME IType, Core, NEW p \in Process, Unlink(p) PROVE Core'
<1> DEFINE r == proc[p]
           m == [r EXCEPT !.pc = "out"]
<1>1. Moves(p, m)
  BY BecomesMoves DEF Unlink, Goto
<1>2. Sound(p, r)
  BY SoundMemory
<1>3. \A q \in Process \ {p} : ~Holder(q)
  BY DEF Unlink, Core, Holder, HolderSteps, At
<1>4. file' = file
  BY DEF Unlink
<1> HIDE DEF r
<1>5. m.pc = "out" /\ m.beat = r.beat
  BY <1>2 DEF Sound, Memory
<1> HIDE DEF m
<1>6. \A q \in Process : ~Holder(q)'
  BY <1>1, <1>3, <1>5 DEF Moves, Holder, HolderSteps
<1> QED BY <1>1, <1>4, <1>5, <1>6, CoreNobody DEF r

\* The beat that finds its own token opens the holder's lock, and no other's.
LEMMA BeatOpenCore ==
  ASSUME IType, Core, NEW p \in Process, BeatOpen(p), Calm' PROVE Core'
<1> DEFINE r == proc[p]
           i == lock
           m == [r EXCEPT !.beat.at = "write", !.beat.fd = i]
<1>1. lock # 0 /\ file[lock].token = r.beat.token
  BY DEF BeatOpen, Calm
<1>2. lock \in Inode /\ lock' = lock
  BY <1>1 DEF BeatOpen, IType, TypeOK, Places
<1>3. Becomes(p, m)
  BY <1>1 DEF BeatOpen
<1>4. Moves(p, m)
  BY <1>3, BecomesMoves
<1>5. Sound(p, r) /\ r.beat.at = "open"
  BY SoundMemory DEF BeatOpen
<1>6. r.beat.token # NoToken /\ \A q \in Process : r.beat.token = Token(q) => p = q
  BY <1>5, OthersToken DEF Sound
<1>7. file'[lock] = Empty /\ \A j \in Inode : j # lock => file'[j] = file[j]
  BY <1>1, <1>2 DEF BeatOpen, IType, TypeOK
<1>8. \A q \in Process : Writing(q) => proc[q].beat.fd \in Inode /\ proc[q].beat.fd # lock
  BY <1>1, <1>6 DEF IType, Drawn, Core
<1>9. \A q \in Process : Holder(q) => q = p /\ Beaten(p)
  <2>1. ASSUME NEW q \in Process, Holder(q) PROVE q = p /\ Beaten(p)
    <3>1. Secured(q)
      BY <2>1 DEF Core
    <3>2. ~Fresh(q) /\ ~Emptied(q)
      BY <1>1, <1>6, <1>8 DEF Fresh, Emptied
    <3>3. Beaten(q)
      BY <3>1, <3>2 DEF Secured
    <3> QED BY <1>1, <1>6, <3>3 DEF Beaten
  <2> QED BY <2>1
<1>10. Empty.token = NoToken /\ Empty.mtime <= Grace
  BY LockAssumption DEF Empty
<1> HIDE DEF r, i
<1>11. /\ m.pc = r.pc /\ m.round = r.round
       /\ m.beat.at = "write" /\ m.beat.fd = i /\ m.beat.token = r.beat.token
  BY <1>5 DEF Sound, Memory
<1> HIDE DEF m
<1>12. \A q \in Process : (Holder(q)' => q = p /\ Beaten(p)) /\ ~(At(q, "write"))'
  BY <1>4, <1>9, <1>11 DEF Moves, Holder, HolderSteps, At, Beaten, r
<1>13. ASSUME Holder(p)' PROVE Secured(p)'
  <2>1. Beaten(p) /\ file[lock].token = Token(p)
    BY <1>12, <1>13 DEF Beaten
  <2>2. Token(p)' = Token(p)
    BY <1>4, <1>11 DEF Moves, Token, r
  <2>3. Emptied(p)'
    BY <1>1, <1>2, <1>4, <1>11, <1>12, <2>1, <2>2 DEF Moves, Emptied, Writing, i
  <2> QED BY <1>2, <2>3 DEF Secured
<1>14. \A q \in Process : Writing(q)' =>
         file'[proc'[q].beat.fd].token = NoToken /\ file'[proc'[q].beat.fd].mtime <= Grace
  BY <1>2, <1>4, <1>7, <1>8, <1>10, <1>11 DEF Moves, Writing, Core, i
<1>15. \A q, s \in Process :
         Writing(q)' /\ Writing(s)' /\ proc'[q].beat.fd = proc'[s].beat.fd => q = s
  BY <1>2, <1>4, <1>8, <1>11 DEF Moves, Writing, Core, i
<1> QED BY <1>12, <1>13, <1>14, <1>15 DEF Core

LEMMA BeatWriteCore == ASSUME IType, Core, NEW p \in Process, BeatWrite(p) PROVE Core'
<1> DEFINE r == proc[p]
           i == r.beat.fd
           m == [r EXCEPT !.beat = NoBeat]
<1>1. Moves(p, m)
  BY BecomesMoves DEF BeatWrite
<1>2. Sound(p, r) /\ Writing(p)
  BY SoundMemory DEF BeatWrite, Writing
<1>3. i \in Inode
  BY <1>2 DEF IType, Drawn
<1>4. lock' = lock /\ file'[i] = Holds(r.beat.token) /\ \A j \in Inode : j # i => file'[j] = file[j]
  BY <1>3 DEF BeatWrite, IType, TypeOK
<1>5. \A q \in Process \ {p} : Writing(q) => proc[q].beat.fd \in Inode /\ proc[q].beat.fd # i
  BY <1>2 DEF IType, Drawn, Core
<1>6. \A q \in Process : At(q, "write") => proc[q].fd # i
  BY <1>2 DEF Core
<1>7. file[i].token = NoToken
  BY <1>2 DEF Core
<1>8. Holds(r.beat.token).token = r.beat.token /\ Holds(r.beat.token).age <= Stale
  BY LockAssumption DEF Holds
<1>9. NoBeat.at = "none"
  BY DEF NoBeat
<1> HIDE DEF NoBeat, Holds
<1>10. m.pc = r.pc /\ m.round = r.round /\ m.fd = r.fd /\ m.beat.at = "none"
  BY <1>2, <1>9 DEF Sound, Memory
<1> HIDE DEF m
<1>11. \A q \in Process : /\ proc'[q].pc = proc[q].pc
                           /\ proc'[q].round = proc[q].round
                           /\ proc'[q].fd = proc[q].fd
  BY <1>1, <1>10 DEF Moves, r
<1>12. \A q \in Process : Writing(q)' => q # p /\ Writing(q) /\ proc'[q].beat = proc[q].beat
  BY <1>1, <1>10 DEF Moves, Writing
<1>13. ASSUME NEW q \in Process, Holder(q)' PROVE Secured(q)'
  <2>1. Secured(q) /\ lock \in Inode
    BY <1>11, <1>13 DEF Core, Secured, Holder
  <2>2. CASE Fresh(q)
    <3>1. lock # i
      BY <1>6, <2>2 DEF Fresh
    <3> QED BY <1>4, <1>11, <2>1, <2>2, <3>1 DEF Secured, Fresh, At
  <2>3. CASE Beaten(q)
    <3>1. lock # i
      BY <1>7, <2>3, TokensDiffer DEF Beaten
    <3> QED BY <1>4, <1>11, <2>1, <2>3, <3>1 DEF Secured, Beaten, At, Token
  <2>4. CASE Emptied(q) /\ q # p
    <3>1. lock # i
      BY <1>5, <2>4 DEF Emptied
    <3>2. proc'[q] = proc[q]
      BY <1>1, <2>4 DEF Moves
    <3> QED BY <1>4, <2>1, <2>4, <3>1, <3>2 DEF Secured, Emptied, Writing, At, Token
  <2>5. CASE Emptied(q) /\ q = p
    <3>1. lock = i /\ r.beat.token = Token(p)
      BY <2>5 DEF Emptied
    <3> QED BY <1>4, <1>8, <1>11, <2>1, <2>5, <3>1 DEF Secured, Beaten, Emptied, At, Token
  <2> QED BY <2>1, <2>2, <2>3, <2>4, <2>5 DEF Secured
<1>14. ASSUME NEW q \in Process, Writing(q)'
       PROVE  file'[proc'[q].beat.fd].token = NoToken /\ file'[proc'[q].beat.fd].mtime <= Grace
  <2>1. q # p /\ Writing(q) /\ proc'[q].beat = proc[q].beat
    BY <1>12, <1>14
  <2> QED BY <1>4, <1>5, <2>1 DEF Core
<1> QED BY <1>11, <1>12, <1>13, <1>14 DEF Core, Holder, At

LEMMA TickCore == ASSUME IType, Core, Tick PROVE Core'
<1>1. UNCHANGED <<lock, proc>>
  BY DEF Tick
<1>2. \A p \in Process : ~Writing(p) /\ (Holder(p) => At(p, "critical"))
  <2>1. ASSUME NEW p \in Process PROVE ~Writing(p) /\ (Holder(p) => At(p, "critical"))
    <3>1. Prompt(p)
      BY DEF Tick
    <3>2. NoBeat.at # "write"
      BY DEF NoBeat
    <3> QED BY <3>1, <3>2 DEF Prompt, Writing, Holder, HolderSteps, At
  <2> QED BY <2>1
<1>3. ASSUME NEW p \in Process, Holder(p) PROVE Secured(p)'
  <2>1. At(p, "critical") /\ Beaten(p) /\ lock \in Inode
    BY <1>2, <1>3 DEF Core, Secured, Fresh, Emptied, At
  <2>2. file[lock].age < Stale /\ file[lock].age \in 0 .. Grace + 1
    BY <2>1, LockAssumption DEF Tick, Punctual, OwnToken, Beaten, IType, TypeOK
  <2>3. file'[lock] = [file[lock] EXCEPT !.age = Capped(@), !.mtime = Capped(@)]
    BY <2>1 DEF Tick
  <2>4. file'[lock].token = file[lock].token /\ file'[lock].age = Capped(file[lock].age)
    BY <2>1, <2>3 DEF IType, TypeOK
  <2>5. file'[lock].age <= Stale
    BY <2>2, <2>4, LockAssumption DEF Capped
  <2> QED BY <1>1, <2>1, <2>4, <2>5 DEF Secured, Beaten, At, Token
<1> QED BY <1>1, <1>2, <1>3 DEF Core, Holder, Writing, At, HolderSteps

LEMMA OtherCores ==
  ASSUME IType, Core, NEW p \in Process, WriteLockFails(p) \/ Judge(p) \/ BeatRead(p) \/ Crash(p)
  PROVE  Core'
<1> DEFINE r == proc[p]
<1>1. Sound(p, r)
  BY SoundMemory
<1>2. CASE WriteLockFails(p)
  <2> DEFINE m == [r EXCEPT !.pc = "out", !.fd = 0]
  <2>1. Moves(p, m) /\ UNCHANGED <<lock, file>>
    BY <1>2, BecomesMoves DEF WriteLockFails
  <2> HIDE DEF r
  <2>2. m.pc = "out" /\ m.beat = r.beat
    BY <1>1 DEF Sound, Memory
  <2> HIDE DEF m
  <2> QED BY <2>1, <2>2, CoreMove DEF r, HolderSteps
<1>3. CASE Judge(p)
  <2>1. CASE lock = 0
    BY <1>3, <2>1, CoreGoto DEF Judge, HolderSteps
  <2>2. CASE lock # 0
    <3> DEFINE j == [token |-> file[lock].token, age |-> file[lock].age]
               label == IF file[lock].token = NoToken THEN "stat"
                        ELSE IF Expired(file[lock]) THEN "steal" ELSE "backoff"
               m == [r EXCEPT !.judged = j, !.pc = label]
    <3>1. Moves(p, m) /\ UNCHANGED <<lock, file>>
      BY <1>3, <2>2, BecomesMoves DEF Judge
    <3>2. label \in {"stat", "steal", "backoff"}
      OBVIOUS
    <3> HIDE DEF r, j, label
    <3>3. m.pc = label /\ m.beat = r.beat
      BY <1>1 DEF Sound, Memory
    <3> HIDE DEF m
    <3> QED BY <3>1, <3>2, <3>3, CoreMove DEF r, HolderSteps
  <2> QED BY <2>1, <2>2
<1>4. CASE BeatRead(p)
  <2> DEFINE b == IF OwnToken(p) THEN [at |-> "open", token |-> Token(p), fd |-> 0] ELSE r.beat
             n == r.beats + 1
             m == [r EXCEPT !.beats = n, !.beat = b]
  <2>1. Moves(p, m) /\ UNCHANGED <<lock, file>>
    BY <1>4, BecomesMoves DEF BeatRead
  <2>2. r.pc = "critical" /\ r.beat = NoBeat
    BY <1>4 DEF BeatRead, At
  <2>3. r.beat.at # "write" /\ b.at # "write"
    BY <2>2 DEF NoBeat
  <2> HIDE DEF r, b, n
  <2>4. m.pc = r.pc /\ m.round = r.round /\ m.beat = b
    BY <1>1 DEF Sound, Memory
  <2> HIDE DEF m
  <2> QED BY <2>1, <2>2, <2>3, <2>4, CoreMove DEF r, HolderSteps, Holder, Writing, At
<1>5. CASE Crash(p)
  <2> DEFINE n == r.round
             m == [Outside EXCEPT !.pc = "dead", !.round = n]
  <2>1. Moves(p, m) /\ UNCHANGED <<lock, file>>
    BY <1>5, BecomesMoves DEF Crash
  <2> HIDE DEF r, n
  <2>2. m.pc = "dead" /\ m.beat.at # "write"
    BY DEF Outside, NoBeat
  <2> HIDE DEF m
  <2> QED BY <2>1, <2>2, CoreMove DEF HolderSteps
<1> QED BY <1>2, <1>3, <1>4, <1>5

LEMMA CoreStep == ASSUME IType, Core, [Next]_vars, Calm' PROVE Core'
<1>1. CASE Tick
  BY <1>1, TickCore
<1>2. ASSUME NEW p \in Process,
             Start(p) \/ CreateFails(p) \/ Enter(p) \/ StatLock(p) \/ Reread(p) \/ Leave(p)
               \/ CheckRelease(p)
      PROVE  Core'
  BY <1>2, CoreGoto
     DEF Start, CreateFails, Enter, StatLock, Reread, Leave, CheckRelease, At, Holder, HolderSteps
<1>3. ASSUME NEW p \in Process, Remove(p) \/ Retry(p) \/ GiveUp(p) PROVE Core'
  BY <1>3, CoreForget DEF Remove, Retry, GiveUp
<1>4. ASSUME NEW p \in Process,
             Create(p) \/ WriteLock(p) \/ Steal(p) \/ Restore(p) \/ Unlink(p) \/ BeatOpen(p)
               \/ BeatWrite(p)
      PROVE  Core'
  BY <1>4, CreateCore, WriteLockCore, StealCore, RestoreCore, UnlinkCore, BeatOpenCore, BeatWriteCore
<1>5. ASSUME NEW p \in Process, WriteLockFails(p) \/ Judge(p) \/ BeatRead(p) \/ Crash(p)
      PROVE  Core'
  BY <1>5, OtherCores
<1>6. CASE UNCHANGED vars
  BY <1>6 DEF vars, Core, Holder, Writing, At, Secured, Fresh, Beaten, Emptied, Token
<1> QED BY <1>1, <1>2, <1>3, <1>4, <1>5, <1>6 DEF Next, Acquiring, Releasing, Beating

LEMMA DisturbanceStays == ASSUME [Next]_vars, Calm' PROVE Calm
<1>1. CASE Tick \/ UNCHANGED vars
  <2>1. displaced' = displaced /\ clobbered' = clobbered
    BY <1>1 DEF Tick, vars
  <2> QED BY <2>1 DEF Calm
<1>2. ASSUME NEW p \in Process,
             Start(p) \/ Create(p) \/ CreateFails(p) \/ WriteLock(p) \/ WriteLockFails(p)
               \/ Enter(p) \/ Judge(p) \/ StatLock(p) \/ Reread(p)
      PROVE  Calm
  BY <1>2 DEF Start, Create, CreateFails, WriteLock, WriteLockFails, Enter, Judge, StatLock,
     Reread, Calm
<1>3. ASSUME NEW p \in Process,
             Remove(p) \/ Retry(p) \/ GiveUp(p) \/ Leave(p) \/ CheckRelease(p) \/ Unlink(p)
               \/ BeatRead(p) \/ BeatWrite(p) \/ Crash(p)
      PROVE  Calm
  BY <1>3 DEF Remove, Retry, GiveUp, Leave, CheckRelease, Unlink, BeatRead, BeatWrite, Crash, Calm
<1>4. ASSUME NEW p \in Process, Steal(p) PROVE Calm
  BY <1>4 DEF Steal, Calm
<1>5. ASSUME NEW p \in Process, Restore(p) PROVE Calm
  BY <1>5 DEF Restore, Calm
<1>6. ASSUME NEW p \in Process, BeatOpen(p) PROVE Calm
  BY <1>6 DEF BeatOpen, Calm
<1> QED BY <1>1, <1>2, <1>3, <1>4, <1>5, <1>6 DEF Next, Acquiring, Releasing, Beating

LEMMA InitInv == Init => IInv
<1> SUFFICES ASSUME Init PROVE IInv
  OBVIOUS
<1>1. \A p \in Process : ~Holder(p) /\ ~Writing(p) /\ ~At(p, "write")
  BY DEF Init, Outside, NoBeat, Holder, HolderSteps, Writing, At
<1> QED BY <1>1, InitType DEF IInv, Core

\* The invariant the other theorems rest on holds in every behaviour: as long as no lock
\* was displaced by a steal or clobbered by a late heartbeat, whoever has passed open("wx")
\* in acquireLock is the one the file at lockPath stands for.
THEOREM Invariance == Spec => []IInv
<1>1. ASSUME IInv, [Next]_vars PROVE IInv'
  BY <1>1, TypeStep, CoreStep, DisturbanceStays DEF IInv
<1> QED BY <1>1, InitInv, PTL DEF Spec

\* Two critical sections of withManagedWrite overlap only if a steal took, or a restore
\* replaced, a lock that nobody had judged, or a heartbeat was written into another's lock:
\* crashes, failed writes and expiry alone never let two processes in.
THEOREM OverlapExplained == Spec => []OverlapIsExplained
<1>1. IInv => OverlapIsExplained
  BY DEF IInv, Calm, Core, OverlapIsExplained, MutualExclusion, Holding, Holder, HolderSteps, At
<1> QED BY <1>1, Invariance, PTL

\* A process inside its critical section finds its own token at lockPath, or its own
\* heartbeat has the file emptied at that moment, unless one of those two races happened:
\* expiry and stealing never take the lock of a live, punctual holder.
THEOREM SectionKeeps == Spec => []SectionKeepsItsLock
<1>1. ASSUME IInv PROVE SectionKeepsItsLock
  <2>1. ASSUME NEW p \in Holding, Calm
        PROVE  \/ OwnToken(p)
               \/ lock # 0 /\ proc[p].beat.at = "write" /\ proc[p].beat.fd = lock
    <3>1. Secured(p) /\ ~At(p, "write")
      BY <1>1, <2>1 DEF IInv, Core, Holding, Holder, HolderSteps, At
    <3>2. lock \in Inode /\ lock # 0
      BY <3>1, LockAssumption DEF Secured
    <3> QED BY <3>1, <3>2 DEF Secured, Fresh, Beaten, Emptied, OwnToken, Writing
  <2> QED BY <2>1 DEF SectionKeepsItsLock, Calm
<1> QED BY <1>1, Invariance, PTL
=============================================================================
