------------------------- MODULE CompileCacheProofs -------------------------
(***************************************************************************)
(* Theorems about CompileCache, for any number of threads, processes,      *)
(* passes, sessions and faults.                                            *)
(***************************************************************************)
EXTENDS CompileCache, TLAPS

\* Every context_proto and every context.json an action builds is well typed.
LEMMA ProtoFacts ==
  /\ Cleared \in Proto
  /\ \A t \in Threads, o \in Options : Fresh(t, o) \in Proto
  /\ \A t \in Threads : RestoredNothing(t) \in Proto
  /\ \A t \in Threads, d \in Proto : Restored(t, d) \in Proto
  /\ \A c \in Proto : Saved(c) \in File
  /\ {Absent, Empty, Torn} \subseteq File
<1>0. MaxDefs \in Nat /\ 0 \in 0..MaxDefs
  BY CompileCacheAssumption
<1>1. Cleared \in Proto
  BY <1>0 DEF Cleared, Proto
<1>2. ASSUME NEW t \in Threads, NEW o \in Options PROVE Fresh(t, o) \in Proto
  <2>1. VersionOf[ProcOf[t]] \in Versions
    BY CompileCacheAssumption
  <2> QED
    BY <1>0, <2>1 DEF Fresh, Proto, Options
<1>3. ASSUME NEW t \in Threads PROVE RestoredNothing(t) \in Proto
  BY <1>1 DEF RestoredNothing, Proto
<1>4. ASSUME NEW t \in Threads, NEW d \in Proto PROVE Restored(t, d) \in Proto
  BY DEF Restored, Proto
<1>5. ASSUME NEW c \in Proto PROVE Saved(c) \in File
  BY DEF Saved, Whole, File, Proto
<1>6. {Absent, Empty, Torn} \subseteq File
  BY <1>1 DEF Absent, Empty, Torn, File
<1> QED
  BY <1>1, <1>2, <1>3, <1>4, <1>5, <1>6

\* The labels of the three saves.
LEMMA SaveLabels ==
  ASSUME NEW t \in Threads
  PROVE  /\ Open(1) = "open1" /\ Write(1) = "write1" /\ Flush(1) = "flush1"
         /\ Open(2) = "open2" /\ Write(2) = "write2" /\ Flush(2) = "flush2"
         /\ Open(3) = "open3" /\ Write(3) = "write3" /\ Flush(3) = "flush3"
         /\ AfterSave(t, 1) \in {"finish", "read"}
         /\ AfterSave(t, 1) = "finish" <=> failed[t]
         /\ AfterSave(t, 2) = "unlock" /\ AfterSave(t, 3) = "close"
BY DEF Open, Write, Flush, AfterSave

\* A step of save_context_json is a step of one of its three calls.
LEMMA SaveSteps ==
  ASSUME NEW t \in Threads, Save(t)
  PROVE  \E k \in {1, 2, 3} :
           \/ SaveInMem(t, k) \/ SaveOpen(t, k) \/ SaveOpenFails(t, k)
           \/ SaveWrite(t, k) \/ SaveFlush(t, k)
BY DEF Save

\* A process that dies leaves every variable well typed.
LEMMA DieTyping ==
  ASSUME TypeOK, NEW p \in Procs, Die(p), UNCHANGED file,
         sessions' \in 0..MaxSessions, faults' \in 0..MaxFaults
  PROVE  TypeOK'
<1> USE CompileCacheAssumption DEF TypeOK, Die
<1>1. pc' \in [Threads -> Labels] /\ eps' \in [Threads -> 0..MaxDefs]
  BY DEF Labels
<1>2. ctx' \in [Threads -> Proto] /\ memFile' \in [Threads -> File]
  BY ProtoFacts
<1>3. /\ failed' \in [Threads -> BOOLEAN] /\ mixed' \in [Threads -> BOOLEAN]
      /\ lock' \in [Threads -> {"none", "held", "failed"}]
  OBVIOUS
<1>5. asked' \in [Threads -> Options] /\ spoilt' \in BOOLEAN
  BY DEF NoOptions, Options
<1>4. mtx' \in [Procs -> Threads \cup {Nobody}] /\ flock' \in Procs \cup {Nobody}
  OBVIOUS
<1> QED
  BY <1>1, <1>2, <1>3, <1>4, <1>5

\* Every step of a thread by itself preserves the types.
LEMMA StepTyping ==
  ASSUME TypeOK, NEW t \in Threads, Step(t)
  PROVE  TypeOK'
<1> USE CompileCacheAssumption DEF TypeOK, Goto, session, locks, ghosts
<1> USE DEF Labels, MutexHeld, FileLocked, Saving1, Saving2, Saving3, Returned
<1>1. CASE CheckExist(t)
  BY <1>1 DEF CheckExist
<1>2. CASE CacheValid(t)
  BY <1>2 DEF CacheValid
<1>3. CASE RunPass(t)
  <2>1. [ctx[t] EXCEPT !.defs = @ + 1] \in Proto
    <3>1. ctx[t] \in Proto /\ ctx[t].defs < MaxDefs /\ MaxDefs \in Nat
      BY <1>3 DEF RunPass
    <3>2. ctx[t].defs + 1 \in 0..MaxDefs
      BY <3>1 DEF Proto
    <3> QED
      BY <3>1, <3>2 DEF Proto
  <2>2. ctx' = [ctx EXCEPT ![t] = [ctx[t] EXCEPT !.defs = @ + 1]]
    BY <1>3 DEF RunPass
  <2> QED
    BY <1>3, <2>1, <2>2 DEF RunPass
<1>4. CASE PassesDone(t)
  BY <1>4 DEF PassesDone
<1>5. CASE PassThrows(t)
  BY <1>5 DEF PassThrows
<1>6. CASE Save(t)
  <2>1. PICK k \in {1, 2, 3} :
          \/ SaveInMem(t, k) \/ SaveOpen(t, k) \/ SaveOpenFails(t, k)
          \/ SaveWrite(t, k) \/ SaveFlush(t, k)
    BY <1>6, SaveSteps
  <2>2. {Open(k), Write(k), Flush(k), AfterSave(t, k)} \subseteq Labels
    BY SaveLabels
  <2>3. Saved(ctx[t]) \in File /\ Empty \in File /\ Torn \in File
    BY ProtoFacts
  <2>4. CASE SaveInMem(t, k)
    BY <2>2, <2>3, <2>4 DEF SaveInMem
  <2>5. CASE SaveOpen(t, k)
    BY <2>2, <2>3, <2>5 DEF SaveOpen, Meets
  <2>6. CASE SaveOpenFails(t, k)
    BY <2>2, <2>6 DEF SaveOpenFails
  <2>7. CASE SaveWrite(t, k)
    BY <2>2, <2>3, <2>7 DEF SaveWrite
  <2>8. CASE SaveFlush(t, k)
    BY <2>2, <2>3, <2>8 DEF SaveFlush
  <2> QED
    BY <2>1, <2>4, <2>5, <2>6, <2>7, <2>8
<1>7. CASE ReadBack(t)
  <2>1. Visible(t).doc \in Proto
    BY DEF Visible, File
  <2>2. Restored(t, Visible(t).doc) \in Proto
    BY <2>1, ProtoFacts
  <2> QED
    BY <1>7, <2>2 DEF ReadBack
<1>8. CASE ReadBackThrows(t)
  BY <1>8, ProtoFacts DEF ReadBackThrows
<1>9. CASE ReadBackTerminates(t)
  BY <1>9, DieTyping DEF ReadBackTerminates
<1>10. CASE CreateEps(t)
  BY <1>10 DEF CreateEps, Proto
<1>11. CASE CreateEpsThrows(t)
  BY <1>11 DEF CreateEpsThrows
<1>12. CASE Finish(t)
  BY <1>12 DEF Finish
<1>13. CASE AbortCpuOnly(t)
  BY <1>13, DieTyping DEF AbortCpuOnly
<1>14. CASE UnlockFile(t)
  BY <1>14 DEF UnlockFile
<1>15. CASE Leave(t)
  <2>1. pc' \in [Threads -> Labels]
    BY <1>15 DEF Leave
  <2>2. CASE Forget(t)
    BY <1>15, <2>1, <2>2, ProtoFacts DEF Leave, Forget
  <2>3. CASE UNCHANGED <<ctx, memFile, failed>>
    BY <1>15, <2>1, <2>3 DEF Leave
  <2> QED
    BY <1>15, <2>2, <2>3 DEF Leave
<1>16. CASE CreateEpContextNodes(t)
  BY <1>16 DEF CreateEpContextNodes
<1>17. CASE Close(t)
  BY <1>17, ProtoFacts DEF Close, Forget
<1> QED
  BY <1>1, <1>2, <1>3, <1>4, <1>5, <1>6, <1>7, <1>8, <1>9, <1>10, <1>11,
     <1>12, <1>13, <1>14, <1>15, <1>16, <1>17 DEF Step

LEMMA NextTyping == TypeOK /\ [Next]_vars => TypeOK'
<1> SUFFICES ASSUME TypeOK, [Next]_vars PROVE TypeOK'
  OBVIOUS
<1> USE CompileCacheAssumption
<1>1. ASSUME NEW t \in Threads, Start(t) PROVE TypeOK'
  BY <1>1 DEF TypeOK, Start, Goto, locks, Labels
<1>2. ASSUME NEW t \in Threads, Enter(t) \/ EnterThrows(t) PROVE TypeOK'
  <2>1. CASE EnterThrows(t)
    BY <2>1 DEF TypeOK, EnterThrows, Goto, session, locks, ghosts, Labels
  <2>2. CASE Enter(t)
    <3>1. spoilt' \in BOOLEAN
      BY <2>2 DEF TypeOK, Enter
    <3>2. ctx' \in [Threads -> Proto]
      BY <2>2, ProtoFacts DEF TypeOK, Enter
    <3> QED
      BY <2>2, <3>1, <3>2
         DEF TypeOK, Enter, Goto, session, Labels, MutexHeld
  <2> QED
    BY <1>2, <2>1, <2>2
<1>3. ASSUME NEW t \in Threads, LockFile(t) \/ LockFileFails(t) PROVE TypeOK'
  <2>1. CASE LockFile(t)
    BY <2>1 DEF TypeOK, LockFile, Goto, session, ghosts, Labels, MutexHeld,
                FileLocked
  <2>2. CASE LockFileFails(t)
    <3>1. faults' \in 0..MaxFaults
      BY <2>2 DEF LockFileFails, TypeOK
    <3>2. "exist" \in Labels
      BY DEF Labels, MutexHeld, FileLocked
    <3> QED
      BY <2>2, <3>1, <3>2 DEF TypeOK, LockFileFails, Goto, session
  <2> QED
    BY <1>3, <2>1, <2>2
<1>4. ASSUME NEW t \in Threads, Step(t) PROVE TypeOK'
  BY <1>4, StepTyping
<1>5. ASSUME NEW p \in Procs, Crash(p) PROVE TypeOK'
  BY <1>5, DieTyping DEF Crash, TypeOK
<1>6. CASE UNCHANGED vars
  BY <1>6 DEF TypeOK, vars
<1> QED
  BY <1>1, <1>2, <1>3, <1>4, <1>5, <1>6 DEF Next

LEMMA InitTyping == Init => TypeOK
<1> SUFFICES ASSUME Init PROVE TypeOK
  OBVIOUS
<1>1. NoOptions \in Options
  BY DEF NoOptions, Options
<1>2. eps \in [Threads -> 0..MaxDefs]
  BY CompileCacheAssumption DEF Init
<1>3. sessions \in 0..MaxSessions /\ faults \in 0..MaxFaults
  BY CompileCacheAssumption DEF Init
<1> QED
  BY <1>1, <1>2, <1>3, ProtoFacts DEF Init, TypeOK, Labels

\* Type correctness: the type invariant of CompileCache holds in every
\* behaviour, for every instance of the constants.
THEOREM TypeCorrect == Spec => []TypeOK
BY InitTyping, NextTyping, PTL DEF Spec

-----------------------------------------------------------------------------
(* The locks *)

\* Labels of a session that holds both locks and has not read back yet ...
BeforeReadBack == {"flock", "exist", "valid", "pass", "read"} \cup Saving1
\* ... and of its first save, once context.json is open on disk.
Writing1 == {"write1", "flush1"}

\* The mutex belongs to whoever is past it, the lock file to the process of
\* the sessions that hold it and to nobody without such a session; and until
\* its read-back a session is in the mode its caller asked for, so that every
\* disk session has either taken the lock file or failed to open it.
LockInv ==
  /\ \A t \in Threads : pc[t] \in MutexHeld => mtx[ProcOf[t]] = t
  /\ \A t \in Threads : lock[t] # "none" => pc[t] \in FileLocked
  /\ \A t \in Threads : pc[t] \in FileLocked /\ OnDisk(t) => lock[t] # "none"
  /\ \A t \in Threads : CrossProcessLock /\ lock[t] = "held" => flock = ProcOf[t]
  /\ flock # Nobody =>
       \E t \in Threads : ProcOf[t] = flock /\ lock[t] = "held"
  /\ \A t \in Threads : pc[t] \in BeforeReadBack => ctx[t].mem = asked[t].mem
  /\ \A t \in Threads : pc[t] \in Writing1 => OnDisk(t)

\* A step of t that stays on its side of both locks and touches neither.
Inside(t) ==
  /\ UNCHANGED <<locks, asked>>
  /\ \A u \in Threads \ {t} : pc'[u] = pc[u] /\ ctx'[u] = ctx[u]
  /\ pc[t] \in MutexHeld /\ pc'[t] \in MutexHeld
  /\ pc[t] \in FileLocked <=> pc'[t] \in FileLocked
  /\ pc'[t] \in BeforeReadBack =>
       pc[t] \in BeforeReadBack /\ ctx'[t].mem = ctx[t].mem
  /\ pc'[t] \in Writing1 => pc[t] \in Writing1 \/ OnDisk(t)

\* Labels of a thread that has neither lock.
Free == {"idle", "mtx"} \cup Returned

\* A step of t that stays outside both locks.
Outside(t) ==
  /\ UNCHANGED locks
  /\ \A u \in Threads \ {t} :
       pc'[u] = pc[u] /\ ctx'[u] = ctx[u] /\ asked'[u] = asked[u]
  /\ pc[t] \in Free /\ pc'[t] \in Free

LEMMA InsideKeepsLocks ==
  ASSUME LockInv, NEW t \in Threads, Inside(t)
  PROVE  LockInv'
<1>1. \A u \in Threads : /\ pc'[u] \in MutexHeld <=> pc[u] \in MutexHeld
                         /\ pc'[u] \in FileLocked <=> pc[u] \in FileLocked
  BY DEF Inside
<1>2. UNCHANGED <<lock, mtx, flock, asked>>
  BY DEF Inside, locks
<1>3. \A u \in Threads : OnDisk(u)' <=> OnDisk(u)
  BY <1>2 DEF OnDisk
<1>4. \A u \in Threads : pc'[u] \in BeforeReadBack => ctx'[u].mem = asked'[u].mem
  BY <1>2 DEF LockInv, Inside
<1>5. \A u \in Threads : pc'[u] \in Writing1 => OnDisk(u)'
  BY <1>3 DEF LockInv, Inside
<1> QED
  BY <1>1, <1>2, <1>3, <1>4, <1>5 DEF LockInv

\* The death of a process frees what it held and nothing else.
LEMMA DieKeepsLocks ==
  ASSUME TypeOK, LockInv, NEW p \in Procs, Die(p)
  PROVE  LockInv'
<1> USE CompileCacheAssumption
<1>1. \A t \in Threads : ProcOf[t] # p =>
        /\ pc'[t] = pc[t] /\ lock'[t] = lock[t] /\ ctx'[t] = ctx[t]
        /\ asked'[t] = asked[t]
  BY DEF Die
<1>2. \A t \in Threads : ProcOf[t] = p => pc'[t] = "idle" /\ lock'[t] = "none"
  BY DEF Die
<1>3. \A q \in Procs : q # p => mtx'[q] = mtx[q]
  BY DEF Die, TypeOK
<1>4. flock' = IF flock = p THEN Nobody ELSE flock
  BY DEF Die
<1>5. "idle" \notin MutexHeld \cup FileLocked \cup BeforeReadBack \cup Writing1
  BY DEF MutexHeld, FileLocked, Saving1, Saving2, BeforeReadBack, Writing1
<1>6. \A t \in Threads : ProcOf[t] # p => (OnDisk(t)' <=> OnDisk(t))
  BY <1>1 DEF OnDisk
<1> QED
  BY <1>1, <1>2, <1>3, <1>4, <1>5, <1>6 DEF LockInv

\* Every step a thread takes inside the session, except the two unlocks.
LEMMA StepInside ==
  ASSUME TypeOK, LockInv, NEW t \in Threads,
         \/ CheckExist(t) \/ CacheValid(t) \/ RunPass(t) \/ PassesDone(t)
         \/ PassThrows(t) \/ Save(t) \/ ReadBack(t) \/ ReadBackThrows(t)
         \/ CreateEps(t) \/ CreateEpsThrows(t) \/ Finish(t)
  PROVE  Inside(t) \/ Outside(t)
<1> USE DEF Inside, TypeOK, Goto, session, locks, ghosts, MutexHeld,
            FileLocked, Saving1, Saving2, BeforeReadBack, Writing1
<1>1. CASE CheckExist(t) \/ CacheValid(t)
  BY <1>1 DEF CheckExist, CacheValid
<1>2. CASE RunPass(t) \/ PassesDone(t) \/ PassThrows(t)
  <2>1. ASSUME RunPass(t) PROVE ctx'[t].mem = ctx[t].mem
    BY <2>1 DEF RunPass, Proto
  <2> QED
    BY <1>2, <2>1 DEF RunPass, PassesDone, PassThrows
<1>3. CASE Save(t)
  <2>1. PICK k \in {1, 2, 3} :
          \/ SaveInMem(t, k) \/ SaveOpen(t, k) \/ SaveOpenFails(t, k)
          \/ SaveWrite(t, k) \/ SaveFlush(t, k)
    BY <1>3, SaveSteps
  <2>2. /\ UNCHANGED <<locks, asked, ctx>>
        /\ \A u \in Threads \ {t} : pc'[u] = pc[u]
    BY <2>1 DEF SaveInMem, SaveOpen, SaveOpenFails, SaveWrite, SaveFlush
  <2>3. \/ pc[t] = Open(k) /\ pc'[t] \in {Write(k), AfterSave(t, k)}
        \/ pc[t] = Write(k) /\ pc'[t] = Flush(k)
        \/ pc[t] = Flush(k) /\ pc'[t] = AfterSave(t, k)
    BY <2>1 DEF SaveInMem, SaveOpen, SaveOpenFails, SaveWrite, SaveFlush
  <2>4. CASE k = 1
    <3>1. pc[t] = "open1" /\ pc'[t] = "write1" => OnDisk(t)
      <4>1. ASSUME pc[t] = "open1", pc'[t] = "write1" PROVE ~InMem(t)
        BY <2>1, <2>4, <4>1, SaveLabels
           DEF SaveInMem, SaveOpen, SaveOpenFails, SaveWrite, SaveFlush
      <4> QED
        BY <4>1 DEF LockInv, InMem, OnDisk
    <3> QED
      BY <2>2, <2>3, <2>4, <3>1, SaveLabels
  <2>5. CASE k = 2
    BY <2>2, <2>3, <2>5, SaveLabels
  <2>6. CASE k = 3
    BY <2>2, <2>3, <2>6, SaveLabels DEF Outside, Free, Returned, Saving3
  <2> QED
    BY <2>1, <2>4, <2>5, <2>6
<1>4. CASE ReadBack(t) \/ ReadBackThrows(t)
  BY <1>4 DEF ReadBack, ReadBackThrows
<1>5. CASE CreateEps(t) \/ CreateEpsThrows(t) \/ Finish(t)
  BY <1>5 DEF CreateEps, CreateEpsThrows, Finish
<1> QED
  BY <1>1, <1>2, <1>3, <1>4, <1>5

LEMMA OutsideKeepsLocks ==
  ASSUME LockInv, NEW t \in Threads, Outside(t)
  PROVE  LockInv'
<1>1. Free \cap (MutexHeld \cup BeforeReadBack \cup Writing1) = {}
  BY DEF Free, Returned, MutexHeld, FileLocked, Saving1, Saving2, Saving3,
         BeforeReadBack, Writing1
<1>2. FileLocked \subseteq MutexHeld
  BY DEF MutexHeld
<1>3. UNCHANGED <<lock, mtx, flock>>
  BY DEF Outside, locks
<1>4. \A u \in Threads \ {t} : OnDisk(u)' <=> OnDisk(u)
  BY DEF Outside, OnDisk
<1> QED
  BY <1>1, <1>2, <1>3, <1>4 DEF LockInv, Outside

LEMMA EnterKeepsLocks ==
  ASSUME TypeOK, LockInv, NEW t \in Threads, Enter(t)
  PROVE  LockInv'
<1> USE CompileCacheAssumption
<1>1. /\ pc[t] = "mtx" /\ pc'[t] = "flock"
      /\ \A u \in Threads \ {t} : pc'[u] = pc[u] /\ ctx'[u] = ctx[u]
      /\ ctx'[t] = Fresh(t, asked[t])
      /\ UNCHANGED <<asked, lock, flock>>
  BY DEF Enter, Goto, TypeOK, session
<1>2. mtx[ProcOf[t]] = Nobody /\ mtx' = [mtx EXCEPT ![ProcOf[t]] = t]
  BY DEF Enter
<1>3. \A u \in Threads : pc[u] \in MutexHeld => ProcOf[u] # ProcOf[t]
  BY <1>2 DEF LockInv
<1>4. \A u \in Threads : pc'[u] \in MutexHeld => mtx'[ProcOf[u]] = u
  BY <1>1, <1>2, <1>3 DEF LockInv, TypeOK
<1>5. {"flock", "mtx"} \cap (FileLocked \cup Writing1) = {}
  BY DEF FileLocked, Saving1, Writing1
<1>6. ctx'[t].mem = asked[t].mem
  BY <1>1 DEF Fresh
<1>7. \A u \in Threads : OnDisk(u)' <=> OnDisk(u)
  BY <1>1 DEF OnDisk
<1> QED
  BY <1>1, <1>4, <1>5, <1>6, <1>7 DEF LockInv

LEMMA LockFileKeepsLocks ==
  ASSUME TypeOK, LockInv, NEW t \in Threads, LockFile(t) \/ LockFileFails(t)
  PROVE  LockInv'
<1> USE CompileCacheAssumption
<1>1. /\ pc[t] = "flock" /\ pc'[t] = "exist"
      /\ \A u \in Threads \ {t} : pc'[u] = pc[u]
      /\ UNCHANGED <<asked, ctx, mtx>>
  BY DEF LockFile, LockFileFails, Goto, TypeOK, session
<1>2. /\ "flock" \in MutexHeld /\ "flock" \notin FileLocked
      /\ "exist" \in FileLocked /\ "exist" \in MutexHeld
      /\ {"flock", "exist"} \subseteq BeforeReadBack /\ "exist" \notin Writing1
  BY DEF MutexHeld, FileLocked, Saving1, Saving2, BeforeReadBack, Writing1
<1>3. InMem(t) <=> ~OnDisk(t)
  BY <1>1, <1>2 DEF LockInv, InMem, OnDisk
<1>4. lock[t] = "none"
  BY <1>1, <1>2 DEF LockInv
<1>5. /\ \A u \in Threads \ {t} : lock'[u] = lock[u]
      /\ OnDisk(t) => lock'[t] # "none"
      /\ CrossProcessLock /\ lock'[t] = "held" => flock' = ProcOf[t]
      /\ \/ flock' = flock
         \/ /\ flock' = ProcOf[t] /\ flock \in {Nobody, ProcOf[t]}
            /\ lock'[t] = "held"
  <2>1. CASE LockFileFails(t)
    BY <1>3, <2>1 DEF LockFileFails, TypeOK
  <2>2. CASE LockFile(t) /\ InMem(t)
    BY <1>3, <1>4, <2>2 DEF LockFile
  <2>3. CASE LockFile(t) /\ ~InMem(t)
    BY <1>3, <2>3 DEF LockFile, TypeOK
  <2> QED
    BY <2>1, <2>2, <2>3
<1>6. \A u \in Threads : OnDisk(u)' <=> OnDisk(u)
  BY <1>1 DEF OnDisk
<1>7. \A u \in Threads : CrossProcessLock /\ lock'[u] = "held" => flock' = ProcOf[u]
  BY <1>5 DEF LockInv
<1>8. flock' # Nobody =>
        \E u \in Threads : ProcOf[u] = flock' /\ lock'[u] = "held"
  <2>1. CASE flock' = ProcOf[t] /\ lock'[t] = "held"
    BY <2>1
  <2>2. CASE flock' = flock
    BY <1>4, <1>5, <2>2 DEF LockInv
  <2> QED
    BY <1>5, <2>1, <2>2
<1> QED
  BY <1>1, <1>2, <1>5, <1>6, <1>7, <1>8 DEF LockInv

LEMMA UnlockFileKeepsLocks ==
  ASSUME TypeOK, LockInv, NEW t \in Threads, UnlockFile(t)
  PROVE  LockInv'
<1> USE CompileCacheAssumption
<1>1. /\ pc[t] = "funlock" /\ pc'[t] = "open2"
      /\ \A u \in Threads \ {t} : pc'[u] = pc[u] /\ lock'[u] = lock[u]
      /\ UNCHANGED <<asked, ctx, mtx>>
      /\ flock' = IF lock[t] = "held" THEN Nobody ELSE flock
      /\ lock'[t] = "none"
  BY DEF UnlockFile, Goto, TypeOK, session
<1>2. /\ "funlock" \in MutexHeld /\ "open2" \in MutexHeld
      /\ "open2" \notin FileLocked \cup BeforeReadBack \cup Writing1
      /\ FileLocked \subseteq MutexHeld
  BY DEF MutexHeld, FileLocked, Saving1, Saving2, BeforeReadBack, Writing1
<1>3. \A u \in Threads \ {t} : lock[u] # "none" => ProcOf[u] # ProcOf[t]
  BY <1>1, <1>2 DEF LockInv
<1>4. \A u \in Threads : OnDisk(u)' <=> OnDisk(u)
  BY <1>1 DEF OnDisk
<1>5. \A u \in Threads : CrossProcessLock /\ lock'[u] = "held" => flock' = ProcOf[u]
  BY <1>1, <1>3 DEF LockInv
<1>6. flock' # Nobody =>
        \E u \in Threads : ProcOf[u] = flock' /\ lock'[u] = "held"
  BY <1>1 DEF LockInv
<1> QED
  BY <1>1, <1>2, <1>4, <1>5, <1>6 DEF LockInv

LEMMA LeaveKeepsLocks ==
  ASSUME TypeOK, LockInv, NEW t \in Threads, Leave(t)
  PROVE  LockInv'
<1> USE CompileCacheAssumption
<1>1. /\ pc[t] = "unlock" /\ pc'[t] \in {"idle", "ctx"}
      /\ \A u \in Threads \ {t} : pc'[u] = pc[u] /\ ctx'[u] = ctx[u]
      /\ UNCHANGED <<asked, lock, flock>>
      /\ mtx' = [mtx EXCEPT ![ProcOf[t]] = Nobody]
  BY DEF Leave, Goto, Forget, TypeOK
<1>2. /\ "unlock" \in MutexHeld /\ {"idle", "ctx"} \cap MutexHeld = {}
      /\ {"unlock", "idle", "ctx"}
           \cap (FileLocked \cup BeforeReadBack \cup Writing1) = {}
  BY DEF MutexHeld, FileLocked, Saving1, Saving2, BeforeReadBack, Writing1
<1>3. \A u \in Threads \ {t} : pc[u] \in MutexHeld => ProcOf[u] # ProcOf[t]
  BY <1>1, <1>2 DEF LockInv
<1>4. \A u \in Threads : pc'[u] \in MutexHeld => mtx'[ProcOf[u]] = u
  BY <1>1, <1>2, <1>3 DEF LockInv, TypeOK
<1>5. \A u \in Threads : OnDisk(u)' <=> OnDisk(u)
  BY <1>1 DEF OnDisk
<1> QED
  BY <1>1, <1>2, <1>4, <1>5 DEF LockInv

LEMMA NextKeepsLocks ==
  ASSUME TypeOK, LockInv, [Next]_vars
  PROVE  LockInv'
<1>1. ASSUME NEW t \in Threads,
             \/ Start(t) \/ EnterThrows(t)
             \/ CreateEpContextNodes(t) \/ Close(t)
      PROVE  Outside(t)
  BY <1>1 DEF Start, EnterThrows, CreateEpContextNodes, Close, Forget, Outside,
              Free, Returned, Saving3, Goto, TypeOK, session, locks
<1>2. ASSUME NEW t \in Threads, ReadBackTerminates(t) \/ AbortCpuOnly(t)
      PROVE  LockInv'
  BY <1>2, DieKeepsLocks, CompileCacheAssumption
     DEF ReadBackTerminates, AbortCpuOnly
<1>3. ASSUME NEW t \in Threads, Step(t) PROVE LockInv'
  BY <1>1, <1>2, <1>3, UnlockFileKeepsLocks, LeaveKeepsLocks, StepInside,
     InsideKeepsLocks, OutsideKeepsLocks DEF Step
<1>4. ASSUME NEW p \in Procs, Crash(p) PROVE LockInv'
  BY <1>4, DieKeepsLocks DEF Crash
<1>5. CASE UNCHANGED vars
  BY <1>5 DEF vars, LockInv, OnDisk
<1> QED
  BY <1>1, <1>3, <1>4, <1>5, OutsideKeepsLocks, EnterKeepsLocks,
     LockFileKeepsLocks DEF Next

LEMMA InitLocks == Init => LockInv
BY CompileCacheAssumption
   DEF Init, LockInv, MutexHeld, FileLocked, Saving1, Saving2, BeforeReadBack,
       Writing1

\* LockInv is an invariant of every behaviour.
THEOREM LocksHold == Spec => []LockInv
BY InitLocks, NextKeepsLocks, TypeCorrect, PTL DEF Spec

\* Mutual exclusion of the locked section: with the lock file no two disk
\* sessions of any threads of any processes are inside it together, without
\* it no two of one process; and the lock file is never held by a process
\* none of whose sessions will release it.
THEOREM Exclusion == Spec => []LockedSectionExclusive
<1>1. TypeOK /\ LockInv => LockedSectionExclusive
  <2>1. FileLocked \subseteq MutexHeld
    BY DEF MutexHeld
  <2>2. TypeOK => \A t \in Threads : lock[t] \in {"none", "held", "failed"}
    BY DEF TypeOK
  <2> QED
    BY <2>1, <2>2 DEF LockInv, LockedSectionExclusive
<1> QED
  BY <1>1, TypeCorrect, LocksHold, PTL

\* Two writers of context.json overlap only if one of them is in the save of
\* create_ep_context_nodes_c, or across processes if one of them is in the save
\* after ~WithFileLock or could not open the lock file.
THEOREM OverlapBounded == Spec => []OverlapOnlyAfterUnlock
<1>1. TypeOK /\ LockInv => OverlapOnlyAfterUnlock
  <2>1. /\ Writing \ Saving3 \subseteq MutexHeld /\ Writing1 \subseteq FileLocked
        /\ Writing \ Saving3 \subseteq Writing1 \cup Saving2
    BY DEF Writing, MutexHeld, FileLocked, Saving1, Saving2, Saving3, Writing1
  <2>2. TypeOK => \A t \in Threads : lock[t] \in {"none", "held", "failed"}
    BY DEF TypeOK
  <2> QED
    BY <2>1, <2>2 DEF LockInv, OverlapOnlyAfterUnlock
<1> QED
  BY <1>1, TypeCorrect, LocksHold, PTL

-----------------------------------------------------------------------------
(* What a session keeps and what it writes *)

\* Labels of a session that has not created its execution providers yet.
BeforeEps == {"mtx", "flock", "exist", "valid", "pass", "read", "eps"}
             \cup Saving1

\* No execution provider before they are created, and a context_proto that
\* was read back with the session's own key and session_configs from then on.
SettingsInv ==
  /\ \A t \in Threads : pc[t] \in BeforeEps => eps[t] = 0
  /\ \A t \in Threads : pc[t] = "eps" => ctx[t].key = t /\ ctx[t].sess = t
  /\ OwnSettingsRestored

\* A step of t after which a thread with execution providers has the
\* context_proto it had: t is still before them, or keeps ctx and eps.
Quiet(t) ==
  /\ pc[t] # "idle"
  /\ \A u \in Threads \ {t} : /\ pc'[u] = pc[u]
                              /\ eps'[u] = eps[u]
                              /\ ctx'[u] = ctx[u]
  /\ eps'[t] = eps[t]
  /\ pc'[t] # "eps"
  /\ pc'[t] \in BeforeEps => pc[t] \in BeforeEps
  /\ pc[t] \in BeforeEps \/ ctx'[t] = ctx[t]

LEMMA QuietKeepsSettings ==
  ASSUME SettingsInv, NEW t \in Threads, Quiet(t)
  PROVE  SettingsInv'
<1>1. \A u \in Threads : pc'[u] \in BeforeEps => eps'[u] = 0
  BY DEF SettingsInv, Quiet
<1>2. \A u \in Threads : pc'[u] = "eps" => ctx'[u].key = u /\ ctx'[u].sess = u
  BY DEF SettingsInv, Quiet
<1>3. OwnSettingsRestored'
  BY DEF SettingsInv, Quiet, OwnSettingsRestored
<1> QED
  BY <1>1, <1>2, <1>3 DEF SettingsInv

LEMMA DieKeepsSettings ==
  ASSUME SettingsInv, TypeOK, NEW p \in Procs, Die(p)
  PROVE  SettingsInv'
<1>1. \A t \in Threads : ProcOf[t] # p =>
        pc'[t] = pc[t] /\ eps'[t] = eps[t] /\ ctx'[t] = ctx[t]
  BY DEF Die
<1>2. \A t \in Threads : ProcOf[t] = p => pc'[t] = "idle"
  BY DEF Die
<1>3. "idle" \notin BeforeEps
  BY DEF BeforeEps, Saving1
<1> QED
  BY <1>1, <1>2, <1>3 DEF SettingsInv, OwnSettingsRestored

LEMMA StepQuiet ==
  ASSUME TypeOK, NEW t \in Threads,
         \/ LockFile(t) \/ LockFileFails(t) \/ CheckExist(t) \/ CacheValid(t)
         \/ RunPass(t) \/ PassesDone(t) \/ PassThrows(t) \/ Save(t)
         \/ ReadBackThrows(t)
         \/ CreateEpsThrows(t) \/ Finish(t) \/ UnlockFile(t)
         \/ Leave(t) /\ EmbedsCache(t)
         \/ CreateEpContextNodes(t)
  PROVE  Quiet(t)
<1> USE DEF Quiet, TypeOK, Goto, session, locks, ghosts, BeforeEps, Saving1
<1>1. CASE LockFile(t) \/ LockFileFails(t) \/ CheckExist(t) \/ CacheValid(t)
  BY <1>1 DEF LockFile, LockFileFails, CheckExist, CacheValid
<1>2. CASE RunPass(t) \/ PassesDone(t) \/ PassThrows(t)
  BY <1>2 DEF RunPass, PassesDone, PassThrows
<1>3. CASE Save(t)
  <2>1. PICK k \in {1, 2, 3} :
          \/ SaveInMem(t, k) \/ SaveOpen(t, k) \/ SaveOpenFails(t, k)
          \/ SaveWrite(t, k) \/ SaveFlush(t, k)
    BY <1>3, SaveSteps
  <2>2. /\ UNCHANGED <<eps, ctx>>
        /\ \A u \in Threads \ {t} : pc'[u] = pc[u]
    BY <2>1 DEF SaveInMem, SaveOpen, SaveOpenFails, SaveWrite, SaveFlush
  <2>3. \/ pc[t] = Open(k) /\ pc'[t] \in {Write(k), AfterSave(t, k)}
        \/ pc[t] = Write(k) /\ pc'[t] = Flush(k)
        \/ pc[t] = Flush(k) /\ pc'[t] = AfterSave(t, k)
    BY <2>1 DEF SaveInMem, SaveOpen, SaveOpenFails, SaveWrite, SaveFlush
  <2> QED
    BY <2>2, <2>3, SaveLabels
<1>4. CASE ReadBackThrows(t)
  BY <1>4 DEF ReadBackThrows
<1>5. CASE CreateEpsThrows(t) \/ Finish(t) \/ UnlockFile(t)
  BY <1>5 DEF CreateEpsThrows, Finish, UnlockFile
<1>6. CASE (Leave(t) /\ EmbedsCache(t)) \/ CreateEpContextNodes(t)
  BY <1>6 DEF Leave, CreateEpContextNodes
<1> QED
  BY <1>1, <1>2, <1>3, <1>4, <1>5, <1>6

LEMMA NextKeepsSettings ==
  ASSUME TypeOK, SettingsInv, [Next]_vars
  PROVE  SettingsInv'
<1>1. ASSUME NEW t \in Threads, Start(t) PROVE SettingsInv'
  <2>1. /\ pc'[t] = "mtx" /\ eps'[t] = 0
        /\ \A u \in Threads \ {t} : pc'[u] = pc[u] /\ eps'[u] = eps[u]
        /\ UNCHANGED ctx
    BY <1>1 DEF Start, Goto, TypeOK
  <2> QED
    BY <2>1 DEF SettingsInv, OwnSettingsRestored
<1>2. ASSUME NEW t \in Threads, Enter(t) PROVE SettingsInv'
  <2>1. /\ pc[t] = "mtx" /\ pc'[t] = "flock"
        /\ \A u \in Threads \ {t} : pc'[u] = pc[u] /\ ctx'[u] = ctx[u]
        /\ UNCHANGED eps
    BY <1>2 DEF Enter, Goto, TypeOK, session
  <2>2. eps[t] = 0
    BY <2>1 DEF SettingsInv, BeforeEps
  <2> QED
    BY <2>1, <2>2 DEF SettingsInv, OwnSettingsRestored
<1>3. ASSUME NEW t \in Threads, ReadBack(t) PROVE SettingsInv'
  <2>1. /\ pc[t] = "read" /\ pc'[t] = "eps"
        /\ \A u \in Threads \ {t} : pc'[u] = pc[u] /\ ctx'[u] = ctx[u]
        /\ UNCHANGED eps
        /\ ctx'[t] = Restored(t, Visible(t).doc)
    BY <1>3 DEF ReadBack, Goto, TypeOK, session
  <2>2. Visible(t).doc \in Proto
    BY DEF Visible, File, TypeOK
  <2>3. ctx'[t].key = t /\ ctx'[t].sess = t
    BY <2>1, <2>2 DEF Restored, Proto
  <2>4. eps[t] = 0
    BY <2>1 DEF SettingsInv, BeforeEps
  <2> QED
    BY <2>1, <2>3, <2>4 DEF SettingsInv, OwnSettingsRestored
<1>4. ASSUME NEW t \in Threads, CreateEps(t) PROVE SettingsInv'
  <2>1. /\ pc[t] = "eps" /\ pc'[t] = "finish"
        /\ \A u \in Threads \ {t} : pc'[u] = pc[u] /\ eps'[u] = eps[u]
        /\ UNCHANGED ctx
    BY <1>4 DEF CreateEps, Goto, TypeOK
  <2>2. "finish" \notin BeforeEps
    BY DEF BeforeEps, Saving1
  <2> QED
    BY <2>1, <2>2 DEF SettingsInv, OwnSettingsRestored
<1>5. ASSUME NEW t \in Threads,
             \/ Leave(t) /\ ~EmbedsCache(t)
             \/ Close(t) \/ EnterThrows(t)
      PROVE  SettingsInv'
  <2>1. /\ pc'[t] = "idle"
        /\ \A u \in Threads \ {t} : pc'[u] = pc[u] /\ ctx'[u] = ctx[u]
        /\ UNCHANGED eps
    BY <1>5 DEF Leave, Close, Forget, EnterThrows, Goto, TypeOK, session
  <2>2. "idle" \notin BeforeEps
    BY DEF BeforeEps, Saving1
  <2> QED
    BY <2>1, <2>2 DEF SettingsInv, OwnSettingsRestored
<1>6. ASSUME NEW t \in Threads, ReadBackTerminates(t) \/ AbortCpuOnly(t)
      PROVE  SettingsInv'
  BY <1>6, DieKeepsSettings, CompileCacheAssumption
     DEF ReadBackTerminates, AbortCpuOnly
<1>7. ASSUME NEW t \in Threads, LockFile(t) \/ LockFileFails(t) \/ Step(t)
      PROVE  SettingsInv'
  BY <1>3, <1>4, <1>5, <1>6, <1>7, StepQuiet, QuietKeepsSettings DEF Step
<1>8. ASSUME NEW p \in Procs, Crash(p) PROVE SettingsInv'
  BY <1>8, DieKeepsSettings DEF Crash
<1>9. CASE UNCHANGED vars
  BY <1>9 DEF vars, SettingsInv, OwnSettingsRestored
<1> QED
  BY <1>1, <1>2, <1>5, <1>7, <1>8, <1>9 DEF Next

\* A session with execution providers has its own encryption key and
\* session_configs in its context, whoever wrote the context.json it read.
THEOREM SettingsRestored == Spec => []OwnSettingsRestored
<1>1. Init => SettingsInv
  BY CompileCacheAssumption
     DEF Init, SettingsInv, OwnSettingsRestored, BeforeEps, Saving1
<1>2. SettingsInv => OwnSettingsRestored
  BY DEF SettingsInv
<1> QED
  BY <1>1, <1>2, NextKeepsSettings, TypeCorrect, PTL DEF Spec

-----------------------------------------------------------------------------
(* Sessions in memory *)

\* A document in memory has the mode of its session; and a session that starts
\* in memory keeps its mode or, when its read-back fails, nothing at all.
MemInv ==
  /\ \A t \in Threads :
       memFile[t] = Absent \/ (Parses(memFile[t]) /\ memFile[t].doc.mem)
  /\ \A t \in Threads :
       ~OnDisk(t) /\ pc[t] \notin {"idle", "mtx"}
         => ctx[t].mem \/ ctx[t] = RestoredNothing(t)
  /\ InMemoryStaysOffDisk

\* A step of t that keeps the documents, does not open context.json, and
\* leaves t outside the session or with the configuration it had.
Steady(t) ==
  /\ UNCHANGED <<ctx, memFile>>
  /\ \A u \in Threads \ {t} : pc'[u] = pc[u] /\ asked'[u] = asked[u]
  /\ \/ pc'[t] \in {"idle", "mtx"}
     \/ /\ pc[t] \notin {"idle", "mtx"} /\ asked'[t] = asked[t]
        /\ pc'[t] \in Writing => pc[t] \in Writing

LEMMA SteadyKeepsMem ==
  ASSUME MemInv, NEW t \in Threads, Steady(t)
  PROVE  MemInv'
<1>1. {"idle", "mtx"} \cap Writing = {}
  BY DEF Writing
<1>2. \A u \in Threads \ {t} : OnDisk(u)' <=> OnDisk(u)
  BY DEF Steady, OnDisk
<1>3. asked'[t] = asked[t] => (OnDisk(t)' <=> OnDisk(t))
  BY DEF OnDisk
<1>4. \A u \in Threads :
        memFile'[u] = Absent \/ (Parses(memFile'[u]) /\ memFile'[u].doc.mem)
  BY DEF Steady, MemInv, Parses
<1>5. \A u \in Threads : RestoredNothing(u)' = RestoredNothing(u)
  BY DEF RestoredNothing, Cleared
<1> QED
  BY <1>1, <1>2, <1>3, <1>4, <1>5
     DEF Steady, MemInv, InMemoryStaysOffDisk, Parses

LEMMA DieKeepsMem ==
  ASSUME TypeOK, MemInv, NEW p \in Procs, Die(p)
  PROVE  MemInv'
<1>1. \A t \in Threads : ProcOf[t] # p =>
        /\ pc'[t] = pc[t] /\ ctx'[t] = ctx[t] /\ memFile'[t] = memFile[t]
        /\ OnDisk(t)' <=> OnDisk(t)
  BY DEF Die, OnDisk
<1>2. \A t \in Threads : ProcOf[t] = p => pc'[t] = "idle" /\ memFile'[t] = Absent
  BY DEF Die
<1>3. "idle" \notin Writing
  BY DEF Writing
<1> QED
  BY <1>1, <1>2, <1>3
     DEF MemInv, InMemoryStaysOffDisk, Parses, RestoredNothing, Cleared

\* The steps of a session that keep its configuration and its documents.
LEMMA StepSteady ==
  ASSUME TypeOK, NEW t \in Threads,
         \/ Start(t) \/ EnterThrows(t) \/ LockFile(t) \/ LockFileFails(t)
         \/ CheckExist(t) \/ CacheValid(t) \/ PassesDone(t) \/ PassThrows(t)
         \/ CreateEps(t) \/ CreateEpsThrows(t) \/ Finish(t) \/ UnlockFile(t)
         \/ Leave(t) /\ EmbedsCache(t)
         \/ CreateEpContextNodes(t)
  PROVE  Steady(t)
<1> USE DEF Steady, TypeOK, Goto, session, locks, ghosts, Writing
<1>1. CASE Start(t) \/ EnterThrows(t) \/ LockFile(t) \/ LockFileFails(t)
  BY <1>1 DEF Start, EnterThrows, LockFile, LockFileFails
<1>2. CASE CheckExist(t) \/ CacheValid(t) \/ PassesDone(t) \/ PassThrows(t)
  BY <1>2 DEF CheckExist, CacheValid, PassesDone, PassThrows
<1>3. CASE CreateEps(t) \/ CreateEpsThrows(t) \/ Finish(t) \/ UnlockFile(t)
  BY <1>3 DEF CreateEps, CreateEpsThrows, Finish, UnlockFile
<1>4. CASE (Leave(t) /\ EmbedsCache(t)) \/ CreateEpContextNodes(t)
  BY <1>4 DEF Leave, CreateEpContextNodes
<1> QED
  BY <1>1, <1>2, <1>3, <1>4

\* Any other step of t alone, by what it does to t.
LEMMA OwnStepKeepsMem ==
  ASSUME MemInv, NEW t \in Threads, UNCHANGED asked,
         \A u \in Threads \ {t} :
           pc'[u] = pc[u] /\ ctx'[u] = ctx[u] /\ memFile'[u] = memFile[u],
         memFile'[t] = Absent \/ (Parses(memFile'[t]) /\ memFile'[t].doc.mem),
         ~OnDisk(t) /\ pc'[t] \notin {"idle", "mtx"}
           => ctx'[t].mem \/ ctx'[t] = RestoredNothing(t),
         ~OnDisk(t) /\ pc'[t] \in Writing => ctx'[t] = RestoredNothing(t)
  PROVE  MemInv'
<1>1. \A u \in Threads : /\ OnDisk(u)' <=> OnDisk(u)
                         /\ RestoredNothing(u)' = RestoredNothing(u)
  BY DEF OnDisk, RestoredNothing, Cleared
<1>2. \A u \in Threads :
        memFile'[u] = Absent \/ (Parses(memFile'[u]) /\ memFile'[u].doc.mem)
  BY DEF MemInv
<1> QED
  BY <1>1, <1>2 DEF MemInv, InMemoryStaysOffDisk, Parses

LEMMA SaveKeepsMem ==
  ASSUME TypeOK, LockInv, MemInv, NEW t \in Threads, Save(t)
  PROVE  MemInv'
<1>1. PICK k \in {1, 2, 3} :
        \/ SaveInMem(t, k) \/ SaveOpen(t, k) \/ SaveOpenFails(t, k)
        \/ SaveWrite(t, k) \/ SaveFlush(t, k)
  BY SaveSteps
<1>2. /\ UNCHANGED <<asked, ctx>>
      /\ \A u \in Threads \ {t} : pc'[u] = pc[u] /\ memFile'[u] = memFile[u]
  BY <1>1 DEF SaveInMem, SaveOpen, SaveOpenFails, SaveWrite, SaveFlush, Goto,
              TypeOK, session
<1>3. memFile'[t] \in {memFile[t], Saved(ctx[t])}
  BY <1>1 DEF SaveInMem, SaveOpen, SaveOpenFails, SaveWrite, SaveFlush, TypeOK
<1>4. memFile'[t] = Absent \/ (Parses(memFile'[t]) /\ memFile'[t].doc.mem)
  <2>1. CASE SaveInMem(t, k)
    <3>1. ctx[t].mem /\ memFile'[t] = Saved(ctx[t])
      BY <2>1 DEF SaveInMem, InMem, TypeOK
    <3> QED
      BY <3>1 DEF Saved, Whole, Parses, TypeOK, Proto
  <2>2. CASE ~SaveInMem(t, k)
    <3>1. memFile'[t] = memFile[t]
      BY <1>1, <2>2 DEF SaveOpen, SaveOpenFails, SaveWrite, SaveFlush, TypeOK
    <3> QED
      BY <3>1 DEF MemInv
  <2> QED
    BY <2>1, <2>2
<1>5. pc[t] \notin {"idle", "mtx"}
  BY <1>1, SaveLabels
     DEF SaveInMem, SaveOpen, SaveOpenFails, SaveWrite, SaveFlush, Goto
<1>6. ASSUME ~OnDisk(t), pc'[t] \in Writing PROVE ctx[t] = RestoredNothing(t)
  <2>1. CASE SaveOpen(t, k)
    <3>1. ~ctx[t].mem
      BY <1>6, <2>1 DEF SaveOpen, InMem, OnDisk
    <3> QED
      BY <1>5, <1>6, <3>1 DEF MemInv
  <2>2. CASE SaveWrite(t, k) \/ SaveFlush(t, k)
    <3>1. pc[t] \in Writing
      BY <2>2, SaveLabels DEF SaveWrite, SaveFlush, Goto, Writing
    <3> QED
      BY <1>6, <3>1 DEF MemInv, InMemoryStaysOffDisk
  <2>3. CASE SaveInMem(t, k) \/ SaveOpenFails(t, k)
    <3>1. pc'[t] = AfterSave(t, k)
      BY <2>3 DEF SaveInMem, SaveOpenFails, Goto, TypeOK
    <3> QED
      BY <1>6, <3>1, SaveLabels DEF Writing
  <2> QED
    BY <1>1, <2>1, <2>2, <2>3
<1> QED
  BY <1>2, <1>4, <1>5, <1>6, OwnStepKeepsMem DEF MemInv

LEMMA NextKeepsMem ==
  ASSUME TypeOK, LockInv, MemInv, [Next]_vars
  PROVE  MemInv'
<1> USE DEF Goto, TypeOK, session, locks, ghosts
<1>1. ASSUME NEW t \in Threads, Enter(t) PROVE MemInv'
  <2>1. /\ pc'[t] = "flock" /\ ctx'[t].mem = asked[t].mem
        /\ UNCHANGED <<asked, memFile>>
        /\ \A u \in Threads \ {t} : pc'[u] = pc[u] /\ ctx'[u] = ctx[u]
    BY <1>1 DEF Enter, Fresh
  <2>2. "flock" \notin Writing
    BY DEF Writing
  <2> QED
    BY <2>1, <2>2, OwnStepKeepsMem DEF MemInv, OnDisk
<1>2. ASSUME NEW t \in Threads, RunPass(t) PROVE MemInv'
  <2>1. /\ pc[t] = "pass" /\ pc' = pc /\ UNCHANGED <<asked, memFile>>
        /\ \A u \in Threads \ {t} : ctx'[u] = ctx[u]
        /\ ctx'[t].mem = ctx[t].mem
    BY <1>2 DEF RunPass, Proto
  <2>2. "pass" \in BeforeReadBack /\ "pass" \notin Writing
    BY DEF BeforeReadBack, Writing
  <2>3. ~OnDisk(t) => ctx[t].mem
    BY <2>1, <2>2 DEF LockInv, OnDisk
  <2> QED
    BY <2>1, <2>2, <2>3, OwnStepKeepsMem DEF MemInv
<1>3. ASSUME NEW t \in Threads, ReadBack(t) PROVE MemInv'
  <2>1. /\ pc[t] = "read" /\ pc'[t] = "eps" /\ UNCHANGED <<asked, memFile>>
        /\ \A u \in Threads \ {t} : pc'[u] = pc[u] /\ ctx'[u] = ctx[u]
        /\ ctx'[t] = Restored(t, Visible(t).doc) /\ Parses(Visible(t))
    BY <1>3 DEF ReadBack
  <2>2. "read" \in BeforeReadBack /\ "eps" \notin Writing
    BY DEF BeforeReadBack, Writing
  <2>3. ~OnDisk(t) => Visible(t) = memFile[t]
    BY <2>1, <2>2 DEF LockInv, OnDisk, InMem, Visible
  <2>4. ~OnDisk(t) => Visible(t).doc.mem
    BY <2>1, <2>3 DEF MemInv, Parses, Absent
  <2>5. Visible(t).doc \in Proto
    BY DEF Visible, File
  <2>6. ~OnDisk(t) => ctx'[t].mem
    BY <2>1, <2>4, <2>5 DEF Restored, Proto
  <2> QED
    BY <2>1, <2>2, <2>6, OwnStepKeepsMem DEF MemInv
<1>4. ASSUME NEW t \in Threads, ReadBackThrows(t) PROVE MemInv'
  <2>1. /\ pc'[t] = "finish" /\ UNCHANGED <<asked, memFile>>
        /\ \A u \in Threads \ {t} : pc'[u] = pc[u] /\ ctx'[u] = ctx[u]
        /\ ctx'[t] = RestoredNothing(t)
    BY <1>4 DEF ReadBackThrows
  <2> QED
    BY <2>1, OwnStepKeepsMem DEF MemInv
<1>5. ASSUME NEW t \in Threads, (Leave(t) /\ ~EmbedsCache(t)) \/ Close(t)
      PROVE  MemInv'
  <2>1. /\ pc'[t] = "idle" /\ memFile'[t] = Absent /\ UNCHANGED asked
        /\ \A u \in Threads \ {t} :
             pc'[u] = pc[u] /\ ctx'[u] = ctx[u] /\ memFile'[u] = memFile[u]
    BY <1>5 DEF Leave, Close, Forget
  <2>2. "idle" \notin Writing
    BY DEF Writing
  <2> QED
    BY <2>1, <2>2, OwnStepKeepsMem
<1>6. ASSUME NEW t \in Threads, ReadBackTerminates(t) \/ AbortCpuOnly(t)
      PROVE  MemInv'
  BY <1>6, DieKeepsMem, CompileCacheAssumption
     DEF ReadBackTerminates, AbortCpuOnly
<1>7. ASSUME NEW t \in Threads,
             \/ Start(t) \/ EnterThrows(t) \/ LockFile(t) \/ LockFileFails(t)
             \/ Step(t)
      PROVE  MemInv'
  BY <1>2, <1>3, <1>4, <1>5, <1>6, <1>7, StepSteady, SteadyKeepsMem,
     SaveKeepsMem DEF Step
<1>8. ASSUME NEW p \in Procs, Crash(p) PROVE MemInv'
  BY <1>8, DieKeepsMem DEF Crash
<1>9. CASE UNCHANGED vars
  BY <1>9 DEF vars, MemInv, InMemoryStaysOffDisk, OnDisk, Parses,
              RestoredNothing, Cleared
<1> QED
  BY <1>1, <1>7, <1>8, <1>9 DEF Next

LEMMA InitMem == Init => MemInv
BY DEF Init, MemInv, InMemoryStaysOffDisk, Writing

\* MemInv is an invariant of every behaviour.
THEOREM MemHolds == Spec => []MemInv
BY InitMem, NextKeepsMem, TypeCorrect, LocksHold, PTL DEF Spec

\* A session in memory opens log_dir/context.json for writing only when its
\* read-back failed, and then with nothing to write, whatever crashes, throws
\* or cannot be opened, and whoever else loads the model.
THEOREM MemoryStaysOffDisk == Spec => []InMemoryStaysOffDisk
BY MemHolds, PTL DEF MemInv

-----------------------------------------------------------------------------
(***************************************************************************)
(* One process that uses its cache.  Any number of threads, sessions of    *)
(* all kinds, and any faults: until a third save meets another session or  *)
(* the process is killed in a save (spoilt), context.json is whole         *)
(* whenever a session looks at it.                                         *)
(***************************************************************************)
OneProcess ==
  /\ \A t, u \in Threads : ProcOf[t] = ProcOf[u]
  /\ CacheUses = {TRUE}

\* What context.json is: absent until the first save, open for one writer at a
\* time and beside nobody who holds the mutex, and whole otherwise.
FileInv ==
  ~spoilt =>
    /\ \A t \in Threads : ~mixed[t]
    /\ \A t, u \in Threads :
         t # u /\ pc[t] \in Writing => pc[u] \notin MutexHeld \cup Writing
    /\ \A t \in Threads : pc[t] \in {"pass", "open1"} => file = Absent
    /\ \A t \in Threads : pc[t] \in Writing => file \in {Empty, Torn}
    /\ \A t \in Threads : pc[t] = "valid" => Parses(file)
    /\ (\A t \in Threads : pc[t] \notin Writing) => Parses(file) \/ file = Absent

Inv == TypeOK /\ LockInv /\ SettingsInv /\ MemInv /\ FileInv

\* The mutex makes the threads of one process take turns.
LEMMA OneAtATime ==
  ASSUME OneProcess, LockInv, NEW t \in Threads, NEW u \in Threads,
         pc[t] \in MutexHeld, pc[u] \in MutexHeld
  PROVE  t = u
BY DEF OneProcess, LockInv

\* The labels again, as the proofs below need them.
LEMMA LabelFacts ==
  /\ Writing \subseteq MutexHeld \cup {"write3", "flush3"}
  /\ {"pass", "open1", "valid", "read", "eps", "finish", "funlock", "open2",
      "unlock", "flock", "exist"} \subseteq MutexHeld \ Writing
  /\ {"idle", "mtx", "ctx", "open3", "close"} \cap (MutexHeld \cup Writing) = {}
BY DEF Writing, MutexHeld, FileLocked, Saving1, Saving2

\* The four states of a context.json differ.
LEMMA FileFacts ==
  /\ ~Parses(Absent) /\ ~Parses(Empty) /\ ~Parses(Torn)
  /\ Absent # Empty /\ Absent # Torn
  /\ \A c \in Proto : Parses(Saved(c)) /\ Saved(c).doc.defs = c.defs
<1>1. \A c \in Proto : Parses(Saved(c)) /\ Saved(c).doc.defs = c.defs
  BY DEF Parses, Saved, Whole, Proto
<1>2. ~Parses(Absent) /\ ~Parses(Empty) /\ ~Parses(Torn)
  BY DEF Parses, Absent, Empty, Torn
<1>3. Absent # Empty /\ Absent # Torn
  BY DEF Absent, Empty, Torn
<1> QED
  BY <1>1, <1>2, <1>3

\* The holder of the mutex finds the file whole or absent unless it is the
\* one that is writing it.
LEMMA HolderSeesWhole ==
  ASSUME OneProcess, LockInv, FileInv, ~spoilt, NEW t \in Threads,
         pc[t] \in MutexHeld \ Writing
  PROVE  /\ \A u \in Threads : pc[u] \notin Writing
         /\ Parses(file) \/ file = Absent
<1>1. \A u \in Threads : pc[u] \notin Writing
  BY DEF FileInv
<1> QED
  BY <1>1 DEF FileInv

\* Nobody is beside a writer.
LEMMA WriterIsAlone ==
  ASSUME OneProcess, FileInv, ~spoilt, NEW t \in Threads, pc[t] \in Writing,
         NEW u \in Threads \ {t}
  PROVE  pc[u] \notin MutexHeld /\ pc[u] \notin Writing
BY DEF FileInv

\* A step of t that neither takes the mutex nor has context.json open.
Bystander(t) ==
  /\ UNCHANGED <<file, mixed, spoilt>>
  /\ \A u \in Threads \ {t} : pc'[u] = pc[u]
  /\ pc[t] \notin Writing /\ pc'[t] \notin Writing
  /\ pc'[t] \in MutexHeld => pc[t] \in MutexHeld

LEMMA BystanderKeepsFile ==
  ASSUME OneProcess, LockInv, FileInv, NEW t \in Threads, Bystander(t),
         ~spoilt /\ pc'[t] \in {"pass", "open1"} => file = Absent,
         ~spoilt /\ pc'[t] = "valid" => Parses(file)
  PROVE  FileInv'
<1> SUFFICES ASSUME ~spoilt PROVE FileInv'
  BY DEF FileInv, Bystander
<1>1. /\ file' = file /\ mixed' = mixed
      /\ \A u \in Threads : pc'[u] \in Writing <=> pc[u] \in Writing
      /\ \A u \in Threads : pc'[u] \in MutexHeld => pc[u] \in MutexHeld
  BY DEF Bystander
<1>2. \A u \in Threads : pc'[u] \in {"pass", "open1"} => file = Absent
  BY DEF FileInv, Bystander
<1>3. \A u \in Threads : pc'[u] = "valid" => Parses(file)
  BY DEF FileInv, Bystander
<1> QED
  BY <1>1, <1>2, <1>3 DEF FileInv, Parses

\* Every step of a session but taking the mutex, a save, and a process's death.
LEMMA StepBystands ==
  ASSUME TypeOK, NEW t \in Threads,
         \/ Start(t) \/ EnterThrows(t) \/ LockFile(t) \/ LockFileFails(t)
         \/ CheckExist(t) \/ CacheValid(t) \/ RunPass(t) \/ PassesDone(t)
         \/ PassThrows(t) \/ ReadBack(t) \/ ReadBackThrows(t) \/ CreateEps(t)
         \/ CreateEpsThrows(t) \/ Finish(t) \/ UnlockFile(t) \/ Leave(t)
         \/ CreateEpContextNodes(t) \/ Close(t)
  PROVE  /\ Bystander(t)
         /\ pc'[t] = "open1" => pc[t] = "pass"
         /\ pc'[t] = "pass" => pc[t] \in {"pass", "exist"}
         /\ pc'[t] = "valid" => pc[t] = "exist"
<1> USE DEF Bystander, TypeOK, Goto, session, locks, ghosts, Writing, MutexHeld,
            FileLocked, Saving1, Saving2
<1>1. CASE Start(t) \/ EnterThrows(t) \/ LockFile(t) \/ LockFileFails(t)
  BY <1>1 DEF Start, EnterThrows, LockFile, LockFileFails
<1>2. CASE CheckExist(t) \/ CacheValid(t)
  BY <1>2 DEF CheckExist, CacheValid
<1>3. CASE RunPass(t) \/ PassesDone(t) \/ PassThrows(t)
  BY <1>3 DEF RunPass, PassesDone, PassThrows
<1>4. CASE ReadBack(t) \/ ReadBackThrows(t)
  BY <1>4 DEF ReadBack, ReadBackThrows
<1>5. CASE CreateEps(t) \/ CreateEpsThrows(t) \/ Finish(t) \/ UnlockFile(t)
  BY <1>5 DEF CreateEps, CreateEpsThrows, Finish, UnlockFile
<1>6. CASE Leave(t) \/ CreateEpContextNodes(t) \/ Close(t)
  BY <1>6 DEF Leave, CreateEpContextNodes, Close
<1> QED
  BY <1>1, <1>2, <1>3, <1>4, <1>5, <1>6

LEMMA BystandersKeepFile ==
  ASSUME OneProcess, Inv, NEW t \in Threads,
         \/ Start(t) \/ EnterThrows(t) \/ LockFile(t) \/ LockFileFails(t)
         \/ CheckExist(t) \/ CacheValid(t) \/ RunPass(t) \/ PassesDone(t)
         \/ PassThrows(t) \/ ReadBack(t) \/ ReadBackThrows(t) \/ CreateEps(t)
         \/ CreateEpsThrows(t) \/ Finish(t) \/ UnlockFile(t) \/ Leave(t)
         \/ CreateEpContextNodes(t) \/ Close(t)
  PROVE  FileInv'
<1>1. Bystander(t)
  BY StepBystands DEF Inv
<1>2. ASSUME ~spoilt, pc'[t] \in {"pass", "open1"} PROVE file = Absent
  <2>1. pc[t] = "exist" => file = Absent
    <3> SUFFICES ASSUME pc[t] = "exist" PROVE file = Absent
      OBVIOUS
    <3>1. pc'[t] = "pass" /\ CheckExist(t)
      BY <1>2, StepBystands
         DEF Inv, TypeOK, Goto, Start, EnterThrows, LockFile, LockFileFails,
             CacheValid, RunPass, PassesDone, PassThrows, ReadBack,
             ReadBackThrows, CreateEps, CreateEpsThrows, Finish, UnlockFile,
             Leave, CreateEpContextNodes, Close
    <3> QED
      BY <3>1 DEF CheckExist, Goto, Inv, TypeOK, OneProcess
  <2>2. pc[t] \in {"pass", "exist"}
    BY <1>2, StepBystands DEF Inv
  <2> QED
    BY <1>2, <2>1, <2>2 DEF Inv, FileInv
<1>3. ASSUME ~spoilt, pc'[t] = "valid" PROVE Parses(file)
  <2>1. pc[t] = "exist"
    BY <1>3, StepBystands DEF Inv
  <2>2. file # Absent
    BY <1>3, <2>1
       DEF Inv, TypeOK, Goto, Start, EnterThrows, LockFile, LockFileFails,
           CheckExist, CacheValid, RunPass, PassesDone, PassThrows, ReadBack,
           ReadBackThrows, CreateEps, CreateEpsThrows, Finish, UnlockFile,
           Leave, CreateEpContextNodes, Close
  <2> QED
    BY <1>3, <2>1, <2>2, HolderSeesWhole, LabelFacts DEF Inv
<1> QED
  BY <1>1, <1>2, <1>3, BystanderKeepsFile DEF Inv

\* The mutex is free and, as nothing is spoilt, nobody is in a third save.
LEMMA EnterKeepsFile ==
  ASSUME OneProcess, Inv, NEW t \in Threads, Enter(t)
  PROVE  FileInv'
<1> SUFFICES ASSUME ~spoilt' PROVE FileInv'
  BY DEF FileInv
<1>1. /\ pc[t] = "mtx" /\ pc'[t] = "flock"
      /\ \A u \in Threads \ {t} : pc'[u] = pc[u]
      /\ UNCHANGED <<mixed, file>> /\ ~spoilt
  BY DEF Enter, Goto, Inv, TypeOK
<1>2. \A u \in Threads : pc[u] \notin MutexHeld
  BY CompileCacheAssumption DEF Enter, OneProcess, Inv, LockInv
<1>3. \A u \in Threads : pc[u] \notin {"write3", "flush3"}
  BY DEF Enter, MetByThirdSave
<1>4. \A u \in Threads : pc[u] \notin Writing /\ pc'[u] \notin Writing
  BY <1>1, <1>2, <1>3, LabelFacts
<1>5. Parses(file) \/ file = Absent
  BY <1>1, <1>4 DEF Inv, FileInv
<1>6. \A u \in Threads : pc'[u] \notin {"pass", "open1", "valid"}
  BY <1>1, <1>2, LabelFacts
<1> QED
  BY <1>1, <1>4, <1>5, <1>6 DEF Inv, FileInv, Parses

\* Which steps save_context_json takes, and that it never spoils what it
\* meets no other session for.
LEMMA SaveKeepsFile ==
  ASSUME OneProcess, Inv, NEW t \in Threads, Save(t)
  PROVE  FileInv'
<1> SUFFICES ASSUME ~spoilt' PROVE FileInv'
  BY DEF FileInv
<1>1. PICK k \in {1, 2, 3} :
        \/ SaveInMem(t, k) \/ SaveOpen(t, k) \/ SaveOpenFails(t, k)
        \/ SaveWrite(t, k) \/ SaveFlush(t, k)
  BY SaveSteps
<1>2. /\ ~spoilt
      /\ \A u \in Threads \ {t} : pc'[u] = pc[u]
  BY <1>1 DEF SaveInMem, SaveOpen, SaveOpenFails, SaveWrite, SaveFlush, Goto,
              Inv, TypeOK, ghosts
<1>3. CASE SaveInMem(t, k) \/ SaveOpenFails(t, k)
  <2>1. /\ pc[t] = Open(k) /\ pc'[t] = AfterSave(t, k)
        /\ UNCHANGED <<file, mixed, spoilt>>
    BY <1>3 DEF SaveInMem, SaveOpenFails, Goto, Inv, TypeOK, ghosts
  <2>2. Bystander(t)
    BY <1>2, <2>1, SaveLabels
       DEF Bystander, Writing, MutexHeld, FileLocked, Saving1, Saving2
  <2>3. pc'[t] \notin {"pass", "open1", "valid"}
    BY <2>1, SaveLabels
  <2> QED
    BY <2>2, <2>3, BystanderKeepsFile DEF Inv
<1>4. CASE SaveOpen(t, k)
  <2>1. /\ pc[t] = Open(k) /\ pc'[t] = Write(k) /\ file' = Empty
    BY <1>4 DEF SaveOpen, Goto, Inv, TypeOK
  <2>2. ASSUME NEW u \in Threads \ {t}
        PROVE  pc[u] \notin MutexHeld /\ pc[u] \notin Writing
    <3>1. CASE k = 3
      <4>1. pc[u] \notin MutexHeld \cup {"write3", "flush3"}
        BY <1>4, <3>1 DEF SaveOpen, Meets
      <4> QED
        BY <4>1, LabelFacts
    <3>2. CASE k # 3
      <4>1. pc[t] \in MutexHeld \ Writing
        BY <2>1, <3>2, SaveLabels, LabelFacts
      <4> QED
        BY <1>2, <4>1, OneAtATime, HolderSeesWhole DEF Inv
    <3> QED
      BY <3>1, <3>2
  <2>3. {u \in Threads \ {t} : pc[u] \in Writing} = {}
    BY <2>2
  <2>4. \A u \in Threads : ~mixed'[u]
    BY <1>2, <1>4, <2>3 DEF SaveOpen, Inv, FileInv
  <2>5. pc'[t] \in Writing
    BY <2>1, SaveLabels DEF Writing
  <2>6. \A u \in Threads : pc'[u] \notin {"pass", "open1", "valid"}
    BY <1>2, <2>1, <2>2, SaveLabels, LabelFacts
  <2> QED
    BY <1>2, <2>1, <2>2, <2>4, <2>5, <2>6 DEF FileInv
<1>5. CASE SaveWrite(t, k) \/ SaveFlush(t, k)
  <2>1. /\ pc[t] \in Writing
        /\ pc'[t] \in Writing \/ SaveFlush(t, k)
        /\ pc'[t] \notin {"pass", "open1", "valid"}
    BY <1>5, SaveLabels
       DEF SaveWrite, SaveFlush, Goto, Inv, TypeOK, Writing
  <2>2. \A u \in Threads \ {t} : pc[u] \notin MutexHeld /\ pc[u] \notin Writing
    BY <1>2, <2>1, WriterIsAlone DEF Inv
  <2>3. \A u \in Threads : pc'[u] \notin {"pass", "open1", "valid"}
    BY <1>2, <2>1, <2>2, LabelFacts
  <2>4. \A u \in Threads : ~mixed[u]
    BY <1>2 DEF Inv, FileInv
  <2>5. CASE SaveWrite(t, k)
    <3>1. file' = Torn /\ mixed' = mixed /\ pc'[t] \in Writing
      BY <2>5, SaveLabels DEF SaveWrite, Goto, Inv, TypeOK, Writing
    <3> QED
      BY <1>2, <2>2, <2>3, <2>4, <3>1 DEF FileInv
  <2>6. CASE SaveFlush(t, k)
    <3>1. file' = Saved(ctx[t]) /\ mixed' = [mixed EXCEPT ![t] = FALSE]
      BY <2>4, <2>6 DEF SaveFlush
    <3>2. pc'[t] = AfterSave(t, k)
      BY <2>6 DEF SaveFlush, Goto, Inv, TypeOK
    <3>3. \A u \in Threads : pc'[u] \notin Writing /\ ~mixed'[u]
      BY <1>2, <2>2, <2>4, <3>1, <3>2, SaveLabels, LabelFacts DEF Inv, TypeOK, Writing
    <3>4. Parses(file)'
      BY <3>1, FileFacts DEF Inv, TypeOK, Parses
    <3> QED
      BY <2>3, <3>3, <3>4 DEF FileInv
  <2> QED
    BY <1>5, <2>5, <2>6
<1> QED
  BY <1>1, <1>3, <1>4, <1>5

\* A process that dies outside its saves leaves context.json whole.
LEMMA DieKeepsFile ==
  ASSUME OneProcess, Inv, NEW p \in Procs, NEW t \in Threads, ProcOf[t] = p,
         Die(p), file' = file
  PROVE  FileInv'
<1> SUFFICES ASSUME ~spoilt' PROVE FileInv'
  BY DEF FileInv
<1>1. \A u \in Threads : ProcOf[u] = p
  BY DEF OneProcess
<1>2. ~spoilt /\ \A u \in Threads : pc[u] \notin Writing
  BY <1>1 DEF Die
<1>3. Parses(file) \/ file = Absent
  BY <1>2 DEF Inv, FileInv
<1>4. \A u \in Threads : pc'[u] = "idle" /\ ~mixed'[u]
  BY <1>1 DEF Die
<1> QED
  BY <1>3, <1>4, LabelFacts DEF FileInv, Parses

LEMMA NextKeepsFile ==
  ASSUME OneProcess, Inv, [Next]_vars
  PROVE  FileInv'
<1>1. ASSUME NEW t \in Threads, ReadBackTerminates(t) \/ AbortCpuOnly(t)
      PROVE  FileInv'
  BY <1>1, DieKeepsFile, CompileCacheAssumption
     DEF ReadBackTerminates, AbortCpuOnly
<1>2. ASSUME NEW t \in Threads, Step(t) PROVE FileInv'
  BY <1>1, <1>2, BystandersKeepFile, SaveKeepsFile DEF Step
<1>3. ASSUME NEW p \in Procs, Crash(p) PROVE FileInv'
  BY <1>3, DieKeepsFile DEF Crash
<1>4. CASE UNCHANGED vars
  BY <1>4 DEF vars, Inv, FileInv, Parses
<1> QED
  BY <1>2, <1>3, <1>4, BystandersKeepFile, EnterKeepsFile DEF Next

\* The invariants hold together in every behaviour of one process.
THEOREM FileHolds ==
  ASSUME OneProcess
  PROVE  Spec => []Inv
<1>1. Init => Inv
  <2>1. Init => FileInv
    BY LabelFacts DEF Init, FileInv
  <2>2. Init => SettingsInv
    BY CompileCacheAssumption
       DEF Init, SettingsInv, OwnSettingsRestored, BeforeEps, Saving1
  <2> QED
    BY <2>1, <2>2, InitTyping, InitLocks, InitMem DEF Inv
<1>2. Inv /\ [Next]_vars => Inv'
  BY NextTyping, NextKeepsLocks, NextKeepsSettings, NextKeepsMem, NextKeepsFile
     DEF Inv
<1> QED
  BY <1>1, <1>2, PTL DEF Spec

\* Until a third save meets another session or the process is killed in a
\* save, no session of the process meets a context.json that is there and does
\* not parse, neither when it decides a hit nor when it reads back; whatever
\* passes and plugins throw, whichever opens fail, on disk and in memory.
THEOREM WholeUntilSpoilt ==
  ASSUME OneProcess
  PROVE  Spec => []TornOnlyOnceSpoilt
<1>1. Inv => TornOnlyOnceSpoilt
  <2> SUFFICES ASSUME Inv, ~spoilt, NEW t \in Threads
               PROVE  /\ pc[t] = "valid" => Parses(file)
                      /\ pc[t] = "read" =>
                           Visible(t).state \notin {"empty", "torn"}
    BY DEF TornOnlyOnceSpoilt
  <2>1. ASSUME pc[t] = "read" PROVE Parses(Visible(t)) \/ Visible(t) = Absent
    <3>1. Parses(file) \/ file = Absent
      BY <2>1, HolderSeesWhole, LabelFacts DEF Inv
    <3> QED
      BY <3>1 DEF Visible, Inv, MemInv
  <2> QED
    BY <2>1 DEF Inv, FileInv, Parses, Absent
<1> QED
  BY <1>1, FileHolds, PTL

-----------------------------------------------------------------------------
(***************************************************************************)
(* The register.  If moreover every session of the process starts on disk, *)
(* the sessions implement OnceCache.                                       *)
(***************************************************************************)
OneDiskProcess ==
  /\ OneProcess
  /\ \A o \in OptionChoices : ~(MayBeInMem(o) /\ o.mem)

\* Labels of a session whose context_proto comes from context.json, or has
\* nothing to come from there.
Agreed == {"eps", "finish", "funlock", "open2", "unlock"}
AfterEps == {"finish", "funlock", "open2", "unlock"}

\* What a session knows of the register: nothing else was decided than what it
\* has, and something was if it has execution providers.
Fits(t) ==
  /\ pc[t] \in Agreed => CachedDefs \in {Nobody, ctx[t].defs}
  /\ pc[t] \in {"ctx", "open3"} => CachedDefs = ctx[t].defs
  /\ pc[t] = "eps" => CachedDefs # Nobody
  /\ pc[t] \in AfterEps /\ eps[t] > 0 => CachedDefs # Nobody

RegInv ==
  /\ \A t \in Threads : OnDisk(t)
  /\ ~spoilt => \A t \in Threads : Fits(t)

\* The value of the abstract register, case by case.
RegisterIs ==
  /\ spoilt => CachedDefs = Spoilt
  /\ ~spoilt =>
       /\ file = Absent => CachedDefs = Nobody
       /\ Parses(file) => CachedDefs = file.doc.defs
       /\ \A t \in Threads : pc[t] \in Writing => CachedDefs = ctx[t].defs

LEMMA RegisterFacts ==
  ASSUME OneProcess, Inv
  PROVE  RegisterIs
<1>1. ASSUME ~spoilt, NEW t \in Threads, pc[t] \in Writing
      PROVE  CachedDefs = ctx[t].defs
  <2>1. \A u \in Threads : pc[u] \in Writing <=> u = t
    BY <1>1, WriterIsAlone DEF Inv
  <2>2. Saver = t
    BY <2>1 DEF Saver
  <2>3. ~Parses(file) /\ file # Absent
    BY <1>1, FileFacts DEF Inv, FileInv
  <2> QED
    BY <1>1, <2>2, <2>3 DEF CachedDefs
<1> QED
  BY <1>1, FileFacts DEF RegisterIs, CachedDefs

\* The number of meta_defs of a context_proto is a value of the register, and
\* none of the two that mean something else.
LEMMA DefsFacts ==
  ASSUME TypeOK, NEW t \in Threads
  PROVE  /\ ctx[t].defs \in 0..MaxDefs
         /\ ctx[t].defs # Nobody /\ ctx[t].defs # Spoilt /\ Nobody # Spoilt
<1>1. ctx[t].defs \in 0..MaxDefs
  BY DEF TypeOK, Proto
<1>2. MaxDefs \in Nat /\ Nobody \notin (-1)..MaxDefs
  BY CompileCacheAssumption
<1>3. -1 \in (-1)..MaxDefs /\ 0..MaxDefs \subseteq (-1)..MaxDefs /\ -1 \notin 0..MaxDefs
  BY <1>2
<1> QED
  BY <1>1, <1>2, <1>3 DEF Spoilt

\* A step after which nobody's answer and nobody's document has changed.
LEMMA SameRegister ==
  ASSUME OneProcess, Inv, RegisterIs, RegisterIs', ~spoilt, ~spoilt', file' = file,
         \A t \in Threads :
           pc[t] \in Writing => pc'[t] \in Writing /\ ctx'[t] = ctx[t]
  PROVE  CachedDefs' = CachedDefs
<1>1. CASE \E t \in Threads : pc[t] \in Writing
  BY <1>1 DEF RegisterIs
<1>2. CASE \A t \in Threads : pc[t] \notin Writing
  <2>1. Parses(file) \/ file = Absent
    BY <1>2 DEF Inv, FileInv
  <2>2. Parses(file)' <=> Parses(file)
    BY DEF Parses
  <2> QED
    BY <2>1, <2>2 DEF RegisterIs
<1> QED
  BY <1>1, <1>2

\* A disk session reads and writes log_dir/context.json until its read-back.
LEMMA DiskSession ==
  ASSUME Inv, RegInv, NEW t \in Threads, pc[t] \in BeforeReadBack
  PROVE  ~InMem(t) /\ Visible(t) = file
<1>1. ~InMem(t)
  BY DEF Inv, LockInv, RegInv, OnDisk, InMem
<1> QED
  BY <1>1 DEF Visible

\* What a step does to the register, before anything is spoilt: the first
\* document opened for writing decides it, everything else leaves it alone.
LEMMA SaveAndRegister ==
  ASSUME OneProcess, Inv, RegInv, RegisterIs, RegisterIs', ~spoilt, ~spoilt',
         NEW t \in Threads, Save(t)
  PROVE  \/ CachedDefs' = CachedDefs
         \/ /\ CachedDefs = Nobody /\ CachedDefs' = ctx[t].defs
            /\ pc[t] \in {"open1", "open2"} /\ pc'[t] \in Writing
<1>1. PICK k \in {1, 2, 3} :
        \/ SaveInMem(t, k) \/ SaveOpen(t, k) \/ SaveOpenFails(t, k)
        \/ SaveWrite(t, k) \/ SaveFlush(t, k)
  BY SaveSteps
<1>2. /\ ctx' = ctx
      /\ \A u \in Threads \ {t} : pc'[u] = pc[u]
  BY <1>1 DEF SaveInMem, SaveOpen, SaveOpenFails, SaveWrite, SaveFlush, Goto,
              Inv, TypeOK
<1>3. CASE SaveInMem(t, k) \/ SaveOpenFails(t, k)
  <2>1. pc[t] = Open(k) /\ file' = file
    BY <1>3 DEF SaveInMem, SaveOpenFails, Goto
  <2>2. pc[t] \notin Writing
    BY <2>1, SaveLabels DEF Writing
  <2> QED
    BY <1>2, <2>1, <2>2, SameRegister
<1>4. CASE SaveOpen(t, k)
  <2>1. pc[t] = Open(k) /\ pc'[t] = Write(k)
    BY <1>4 DEF SaveOpen, Goto, Inv, TypeOK
  <2>2. pc'[t] \in Writing
    BY <2>1, SaveLabels DEF Writing
  <2>3. CachedDefs' = ctx[t].defs
    BY <1>2, <2>2 DEF RegisterIs
  <2>4. CASE k = 1
    <3>1. pc[t] = "open1"
      BY <2>1, <2>4, SaveLabels
    <3>2. CachedDefs = Nobody
      BY <3>1 DEF Inv, FileInv, RegisterIs
    <3> QED
      BY <2>2, <2>3, <3>1, <3>2
  <2>5. CASE k = 2
    <3>1. pc[t] = "open2"
      BY <2>1, <2>5, SaveLabels
    <3>2. CachedDefs \in {Nobody, ctx[t].defs}
      BY <3>1 DEF RegInv, Fits, Agreed
    <3> QED
      BY <2>2, <2>3, <3>1, <3>2
  <2>6. CASE k = 3
    <3>1. pc[t] = "open3"
      BY <2>1, <2>6, SaveLabels
    <3> QED
      BY <2>3, <3>1 DEF RegInv, Fits
  <2> QED
    BY <2>4, <2>5, <2>6
<1>5. CASE SaveWrite(t, k)
  <2>1. pc[t] \in Writing /\ pc'[t] \in Writing
    BY <1>5, SaveLabels DEF SaveWrite, Goto, Inv, TypeOK, Writing
  <2> QED
    BY <1>2, <2>1 DEF RegisterIs
<1>6. CASE SaveFlush(t, k)
  <2>1. pc[t] \in Writing /\ file' = Saved(ctx[t])
    BY <1>6, SaveLabels DEF SaveFlush, Goto, Inv, FileInv, Writing
  <2>2. Parses(file)' /\ file'.doc.defs = ctx[t].defs
    BY <2>1, FileFacts DEF Inv, TypeOK, Parses
  <2> QED
    BY <2>1, <2>2 DEF RegisterIs
<1> QED
  BY <1>1, <1>3, <1>4, <1>5, <1>6

LEMMA OthersLeaveRegister ==
  ASSUME OneProcess, Inv, RegisterIs, RegisterIs', ~spoilt, ~spoilt',
         NEW t \in Threads,
         \/ Start(t) \/ Enter(t) \/ EnterThrows(t) \/ LockFile(t)
         \/ LockFileFails(t) \/ CheckExist(t) \/ CacheValid(t) \/ RunPass(t)
         \/ PassesDone(t) \/ PassThrows(t) \/ ReadBack(t) \/ ReadBackThrows(t)
         \/ CreateEps(t) \/ CreateEpsThrows(t) \/ Finish(t) \/ UnlockFile(t)
         \/ Leave(t) \/ CreateEpContextNodes(t) \/ Close(t)
  PROVE  /\ CachedDefs' = CachedDefs /\ file' = file
         /\ \A u \in Threads \ {t} :
              pc'[u] = pc[u] /\ ctx'[u] = ctx[u] /\ asked'[u] = asked[u]
<1>1. /\ pc[t] \notin Writing /\ file' = file
      /\ \A u \in Threads \ {t} : pc'[u] = pc[u]
  <2>1. CASE Enter(t)
    BY <2>1 DEF Enter, Goto, Inv, TypeOK, Writing
  <2>2. CASE ~Enter(t)
    BY <2>2, StepBystands DEF Bystander, Inv
  <2> QED
    BY <2>1, <2>2
<1>2. \A u \in Threads \ {t} : ctx'[u] = ctx[u] /\ asked'[u] = asked[u]
  <2> USE DEF Inv, TypeOK, session
  <2>1. CASE \/ Start(t) \/ Enter(t) \/ EnterThrows(t) \/ LockFile(t)
             \/ LockFileFails(t)
    BY <2>1 DEF Start, Enter, EnterThrows, LockFile, LockFileFails
  <2>2. CASE \/ CheckExist(t) \/ CacheValid(t) \/ RunPass(t) \/ PassesDone(t)
             \/ PassThrows(t) \/ ReadBack(t) \/ ReadBackThrows(t)
    BY <2>2 DEF CheckExist, CacheValid, RunPass, PassesDone, PassThrows,
                ReadBack, ReadBackThrows
  <2>3. CASE \/ CreateEps(t) \/ CreateEpsThrows(t) \/ Finish(t)
             \/ UnlockFile(t) \/ CreateEpContextNodes(t)
    BY <2>3 DEF CreateEps, CreateEpsThrows, Finish, UnlockFile,
                CreateEpContextNodes
  <2>4. CASE Leave(t) \/ Close(t)
    BY <2>4 DEF Leave, Close, Forget
  <2> QED
    BY <2>1, <2>2, <2>3, <2>4
<1>3. CachedDefs' = CachedDefs
  BY <1>1, <1>2, SameRegister
<1> QED
  BY <1>1, <1>2, <1>3

\* When the register is as it was, only the thread that took the step counts.
LEMMA OneFits ==
  ASSUME RegInv, ~spoilt, NEW t \in Threads, CachedDefs' = CachedDefs,
         \A u \in Threads \ {t} :
           pc'[u] = pc[u] /\ ctx'[u] = ctx[u] /\ eps'[u] = eps[u],
         Fits(t)'
  PROVE  \A u \in Threads : Fits(u)'
BY DEF RegInv, Fits

\* The session's own label after a step that is no save.
LEMMA StepFits ==
  ASSUME OneDiskProcess, Inv, RegInv, RegisterIs, ~spoilt,
         CachedDefs' = CachedDefs, NEW t \in Threads,
         \/ Start(t) \/ Enter(t) \/ EnterThrows(t) \/ LockFile(t)
         \/ LockFileFails(t) \/ CheckExist(t) \/ CacheValid(t) \/ RunPass(t)
         \/ PassesDone(t) \/ PassThrows(t) \/ ReadBack(t) \/ ReadBackThrows(t)
         \/ CreateEps(t) \/ CreateEpsThrows(t) \/ Finish(t) \/ UnlockFile(t)
         \/ Leave(t) \/ CreateEpContextNodes(t) \/ Close(t)
  PROVE  /\ Fits(t)'
         /\ \A u \in Threads \ {t} : eps'[u] = eps[u]
<1> USE DEF Inv, TypeOK, Goto, session, Agreed, AfterEps
<1>1. CASE \/ Start(t) \/ Enter(t) \/ EnterThrows(t) \/ LockFile(t)
           \/ LockFileFails(t) \/ CheckExist(t) \/ RunPass(t)
           \/ PassesDone(t) \/ PassThrows(t) \/ Close(t)
  <2>1. pc'[t] \notin Agreed \cup {"ctx", "open3"}
    BY <1>1 DEF Start, Enter, EnterThrows, LockFile, LockFileFails,
                CheckExist, RunPass, PassesDone, PassThrows, Close
  <2>2. \A u \in Threads \ {t} : eps'[u] = eps[u]
    BY <1>1 DEF Start, Enter, EnterThrows, LockFile, LockFileFails,
                CheckExist, RunPass, PassesDone, PassThrows, Close
  <2> QED
    BY <2>1, <2>2 DEF Fits
<1>2. CASE CacheValid(t)
  BY <1>2 DEF CacheValid, FileInv, Fits
<1>3. CASE ReadBack(t)
  <2>1. /\ pc[t] = "read" /\ pc'[t] = "eps" /\ eps' = eps
        /\ Parses(Visible(t)) /\ ctx'[t] = Restored(t, Visible(t).doc)
    BY <1>3 DEF ReadBack
  <2>2. Visible(t) = file
    BY <2>1, DiskSession DEF BeforeReadBack
  <2>3. ctx'[t].defs = file.doc.defs
    BY <2>1, <2>2 DEF Restored, File, Proto
  <2>4. CachedDefs = file.doc.defs /\ file.doc.defs \in 0..MaxDefs
    BY <2>1, <2>2 DEF RegisterIs, File, Proto
  <2>5. Nobody \notin 0..MaxDefs
    BY CompileCacheAssumption
  <2> QED
    BY <2>1, <2>3, <2>4, <2>5 DEF Fits
<1>4. CASE ReadBackThrows(t)
  <2>1. /\ pc[t] = "read" /\ pc'[t] = "finish" /\ eps' = eps
        /\ Visible(t) \in {Torn, Absent}
    BY <1>4 DEF ReadBackThrows
  <2>2. Visible(t) = file
    BY <2>1, DiskSession DEF BeforeReadBack
  <2>3. CachedDefs = Nobody
    BY <2>1, <2>2, HolderSeesWhole, LabelFacts, FileFacts
       DEF RegisterIs, OneDiskProcess
  <2>4. eps[t] = 0
    BY <2>1 DEF SettingsInv, BeforeEps
  <2> QED
    BY <2>1, <2>3, <2>4 DEF Fits
<1>5. CASE CreateEps(t)
  <2>1. pc[t] = "eps" /\ pc'[t] = "finish" /\ ctx' = ctx
    BY <1>5 DEF CreateEps
  <2>2. \A u \in Threads \ {t} : eps'[u] = eps[u]
    BY <1>5 DEF CreateEps
  <2> QED
    BY <2>1, <2>2 DEF Fits, RegInv
<1>6. CASE \/ CreateEpsThrows(t) \/ Finish(t) \/ UnlockFile(t)
           \/ CreateEpContextNodes(t)
  <2>1. CASE CreateEpsThrows(t)
    BY <2>1 DEF CreateEpsThrows, Fits, RegInv
  <2>2. CASE Finish(t) \/ UnlockFile(t) \/ CreateEpContextNodes(t)
    BY <2>2 DEF Finish, UnlockFile, CreateEpContextNodes, Fits, RegInv
  <2> QED
    BY <1>6, <2>1, <2>2
<1>7. CASE Leave(t)
  <2>1. pc[t] = "unlock" /\ eps' = eps
    BY <1>7 DEF Leave
  <2>2. CASE pc'[t] = "idle"
    BY <2>1, <2>2 DEF Fits
  <2>3. CASE pc'[t] # "idle"
    <3>1. pc'[t] = "ctx" /\ ctx' = ctx /\ eps[t] > 0
      BY <1>7, <2>3 DEF Leave, EmbedsCache
    <3> QED
      BY <2>1, <3>1 DEF Fits, RegInv
  <2> QED
    BY <2>1, <2>2, <2>3
<1> QED
  BY <1>1, <1>2, <1>3, <1>4, <1>5, <1>6, <1>7

\* The same after a step of a save.
LEMMA SaveFits ==
  ASSUME OneDiskProcess, Inv, RegInv, RegisterIs, RegisterIs', ~spoilt,
         ~spoilt', NEW t \in Threads, Save(t)
  PROVE  \A u \in Threads : Fits(u)'
<1>1. PICK k \in {1, 2, 3} :
        \/ SaveInMem(t, k) \/ SaveOpen(t, k) \/ SaveOpenFails(t, k)
        \/ SaveWrite(t, k) \/ SaveFlush(t, k)
  BY SaveSteps
<1>2. /\ ctx' = ctx /\ eps' = eps
      /\ \A u \in Threads \ {t} : pc'[u] = pc[u]
  BY <1>1 DEF SaveInMem, SaveOpen, SaveOpenFails, SaveWrite, SaveFlush, Goto,
              Inv, TypeOK, session
<1>3. Fits(t)'
  <2> USE DEF Fits, Agreed, AfterEps
  <2>1. CASE SaveOpen(t, k) \/ SaveWrite(t, k)
    <3>1. pc'[t] \in Writing
      BY <2>1, SaveLabels DEF SaveOpen, SaveWrite, Goto, Inv, TypeOK, Writing
    <3> QED
      BY <3>1 DEF Writing
  <2>2. CASE SaveFlush(t, k)
    <3>1. CachedDefs' = ctx[t].defs
      <4>1. file' = Saved(ctx[t])
        BY <2>2 DEF SaveFlush, Inv, FileInv
      <4> QED
        BY <4>1, FileFacts DEF RegisterIs, Inv, TypeOK, Parses
    <3>2. pc'[t] = AfterSave(t, k)
      BY <2>2 DEF SaveFlush, Goto, Inv, TypeOK
    <3> QED
      BY <1>2, <3>1, <3>2, SaveLabels, DefsFacts DEF Inv
  <2>3. CASE SaveInMem(t, k) \/ SaveOpenFails(t, k)
    <3>1. pc[t] = Open(k) /\ pc'[t] = AfterSave(t, k) /\ file' = file
      BY <2>3 DEF SaveInMem, SaveOpenFails, Goto, Inv, TypeOK
    <3>2. pc[t] \notin Writing
      BY <3>1, SaveLabels DEF Writing
    <3>3. CachedDefs' = CachedDefs
      BY <1>2, <3>1, <3>2, SameRegister DEF OneDiskProcess
    <3>4. CASE k = 1
      <4>1. CachedDefs = Nobody /\ eps[t] = 0
        BY <3>1, <3>4, SaveLabels
           DEF Inv, FileInv, RegisterIs, SettingsInv, BeforeEps, Saving1
      <4> QED
        BY <1>2, <3>1, <3>3, <3>4, <4>1, SaveLabels
    <3>5. CASE k = 2
      BY <1>2, <3>1, <3>3, <3>5, SaveLabels DEF RegInv
    <3>6. CASE k = 3
      BY <3>1, <3>6, SaveLabels
    <3> QED
      BY <3>4, <3>5, <3>6
  <2> QED
    BY <1>1, <2>1, <2>2, <2>3
<1>4. CASE CachedDefs' = CachedDefs
  BY <1>2, <1>3, <1>4, OneFits
<1>5. CASE CachedDefs' # CachedDefs
  <2>1. CachedDefs = Nobody /\ pc[t] \in {"open1", "open2"}
    BY <1>5, SaveAndRegister DEF OneDiskProcess
  <2>2. ASSUME NEW u \in Threads \ {t} PROVE Fits(u)'
    <3>1. pc[u] \notin MutexHeld
      BY <2>1, OneAtATime, LabelFacts DEF Inv, OneDiskProcess
    <3>2. pc[u] \notin {"ctx", "open3"}
      BY <2>1, DefsFacts DEF RegInv, Fits, Inv
    <3> QED
      BY <1>2, <3>1, <3>2, LabelFacts DEF Fits, Agreed, AfterEps
  <2> QED
    BY <1>3, <2>2
<1> QED
  BY <1>4, <1>5

\* A process that dies without spoiling anything leaves the register as it is.
LEMMA DieAndRegister ==
  ASSUME OneDiskProcess, Inv, RegisterIs, RegisterIs', NEW p \in Procs,
         NEW t \in Threads, ProcOf[t] = p, Die(p), file' = file
  PROVE  /\ \A u \in Threads : pc'[u] = "idle" /\ asked'[u] = NoOptions
         /\ eps' = [u \in Threads |-> 0]
         /\ ~spoilt' => ~spoilt /\ CachedDefs' = CachedDefs
         /\ spoilt' => spoilt \/ \E u \in Threads : pc[u] \in Writing
<1>1. \A u \in Threads : ProcOf[u] = p
  BY DEF OneDiskProcess, OneProcess
<1>2. /\ \A u \in Threads : pc'[u] = "idle" /\ asked'[u] = NoOptions
      /\ eps' = [u \in Threads |-> 0]
      /\ spoilt' = (spoilt \/ \E u \in Threads : pc[u] \in Writing)
  BY <1>1 DEF Die
<1>3. ~spoilt' => CachedDefs' = CachedDefs
  BY <1>2, SameRegister DEF OneDiskProcess
<1> QED
  BY <1>2, <1>3

LEMMA NextKeepsRegister ==
  ASSUME OneDiskProcess, Inv, RegInv, RegisterIs, RegisterIs', [Next]_vars
  PROVE  RegInv'
<1> USE DEF OneDiskProcess
<1>1. ASSUME NEW t \in Threads,
             \/ Start(t) \/ Enter(t) \/ EnterThrows(t) \/ LockFile(t)
             \/ LockFileFails(t) \/ CheckExist(t) \/ CacheValid(t)
             \/ RunPass(t) \/ PassesDone(t) \/ PassThrows(t) \/ ReadBack(t)
             \/ ReadBackThrows(t) \/ CreateEps(t) \/ CreateEpsThrows(t)
             \/ Finish(t) \/ UnlockFile(t) \/ Leave(t)
             \/ CreateEpContextNodes(t) \/ Close(t)
      PROVE  RegInv'
  <2>1. \A u \in Threads : asked'[u] = asked[u] \/ asked'[u] \in OptionChoices
    <3> USE DEF Inv, TypeOK, session
    <3>1. CASE \/ Start(t) \/ Enter(t) \/ EnterThrows(t) \/ LockFile(t)
               \/ LockFileFails(t) \/ CheckExist(t) \/ CacheValid(t)
      BY <3>1 DEF Start, Enter, EnterThrows, LockFile, LockFileFails,
                  CheckExist, CacheValid
    <3>2. CASE \/ RunPass(t) \/ PassesDone(t) \/ PassThrows(t) \/ ReadBack(t)
               \/ ReadBackThrows(t) \/ CreateEps(t) \/ CreateEpsThrows(t)
               \/ Finish(t) \/ UnlockFile(t)
      BY <3>2 DEF RunPass, PassesDone, PassThrows, ReadBack, ReadBackThrows,
                  CreateEps, CreateEpsThrows, Finish, UnlockFile
    <3>3. CASE Leave(t) \/ CreateEpContextNodes(t) \/ Close(t)
      BY <3>3 DEF Leave, CreateEpContextNodes, Close
    <3> QED
      BY <1>1, <3>1, <3>2, <3>3
  <2>2. \A u \in Threads : OnDisk(u)'
    BY <2>1 DEF RegInv, OnDisk
  <2>3. ASSUME ~spoilt' PROVE ~spoilt /\ \A u \in Threads : Fits(u)'
    <3>1. ~spoilt
      <4>1. CASE Enter(t)
        BY <2>3, <4>1 DEF Enter
      <4>2. CASE ~Enter(t)
        BY <1>1, <2>3, <4>2, StepBystands DEF Bystander, Inv
      <4> QED
        BY <4>1, <4>2
    <3> QED
      BY <1>1, <2>3, <3>1, OthersLeaveRegister, StepFits, OneFits
  <2> QED
    BY <2>2, <2>3 DEF RegInv
<1>2. ASSUME NEW t \in Threads, Save(t) PROVE RegInv'
  <2>1. asked' = asked /\ (spoilt => spoilt')
    BY <1>2, SaveSteps DEF SaveInMem, SaveOpen, SaveOpenFails, SaveWrite,
                           SaveFlush, session, ghosts
  <2> QED
    BY <1>2, <2>1, SaveFits DEF RegInv, OnDisk
<1>3. ASSUME NEW p \in Procs, NEW t \in Threads, ProcOf[t] = p, Die(p),
             file' = file
      PROVE  RegInv'
  <2>1. \A u \in Threads : OnDisk(u)' /\ Fits(u)'
    BY <1>3, DieAndRegister
       DEF OnDisk, NoOptions, Fits, Agreed, AfterEps
  <2> QED
    BY <2>1 DEF RegInv
<1>4. ASSUME NEW t \in Threads, ReadBackTerminates(t) \/ AbortCpuOnly(t)
      PROVE  RegInv'
  BY <1>3, <1>4, CompileCacheAssumption DEF ReadBackTerminates, AbortCpuOnly
<1>5. ASSUME NEW p \in Procs, Crash(p) PROVE RegInv'
  BY <1>3, <1>5 DEF Crash
<1>6. CASE UNCHANGED vars
  <2>1. spoilt' = spoilt /\ (~spoilt => CachedDefs' = CachedDefs)
    BY <1>6, SameRegister DEF vars
  <2> QED
    BY <1>6, <2>1 DEF vars, RegInv, OnDisk, Fits
<1> QED
  BY <1>1, <1>2, <1>4, <1>5, <1>6 DEF Next, Step

\* RegInv holds in every behaviour of one process whose sessions are on disk.
THEOREM OnceHolds ==
  ASSUME OneDiskProcess
  PROVE  Spec => [](Inv /\ RegInv /\ RegisterIs)
<1> USE DEF OneDiskProcess
<1>1. Init => RegInv
  BY DEF Init, RegInv, OnDisk, NoOptions, Fits, Agreed, AfterEps
<1>2. Inv => RegisterIs
  BY RegisterFacts
<1>3. Inv /\ RegInv /\ RegisterIs /\ RegisterIs' /\ [Next]_vars => RegInv'
  BY NextKeepsRegister
<1> QED
  BY <1>1, <1>2, <1>3, FileHolds, PTL DEF Spec

-----------------------------------------------------------------------------
(* The refinement *)

\* Once spoilt, every step is allowed.
LEMMA SpoiltRefines ==
  ASSUME Inv, Inv', RegisterIs, RegisterIs', spoilt'
  PROVE  CachedDefs # Nobody => Once!Lose
<1>1. CachedDefs' = Spoilt
  BY DEF RegisterIs
<1>2. eps' \in [Threads -> 0..MaxDefs]
  BY DEF Inv, TypeOK
<1> QED
  BY <1>1, <1>2 DEF Once!Lose

\* Nothing is spoilt before the register is written.
LEMMA SpoiltOnlyWritten ==
  ASSUME OneDiskProcess, Inv, RegInv, RegisterIs, RegisterIs', [Next]_vars,
         spoilt'
  PROVE  CachedDefs # Nobody
<1> USE DEF OneDiskProcess
<1>1. CASE spoilt
  BY <1>1, CompileCacheAssumption DEF RegisterIs, Spoilt
<1>2. ASSUME NEW u \in Threads, ~spoilt, pc[u] \in Writing \cup {"open3"}
      PROVE  CachedDefs # Nobody
  BY <1>2, DefsFacts DEF RegisterIs, RegInv, Fits, Inv
<1>3. ASSUME NEW t \in Threads, Step(t) \/ Start(t) \/ Enter(t)
             \/ EnterThrows(t) \/ LockFile(t) \/ LockFileFails(t), ~spoilt
      PROVE  CachedDefs # Nobody
  <2>1. CASE Enter(t)
    BY <1>2, <1>3, <2>1 DEF Enter, MetByThirdSave, Writing
  <2>2. CASE Save(t)
    <3>1. PICK k \in {1, 2, 3} :
            \/ SaveInMem(t, k) \/ SaveOpen(t, k) \/ SaveOpenFails(t, k)
            \/ SaveWrite(t, k) \/ SaveFlush(t, k)
      BY <2>2, SaveSteps
    <3>2. SaveOpen(t, k) /\ k = 3
      BY <1>3, <3>1
         DEF SaveInMem, SaveOpen, SaveOpenFails, SaveWrite, SaveFlush, Meets,
             ghosts
    <3>3. pc[t] = "open3"
      BY <3>2, SaveLabels DEF SaveOpen, Goto
    <3> QED
      BY <1>2, <1>3, <3>3
  <2>3. CASE ReadBackTerminates(t) \/ AbortCpuOnly(t)
    <3>1. PICK u \in Threads : pc[u] \in Writing
      BY <1>3, <2>3, DieAndRegister, CompileCacheAssumption
         DEF ReadBackTerminates, AbortCpuOnly
    <3> QED
      BY <1>2, <1>3, <3>1
  <2> QED
    BY <1>3, <2>1, <2>2, <2>3, StepBystands DEF Step, Bystander, Inv
<1>4. ASSUME NEW p \in Procs, Crash(p), ~spoilt PROVE CachedDefs # Nobody
  <2>1. PICK u \in Threads : pc[u] \in Writing
    BY <1>4, DieAndRegister DEF Crash
  <2> QED
    BY <1>2, <1>4, <2>1
<1>5. CASE UNCHANGED vars
  BY <1>1, <1>5 DEF vars
<1> QED
  BY <1>1, <1>3, <1>4, <1>5 DEF Next

\* Every step of the sessions is a step of the register or none.
LEMMA NextRefines ==
  ASSUME OneDiskProcess, Inv, Inv', RegInv, RegisterIs, RegisterIs', [Next]_vars
  PROVE  [Once!Next]_<<CachedDefs, eps>>
<1> USE DEF OneDiskProcess
<1>1. CASE spoilt'
  BY <1>1, SpoiltRefines, SpoiltOnlyWritten DEF Once!Next
<1>2. ASSUME ~spoilt', NEW t \in Threads,
             \/ Start(t) \/ Enter(t) \/ EnterThrows(t) \/ LockFile(t)
             \/ LockFileFails(t) \/ Step(t)
      PROVE  ~spoilt
  <2>1. CASE Enter(t)
    BY <1>2, <2>1 DEF Enter
  <2>2. CASE Save(t)
    BY <1>2, <2>2, SaveSteps
       DEF SaveInMem, SaveOpen, SaveOpenFails, SaveWrite, SaveFlush, ghosts
  <2>3. CASE ReadBackTerminates(t) \/ AbortCpuOnly(t)
    BY <1>2, <2>3 DEF ReadBackTerminates, AbortCpuOnly, Die
  <2> QED
    BY <1>2, <2>1, <2>2, <2>3, StepBystands DEF Step, Bystander, Inv
<1>3. ASSUME ~spoilt', NEW t \in Threads, Start(t)
      PROVE  Once!Reset({t})
  <2>1. CachedDefs' = CachedDefs
    BY <1>2, <1>3, OthersLeaveRegister
  <2>2. eps' = [u \in Threads |-> IF u \in {t} THEN 0 ELSE eps[u]]
    BY <1>3 DEF Start, Inv, TypeOK
  <2> QED
    BY <2>1, <2>2 DEF Once!Reset
<1>4. ASSUME ~spoilt', NEW t \in Threads, CreateEps(t)
      PROVE  Once!Answer(t)
  <2>1. CachedDefs' = CachedDefs
    BY <1>2, <1>4, OthersLeaveRegister DEF Step
  <2>2. pc[t] = "eps" /\ eps' = [eps EXCEPT ![t] = ctx[t].defs]
    BY <1>4 DEF CreateEps, Goto
  <2>3. ~spoilt
    BY <1>2, <1>4 DEF Step
  <2>4. CachedDefs = ctx[t].defs
    BY <2>2, <2>3 DEF RegInv, Fits, Agreed
  <2> QED
    BY <2>1, <2>2, <2>4, DefsFacts DEF Once!Answer, Inv
<1>5. ASSUME ~spoilt', NEW t \in Threads, Save(t)
      PROVE  Once!Decide \/ UNCHANGED <<CachedDefs, eps>>
  <2>1. UNCHANGED eps
    BY <1>5, SaveSteps DEF SaveInMem, SaveOpen, SaveOpenFails, SaveWrite,
                           SaveFlush, session
  <2>2. ~spoilt
    BY <1>2, <1>5 DEF Step
  <2> QED
    BY <1>5, <2>1, <2>2, SaveAndRegister, DefsFacts DEF Once!Decide, Inv
<1>6. ASSUME ~spoilt', NEW t \in Threads,
             \/ Enter(t) \/ EnterThrows(t) \/ LockFile(t) \/ LockFileFails(t)
             \/ CheckExist(t) \/ CacheValid(t) \/ RunPass(t) \/ PassesDone(t)
             \/ PassThrows(t) \/ ReadBack(t) \/ ReadBackThrows(t)
             \/ CreateEpsThrows(t) \/ Finish(t) \/ UnlockFile(t) \/ Leave(t)
             \/ CreateEpContextNodes(t) \/ Close(t)
      PROVE  UNCHANGED <<CachedDefs, eps>>
  <2>1. ~spoilt
    BY <1>2, <1>6 DEF Step
  <2>2. CachedDefs' = CachedDefs
    BY <1>6, <2>1, OthersLeaveRegister
  <2>3. CASE \/ Enter(t) \/ EnterThrows(t) \/ LockFile(t) \/ LockFileFails(t)
             \/ CheckExist(t) \/ CacheValid(t) \/ RunPass(t) \/ PassesDone(t)
             \/ PassThrows(t) \/ ReadBack(t) \/ ReadBackThrows(t)
    BY <2>2, <2>3 DEF Enter, EnterThrows, LockFile, LockFileFails, CheckExist,
       CacheValid, RunPass, PassesDone, PassThrows, ReadBack, ReadBackThrows,
       session
  <2>4. CASE \/ CreateEpsThrows(t) \/ Finish(t) \/ UnlockFile(t) \/ Leave(t)
             \/ CreateEpContextNodes(t) \/ Close(t)
    BY <2>2, <2>4 DEF CreateEpsThrows, Finish, UnlockFile, Leave,
       CreateEpContextNodes, Close, session
  <2> QED
    BY <1>6, <2>3, <2>4
<1>7. ASSUME ~spoilt', NEW p \in Procs, NEW t \in Threads, ProcOf[t] = p,
             Die(p), file' = file
      PROVE  Once!Reset(Threads)
  BY <1>7, DieAndRegister DEF Once!Reset
<1>8. ASSUME ~spoilt', NEW t \in Threads, ReadBackTerminates(t) \/ AbortCpuOnly(t)
      PROVE  Once!Reset(Threads)
  BY <1>7, <1>8, CompileCacheAssumption DEF ReadBackTerminates, AbortCpuOnly
<1>9. ASSUME ~spoilt', NEW p \in Procs, Crash(p) PROVE Once!Reset(Threads)
  BY <1>7, <1>9 DEF Crash
<1>10. ASSUME ~spoilt', UNCHANGED vars PROVE UNCHANGED <<CachedDefs, eps>>
  BY <1>10, SameRegister DEF vars
<1>11. ASSUME ~spoilt', NEW t \in Threads, Step(t)
       PROVE  \/ Once!Decide \/ Once!Answer(t) \/ Once!Reset(Threads)
              \/ UNCHANGED <<CachedDefs, eps>>
  BY <1>4, <1>5, <1>6, <1>8, <1>11 DEF Step
<1>12. \A t \in Threads : {t} \in SUBSET Threads /\ Threads \in SUBSET Threads
  OBVIOUS
<1> QED
  BY <1>1, <1>3, <1>6, <1>9, <1>10, <1>11, <1>12 DEF Next, Once!Next

\* The disk sessions of one process implement the write-once register, for any
\* number of threads, meta_defs, sessions and faults: the first session to open
\* context.json decides how many meta_defs the model has, and every session
\* that is answered is answered with those, until a third save meets another
\* session or the process is killed in a save.
THEOREM ImplementsOnceCache ==
  ASSUME OneDiskProcess
  PROVE  Spec => FirstCompilationDecides
<1>1. Init => Once!Init
  BY DEF Init, Once!Init, CachedDefs, Parses, Absent
<1>2. Inv /\ Inv' /\ RegInv /\ RegisterIs /\ RegisterIs' /\ [Next]_vars
        => [Once!Next]_<<CachedDefs, eps>>
  BY NextRefines
<1> QED
  BY <1>1, <1>2, OnceHolds, PTL
     DEF Spec, Once!Spec, FirstCompilationDecides

-----------------------------------------------------------------------------
(* What a session reads back, on disk or in memory *)

\* Before its read-back a session has no meta_defs unless it ran the passes,
\* and then the document it will read, if there is one, is its own.
HitInv ==
  ~spoilt =>
    \A t \in Threads :
      /\ pc[t] \in {"flock", "exist", "valid"} => ctx[t].defs = 0
      /\ pc[t] = "read" /\ ctx[t].defs > 0 /\ Parses(Visible(t))
           => Visible(t).doc.defs = ctx[t].defs

\* What a step of t has to show: that it leaves the document of a session
\* about to read back alone, and what it has itself.
LEMMA StepKeepsHit ==
  ASSUME HitInv, ~spoilt, NEW t \in Threads,
         \A u \in Threads \ {t} :
           /\ pc'[u] = pc[u] /\ ctx'[u] = ctx[u] /\ asked'[u] = asked[u]
           /\ memFile'[u] = memFile[u]
           /\ pc[u] = "read" => file' = file,
         pc'[t] \in {"flock", "exist", "valid"} => ctx'[t].defs = 0,
         pc'[t] = "read" /\ ctx'[t].defs > 0 /\ Parses(Visible(t))'
           => Visible(t)'.doc.defs = ctx'[t].defs
  PROVE  HitInv'
<1>1. ASSUME NEW u \in Threads \ {t}, pc[u] = "read"
      PROVE  Visible(u)' = Visible(u)
  BY <1>1 DEF Visible, InMem
<1> QED
  BY <1>1 DEF HitInv, Parses

\* Nobody touches context.json beside a session that holds the mutex, or it is
\* spoilt.
LEMMA ReaderUndisturbed ==
  ASSUME OneProcess, Inv, ~spoilt, ~spoilt', NEW t \in Threads, Save(t),
         NEW u \in Threads \ {t}, pc[u] = "read"
  PROVE  file' = file
<1>1. PICK k \in {1, 2, 3} :
        \/ SaveInMem(t, k) \/ SaveOpen(t, k) \/ SaveOpenFails(t, k)
        \/ SaveWrite(t, k) \/ SaveFlush(t, k)
  BY SaveSteps
<1>2. pc[t] \notin MutexHeld /\ pc[t] \notin Writing
  BY OneAtATime, HolderSeesWhole, LabelFacts DEF Inv
<1>3. ~SaveWrite(t, k) /\ ~SaveFlush(t, k)
  BY <1>2, SaveLabels DEF SaveWrite, SaveFlush, Goto, Writing
<1>4. ~SaveOpen(t, k)
  <2>1. ASSUME SaveOpen(t, k) PROVE k = 3
    BY <1>2, <2>1, SaveLabels, LabelFacts DEF SaveOpen, Goto, MutexHeld,
       FileLocked, Saving1, Saving2
  <2>2. ASSUME SaveOpen(t, k), k = 3 PROVE FALSE
    BY <2>2, LabelFacts DEF SaveOpen, Meets
  <2> QED
    BY <2>1, <2>2
<1> QED
  BY <1>1, <1>3, <1>4 DEF SaveInMem, SaveOpenFails

LEMMA SaveKeepsHit ==
  ASSUME OneProcess, Inv, HitInv, ~spoilt, ~spoilt', NEW t \in Threads, Save(t)
  PROVE  HitInv'
<1>1. PICK k \in {1, 2, 3} :
        \/ SaveInMem(t, k) \/ SaveOpen(t, k) \/ SaveOpenFails(t, k)
        \/ SaveWrite(t, k) \/ SaveFlush(t, k)
  BY SaveSteps
<1>2. /\ UNCHANGED <<ctx, asked>>
      /\ \A u \in Threads \ {t} : pc'[u] = pc[u] /\ memFile'[u] = memFile[u]
  BY <1>1 DEF SaveInMem, SaveOpen, SaveOpenFails, SaveWrite, SaveFlush, Goto,
              Inv, TypeOK, session
<1>3. pc'[t] \notin {"flock", "exist", "valid"}
  BY <1>1, SaveLabels DEF SaveInMem, SaveOpen, SaveOpenFails, SaveWrite,
                          SaveFlush, Goto, Inv, TypeOK
<1>4. InMem(t)' <=> InMem(t)
  BY <1>2 DEF InMem
<1>5. ASSUME pc'[t] = "read", ctx'[t].defs > 0, Parses(Visible(t))'
      PROVE  Visible(t)'.doc.defs = ctx'[t].defs
  <2>1. Saved(ctx[t]).doc.defs = ctx[t].defs
    BY FileFacts DEF Inv, TypeOK
  <2>2. CASE SaveInMem(t, k)
    <3>1. Visible(t)' = Saved(ctx[t])
      BY <1>4, <2>2 DEF SaveInMem, Visible, Inv, TypeOK
    <3> QED
      BY <1>2, <2>1, <3>1
  <2>3. CASE SaveFlush(t, k)
    <3>1. file' = Saved(ctx[t])
      BY <2>3 DEF SaveFlush, Inv, FileInv
    <3>2. k = 1 /\ pc[t] = "flush1"
      BY <1>5, <2>3, SaveLabels DEF SaveFlush, Goto, Inv, TypeOK
    <3>3. ~InMem(t)
      BY <3>2 DEF Inv, LockInv, Writing1, BeforeReadBack, Saving1, OnDisk, InMem
    <3>4. Visible(t)' = Saved(ctx[t])
      BY <1>4, <3>1, <3>3 DEF Visible
    <3> QED
      BY <1>2, <2>1, <3>4
  <2>4. CASE SaveOpenFails(t, k)
    <3>1. k = 1 /\ pc[t] = "open1" /\ file' = file /\ ~InMem(t)
      BY <1>5, <2>4, SaveLabels DEF SaveOpenFails, Goto, Inv, TypeOK
    <3>2. file = Absent
      BY <3>1 DEF Inv, FileInv
    <3>3. Visible(t)' = Absent
      BY <1>4, <3>1, <3>2 DEF Visible
    <3> QED
      BY <1>5, <3>3, FileFacts DEF Parses
  <2>5. CASE SaveOpen(t, k) \/ SaveWrite(t, k)
    BY <1>5, <2>5, SaveLabels DEF SaveOpen, SaveWrite, Goto, Inv, TypeOK
  <2> QED
    BY <1>1, <2>2, <2>3, <2>4, <2>5
<1> QED
  BY <1>2, <1>3, <1>5, ReaderUndisturbed, StepKeepsHit

LEMMA NextKeepsHit ==
  ASSUME OneProcess, Inv, HitInv, [Next]_vars
  PROVE  HitInv'
<1> SUFFICES ASSUME ~spoilt' PROVE HitInv'
  BY DEF HitInv
<1>1. ASSUME NEW t \in Threads,
             \/ Start(t) \/ Enter(t) \/ EnterThrows(t) \/ LockFile(t)
             \/ LockFileFails(t) \/ CheckExist(t) \/ CacheValid(t)
      PROVE  HitInv'
  <2>1. Fresh(t, asked[t]).defs = 0
    BY DEF Fresh
  <2>2. /\ file' = file /\ ~spoilt
        /\ \A u \in Threads \ {t} :
             /\ pc'[u] = pc[u] /\ ctx'[u] = ctx[u] /\ asked'[u] = asked[u]
             /\ memFile'[u] = memFile[u]
        /\ pc'[t] \in {"flock", "exist", "valid", "read"} =>
             ctx'[t] = Fresh(t, asked[t])
             \/ (ctx'[t] = ctx[t] /\ pc[t] \in {"flock", "exist", "valid"})
    BY <1>1 DEF Start, Enter, EnterThrows, LockFile, LockFileFails, CheckExist,
                CacheValid, Goto, Inv, TypeOK, session, locks, ghosts
  <2>3. pc'[t] \in {"flock", "exist", "valid", "read"} => ctx'[t].defs = 0
    BY <2>1, <2>2 DEF HitInv
  <2> QED
    BY <2>2, <2>3, StepKeepsHit
<1>2. ASSUME NEW t \in Threads,
             \/ RunPass(t) \/ PassesDone(t) \/ PassThrows(t) \/ ReadBack(t)
             \/ ReadBackThrows(t) \/ CreateEps(t) \/ CreateEpsThrows(t)
             \/ Finish(t) \/ UnlockFile(t) \/ Leave(t)
             \/ CreateEpContextNodes(t) \/ Close(t)
      PROVE  HitInv'
  <2>1. /\ file' = file /\ ~spoilt
        /\ \A u \in Threads \ {t} :
             /\ pc'[u] = pc[u] /\ ctx'[u] = ctx[u] /\ asked'[u] = asked[u]
             /\ memFile'[u] = memFile[u]
        /\ pc'[t] \notin {"flock", "exist", "valid", "read"}
    <3> USE DEF Goto, Inv, TypeOK, session, locks, ghosts
    <3>1. CASE \/ RunPass(t) \/ PassesDone(t) \/ PassThrows(t) \/ ReadBack(t)
               \/ ReadBackThrows(t)
      BY <3>1 DEF RunPass, PassesDone, PassThrows, ReadBack, ReadBackThrows
    <3>2. CASE \/ CreateEps(t) \/ CreateEpsThrows(t) \/ Finish(t)
               \/ UnlockFile(t) \/ CreateEpContextNodes(t)
      BY <3>2 DEF CreateEps, CreateEpsThrows, Finish, UnlockFile,
                  CreateEpContextNodes
    <3>3. CASE Leave(t) \/ Close(t)
      BY <3>3 DEF Leave, Close, Forget
    <3> QED
      BY <1>2, <3>1, <3>2, <3>3
  <2> QED
    BY <2>1, StepKeepsHit
<1>3. ASSUME NEW t \in Threads, Save(t) PROVE HitInv'
  <2>1. ~spoilt
    BY <1>3, SaveSteps
       DEF SaveInMem, SaveOpen, SaveOpenFails, SaveWrite, SaveFlush, ghosts
  <2> QED
    BY <1>3, <2>1, SaveKeepsHit
<1>4. ASSUME NEW p \in Procs, NEW t \in Threads, ProcOf[t] = p, Die(p)
      PROVE  HitInv'
  BY <1>4 DEF Die, OneProcess, HitInv
<1>5. ASSUME NEW t \in Threads, ReadBackTerminates(t) \/ AbortCpuOnly(t)
      PROVE  HitInv'
  BY <1>4, <1>5, CompileCacheAssumption DEF ReadBackTerminates, AbortCpuOnly
<1>6. ASSUME NEW p \in Procs, Crash(p) PROVE HitInv'
  BY <1>4, <1>6 DEF Crash
<1>7. CASE UNCHANGED vars
  BY <1>7 DEF vars, HitInv, Parses, Visible, InMem
<1> QED
  BY <1>1, <1>2, <1>3, <1>5, <1>6, <1>7 DEF Next, Step

\* A session of such a process that has compiled has as many meta_defs after
\* read_cache as before it, whether the document is on disk or in memory and
\* whatever other sessions saved meanwhile, until a third save meets another
\* session or the process is killed in a save.
THEOREM OwnSaveReadBack ==
  ASSUME OneProcess
  PROVE  Spec => ReadsBackOwnSave
<1>1. Init => HitInv
  BY DEF Init, HitInv
<1>2. Inv /\ HitInv /\ [Next]_vars => HitInv'
  BY NextKeepsHit
<1>3. Inv /\ HitInv /\ [Next]_vars =>
        [~spoilt => \A t \in Threads :
           pc[t] = "read" /\ ctx[t].defs > 0 /\ pc'[t] = "eps"
             => ctx'[t].defs = ctx[t].defs]_vars
  <2> SUFFICES ASSUME Inv, HitInv, Next, ~spoilt, NEW t \in Threads,
                      pc[t] = "read", ctx[t].defs > 0, pc'[t] = "eps"
               PROVE  ctx'[t].defs = ctx[t].defs
    OBVIOUS
  <2>1. ReadBack(t)
    <3>1. ASSUME NEW u \in Threads,
                 \/ Start(u) \/ Enter(u) \/ EnterThrows(u) \/ LockFile(u)
                 \/ LockFileFails(u) \/ CheckExist(u) \/ CacheValid(u)
          PROVE  pc'[t] # "eps"
      BY <3>1 DEF Start, Enter, EnterThrows, LockFile, LockFileFails,
                  CheckExist, CacheValid, Goto, Inv, TypeOK
    <3>2. ASSUME NEW u \in Threads, Save(u) PROVE pc'[t] # "eps"
      <4>1. PICK k \in {1, 2, 3} :
              \/ SaveInMem(u, k) \/ SaveOpen(u, k) \/ SaveOpenFails(u, k)
              \/ SaveWrite(u, k) \/ SaveFlush(u, k)
        BY <3>2, SaveSteps
      <4>2. pc'[t] \in {pc[t], Write(k), Flush(k), AfterSave(u, k)}
        BY <4>1 DEF SaveInMem, SaveOpen, SaveOpenFails, SaveWrite, SaveFlush,
                    Goto, Inv, TypeOK
      <4> QED
        BY <4>2, SaveLabels
    <3>3. ASSUME NEW u \in Threads,
                 \/ RunPass(u) \/ PassesDone(u) \/ PassThrows(u)
                 \/ ReadBackThrows(u) \/ CreateEps(u) \/ CreateEpsThrows(u)
                 \/ Finish(u) \/ UnlockFile(u) \/ Leave(u)
                 \/ CreateEpContextNodes(u) \/ Close(u)
          PROVE  pc'[t] # "eps"
      BY <3>3 DEF RunPass, PassesDone, PassThrows, ReadBackThrows, CreateEps,
                  CreateEpsThrows, Finish, UnlockFile, Leave,
                  CreateEpContextNodes, Close, Goto, Inv, TypeOK
    <3>4. ASSUME NEW u \in Threads, ReadBack(u) PROVE u = t
      BY <3>4 DEF ReadBack, Goto, Inv, TypeOK
    <3>5. ASSUME NEW p \in Procs, Die(p) PROVE pc'[t] # "eps"
      BY <3>5 DEF Die, Inv, TypeOK
    <3> QED
      BY <3>1, <3>2, <3>3, <3>4, <3>5, CompileCacheAssumption
         DEF Next, Step, Crash, ReadBackTerminates, AbortCpuOnly
  <2>2. Parses(Visible(t)) /\ ctx'[t] = Restored(t, Visible(t).doc)
    BY <2>1 DEF ReadBack, Inv, TypeOK
  <2>3. Visible(t).doc \in Proto
    BY DEF Visible, File, Inv, TypeOK
  <2>4. ctx'[t].defs = Visible(t).doc.defs
    BY <2>2, <2>3 DEF Restored, Proto
  <2> QED
    BY <2>2, <2>4 DEF HitInv
<1> QED
  BY <1>1, <1>2, <1>3, FileHolds, PTL DEF Spec, ReadsBackOwnSave
=============================================================================
