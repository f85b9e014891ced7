---------------------------- MODULE CompileCache ----------------------------
(***************************************************************************)
(* The compile session of the Vitis AI execution provider: what            *)
(* compile_onnx_model_3 does from taking its mutex to returning the list   *)
(* of execution providers, for several threads of several OS processes     *)
(* that load the same ONNX model (the same cache key, hence the same       *)
(* log_dir, .lock file and context.json).                                  *)
(*                                                                         *)
(* A session takes the process-wide mutex, then (disk mode) the lock file, *)
(* decides hit or miss from log_dir/context.json, on a miss runs the       *)
(* passes and saves context.json, ALWAYS reads context.json back, creates  *)
(* one execution provider per meta_def, releases the lock file, and only   *)
(* then (deferred_write is declared before the lock) saves context.json a  *)
(* second time, still under the mutex.  A session that embeds its cache in *)
(* the model (ep.context_enable) is called once more by onnxruntime, for   *)
(* its EPContext nodes, and saves context.json a third time, under no lock.*)
(***************************************************************************)
EXTENDS Integers, FiniteSets

CONSTANTS
  Threads,          \* threads that open inference sessions
  Procs,            \* OS processes
  ProcOf,           \* the process of each thread
  Versions,         \* commits a build of vaip / xcompiler can have
  VersionOf,        \* the commit each process was built from
  Nobody,           \* no thread, no value
  MaxDefs,          \* bound: meta_defs the passes of a compilation add
  OptionChoices,    \* the options callers give, a subset of Options
  CacheUses,        \* may a session use the cache (XLNX_ENABLE_CACHE, analyzer off)
  CrossProcessLock, \* WithFileLock is boost::interprocess::file_lock
  Win24Build,       \* built with WIN24_BUILD, the default
  MaxSessions,      \* bound: sessions started in all
  MaxFaults         \* bound: crashes and failing opens of .lock and
                    \* context.json in all

\* What the caller of a session chooses: ep.context_enable (a session config),
\* whether it names a cache_dir, enable_cache_file_io_in_mem and
\* vaip_disable_cpu_only_inference.
Options == [enable : BOOLEAN, dir : BOOLEAN, mem : BOOLEAN, strict : BOOLEAN]
NoOptions == [enable |-> FALSE, dir |-> FALSE, mem |-> FALSE, strict |-> FALSE]

ASSUME CompileCacheAssumption ==
  /\ ProcOf \in [Threads -> Procs]
  /\ VersionOf \in [Procs -> Versions]
  /\ Nobody \notin Threads \cup Procs
  /\ Nobody \notin Versions \cup (-1)..MaxDefs
  /\ MaxDefs \in Nat \ {0}
  /\ OptionChoices \subseteq Options
  /\ CacheUses \subseteq BOOLEAN
  /\ {CrossProcessLock, Win24Build} \subseteq BOOLEAN
  /\ MaxSessions \in Nat
  /\ MaxFaults \in Nat

VARIABLES
  pc,        \* where each thread is in compile_onnx_model_3
  asked,     \* the options the caller of this session gave
  lock,      \* its WithFileLock: none, held, or failed to open .lock
  ctx,       \* context->context_proto
  memFile,   \* context.json in this context's own in-memory store
  failed,    \* update_cache is leaving by an exception
  mixed,     \* another FILE* wrote context.json while this one was open
  eps,       \* execution providers the last session of the thread returned
  mtx,       \* owner of the static std::mutex, per process
  flock,     \* process that holds the lock on log_dir/.lock
  file,      \* log_dir/context.json
  sessions,  \* sessions started
  faults,    \* faults injected
  spoilt     \* history, for the properties: a third save has met a session
             \* under the mutex, or a process died with context.json open

vars == <<pc, asked, lock, ctx, memFile, failed, mixed, eps, mtx,
          flock, file, sessions, faults, spoilt>>
session == <<asked, failed, eps>>
locks == <<lock, mtx, flock>>
ghosts == <<sessions, faults, spoilt>>

-----------------------------------------------------------------------------
(* Data *)

\* A ContextProto: how many meta_defs, two of the options, the versions in
\* config, and whose encryption_key and session_configs it has.
Proto == [defs : 0..MaxDefs, strict : BOOLEAN, mem : BOOLEAN,
          ver : Versions \cup {Nobody}, key : Threads \cup {Nobody}, sess : Threads \cup {Nobody}]

\* What initialize_context puts in context_proto.
Fresh(t, o) ==
  [defs |-> 0, strict |-> o.strict, mem |-> o.mem,
   ver |-> VersionOf[ProcOf[t]], key |-> t, sess |-> t]

\* ContextProto::Clear().
Cleared == [defs |-> 0, strict |-> FALSE, mem |-> FALSE, ver |-> Nobody,
            key |-> Nobody, sess |-> Nobody]

\* The states of a context.json: no file, truncated by "wb+" and nothing
\* flushed yet, a prefix or a mixture of two writers, or one whole document.
File == [state : {"absent", "empty", "torn", "whole"}, doc : Proto]
Absent == [state |-> "absent", doc |-> Cleared]
Empty == [state |-> "empty", doc |-> Cleared]
Torn == [state |-> "torn", doc |-> Cleared]
Whole(d) == [state |-> "whole", doc |-> d]
Parses(f) == f.state = "whole"

\* save_context_json: the copy that is written has no encryption key.
SavedDropsMem(c) == Whole([c EXCEPT !.key = Nobody, !.mem = FALSE])
SavedDropsDefs(c) == Whole([c EXCEPT !.key = Nobody, !.defs = 0])
Saved(c) == Whole([c EXCEPT !.key = Nobody])

\* read_cache and what compile_onnx_model_2 puts back afterwards: everything
\* comes from the document but the key and the session_configs.
RestoredFromDocOnly(t, d) == d
Restored(t, d) == [d EXCEPT !.key = t, !.sess = t]

\* The parse failed: Clear() has run and session_configs were swapped back.
RestoredNothing(t) == [Cleared EXCEPT !.sess = t]

-----------------------------------------------------------------------------
(* Program counters *)

Saving1 == {"open1", "write1", "flush1"}
Saving2 == {"open2", "write2", "flush2"}
Saving3 == {"open3", "write3", "flush3"}
Writing == {"write1", "flush1", "write2", "flush2", "write3", "flush3"}
FileLocked == {"exist", "valid", "pass", "read", "eps", "finish", "funlock"}
              \cup Saving1
MutexHeld == {"flock", "unlock"} \cup FileLocked \cup Saving2
Returned == {"ctx", "close"} \cup Saving3
Labels == {"idle", "mtx"} \cup MutexHeld \cup Returned

Goto(t, from, to) == pc[t] = from /\ pc' = [pc EXCEPT ![t] = to]

\* context->cache_in_mem(), computed whenever it is called: session_configs and
\* cache_dir_set are the session's own, the rest of config may come from a
\* context.json.
MayBeInMem(o) == o.enable \/ (Win24Build /\ ~o.dir)
InMem(t) == MayBeInMem(asked[t]) /\ ctx[t].mem

\* Process p is gone: its threads, its mutex and its file lock with it.
\* What it had flushed to context.json stays.
Die(p) ==
  LET gone(t) == ProcOf[t] = p IN
  /\ pc' = [t \in Threads |-> IF gone(t) THEN "idle" ELSE pc[t]]
  /\ eps' = [t \in Threads |-> IF gone(t) THEN 0 ELSE eps[t]]
  /\ ctx' = [t \in Threads |-> IF gone(t) THEN Cleared ELSE ctx[t]]
  /\ memFile' = [t \in Threads |-> IF gone(t) THEN Absent ELSE memFile[t]]
  /\ failed' = [t \in Threads |-> IF gone(t) THEN FALSE ELSE failed[t]]
  /\ mixed' = [t \in Threads |-> IF gone(t) THEN FALSE ELSE mixed[t]]
  /\ asked' = [t \in Threads |-> IF gone(t) THEN NoOptions ELSE asked[t]]
  /\ lock' = [t \in Threads |-> IF gone(t) THEN "none" ELSE lock[t]]
  /\ mtx' = [mtx EXCEPT ![p] = Nobody]
  /\ flock' = IF flock = p THEN Nobody ELSE flock
  /\ spoilt' = (spoilt \/ \E t \in Threads : gone(t) /\ pc[t] \in Writing)

\* History: t opens context.json for the third save beside another session
\* that holds the mutex or also makes its third save.
Meets(t, k) ==
  /\ k = 3
  /\ \E u \in Threads \ {t} : pc[u] \in MutexHeld \cup {"write3", "flush3"}

\* History: a session takes the mutex during a third save.
MetByThirdSave == \E u \in Threads : pc[u] \in {"write3", "flush3"}

-----------------------------------------------------------------------------
(* Actions, in the order a session takes them *)

Init ==
  /\ pc = [t \in Threads |-> "idle"]
  /\ asked = [t \in Threads |-> NoOptions]
  /\ lock = [t \in Threads |-> "none"]
  /\ ctx = [t \in Threads |-> Cleared]
  /\ memFile = [t \in Threads |-> Absent]
  /\ failed = [t \in Threads |-> FALSE]
  /\ mixed = [t \in Threads |-> FALSE]
  /\ eps = [t \in Threads |-> 0]
  /\ mtx = [p \in Procs |-> Nobody]
  /\ flock = Nobody
  /\ file = Absent
  /\ sessions = 0
  /\ faults = 0
  /\ spoilt = FALSE

\* compile_onnx_model_3 is called.
Start(t) ==
  /\ sessions < MaxSessions
  /\ Goto(t, "idle", "mtx")
  /\ \E o \in OptionChoices : asked' = [asked EXCEPT ![t] = o]
  /\ eps' = [eps EXCEPT ![t] = 0]
  /\ sessions' = sessions + 1
  /\ UNCHANGED <<ctx, memFile, failed, mixed, locks, file, faults, spoilt>>

EnterWithoutGuard(t) ==
  /\ Goto(t, "mtx", "flock")
  /\ mtx' = [mtx EXCEPT ![ProcOf[t]] = t]
  /\ ctx' = [ctx EXCEPT ![t] = Fresh(t, asked[t])]
  /\ spoilt' = (spoilt \/ MetByThirdSave)
  /\ UNCHANGED <<session, memFile, mixed, lock, flock, file, sessions, faults>>

\* std::lock_guard on the static mutex, then initialize_context.
Enter(t) ==
  /\ Goto(t, "mtx", "flock")
  /\ mtx[ProcOf[t]] = Nobody
  /\ mtx' = [mtx EXCEPT ![ProcOf[t]] = t]
  /\ ctx' = [ctx EXCEPT ![t] = Fresh(t, asked[t])]
  /\ spoilt' = (spoilt \/ MetByThirdSave)
  /\ UNCHANGED <<session, memFile, mixed, lock, flock, file, sessions, faults>>

\* initialize_context throws before there is anything to save or to unlock:
\* the exception leaves compile_onnx_model_3.
EnterThrows(t) ==
  /\ Goto(t, "mtx", "idle")
  /\ mtx[ProcOf[t]] = Nobody
  /\ UNCHANGED <<session, ctx, memFile, mixed, locks, file, ghosts>>

LockFileWithoutGuard(t) ==
  /\ Goto(t, "flock", "exist")
  /\ lock' = [lock EXCEPT ![t] = IF InMem(t) THEN "none" ELSE "held"]
  /\ flock' = IF InMem(t) \/ ~CrossProcessLock THEN flock ELSE ProcOf[t]
  /\ UNCHANGED <<session, ctx, memFile, mixed, mtx, file, ghosts>>

\* WithFileLock, only if the cache is on disk. A file lock belongs to the
\* process and does not keep its own threads apart. Without boost it is a
\* mutex of the process, which the outer mutex already makes free.
LockFile(t) ==
  /\ Goto(t, "flock", "exist")
  /\ \/ /\ InMem(t)
        /\ UNCHANGED <<lock, flock>>
     \/ /\ ~InMem(t) /\ ~CrossProcessLock
        /\ lock' = [lock EXCEPT ![t] = "held"]
        /\ UNCHANGED flock
     \/ /\ ~InMem(t) /\ CrossProcessLock
        /\ flock \in {Nobody, ProcOf[t]}
        /\ lock' = [lock EXCEPT ![t] = "held"]
        /\ flock' = ProcOf[t]
  /\ UNCHANGED <<session, ctx, memFile, mixed, mtx, file, ghosts>>

\* .lock cannot be created or opened: the constructor prints the exception
\* and the session goes on without the lock.
LockFileFails(t) ==
  /\ ~InMem(t) /\ CrossProcessLock
  /\ faults < MaxFaults
  /\ faults' = faults + 1
  /\ Goto(t, "flock", "exist")
  /\ lock' = [lock EXCEPT ![t] = "failed"]
  /\ UNCHANGED <<session, ctx, memFile, mixed, mtx, flock, file, sessions,
                 spoilt>>

CheckExistNever(t) ==
  /\ Goto(t, "exist", "pass")
  /\ UNCHANGED <<session, ctx, memFile, mixed, locks, file, ghosts>>

\* check_cache_hit up to check_cache_exist, which looks on disk in both modes.
CheckExist(t) ==
  /\ \E use \in CacheUses :
       Goto(t, "exist", IF use /\ file # Absent THEN "valid" ELSE "pass")
  /\ UNCHANGED <<session, ctx, memFile, mixed, locks, file, ghosts>>

\* cache_valid: a context.json that does not parse fails a CHECK, and the
\* exception ends the compilation; one that parses is valid, whatever its
\* versions are.
CacheValid(t) ==
  /\ Goto(t, "valid", IF Parses(file) THEN "read" ELSE "finish")
  /\ UNCHANGED <<session, ctx, memFile, mixed, locks, file, ghosts>>

\* update_cache: a pass of run_passes adds a meta_def. It may add several, or
\* none.
RunPass(t) ==
  /\ pc[t] = "pass"
  /\ ctx[t].defs < MaxDefs
  /\ ctx' = [ctx EXCEPT ![t].defs = @ + 1]
  /\ UNCHANGED <<pc, session, memFile, mixed, locks, file, ghosts>>

\* The last pass and update_primary_context are done.
PassesDone(t) ==
  /\ Goto(t, "pass", "open1")
  /\ UNCHANGED <<session, ctx, memFile, mixed, locks, file, ghosts>>

\* A pass, create_passes or update_primary_context throws: the deferred
\* save_context_json of update_cache still runs, with the meta_defs so far.
PassThrows(t) ==
  /\ Goto(t, "pass", "open1")
  /\ failed' = [failed EXCEPT ![t] = TRUE]
  /\ UNCHANGED <<asked, eps, ctx, memFile, mixed, locks, file, ghosts>>

-----------------------------------------------------------------------------
(* save_context_json; k is 1 in update_cache, 2 at the end of the session, *)
(* 3 at the end of create_ep_context_nodes_c                               *)

Open(k) == <<"open1", "open2", "open3">>[k]
Write(k) == <<"write1", "write2", "write3">>[k]
Flush(k) == <<"flush1", "flush2", "flush3">>[k]
AfterSave(t, k) ==
  <<IF failed[t] THEN "finish" ELSE "read", "unlock", "close">>[k]

\* In memory the document goes to a temporary file only this context sees.
SaveInMem(t, k) ==
  /\ InMem(t)
  /\ Goto(t, Open(k), AfterSave(t, k))
  /\ memFile' = [memFile EXCEPT ![t] = Saved(ctx[t])]
  /\ UNCHANGED <<session, ctx, mixed, locks, file, ghosts>>

\* fopen or freopen with "wb+" truncates. Every FILE* open for writing now
\* shares the file with another one.
SaveOpen(t, k) ==
  LET others == {u \in Threads \ {t} : pc[u] \in Writing} IN
  /\ ~InMem(t)
  /\ Goto(t, Open(k), Write(k))
  /\ file' = Empty
  /\ mixed' = [u \in Threads |-> \/ mixed[u]
                                 \/ u \in others
                                 \/ u = t /\ others # {}]
  /\ spoilt' = (spoilt \/ Meets(t, k))
  /\ UNCHANGED <<session, ctx, memFile, locks, sessions, faults>>

\* The open fails: the CHECK's exception is swallowed by save_context_json.
SaveOpenFails(t, k) ==
  /\ ~InMem(t)
  /\ faults < MaxFaults
  /\ faults' = faults + 1
  /\ Goto(t, Open(k), AfterSave(t, k))
  /\ UNCHANGED <<session, ctx, memFile, mixed, locks, file, sessions, spoilt>>

\* fwrite hands whole blocks to the file and keeps the rest in its buffer.
SaveWrite(t, k) ==
  /\ Goto(t, Write(k), Flush(k))
  /\ file' = Torn
  /\ UNCHANGED <<session, ctx, memFile, mixed, locks, ghosts>>

\* ~CacheFileWriterImp flushes. Alone, the file holds the document; with
\* another FILE* on the same file, its bytes may lie before, under or after.
SaveFlush(t, k) ==
  /\ Goto(t, Flush(k), AfterSave(t, k))
  /\ file' \in {Saved(ctx[t])} \cup (IF mixed[t] THEN {Torn} ELSE {})
  /\ mixed' = [mixed EXCEPT ![t] = FALSE]
  /\ UNCHANGED <<session, ctx, memFile, locks, ghosts>>

-----------------------------------------------------------------------------
(* read_cache and the end of the session *)

\* The context.json this context's open_file_for_read finds.
Visible(t) == IF InMem(t) THEN memFile[t] ELSE file

\* A whole document.
ReadBack(t) ==
  /\ Parses(Visible(t))
  /\ Goto(t, "read", "eps")
  /\ ctx' = [ctx EXCEPT ![t] = Restored(t, Visible(t).doc)]
  /\ UNCHANGED <<session, memFile, mixed, locks, file, ghosts>>

\* A document that does not parse: CHECK(status.ok()) throws after Clear().
\* A missing one is read through an empty std::optional: undefined, and one
\* of its outcomes is a buffer that does not parse either.
ReadBackThrows(t) ==
  /\ Visible(t) \in {Torn, Absent}
  /\ Goto(t, "read", "finish")
  /\ ctx' = [ctx EXCEPT ![t] = RestoredNothing(t)]
  /\ UNCHANGED <<session, memFile, mixed, locks, file, ghosts>>

\* &json_str[0] of an empty gsl::span terminates the process, and so may the
\* use of the empty std::optional.
ReadBackTerminates(t) ==
  /\ pc[t] = "read"
  /\ Visible(t) \in {Empty, Absent}
  /\ Die(ProcOf[t])
  /\ UNCHANGED <<file, sessions, faults>>

CreateEpsOneMore(t) ==
  /\ Goto(t, "eps", "finish")
  /\ eps' = [eps EXCEPT ![t] = ctx[t].defs + 1]
  /\ UNCHANGED <<asked, failed, ctx, memFile, mixed, locks, file, ghosts>>

\* One ExecutionProviderConcrete per meta_def.
CreateEps(t) ==
  /\ Goto(t, "eps", "finish")
  /\ eps' = [eps EXCEPT ![t] = ctx[t].defs]
  /\ UNCHANGED <<asked, failed, ctx, memFile, mixed, locks, file, ghosts>>

\* A plugin cannot be loaded: the list being built is lost.
CreateEpsThrows(t) ==
  /\ ctx[t].defs > 0
  /\ Goto(t, "eps", "finish")
  /\ UNCHANGED <<session, ctx, memFile, mixed, locks, file, ghosts>>

\* The check of vaip_disable_cpu_only_inference, which reads the option from
\* the context_proto the session has by now.
Finish(t) ==
  /\ ~(ctx[t].strict /\ ctx[t].defs = 0)
  /\ Goto(t, "finish", "funlock")
  /\ UNCHANGED <<session, ctx, memFile, mixed, locks, file, ghosts>>

AbortCpuOnly(t) ==
  /\ pc[t] = "finish"
  /\ ctx[t].strict /\ ctx[t].defs = 0
  /\ Die(ProcOf[t])
  /\ UNCHANGED <<file, sessions, faults>>

\* ~WithFileLock runs before the deleter of deferred_write.
UnlockFile(t) ==
  /\ Goto(t, "funlock", "open2")
  /\ flock' = IF lock[t] = "held" THEN Nobody ELSE flock
  /\ lock' = [lock EXCEPT ![t] = "none"]
  /\ UNCHANGED <<session, ctx, memFile, mixed, mtx, file, ghosts>>

Forget(t) ==
  /\ ctx' = [ctx EXCEPT ![t] = Cleared]
  /\ memFile' = [memFile EXCEPT ![t] = Absent]
  /\ failed' = [failed EXCEPT ![t] = FALSE]

\* onnxruntime asks a session that embeds its cache for its EPContext nodes,
\* if it got any execution provider.
EmbedsCache(t) == asked[t].enable /\ eps[t] > 0

LeaveForgetsAfterThrow(t) ==
  /\ pc[t] = "unlock" /\ ~EmbedsCache(t)
  /\ pc' = [pc EXCEPT ![t] = "idle"]
  /\ mtx' = [mtx EXCEPT ![ProcOf[t]] = IF failed[t] THEN t ELSE Nobody]
  /\ Forget(t)
  /\ UNCHANGED <<asked, eps, mixed, lock, flock, file, ghosts>>

\* ~lock_guard. Only the execution providers keep the context alive, and
\* nothing below writes it again unless its cache is embedded in the model.
Leave(t) ==
  /\ mtx' = [mtx EXCEPT ![ProcOf[t]] = Nobody]
  /\ \/ ~EmbedsCache(t) /\ Goto(t, "unlock", "idle") /\ Forget(t)
     \/ EmbedsCache(t) /\ Goto(t, "unlock", "ctx")
        /\ UNCHANGED <<ctx, memFile, failed>>
  /\ UNCHANGED <<asked, eps, mixed, lock, flock, file, ghosts>>

\* create_ep_context_nodes_c up to its deferred save_context_json, whether it
\* returns or throws. Neither the mutex nor the lock file is taken again.
CreateEpContextNodes(t) ==
  /\ Goto(t, "ctx", "open3")
  /\ UNCHANGED <<session, ctx, memFile, mixed, locks, file, ghosts>>

\* The inference session is given up before or after that.
Close(t) ==
  /\ \E from \in {"ctx", "close"} : Goto(t, from, "idle")
  /\ Forget(t)
  /\ UNCHANGED <<asked, eps, mixed, locks, file, ghosts>>

\* A process is killed and started again.
Crash(p) ==
  /\ faults < MaxFaults
  /\ faults' = faults + 1
  /\ \E t \in Threads : ProcOf[t] = p /\ pc[t] # "idle"
  /\ Die(p)
  /\ UNCHANGED <<file, sessions>>

-----------------------------------------------------------------------------

Save(t) ==
  \E k \in 1..3 :
    \/ SaveInMem(t, k)
    \/ SaveOpen(t, k)
    \/ SaveOpenFails(t, k)
    \/ SaveWrite(t, k)
    \/ SaveFlush(t, k)

\* What a thread does by itself once it has been called.
Step(t) ==
  \/ CheckExist(t)
  \/ CacheValid(t)
  \/ RunPass(t)
  \/ PassesDone(t)
  \/ PassThrows(t)
  \/ Save(t)
  \/ ReadBack(t)
  \/ ReadBackThrows(t)
  \/ ReadBackTerminates(t)
  \/ CreateEps(t)
  \/ CreateEpsThrows(t)
  \/ Finish(t)
  \/ AbortCpuOnly(t)
  \/ UnlockFile(t)
  \/ Leave(t)
  \/ CreateEpContextNodes(t)
  \/ Close(t)

Next ==
  \/ \E t \in Threads :
       \/ Start(t) \/ Enter(t) \/ EnterThrows(t)
       \/ LockFile(t) \/ LockFileFails(t)
       \/ Step(t)
  \/ \E p \in Procs : Crash(p)

Spec == Init /\ [][Next]_vars

\* A called thread keeps running, and neither lock starves a waiter that
\* finds it free again and again. Nobody is obliged to open a session.
Fairness ==
  \A t \in Threads :
    WF_vars(Step(t)) /\ SF_vars(Enter(t)) /\ SF_vars(LockFile(t))

FairSpec == Spec /\ Fairness
-----------------------------------------------------------------------------
(* Properties *)

\* Type invariant: every variable has the values its declaration says.
TypeOK ==
  /\ pc \in [Threads -> Labels]
  /\ asked \in [Threads -> Options]
  /\ lock \in [Threads -> {"none", "held", "failed"}]
  /\ ctx \in [Threads -> Proto]
  /\ memFile \in [Threads -> File]
  /\ failed \in [Threads -> BOOLEAN]
  /\ mixed \in [Threads -> BOOLEAN]
  /\ eps \in [Threads -> 0..MaxDefs]
  /\ mtx \in [Procs -> Threads \cup {Nobody}]
  /\ flock \in Procs \cup {Nobody}
  /\ file \in File
  /\ sessions \in 0..MaxSessions
  /\ faults \in 0..MaxFaults
  /\ spoilt \in BOOLEAN

\* The mode a session starts in, by its own options.
OnDisk(t) == ~(MayBeInMem(asked[t]) /\ asked[t].mem)

\* No two sessions that started on disk are both between taking and releasing
\* the lock file, whatever thread or process they belong to, unless one of
\* them could not open it; and a lock file that is taken belongs to a session
\* that will release it (no orphan after a kill, a throw or a change of mode).
LockedSectionExclusive ==
  /\ \A t, u \in Threads :
       /\ t # u
       /\ {pc[t], pc[u]} \subseteq FileLocked
       /\ OnDisk(t) /\ OnDisk(u)
       => /\ ProcOf[t] # ProcOf[u]
          /\ CrossProcessLock => "failed" \in {lock[t], lock[u]}
  /\ flock # Nobody =>
       \E t \in Threads :
         ProcOf[t] = flock /\ pc[t] \in FileLocked /\ lock[t] = "held"

\* Two writers can have context.json open at once only if one of them is in
\* create_ep_context_nodes_c, or across processes when one of them is in its
\* second save, the one after ~WithFileLock, or never got the lock.
OverlapOnlyAfterUnlock ==
  CrossProcessLock =>
    \A t, u \in Threads :
      /\ t # u
      /\ {pc[t], pc[u]} \subseteq Writing
      => \/ {pc[t], pc[u]} \cap Saving3 # {}
         \/ /\ ProcOf[t] # ProcOf[u]
            /\ \/ {pc[t], pc[u]} \cap Saving2 # {}
               \/ "failed" \in {lock[t], lock[u]}

\* A session that starts in memory leaves log_dir/context.json alone, unless
\* its read-back failed; then it has lost its mode with the rest of its
\* configuration, and writes an empty document to the disk.
InMemoryStaysOffDisk ==
  \A t \in Threads :
    ~OnDisk(t) /\ pc[t] \in Writing => ctx[t] = RestoredNothing(t)

\* A session that returns execution providers has its own encryption key and
\* session_configs in its context, although every other field was read back
\* from a context.json that another session may have written.
OwnSettingsRestored ==
  \A t \in Threads :
    pc[t] # "idle" /\ eps[t] > 0 => ctx[t].key = t /\ ctx[t].sess = t

\* What the CHECKs on the JSON parser's status in cache_valid and read_cache
\* assert: a session that looks at context.json, the first time or again for
\* its read-back, finds a whole document.
NoTornRead ==
  \A t \in Threads : pc[t] \in {"valid", "read"} => Parses(Visible(t))

\* How far they are right within one process: until a third save, which takes
\* no lock, meets another session, or the process is killed with context.json
\* open, a session that takes context.json for a hit finds it whole, and one
\* that reads back finds it whole, or no file because its own save could not
\* open it.
TornOnlyOnceSpoilt ==
  ~spoilt =>
    \A t \in Threads :
      /\ pc[t] = "valid" => Parses(file)
      /\ pc[t] = "read" => Visible(t).state \notin {"empty", "torn"}

\* A session that has compiled gets back from read_cache exactly the meta_defs
\* it has just saved, unless a third save came between.
ReadsBackOwnSave ==
  [][~spoilt => \A t \in Threads :
       pc[t] = "read" /\ ctx[t].defs > 0 /\ pc'[t] = "eps"
         => ctx'[t].defs = ctx[t].defs]_vars

\* Every session that was opened returns, unless its process dies.
SessionEnds == \A t \in Threads : pc[t] = "mtx" ~> pc[t] = "idle"

\* What the comment on get_commit and the name cache_valid say: a cache made
\* by another commit of xcompiler or vaip is not used.
StaleVersionNotUsed ==
  \A t \in Threads : pc[t] = "eps" => ctx[t].ver = VersionOf[ProcOf[t]]

\* What the abort message of vaip_disable_cpu_only_inference says: a session
\* that asked for it never goes on with no NPU offload.
DisableCpuOnlyHonoured ==
  \A t \in Threads : asked[t].strict /\ pc[t] \in {"funlock", "unlock"} => eps[t] > 0

\* The abstract cache: the register holds what context.json holds, or will
\* hold once the save in progress is over, until that is spoilt.
Spoilt == -1
Saver == CHOOSE t \in Threads : pc[t] \in Writing
CachedDefs ==
  IF spoilt THEN Spoilt
  ELSE IF Parses(file) THEN file.doc.defs
  ELSE IF file = Absent THEN Nobody ELSE ctx[Saver].defs
Once == INSTANCE OnceCache
          WITH val <- CachedDefs, res <- eps, None <- Nobody, Lost <- Spoilt

\* The disk sessions of one process implement the write-once register.
FirstCompilationDecides == Once!Spec
=============================================================================
