------------------------------- MODULE DpuOp -------------------------------
(***************************************************************************)
(* The DPU custom op while a session runs: the threads of onnxruntime that *)
(* call Compute, the queue of idle runners they share, the creation of the *)
(* runners (in the constructor, or for the categories PSS and PST by the   *)
(* first Compute), and the thread that sets the workload type for the      *)
(* session, which goes through the QoS updaters of its context.  A CHECK   *)
(* that fails throws: compile_onnx_model_3 installs a failure function.    *)
(***************************************************************************)
EXTENDS Naturals, FiniteSets, SequencesExt

CONSTANTS
  Threads,      \* threads of onnxruntime that call Compute
  Size,         \* num_of_dpu_runners
  Options,      \* provider options: lazy, model_category is PSS or PST, and
                \* shared, share_context: updaters hold the hw_context
  Nobody,       \* no thread
  MaxComputes,  \* bound: calls of Compute
  MaxSets       \* bound: calls of vitisai_ep_set_ep_dynamic_options

ASSUME DpuOpAssumption ==
  /\ IsFiniteSet(Threads) /\ Nobody \notin Threads
  /\ Size \in 1..8
  /\ Options \subseteq [lazy : BOOLEAN, shared : BOOLEAN]
  /\ MaxComputes \in Nat /\ MaxSets \in Nat

Holders == 1..Size
Modes == {"Default", "Efficient"}
Null == 0       \* no runner_, no holder

VARIABLES
  option,     \* the provider options of the session
  idle,       \* runner_requests_, the holders nobody uses
  runner,     \* runner_ of each holder: which vart runner, counted as made
  made,       \* vart runners made so far
  inited,     \* initialized_
  initer,     \* owner of init_mutex_
  todo,       \* holders it still has to make a runner for
  broken,     \* an exception left Compute with runners made or taken
  pc,         \* where each thread is in Compute
  held,       \* the holder it took
  ptr,        \* and the vart runner that had then
  computes,   \* calls of Compute so far
  updaters,   \* qos_updaters_: the runner or hw_context each one points to
  deaf,       \* those that found the device without perf_pref
  mode,       \* mode of each runner or hw_context, the first one from Default
  set,        \* the call that sets the workload type, or the last one
  sets,       \* such calls so far
  undefined   \* undefined behaviour the process ran into, and ended

poolVars == <<idle, held, ptr>>
initVars == <<option, runner, made, inited, initer, todo, broken>>
qosVars == <<updaters, deaf, mode, set, sets>>
vars == <<poolVars, initVars, qosVars, pc, computes, undefined>>

Lazy == option.lazy
Shared == option.shared

Sleeping == {t \in Threads : pc[t] = "sleep"}
Woken == {t \in Threads : pc[t] = "woken"}
Lost == {h \in Holders : h \notin ToSet(idle) /\ \A t \in Threads : held[t] # h}

\* Runners are counted from 1 as they are made.  A hw_context, named after its
\* holder, dies with it: WeakStore keeps it only for those who use it.
Alive(x) == IF Shared THEN x \notin Lost ELSE \E h \in Holders : runner[h] = x

\* The constructor has run.  It makes the runners and their updaters, but for
\* PSS and PST only the updaters of shared contexts; initialized_ it leaves
\* as the memory was.
Init ==
  /\ option \in Options /\ broken = FALSE
  /\ idle = [h \in Holders |-> h]
  /\ runner = [h \in Holders |-> IF Lazy THEN Null ELSE h]
  /\ made = IF Lazy THEN 0 ELSE Size
  /\ inited \in BOOLEAN
  /\ initer = Nobody /\ todo = <<>>
  /\ pc = [t \in Threads |-> "out"]
  /\ held = [t \in Threads |-> Null] /\ ptr = [t \in Threads |-> Null]
  /\ updaters = IF Lazy /\ ~Shared THEN <<>> ELSE [h \in Holders |-> h]
  /\ deaf = {} /\ mode = <<>>
  /\ set = [at |-> 0, end |-> 0, moved |-> FALSE, to |-> "Default", had |-> {}, ok |-> FALSE]
  /\ computes = 0 /\ sets = 0 /\ undefined = {}

Running == undefined = {}
Goto(t, from, to) == Running /\ pc[t] = from /\ pc' = [pc EXCEPT ![t] = to]

-----------------------------------------------------------------------------
(* Compute: the runners of PSS and PST *)

Compute(t) ==
  /\ computes < MaxComputes /\ computes' = computes + 1
  /\ Goto(t, "out", IF ~inited /\ Lazy THEN "lock" ELSE "get")
  /\ UNCHANGED <<poolVars, initVars, qosVars, undefined>>

LockInitTrustsFirstLook(t) ==
  /\ initer = Nobody
  /\ Goto(t, "lock", IF idle = <<>> THEN "done" ELSE "make")
  /\ initer' = t /\ todo' = idle
  /\ UNCHANGED <<poolVars, option, runner, made, inited, broken, qosVars, computes, undefined>>

\* Once more under the mutex; getRunnerRequst's vector is copied.
LockInit(t) ==
  /\ initer = Nobody
  /\ IF inited
     THEN Goto(t, "lock", "get") /\ UNCHANGED <<initer, todo>>
     ELSE /\ Goto(t, "lock", IF idle = <<>> THEN "done" ELSE "make")
          /\ initer' = t /\ todo' = idle
  /\ UNCHANGED <<poolVars, option, runner, made, inited, broken, qosVars, computes, undefined>>

MakeRunner(t) ==
  /\ Goto(t, "make", "keep")
  /\ made' = made + 1
  /\ UNCHANGED <<poolVars, option, runner, inited, initer, todo, broken, qosVars, computes,
                 undefined>>

\* create_runner throws; what was made before stays.
MakeRunnerThrows(t) ==
  /\ Goto(t, "make", "out")
  /\ initer' = Nobody /\ todo' = <<>>
  /\ broken' = (broken \/ Len(todo) < Len(idle))
  /\ UNCHANGED <<poolVars, option, runner, made, inited, qosVars, computes, undefined>>

\* Mutant: the last holder of the vector is forgotten.
KeepRunnerOffByOne(t) ==
  /\ Goto(t, "keep", IF Len(todo) <= 2 THEN "done" ELSE "make")
  /\ runner' = [runner EXCEPT ![Head(todo)] = made]
  /\ todo' = Tail(todo)
  /\ IF Shared
     THEN UNCHANGED <<updaters, set>>
     ELSE /\ updaters' = Append(updaters, made)
          /\ \E moved \in {set.moved, set.at # 0} : set' = [set EXCEPT !.moved = moved]
  /\ UNCHANGED <<poolVars, option, made, inited, initer, broken, deaf, mode, sets, computes,
                 undefined>>

\* add_QosUpdater may move the vector under a loop over it; runner_ = std::move
\* destroys the runner that was there.
KeepRunner(t) ==
  /\ Goto(t, "keep", IF Len(todo) = 1 THEN "done" ELSE "make")
  /\ runner' = [runner EXCEPT ![Head(todo)] = made]
  /\ todo' = Tail(todo)
  /\ IF Shared
     THEN UNCHANGED <<updaters, set>>
     ELSE /\ updaters' = Append(updaters, made)
          /\ \E moved \in {set.moved, set.at # 0} : set' = [set EXCEPT !.moved = moved]
  /\ UNCHANGED <<poolVars, option, made, inited, initer, broken, deaf, mode, sets, computes,
                 undefined>>

InitDone(t) ==
  /\ Goto(t, "done", "get")
  /\ inited' = TRUE /\ initer' = Nobody
  /\ UNCHANGED <<poolVars, option, runner, made, todo, broken, qosVars, computes, undefined>>

-----------------------------------------------------------------------------
(* Compute: the queue of idle runners *)

TakeKeepsFirst(t, from) ==
  /\ idle # <<>>
  /\ Goto(t, from, "run")
  /\ held' = [held EXCEPT ![t] = Head(idle)]
  /\ ptr' = [ptr EXCEPT ![t] = runner[Head(idle)]]
  /\ UNCHANGED <<idle, initVars, qosVars, computes, undefined>>

\* getIdleRequest: cv.wait looks before it sleeps and after each wake up.
Take(t, from) ==
  /\ idle # <<>>
  /\ Goto(t, from, "run")
  /\ held' = [held EXCEPT ![t] = Head(idle)]
  /\ ptr' = [ptr EXCEPT ![t] = runner[Head(idle)]]
  /\ idle' = Tail(idle)
  /\ UNCHANGED <<initVars, qosVars, computes, undefined>>

Sleep(t, from) ==
  /\ idle = <<>>
  /\ Goto(t, from, "sleep")
  /\ UNCHANGED <<poolVars, initVars, qosVars, computes, undefined>>

GetIdleRequest(t) == \E from \in {"get", "woken"} : Take(t, from) \/ Sleep(t, from)

SpuriousWakeup(t) ==
  /\ Goto(t, "sleep", "woken")
  /\ UNCHANGED <<poolVars, initVars, qosVars, computes, undefined>>

\* real_compute.  A runner_ that is null or was destroyed is no object.
Run(t) ==
  /\ Goto(t, "run", "put")
  /\ \E h \in Holders : runner[h] = ptr[t] /\ ptr[t] # Null
  /\ UNCHANGED <<poolVars, initVars, qosVars, computes, undefined>>

RunUndefined(t) ==
  /\ Goto(t, "run", "run")
  /\ ptr[t] = Null \/ \A h \in Holders : runner[h] # ptr[t]
  /\ undefined' = {IF ptr[t] = Null THEN "null runner" ELSE "freed runner"}
  /\ UNCHANGED <<poolVars, initVars, qosVars, computes>>

\* A failed CHECK or an exception of the runner: nobody puts the holder back,
\* and it is destroyed with what it holds.
RunThrows(t) ==
  /\ Goto(t, "run", "out")
  /\ \E h \in Holders : runner[h] = ptr[t] /\ ptr[t] # Null
  /\ runner' = [runner EXCEPT ![held[t]] = Null]
  /\ broken' = TRUE
  /\ held' = [held EXCEPT ![t] = Null] /\ ptr' = [ptr EXCEPT ![t] = Null]
  /\ UNCHANGED <<idle, option, made, inited, initer, todo, qosVars, computes, undefined>>

\* Mutant: the holder is pushed after it was moved away.
PutPushesMoved(t) ==
  /\ Running /\ pc[t] = "put"
  /\ held' = [held EXCEPT ![t] = Null] /\ ptr' = [ptr EXCEPT ![t] = Null]
  /\ idle' = Append(idle, held'[t])
  /\ IF Sleeping = {}
     THEN pc' = [pc EXCEPT ![t] = "out"]
     ELSE \E u \in Sleeping : pc' = [pc EXCEPT ![t] = "out", ![u] = "woken"]
  /\ UNCHANGED <<initVars, qosVars, computes, undefined>>

PutNotifiesNobody(t) ==
  /\ Running /\ pc[t] = "put"
  /\ idle' = Append(idle, held[t])
  /\ held' = [held EXCEPT ![t] = Null] /\ ptr' = [ptr EXCEPT ![t] = Null]
  /\ pc' = [pc EXCEPT ![t] = "out"]
  /\ UNCHANGED <<initVars, qosVars, computes, undefined>>

\* putIdleRequest pushes and notifies one.
Put(t) ==
  /\ Running /\ pc[t] = "put"
  /\ idle' = Append(idle, held[t])
  /\ held' = [held EXCEPT ![t] = Null] /\ ptr' = [ptr EXCEPT ![t] = Null]
  /\ IF Sleeping = {}
     THEN pc' = [pc EXCEPT ![t] = "out"]
     ELSE \E u \in Sleeping : pc' = [pc EXCEPT ![t] = "out", ![u] = "woken"]
  /\ UNCHANGED <<initVars, qosVars, computes, undefined>>

-----------------------------------------------------------------------------
(* vitisai_ep_set_ep_dynamic_options, under ep_dynamic_options_lock *)

\* The loop over qos_updaters_ takes its end here.
SetBegins(to) ==
  /\ Running /\ set.at = 0 /\ sets < MaxSets
  /\ sets' = sets + 1
  /\ set' = [at |-> 1, end |-> Len(updaters), moved |-> FALSE, to |-> to,
             had |-> {runner[h] : h \in Holders} \ {Null}, ok |-> FALSE]
  /\ UNCHANGED <<poolVars, initVars, updaters, deaf, mode, pc, computes, undefined>>

Target == updaters[set.at]
AtUpdater == Running /\ set.at \in 1..set.end

\* update_qos sets the mode, or it does nothing once perf_pref was refused.
Update ==
  /\ AtUpdater /\ ~set.moved /\ Alive(Target)
  /\ set' = [set EXCEPT !.at = @ + 1]
  /\ IF Target \in deaf
     THEN UNCHANGED mode
     ELSE mode' = [x \in DOMAIN mode \union {Target} |-> IF x = Target THEN set.to ELSE mode[x]]
  /\ UNCHANGED <<poolVars, initVars, updaters, deaf, sets, pc, computes, undefined>>

UpdateUnsupported ==
  /\ AtUpdater /\ ~set.moved /\ Alive(Target) /\ Target \notin deaf
  /\ set' = [set EXCEPT !.at = @ + 1]
  /\ deaf' = deaf \union {Target}
  /\ UNCHANGED <<poolVars, initVars, updaters, mode, sets, pc, computes, undefined>>

UpdateThrows ==
  /\ AtUpdater /\ ~set.moved /\ Alive(Target) /\ Target \notin deaf
  /\ set' = [set EXCEPT !.at = 0]
  /\ UNCHANGED <<poolVars, initVars, updaters, deaf, mode, sets, pc, computes, undefined>>

UpdateUndefined ==
  /\ AtUpdater /\ (set.moved \/ ~Alive(Target))
  /\ undefined' = {IF set.moved THEN "moved vector" ELSE "freed runner of an updater"}
  /\ UNCHANGED <<poolVars, initVars, qosVars, pc, computes>>

SetEndsEarly ==
  /\ Running /\ set.at > 0 /\ set.at >= set.end
  /\ set' = [set EXCEPT !.at = 0, !.ok = TRUE]
  /\ UNCHANGED <<poolVars, initVars, updaters, deaf, mode, sets, pc, computes, undefined>>

SetEnds ==
  /\ Running /\ set.at > set.end
  /\ set' = [set EXCEPT !.at = 0, !.ok = TRUE]
  /\ UNCHANGED <<poolVars, initVars, updaters, deaf, mode, sets, pc, computes, undefined>>

-----------------------------------------------------------------------------
InitStep(t) ==
  LockInit(t) \/ MakeRunner(t) \/ MakeRunnerThrows(t) \/ KeepRunner(t) \/ InitDone(t)
RunStep(t) == GetIdleRequest(t) \/ Run(t) \/ RunUndefined(t) \/ RunThrows(t) \/ Put(t)
SetStep == Update \/ UpdateUnsupported \/ UpdateThrows \/ UpdateUndefined \/ SetEnds

Next ==
  \/ \E t \in Threads : Compute(t) \/ InitStep(t) \/ RunStep(t) \/ SpuriousWakeup(t)
  \/ \E to \in Modes : SetBegins(to)
  \/ SetStep

Spec == Init /\ [][Next]_vars

\* A thread that has a step takes it in the end; nobody has to call the op or
\* to set anything.
FairSpec ==
  Spec /\ (\A t \in Threads : WF_vars(InitStep(t) \/ RunStep(t))) /\ WF_vars(SetStep)

-----------------------------------------------------------------------------
Places == {"out", "lock", "make", "keep", "done", "get", "sleep", "woken", "run", "put"}
Calls == [at : Nat, end : Nat, moved : BOOLEAN, to : Modes, had : SUBSET Nat, ok : BOOLEAN]

PoolTypeOK == idle \in Seq(Holders) /\ held \in [Threads -> Holders \union {Null}]

InitTypeOK ==
  /\ option \in Options /\ broken \in BOOLEAN
  /\ made \in Nat /\ runner \in [Holders -> 0..made] /\ ptr \in [Threads -> 0..made]
  /\ inited \in BOOLEAN /\ initer \in Threads \union {Nobody}
  /\ todo \in Seq(Holders)

QosTypeOK ==
  /\ updaters \in Seq(Nat) /\ deaf \subseteq Nat
  /\ DOMAIN mode \subseteq Nat /\ \A x \in DOMAIN mode : mode[x] \in Modes
  /\ set \in Calls /\ sets \in 0..MaxSets

ThreadTypeOK ==
  /\ pc \in [Threads -> Places] /\ computes \in 0..MaxComputes
  /\ undefined \subseteq {"null runner", "freed runner", "moved vector",
                          "freed runner of an updater"}

TypeOK == PoolTypeOK /\ InitTypeOK /\ QosTypeOK /\ ThreadTypeOK

\* RunnerRequestsQueue implements the pool: a runner is idle, held by one
\* thread, or lost with a computation that threw.
Pool == INSTANCE RunnerPool
          WITH Runners <- Holders, None <- Null, pool <- ToSet(idle), uses <- held
IsPool == Pool!Spec

\* A thread sleeps in cv.wait only while every idle runner is about to be
\* taken by a thread that was woken for it: no notify_one is lost.
NoLostWakeup == Sleeping # {} => Len(idle) <= Cardinality(Woken)

\* Where the constructor makes the runners, no thread reaches an object that
\* does not exist, whatever sets the workload type meanwhile, until an
\* exception leaves Compute; with runners made by the first Compute, no thread
\* ever computes with one that was replaced.
EagerIsDefined ==
  /\ ~Lazy /\ ~broken => undefined = {}
  /\ "freed runner" \notin undefined

\* Only a flag that was set before anybody wrote it lets a thread run without
\* a runner: a Compute that finds FALSE makes all of them first.
NullOnlyByGarbage == [][("null runner" \in undefined') => made = 0]_vars

\* An updater outlives its runner only if a creation or a computation threw:
\* two threads that both find FALSE make the runners once.
UpdatersPointToRunners == ~broken => \A i \in DOMAIN updaters : Alive(updaters[i])

\* A call that set the workload type without an exception reached every runner
\* the op had when it began and still has, but for those that refused it.
SetReachesRunners ==
  set.ok => \A h \in Holders :
    LET x == IF Shared THEN h ELSE runner[h]
    IN runner[h] \in set.had /\ x \notin deaf => x \in DOMAIN mode /\ mode[x] = set.to

\* Compute ends, unless every runner was lost to computations that threw.
ComputeEnds ==
  \A t \in Threads :
    pc[t] # "out" ~> (pc[t] = "out" \/ Lost = Holders \/ undefined # {})
=============================================================================
