---------------------------- MODULE DpuOpProofs ----------------------------
(***************************************************************************)
(* Theorems about DpuOp, for any number of threads, runners, computations  *)
(* and changes of the workload type.                                       *)
(***************************************************************************)
EXTENDS DpuOp, FiniteSetTheorems, TLAPS

\* Taking the first element of a sequence without repetitions.
LEMMA TailFacts ==
  ASSUME NEW S, NEW s \in Seq(S), s # <<>>
  PROVE  /\ Head(s) \in S /\ Tail(s) \in Seq(S)
         /\ Len(Tail(s)) = Len(s) - 1
         /\ IsInjective(s) => /\ IsInjective(Tail(s))
                              /\ ToSet(Tail(s)) = ToSet(s) \ {Head(s)}
<1>1. Head(s) \in S /\ Tail(s) \in Seq(S) /\ Len(Tail(s)) = Len(s) - 1 /\ Len(s) \in Nat \ {0}
  OBVIOUS
<1>2. /\ DOMAIN s = 1..Len(s) /\ DOMAIN Tail(s) = 1..(Len(s) - 1)
      /\ \A i \in 1..(Len(s) - 1) : Tail(s)[i] = s[i + 1]
      /\ Head(s) = s[1]
  OBVIOUS
<1>3. ASSUME IsInjective(s)
      PROVE  IsInjective(Tail(s)) /\ ToSet(Tail(s)) = ToSet(s) \ {Head(s)}
  <2>1. \A i, j \in 1..Len(s) : s[i] = s[j] => i = j
    BY <1>2, <1>3 DEF IsInjective
  <2>2. IsInjective(Tail(s))
    <3>1. ASSUME NEW i \in DOMAIN Tail(s), NEW j \in DOMAIN Tail(s), Tail(s)[i] = Tail(s)[j]
          PROVE  i = j
      <4>1. i \in Nat /\ j \in Nat /\ i + 1 \in 1..Len(s) /\ j + 1 \in 1..Len(s)
        BY <1>1, <1>2
      <4>2. s[i + 1] = s[j + 1]
        BY <1>2, <3>1
      <4> QED
        BY <2>1, <4>1, <4>2
    <3> QED
      BY <3>1 DEF IsInjective
  <2>3. ASSUME NEW x \in ToSet(Tail(s)) PROVE x \in ToSet(s) \ {Head(s)}
    <3>1. PICK i \in 1..(Len(s) - 1) : x = s[i + 1]
      BY <1>2 DEF ToSet
    <3>2. i + 1 \in 1..Len(s) /\ 1 \in 1..Len(s) /\ i + 1 # 1
      BY <1>1
    <3> QED
      BY <1>2, <2>1, <3>1, <3>2 DEF ToSet
  <2>4. ASSUME NEW x \in ToSet(s) \ {Head(s)} PROVE x \in ToSet(Tail(s))
    <3>1. PICK i \in 1..Len(s) : x = s[i]
      BY <1>2 DEF ToSet
    <3>2. i # 1
      BY <1>2, <2>4, <3>1
    <3>3. i - 1 \in 1..(Len(s) - 1) /\ (i - 1) + 1 = i
      BY <1>1, <3>2
    <3>4. Tail(s)[i - 1] = x
      BY <1>2, <3>1, <3>3
    <3> QED
      BY <1>2, <3>3, <3>4 DEF ToSet
  <2> QED
    BY <2>2, <2>3, <2>4
<1> QED
  BY <1>1, <1>3

\* Pushing an element that is not there.
LEMMA AppendFacts ==
  ASSUME NEW S, NEW s \in Seq(S), NEW x \in S
  PROVE  /\ Append(s, x) \in Seq(S) /\ Len(Append(s, x)) = Len(s) + 1
         /\ ToSet(Append(s, x)) = ToSet(s) \union {x}
         /\ IsInjective(s) /\ x \notin ToSet(s) => IsInjective(Append(s, x))
<1>1. /\ Append(s, x) \in Seq(S) /\ Len(s) \in Nat
      /\ DOMAIN s = 1..Len(s) /\ DOMAIN Append(s, x) = 1..(Len(s) + 1)
      /\ \A i \in 1..Len(s) : Append(s, x)[i] = s[i]
      /\ Append(s, x)[Len(s) + 1] = x
  OBVIOUS
<1>2. ToSet(Append(s, x)) = ToSet(s) \union {x}
  <2>1. 1..(Len(s) + 1) = (1..Len(s)) \union {Len(s) + 1}
    BY <1>1
  <2> QED
    BY <1>1, <2>1 DEF ToSet
<1>3. ASSUME IsInjective(s), x \notin ToSet(s) PROVE IsInjective(Append(s, x))
  <2>1. \A i \in 1..Len(s) : s[i] # x
    BY <1>1, <1>3 DEF ToSet
  <2>2. \A i, j \in 1..Len(s) : s[i] = s[j] => i = j
    BY <1>1, <1>3 DEF IsInjective
  <2> QED
    BY <1>1, <2>1, <2>2 DEF IsInjective
<1> QED
  BY <1>1, <1>2, <1>3

-----------------------------------------------------------------------------
\* The mutex of the lazy creation, and what its owner has left to do.
InitInv ==
  \A t \in Threads :
    /\ pc[t] \in {"make", "keep", "done"} => initer = t
    /\ pc[t] \in {"make", "keep"} => todo # <<>>

\* The loop over qos_updaters_ stays inside the vector.
SetInv == set.at # 0 => set.end <= Len(updaters)

\* A thread holds a runner from getIdleRequest to putIdleRequest, nobody else
\* does, and it is not idle.
PoolInv ==
  /\ IsInjective(idle)
  /\ \A t \in Threads :
       /\ held[t] # Null <=> pc[t] \in {"run", "put"}
       /\ held[t] # Null =>
            held[t] \notin ToSet(idle) /\ \A u \in Threads \ {t} : held[u] # held[t]

IInv == TypeOK /\ InitInv /\ SetInv /\ PoolInv

LEMMA SizeFacts == Size \in Nat /\ Null \notin Holders /\ Null \in 0..0 /\ Holders \subseteq Nat
BY DpuOpAssumption DEF Holders, Null

LEMMA InitIInv == Init => IInv
<1> SUFFICES ASSUME Init PROVE IInv
  OBVIOUS
<1> USE DpuOpAssumption, SizeFacts
<1>1. idle \in Seq(Holders) /\ todo \in Seq(Holders)
  BY DEF Init, Holders
<1>2. updaters \in Seq(Nat)
  <2>1. <<>> \in Seq(Nat)
    OBVIOUS
  <2>2. [h \in Holders |-> h] \in Seq(Nat)
    BY DEF Holders
  <2> QED
    BY <2>1, <2>2 DEF Init
<1>3. made \in Nat /\ runner \in [Holders -> 0..made] /\ ptr \in [Threads -> 0..made]
  BY DEF Init, Holders, Null
<1>4. DOMAIN mode = {}
  BY DEF Init
<1>5. set \in Calls
  BY DEF Init, Modes, Calls
<1>6. computes \in 0..MaxComputes /\ sets \in 0..MaxSets /\ deaf \subseteq Nat
  BY DEF Init
<1>7. PoolTypeOK
  BY <1>1 DEF Init, PoolTypeOK
<1>8. InitTypeOK
  BY <1>1, <1>3 DEF Init, InitTypeOK
<1>9. QosTypeOK
  BY <1>2, <1>4, <1>5, <1>6 DEF QosTypeOK
<1>10. ThreadTypeOK
  BY <1>6 DEF Init, ThreadTypeOK, Places
<1>11. PoolInv
  BY DEF Init, PoolInv, IsInjective
<1>12. InitInv /\ SetInv
  BY DEF Init, InitInv, SetInv
<1> QED
  BY <1>7, <1>8, <1>9, <1>10, <1>11, <1>12 DEF IInv, TypeOK

\* Where the threads are after one of them moved.
LEMMA GotoFacts ==
  ASSUME ThreadTypeOK, NEW t \in Threads, NEW from, NEW to \in Places, Goto(t, from, to)
  PROVE  /\ pc' \in [Threads -> Places]
         /\ pc[t] = from /\ pc'[t] = to
         /\ \A u \in Threads \ {t} : pc'[u] = pc[u]
BY DEF Goto, ThreadTypeOK

\* What a step leaves alone keeps its type.
LEMMA SamePool == ASSUME PoolTypeOK, UNCHANGED poolVars PROVE PoolTypeOK'
BY DEF PoolTypeOK, poolVars

LEMMA SameInit == ASSUME InitTypeOK, UNCHANGED <<initVars, ptr>> PROVE InitTypeOK'
BY DEF InitTypeOK, initVars

LEMMA SameQos == ASSUME QosTypeOK, UNCHANGED qosVars PROVE QosTypeOK'
BY DEF QosTypeOK, qosVars

\* The queue does not move while no thread starts or stops to hold a runner.
LEMMA SamePoolInv ==
  ASSUME PoolInv, UNCHANGED <<idle, held>>,
         \A u \in Threads : pc[u] \in {"run", "put"} <=> pc'[u] \in {"run", "put"}
  PROVE  PoolInv'
BY DEF PoolInv

\* The loop stays inside a vector that only grows.
LEMMA SameSetInv ==
  ASSUME QosTypeOK, SetInv, UNCHANGED qosVars
  PROVE  SetInv'
BY DEF SetInv, qosVars

\* The mutex and the work under it do not move while nobody enters it.
LEMMA SameInitInv ==
  ASSUME InitInv, UNCHANGED <<initer, todo>>,
         \A u \in Threads : pc'[u] \in {"make", "keep", "done"} => pc'[u] = pc[u]
  PROVE  InitInv'
BY DEF InitInv

\* A step of t that moves no runner, and leaves the mutex and the vector alone.
LEMMA QuietStep ==
  ASSUME IInv, NEW t \in Threads, NEW from \in Places \ {"run", "put"},
         NEW to \in {"lock", "get", "sleep", "woken", "out"}, Goto(t, from, to),
         UNCHANGED <<poolVars, initVars, qosVars, undefined>>,
         computes' \in 0..MaxComputes
  PROVE  IInv'
<1> USE DEF IInv, TypeOK
<1>1. /\ pc' \in [Threads -> Places] /\ pc[t] = from /\ pc'[t] = to
      /\ \A u \in Threads \ {t} : pc'[u] = pc[u]
  <2>1. to \in Places
    BY DEF Places
  <2> QED
    BY <2>1, GotoFacts
<1>2. PoolTypeOK' /\ InitTypeOK' /\ QosTypeOK' /\ SetInv'
  BY SamePool, SameInit, SameQos, SameSetInv DEF poolVars
<1>3. ThreadTypeOK'
  BY <1>1 DEF ThreadTypeOK
<1>4. InitInv'
  BY <1>1, SameInitInv DEF initVars
<1>5. PoolInv'
  BY <1>1, SamePoolInv DEF poolVars
<1> QED
  BY <1>2, <1>3, <1>4, <1>5

\* A step of t under the mutex of the creation.
LEMMA CreationStep ==
  ASSUME IInv, NEW t \in Threads, NEW from \in {"lock", "make", "keep", "done"},
         NEW to \in {"lock", "make", "keep", "done", "get", "out"}, Goto(t, from, to),
         UNCHANGED <<poolVars, computes, undefined>>
  PROVE  /\ PoolTypeOK' /\ ThreadTypeOK' /\ PoolInv'
         /\ pc[t] = from /\ pc'[t] = to
         /\ \A u \in Threads \ {t} : pc'[u] = pc[u]
<1> USE DEF IInv, TypeOK
<1>1. /\ pc' \in [Threads -> Places] /\ pc[t] = from /\ pc'[t] = to
      /\ \A u \in Threads \ {t} : pc'[u] = pc[u]
  <2>1. to \in Places
    BY DEF Places
  <2> QED
    BY <2>1, GotoFacts
<1>2. PoolTypeOK'
  BY SamePool
<1>3. ThreadTypeOK'
  BY <1>1 DEF ThreadTypeOK
<1>4. PoolInv'
  BY <1>1, SamePoolInv DEF poolVars
<1> QED
  BY <1>1, <1>2, <1>3, <1>4

LEMMA LockInitKeepsIInv ==
  ASSUME IInv, NEW t \in Threads, LockInit(t)
  PROVE  IInv'
<1> USE DEF IInv, TypeOK
<1>1. CASE inited
  <2>1. Goto(t, "lock", "get") /\ UNCHANGED <<poolVars, initVars, qosVars, computes, undefined>>
    BY <1>1 DEF LockInit, initVars
  <2>2. computes' \in 0..MaxComputes /\ "lock" \in Places \ {"run", "put"}
    BY <2>1 DEF ThreadTypeOK, Places
  <2> QED
    BY <2>1, <2>2, QuietStep
<1>2. CASE ~inited
  <2> DEFINE to == IF idle = <<>> THEN "done" ELSE "make"
  <2>1. Goto(t, "lock", to) /\ UNCHANGED <<poolVars, computes, undefined>>
    BY <1>2 DEF LockInit
  <2>2. /\ initer = Nobody /\ initer' = t /\ todo' = idle
        /\ UNCHANGED <<option, runner, made, inited, broken, ptr, qosVars>>
    BY <1>2 DEF LockInit, poolVars
  <2>3. to \in {"make", "done"}
    OBVIOUS
  <2> HIDE DEF to
  <2>4. /\ PoolTypeOK' /\ ThreadTypeOK' /\ PoolInv'
        /\ pc[t] = "lock" /\ pc'[t] = to
        /\ \A u \in Threads \ {t} : pc'[u] = pc[u]
    BY <2>1, <2>3, CreationStep
  <2>5. InitTypeOK'
    BY <2>2 DEF InitTypeOK, PoolTypeOK
  <2>6. QosTypeOK' /\ SetInv'
    BY <2>2, SameQos, SameSetInv
  <2>7. InitInv'
    <3>1. Nobody \notin Threads
      BY DpuOpAssumption
    <3>2. pc'[t] = "make" => todo' # <<>>
      BY <2>2, <2>4 DEF to
    <3>3. pc'[t] # "keep"
      BY <2>3, <2>4
    <3> QED
      BY <2>2, <2>4, <3>1, <3>2, <3>3 DEF InitInv
  <2> QED
    BY <2>4, <2>5, <2>6, <2>7
<1> QED
  BY <1>1, <1>2

LEMMA MakeRunnerKeepsIInv ==
  ASSUME IInv, NEW t \in Threads, MakeRunner(t) \/ MakeRunnerThrows(t)
  PROVE  IInv'
<1> USE DEF IInv, TypeOK
<1>1. /\ UNCHANGED <<poolVars, qosVars, computes, undefined>>
      /\ UNCHANGED <<option, runner, inited, ptr>>
  BY DEF MakeRunner, MakeRunnerThrows, poolVars
<1>2. QosTypeOK' /\ SetInv'
  BY <1>1, SameQos, SameSetInv
<1>3. CASE MakeRunner(t)
  <2>1. /\ PoolTypeOK' /\ ThreadTypeOK' /\ PoolInv'
        /\ pc[t] = "make" /\ pc'[t] = "keep"
        /\ \A u \in Threads \ {t} : pc'[u] = pc[u]
    BY <1>1, <1>3, CreationStep DEF MakeRunner
  <2>2. made' = made + 1 /\ UNCHANGED <<initer, todo, broken>>
    BY <1>3 DEF MakeRunner
  <2>3. InitTypeOK'
    <3>1. 0..made \subseteq 0..(made + 1) /\ made + 1 \in Nat
      BY DEF InitTypeOK
    <3>2. runner \in [Holders -> 0..(made + 1)] /\ ptr \in [Threads -> 0..(made + 1)]
      BY <3>1 DEF InitTypeOK
    <3> QED
      BY <1>1, <2>2, <3>1, <3>2 DEF InitTypeOK
  <2>4. InitInv'
    BY <2>1, <2>2 DEF InitInv
  <2> QED
    BY <1>2, <2>1, <2>3, <2>4
<1>4. CASE MakeRunnerThrows(t)
  <2>1. /\ PoolTypeOK' /\ ThreadTypeOK' /\ PoolInv'
        /\ pc[t] = "make" /\ pc'[t] = "out"
        /\ \A u \in Threads \ {t} : pc'[u] = pc[u]
    BY <1>1, <1>4, CreationStep DEF MakeRunnerThrows
  <2>2. /\ initer' = Nobody /\ todo' = <<>> /\ made' = made
        /\ broken' = (broken \/ Len(todo) < Len(idle))
    BY <1>4 DEF MakeRunnerThrows
  <2>3. InitTypeOK'
    <3>1. broken' \in BOOLEAN /\ <<>> \in Seq(Holders)
      BY <2>2 DEF InitTypeOK
    <3> QED
      BY <1>1, <2>2, <3>1 DEF InitTypeOK
  <2>4. InitInv'
    \* Nobody else was under the mutex.
    BY <2>1 DEF InitInv
  <2> QED
    BY <1>2, <2>1, <2>3, <2>4
<1> QED
  BY <1>3, <1>4

LEMMA KeepRunnerKeepsIInv ==
  ASSUME IInv, NEW t \in Threads, KeepRunner(t)
  PROVE  IInv'
<1> USE DEF IInv, TypeOK
<1> DEFINE to == IF Len(todo) = 1 THEN "done" ELSE "make"
<1>1. /\ Goto(t, "keep", to) /\ todo' = Tail(todo)
      /\ runner' = [runner EXCEPT ![Head(todo)] = made]
      /\ UNCHANGED <<poolVars, computes, undefined>>
      /\ UNCHANGED <<option, made, inited, initer, broken, ptr>>
      /\ UNCHANGED <<deaf, mode, sets>>
  BY DEF KeepRunner, poolVars
<1>2. to \in {"done", "make"}
  OBVIOUS
<1>3. to = "make" => Len(todo) # 1
  OBVIOUS
<1> HIDE DEF to
<1>4. /\ PoolTypeOK' /\ ThreadTypeOK' /\ PoolInv'
      /\ pc[t] = "keep" /\ pc'[t] = to
      /\ \A u \in Threads \ {t} : pc'[u] = pc[u]
  BY <1>1, <1>2, CreationStep
<1>5. todo # <<>> /\ todo \in Seq(Holders)
  BY <1>4 DEF InitInv, InitTypeOK
<1>6. /\ Head(todo) \in Holders /\ Tail(todo) \in Seq(Holders)
      /\ Len(Tail(todo)) = Len(todo) - 1 /\ Len(todo) \in Nat \ {0}
  BY <1>5, TailFacts
<1>7. InitTypeOK'
  <2>1. runner' \in [Holders -> 0..made]
    BY <1>1, <1>6 DEF InitTypeOK
  <2> QED
    BY <1>1, <1>6, <2>1 DEF InitTypeOK
<1>8. InitInv'
  <2>1. to = "make" => Tail(todo) # <<>>
    BY <1>3, <1>6
  <2> QED
    BY <1>1, <1>2, <1>4, <2>1 DEF InitInv
<1>9. QosTypeOK' /\ SetInv'
  <2>1. CASE Shared
    BY <1>1, <2>1, SameQos, SameSetInv DEF KeepRunner, qosVars
  <2>2. CASE ~Shared
    <3>1. updaters' = Append(updaters, made)
      BY <2>2 DEF KeepRunner
    <3>2. updaters' \in Seq(Nat) /\ Len(updaters') = Len(updaters) + 1 /\ Len(updaters) \in Nat
      BY <3>1, AppendFacts DEF InitTypeOK, QosTypeOK
    <3>3. PICK m \in {set.moved, set.at # 0} : set' = [set EXCEPT !.moved = m]
      BY <2>2 DEF KeepRunner
    <3>4. m \in BOOLEAN
      BY DEF QosTypeOK, Calls
    <3>5. set' \in Calls /\ set'.at = set.at /\ set'.end = set.end /\ set.end \in Nat
      BY <3>3, <3>4 DEF QosTypeOK, Calls
    <3>6. QosTypeOK'
      BY <1>1, <3>2, <3>5 DEF QosTypeOK
    <3>7. SetInv'
      BY <3>2, <3>5 DEF SetInv
    <3> QED
      BY <3>6, <3>7
  <2> QED
    BY <2>1, <2>2
<1> QED
  BY <1>4, <1>7, <1>8, <1>9

LEMMA InitDoneKeepsIInv ==
  ASSUME IInv, NEW t \in Threads, InitDone(t)
  PROVE  IInv'
<1> USE DEF IInv, TypeOK
<1>1. /\ Goto(t, "done", "get") /\ inited' = TRUE /\ initer' = Nobody
      /\ UNCHANGED <<poolVars, qosVars, computes, undefined>>
      /\ UNCHANGED <<option, runner, made, todo, broken, ptr>>
  BY DEF InitDone, poolVars
<1>2. /\ PoolTypeOK' /\ ThreadTypeOK' /\ PoolInv'
      /\ pc[t] = "done" /\ pc'[t] = "get"
      /\ \A u \in Threads \ {t} : pc'[u] = pc[u]
  BY <1>1, CreationStep
<1>3. InitTypeOK'
  BY <1>1 DEF InitTypeOK
<1>4. InitInv'
  BY <1>2 DEF InitInv
<1>5. QosTypeOK' /\ SetInv'
  BY <1>1, SameQos, SameSetInv
<1> QED
  BY <1>2, <1>3, <1>4, <1>5

LEMMA CreationKeepsIInv ==
  ASSUME IInv, NEW t \in Threads, Compute(t) \/ InitStep(t) \/ SpuriousWakeup(t)
  PROVE  IInv'
<1>1. CASE Compute(t)
  <2> DEFINE to == IF ~inited /\ Lazy THEN "lock" ELSE "get"
  <2>1. Goto(t, "out", to) /\ UNCHANGED <<poolVars, initVars, qosVars, undefined>>
    BY <1>1 DEF Compute
  <2>2. to \in {"lock", "get"}
    OBVIOUS
  <2>3. computes' \in 0..MaxComputes
    <3>1. MaxComputes \in Nat
      BY DpuOpAssumption
    <3>2. computes < MaxComputes /\ computes' = computes + 1 /\ computes \in 0..MaxComputes
      BY <1>1 DEF Compute, IInv, TypeOK, ThreadTypeOK
    <3> QED
      BY <3>1, <3>2
  <2>4. "out" \in Places \ {"run", "put"}
    BY DEF Places
  <2> HIDE DEF to
  <2> QED
    BY <2>1, <2>2, <2>3, <2>4, QuietStep
<1>2. CASE SpuriousWakeup(t)
  <2>1. computes' \in 0..MaxComputes /\ "sleep" \in Places \ {"run", "put"}
    BY <1>2 DEF SpuriousWakeup, IInv, TypeOK, ThreadTypeOK, Places
  <2> QED
    BY <1>2, <2>1, QuietStep DEF SpuriousWakeup
<1> QED
  BY <1>1, <1>2, LockInitKeepsIInv, MakeRunnerKeepsIInv, KeepRunnerKeepsIInv, InitDoneKeepsIInv
     DEF InitStep

\* A step of t with the queue or with a runner leaves the creation and the
\* updaters alone.
LEMMA RunLeavesRest ==
  ASSUME IInv, NEW t \in Threads, NEW to \in {"run", "sleep", "put", "out"},
         UNCHANGED <<option, made, inited, initer, todo, qosVars>>,
         runner' \in [Holders -> 0..made], ptr' \in [Threads -> 0..made],
         broken' \in BOOLEAN, pc' \in [Threads -> Places], pc'[t] = to,
         \A u \in Threads \ {t} : pc'[u] = pc[u] \/ pc'[u] = "woken"
  PROVE  InitTypeOK' /\ QosTypeOK' /\ InitInv' /\ SetInv'
<1> USE DEF IInv, TypeOK
<1>1. InitTypeOK'
  BY DEF InitTypeOK
<1>2. QosTypeOK' /\ SetInv'
  BY SameQos, SameSetInv
<1>3. InitInv'
  BY SameInitInv
<1> QED
  BY <1>1, <1>2, <1>3

LEMMA TakeKeepsIInv ==
  ASSUME IInv, NEW t \in Threads, NEW from \in {"get", "woken"}, Take(t, from)
  PROVE  IInv'
<1> USE DEF IInv, TypeOK
<1>1. /\ idle # <<>> /\ idle' = Tail(idle)
      /\ held' = [held EXCEPT ![t] = Head(idle)]
      /\ ptr' = [ptr EXCEPT ![t] = runner[Head(idle)]]
      /\ UNCHANGED <<initVars, qosVars, computes, undefined>>
  BY DEF Take
<1>2. /\ pc' \in [Threads -> Places] /\ pc[t] = from /\ pc'[t] = "run"
      /\ \A u \in Threads \ {t} : pc'[u] = pc[u]
  <2>1. "run" \in Places /\ Goto(t, from, "run")
    BY DEF Places, Take
  <2> QED
    BY <2>1, GotoFacts
<1>3. /\ Head(idle) \in Holders /\ Tail(idle) \in Seq(Holders)
      /\ IsInjective(Tail(idle)) /\ ToSet(Tail(idle)) = ToSet(idle) \ {Head(idle)}
  BY <1>1, TailFacts DEF PoolTypeOK, PoolInv
<1>4. Head(idle) \in ToSet(idle) /\ Head(idle) # Null
  <2>1. idle \in Seq(Holders)
    BY DEF PoolTypeOK
  <2>2. Head(idle) = idle[1] /\ 1 \in DOMAIN idle
    BY <1>1, <2>1
  <2> QED
    BY <1>3, <2>2, SizeFacts DEF ToSet
<1>5. held' \in [Threads -> Holders \union {Null}] /\ ptr' \in [Threads -> 0..made]
  BY <1>1, <1>3 DEF PoolTypeOK, InitTypeOK
<1>6. PoolTypeOK' /\ ThreadTypeOK'
  BY <1>1, <1>2, <1>3, <1>5 DEF PoolTypeOK, ThreadTypeOK
<1>7. InitTypeOK' /\ QosTypeOK' /\ InitInv' /\ SetInv'
  <2>1. runner' \in [Holders -> 0..made] /\ broken' \in BOOLEAN
    BY <1>1 DEF InitTypeOK, initVars
  <2> QED
    BY <1>1, <1>2, <1>5, <2>1, RunLeavesRest DEF initVars
<1>8. PoolInv'
  <2>1. \A u \in Threads : held[u] # Head(idle)
    BY <1>4 DEF PoolInv
  <2>2. held'[t] = Head(idle) /\ \A u \in Threads \ {t} : held'[u] = held[u]
    BY <1>1 DEF PoolTypeOK
  <2>3. \A u \in Threads : held'[u] # Null <=> pc'[u] \in {"run", "put"}
    BY <1>2, <1>4, <2>2 DEF PoolInv
  <2>4. ASSUME NEW u \in Threads, held'[u] # Null
        PROVE  held'[u] \notin ToSet(idle') /\ \A v \in Threads \ {u} : held'[v] # held'[u]
    BY <1>1, <1>3, <2>1, <2>2, <2>4 DEF PoolInv
  <2> QED
    BY <1>1, <1>3, <2>3, <2>4 DEF PoolInv
<1> QED
  BY <1>6, <1>7, <1>8

LEMMA SleepKeepsIInv ==
  ASSUME IInv, NEW t \in Threads, NEW from \in {"get", "woken"}, Sleep(t, from)
  PROVE  IInv'
<1>1. computes' \in 0..MaxComputes /\ from \in Places \ {"run", "put"}
  BY DEF Sleep, IInv, TypeOK, ThreadTypeOK, Places
<1> QED
  BY <1>1, QuietStep DEF Sleep

LEMMA RunKeepsIInv ==
  ASSUME IInv, NEW t \in Threads, Run(t) \/ RunUndefined(t)
  PROVE  IInv'
<1> USE DEF IInv, TypeOK
<1>1. UNCHANGED <<poolVars, initVars, qosVars, computes>>
  BY DEF Run, RunUndefined
<1>2. /\ pc' \in [Threads -> Places] /\ pc[t] = "run" /\ pc'[t] \in {"run", "put"}
      /\ \A u \in Threads \ {t} : pc'[u] = pc[u]
  <2>1. {"run", "put"} \subseteq Places
    BY DEF Places
  <2>2. Goto(t, "run", "put") \/ Goto(t, "run", "run")
    BY DEF Run, RunUndefined
  <2> QED
    BY <2>1, <2>2, GotoFacts
<1>3. undefined' \subseteq {"null runner", "freed runner", "moved vector",
                            "freed runner of an updater"}
  BY DEF Run, RunUndefined, ThreadTypeOK
<1>4. PoolTypeOK' /\ ThreadTypeOK'
  BY <1>1, <1>2, <1>3, SamePool DEF ThreadTypeOK
<1>5. InitTypeOK' /\ QosTypeOK' /\ InitInv' /\ SetInv'
  BY <1>1, <1>2, SameInit, SameQos, SameInitInv, SameSetInv DEF poolVars, initVars
<1>6. PoolInv'
  BY <1>1, <1>2, SamePoolInv DEF poolVars
<1> QED
  BY <1>4, <1>5, <1>6

LEMMA RunThrowsKeepsIInv ==
  ASSUME IInv, NEW t \in Threads, RunThrows(t)
  PROVE  IInv'
<1> USE DEF IInv, TypeOK
<1>1. /\ runner' = [runner EXCEPT ![held[t]] = Null] /\ broken' = TRUE
      /\ held' = [held EXCEPT ![t] = Null] /\ ptr' = [ptr EXCEPT ![t] = Null]
      /\ UNCHANGED <<idle, option, made, inited, initer, todo, qosVars, computes, undefined>>
  BY DEF RunThrows
<1>2. /\ pc' \in [Threads -> Places] /\ pc[t] = "run" /\ pc'[t] = "out"
      /\ \A u \in Threads \ {t} : pc'[u] = pc[u]
  <2>1. "out" \in Places /\ Goto(t, "run", "out")
    BY DEF Places, RunThrows
  <2> QED
    BY <2>1, GotoFacts
<1>3. Null \in 0..made
  BY DEF InitTypeOK, Null
<1>4. runner' \in [Holders -> 0..made] /\ ptr' \in [Threads -> 0..made]
  BY <1>1, <1>3 DEF InitTypeOK
<1>5. PoolTypeOK' /\ ThreadTypeOK'
  BY <1>1, <1>2 DEF PoolTypeOK, ThreadTypeOK
<1>6. InitTypeOK' /\ QosTypeOK' /\ InitInv' /\ SetInv'
  BY <1>1, <1>2, <1>4, RunLeavesRest
<1>7. PoolInv'
  <2>1. held'[t] = Null /\ \A u \in Threads \ {t} : held'[u] = held[u]
    BY <1>1 DEF PoolTypeOK
  <2> QED
    BY <1>1, <1>2, <2>1 DEF PoolInv
<1> QED
  BY <1>5, <1>6, <1>7

LEMMA PutKeepsIInv ==
  ASSUME IInv, NEW t \in Threads, Put(t)
  PROVE  IInv'
<1> USE DEF IInv, TypeOK
<1>1. /\ pc[t] = "put" /\ idle' = Append(idle, held[t])
      /\ held' = [held EXCEPT ![t] = Null] /\ ptr' = [ptr EXCEPT ![t] = Null]
      /\ UNCHANGED <<initVars, qosVars, computes, undefined>>
  BY DEF Put
<1>2. /\ pc' \in [Threads -> Places] /\ pc'[t] = "out"
      /\ \A u \in Threads \ {t} : pc'[u] = pc[u] \/ pc'[u] = "woken"
      /\ \A u \in Threads \ {t} : pc[u] \in {"run", "put"} <=> pc'[u] \in {"run", "put"}
  <2>1. "out" \in Places /\ "woken" \in Places
    BY DEF Places
  <2>2. CASE Sleeping = {}
    BY <2>1, <2>2 DEF Put, ThreadTypeOK
  <2>3. CASE Sleeping # {}
    <3>1. PICK u \in Sleeping : pc' = [pc EXCEPT ![t] = "out", ![u] = "woken"]
      BY <2>3 DEF Put
    <3>2. u \in Threads /\ u # t /\ pc[u] = "sleep"
      BY <1>1 DEF Sleeping
    <3> QED
      BY <2>1, <3>1, <3>2 DEF ThreadTypeOK
  <2> QED
    BY <2>2, <2>3
<1>3. held[t] \in Holders /\ held[t] \notin ToSet(idle)
  BY <1>1 DEF PoolInv, PoolTypeOK
<1>4. /\ idle' \in Seq(Holders) /\ ToSet(idle') = ToSet(idle) \union {held[t]}
      /\ IsInjective(idle')
  BY <1>1, <1>3, AppendFacts DEF PoolInv, PoolTypeOK
<1>5. PoolTypeOK' /\ ThreadTypeOK'
  BY <1>1, <1>2, <1>4 DEF PoolTypeOK, ThreadTypeOK
<1>6. InitTypeOK' /\ QosTypeOK' /\ InitInv' /\ SetInv'
  <2>1. runner' \in [Holders -> 0..made] /\ broken' \in BOOLEAN
    BY <1>1 DEF InitTypeOK, initVars
  <2>2. ptr' \in [Threads -> 0..made]
    BY <1>1 DEF InitTypeOK, Null
  <2> QED
    BY <1>1, <1>2, <2>1, <2>2, RunLeavesRest DEF initVars
<1>7. PoolInv'
  <2>1. held'[t] = Null /\ \A u \in Threads \ {t} : held'[u] = held[u]
    BY <1>1 DEF PoolTypeOK
  <2>2. \A u \in Threads \ {t} : held[u] # held[t]
    BY <1>3, SizeFacts DEF PoolInv
  <2>3. \A u \in Threads : held'[u] # Null <=> pc'[u] \in {"run", "put"}
    BY <1>2, <2>1 DEF PoolInv
  <2>4. ASSUME NEW u \in Threads, held'[u] # Null
        PROVE  held'[u] \notin ToSet(idle') /\ \A v \in Threads \ {u} : held'[v] # held'[u]
    BY <1>4, <2>1, <2>2, <2>4 DEF PoolInv
  <2> QED
    BY <1>4, <2>3, <2>4 DEF PoolInv
<1> QED
  BY <1>5, <1>6, <1>7

-----------------------------------------------------------------------------
\* The thread that sets the workload type moves no runner.
LEMMA SetKeepsIInv ==
  ASSUME IInv, SetStep \/ \E to \in Modes : SetBegins(to)
  PROVE  IInv'
<1> USE DEF IInv, TypeOK
<1>1. UNCHANGED <<poolVars, initVars, pc, updaters, computes>>
  BY DEF SetStep, Update, UpdateUnsupported, UpdateThrows, UpdateUndefined, SetEnds, SetBegins,
         qosVars
<1>2. undefined' \subseteq {"null runner", "freed runner", "moved vector",
                            "freed runner of an updater"}
  BY DEF SetStep, Update, UpdateUnsupported, UpdateThrows, UpdateUndefined, SetEnds, SetBegins,
         ThreadTypeOK
<1>3. PoolTypeOK' /\ InitTypeOK' /\ ThreadTypeOK' /\ InitInv' /\ PoolInv'
  <2>1. PoolTypeOK' /\ InitTypeOK' /\ ThreadTypeOK'
    BY <1>1, <1>2, SamePool, SameInit DEF ThreadTypeOK, poolVars
  <2>2. InitInv' /\ PoolInv'
    BY <1>1, SameInitInv, SamePoolInv DEF poolVars, initVars
  <2> QED
    BY <2>1, <2>2
<1>4. set.at \in Nat /\ set.end \in Nat /\ updaters \in Seq(Nat) /\ Len(updaters) \in Nat
  BY DEF QosTypeOK, Calls
<1>5. ASSUME AtUpdater PROVE Target \in Nat
  <2>1. set.at \in 1..Len(updaters)
    BY <1>4, <1>5 DEF AtUpdater, SetInv
  <2> QED
    BY <1>4, <2>1 DEF Target
<1>6. ASSUME NEW n \in Nat, NEW b \in BOOLEAN
      PROVE  /\ [set EXCEPT !.at = n] \in Calls /\ [set EXCEPT !.at = n].end = set.end
             /\ [set EXCEPT !.at = n, !.ok = b] \in Calls
             /\ [set EXCEPT !.at = n, !.ok = b].end = set.end
             /\ [set EXCEPT !.at = n].at = n /\ [set EXCEPT !.at = n, !.ok = b].at = n
  BY DEF QosTypeOK, Calls
<1>7. CASE Update \/ UpdateUnsupported \/ UpdateThrows
  <2>1. AtUpdater /\ Target \in Nat /\ UNCHANGED sets
    BY <1>5, <1>7 DEF Update, UpdateUnsupported, UpdateThrows
  <2>2. set' \in Calls /\ set'.end = set.end /\ set.at # 0
    <3>1. set.at + 1 \in Nat /\ 0 \in Nat /\ set.at # 0
      BY <1>4, <2>1 DEF AtUpdater
    <3> QED
      BY <1>6, <1>7, <3>1 DEF Update, UpdateUnsupported, UpdateThrows
  <2>3. deaf' \subseteq Nat
    BY <1>7, <2>1 DEF Update, UpdateUnsupported, UpdateThrows, QosTypeOK
  <2>4. DOMAIN mode' \subseteq Nat /\ \A x \in DOMAIN mode' : mode'[x] \in Modes
    <3>1. CASE mode' = mode
      BY <3>1 DEF QosTypeOK
    <3>2. CASE mode' = [x \in DOMAIN mode \union {Target} |->
                          IF x = Target THEN set.to ELSE mode[x]]
      <4>1. set.to \in Modes
        BY DEF QosTypeOK, Calls
      <4>2. DOMAIN mode' = DOMAIN mode \union {Target}
        BY <3>2
      <4>3. \A x \in DOMAIN mode' : mode'[x] = IF x = Target THEN set.to ELSE mode[x]
        BY <3>2
      <4> QED
        BY <2>1, <4>1, <4>2, <4>3 DEF QosTypeOK
    <3> QED
      BY <1>7, <3>1, <3>2 DEF Update, UpdateUnsupported, UpdateThrows
  <2>5. QosTypeOK'
    BY <1>1, <2>1, <2>2, <2>3, <2>4 DEF QosTypeOK
  <2>6. SetInv'
    BY <1>1, <2>2 DEF SetInv
  <2> QED
    BY <1>3, <2>5, <2>6
<1>8. CASE UpdateUndefined
  BY <1>3, <1>8, SameQos, SameSetInv DEF UpdateUndefined
<1>9. CASE SetEnds
  <2>1. /\ set' = [set EXCEPT !.at = 0, !.ok = TRUE]
        /\ UNCHANGED <<updaters, deaf, mode, sets>>
    BY <1>9 DEF SetEnds
  <2>2. set' \in Calls /\ set'.at = 0
    BY <1>6, <2>1
  <2> QED
    BY <1>3, <2>1, <2>2 DEF QosTypeOK, SetInv
<1>10. ASSUME NEW to \in Modes, SetBegins(to) PROVE IInv'
  <2>1. /\ sets < MaxSets /\ sets' = sets + 1 /\ UNCHANGED <<updaters, deaf, mode>>
        /\ set' = [at |-> 1, end |-> Len(updaters), moved |-> FALSE, to |-> to,
                   had |-> {runner[h] : h \in Holders} \ {Null}, ok |-> FALSE]
    BY <1>10 DEF SetBegins
  <2>2. {runner[h] : h \in Holders} \ {Null} \subseteq Nat
    BY DEF InitTypeOK
  <2>3. set' \in Calls /\ set'.end = Len(updaters)
    BY <1>4, <2>1, <2>2 DEF Calls
  <2>4. sets' \in 0..MaxSets
    <3>1. MaxSets \in Nat
      BY DpuOpAssumption
    <3> QED
      BY <2>1, <3>1 DEF QosTypeOK
  <2>5. QosTypeOK' /\ SetInv'
    BY <1>4, <2>1, <2>3, <2>4 DEF QosTypeOK, SetInv
  <2> QED
    BY <1>3, <2>5
<1> QED
  BY <1>7, <1>8, <1>9, <1>10 DEF SetStep

LEMMA NextKeepsIInv == IInv /\ [Next]_vars => IInv'
<1> SUFFICES ASSUME IInv, [Next]_vars PROVE IInv'
  OBVIOUS
<1>1. CASE UNCHANGED vars
  <2>1. UNCHANGED <<poolVars, initVars, qosVars, pc, computes, undefined>>
    BY <1>1 DEF vars
  <2>2. PoolTypeOK' /\ InitTypeOK' /\ QosTypeOK' /\ ThreadTypeOK'
    BY <2>1, SamePool, SameInit, SameQos DEF IInv, TypeOK, ThreadTypeOK, poolVars
  <2>3. InitInv' /\ SetInv' /\ PoolInv'
    BY <2>1, SameInitInv, SameSetInv, SamePoolInv DEF IInv, TypeOK, poolVars, initVars
  <2> QED
    BY <2>2, <2>3 DEF IInv, TypeOK
<1>2. ASSUME NEW t \in Threads, RunStep(t) PROVE IInv'
  BY <1>2, TakeKeepsIInv, SleepKeepsIInv, RunKeepsIInv, RunThrowsKeepsIInv, PutKeepsIInv
     DEF RunStep, GetIdleRequest
<1> QED
  BY <1>1, <1>2, CreationKeepsIInv, SetKeepsIInv DEF Next

LEMMA InvHolds == Spec => []IInv
BY InitIInv, NextKeepsIInv, PTL DEF Spec

\* Every variable keeps its type.
THEOREM DpuTypeCorrect == Spec => []TypeOK
<1>1. IInv => TypeOK
  BY DEF IInv
<1> QED
  BY <1>1, InvHolds, PTL

\* No two computations use the same runner, and none uses one that is still in
\* the queue: getIdleRequest and putIdleRequest move a runner, they do not copy
\* it.
THEOREM RunnersExclusive == Spec => []Pool!Exclusive
<1>1. IInv => Pool!Exclusive
  <2> SUFFICES ASSUME IInv PROVE Pool!Exclusive
    OBVIOUS
  <2>1. ToSet(idle) \subseteq Holders
    <3>1. idle \in Seq(Holders)
      BY DEF IInv, TypeOK, PoolTypeOK
    <3>2. \A i \in DOMAIN idle : idle[i] \in Holders
      BY <3>1
    <3> QED
      BY <3>2 DEF ToSet
  <2>2. held \in [Threads -> Holders \union {Null}]
    BY DEF IInv, TypeOK, PoolTypeOK
  <2> QED
    BY <2>1, <2>2 DEF Pool!Exclusive, IInv, PoolInv
<1> QED
  BY <1>1, InvHolds, PTL

\* Every step of the op takes one idle runner, gives the runner of one thread
\* back, loses it with an exception, or leaves the pool alone.
LEMMA StepRefines == IInv /\ [Next]_vars => [Pool!Next]_<<ToSet(idle), held>>
<1> SUFFICES ASSUME IInv, [Next]_vars
             PROVE  Pool!Next \/ UNCHANGED <<ToSet(idle), held>>
  OBVIOUS
<1>1. CASE UNCHANGED <<idle, held>>
  BY <1>1
<1>2. ASSUME NEW t \in Threads, NEW from \in {"get", "woken"}, Take(t, from)
      PROVE  Pool!Next
  <2>1. /\ idle # <<>> /\ idle' = Tail(idle) /\ held' = [held EXCEPT ![t] = Head(idle)]
        /\ pc[t] = from
    BY <1>2 DEF Take, Goto
  <2>2. idle \in Seq(Holders) /\ IsInjective(idle)
    BY DEF IInv, TypeOK, PoolTypeOK, PoolInv
  <2>3. Head(idle) \in Holders /\ ToSet(idle') = ToSet(idle) \ {Head(idle)}
    BY <2>1, <2>2, TailFacts
  <2>4. Head(idle) \in ToSet(idle)
    <3>1. Head(idle) = idle[1] /\ 1 \in DOMAIN idle
      BY <2>1, <2>2
    <3> QED
      BY <3>1 DEF ToSet
  <2>5. held[t] = Null
    BY <2>1 DEF IInv, PoolInv
  <2>6. Pool!Take(t, Head(idle))
    BY <2>1, <2>3, <2>4, <2>5 DEF Pool!Take
  <2> QED
    BY <2>3, <2>6 DEF Pool!Next
<1>3. ASSUME NEW t \in Threads, Put(t) PROVE Pool!Next
  <2>1. /\ pc[t] = "put" /\ idle' = Append(idle, held[t]) /\ held' = [held EXCEPT ![t] = Null]
    BY <1>3 DEF Put
  <2>2. idle \in Seq(Holders) /\ held[t] # Null /\ held[t] \in Holders
    BY <2>1 DEF IInv, TypeOK, PoolTypeOK, PoolInv
  <2>3. ToSet(idle') = ToSet(idle) \union {held[t]}
    BY <2>1, <2>2, AppendFacts
  <2> QED
    BY <2>1, <2>2, <2>3 DEF Pool!Next, Pool!GiveBack, Pool!Leave
<1>4. ASSUME NEW t \in Threads, RunThrows(t) PROVE Pool!Next
  <2>1. pc[t] = "run" /\ held' = [held EXCEPT ![t] = Null] /\ UNCHANGED idle
    BY <1>4 DEF RunThrows, Goto
  <2>2. held[t] # Null
    BY <2>1 DEF IInv, PoolInv
  <2> QED
    BY <2>1, <2>2 DEF Pool!Next, Pool!Lose, Pool!Leave
<1>5. ASSUME NEW t \in Threads,
             \/ Compute(t) \/ InitStep(t) \/ SpuriousWakeup(t) \/ Run(t) \/ RunUndefined(t)
             \/ \E from \in {"get", "woken"} : Sleep(t, from)
      PROVE  UNCHANGED <<idle, held>>
  BY <1>5 DEF Compute, InitStep, LockInit, MakeRunner, MakeRunnerThrows, KeepRunner, InitDone,
              SpuriousWakeup, Run, RunUndefined, Sleep, poolVars
<1>6. CASE SetStep \/ \E to \in Modes : SetBegins(to)
  BY <1>1, <1>6 DEF SetStep, SetBegins, Update, UpdateUnsupported, UpdateThrows,
                    UpdateUndefined, SetEnds, poolVars
<1>7. CASE UNCHANGED vars
  BY <1>1, <1>7 DEF vars, poolVars
<1> QED
  BY <1>1, <1>2, <1>3, <1>4, <1>5, <1>6, <1>7 DEF Next, RunStep, GetIdleRequest

\* The queue with its condition variable implements the pool of runners.
THEOREM PoolRefinement == Spec => IsPool
<1>1. Init => Pool!Init
  <2> SUFFICES ASSUME Init PROVE Pool!Init
    OBVIOUS
  <2>1. ToSet(idle) = Holders
    BY DEF Init, ToSet
  <2> QED
    BY <2>1 DEF Init, Pool!Init
<1> QED
  BY <1>1, StepRefines, InvHolds, PTL DEF Spec, IsPool, Pool!Spec

-----------------------------------------------------------------------------
LEMMA WokenFinite == ASSUME NEW S, S \subseteq Threads
                     PROVE  IsFiniteSet(S) /\ Cardinality(S) \in Nat
BY DpuOpAssumption, FS_Subset, FS_CardinalityType

LEMMA StepKeepsWakeups == IInv /\ NoLostWakeup /\ [Next]_vars => NoLostWakeup'
<1> SUFFICES ASSUME IInv, NoLostWakeup, [Next]_vars, Sleeping' # {}
             PROVE  Len(idle') <= Cardinality(Woken')
  BY DEF NoLostWakeup
<1>1. /\ Woken \subseteq Threads /\ Woken' \subseteq Threads
      /\ Cardinality(Woken) \in Nat /\ Cardinality(Woken') \in Nat /\ IsFiniteSet(Woken)
      /\ idle \in Seq(Holders) /\ Len(idle) \in Nat /\ ThreadTypeOK
  BY WokenFinite DEF Woken, IInv, TypeOK, PoolTypeOK
<1>2. ASSUME idle' = idle, Sleeping' \subseteq Sleeping, Woken \subseteq Woken'
      PROVE  Len(idle') <= Cardinality(Woken')
  <2>1. Len(idle) <= Cardinality(Woken)
    BY <1>2 DEF NoLostWakeup
  <2>2. Cardinality(Woken) <= Cardinality(Woken')
    BY <1>1, <1>2, WokenFinite, FS_Subset
  <2> QED
    BY <1>1, <1>2, <2>1, <2>2
<1>3. ASSUME NEW t \in Threads, NEW from \in Places, NEW to \in Places, Goto(t, from, to),
             from # "woken", to # "sleep", idle' = idle
      PROVE  Len(idle') <= Cardinality(Woken')
  <2>1. /\ pc[t] = from /\ pc'[t] = to /\ \A u \in Threads \ {t} : pc'[u] = pc[u]
    BY <1>1, <1>3, GotoFacts
  <2>2. Sleeping' \subseteq Sleeping /\ Woken \subseteq Woken'
    BY <1>3, <2>1 DEF Sleeping, Woken
  <2> QED
    BY <1>2, <1>3, <2>2
<1>4. ASSUME NEW t \in Threads, NEW from \in {"get", "woken"}, Sleep(t, from)
      PROVE  Len(idle') <= Cardinality(Woken')
  <2>1. idle' = <<>>
    BY <1>4 DEF Sleep, poolVars
  <2> QED
    BY <1>1, <2>1
<1>5. ASSUME NEW t \in Threads, NEW from \in {"get", "woken"}, Take(t, from)
      PROVE  Len(idle') <= Cardinality(Woken')
  <2>1. Len(idle') = Len(idle) - 1
    BY <1>1, <1>5, TailFacts DEF Take
  <2>2. /\ pc[t] = from /\ pc'[t] = "run" /\ \A u \in Threads \ {t} : pc'[u] = pc[u]
    <3>1. "run" \in Places /\ Goto(t, from, "run")
      BY <1>5 DEF Places, Take
    <3> QED
      BY <1>1, <3>1, GotoFacts
  <2>3. Woken' = Woken \ {t} /\ Sleeping' = Sleeping
    BY <2>2 DEF Woken, Sleeping
  <2>4. Cardinality(Woken') >= Cardinality(Woken) - 1
    <3>1. Cardinality(Woken \ {t}) = IF t \in Woken THEN Cardinality(Woken) - 1
                                     ELSE Cardinality(Woken)
      BY <1>1, FS_RemoveElement
    <3> QED
      BY <1>1, <2>3, <3>1
  <2>5. Len(idle) <= Cardinality(Woken)
    BY <2>3 DEF NoLostWakeup
  <2> QED
    BY <1>1, <2>1, <2>4, <2>5
<1>6. ASSUME NEW t \in Threads, Put(t) PROVE Len(idle') <= Cardinality(Woken')
  <2>1. pc[t] = "put" /\ idle' = Append(idle, held[t])
    BY <1>6 DEF Put
  <2>2. Len(idle') = Len(idle) + 1
    BY <1>1, <2>1
  <2>3. CASE Sleeping = {}
    <3>1. pc' = [pc EXCEPT ![t] = "out"]
      BY <1>6, <2>3 DEF Put
    <3>2. Sleeping' \subseteq Sleeping
      BY <1>1, <3>1 DEF Sleeping, ThreadTypeOK
    <3> QED
      BY <2>3, <3>2
  <2>4. CASE Sleeping # {}
    <3>1. PICK u \in Sleeping : pc' = [pc EXCEPT ![t] = "out", ![u] = "woken"]
      BY <1>6, <2>4 DEF Put
    <3>2. u \in Threads /\ u # t /\ u \notin Woken
      BY <2>1 DEF Sleeping, Woken
    <3>3. Woken' = Woken \union {u}
      BY <1>1, <2>1, <3>1, <3>2 DEF Woken, ThreadTypeOK
    <3>4. Cardinality(Woken') = Cardinality(Woken) + 1
      BY <1>1, <3>2, <3>3, FS_AddElement
    <3>5. Len(idle) <= Cardinality(Woken)
      BY <2>4 DEF NoLostWakeup
    <3> QED
      BY <1>1, <2>2, <3>4, <3>5
  <2> QED
    BY <2>3, <2>4
<1>7. ASSUME NEW t \in Threads, Compute(t) \/ InitStep(t) \/ SpuriousWakeup(t)
      PROVE  Len(idle') <= Cardinality(Woken')
  <2>1. idle' = idle
    BY <1>7 DEF Compute, InitStep, LockInit, MakeRunner, MakeRunnerThrows, KeepRunner, InitDone,
                SpuriousWakeup, poolVars
  <2>2. \E from, to \in Places : from # "woken" /\ to # "sleep" /\ Goto(t, from, to)
    <3>1. CASE Compute(t)
      <4>1. Goto(t, "out", "lock") \/ Goto(t, "out", "get")
        BY <3>1 DEF Compute
      <4> QED
        BY <4>1 DEF Places
    <3>2. CASE LockInit(t)
      BY <3>2 DEF LockInit, Places
    <3>3. CASE MakeRunner(t) \/ MakeRunnerThrows(t)
      BY <3>3 DEF MakeRunner, MakeRunnerThrows, Places
    <3>4. CASE KeepRunner(t)
      BY <3>4 DEF KeepRunner, Places
    <3>5. CASE InitDone(t) \/ SpuriousWakeup(t)
      BY <3>5 DEF InitDone, SpuriousWakeup, Places
    <3> QED
      BY <1>7, <3>1, <3>2, <3>3, <3>4, <3>5 DEF InitStep
  <2> QED
    BY <1>3, <2>1, <2>2
<1>8. ASSUME NEW t \in Threads, Run(t) \/ RunUndefined(t) \/ RunThrows(t)
      PROVE  Len(idle') <= Cardinality(Woken')
  <2>1. idle' = idle
    BY <1>8 DEF Run, RunUndefined, RunThrows, poolVars
  <2>2. \E from, to \in Places : from # "woken" /\ to # "sleep" /\ Goto(t, from, to)
    BY <1>8 DEF Run, RunUndefined, RunThrows, Places
  <2> QED
    BY <1>3, <2>1, <2>2
<1>9. CASE SetStep \/ \E to \in Modes : SetBegins(to)
  <2>1. UNCHANGED <<idle, pc>>
    BY <1>9 DEF SetStep, SetBegins, Update, UpdateUnsupported, UpdateThrows, UpdateUndefined,
                SetEnds, poolVars
  <2> QED
    BY <1>2, <2>1 DEF Sleeping, Woken
<1>10. CASE UNCHANGED vars
  BY <1>2, <1>10 DEF vars, poolVars, Sleeping, Woken
<1> QED
  BY <1>4, <1>5, <1>6, <1>7, <1>8, <1>9, <1>10 DEF Next, RunStep, GetIdleRequest

\* A thread sleeps in cv.wait only while every idle runner is about to be taken
\* by a thread that was woken: one notify_one for each runner put back suffices,
\* however many threads wait and whoever overtakes them.
THEOREM WakeupsKept == Spec => []NoLostWakeup
<1>1. Init => NoLostWakeup
  BY DEF Init, NoLostWakeup, Sleeping
<1> QED
  BY <1>1, StepKeepsWakeups, InvHolds, PTL DEF Spec

-----------------------------------------------------------------------------
(***************************************************************************)
(* What DpuOp refers to exists: runners that computations use, objects the *)
(* QoS updaters point to; and a change of the workload type reaches them.  *)
(* Runners are made under the mutex while no thread computes, and a runner *)
(* replaces a null one unless an earlier creation threw half way.          *)
(***************************************************************************)
Creating == {"make", "keep", "done"}

\* Who may be where, given the flag, and what is left to create.
CreationInv ==
  /\ ~Lazy => made = Size /\ ~set.moved
  /\ \A t \in Threads :
       /\ ~Lazy => pc[t] \notin {"lock"} \union Creating
       /\ Lazy /\ ~inited => pc[t] \in {"out", "lock"} \union Creating
       /\ pc[t] \in Creating =>
            /\ ~inited /\ IsInjective(todo) /\ Len(todo) <= Len(idle)
            /\ \A h \in Holders : runner[h] = Null => h \in ToSet(todo)
       /\ pc[t] = "done" => todo = <<>>
       /\ pc[t] = "keep" => made # Null /\ \A h \in Holders : runner[h] # made
  /\ Lazy /\ ~inited => idle = [h \in Holders |-> h]

\* Once there are runners, what is taken from the queue has one.
PtrInv ==
  /\ made # 0 /\ (Lazy => inited) => \A h \in ToSet(idle) : runner[h] # Null
  /\ \A t \in Threads :
       pc[t] \in {"run", "put"} => ptr[t] = runner[held[t]] /\ (made # 0 => ptr[t] # Null)

\* Without an exception nothing is lost, and only null runners are replaced.
UnbrokenInv ==
  /\ Lost = {}
  /\ ~Lazy => \A h \in Holders : runner[h] = h
  /\ Lazy /\ ~inited =>
       /\ (\A t \in Threads : pc[t] \notin Creating) => \A h \in Holders : runner[h] = Null
       /\ \A t \in Threads : pc[t] \in Creating =>
            /\ \A h \in ToSet(todo) : runner[h] = Null
            /\ Len(todo) = Len(idle) => \A h \in Holders : runner[h] = Null
  /\ \A i \in DOMAIN updaters : updaters[i] # Null /\ Alive(updaters[i])

UndefinedInv ==
  /\ EagerIsDefined
  /\ "null runner" \in undefined => made = 0

LifeInv == CreationInv /\ PtrInv /\ (~broken => UnbrokenInv) /\ UndefinedInv

\* What an updater of a holder points to.
Pointee(h) == IF Shared THEN h ELSE runner[h]
Served(x) == x \in deaf \/ (x \in DOMAIN mode /\ mode[x] = set.to)

\* How far the loop has come; what has a runner has an updater.
LoopInv ==
  /\ set.had \subseteq 1..made
  /\ \A t \in Threads : pc[t] = "keep" => made \notin set.had
  /\ \A h \in Holders : Shared \/ runner[h] # Null =>
       \E i \in DOMAIN updaters : updaters[i] = Pointee(h)
  /\ set.at # 0 =>
       /\ ~set.ok
       /\ \A i \in 1..set.end : i < set.at => Served(updaters[i])
       /\ \A h \in Holders : runner[h] \in set.had =>
            \E i \in 1..set.end : updaters[i] = Pointee(h)
  /\ SetReachesRunners

LIInv == IInv /\ LifeInv /\ LoopInv

\* The types, in the form most steps need them.
LEMMA LifeTypes ==
  ASSUME IInv
  PROVE  /\ pc \in [Threads -> Places] /\ held \in [Threads -> Holders \union {Null}]
         /\ made \in Nat /\ runner \in [Holders -> 0..made] /\ ptr \in [Threads -> 0..made]
         /\ idle \in Seq(Holders) /\ todo \in Seq(Holders) /\ updaters \in Seq(Nat)
         /\ set \in Calls /\ inited \in BOOLEAN /\ broken \in BOOLEAN
         /\ Lazy \in BOOLEAN /\ Shared \in BOOLEAN
         /\ set.at \in Nat /\ set.end \in Nat /\ set.ok \in BOOLEAN /\ set.moved \in BOOLEAN
BY DpuOpAssumption
   DEF IInv, TypeOK, PoolTypeOK, InitTypeOK, QosTypeOK, ThreadTypeOK, Calls, Lazy, Shared

\* Only one thread is under the mutex of the creation.
LEMMA OneCreates ==
  ASSUME IInv
  PROVE  \A t, u \in Threads : pc[t] \in Creating /\ pc[u] \in Creating => t = u
BY DEF IInv, InitInv, Creating

\* While anybody has a runner or waits for one, nobody creates any.
LEMMA NobodyCreates ==
  ASSUME CreationInv, NEW t \in Threads, pc[t] \in {"get", "sleep", "woken", "run", "put"}
  PROVE  (Lazy => inited) /\ \A u \in Threads : pc[u] \notin Creating
BY DEF CreationInv, Creating

-----------------------------------------------------------------------------
\* What a step leaves alone.
LEMMA SameLoop ==
  ASSUME LoopInv, UNCHANGED <<qosVars, runner, made, option>>,
         \A t \in Threads : pc'[t] = "keep" => pc[t] = "keep"
  PROVE  LoopInv'
<1>1. /\ Shared' = Shared /\ updaters' = updaters /\ deaf' = deaf /\ mode' = mode /\ set' = set
      /\ runner' = runner /\ made' = made
  BY DEF qosVars, Shared
<1>2. /\ \A h : Pointee(h)' = Pointee(h)
      /\ \A x : Served(x)' = Served(x)
  BY <1>1 DEF Pointee, Served
<1>3. SetReachesRunners'
  BY <1>1 DEF LoopInv, SetReachesRunners
<1> QED
  BY <1>1, <1>2, <1>3 DEF LoopInv

LEMMA SameUndefined ==
  ASSUME UndefinedInv, UNCHANGED <<undefined, option, made>>, broken => broken'
  PROVE  UndefinedInv'
BY DEF UndefinedInv, EagerIsDefined, Lazy

\* Where the updaters point while no runner and no place in the queue changes.
LEMMA SameTargets ==
  ASSUME UNCHANGED <<idle, held, runner, option>>
  PROVE  Lost' = Lost /\ \A x : Alive(x)' = Alive(x)
BY DEF Lost, Alive, Shared

\* A step of t in Compute that changes nothing but its place.
LEMMA QuietLife ==
  ASSUME LIInv, NEW t \in Threads, NEW from \in Places \ Creating, NEW to \in Places \ Creating,
         Goto(t, from, to), UNCHANGED <<poolVars, initVars, qosVars, undefined>>,
         to \in {"run", "put"} => from \in {"run", "put"}, ~Lazy => to # "lock",
         Lazy /\ ~inited => to \in {"out", "lock"}
  PROVE  LifeInv' /\ LoopInv'
<1>1. /\ pc[t] = from /\ pc'[t] = to /\ \A u \in Threads \ {t} : pc'[u] = pc[u]
  BY GotoFacts DEF LIInv, IInv, TypeOK
<1>2. /\ idle' = idle /\ held' = held /\ ptr' = ptr /\ option' = option /\ runner' = runner
      /\ made' = made /\ inited' = inited /\ todo' = todo /\ broken' = broken
      /\ updaters' = updaters /\ set' = set /\ Lazy' = Lazy
  BY DEF poolVars, initVars, qosVars, Lazy
<1>3. /\ \A u \in Threads : pc'[u] \in Creating => pc'[u] = pc[u]
      /\ \A u \in Threads : pc[u] \in Creating => pc'[u] = pc[u]
      /\ "keep" \in Creating /\ "done" \in Creating
  BY <1>1 DEF Creating
<1>4. CreationInv'
  BY <1>1, <1>2, <1>3 DEF LIInv, LifeInv, CreationInv
<1>5. PtrInv'
  BY <1>1, <1>2 DEF LIInv, LifeInv, PtrInv
<1>6. ~broken => UnbrokenInv'
  BY <1>2, <1>3, SameTargets DEF LIInv, LifeInv, UnbrokenInv
<1>7. UndefinedInv' /\ LoopInv'
  BY <1>2, <1>3, SameUndefined, SameLoop DEF LIInv, LifeInv
<1> QED
  BY <1>2, <1>4, <1>5, <1>6, <1>7 DEF LifeInv

-----------------------------------------------------------------------------
\* The creation of the runners.
LEMMA FullQueue ==
  ASSUME idle = [h \in Holders |-> h]
  PROVE  idle # <<>> /\ ToSet(idle) = Holders
<1>1. DOMAIN idle = 1..Size /\ 1 \in 1..Size /\ DOMAIN idle = Holders
  BY DpuOpAssumption DEF Holders
<1>2. DOMAIN <<>> = {}
  OBVIOUS
<1> QED
  BY <1>1, <1>2 DEF ToSet

LEMMA LockInitLife ==
  ASSUME LIInv, NEW t \in Threads, LockInit(t)
  PROVE  LifeInv' /\ LoopInv'
<1>1. CASE inited
  <2>1. Goto(t, "lock", "get") /\ UNCHANGED <<poolVars, initVars, qosVars, undefined>>
    BY <1>1 DEF LockInit, initVars
  <2>2. pc[t] = "lock"
    BY <2>1 DEF Goto
  <2>3. "lock" \in Places \ Creating /\ "get" \in Places \ Creating
    BY DEF Places, Creating
  <2> QED
    BY <1>1, <2>1, <2>3, QuietLife
<1>2. CASE ~inited
  <2>1. /\ pc[t] = "lock" /\ initer = Nobody /\ todo' = idle
        /\ pc' = [pc EXCEPT ![t] = IF idle = <<>> THEN "done" ELSE "make"]
        /\ UNCHANGED <<poolVars, option, runner, made, inited, broken, qosVars, undefined>>
    BY <1>2 DEF LockInit, Goto
  <2>2. Lazy /\ idle = [h \in Holders |-> h]
    BY <1>2, <2>1, LifeTypes DEF LIInv, LifeInv, CreationInv
  <2>3. idle # <<>> /\ ToSet(idle) = Holders
    BY <2>2, FullQueue
  <2>4. pc'[t] = "make" /\ \A u \in Threads \ {t} : pc'[u] = pc[u]
    BY <2>1, <2>3, LifeTypes DEF LIInv
  <2>5. \A u \in Threads : pc[u] \notin Creating
    BY <2>1, DpuOpAssumption DEF LIInv, IInv, InitInv, Creating
  <2>6. /\ idle' = idle /\ held' = held /\ ptr' = ptr /\ option' = option /\ runner' = runner
        /\ made' = made /\ inited' = inited /\ broken' = broken /\ Lazy' = Lazy
        /\ updaters' = updaters /\ set' = set
    BY <2>1 DEF poolVars, qosVars, Lazy
  <2>7. CreationInv'
    <3>1. IsInjective(idle) /\ Len(idle) <= Len(idle)
      BY LifeTypes DEF LIInv, IInv, PoolInv
    <3> QED
      BY <1>2, <2>1, <2>2, <2>3, <2>4, <2>5, <2>6, <3>1
         DEF LIInv, LifeInv, CreationInv, Creating
  <2>8. PtrInv'
    BY <1>2, <2>2, <2>4, <2>6 DEF LIInv, LifeInv, PtrInv
  <2>9. ~broken => UnbrokenInv'
    <3> SUFFICES ASSUME ~broken PROVE UnbrokenInv'
      OBVIOUS
    <3>1. UnbrokenInv /\ \A h \in Holders : runner[h] = Null
      BY <1>2, <2>2, <2>5 DEF LIInv, LifeInv, UnbrokenInv
    <3> QED
      BY <2>1, <2>2, <2>3, <2>6, <3>1, SameTargets DEF UnbrokenInv
  <2>10. UndefinedInv' /\ LoopInv'
    BY <2>1, <2>4, <2>6, SameUndefined, SameLoop DEF LIInv, LifeInv
  <2> QED
    BY <2>6, <2>7, <2>8, <2>9, <2>10 DEF LifeInv
<1> QED
  BY <1>1, <1>2, LifeTypes DEF LIInv

LEMMA MakeRunnerLife ==
  ASSUME LIInv, NEW t \in Threads, MakeRunner(t)
  PROVE  LifeInv' /\ LoopInv'
<1>1. /\ pc[t] = "make" /\ pc'[t] = "keep" /\ \A u \in Threads \ {t} : pc'[u] = pc[u]
      /\ made' = made + 1 /\ undefined = {} /\ undefined' = undefined
      /\ idle' = idle /\ held' = held /\ ptr' = ptr /\ option' = option /\ runner' = runner
      /\ inited' = inited /\ todo' = todo /\ broken' = broken /\ Lazy' = Lazy
      /\ updaters' = updaters /\ set' = set /\ deaf' = deaf /\ mode' = mode /\ Shared' = Shared
  BY LifeTypes DEF LIInv, MakeRunner, Goto, Running, poolVars, qosVars, Lazy, Shared
<1>2. Lazy /\ ~inited /\ \A u \in Threads \ {t} : pc[u] \notin Creating
  BY <1>1, LifeTypes, OneCreates DEF LIInv, LifeInv, CreationInv, Creating
<1>3. /\ made \in Nat /\ made' # Null /\ \A h \in Holders : runner[h] # made'
      /\ made' \notin set.had
  BY <1>1, LifeTypes DEF LIInv, LoopInv, Null
<1>4. CreationInv'
  BY <1>1, <1>2, <1>3 DEF LIInv, LifeInv, CreationInv, Creating
<1>5. PtrInv'
  BY <1>1, <1>2 DEF LIInv, LifeInv, PtrInv, CreationInv, Creating
<1>6. ~broken => UnbrokenInv'
  <2>1. \A u \in Threads : pc'[u] \in Creating <=> pc[u] \in Creating
    BY <1>1 DEF Creating
  <2> QED
    BY <1>1, <2>1, SameTargets DEF LIInv, LifeInv, UnbrokenInv
<1>7. UndefinedInv'
  BY <1>1 DEF UndefinedInv, EagerIsDefined
<1>8. LoopInv'
  <2>1. set.had \subseteq 1..made'
    BY <1>1, <1>3 DEF LIInv, LoopInv
  <2>2. \A u \in Threads : pc'[u] = "keep" => u = t
    BY <1>1, <1>2 DEF Creating
  <2>3. SetReachesRunners'
    BY <1>1 DEF LIInv, LoopInv, SetReachesRunners
  <2>4. /\ \A h : Pointee(h)' = Pointee(h)
        /\ \A x : Served(x)' = Served(x)
    BY <1>1 DEF Pointee, Served
  <2> QED
    BY <1>1, <1>3, <2>1, <2>2, <2>3, <2>4 DEF LIInv, LoopInv
<1> QED
  BY <1>1, <1>4, <1>5, <1>6, <1>7, <1>8 DEF LifeInv

LEMMA MakeRunnerThrowsLife ==
  ASSUME LIInv, NEW t \in Threads, MakeRunnerThrows(t)
  PROVE  LifeInv' /\ LoopInv'
<1>1. /\ pc[t] = "make" /\ pc'[t] = "out" /\ \A u \in Threads \ {t} : pc'[u] = pc[u]
      /\ broken' = (broken \/ Len(todo) < Len(idle)) /\ todo' = <<>>
      /\ made' = made /\ undefined' = undefined
      /\ idle' = idle /\ held' = held /\ ptr' = ptr /\ option' = option /\ runner' = runner
      /\ inited' = inited /\ Lazy' = Lazy /\ updaters' = updaters /\ set' = set
      /\ UNCHANGED qosVars
  BY LifeTypes DEF LIInv, MakeRunnerThrows, Goto, poolVars, qosVars, Lazy
<1>2. Lazy /\ ~inited /\ \A u \in Threads : pc'[u] \notin Creating
  <2>1. \A u \in Threads \ {t} : pc[u] \notin Creating
    BY <1>1, OneCreates DEF LIInv, Creating
  <2>2. "out" \notin Creating /\ "make" \in Creating
    BY DEF Creating
  <2> QED
    BY <1>1, <2>1, <2>2, LifeTypes DEF LIInv, LifeInv, CreationInv
<1>3. CreationInv'
  BY <1>1, <1>2 DEF LIInv, LifeInv, CreationInv, Creating
<1>4. PtrInv'
  BY <1>1, <1>2 DEF LIInv, LifeInv, PtrInv
<1>5. ~broken' => UnbrokenInv'
  <2> SUFFICES ASSUME ~broken' PROVE UnbrokenInv'
    OBVIOUS
  <2>1. ~broken /\ ~(Len(todo) < Len(idle)) /\ UnbrokenInv
    BY <1>1 DEF LIInv, LifeInv
  <2>2. Len(todo) = Len(idle)
    <3>1. Len(todo) \in Nat /\ Len(idle) \in Nat /\ Len(todo) <= Len(idle)
      BY <1>1, LifeTypes DEF LIInv, LifeInv, CreationInv, Creating
    <3> QED
      BY <2>1, <3>1
  <2>3. \A h \in Holders : runner[h] = Null
    BY <1>1, <1>2, <2>1, <2>2 DEF UnbrokenInv, Creating
  <2> QED
    BY <1>1, <1>2, <2>1, <2>3, SameTargets DEF UnbrokenInv
<1>6. UndefinedInv' /\ LoopInv'
  BY <1>1, SameUndefined, SameLoop DEF LIInv, LifeInv
<1> QED
  BY <1>3, <1>4, <1>5, <1>6 DEF LifeInv

\* A new runner takes the place of a null one, and its updater comes with it.
LEMMA KeepRunnerLife ==
  ASSUME LIInv, NEW t \in Threads, KeepRunner(t)
  PROVE  LifeInv' /\ LoopInv'
<1> DEFINE h0 == Head(todo)
<1>1. /\ pc[t] = "keep" /\ \A u \in Threads \ {t} : pc'[u] = pc[u]
      /\ pc'[t] = IF Len(todo) = 1 THEN "done" ELSE "make"
      /\ runner' = [runner EXCEPT ![h0] = made] /\ todo' = Tail(todo)
      /\ made' = made /\ undefined' = undefined /\ broken' = broken
      /\ idle' = idle /\ held' = held /\ ptr' = ptr /\ option' = option
      /\ inited' = inited /\ Lazy' = Lazy /\ Shared' = Shared /\ deaf' = deaf /\ mode' = mode
  BY LifeTypes DEF LIInv, KeepRunner, Goto, poolVars, Lazy, Shared
<1>2. /\ Lazy /\ ~inited /\ made # Null /\ made \notin set.had
      /\ \A h \in Holders : runner[h] # made
      /\ \A u \in Threads \ {t} : pc[u] \notin Creating
  BY <1>1, LifeTypes, OneCreates DEF LIInv, LifeInv, CreationInv, LoopInv, Creating
<1>3. /\ todo # <<>> /\ IsInjective(todo) /\ Len(todo) <= Len(idle) /\ Len(todo) \in Nat
      /\ Len(idle) \in Nat
  <2>1. todo # <<>>
    BY <1>1, LifeTypes DEF LIInv, IInv, InitInv
  <2>2. IsInjective(todo) /\ Len(todo) <= Len(idle)
    BY <1>1 DEF LIInv, LifeInv, CreationInv, Creating
  <2>3. Len(todo) \in Nat /\ Len(idle) \in Nat
    BY LifeTypes DEF LIInv
  <2> QED BY <2>1, <2>2, <2>3
<1>4. /\ h0 \in Holders /\ Len(todo') = Len(todo) - 1 /\ IsInjective(todo')
      /\ ToSet(todo') = ToSet(todo) \ {h0} /\ todo' \in Seq(Holders)
  BY <1>1, <1>3, LifeTypes, TailFacts DEF LIInv
<1>5. runner'[h0] = made /\ \A h \in Holders \ {h0} : runner'[h] = runner[h]
  BY <1>1, <1>4, LifeTypes DEF LIInv
<1> HIDE DEF h0
<1>6. pc'[t] \in Creating /\ pc'[t] # "keep" /\ (pc'[t] = "done" => todo' = <<>>)
  BY <1>1, <1>3, <1>4 DEF Creating
<1>7. /\ set'.at = set.at /\ set'.end = set.end /\ set'.to = set.to /\ set'.had = set.had
      /\ set'.ok = set.ok
      /\ IF Shared THEN updaters' = updaters ELSE updaters' = Append(updaters, made)
  BY LifeTypes DEF LIInv, KeepRunner, Calls
<1>8. /\ Len(updaters) \in Nat /\ DOMAIN updaters = 1..Len(updaters)
      /\ DOMAIN updaters \subseteq DOMAIN updaters'
      /\ \A i \in DOMAIN updaters : updaters'[i] = updaters[i]
      /\ ~Shared => /\ \A i \in DOMAIN updaters' : i \in DOMAIN updaters \/ updaters'[i] = made
                    /\ \E i \in DOMAIN updaters' : updaters'[i] = made
  <2>1. updaters \in Seq(Nat) /\ made \in Nat
    BY LifeTypes DEF LIInv
  <2>2. /\ Len(updaters) \in Nat /\ DOMAIN updaters = 1..Len(updaters)
        /\ DOMAIN Append(updaters, made) = 1..(Len(updaters) + 1)
        /\ \A i \in 1..Len(updaters) : Append(updaters, made)[i] = updaters[i]
        /\ Append(updaters, made)[Len(updaters) + 1] = made
    BY <2>1
  <2>3. CASE Shared
    BY <1>7, <2>2, <2>3
  <2>4. CASE ~Shared
    BY <1>7, <2>2, <2>4
  <2> QED
    BY <2>3, <2>4
<1>9. CreationInv'
  <2>1. \A h \in Holders : runner'[h] = Null => h \in ToSet(todo')
    BY <1>1, <1>2, <1>4, <1>5 DEF LIInv, LifeInv, CreationInv, Creating
  <2>2. Len(todo') <= Len(idle')
    BY <1>1, <1>3, <1>4
  <2> QED
    BY <1>1, <1>2, <1>4, <1>6, <2>1, <2>2 DEF LIInv, LifeInv, CreationInv, Creating
<1>10. PtrInv'
  BY <1>1, <1>2, <1>6 DEF LIInv, LifeInv, PtrInv, CreationInv, Creating
<1>11. ~broken => UnbrokenInv'
  <2> SUFFICES ASSUME ~broken PROVE UnbrokenInv'
    OBVIOUS
  <2>1. UnbrokenInv /\ \A h \in ToSet(todo) : runner[h] = Null
    BY <1>1, <1>2 DEF LIInv, LifeInv, UnbrokenInv, Creating
  <2>2. runner[h0] = Null
    <3>1. h0 = todo[1] /\ 1 \in DOMAIN todo
      BY <1>3, LifeTypes DEF LIInv, h0
    <3> QED
      BY <2>1, <3>1 DEF ToSet
  <2>3. Lost' = {} /\ Len(todo') # Len(idle')
    <3>1. Lost' = Lost /\ Len(idle') = Len(idle)
      BY <1>1 DEF Lost
    <3>2. Lost = {}
      BY <2>1 DEF UnbrokenInv
    <3>3. Len(todo') # Len(idle)
      BY <1>3, <1>4
    <3> QED
      BY <3>1, <3>2, <3>3
  <2>4. ASSUME NEW i \in DOMAIN updaters' PROVE updaters'[i] # Null /\ Alive(updaters[i])'
    <3>1. CASE i \in DOMAIN updaters
      <4>1. updaters[i] # Null /\ Alive(updaters[i]) /\ updaters'[i] = updaters[i]
        BY <1>8, <2>1, <3>1 DEF UnbrokenInv
      <4>2. CASE Shared
        BY <1>1, <2>3, <4>1, <4>2 DEF Alive
      <4>3. CASE ~Shared
        <5>1. PICK h \in Holders : runner[h] = updaters[i]
          BY <4>1, <4>3 DEF Alive
        <5>2. runner'[h] = updaters'[i]
          BY <1>5, <2>2, <4>1, <5>1
        <5> QED
          BY <1>1, <4>1, <4>3, <5>2 DEF Alive
      <4> QED
        BY <4>2, <4>3
    <3>2. CASE i \notin DOMAIN updaters
      <4>1. ~Shared /\ updaters'[i] = made
        BY <1>7, <1>8, <3>2
      <4> QED
        BY <1>1, <1>2, <1>4, <1>5, <4>1 DEF Alive
    <3> QED
      BY <3>1, <3>2
  <2>5. \A h \in ToSet(todo') : runner'[h] = Null
    <3>1. ToSet(todo) \subseteq Holders
      <4>1. \A i \in DOMAIN todo : todo[i] \in Holders
        BY LifeTypes DEF LIInv
      <4> QED
        BY <4>1 DEF ToSet
    <3> QED
      BY <1>4, <1>5, <2>1, <3>1
  <2> QED
    BY <1>1, <1>2, <1>6, <2>3, <2>4, <2>5 DEF UnbrokenInv, Creating
<1>12. UndefinedInv'
  BY <1>1, SameUndefined DEF LIInv, LifeInv
<1>13. LoopInv'
  <2>1. \A h \in Holders \ {h0} : Pointee(h)' = Pointee(h)
    BY <1>1, <1>5 DEF Pointee
  <2>2. \A x : Served(x)' = Served(x)
    BY <1>1, <1>7 DEF Served
  <2>3. ASSUME NEW h \in Holders, Shared \/ runner'[h] # Null
        PROVE  \E i \in DOMAIN updaters' : updaters'[i] = Pointee(h)'
    <3>1. CASE Shared
      BY <1>1, <1>7, <3>1 DEF LIInv, LoopInv, Pointee
    <3>2. CASE ~Shared /\ h = h0
      BY <1>1, <1>5, <1>8, <3>2 DEF Pointee
    <3>3. CASE ~Shared /\ h # h0
      <4>1. PICK i \in DOMAIN updaters : updaters[i] = Pointee(h)
        BY <1>5, <2>3, <3>3 DEF LIInv, LoopInv
      <4> QED
        BY <1>8, <2>1, <3>3, <4>1
    <3> QED
      BY <3>1, <3>2, <3>3
  <2>4. ASSUME set'.at # 0
        PROVE  /\ ~set'.ok
               /\ \A i \in 1..set'.end : i < set'.at => Served(updaters[i])'
               /\ \A h \in Holders : runner'[h] \in set'.had =>
                    \E i \in 1..set'.end : updaters'[i] = Pointee(h)'
    <3>1. /\ ~set.ok /\ \A i \in 1..set.end : i < set.at => Served(updaters[i])
          /\ \A h \in Holders : runner[h] \in set.had =>
               \E i \in 1..set.end : updaters[i] = Pointee(h)
      BY <1>7, <2>4 DEF LIInv, LoopInv
    <3>2. 1..set.end \subseteq DOMAIN updaters
      BY <1>7, <1>8, <2>4, LifeTypes DEF LIInv, IInv, SetInv
    <3>3. \A h \in Holders : runner'[h] \in set.had => h # h0 /\ runner[h] \in set.had
      BY <1>2, <1>5
    <3>4. \A i \in 1..set.end : i < set.at => Served(updaters[i])'
      BY <1>1, <1>7, <1>8, <3>1, <3>2 DEF Served
    <3>5. ASSUME NEW h \in Holders, runner'[h] \in set.had
          PROVE  \E i \in 1..set.end : updaters'[i] = Pointee(h)'
      BY <1>8, <2>1, <3>1, <3>2, <3>3, <3>5
    <3> QED
      BY <1>7, <3>1, <3>4, <3>5
  <2>5. SetReachesRunners'
    <3>1. SetReachesRunners
      BY DEF LIInv, LoopInv
    <3>2. \A h \in Holders : runner'[h] \in set.had => h # h0
      BY <1>2, <1>5
    <3> QED
      BY <1>1, <1>5, <1>7, <3>1, <3>2 DEF SetReachesRunners
  <2>6. \A u \in Threads : pc'[u] # "keep"
    BY <1>1, <1>2, <1>6 DEF Creating
  <2>7. set'.had \subseteq 1..made'
    BY <1>1, <1>7 DEF LIInv, LoopInv
  <2>8. Shared' = Shared
    BY <1>1
  <2> QED
    BY <2>3, <2>4, <2>5, <2>6, <2>7, <2>8 DEF LoopInv
<1> QED
  BY <1>1, <1>9, <1>10, <1>11, <1>12, <1>13 DEF LifeInv

\* From here on every runner in the queue is one.
LEMMA InitDoneLife ==
  ASSUME LIInv, NEW t \in Threads, InitDone(t)
  PROVE  LifeInv' /\ LoopInv'
<1>1. /\ pc[t] = "done" /\ pc'[t] = "get" /\ \A u \in Threads \ {t} : pc'[u] = pc[u]
      /\ inited' = TRUE /\ todo' = todo /\ broken' = broken
      /\ made' = made /\ undefined' = undefined
      /\ idle' = idle /\ held' = held /\ ptr' = ptr /\ option' = option /\ runner' = runner
      /\ Lazy' = Lazy /\ updaters' = updaters /\ set' = set
      /\ UNCHANGED qosVars
  BY LifeTypes DEF LIInv, InitDone, Goto, poolVars, qosVars, Lazy
<1>2. Lazy /\ ~inited /\ \A u \in Threads : pc'[u] \notin Creating
  <2>1. \A u \in Threads \ {t} : pc[u] \notin Creating
    BY <1>1, OneCreates DEF LIInv, Creating
  <2>2. "get" \notin Creating /\ "done" \in Creating
    BY DEF Creating
  <2> QED
    BY <1>1, <2>1, <2>2, LifeTypes DEF LIInv, LifeInv, CreationInv
<1>3. \A h \in Holders : runner[h] # Null
  <2>1. todo = <<>> /\ \A h \in Holders : runner[h] = Null => h \in ToSet(todo)
    BY <1>1 DEF LIInv, LifeInv, CreationInv, Creating
  <2> QED
    BY <2>1 DEF ToSet
<1>4. ToSet(idle) = Holders
  BY <1>2, FullQueue DEF LIInv, LifeInv, CreationInv
<1>5. CreationInv'
  BY <1>1, <1>2 DEF LIInv, LifeInv, CreationInv, Creating
<1>6. PtrInv'
  BY <1>1, <1>3, <1>4 DEF LIInv, LifeInv, PtrInv
<1>7. ~broken => UnbrokenInv'
  BY <1>1, SameTargets DEF LIInv, LifeInv, UnbrokenInv
<1>8. UndefinedInv' /\ LoopInv'
  BY <1>1, SameUndefined, SameLoop DEF LIInv, LifeInv
<1> QED
  BY <1>1, <1>5, <1>6, <1>7, <1>8 DEF LifeInv

-----------------------------------------------------------------------------
\* The queue: what is taken has a runner, and goes from the queue to a thread.
LEMMA TakeLife ==
  ASSUME LIInv, NEW t \in Threads, NEW from \in {"get", "woken"}, Take(t, from)
  PROVE  LifeInv' /\ LoopInv'
<1>1. /\ idle # <<>> /\ pc[t] = from /\ pc'[t] = "run"
      /\ \A u \in Threads \ {t} : pc'[u] = pc[u]
      /\ held'[t] = Head(idle) /\ \A u \in Threads \ {t} : held'[u] = held[u]
      /\ ptr'[t] = runner[Head(idle)] /\ \A u \in Threads \ {t} : ptr'[u] = ptr[u]
      /\ idle' = Tail(idle)
      /\ made' = made /\ undefined' = undefined /\ broken' = broken /\ option' = option
      /\ runner' = runner /\ inited' = inited /\ todo' = todo /\ Lazy' = Lazy
      /\ Shared' = Shared /\ updaters' = updaters /\ set' = set /\ UNCHANGED qosVars
  BY LifeTypes DEF LIInv, Take, Goto, initVars, qosVars, Lazy, Shared
<1>2. (Lazy => inited) /\ \A u \in Threads : pc[u] \notin Creating
  BY <1>1, NobodyCreates DEF LIInv, LifeInv
<1>3. \A u \in Threads : pc'[u] \notin Creating
  BY <1>1, <1>2 DEF Creating
<1>4. Head(idle) \in ToSet(idle) /\ ToSet(idle') = ToSet(idle) \ {Head(idle)}
  <2>1. Head(idle) = idle[1] /\ 1 \in DOMAIN idle
    BY <1>1, LifeTypes DEF LIInv
  <2>2. IsInjective(idle)
    BY DEF LIInv, IInv, PoolInv
  <2>3. Head(idle) \in ToSet(idle)
    BY <2>1 DEF ToSet
  <2>4. ToSet(Tail(idle)) = ToSet(idle) \ {Head(idle)}
    BY <1>1, <2>2, LifeTypes, TailFacts DEF LIInv
  <2> QED
    BY <1>1, <2>3, <2>4
<1>5. CreationInv'
  BY <1>1, <1>2, <1>3 DEF LIInv, LifeInv, CreationInv, Creating
<1>6. PtrInv'
  <2>1. made # 0 => runner[Head(idle)] # Null
    BY <1>2, <1>4 DEF LIInv, LifeInv, PtrInv
  <2> QED
    BY <1>1, <1>4, <2>1 DEF LIInv, LifeInv, PtrInv
<1>7. ~broken => UnbrokenInv'
  <2> SUFFICES ASSUME ~broken PROVE UnbrokenInv'
    OBVIOUS
  <2>1. UnbrokenInv
    BY DEF LIInv, LifeInv
  <2>2. held[t] = Null
    BY <1>1 DEF LIInv, IInv, PoolInv
  <2>3. ASSUME NEW h \in Holders, h \notin ToSet(idle') PROVE \E u \in Threads : held'[u] = h
    <3>1. CASE h = Head(idle)
      BY <1>1, <3>1
    <3>2. CASE h # Head(idle)
      <4>1. PICK u \in Threads : held[u] = h
        BY <1>4, <2>1, <2>3, <3>2 DEF UnbrokenInv, Lost
      <4>2. u # t
        BY <2>2, <4>1, SizeFacts
      <4> QED
        BY <1>1, <4>1, <4>2
    <3> QED
      BY <3>1, <3>2
  <2>4. Lost' = {}
    BY <2>3 DEF Lost
  <2>5. \A i \in DOMAIN updaters' : Alive(updaters[i])'
    BY <1>1, <2>1, <2>4 DEF UnbrokenInv, Alive
  <2> QED
    BY <1>1, <1>2, <2>1, <2>4, <2>5 DEF UnbrokenInv
<1>8. UndefinedInv' /\ LoopInv'
  BY <1>1, SameUndefined, SameLoop DEF LIInv, LifeInv
<1> QED
  BY <1>1, <1>5, <1>6, <1>7, <1>8 DEF LifeInv

LEMMA PutLife ==
  ASSUME LIInv, NEW t \in Threads, Put(t)
  PROVE  LifeInv' /\ LoopInv'
<1>1. /\ pc[t] = "put" /\ pc'[t] = "out"
      /\ \A u \in Threads \ {t} : pc'[u] = pc[u] \/ (pc[u] = "sleep" /\ pc'[u] = "woken")
      /\ held'[t] = Null /\ \A u \in Threads \ {t} : held'[u] = held[u]
      /\ \A u \in Threads \ {t} : ptr'[u] = ptr[u]
      /\ idle' = Append(idle, held[t])
  <2>1. /\ pc[t] = "put" /\ idle' = Append(idle, held[t])
        /\ held' = [held EXCEPT ![t] = Null] /\ ptr' = [ptr EXCEPT ![t] = Null]
    BY DEF Put
  <2>2. \/ pc' = [pc EXCEPT ![t] = "out"]
        \/ \E u \in Sleeping : pc' = [pc EXCEPT ![t] = "out", ![u] = "woken"]
    BY DEF Put
  <2>3. /\ pc'[t] = "out"
        /\ \A u \in Threads \ {t} : pc'[u] = pc[u] \/ (pc[u] = "sleep" /\ pc'[u] = "woken")
    <3>1. CASE pc' = [pc EXCEPT ![t] = "out"]
      BY <3>1, LifeTypes DEF LIInv
    <3>2. ASSUME NEW v \in Sleeping, pc' = [pc EXCEPT ![t] = "out", ![v] = "woken"]
          PROVE  /\ pc'[t] = "out"
                 /\ \A u \in Threads \ {t} :
                      pc'[u] = pc[u] \/ (pc[u] = "sleep" /\ pc'[u] = "woken")
      <4>1. v \in Threads /\ pc[v] = "sleep" /\ v # t
        BY <2>1 DEF Sleeping
      <4> QED
        BY <3>2, <4>1, LifeTypes DEF LIInv
    <3> QED
      BY <2>2, <3>1, <3>2
  <2> QED
    BY <2>1, <2>3, LifeTypes DEF LIInv
<1>2. /\ made' = made /\ undefined' = undefined /\ broken' = broken /\ option' = option
      /\ runner' = runner /\ inited' = inited /\ todo' = todo /\ Lazy' = Lazy
      /\ Shared' = Shared /\ updaters' = updaters /\ set' = set /\ UNCHANGED qosVars
  BY DEF Put, initVars, qosVars, Lazy, Shared
<1>3. (Lazy => inited) /\ \A u \in Threads : pc[u] \notin Creating /\ pc'[u] \notin Creating
  BY <1>1, NobodyCreates DEF LIInv, LifeInv, Creating
<1>4. held[t] \in Holders /\ ToSet(idle') = ToSet(idle) \union {held[t]}
  <2>1. held[t] # Null
    BY <1>1 DEF LIInv, IInv, PoolInv
  <2>2. held[t] \in Holders
    BY <2>1, LifeTypes DEF LIInv
  <2> QED
    BY <1>1, <2>2, LifeTypes, AppendFacts DEF LIInv
<1>5. CreationInv'
  <2>1. \A u \in Threads : pc'[u] = "lock" => pc[u] = "lock"
    BY <1>1
  <2> QED
    BY <1>1, <1>2, <1>3, <2>1 DEF LIInv, LifeInv, CreationInv, Creating
<1>6. PtrInv'
  <2>1. made # 0 => runner[held[t]] # Null
    BY <1>1 DEF LIInv, LifeInv, PtrInv
  <2>2. made # 0 => \A h \in ToSet(idle) : runner[h] # Null
    BY <1>3 DEF LIInv, LifeInv, PtrInv
  <2> QED
    BY <1>1, <1>2, <1>4, <2>1, <2>2 DEF LIInv, LifeInv, PtrInv
<1>7. ~broken => UnbrokenInv'
  <2> SUFFICES ASSUME ~broken PROVE UnbrokenInv'
    OBVIOUS
  <2>1. UnbrokenInv
    BY DEF LIInv, LifeInv
  <2>2. ASSUME NEW h \in Holders, h \notin ToSet(idle') PROVE \E u \in Threads : held'[u] = h
    <3>1. PICK u \in Threads : held[u] = h
      BY <1>4, <2>1, <2>2 DEF UnbrokenInv, Lost
    <3>2. u # t
      BY <1>4, <2>2, <3>1
    <3> QED
      BY <1>1, <3>1, <3>2
  <2>3. Lost' = {}
    BY <2>2 DEF Lost
  <2>4. \A i \in DOMAIN updaters' : Alive(updaters[i])'
    BY <1>2, <2>1, <2>3 DEF UnbrokenInv, Alive
  <2> QED
    BY <1>2, <1>3, <2>1, <2>3, <2>4 DEF UnbrokenInv
<1>8. UndefinedInv' /\ LoopInv'
  <2>1. \A u \in Threads : pc'[u] # "keep"
    BY <1>3 DEF Creating
  <2> QED
    BY <1>2, <2>1, SameUndefined, SameLoop DEF LIInv, LifeInv
<1> QED
  BY <1>2, <1>5, <1>6, <1>7, <1>8 DEF LifeInv

\* A computation that throws takes its runner along, which nobody else has.
LEMMA RunThrowsLife ==
  ASSUME LIInv, NEW t \in Threads, RunThrows(t)
  PROVE  LifeInv' /\ LoopInv'
<1>1. /\ pc[t] = "run" /\ pc'[t] = "out" /\ \A u \in Threads \ {t} : pc'[u] = pc[u]
      /\ runner' = [runner EXCEPT ![held[t]] = Null] /\ broken' = TRUE /\ undefined' = undefined
      /\ undefined = {}
      /\ \A u \in Threads \ {t} : held'[u] = held[u] /\ ptr'[u] = ptr[u]
      /\ idle' = idle /\ made' = made /\ option' = option /\ inited' = inited /\ todo' = todo
      /\ Lazy' = Lazy /\ Shared' = Shared /\ updaters' = updaters /\ set' = set
      /\ deaf' = deaf /\ mode' = mode
  BY LifeTypes DEF LIInv, RunThrows, Goto, Running, qosVars, Lazy, Shared
<1>2. (Lazy => inited) /\ \A u \in Threads : pc[u] \notin Creating
  BY <1>1, NobodyCreates DEF LIInv, LifeInv
<1>3. \A u \in Threads : pc'[u] \notin Creating
  BY <1>1, <1>2 DEF Creating
<1>4. /\ held[t] \in Holders /\ held[t] \notin ToSet(idle)
      /\ \A u \in Threads \ {t} : held[u] # held[t]
  BY <1>1, LifeTypes DEF LIInv, IInv, PoolInv
<1>5. runner'[held[t]] = Null /\ \A h \in Holders \ {held[t]} : runner'[h] = runner[h]
  BY <1>1, <1>4, LifeTypes DEF LIInv
<1>6. CreationInv'
  BY <1>1, <1>2, <1>3 DEF LIInv, LifeInv, CreationInv, Creating
<1>7. PtrInv'
  <2>1. ASSUME made # 0, NEW h \in ToSet(idle) PROVE runner'[h] # Null
    <3>1. h \in Holders
      <4>1. \A i \in DOMAIN idle : idle[i] \in Holders
        BY LifeTypes DEF LIInv
      <4> QED
        BY <4>1 DEF ToSet
    <3>2. runner[h] # Null
      BY <1>2, <2>1 DEF LIInv, LifeInv, PtrInv
    <3> QED
      BY <1>4, <1>5, <3>1, <3>2
  <2>2. ASSUME NEW u \in Threads, pc'[u] \in {"run", "put"}
        PROVE  ptr'[u] = runner'[held'[u]] /\ (made # 0 => ptr'[u] # Null)
    <3>1. u # t /\ pc[u] \in {"run", "put"}
      BY <1>1, <2>2
    <3>2. held[u] \in Holders \ {held[t]}
      BY <1>4, <3>1, LifeTypes DEF LIInv, IInv, PoolInv
    <3> QED
      BY <1>1, <1>5, <3>1, <3>2 DEF LIInv, LifeInv, PtrInv
  <2> QED
    BY <1>1, <2>1, <2>2 DEF PtrInv
<1>8. UndefinedInv'
  BY <1>1 DEF UndefinedInv, EagerIsDefined
<1>9. LoopInv'
  <2>1. \A h \in Holders \ {held[t]} : Pointee(h)' = Pointee(h)
    BY <1>1, <1>5 DEF Pointee
  <2>2. Null \notin set.had /\ set.had \subseteq 1..made /\ \A u \in Threads : pc'[u] # "keep"
    BY <1>3, LifeTypes DEF LIInv, LoopInv, Null, Creating
  <2>3. ASSUME NEW h \in Holders, Shared \/ runner'[h] # Null
        PROVE  \E i \in DOMAIN updaters : updaters[i] = Pointee(h)'
    <3>1. CASE Shared
      BY <1>1, <3>1 DEF LIInv, LoopInv, Pointee
    <3>2. CASE ~Shared
      <4>1. h # held[t] /\ runner[h] # Null
        BY <1>5, <2>3, <3>2
      <4> QED
        BY <2>1, <4>1 DEF LIInv, LoopInv
    <3> QED
      BY <3>1, <3>2
  <2>4. \A h \in Holders : runner'[h] \in set.had => h # held[t] /\ runner[h] \in set.had
    BY <1>5, <2>2
  <2>5. SetReachesRunners'
    BY <1>1, <2>4 DEF LIInv, LoopInv, SetReachesRunners
  <2>6. \A i \in 1..set.end : Served(updaters[i])' = Served(updaters[i])
    BY <1>1 DEF Served
  <2> QED
    BY <1>1, <2>1, <2>2, <2>3, <2>4, <2>5, <2>6 DEF LIInv, LoopInv
<1> QED
  BY <1>1, <1>6, <1>7, <1>8, <1>9 DEF LifeInv

\* A thread that reaches for a runner that is none.
LEMMA RunUndefinedLife ==
  ASSUME LIInv, NEW t \in Threads, RunUndefined(t)
  PROVE  LifeInv' /\ LoopInv' /\ ptr[t] = Null /\ made = 0
<1>1. /\ pc[t] = "run" /\ \A u \in Threads : pc'[u] = pc[u]
      /\ undefined' = {IF ptr[t] = Null THEN "null runner" ELSE "freed runner"}
      /\ ptr[t] = Null \/ \A h \in Holders : runner[h] # ptr[t]
      /\ idle' = idle /\ held' = held /\ ptr' = ptr /\ option' = option /\ runner' = runner
      /\ made' = made /\ inited' = inited /\ todo' = todo /\ broken' = broken
      /\ Lazy' = Lazy /\ updaters' = updaters /\ set' = set /\ UNCHANGED qosVars
  BY LifeTypes DEF LIInv, RunUndefined, Goto, poolVars, initVars, qosVars, Lazy
<1>2. held[t] \in Holders /\ ptr[t] = runner[held[t]] /\ (made # 0 => ptr[t] # Null)
  BY <1>1, LifeTypes DEF LIInv, IInv, PoolInv, LifeInv, PtrInv
<1>3. ptr[t] = Null /\ made = 0
  BY <1>1, <1>2
<1>4. Lazy
  BY <1>3, LifeTypes, DpuOpAssumption DEF LIInv, LifeInv, CreationInv
<1>5. UndefinedInv'
  BY <1>1, <1>3, <1>4 DEF UndefinedInv, EagerIsDefined
<1>6. CreationInv' /\ PtrInv'
  BY <1>1 DEF LIInv, LifeInv, CreationInv, PtrInv
<1>7. ~broken => UnbrokenInv'
  BY <1>1, SameTargets DEF LIInv, LifeInv, UnbrokenInv
<1>8. LoopInv'
  BY <1>1, SameLoop DEF LIInv
<1> QED
  BY <1>1, <1>3, <1>5, <1>6, <1>7, <1>8 DEF LifeInv

-----------------------------------------------------------------------------
\* The thread that sets the workload type touches neither runners nor queue.
LEMMA SetLife ==
  ASSUME LIInv, SetStep \/ \E to \in Modes : SetBegins(to)
  PROVE  LifeInv'
<1>1. /\ idle' = idle /\ held' = held /\ ptr' = ptr /\ option' = option /\ runner' = runner
      /\ made' = made /\ inited' = inited /\ todo' = todo /\ broken' = broken /\ pc' = pc
      /\ Lazy' = Lazy /\ updaters' = updaters
  BY DEF SetStep, Update, UpdateUnsupported, UpdateThrows, UpdateUndefined, SetEnds, SetBegins,
         poolVars, initVars, qosVars, Lazy
<1>2. ~set.moved => ~set'.moved
  <2>1. CASE Update \/ UpdateUnsupported
    <3>1. set' = [set EXCEPT !.at = @ + 1]
      BY <2>1 DEF Update, UpdateUnsupported
    <3> QED
      BY <3>1, LifeTypes DEF LIInv, Calls
  <2>2. CASE UpdateThrows \/ SetEnds
    <3>1. set' = [set EXCEPT !.at = 0] \/ set' = [set EXCEPT !.at = 0, !.ok = TRUE]
      BY <2>2 DEF UpdateThrows, SetEnds
    <3> QED
      BY <3>1, LifeTypes DEF LIInv, Calls
  <2>3. ASSUME NEW to \in Modes, SetBegins(to) PROVE ~set'.moved
    BY <2>3 DEF SetBegins
  <2>4. CASE UpdateUndefined
    BY <2>4 DEF UpdateUndefined, qosVars
  <2> QED
    BY <2>1, <2>2, <2>3, <2>4 DEF SetStep
<1>3. CreationInv' /\ PtrInv'
  BY <1>1, <1>2 DEF LIInv, LifeInv, CreationInv, PtrInv
<1>4. ~broken => UnbrokenInv'
  BY <1>1, SameTargets DEF LIInv, LifeInv, UnbrokenInv
<1>5. UndefinedInv'
  <2>1. CASE UpdateUndefined
    <3>1. /\ AtUpdater /\ (set.moved \/ ~Alive(Target))
          /\ undefined' = {IF set.moved THEN "moved vector" ELSE "freed runner of an updater"}
      BY <2>1 DEF UpdateUndefined
    <3>2. ASSUME ~Lazy, ~broken PROVE FALSE
      <4>1. ~set.moved /\ \A i \in DOMAIN updaters : Alive(updaters[i])
        BY <3>2 DEF LIInv, LifeInv, CreationInv, UnbrokenInv
      <4>2. set.at \in DOMAIN updaters
        <5>1. set.at \in 1..set.end /\ set.end <= Len(updaters)
          <6>1. set.at \in 1..set.end
            BY <3>1 DEF AtUpdater
          <6>2. set.at # 0
            BY <6>1
          <6> QED
            BY <6>1, <6>2 DEF LIInv, IInv, SetInv
        <5> QED
          BY <5>1, LifeTypes DEF LIInv
      <4> QED
        BY <3>1, <4>1, <4>2 DEF Target
    <3> QED
      BY <1>1, <3>1, <3>2 DEF UndefinedInv, EagerIsDefined
  <2>2. CASE undefined' = undefined
    BY <1>1, <2>2, SameUndefined DEF LIInv, LifeInv
  <2> QED
    BY <2>1, <2>2 DEF SetStep, Update, UpdateUnsupported, UpdateThrows, SetEnds, SetBegins
<1> QED
  BY <1>1, <1>3, <1>4, <1>5 DEF LifeInv

\* What one turn of the loop leaves behind it is served.
LEMMA SetLoop ==
  ASSUME LIInv, SetStep \/ \E to \in Modes : SetBegins(to)
  PROVE  LoopInv'
<1>1. runner' = runner /\ made' = made /\ option' = option /\ pc' = pc /\ updaters' = updaters
  BY DEF SetStep, Update, UpdateUnsupported, UpdateThrows, UpdateUndefined, SetEnds, SetBegins,
         initVars, qosVars
<1>2. Shared' = Shared /\ \A h : Pointee(h)' = Pointee(h)
  BY <1>1 DEF Shared, Pointee
<1>3. ASSUME NEW to \in Modes, SetBegins(to) PROVE LoopInv'
  <2>1. set' = [at |-> 1, end |-> Len(updaters), moved |-> FALSE, to |-> to,
                had |-> {runner[h] : h \in Holders} \ {Null}, ok |-> FALSE]
    BY <1>3 DEF SetBegins
  <2>2. /\ set'.at = 1 /\ set'.end = Len(updaters) /\ ~set'.ok
        /\ set'.had = {runner[h] : h \in Holders} \ {Null}
    BY <2>1
  <2>3. DOMAIN updaters = 1..Len(updaters)
    BY LifeTypes DEF LIInv
  <2>4. set'.had \subseteq 1..made
    BY <2>2, LifeTypes DEF LIInv, Null
  <2>5. \A t \in Threads : pc[t] = "keep" => made \notin set'.had
    BY <2>2 DEF LIInv, LifeInv, CreationInv
  <2>6. \A h \in Holders : runner[h] \in set'.had =>
          \E i \in 1..set'.end : updaters[i] = Pointee(h)
    BY <2>2, <2>3 DEF LIInv, LoopInv
  <2>7. SetReachesRunners'
    BY <2>2 DEF SetReachesRunners
  <2>8. \A i \in 1..set'.end : ~(i < set'.at)
    BY <2>2, <2>3
  <2> QED
    BY <1>1, <1>2, <2>2, <2>4, <2>5, <2>6, <2>7, <2>8 DEF LIInv, LoopInv
<1>4. CASE UpdateUndefined
  BY <1>1, <1>4, SameLoop DEF LIInv, UpdateUndefined
<1>5. CASE UpdateThrows
  <2>1. set.at # 0 /\ set' = [set EXCEPT !.at = 0]
    BY <1>5 DEF UpdateThrows, AtUpdater
  <2>2. set'.at = 0 /\ set'.ok = set.ok /\ set'.had = set.had /\ ~set.ok
    BY <2>1, LifeTypes DEF LIInv, LoopInv, Calls
  <2>3. SetReachesRunners'
    BY <2>2 DEF SetReachesRunners
  <2> QED
    BY <1>1, <1>2, <2>2, <2>3 DEF LIInv, LoopInv
<1>6. CASE Update \/ UpdateUnsupported
  <2>1. /\ set.at \in 1..set.end /\ set' = [set EXCEPT !.at = @ + 1]
    BY <1>6 DEF Update, UpdateUnsupported, AtUpdater
  <2>2. /\ set'.at = set.at + 1 /\ set'.end = set.end /\ set'.ok = set.ok
        /\ set'.had = set.had /\ set'.to = set.to /\ set.at # 0
    BY <2>1, LifeTypes DEF LIInv, Calls
  <2>3. ~set.ok /\ \A i \in 1..set.end : i < set.at => Served(updaters[i])
    BY <2>2 DEF LIInv, LoopInv
  <2>4. SetReachesRunners'
    BY <2>2, <2>3 DEF SetReachesRunners
  <2>5. \A i \in 1..set.end : Served(updaters[i]) => Served(updaters[i])'
    <3>1. CASE Update
      <4>1. deaf' = deaf /\ (mode' = mode \/
              mode' = [x \in DOMAIN mode \union {Target} |->
                         IF x = Target THEN set.to ELSE mode[x]])
        BY <3>1 DEF Update
      <4> QED
        BY <1>1, <2>2, <4>1 DEF Served
    <3>2. CASE UpdateUnsupported
      BY <1>1, <2>2, <3>2 DEF UpdateUnsupported, Served
    <3> QED
      BY <1>6, <3>1, <3>2
  <2>6. ASSUME NEW i \in 1..set.end, i = set.at PROVE Served(updaters[i])'
    <3>1. CASE Update
      <4>1. CASE Target \in deaf
        BY <1>1, <2>6, <3>1, <4>1 DEF Update, Target, Served
      <4>2. CASE Target \notin deaf
        <5>1. mode' = [x \in DOMAIN mode \union {Target} |->
                         IF x = Target THEN set.to ELSE mode[x]]
          BY <3>1, <4>2 DEF Update
        <5>2. Target \in DOMAIN mode' /\ mode'[Target] = set.to
          BY <5>1
        <5> QED
          BY <1>1, <2>2, <2>6, <5>2 DEF Target, Served
      <4> QED
        BY <4>1, <4>2
    <3>2. CASE UpdateUnsupported
      BY <1>1, <2>6, <3>2 DEF UpdateUnsupported, Target, Served
    <3> QED
      BY <1>6, <3>1, <3>2
  <2>7. \A i \in 1..set.end : i < set.at + 1 => i < set.at \/ i = set.at
    BY LifeTypes DEF LIInv
  <2>8. \A i \in 1..set'.end : i < set'.at => Served(updaters[i])'
    BY <2>2, <2>3, <2>5, <2>6, <2>7
  <2> QED
    BY <1>1, <1>2, <2>2, <2>3, <2>4, <2>8 DEF LIInv, LoopInv
<1>7. CASE SetEnds
  <2>1. /\ set.at > set.end /\ set' = [set EXCEPT !.at = 0, !.ok = TRUE]
        /\ deaf' = deaf /\ mode' = mode
    BY <1>7 DEF SetEnds
  <2>2. /\ set'.at = 0 /\ set'.had = set.had /\ set'.to = set.to /\ set.at # 0
    BY <2>1, LifeTypes DEF LIInv, Calls
  <2>3. SetReachesRunners'
    <3> SUFFICES ASSUME NEW h \in Holders, runner[h] \in set.had, Pointee(h) \notin deaf
                 PROVE  Pointee(h) \in DOMAIN mode /\ mode[Pointee(h)] = set.to
      BY <1>1, <1>2, <2>1, <2>2 DEF SetReachesRunners, Pointee
    <3>1. PICK i \in 1..set.end : updaters[i] = Pointee(h)
      BY <2>2 DEF LIInv, LoopInv
    <3>2. i < set.at
      BY <2>1, LifeTypes DEF LIInv
    <3>3. Served(updaters[i])
      BY <2>2, <3>2 DEF LIInv, LoopInv
    <3> QED
      BY <3>1, <3>3 DEF Served
  <2> QED
    BY <1>1, <1>2, <2>2, <2>3 DEF LIInv, LoopInv
<1> QED
  BY <1>3, <1>4, <1>5, <1>6, <1>7 DEF SetStep

-----------------------------------------------------------------------------
LEMMA InitLife == Init => LifeInv /\ LoopInv
<1> SUFFICES ASSUME Init PROVE LifeInv /\ LoopInv
  OBVIOUS
<1> USE DpuOpAssumption, SizeFacts
<1>1. CreationInv
  BY DEF Init, CreationInv, Creating
<1>2. PtrInv
  <2>1. ToSet(idle) = Holders
    BY DEF Init, ToSet
  <2>2. made # 0 => \A h \in Holders : runner[h] # Null
    BY DEF Init
  <2>3. \A t \in Threads : pc[t] = "out"
    BY DEF Init
  <2> QED
    BY <2>1, <2>2, <2>3 DEF PtrInv
<1>3. UnbrokenInv
  <2>1. Lost = {}
    BY DEF Init, Lost, ToSet
  <2>2. ~Lazy => \A h \in Holders : runner[h] = h
    BY DEF Init
  <2>3. Lazy => \A h \in Holders : runner[h] = Null
    BY DEF Init
  <2>4. \A t \in Threads : pc[t] \notin Creating
    BY DEF Init, Creating
  <2>5. \A i \in DOMAIN updaters : updaters[i] # Null /\ Alive(updaters[i])
    <3>1. CASE Lazy /\ ~Shared
      BY <3>1 DEF Init
    <3>2. CASE ~(Lazy /\ ~Shared)
      BY <2>1, <2>2, <3>2 DEF Init, Alive
    <3> QED
      BY <3>1, <3>2
  <2> QED
    BY <2>1, <2>2, <2>3, <2>4, <2>5 DEF UnbrokenInv
<1>4. UndefinedInv
  BY DEF Init, UndefinedInv, EagerIsDefined
<1>5. LoopInv
  <2>1. \A h \in Holders : Shared \/ runner[h] # Null =>
          \E i \in DOMAIN updaters : updaters[i] = Pointee(h)
    <3> SUFFICES ASSUME NEW h \in Holders, Shared \/ runner[h] # Null
                 PROVE  \E i \in DOMAIN updaters : updaters[i] = Pointee(h)
      OBVIOUS
    <3>1. updaters = [k \in Holders |-> k] /\ Pointee(h) = h
      BY DEF Init, Pointee
    <3> QED
      BY <3>1
  <2>2. /\ set.had = {} /\ set.at = 0 /\ ~set.ok /\ \A t \in Threads : pc[t] = "out"
    BY DEF Init
  <2> QED
    BY <2>1, <2>2 DEF LoopInv, SetReachesRunners
<1> QED
  BY <1>1, <1>2, <1>3, <1>4, <1>5 DEF LifeInv

LEMMA NextLife == LIInv /\ [Next]_vars => LIInv'
<1> SUFFICES ASSUME LIInv, [Next]_vars PROVE LifeInv' /\ LoopInv'
  BY NextKeepsIInv DEF LIInv
<1>1. ASSUME NEW t \in Threads, Compute(t) PROVE LifeInv' /\ LoopInv'
  <2> DEFINE to == IF ~inited /\ Lazy THEN "lock" ELSE "get"
  <2>1. Goto(t, "out", to) /\ UNCHANGED <<poolVars, initVars, qosVars, undefined>>
    BY <1>1 DEF Compute
  <2>2. /\ "out" \in Places \ Creating /\ to \in Places \ Creating
        /\ to \notin {"run", "put"} /\ (~Lazy => to # "lock")
        /\ (Lazy /\ ~inited => to \in {"out", "lock"})
    BY DEF Places, Creating
  <2> HIDE DEF to
  <2> QED
    BY <2>1, <2>2, QuietLife
<1>2. ASSUME NEW t \in Threads, NEW from \in {"get", "woken"}, Sleep(t, from)
      PROVE  LifeInv' /\ LoopInv'
  <2>1. Goto(t, from, "sleep") /\ UNCHANGED <<poolVars, initVars, qosVars, undefined>>
    BY <1>2 DEF Sleep
  <2>2. Lazy => inited
    BY <2>1, NobodyCreates DEF LIInv, LifeInv, Goto
  <2>3. from \in Places \ Creating /\ "sleep" \in Places \ Creating
    BY DEF Places, Creating
  <2> QED
    BY <2>1, <2>2, <2>3, QuietLife
<1>3. ASSUME NEW t \in Threads, SpuriousWakeup(t) PROVE LifeInv' /\ LoopInv'
  <2>1. Goto(t, "sleep", "woken") /\ UNCHANGED <<poolVars, initVars, qosVars, undefined>>
    BY <1>3 DEF SpuriousWakeup
  <2>2. Lazy => inited
    BY <2>1, NobodyCreates DEF LIInv, LifeInv, Goto
  <2>3. "woken" \in Places \ Creating /\ "sleep" \in Places \ Creating
    BY DEF Places, Creating
  <2> QED
    BY <2>1, <2>2, <2>3, QuietLife
<1>4. ASSUME NEW t \in Threads, Run(t) PROVE LifeInv' /\ LoopInv'
  <2>1. Goto(t, "run", "put") /\ UNCHANGED <<poolVars, initVars, qosVars, undefined>>
    BY <1>4 DEF Run
  <2>2. Lazy => inited
    BY <2>1, NobodyCreates DEF LIInv, LifeInv, Goto
  <2>3. "run" \in Places \ Creating /\ "put" \in Places \ Creating
    BY DEF Places, Creating
  <2> QED
    BY <2>1, <2>2, <2>3, QuietLife
<1>5. ASSUME NEW t \in Threads, InitStep(t) PROVE LifeInv' /\ LoopInv'
  BY <1>5, LockInitLife, MakeRunnerLife, MakeRunnerThrowsLife, KeepRunnerLife, InitDoneLife
     DEF InitStep
<1>6. ASSUME NEW t \in Threads, RunStep(t) PROVE LifeInv' /\ LoopInv'
  BY <1>2, <1>4, <1>6, TakeLife, PutLife, RunThrowsLife, RunUndefinedLife
     DEF RunStep, GetIdleRequest
<1>7. CASE UNCHANGED vars
  <2>1. UNCHANGED <<poolVars, initVars, qosVars, pc, undefined>>
    BY <1>7 DEF vars
  <2>2. CreationInv' /\ PtrInv' /\ UndefinedInv' /\ LoopInv'
    BY <2>1, SameUndefined, SameLoop
       DEF LIInv, LifeInv, CreationInv, PtrInv, poolVars, initVars, qosVars, Lazy
  <2>3. ~broken => UnbrokenInv'
    BY <2>1, SameTargets DEF LIInv, LifeInv, UnbrokenInv, poolVars, initVars, qosVars, Lazy
  <2> QED
    BY <2>1, <2>2, <2>3 DEF LifeInv, initVars
<1> QED
  BY <1>1, <1>3, <1>5, <1>6, <1>7, SetLife, SetLoop DEF Next

LEMMA LifeHolds == Spec => []LIInv
<1>1. Init => LIInv
  BY InitIInv, InitLife DEF LIInv
<1> QED
  BY <1>1, NextLife, PTL DEF Spec

\* With runners made by the constructor nothing is undefined before the first
\* exception, whoever sets the workload type meanwhile; and no computation
\* ever has a runner that was destroyed.
THEOREM EagerStaysDefined == Spec => []EagerIsDefined
<1>1. LIInv => EagerIsDefined
  BY DEF LIInv, LifeInv, UndefinedInv
<1> QED
  BY <1>1, LifeHolds, PTL

\* A thread runs without a runner only if nobody ever made one: the flag was
\* TRUE before it was written.
THEOREM NullMeansNeverMade == Spec => NullOnlyByGarbage
<1>1. LIInv /\ [Next]_vars => [("null runner" \in undefined') => made = 0]_vars
  <2> SUFFICES ASSUME LIInv, Next, "null runner" \in undefined' PROVE made = 0
    OBVIOUS
  <2>1. CASE undefined' = undefined
    BY <2>1 DEF LIInv, LifeInv, UndefinedInv
  <2>2. ASSUME NEW t \in Threads, RunUndefined(t) PROVE made = 0
    BY <2>2, RunUndefinedLife
  <2>3. CASE UpdateUndefined
    BY <2>3 DEF UpdateUndefined
  <2> QED
    BY <2>1, <2>2, <2>3
       DEF Next, Compute, InitStep, LockInit, MakeRunner, MakeRunnerThrows, KeepRunner, InitDone,
           RunStep, GetIdleRequest, Take, Sleep, Run, RunThrows, Put, SpuriousWakeup, SetBegins,
           SetStep, Update, UpdateUnsupported, UpdateThrows, SetEnds
<1> QED
  BY <1>1, LifeHolds, PTL DEF Spec, NullOnlyByGarbage

\* Until something throws, an updater points to a runner that some holder has,
\* or to a hardware context that is in use.
THEOREM UpdatersAlive == Spec => []UpdatersPointToRunners
<1>1. LIInv => UpdatersPointToRunners
  BY DEF LIInv, LifeInv, UnbrokenInv, UpdatersPointToRunners
<1> QED
  BY <1>1, LifeHolds, PTL

\* A change of the workload type that returned has reached every runner that
\* was there when it began.
THEOREM ChangeReachesRunners == Spec => []SetReachesRunners
<1>1. LIInv => SetReachesRunners
  BY DEF LIInv, LoopInv
<1> QED
  BY <1>1, LifeHolds, PTL
=============================================================================
