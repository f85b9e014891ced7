# Verification of the Vitis AI execution provider (vaip)

vaip is the code behind onnxruntime's Vitis AI execution provider. It is
called when an inference session is created: it runs a pipeline of passes over
the ONNX graph, cuts out the subgraphs the NPU can run (a *meta_def* each),
keeps the result in a cache, and hands one execution provider per meta_def back
to onnxruntime, which later has each of them create a *custom op* and calls the
custom op's `Compute` from its own threads.

These TLA+ modules model the parts of vaip whose correctness depends on order:
who writes the cache when, what a session believes of a cache somebody else
wrote, what comes back from an archive, who computes with which runner, which
nodes become one subgraph, and what a graph means after rules were applied to
each other's results. Paths below are relative to `src/`.

* [Inventory](#inventory)
* [Modules and the code](#modules-and-the-code)
* [Runs](#runs), [fairness](#fairness), [findings](#findings)
* [Proofs](#proofs)
* [What is not modelled](#what-is-not-modelled)
* [Plan](#plan)

## Inventory

| Component | State | Operations | Hard part | Correct when |
|---|---|---|---|---|
| Compile session and context cache, `vaip/src/vitisai_compile_model.cpp`, `file_lock.cpp`, `cache_dir.cpp` | `context_proto`, the static mutex, `.lock`, `log_dir/context.json` | `compile_onnx_model_3`: lock, look for a cache, run the passes, save, read back, create providers, save again; `create_ep_context_nodes_c` | threads and processes on the same files, exceptions on every path, crashes | within a process, and apart from a third save beside another session and from a kill in a save, nobody reads half a document and one compilation decides the meta_defs; a session keeps its own key and settings; one in memory leaves the disk alone |
| Cache file store, `pass_context_imp.cpp` | `cache_files_`, temporary files, files in `log_dir` | open for read and for write, close | its mode is recomputed at each call and may change under open files | a custom op reads the file that was stored |
| Archive, `tar_ball.cpp` | the position in a stream of blocks | `TarWriter::write`, `TarReader::read` | long names, sizes at block boundaries, damage | what was written is read back |
| EPContext models, `vitisai_compile_model.cpp` | archive in the model, restored context | write the archive, restore it, create the custom ops, close the files after the last | two modes on either side, sessions that unpack over each other | each custom op finds its files, and its key |
| DPU custom op, `vaip_custom_op_dpu/src` | queue of runners, `initialized_`, QoS updaters | constructor, `Compute`, set the workload type | threads, lazy creation, condition variable, exceptions | a runner has one user, nobody waits in vain, no object is used after its end |
| Pass runner, `pass_imp.cpp`, `with_current_graph.hpp` | current graph, list of passes | run a node action until nothing matches, collect garbage, restore the current graph | termination, changes under iteration, exceptions | every match is found, the walk ends, the current graph exists |
| Constant pool, `pass_imp.cpp` | bytes, index, lazy functions | create, alias, fetch | names created twice, functions shared by aliases, functions that read other constants later | a name always has its own bytes, written once |
| Rewrite rules, anchor points, `rewrite_rule.cpp`, `anchor_point.cpp`, `vaip_pass_fuse_transpose/` | the graph, chains of transformations between tensors | match, build a node, append to a chain, follow it | orders and their inverses, rules on each other's results | the graph computes what it did, a chain leads to the original tensor |
| level1_dpu, `vaip_pass_level1_dpu/` and its sub passes | the clone, the current graph | clone, run the sub passes, export, hand to the compiler | sub passes meet each other's results; exceptions after the graph was switched | as above, from the model to the export |
| level1_dd partitioner, `vaip_pass_level1_dd_cxx/` | labels, clusters, queue | merge along an order, merge along edges with a check | stale subgraph names, a check that is undone by hand | subgraphs hold one target and form no loop |
| Fusing, `pass.cpp`, `graph.cpp` | graph, meta_defs | `try_fuse`, `virtual_fuse`, `fuse` | loops through nodes left outside, islands, earlier fusions | the fused graph is acyclic and every value has its producer |
| Pattern matcher, `pattern/` | binder of the partial match | match of each kind of pattern | commutable inputs, alternatives, repeated nodes | sound, and complete up to its strategy |
| Shared XRT contexts, `xrt_shared_context/` | weak stores, QoS | create, update QoS | lifetime, unlocked read-modify-write | contexts are shared while they are used |
| Configuration, plugins, statistics, encryption, optimizer entry, passes, Python passes, other custom ops, glue | | | | see `PROJECT.json` |

How they interact. onnxruntime calls `compile_onnx_model_3` on the thread that
creates the session. It owns a `PassContextImp`, which carries the
`context_proto` and the cache file store; passes write files into the store
(compiled subgraphs, encrypted if a key is set) and add meta_defs to the
`context_proto`. The execution providers share the context. A session that
exports its model (`ep.context_enable`) is called again through
`create_ep_context_nodes_c`, which archives the whole store into the main
EPContext node; a session that loads such a model unpacks it, through the same
`compile_onnx_model_3` and under the same mutex. Custom ops read the store when
they are created, and from then on live on the runtime's threads. Among the
passes, `level1_dpu` and `level1_dd_cxx` are small pipelines of their own: each
clones the graph, runs sub passes on the clone, decides there what the NPU
takes, and fuses those nodes in the graph of the session. A DPU custom
op leaves QoS updaters in the context, through which
`vitisai_ep_set_ep_dynamic_options` later reaches it.

The hazards this code is exposed to are listed, each at its line and with the
properties that watch it, in `PROJECT.json`.

## Modules and the code

```
OnceCache  <-- refinement --  CompileCache  <-- MCCompileCache
                                  ^-- CompileCacheProofs
Archive    <-- refinement --  TarBall       <-- MCTarBall
                                  ^-- TarBallProofs
CacheFiles <-- EXTENDS ------ EpContext     <-- MCEpContext
                                  ^-- EpContextProofs
RunnerPool <-- refinement --  DpuOp         <-- MCDpuOp
                                  ^-- DpuOpProofs

Dags <- Partitioner, Fusing <- Level1DD <- MCLevel1DD
                         ^-- Level1DDProofs (of Partitioner, Fusing too)
Tensors, Dags <- ConstPool <- Rewriting <- Level1Dpu <- LayoutMeaning <- MCLevel1Dpu
                                   MeaningProofs --> LayoutProofs --> Level1DpuProofs
```

`PROJECT.json` maps every definition to the lines it stands for.

**CompileCache** models one model (one cache key, hence one `log_dir`) that any
number of threads of any number of processes load. `pc[t]` walks through
`compile_onnx_model_3`: `mtx` (the `static std::mutex`), `flock`
(`WithFileLock`), `exist` and `valid` (`check_cache_exist`, `cache_valid`),
`pass` (the passes add any number of meta_defs, or throw), `open1/write1/flush1`
(the deferred save of `update_cache`), `read` (`read_cache` and what
`compile_onnx_model_2` puts back), `eps`, `finish`, `funlock`,
`open2/write2/flush2` (the save of `deferred_write`, whose destructor runs
*after* that of the lock because it is declared before it), `unlock`; and for a
session with `ep.context_enable`, later, `ctx`, `open3/write3/flush3`, `close`.
A save is three steps, since the file is truncated by `fopen` and its buffer
written at `fclose`: the states of `file` are absent, empty, torn and whole.
`ctx[t]` keeps of a `ContextProto` how many meta_defs it has, two options, the
version, and *whose* key and settings it has; `memFile[t]` is the `context.json`
of the in-memory mode. `asked[t]` is what the caller chose: `ep.context_enable`,
a `cache_dir` of its own, `enable_cache_file_io_in_mem`, the CPU-only check.
`InMem` is `cache_in_mem()`, both branches of `WIN24_BUILD` included (the
constant `Win24Build`): the mode is recomputed at each call and may change with
a read-back. `spoilt` is a history variable, read by properties only: it becomes
TRUE when a third save (`create_ep_context_nodes_c`, under no lock) is open
beside a session that holds the mutex or makes its own third save, and when a
process dies with `context.json` open for writing. The mutant operators beside
the actions (`...Never`, `...WithoutGuard`) are the bugs that show what each
property is sensitive to; no specification uses them.

**OnceCache** is what a cache promises the disk sessions of one process, those
that embed it in the model included: a register that is written once. It can be
lost (`Lose`), which CompileCache does exactly when it is `spoilt`; after that
nothing is promised.

**TarBall** writes and reads an archive block by block: header, long-name entry
(`type "L"`) with a second header, data, padding, end marker; the counter of
both loops is an `int` over an unsigned size. The archive may be cut after any
block before it is read. **Archive** is the promise: the files come back in
order; from a damaged archive a prefix does; only the file at the point of the
damage, or one larger than the counter can count, is incomplete; and nothing is
promised from the first file with a long name on.

**CacheFiles** is the store of a `PassContextImp` as functions of the mode at
the moment of a call (`cache_in_mem()` is computed from the configuration each
time, and the configuration is replaced when a document is read).
`AfterRead` contains the `freopen` that closes the old `FILE*` and leaves it in
the map when the file is not on disk.

**EpContext** loads an EPContext model: take the mutex, unpack file after file
(a plain archive or a shared one with one entry per contents), read
`context.json`, one provider per node, release the mutex; then create custom
ops in any order, each reading its files, the last one closing all. Initial
states are all archives a saver in either mode can produce, with and without a
key, cut anywhere.

**DpuOp** is the DPU custom op after its constructor, in the four combinations
of the provider options that matter: runners made by the constructor or by the
first `Compute` (`lazy`: model categories PSS and PST), QoS updaters that point
to runners or to shared hardware contexts. `pc[t]` walks through `Compute`:
`lock` / `make` / `keep` / `done` is the creation under `init_mutex_`, `get` /
`sleep` / `woken` is `getIdleRequest` around its condition variable, `run` the
computation, `put` is `putIdleRequest`. Runners are numbered as they are made,
so that a pointer to one that was replaced can be told from a live one.
`SetBegins`, `Update*` and `SetEnds` are one call of
`vitisai_ep_set_ep_dynamic_options`: the loop over `qos_updaters_` is one step
per updater, `moved` records that `add_QosUpdater` may have moved the vector
under it. `initialized_` is written by no constructor, so it starts with either
value. Undefined behaviour ends the process and is recorded in `undefined`.
**RunnerPool** is the promise: a computation takes a runner nobody uses and
gives it back, or loses it.

**Dags** defines reachability, search and acyclicity without recursion: what is
reached from a set is in every set that contains it and is closed under the
edges. (`Searched` is the same as a recursive function, which TLC evaluates
faster.)

**Partitioner** is `partition_graph`. `phase` is the loop: `merge` walks along
the topological order and joins neighbours on the NPU without asking anything;
`scan` goes breadth first from the input nodes, `node` and `sg` being the
variables of the loop body, `todo` the children it has not tried. A subgraph is
named by its smallest node. `FuseChild` and `PassChild` are the two outcomes of
the inner `try_fuse`: fused, or fused, found to close a cycle, and undone.
`clusters` keeps the entries of absorbed subgraphs, and `sg` is not read again
when a fusion renames the subgraph of `node`, as in the code.

**Fusing** is `IPass_try_fuse` and `fuse` of the library, for any pass. A graph
is a record of nodes with the values they read and compute; `Followed` to
`CanFuse` are the steps of `try_fuse` in its order, each of its errors a
conjunct: the reverse search from the outputs that stops at the named inputs,
islands that join, return values and arguments, the search for a loop. `Fuse`
adds the meta_def and replaces the nodes (onnxruntime's part).

**Level1DD** composes the two: it clones the model, partitions the clone, reads
the boundary of each subgraph from the clone and fuses in the model, where
earlier subgraphs are single nodes already. Its `Init` chooses the graph: every
edge relation, every set of supported nodes, every topological order, outputs
besides the sinks, and what a node nobody needs reads. A failed `CHECK` is the
phase `check_failed`.

**Tensors** gives a tensor a meaning as far as layout is concerned, as the
sequence of what it is computed from, each part with the order of its axes.
Element-wise operators commute with a transposition, a convolution does not. An
operator on orders (`undo_order`, `undo_transpose_shape`, `Permuted`) is
computed as the code computes it.

**ConstPool** is the constants of a pass context: cells of `const_data`, names
that lead to them, closures of lazy constants, aliases that share both. A name
created twice keeps its first cell (`insert` of a protobuf map).

**Rewriting** is the graph under rewriting: the node builder with its two ways
to name a node (`set_anchor_point1` takes the name of the node replaced,
`set_anchor_point2` a new name and an entry of `origin_nodes`), `graph_gc`, and
five rules of `fuse_transpose`: through an operator with one input, through one
with two transposed inputs, with a transposed and a constant one, two transposes
into one, a transpose of a constant into a lazy constant. Where several match,
the model takes any of them, the `RuleChain` the first of its list.

**Level1Dpu** is `process` of the pass: the early return, the clone as current
graph, the sub passes (`phase`), each of which matches from the outputs, inputs
first, and starts again after each change, the export, and the catch clause,
which an exception may reach after any step. `EndPass` may or may not collect
garbage, since `enable_gc` is configuration. **LayoutMeaning** says what this
must preserve: the value of every node of a graph, and the properties.

## Runs

| Run | Instance | Question and answer |
|---|---|---|
| `threads` | CompileCache; one process, two threads, up to two meta_defs, four sessions in all, on disk, each strict or with `ep.context_enable`, with exceptions and one crash or failing open | Until `spoilt`: nobody reads a torn document, the first save decides how many meta_defs the model has (refinement of OnceCache), a compilation reads back what it saved. Every session ends |
| `procs` | CompileCache; two processes (two threads and one), up to one meta_def, three sessions, three kinds of them (embedded from disk unless the document says otherwise, in memory, on disk with the option to be in memory), one crash or failing open | What holds whatever fails: the section under the lock file has one occupant unless an `open` failed, two writers of `context.json` meet only through the third save or, across processes, the save after the unlock (or without the lock); a session in memory opens `context.json` for writing only when a failed read-back took its configuration; a session with providers has its own key and settings |
| `unlocked_save`, `stale_version`, `cpu_only` | CompileCache; two processes, one or two sessions, no fault | One documented statement each that the code does not meet, see [findings](#findings) |
| `archive` | TarBall; up to three files of 0 to 5 bytes in blocks of 2, a counter of 2 blocks, one long name, cut anywhere | The reader implements Archive |
| `long_names` | TarBall; one file with a long name, no damage | Finding |
| `load` | EpContext; two sessions, two custom ops with a private and a common file each, every pair of modes, plain and shared archive, any cut, one crash | Undefined file handling only where a context that unpacked into memory is switched to disk; custom ops that are created find whole files, except while another session unpacks or after a cut; loads end |
| `key` | EpContext; one session, one key | Finding |
| `partition` | Level1DD; all acyclic graphs of four nodes, every set of supported nodes, every topological order, one extra output or one node nobody needs | Subgraphs hold one target and never form a loop, though the name of a subgraph may be stale and the first loop checks nothing; each becomes one meta_def, no `CHECK` fails, the model stays acyclic and every value keeps its producer |
| `rewriting` | Level1Dpu; all models of an input, an initializer and three nodes (relu, fix, transpose by two orders, add, conv), two shapes of the initializer, every order of walks, garbage collection or not, an exception anywhere | The graph computes what it did after every step, lazy constants included; shapes and anchor points agree with it; constants can be fetched and are written once; the walks end; the current graph exists |
| `compute` | DpuOp; three threads, two runners, three computations, one change of the workload type, all four option combinations, any creation or run throwing | The queue is a RunnerPool; no wake-up is lost; updaters point to live objects until something throws; the constructor-made case never runs into undefined behaviour before an exception; only the uninitialised flag yields a null runner; a change that returns reached every runner; `Compute` ends unless all runners were lost |

Why these bounds. The sessions of CompileCache interact only through the mutex,
the lock file and `context.json`; a third session sees whatever two others left
behind, and one fault per run puts a failure at every step of every session,
with sessions left to meet its consequences. In `threads` two threads are enough
for one to meet the other at any label, and the fourth session finds what a
third save, a fault, and a session after them left. Up to two meta_defs tell
"no", "some" and "all" apart. Sessions of `threads` either refuse to run on the
CPU only or embed their cache, and `procs` mixes the modes, so that every kind
of session meets every other. For the archive, sizes 0 to 5 with blocks of 2 give
empty files, full and partial last blocks, and files above the counter; what
happens to a file depends on its predecessor only through the position, so three
suffice. EpContext needs two sessions to interfere and two custom ops for "not
the last one". In DpuOp, three threads over two runners is the least with a
sleeper, a woken thread and one that overtakes; two runners are needed for a
creation that throws half way. Three computations let each thread compute, or
one compute again after the others' exceptions; two sleepers at once would take
a fourth, and are left to the theorem for `NoLostWakeup`. In `partition` the
name of a subgraph gets stale with three nodes; the fourth is a further subgraph
between the two, or beside them, and what the run says of the partition the
theorems say of every graph. The node nobody needs reads the input, an inner
node or the last one, so that it joins the first body, a later one or none; one
that reads two values, and several other outputs, are left to the theorems,
which bound neither. In `rewriting` three nodes are what the rules need: a
transpose, an operator that reads it, and a neighbour that is rewritten or
folded before or after; the models are all graphs of that size, so both inputs
of an addition may be one node, and a node may have two readers. The two orders
are each other's inverse and neither is its own, without which a wrong direction
would not show; the two shapes of the initializer tell a convolution in NHWC
from one in NCHW. The counters `MaxDefs`, `MaxSessions`, `MaxFaults`,
`MaxCrashes`, `MaxComputes`, `MaxSets`, `MaxExtra` and `MaxNew` are bounds of
the model, not of the code; `MaxNew` never binds in the run, or `PassEnds` would
fail.

Symmetry is used only in `procs` (the threads of one process, with no liveness
property). Two runs with nothing but invariants have a `VIEW`, which leaves out
what no later step and no property of the run reads: in `procs` what an idle
thread was asked and returned, `spoilt`, and the fields of `context.json` beyond
meta_defs and mode; in `partition`, once the nodes are labelled, the order and
the loop variables of the partitioner. `CHECK_DEADLOCK FALSE` is set everywhere:
the runs end when the bounds are used up and every session, load, computation or
pass has finished.

### Fairness

* CompileCache: weak fairness of each thread's steps, as the operating system
  schedules it; strong fairness of taking the mutex and the lock file, since a
  thread that waits for them while others take and leave them gets them in the
  end. Nobody is obliged to start a session, to crash or to fail. `SessionEnds`
  needs the strong form only because the waiting is not queued.
* EpContext: weak fairness of each session's steps, none for starting.
* DpuOp: weak fairness of each thread inside `Compute` and of the thread that
  sets the workload type. Nobody is obliged to compute; a spurious wake-up may
  never come, and `NoLostWakeup` is the reason none is needed.
* Level1Dpu: weak fairness of `Work`, all steps but an exception, because one
  thread runs the passes to their end. That some step of a rule is always
  enabled until the pass is left, and that there are only finitely many, is what
  `PassEnds` shows; the fairness does not choose between rules.

### Findings

Each is a run that checks one property and finds it violated.

1. `unlocked_save`: `deferred_write` is declared before `lock` in
   `compile_onnx_model_3` (vitisai_compile_model.cpp:1138, 1144), so the last
   save truncates and rewrites `context.json` when the lock file is already
   released. A second process reads a partial document, which the `CHECK` at
   line 147 asserts never happens. The third save (line 796) takes no lock at
   all, and does the same to another session of the *same* process: that session
   fails the `CHECK` with no meta_defs and saves those over the cache. The
   properties about one process exempt it (`spoilt`).
2. `stale_version`: `cache_valid` logs a version mismatch and returns `true`.
3. `cpu_only`: `vaip_disable_cpu_only_inference` counts meta_defs, not execution
   providers: when their creation throws the session goes on without any.
4. `long_names`: `TarWriter::write` puts the length of the *name* into the size
   field of a file with a long name (an inner `size` hides the parameter).
5. `key`: the context restored from an EPContext model has no encryption key.

Behaviour the models show that no document contradicts, hence no run of its
own: a `Compute` that throws takes its runner out of the queue for good (`Lose`
in RunnerPool, and the exception in `ComputeEnds`); after a creation or a
computation threw, QoS updaters point to destroyed runners (`~broken` in
`UpdatersPointToRunners`); `initialized_` is read before it was ever written
(`NullOnlyByGarbage`); the first `Compute` of a PSS or PST model may append to
`qos_updaters_` under the loop that sets the workload type (`~Lazy` in
`EagerIsDefined`); a store unpacked into memory and switched to disk by the
restored configuration uses a closed `FILE*` (`UndefinedOnlyOutOfMemory`).

In the passes:

* The rule for two transposed operands records `{0, 2, 3, 1}` in the anchor
  points of its new nodes whatever order it removed (vaip_pass_fuse_transpose
  pass_main.cpp:294). It is right for the transposes the layout pass makes;
  `AnchorsLeadBack` exempts these anchor points (`assumed`), and fails without
  the exemption.
* A fusion with a child whose subgraph has the smaller name leaves `sg` stale
  (partitioner.cpp:262-268). Whatever it is tried with next either changes
  nothing or makes two subgraphs point at each other, which `is_dag` sees: that
  is why `ClustersMatchLabels` holds.
* A body takes in islands in the order of their indices, so an island that
  depends on another joins only if it comes later. An island that reads a graph
  input makes that input a *constant initializer* of the meta_def
  (pass.cpp:467-472).

## Proofs

All theorems hold for every value of the constants that satisfies the module's
named assumption: any finite or infinite number of threads and processes, any
number of meta_defs, sessions and faults for CompileCache, any finite set of
threads and 1 to 8 runners (the range `num_of_dpu_runners` is checked for,
custom_op.cpp:198) for DpuOp.

**CompileCacheProofs.** `TypeCorrect`. `LocksHold`: the inductive invariant
`LockInv` says for every label who owns the mutex and the lock file, and that
the lock file is held by a process with a thread that holds it. The two
exclusion properties are not inductive, because "at most one writer" says
nothing about a thread that is about to write; `LockInv` pins the owner at each
label, and `Exclusion` (`LockedSectionExclusive`) and `OverlapBounded`
(`OverlapOnlyAfterUnlock`) follow from it by case analysis. `SettingsRestored`
rests on `SettingsInv`, which says at which labels `ctx` has the session's own
key and settings. `MemoryStaysOffDisk` (`InMemoryStaysOffDisk`) rests on
`MemInv`: a document in a session's memory was written by that session and says
that it is in memory, so only a read-back that fails takes the mode away.

The other three are about one process that uses its cache (`OneProcess`), for
any number of threads and sessions, any options and any faults. `FileInv` says
of `context.json`, until it is spoilt, that it is absent until the first save,
open for one writer at a time and beside nobody who holds the mutex, and whole
otherwise; the mutex and the exemption are what keep the second save of one
session, and the third of another, apart from everybody's reads.
`WholeUntilSpoilt` (`TornOnlyOnceSpoilt`) follows. `RegInv` adds that a whole
document agrees with the session that is about to be answered from it, and
`ImplementsOnceCache` that each step is one of the write-once register's under
the mapping `CachedDefs` (the meta_defs of the document, or of the session that
is writing it) and `eps`; it assumes that no session starts in memory
(`OneDiskProcess`), since those do not share the document. `OwnSaveReadBack` is
for sessions on disk and in memory again: one that reaches its read-back has
either no meta_defs, because it did not run the passes, or those of the document
it will read (`HitInv`).

**TarBallProofs.** For any files, no two with one name (`cache_files_` is a
`std::map`), any length of names, block size and counter. The inductive
invariant `TapeInv` says that there is a number `p` of files with short names
the archive starts with, the next one having a long name or not being written,
and for each the offset of its header, so that (`Slots`) whatever part of it the
archive still has is its own; that nothing but the end marker comes after them if
they are all (`Ends`); and that the reader stands at the header of the next of
them (`At`). Beyond `p` nothing is known of the reader, which is out of step
there. Where the files start is existentially quantified: a definition of the
offsets would be recursive over the files. From it `TypesHold` and
`ImplementsArchive`, the refinement of Archive step by step: a file that is read
to its end is whole exactly if the counter can count its blocks (`SizeFacts`), one
that is cut is not, and names tell the files apart.

**EpContextProofs.** For any number of sessions, custom ops and files, any order
and sharing of the entries of the archive, all modes, cuts and crashes. `WalkInv`
says how many entries a session has unpacked at each label and whose mode it has
before and after `context.json` is read; `DocInv` that nobody saves another mode;
`HandleInv` where a `FILE*` of the map can lead to in each combination of the
caller's mode and the restored one, and that what was unpacked is in the map until
the last custom op closes it; `WholeInv` that a file is not whole only while a
session fills it, or where a killed session left it and no session has unpacked it
since. The last needs `HandleInv` (a file in memory is not on disk) and the
mutex. From them `TypesHold`, `UndefinedOnlyThen`, `FilesAreFound` (from an
undamaged archive no custom op misses a file) and the action property `TornThen`.

**DpuOpProofs.** The inductive invariant `IInv` adds to `TypeOK` who owns
`init_mutex_` and what is left to create (`InitInv`), that the loop over the
updaters stays inside the vector (`SetInv`), and that a thread holds a runner
exactly from `getIdleRequest` to `putIdleRequest`, alone, while it is not idle,
the queue having no duplicates (`PoolInv`); without the last clause, giving a
runner back could put it into the queue twice. From it `DpuTypeCorrect`,
`RunnersExclusive`, `PoolRefinement` (the queue implements RunnerPool, step by
step) and `WakeupsKept`: `NoLostWakeup` is inductive together with `IInv`,
since each `putIdleRequest` adds one idle runner and wakes one thread if any
sleeps, and each thread that leaves the set of woken threads takes a runner or
finds none.

The second half shows that what the op refers to exists. To `IInv` the invariant
`LIInv` adds: runners are made under the mutex while no thread computes
(`CreationInv`); what is taken from the queue once the flag was written has a
runner (`PtrInv`); until an exception nothing is lost and a creation replaces
null runners only, so that no updater is left behind (`UnbrokenInv`); and how far
the loop over the updaters has come: whatever had a runner when the call began
has an updater before the end the loop took then (`LoopInv`). Without
`CreationInv` a second creation could destroy the runner of a computation, and
without `LoopInv` an updater could be appended too late to be reached. From it
`EagerStaysDefined`, `NullMeansNeverMade`, `UpdatersAlive` and
`ChangeReachesRunners`.

**Level1DDProofs.** First the partition, for every finite acyclic graph,
topological order and set of supported nodes. The inductive invariant `PartInv`
has a part per loop. In the first, subgraphs are intervals of the order
(`Contiguous`), hence form no loop although nobody asks. In the second, the
entry of every name in use is the set of its nodes (`Matched`), and `sg` is
either the name of the subgraph of `node` or stale in one way only (`StaleSg`:
nobody uses the name, and its nodes went together to a smaller one). With a
stale `sg` the check that follows fails or nothing changes. The search of
`is_dag` is shown to see every cycle by well-founded induction along the acyclic
order before the fusion. From it `PartitionTypes`, `PartitionStaysAcyclic`,
`ClustersStayInStep`, `SubgraphsHaveOneTarget`.

Then the fusions. For every graph in which values have one
producer and there is no cycle, whatever is asked of `try_fuse`: what it accepts
leaves both true. The values a body reads from outside are computed from its
named inputs; what these depend on is closed under dependency and, by
`check_loop`, computes no return value. `ModelAcyclic` and `ModelWired` carry
this through the pass: the invariant is that the model is a graph in that sense
(`IsGraph`); nothing about the partition is needed.

Last, that the partition and the fusions fit together, for every model, outputs
and node that nobody needs. `Shaped` says what the model looks like when the
subgraphs in `O` are offloaded: the others have their nodes as in the clone; for
each of `O` there is a node that computes what the others or the model need of it
(perhaps more, when a node nobody needs reads it) and reads what it needs of
them; what else there is, nobody needs (`NobodyNeeds`). The clone has this shape
with `O` empty, so one argument serves the checks on both graphs. The search of
`try_fuse` finds exactly the subgraph (`SearchFindsSubgraph`), as every node of
it leads, inside, to an output of it (`LeadsToOutputs`). Only nodes that nobody
needs are islands (`IsolatedAreDead`). A value on the boundary has its producer
(`Producer`), and the inputs do not depend on what is returned, since a subgraph
is not its own ancestor (`NoReturn`, from `PartitionAcyclic`). The shape is kept
(`OffloadKeepsShape`), with one meta_def more. `NothingRejected`,
`OffloadedOnce`.

**Level1DpuProofs.** For all models, any number of nodes: the invariant
`GraphInv` says which names are in use (`NamesAreOld`), and that constants of
the graph and names of the pool are the same set outside the walk of a rule
(`ConstsInPool`, `OnlyConstsInPool`); `PoolInv` that names point into the pool,
that two names share a closure exactly if they share a cell, that a closure
reads an older constant, and that a cell is filled unless its closure is
pending. The second is needed because an alias alone would not tell that the
other name's closure fills the same cell. `AllFetchable`, `CellsAreWrittenOnce`,
`CurrentGraphRestored`.

**LayoutProofs.** For all models whose nodes have the number of inputs their
operator takes, three axes besides the batch, permutations as orders, operands of
one shape (`IsModel`: what the operators demand; that a broadcast may differ in
shape is left out with it). `LayoutInv` adds to `GraphInv` that every node has
its inputs, that they exist, and that its shape follows from theirs
(`AllNodes`), and that all names are older than `suffix_counter` (`NamesInv`).
Rules are taken one by one, through lemmas about putting one node into such a
graph; the collection keeps what the outputs depend on, since a search that stays
among finitely many nodes ends with the least closed set (`SearchedIsReached`).
`RewritingTyped`, `ShapesFollow`.

**MeaningProofs.** The clone computes what the model does. `Values` is
recursive, so nothing is known of it but its equations; the proof works with
solutions of these (`Meaning`): values `v` of all nodes that follow from their
args and from the data `d` of the constants, with ranks `r` that fall from a
node to its args. Ranks make the solution the only one (`MeaningIsUnique`),
hence the one `Values` denotes (`ValuesAreMeant`). `MeaningInv` says that the
clone has a solution which agrees with the model's wherever both have the name,
that nodes with fix info hold rounded values, and that `const_add_fix` only
meets such. Each rule extends the solution before it. This needs that transposes
compose and are undone, that element-wise operators commute with them and that
rounding twice is rounding once (lemmas on Tensors), and that creating, aliasing
and evaluating constants never changes what an older name holds
(`CreateLazyData`, `CreateAliasData`, `ForcedData`). Without ranks in the
invariant a rule might make a cycle whose equations have several solutions;
without the fix infos the fix put behind a constant might change it.
`ValuesPreserved`.

On top of this, `AnchorInv` says that the steps of an anchor point, if all are
exact, lead from the value its origin has in the model to the value of its node.
The value of a node a rule adds is read off the equations of the next graph, and
what it records is that step before those of the anchor point it extends. The
fold over the steps is again recursive: that it exists and is the only one is
shown by the least counterexample (`FoldExists`, `OneFold`). `AnchorsLead`.

Only model-checked: liveness (`SessionEnds`, `LoadEnds`, `ComputeEnds`,
`PassEnds`), which needs fairness and is out of the prover's reach.

## What is not modelled

* A build without boost, whose `WithFileLock` is a mutex of the process, is the
  value FALSE of `CrossProcessLock`, one without `WIN24_BUILD` the value FALSE of
  `Win24Build`: the theorems cover them, the runs use TRUE. Sessions that may not
  use the cache (`XLNX_ENABLE_CACHE=0`, the analyzer) are the value FALSE in
  `CacheUses`: they compile again and overwrite what was decided, so the runs and
  the theorems about one process use {TRUE}; the other theorems cover both.
  `ENABLE_TAR_CACHE`, which looks for a tar file beside `log_dir`, is off.
* `XLNX_ENABLE_SKIP_FATAL=0`, where a failing pass ends the process: to the
  others that is `Crash`.
* `optimize_onnx_model`, an entry with a cache of its own and no locks.
* Compression and ciphers; two contents with one checksum in a shared archive;
  several models in one shared archive beyond an entry that belongs to nobody.
* Of `level1_dpu`: the order of its sub passes is configuration, which is not in
  the repository; it is taken from what they presuppose of each other. The
  conversion to XIR operators, `flip_hw`, the batch axis (which no order moves)
  and data types are left out; that `create_const_op` skips an initializer,
  which depends on its type, is a choice in `Start`, and so no `CHECK` on data
  types is modelled but that no folded addition of two constants gets past the
  one of `Broadcast_op_tmpl` (ops/broadcast_op.hpp:32): operands of one shape
  fail it, and the pass is left as by any exception. A node whose data type no
  rule folds is left by `EndFold`, which may end the walk at any time. relu
  stands for the operators with one input, add for those with two, the
  convolution for those that depend on layout. The rules for qdq, reduce,
  concat, reshape, pad and tile have the same shape as those modelled and other
  attributes. The rule for an operand that is `is_tranpose_immune`
  (vaip_pass_fuse_transpose pass_main.cpp:452-538), which reshapes it, needs a
  tensor with at most one axis longer than one; `IsModel` excludes such tensors,
  and so nothing is said of graphs with them. The order of the rules in the
  `RuleChain` is left open (more behaviours than the code has).
* Of fusing: optional inputs; `level_1_fuse` and `level_2_fuse`, which repeat
  `try_fuse` and `fuse` for other passes; an input named twice in a request.
* Of level1_dd: how an operator is found to be supported (tables of shapes), the
  sub passes on the clone, the DOD metadata with the exceptions its preparation
  throws between `try_fuse` and `fuse`, when a boundary tensor has no consumer or
  producer in the clone or its producer no `out_dtypes` (fuse.cpp:452-455,
  552-555, 609): they leave the pass with the subgraphs fused so far.
* The compiler of subgraphs, the drivers and the runners, which are outside the
  repository.
* Numeric kernels, generated instruction and shape tables, and the data of other
  passes and custom ops, which are most of the repository's lines: they hold no
  state between calls whose order could matter, and the modules cover a small
  part of the lines for that reason.
* The data race on `initialized_` is taken as a sequentially consistent read of
  a `bool`.
* Components with status `not_modelled` in `PROJECT.json` give their reasons.

## Plan

Done, because it carries state across sessions, processes, threads and passes:
the compile cache, the archive and EPContext models, the DPU op; the constant
pool, rewriting with its anchor points through `level1_dpu`; partitioning and
fusing through `level1_dd_cxx`. Left, in this order:

1. **SharedContext**: weak stores of devices, xclbins and contexts, and the QoS
   of a context several custom ops share (`update_qos` reads, adds to and
   rewrites it without a lock), composed with DpuOp.
2. **Run options**: the thread_local state of a run (`g_state`), as an addition
   to DpuOp.
3. **PatternMatch**: `match_cached` as a function on small graphs against a
   declarative definition of a match, the binder's backtracking included.
4. `AnchorPoint::optimize` and `alias`: functions on chains against the meaning
   LayoutMeaning gives them.
5. CompileCache: archiving by `create_ep_context_nodes_c` as steps (it reads
   `log_dir/context.json` twice without a lock), composed with EpContext.
