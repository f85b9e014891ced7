----------------------------- MODULE EpContext -----------------------------
(***************************************************************************)
(* Sessions that load an EPContext model: the archive its main node        *)
(* carries is unpacked into the cache files of the session's context,      *)
(* context.json is read from there, one execution provider is created per  *)
(* EPContext node, and onnxruntime later has each of them create its       *)
(* custom op, which reads the cache files it needs.  The first part runs   *)
(* under the mutex of compile_onnx_model_3, the custom ops do not.         *)
(***************************************************************************)
EXTENDS CacheFiles, Sequences, SequencesExt

CONSTANTS
  NOps,       \* meta_defs of the model, hence EPContext nodes
  FilesOf,    \* the files the custom op of each of them reads
  Json,       \* the name of context.json
  FileOrder,  \* all names in the order of std::map, which is the archive's
  SharedOrder,\* the same of shared_ctx.bin: for each entry, in any order, the
              \* files that have these contents, none if it is another model's
  Keys,       \* encryption keys, Nobody for none
  Nobody,     \* no key, no session
  SaverModes, \* enable_cache_file_io_in_mem where the model was compiled
  LoaderModes,\* and where it is loaded
  MayBeCut,   \* the archive may have lost its end
  MaxCrashes  \* bound: crashes

ASSUME EpContextAssumption ==
  /\ NOps \in Nat \ {0}
  /\ Json \in FileNames
  /\ FilesOf \in [1..NOps -> SUBSET (FileNames \ {Json})]
  /\ FileOrder \in Seq(FileNames) /\ ToSet(FileOrder) = FileNames
  /\ SharedOrder \in Seq(SUBSET FileNames) /\ UNION ToSet(SharedOrder) = FileNames
  /\ \A group \in ToSet(SharedOrder) : Json \in group => group = {Json}
  /\ Nobody \notin Sessions
  /\ SaverModes \subseteq BOOLEAN /\ LoaderModes \subseteq BOOLEAN
  /\ MayBeCut \in BOOLEAN /\ MaxCrashes \in Nat

VARIABLES
  node,    \* the main EPContext node: the saver's mode, the key its files
           \* are encrypted with, the archive, the entries left of it, and
           \* whether a part of the next one is
  pc,      \* where each session is
  asked,   \* its mode and key, as its caller gave them
  ctx,     \* its context_proto: mode, key, number of meta_defs
  pos,     \* entries of the archive it has unpacked
  eps,     \* execution providers it got
  made,    \* custom ops it has created
  torn,    \* one of them read a file that was not whole
  crashes, \* crashes so far
  mtx      \* owner of the static mutex of compile_onnx_model_3

vars == <<node, pc, asked, ctx, pos, eps, made, torn, crashes, mtx, files>>

-----------------------------------------------------------------------------
(* The archive *)

\* Contents: context.json holds the mode and the number of meta_defs (no key,
\* save_context_json clears it); any other file is encrypted with the key.
Doc(mem, defs) == [type |-> "doc", mem |-> mem, defs |-> defs]
Data(key) == [type |-> "data", key |-> key]
Partial == [type |-> "partial"]
Contents == {Doc(mem, defs) : mem \in BOOLEAN, defs \in 0..NOps}
            \cup {Data(key) : key \in Keys \cup {Nobody}} \cup {Partial}

ASSUME NoneAssumption == None \notin Contents

\* One entry per file, in the order of cache_files_: the files to restore it
\* to, and its contents.
Entries(groups, mem, key) ==
  [i \in DOMAIN groups |->
    [to |-> groups[i], is |-> IF Json \in groups[i] THEN Doc(mem, NOps) ELSE Data(key)]]
Plain(mem, key) == Entries([i \in DOMAIN FileOrder |-> {FileOrder[i]}], mem, key)

SharedFirstOnly(mem, key) ==
  LET one(group) == IF group = {} THEN {} ELSE {CHOOSE f \in group : TRUE}
  IN Entries([i \in DOMAIN SharedOrder |-> one(SharedOrder[i])], mem, key)

\* shared_ctx.bin has one entry per contents, whatever the number of files
\* that have it, and entries of other models; ep_cache_md5s names the files.
Shared(mem, key) == Entries(SharedOrder, mem, key)

Goto(s, from, to) == pc[s] = from /\ pc' = [pc EXCEPT ![s] = to]
InMem(s) == ctx[s].mem

Fresh(s) == [mem |-> asked[s].mem, key |-> asked[s].key, defs |-> 0]
-----------------------------------------------------------------------------

\* A session compiled the model and create_ep_context_nodes_c archived its
\* cache files into the main EPContext node.
Init ==
  /\ \E mem \in SaverModes, key \in Keys \cup {Nobody} :
       \E archive \in {Plain(mem, key), Shared(mem, key)} :
         \E cut \in IF MayBeCut THEN 0..Len(archive) ELSE {Len(archive)} :
           \E part \in IF cut < Len(archive) THEN BOOLEAN ELSE {FALSE} :
             node = [mem |-> mem, key |-> key, archive |-> archive,
                     cut |-> cut, part |-> part]
  /\ pc = [s \in Sessions |-> "idle"]
  /\ asked \in [Sessions -> [mem : LoaderModes, key : {node.key}]]
  /\ ctx = [s \in Sessions |-> Fresh(s)]
  /\ pos = [s \in Sessions |-> 0]
  /\ eps = [s \in Sessions |-> 0]
  /\ made = [s \in Sessions |-> {}]
  /\ torn = [s \in Sessions |-> FALSE]
  /\ crashes = 0 /\ mtx = Nobody
  /\ FilesInit

\* compile_onnx_model_3 takes the mutex and initializes the context.
Start(s) ==
  /\ Goto(s, "idle", "untar")
  /\ mtx = Nobody /\ mtx' = s
  /\ UNCHANGED <<node, asked, ctx, pos, eps, made, torn, crashes, files>>

\* TarReader::read, one entry: the file is opened for writing, then filled.
Entry(s) == node.archive[pos[s] + 1]

UntarOpen(s) ==
  /\ pos[s] < node.cut
  /\ Goto(s, "untar", "fill")
  /\ Written(s, Entry(s).to, Partial, InMem(s))
  /\ UNCHANGED <<node, asked, ctx, pos, eps, made, torn, crashes, mtx>>

UntarFillMissesTwins(s) ==
  LET all == Entry(s).to
      some == IF all \subseteq {Json} THEN all ELSE {CHOOSE f \in all : TRUE}
  IN /\ Goto(s, "fill", "untar")
     /\ Written(s, some, Entry(s).is, InMem(s))
     /\ pos' = [pos EXCEPT ![s] = @ + 1]
     /\ UNCHANGED <<node, asked, ctx, eps, made, torn, crashes, mtx>>

UntarFill(s) ==
  /\ Goto(s, "fill", "untar")
  /\ Written(s, Entry(s).to, Entry(s).is, InMem(s))
  /\ pos' = [pos EXCEPT ![s] = @ + 1]
  /\ UNCHANGED <<node, asked, ctx, eps, made, torn, crashes, mtx>>

\* The archive was cut inside an entry: the file stays as it is and a CHECK
\* throws.
UntarThrows(s) ==
  /\ pos[s] = node.cut /\ node.part
  /\ Goto(s, "untar", "save")
  /\ Written(s, Entry(s).to, Partial, InMem(s))
  /\ UNCHANGED <<node, asked, ctx, pos, eps, made, torn, crashes, mtx>>

\* The end of the archive, or a cut between two entries.
UntarEnds(s) ==
  /\ pos[s] = node.cut /\ ~node.part
  /\ Goto(s, "untar", "read")
  /\ UNCHANGED <<node, asked, ctx, pos, eps, made, torn, crashes, mtx, files>>

\* update_pass_context_from_context_json_in_cache: everything but the
\* session_configs is replaced by the document, the key included; then
\* restore_cache_files opens every file again, in the mode of the document.
ReadJson(s) ==
  LET doc == Readable(s, Json, InMem(s)) IN
  /\ doc # None /\ doc.type = "doc"
  /\ Goto(s, "read", "eps")
  /\ ctx' = [ctx EXCEPT ![s] = [mem |-> doc.mem, key |-> Nobody, defs |-> doc.defs]]
  /\ handle' = [handle EXCEPT ![s] = [f \in FileNames |-> AfterRead(s, f, doc.mem)]]
  /\ UNCHANGED <<node, asked, pos, eps, made, torn, crashes, mtx, tmp, disk>>

\* No context.json: it is read through an empty std::optional.
ReadJsonMissing(s) ==
  /\ Readable(s, Json, InMem(s)) = None
  /\ Goto(s, "read", "undefined")
  /\ UNCHANGED <<node, asked, ctx, pos, eps, made, torn, crashes, mtx, files>>

\* One execution provider per EPContext node.
CreateEps(s) ==
  /\ ctx[s].defs = NOps
  /\ Goto(s, "eps", "save")
  /\ eps' = [eps EXCEPT ![s] = NOps]
  /\ UNCHANGED <<node, asked, ctx, pos, made, torn, crashes, mtx, files>>

CreateEpsThrowsKeepsList(s) ==
  /\ Goto(s, "eps", "save")
  /\ eps' = [eps EXCEPT ![s] = NOps - 1]
  /\ UNCHANGED <<node, asked, ctx, pos, made, torn, crashes, mtx, files>>

\* CHECK_EQ: context.json has another number of meta_defs than the model has
\* EPContext nodes. Or a plugin cannot be loaded.
CreateEpsThrows(s) ==
  /\ Goto(s, "eps", "save")
  /\ UNCHANGED <<node, asked, ctx, pos, eps, made, torn, crashes, mtx, files>>

\* The save that ends the session, and ~lock_guard.
SaveJson(s) ==
  /\ ~Dangling(s, {Json})
  /\ Goto(s, "save", IF eps[s] > 0 THEN "ops" ELSE "failed")
  /\ Written(s, {Json}, Doc(ctx[s].mem, ctx[s].defs), InMem(s))
  /\ mtx' = Nobody
  /\ UNCHANGED <<node, asked, ctx, pos, eps, made, torn, crashes>>

SaveJsonUndefined(s) ==
  /\ Dangling(s, {Json})
  /\ Goto(s, "save", "undefined")
  /\ UNCHANGED <<node, asked, ctx, pos, eps, made, torn, crashes, mtx, files>>

-----------------------------------------------------------------------------
(* onnxruntime has the execution providers create their custom ops *)

Reads(s, i) == {Readable(s, f, InMem(s)) : f \in FilesOf[i]}

AllCreatedOffByOne(s, done) == Cardinality(done) > ctx[s].defs
AllCreated(s, done) == Cardinality(done) = ctx[s].defs

\* The constructor of custom op i reads its files, then on_custom_op_create_end
\* closes every file if this was the last op.
CreateOp(s, i) ==
  /\ pc[s] = "ops" /\ i \notin made[s]
  /\ ~Dangling(s, FilesOf[i]) /\ None \notin Reads(s, i)
  /\ made' = [made EXCEPT ![s] = @ \cup {i}]
  /\ torn' = [torn EXCEPT ![s] = @ \/ Partial \in Reads(s, i)]
  /\ IF AllCreated(s, made'[s])
     THEN Closed(s) /\ pc' = [pc EXCEPT ![s] = "running"]
     ELSE /\ handle' = [handle EXCEPT ![s] =
               [f \in FileNames |-> IF f \in FilesOf[i] THEN AfterRead(s, f, InMem(s)) ELSE @[f]]]
          /\ UNCHANGED <<pc, tmp, disk>>
  /\ UNCHANGED <<node, asked, ctx, pos, eps, crashes, mtx>>

\* A file cannot be opened: a CHECK or std::optional::value() throws, and the
\* inference session cannot be created.
CreateOpThrows(s, i) ==
  /\ i \notin made[s]
  /\ ~Dangling(s, FilesOf[i]) /\ None \in Reads(s, i)
  /\ Goto(s, "ops", "failed")
  /\ UNCHANGED <<node, asked, ctx, pos, eps, made, torn, crashes, mtx, files>>

\* A FILE* that is closed is used once more.
CreateOpUndefined(s, i) ==
  /\ i \notin made[s]
  /\ Dangling(s, FilesOf[i])
  /\ Goto(s, "ops", "undefined")
  /\ UNCHANGED <<node, asked, ctx, pos, eps, made, torn, crashes, mtx, files>>

\* The process is killed and started again: of its files, those in log_dir
\* stay.
Crash ==
  /\ crashes < MaxCrashes /\ crashes' = crashes + 1
  /\ \E s \in Sessions : pc[s] # "idle"
  /\ pc' = [s \in Sessions |-> "idle"]
  /\ ctx' = [s \in Sessions |-> Fresh(s)]
  /\ pos' = [s \in Sessions |-> 0]
  /\ eps' = [s \in Sessions |-> 0]
  /\ made' = [s \in Sessions |-> {}]
  /\ torn' = [s \in Sessions |-> FALSE]
  /\ handle' = [s \in Sessions |-> [f \in FileNames |-> "none"]]
  /\ tmp' = [s \in Sessions |-> [f \in FileNames |-> None]]
  /\ mtx' = Nobody
  /\ UNCHANGED <<node, asked, disk>>

\* What a session does by itself once onnxruntime has started to load it.
Step(s) ==
  \/ UntarOpen(s) \/ UntarFill(s) \/ UntarThrows(s) \/ UntarEnds(s)
  \/ ReadJson(s) \/ ReadJsonMissing(s)
  \/ CreateEps(s) \/ CreateEpsThrows(s) \/ SaveJson(s) \/ SaveJsonUndefined(s)
  \/ \E i \in 1..NOps :
       CreateOp(s, i) \/ CreateOpThrows(s, i) \/ CreateOpUndefined(s, i)

Next == Crash \/ \E s \in Sessions : Start(s) \/ Step(s)

Spec == Init /\ [][Next]_vars

\* A session that has begun to load keeps running; none has to begin.
FairSpec == Spec /\ \A s \in Sessions : WF_vars(Step(s))

-----------------------------------------------------------------------------
(* Properties *)

\* Type invariant.
TypeOK ==
  /\ pc \in [Sessions -> {"idle", "untar", "fill", "read", "eps", "save", "ops",
                          "running", "failed", "undefined"}]
  /\ asked \in [Sessions -> [mem : BOOLEAN, key : Keys \cup {Nobody}]]
  /\ ctx \in [Sessions -> [mem : BOOLEAN, key : Keys \cup {Nobody}, defs : 0..NOps]]
  /\ pos \in [Sessions -> 0..Len(node.archive)]
  /\ eps \in [Sessions -> {0, NOps}]
  /\ made \in [Sessions -> SUBSET (1..NOps)]
  /\ torn \in [Sessions -> BOOLEAN]
  /\ mtx \in Sessions \cup {Nobody}
  /\ tmp \in [Sessions -> [FileNames -> Contents \cup {None}]]
  /\ disk \in [FileNames -> Contents \cup {None}]
  /\ handle \in [Sessions -> [FileNames -> {"none", "tmp", "disk", "closed"}]]

Intact == node.cut = Len(node.archive)

\* The caller asked for files in memory, context.json asks for files on disk.
LeavesMemory(s) == asked[s].mem /\ ~node.mem

\* A custom op reads a cache file that is not whole only while another
\* session unpacks into the same log_dir (the mutex keeps the sessions that
\* write there apart, not those that read), never because an earlier session
\* was killed. If its files move from memory to log_dir nothing is promised.
TornOnlyDuringUntar ==
  [][\A s \in Sessions : ~torn[s] /\ torn'[s] =>
       \/ LeavesMemory(s)
       \/ \E u \in Sessions \ {s} : pc[u] = "fill" /\ ~InMem(u)]_vars

\* A session comes to use a FILE* it has closed, or an empty std::optional,
\* only if the restored configuration moves its files from memory to log_dir,
\* or if the archive is damaged.
UndefinedOnlyOutOfMemory ==
  \A s \in Sessions : pc[s] = "undefined" => LeavesMemory(s) \/ ~Intact

\* From an archive that is not damaged every custom op finds every file it
\* reads, whatever the modes of the two sessions, the order in which custom
\* ops are created, the sharing of entries and the other session's steps.
OpsFindTheirFiles ==
  \A s \in Sessions : pc[s] = "failed" /\ eps[s] > 0 => ~Intact

\* A session that loads an undamaged archive is over, one way or the other
\* (or killed), and if all goes well every file is closed after its last custom op.
LoadEnds ==
  \A s \in Sessions :
    pc[s] = "untar" /\ Intact /\ ~LeavesMemory(s)
      ~> \/ pc[s] \in {"failed", "idle"}
         \/ pc[s] = "running" /\ \A f \in FileNames : handle[s][f] = "none"

\* What the documentation of encryptionKey says: with the key of the session
\* that compiled it, an encrypted model can be deployed. A custom op has that
\* key when it decrypts its files.
OpsHaveTheKey ==
  \A s \in Sessions : pc[s] = "ops" => ctx[s].key = node.key
=============================================================================
