-------------------------- MODULE EpContextProofs --------------------------
(***************************************************************************)
(* What a session that loads an EPContext model finds, for any number of   *)
(* sessions, custom ops, files, modes, archives and crashes.               *)
(***************************************************************************)
EXTENDS EpContext, SequenceTheorems, TLAPS

\* The archive holds every file, whole, and context.json with the mode the
\* model was compiled in.
Holds(archive, mem) ==
  /\ archive \in Seq([to : SUBSET FileNames, is : Contents])
  /\ \A i \in DOMAIN archive :
       /\ archive[i].is # Partial
       /\ Json \in archive[i].to => archive[i].is = Doc(mem, NOps)
  /\ \A f \in FileNames : \E i \in DOMAIN archive : f \in archive[i].to

NodeInv ==
  /\ node.mem \in BOOLEAN /\ node.part \in BOOLEAN
  /\ Holds(node.archive, node.mem)
  /\ node.cut \in 0..Len(node.archive)
  /\ node.part => node.cut < Len(node.archive)

\* Labels of a session that has not read context.json, and of one that needs
\* the files it has unpacked.
Loading == {"idle", "untar", "fill", "read"}
InNeed == {"untar", "fill", "read", "eps", "save", "ops"}

\* How far a session has come, and whose mode it has.
Walk(s) ==
  /\ pos[s] <= node.cut
  /\ pc[s] = "idle" => pos[s] = 0
  /\ pc[s] = "fill" => pos[s] < node.cut
  /\ pc[s] \in {"read", "eps"} => pos[s] = node.cut /\ ~node.part
  /\ eps[s] > 0 => pos[s] = node.cut /\ ~node.part
  /\ pc[s] = "ops" => eps[s] > 0
  /\ pc[s] \in Loading => ctx[s] = Fresh(s) /\ eps[s] = 0
  /\ ~node.part /\ pc[s] \notin Loading \cup {"undefined"} => InMem(s) = node.mem

WalkInv == \A s \in Sessions : Walk(s)

\* From an archive that is not cut within an entry, nobody saves another mode.
Docs == {None, Partial} \cup {Doc(node.mem, defs) : defs \in 0..NOps}
DocInv ==
  ~node.part => disk[Json] \in Docs /\ \A s \in Sessions : tmp[s][Json] \in Docs

Unpacked(s, f) == \E i \in 1..pos[s] : f \in node.archive[i].to

\* Where the FILE* of a name can lead to.
Leads(s, f) ==
  /\ handle[s][f] = "disk" => disk[f] # None
  /\ handle[s][f] = "tmp" => tmp[s][f] # None /\ InMem(s)
  /\ handle[s][f] = "closed" => LeavesMemory(s) \/ node.part
  /\ asked[s].mem /\ InMem(s) => handle[s][f] \in {"none", "tmp"}
  /\ ~asked[s].mem /\ handle[s][f] = "tmp" => f = Json
  /\ ~asked[s].mem => handle[s][f] # "closed"
  /\ Unpacked(s, f) /\ pc[s] \in InNeed => handle[s][f] # "none"

HandleInv == \A s \in Sessions, f \in FileNames : Leads(s, f)

Filling(s, f) == pc[s] = "fill" /\ f \in Entry(s).to

\* A file that is not whole is being filled, or a session was killed before it
\* had filled it; what a session has unpacked to log_dir was whole, and is not
\* only while a session fills it again.
Whole(s, f) ==
  /\ disk[f] = Partial => \E i \in 1..node.cut : f \in node.archive[i].to
  /\ tmp[s][f] = Partial => Filling(s, f) /\ InMem(s)
  /\ disk[f] = Partial /\ Unpacked(s, f) /\ ~asked[s].mem /\ pc[s] \in InNeed
       => \E u \in Sessions : Filling(u, f) /\ ~InMem(u)

WholeInv == ~node.part => \A s \in Sessions, f \in FileNames : Whole(s, f)

IInv == TypeOK /\ NodeInv /\ WalkInv /\ DocInv /\ HandleInv /\ WholeInv

-----------------------------------------------------------------------------
(* Contents *)

\* The three kinds of contents differ, and none of them is no contents.
LEMMA ContentsDiffer ==
  /\ None \notin Contents
  /\ \A mem \in BOOLEAN, defs \in 0..NOps :
       /\ Doc(mem, defs) \in Contents /\ Doc(mem, defs) # Partial
       /\ Doc(mem, defs).type = "doc" /\ Doc(mem, defs).mem = mem /\ Doc(mem, defs).defs = defs
  /\ \A key \in Keys \cup {Nobody} : Data(key) \in Contents /\ Data(key) # Partial
  /\ Partial \in Contents /\ Partial # None
  /\ \A c \in Contents :
       c.type = "doc" => \E mem \in BOOLEAN, defs \in 0..NOps : c = Doc(mem, defs)
<1>1. \A mem \in BOOLEAN, defs \in 0..NOps :
        /\ Doc(mem, defs).type = "doc" /\ Doc(mem, defs).mem = mem /\ Doc(mem, defs).defs = defs
        /\ Doc(mem, defs) \in Contents
  BY DEF Doc, Contents
<1>2. \A key \in Keys \cup {Nobody} : Data(key).type = "data" /\ Data(key) \in Contents
  BY DEF Data, Contents
<1>3. Partial.type = "partial" /\ Partial \in Contents
  BY DEF Partial, Contents
<1>4. \A c \in Contents :
        c.type = "doc" => \E mem \in BOOLEAN, defs \in 0..NOps : c = Doc(mem, defs)
  BY <1>2, <1>3 DEF Contents
<1>5. None \notin Contents
  BY NoneAssumption
<1> QED
  BY <1>1, <1>2, <1>3, <1>4, <1>5

\* An archive of groups of files.
LEMMA EntriesFacts ==
  ASSUME NEW groups \in Seq(SUBSET FileNames), UNION ToSet(groups) = FileNames,
         NEW mem \in BOOLEAN, NEW key \in Keys \cup {Nobody},
         NEW archive, archive = Entries(groups, mem, key)
  PROVE  Holds(archive, mem)
<1>1. /\ DOMAIN archive = 1..Len(groups) /\ Len(groups) \in Nat
      /\ \A i \in 1..Len(groups) :
           archive[i] = [to |-> groups[i],
                         is |-> IF Json \in groups[i] THEN Doc(mem, NOps) ELSE Data(key)]
  BY DEF Entries
<1>2. NOps \in 0..NOps
  BY EpContextAssumption
<1>3. \A i \in 1..Len(groups) :
        /\ archive[i] \in [to : SUBSET FileNames, is : Contents]
        /\ archive[i].is # Partial /\ archive[i].to = groups[i]
        /\ Json \in archive[i].to => archive[i].is = Doc(mem, NOps)
  <2> SUFFICES ASSUME NEW i \in 1..Len(groups)
               PROVE  /\ archive[i] \in [to : SUBSET FileNames, is : Contents]
                      /\ archive[i].is # Partial /\ archive[i].to = groups[i]
                      /\ Json \in archive[i].to => archive[i].is = Doc(mem, NOps)
    OBVIOUS
  <2> DEFINE is == IF Json \in groups[i] THEN Doc(mem, NOps) ELSE Data(key)
  <2>1. groups[i] \in SUBSET FileNames
    OBVIOUS
  <2>2. is \in Contents /\ is # Partial /\ (Json \in groups[i] => is = Doc(mem, NOps))
    BY <1>2, ContentsDiffer
  <2>3. archive[i] = [to |-> groups[i], is |-> is]
    BY <1>1
  <2> HIDE DEF is
  <2> QED
    BY <2>1, <2>2, <2>3
<1>4. archive \in Seq([to : SUBSET FileNames, is : Contents])
  <2> DEFINE e(i) == [to |-> groups[i],
                      is |-> IF Json \in groups[i] THEN Doc(mem, NOps) ELSE Data(key)]
  <2>1. archive = [i \in 1..Len(groups) |-> e(i)]
    BY <1>1 DEF Entries
  <2>2. \A i \in 1..Len(groups) : e(i) \in [to : SUBSET FileNames, is : Contents]
    BY <1>1, <1>3
  <2> HIDE DEF e
  <2> QED
    BY <1>1, <2>1, <2>2, IsASeq
<1>5. \A f \in FileNames : \E i \in DOMAIN archive : f \in archive[i].to
  <2>1. \A f \in FileNames : \E i \in 1..Len(groups) : f \in groups[i]
    BY DEF ToSet
  <2> QED
    BY <1>1, <1>3, <2>1
<1> QED
  BY <1>1, <1>3, <1>4, <1>5 DEF Holds

LEMMA InitHolds == Init => IInv
<1> SUFFICES ASSUME Init PROVE IInv
  OBVIOUS
<1>1. /\ pc = [s \in Sessions |-> "idle"] /\ ctx = [s \in Sessions |-> Fresh(s)]
      /\ pos = [s \in Sessions |-> 0] /\ eps = [s \in Sessions |-> 0]
      /\ made = [s \in Sessions |-> {}] /\ torn = [s \in Sessions |-> FALSE] /\ mtx = Nobody
      /\ handle = [s \in Sessions |-> [f \in FileNames |-> "none"]]
      /\ tmp = [s \in Sessions |-> [f \in FileNames |-> None]]
      /\ disk = [f \in FileNames |-> None]
  BY DEF Init, FilesInit
<1>2. /\ NodeInv /\ node.key \in Keys \cup {Nobody}
      /\ asked \in [Sessions -> [mem : LoaderModes, key : {node.key}]]
  <2> USE EpContextAssumption
  <2>1. PICK mem \in SaverModes, key \in Keys \cup {Nobody} :
          \E archive \in {Plain(mem, key), Shared(mem, key)} :
            \E cut \in IF MayBeCut THEN 0..Len(archive) ELSE {Len(archive)} :
              \E part \in IF cut < Len(archive) THEN BOOLEAN ELSE {FALSE} :
                node = [mem |-> mem, key |-> key, archive |-> archive,
                        cut |-> cut, part |-> part]
    BY DEF Init
  <2>2. PICK archive \in {Plain(mem, key), Shared(mem, key)} :
          \E cut \in IF MayBeCut THEN 0..Len(archive) ELSE {Len(archive)} :
            \E part \in IF cut < Len(archive) THEN BOOLEAN ELSE {FALSE} :
              node = [mem |-> mem, key |-> key, archive |-> archive,
                      cut |-> cut, part |-> part]
    BY <2>1
  <2>3. PICK groups \in Seq(SUBSET FileNames) :
          UNION ToSet(groups) = FileNames /\ archive = Entries(groups, mem, key)
    <3> DEFINE single == [i \in DOMAIN FileOrder |-> {FileOrder[i]}]
    <3>1. FileOrder \in Seq(FileNames) /\ \A i \in DOMAIN FileOrder : FileOrder[i] \in FileNames
      OBVIOUS
    <3>2. single \in Seq(SUBSET FileNames)
      <4> DEFINE e(i) == {FileOrder[i]}
      <4>1. single = [i \in 1..Len(FileOrder) |-> e(i)] /\ Len(FileOrder) \in Nat
        BY <3>1
      <4>2. \A i \in 1..Len(FileOrder) : e(i) \in SUBSET FileNames
        BY <3>1
      <4> HIDE DEF e, single
      <4> QED
        BY <4>1, <4>2, IsASeq
    <3>3. UNION ToSet(single) = FileNames
      <4>1. /\ DOMAIN single = DOMAIN FileOrder
            /\ \A i \in DOMAIN FileOrder : single[i] = {FileOrder[i]}
        OBVIOUS
      <4>2. FileNames = {FileOrder[i] : i \in DOMAIN FileOrder}
        BY DEF ToSet
      <4> QED
        BY <4>1, <4>2 DEF ToSet
    <3>4. CASE archive = Plain(mem, key)
      BY <3>2, <3>3, <3>4 DEF Plain
    <3>5. CASE archive = Shared(mem, key)
      BY <3>5 DEF Shared
    <3> QED
      BY <2>2, <3>4, <3>5
  <2>4. Holds(archive, mem)
    <3>1. mem \in BOOLEAN /\ key \in Keys \cup {Nobody}
      OBVIOUS
    <3>2. groups \in Seq(SUBSET FileNames) /\ UNION ToSet(groups) = FileNames
      BY <2>3
    <3>3. archive = Entries(groups, mem, key)
      BY <2>3
    <3> HIDE EpContextAssumption
    <3> HIDE <2>1, <2>2, <2>3
    <3> QED
      BY <3>1, <3>2, <3>3, EntriesFacts
  <2>5. PICK cut \in (IF MayBeCut THEN 0..Len(archive) ELSE {Len(archive)}) :
          \E part \in IF cut < Len(archive) THEN BOOLEAN ELSE {FALSE} :
            node = [mem |-> mem, key |-> key, archive |-> archive,
                    cut |-> cut, part |-> part]
    BY <2>2
  <2>6. Len(archive) \in Nat
    BY <2>4 DEF Holds
  <2>7. PICK part \in BOOLEAN :
          /\ part => cut < Len(archive)
          /\ node = [mem |-> mem, key |-> key, archive |-> archive,
                     cut |-> cut, part |-> part]
    BY <2>5
  <2>8. cut \in 0..Len(archive)
    BY <2>5, <2>6
  <2>9. NodeInv /\ node.key \in Keys \cup {Nobody}
    BY <2>4, <2>7, <2>8 DEF NodeInv
  <2> QED
    BY <2>9 DEF Init
<1>3. TypeOK
  <2> USE EpContextAssumption
  <2>1. Len(node.archive) \in Nat
    BY <1>2 DEF NodeInv, Holds
  <2>2. asked \in [Sessions -> [mem : BOOLEAN, key : Keys \cup {Nobody}]]
    BY <1>2
  <2>3. \A s \in Sessions : Fresh(s) \in [mem : BOOLEAN, key : Keys \cup {Nobody}, defs : 0..NOps]
    BY <2>2 DEF Fresh
  <2> QED
    BY <1>1, <2>1, <2>2, <2>3 DEF TypeOK
<1>4. WalkInv
  <2>1. 0 <= node.cut
    BY <1>2 DEF NodeInv
  <2> QED
    BY <1>1, <2>1 DEF WalkInv, Walk, Loading
<1>5. DocInv /\ HandleInv
  <2>1. \A s \in Sessions, f \in FileNames :
          handle[s][f] = "none" /\ disk[f] = None /\ tmp[s][f] = None
    BY <1>1
  <2>2. \A s \in Sessions, f \in FileNames : ~Unpacked(s, f)
    BY <1>1 DEF Unpacked
  <2>3. DocInv
    <3>1. Json \in FileNames
      BY EpContextAssumption
    <3>2. disk[Json] = None /\ \A s \in Sessions : tmp[s][Json] = None
      BY <2>1, <3>1, <1>1
    <3> QED
      BY <3>2 DEF DocInv, Docs
  <2>4. HandleInv
    BY <2>1, <2>2 DEF HandleInv, Leads
  <2> QED
    BY <2>3, <2>4
<1>6. WholeInv
  BY <1>1, ContentsDiffer DEF WholeInv, Whole, Unpacked
<1> QED
  BY <1>2, <1>3, <1>4, <1>5, <1>6 DEF IInv

-----------------------------------------------------------------------------
(* Steps *)

\* What a session does that changes no file, and what it does that writes one.
Quiet(s) ==
  \/ Start(s) \/ UntarEnds(s) \/ ReadJsonMissing(s)
  \/ CreateEps(s) \/ CreateEpsThrows(s) \/ SaveJsonUndefined(s)
  \/ \E i \in 1..NOps : CreateOpThrows(s, i) \/ CreateOpUndefined(s, i)

\* Every file name, at any session, after a write.
LEMMA WrittenFacts ==
  ASSUME TypeOK, NEW s \in Sessions, NEW F, NEW content \in Contents, NEW inMem \in BOOLEAN,
         Written(s, F, content, inMem)
  PROVE  /\ \A t \in Sessions, f \in FileNames :
              /\ handle'[t][f] = IF t = s /\ f \in F THEN IF inMem THEN "tmp" ELSE "disk"
                                 ELSE handle[t][f]
              /\ tmp'[t][f] = IF t = s /\ f \in F /\ inMem THEN content ELSE tmp[t][f]
         /\ \A f \in FileNames : disk'[f] = IF f \in F /\ ~inMem THEN content ELSE disk[f]
         /\ handle' \in [Sessions -> [FileNames -> {"none", "tmp", "disk", "closed"}]]
         /\ tmp' \in [Sessions -> [FileNames -> Contents \cup {None}]]
         /\ disk' \in [FileNames -> Contents \cup {None}]
<1>1. /\ handle \in [Sessions -> [FileNames -> {"none", "tmp", "disk", "closed"}]]
      /\ tmp \in [Sessions -> [FileNames -> Contents \cup {None}]]
      /\ disk \in [FileNames -> Contents \cup {None}]
  BY DEF TypeOK
<1>2. /\ \A t \in Sessions, f \in FileNames :
           handle'[t][f] = IF t = s /\ f \in F THEN IF inMem THEN "tmp" ELSE "disk"
                           ELSE handle[t][f]
      /\ handle' \in [Sessions -> [FileNames -> {"none", "tmp", "disk", "closed"}]]
  BY <1>1 DEF Written
<1>3. /\ \A t \in Sessions, f \in FileNames :
           tmp'[t][f] = IF t = s /\ f \in F /\ inMem THEN content ELSE tmp[t][f]
      /\ tmp' \in [Sessions -> [FileNames -> Contents \cup {None}]]
  BY <1>1 DEF Written
<1>4. /\ \A f \in FileNames : disk'[f] = IF f \in F /\ ~inMem THEN content ELSE disk[f]
      /\ disk' \in [FileNames -> Contents \cup {None}]
  BY <1>1 DEF Written
<1> QED
  BY <1>2, <1>3, <1>4

\* A step of one session leaves the node and the other sessions alone.
LEMMA Frame ==
  ASSUME TypeOK, NEW s \in Sessions, Start(s) \/ Step(s)
  PROVE  /\ node' = node /\ asked' = asked /\ crashes' = crashes
         /\ \A t \in Sessions \ {s} :
              /\ pc'[t] = pc[t] /\ ctx'[t] = ctx[t] /\ pos'[t] = pos[t]
              /\ eps'[t] = eps[t] /\ made'[t] = made[t] /\ torn'[t] = torn[t]
<1>1. CASE Quiet(s)
  BY <1>1 DEF Quiet, TypeOK, Start, UntarEnds, ReadJsonMissing, CreateEps, CreateEpsThrows,
              SaveJsonUndefined, CreateOpThrows, CreateOpUndefined, Goto
<1>2. CASE UntarOpen(s) \/ UntarFill(s) \/ UntarThrows(s) \/ SaveJson(s)
  BY <1>2 DEF TypeOK, UntarOpen, UntarFill, UntarThrows, SaveJson, Goto
<1>3. CASE ReadJson(s)
  BY <1>3 DEF TypeOK, ReadJson, Goto
<1>4. ASSUME NEW i \in 1..NOps, CreateOp(s, i)
      PROVE  /\ node' = node /\ asked' = asked /\ crashes' = crashes
             /\ \A t \in Sessions \ {s} :
                  /\ pc'[t] = pc[t] /\ ctx'[t] = ctx[t] /\ pos'[t] = pos[t]
                  /\ eps'[t] = eps[t] /\ made'[t] = made[t] /\ torn'[t] = torn[t]
  BY <1>4 DEF TypeOK, CreateOp
<1> QED
  BY <1>1, <1>2, <1>3, <1>4 DEF Step, Quiet

\* The entry a session is at, which is there if the archive does not end before.
LEMMA EntryFacts ==
  ASSUME TypeOK, NodeInv, NEW s \in Sessions, pos[s] < node.cut \/ (pos[s] = node.cut /\ node.part)
  PROVE  /\ pos[s] \in Nat /\ pos[s] + 1 \in 1..Len(node.archive)
         /\ Entry(s).to \in SUBSET FileNames
         /\ Entry(s).is \in Contents /\ Entry(s).is # Partial
         /\ Json \in Entry(s).to => Entry(s).is = Doc(node.mem, NOps)
<1>1. /\ node.archive \in Seq([to : SUBSET FileNames, is : Contents])
      /\ node.cut \in 0..Len(node.archive)
      /\ node.part => node.cut < Len(node.archive)
  BY DEF NodeInv, Holds
<1>2. pos[s] \in 0..Len(node.archive) /\ Len(node.archive) \in Nat
  BY <1>1 DEF TypeOK
<1>3. pos[s] \in Nat /\ pos[s] + 1 \in 1..Len(node.archive)
  BY <1>1, <1>2
<1>4. Entry(s) \in [to : SUBSET FileNames, is : Contents]
  <2> DEFINE Shape == [to : SUBSET FileNames, is : Contents]
  <2>1. node.archive \in Seq(Shape) /\ pos[s] + 1 \in 1..Len(node.archive)
    BY <1>1, <1>3
  <2> HIDE DEF Shape
  <2>2. node.archive[pos[s] + 1] \in Shape
    BY <2>1, ElementOfSeq
  <2> QED
    BY <2>2 DEF Shape, Entry
<1> QED
  BY <1>3, <1>4, <1>1 DEF Entry, NodeInv, Holds

\* What a session reads is one of the contents, or nothing.
LEMMA ReadableFacts ==
  ASSUME TypeOK, NEW s \in Sessions, NEW f \in FileNames
  PROVE  Readable(s, f, InMem(s)) \in {None, tmp[s][f], disk[f]}
  BY DEF Readable

\* The FILE* of a name after a read.
LEMMA AfterReadFacts ==
  ASSUME TypeOK, NEW s \in Sessions, NEW f \in FileNames, NEW inMem \in BOOLEAN
  PROVE  /\ AfterRead(s, f, inMem) \in {"none", "tmp", "disk", "closed"}
         /\ inMem => AfterRead(s, f, inMem) = handle[s][f]
         /\ ~inMem => /\ AfterRead(s, f, inMem) = "disk" => disk[f] # None
                      /\ AfterRead(s, f, inMem) # "tmp"
                      /\ AfterRead(s, f, inMem) = "closed" =>
                           handle[s][f] # "none" /\ disk[f] = None
                      /\ handle[s][f] # "none" => AfterRead(s, f, inMem) # "none"
  BY DEF TypeOK, AfterRead

\* The type invariant, in the parts a step can change.
LEMMA SessionType ==
  ASSUME TypeOK, NEW s \in Sessions
  PROVE  /\ ctx[s] \in [mem : BOOLEAN, key : Keys \cup {Nobody}, defs : 0..NOps]
         /\ InMem(s) \in BOOLEAN /\ Doc(ctx[s].mem, ctx[s].defs) \in Contents
         /\ asked[s].mem \in BOOLEAN
         /\ Fresh(s) \in [mem : BOOLEAN, key : Keys \cup {Nobody}, defs : 0..NOps]
<1>1. asked[s] \in [mem : BOOLEAN, key : Keys \cup {Nobody}] /\ 0 \in 0..NOps
  BY EpContextAssumption DEF TypeOK
<1>2. ctx[s] \in [mem : BOOLEAN, key : Keys \cup {Nobody}, defs : 0..NOps]
  BY DEF TypeOK
<1> QED
  BY <1>1, <1>2, ContentsDiffer DEF InMem, Fresh

FilesType ==
  /\ tmp \in [Sessions -> [FileNames -> Contents \cup {None}]]
  /\ disk \in [FileNames -> Contents \cup {None}]
  /\ handle \in [Sessions -> [FileNames -> {"none", "tmp", "disk", "closed"}]]

\* The document a session reads has a mode and a number of meta_defs.
LEMMA DocFacts ==
  ASSUME TypeOK, NEW s \in Sessions, ReadJson(s)
  PROVE  LET doc == Readable(s, Json, InMem(s))
         IN /\ doc \in Contents \ {Partial} /\ doc \in {tmp[s][Json], disk[Json]}
            /\ doc.mem \in BOOLEAN /\ doc.defs \in 0..NOps
            /\ doc = Doc(doc.mem, doc.defs)
<1> DEFINE doc == Readable(s, Json, InMem(s))
<1>1. doc # None /\ doc.type = "doc"
  BY DEF ReadJson
<1>2. doc \in {None, tmp[s][Json], disk[Json]}
  BY EpContextAssumption, ReadableFacts
<1>3. tmp[s][Json] \in Contents \cup {None} /\ disk[Json] \in Contents \cup {None}
  BY EpContextAssumption DEF TypeOK
<1>4. doc \in Contents
  BY <1>1, <1>2, <1>3
<1>5. PICK mem \in BOOLEAN, defs \in 0..NOps : doc = Doc(mem, defs)
  BY <1>1, <1>4, ContentsDiffer
<1>6. doc # Partial /\ doc.mem = mem /\ doc.defs = defs
  BY <1>5, ContentsDiffer
<1> QED
  BY <1>1, <1>2, <1>4, <1>5, <1>6

\* A step of a session keeps the types of the cache files.
LEMMA StepFilesType ==
  ASSUME TypeOK, NodeInv, WalkInv, NEW s \in Sessions, Start(s) \/ Step(s)
  PROVE  FilesType'
<1>1. CASE Quiet(s)
  <2>1. UNCHANGED files
    BY <1>1 DEF Quiet, Start, UntarEnds, ReadJsonMissing, CreateEps, CreateEpsThrows,
                SaveJsonUndefined, CreateOpThrows, CreateOpUndefined
  <2> QED
    BY <2>1 DEF files, FilesType, TypeOK
<1>2. CASE UntarOpen(s) \/ UntarThrows(s)
  <2>1. Written(s, Entry(s).to, Partial, InMem(s)) /\ Partial \in Contents
    BY <1>2, ContentsDiffer DEF UntarOpen, UntarThrows
  <2>2. InMem(s) \in BOOLEAN /\ Doc(ctx[s].mem, ctx[s].defs) \in Contents
    BY SessionType
  <2> QED
    BY <2>1, <2>2, WrittenFacts DEF FilesType
<1>3. CASE UntarFill(s)
  <2>1. Written(s, Entry(s).to, Entry(s).is, InMem(s)) /\ pos[s] < node.cut
    BY <1>3 DEF UntarFill, Goto, WalkInv, Walk
  <2>2. InMem(s) \in BOOLEAN /\ Entry(s).is \in Contents
    BY <2>1, SessionType, EntryFacts
  <2> QED
    BY <2>1, <2>2, WrittenFacts DEF FilesType
<1>4. CASE SaveJson(s)
  <2>1. Written(s, {Json}, Doc(ctx[s].mem, ctx[s].defs), InMem(s))
    BY <1>4 DEF SaveJson
  <2>2. InMem(s) \in BOOLEAN /\ Doc(ctx[s].mem, ctx[s].defs) \in Contents
    BY SessionType
  <2> QED
    BY <2>1, <2>2, WrittenFacts DEF FilesType
<1>5. CASE ReadJson(s)
  <2>1. \A f \in FileNames :
          AfterRead(s, f, Readable(s, Json, InMem(s)).mem) \in {"none", "tmp", "disk", "closed"}
    BY <1>5, AfterReadFacts, DocFacts
  <2> QED
    BY <1>5, <2>1 DEF FilesType, TypeOK, ReadJson
<1>6. ASSUME NEW i \in 1..NOps, CreateOp(s, i) PROVE FilesType'
  <2>1. CASE Closed(s)
    BY <2>1 DEF Closed, FilesType, TypeOK
  <2>2. CASE ~Closed(s)
    <3>1. /\ handle' = [handle EXCEPT ![s] =
               [f \in FileNames |-> IF f \in FilesOf[i] THEN AfterRead(s, f, InMem(s)) ELSE @[f]]]
          /\ UNCHANGED <<tmp, disk>>
      BY <1>6, <2>2 DEF CreateOp
    <3>2. \A f \in FileNames : AfterRead(s, f, InMem(s)) \in {"none", "tmp", "disk", "closed"}
      BY AfterReadFacts, SessionType
    <3> QED
      BY <3>1, <3>2 DEF FilesType, TypeOK
  <2> QED
    BY <2>1, <2>2
<1> QED
  BY <1>1, <1>2, <1>3, <1>4, <1>5, <1>6 DEF Step, Quiet

\* Where a session goes, and what it takes along.
LEMMA StepType ==
  ASSUME TypeOK, NodeInv, WalkInv, NEW s \in Sessions, Start(s) \/ Step(s)
  PROVE  TypeOK'
<1>1. /\ pc \in [Sessions -> {"idle", "untar", "fill", "read", "eps", "save", "ops",
                              "running", "failed", "undefined"}]
      /\ asked \in [Sessions -> [mem : BOOLEAN, key : Keys \cup {Nobody}]]
      /\ ctx \in [Sessions -> [mem : BOOLEAN, key : Keys \cup {Nobody}, defs : 0..NOps]]
      /\ pos \in [Sessions -> 0..Len(node.archive)]
      /\ eps \in [Sessions -> {0, NOps}]
      /\ made \in [Sessions -> SUBSET (1..NOps)]
      /\ torn \in [Sessions -> BOOLEAN]
      /\ mtx \in Sessions \cup {Nobody}
  BY DEF TypeOK
<1>2. FilesType'
  BY StepFilesType
<1>3. CASE Quiet(s)
  <2>1. /\ UNCHANGED <<node, asked, ctx, pos, made, torn>>
        /\ eps' = eps \/ eps' = [eps EXCEPT ![s] = NOps]
        /\ mtx' \in {mtx, s}
        /\ \E to \in {"untar", "read", "save", "undefined", "failed"} :
             pc' = [pc EXCEPT ![s] = to]
    BY <1>3 DEF Quiet, Start, UntarEnds, ReadJsonMissing, CreateEps, CreateEpsThrows,
                SaveJsonUndefined, CreateOpThrows, CreateOpUndefined, Goto
  <2>2. /\ pc' \in [Sessions -> {"idle", "untar", "fill", "read", "eps", "save", "ops",
                                 "running", "failed", "undefined"}]
        /\ eps' \in [Sessions -> {0, NOps}]
        /\ mtx' \in Sessions \cup {Nobody}
    BY <1>1, <2>1
  <2> QED
    BY <1>1, <1>2, <2>1, <2>2 DEF TypeOK, FilesType
<1>4. CASE UntarOpen(s) \/ UntarThrows(s) \/ SaveJson(s)
  <2>1. /\ UNCHANGED <<node, asked, ctx, pos, eps, made, torn>>
        /\ mtx' \in {mtx, Nobody}
        /\ \E to \in {"fill", "save", "ops", "failed"} : pc' = [pc EXCEPT ![s] = to]
    BY <1>4 DEF UntarOpen, UntarThrows, SaveJson, Goto
  <2>2. /\ pc' \in [Sessions -> {"idle", "untar", "fill", "read", "eps", "save", "ops",
                                 "running", "failed", "undefined"}]
        /\ mtx' \in Sessions \cup {Nobody}
    BY <1>1, <2>1
  <2> QED
    BY <1>1, <1>2, <2>1, <2>2 DEF TypeOK, FilesType
<1>5. CASE UntarFill(s)
  <2>1. /\ UNCHANGED <<node, asked, ctx, eps, made, torn, mtx>>
        /\ pc' = [pc EXCEPT ![s] = "untar"]
        /\ pos' = [pos EXCEPT ![s] = @ + 1]
        /\ pos[s] < node.cut
    BY <1>5 DEF UntarFill, Goto, WalkInv, Walk
  <2>2. pos[s] + 1 \in 0..Len(node.archive)
    BY <2>1, EntryFacts
  <2>3. /\ pc' \in [Sessions -> {"idle", "untar", "fill", "read", "eps", "save", "ops",
                                 "running", "failed", "undefined"}]
        /\ pos' \in [Sessions -> 0..Len(node.archive)]
    BY <1>1, <2>1, <2>2
  <2> QED
    BY <1>1, <1>2, <2>1, <2>3 DEF TypeOK, FilesType
<1>6. CASE ReadJson(s)
  <2> DEFINE doc == Readable(s, Json, InMem(s))
  <2>1. /\ UNCHANGED <<node, asked, pos, eps, made, torn, mtx>>
        /\ pc' = [pc EXCEPT ![s] = "eps"]
        /\ ctx' = [ctx EXCEPT ![s] = [mem |-> doc.mem, key |-> Nobody, defs |-> doc.defs]]
    BY <1>6 DEF ReadJson, Goto
  <2>2. doc.mem \in BOOLEAN /\ doc.defs \in 0..NOps
    BY <1>6, DocFacts
  <2> HIDE DEF doc
  <2>3. /\ pc' \in [Sessions -> {"idle", "untar", "fill", "read", "eps", "save", "ops",
                                 "running", "failed", "undefined"}]
        /\ ctx' \in [Sessions -> [mem : BOOLEAN, key : Keys \cup {Nobody}, defs : 0..NOps]]
    BY <1>1, <2>1, <2>2
  <2> QED
    BY <1>1, <1>2, <2>1, <2>3 DEF TypeOK, FilesType
<1>7. ASSUME NEW i \in 1..NOps, CreateOp(s, i) PROVE TypeOK'
  <2>1. /\ UNCHANGED <<node, asked, ctx, pos, eps, mtx>>
        /\ pc' \in {pc, [pc EXCEPT ![s] = "running"]}
        /\ made' = [made EXCEPT ![s] = @ \cup {i}]
        /\ torn' = [torn EXCEPT ![s] = @ \/ Partial \in Reads(s, i)]
    BY <1>7 DEF CreateOp
  <2>2. torn' \in [Sessions -> BOOLEAN]
    <3>1. (torn[s] \/ Partial \in Reads(s, i)) \in BOOLEAN
      OBVIOUS
    <3> QED
      BY <1>1, <2>1, <3>1, Zenon
  <2>3. /\ pc' \in [Sessions -> {"idle", "untar", "fill", "read", "eps", "save", "ops",
                                 "running", "failed", "undefined"}]
        /\ made' \in [Sessions -> SUBSET (1..NOps)]
    BY <1>1, <2>1
  <2> QED
    BY <1>1, <1>2, <2>1, <2>2, <2>3 DEF TypeOK, FilesType
<1> QED
  BY <1>3, <1>4, <1>5, <1>6, <1>7 DEF Step, Quiet

LEMMA StepNode ==
  ASSUME TypeOK, NodeInv, NEW s \in Sessions, Start(s) \/ Step(s)
  PROVE  NodeInv'
  BY Frame DEF NodeInv, Holds

\* From an archive that is not cut within an entry, context.json asks for the
\* mode the model was compiled in.
LEMMA DocMode ==
  ASSUME TypeOK, DocInv, NEW s \in Sessions, ReadJson(s), ~node.part
  PROVE  Readable(s, Json, InMem(s)).mem = node.mem
<1> DEFINE doc == Readable(s, Json, InMem(s))
<1>1. doc \in Contents \ {Partial} /\ doc \in {tmp[s][Json], disk[Json]}
  BY DocFacts
<1>2. doc \in Docs
  BY <1>1 DEF DocInv
<1>3. doc # None
  BY DEF ReadJson
<1>4. PICK defs \in 0..NOps : doc = Doc(node.mem, defs)
  BY <1>1, <1>2, <1>3 DEF Docs
<1> QED
  BY <1>4 DEF Doc

LEMMA StepWalk ==
  ASSUME TypeOK, NodeInv, WalkInv, DocInv, NEW s \in Sessions, Start(s) \/ Step(s)
  PROVE  WalkInv'
<1> DEFINE Types ==
       /\ pc \in [Sessions -> {"idle", "untar", "fill", "read", "eps", "save", "ops",
                               "running", "failed", "undefined"}]
       /\ asked \in [Sessions -> [mem : BOOLEAN, key : Keys \cup {Nobody}]]
       /\ ctx \in [Sessions -> [mem : BOOLEAN, key : Keys \cup {Nobody}, defs : 0..NOps]]
       /\ pos \in [Sessions -> 0..Len(node.archive)]
       /\ eps \in [Sessions -> {0, NOps}]
<1>1. Types /\ Walk(s) /\ NOps \in Nat \ {0}
  BY EpContextAssumption DEF TypeOK, WalkInv
<1>2. \A t \in Sessions \ {s} : Walk(t)'
  <2>1. \A t \in Sessions \ {s} : Walk(t)
    BY DEF WalkInv
  <2> QED
    BY <2>1, Frame DEF Walk, Fresh, InMem
<1>3. Walk(s)'
  <2>1. node' = node /\ asked' = asked
    BY Frame
  <2>2. CASE \/ Start(s) \/ UntarEnds(s) \/ ReadJsonMissing(s) \/ UntarOpen(s)
    BY <1>1, <2>1, <2>2 DEF Walk, Start, UntarEnds, ReadJsonMissing, UntarOpen, Goto,
                            Fresh, InMem, Loading
  <2>3. CASE CreateEps(s) \/ CreateEpsThrows(s) \/ SaveJsonUndefined(s) \/ UntarThrows(s)
    BY <1>1, <2>1, <2>3 DEF Walk, CreateEps, CreateEpsThrows, SaveJsonUndefined, UntarThrows,
                            Goto, Fresh, InMem, Loading
  <2>4. CASE UntarFill(s)
    <3>1. /\ pc[s] = "fill" /\ pc'[s] = "untar" /\ pos'[s] = pos[s] + 1
          /\ UNCHANGED <<ctx, eps>>
      BY <1>1, <2>4 DEF UntarFill, Goto
    <3>2. pos[s] \in Nat /\ node.cut \in Nat
      BY <1>1 DEF NodeInv, Holds
    <3> QED
      BY <1>1, <2>1, <3>1, <3>2 DEF Walk, Fresh, InMem, Loading
  <2>5. CASE SaveJson(s)
    <3>1. /\ pc[s] = "save" /\ pc'[s] = IF eps[s] > 0 THEN "ops" ELSE "failed"
          /\ UNCHANGED <<ctx, eps, pos>>
      BY <1>1, <2>5 DEF SaveJson, Goto
    <3> QED
      BY <1>1, <2>1, <3>1 DEF Walk, Fresh, InMem, Loading
  <2>6. CASE ReadJson(s)
    <3>1. /\ pc[s] = "read" /\ pc'[s] = "eps" /\ UNCHANGED <<eps, pos>>
          /\ ctx'[s].mem = Readable(s, Json, InMem(s)).mem
      BY <1>1, <2>6 DEF ReadJson, Goto
    <3>2. ~node.part => ctx'[s].mem = node.mem
      BY <2>6, <3>1, DocMode
    <3> QED
      BY <1>1, <2>1, <3>1, <3>2 DEF Walk, Fresh, InMem, Loading
  <2>7. ASSUME NEW i \in 1..NOps,
               CreateOp(s, i) \/ CreateOpThrows(s, i) \/ CreateOpUndefined(s, i)
        PROVE  Walk(s)'
    <3>1. /\ pc[s] = "ops" /\ pc'[s] \in {"ops", "running", "failed", "undefined"}
          /\ UNCHANGED <<ctx, eps, pos>>
      BY <1>1, <2>7 DEF CreateOp, CreateOpThrows, CreateOpUndefined, Goto
    <3> QED
      BY <1>1, <2>1, <3>1 DEF Walk, Fresh, InMem, Loading
  <2> QED
    BY <2>2, <2>3, <2>4, <2>5, <2>6, <2>7 DEF Step
<1> QED
  BY <1>2, <1>3 DEF WalkInv

\* A quiet step changes no file, unpacks nothing and fills nothing.
LEMMA QuietFacts ==
  ASSUME TypeOK, NEW s \in Sessions, Quiet(s)
  PROVE  /\ UNCHANGED <<node, asked, ctx, pos, handle, tmp, disk>>
         /\ pc[s] # "fill" /\ pc'[s] # "fill"
         /\ pc'[s] \in InNeed => pc[s] \in InNeed \cup {"idle"}
<1>1. /\ UNCHANGED <<node, asked, ctx, pos, files>>
      /\ pc[s] # "fill" /\ pc'[s] # "fill"
      /\ pc'[s] \in InNeed => pc[s] \in InNeed \cup {"idle"}
  BY DEF Quiet, TypeOK, Start, UntarEnds, ReadJsonMissing, CreateEps, CreateEpsThrows,
         SaveJsonUndefined, CreateOpThrows, CreateOpUndefined, Goto, InNeed
<1> QED
  BY <1>1 DEF files

Opens(s) == pc'[s] = "fill" /\ pos[s] < node.cut

\* What a step that writes puts into which files, in the mode of the session.
LEMMA WriteFacts ==
  ASSUME TypeOK, NodeInv, WalkInv, NEW s \in Sessions,
         UntarOpen(s) \/ UntarFill(s) \/ UntarThrows(s) \/ SaveJson(s)
  PROVE  /\ UNCHANGED <<node, asked, ctx>>
         /\ InMem(s) \in BOOLEAN
         /\ \E F \in SUBSET FileNames, content \in Contents :
              /\ Written(s, F, content, InMem(s))
              /\ content = Partial => F = Entry(s).to /\ (Opens(s) \/ node.part)
              /\ \/ pos' = pos /\ pc'[s] # "untar"
                 \/ /\ UntarFill(s) /\ F = Entry(s).to /\ content # Partial
                    /\ pc'[s] = "untar" /\ pos'[s] = pos[s] + 1
              /\ ~node.part /\ Json \in F =>
                   content = Partial \/ \E defs \in 0..NOps : content = Doc(node.mem, defs)
              /\ asked[s].mem # InMem(s) => F = {Json}
              /\ pc[s] = "fill" => UntarFill(s)
<1>1. InMem(s) \in BOOLEAN /\ Doc(ctx[s].mem, ctx[s].defs) \in Contents
  BY SessionType
<1>2. pc[s] \in {"untar", "fill"} => InMem(s) = asked[s].mem
  <2>1. pc[s] \in {"untar", "fill"} => ctx[s] = Fresh(s)
    BY DEF WalkInv, Walk, Loading
  <2>2. Fresh(s).mem = asked[s].mem
    BY DEF Fresh
  <2> QED
    BY <2>1, <2>2 DEF InMem
<1>3. CASE UntarOpen(s) \/ UntarThrows(s)
  <2>1. /\ pc[s] = "untar" /\ UNCHANGED <<node, asked, ctx, pos>>
        /\ pos[s] < node.cut \/ (pos[s] = node.cut /\ node.part)
        /\ Written(s, Entry(s).to, Partial, InMem(s))
        /\ \/ Opens(s)
           \/ node.part
        /\ pc'[s] \in {"fill", "save"}
    BY <1>3 DEF Opens, UntarOpen, UntarThrows, Goto, TypeOK
  <2>2. Entry(s).to \in SUBSET FileNames /\ Partial \in Contents
    BY <2>1, EntryFacts, ContentsDiffer
  <2>3. /\ Written(s, Entry(s).to, Partial, InMem(s))
        /\ pos' = pos /\ pc'[s] # "untar" /\ pc[s] # "fill"
        /\ asked[s].mem = InMem(s) /\ (Opens(s) \/ node.part)
    BY <2>1, <1>2
  <2> QED
    BY <1>1, <2>1, <2>2, <2>3
<1>4. CASE UntarFill(s)
  <2>1. /\ pc[s] = "fill" /\ pc'[s] = "untar" /\ UNCHANGED <<node, asked, ctx>>
        /\ pos[s] < node.cut /\ pos'[s] = pos[s] + 1
        /\ Written(s, Entry(s).to, Entry(s).is, InMem(s))
    BY <1>4 DEF UntarFill, Goto, TypeOK, WalkInv, Walk
  <2>2. /\ Entry(s).to \in SUBSET FileNames /\ Entry(s).is \in Contents
        /\ Entry(s).is # Partial
        /\ Json \in Entry(s).to => Entry(s).is = Doc(node.mem, NOps)
    BY <2>1, EntryFacts
  <2>3. NOps \in 0..NOps
    BY EpContextAssumption
  <2> QED
    BY <1>1, <1>2, <1>4, <2>1, <2>2, <2>3
<1>5. CASE SaveJson(s)
  <2> DEFINE doc == Doc(ctx[s].mem, ctx[s].defs)
  <2>1. /\ pc[s] = "save" /\ UNCHANGED <<node, asked, ctx, pos>> /\ pc'[s] # "untar"
        /\ Written(s, {Json}, doc, InMem(s))
    BY <1>5 DEF SaveJson, Goto, TypeOK
  <2>2. /\ ctx[s].mem \in BOOLEAN /\ ctx[s].defs \in 0..NOps /\ {Json} \in SUBSET FileNames
    BY SessionType, EpContextAssumption
  <2>3. doc # Partial /\ doc \in Contents
    BY <2>2, ContentsDiffer
  <2>4. ~node.part => doc = Doc(node.mem, ctx[s].defs)
    BY <2>1 DEF WalkInv, Walk, Loading, InMem
  <2> HIDE DEF doc
  <2> QED
    BY <1>1, <2>1, <2>2, <2>3, <2>4
<1> QED
  BY <1>3, <1>4, <1>5

LEMMA QuietKeeps ==
  ASSUME IInv, NEW s \in Sessions, Quiet(s)
  PROVE  DocInv' /\ HandleInv' /\ WholeInv'
<1>1. TypeOK /\ WalkInv /\ DocInv /\ HandleInv /\ WholeInv
  BY DEF IInv
<1>2. /\ UNCHANGED <<node, asked, ctx, pos, handle, tmp, disk>>
      /\ pc[s] # "fill" /\ pc'[s] # "fill"
      /\ pc'[s] \in InNeed => pc[s] \in InNeed \cup {"idle"}
  BY <1>1, QuietFacts
<1>3. \A t \in Sessions \ {s} : pc'[t] = pc[t]
  <2>1. Start(s) \/ Step(s)
    BY DEF Quiet, Step
  <2> QED
    BY <1>1, <2>1, Frame
<1>4. /\ \A t \in Sessions, f \in FileNames :
           /\ Unpacked(t, f)' <=> Unpacked(t, f)
           /\ Filling(t, f)' <=> Filling(t, f)
           /\ InMem(t)' = InMem(t) /\ LeavesMemory(t)' = LeavesMemory(t)
      /\ \A t \in Sessions, f \in FileNames :
           Unpacked(t, f) /\ pc'[t] \in InNeed => pc[t] \in InNeed
  <2>1. \A t \in Sessions : pc'[t] = "fill" <=> pc[t] = "fill"
    BY <1>2, <1>3
  <2>2. pc[s] = "idle" => \A f \in FileNames : ~Unpacked(s, f)
    BY <1>1 DEF WalkInv, Walk, Unpacked
  <2> QED
    BY <1>2, <1>3, <2>1, <2>2 DEF Unpacked, Filling, Entry, InMem, LeavesMemory
<1>5. DocInv'
  BY <1>1, <1>2 DEF DocInv, Docs
<1>6. HandleInv'
  BY <1>1, <1>2, <1>4 DEF HandleInv, Leads
<1>7. WholeInv'
  BY <1>1, <1>2, <1>4 DEF WholeInv, Whole
<1> QED
  BY <1>5, <1>6, <1>7

LEMMA WriteKeeps ==
  ASSUME IInv, NEW s \in Sessions,
         UntarOpen(s) \/ UntarFill(s) \/ UntarThrows(s) \/ SaveJson(s)
  PROVE  DocInv' /\ HandleInv' /\ WholeInv'
<1>1. TypeOK /\ NodeInv /\ WalkInv /\ DocInv /\ HandleInv /\ WholeInv
  BY DEF IInv
<1>2. /\ UNCHANGED <<node, asked, ctx>> /\ InMem(s) \in BOOLEAN
      /\ \A t \in Sessions \ {s} : pc'[t] = pc[t] /\ pos'[t] = pos[t]
  <2>1. Start(s) \/ Step(s)
    BY DEF Step
  <2> QED
    BY <1>1, <2>1, Frame, WriteFacts
<1>3. PICK F \in SUBSET FileNames, content \in Contents :
        /\ Written(s, F, content, InMem(s))
        /\ content = Partial => F = Entry(s).to /\ (Opens(s) \/ node.part)
        /\ \/ pos' = pos /\ pc'[s] # "untar"
           \/ /\ UntarFill(s) /\ F = Entry(s).to /\ content # Partial
              /\ pc'[s] = "untar" /\ pos'[s] = pos[s] + 1
        /\ ~node.part /\ Json \in F =>
             content = Partial \/ \E defs \in 0..NOps : content = Doc(node.mem, defs)
        /\ asked[s].mem # InMem(s) => F = {Json}
        /\ pc[s] = "fill" => UntarFill(s)
  BY <1>1, WriteFacts
<1>4. /\ \A t \in Sessions, f \in FileNames :
           /\ handle'[t][f] = IF t = s /\ f \in F THEN IF InMem(s) THEN "tmp" ELSE "disk"
                              ELSE handle[t][f]
           /\ tmp'[t][f] = IF t = s /\ f \in F /\ InMem(s) THEN content ELSE tmp[t][f]
      /\ \A f \in FileNames : disk'[f] = IF f \in F /\ ~InMem(s) THEN content ELSE disk[f]
  BY <1>1, <1>2, <1>3, WrittenFacts
<1>5. content # None /\ Json \in FileNames
  BY ContentsDiffer, EpContextAssumption
<1>6. /\ \A t \in Sessions : InMem(t)' = InMem(t) /\ LeavesMemory(t)' = LeavesMemory(t)
      /\ \A t \in Sessions \ {s}, f \in FileNames :
           (Unpacked(t, f)' <=> Unpacked(t, f)) /\ (Filling(t, f)' <=> Filling(t, f))
      /\ \A f \in FileNames \ F : Unpacked(s, f)' => Unpacked(s, f)
  <2>1. /\ \A t \in Sessions : InMem(t)' = InMem(t) /\ LeavesMemory(t)' = LeavesMemory(t)
        /\ \A t \in Sessions \ {s}, f \in FileNames :
             (Unpacked(t, f)' <=> Unpacked(t, f)) /\ (Filling(t, f)' <=> Filling(t, f))
    BY <1>2 DEF InMem, LeavesMemory, Unpacked, Filling, Entry
  <2>2. ASSUME NEW f \in FileNames \ F, Unpacked(s, f)' PROVE Unpacked(s, f)
    <3>1. pos[s] \in Nat
      <4>1. Len(node.archive) \in Nat
        BY <1>1 DEF NodeInv, Holds
      <4> QED
        BY <1>1, <4>1 DEF TypeOK
    <3>2. CASE pos' = pos
      BY <1>2, <2>2, <3>2 DEF Unpacked
    <3>3. CASE F = Entry(s).to /\ pos'[s] = pos[s] + 1
      BY <1>2, <2>2, <3>1, <3>3 DEF Unpacked, Entry
    <3> QED
      BY <1>3, <3>2, <3>3
  <2> QED
    BY <2>1, <2>2
<1>7. DocInv'
  <2>1. ~node.part /\ Json \in F => content \in Docs
    BY <1>3 DEF Docs
  <2>2. Docs' = Docs
    BY <1>2 DEF Docs
  <2> QED
    BY <1>1, <1>2, <1>4, <1>5, <2>1, <2>2 DEF DocInv
<1>8. HandleInv'
  <2>1. pc'[s] \in InNeed => pc[s] \in InNeed
    <3>1. pc[s] \in {"untar", "fill", "save"}
      BY DEF UntarOpen, UntarFill, UntarThrows, SaveJson, Goto
    <3> QED
      BY <3>1 DEF InNeed
  <2>2. ASSUME NEW t \in Sessions, NEW f \in FileNames, f \notin F \/ t # s
        PROVE  Leads(t, f)'
    <3>1. handle'[t][f] = handle[t][f] /\ tmp'[t][f] = tmp[t][f]
      BY <1>4, <2>2
    <3>2. disk[f] # None => disk'[f] # None
      BY <1>4, <1>5
    <3>3. Unpacked(t, f)' /\ pc'[t] \in InNeed => Unpacked(t, f) /\ pc[t] \in InNeed
      BY <1>2, <1>6, <2>1, <2>2
    <3> QED
      BY <1>1, <1>2, <1>6, <3>1, <3>2, <3>3 DEF HandleInv, Leads
  <2>3. ASSUME NEW f \in F PROVE Leads(s, f)'
    <3>1. /\ f \in FileNames
          /\ handle'[s][f] = IF InMem(s) THEN "tmp" ELSE "disk"
          /\ InMem(s) => tmp'[s][f] = content
          /\ ~InMem(s) => disk'[f] = content
      BY <1>4
    <3>2. asked'[s] = asked[s] /\ InMem(s)' = InMem(s) /\ (asked[s].mem # InMem(s) => f = Json)
      BY <1>2, <1>3, <1>6
    <3> QED
      BY <1>2, <1>5, <3>1, <3>2 DEF Leads
  <2> QED
    BY <2>2, <2>3 DEF HandleInv
<1>9. WholeInv'
  <2> SUFFICES ASSUME ~node.part, NEW t \in Sessions, NEW f \in FileNames
               PROVE  Whole(t, f)'
    BY <1>2 DEF WholeInv
  <2>1. Whole(t, f)
    BY <1>1 DEF WholeInv
  <2>2. pos[s] \in Nat /\ node.cut \in Nat
    <3>1. Len(node.archive) \in Nat /\ node.cut \in 0..Len(node.archive)
      BY <1>1 DEF NodeInv, Holds
    <3> QED
      BY <1>1, <3>1 DEF TypeOK
  <2>3. content = Partial /\ f \in F =>
          /\ \E i \in 1..node.cut : f \in node.archive[i].to
          /\ Filling(s, f)'
    <3> SUFFICES ASSUME content = Partial, f \in F
                 PROVE  /\ \E i \in 1..node.cut : f \in node.archive[i].to
                        /\ Filling(s, f)'
      OBVIOUS
    <3>1. F = Entry(s).to /\ pc'[s] = "fill" /\ pos[s] < node.cut /\ pos' = pos
      BY <1>3 DEF Opens
    <3>2. pos[s] + 1 \in 1..node.cut
      BY <2>2, <3>1
    <3> QED
      BY <1>2, <3>1, <3>2 DEF Filling, Entry
  <2>4. disk'[f] = Partial => \E i \in 1..node.cut : f \in node.archive[i].to
    BY <1>4, <2>1, <2>3 DEF Whole
  <2>5. tmp'[t][f] = Partial => Filling(t, f)' /\ InMem(t)'
    <3>1. CASE t # s
      BY <1>4, <1>6, <2>1, <3>1 DEF Whole
    <3>2. CASE t = s /\ f \in F /\ InMem(s)
      BY <1>4, <1>6, <2>3, <3>2
    <3>3. CASE t = s /\ (f \notin F \/ ~InMem(s))
      <4>1. tmp'[t][f] = tmp[s][f]
        BY <1>4, <3>3
      <4>2. tmp[s][f] # Partial
        <5> SUFFICES ASSUME tmp[s][f] = Partial PROVE FALSE
          OBVIOUS
        <5>1. pc[s] = "fill" /\ f \in Entry(s).to /\ InMem(s)
          BY <2>1, <3>3 DEF Whole, Filling
        <5>2. UntarFill(s)
          BY <1>3, <5>1
        <5>3. pc'[s] = "untar"
          BY <1>1, <5>2 DEF UntarFill, Goto, TypeOK
        <5>4. F = Entry(s).to
          BY <1>3, <5>3
        <5> QED
          BY <3>3, <5>1, <5>4
      <4> QED
        BY <4>1, <4>2
    <3> QED
      BY <3>1, <3>2, <3>3
  <2>6. ASSUME disk'[f] = Partial, Unpacked(t, f)', ~asked[t].mem, pc'[t] \in InNeed
        PROVE  \E u \in Sessions : Filling(u, f)' /\ ~InMem(u)'
    <3>1. CASE f \in F /\ ~InMem(s)
      BY <1>4, <1>6, <2>3, <2>6, <3>1
    <3>2. CASE f \notin F \/ InMem(s)
      <4>1. disk[f] = Partial
        BY <1>4, <2>6, <3>2
      <4>2. pc[t] \in InNeed
        <5>1. pc[s] \in {"untar", "fill", "save"}
          BY DEF UntarOpen, UntarFill, UntarThrows, SaveJson, Goto
        <5> QED
          BY <1>2, <2>6, <5>1 DEF InNeed
      <4>3. CASE Unpacked(t, f)
        <5>1. PICK u \in Sessions : Filling(u, f) /\ ~InMem(u)
          BY <2>1, <2>6, <4>1, <4>2, <4>3 DEF Whole
        <5>2. CASE u = s
          <6>1. pc'[s] = "untar" /\ UntarFill(s)
            BY <1>1, <1>3, <5>1, <5>2 DEF Filling, UntarFill, Goto, TypeOK
          <6> QED
            BY <1>3, <3>2, <5>1, <5>2, <6>1 DEF Filling
        <5>3. CASE u # s
          BY <1>6, <5>1, <5>3
        <5> QED
          BY <5>2, <5>3
      <4>4. CASE ~Unpacked(t, f)
        <5>1. t = s /\ f \in F
          BY <1>6, <2>6, <4>4
        <5>2. InMem(s) /\ ~asked[s].mem
          BY <2>6, <3>2, <5>1
        <5>3. F = {Json} /\ pos' # pos
          BY <1>2, <1>3, <2>6, <4>4, <5>1, <5>2 DEF Unpacked
        <5>4. pc[s] = "fill"
          BY <1>3, <5>3 DEF UntarFill, Goto
        <5>5. ctx[s] = Fresh(s) /\ Fresh(s).mem = asked[s].mem
          BY <1>1, <5>4 DEF WalkInv, Walk, Loading, Fresh
        <5> QED
          BY <5>2, <5>5 DEF InMem
      <4> QED
        BY <4>3, <4>4
    <3> QED
      BY <3>1, <3>2
  <2> QED
    BY <1>2, <2>4, <2>5, <2>6 DEF Whole
<1> QED
  BY <1>7, <1>8, <1>9

\* Once context.json is read, every file is opened again in the mode it gives.
LEMMA ReadJsonKeeps ==
  ASSUME IInv, NEW s \in Sessions, ReadJson(s)
  PROVE  DocInv' /\ HandleInv' /\ WholeInv'
<1> DEFINE mem == Readable(s, Json, InMem(s)).mem
<1>1. TypeOK /\ NodeInv /\ WalkInv /\ DocInv /\ HandleInv /\ WholeInv
  BY DEF IInv
<1>2. /\ UNCHANGED <<node, asked, pos, tmp, disk>>
      /\ pc[s] = "read" /\ pc'[s] = "eps" /\ InMem(s)' = mem
      /\ \A t \in Sessions \ {s} : pc'[t] = pc[t] /\ InMem(t)' = InMem(t)
      /\ \A f \in FileNames : handle'[s][f] = AfterRead(s, f, mem)
      /\ \A t \in Sessions \ {s}, f \in FileNames : handle'[t][f] = handle[t][f]
  BY <1>1 DEF ReadJson, Goto, TypeOK, InMem
<1>3. mem \in BOOLEAN /\ (~node.part => mem = node.mem)
  BY <1>1, DocFacts, DocMode
<1> HIDE DEF mem
<1>4. InMem(s) = asked[s].mem
  <2>1. ctx[s] = Fresh(s) /\ Fresh(s).mem = asked[s].mem
    BY <1>1, <1>2 DEF WalkInv, Walk, Loading, Fresh
  <2> QED
    BY <2>1 DEF InMem
<1>5. /\ \A t \in Sessions, f \in FileNames :
           /\ Unpacked(t, f)' <=> Unpacked(t, f)
           /\ Filling(t, f)' <=> Filling(t, f)
           /\ pc'[t] \in InNeed => pc[t] \in InNeed
      /\ \A f \in FileNames : ~Filling(s, f)
      /\ \A t \in Sessions : LeavesMemory(t)' = LeavesMemory(t)
  BY <1>2 DEF Unpacked, Filling, Entry, InNeed, LeavesMemory
<1>6. DocInv'
  BY <1>1, <1>2 DEF DocInv, Docs
<1>7. HandleInv'
  <2>1. ASSUME NEW f \in FileNames PROVE Leads(s, f)'
    <3>1. Leads(s, f)
      BY <1>1 DEF HandleInv
    <3>2. CASE mem
      <4>1. handle'[s][f] = handle[s][f]
        BY <1>1, <1>2, <3>2, AfterReadFacts
      <4> QED
        BY <1>2, <1>4, <1>5, <3>1, <3>2, <4>1 DEF Leads
    <3>3. CASE ~mem
      <4>1. /\ handle'[s][f] = "disk" => disk[f] # None
            /\ handle'[s][f] # "tmp"
            /\ handle'[s][f] = "closed" => handle[s][f] # "none" /\ disk[f] = None
            /\ handle[s][f] # "none" => handle'[s][f] # "none"
        BY <1>1, <1>2, <1>3, <3>3, AfterReadFacts
      <4>2. handle[s][f] \in {"none", "tmp", "disk", "closed"}
        BY <1>1 DEF TypeOK
      <4>3. handle'[s][f] = "closed" => asked[s].mem
        BY <1>4, <3>1, <4>1, <4>2 DEF Leads
      <4>4. asked[s].mem => LeavesMemory(s) \/ node.part
        BY <1>3, <3>3 DEF LeavesMemory
      <4> QED
        BY <1>2, <1>4, <1>5, <3>1, <3>3, <4>1, <4>3, <4>4 DEF Leads
    <3> QED
      BY <1>3, <3>2, <3>3
  <2>2. ASSUME NEW t \in Sessions \ {s}, NEW f \in FileNames PROVE Leads(t, f)'
    BY <1>1, <1>2, <1>5 DEF HandleInv, Leads
  <2> QED
    BY <2>1, <2>2 DEF HandleInv
<1>8. WholeInv'
  <2>1. \A t \in Sessions, f \in FileNames :
          Filling(t, f) => Filling(t, f)' /\ InMem(t)' = InMem(t)
    BY <1>2, <1>5
  <2> QED
    BY <1>1, <1>2, <1>5, <2>1 DEF WholeInv, Whole
<1> QED
  BY <1>6, <1>7, <1>8

\* A custom op opens the files it reads again, and the last one closes all.
LEMMA CreateOpKeeps ==
  ASSUME IInv, NEW s \in Sessions, NEW i \in 1..NOps, CreateOp(s, i)
  PROVE  DocInv' /\ HandleInv' /\ WholeInv'
<1>1. TypeOK /\ NodeInv /\ WalkInv /\ DocInv /\ HandleInv /\ WholeInv
  BY DEF IInv
<1>2. /\ UNCHANGED <<node, asked, pos, ctx>>
      /\ pc[s] = "ops" /\ pc'[s] \in {"ops", "running"}
      /\ \A t \in Sessions \ {s} : pc'[t] = pc[t]
  BY <1>1 DEF CreateOp, TypeOK
<1>3. /\ \A t \in Sessions, f \in FileNames :
           /\ Unpacked(t, f)' <=> Unpacked(t, f)
           /\ Filling(t, f)' <=> Filling(t, f)
           /\ pc'[t] \in InNeed => pc[t] \in InNeed
      /\ \A f \in FileNames : ~Filling(s, f)
      /\ \A t \in Sessions : LeavesMemory(t)' = LeavesMemory(t) /\ InMem(t)' = InMem(t)
  BY <1>2 DEF Unpacked, Filling, Entry, InNeed, LeavesMemory, InMem
<1>4. InMem(s) \in BOOLEAN /\ Json \in FileNames
  BY <1>1, SessionType, EpContextAssumption
<1>5. CASE pc'[s] = "running" /\ Closed(s)
  <2>1. /\ disk' = disk
        /\ \A f \in FileNames : handle'[s][f] = "none" /\ tmp'[s][f] = None
        /\ \A t \in Sessions \ {s}, f \in FileNames :
             handle'[t][f] = handle[t][f] /\ tmp'[t][f] = tmp[t][f]
    BY <1>1, <1>5 DEF Closed, TypeOK
  <2>2. DocInv'
    BY <1>1, <1>2, <1>4, <2>1 DEF DocInv, Docs
  <2>3. HandleInv'
    <3>1. \A f \in FileNames : Leads(s, f)'
      BY <1>5, <2>1 DEF Leads, InNeed
    <3>2. \A t \in Sessions \ {s}, f \in FileNames : Leads(t, f)'
      BY <1>1, <1>2, <1>3, <2>1 DEF HandleInv, Leads
    <3> QED
      BY <3>1, <3>2 DEF HandleInv
  <2>4. WholeInv'
    BY <1>1, <1>2, <1>3, <2>1, ContentsDiffer DEF WholeInv, Whole
  <2> QED
    BY <2>2, <2>3, <2>4
<1>6. CASE /\ pc'[s] = "ops" /\ UNCHANGED <<tmp, disk>>
           /\ handle' = [handle EXCEPT ![s] =
                [f \in FileNames |-> IF f \in FilesOf[i] THEN AfterRead(s, f, InMem(s)) ELSE @[f]]]
  <2>1. /\ \A f \in FileNames : handle'[s][f] \in {handle[s][f], AfterRead(s, f, InMem(s))}
        /\ \A t \in Sessions \ {s}, f \in FileNames : handle'[t][f] = handle[t][f]
    BY <1>1, <1>6 DEF TypeOK
  <2>2. DocInv'
    BY <1>1, <1>2, <1>6 DEF DocInv, Docs
  <2>3. HandleInv'
    <3>1. ASSUME NEW f \in FileNames PROVE Leads(s, f)'
      <4>1. Leads(s, f) /\ handle[s][f] \in {"none", "tmp", "disk", "closed"}
        BY <1>1 DEF HandleInv, TypeOK
      <4>2. CASE handle'[s][f] = handle[s][f]
        BY <1>2, <1>3, <1>6, <4>1, <4>2 DEF Leads
      <4>3. CASE handle'[s][f] # handle[s][f]
        <5>1. ~InMem(s) /\ handle'[s][f] = AfterRead(s, f, InMem(s))
          BY <1>1, <1>4, <2>1, <4>3, AfterReadFacts
        <5>2. /\ handle'[s][f] = "disk" => disk[f] # None
              /\ handle'[s][f] # "tmp"
              /\ handle'[s][f] = "closed" => handle[s][f] # "none" /\ disk[f] = None
              /\ handle[s][f] # "none" => handle'[s][f] # "none"
          BY <1>1, <1>4, <5>1, AfterReadFacts
        <5>3. handle'[s][f] # "closed"
          BY <4>1, <4>3, <5>1, <5>2 DEF Leads
        <5> QED
          BY <1>2, <1>3, <1>6, <4>1, <5>1, <5>2, <5>3 DEF Leads
      <4> QED
        BY <4>2, <4>3
    <3>2. \A t \in Sessions \ {s}, f \in FileNames : Leads(t, f)'
      BY <1>1, <1>2, <1>3, <1>6, <2>1 DEF HandleInv, Leads
    <3> QED
      BY <3>1, <3>2 DEF HandleInv
  <2>4. WholeInv'
    BY <1>1, <1>2, <1>3, <1>6 DEF WholeInv, Whole
  <2> QED
    BY <2>2, <2>3, <2>4
<1> QED
  <2>1. \/ pc'[s] = "running" /\ Closed(s)
        \/ /\ pc' = pc /\ UNCHANGED <<tmp, disk>>
           /\ handle' = [handle EXCEPT ![s] =
                [f \in FileNames |-> IF f \in FilesOf[i] THEN AfterRead(s, f, InMem(s)) ELSE @[f]]]
    BY <1>1 DEF CreateOp, TypeOK
  <2> QED
    BY <1>2, <1>5, <1>6, <2>1

\* The files of a killed process are closed, its temporary files are gone, and
\* nobody is unpacking.
LEMMA CrashKeeps ==
  ASSUME IInv, Crash
  PROVE  IInv'
<1>1. TypeOK /\ NodeInv /\ WalkInv /\ DocInv /\ HandleInv /\ WholeInv
  BY DEF IInv
<1>2. /\ pc' = [s \in Sessions |-> "idle"] /\ ctx' = [s \in Sessions |-> Fresh(s)]
      /\ pos' = [s \in Sessions |-> 0] /\ eps' = [s \in Sessions |-> 0]
      /\ made' = [s \in Sessions |-> {}] /\ torn' = [s \in Sessions |-> FALSE] /\ mtx' = Nobody
      /\ handle' = [s \in Sessions |-> [f \in FileNames |-> "none"]]
      /\ tmp' = [s \in Sessions |-> [f \in FileNames |-> None]]
      /\ UNCHANGED <<node, asked, disk>>
  BY DEF Crash
<1>3. Json \in FileNames /\ 0 \in 0..NOps
  BY EpContextAssumption
<1>4. TypeOK'
  <2>1. \A s \in Sessions : Fresh(s) \in [mem : BOOLEAN, key : Keys \cup {Nobody}, defs : 0..NOps]
    BY <1>1, SessionType
  <2>2. Len(node.archive) \in Nat
    BY <1>1 DEF NodeInv, Holds
  <2> QED
    BY <1>1, <1>2, <2>1, <2>2 DEF TypeOK
<1>5. NodeInv'
  BY <1>1, <1>2 DEF NodeInv, Holds
<1>6. WalkInv'
  <2>1. 0 <= node.cut
    BY <1>1 DEF NodeInv, Holds
  <2> QED
    BY <1>2, <2>1 DEF WalkInv, Walk, Loading, Fresh
<1>7. DocInv'
  BY <1>1, <1>2, <1>3 DEF DocInv, Docs
<1>8. HandleInv'
  BY <1>2 DEF HandleInv, Leads, InNeed
<1>9. WholeInv'
  BY <1>1, <1>2, ContentsDiffer DEF WholeInv, Whole, InNeed
<1> QED
  BY <1>4, <1>5, <1>6, <1>7, <1>8, <1>9 DEF IInv

LEMMA NextKeeps == IInv /\ [Next]_vars => IInv'
<1> SUFFICES ASSUME IInv, [Next]_vars PROVE IInv'
  OBVIOUS
<1>1. ASSUME NEW s \in Sessions, Start(s) \/ Step(s) PROVE IInv'
  <2>1. TypeOK /\ NodeInv /\ WalkInv /\ DocInv
    BY DEF IInv
  <2>2. TypeOK' /\ NodeInv' /\ WalkInv'
    BY <1>1, <2>1, StepType, StepNode, StepWalk
  <2>3. \/ Quiet(s) \/ ReadJson(s) \/ \E i \in 1..NOps : CreateOp(s, i)
        \/ UntarOpen(s) \/ UntarFill(s) \/ UntarThrows(s) \/ SaveJson(s)
    BY <1>1 DEF Step, Quiet
  <2>4. DocInv' /\ HandleInv' /\ WholeInv'
    BY <2>3, QuietKeeps, ReadJsonKeeps, CreateOpKeeps, WriteKeeps
  <2> QED
    BY <2>2, <2>4 DEF IInv
<1>2. CASE UNCHANGED vars
  BY <1>2 DEF IInv, vars, files, TypeOK, NodeInv, Holds, WalkInv, Walk, Fresh, InMem, DocInv, Docs,
              HandleInv, Leads, WholeInv, Whole, Filling, Entry, Unpacked, LeavesMemory
<1> QED
  BY <1>1, <1>2, CrashKeeps DEF Next

LEMMA Invariance == Spec => []IInv
  BY InitHolds, NextKeeps, PTL DEF Spec

-----------------------------------------------------------------------------
(* What a session finds in its files *)

\* A session that unpacks an undamaged archive finds context.json in it.
LEMMA JsonIsThere ==
  ASSUME IInv, Intact, NEW s \in Sessions, pc[s] = "read"
  PROVE  Readable(s, Json, InMem(s)) # None
<1>1. TypeOK /\ NodeInv /\ WalkInv /\ HandleInv /\ Json \in FileNames
  BY EpContextAssumption DEF IInv
<1>2. pos[s] = Len(node.archive) /\ Unpacked(s, Json)
  <2>1. pos[s] = Len(node.archive)
    BY <1>1 DEF WalkInv, Walk, Intact
  <2>2. \E i \in 1..Len(node.archive) : Json \in node.archive[i].to
    BY <1>1 DEF NodeInv, Holds
  <2> QED
    BY <2>1, <2>2 DEF Unpacked
<1>3. InMem(s) = asked[s].mem /\ asked[s].mem \in BOOLEAN
  <2>1. ctx[s] = Fresh(s) /\ Fresh(s).mem = asked[s].mem
    BY <1>1 DEF WalkInv, Walk, Loading, Fresh
  <2> QED
    BY <1>1, <2>1, SessionType DEF InMem
<1>4. Leads(s, Json) /\ handle[s][Json] \in {"none", "tmp", "disk", "closed"}
  BY <1>1 DEF HandleInv, TypeOK
<1>5. handle[s][Json] \in {"tmp", "disk"} /\ (InMem(s) <=> handle[s][Json] = "tmp")
  BY <1>2, <1>3, <1>4 DEF Leads, InNeed
<1> QED
  BY <1>4, <1>5 DEF Leads, Readable

\* An archive that is cut within an entry is damaged.
LEMMA PartIsDamaged == IInv /\ node.part => ~Intact
  BY DEF IInv, NodeInv, Intact, Holds

\* A FILE* that is closed and still in the map is used only by a session whose
\* files have moved from memory to log_dir, or after a damaged archive.
THEOREM UndefinedOnlyThen == Spec => []UndefinedOnlyOutOfMemory
<1>1. Init => UndefinedOnlyOutOfMemory
  BY DEF Init, UndefinedOnlyOutOfMemory
<1>2. IInv /\ UndefinedOnlyOutOfMemory /\ [Next]_vars => UndefinedOnlyOutOfMemory'
  <2> SUFFICES ASSUME IInv, UndefinedOnlyOutOfMemory, [Next]_vars,
                      NEW s \in Sessions, pc'[s] = "undefined"
               PROVE  (LeavesMemory(s) \/ ~Intact)'
    BY DEF UndefinedOnlyOutOfMemory
  <2>1. TypeOK /\ HandleInv
    BY DEF IInv
  <2>2. ASSUME NEW t \in Sessions, Start(t) \/ Step(t) PROVE LeavesMemory(s) \/ ~Intact
    <3>1. CASE pc[s] = "undefined"
      BY <3>1 DEF UndefinedOnlyOutOfMemory
    <3>2. CASE pc[s] # "undefined"
      <4>1. t = s
        BY <2>1, <2>2, <3>2, Frame
      <4>2. CASE ReadJsonMissing(s)
        BY <4>2, JsonIsThere DEF ReadJsonMissing, Goto
      <4>3. CASE SaveJsonUndefined(s) \/ \E i \in 1..NOps : CreateOpUndefined(s, i)
        <5>1. \E f \in FileNames : handle[s][f] = "closed"
          BY <4>3, EpContextAssumption DEF SaveJsonUndefined, CreateOpUndefined, Dangling
        <5> QED
          BY <2>1, <5>1, PartIsDamaged DEF HandleInv, Leads
      <4>4. CASE \/ Start(s) \/ UntarOpen(s) \/ UntarFill(s) \/ UntarThrows(s) \/ UntarEnds(s)
                 \/ ReadJson(s) \/ CreateEps(s) \/ CreateEpsThrows(s) \/ SaveJson(s)
        BY <2>1, <4>4 DEF TypeOK, Goto, Start, UntarOpen, UntarFill, UntarThrows, UntarEnds,
                          ReadJson, CreateEps, CreateEpsThrows, SaveJson
      <4>5. ASSUME NEW i \in 1..NOps, CreateOp(s, i) \/ CreateOpThrows(s, i) PROVE FALSE
        BY <2>1, <3>2, <4>5 DEF TypeOK, Goto, CreateOp, CreateOpThrows
      <4> QED
        BY <2>2, <3>2, <4>1, <4>2, <4>3, <4>4, <4>5 DEF Step
    <3> QED
      BY <3>1, <3>2
  <2>3. CASE Crash
    BY <2>3 DEF Crash
  <2>4. CASE UNCHANGED vars
    BY <2>4 DEF vars, UndefinedOnlyOutOfMemory, LeavesMemory, Intact
  <2>5. ASSUME NEW t \in Sessions, Start(t) \/ Step(t) PROVE (LeavesMemory(s) \/ ~Intact)'
    BY <2>1, <2>2, <2>5, Frame DEF LeavesMemory, Intact
  <2> QED
    BY <2>3, <2>4, <2>5 DEF Next
<1> QED
  BY <1>1, <1>2, Invariance, PTL DEF Spec

\* From an undamaged archive no custom op misses a file, in any order of the
\* custom ops and whatever other sessions do to log_dir.
THEOREM FilesAreFound == Spec => []OpsFindTheirFiles
<1>1. Init => OpsFindTheirFiles
  BY DEF Init, OpsFindTheirFiles
<1>2. IInv /\ OpsFindTheirFiles /\ [Next]_vars => OpsFindTheirFiles'
  <2> SUFFICES ASSUME IInv, OpsFindTheirFiles, [Next]_vars,
                      NEW s \in Sessions, pc'[s] = "failed", eps'[s] > 0, Intact'
               PROVE  FALSE
    BY DEF OpsFindTheirFiles
  <2>1. TypeOK /\ NodeInv /\ WalkInv /\ HandleInv
    BY DEF IInv
  <2>2. ASSUME NEW t \in Sessions, Start(t) \/ Step(t) PROVE FALSE
    <3>1. Intact /\ (t = s \/ (pc[s] = "failed" /\ eps[s] > 0))
      <4>1. node' = node
        BY <2>1, <2>2, Frame
      <4>2. t # s => pc'[s] = pc[s] /\ eps'[s] = eps[s]
        BY <2>1, <2>2, Frame
      <4> QED
        BY <4>1, <4>2 DEF Intact
    <3>2. t = s /\ ~(pc[s] = "failed" /\ eps[s] > 0)
      BY <3>1 DEF OpsFindTheirFiles
    <3>3. CASE \E i \in 1..NOps : CreateOpThrows(s, i)
      <4>1. PICK i \in 1..NOps : CreateOpThrows(s, i)
        BY <3>3
      <4>2. pc[s] = "ops" /\ ~Dangling(s, FilesOf[i]) /\ None \in Reads(s, i)
        BY <4>1 DEF CreateOpThrows, Goto
      <4>3. PICK f \in FilesOf[i] : Readable(s, f, InMem(s)) = None
        BY <4>2 DEF Reads
      <4>4. f \in FileNames /\ handle[s][f] # "closed"
        BY <4>2, EpContextAssumption DEF Dangling
      <4>5. Unpacked(s, f)
        <5>1. pos[s] = Len(node.archive)
          BY <2>1, <3>1, <4>2 DEF WalkInv, Walk, Intact
        <5>2. \E k \in 1..Len(node.archive) : f \in node.archive[k].to
          BY <2>1, <4>4 DEF NodeInv, Holds
        <5> QED
          BY <5>1, <5>2 DEF Unpacked
      <4>6. Leads(s, f) /\ handle[s][f] \in {"none", "tmp", "disk", "closed"}
        BY <2>1, <4>4 DEF HandleInv, TypeOK
      <4>7. \/ handle[s][f] = "disk" /\ disk[f] # None
            \/ handle[s][f] = "tmp" /\ tmp[s][f] # None /\ InMem(s)
        BY <4>2, <4>4, <4>5, <4>6 DEF Leads, InNeed
      <4> QED
        BY <4>3, <4>7 DEF Readable
    <3>4. CASE SaveJson(s)
      BY <2>1, <3>4 DEF TypeOK, SaveJson, Goto
    <3>5. CASE \/ Start(s) \/ UntarOpen(s) \/ UntarFill(s) \/ UntarThrows(s) \/ UntarEnds(s)
               \/ ReadJson(s) \/ ReadJsonMissing(s)
               \/ CreateEps(s) \/ CreateEpsThrows(s) \/ SaveJsonUndefined(s)
      BY <2>1, <3>5 DEF TypeOK, Goto, Start, UntarOpen, UntarFill, UntarThrows, UntarEnds,
                        ReadJson, ReadJsonMissing, CreateEps, CreateEpsThrows, SaveJsonUndefined
    <3>6. ASSUME NEW i \in 1..NOps, CreateOp(s, i) \/ CreateOpUndefined(s, i) PROVE FALSE
      BY <2>1, <3>2, <3>6 DEF TypeOK, Goto, CreateOp, CreateOpUndefined
    <3> QED
      BY <2>2, <3>2, <3>3, <3>4, <3>5, <3>6 DEF Step
  <2>3. CASE Crash
    BY <2>3 DEF Crash
  <2>4. CASE UNCHANGED vars
    BY <2>4 DEF vars, OpsFindTheirFiles, Intact
  <2> QED
    BY <2>2, <2>3, <2>4 DEF Next
<1> QED
  BY <1>1, <1>2, Invariance, PTL DEF Spec

\* The types of the variables, in every state.
THEOREM TypesHold == Spec => []TypeOK
  BY Invariance, PTL DEF IInv

\* A custom op that reads a file that is not whole reads it from log_dir while
\* another session unpacks it there again: never what a killed session left.
THEOREM TornThen == Spec => TornOnlyDuringUntar
<1>1. IInv /\ [Next]_vars =>
        [\A s \in Sessions : ~torn[s] /\ torn'[s] =>
           \/ LeavesMemory(s)
           \/ \E u \in Sessions \ {s} : pc[u] = "fill" /\ ~InMem(u)]_vars
  <2> SUFFICES ASSUME IInv, Next, NEW s \in Sessions, ~torn[s], torn'[s], ~LeavesMemory(s)
               PROVE  \E u \in Sessions \ {s} : pc[u] = "fill" /\ ~InMem(u)
    OBVIOUS
  <2>1. TypeOK /\ NodeInv /\ WalkInv /\ HandleInv /\ WholeInv
    BY DEF IInv
  <2>2. PICK i \in 1..NOps : CreateOp(s, i)
    <3>1. ~Crash
      BY DEF Crash
    <3>2. PICK t \in Sessions : Start(t) \/ Step(t)
      BY <3>1 DEF Next
    <3>3. t = s
      BY <2>1, <3>2, Frame
    <3>4. torn' # torn
      OBVIOUS
    <3> QED
      BY <3>2, <3>3, <3>4 DEF Step, Start, UntarOpen, UntarFill, UntarThrows, UntarEnds,
           ReadJson, ReadJsonMissing, CreateEps, CreateEpsThrows, SaveJson, SaveJsonUndefined,
           CreateOpThrows, CreateOpUndefined
  <2>3. pc[s] = "ops" /\ Partial \in Reads(s, i)
    BY <2>1, <2>2, Zenon DEF CreateOp, TypeOK
  <2>4. PICK f \in FilesOf[i] : Readable(s, f, InMem(s)) = Partial
    BY <2>3 DEF Reads
  <2>5. f \in FileNames
    BY EpContextAssumption
  <2>6. pos[s] = node.cut /\ ~node.part /\ InMem(s) = node.mem
    BY <2>1, <2>3 DEF WalkInv, Walk, Loading
  <2>7. Leads(s, f) /\ Whole(s, f)
    BY <2>1, <2>5, <2>6 DEF HandleInv, WholeInv
  <2>8. tmp[s][f] # Partial
    BY <2>3, <2>7 DEF Whole, Filling
  <2>9. disk[f] = Partial /\ ~asked[s].mem
    BY <2>4, <2>6, <2>7, <2>8, ContentsDiffer DEF Readable, Leads, LeavesMemory
  <2>10. Unpacked(s, f)
    BY <2>6, <2>7, <2>9 DEF Whole, Unpacked
  <2>11. PICK u \in Sessions : Filling(u, f) /\ ~InMem(u)
    BY <2>3, <2>7, <2>9, <2>10 DEF Whole, InNeed
  <2> QED
    BY <2>3, <2>11 DEF Filling
<1> QED
  BY <1>1, Invariance, PTL DEF Spec, TornOnlyDuringUntar
=============================================================================
