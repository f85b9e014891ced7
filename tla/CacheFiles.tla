----------------------------- MODULE CacheFiles -----------------------------
(***************************************************************************)
(* The cache files of a PassContextImp: cache_files_, a map from names to  *)
(* FILE*.  Depending on cache_in_mem() at the moment of a call, a FILE* is *)
(* a temporary file of this context or a file in log_dir, which other      *)
(* contexts share.                                                         *)
(***************************************************************************)
EXTENDS Naturals, FiniteSets

CONSTANTS
  Sessions,   \* inference sessions, each with a context of its own
  FileNames,  \* names of cache files
  None        \* no contents

VARIABLES
  handle,  \* cache_files_[f] of each session: "none", a "tmp" file, a file on
           \* "disk", or a FILE* that has been "closed" and is still in the map
  tmp,     \* contents of its temporary files
  disk     \* contents of the files in log_dir

files == <<handle, tmp, disk>>

FilesInit ==
  /\ handle = [s \in Sessions |-> [f \in FileNames |-> "none"]]
  /\ tmp = [s \in Sessions |-> [f \in FileNames |-> None]]
  /\ disk = [f \in FileNames |-> None]

\* open_file_for_read: what the caller can read, None if it gets nullptr.
Readable(s, f, inMem) ==
  IF inMem /\ handle[s][f] = "none" THEN None
  ELSE IF inMem /\ handle[s][f] = "tmp" THEN tmp[s][f]
  ELSE disk[f]

AfterReadAlwaysReopens(s, f, inMem) ==
  IF disk[f] # None THEN "disk"
  ELSE IF handle[s][f] = "none" THEN "none" ELSE "closed"

\* The FILE* after that: freopen leaves the map with the old one, which it has
\* closed, when the file is not in log_dir.
AfterRead(s, f, inMem) ==
  IF inMem THEN handle[s][f]
  ELSE IF disk[f] # None THEN "disk"
  ELSE IF handle[s][f] = "none" THEN "none" ELSE "closed"

\* open_file_for_write and fwrite, for every file of F.
Written(s, F, content, inMem) ==
  /\ handle' = [handle EXCEPT ![s] =
       [f \in FileNames |->
         IF f \notin F THEN @[f] ELSE IF inMem THEN "tmp" ELSE "disk"]]
  /\ tmp' = IF inMem
            THEN [tmp EXCEPT ![s] = [f \in FileNames |-> IF f \in F THEN content ELSE @[f]]]
            ELSE tmp
  /\ disk' = IF inMem THEN disk
             ELSE [f \in FileNames |-> IF f \in F THEN content ELSE disk[f]]

\* fclose of every FILE* and cache_files_.clear(), or the end of the context.
Closed(s) ==
  /\ handle' = [handle EXCEPT ![s] = [f \in FileNames |-> "none"]]
  /\ tmp' = [tmp EXCEPT ![s] = [f \in FileNames |-> None]]
  /\ UNCHANGED disk

\* rewind, freopen or fclose of a FILE* that has been closed is undefined.
Dangling(s, F) == \E f \in F : handle[s][f] = "closed"
=============================================================================
