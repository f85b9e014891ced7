------------------------------ MODULE TarBall ------------------------------
(***************************************************************************)
(* TarWriter and TarReader: the archive of the cache files that the main   *)
(* EPContext node carries, written block by block by one session and read  *)
(* back by another.  A file is a header block and data blocks; a name that *)
(* does not fit into the header goes before them, in an entry of type "L"  *)
(* of its own; two zero blocks end the archive.                            *)
(***************************************************************************)
EXTENDS Naturals, Sequences

CONSTANTS
  Names,       \* names of cache files
  NameSize,    \* the length of each
  NameField,   \* sizeof(header.name)
  BlockSize,   \* bytes in a block
  MaxCounted,  \* blocks the int i of both loops over a file can count
  Sources,     \* the archives to write: sequences of entries, no name twice
  MaxFaults    \* bound: 1 if the archive may lose its end

ASSUME TarBallAssumption ==
  /\ NameSize \in [Names -> Nat \ {0}]
  /\ NameField \in Nat /\ BlockSize \in Nat \ {0} /\ MaxCounted \in Nat \ {0}
  /\ Sources \subseteq Seq([name : Names, size : Nat])
  /\ \A s \in Sources : \A i, j \in DOMAIN s : s[i].name = s[j].name => i = j
  /\ MaxFaults \in Nat

VARIABLES
  src,       \* the files to archive, in the order of cache_files_
  written,   \* how many TarWriter::write has written
  tape,      \* the blocks of the archive
  stored,    \* the writer is gone
  faults,    \* faults injected
  pos,       \* blocks the reader has consumed
  restored,  \* what the reader built: name, blocks and bytes, in order
  outcome    \* of tar_file_to_cache_files

vars == <<src, written, tape, stored, faults, pos, restored, outcome>>
writer == <<src, written, tape, stored, faults>>
reader == <<pos, restored, outcome>>

-----------------------------------------------------------------------------
(* Blocks *)

Blocks(bytes) == (bytes + BlockSize - 1) \div BlockSize

\* Turns of `for (i = 0; i < size; i += 512)`: when the int i overflows, the
\* comparison with the unsigned size is false.
Counted(bytes) == IF Blocks(bytes) < MaxCounted THEN Blocks(bytes) ELSE MaxCounted

\* Bytes those turns hand to the file: the last one only what is left.
Capped(bytes) ==
  IF bytes < Counted(bytes) * BlockSize THEN bytes ELSE Counted(bytes) * BlockSize

Header(type, name, size) == [kind |-> type, name |-> name, n |-> size]
Pieces(kind, name, count) == [i \in 1..count |-> [kind |-> kind, name |-> name, n |-> i]]
Zero == [kind |-> "zero", name |-> "none", n |-> 0]
IsLong(name) == NameSize[name] >= NameField

\* The blocks of a file's contents, and what a whole file is when restored.
Contents(e) == Pieces("data", e.name, Counted(e.size))
File(e) == [name |-> e.name, blocks |-> Contents(e), bytes |-> Capped(e.size)]

Front(k) == SubSeq(tape, 1, k)
Available(k) == pos + k <= Len(tape)

-----------------------------------------------------------------------------

Init ==
  /\ src \in Sources
  /\ written = 0 /\ tape = <<>> /\ stored = FALSE /\ faults = 0
  /\ pos = 0 /\ restored = <<>> /\ outcome = "reading"

\* The entry TarWriter::write is called for.
Entry == src[written + 1]
Writing == ~stored /\ written < Len(src)

WriteShortOmitsPartBlock ==
  /\ Writing /\ ~IsLong(Entry.name)
  /\ tape' = tape \o <<Header("0", Entry.name, Entry.size)>>
                  \o Pieces("data", Entry.name, Entry.size \div BlockSize)
  /\ written' = written + 1
  /\ UNCHANGED <<src, stored, faults, reader>>

WriteShort ==
  /\ Writing /\ ~IsLong(Entry.name)
  /\ tape' = tape \o <<Header("0", Entry.name, Entry.size)>> \o Contents(Entry)
  /\ written' = written + 1
  /\ UNCHANGED <<src, stored, faults, reader>>

\* The second header is written where an inner `size`, that of the name,
\* hides the size of the file.
WriteLong ==
  /\ Writing /\ IsLong(Entry.name)
  /\ LET len == NameSize[Entry.name] IN
     tape' = tape \o <<Header("L", Entry.name, len)>>
                  \o Pieces("name", Entry.name, Blocks(len))
                  \o <<Header("0", Entry.name, len)>>
                  \o Contents(Entry)
  /\ written' = written + 1
  /\ UNCHANGED <<src, stored, faults, reader>>

\* ~TarWriter, and the archive is stored with the EPContext node.
WriterEnds ==
  /\ ~stored /\ written = Len(src)
  /\ tape' = tape \o <<Zero, Zero>>
  /\ stored' = TRUE
  /\ UNCHANGED <<src, written, faults, reader>>

\* The writer is killed, or the last blocks never reach the file: nobody
\* looks at what cache_files_to_tar_file and fclose return.
LoseEnd ==
  /\ pos = 0 /\ outcome = "reading"
  /\ faults < MaxFaults
  /\ faults' = faults + 1
  /\ \E k \in 0..(Len(tape) - 1) : tape' = Front(k)
  /\ stored' = TRUE
  /\ UNCHANGED <<src, written, reader>>

-----------------------------------------------------------------------------
(* TarReader::read *)

Reading == stored /\ outcome = "reading" /\ UNCHANGED writer
Here == tape[pos + 1]

ReadContentsUnchecked(k, name, size) ==
  LET need == Counted(size)
      have == IF Len(tape) - k < need THEN Len(tape) - k ELSE need
  IN /\ restored' = Append(restored,
          [name |-> name, blocks |-> SubSeq(tape, k + 1, k + have), bytes |-> Capped(size)])
     /\ pos' = k + need
     /\ outcome' = "reading"

\* The block at offset k starts the contents of a file of this name and size:
\* dst_builder builds it, and every block read is written to it. The archive
\* ends too early: a CHECK throws.
ReadContents(k, name, size) ==
  LET need == Counted(size)
      have == IF Len(tape) - k < need THEN Len(tape) - k ELSE need
  IN /\ restored' = Append(restored,
            [name |-> name, blocks |-> SubSeq(tape, k + 1, k + have),
             bytes |-> IF have = need THEN Capped(size) ELSE have * BlockSize])
     /\ pos' = k + have
     /\ outcome' = IF have = need THEN "reading" ELSE "threw"

\* A short read where a header is due ends the archive like a zero block.
ReadEnd ==
  /\ Reading
  /\ Available(1) => Here.kind = "zero"
  /\ outcome' = "done"
  /\ UNCHANGED <<pos, restored>>

ReadShort ==
  /\ Reading /\ Available(1) /\ Here.kind = "0"
  /\ ReadContents(pos + 1, Here.name, Here.n)

\* The name comes from the "L" entry, the size from the header after it. Not
\* enough blocks of the name: a CHECK throws. No second header: the end.
ReadLong ==
  /\ Reading /\ Available(1) /\ Here.kind = "L"
  /\ LET second == pos + 1 + Blocks(Here.n) IN
     \/ /\ Len(tape) > second
        /\ ReadContents(second + 1, Here.name, tape[second + 1].n)
     \/ /\ Len(tape) <= second
        /\ outcome' = IF Len(tape) = second THEN "done" ELSE "threw"
        /\ UNCHANGED <<pos, restored>>

\* Contents of a file where a header is due: no valid checksum, an exception;
\* or all bytes happen to be zero, the end.
ReadGarbage ==
  /\ Reading /\ Available(1) /\ Here.kind \in {"data", "name"}
  /\ outcome' \in {"threw", "done"}
  /\ UNCHANGED <<pos, restored>>

Next ==
  \/ WriteShort \/ WriteLong \/ WriterEnds \/ LoseEnd
  \/ ReadEnd \/ ReadShort \/ ReadLong \/ ReadGarbage

Spec == Init /\ [][Next]_vars

-----------------------------------------------------------------------------
(* Properties *)

\* Type invariant.
TypeOK ==
  /\ src \in Sources /\ written \in 0..Len(src)
  /\ tape \in Seq([kind : {"0", "L", "data", "name", "zero"},
                   name : Names \cup {"none"}, n : Nat])
  /\ stored \in BOOLEAN /\ faults \in 0..MaxFaults
  /\ pos \in 0..Len(tape)
  /\ outcome \in {"reading", "done", "threw"}

\* What was restored, seen from outside: is each file what was stored?
Restored ==
  [i \in DOMAIN restored |->
    [name |-> restored[i].name,
     whole |-> \E j \in DOMAIN src : restored[i] = File(src[j]) /\ restored[i].bytes = src[j].size]]
Kept == INSTANCE Archive WITH entries <- src, intact <- faults = 0,
          got <- Restored, Limit <- MaxCounted * BlockSize,
          Plain <- LAMBDA e : ~IsLong(e.name)

\* Up to the first name that does not fit into the header the archive keeps
\* its promise: what comes back is a prefix of the files, all of them if
\* nothing was lost.
KeepsArchive == Kept!Spec

\* What TestLongFilenames asserts of three files with names of 103 characters:
\* from an archive nothing was lost of, every file comes back with its
\* contents and without an exception.
LongNamesRestored ==
  faults = 0 /\ outcome # "reading" =>
    outcome = "done" /\ restored = [i \in DOMAIN src |-> File(src[i])]
=============================================================================
