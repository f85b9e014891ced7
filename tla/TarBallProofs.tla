--------------------------- MODULE TarBallProofs ---------------------------
(***************************************************************************)
(* An archive restores what it was written from, for any files, names,     *)
(* block size, counter and loss: TarBall implements Archive.               *)
(***************************************************************************)
EXTENDS TarBall, SequenceTheorems, TLAPS

Block == [kind : {"0", "L", "data", "name", "zero"}, name : Names \cup {"none"}, n : Nat]
Piece == [name : Names \cup {"none"}, blocks : Seq(Block), bytes : Nat]

\* What both sides agree on.
BaseInv ==
  /\ TypeOK /\ restored \in Seq(Piece)
  /\ ~stored => pos = 0 /\ faults = 0 /\ outcome = "reading"
  /\ stored /\ faults = 0 => written = Len(src)
  /\ pos = 0 => restored = <<>>

\* The first p of the files written have short names, the one after them has
\* a long one or is not written.
First(p) ==
  /\ p \in 0..written
  /\ \A i \in 1..p : ~IsLong(src[i].name)
  /\ p < written => IsLong(src[p + 1].name)

\* Where in the archive these files are: file i after off[i] blocks.
Slots(p, off) ==
  /\ off \in [1..p + 1 -> Nat] /\ off[1] = 0
  /\ \A i \in 1..p :
       /\ off[i + 1] = off[i] + 1 + Counted(src[i].size)
       /\ off[i] + 1 <= Len(tape) =>
            tape[off[i] + 1] = Header("0", src[i].name, src[i].size)
       /\ \A j \in 1..Counted(src[i].size) :
            off[i] + 1 + j <= Len(tape) =>
              tape[off[i] + 1 + j] = [kind |-> "data", name |-> src[i].name, n |-> j]

\* Nothing but the end marker comes after them if all are written, and nothing
\* is missing if nothing was lost.
Ends(p, off) ==
  /\ p = written => \A k \in 1..Len(tape) : k > off[p + 1] => tape[k].kind = "zero"
  /\ faults = 0 => \A i \in 1..p + 1 : off[i] <= Len(tape)
  /\ p = written /\ ~stored => off[p + 1] = Len(tape)

\* The reader is at the header of the next of them.
At(p, off) ==
  outcome = "reading" =>
    /\ p = written => Len(restored) <= p
    /\ Len(restored) <= p => pos = off[Len(restored) + 1]

TapeInv == \E p \in 0..Len(src) : First(p) /\ \E off : Slots(p, off) /\ Ends(p, off) /\ At(p, off)

IInv == BaseInv /\ TapeInv

-----------------------------------------------------------------------------
(* Sizes and blocks *)

LEMMA Sizes ==
  /\ BlockSize \in Nat \ {0} /\ MaxCounted \in Nat \ {0}
  /\ \A n \in Names : NameSize[n] \in Nat \ {0}
  BY TarBallAssumption

\* The blocks of a file hold it, unless the counter overflows.
LEMMA SizeFacts ==
  ASSUME NEW b \in Nat
  PROVE  /\ Blocks(b) \in Nat /\ Counted(b) \in Nat /\ Capped(b) \in Nat
         /\ Counted(b) * BlockSize \in Nat
         /\ Capped(b) = b <=> b <= MaxCounted * BlockSize
<1>1. BlockSize \in Nat \ {0} /\ MaxCounted \in Nat \ {0}
  BY Sizes
<1>2. Blocks(b) \in Nat /\ b <= Blocks(b) * BlockSize
  BY <1>1 DEF Blocks
<1>3. Counted(b) \in Nat /\ Counted(b) * BlockSize \in Nat
  BY <1>1, <1>2 DEF Counted
<1>4. MaxCounted * BlockSize \in Nat /\ Blocks(b) * BlockSize \in Nat
  BY <1>1, <1>2
<1>5. Capped(b) \in Nat /\ Capped(b) <= b /\ Capped(b) <= Counted(b) * BlockSize
  BY <1>3 DEF Capped
<1>6. CASE Blocks(b) < MaxCounted
  <2>1. Counted(b) = Blocks(b)
    BY <1>6 DEF Counted
  <2>2. Blocks(b) * BlockSize <= MaxCounted * BlockSize
    BY <1>1, <1>2, <1>6
  <2>3. Capped(b) = b
    BY <1>2, <1>4, <2>1 DEF Capped
  <2> QED
    BY <1>2, <1>3, <1>4, <1>5, <2>2, <2>3
<1>7. CASE ~(Blocks(b) < MaxCounted)
  <2>1. Counted(b) = MaxCounted
    BY <1>7 DEF Counted
  <2>2. Capped(b) = IF b < MaxCounted * BlockSize THEN b ELSE MaxCounted * BlockSize
    BY <2>1 DEF Capped
  <2> HIDE DEF Counted
  <2> QED
    BY <1>2, <1>3, <1>4, <1>5, <2>2
<1> QED
  BY <1>6, <1>7

LEMMA PiecesFacts ==
  ASSUME NEW kind \in {"data", "name"}, NEW name \in Names, NEW count \in Nat
  PROVE  /\ Pieces(kind, name, count) \in Seq(Block) /\ Len(Pieces(kind, name, count)) = count
         /\ \A j \in 1..count :
              Pieces(kind, name, count)[j] = [kind |-> kind, name |-> name, n |-> j]
<1> DEFINE e(i) == [kind |-> kind, name |-> name, n |-> i]
<1>1. Pieces(kind, name, count) = [i \in 1..count |-> e(i)]
  BY DEF Pieces
<1>2. \A i \in 1..count : e(i) \in Block
  <2>1. kind \in {"0", "L", "data", "name", "zero"} /\ name \in Names \cup {"none"}
    OBVIOUS
  <2>2. \A i \in 1..count : i \in Nat
    OBVIOUS
  <2> QED
    BY <2>1, <2>2 DEF Block
<1> HIDE DEF e
<1>3. Pieces(kind, name, count) \in Seq(Block)
  BY <1>1, <1>2, IsASeq
<1>4. Len(Pieces(kind, name, count)) = count
  BY <1>1
<1> QED
  BY <1>1, <1>3, <1>4 DEF e

\* The files to archive.
LEMMA SourceFacts ==
  ASSUME TypeOK
  PROVE  /\ src \in Seq([name : Names, size : Nat]) /\ Len(src) \in Nat
         /\ \A i \in 1..Len(src) : src[i].name \in Names /\ src[i].size \in Nat
         /\ \A i, j \in 1..Len(src) : src[i].name = src[j].name => i = j
<1>1. src \in Sources
  BY DEF TypeOK
<1>2. src \in Seq([name : Names, size : Nat])
  BY <1>1, TarBallAssumption
<1>3. Len(src) \in Nat /\ DOMAIN src = 1..Len(src)
  BY <1>2, LenProperties
<1>4. \A i \in 1..Len(src) : src[i] \in [name : Names, size : Nat]
  BY <1>2, ElementOfSeq
<1>5. \A i, j \in DOMAIN src : src[i].name = src[j].name => i = j
  BY <1>1, TarBallAssumption
<1> QED
  BY <1>2, <1>3, <1>4, <1>5

-----------------------------------------------------------------------------
(* The writer *)

\* Blocks written after one another.
LEMMA Joined ==
  \A x, y, z \in Seq(Block) : x \o y \in Seq(Block) /\ (x \o y) \o z = x \o (y \o z)
<1> SUFFICES ASSUME NEW x \in Seq(Block), NEW y \in Seq(Block), NEW z \in Seq(Block)
             PROVE  x \o y \in Seq(Block) /\ (x \o y) \o z = x \o (y \o z)
  OBVIOUS
<1>1. x \o y \in Seq(Block)
  BY ConcatProperties
<1>2. (x \o y) \o z = x \o (y \o z)
  BY ConcatAssociative
<1> QED
  BY <1>1, <1>2

\* The file to write next.
LEMMA EntryFacts ==
  ASSUME TypeOK, Writing
  PROVE  /\ written + 1 \in 1..Len(src) /\ Entry = src[written + 1]
         /\ Entry.name \in Names /\ Entry.size \in Nat /\ Counted(Entry.size) \in Nat
         /\ NameSize[Entry.name] \in Nat /\ Blocks(NameSize[Entry.name]) \in Nat
<1>1. Len(src) \in Nat /\ \A i \in 1..Len(src) : src[i].name \in Names /\ src[i].size \in Nat
  BY SourceFacts
<1>2. written + 1 \in 1..Len(src)
  <2>1. written \in 0..Len(src) /\ written < Len(src)
    BY DEF TypeOK, Writing
  <2> QED
    BY <1>1, <2>1
<1>3. Entry.name \in Names /\ Entry.size \in Nat
  BY <1>1, <1>2 DEF Entry
<1>4. NameSize[Entry.name] \in Nat
  BY <1>3, Sizes
<1> QED
  BY <1>2, <1>3, <1>4, SizeFacts DEF Entry

LEMMA HeaderFacts ==
  ASSUME NEW kind \in {"0", "L"}, NEW name \in Names, NEW size \in Nat
  PROVE  /\ Header(kind, name, size) \in Block
         /\ <<Header(kind, name, size)>> \in Seq(Block)
         /\ Len(<<Header(kind, name, size)>>) = 1
         /\ <<Header(kind, name, size)>>[1] = Header(kind, name, size)
<1>1. Header(kind, name, size) \in Block
  <2>1. kind \in {"0", "L", "data", "name", "zero"} /\ name \in Names \cup {"none"}
    OBVIOUS
  <2> QED
    BY <2>1 DEF Header, Block
<1> QED
  BY <1>1

\* A file with a short name: its header, then its contents.
LEMMA ShortFacts ==
  ASSUME TypeOK, WriteShort
  PROVE  \E more \in Seq(Block) :
           /\ tape' = tape \o more /\ Len(more) = 1 + Counted(Entry.size)
           /\ more[1] = Header("0", Entry.name, Entry.size)
           /\ \A j \in 1..Counted(Entry.size) :
                more[1 + j] = [kind |-> "data", name |-> Entry.name, n |-> j]
<1> DEFINE head == <<Header("0", Entry.name, Entry.size)>>
           body == Contents(Entry)
           count == Counted(Entry.size)
<1>1. Entry.name \in Names /\ Entry.size \in Nat /\ count \in Nat
  BY EntryFacts DEF WriteShort
<1>2. head \in Seq(Block) /\ Len(head) = 1 /\ head[1] = Header("0", Entry.name, Entry.size)
  BY <1>1, HeaderFacts
<1>3. /\ body \in Seq(Block) /\ Len(body) = count
      /\ \A j \in 1..count : body[j] = [kind |-> "data", name |-> Entry.name, n |-> j]
  BY <1>1, PiecesFacts DEF Contents
<1>4. tape' = tape \o head \o body /\ tape \in Seq(Block)
  BY DEF WriteShort, TypeOK, Block
<1> HIDE DEF head, body, count
<1>5. tape' = tape \o (head \o body)
  BY <1>2, <1>3, <1>4, Joined, Zenon
<1>6. /\ head \o body \in Seq(Block) /\ Len(head \o body) = 1 + count
      /\ \A i \in 1..1 + count :
           (head \o body)[i] = IF i <= 1 THEN head[i] ELSE body[i - 1]
  <2>1. /\ head \o body \in Seq(Block) /\ Len(head \o body) = Len(head) + Len(body)
        /\ \A i \in 1..Len(head) + Len(body) :
             (head \o body)[i] = IF i <= Len(head) THEN head[i] ELSE body[i - Len(head)]
    BY <1>2, <1>3, ConcatProperties
  <2> QED
    BY <1>2, <1>3, <2>1
<1>7. (head \o body)[1] = head[1] /\ \A j \in 1..count : (head \o body)[1 + j] = body[j]
  <2> DEFINE both == head \o body
  <2>1. \A i \in 1..1 + count : both[i] = IF i <= 1 THEN head[i] ELSE body[i - 1]
    BY <1>6
  <2>2. count \in Nat
    BY <1>1
  <2> HIDE DEF both
  <2>3. both[1] = head[1]
    BY <2>1, <2>2
  <2>4. \A j \in 1..count : 1 + j \in 1..1 + count /\ ~(1 + j <= 1) /\ 1 + j - 1 = j
    BY <2>2
  <2>5. \A j \in 1..count : both[1 + j] = body[j]
    BY <2>1, <2>4
  <2> QED
    BY <2>3, <2>5 DEF both
<1>8. /\ tape' = tape \o (head \o body) /\ Len(head \o body) = 1 + Counted(Entry.size)
      /\ (head \o body)[1] = Header("0", Entry.name, Entry.size)
      /\ \A j \in 1..Counted(Entry.size) :
           (head \o body)[1 + j] = [kind |-> "data", name |-> Entry.name, n |-> j]
  BY <1>2, <1>3, <1>5, <1>6, <1>7 DEF count
<1> QED
  BY <1>6, <1>8

\* Whatever the writer does, what it has written stays.
LEMMA WriterFacts ==
  ASSUME TypeOK, WriteShort \/ WriteLong \/ WriterEnds
  PROVE  \E more \in Seq(Block) : tape' = tape \o more
<1>1. CASE WriteShort
  BY <1>1, ShortFacts
<1>2. CASE WriteLong
  <2> DEFINE len == NameSize[Entry.name]
             head == <<Header("L", Entry.name, len)>>
             name == Pieces("name", Entry.name, Blocks(len))
             second == <<Header("0", Entry.name, len)>>
             body == Contents(Entry)
  <2>1. /\ Entry.name \in Names /\ Entry.size \in Nat /\ Counted(Entry.size) \in Nat
        /\ len \in Nat /\ Blocks(len) \in Nat
    BY <1>2, EntryFacts DEF WriteLong
  <2>2. head \in Seq(Block) /\ second \in Seq(Block)
    BY <2>1, HeaderFacts
  <2>3. name \in Seq(Block) /\ body \in Seq(Block)
    BY <2>1, PiecesFacts DEF Contents
  <2>4. tape' = tape \o head \o name \o second \o body /\ tape \in Seq(Block)
    BY <1>2 DEF WriteLong, TypeOK, Block
  <2> HIDE DEF head, name, second, body
  <2>5. head \o name \in Seq(Block) /\ head \o name \o second \in Seq(Block)
    BY <2>2, <2>3, ConcatProperties
  <2>6. head \o name \o second \o body \in Seq(Block)
    BY <2>3, <2>5, ConcatProperties
  <2>7. tape \o head \o name = tape \o (head \o name)
    BY <2>2, <2>3, <2>4, Joined, Zenon
  <2>8. tape \o (head \o name) \o second = tape \o (head \o name \o second)
    <3>1. tape \in Seq(Block)
      BY <2>4
    <3>2. \A front \in Seq(Block) : (tape \o front) \o second = tape \o (front \o second)
      BY <2>2, <3>1, Joined, Zenon
    <3> QED
      BY <2>5, <3>2, Zenon
  <2>9. tape \o (head \o name \o second) \o body = tape \o (head \o name \o second \o body)
    <3>1. tape \in Seq(Block)
      BY <2>4
    <3>2. \A front \in Seq(Block) : (tape \o front) \o body = tape \o (front \o body)
      BY <2>3, <3>1, Joined, Zenon
    <3> QED
      BY <2>5, <3>2, Zenon
  <2> QED
    BY <2>4, <2>6, <2>7, <2>8, <2>9
<1>3. CASE WriterEnds
  <2>1. Zero \in Block
    BY DEF Zero, Block
  <2>2. <<Zero, Zero>> \in Seq(Block)
    BY <2>1
  <2> QED
    BY <1>3, <2>2 DEF WriterEnds
<1> QED
  BY <1>1, <1>2, <1>3

\* Blocks of a longer archive.
LEMMA MoreFacts ==
  ASSUME TypeOK, NEW more \in Seq(Block), tape' = tape \o more
  PROVE  /\ tape' \in Seq(Block) /\ Len(tape) \in Nat /\ Len(more) \in Nat
         /\ Len(tape') = Len(tape) + Len(more)
         /\ \A k \in 1..Len(tape) : tape'[k] = tape[k]
         /\ \A k \in 1..Len(more) : tape'[Len(tape) + k] = more[k]
<1>1. tape \in Seq(Block)
  BY DEF TypeOK, Block
<1>2. Len(tape) \in Nat /\ Len(more) \in Nat
  BY <1>1, LenProperties
<1>3. /\ tape' \in Seq(Block) /\ Len(tape') = Len(tape) + Len(more)
      /\ \A k \in 1..Len(tape) + Len(more) :
           tape'[k] = IF k <= Len(tape) THEN tape[k] ELSE more[k - Len(tape)]
  BY <1>1, ConcatProperties
<1>4. \A k \in 1..Len(more) : tape'[Len(tape) + k] = more[k]
  BY <1>2, <1>3
<1> QED
  BY <1>2, <1>3, <1>4

\* Before the archive is stored nobody reads it.
LEMMA WriterKeeps ==
  ASSUME IInv, WriteShort \/ WriteLong \/ WriterEnds
  PROVE  IInv'
<1>1. BaseInv /\ TypeOK
  BY DEF IInv, BaseInv
<1>2. PICK p \in 0..Len(src) :
        First(p) /\ \E off : Slots(p, off) /\ Ends(p, off) /\ At(p, off)
  BY DEF IInv, TapeInv
<1>3. PICK off : Slots(p, off) /\ Ends(p, off) /\ At(p, off)
  BY <1>2
<1>4. /\ ~stored /\ src' = src /\ faults' = faults
      /\ pos' = pos /\ restored' = restored /\ outcome' = outcome
  BY DEF WriteShort, WriteLong, WriterEnds, Writing, reader
<1>5. faults = 0 /\ pos = 0 /\ restored = <<>> /\ outcome = "reading"
  BY <1>1, <1>4 DEF BaseInv
<1>6. PICK more \in Seq(Block) : tape' = tape \o more
  BY <1>1, WriterFacts
<1>7. /\ tape' \in Seq(Block) /\ Len(tape) \in Nat /\ Len(more) \in Nat
      /\ Len(tape') = Len(tape) + Len(more)
      /\ \A k \in 1..Len(tape) : tape'[k] = tape[k]
      /\ \A k \in 1..Len(more) : tape'[Len(tape) + k] = more[k]
  BY <1>1, <1>6, MoreFacts
<1>8. Len(src) \in Nat /\ \A i \in 1..Len(src) : src[i].name \in Names /\ src[i].size \in Nat
  BY <1>1, SourceFacts
<1>9. written \in 0..Len(src) /\ written' \in {written, written + 1} /\ written' <= Len(src)
  <2>1. written \in 0..Len(src)
    BY <1>1 DEF TypeOK
  <2>2. \/ written' = written + 1 /\ written < Len(src)
        \/ written' = written
    BY DEF WriteShort, WriteLong, WriterEnds, Writing
  <2> QED
    BY <1>8, <2>1, <2>2
<1>10. BaseInv'
  <2>1. TypeOK'
    <3>1. written' \in 0..Len(src) /\ stored' \in BOOLEAN
      <4>1. written' \in 0..Len(src)
        BY <1>8, <1>9
      <4>2. stored' = stored \/ stored' = TRUE
        BY DEF WriteShort, WriteLong, WriterEnds
      <4>3. stored \in BOOLEAN
        BY <1>1 DEF TypeOK
      <4> QED
        BY <4>1, <4>2, <4>3
    <3>2. pos \in 0..Len(tape')
      BY <1>5, <1>7
    <3> QED
      BY <1>1, <1>4, <1>7, <3>1, <3>2 DEF TypeOK, Block
  <2>2. stored' => written' = Len(src)
    BY <1>4 DEF WriteShort, WriteLong, WriterEnds
  <2> QED
    BY <1>1, <1>4, <1>5, <2>1, <2>2 DEF BaseInv
<1>11. p \in Nat /\ p \in 0..written
  BY <1>2 DEF First
<1>12. \A i \in 1..p + 1 : off[i] \in Nat /\ off[i] <= Len(tape)
  BY <1>3, <1>5 DEF Ends, Slots
<1>13. Slots(p, off)'
  <2> SUFFICES ASSUME NEW i \in 1..p
               PROVE  /\ off[i] + 1 <= Len(tape') =>
                           tape'[off[i] + 1] = Header("0", src[i].name, src[i].size)
                      /\ \A j \in 1..Counted(src[i].size) :
                           off[i] + 1 + j <= Len(tape') =>
                             tape'[off[i] + 1 + j] =
                               [kind |-> "data", name |-> src[i].name, n |-> j]
    BY <1>3, <1>4 DEF Slots
  <2>1. src[i].size \in Nat /\ Counted(src[i].size) \in Nat
    BY <1>8, <1>9, <1>11, SizeFacts
  <2>2. off[i] \in Nat /\ off[i + 1] <= Len(tape) /\ off[i + 1] = off[i] + 1 + Counted(src[i].size)
    <3>1. i \in 1..p + 1 /\ i + 1 \in 1..p + 1
      BY <1>11
    <3>2. off[i + 1] = off[i] + 1 + Counted(src[i].size)
      BY <1>3 DEF Slots
    <3>3. off[i] \in Nat /\ off[i + 1] <= Len(tape)
      BY <1>12, <3>1
    <3> QED
      BY <3>2, <3>3
  <2> DEFINE at == off[i]
             count == Counted(src[i].size)
             size == Len(tape)
  <2>3. at \in Nat /\ count \in Nat /\ size \in Nat /\ at + 1 + count <= size
    BY <1>7, <2>1, <2>2
  <2> HIDE DEF at, count, size
  <2>4. at + 1 \in 1..size /\ \A j \in 1..count : at + 1 + j \in 1..size
    BY <2>3
  <2> USE DEF at, count, size
  <2>5. /\ tape[off[i] + 1] = Header("0", src[i].name, src[i].size)
        /\ tape'[off[i] + 1] = tape[off[i] + 1]
    <3>1. off[i] + 1 <= Len(tape)
      BY <2>4
    <3>2. tape[off[i] + 1] = Header("0", src[i].name, src[i].size)
      BY <1>3, <3>1 DEF Slots
    <3>3. tape'[off[i] + 1] = tape[off[i] + 1]
      BY <1>7, <2>4
    <3> QED
      BY <3>2, <3>3
  <2>6. \A j \in 1..Counted(src[i].size) :
          /\ tape[off[i] + 1 + j] = [kind |-> "data", name |-> src[i].name, n |-> j]
          /\ tape'[off[i] + 1 + j] = tape[off[i] + 1 + j]
    <3> SUFFICES ASSUME NEW j \in 1..Counted(src[i].size)
                 PROVE  /\ tape[off[i] + 1 + j] =
                             [kind |-> "data", name |-> src[i].name, n |-> j]
                        /\ tape'[off[i] + 1 + j] = tape[off[i] + 1 + j]
      OBVIOUS
    <3>1. off[i] + 1 + j \in 1..Len(tape)
      BY <2>4
    <3>2. off[i] + 1 + j <= Len(tape)
      BY <1>7, <3>1
    <3> QED
      BY <1>3, <1>7, <3>1, <3>2 DEF Slots
  <2> QED
    BY <2>5, <2>6
<1>14. CASE WriteShort /\ p = written
  <2> DEFINE size == src[p + 1].size
             name == src[p + 1].name
             end == off[p + 1] + 1 + Counted(size)
  <2>1. /\ Entry = src[p + 1] /\ p + 1 \in 1..Len(src) /\ written' = p + 1
        /\ ~IsLong(name) /\ stored' = stored
    BY <1>1, <1>14, EntryFacts DEF WriteShort
  <2>2. size \in Nat /\ Counted(size) \in Nat
    BY <1>8, <2>1, SizeFacts
  <2>3. off[p + 1] = Len(tape)
    BY <1>3, <1>4, <1>14 DEF Ends
  <2>4. /\ Len(tape') = end
        /\ tape'[off[p + 1] + 1] = Header("0", name, size)
        /\ \A j \in 1..Counted(size) :
             tape'[off[p + 1] + 1 + j] = [kind |-> "data", name |-> name, n |-> j]
    <3>1. PICK more2 \in Seq(Block) :
            /\ tape' = tape \o more2 /\ Len(more2) = 1 + Counted(size)
            /\ more2[1] = Header("0", name, size)
            /\ \A j \in 1..Counted(size) :
                 more2[1 + j] = [kind |-> "data", name |-> name, n |-> j]
      BY <1>1, <1>14, <2>1, ShortFacts
    <3>2. /\ Len(tape') = Len(tape) + Len(more2)
          /\ \A k \in 1..Len(more2) : tape'[Len(tape) + k] = more2[k]
      BY <1>1, <3>1, MoreFacts
    <3>3. 1 \in 1..Len(more2) /\ \A j \in 1..Counted(size) : 1 + j \in 1..Len(more2)
      BY <2>2, <3>1
    <3>4. \A j \in 1..Counted(size) : Len(tape) + (1 + j) = off[p + 1] + 1 + j
      BY <1>7, <2>2, <2>3
    <3>5. /\ tape'[Len(tape) + 1] = Header("0", name, size)
          /\ \A j \in 1..Counted(size) :
               tape'[Len(tape) + (1 + j)] = [kind |-> "data", name |-> name, n |-> j]
      BY <3>1, <3>2, <3>3
    <3> HIDE DEF size, name
    <3>6. Len(tape') = end
      BY <1>7, <2>2, <2>3, <3>1, <3>2
    <3>7. ASSUME NEW j \in 1..Counted(size)
          PROVE  tape'[off[p + 1] + 1 + j] = [kind |-> "data", name |-> name, n |-> j]
      BY <3>4, <3>5
    <3> QED
      BY <2>3, <3>5, <3>6, <3>7
  <2> HIDE DEF size, name, end
  <2>5. end \in Nat /\ end = off[p + 1] + 1 + Counted(size)
    BY <1>11, <1>12, <2>2 DEF end
  <2>6. PICK off2 \in [1..(p + 1) + 1 -> Nat] :
          off2[p + 2] = end /\ \A i \in 1..p + 1 : off2[i] = off[i]
    <3> DEFINE longer == [i \in 1..(p + 1) + 1 |-> IF i = p + 2 THEN end ELSE off[i]]
    <3>1. longer \in [1..(p + 1) + 1 -> Nat]
      BY <1>11, <1>12, <2>5
    <3>2. longer[p + 2] = end /\ \A i \in 1..p + 1 : longer[i] = off[i]
      BY <1>11
    <3> QED
      BY <3>1, <3>2
  <2>7. Slots(p + 1, off2)'
    <3>1. off2[1] = 0
      BY <1>3, <1>11, <2>6 DEF Slots
    <3>2. ASSUME NEW i \in 1..p + 1
          PROVE  /\ off2[i + 1] = off2[i] + 1 + Counted(src'[i].size)
                 /\ off2[i] + 1 <= Len(tape') =>
                      tape'[off2[i] + 1] = Header("0", src'[i].name, src'[i].size)
                 /\ \A j \in 1..Counted(src'[i].size) :
                      off2[i] + 1 + j <= Len(tape') =>
                        tape'[off2[i] + 1 + j] =
                          [kind |-> "data", name |-> src'[i].name, n |-> j]
      <4>1. CASE i \in 1..p
        <5>1. off2[i + 1] = off[i + 1] /\ off2[i] = off[i]
          BY <1>11, <2>6, <4>1
        <5> QED
          BY <1>13, <4>1, <5>1 DEF Slots
      <4>2. CASE i = p + 1
        <5>1. off2[i + 1] = end /\ off2[i] = off[p + 1]
          BY <1>11, <2>6, <4>2
        <5> QED
          BY <1>4, <2>4, <2>5, <4>2, <5>1 DEF size, name
      <4>3. i \in 1..p \/ i = p + 1
        BY <1>11
      <4> QED
        BY <4>1, <4>2, <4>3
    <3> QED
      BY <2>6, <3>1, <3>2 DEF Slots
  <2>8. Ends(p + 1, off2)'
    <3>1. \A i \in 1..(p + 1) + 1 : off2[i] <= Len(tape')
      <4>1. \A i \in 1..p + 1 : off2[i] <= Len(tape')
        BY <1>7, <1>12, <2>6
      <4>2. off2[p + 2] <= Len(tape')
        BY <2>4, <2>5, <2>6
      <4> QED
        BY <1>11, <4>1, <4>2
    <3>2. off2[(p + 1) + 1] = Len(tape') /\ Len(tape') \in Nat
      BY <1>11, <2>4, <2>5, <2>6
    <3>3. \A k \in 1..Len(tape') : ~(k > off2[(p + 1) + 1])
      BY <3>2
    <3> QED
      BY <3>1, <3>2, <3>3 DEF Ends
  <2>9. First(p + 1)'
    BY <1>2, <1>4, <1>11, <2>1 DEF First, IsLong, name
  <2>10. At(p + 1, off2)'
    <3>1. Len(restored') = 0 /\ pos' = 0
      BY <1>4, <1>5
    <3>2. off2[0 + 1] = 0
      BY <1>3, <1>11, <2>6 DEF Slots
    <3>3. Len(restored') <= p + 1 /\ pos' = off2[Len(restored') + 1]
      BY <1>11, <3>1, <3>2
    <3> QED
      BY <3>3 DEF At
  <2>11. p + 1 \in 0..Len(src')
    BY <1>4, <1>8, <1>11, <2>1
  <2>12. TapeInv'
    BY <2>7, <2>8, <2>9, <2>10, <2>11 DEF TapeInv
  <2> QED
    BY <1>10, <2>12 DEF IInv
<1>15. CASE ~(WriteShort /\ p = written)
  <2>1. First(p)'
    <3>1. p = written /\ written' # written => IsLong(src[p + 1].name)
      BY <1>15 DEF WriteShort, WriteLong, WriterEnds, Entry
    <3>2. /\ \A i \in 1..p : ~IsLong(src[i].name)
          /\ p < written => IsLong(src[p + 1].name)
      BY <1>2 DEF First
    <3>3. p < written' => IsLong(src[p + 1].name)
      BY <1>9, <1>11, <3>1, <3>2
    <3>4. p \in 0..written'
      BY <1>9, <1>11
    <3> QED
      BY <1>4, <3>2, <3>3, <3>4 DEF First, IsLong
  <2>2. Ends(p, off)'
    <3>1. \A i \in 1..p + 1 : off[i] <= Len(tape')
      BY <1>7, <1>12
    <3>2. CASE p < written'
      BY <1>11, <3>1, <3>2 DEF Ends
    <3>3. CASE p = written'
      <4>1. WriterEnds /\ p = written
        <5>1. written' = written /\ p = written
          BY <1>9, <1>11, <3>3
        <5>2. written \in Nat
          BY <1>11, <5>1
        <5> QED
          BY <5>1, <5>2 DEF WriteShort, WriteLong
      <4>2. /\ off[p + 1] = Len(tape) /\ stored'
        BY <1>3, <1>4, <4>1 DEF Ends, WriterEnds
      <4>3. Len(tape') = Len(tape) + 2 /\ tape'[Len(tape) + 1] = Zero /\ tape'[Len(tape) + 2] = Zero
        <5>1. tape' = tape \o <<Zero, Zero>> /\ <<Zero, Zero>> \in Seq(Block)
          <6>1. Zero \in Block
            BY DEF Zero, Block
          <6> QED
            BY <4>1, <6>1 DEF WriterEnds
        <5>2. Len(<<Zero, Zero>>) = 2 /\ <<Zero, Zero>>[1] = Zero /\ <<Zero, Zero>>[2] = Zero
          OBVIOUS
        <5> QED
          BY <1>1, <5>1, <5>2, MoreFacts
      <4>4. \A k \in 1..Len(tape') : k > off[p + 1] => tape'[k].kind = "zero"
        <5>1. Zero.kind = "zero"
          BY DEF Zero
        <5> QED
          BY <1>7, <4>2, <4>3, <5>1
      <4> QED
        BY <3>1, <4>2, <4>4 DEF Ends
    <3> QED
      BY <1>9, <1>11, <3>2, <3>3
  <2>3. At(p, off)'
    BY <1>3, <1>4, <1>5, <1>11 DEF At, Slots
  <2> QED
    BY <1>4, <1>10, <1>13, <2>1, <2>2, <2>3 DEF IInv, TapeInv
<1> QED
  BY <1>14, <1>15

\* The archive loses its end before it is read: what is left of it is laid out
\* as it was.
LEMMA LoseEndKeeps ==
  ASSUME IInv, LoseEnd
  PROVE  IInv'
<1>1. BaseInv /\ TypeOK
  BY DEF IInv, BaseInv
<1>2. PICK p \in 0..Len(src) :
        First(p) /\ \E off : Slots(p, off) /\ Ends(p, off) /\ At(p, off)
  BY DEF IInv, TapeInv
<1>3. PICK off : Slots(p, off) /\ Ends(p, off) /\ At(p, off)
  BY <1>2
<1>4. /\ pos = 0 /\ outcome = "reading" /\ stored'
      /\ faults < MaxFaults /\ faults' = faults + 1
      /\ src' = src /\ written' = written
      /\ pos' = pos /\ restored' = restored /\ outcome' = outcome
  BY DEF LoseEnd, reader
<1>5. tape \in Seq(Block) /\ Len(tape) \in Nat
  BY <1>1, LenProperties DEF TypeOK, Block
<1>6. PICK k \in 0..(Len(tape) - 1) : tape' = SubSeq(tape, 1, k)
  BY DEF LoseEnd, Front
<1>7. /\ tape' \in Seq(Block) /\ Len(tape') = k
      /\ \A i \in 1..k : i \in 1..Len(tape) /\ tape'[i] = tape[i]
  <2>1. \A i \in 1..k : i \in 1..Len(tape) /\ tape[i] \in Block
    BY <1>5, ElementOfSeq
  <2>2. /\ SubSeq(tape, 1, k) \in Seq(Block)
        /\ Len(SubSeq(tape, 1, k)) = IF 1 <= k THEN k - 1 + 1 ELSE 0
        /\ \A i \in 1..k - 1 + 1 : SubSeq(tape, 1, k)[i] = tape[1 + i - 1]
    BY <2>1, SubSeqProperties
  <2>3. k \in Nat /\ k - 1 + 1 = k /\ \A i \in 1..k : 1 + i - 1 = i
    OBVIOUS
  <2> QED
    BY <1>6, <2>1, <2>2, <2>3
<1>8. p \in Nat /\ p <= written
  BY <1>2 DEF First
<1>9. BaseInv'
  <2>1. faults' \in 0..MaxFaults /\ faults' # 0
    <3>1. faults \in 0..MaxFaults /\ MaxFaults \in Nat
      BY <1>1, TarBallAssumption DEF TypeOK
    <3> QED
      BY <1>4, <3>1
  <2>2. TypeOK'
    <3>1. 0 \in 0..Len(tape')
      BY <1>7
    <3>2. tape' \in Seq([kind : {"0", "L", "data", "name", "zero"},
                         name : Names \cup {"none"}, n : Nat])
      BY <1>7 DEF Block
    <3> QED
      BY <1>1, <1>4, <2>1, <3>1, <3>2 DEF TypeOK
  <2> QED
    BY <1>1, <1>4, <2>1, <2>2 DEF BaseInv
<1>10. First(p)'
  BY <1>2, <1>4 DEF First, IsLong
<1>11. Slots(p, off)'
  <2>1. \A i \in 1..p : off[i] \in Nat
    BY <1>3, <1>8 DEF Slots
  <2>2. ASSUME NEW i \in 1..p
        PROVE  /\ off[i] + 1 <= Len(tape') =>
                    tape'[off[i] + 1] = Header("0", src'[i].name, src'[i].size)
               /\ \A j \in 1..Counted(src'[i].size) :
                    off[i] + 1 + j <= Len(tape') =>
                      tape'[off[i] + 1 + j] =
                        [kind |-> "data", name |-> src'[i].name, n |-> j]
    <3>1. off[i] + 1 <= Len(tape') => off[i] + 1 \in 1..k /\ off[i] + 1 <= Len(tape)
      BY <1>5, <1>7, <2>1
    <3>2. ASSUME NEW j \in 1..Counted(src[i].size), off[i] + 1 + j <= Len(tape')
          PROVE  off[i] + 1 + j \in 1..k /\ off[i] + 1 + j <= Len(tape)
      BY <1>5, <1>7, <2>1, <3>2
    <3> QED
      BY <1>3, <1>4, <1>7, <3>1, <3>2 DEF Slots
  <2> QED
    BY <1>3, <1>4, <2>2 DEF Slots
<1>12. Ends(p, off)'
  <2>1. faults' # 0
    <3>1. faults \in 0..MaxFaults /\ MaxFaults \in Nat
      BY <1>1, TarBallAssumption DEF TypeOK
    <3> QED
      BY <1>4, <3>1
  <2>2. p = written => \A i \in 1..Len(tape') : i > off[p + 1] => tape'[i].kind = "zero"
    BY <1>3, <1>7 DEF Ends
  <2> QED
    BY <1>4, <2>1, <2>2 DEF Ends
<1>13. At(p, off)'
  BY <1>3, <1>4 DEF At
<1> QED
  BY <1>2, <1>4, <1>9, <1>10, <1>11, <1>12, <1>13 DEF IInv, TapeInv

-----------------------------------------------------------------------------
(* The reader *)

LEMMA TapeFacts ==
  ASSUME TypeOK
  PROVE  /\ tape \in Seq(Block) /\ Len(tape) \in Nat /\ pos \in 0..Len(tape)
         /\ \A k \in 1..Len(tape) :
              /\ tape[k].kind \in {"0", "L", "data", "name", "zero"}
              /\ tape[k].name \in Names \cup {"none"} /\ tape[k].n \in Nat
<1>1. tape \in Seq(Block) /\ pos \in 0..Len(tape)
  BY DEF TypeOK, Block
<1>2. Len(tape) \in Nat
  BY <1>1, LenProperties
<1>3. \A k \in 1..Len(tape) : tape[k] \in Block
  BY <1>1, ElementOfSeq
<1> QED
  BY <1>1, <1>2, <1>3 DEF Block

\* What is read of a file whose contents start after k blocks: all of it, or
\* what there is.
Got(k, name, size, piece) ==
  /\ restored' = Append(restored, piece) /\ piece.name = name
  /\ \A j \in 1..Len(piece.blocks) : piece.blocks[j] = tape[k + j]
  /\ \/ /\ k + Counted(size) <= Len(tape) /\ Len(piece.blocks) = Counted(size)
        /\ piece.bytes = Capped(size)
        /\ pos' = k + Counted(size) /\ outcome' = "reading"
     \/ /\ k + Counted(size) > Len(tape) /\ Len(piece.blocks) < Counted(size)
        /\ pos' = Len(tape) /\ outcome' = "threw"

LEMMA ContentsRead ==
  ASSUME TypeOK, NEW k \in 0..Len(tape), NEW name \in Names \cup {"none"}, NEW size \in Nat,
         ReadContents(k, name, size)
  PROVE  \E piece \in Piece : Got(k, name, size, piece)
<1> DEFINE need == Counted(size)
           have == IF Len(tape) - k < need THEN Len(tape) - k ELSE need
           bytes == IF have = need THEN Capped(size) ELSE have * BlockSize
           blocks == SubSeq(tape, k + 1, k + have)
           piece == [name |-> name, blocks |-> blocks, bytes |-> bytes]
<1>1. /\ restored' = Append(restored, piece) /\ pos' = k + have
      /\ outcome' = IF have = need THEN "reading" ELSE "threw"
  BY DEF ReadContents
<1>2. need \in Nat /\ Capped(size) \in Nat /\ BlockSize \in Nat
  BY SizeFacts, Sizes
<1>3. Len(tape) \in Nat
  BY TapeFacts
<1> HIDE DEF need, bytes, blocks, piece
<1>4. have \in Nat /\ k + have <= Len(tape) /\ k \in Nat
  BY <1>2, <1>3
<1>5. /\ have = need => k + need <= Len(tape)
      /\ have # need => k + need > Len(tape) /\ have < need /\ k + have = Len(tape)
  BY <1>2, <1>3
<1> HIDE DEF have
<1>6. bytes \in Nat
  BY <1>2, <1>4 DEF bytes
<1>7. /\ blocks \in Seq(Block) /\ Len(blocks) = have
      /\ \A j \in 1..have : blocks[j] = tape[k + j]
  <2>1. \A i \in k + 1 .. k + have : i \in 1..Len(tape)
    BY <1>3, <1>4
  <2>2. \A i \in k + 1 .. k + have : tape[i] \in Block
    <3>1. tape \in Seq(Block)
      BY TapeFacts
    <3> QED
      BY <2>1, <3>1, ElementOfSeq
  <2>3. k + 1 \in Int /\ k + have \in Int
    BY <1>4
  <2> DEFINE m == k + 1
             n == k + have
  <2>4. m \in Int /\ n \in Int /\ \A i \in m..n : tape[i] \in Block
    BY <2>2, <2>3
  <2>5. blocks = SubSeq(tape, m, n)
    BY DEF blocks
  <2>6. m = k + 1 /\ n - m + 1 = have /\ (m <= n <=> have # 0)
    BY <1>4
  <2> HIDE DEF m, n
  <2>7. /\ blocks \in Seq(Block) /\ Len(blocks) = IF m <= n THEN n - m + 1 ELSE 0
        /\ \A i \in 1..n - m + 1 : blocks[i] = tape[m + i - 1]
    BY <2>4, <2>5, SubSeqProperties
  <2>8. \A i \in 1..have : m + i - 1 = k + i
    BY <1>4, <2>6
  <2>9. Len(blocks) = have
    BY <2>6, <2>7
  <2>10. \A i \in 1..have : blocks[i] = tape[k + i]
    BY <2>6, <2>7, <2>8
  <2> QED
    BY <2>7, <2>9, <2>10
<1>8. piece \in Piece /\ piece.name = name /\ piece.blocks = blocks /\ piece.bytes = bytes
  BY <1>6, <1>7 DEF Piece, piece
<1>9. have = need => bytes = Capped(size)
  BY DEF bytes
<1>10. Got(k, name, size, piece)
  BY <1>1, <1>4, <1>5, <1>7, <1>8, <1>9 DEF Got, need
<1> QED
  BY <1>8, <1>10

\* What one call of TarReader::read does.
LEMMA ReaderFacts ==
  ASSUME TypeOK, ReadEnd \/ ReadShort \/ ReadLong \/ ReadGarbage
  PROVE  /\ stored /\ outcome = "reading" /\ UNCHANGED writer
         /\ \/ restored' = restored /\ pos' = pos /\ outcome' \in {"done", "threw"}
            \/ /\ \E piece \in Piece : restored' = Append(restored, piece)
               /\ pos' \in 1..Len(tape) /\ outcome' \in {"reading", "threw"}
<1>1. stored /\ outcome = "reading" /\ UNCHANGED writer
  BY DEF ReadEnd, ReadShort, ReadLong, ReadGarbage, Reading
<1>2. ASSUME NEW k \in 1..Len(tape), NEW name \in Names \cup {"none"}, NEW size \in Nat,
             ReadContents(k, name, size)
      PROVE  /\ \E piece \in Piece : restored' = Append(restored, piece)
             /\ pos' \in 1..Len(tape) /\ outcome' \in {"reading", "threw"}
  <2>1. Len(tape) \in Nat /\ Counted(size) \in Nat
    BY TapeFacts, SizeFacts
  <2>2. k \in 0..Len(tape)
    BY <2>1
  <2>3. PICK piece \in Piece : Got(k, name, size, piece)
    BY <1>2, <2>2, ContentsRead
  <2> QED
    BY <2>1, <2>3 DEF Got
<1>3. CASE ReadEnd \/ ReadGarbage
  BY <1>1, <1>3 DEF ReadEnd, ReadGarbage
<1>4. CASE ReadShort
  <2>1. Available(1) /\ ReadContents(pos + 1, Here.name, Here.n)
    BY <1>4 DEF ReadShort
  <2>2. pos + 1 \in 1..Len(tape)
    <3>1. Len(tape) \in Nat /\ pos \in 0..Len(tape)
      BY TapeFacts
    <3> QED
      BY <2>1, <3>1 DEF Available
  <2>3. Here.name \in Names \cup {"none"} /\ Here.n \in Nat
    BY <2>2, TapeFacts DEF Here
  <2> QED
    BY <1>1, <1>2, <2>1, <2>2, <2>3
<1>5. CASE ReadLong
  <2> DEFINE second == pos + 1 + Blocks(Here.n)
  <2>1. /\ Available(1)
        /\ \/ Len(tape) > second /\ ReadContents(second + 1, Here.name, tape[second + 1].n)
           \/ outcome' \in {"done", "threw"} /\ UNCHANGED <<pos, restored>>
    BY <1>5 DEF ReadLong
  <2>2. pos + 1 \in 1..Len(tape)
    <3>1. Len(tape) \in Nat /\ pos \in 0..Len(tape)
      BY TapeFacts
    <3> QED
      BY <2>1, <3>1 DEF Available
  <2>3. Here.name \in Names \cup {"none"} /\ Here.n \in Nat
    BY <2>2, TapeFacts DEF Here
  <2>4. second \in Nat
    <3>1. Blocks(Here.n) \in Nat
      BY <2>3, SizeFacts
    <3> QED
      BY <2>2, <3>1
  <2> HIDE DEF second
  <2>5. CASE Len(tape) > second /\ ReadContents(second + 1, Here.name, tape[second + 1].n)
    <3>1. second + 1 \in 1..Len(tape)
      <4>1. Len(tape) \in Nat
        BY TapeFacts
      <4> QED
        BY <2>4, <2>5, <4>1
    <3>2. tape[second + 1].n \in Nat
      BY <3>1, TapeFacts
    <3> QED
      BY <1>1, <1>2, <2>3, <2>5, <3>1, <3>2
  <2> QED
    BY <1>1, <2>1, <2>5
<1> QED
  BY <1>3, <1>4, <1>5

\* While files with short names are left the reader finds the next of them, or
\* the end of an archive that was cut; after the last one it finds the end.
LEMMA ReaderStep ==
  ASSUME IInv, ReadEnd \/ ReadShort \/ ReadLong \/ ReadGarbage,
         NEW p \in 0..Len(src), First(p), NEW off, Slots(p, off), Ends(p, off), At(p, off)
  PROVE  /\ Len(restored) < p =>
              LET i == Len(restored) + 1
              IN \/ \E piece \in Piece : Got(off[i] + 1, src[i].name, src[i].size, piece)
                 \/ faults # 0 /\ outcome' = "done" /\ restored' = restored /\ pos' = pos
         /\ p = written => Len(restored) <= p
         /\ p = written /\ Len(restored) = p =>
              outcome' = "done" /\ restored' = restored /\ pos' = pos
<1>1. TypeOK /\ restored \in Seq(Piece)
  BY DEF IInv, BaseInv
<1>2. outcome = "reading"
  BY <1>1, ReaderFacts
<1>3. /\ p = written => Len(restored) <= p
      /\ Len(restored) <= p => pos = off[Len(restored) + 1]
  BY <1>2 DEF At
<1>4. Len(restored) \in Nat /\ p \in Nat
  BY <1>1, LenProperties DEF First
<1>5. Len(tape) \in Nat /\ pos \in 0..Len(tape)
  BY <1>1, TapeFacts
<1>6. ASSUME Len(restored) < p, NEW i, i = Len(restored) + 1
      PROVE  \/ \E piece \in Piece : Got(off[i] + 1, src[i].name, src[i].size, piece)
             \/ faults # 0 /\ outcome' = "done" /\ restored' = restored /\ pos' = pos
  <2>1. i \in 1..p /\ i + 1 \in 1..p + 1 /\ i \in 1..Len(src)
    <3>1. p <= Len(src) /\ Len(src) \in Nat
      BY <1>1, <1>4, SourceFacts
    <3> QED
      BY <1>4, <1>6, <3>1
  <2>2. src[i].name \in Names /\ src[i].size \in Nat /\ Counted(src[i].size) \in Nat
    BY <1>1, <2>1, SourceFacts, SizeFacts
  <2>3. /\ pos = off[i] /\ off[i + 1] = off[i] + 1 + Counted(src[i].size)
        /\ off[i] + 1 <= Len(tape) =>
             tape[off[i] + 1] = Header("0", src[i].name, src[i].size)
        /\ faults = 0 => off[i + 1] <= Len(tape)
    <3>1. pos = off[i]
      BY <1>3, <1>4, <1>6
    <3>2. /\ off[i + 1] = off[i] + 1 + Counted(src[i].size)
          /\ off[i] + 1 <= Len(tape) =>
               tape[off[i] + 1] = Header("0", src[i].name, src[i].size)
      BY <2>1 DEF Slots
    <3>3. faults = 0 => off[i + 1] <= Len(tape)
      BY <2>1 DEF Ends
    <3> QED
      BY <3>1, <3>2, <3>3
  <2>4. CASE Available(1)
    <3>1. pos + 1 \in 0..Len(tape) /\ off[i] + 1 <= Len(tape)
      BY <1>5, <2>3, <2>4 DEF Available
    <3>2. Here = Header("0", src[i].name, src[i].size)
      BY <2>3, <3>1 DEF Here
    <3>3. Here.kind = "0" /\ Here.name = src[i].name /\ Here.n = src[i].size
      BY <3>2 DEF Header
    <3>4. ReadShort
      BY <2>4, <3>3 DEF ReadEnd, ReadLong, ReadGarbage
    <3>5. ReadContents(pos + 1, src[i].name, src[i].size)
      BY <3>3, <3>4 DEF ReadShort
    <3>6. \E piece \in Piece : Got(pos + 1, src[i].name, src[i].size, piece)
      BY <1>1, <2>2, <3>1, <3>5, ContentsRead
    <3> QED
      BY <2>3, <3>6
  <2>5. CASE ~Available(1)
    <3>1. ReadEnd
      BY <2>5 DEF ReadShort, ReadLong, ReadGarbage
    <3>2. faults # 0
      <4>1. pos + 1 > Len(tape) /\ pos \in Nat
        BY <1>5, <2>5 DEF Available
      <4> QED
        BY <1>5, <2>2, <2>3, <4>1
    <3> QED
      BY <3>1, <3>2 DEF ReadEnd
  <2> QED
    BY <2>4, <2>5
<1>7. ASSUME p = written, Len(restored) = p
      PROVE  outcome' = "done" /\ restored' = restored /\ pos' = pos
  <2>1. pos = off[p + 1]
    BY <1>3, <1>4, <1>7
  <2>2. CASE Available(1)
    <3>1. pos + 1 \in 1..Len(tape) /\ pos + 1 > off[p + 1]
      BY <1>5, <2>1, <2>2 DEF Available
    <3>2. Here.kind = "zero"
      BY <1>7, <3>1 DEF Ends, Here
    <3> QED
      BY <3>2 DEF ReadEnd, ReadShort, ReadLong, ReadGarbage
  <2>3. CASE ~Available(1)
    BY <2>3 DEF ReadEnd, ReadShort, ReadLong, ReadGarbage
  <2> QED
    BY <2>2, <2>3
<1> QED
  BY <1>3, <1>6, <1>7

LEMMA ReaderKeeps ==
  ASSUME IInv, ReadEnd \/ ReadShort \/ ReadLong \/ ReadGarbage
  PROVE  IInv'
<1>1. BaseInv /\ TypeOK /\ restored \in Seq(Piece) /\ Len(restored) \in Nat
  BY LenProperties DEF IInv, BaseInv
<1>2. /\ stored /\ outcome = "reading"
      /\ src' = src /\ written' = written /\ tape' = tape /\ stored' = stored /\ faults' = faults
      /\ \/ restored' = restored /\ pos' = pos /\ outcome' \in {"done", "threw"}
         \/ /\ \E piece \in Piece : restored' = Append(restored, piece)
            /\ pos' \in 1..Len(tape) /\ outcome' \in {"reading", "threw"}
  BY <1>1, ReaderFacts DEF writer
<1>3. PICK p \in 0..Len(src) :
        First(p) /\ \E off : Slots(p, off) /\ Ends(p, off) /\ At(p, off)
  BY DEF IInv, TapeInv
<1>4. PICK off : Slots(p, off) /\ Ends(p, off) /\ At(p, off)
  BY <1>3
<1>5. /\ restored' \in Seq(Piece)
      /\ outcome' = "reading" => Len(restored') = Len(restored) + 1
  <2>1. CASE restored' = restored /\ outcome' \in {"done", "threw"}
    BY <1>1, <2>1
  <2>2. CASE \E piece \in Piece : restored' = Append(restored, piece)
    <3>1. PICK piece \in Piece : restored' = Append(restored, piece)
      BY <2>2
    <3> QED
      BY <1>1, <3>1, AppendProperties
  <2> QED
    BY <1>2, <2>1, <2>2
<1>6. BaseInv'
  <2>1. pos' \in 0..Len(tape) /\ (pos' = 0 => restored' = <<>>)
    <3>1. pos \in 0..Len(tape) /\ Len(tape) \in Nat /\ (pos = 0 => restored = <<>>)
      BY <1>1, TapeFacts DEF BaseInv
    <3> QED
      BY <1>2, <3>1
  <2>2. TypeOK'
    BY <1>1, <1>2, <2>1 DEF TypeOK
  <2> QED
    BY <1>1, <1>2, <1>5, <2>1, <2>2 DEF BaseInv
<1>7. First(p)' /\ Slots(p, off)' /\ Ends(p, off)'
  BY <1>2, <1>3, <1>4 DEF First, Slots, Ends, IsLong, Counted, Blocks, Header
<1>8. At(p, off)'
  <2> SUFFICES ASSUME outcome' = "reading"
               PROVE  /\ p = written => Len(restored') <= p
                      /\ Len(restored') <= p => pos' = off[Len(restored') + 1]
    BY <1>2 DEF At
  <2>1. Len(restored') = Len(restored) + 1 /\ p \in Nat
    BY <1>3, <1>5 DEF First
  <2>2. CASE Len(restored) < p
    <3> DEFINE i == Len(restored) + 1
    <3>1. PICK piece \in Piece : Got(off[i] + 1, src[i].name, src[i].size, piece)
      BY <1>3, <1>4, <2>2, ReaderStep
    <3>2. pos' = off[i] + 1 + Counted(src[i].size)
      BY <3>1 DEF Got
    <3>3. i \in 1..p
      BY <1>1, <2>1, <2>2
    <3>4. off[i + 1] = off[i] + 1 + Counted(src[i].size)
      BY <1>4, <3>3 DEF Slots
    <3> QED
      BY <2>1, <2>2, <3>2, <3>3, <3>4
  <2>3. CASE ~(Len(restored) < p)
    <3>1. p # written
      <4> SUFFICES ASSUME p = written PROVE FALSE
        OBVIOUS
      <4>1. Len(restored) <= p
        BY <1>3, <1>4, ReaderStep
      <4>2. Len(restored) = p
        BY <1>1, <2>1, <2>3, <4>1
      <4> QED
        BY <1>3, <1>4, <4>2, ReaderStep
    <3> QED
      BY <1>1, <2>1, <2>3, <3>1
  <2> QED
    BY <2>2, <2>3
<1> QED
  BY <1>2, <1>3, <1>6, <1>7, <1>8 DEF IInv, TapeInv

-----------------------------------------------------------------------------
(* Both sides together *)

LEMMA InitHolds == Init => IInv
<1> SUFFICES ASSUME Init PROVE IInv
  OBVIOUS
<1>1. /\ src \in Sources /\ written = 0 /\ tape = <<>> /\ stored = FALSE /\ faults = 0
      /\ pos = 0 /\ restored = <<>> /\ outcome = "reading"
  BY DEF Init
<1>2. Len(src) \in Nat
  <2>1. src \in Seq([name : Names, size : Nat])
    BY <1>1, TarBallAssumption
  <2> QED
    BY <2>1, LenProperties
<1>3. /\ tape \in Seq([kind : {"0", "L", "data", "name", "zero"},
                       name : Names \cup {"none"}, n : Nat])
      /\ restored \in Seq(Piece) /\ Len(tape) = 0 /\ Len(restored) = 0
  BY <1>1, EmptySeq
<1>4. BaseInv
  <2>1. MaxFaults \in Nat
    BY TarBallAssumption
  <2>2. written \in 0..Len(src) /\ pos \in 0..Len(tape) /\ faults \in 0..MaxFaults
    BY <1>1, <1>2, <1>3, <2>1
  <2>3. stored \in BOOLEAN
    BY <1>1
  <2> QED
    BY <1>1, <1>3, <2>2, <2>3 DEF BaseInv, TypeOK
<1>5. First(0)
  BY <1>1 DEF First
<1>6. PICK off \in [1..0 + 1 -> Nat] : off[1] = 0
  <2>1. [i \in 1..0 + 1 |-> 0] \in [1..0 + 1 -> Nat] /\ [i \in 1..0 + 1 |-> 0][1] = 0
    OBVIOUS
  <2> QED
    BY <2>1
<1>7. Slots(0, off)
  BY <1>6 DEF Slots
<1>8. Ends(0, off)
  <2>1. off[0 + 1] = 0 /\ \A i \in 1..0 + 1 : off[i] = 0
    BY <1>6
  <2> QED
    BY <1>3, <2>1 DEF Ends
<1>9. At(0, off)
  BY <1>1, <1>3, <1>6 DEF At
<1>10. 0 \in 0..Len(src)
  BY <1>2
<1> QED
  BY <1>4, <1>5, <1>7, <1>8, <1>9, <1>10 DEF IInv, TapeInv

LEMMA NextKeeps == IInv /\ [Next]_vars => IInv'
<1> SUFFICES ASSUME IInv, [Next]_vars PROVE IInv'
  OBVIOUS
<1>1. CASE UNCHANGED vars
  <2>1. /\ src' = src /\ written' = written /\ tape' = tape /\ stored' = stored
        /\ faults' = faults /\ pos' = pos /\ restored' = restored /\ outcome' = outcome
    BY <1>1 DEF vars
  <2>2. BaseInv'
    BY <2>1 DEF IInv, BaseInv, TypeOK
  <2>3. PICK p \in 0..Len(src) :
          First(p) /\ \E off : Slots(p, off) /\ Ends(p, off) /\ At(p, off)
    BY DEF IInv, TapeInv
  <2>4. PICK off : Slots(p, off) /\ Ends(p, off) /\ At(p, off)
    BY <2>3
  <2>5. First(p)' /\ Slots(p, off)' /\ Ends(p, off)' /\ At(p, off)'
    BY <2>1, <2>3, <2>4 DEF First, Slots, Ends, At, IsLong, Counted, Blocks, Header
  <2> QED
    BY <2>1, <2>2, <2>5 DEF IInv, TapeInv
<1> QED
  BY <1>1, WriterKeeps, LoseEndKeeps, ReaderKeeps DEF Next

LEMMA Invariance == Spec => []IInv
  BY InitHolds, NextKeeps, PTL DEF Spec

\* The types of the variables in every state; the reader never gets past the
\* end of the archive.
THEOREM TypesHold == Spec => []TypeOK
<1>1. IInv => TypeOK
  BY DEF IInv, BaseInv
<1> QED
  BY <1>1, Invariance, PTL

-----------------------------------------------------------------------------
(* The promise *)

Limit == MaxCounted * BlockSize
Whole(piece) == \E j \in DOMAIN src : piece = File(src[j]) /\ piece.bytes = src[j].size
View(piece) == [name |-> piece.name, whole |-> Whole(piece)]
Seen == [name : Names \cup {"none"}, whole : BOOLEAN]
Views(pieces) == [i \in DOMAIN pieces |-> View(pieces[i])]

LEMMA ViewsFacts ==
  ASSUME NEW pieces \in Seq(Piece)
  PROVE  /\ Views(pieces) \in Seq(Seen) /\ Len(Views(pieces)) = Len(pieces)
         /\ Len(pieces) \in Nat
         /\ \A i \in 1..Len(pieces) : Views(pieces)[i] = View(pieces[i])
<1> DEFINE e(i) == View(pieces[i])
<1>1. Len(pieces) \in Nat /\ DOMAIN pieces = 1..Len(pieces)
  BY LenProperties
<1>2. Views(pieces) = [i \in 1..Len(pieces) |-> e(i)]
  BY <1>1 DEF Views
<1>3. \A i \in 1..Len(pieces) : e(i) \in Seen
  <2> SUFFICES ASSUME NEW i \in 1..Len(pieces) PROVE View(pieces[i]) \in Seen
    OBVIOUS
  <2>1. pieces[i].name \in Names \cup {"none"}
    <3>1. pieces[i] \in Piece
      BY ElementOfSeq
    <3> QED
      BY <3>1 DEF Piece
  <2>2. Whole(pieces[i]) \in BOOLEAN
    BY DEF Whole
  <2> QED
    BY <2>1, <2>2 DEF View, Seen
<1> HIDE DEF e
<1>4. Views(pieces) \in Seq(Seen)
  BY <1>1, <1>2, <1>3, IsASeq
<1>5. Len(Views(pieces)) = Len(pieces)
  BY <1>1, <1>2
<1> QED
  BY <1>1, <1>2, <1>4, <1>5 DEF e

\* One more file restored is one more file seen.
LEMMA RestoredGrows ==
  ASSUME restored \in Seq(Piece), src' = src, NEW piece \in Piece,
         restored' = Append(restored, piece)
  PROVE  /\ Restored \in Seq(Seen) /\ Len(Restored) = Len(restored) /\ Len(restored) \in Nat
         /\ Restored' = Append(Restored, View(piece))
         /\ Len(Restored') = Len(Restored) + 1
         /\ SubSeq(Restored', 1, Len(Restored)) = Restored
<1>1. Restored = Views(restored) /\ Restored' = Views(restored')
  BY DEF Restored, Views, View, Whole
<1>2. /\ restored' \in Seq(Piece) /\ Len(restored') = Len(restored) + 1
      /\ \A i \in 1..Len(restored) : restored'[i] = restored[i]
      /\ restored'[Len(restored) + 1] = piece
  BY AppendProperties
<1>3. /\ Restored \in Seq(Seen) /\ Len(Restored) = Len(restored) /\ Len(restored) \in Nat
      /\ \A i \in 1..Len(restored) : Restored[i] = View(restored[i])
  BY <1>1, ViewsFacts
<1>4. /\ Restored' \in Seq(Seen) /\ Len(Restored') = Len(restored) + 1
      /\ \A i \in 1..Len(restored') : Restored'[i] = View(restored'[i])
  <2> DEFINE later == restored'
  <2>1. later \in Seq(Piece)
    BY <1>2
  <2> HIDE DEF later
  <2>2. /\ Views(later) \in Seq(Seen) /\ Len(Views(later)) = Len(later)
        /\ \A i \in 1..Len(later) : Views(later)[i] = View(later[i])
    BY <2>1, ViewsFacts
  <2> QED
    BY <1>1, <1>2, <2>2 DEF later
<1>5. View(piece) \in Seen
  <2>1. piece.name \in Names \cup {"none"} /\ Whole(piece) \in BOOLEAN
    BY DEF Piece, Whole
  <2> QED
    BY <2>1 DEF View, Seen
<1>6. /\ \A i \in 1..Len(Restored) : Restored'[i] = Restored[i]
      /\ Restored'[Len(Restored) + 1] = View(piece)
  BY <1>2, <1>3, <1>4
<1>7. Restored' = Append(Restored, View(piece))
  <2>1. /\ Append(Restored, View(piece)) \in Seq(Seen)
        /\ Len(Append(Restored, View(piece))) = Len(Restored) + 1
        /\ \A i \in 1..Len(Restored) : Append(Restored, View(piece))[i] = Restored[i]
        /\ Append(Restored, View(piece))[Len(Restored) + 1] = View(piece)
    BY <1>3, <1>5, AppendProperties
  <2>2. \A i \in 1..Len(Restored) + 1 : Restored'[i] = Append(Restored, View(piece))[i]
    BY <1>3, <1>6, <2>1
  <2> QED
    BY <1>3, <1>4, <2>1, <2>2, SeqEqual
<1>8. SubSeq(Restored', 1, Len(Restored)) = Restored
  <2> DEFINE n == Len(Restored)
  <2>1. /\ n \in Nat /\ 1 \in Int /\ n \in Int
        /\ \A i \in 1..n : Restored'[i] \in Seen
    BY <1>3, <1>6, ElementOfSeq
  <2>2. /\ SubSeq(Restored', 1, n) \in Seq(Seen)
        /\ Len(SubSeq(Restored', 1, n)) = IF 1 <= n THEN n - 1 + 1 ELSE 0
        /\ \A i \in 1..n - 1 + 1 : SubSeq(Restored', 1, n)[i] = Restored'[1 + i - 1]
    BY <2>1, SubSeqProperties
  <2> HIDE DEF n
  <2>3. Len(SubSeq(Restored', 1, n)) = n /\ n - 1 + 1 = n /\ \A i \in 1..n : 1 + i - 1 = i
    BY <2>1, <2>2
  <2>4. \A i \in 1..n : SubSeq(Restored', 1, n)[i] = Restored[i]
    BY <1>6, <2>2, <2>3 DEF n
  <2> QED
    BY <1>3, <2>2, <2>3, <2>4, SeqEqual DEF n
<1> QED
  BY <1>3, <1>4, <1>7, <1>8

\* A file restored to the end is whole unless it is larger than the limit, one
\* that the archive has not all blocks of is not.
LEMMA PieceView ==
  ASSUME TypeOK, NEW p \in 0..Len(src), NEW off, Slots(p, off), NEW i \in 1..p,
         NEW piece \in Piece, Got(off[i] + 1, src[i].name, src[i].size, piece)
  PROVE  \/ /\ outcome' = "reading"
            /\ View(piece) = [name |-> src[i].name, whole |-> src[i].size <= Limit]
         \/ /\ off[i + 1] > Len(tape) /\ outcome' = "threw"
            /\ View(piece) = [name |-> src[i].name, whole |-> FALSE]
<1> DEFINE size == src[i].size
           name == src[i].name
<1>1. /\ name \in Names /\ size \in Nat /\ i \in 1..Len(src) /\ DOMAIN src = 1..Len(src)
      /\ \A j \in 1..Len(src) : src[j].name = name => j = i
  <2>1. i \in 1..Len(src) /\ DOMAIN src = 1..Len(src)
    BY SourceFacts, LenProperties
  <2> QED
    BY <2>1, SourceFacts
<1>2. Counted(size) \in Nat /\ Capped(size) \in Nat /\ (Capped(size) = size <=> size <= Limit)
  BY <1>1, SizeFacts DEF Limit
<1>3. /\ piece.name = name /\ piece.blocks \in Seq(Block)
      /\ piece = [name |-> piece.name, blocks |-> piece.blocks, bytes |-> piece.bytes]
  BY DEF Got, Piece
<1>4. /\ Contents(src[i]) \in Seq(Block) /\ Len(Contents(src[i])) = Counted(size)
      /\ \A j \in 1..Counted(size) :
           Contents(src[i])[j] = [kind |-> "data", name |-> name, n |-> j]
  BY <1>1, <1>2, PiecesFacts DEF Contents
<1>5. Whole(piece) <=> piece = File(src[i]) /\ piece.bytes = size
  <2>1. \A j \in DOMAIN src : piece = File(src[j]) => j = i
    BY <1>1, <1>3 DEF File
  <2> QED
    BY <1>1, <2>1 DEF Whole
<1>6. off[i] + 1 + Counted(size) = off[i + 1] /\ off[i] \in Nat
  BY DEF Slots
<1>7. CASE /\ off[i] + 1 + Counted(size) <= Len(tape) /\ Len(piece.blocks) = Counted(size)
           /\ piece.bytes = Capped(size) /\ outcome' = "reading"
  <2>1. ASSUME NEW j \in 1..Counted(size) PROVE piece.blocks[j] = Contents(src[i])[j]
    <3>1. piece.blocks[j] = tape[off[i] + 1 + j]
      BY <1>7 DEF Got
    <3>2. off[i] + 1 + j <= Len(tape)
      <4>1. Len(tape) \in Nat
        BY TapeFacts
      <4> QED
        BY <1>2, <1>6, <1>7, <4>1
    <3>3. tape[off[i] + 1 + j] = [kind |-> "data", name |-> name, n |-> j]
      BY <3>2 DEF Slots
    <3> QED
      BY <1>4, <3>1, <3>3
  <2>2. piece.blocks = Contents(src[i])
    <3> DEFINE blocks == piece.blocks
               data == Contents(src[i])
    <3>1. /\ blocks \in Seq(Block) /\ data \in Seq(Block) /\ Len(blocks) = Len(data)
          /\ \A j \in 1..Len(blocks) : blocks[j] = data[j]
      BY <1>3, <1>4, <1>7, <2>1
    <3> HIDE DEF blocks, data
    <3>2. blocks = data
      BY <3>1, SeqEqual
    <3> QED
      BY <3>2 DEF blocks, data
  <2>3. piece = File(src[i])
    BY <1>3, <1>7, <2>2 DEF File
  <2>4. Whole(piece) = (size <= Limit)
    <3>1. Whole(piece) \in BOOLEAN /\ (size <= Limit) \in BOOLEAN
      BY DEF Whole
    <3> QED
      BY <1>2, <1>5, <1>7, <2>3, <3>1
  <2> QED
    BY <1>3, <1>7, <2>4 DEF View
<1>8. CASE /\ off[i] + 1 + Counted(size) > Len(tape) /\ Len(piece.blocks) < Counted(size)
           /\ outcome' = "threw"
  <2>1. piece # File(src[i])
    <3>1. Len(piece.blocks) \in Nat
      BY <1>3, LenProperties
    <3> QED
      BY <1>2, <1>4, <1>8, <3>1 DEF File
  <2>2. Whole(piece) = FALSE
    BY <1>5, <2>1 DEF Whole
  <2> QED
    BY <1>3, <1>6, <1>8, <2>2 DEF View
<1> QED
  BY <1>7, <1>8 DEF Got

\* What the loading session can see of the archive and of its own progress.
seen == <<src, faults = 0, Restored, outcome>>

LEMMA InitImplements == Init => Kept!Init
<1> SUFFICES ASSUME Init PROVE Kept!Init
  OBVIOUS
<1>1. faults = 0 /\ restored = <<>> /\ outcome = "reading"
  BY DEF Init
<1>2. Restored = <<>>
  <2>1. <<>> \in Seq(Piece)
    OBVIOUS
  <2>2. Restored = Views(<<>>)
    BY <1>1 DEF Restored, Views, View, Whole
  <2>3. Views(<<>>) \in Seq(Seen) /\ Len(Views(<<>>)) = Len(<<>>)
    BY <2>1, ViewsFacts
  <2> QED
    BY <2>2, <2>3, EmptySeq
<1> QED
  BY <1>1, <1>2 DEF Kept!Init

\* The writer is not seen, only what it loses is.
LEMMA WriterImplements ==
  ASSUME IInv, WriteShort \/ WriteLong \/ WriterEnds \/ LoseEnd
  PROVE  Kept!Damage \/ UNCHANGED seen
<1>1. src' = src /\ restored' = restored /\ outcome' = outcome
  BY DEF WriteShort, WriteLong, WriterEnds, LoseEnd, reader
<1>2. Restored' = Restored
  BY <1>1 DEF Restored
<1>3. CASE WriteShort \/ WriteLong \/ WriterEnds
  <2>1. faults' = faults
    BY <1>3 DEF WriteShort, WriteLong, WriterEnds
  <2> QED
    BY <1>1, <1>2, <2>1 DEF seen
<1>4. CASE LoseEnd
  <2>1. Restored = <<>>
    <3>1. restored = <<>>
      BY <1>4 DEF LoseEnd, IInv, BaseInv
    <3>2. <<>> \in Seq(Piece)
      OBVIOUS
    <3>3. Restored = Views(<<>>)
      BY <3>1 DEF Restored, Views, View, Whole
    <3>4. Views(<<>>) \in Seq(Seen) /\ Len(Views(<<>>)) = Len(<<>>)
      BY <3>2, ViewsFacts
    <3> QED
      BY <3>3, <3>4, EmptySeq
  <2>2. faults' # 0
    <3>1. faults' = faults + 1 /\ faults \in 0..MaxFaults /\ MaxFaults \in Nat
      BY <1>4, TarBallAssumption DEF LoseEnd, IInv, BaseInv, TypeOK
    <3> QED
      BY <3>1
  <2> QED
    BY <1>1, <1>2, <2>1, <2>2 DEF Kept!Damage
<1> QED
  BY <1>3, <1>4

\* While files with short names are left the reader restores the next one, or
\* meets the end of an archive that was cut.
LEMMA PlainImplements ==
  ASSUME IInv, ReadEnd \/ ReadShort \/ ReadLong \/ ReadGarbage,
         NEW p \in 0..Len(src), First(p), NEW off, Slots(p, off), Ends(p, off), At(p, off),
         Len(restored) < p
  PROVE  Kept!Next
<1> DEFINE i == Len(restored) + 1
<1>1. TypeOK /\ restored \in Seq(Piece) /\ Len(restored) \in Nat /\ Len(src) \in Nat
  BY SourceFacts, LenProperties DEF IInv, BaseInv
<1>2. /\ stored /\ outcome = "reading"
      /\ src' = src /\ tape' = tape /\ faults' = faults
  BY <1>1, ReaderFacts DEF writer
<1>3. /\ i \in 1..p /\ i \in 1..Len(src) /\ i + 1 \in 1..p + 1 /\ src[i].size \in Nat
      /\ Len(restored) < Len(src)
  <2>1. i \in 1..p /\ i \in 1..Len(src) /\ i + 1 \in 1..p + 1 /\ Len(restored) < Len(src)
    BY <1>1
  <2> QED
    BY <1>1, <2>1, SourceFacts
<1>4. Restored = Views(restored) /\ Len(Restored) = Len(restored)
  <2>1. Restored = Views(restored)
    BY DEF Restored, Views, View, Whole
  <2> QED
    BY <1>1, <2>1, ViewsFacts
<1>5. ASSUME NEW piece \in Piece, Got(off[i] + 1, src[i].name, src[i].size, piece)
      PROVE  Kept!Restore \/ Kept!Fail
  <2>1. restored' = Append(restored, piece)
    BY <1>5 DEF Got
  <2>2. Restored' = Append(Restored, View(piece))
    BY <1>1, <1>2, <2>1, RestoredGrows
  <2>3. CASE /\ outcome' = "reading"
             /\ View(piece) = [name |-> src[i].name, whole |-> src[i].size <= Limit]
    BY <1>2, <1>3, <1>4, <2>2, <2>3
       DEF Kept!Restore, Kept!Reading, Kept!Following, Limit
  <2>4. CASE /\ off[i + 1] > Len(tape) /\ outcome' = "threw"
             /\ View(piece) = [name |-> src[i].name, whole |-> FALSE]
    <3>1. faults # 0
      <4>1. Len(tape) \in Nat /\ off[i + 1] \in Nat
        BY <1>1, <1>3, TapeFacts DEF Slots
      <4>2. faults = 0 => off[i + 1] <= Len(tape)
        BY <1>3 DEF Ends
      <4> QED
        BY <2>4, <4>1, <4>2
    <3> QED
      BY <1>2, <1>3, <1>4, <2>2, <2>4, <3>1 DEF Kept!Fail, Kept!Reading, Kept!Following
  <2> QED
    BY <1>1, <1>3, <1>5, <2>3, <2>4, PieceView
<1>6. CASE faults # 0 /\ outcome' = "done" /\ restored' = restored /\ pos' = pos
  <2>1. Restored' = Restored
    BY <1>2, <1>6 DEF Restored
  <2> QED
    BY <1>2, <1>6, <2>1 DEF Kept!Next, Kept!Stop, Kept!Reading
<1>7. \/ \E piece \in Piece : Got(off[i] + 1, src[i].name, src[i].size, piece)
      \/ faults # 0 /\ outcome' = "done" /\ restored' = restored /\ pos' = pos
  BY ReaderStep
<1> QED
  BY <1>5, <1>6, <1>7 DEF Kept!Next

\* After the last file written the reader stops; past a file with a long name
\* it may do anything.
LEMMA PastImplements ==
  ASSUME IInv, ReadEnd \/ ReadShort \/ ReadLong \/ ReadGarbage,
         NEW p \in 0..Len(src), First(p), NEW off, Slots(p, off), Ends(p, off), At(p, off),
         ~(Len(restored) < p)
  PROVE  Kept!Next
<1>1. TypeOK /\ restored \in Seq(Piece) /\ Len(restored) \in Nat /\ Len(src) \in Nat
  BY SourceFacts, LenProperties DEF IInv, BaseInv
<1>2. stored /\ outcome = "reading" /\ src' = src /\ faults' = faults
  BY <1>1, ReaderFacts DEF writer
<1>3. Restored \in Seq(Seen) /\ Len(Restored) = Len(restored)
  <2>1. Restored = Views(restored)
    BY DEF Restored, Views, View, Whole
  <2> QED
    BY <1>1, <2>1, ViewsFacts
<1>4. p \in 0..written /\ written \in 0..Len(src)
  BY <1>1 DEF First, TypeOK
<1>5. CASE p = written
  <2>1. Len(restored) <= p
    BY <1>5, ReaderStep
  <2>2. Len(restored) = p
    BY <1>1, <1>4, <2>1
  <2>3. outcome' = "done" /\ restored' = restored
    BY <1>5, <2>2, ReaderStep
  <2>4. Restored' = Restored
    BY <1>2, <2>3 DEF Restored
  <2>5. faults = 0 => Len(Restored) = Len(src)
    BY <1>2, <1>3, <1>5, <2>2 DEF IInv, BaseInv
  <2> QED
    BY <1>2, <2>3, <2>4, <2>5 DEF Kept!Next, Kept!Stop, Kept!Reading
<1>6. CASE p # written
  <2>1. p + 1 \in 1..Len(Restored) + 1 /\ p + 1 <= Len(src) /\ IsLong(src[p + 1].name)
    <3>1. p < written
      BY <1>4, <1>6
    <3> QED
      BY <1>1, <1>3, <1>4, <3>1 DEF First
  <2>2. \/ restored' = restored
        \/ \E piece \in Piece : restored' = Append(restored, piece)
    BY <1>1, ReaderFacts
  <2>3. Len(Restored') \in {Len(Restored), Len(Restored) + 1}
        /\ SubSeq(Restored', 1, Len(Restored)) = Restored
    <3>1. CASE restored' = restored
      <4>1. Restored' = Restored
        BY <1>2, <3>1 DEF Restored
      <4>2. SubSeq(Restored, 1, Len(Restored)) = Restored
        BY <1>3, SubSeqFull
      <4> QED
        BY <4>1, <4>2
    <3>2. CASE \E piece \in Piece : restored' = Append(restored, piece)
      BY <1>1, <1>2, <3>2, RestoredGrows
    <3> QED
      BY <2>2, <3>1, <3>2
  <2> QED
    BY <1>2, <2>1, <2>3 DEF Kept!Next, Kept!Derail, Kept!Reading
<1> QED
  BY <1>5, <1>6

LEMMA StepImplements == IInv /\ [Next]_vars => [Kept!Next]_seen
<1> SUFFICES ASSUME IInv, [Next]_vars PROVE Kept!Next \/ UNCHANGED seen
  OBVIOUS
<1>1. CASE UNCHANGED vars
  BY <1>1 DEF vars, seen, Restored
<1>2. CASE WriteShort \/ WriteLong \/ WriterEnds \/ LoseEnd
  BY <1>2, WriterImplements DEF Kept!Next
<1>3. CASE ReadEnd \/ ReadShort \/ ReadLong \/ ReadGarbage
  <2>1. PICK p \in 0..Len(src) :
          First(p) /\ \E off : Slots(p, off) /\ Ends(p, off) /\ At(p, off)
    BY DEF IInv, TapeInv
  <2>2. PICK off : Slots(p, off) /\ Ends(p, off) /\ At(p, off)
    BY <2>1
  <2> QED
    BY <1>3, <2>1, <2>2, PlainImplements, PastImplements
<1> QED
  BY <1>1, <1>2, <1>3 DEF Next

\* The archive keeps its promise, whatever is stored in it and wherever it is
\* cut: what TarReader gives back is a prefix of the files TarWriter wrote, in
\* their order, each with all its blocks unless it is the one the archive ends
\* in or one the counter of the loops cannot count, and all of them if nothing
\* was lost. The promise ends where TarWriter::write first meets a name that
\* does not fit into the header.
THEOREM ImplementsArchive == Spec => KeepsArchive
<1>1. Init => Kept!Init
  BY InitImplements
<1>2. IInv /\ [Next]_vars => [Kept!Next]_<<src, faults = 0, Restored, outcome>>
  BY StepImplements DEF seen
<1> QED
  BY <1>1, <1>2, Invariance, PTL DEF Spec, KeepsArchive, Kept!Spec
=============================================================================
