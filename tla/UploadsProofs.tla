---------------------------- MODULE UploadsProofs ----------------------------
(***************************************************************************)
(* Proofs about Uploads: an upload that meets no other one leaves its      *)
(* capture, and an ingest gets a whole one, for any number of requests,    *)
(* names and captures.                                                     *)
(***************************************************************************)
EXTENDS Uploads, SequenceTheorems, TLAPS

USE FileAssumption

Files == [Names -> Seq(Block) \cup {NoFile}]

Saving == [pc : {"create", "write"}, file : Names, capture : Captures,
           written : Nat, crossed : BOOLEAN]

Reading == [pc : {"read"}, file : Names, path : {"samples", "uploads"},
            data : Seq(Block), disturbed : BOOLEAN]

Types ==
    /\ uploads \in Files
    /\ saver \in [Savers -> {Idle} \cup Saving]
    /\ reader \in [Readers -> {Idle} \cup Reading]
    /\ soiled \subseteq Names

\* The file is the first k blocks of a capture.
Holds(blocks, c, k) ==
    /\ blocks \in Seq(Block)
    /\ Len(blocks) = k
    /\ \A i \in 1 .. k : blocks[i] = <<c, i>>

\* What a save that is writing may rely on: its file is there, and if no other
\* save crossed it, it is the only one, and the file is what it wrote.
SaverOK(u) ==
    LET s == saver[u] IN
    /\ s \in Saving => s.written <= Size[s.capture]
    /\ s.pc = "create" => s.written = 0
    /\ s.pc = "write" =>
          /\ Exists(s.file) /\ s.file \in soiled
          /\ ~s.crossed =>
                /\ \A v \in Savers : saver[v].pc = "write" /\ saver[v].file = s.file
                                        => v = u
                /\ Holds(uploads[s.file], s.capture, s.written)

\* A file is a whole capture unless it is soiled.
CleanFiles ==
    \A n \in Names \ soiled :
        Exists(n) => \E c \in Captures : uploads[n] = Content(c)

\* What was read is what is in the file, up to that place.
Begins(data, blocks) ==
    \A i \in 1 .. Len(data) : i <= Len(blocks) /\ data[i] = blocks[i]

ReaderOK(r) ==
    LET q == reader[r] IN
    q.pc = "read" =>
        /\ q.path = "samples" <=> q.file \in Samples
        /\ q.path = "samples" => Begins(q.data, Content(SampleOf[q.file]))
        /\ q.path = "uploads" =>
              /\ Exists(q.file)
              /\ ~q.disturbed => /\ q.file \notin soiled
                                 /\ Begins(q.data, uploads[q.file])

IInv ==
    /\ Types
    /\ \A u \in Savers : SaverOK(u)
    /\ CleanFiles
    /\ \A r \in Readers : ReaderOK(r)

-----------------------------------------------------------------------------
(***************************************************************************)
(* Files and records                                                       *)
(***************************************************************************)

(* A capture is a sequence of its blocks. *)
LEMMA ContentIs ==
    ASSUME NEW c \in Captures
    PROVE  /\ Size[c] \in Nat \ {0}
           /\ Content(c) \in Seq(Block)
           /\ Content(c) # NoFile
           /\ Len(Content(c)) = Size[c]
           /\ \A i \in 1 .. Size[c] : Content(c)[i] = <<c, i>>
<1>1. Size[c] \in Nat \ {0}
  OBVIOUS
<1>2. \A i \in 1 .. Size[c] : <<c, i>> \in Block
  BY <1>1 DEF Block
<1>3. Content(c) \in Seq(Block) /\ Len(Content(c)) = Size[c]
  BY <1>1, <1>2 DEF Content
<1>4. QED
  BY <1>1, <1>3 DEF Content

(* A file with all blocks of a capture is that capture. *)
LEMMA HoldsAll ==
    ASSUME NEW c \in Captures, NEW blocks, Holds(blocks, c, Size[c])
    PROVE  blocks = Content(c)
<1>1. /\ blocks \in Seq(Block) /\ Content(c) \in Seq(Block)
      /\ Len(blocks) = Len(Content(c))
      /\ \A i \in 1 .. Len(blocks) : blocks[i] = Content(c)[i]
  BY ContentIs DEF Holds
<1>2. QED
  BY <1>1, SeqEqual

(* A block that is written anywhere. *)
LEMMA BlockWritten ==
    ASSUME NEW blocks \in Seq(Block), NEW i \in Nat \ {0}, NEW block \in Block
    PROVE  WithBlock(blocks, i, block) \in Seq(Block)
<1> DEFINE n == IF i > Len(blocks) THEN i ELSE Len(blocks)
           after(k) == IF k = i THEN block
                       ELSE IF k <= Len(blocks) THEN blocks[k] ELSE <<NoFile, k>>
<1>1. n \in Nat
  OBVIOUS
<1>2. \A k \in 1 .. n : after(k) \in Block
  BY <1>1 DEF Block
<1>3. WithBlock(blocks, i, block) = [k \in 1 .. n |-> after(k)]
  BY DEF WithBlock
<1> HIDE DEF n, after
<1>4. QED
  BY <1>1, <1>2, <1>3

(* The next block of a capture. *)
LEMMA NextBlockWritten ==
    ASSUME NEW c \in Captures, NEW k \in Nat, NEW blocks, Holds(blocks, c, k)
    PROVE  Holds(WithBlock(blocks, k + 1, <<c, k + 1>>), c, k + 1)
<1> DEFINE after == WithBlock(blocks, k + 1, <<c, k + 1>>)
<1>1. blocks \in Seq(Block) /\ Len(blocks) = k
      /\ \A i \in 1 .. k : blocks[i] = <<c, i>>
  BY DEF Holds
<1>2. <<c, k + 1>> \in Block
  BY DEF Block
<1>3. after \in Seq(Block)
  BY <1>1, <1>2, BlockWritten
<1>4. after = [i \in 1 .. k + 1 |->
                  IF i = k + 1 THEN <<c, k + 1>>
                  ELSE IF i <= k THEN blocks[i] ELSE <<NoFile, i>>]
  BY <1>1 DEF WithBlock
<1>5. Len(after) = k + 1 /\ \A i \in 1 .. k + 1 : after[i] = <<c, i>>
  <2>1. Len(after) = k + 1
    <3> DEFINE place(i) == IF i = k + 1 THEN <<c, k + 1>>
                           ELSE IF i <= k THEN blocks[i] ELSE <<NoFile, i>>
    <3>1. after = [i \in 1 .. k + 1 |-> place(i)]
      BY <1>4
    <3> HIDE DEF after, place
    <3>2. QED
      BY <3>1
  <2>2. ASSUME NEW i \in 1 .. k + 1
        PROVE  after[i] = <<c, i>>
    <3> HIDE DEF after
    <3>1. CASE i = k + 1
      BY <1>4, <3>1
    <3>2. CASE i # k + 1
      <4>1. i \in 1 .. k
        BY <3>2
      <4>2. after[i] = blocks[i]
        BY <1>4, <4>1
      <4>3. QED
        BY <1>1, <4>1, <4>2
    <3>3. QED
      BY <3>1, <3>2
  <2>3. QED
    BY <2>1, <2>2
<1>6. QED
  BY <1>3, <1>5 DEF Holds

(* Who is idle is neither saving nor reading. *)
LEMMA IdleIs ==
    /\ Idle.pc = "idle"
    /\ \A s \in Saving : s.pc \in {"create", "write"}
    /\ \A q \in Reading : q.pc = "read"
    /\ Idle \notin Saving /\ Idle \notin Reading
BY DEF Idle, Saving, Reading

(* What is neither idle nor at another place is a record of its kind. *)
LEMMA WhoIsBusy ==
    ASSUME Types
    PROVE  /\ \A u \in Savers : saver[u].pc # "idle" => saver[u] \in Saving
           /\ \A r \in Readers : reader[r].pc # "idle" => reader[r] \in Reading
BY IdleIs DEF Types

-----------------------------------------------------------------------------
(***************************************************************************)
(* What a step leaves alone                                                *)
(***************************************************************************)

(* A save that goes on, when others begin or end. *)
LEMMA SaverStays ==
    ASSUME NEW v \in Savers, SaverOK(v), saver'[v] = saver[v],
           \A w \in Savers : saver'[w].pc = "write" => saver'[w] = saver[w],
           saver[v].pc = "write" => /\ uploads'[saver[v].file] = uploads[saver[v].file]
                                    /\ saver[v].file \in soiled'
    PROVE  SaverOK(v)'
BY DEF SaverOK, Exists

(* Who is idle relies on nothing. *)
LEMMA IdleSaver ==
    ASSUME NEW v, saver'[v] = Idle
    PROVE  SaverOK(v)'
BY IdleIs DEF SaverOK

(* An ingest that goes on, when its file does not change. *)
LEMMA ReaderStays ==
    ASSUME NEW r \in Readers, ReaderOK(r), reader'[r] = reader[r],
           reader[r].pc = "read" =>
              /\ uploads'[reader[r].file] = uploads[reader[r].file]
              /\ reader[r].file \in soiled' => reader[r].file \in soiled
    PROVE  ReaderOK(r)'
BY DEF ReaderOK, Exists

(* The same of an ingest. *)
LEMMA IdleReader ==
    ASSUME NEW r, reader'[r] = Idle
    PROVE  ReaderOK(r)'
BY IdleIs DEF ReaderOK

(* Files that stay as they are. *)
LEMMA FilesStay ==
    ASSUME CleanFiles, uploads' = uploads, soiled \subseteq soiled'
    PROVE  CleanFiles'
BY DEF CleanFiles, Exists

-----------------------------------------------------------------------------
(***************************************************************************)
(* The steps                                                               *)
(***************************************************************************)

(* The initial states satisfy the invariant. *)
LEMMA InitEstablishes == Init => IInv
<1> SUFFICES ASSUME Init
             PROVE  IInv
  OBVIOUS
<1>1. Types
  BY DEF Init, Types, Files
<1>2. \A u \in Savers : SaverOK(u)
  BY IdleIs DEF Init, SaverOK
<1>3. CleanFiles
  BY DEF Init, CleanFiles, Exists
<1>4. \A r \in Readers : ReaderOK(r)
  BY IdleIs DEF Init, ReaderOK
<1>5. QED
  BY <1>1, <1>2, <1>3, <1>4 DEF IInv

(* Steps that leave the ingests alone, and the files. *)
LEMMA ReadersStay ==
    ASSUME IInv, reader' = reader, uploads' = uploads, soiled' \subseteq soiled
    PROVE  \A r \in Readers : ReaderOK(r)'
BY ReaderStays DEF IInv

(* Steps that leave the saves alone, and the files. *)
LEMMA SaversStay ==
    ASSUME IInv, saver' = saver, uploads' = uploads, soiled' = soiled
    PROVE  \A u \in Savers : SaverOK(u)'
BY SaverStays DEF IInv, SaverOK

(* An upload arrives. *)
LEMMA UploadKeeps ==
    ASSUME IInv, NEW u \in Savers, NEW n \in Names, NEW c \in Captures, Upload(u, n, c)
    PROVE  IInv'
<1> DEFINE new == [pc |-> "create", file |-> n, capture |-> c, written |-> 0,
                   crossed |-> FALSE]
<1>1. Types /\ CleanFiles /\ \A v \in Savers : SaverOK(v)
  BY DEF IInv
<1>2. /\ saver' = [saver EXCEPT ![u] = new]
      /\ UNCHANGED <<uploads, reader, soiled>>
  BY DEF Upload
<1>3. new \in Saving
  BY DEF Saving
<1>4. Types'
  BY <1>1, <1>2, <1>3 DEF Types
<1>5. /\ saver'[u] = new
      /\ \A w \in Savers : w # u => saver'[w] = saver[w]
      /\ \A w \in Savers : saver'[w].pc = "write" => saver'[w] = saver[w]
  BY <1>1, <1>2 DEF Types
<1>6. ASSUME NEW v \in Savers
      PROVE  SaverOK(v)'
  <2>1. CASE v = u
    BY <1>5, <2>1, ContentIs DEF SaverOK
  <2>2. CASE v # u
    <3>1. saver[v].pc = "write" => saver[v].file \in soiled'
      BY <1>1, <1>2 DEF SaverOK
    <3>2. QED
      BY <1>1, <1>2, <1>5, <2>2, <3>1, SaverStays
  <2>3. QED
    BY <2>1, <2>2
<1>7. QED
  BY <1>1, <1>2, <1>4, <1>6, FilesStay, ReadersStay DEF IInv

(* A save truncates its file. *)
LEMMA CreateKeeps ==
    ASSUME IInv, NEW u \in Savers, Create(u)
    PROVE  IInv'
<1> DEFINE n == saver[u].file
           s == saver[u]
<1>1. /\ Types /\ CleanFiles /\ \A v \in Savers : SaverOK(v)
      /\ \A r \in Readers : ReaderOK(r)
  BY DEF IInv
<1>2. /\ s.pc = "create" /\ s \in Saving /\ n \in Names /\ s.capture \in Captures
      /\ s.written = 0
  <2>1. s.pc = "create" /\ s \in Saving
    BY <1>1, WhoIsBusy DEF Create
  <2>2. QED
    BY <1>1, <2>1 DEF Saving, SaverOK
<1>3. /\ uploads' = [uploads EXCEPT ![n] = <<>>]
      /\ saver' = Join(u) /\ reader' = Disturb(n) /\ soiled' = soiled \cup {n}
  BY DEF Create
<1>4. /\ <<>> \in Seq(Block) /\ <<>> # NoFile
      /\ uploads'[n] = <<>> /\ \A m \in Names : m # n => uploads'[m] = uploads[m]
      /\ uploads' \in Files
  <2>1. <<>> \in Seq(Block) /\ <<>> # NoFile
    BY EmptySeq
  <2>2. uploads \in Files /\ n \in Names
    BY <1>1, <1>2 DEF Types
  <2> HIDE DEF n
  <2>3. QED
    BY <1>3, <2>1, <2>2 DEF Files
<1>5. /\ saver'[u] = [s EXCEPT !.pc = "write", !.crossed = WritersOf(n) # {}]
      /\ \A v \in Savers : v # u /\ v \in WritersOf(n) =>
            saver'[v] = [saver[v] EXCEPT !.crossed = TRUE]
      /\ \A v \in Savers : v # u /\ v \notin WritersOf(n) => saver'[v] = saver[v]
      /\ DOMAIN saver' = Savers
  BY <1>3 DEF Join
<1>6. \A v \in WritersOf(n) : v \in Savers /\ saver[v].pc = "write"
                              /\ saver[v].file = n /\ saver[v] \in Saving
  BY <1>1, WhoIsBusy DEF WritersOf
<1>7. /\ saver'[u].pc = "write" /\ saver'[u].file = n
      /\ saver'[u].capture = s.capture /\ saver'[u].written = 0
      /\ saver'[u].crossed = (WritersOf(n) # {})
      /\ saver'[u] \in Saving
  BY <1>2, <1>5 DEF Saving
<1>8. ASSUME NEW v \in Savers, v # u
      PROVE  /\ saver'[v].pc = saver[v].pc /\ saver'[v].file = saver[v].file
             /\ saver'[v] \in {Idle} \cup Saving
  <2>1. CASE v \in WritersOf(n)
    <3>1. saver'[v] = [saver[v] EXCEPT !.crossed = TRUE] /\ saver[v] \in Saving
      BY <1>5, <1>6, <1>8, <2>1
    <3>2. saver'[v].pc = saver[v].pc /\ saver'[v].file = saver[v].file
      BY <3>1 DEF Saving
    <3>3. saver'[v] \in Saving
      BY <3>1 DEF Saving
    <3>4. QED
      BY <3>2, <3>3
  <2>2. CASE v \notin WritersOf(n)
    BY <1>1, <1>5, <1>8, <2>2 DEF Types
  <2>3. QED
    BY <2>1, <2>2
<1>9. ASSUME NEW r \in Readers
      PROVE  \/ /\ reader[r].pc = "read" /\ reader[r].file = n
                /\ reader[r] \in Reading
                /\ reader'[r] = [reader[r] EXCEPT !.disturbed = TRUE]
                /\ reader'[r] \in Reading
             \/ /\ ~(reader[r].pc = "read" /\ reader[r].file = n)
                /\ reader'[r] = reader[r]
                /\ reader'[r] \in {Idle} \cup Reading
  <2>1. CASE reader[r].pc = "read" /\ reader[r].file = n
    <3>1. reader[r] \in Reading
      BY <1>1, <2>1, WhoIsBusy
    <3>2. reader'[r] = [reader[r] EXCEPT !.disturbed = TRUE]
      BY <1>3, <2>1 DEF Disturb
    <3>3. QED
      BY <2>1, <3>1, <3>2 DEF Reading
  <2>2. CASE ~(reader[r].pc = "read" /\ reader[r].file = n)
    BY <1>1, <1>3, <2>2 DEF Disturb, Types
  <2>3. QED
    BY <2>1, <2>2
<1>10. Types'
  <2>1. saver' \in [Savers -> {Idle} \cup Saving]
    BY <1>3, <1>7, <1>8 DEF Join
  <2>2. reader' \in [Readers -> {Idle} \cup Reading]
    BY <1>3, <1>9 DEF Disturb
  <2>3. QED
    BY <1>1, <1>2, <1>3, <1>4, <2>1, <2>2 DEF Types
<1>11. ASSUME NEW v \in Savers
       PROVE  SaverOK(v)'
  <2>1. CASE v = u
    <3>1. ASSUME WritersOf(n) = {}, NEW w \in Savers, saver'[w].pc = "write",
                 saver'[w].file = n
          PROVE  w = u
      BY <1>8, <3>1 DEF WritersOf
    <3>2. Holds(uploads'[n], s.capture, 0)
      BY <1>4 DEF Holds
    <3>3. 0 <= Size[s.capture]
      BY <1>2, ContentIs
    <3>4. ~saver'[u].crossed => WritersOf(n) = {}
      BY <1>7
    <3>5. uploads'[n] # NoFile /\ n \in soiled'
      BY <1>3, <1>4
    <3> HIDE DEF n, s
    <3>6. SaverOK(u)'
      BY <1>7, <3>1, <3>2, <3>3, <3>4, <3>5 DEF SaverOK, Exists
    <3>7. QED
      BY <2>1, <3>6
  <2>2. CASE v # u /\ v \in WritersOf(n)
    <3>1. /\ saver'[v].pc = "write" /\ saver'[v].file = n /\ saver'[v].crossed = TRUE
          /\ saver'[v].written = saver[v].written
          /\ saver'[v].capture = saver[v].capture
          /\ saver[v] \in Saving
      BY <1>5, <1>6, <2>2 DEF Saving
    <3>2. saver[v].written <= Size[saver[v].capture]
      BY <1>1, <3>1 DEF SaverOK
    <3>3. QED
      BY <1>3, <1>4, <3>1, <3>2 DEF SaverOK, Exists
  <2>3. CASE v # u /\ v \notin WritersOf(n)
    <3>1. saver'[v] = saver[v]
      BY <1>5, <2>3
    <3>2. CASE saver[v].pc = "write"
      <4>1. saver[v] \in Saving /\ saver[v].file \in Names /\ saver[v].file # n
        BY <1>1, <2>3, <3>2, WhoIsBusy DEF WritersOf, Saving
      <4>2. uploads'[saver[v].file] = uploads[saver[v].file]
            /\ (saver[v].file \in soiled => saver[v].file \in soiled')
        BY <1>3, <1>4, <4>1
      <4>3. \A w \in Savers :
               saver'[w].pc = "write" /\ saver'[w].file = saver[v].file
                  => saver[w].pc = "write" /\ saver[w].file = saver[v].file
        BY <1>7, <1>8, <4>1
      <4>4. QED
        BY <1>1, <3>1, <3>2, <4>1, <4>2, <4>3 DEF SaverOK, Exists
    <3>3. CASE saver[v].pc # "write"
      BY <1>1, <3>1, <3>3 DEF SaverOK
    <3>4. QED
      BY <3>2, <3>3
  <2>4. QED
    BY <2>1, <2>2, <2>3
<1>12. CleanFiles'
  BY <1>1, <1>3, <1>4 DEF CleanFiles, Exists
<1>13. ASSUME NEW r \in Readers
       PROVE  ReaderOK(r)'
  <2>1. CASE reader[r].pc = "read" /\ reader[r].file = n
    <3>1. /\ reader[r] \in Reading /\ reader'[r].pc = "read" /\ reader'[r].file = n
          /\ reader'[r].path = reader[r].path /\ reader'[r].data = reader[r].data
          /\ reader'[r].disturbed = TRUE
      BY <1>9, <2>1 DEF Reading
    <3>2. QED
      BY <1>1, <1>4, <2>1, <3>1 DEF ReaderOK, Exists
  <2>2. CASE reader[r].pc = "read" /\ reader[r].file # n
    <3>1. reader'[r] = reader[r] /\ reader[r].file \in Names
      BY <1>1, <1>9, <2>2, WhoIsBusy DEF Reading
    <3>2. QED
      BY <1>1, <1>3, <1>4, <2>2, <3>1, ReaderStays
  <2>3. CASE reader[r].pc # "read"
    BY <1>1, <1>9, <2>3, ReaderStays
  <2>4. QED
    BY <2>1, <2>2, <2>3
<1>14. QED
  BY <1>10, <1>11, <1>12, <1>13 DEF IInv

(* A save writes its next block. *)
LEMMA WriteKeeps ==
    ASSUME IInv, NEW u \in Savers, Write(u)
    PROVE  IInv'
<1> DEFINE s == saver[u]
           n == s.file
           i == s.written + 1
           after == WithBlock(uploads[n], i, <<s.capture, i>>)
<1>1. /\ Types /\ CleanFiles /\ \A v \in Savers : SaverOK(v)
      /\ \A r \in Readers : ReaderOK(r)
  BY DEF IInv
<1>2. /\ s.pc = "write" /\ s \in Saving /\ n \in Names /\ s.capture \in Captures
      /\ s.written \in Nat /\ i \in Nat \ {0} /\ i <= Size[s.capture]
  <2>1. s.pc = "write" /\ s \in Saving /\ i <= Size[s.capture]
    BY <1>1, WhoIsBusy DEF Write
  <2>2. QED
    BY <2>1 DEF Saving
<1>3. /\ uploads' = [uploads EXCEPT ![n] = after]
      /\ saver' = [saver EXCEPT ![u].written = i]
      /\ UNCHANGED <<reader, soiled>>
  BY <1>1, <1>2 DEF Write, Types, Files
<1>4. /\ Exists(n) /\ n \in soiled /\ uploads[n] \in Seq(Block)
      /\ ~s.crossed =>
            /\ \A v \in Savers : saver[v].pc = "write" /\ saver[v].file = n => v = u
            /\ Holds(uploads[n], s.capture, s.written)
  <2>1. uploads[n] \in Seq(Block) \cup {NoFile}
    BY <1>1, <1>2 DEF Types, Files
  <2>2. QED
    BY <1>1, <1>2, <2>1 DEF SaverOK, Exists
<1>5. after \in Seq(Block) /\ after # NoFile
  <2>1. <<s.capture, i>> \in Block
    BY <1>2 DEF Block
  <2>2. \A blocks \in Seq(Block), j \in Nat \ {0}, block \in Block :
           WithBlock(blocks, j, block) \in Seq(Block)
    BY BlockWritten
  <2> HIDE DEF i, n
  <2>3. after \in Seq(Block)
    BY <1>2, <1>4, <2>1, <2>2
  <2>4. QED
    BY <2>3
<1>6. ~s.crossed => Holds(after, s.capture, i)
  BY <1>2, <1>4, NextBlockWritten
<1> HIDE DEF after
<1>7. /\ uploads'[n] = after /\ \A m \in Names : m # n => uploads'[m] = uploads[m]
      /\ uploads' \in Files
  BY <1>1, <1>2, <1>3, <1>5 DEF Types, Files
<1>8. /\ saver'[u] = [s EXCEPT !.written = i]
      /\ \A v \in Savers : v # u => saver'[v] = saver[v]
  BY <1>1, <1>3 DEF Types
<1>9. /\ saver'[u].pc = "write" /\ saver'[u].file = n
      /\ saver'[u].capture = s.capture /\ saver'[u].written = i
      /\ saver'[u].crossed = s.crossed /\ saver'[u] \in Saving
  BY <1>2, <1>8 DEF Saving
<1>10. Types'
  <2>1. saver' \in [Savers -> {Idle} \cup Saving]
    BY <1>1, <1>3, <1>8, <1>9 DEF Types
  <2>2. QED
    BY <1>1, <1>3, <1>7, <2>1 DEF Types
<1>11. ASSUME NEW v \in Savers, saver'[v].pc = "write"
       PROVE  saver[v].pc = "write" /\ saver'[v].file = saver[v].file
  BY <1>2, <1>8, <1>9, <1>11
<1>12. ASSUME NEW v \in Savers
       PROVE  SaverOK(v)'
  <2>1. CASE v = u
    <3>1. ~saver'[u].crossed =>
             \A w \in Savers : saver'[w].pc = "write" /\ saver'[w].file = n => w = u
      BY <1>4, <1>9, <1>11
    <3>2. ~saver'[u].crossed => Holds(uploads'[n], s.capture, i)
      BY <1>6, <1>7, <1>9
    <3>3. uploads'[n] # NoFile /\ n \in soiled'
      BY <1>3, <1>4, <1>5, <1>7
    <3> HIDE DEF n, s, i
    <3>4. SaverOK(u)'
      BY <1>2, <1>9, <3>1, <3>2, <3>3 DEF SaverOK, Exists
    <3>5. QED
      BY <2>1, <3>4
  <2>2. CASE v # u /\ saver[v].pc = "write"
    <3>1. saver'[v] = saver[v] /\ saver[v] \in Saving /\ saver[v].file \in Names
      BY <1>1, <1>8, <2>2, WhoIsBusy DEF Saving
    <3>2. /\ saver[v].written <= Size[saver[v].capture]
          /\ uploads[saver[v].file] # NoFile /\ saver[v].file \in soiled
          /\ ~saver[v].crossed =>
                /\ \A w \in Savers : saver[w].pc = "write" /\ saver[w].file = saver[v].file
                                        => w = v
                /\ Holds(uploads[saver[v].file], saver[v].capture, saver[v].written)
      BY <1>1, <2>2, <3>1 DEF SaverOK, Exists
    <3>3. CASE saver[v].file = n
      <4>1. saver[v].crossed
        BY <1>2, <2>2, <3>2, <3>3
      <4>2. uploads'[saver[v].file] # NoFile
        BY <1>5, <1>7, <3>3
      <4>3. QED
        BY <1>3, <2>2, <3>1, <3>2, <4>1, <4>2 DEF SaverOK, Exists
    <3>4. CASE saver[v].file # n
      <4>1. uploads'[saver[v].file] = uploads[saver[v].file]
        BY <1>7, <3>1, <3>4
      <4>2. QED
        BY <1>3, <1>11, <2>2, <3>1, <3>2, <4>1 DEF SaverOK, Exists
    <3>5. QED
      BY <3>3, <3>4
  <2>3. CASE v # u /\ saver[v].pc # "write"
    BY <1>1, <1>8, <2>3 DEF SaverOK
  <2>4. QED
    BY <2>1, <2>2, <2>3
<1>13. CleanFiles'
  BY <1>1, <1>3, <1>4, <1>7 DEF CleanFiles, Exists
<1>14. ASSUME NEW r \in Readers
       PROVE  ReaderOK(r)'
  <2>1. CASE reader[r].pc = "read" /\ reader[r].file = n
    BY <1>1, <1>3, <1>4, <1>5, <1>7, <2>1 DEF ReaderOK, Exists
  <2>2. CASE reader[r].pc = "read" /\ reader[r].file # n
    <3>1. reader'[r] = reader[r] /\ reader[r].file \in Names
      BY <1>1, <1>3, <2>2, WhoIsBusy DEF Reading
    <3>2. QED
      BY <1>1, <1>3, <1>7, <2>2, <3>1, ReaderStays
  <2>3. CASE reader[r].pc # "read"
    BY <1>1, <1>3, <2>3, ReaderStays
  <2>4. QED
    BY <2>1, <2>2, <2>3
<1>15. QED
  BY <1>10, <1>12, <1>13, <1>14 DEF IInv

(* A save ends, well or not. *)
LEMMA SaveEnds ==
    ASSUME IInv, NEW u \in Savers, saver' = [saver EXCEPT ![u] = Idle],
           UNCHANGED <<uploads, reader>>, soiled' \subseteq soiled, CleanFiles',
           \A v \in Savers : v # u /\ saver[v].pc = "write" => saver[v].file \in soiled'
    PROVE  IInv'
<1>1. Types /\ \A v \in Savers : SaverOK(v)
  BY DEF IInv
<1>2. Types'
  BY <1>1 DEF Types
<1>3. /\ saver'[u] = Idle /\ \A w \in Savers : w # u => saver'[w] = saver[w]
      /\ \A w \in Savers : saver'[w].pc = "write" => saver'[w] = saver[w]
  BY <1>1, IdleIs DEF Types
<1>4. ASSUME NEW v \in Savers
      PROVE  SaverOK(v)'
  <2>1. CASE v = u
    BY <1>3, <2>1, IdleSaver
  <2>2. CASE v # u
    BY <1>1, <1>3, <2>2, SaverStays
  <2>3. QED
    BY <2>1, <2>2
<1>5. QED
  BY <1>2, <1>4, ReadersStay DEF IInv

(* A save has ended well. *)
LEMMA SavedKeeps ==
    ASSUME IInv, NEW u \in Savers, Saved(u)
    PROVE  IInv'
<1> DEFINE s == saver[u]
<1>1. /\ Types /\ CleanFiles /\ \A v \in Savers : SaverOK(v)
  BY DEF IInv
<1>2. /\ s.pc = "write" /\ s.written = Size[s.capture]
      /\ saver' = [saver EXCEPT ![u] = Idle] /\ UNCHANGED <<uploads, reader>>
      /\ soiled' = IF s.crossed THEN soiled ELSE soiled \ {s.file}
  BY DEF Saved, IsSaved
<1>3. s \in Saving /\ s.capture \in Captures
  BY <1>1, <1>2, WhoIsBusy DEF Saving
<1>4. ~s.crossed => uploads[s.file] = Content(s.capture)
  BY <1>1, <1>2, <1>3, HoldsAll DEF SaverOK
<1>5. CleanFiles'
  BY <1>1, <1>2, <1>3, <1>4 DEF CleanFiles, Exists
<1>6. ASSUME NEW v \in Savers, v # u, saver[v].pc = "write"
      PROVE  saver[v].file \in soiled'
  BY <1>1, <1>2, <1>6 DEF SaverOK
<1>7. QED
  BY <1>2, <1>5, <1>6, SaveEnds

(* A save fails. *)
LEMMA SaveFailsKeeps ==
    ASSUME IInv, NEW u \in Savers, SaveFails(u)
    PROVE  IInv'
<1>1. /\ saver' = [saver EXCEPT ![u] = Idle] /\ UNCHANGED <<uploads, reader, soiled>>
      /\ CleanFiles /\ \A v \in Savers : SaverOK(v)
  BY DEF SaveFails, IInv
<1>2. CleanFiles'
  BY <1>1, FilesStay
<1>3. \A v \in Savers : v # u /\ saver[v].pc = "write" => saver[v].file \in soiled'
  BY <1>1 DEF SaverOK
<1>4. QED
  BY <1>1, <1>2, <1>3, SaveEnds

(* A step of one ingest. *)
LEMMA ReaderMoves ==
    ASSUME IInv, NEW r \in Readers, NEW new \in {Idle} \cup Reading,
           reader' = [reader EXCEPT ![r] = new], UNCHANGED <<uploads, saver, soiled>>,
           ReaderOK(r)'
    PROVE  IInv'
<1>1. Types /\ CleanFiles /\ \A q \in Readers : ReaderOK(q)
  BY DEF IInv
<1>2. Types'
  BY <1>1 DEF Types
<1>3. \A q \in Readers : q # r => reader'[q] = reader[q]
  BY <1>1 DEF Types
<1>4. \A q \in Readers : ReaderOK(q)'
  BY <1>1, <1>3, ReaderStays
<1>5. QED
  BY <1>1, <1>2, <1>4, FilesStay, SaversStay DEF IInv

(* An ingest opens its file. *)
LEMMA IngestKeeps ==
    ASSUME IInv, NEW r \in Readers, NEW n \in Names, Ingest(r, n)
    PROVE  IInv'
<1> DEFINE new == [pc |-> "read", file |-> n, path |-> Resolve(n), data |-> <<>>,
                   disturbed |-> n \in soiled]
<1>1. /\ reader' = [reader EXCEPT ![r] = new] /\ UNCHANGED <<uploads, saver, soiled>>
      /\ Resolve(n) # "nowhere" /\ Types
  BY DEF Ingest, IInv
<1>2. /\ Resolve(n) \in {"samples", "uploads"}
      /\ Resolve(n) = "samples" <=> n \in Samples
      /\ Resolve(n) = "uploads" => Exists(n)
  BY <1>1 DEF Resolve
<1>3. <<>> \in Seq(Block) /\ Len(<<>>) = 0
  BY EmptySeq
<1>4. (n \in soiled) \in BOOLEAN
  OBVIOUS
<1>5. new \in Reading
  BY <1>2, <1>3, <1>4 DEF Reading
<1>6. reader'[r] = new
  BY <1>1 DEF Types
<1>7. ReaderOK(r)'
  <2>1. \A blocks : Begins(<<>>, blocks)
    BY <1>3 DEF Begins
  <2>2. /\ reader'[r].file = n /\ reader'[r].path = Resolve(n)
        /\ reader'[r].data = <<>> /\ reader'[r].disturbed = (n \in soiled)
    BY <1>6
  <2>3. QED
    BY <1>1, <1>2, <2>1, <2>2 DEF ReaderOK, Exists
<1>8. QED
  BY <1>1, <1>5, <1>7, ReaderMoves

(* An ingest reads its next block. *)
LEMMA ReadKeeps ==
    ASSUME IInv, NEW r \in Readers, Read(r)
    PROVE  IInv'
<1> DEFINE q == reader[r]
           blocks == FileOf(r)
           data == Append(q.data, blocks[Len(q.data) + 1])
           new == [q EXCEPT !.data = data]
<1>1. /\ Types /\ ReaderOK(r) /\ q.pc = "read" /\ q \in Reading
      /\ UNCHANGED <<uploads, saver, soiled>> /\ Len(q.data) < Len(blocks)
  BY WhoIsBusy DEF IInv, Read
<1>2. /\ q.file \in Names /\ q.data \in Seq(Block) /\ q.path \in {"samples", "uploads"}
  BY <1>1 DEF Reading
<1>3. blocks \in Seq(Block)
  <2>1. CASE q.path = "samples"
    <3>1. SampleOf[q.file] \in Captures
      BY <1>1, <2>1 DEF ReaderOK
    <3>2. QED
      BY <2>1, <3>1, ContentIs DEF FileOf
  <2>2. CASE q.path = "uploads"
    <3>1. uploads[q.file] \in Seq(Block) \cup {NoFile} /\ uploads[q.file] # NoFile
      BY <1>1, <1>2, <2>2 DEF Types, Files, ReaderOK, Exists
    <3>2. QED
      BY <2>2, <3>1 DEF FileOf
  <2>3. QED
    BY <1>2, <2>1, <2>2
<1>4. reader' = [reader EXCEPT ![r] = new] /\ reader'[r] = new
  BY <1>1 DEF Read, Types
<1> HIDE DEF blocks
<1>5. /\ data \in Seq(Block) /\ Len(data) = Len(q.data) + 1
      /\ data[Len(q.data) + 1] = blocks[Len(q.data) + 1]
      /\ \A i \in 1 .. Len(q.data) : data[i] = q.data[i]
  <2>1. Len(q.data) + 1 \in 1 .. Len(blocks)
    BY <1>1, <1>2, <1>3
  <2>2. blocks[Len(q.data) + 1] \in Block
    BY <1>3, <2>1
  <2> HIDE DEF q
  <2>3. QED
    BY <1>2, <2>2
<1>6. Begins(q.data, blocks) => Begins(data, blocks)
  <2>1. Len(q.data) \in Nat /\ Len(blocks) \in Nat
    BY <1>2, <1>3
  <2> HIDE DEF data, q
  <2>2. QED
    BY <1>1, <1>5, <2>1 DEF Begins
<1> HIDE DEF data
<1>7. /\ new.pc = q.pc /\ new.file = q.file /\ new.path = q.path
      /\ new.data = data /\ new.disturbed = q.disturbed /\ new \in Reading
  BY <1>1, <1>5 DEF Reading
<1> HIDE DEF new
<1>8. ReaderOK(r)'
  <2>1. /\ q.path = "samples" => blocks = Content(SampleOf[q.file])
        /\ q.path = "uploads" => blocks = uploads[q.file]
    BY DEF blocks, FileOf
  <2>2. QED
    BY <1>1, <1>4, <1>6, <1>7, <2>1 DEF ReaderOK, Exists
<1>9. QED
  BY <1>1, <1>4, <1>7, <1>8, ReaderMoves

(* An ingest has its file, or is given up. *)
LEMMA ReaderEnds ==
    ASSUME IInv, NEW r \in Readers, Parse(r) \/ Leave(r)
    PROVE  IInv'
<1>1. reader' = [reader EXCEPT ![r] = Idle] /\ UNCHANGED <<uploads, saver, soiled>>
  BY DEF Parse, Leave
<1>2. reader'[r] = Idle
  BY <1>1 DEF IInv, Types
<1>3. QED
  BY <1>1, <1>2, IdleReader, ReaderMoves

(* The process starts again. *)
LEMMA RestartKeeps == ASSUME IInv, Restart PROVE IInv'
<1>1. /\ saver' = [u \in Savers |-> Idle] /\ reader' = [r \in Readers |-> Idle]
      /\ UNCHANGED <<uploads, soiled>> /\ Types /\ CleanFiles
  BY DEF Restart, IInv
<1>2. Types'
  BY <1>1 DEF Types
<1>3. CleanFiles'
  BY <1>1, FilesStay
<1>4. (\A u \in Savers : SaverOK(u)') /\ (\A r \in Readers : ReaderOK(r)')
  BY <1>1, IdleSaver, IdleReader
<1>5. QED
  BY <1>2, <1>3, <1>4 DEF IInv

(* Every step keeps the invariant. *)
LEMMA StepPreserves == IInv /\ [Next]_vars => IInv'
<1> SUFFICES ASSUME IInv, [Next]_vars
             PROVE  IInv'
  OBVIOUS
<1>1. CASE UNCHANGED vars
  <2>1. Types' /\ CleanFiles'
    BY <1>1, FilesStay DEF IInv, Types, vars
  <2>2. QED
    BY <1>1, <2>1, ReadersStay, SaversStay DEF IInv, vars
<1>2. CASE \E u \in Savers : SaverStep(u) \/ SaveFails(u)
  BY <1>2, CreateKeeps, WriteKeeps, SavedKeeps, SaveFailsKeeps DEF SaverStep
<1>3. CASE \E u \in Savers, n \in Names, c \in Captures : Upload(u, n, c)
  BY <1>3, UploadKeeps
<1>4. CASE \E r \in Readers : ReaderStep(r) \/ Leave(r)
  BY <1>4, ReadKeeps, ReaderEnds DEF ReaderStep
<1>5. CASE \E r \in Readers, n \in Names : Ingest(r, n)
  BY <1>5, IngestKeeps
<1>6. CASE Restart
  BY <1>6, RestartKeeps
<1>7. QED
  BY <1>1, <1>2, <1>3, <1>4, <1>5, <1>6 DEF Next

(***************************************************************************)
(* Every reachable state satisfies the invariant.                          *)
(***************************************************************************)
THEOREM InvariantHolds == Spec => []IInv
<1>1. QED
  BY InitEstablishes, StepPreserves, PTL DEF Spec

-----------------------------------------------------------------------------
(***************************************************************************)
(* The properties                                                          *)
(***************************************************************************)

(***************************************************************************)
(* Types: no save gets beyond its capture, and what is being written is    *)
(* known as soiled.                                                        *)
(***************************************************************************)
THEOREM TypeCorrect == Spec => []TypeOK
<1>1. IInv => TypeOK
  <2> SUFFICES ASSUME IInv
               PROVE  TypeOK
    OBVIOUS
  <2>1. Types /\ \A u \in Savers : SaverOK(u)
    BY DEF IInv
  <2>2. ASSUME NEW u \in Savers, saver[u] # Idle
        PROVE  /\ saver[u] \in Saving
               /\ saver[u].written <= Size[saver[u].capture]
               /\ saver[u].pc = "write" =>
                     Exists(saver[u].file) /\ saver[u].file \in soiled
    BY <2>1, <2>2 DEF Types, SaverOK
  <2>3. QED
    BY <2>1, <2>2 DEF TypeOK, Types, Files, Saving, Reading
<1>2. QED
  BY <1>1, InvariantHolds, PTL

(* What has been read to its end is the whole file. *)
LEMMA ReadToTheEnd ==
    ASSUME NEW data \in Seq(Block), NEW blocks \in Seq(Block), Begins(data, blocks),
           Len(data) >= Len(blocks)
    PROVE  data = blocks
<1>1. Len(data) = Len(blocks)
  BY DEF Begins
<1>2. QED
  BY <1>1, SeqEqual DEF Begins

(***************************************************************************)
(* An ingest of a file that nobody writes gets the whole of one capture.   *)
(***************************************************************************)
THEOREM IngestsWholeCaptures == Spec => []UploadIsIngested
<1>1. IInv => UploadIsIngested
  <2> SUFFICES ASSUME IInv, NEW r \in Readers, IsRead(r)
               PROVE  LET n == reader[r].file IN
                      IF n \in Samples THEN reader[r].data = Content(SampleOf[n])
                      ELSE ~reader[r].disturbed =>
                              \E c \in Captures : reader[r].data = Content(c)
    BY DEF UploadIsIngested
  <2> DEFINE q == reader[r]
  <2>1. /\ Types /\ CleanFiles /\ ReaderOK(r) /\ q.pc = "read" /\ q \in Reading
        /\ Len(q.data) >= Len(FileOf(r))
    BY WhoIsBusy DEF IInv, IsRead
  <2>2. q.file \in Names /\ q.data \in Seq(Block) /\ q.path \in {"samples", "uploads"}
    BY <2>1 DEF Reading
  <2>3. CASE q.file \in Samples
    <3>1. SampleOf[q.file] \in Captures /\ FileOf(r) = Content(SampleOf[q.file])
          /\ Begins(q.data, Content(SampleOf[q.file]))
      BY <2>1, <2>3 DEF ReaderOK, FileOf
    <3>2. QED
      BY <2>1, <2>2, <2>3, <3>1, ContentIs, ReadToTheEnd
  <2>4. CASE q.file \notin Samples /\ ~q.disturbed
    <3>1. /\ FileOf(r) = uploads[q.file] /\ Exists(q.file) /\ q.file \notin soiled
          /\ Begins(q.data, uploads[q.file])
      BY <2>1, <2>2, <2>4 DEF ReaderOK, FileOf
    <3>2. PICK c \in Captures : uploads[q.file] = Content(c)
      BY <2>1, <2>2, <3>1 DEF CleanFiles
    <3>3. q.data = Content(c)
      BY <2>1, <2>2, <3>1, <3>2, ContentIs, ReadToTheEnd
    <3>4. QED
      BY <2>4, <3>3
  <2>5. QED
    BY <2>3, <2>4
<1>2. QED
  BY <1>1, InvariantHolds, PTL

(***************************************************************************)
(* An upload that met no other one of its name leaves its capture, and     *)
(* what is not soiled is a capture.                                        *)
(***************************************************************************)
THEOREM UploadsReplace == Spec => []UploadReplacesFile
<1>1. IInv => UploadReplacesFile
  <2> SUFFICES ASSUME IInv
               PROVE  UploadReplacesFile
    OBVIOUS
  <2>1. ASSUME NEW u \in Savers, IsSaved(u), ~saver[u].crossed
        PROVE  uploads[saver[u].file] = Content(saver[u].capture)
    <3>1. /\ SaverOK(u) /\ saver[u].pc = "write" /\ saver[u] \in Saving
          /\ saver[u].written = Size[saver[u].capture]
      BY <2>1, WhoIsBusy DEF IInv, IsSaved
    <3>2. Holds(uploads[saver[u].file], saver[u].capture, Size[saver[u].capture])
      BY <2>1, <3>1 DEF SaverOK
    <3>3. saver[u].capture \in Captures
      BY <3>1 DEF Saving
    <3>4. QED
      BY <3>2, <3>3, HoldsAll
  <2>2. QED
    BY <2>1 DEF UploadReplacesFile, IInv, CleanFiles
<1>2. QED
  BY <1>1, InvariantHolds, PTL

(***************************************************************************)
(* What is listed can be ingested, two dots apart, and a finished upload   *)
(* is listed.                                                              *)
(***************************************************************************)
THEOREM ListingHonest == Spec => []ListedIsIngestible
<1>1. IInv => ListedIsIngestible
  <2> SUFFICES ASSUME IInv
               PROVE  ListedIsIngestible
    OBVIOUS
  <2>1. Listed \ Dotted = {n \in Names : Resolve(n) # "nowhere"}
    BY DEF Listed, Resolve
  <2>2. ASSUME NEW u \in Savers, IsSaved(u)
        PROVE  saver[u].file \in Listed
    <3>1. SaverOK(u) /\ saver[u].pc = "write" /\ saver[u] \in Saving
      BY <2>2, WhoIsBusy DEF IInv, IsSaved
    <3>2. QED
      BY <3>1 DEF SaverOK, Saving, Listed
  <2>3. QED
    BY <2>1, <2>2 DEF ListedIsIngestible
<1>2. QED
  BY <1>1, InvariantHolds, PTL

=============================================================================
