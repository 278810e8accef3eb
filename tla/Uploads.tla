------------------------------- MODULE Uploads -------------------------------
(***************************************************************************)
(* The capture files: save_upload, list_available_pcaps, resolve_pcap_path *)
(* and the reading of run_ingest (pipeline.rs), with the handlers of       *)
(* api.rs that call them.                                                  *)
(*                                                                         *)
(* A file is a sequence of blocks, the first with the header of a capture. *)
(* Saving truncates the file and then writes block after block, each save  *)
(* at its own place, on a thread that goes on when the client has gone.    *)
(* Nothing locks a file, so saves and reads of the same one may mix, and a *)
(* full disk or a process that is killed leaves what was written so far.   *)
(* What becomes of the bytes that an ingest has read is in Ingestion,      *)
(* FlowAssembly and Pipeline.                                              *)
(***************************************************************************)
EXTENDS Naturals, Sequences, FiniteSets

CONSTANTS
    Names,     \* file names that end in .pcap
    Dotted,    \* those that contain ".."
    Samples,   \* those in the sample directory
    Captures,  \* what is uploaded
    Size,      \* the blocks of each capture
    SampleOf,  \* what each sample holds
    Savers,    \* requests that upload
    Readers,   \* requests that ingest
    MaxFiles,  \* bound: the files in the upload directory
    NoFile     \* there is no such file, or no such block

\* A block is a part of a capture, or a hole.
Block == (Captures \cup {NoFile}) \X Nat

ASSUME FileAssumption ==
    /\ Dotted \subseteq Names /\ Samples \subseteq Names
    /\ Size \in [Captures -> Nat \ {0}]
    /\ SampleOf \in [Samples -> Captures]
    /\ NoFile \notin Captures \cup Seq(Block)

VARIABLES
    uploads,  \* the upload directory: the blocks of each file
    saver,    \* what each upload is doing
    reader,   \* what each ingest is doing
    soiled    \* history: files that a save left unfinished, or that two wrote

vars == <<uploads, saver, reader, soiled>>

Content(c) == [i \in 1 .. Size[c] |-> <<c, i>>]

Idle == [pc |-> "idle"]

Init ==
    /\ uploads = [n \in Names |-> NoFile]
    /\ saver = [u \in Savers |-> Idle]
    /\ reader = [r \in Readers |-> Idle]
    /\ soiled = {}

-----------------------------------------------------------------------------
(***************************************************************************)
(* Uploads                                                                 *)
(***************************************************************************)

\* The saves that are writing a file.
WritersOf(n) == {u \in Savers : saver[u].pc = "write" /\ saver[u].file = n}

Exists(n) == uploads[n] # NoFile

\* The files in the upload directory, and those that are about to be.
Uploaded ==
    {n \in Names : Exists(n)}
        \cup {saver[u].file : u \in {v \in Savers : saver[v].pc = "create"}}

\* upload_pcap has the whole field; n is the last part of its file name.
Upload(u, n, c) ==
    /\ saver[u].pc = "idle"
    /\ Cardinality(Uploaded \cup {n}) <= MaxFiles
    /\ saver' = [saver EXCEPT ![u] =
                    [pc |-> "create", file |-> n, capture |-> c, written |-> 0,
                     crossed |-> FALSE]]
    /\ UNCHANGED <<uploads, reader, soiled>>

\* The saves of a file, when one more begins: each of them is crossed.
Join(u) ==
    LET n == saver[u].file IN
    [v \in Savers |->
        IF v = u THEN [saver[u] EXCEPT !.pc = "write",
                                       !.crossed = WritersOf(n) # {}]
        ELSE IF v \in WritersOf(n) THEN [saver[v] EXCEPT !.crossed = TRUE]
        ELSE saver[v]]

\* The ingests, when a file that some of them are reading begins to change.
Disturb(n) ==
    [r \in Readers |->
        IF reader[r].pc = "read" /\ reader[r].file = n
        THEN [reader[r] EXCEPT !.disturbed = TRUE] ELSE reader[r]]

\* Mutant: what the file held before is not cut off.
CreateUntruncated(u) ==
    LET n == saver[u].file IN
    /\ saver[u].pc = "create"
    /\ uploads' = [uploads EXCEPT ![n] = IF @ = NoFile THEN <<>> ELSE @]
    /\ saver' = Join(u)
    /\ reader' = Disturb(n)
    /\ soiled' = soiled \cup {n}

\* The directory is made; tokio::fs::write opens the file and truncates it.
Create(u) ==
    LET n == saver[u].file IN
    /\ saver[u].pc = "create"
    /\ uploads' = [uploads EXCEPT ![n] = <<>>]
    /\ saver' = Join(u)
    /\ reader' = Disturb(n)
    /\ soiled' = soiled \cup {n}

\* A file after a block is written at a place; a hole before it reads as zeros.
WithBlock(blocks, i, block) ==
    [k \in 1 .. (IF i > Len(blocks) THEN i ELSE Len(blocks)) |->
        IF k = i THEN block
        ELSE IF k <= Len(blocks) THEN blocks[k] ELSE <<NoFile, k>>]

Write(u) ==
    LET n == saver[u].file
        i == saver[u].written + 1
    IN  /\ saver[u].pc = "write"
        /\ i <= Size[saver[u].capture]
        /\ uploads' = [uploads EXCEPT ![n] =
                          WithBlock(@, i, <<saver[u].capture, i>>)]
        /\ saver' = [saver EXCEPT ![u].written = i]
        /\ UNCHANGED <<reader, soiled>>

IsSaved(u) ==
    saver[u].pc = "write" /\ saver[u].written = Size[saver[u].capture]

\* The save has ended well: the upload is announced and answered.
Saved(u) ==
    /\ IsSaved(u)
    /\ saver' = [saver EXCEPT ![u] = Idle]
    /\ soiled' = IF saver[u].crossed THEN soiled ELSE soiled \ {saver[u].file}
    /\ UNCHANGED <<uploads, reader>>

\* Mutant: the file of a save that fails is removed.
SaveFailsAndRemoves(u) ==
    /\ saver[u].pc \in {"create", "write"}
    /\ saver' = [saver EXCEPT ![u] = Idle]
    /\ uploads' = [uploads EXCEPT ![saver[u].file] = NoFile]
    /\ UNCHANGED <<reader, soiled>>

\* The directory, the file or a block cannot be written: what there is stays.
SaveFails(u) ==
    /\ saver[u].pc \in {"create", "write"}
    /\ saver' = [saver EXCEPT ![u] = Idle]
    /\ UNCHANGED <<uploads, reader, soiled>>

-----------------------------------------------------------------------------
(***************************************************************************)
(* Ingests                                                                 *)
(***************************************************************************)

\* list_available_pcaps
Listed == Samples \cup {n \in Names : Exists(n)}

\* Mutant: an upload hides the sample of its name.
ResolveUploadsFirst(n) ==
    IF n \in Dotted THEN "nowhere"
    ELSE IF Exists(n) THEN "uploads"
    ELSE IF n \in Samples THEN "samples" ELSE "nowhere"

\* Mutant: only samples are found.
ResolveSamplesOnly(n) ==
    IF n \in Dotted THEN "nowhere"
    ELSE IF n \in Samples THEN "samples" ELSE "nowhere"

\* resolve_pcap_path
Resolve(n) ==
    IF n \in Dotted THEN "nowhere"
    ELSE IF n \in Samples THEN "samples"
    ELSE IF Exists(n) THEN "uploads" ELSE "nowhere"

\* run_ingest is called and resolves the name; it fails where there is no file.
Ingest(r, n) ==
    /\ reader[r].pc = "idle"
    /\ Resolve(n) # "nowhere"
    /\ reader' = [reader EXCEPT ![r] =
            [pc |-> "read", file |-> n, path |-> Resolve(n), data |-> <<>>,
             disturbed |-> n \in soiled]]
    /\ UNCHANGED <<uploads, saver, soiled>>

FileOf(r) ==
    IF reader[r].path = "samples" THEN Content(SampleOf[reader[r].file])
    ELSE uploads[reader[r].file]

\* tokio::fs::read takes the next block.
Read(r) ==
    /\ reader[r].pc = "read"
    /\ Len(reader[r].data) < Len(FileOf(r))
    /\ reader' = [reader EXCEPT
                    ![r].data = Append(@, FileOf(r)[Len(@) + 1])]
    /\ UNCHANGED <<uploads, saver, soiled>>

\* Mutant: a file that has become shorter is waited for.
IsReadExactly(r) == reader[r].pc = "read" /\ Len(reader[r].data) = Len(FileOf(r))

\* There is no more to read, though the file may have become shorter since.
IsRead(r) == reader[r].pc = "read" /\ Len(reader[r].data) >= Len(FileOf(r))

Parse(r) ==
    /\ IsRead(r)
    /\ reader' = [reader EXCEPT ![r] = Idle]
    /\ UNCHANGED <<uploads, saver, soiled>>

\* The client of an ingest goes away and its handler with it, or the disk fails.
Leave(r) ==
    /\ reader[r].pc = "read"
    /\ reader' = [reader EXCEPT ![r] = Idle]
    /\ UNCHANGED <<uploads, saver, soiled>>

\* The process is killed and started again: only the files are left.
Restart ==
    /\ saver' = [u \in Savers |-> Idle]
    /\ reader' = [r \in Readers |-> Idle]
    /\ UNCHANGED <<uploads, soiled>>

\* What the thread of a save or of a read does.
SaverStep(u) == Create(u) \/ Write(u) \/ Saved(u)
ReaderStep(r) == Read(r) \/ Parse(r)

Next ==
    \/ \E u \in Savers :
          \/ SaverStep(u) \/ SaveFails(u)
          \/ \E n \in Names, c \in Captures : Upload(u, n, c)
    \/ \E r \in Readers :
          \/ ReaderStep(r) \/ Leave(r)
          \/ \E n \in Names : Ingest(r, n)
    \/ Restart

\* The threads that save and read files are scheduled.
Fairness ==
    /\ \A u \in Savers : WF_vars(SaverStep(u))
    /\ \A r \in Readers : WF_vars(ReaderStep(r))

Spec == Init /\ [][Next]_vars /\ Fairness

-----------------------------------------------------------------------------
(***************************************************************************)
(* Properties                                                              *)
(***************************************************************************)

(***************************************************************************)
(* The variables keep their types, a save never gets beyond its capture,   *)
(* and a file that is being written is soiled.                             *)
(***************************************************************************)
TypeOK ==
    /\ DOMAIN uploads = Names
    /\ \A n \in Names : uploads[n] = NoFile \/ uploads[n] \in Seq(Block)
    /\ \A u \in Savers :
          \/ saver[u] = Idle
          \/ /\ saver[u] \in [pc : {"create", "write"}, file : Names,
                              capture : Captures, written : Nat,
                              crossed : BOOLEAN]
             /\ saver[u].written <= Size[saver[u].capture]
             /\ saver[u].pc = "write" =>
                   Exists(saver[u].file) /\ saver[u].file \in soiled
    /\ \A r \in Readers :
          \/ reader[r] = Idle
          \/ reader[r] \in [pc : {"read"}, file : Names,
                            path : {"samples", "uploads"},
                            data : Seq(Block), disturbed : BOOLEAN]
    /\ soiled \subseteq Names

(***************************************************************************)
(* Whoever ingests a file gets the whole of one capture: the sample of     *)
(* that name, or else one that was uploaded under it.  Only a file that    *)
(* was being written, or that a save left unfinished or shared with        *)
(* another one, may give something else.                                   *)
(***************************************************************************)
UploadIsIngested ==
    \A r \in Readers :
        IsRead(r) =>
            LET n == reader[r].file IN
            IF n \in Samples THEN reader[r].data = Content(SampleOf[n])
            ELSE ~reader[r].disturbed =>
                    \E c \in Captures : reader[r].data = Content(c)

(***************************************************************************)
(* An upload that met no other upload of its name leaves exactly its       *)
(* capture, whatever the file held before and whatever failed then; and    *)
(* files stay as they are between uploads.                                 *)
(***************************************************************************)
UploadReplacesFile ==
    /\ \A u \in Savers :
          IsSaved(u) /\ ~saver[u].crossed =>
              uploads[saver[u].file] = Content(saver[u].capture)
    /\ \A n \in Names \ soiled :
          Exists(n) => \E c \in Captures : uploads[n] = Content(c)

(***************************************************************************)
(* "Lists pcap files available to ingest": what is listed can be ingested, *)
(* unless its name has two dots in a row, and the other way round; and an  *)
(* upload that is answered is listed.                                      *)
(***************************************************************************)
ListedIsIngestible ==
    /\ Listed \ Dotted = {n \in Names : Resolve(n) # "nowhere"}
    /\ \A u \in Savers : IsSaved(u) => saver[u].file \in Listed

(***************************************************************************)
(* A save and a read end, even of the same file at the same time, and even *)
(* if the file becomes shorter than what was read of it.                   *)
(***************************************************************************)
RequestsEnd ==
    /\ \A u \in Savers : saver[u].pc # "idle" ~> saver[u].pc = "idle"
    /\ \A r \in Readers : reader[r].pc = "read" ~> reader[r].pc # "read"

=============================================================================
