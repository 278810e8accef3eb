--------------------------- MODULE SignatureCache ---------------------------
(***************************************************************************)
(* Where a signature set comes from: run_signature_fetch (pipeline.rs) and *)
(* the cache file it reads and writes (signatures/cache.rs).               *)
(*                                                                         *)
(* Several processes share the file: the dashboard server, and a headless  *)
(* `sentinel run` for every time it is invoked.  Each keeps a set of its   *)
(* own in memory, and the server handles several fetches at once.  Nothing *)
(* orders the fetches but the awaits on the feeds: the file is opened with *)
(* truncation and then written, and the set in memory is replaced last.    *)
(*                                                                         *)
(* A set is told by its time stamp, by the sources its indicators name and *)
(* by its offline flag.                                                    *)
(***************************************************************************)
EXTENDS Naturals

CONSTANTS
    Requests,   \* slots for fetches in flight
    Processes,  \* the processes that share the cache file
    ProcessOf,  \* ProcessOf[r] is the process that r runs in
    Asked,      \* the `source` arguments that requests carry
    Keyed,      \* the processes that have an ABUSECH_AUTH_KEY
    Ttl,        \* SIGNATURE_CACHE_TTL_SECS
    MaxTtl,     \* the longest duration that chrono can represent
    MaxTime,    \* bound of the model: the last time that the clock shows
    Faults,     \* what may go wrong: see FaultKinds
    Absent,     \* there is no cache file
    Empty,      \* the file is open and truncated, or was left so
    Torn,       \* the file holds bytes that do not parse
    NoSet       \* the Option::None of Store.signatures; no set at all

FaultKinds == {"feed", "sample", "disk", "cancel", "crash", "clock"}

ASSUME ProcessAssumption == ProcessOf \in [Requests -> Processes]

ASSUME KeyAssumption == Keyed \subseteq Processes

ASSUME SourceAssumption ==
    Asked \subseteq {"threatfox", "urlhaus", "all", "offline"}

ASSUME TimeAssumption == Ttl \in Nat /\ MaxTtl \in Nat /\ MaxTime \in Nat

ASSUME FaultAssumption == Faults \subseteq FaultKinds

VARIABLES
    now,         \* the wall clock
    file,        \* the cache file: Absent, Empty, Torn or a set
    memory,      \* memory[p] is Store.signatures of process p, or NoSet
    pc,          \* pc[r] is what fetch r does next
    local,       \* local[r] holds the arguments and local variables of r
    overlapped,  \* the fetches whose save overlaps another save
    clean,       \* history: the set that the last save put into the file if
                 \* it succeeded and no other save overlapped it, or NoSet
    crossed      \* history: the fetches under way of which another one was
                 \* under way at some moment, too

vars == <<now, file, memory, pc, local, overlapped, clean, crossed>>

Feeds == {"ThreatFox", "URLhaus"}
Sample == "Offline Sample Set"

\* The feeds that a `source` argument asks for.
Wants == [threatfox |-> {"ThreatFox"}, urlhaus |-> {"URLhaus"},
          all |-> Feeds, offline |-> {}]

Times == 0 .. MaxTime

\* CachedSignatures; the keys of source_counts stand for the counts.
Sets == [fetched_at : Times, sources : SUBSET (Feeds \cup {Sample}),
         offline : BOOLEAN]

Unreadable == {Absent, Empty, Torn}

ASSUME ValueAssumption ==
    /\ Unreadable \cap Sets = {}
    /\ NoSet \notin Sets \cup Unreadable

NoLocals == [source |-> "all", force |-> FALSE, from_cache |-> FALSE,
             got |-> {}, set |-> NoSet]

\* The arguments of a fetch, and its local variables: got are the feeds that
\* brought indicators.
Locals == [source : DOMAIN Wants, force : BOOLEAN, from_cache : BOOLEAN,
           got : SUBSET Feeds, set : Sets \cup {NoSet}]

Labels == {"idle", "check", "ThreatFox", "URLhaus", "build", "truncate",
           "write", "commit"}

TypeOK ==
    /\ now \in Times
    /\ file \in Unreadable \cup Sets
    /\ memory \in [Processes -> Sets \cup {NoSet}]
    /\ pc \in [Requests -> Labels]
    /\ local \in [Requests -> Locals]
    /\ overlapped \subseteq Requests
    /\ clean \in Sets \cup {NoSet}
    /\ crossed \subseteq Requests

Init ==
    /\ now = 0
    /\ file = Absent
    /\ memory = [p \in Processes |-> NoSet]
    /\ pc = [r \in Requests |-> "idle"]
    /\ local = [r \in Requests |-> NoLocals]
    /\ overlapped = {}
    /\ clean = NoSet
    /\ crossed = {}

UnderWay == {r \in Requests : pc[r] # "idle"}

Cross == crossed' = {r \in UnderWay' : r \in crossed \/ UnderWay' # {r}}

Goto(r, label) == pc' = [pc EXCEPT ![r] = label]

Finish(r) ==
    /\ Goto(r, "idle")
    /\ local' = [local EXCEPT ![r] = NoLocals]

\* Mutant: a set as old as the TTL counts as stale.
StaleAtTtl(set) == now >= set.fetched_at + (IF Ttl > MaxTtl THEN 0 ELSE Ttl)

\* CachedSignatures::is_stale: a duration that chrono cannot represent
\* counts as none, and a time stamp in the future is not stale.
Stale(set) == now > set.fetched_at + (IF Ttl > MaxTtl THEN 0 ELSE Ttl)

\* Mutant: a file that does not parse counts as an empty set.
ReusableIfPresent ==
    file # Absent /\ (file \in Unreadable \/ ~Stale(file))

\* load_cache: a file that cannot be read or parsed is no cache.
Reusable == file \notin Unreadable /\ ~Stale(file)

-----------------------------------------------------------------------------
(***************************************************************************)
(* The steps of run_signature_fetch                                        *)
(***************************************************************************)

FetchStart(r, source, force) ==
    /\ pc[r] = "idle"
    /\ Goto(r, "check")
    /\ local' = [local EXCEPT ![r] =
                    [@ EXCEPT !.source = source, !.force = force]]
    /\ UNCHANGED <<now, file, memory, overlapped, clean>>
    /\ Cross

UseCache(r) ==
    /\ pc[r] = "check"
    /\ ~local[r].force
    /\ Reusable
    /\ local' = [local EXCEPT ![r] =
                    [@ EXCEPT !.set = file, !.from_cache = TRUE]]
    /\ Goto(r, "commit")
    /\ UNCHANGED <<now, file, memory, overlapped, clean>>
    /\ Cross

FetchAfresh(r) ==
    /\ pc[r] = "check"
    /\ local[r].force \/ ~Reusable
    /\ Goto(r, "ThreatFox")
    /\ UNCHANGED <<now, file, memory, local, overlapped, clean>>
    /\ Cross

\* Mutant: every feed is called whatever the source.
CallsAny(r, feed) ==
    /\ pc[r] = feed
    /\ ProcessOf[r] \in Keyed

Calls(r, feed) ==
    /\ pc[r] = feed
    /\ feed \in Wants[local[r].source]
    /\ ProcessOf[r] \in Keyed

AfterFeed == [ThreatFox |-> "URLhaus", URLhaus |-> "build"]

\* Mutant: a feed that was asked for is not skipped for want of a key.
SkipFeedUnwanted(r, feed) ==
    /\ pc[r] = feed
    /\ feed \notin Wants[local[r].source]
    /\ Goto(r, AfterFeed[feed])
    /\ UNCHANGED <<now, file, memory, local, overlapped, clean>>
    /\ Cross

SkipFeed(r, feed) ==
    /\ pc[r] = feed
    /\ ~Calls(r, feed)
    /\ Goto(r, AfterFeed[feed])
    /\ UNCHANGED <<now, file, memory, local, overlapped, clean>>
    /\ Cross

FeedAnswers(r, feed) ==
    /\ Calls(r, feed)
    /\ local' = [local EXCEPT ![r].got = @ \cup {feed}]
    /\ Goto(r, AfterFeed[feed])
    /\ UNCHANGED <<now, file, memory, overlapped, clean>>
    /\ Cross

\* The request failed, or the answer holds nothing that can be matched.
FeedFails(r, feed) ==
    /\ "feed" \in Faults
    /\ Calls(r, feed)
    /\ Goto(r, AfterFeed[feed])
    /\ UNCHANGED <<now, file, memory, local, overlapped, clean>>
    /\ Cross

\* Mutant: the sample makes up for any feed that failed.
NeedsSampleIfIncomplete(r) ==
    local[r].got = {} \/ local[r].got # Wants[local[r].source]

\* "offline" was asked for, or no feed brought anything.
NeedsSample(r) == local[r].got = {}

Build(r) ==
    /\ pc[r] = "build"
    /\ local' = [local EXCEPT ![r].set =
          [fetched_at |-> now,
           sources |-> local[r].got
                          \cup (IF NeedsSample(r) THEN {Sample} ELSE {}),
           offline |-> NeedsSample(r)]]
    /\ Goto(r, "truncate")
    /\ UNCHANGED <<now, file, memory, overlapped, clean>>
    /\ Cross

SampleFails(r) ==
    /\ "sample" \in Faults
    /\ pc[r] = "build"
    /\ NeedsSample(r)
    /\ Finish(r)
    /\ UNCHANGED <<now, file, memory, overlapped, clean>>
    /\ Cross

-----------------------------------------------------------------------------
(***************************************************************************)
(* save_cache: std::fs::write opens with truncation, then writes           *)
(***************************************************************************)

Saving == {r \in Requests : pc[r] = "write"}

Truncate(r) ==
    /\ pc[r] = "truncate"
    /\ file' = Empty
    /\ overlapped' = IF Saving = {} THEN overlapped \ {r}
                                    ELSE overlapped \cup Saving \cup {r}
    /\ clean' = NoSet
    /\ Goto(r, "write")
    /\ UNCHANGED <<now, memory, local>>
    /\ Cross

\* The bytes of two saves that overlap may mix: the last one to write leaves
\* the tail of a longer one, or begins where the other one truncated.
Write(r) ==
    /\ pc[r] = "write"
    /\ \/ file' = local[r].set
       \/ r \in overlapped /\ file' = Torn
    /\ clean' = IF r \in overlapped THEN NoSet ELSE local[r].set
    /\ overlapped' = overlapped \ {r}
    /\ Goto(r, "commit")
    /\ UNCHANGED <<now, memory, local>>
    /\ Cross

\* Mutant: the set is used although it could not be saved.
SaveFailsUnnoticed(r) ==
    /\ "disk" \in Faults
    /\ \/ pc[r] = "truncate" /\ UNCHANGED file
       \/ pc[r] = "write" /\ file' \in {file, Torn}
    /\ overlapped' = overlapped \ {r}
    /\ Goto(r, "commit")
    /\ UNCHANGED <<now, memory, local, clean>>
    /\ Cross

\* The directory or the file cannot be opened, or the disk is full.
SaveFails(r) ==
    /\ "disk" \in Faults
    /\ \/ pc[r] = "truncate" /\ UNCHANGED file
       \/ pc[r] = "write" /\ file' \in {file, Torn}
    /\ overlapped' = overlapped \ {r}
    /\ Finish(r)
    /\ UNCHANGED <<now, memory, clean>>
    /\ Cross

\* The store's write guard, for which r waits, is granted.
Commit(r) ==
    /\ pc[r] = "commit"
    /\ memory' = [memory EXCEPT ![ProcessOf[r]] = local[r].set]
    /\ Finish(r)
    /\ UNCHANGED <<now, file, overlapped, clean>>
    /\ Cross

-----------------------------------------------------------------------------
(***************************************************************************)
(* The world around a fetch                                                *)
(***************************************************************************)

\* The client disconnects; the handler stops at one of its awaits.
Cancel(r) ==
    /\ "cancel" \in Faults
    /\ pc[r] = "commit" \/ \E feed \in Feeds : Calls(r, feed)
    /\ Finish(r)
    /\ UNCHANGED <<now, file, memory, overlapped, clean>>
    /\ Cross

\* A process ends: a headless run is over, or the server is restarted.  What
\* it was writing may be half there.
Crash(p) ==
    LET in == {r \in Requests : ProcessOf[r] = p} IN
    /\ "crash" \in Faults
    /\ UNCHANGED file \/ (in \cap Saving # {} /\ file' = Torn)
    /\ memory' = [memory EXCEPT ![p] = NoSet]
    /\ pc' = [r \in Requests |-> IF r \in in THEN "idle" ELSE pc[r]]
    /\ local' = [r \in Requests |-> IF r \in in THEN NoLocals ELSE local[r]]
    /\ overlapped' = overlapped \ in
    /\ UNCHANGED <<now, clean>>
    /\ Cross

Tick ==
    /\ now < MaxTime
    /\ now' = now + 1
    /\ UNCHANGED <<file, memory, pc, local, overlapped, clean>>
    /\ Cross

\* The wall clock is set back.
SetBack ==
    /\ "clock" \in Faults
    /\ \E t \in Times : t < now /\ now' = t
    /\ UNCHANGED <<file, memory, pc, local, overlapped, clean>>
    /\ Cross

-----------------------------------------------------------------------------
\* What a fetch does by itself.
Step(r) ==
    \/ UseCache(r)
    \/ FetchAfresh(r)
    \/ \E feed \in Feeds : SkipFeed(r, feed)
    \/ Build(r)
    \/ SampleFails(r)
    \/ Truncate(r)
    \/ Write(r)
    \/ SaveFails(r)
    \/ Commit(r)

FeedReplies(r) ==
    \E feed \in Feeds : FeedAnswers(r, feed) \/ FeedFails(r, feed)

Next ==
    \/ \E r \in Requests :
          \/ \E source \in Asked, force \in BOOLEAN :
                FetchStart(r, source, force)
          \/ Step(r)
          \/ FeedReplies(r)
          \/ Cancel(r)
    \/ \E p \in Processes : Crash(p)
    \/ Tick
    \/ SetBack

Spec == Init /\ [][Next]_vars

(***************************************************************************)
(* The runtime polls a fetch that can go on, the file system answers, and  *)
(* the store's lock is granted (RequestsFinish of module Pipeline).  A     *)
(* feed need not answer.                                                   *)
(***************************************************************************)
FairSpec == Spec /\ \A r \in Requests : WF_vars(Step(r))

-----------------------------------------------------------------------------
(***************************************************************************)
(* Properties                                                              *)
(***************************************************************************)

\* Every set that the file, a process or a fetch holds.
InUse ==
    ({file} \cup {memory[p] : p \in Processes}
            \cup {local[r].set : r \in Requests})
        \ (Unreadable \cup {NoSet})

(***************************************************************************)
(* The offline flag, which the dashboard shows as the provenance of a set, *)
(* tells the truth wherever the set has been: it is up exactly on the      *)
(* bundled sample, live indicators are never mixed with the sample, and a  *)
(* set is never without indicators.                                        *)
(***************************************************************************)
ProvenanceHonest ==
    \A set \in InUse :
        /\ set.offline <=> Sample \in set.sources
        /\ set.offline <=> set.sources = {Sample}
        /\ set.sources # {}

(***************************************************************************)
(* A forced fetch brings indicators from the feeds that were asked for and *)
(* from no other, or the sample; and a process without a key never brings  *)
(* live indicators by itself.                                              *)
(***************************************************************************)
ForcedFetchHonoursSource ==
    \A r \in Requests :
        pc[r] = "commit" /\ ~local[r].from_cache =>
            /\ local[r].set.sources \subseteq
                  Wants[local[r].source] \cup {Sample}
            /\ ProcessOf[r] \notin Keyed => local[r].set.offline

(***************************************************************************)
(* After a save that succeeded and that no other save overlapped, no       *)
(* unforced fetch of any process calls the feeds again until the set is    *)
(* older than the TTL: the file reads back as it was saved, whatever saves *)
(* failed, overlapped or were cut short before.                            *)
(***************************************************************************)
FreshSaveIsReused ==
    [][ \A r \in Requests :
          FetchAfresh(r) /\ ~local[r].force /\ clean # NoSet =>
              now > clean.fetched_at + Ttl ]_vars

(***************************************************************************)
(* The README has every run match against "the in-memory SignatureSet      *)
(* built once from whatever is currently cached": a fetch that no other    *)
(* one crossed, of any process, leaves in memory what is in the cache      *)
(* file, whatever failed or crashed before it.                             *)
(***************************************************************************)
MemoryHoldsWhatIsCached ==
    [][ \A r \in Requests :
          Commit(r) /\ r \notin crossed =>
              memory'[ProcessOf[r]] = file' ]_vars

(***************************************************************************)
(* A fetch that does not wait for a feed's answer comes to an end.         *)
(***************************************************************************)
FetchesEnd ==
    \A r \in Requests :
        pc[r] # "idle" ~>
            (pc[r] = "idle" \/ \E feed \in Feeds : Calls(r, feed))

=============================================================================
