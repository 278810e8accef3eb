------------------------ MODULE SignatureCacheProofs ------------------------
(***************************************************************************)
(* What holds of SignatureCache for any number of fetches and processes,   *)
(* any TTL, any clock and any faults.                                      *)
(*                                                                         *)
(* IInv is the inductive invariant.  Its first new part follows the        *)
(* indicators from the feeds to the set that is built of them; the second  *)
(* says what a save that nobody overlaps may rely on: the file is empty    *)
(* until it is written, and holds the saved set from then on.              *)
(***************************************************************************)
EXTENDS SignatureCache, TLAPS

Fetching(r) == pc[r] \in {"ThreatFox", "URLhaus", "build"}
Fetched(r) == pc[r] \in {"truncate", "write", "commit"}

\* A set that is what its flag says.
Honest(set) ==
    /\ set.offline <=> Sample \in set.sources
    /\ set.offline <=> set.sources = {Sample}
    /\ set.sources # {}

\* What r has in its local variables when it is at label.
Carries(r, label, rec) ==
    /\ rec.set # NoSet => Honest(rec.set)
    /\ label = "idle" => rec = NoLocals
    /\ label = "check" => rec.got = {} /\ ~rec.from_cache
    /\ label \in {"ThreatFox", "URLhaus", "build"} =>
          /\ rec.got \subseteq Wants[rec.source]
          /\ ProcessOf[r] \notin Keyed => rec.got = {}
          /\ ~rec.from_cache
    /\ label \in {"truncate", "write", "commit"} =>
          /\ rec.set \in Sets
          /\ ~rec.from_cache =>
                /\ rec.set.sources \subseteq Wants[rec.source] \cup {Sample}
                /\ ProcessOf[r] \notin Keyed => rec.set.offline

Collected == \A r \in Requests : Carries(r, pc[r], local[r])

AllHonest ==
    /\ file \notin Unreadable => Honest(file)
    /\ \A p \in Processes : memory[p] # NoSet => Honest(memory[p])

SavesApart ==
    /\ overlapped \subseteq Saving
    /\ \A r \in Saving \ overlapped : Saving = {r} /\ file = Empty
    /\ clean # NoSet => Saving = {} /\ file = clean

IInv == TypeOK /\ Collected /\ AllHonest /\ SavesApart

USE ProcessAssumption, KeyAssumption, TimeAssumption, ValueAssumption
    DEF Labels, Goto, Finish

-----------------------------------------------------------------------------
(* Facts about the operators.                                              *)

\* `source` arguments and the feeds that they ask for.
LEMMA WantsFeeds ==
    /\ DOMAIN Wants = {"threatfox", "urlhaus", "all", "offline"}
    /\ \A source \in DOMAIN Wants : Wants[source] \subseteq Feeds
BY DEF Wants, Feeds

LEMMA AfterFeedLabels ==
    \A feed \in Feeds : AfterFeed[feed] \in {"URLhaus", "build"}
BY DEF AfterFeed, Feeds

\* An idle slot carries nothing.
LEMMA NoLocalsFit ==
    /\ NoLocals \in Locals
    /\ \A r \in Requests : Carries(r, "idle", NoLocals)
BY WantsFeeds DEF NoLocals, Locals, Carries

\* It is enough to look at the request that moves.
LEMMA OneMoves ==
    ASSUME IInv, NEW r \in Requests, NEW label \in Labels, NEW rec \in Locals,
           pc' = [pc EXCEPT ![r] = label],
           local' = [local EXCEPT ![r] = rec],
           Carries(r, label, rec)
    PROVE  /\ pc' \in [Requests -> Labels]
           /\ local' \in [Requests -> Locals]
           /\ Collected'
<1>1. pc \in [Requests -> Labels] /\ local \in [Requests -> Locals]
  BY DEF IInv, TypeOK
<1>2. pc' \in [Requests -> Labels] /\ local' \in [Requests -> Locals]
  BY <1>1
<1>3. ASSUME NEW q \in Requests
      PROVE  Carries(q, pc'[q], local'[q])
  <2>1. CASE q = r
    BY <2>1, <1>1
  <2>2. CASE q # r
    <3>1. pc'[q] = pc[q] /\ local'[q] = local[q]
      BY <2>2, <1>1
    <3> QED BY <3>1 DEF IInv, Collected
  <2> QED BY <2>1, <2>2
<1> QED BY <1>2, <1>3 DEF Collected

\* The same when the locals stay as they are.
LEMMA OneGoesOn ==
    ASSUME IInv, NEW r \in Requests, NEW label \in Labels,
           pc' = [pc EXCEPT ![r] = label],
           UNCHANGED local,
           Carries(r, label, local[r])
    PROVE  /\ pc' \in [Requests -> Labels]
           /\ local' \in [Requests -> Locals]
           /\ Collected'
<1>1. local \in [Requests -> Locals]
  BY DEF IInv, TypeOK
<1>2. local[r] \in Locals /\ local' = [local EXCEPT ![r] = local[r]]
  BY <1>1
<1> QED BY <1>2, OneMoves

\* And when r is done.
LEMMA OneFinishes ==
    ASSUME IInv, NEW r \in Requests, Finish(r)
    PROVE  /\ pc' \in [Requests -> Labels]
           /\ local' \in [Requests -> Locals]
           /\ Collected'
BY NoLocalsFit, OneMoves

\* A request that is not saving before or after a step leaves the saves alone.
LEMMA SavesUndisturbed ==
    ASSUME IInv, NEW r \in Requests, pc[r] # "write", pc'[r] # "write",
           \A q \in Requests \ {r} : pc'[q] = pc[q],
           UNCHANGED <<file, overlapped, clean>>
    PROVE  SavesApart'
<1>1. Saving' = Saving
  BY DEF Saving
<1> QED BY <1>1 DEF IInv, SavesApart

-----------------------------------------------------------------------------
(* The initial states, and one lemma for every action.                     *)

LEMMA InitEstablishes == Init => IInv
<1> SUFFICES ASSUME Init
             PROVE  IInv
  OBVIOUS
<1> USE DEF Init
<1>1. TypeOK
  BY NoLocalsFit DEF TypeOK, Times, Unreadable
<1>2. Collected
  BY NoLocalsFit DEF Collected
<1>3. AllHonest
  BY DEF AllHonest, Unreadable
<1>4. SavesApart
  BY DEF SavesApart, Saving
<1> QED BY <1>1, <1>2, <1>3, <1>4 DEF IInv

LEMMA FetchStartKeeps ==
    ASSUME IInv, NEW r \in Requests, NEW source \in Asked, NEW force \in BOOLEAN,
           FetchStart(r, source, force)
    PROVE  IInv'
<1> USE DEF FetchStart, Cross, UnderWay
<1> DEFINE rec == [local[r] EXCEPT !.source = source, !.force = force]
<1>1. local[r] = NoLocals /\ local \in [Requests -> Locals]
  BY DEF IInv, TypeOK, Collected, Carries
<1>2. rec \in Locals /\ Carries(r, "check", rec)
  <2>1. rec.set = NoSet /\ rec.got = {} /\ rec.from_cache = FALSE
    BY <1>1 DEF NoLocals
  <2>2. source \in DOMAIN Wants
    BY WantsFeeds, SourceAssumption
  <2>3. rec \in Locals
    BY <1>1, <2>2 DEF Locals
  <2>4. Carries(r, "check", rec)
    BY <2>1 DEF Carries
  <2> QED BY <2>3, <2>4
<1>3. local' = [local EXCEPT ![r] = rec]
  BY <1>1
<1>4. /\ pc' \in [Requests -> Labels]
      /\ local' \in [Requests -> Locals]
      /\ Collected'
  BY <1>2, <1>3, OneMoves
<1>5. TypeOK' /\ AllHonest'
  BY <1>4 DEF IInv, TypeOK, AllHonest
<1>6. SavesApart'
  BY SavesUndisturbed DEF IInv, TypeOK
<1> QED BY <1>4, <1>5, <1>6 DEF IInv

LEMMA UseCacheKeeps ==
    ASSUME IInv, NEW r \in Requests, UseCache(r)
    PROVE  IInv'
<1> USE DEF UseCache, Cross, UnderWay
<1> DEFINE rec == [local[r] EXCEPT !.set = file, !.from_cache = TRUE]
<1>1. file \in Sets /\ Honest(file)
  BY DEF Reusable, IInv, TypeOK, AllHonest
<1>2. local \in [Requests -> Locals]
  BY DEF IInv, TypeOK
<1>3. rec \in Locals /\ Carries(r, "commit", rec)
  BY <1>1, <1>2 DEF Locals, Carries
<1>4. /\ pc' \in [Requests -> Labels]
      /\ local' \in [Requests -> Locals]
      /\ Collected'
  BY <1>2, <1>3, OneMoves
<1>5. TypeOK' /\ AllHonest'
  BY <1>4 DEF IInv, TypeOK, AllHonest
<1>6. SavesApart'
  BY SavesUndisturbed DEF IInv, TypeOK
<1> QED BY <1>4, <1>5, <1>6 DEF IInv

LEMMA FetchAfreshKeeps ==
    ASSUME IInv, NEW r \in Requests, FetchAfresh(r)
    PROVE  IInv'
<1> USE DEF FetchAfresh, Cross, UnderWay
<1>1. Carries(r, "ThreatFox", local[r])
  BY DEF IInv, Collected, Carries
<1>2. /\ pc' \in [Requests -> Labels]
      /\ local' \in [Requests -> Locals]
      /\ Collected'
  BY <1>1, OneGoesOn
<1>3. TypeOK' /\ AllHonest'
  BY <1>2 DEF IInv, TypeOK, AllHonest
<1>4. SavesApart'
  BY SavesUndisturbed DEF IInv, TypeOK
<1> QED BY <1>2, <1>3, <1>4 DEF IInv

LEMMA SkipFeedKeeps ==
    ASSUME IInv, NEW r \in Requests, NEW feed \in Feeds, SkipFeed(r, feed)
    PROVE  IInv'
<1> USE DEF SkipFeed, Cross, UnderWay, Calls
<1>1. pc[r] \in {"ThreatFox", "URLhaus"}
  BY DEF Feeds
<1>2. AfterFeed[feed] \in Labels /\ Carries(r, AfterFeed[feed], local[r])
  BY <1>1, AfterFeedLabels DEF IInv, Collected, Carries
<1>3. /\ pc' \in [Requests -> Labels]
      /\ local' \in [Requests -> Locals]
      /\ Collected'
  BY <1>2, OneGoesOn
<1>4. TypeOK' /\ AllHonest'
  BY <1>3 DEF IInv, TypeOK, AllHonest
<1>5. SavesApart'
  BY <1>1, <1>2, AfterFeedLabels, SavesUndisturbed DEF IInv, TypeOK
<1> QED BY <1>3, <1>4, <1>5 DEF IInv

LEMMA FeedAnswersKeeps ==
    ASSUME IInv, NEW r \in Requests, NEW feed \in Feeds, FeedAnswers(r, feed)
    PROVE  IInv'
<1> USE DEF FeedAnswers, Cross, UnderWay, Calls
<1> DEFINE rec == [local[r] EXCEPT !.got = @ \cup {feed}]
<1>1. pc[r] \in {"ThreatFox", "URLhaus"} /\ local \in [Requests -> Locals]
  BY DEF Feeds, IInv, TypeOK
<1>2. rec \in Locals
  BY <1>1 DEF Locals
<1>3. Carries(r, AfterFeed[feed], rec)
  <2>1. /\ local[r].got \subseteq Wants[local[r].source]
        /\ local[r].set # NoSet => Honest(local[r].set)
        /\ ~local[r].from_cache
    BY <1>1 DEF IInv, Collected, Carries
  <2>2. /\ rec.set = local[r].set
        /\ rec.source = local[r].source
        /\ rec.from_cache = local[r].from_cache
        /\ rec.got = local[r].got \cup {feed}
    BY <1>1 DEF Locals
  <2> QED BY <2>1, <2>2, AfterFeedLabels DEF Carries
<1>4. /\ pc' \in [Requests -> Labels]
      /\ local' \in [Requests -> Locals]
      /\ Collected'
  <2>1. local' = [local EXCEPT ![r] = rec]
    BY <1>1
  <2>2. AfterFeed[feed] \in Labels
    BY AfterFeedLabels
  <2> HIDE DEF rec, Labels
  <2> QED BY <1>2, <1>3, <2>1, <2>2, OneMoves
<1>5. TypeOK' /\ AllHonest'
  BY <1>4 DEF IInv, TypeOK, AllHonest
<1>6. SavesApart'
  BY <1>1, AfterFeedLabels, SavesUndisturbed DEF IInv, TypeOK
<1> QED BY <1>4, <1>5, <1>6 DEF IInv

LEMMA FeedFailsKeeps ==
    ASSUME IInv, NEW r \in Requests, NEW feed \in Feeds, FeedFails(r, feed)
    PROVE  IInv'
<1> USE DEF FeedFails, Cross, UnderWay, Calls
<1>1. pc[r] \in {"ThreatFox", "URLhaus"}
  BY DEF Feeds
<1>2. AfterFeed[feed] \in Labels /\ Carries(r, AfterFeed[feed], local[r])
  BY <1>1, AfterFeedLabels DEF IInv, Collected, Carries
<1>3. /\ pc' \in [Requests -> Labels]
      /\ local' \in [Requests -> Locals]
      /\ Collected'
  BY <1>2, OneGoesOn
<1>4. TypeOK' /\ AllHonest'
  BY <1>3 DEF IInv, TypeOK, AllHonest
<1>5. SavesApart'
  BY <1>1, <1>2, AfterFeedLabels, SavesUndisturbed DEF IInv, TypeOK
<1> QED BY <1>3, <1>4, <1>5 DEF IInv

LEMMA BuildKeeps ==
    ASSUME IInv, NEW r \in Requests, Build(r)
    PROVE  IInv'
<1> USE DEF Build, Cross, UnderWay
<1> DEFINE set == [fetched_at |-> now,
                   sources |-> local[r].got
                       \cup (IF NeedsSample(r) THEN {Sample} ELSE {}),
                   offline |-> NeedsSample(r)]
           rec == [local[r] EXCEPT !.set = set]
<1>1. /\ local \in [Requests -> Locals]
      /\ local[r].got \subseteq Feeds
      /\ local[r].got \subseteq Wants[local[r].source]
      /\ ProcessOf[r] \notin Keyed => local[r].got = {}
  BY DEF IInv, TypeOK, Collected, Carries, Locals
<1>2. set \in Sets /\ Honest(set)
  BY <1>1 DEF NeedsSample, Sets, Honest, IInv, TypeOK, Feeds, Sample
<1>3. rec \in Locals
  BY <1>1, <1>2 DEF Locals
<1>4. /\ rec.set = set
      /\ rec.source = local[r].source
  BY <1>1 DEF Locals
<1>5. Carries(r, "truncate", rec)
  <2>1. set.sources \subseteq Wants[local[r].source] \cup {Sample}
    BY <1>1
  <2>2. ProcessOf[r] \notin Keyed => set.offline
    BY <1>1 DEF NeedsSample
  <2> HIDE DEF rec, set
  <2> QED BY <1>2, <1>4, <2>1, <2>2 DEF Carries
<1>6. /\ pc' \in [Requests -> Labels]
      /\ local' \in [Requests -> Locals]
      /\ Collected'
  <2>1. local' = [local EXCEPT ![r] = rec]
    BY <1>1
  <2> QED BY <1>3, <1>5, <2>1, OneMoves
<1>7. TypeOK' /\ AllHonest'
  BY <1>6 DEF IInv, TypeOK, AllHonest
<1>8. SavesApart'
  BY SavesUndisturbed DEF IInv, TypeOK
<1> QED BY <1>6, <1>7, <1>8 DEF IInv

LEMMA SampleFailsKeeps ==
    ASSUME IInv, NEW r \in Requests, SampleFails(r)
    PROVE  IInv'
<1> USE DEF SampleFails, Cross, UnderWay
<1>1. /\ pc' \in [Requests -> Labels]
      /\ local' \in [Requests -> Locals]
      /\ Collected'
  BY OneFinishes
<1>2. TypeOK' /\ AllHonest'
  BY <1>1 DEF IInv, TypeOK, AllHonest
<1>3. SavesApart'
  BY SavesUndisturbed DEF IInv, TypeOK
<1> QED BY <1>1, <1>2, <1>3 DEF IInv

LEMMA TruncateKeeps ==
    ASSUME IInv, NEW r \in Requests, Truncate(r)
    PROVE  IInv'
<1> USE DEF Truncate, Cross, UnderWay
<1>1. Carries(r, "write", local[r])
  BY DEF IInv, Collected, Carries
<1>2. /\ pc' \in [Requests -> Labels]
      /\ local' \in [Requests -> Locals]
      /\ Collected'
  BY <1>1, OneGoesOn
<1>3. TypeOK'
  BY <1>2 DEF IInv, TypeOK, Unreadable, Saving
<1>4. AllHonest'
  BY DEF IInv, AllHonest, Unreadable
<1>5. SavesApart'
  <2>1. Saving' = Saving \cup {r}
    BY DEF Saving, IInv, TypeOK
  <2> QED BY <2>1 DEF IInv, SavesApart
<1> QED BY <1>2, <1>3, <1>4, <1>5 DEF IInv

LEMMA WriteKeeps ==
    ASSUME IInv, NEW r \in Requests, Write(r)
    PROVE  IInv'
<1> USE DEF Write, Cross, UnderWay
<1>1. /\ local[r].set \in Sets
      /\ Honest(local[r].set)
      /\ Carries(r, "commit", local[r])
  BY DEF IInv, Collected, Carries
<1>2. /\ pc' \in [Requests -> Labels]
      /\ local' \in [Requests -> Locals]
      /\ Collected'
  BY <1>1, OneGoesOn
<1>3. file' \in {local[r].set, Torn}
  OBVIOUS
<1>4. TypeOK'
  BY <1>1, <1>2, <1>3 DEF IInv, TypeOK, Unreadable
<1>5. AllHonest'
  BY <1>1, <1>3 DEF IInv, AllHonest, Unreadable
<1>6. SavesApart'
  <2>1. Saving' = Saving \ {r} /\ r \in Saving
    BY DEF Saving, IInv, TypeOK
  <2>2. CASE r \in overlapped
    BY <2>1, <2>2 DEF IInv, SavesApart
  <2>3. CASE r \notin overlapped
    <3>1. Saving = {r} /\ file = Empty
      BY <2>1, <2>3 DEF IInv, SavesApart
    <3>2. Saving' = {} /\ file' = local[r].set
      BY <2>1, <2>3, <3>1
    <3> QED BY <2>3, <3>1, <3>2 DEF IInv, SavesApart
  <2> QED BY <2>2, <2>3
<1> QED BY <1>2, <1>4, <1>5, <1>6 DEF IInv

LEMMA SaveFailsKeeps ==
    ASSUME IInv, NEW r \in Requests, SaveFails(r)
    PROVE  IInv'
<1> USE DEF SaveFails, Cross, UnderWay
<1>1. /\ pc' \in [Requests -> Labels]
      /\ local' \in [Requests -> Locals]
      /\ Collected'
  BY OneFinishes
<1>2. file' \in {file, Torn}
  OBVIOUS
<1>3. TypeOK'
  BY <1>1, <1>2 DEF IInv, TypeOK, Unreadable
<1>4. AllHonest'
  BY <1>2 DEF IInv, AllHonest, Unreadable
<1>5. SavesApart'
  <2>1. Saving' = Saving \ {r}
    BY DEF Saving, IInv, TypeOK
  <2>2. CASE r \in Saving
    <3>1. clean = NoSet
      BY <2>2 DEF IInv, SavesApart
    <3>2. \A q \in Saving' \ overlapped' : FALSE
      BY <2>1, <2>2 DEF IInv, SavesApart
    <3> QED BY <2>1, <3>1, <3>2 DEF IInv, SavesApart
  <2>3. CASE r \notin Saving
    <3>1. UNCHANGED file /\ r \notin overlapped
      BY <2>3 DEF Saving, IInv, SavesApart
    <3> QED BY <2>1, <2>3, <3>1 DEF IInv, SavesApart
  <2> QED BY <2>2, <2>3
<1> QED BY <1>1, <1>3, <1>4, <1>5 DEF IInv

LEMMA CommitKeeps ==
    ASSUME IInv, NEW r \in Requests, Commit(r)
    PROVE  IInv'
<1> USE DEF Commit, Cross, UnderWay
<1>1. local[r].set \in Sets /\ Honest(local[r].set)
  BY DEF IInv, Collected, Carries
<1>2. /\ pc' \in [Requests -> Labels]
      /\ local' \in [Requests -> Locals]
      /\ Collected'
  BY OneFinishes
<1>3. TypeOK'
  BY <1>1, <1>2 DEF IInv, TypeOK
<1>4. AllHonest'
  BY <1>1 DEF IInv, AllHonest, TypeOK
<1>5. SavesApart'
  BY SavesUndisturbed DEF IInv, TypeOK
<1> QED BY <1>2, <1>3, <1>4, <1>5 DEF IInv

LEMMA CancelKeeps ==
    ASSUME IInv, NEW r \in Requests, Cancel(r)
    PROVE  IInv'
<1> USE DEF Cancel, Cross, UnderWay, Calls
<1>1. pc[r] # "write"
  BY DEF Feeds
<1>2. /\ pc' \in [Requests -> Labels]
      /\ local' \in [Requests -> Locals]
      /\ Collected'
  BY OneFinishes
<1>3. TypeOK' /\ AllHonest'
  BY <1>2 DEF IInv, TypeOK, AllHonest
<1>4. SavesApart'
  BY <1>1, SavesUndisturbed DEF IInv, TypeOK
<1> QED BY <1>2, <1>3, <1>4 DEF IInv

\* A crash in the middle of a save leaves the file as it is, or torn.
LEMMA CrashKeeps ==
    ASSUME IInv, NEW p \in Processes, Crash(p)
    PROVE  IInv'
<1> DEFINE in == {r \in Requests : ProcessOf[r] = p}
<1>1. /\ pc' = [r \in Requests |-> IF r \in in THEN "idle" ELSE pc[r]]
      /\ local' = [r \in Requests |-> IF r \in in THEN NoLocals ELSE local[r]]
      /\ memory' = [memory EXCEPT ![p] = NoSet]
      /\ overlapped' = overlapped \ in
      /\ file' = file \/ (in \cap Saving # {} /\ file' = Torn)
      /\ UNCHANGED <<now, clean>>
      /\ crossed' \subseteq Requests
  BY DEF Crash, Cross, UnderWay
<1> HIDE DEF in
<1>2. TypeOK'
  BY <1>1, NoLocalsFit DEF IInv, TypeOK, Unreadable
<1>3. Collected'
  <2> SUFFICES ASSUME NEW r \in Requests
               PROVE  Carries(r, pc'[r], local'[r])
    BY DEF Collected
  <2>1. CASE r \in in
    BY <1>1, <2>1, NoLocalsFit
  <2>2. CASE r \notin in
    <3>1. pc'[r] = pc[r] /\ local'[r] = local[r]
      BY <1>1, <2>2
    <3> QED BY <3>1 DEF IInv, Collected
  <2> QED BY <2>1, <2>2
<1>4. AllHonest'
  <2>1. \A q \in Processes : memory'[q] \in {memory[q], NoSet}
    BY <1>1 DEF IInv, TypeOK
  <2> QED BY <1>1, <2>1 DEF IInv, AllHonest, Unreadable
<1>5. SavesApart'
  <2>1. Saving' = Saving \ in
    BY <1>1 DEF Saving
  <2>2. CASE in \cap Saving = {}
    <3>1. file' = file /\ Saving' = Saving
      BY <1>1, <2>1, <2>2
    <3>2. Saving \ overlapped' = Saving \ overlapped
      BY <1>1, <2>2
    <3> QED BY <1>1, <3>1, <3>2 DEF IInv, SavesApart
  <2>3. CASE in \cap Saving # {}
    <3>1. clean = NoSet
      BY <2>3 DEF IInv, SavesApart
    <3>2. Saving' \ overlapped' = {}
      BY <1>1, <2>1, <2>3 DEF IInv, SavesApart
    <3> QED BY <1>1, <2>1, <3>1, <3>2 DEF IInv, SavesApart
  <2> QED BY <2>2, <2>3
<1> QED BY <1>2, <1>3, <1>4, <1>5 DEF IInv

\* Time passes, or nothing happens.
LEMMA ClockKeeps ==
    ASSUME IInv, now' \in Times,
           UNCHANGED <<file, memory, pc, local, overlapped, clean>>,
           crossed' \subseteq Requests
    PROVE  IInv'
BY DEF IInv, TypeOK, Collected, AllHonest, SavesApart, Saving

-----------------------------------------------------------------------------
(* The invariant, and the properties that follow from it.                  *)

THEOREM InvariantHolds == Spec => []IInv
<1>1. IInv /\ [Next]_vars => IInv'
  <2> SUFFICES ASSUME IInv, [Next]_vars
               PROVE  IInv'
    OBVIOUS
  <2>1. CASE Tick \/ SetBack \/ UNCHANGED vars
    <3>1. now' \in Times /\ crossed' \subseteq Requests
      BY <2>1 DEF Tick, SetBack, Cross, UnderWay, vars, IInv, TypeOK, Times
    <3> QED BY <2>1, <3>1, ClockKeeps DEF Tick, SetBack, vars
  <2>2. ASSUME NEW r \in Requests, NEW source \in Asked, NEW force \in BOOLEAN,
               FetchStart(r, source, force)
        PROVE  IInv'
    BY <2>2, FetchStartKeeps
  <2>3. ASSUME NEW r \in Requests, Step(r)
        PROVE  IInv'
    BY <2>3, UseCacheKeeps, FetchAfreshKeeps, SkipFeedKeeps, BuildKeeps,
       SampleFailsKeeps, TruncateKeeps, WriteKeeps, SaveFailsKeeps,
       CommitKeeps DEF Step
  <2>4. ASSUME NEW r \in Requests, FeedReplies(r)
        PROVE  IInv'
    BY <2>4, FeedAnswersKeeps, FeedFailsKeeps DEF FeedReplies
  <2>5. ASSUME NEW r \in Requests, Cancel(r)
        PROVE  IInv'
    BY <2>5, CancelKeeps
  <2>6. ASSUME NEW p \in Processes, Crash(p)
        PROVE  IInv'
    BY <2>6, CrashKeeps
  <2> QED BY <2>1, <2>2, <2>3, <2>4, <2>5, <2>6 DEF Next
<1> QED BY InitEstablishes, <1>1, PTL DEF Spec

(***************************************************************************)
(* Every variable keeps its type; no fetch works with a file that does not *)
(* parse.                                                                  *)
(***************************************************************************)
THEOREM TypeCorrect == Spec => []TypeOK
<1>1. IInv => TypeOK
  BY DEF IInv
<1> QED BY <1>1, InvariantHolds, PTL

(***************************************************************************)
(* The offline flag of every set in the file, in a process or in a fetch   *)
(* tells where its indicators come from.                                   *)
(***************************************************************************)
THEOREM FlagTellsTruth == Spec => []ProvenanceHonest
<1>1. IInv => ProvenanceHonest
  BY DEF IInv, Collected, Carries, AllHonest, Honest, ProvenanceHonest, InUse
<1> QED BY <1>1, InvariantHolds, PTL

(***************************************************************************)
(* A fetch that does not use the cache honours its source, and a process   *)
(* without a key brings the sample.                                        *)
(***************************************************************************)
THEOREM ForcedFetchGetsWhatItAsks == Spec => []ForcedFetchHonoursSource
<1>1. IInv => ForcedFetchHonoursSource
  BY DEF IInv, Collected, Carries, ForcedFetchHonoursSource
<1> QED BY <1>1, InvariantHolds, PTL

(***************************************************************************)
(* If chrono can represent the TTL, then a set whose save succeeded and    *)
(* met no other is used until it is older than the TTL.                    *)
(***************************************************************************)
THEOREM FreshSaveSparesFeeds ==
    ASSUME Ttl <= MaxTtl
    PROVE  Spec => FreshSaveIsReused
<1> DEFINE Spares ==
        \A r \in Requests :
            FetchAfresh(r) /\ ~local[r].force /\ clean # NoSet =>
                now > clean.fetched_at + Ttl
<1>1. IInv /\ [Next]_vars => [Spares]_vars
  <2> SUFFICES ASSUME IInv, NEW r \in Requests,
                      FetchAfresh(r), ~local[r].force, clean # NoSet
               PROVE  now > clean.fetched_at + Ttl
    OBVIOUS
  <2>1. file = clean /\ file \in Sets
    BY DEF IInv, TypeOK, SavesApart
  <2>2. Stale(file)
    BY <2>1 DEF FetchAfresh, Reusable
  <2>3. ~(Ttl > MaxTtl)
    OBVIOUS
  <2> QED BY <2>1, <2>2, <2>3 DEF Stale
<1> QED BY <1>1, InvariantHolds, PTL DEF Spec, FreshSaveIsReused

-----------------------------------------------------------------------------
(***************************************************************************)
(* The set in memory and the one in the cache file.                        *)
(***************************************************************************)

\* What r has put into the file is still there.
FileIsMine(r) ==
    /\ pc[r] = "write" => r \notin overlapped
    /\ pc[r] = "commit" => file = local[r].set

Alone == \A r \in UnderWay \ crossed : UnderWay = {r} /\ FileIsMine(r)

\* Of two fetches under way, each is crossed.
LEMMA NoOtherUnderWay ==
    ASSUME Alone, Cross, NEW r \in UnderWay' \ crossed'
    PROVE  /\ UnderWay' = {r}
           /\ r \in Requests
           /\ r \in UnderWay => UnderWay = {r} /\ FileIsMine(r)
           /\ \A q \in Requests : q # r => pc'[q] = "idle"
BY DEF Alone, Cross, UnderWay

\* A step that leaves a fetch under way and not crossed is its own.
LEMMA OwnStep ==
    ASSUME Alone, Cross, NEW q \in Requests, NEW r \in UnderWay' \ crossed',
           \A s \in Requests \ {q} : pc'[s] = pc[s],
           pc[q] # "idle" \/ pc'[q] # "idle"
    PROVE  q = r
<1> SUFFICES ASSUME q # r
             PROVE  FALSE
  OBVIOUS
<1>1. pc'[q] = "idle" /\ r \in Requests /\ pc'[r] = pc[r]
  BY NoOtherUnderWay
<1>2. r \in UnderWay
  BY <1>1 DEF UnderWay
<1>3. UnderWay = {r}
  BY <1>2, NoOtherUnderWay
<1> QED BY <1>1, <1>3 DEF UnderWay

\* No step of a fetch undoes what an uncrossed one has put into the file.
LEMMA FetchKeepsFile ==
    ASSUME TypeOK, Alone, NEW q \in Requests,
           \/ \E source \in Asked, force \in BOOLEAN : FetchStart(q, source, force)
           \/ Step(q) \/ FeedReplies(q) \/ Cancel(q),
           NEW r \in UnderWay' \ crossed'
    PROVE  FileIsMine(r)'
<1>1. /\ pc \in [Requests -> Labels]
      /\ local \in [Requests -> Locals]
  BY DEF TypeOK
<1>2. Cross
  BY DEF FetchStart, Step, UseCache, FetchAfresh, SkipFeed, Build, SampleFails,
         Truncate, Write, SaveFails, Commit, FeedReplies, FeedAnswers, FeedFails,
         Cancel
<1>3. /\ r \in Requests /\ pc'[r] # "idle"
      /\ r \in UnderWay => UnderWay = {r} /\ FileIsMine(r)
  BY <1>2, NoOtherUnderWay DEF UnderWay
<1>4. ASSUME pc[q] # "idle" \/ pc'[q] # "idle",
             \A s \in Requests \ {q} : pc'[s] = pc[s]
      PROVE  q = r
  BY <1>2, <1>4, OwnStep
<1>5. CASE \E source \in Asked, force \in BOOLEAN : FetchStart(q, source, force)
  <2>1. pc' = [pc EXCEPT ![q] = "check"]
    BY <1>5 DEF FetchStart, Goto
  <2>2. q = r
    BY <1>1, <1>4, <2>1
  <2> QED BY <1>1, <2>1, <2>2 DEF FileIsMine
<1>6. CASE UseCache(q)
  <2>1. /\ pc' = [pc EXCEPT ![q] = "commit"] /\ pc[q] # "idle"
        /\ local'[q].set = file /\ file' = file
    BY <1>1, <1>6 DEF UseCache, Goto, Locals
  <2>2. q = r
    BY <1>1, <1>4, <2>1
  <2> QED BY <1>1, <2>1, <2>2 DEF FileIsMine
<1>7. CASE \/ FetchAfresh(q) \/ Build(q) \/ FeedReplies(q)
           \/ \E feed \in Feeds : SkipFeed(q, feed)
  <2>1. PICK label \in {"ThreatFox", "URLhaus", "build", "truncate"} :
            pc' = [pc EXCEPT ![q] = label] /\ pc[q] # "idle"
    BY <1>7, AfterFeedLabels
       DEF FetchAfresh, Build, FeedReplies, FeedAnswers, FeedFails, Calls, SkipFeed,
           Goto, Feeds
  <2>2. q = r
    BY <1>1, <1>4, <2>1
  <2> QED BY <1>1, <2>1, <2>2 DEF FileIsMine
<1>8. CASE Truncate(q)
  <2>1. pc' = [pc EXCEPT ![q] = "write"] /\ pc[q] = "truncate"
    BY <1>8 DEF Truncate, Goto
  <2>2. q = r
    BY <1>1, <1>4, <2>1
  <2>3. Saving = {}
    BY <1>3, <2>1, <2>2 DEF Saving, UnderWay
  <2>4. r \notin overlapped'
    BY <1>8, <2>2, <2>3 DEF Truncate
  <2> QED BY <1>1, <2>1, <2>2, <2>4 DEF FileIsMine
<1>9. CASE Write(q)
  <2>1. /\ pc' = [pc EXCEPT ![q] = "commit"] /\ pc[q] = "write"
        /\ local' = local
    BY <1>9 DEF Write, Goto
  <2>2. q = r
    BY <1>1, <1>4, <2>1
  <2>3. r \notin overlapped
    BY <1>3, <2>1, <2>2 DEF FileIsMine, UnderWay
  <2>4. file' = local[r].set
    BY <1>9, <2>2, <2>3 DEF Write
  <2> QED BY <1>1, <2>1, <2>2, <2>4 DEF FileIsMine
<1>10. CASE SampleFails(q) \/ SaveFails(q) \/ Commit(q) \/ Cancel(q)
  <2>1. pc' = [pc EXCEPT ![q] = "idle"] /\ pc[q] # "idle"
    BY <1>10 DEF SampleFails, SaveFails, Commit, Cancel, Calls, Feeds, Finish, Goto
  <2>2. q = r
    BY <1>1, <1>4, <2>1
  <2> QED BY <1>1, <1>3, <2>1, <2>2
<1> QED BY <1>5, <1>6, <1>7, <1>8, <1>9, <1>10 DEF Step

\* Nor does the world around it.
LEMMA WorldKeepsFile ==
    ASSUME Alone, (\E p \in Processes : Crash(p)) \/ Tick \/ SetBack,
           NEW r \in UnderWay' \ crossed'
    PROVE  FileIsMine(r)'
<1>1. Cross
  BY DEF Crash, Tick, SetBack
<1>2. /\ r \in Requests /\ pc'[r] # "idle"
      /\ r \in UnderWay => UnderWay = {r} /\ FileIsMine(r)
  BY <1>1, NoOtherUnderWay DEF UnderWay
<1>3. CASE \E p \in Processes : Crash(p)
  <2>1. PICK p \in Processes : Crash(p)
    BY <1>3
  <2> DEFINE in == {s \in Requests : ProcessOf[s] = p}
  <2>2. /\ r \notin in
        /\ pc'[r] = pc[r] /\ local'[r] = local[r]
        /\ overlapped' = overlapped \ in
    BY <1>2, <2>1 DEF Crash
  <2>3. UnderWay = {r} /\ FileIsMine(r)
    BY <1>2, <2>2 DEF UnderWay
  <2>4. in \cap Saving = {}
    BY <2>2, <2>3 DEF Saving, UnderWay
  <2>5. file' = file
    BY <2>1, <2>4 DEF Crash
  <2> QED BY <2>2, <2>3, <2>5 DEF FileIsMine
<1>4. CASE Tick \/ SetBack
  <2>1. UNCHANGED <<pc, local, file, overlapped>>
    BY <1>4 DEF Tick, SetBack
  <2>2. FileIsMine(r)
    BY <1>2, <2>1 DEF UnderWay
  <2> QED BY <2>1, <2>2 DEF FileIsMine
<1> QED BY <1>3, <1>4

LEMMA StepKeepsAlone ==
    ASSUME TypeOK, Alone, Next
    PROVE  Alone'
<1>1. Cross
  BY DEF Next, FetchStart, Step, UseCache, FetchAfresh, SkipFeed, Build,
         SampleFails, Truncate, Write, SaveFails, Commit, FeedReplies,
         FeedAnswers, FeedFails, Cancel, Crash, Tick, SetBack
<1>2. ASSUME NEW r \in UnderWay' \ crossed'
      PROVE  UnderWay' = {r} /\ FileIsMine(r)'
  <2>1. UnderWay' = {r}
    BY <1>1, <1>2, NoOtherUnderWay
  <2>2. FileIsMine(r)'
    BY <1>2, FetchKeepsFile, WorldKeepsFile DEF Next
  <2> QED BY <2>1, <2>2
<1> QED BY <1>2 DEF Alone

\* A fetch that commits and is not crossed commits what is in the file.
LEMMA CommitsTheFile ==
    ASSUME TypeOK, Alone, NEW r \in Requests, Commit(r), r \notin crossed
    PROVE  memory'[ProcessOf[r]] = file'
<1>1. file = local[r].set /\ file' = file
  BY DEF Commit, Alone, UnderWay, FileIsMine
<1>2. ProcessOf[r] \in Processes /\ memory \in [Processes -> Sets \cup {NoSet}]
  BY ProcessAssumption DEF TypeOK
<1> QED BY <1>1, <1>2 DEF Commit

(***************************************************************************)
(* A fetch that no other one crossed, of any process, leaves in memory     *)
(* what is in the cache file (pipeline.rs:232 and 248), whatever failed.   *)
(***************************************************************************)
THEOREM MemoryAgreesWithFile == Spec => MemoryHoldsWhatIsCached
<1>1. Init => Alone
  BY DEF Init, Alone, UnderWay
<1>2. TypeOK /\ Alone /\ [Next]_vars => Alone'
  <2>1. ASSUME Alone, UNCHANGED vars
        PROVE  Alone'
    BY <2>1 DEF Alone, UnderWay, FileIsMine, vars
  <2> QED BY <2>1, StepKeepsAlone
<1>3. TypeOK /\ Alone =>
        [ \A r \in Requests :
            Commit(r) /\ r \notin crossed =>
                memory'[ProcessOf[r]] = file' ]_vars
  BY CommitsTheFile
<1> QED BY <1>1, <1>2, <1>3, TypeCorrect, PTL DEF Spec, MemoryHoldsWhatIsCached

=============================================================================
