------------------------------ MODULE Pipeline ------------------------------
(***************************************************************************)
(* The dashboard's requests at work on the shared store (pipeline.rs,      *)
(* api.rs, report.rs).                                                     *)
(*                                                                         *)
(* Every request is a future on tokio's multi-threaded runtime.  pc[r] is  *)
(* the place where r was last suspended, or the next statement inside a    *)
(* critical section: the assignments that a handler makes under a guard    *)
(* are separate steps here, so that it is the guard, and not the grain of  *)
(* the model, that keeps other requests out.  hyper drops the future of a  *)
(* client that disconnects; that happens at an await and nowhere else.     *)
(*                                                                         *)
(* A flow list or a signature set is a value without structure, and a list *)
(* of detections is the pair <<flows, signatures>> it was computed from:   *)
(* classify is a function of the two.                                      *)
(***************************************************************************)
EXTENDS StoreLock

CONSTANTS
    Captures,       \* names of capture files
    FlowLists,      \* the non-empty flow lists that ingestion can assemble
    NoFlows,        \* the empty flow list: the store's first, or a capture
                    \* of which no packet could be parsed
    SignatureSets,  \* the signature sets that a fetch can load
    None            \* the Option::None of the store's fields

ASSUME NoneAssumption == None \notin Captures \cup SignatureSets

ASSUME NoFlowsAssumption == NoFlows \notin FlowLists

VARIABLES
    flows,         \* Store.flows
    current_pcap,  \* Store.current_pcap
    signatures,    \* Store.signatures
    detections,    \* Store.detections: None when empty, or what they come from
    moments,       \* history: every <<flows, signatures>> the store has held
    pc,            \* pc[r] is what request r does next
    local          \* local[r] holds the local variables of request r

storeVars == <<flows, current_pcap, signatures, detections>>
vars == <<lockVars, storeVars, moments, pc, local>>

Moments == FlowLists \X SignatureSets

\* The locals of all handlers: the capture that an ingest names, the flows
\* and signatures that it assembled, fetched or cloned, and what a report
\* tallied.
NoLocals == [pcap |-> None, flows |-> NoFlows, sigs |-> None, tally |-> None]

\* Where a request waits for a guard, and which one.
WaitsFor == [
    l \in {"ingest:lock", "fetch:lock", "detect:lock",
           "detect:relock", "report:lock"} |->
        IF l \in {"detect:lock", "report:lock"} THEN "read" ELSE "write"]

\* What the holder of a guard may be about to do.
Reading == {"detect:sigs", "detect:flows", "report:tally", "report:fields"}
Writing == {"ingest:flows", "ingest:pcap", "ingest:clear",
            "fetch:store", "detect:store"}

Labels == {"idle", "ingest:read", "fetch:feeds", "detect:match"}
            \cup DOMAIN WaitsFor \cup Reading \cup Writing

TypeOK ==
    /\ LockTypeOK
    /\ flows \in FlowLists \cup {NoFlows}
    /\ current_pcap \in Captures \cup {None}
    /\ signatures \in SignatureSets \cup {None}
    /\ detections \in Moments \cup {None}
    /\ moments \subseteq
          (FlowLists \cup {NoFlows}) \X (SignatureSets \cup {None})
    /\ pc \in [Requests -> Labels]
    /\ local \in [Requests -> [
          pcap  : Captures \cup {None},
          flows : FlowLists \cup {NoFlows},
          sigs  : SignatureSets \cup {None},
          tally : Moments \cup {None}]]

Init ==
    /\ LockInit
    /\ flows = NoFlows
    /\ current_pcap = None
    /\ signatures = None
    /\ detections = None
    /\ moments = {<<NoFlows, None>>}
    /\ pc = [r \in Requests |-> "idle"]
    /\ local = [r \in Requests |-> NoLocals]

Goto(r, label) == pc' = [pc EXCEPT ![r] = label]

\* The handler returns, or its future is dropped.
Finish(r) ==
    /\ Goto(r, "idle")
    /\ local' = [local EXCEPT ![r] = NoLocals]

\* The request goes on to label, where it waits for a guard.
Await(r, label) ==
    /\ Join(r, WaitsFor[label])
    /\ Goto(r, label)

-----------------------------------------------------------------------------
(***************************************************************************)
(* POST /api/ingest: run_ingest                                            *)
(***************************************************************************)

IngestStart(r, capture) ==
    /\ pc[r] = "idle"
    /\ Goto(r, "ingest:read")
    /\ local' = [local EXCEPT ![r].pcap = capture]
    /\ UNCHANGED <<lockVars, storeVars, moments>>

\* The name resolves to no file, the file cannot be read, or it is no capture.
IngestFails(r) ==
    /\ pc[r] = "ingest:read"
    /\ Finish(r)
    /\ UNCHANGED <<lockVars, storeVars, moments>>

IngestAssembled(r, list) ==
    /\ pc[r] = "ingest:read"
    /\ Await(r, "ingest:lock")
    /\ local' = [local EXCEPT ![r].flows = list]
    /\ UNCHANGED <<storeVars, moments>>

IngestFlows(r) ==
    /\ pc[r] = "ingest:flows"
    /\ flows' = local[r].flows
    /\ moments' = moments \cup {<<local[r].flows, signatures>>}
    /\ Goto(r, "ingest:pcap")
    /\ UNCHANGED <<lockVars, current_pcap, signatures, detections, local>>

\* Mutant: a capture without flows does not become the current one.
IngestPcapUnlessEmpty(r) ==
    /\ pc[r] = "ingest:pcap"
    /\ current_pcap' = IF local[r].flows = NoFlows THEN current_pcap
                                                   ELSE local[r].pcap
    /\ Goto(r, "ingest:clear")
    /\ UNCHANGED <<lockVars, flows, signatures, detections, moments, local>>

IngestPcap(r) ==
    /\ pc[r] = "ingest:pcap"
    /\ current_pcap' = local[r].pcap
    /\ Goto(r, "ingest:clear")
    /\ UNCHANGED <<lockVars, flows, signatures, detections, moments, local>>

\* Mutant: the old detections stay.
IngestKeepsDetections(r) ==
    /\ pc[r] = "ingest:clear"
    /\ ReleaseWrite(r)
    /\ Finish(r)
    /\ UNCHANGED <<storeVars, moments>>

IngestClear(r) ==
    /\ pc[r] = "ingest:clear"
    /\ detections' = None
    /\ ReleaseWrite(r)
    /\ Finish(r)
    /\ UNCHANGED <<flows, current_pcap, signatures, moments>>

-----------------------------------------------------------------------------
(***************************************************************************)
(* POST /api/signatures/fetch: run_signature_fetch, as the store sees it.  *)
(* Where the set comes from is the subject of module SignatureCache.       *)
(***************************************************************************)

\* Mutant: the write guard is taken before the feeds are called.
FetchStartUnderGuard(r) ==
    /\ pc[r] = "idle"
    /\ writer = NoOne /\ readers = {} /\ Waiting = {}
    /\ writer' = r
    /\ Goto(r, "fetch:feeds")
    /\ UNCHANGED <<readers, wants, ahead, storeVars, moments, local>>

FetchStart(r) ==
    /\ pc[r] = "idle"
    /\ Goto(r, "fetch:feeds")
    /\ UNCHANGED <<lockVars, storeVars, moments, local>>

\* The offline sample cannot be loaded, or the cache file cannot be written.
FetchFails(r) ==
    /\ pc[r] = "fetch:feeds"
    /\ Finish(r)
    /\ UNCHANGED <<lockVars, storeVars, moments>>

FetchReady(r, set) ==
    /\ pc[r] = "fetch:feeds"
    /\ Await(r, "fetch:lock")
    /\ local' = [local EXCEPT ![r].sigs = set]
    /\ UNCHANGED <<storeVars, moments>>

FetchStore(r) ==
    /\ pc[r] = "fetch:store"
    /\ signatures' = local[r].sigs
    /\ moments' = moments \cup {<<flows, local[r].sigs>>}
    /\ ReleaseWrite(r)
    /\ Finish(r)
    /\ UNCHANGED <<flows, current_pcap, detections>>

-----------------------------------------------------------------------------
(***************************************************************************)
(* POST /api/detect: run_detection                                         *)
(***************************************************************************)

DetectStart(r) ==
    /\ pc[r] = "idle"
    /\ Await(r, "detect:lock")
    /\ UNCHANGED <<storeVars, moments, local>>

DetectRefused(r) ==
    /\ pc[r] = "detect:sigs"
    /\ flows = NoFlows \/ signatures = None
    /\ ReleaseRead(r)
    /\ Finish(r)
    /\ UNCHANGED <<storeVars, moments>>

\* Mutant: a run is not refused for want of flows or signatures.
DetectSignaturesUnchecked(r) ==
    /\ pc[r] = "detect:sigs"
    /\ local' = [local EXCEPT ![r].sigs = signatures]
    /\ Goto(r, "detect:flows")
    /\ UNCHANGED <<lockVars, storeVars, moments>>

\* Mutant: signatures and flows are cloned under a guard each.
DetectSignaturesThenRelease(r) ==
    /\ pc[r] = "detect:sigs"
    /\ flows # NoFlows
    /\ signatures # None
    /\ local' = [local EXCEPT ![r].sigs = signatures]
    /\ ReleaseRead(r)
    /\ Goto(r, "detect:flows")
    /\ UNCHANGED <<storeVars, moments>>

DetectSignatures(r) ==
    /\ pc[r] = "detect:sigs"
    /\ flows # NoFlows
    /\ signatures # None
    /\ local' = [local EXCEPT ![r].sigs = signatures]
    /\ Goto(r, "detect:flows")
    /\ UNCHANGED <<lockVars, storeVars, moments>>

\* Mutant: the read guard lives until the run ends.
DetectFlowsKeepsGuard(r) ==
    /\ pc[r] = "detect:flows"
    /\ local' = [local EXCEPT ![r].flows = flows]
    /\ Goto(r, "detect:match")
    /\ UNCHANGED <<lockVars, storeVars, moments>>

\* The block that holds the read guard ends here.
DetectFlows(r) ==
    /\ pc[r] = "detect:flows"
    /\ local' = [local EXCEPT ![r].flows = flows]
    /\ ReleaseRead(r)
    /\ Goto(r, "detect:match")
    /\ UNCHANGED <<storeVars, moments>>

\* The loop over the flows runs without a guard.
DetectMatched(r) ==
    /\ pc[r] = "detect:match"
    /\ Await(r, "detect:relock")
    /\ UNCHANGED <<storeVars, moments, local>>

\* The store is not looked at again before it is overwritten.
DetectStore(r) ==
    /\ pc[r] = "detect:store"
    /\ detections' = <<local[r].flows, local[r].sigs>>
    /\ ReleaseWrite(r)
    /\ Finish(r)
    /\ UNCHANGED <<flows, current_pcap, signatures, moments>>

-----------------------------------------------------------------------------
(***************************************************************************)
(* GET /api/report and /api/export: build_report under one read guard      *)
(***************************************************************************)

ReportStart(r) ==
    /\ pc[r] = "idle"
    /\ Await(r, "report:lock")
    /\ UNCHANGED <<storeVars, moments, local>>

\* Mutant: the tally is taken under a guard of its own.
ReportTallyThenRelease(r) ==
    /\ pc[r] = "report:tally"
    /\ local' = [local EXCEPT ![r].tally = detections]
    /\ ReleaseRead(r)
    /\ Goto(r, "report:fields")
    /\ UNCHANGED <<storeVars, moments>>

ReportTally(r) ==
    /\ pc[r] = "report:tally"
    /\ local' = [local EXCEPT ![r].tally = detections]
    /\ Goto(r, "report:fields")
    /\ UNCHANGED <<lockVars, storeVars, moments>>

\* The report's other fields are copied out of the store as it is now.
ReportFields(r) ==
    /\ pc[r] = "report:fields"
    /\ ReleaseRead(r)
    /\ Finish(r)
    /\ UNCHANGED <<storeVars, moments>>

-----------------------------------------------------------------------------
(***************************************************************************)
(* The runtime: it hands out guards, and drops the future of a client that *)
(* has gone away.                                                          *)
(***************************************************************************)

\* The statement that follows each wait.
Guarded == [
    l \in DOMAIN WaitsFor |->
        CASE l = "ingest:lock"   -> "ingest:flows"
          [] l = "fetch:lock"    -> "fetch:store"
          [] l = "detect:lock"   -> "detect:sigs"
          [] l = "detect:relock" -> "detect:store"
          [] l = "report:lock"   -> "report:tally"]

Grant(r) ==
    /\ pc[r] \in DOMAIN Guarded
    /\ GrantRead(r) \/ GrantWrite(r)
    /\ Goto(r, Guarded[pc[r]])
    /\ UNCHANGED <<storeVars, moments, local>>

Cancel(r) ==
    /\ pc[r] \in {"ingest:read", "fetch:feeds"} \cup DOMAIN WaitsFor
    /\ GiveUp(r)
    /\ Finish(r)
    /\ UNCHANGED <<storeVars, moments>>

-----------------------------------------------------------------------------
Start(r) ==
    \/ \E capture \in Captures : IngestStart(r, capture)
    \/ FetchStart(r)
    \/ DetectStart(r)
    \/ ReportStart(r)

Ingest(r) ==
    \/ IngestFails(r)
    \/ \E list \in FlowLists \cup {NoFlows} : IngestAssembled(r, list)
    \/ IngestFlows(r)
    \/ IngestPcap(r)
    \/ IngestClear(r)

FeedsAnswer(r) ==
    \/ FetchFails(r)
    \/ \E set \in SignatureSets : FetchReady(r, set)

Detect(r) ==
    \/ DetectRefused(r)
    \/ DetectSignatures(r)
    \/ DetectFlows(r)
    \/ DetectMatched(r)
    \/ DetectStore(r)

Report(r) == ReportTally(r) \/ ReportFields(r)

\* What the runtime does for a request without help from outside.
Progress(r) == Ingest(r) \/ FetchStore(r) \/ Detect(r) \/ Report(r) \/ Grant(r)

Next == \E r \in Requests :
    \/ Start(r)
    \/ FeedsAnswer(r)
    \/ Progress(r)
    \/ Cancel(r)

Spec == Init /\ [][Next]_vars

(***************************************************************************)
(* A ready future is polled eventually, a file is read eventually, and the *)
(* lock is fair.  Nothing obliges a client to send a request or to give    *)
(* one up, and nothing obliges a feed to answer: the HTTP clients of       *)
(* threatfox.rs and urlhaus.rs have no timeout.                            *)
(***************************************************************************)
FairSpec == Spec /\ \A r \in Requests : WF_vars(Progress(r))

-----------------------------------------------------------------------------
(***************************************************************************)
(* Properties                                                              *)
(***************************************************************************)

(***************************************************************************)
(* A request is between two statements of a critical section exactly when  *)
(* it holds the guard for it, and it waits for a guard exactly at the      *)
(* awaits; so no guard leaks when a request fails, returns or is dropped.  *)
(***************************************************************************)
LockDiscipline ==
    /\ Exclusive
    /\ readers = {r \in Requests : pc[r] \in Reading}
    /\ \A r \in Requests :
          /\ writer = r <=> pc[r] \in Writing
          /\ wants[r] = IF pc[r] \in DOMAIN WaitsFor
                        THEN WaitsFor[pc[r]] ELSE "none"

(***************************************************************************)
(* build_report counts the verdicts in one pass and copies the detections, *)
(* the capture's name and the signature metadata in another.  The counts   *)
(* are those of the detections that are copied with them.                  *)
(***************************************************************************)
ReportIsOneMoment ==
    \A r \in Requests :
        pc[r] = "report:fields" => local[r].tally = detections

(***************************************************************************)
(* run_detection clones the signatures and the flows one after the other.  *)
(* What it works on, and what it publishes, is a pair that the store held  *)
(* at one time: never the new flows with signatures from before, or the    *)
(* other way round.                                                        *)
(***************************************************************************)
DetectionsFromOneMoment ==
    /\ detections # None => detections \in moments
    /\ \A r \in Requests :
          pc[r] \in {"detect:match", "detect:relock", "detect:store"} =>
              <<local[r].flows, local[r].sigs>> \in moments

\* Other requests see the assignments of run_ingest all at once, when the
\* guard is released: this is the store they see from the first one on.
Ingesting(r) == pc[r] \in {"ingest:pcap", "ingest:clear"}

CommittedPcap ==
    IF \E r \in Requests : Ingesting(r) THEN local[writer].pcap
                                        ELSE current_pcap

CommittedDetections ==
    IF \E r \in Requests : Ingesting(r) THEN None ELSE detections

\* The detections that the store shows belong to the flows that it shows.
Coherent ==
    CommittedDetections # None => CommittedDetections[1] = flows

(***************************************************************************)
(* The store comes to show detections of other flows in one way only: a    *)
(* detection run stores its result although an ingest has replaced the     *)
(* flows that it cloned.  Neither an ingest nor a fetch does it, in        *)
(* whatever order they overlap with runs and reports, and a run that no    *)
(* ingest has overtaken does not either.                                   *)
(***************************************************************************)
OnlyOvertakenRunsMislabel ==
    [][ Coherent /\ ~Coherent' =>
          \E r \in Requests : DetectStore(r) /\ local[r].flows # flows ]_vars

(***************************************************************************)
(* Every request that does not wait for a feed ends, whatever the other    *)
(* requests do: no deadlock between the read guard and the write guard of  *)
(* one run or of several, no guard lost with a cancelled request, and no   *)
(* wait for a feed that never answers somebody else.                       *)
(***************************************************************************)
RequestsFinish ==
    \A r \in Requests :
        pc[r] \notin {"idle", "fetch:feeds"} ~> pc[r] = "idle"

(***************************************************************************)
(* The store, as its readers can see it, takes only the steps of the       *)
(* abstract specification.                                                 *)
(***************************************************************************)
Abstract == INSTANCE DetectionStore WITH
                current_pcap <- CommittedPcap,
                detections <- CommittedDetections

ImplementsDetectionStore == Abstract!Spec

(***************************************************************************)
(* models.rs calls a detection "the outcome of matching one flow against   *)
(* the current signature set".  A run that stores its detections would     *)
(* have matched against the set that is then in the store.                 *)
(***************************************************************************)
PublishedAgainstCurrentSet ==
    [][ \A r \in Requests : DetectStore(r) => local[r].sigs = signatures ]_vars

=============================================================================
