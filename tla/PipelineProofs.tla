--------------------------- MODULE PipelineProofs ---------------------------
(***************************************************************************)
(* What holds of Pipeline for any number of requests, captures, flow lists *)
(* and signature sets.                                                     *)
(*                                                                         *)
(* IInv is the inductive invariant.  The lock discipline makes the store a *)
(* constant for whoever holds a guard (the store has no other protection), *)
(* and so the values that a request cloned under one guard belong          *)
(* together.  What a request carries from one await to the next is         *)
(* LocalsOK; without it not even the type of the detections is inductive,  *)
(* for they are built from the locals of a run.                            *)
(***************************************************************************)
EXTENDS Pipeline, TLAPS

HasSnapshot(r) == pc[r] \in {"detect:match", "detect:relock", "detect:store"}

LocalsOK ==
    \A r \in Requests :
        /\ pc[r] \in {"ingest:read", "ingest:lock", "ingest:flows",
                      "ingest:pcap", "ingest:clear"} =>
              local[r].pcap \in Captures
        /\ pc[r] = "ingest:clear" => current_pcap = local[r].pcap
        /\ pc[r] \in {"fetch:lock", "fetch:store"} =>
              local[r].sigs \in SignatureSets
        /\ pc[r] = "detect:flows" =>
              /\ flows \in FlowLists
              /\ signatures \in SignatureSets
              /\ local[r].sigs = signatures
        /\ HasSnapshot(r) => <<local[r].flows, local[r].sigs>> \in Moments

IInv ==
    /\ TypeOK
    /\ LockDiscipline
    /\ <<flows, signatures>> \in moments
    /\ LocalsOK
    /\ ReportIsOneMoment
    /\ DetectionsFromOneMoment

\* The vocabulary that every step of the proofs speaks.
USE NoOneAssumption, NoneAssumption, NoFlowsAssumption
    DEF Labels, Reading, Writing, WaitsFor, Moments, NoLocals,
        lockVars, storeVars, Goto, Finish, Await, HasSnapshot

-----------------------------------------------------------------------------
(* The initial states, and one lemma for every action.                     *)

LEMMA InitEstablishes == Init => IInv
BY DEF Init, LockInit, IInv, TypeOK, LockTypeOK, LockDiscipline, Exclusive,
       LocalsOK, ReportIsOneMoment, DetectionsFromOneMoment

LEMMA IngestStartKeeps ==
    ASSUME IInv, NEW r \in Requests, NEW capture \in Captures,
           IngestStart(r, capture)
    PROVE  IInv'
<1> USE DEF IngestStart
<1>1. TypeOK'
  BY SMTT(30) DEF IInv, TypeOK, LockTypeOK
<1>2. LockDiscipline'
  BY DEF IInv, TypeOK, LockDiscipline, Exclusive
<1>3. LocalsOK'
  BY DEF IInv, TypeOK, LocalsOK
<1>4. /\ (<<flows, signatures>> \in moments)'
      /\ ReportIsOneMoment'
      /\ DetectionsFromOneMoment'
  BY DEF IInv, TypeOK, ReportIsOneMoment, DetectionsFromOneMoment
<1> QED BY <1>1, <1>2, <1>3, <1>4 DEF IInv

LEMMA IngestFailsKeeps ==
    ASSUME IInv, NEW r \in Requests, IngestFails(r)
    PROVE  IInv'
BY DEF IngestFails, IInv, TypeOK, LockTypeOK, LockDiscipline, Exclusive,
       LocalsOK, ReportIsOneMoment, DetectionsFromOneMoment

LEMMA IngestAssembledKeeps ==
    ASSUME IInv, NEW r \in Requests, NEW list \in FlowLists \cup {NoFlows},
           IngestAssembled(r, list)
    PROVE  IInv'
BY DEF IngestAssembled, Join, Waiting,
       IInv, TypeOK, LockTypeOK, LockDiscipline, Exclusive,
       LocalsOK, ReportIsOneMoment, DetectionsFromOneMoment

\* Nobody else is under a guard while r writes.
LEMMA WriterIsAlone ==
    ASSUME IInv, NEW r \in Requests, pc[r] \in Writing
    PROVE  /\ writer = r
           /\ \A q \in Requests \ {r} : pc[q] \notin Reading \cup Writing
BY DEF IInv, LockDiscipline, Exclusive

LEMMA IngestFlowsKeeps ==
    ASSUME IInv, NEW r \in Requests, IngestFlows(r)
    PROVE  IInv'
<1> USE DEF IngestFlows
<1>1. \A q \in Requests \ {r} : pc[q] \notin Reading \cup Writing
  BY WriterIsAlone
<1>2. TypeOK'
  BY DEF IInv, TypeOK, LockTypeOK
<1>3. LockDiscipline'
  BY DEF IInv, TypeOK, LockDiscipline, Exclusive
<1>4. LocalsOK'
  BY <1>1 DEF IInv, TypeOK, LocalsOK
<1>5. ReportIsOneMoment'
  BY <1>1 DEF IInv, TypeOK, ReportIsOneMoment
<1>6. (<<flows, signatures>> \in moments)' /\ DetectionsFromOneMoment'
  BY DEF IInv, TypeOK, DetectionsFromOneMoment
<1> QED BY <1>2, <1>3, <1>4, <1>5, <1>6 DEF IInv

LEMMA IngestPcapKeeps ==
    ASSUME IInv, NEW r \in Requests, IngestPcap(r)
    PROVE  IInv'
<1> USE DEF IngestPcap
<1>1. TypeOK'
  BY DEF IInv, TypeOK, LockTypeOK, LocalsOK
<1>2. LockDiscipline'
  BY DEF IInv, TypeOK, LockDiscipline, Exclusive
<1>3. LocalsOK'
  BY WriterIsAlone DEF IInv, TypeOK, LocalsOK
<1>4. /\ (<<flows, signatures>> \in moments)'
      /\ ReportIsOneMoment'
      /\ DetectionsFromOneMoment'
  BY DEF IInv, TypeOK, ReportIsOneMoment, DetectionsFromOneMoment
<1> QED BY <1>1, <1>2, <1>3, <1>4 DEF IInv

LEMMA IngestClearKeeps ==
    ASSUME IInv, NEW r \in Requests, IngestClear(r)
    PROVE  IInv'
<1> USE DEF IngestClear, ReleaseWrite
<1>1. /\ writer = r
      /\ \A q \in Requests \ {r} : pc[q] \notin Reading \cup Writing
  BY WriterIsAlone
<1>2. TypeOK'
  BY DEF IInv, TypeOK, LockTypeOK
<1>3. LockDiscipline'
  BY <1>1 DEF IInv, TypeOK, LockDiscipline, Exclusive
<1>4. ReportIsOneMoment'
  BY <1>1 DEF IInv, TypeOK, ReportIsOneMoment
<1>5. /\ (<<flows, signatures>> \in moments)'
      /\ LocalsOK'
      /\ DetectionsFromOneMoment'
  BY DEF IInv, TypeOK, LocalsOK, DetectionsFromOneMoment
<1> QED BY <1>2, <1>3, <1>4, <1>5 DEF IInv

LEMMA FetchStartKeeps ==
    ASSUME IInv, NEW r \in Requests, FetchStart(r)
    PROVE  IInv'
BY DEF FetchStart, IInv, TypeOK, LockTypeOK, LockDiscipline, Exclusive,
       LocalsOK, ReportIsOneMoment, DetectionsFromOneMoment

LEMMA FetchFailsKeeps ==
    ASSUME IInv, NEW r \in Requests, FetchFails(r)
    PROVE  IInv'
BY DEF FetchFails, IInv, TypeOK, LockTypeOK, LockDiscipline, Exclusive,
       LocalsOK, ReportIsOneMoment, DetectionsFromOneMoment

LEMMA FetchReadyKeeps ==
    ASSUME IInv, NEW r \in Requests, NEW set \in SignatureSets,
           FetchReady(r, set)
    PROVE  IInv'
BY DEF FetchReady, Join, Waiting,
       IInv, TypeOK, LockTypeOK, LockDiscipline, Exclusive,
       LocalsOK, ReportIsOneMoment, DetectionsFromOneMoment

LEMMA FetchStoreKeeps ==
    ASSUME IInv, NEW r \in Requests, FetchStore(r)
    PROVE  IInv'
<1> USE DEF FetchStore, ReleaseWrite
<1>1. /\ writer = r
      /\ \A q \in Requests \ {r} : pc[q] \notin Reading \cup Writing
  BY WriterIsAlone
<1>2. local[r].sigs \in SignatureSets
  BY DEF IInv, LocalsOK
<1>3. TypeOK'
  BY <1>2 DEF IInv, TypeOK, LockTypeOK
<1>4. LockDiscipline'
  BY <1>1 DEF IInv, TypeOK, LockDiscipline, Exclusive
<1>5. LocalsOK'
  BY <1>1 DEF IInv, TypeOK, LocalsOK
<1>6. /\ (<<flows, signatures>> \in moments)'
      /\ ReportIsOneMoment'
      /\ DetectionsFromOneMoment'
  BY DEF IInv, TypeOK, ReportIsOneMoment, DetectionsFromOneMoment
<1> QED BY <1>3, <1>4, <1>5, <1>6 DEF IInv

LEMMA DetectStartKeeps ==
    ASSUME IInv, NEW r \in Requests, DetectStart(r)
    PROVE  IInv'
BY DEF DetectStart, Join, Waiting,
       IInv, TypeOK, LockTypeOK, LockDiscipline, Exclusive,
       LocalsOK, ReportIsOneMoment, DetectionsFromOneMoment

LEMMA DetectRefusedKeeps ==
    ASSUME IInv, NEW r \in Requests, DetectRefused(r)
    PROVE  IInv'
BY DEF DetectRefused, ReleaseRead,
       IInv, TypeOK, LockTypeOK, LockDiscipline, Exclusive,
       LocalsOK, ReportIsOneMoment, DetectionsFromOneMoment

LEMMA DetectSignaturesKeeps ==
    ASSUME IInv, NEW r \in Requests, DetectSignatures(r)
    PROVE  IInv'
<1> USE DEF DetectSignatures
<1>1. TypeOK'
  BY SMTT(30) DEF IInv, TypeOK, LockTypeOK
<1>2. LockDiscipline'
  BY DEF IInv, TypeOK, LockDiscipline, Exclusive
<1>3. LocalsOK'
  BY DEF IInv, TypeOK, LocalsOK
<1>4. /\ (<<flows, signatures>> \in moments)'
      /\ ReportIsOneMoment'
      /\ DetectionsFromOneMoment'
  BY DEF IInv, TypeOK, ReportIsOneMoment, DetectionsFromOneMoment
<1> QED BY <1>1, <1>2, <1>3, <1>4 DEF IInv

LEMMA DetectFlowsKeeps ==
    ASSUME IInv, NEW r \in Requests, DetectFlows(r)
    PROVE  IInv'
<1> USE DEF DetectFlows, ReleaseRead
<1>1. /\ flows \in FlowLists
      /\ signatures \in SignatureSets
      /\ local[r].sigs = signatures
  BY DEF IInv, LocalsOK
<1>2. TypeOK'
  BY DEF IInv, TypeOK, LockTypeOK
<1>3. LockDiscipline'
  BY DEF IInv, TypeOK, LockDiscipline, Exclusive
<1>4. <<local'[r].flows, local'[r].sigs>> = <<flows, signatures>>
  BY <1>1 DEF IInv, TypeOK
<1>5. LocalsOK'
  <2> SUFFICES ASSUME NEW q \in Requests,
                      HasSnapshot(q)'
               PROVE  (<<local[q].flows, local[q].sigs>> \in Moments)'
    BY DEF IInv, TypeOK, LocalsOK
  <2>1. CASE q = r
    BY <2>1, <1>1, <1>4
  <2>2. CASE q # r
    BY <2>2 DEF IInv, TypeOK, LocalsOK
  <2> QED BY <2>1, <2>2
<1>6. /\ (<<flows, signatures>> \in moments)'
      /\ ReportIsOneMoment'
      /\ DetectionsFromOneMoment'
  BY SMTT(30), <1>4 DEF IInv, TypeOK, ReportIsOneMoment, DetectionsFromOneMoment
<1> QED BY <1>2, <1>3, <1>5, <1>6 DEF IInv

LEMMA DetectMatchedKeeps ==
    ASSUME IInv, NEW r \in Requests, DetectMatched(r)
    PROVE  IInv'
BY DEF DetectMatched, Join, Waiting,
       IInv, TypeOK, LockTypeOK, LockDiscipline, Exclusive,
       LocalsOK, ReportIsOneMoment, DetectionsFromOneMoment

LEMMA DetectStoreKeeps ==
    ASSUME IInv, NEW r \in Requests, DetectStore(r)
    PROVE  IInv'
<1> USE DEF DetectStore, ReleaseWrite
<1>1. /\ writer = r
      /\ \A q \in Requests \ {r} : pc[q] \notin Reading \cup Writing
  BY WriterIsAlone
<1>2. /\ <<local[r].flows, local[r].sigs>> \in Moments
      /\ <<local[r].flows, local[r].sigs>> \in moments
  BY DEF IInv, LocalsOK, DetectionsFromOneMoment
<1>3. TypeOK'
  BY <1>2 DEF IInv, TypeOK, LockTypeOK
<1>4. LockDiscipline'
  BY <1>1 DEF IInv, TypeOK, LockDiscipline, Exclusive
<1>5. ReportIsOneMoment'
  BY <1>1 DEF IInv, TypeOK, ReportIsOneMoment
<1>6. DetectionsFromOneMoment'
  BY <1>2 DEF IInv, TypeOK, DetectionsFromOneMoment
<1>7. (<<flows, signatures>> \in moments)' /\ LocalsOK'
  BY DEF IInv, TypeOK, LocalsOK
<1> QED BY <1>3, <1>4, <1>5, <1>6, <1>7 DEF IInv

LEMMA ReportStartKeeps ==
    ASSUME IInv, NEW r \in Requests, ReportStart(r)
    PROVE  IInv'
BY DEF ReportStart, Join, Waiting,
       IInv, TypeOK, LockTypeOK, LockDiscipline, Exclusive,
       LocalsOK, ReportIsOneMoment, DetectionsFromOneMoment

LEMMA ReportTallyKeeps ==
    ASSUME IInv, NEW r \in Requests, ReportTally(r)
    PROVE  IInv'
BY SMTT(30) DEF ReportTally, IInv, TypeOK, LockTypeOK, LockDiscipline, Exclusive,
       LocalsOK, ReportIsOneMoment, DetectionsFromOneMoment

LEMMA ReportFieldsKeeps ==
    ASSUME IInv, NEW r \in Requests, ReportFields(r)
    PROVE  IInv'
BY DEF ReportFields, ReleaseRead,
       IInv, TypeOK, LockTypeOK, LockDiscipline, Exclusive,
       LocalsOK, ReportIsOneMoment, DetectionsFromOneMoment

\* The lock hands out the guard that r waits for, and only when it is free.
LEMMA GrantKeeps ==
    ASSUME IInv, NEW r \in Requests, Grant(r)
    PROVE  IInv'
<1> USE DEF Grant, Guarded, LeaveQueue
<1>1. /\ writer = NoOne
      /\ \A q \in Requests : pc[q] \notin Writing
  BY DEF IInv, LockDiscipline, GrantRead, GrantWrite
<1>2. CASE GrantRead(r)
  <2> USE <1>2 DEF GrantRead
  <2>1. pc[r] \in {"detect:lock", "report:lock"}
    BY DEF IInv, LockDiscipline
  <2>2. pc'[r] \in Reading /\ pc'[r] # "detect:flows" /\ pc'[r] # "report:fields"
    BY <2>1 DEF IInv, TypeOK
  <2>3. TypeOK'
    BY <2>1 DEF IInv, TypeOK, LockTypeOK
  <2>4. LockDiscipline'
    BY <1>1, <2>2 DEF IInv, TypeOK, LockTypeOK, LockDiscipline, Exclusive
  <2>5. /\ (<<flows, signatures>> \in moments)'
        /\ LocalsOK'
        /\ ReportIsOneMoment'
        /\ DetectionsFromOneMoment'
    BY <2>2 DEF IInv, TypeOK, LocalsOK, ReportIsOneMoment,
                DetectionsFromOneMoment
  <2> QED BY <2>3, <2>4, <2>5 DEF IInv
<1>3. CASE GrantWrite(r)
  <2> USE <1>3 DEF GrantWrite
  <2>1. pc[r] \in {"ingest:lock", "fetch:lock", "detect:relock"}
    BY DEF IInv, LockDiscipline
  <2>2. TypeOK'
    BY <2>1 DEF IInv, TypeOK, LockTypeOK
  <2>3. LockDiscipline'
    BY <1>1, <2>1 DEF IInv, TypeOK, LockTypeOK, LockDiscipline, Exclusive
  <2>4. /\ (<<flows, signatures>> \in moments)'
        /\ LocalsOK'
        /\ ReportIsOneMoment'
        /\ DetectionsFromOneMoment'
    BY <2>1 DEF IInv, TypeOK, LocalsOK, ReportIsOneMoment,
                DetectionsFromOneMoment
  <2> QED BY <2>2, <2>3, <2>4 DEF IInv
<1> QED BY <1>2, <1>3

LEMMA CancelKeeps ==
    ASSUME IInv, NEW r \in Requests, Cancel(r)
    PROVE  IInv'
BY DEF Cancel, GiveUp, LeaveQueue,
       IInv, TypeOK, LockTypeOK, LockDiscipline, Exclusive,
       LocalsOK, ReportIsOneMoment, DetectionsFromOneMoment

\* A stuttering step.
LEMMA StutterKeeps ==
    ASSUME IInv, UNCHANGED vars
    PROVE  IInv'
BY DEF vars, IInv, TypeOK, LockTypeOK, LockDiscipline, Exclusive,
       LocalsOK, ReportIsOneMoment, DetectionsFromOneMoment

-----------------------------------------------------------------------------
(* The invariant, and the properties that follow from it.                  *)

THEOREM InvariantHolds == Spec => []IInv
<1>1. IInv /\ [Next]_vars => IInv'
  <2> SUFFICES ASSUME IInv, [Next]_vars
               PROVE  IInv'
    OBVIOUS
  <2>1. CASE UNCHANGED vars
    BY <2>1, StutterKeeps
  <2>2. ASSUME NEW r \in Requests, Start(r)
        PROVE  IInv'
    BY <2>2, IngestStartKeeps, FetchStartKeeps, DetectStartKeeps,
       ReportStartKeeps DEF Start
  <2>3. ASSUME NEW r \in Requests, FeedsAnswer(r)
        PROVE  IInv'
    BY <2>3, FetchFailsKeeps, FetchReadyKeeps DEF FeedsAnswer
  <2>4. ASSUME NEW r \in Requests, Ingest(r)
        PROVE  IInv'
    BY <2>4, IngestFailsKeeps, IngestAssembledKeeps, IngestFlowsKeeps,
       IngestPcapKeeps, IngestClearKeeps DEF Ingest
  <2>5. ASSUME NEW r \in Requests, Detect(r)
        PROVE  IInv'
    BY <2>5, DetectRefusedKeeps, DetectSignaturesKeeps, DetectFlowsKeeps,
       DetectMatchedKeeps, DetectStoreKeeps DEF Detect
  <2>6. ASSUME NEW r \in Requests, FetchStore(r) \/ Report(r) \/ Grant(r)
        PROVE  IInv'
    BY <2>6, FetchStoreKeeps, ReportTallyKeeps, ReportFieldsKeeps,
       GrantKeeps DEF Report
  <2>7. ASSUME NEW r \in Requests, Cancel(r)
        PROVE  IInv'
    BY <2>7, CancelKeeps
  <2> QED BY <2>1, <2>2, <2>3, <2>4, <2>5, <2>6, <2>7 DEF Next, Progress
<1> QED BY InitEstablishes, <1>1, PTL DEF Spec

(***************************************************************************)
(* Every variable keeps its type; in particular run_detection publishes    *)
(* nothing without flows or without signatures.                            *)
(***************************************************************************)
THEOREM TypeCorrect == Spec => []TypeOK
<1>1. IInv => TypeOK
  BY DEF IInv
<1> QED BY <1>1, InvariantHolds, PTL

(***************************************************************************)
(* A request is inside a critical section exactly when it holds the guard  *)
(* for it, and no guard leaks.                                             *)
(***************************************************************************)
THEOREM GuardsHeld == Spec => []LockDiscipline
<1>1. IInv => LockDiscipline
  BY DEF IInv
<1> QED BY <1>1, InvariantHolds, PTL

(***************************************************************************)
(* The counts of a report are those of the detections in it.               *)
(***************************************************************************)
THEOREM ReportsAgree == Spec => []ReportIsOneMoment
<1>1. IInv => ReportIsOneMoment
  BY DEF IInv
<1> QED BY <1>1, InvariantHolds, PTL

(***************************************************************************)
(* run_detection works on, and publishes, flows and signatures that the    *)
(* store held together.                                                    *)
(***************************************************************************)
THEOREM RunsSeeOneMoment == Spec => []DetectionsFromOneMoment
<1>1. IInv => DetectionsFromOneMoment
  BY DEF IInv
<1> QED BY <1>1, InvariantHolds, PTL

-----------------------------------------------------------------------------
(* The refinement of DetectionStore.                                       *)

\* While r ingests, r is the writer and what is shown is its result.
LEMMA ShownWhileIngesting ==
    ASSUME IInv, NEW r \in Requests, Ingesting(r)
    PROVE  /\ CommittedPcap = local[r].pcap
           /\ CommittedDetections = None
<1>1. writer = r
  BY WriterIsAlone DEF Ingesting
<1> QED BY <1>1 DEF CommittedPcap, CommittedDetections

\* While nobody does, the store is shown as it is.
LEMMA ShownAtRest ==
    ASSUME \A r \in Requests : ~Ingesting(r)
    PROVE  /\ CommittedPcap = current_pcap
           /\ CommittedDetections = detections
BY DEF CommittedPcap, CommittedDetections

\* A step of r outside its critical section for writing shows nobody anything.
LEMMA QuietStep ==
    ASSUME IInv, IInv', NEW r \in Requests,
           UNCHANGED <<storeVars, moments>>,
           ~Ingesting(r), ~Ingesting(r)',
           \A q \in Requests \ {r} : pc'[q] = pc[q] /\ local'[q] = local[q]
    PROVE  UNCHANGED Abstract!vars
<1> USE DEF Abstract!vars
<1>1. CASE \A q \in Requests : ~Ingesting(q)
  <2>1. \A q \in Requests : ~Ingesting(q)'
    BY <1>1 DEF Ingesting
  <2> QED BY <1>1, <2>1 DEF CommittedPcap, CommittedDetections
<1>2. ASSUME NEW q \in Requests, Ingesting(q)
      PROVE  UNCHANGED Abstract!vars
  <2>1. q # r /\ Ingesting(q)'
    BY <1>2 DEF Ingesting
  <2>2. writer = q /\ writer' = q
    BY <1>2, <2>1 DEF IInv, LockDiscipline, Ingesting
  <2> QED BY <1>2, <2>1, <2>2 DEF CommittedPcap, CommittedDetections
<1> QED BY <1>1, <1>2

\* The first assignment of run_ingest shows the whole ingest ...
LEMMA IngestFlowsShows ==
    ASSUME IInv, IInv', NEW r \in Requests, IngestFlows(r)
    PROVE  \E capture \in Captures, list \in FlowLists \cup {NoFlows} :
              Abstract!Ingest(capture, list)
<1>1. local[r].pcap \in Captures /\ local[r].flows \in FlowLists \cup {NoFlows}
  BY DEF IngestFlows, IInv, TypeOK, LocalsOK
<1>2. Ingesting(r)'
  BY DEF IngestFlows, Ingesting, IInv, TypeOK
<1>3. CommittedPcap' = local[r].pcap /\ CommittedDetections' = None
  <2>1. writer' = r
    BY <1>2 DEF IInv, LockDiscipline, Ingesting
  <2> QED BY <1>2, <2>1 DEF CommittedPcap, CommittedDetections, IngestFlows
<1> QED BY <1>1, <1>3 DEF Abstract!Ingest, IngestFlows

\* ... and the two that follow show nothing more.
LEMMA IngestPcapShowsNothing ==
    ASSUME IInv, IInv', NEW r \in Requests, IngestPcap(r)
    PROVE  UNCHANGED Abstract!vars
<1>1. Ingesting(r) /\ Ingesting(r)'
  BY DEF IngestPcap, Ingesting, IInv, TypeOK
<1>2. writer = r /\ writer' = r
  BY <1>1 DEF IInv, LockDiscipline, Ingesting
<1> QED BY <1>1, <1>2 DEF Abstract!vars, CommittedPcap, CommittedDetections,
                          IngestPcap

LEMMA IngestClearShowsNothing ==
    ASSUME IInv, IInv', NEW r \in Requests, IngestClear(r)
    PROVE  UNCHANGED Abstract!vars
<1>1. Ingesting(r) /\ current_pcap = local[r].pcap
  BY DEF IngestClear, Ingesting, IInv, LocalsOK
<1>2. \A q \in Requests : ~Ingesting(q)'
  BY WriterIsAlone DEF IngestClear, Ingesting, IInv, TypeOK
<1>3. CommittedPcap = local[r].pcap /\ CommittedDetections = None
  BY <1>1, ShownWhileIngesting
<1>4. CommittedPcap' = current_pcap' /\ CommittedDetections' = detections'
  BY <1>2 DEF CommittedPcap, CommittedDetections
<1> QED BY <1>1, <1>3, <1>4 DEF Abstract!vars, IngestClear

\* Nobody ingests while somebody else writes.
LEMMA OtherWriter ==
    ASSUME IInv, NEW r \in Requests, pc[r] \in {"fetch:store", "detect:store"}
    PROVE  \A q \in Requests : ~Ingesting(q)
BY WriterIsAlone DEF Ingesting

LEMMA FetchStoreShows ==
    ASSUME IInv, IInv', NEW r \in Requests, FetchStore(r)
    PROVE  \E set \in SignatureSets : Abstract!LoadSignatures(set)
<1>1. local[r].sigs \in SignatureSets
  BY DEF FetchStore, IInv, LocalsOK
<1>2. \A q \in Requests : ~Ingesting(q)
  BY OtherWriter DEF FetchStore
<1>3. \A q \in Requests : ~Ingesting(q)'
  BY <1>2 DEF FetchStore, Ingesting, IInv, TypeOK
<1>4. UNCHANGED <<CommittedPcap, CommittedDetections>>
  BY <1>2, <1>3 DEF CommittedPcap, CommittedDetections, FetchStore
<1> QED BY <1>1, <1>4 DEF Abstract!LoadSignatures, FetchStore

LEMMA DetectStoreShows ==
    ASSUME IInv, IInv', NEW r \in Requests, DetectStore(r)
    PROVE  \E moment \in Moments : Abstract!PublishDetections(moment)
<1> DEFINE moment == <<local[r].flows, local[r].sigs>>
<1>1. moment \in Moments /\ moment \in moments
  BY DEF DetectStore, IInv, LocalsOK, DetectionsFromOneMoment
<1>2. \A q \in Requests : ~Ingesting(q)
  BY OtherWriter DEF DetectStore
<1>3. \A q \in Requests : ~Ingesting(q)'
  BY <1>2 DEF DetectStore, Ingesting, IInv, TypeOK
<1>4. CommittedPcap' = CommittedPcap /\ CommittedDetections' = moment
  BY <1>2, <1>3 DEF CommittedPcap, CommittedDetections, DetectStore
<1>5. Abstract!PublishDetections(moment)
  BY <1>1, <1>4 DEF Abstract!PublishDetections, DetectStore
<1> QED BY <1>1, <1>5

\* What the readers of the store can see of a step.
Shows(r) ==
    \/ UNCHANGED Abstract!vars
    \/ \E capture \in Captures, list \in FlowLists \cup {NoFlows} :
          Abstract!Ingest(capture, list)
    \/ \E set \in SignatureSets : Abstract!LoadSignatures(set)
    \/ /\ DetectStore(r)
       /\ \E moment \in Moments : Abstract!PublishDetections(moment)

LEMMA StepShows ==
    ASSUME IInv, IInv', NEW r \in Requests,
           Start(r) \/ FeedsAnswer(r) \/ Progress(r) \/ Cancel(r)
    PROVE  Shows(r)
<1>1. CASE Start(r)
  <2>1. /\ UNCHANGED <<storeVars, moments>>
        /\ ~Ingesting(r) /\ ~Ingesting(r)'
        /\ \A q \in Requests \ {r} : pc'[q] = pc[q] /\ local'[q] = local[q]
    BY <1>1 DEF Start, IngestStart, FetchStart, DetectStart, ReportStart,
                Ingesting, IInv, TypeOK
  <2> QED BY <2>1, QuietStep DEF Shows
<1>2. CASE FeedsAnswer(r)
  <2>1. /\ UNCHANGED <<storeVars, moments>>
        /\ ~Ingesting(r) /\ ~Ingesting(r)'
        /\ \A q \in Requests \ {r} : pc'[q] = pc[q] /\ local'[q] = local[q]
    BY <1>2 DEF FeedsAnswer, FetchFails, FetchReady, Ingesting, IInv, TypeOK
  <2> QED BY <2>1, QuietStep DEF Shows
<1>3. CASE Ingest(r)
  <2>1. CASE IngestFails(r) \/ \E list \in FlowLists \cup {NoFlows} :
                                  IngestAssembled(r, list)
    <3>1. /\ UNCHANGED <<storeVars, moments>>
          /\ ~Ingesting(r) /\ ~Ingesting(r)'
          /\ \A q \in Requests \ {r} : pc'[q] = pc[q] /\ local'[q] = local[q]
      BY <2>1 DEF IngestFails, IngestAssembled, Ingesting, IInv, TypeOK
    <3> QED BY <3>1, QuietStep DEF Shows
  <2>2. CASE IngestFlows(r)
    BY <2>2, IngestFlowsShows DEF Shows
  <2>3. CASE IngestPcap(r)
    BY <2>3, IngestPcapShowsNothing DEF Shows
  <2>4. CASE IngestClear(r)
    BY <2>4, IngestClearShowsNothing DEF Shows
  <2> QED BY <1>3, <2>1, <2>2, <2>3, <2>4 DEF Ingest
<1>4. CASE FetchStore(r)
  BY <1>4, FetchStoreShows DEF Shows
<1>5. CASE Detect(r)
  <2>1. CASE DetectStore(r)
    BY <2>1, DetectStoreShows DEF Shows
  <2>2. CASE ~DetectStore(r)
    <3>1. /\ UNCHANGED <<storeVars, moments>>
          /\ ~Ingesting(r) /\ ~Ingesting(r)'
          /\ \A q \in Requests \ {r} : pc'[q] = pc[q] /\ local'[q] = local[q]
      BY <1>5, <2>2 DEF Detect, DetectRefused, DetectSignatures, DetectFlows,
                        DetectMatched, Ingesting, IInv, TypeOK
    <3> QED BY <3>1, QuietStep DEF Shows
  <2> QED BY <2>1, <2>2
<1>6. CASE Report(r)
  <2>1. /\ UNCHANGED <<storeVars, moments>>
        /\ ~Ingesting(r) /\ ~Ingesting(r)'
        /\ \A q \in Requests \ {r} : pc'[q] = pc[q] /\ local'[q] = local[q]
    BY <1>6 DEF Report, ReportTally, ReportFields, Ingesting, IInv, TypeOK
  <2> QED BY <2>1, QuietStep DEF Shows
<1>7. CASE Grant(r)
  <2>1. /\ UNCHANGED <<storeVars, moments>>
        /\ ~Ingesting(r) /\ ~Ingesting(r)'
        /\ \A q \in Requests \ {r} : pc'[q] = pc[q] /\ local'[q] = local[q]
    BY <1>7 DEF Grant, Guarded, Ingesting, IInv, TypeOK
  <2> QED BY <2>1, QuietStep DEF Shows
<1>8. CASE Cancel(r)
  <2>1. /\ UNCHANGED <<storeVars, moments>>
        /\ ~Ingesting(r) /\ ~Ingesting(r)'
        /\ \A q \in Requests \ {r} : pc'[q] = pc[q] /\ local'[q] = local[q]
    BY <1>8 DEF Cancel, Ingesting, IInv, TypeOK
  <2> QED BY <2>1, QuietStep DEF Shows
<1> QED BY <1>1, <1>2, <1>3, <1>4, <1>5, <1>6, <1>7, <1>8 DEF Progress

\* A stuttering step is quiet too.
LEMMA StutterShowsNothing ==
    ASSUME UNCHANGED vars
    PROVE  UNCHANGED Abstract!vars
BY DEF vars, Abstract!vars, CommittedPcap, CommittedDetections, Ingesting

(***************************************************************************)
(* Whatever requests there are and however they interleave, the dashboard  *)
(* sees a store that changes in the three atomic steps of DetectionStore.  *)
(***************************************************************************)
THEOREM Refinement == Spec => ImplementsDetectionStore
<1>1. Init => Abstract!Init
  BY DEF Init, Abstract!Init, CommittedPcap, CommittedDetections, Ingesting
<1>2. IInv /\ IInv' /\ [Next]_vars => [Abstract!Next]_(Abstract!vars)
  <2> SUFFICES ASSUME IInv, IInv', [Next]_vars
               PROVE  [Abstract!Next]_(Abstract!vars)
    OBVIOUS
  <2>1. CASE UNCHANGED vars
    BY <2>1, StutterShowsNothing
  <2>2. ASSUME NEW r \in Requests,
               Start(r) \/ FeedsAnswer(r) \/ Progress(r) \/ Cancel(r)
        PROVE  [Abstract!Next]_(Abstract!vars)
    <3>1. Shows(r)
      BY <2>2, StepShows
    <3> QED BY <3>1 DEF Shows, Abstract!Next
  <2> QED BY <2>1, <2>2 DEF Next
<1> QED BY <1>1, <1>2, InvariantHolds, PTL
       DEF Spec, ImplementsDetectionStore, Abstract!Spec

(***************************************************************************)
(* Detections of other flows than those in the store appear in one way     *)
(* only: run_detection stores a result that an ingest has overtaken.       *)
(***************************************************************************)
THEOREM OnlyOvertakenRuns == Spec => OnlyOvertakenRunsMislabel
<1> DEFINE Mislabels ==
        Coherent /\ ~Coherent' =>
            \E r \in Requests : DetectStore(r) /\ local[r].flows # flows
<1>1. IInv /\ IInv' /\ [Next]_vars => [Mislabels]_vars
  <2> SUFFICES ASSUME IInv, IInv', Next, Coherent, ~Coherent'
               PROVE  \E r \in Requests :
                         DetectStore(r) /\ local[r].flows # flows
    OBVIOUS
  <2>1. PICK r \in Requests :
            Start(r) \/ FeedsAnswer(r) \/ Progress(r) \/ Cancel(r)
    BY DEF Next
  <2>2. Shows(r)
    BY <2>1, StepShows
  <2>3. DetectStore(r)
    BY <2>2 DEF Shows, Coherent, Abstract!vars, Abstract!Ingest,
                Abstract!LoadSignatures
  <2>4. /\ flows' = flows
        /\ CommittedDetections' = <<local[r].flows, local[r].sigs>>
    <3>1. \A q \in Requests : ~Ingesting(q)'
      BY <2>3, OtherWriter DEF DetectStore, Ingesting, IInv, TypeOK
    <3> QED BY <2>3, <3>1 DEF DetectStore, CommittedDetections
  <2> QED BY <2>3, <2>4 DEF Coherent
<1> QED BY <1>1, InvariantHolds, PTL DEF Spec, OnlyOvertakenRunsMislabel

=============================================================================
