--------------------------- MODULE DetectionStore ---------------------------
(***************************************************************************)
(* What the store promises the dashboard, without locks, awaits or         *)
(* partial updates.                                                        *)
(*                                                                         *)
(* Each of the three pipeline steps changes the store in one step.  An     *)
(* ingest replaces the flows, the capture's name and the detections        *)
(* together.  A detection run publishes the verdicts of one moment: a flow *)
(* list and a signature set that the store once held at the same time.     *)
(* The promise goes no further: nothing says that the moment is the        *)
(* present one.                                                            *)
(***************************************************************************)

CONSTANTS
    Captures,       \* names of capture files
    FlowLists,      \* the non-empty flow lists that ingestion can assemble
    NoFlows,        \* the empty flow list
    SignatureSets,  \* the signature sets that a fetch can load
    None            \* the Option::None of the store's fields

VARIABLES
    flows,         \* Store.flows
    current_pcap,  \* Store.current_pcap
    signatures,    \* Store.signatures
    detections,    \* Store.detections: None, or the moment they come from
    moments        \* every <<flows, signatures>> that the store has held

vars == <<flows, current_pcap, signatures, detections, moments>>

Init ==
    /\ flows = NoFlows
    /\ current_pcap = None
    /\ signatures = None
    /\ detections = None
    /\ moments = {<<NoFlows, None>>}

Ingest(capture, list) ==
    /\ flows' = list
    /\ current_pcap' = capture
    /\ detections' = None
    /\ moments' = moments \cup {<<list, signatures>>}
    /\ UNCHANGED signatures

LoadSignatures(set) ==
    /\ signatures' = set
    /\ moments' = moments \cup {<<flows, set>>}
    /\ UNCHANGED <<flows, current_pcap, detections>>

PublishDetections(moment) ==
    /\ moment \in moments
    /\ detections' = moment
    /\ UNCHANGED <<flows, current_pcap, signatures, moments>>

Next ==
    \/ \E capture \in Captures, list \in FlowLists \cup {NoFlows} :
          Ingest(capture, list)
    \/ \E set \in SignatureSets : LoadSignatures(set)
    \/ \E moment \in FlowLists \X SignatureSets : PublishDetections(moment)

Spec == Init /\ [][Next]_vars

=============================================================================
