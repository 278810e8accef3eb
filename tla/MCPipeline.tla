----------------------------- MODULE MCPipeline -----------------------------
(* Small instances of Pipeline for TLC. *)
EXTENDS Pipeline, TLC

\* No action tells two requests, captures, flow lists or signature sets apart.
Symmetry ==
    Permutations(Requests) \cup Permutations(Captures)
        \cup Permutations(FlowLists) \cup Permutations(SignatureSets)

=============================================================================
