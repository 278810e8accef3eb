-------------------------- MODULE MCSignatureCache --------------------------
(* Small instances of SignatureCache for TLC. *)
EXTENDS SignatureCache

CONSTANTS f1, f2, server, cli

\* A fetch of the server and one of a headless run.
MCProcessOf == [r \in Requests |-> IF r = f2 THEN cli ELSE server]

=============================================================================
