------------------------------ MODULE MCUploads ------------------------------
(***************************************************************************)
(* Uploads with a plain name, one that a sample has, and one with two      *)
(* dots; with a capture of one block and one of two.                       *)
(***************************************************************************)
EXTENDS Uploads

CONSTANTS plain, bundled, dotted, short, long

MCSize == [c \in {short, long} |-> IF c = short THEN 1 ELSE 2]
MCSampleOf == [n \in {bundled} |-> long]

=============================================================================
