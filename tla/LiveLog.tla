------------------------------- MODULE LiveLog -------------------------------
(***************************************************************************)
(* What the pipeline activity log of a page promises.  A page shows events *)
(* in the order in which the server emitted them and none of them twice.   *)
(* An event in between may be missing only because it was emitted before   *)
(* the page last joined, or because so many came after it that the server  *)
(* no longer keeps it.                                                     *)
(***************************************************************************)
EXTENDS Naturals, Sequences

CONSTANTS
    Pages,     \* the pages that are open in browsers
    Capacity,  \* the events that the server keeps
    MaxEvents  \* bound: the events that are emitted

VARIABLES
    sent,      \* events are numbered; this is the number of the last one
    rows,      \* what each page has shown
    joined     \* the number of the last event before the page joined

vars == <<sent, rows, joined>>

\* The last of some events that stand in order.
LastOf(events) == IF events = <<>> THEN 0 ELSE events[Len(events)]

Init ==
    /\ sent = 0
    /\ rows = [p \in Pages |-> <<>>]
    /\ joined = [p \in Pages |-> 0]

Emit ==
    /\ sent < MaxEvents
    /\ sent' = sent + 1
    /\ UNCHANGED <<rows, joined>>

Join(p) ==
    /\ joined' = [joined EXCEPT ![p] = sent]
    /\ UNCHANGED <<sent, rows>>

\* Another page of the dashboard is opened in its place.
Clear(p) ==
    /\ rows' = [rows EXCEPT ![p] = <<>>]
    /\ UNCHANGED <<sent, joined>>

MayMiss(p, e) == e <= joined[p] \/ e + Capacity <= sent

Show(p, e) ==
    /\ LastOf(rows[p]) < e
    /\ \A missed \in LastOf(rows[p]) + 1 .. e - 1 : MayMiss(p, missed)
    /\ rows' = [rows EXCEPT ![p] = Append(@, e)]
    /\ UNCHANGED <<sent, joined>>

Next ==
    \/ Emit
    \/ \E p \in Pages :
          Join(p) \/ Clear(p) \/ \E e \in 1 .. sent : Show(p, e)

Spec == Init /\ [][Next]_vars

=============================================================================
