----------------------------- MODULE StoreLock -----------------------------
(***************************************************************************)
(* The lock around the shared store: `store: RwLock<Store>` of AppState.   *)
(*                                                                         *)
(* The lock is tokio's, not this repository's.  It is modelled from how    *)
(* pipeline.rs and api.rs use it: `read().await` and `write().await` join  *)
(* one first-come-first-served queue, a guard is released when it goes out *)
(* of scope, and a request whose future is dropped leaves the queue.       *)
(*                                                                         *)
(* The queue is kept as the set `ahead[r]` of the requests that joined     *)
(* before r and still wait.                                                *)
(***************************************************************************)

CONSTANTS
    Requests,  \* slots for the HTTP requests that are in flight
    NoOne      \* not a request: nobody holds the write guard

ASSUME NoOneAssumption == NoOne \notin Requests

VARIABLES
    writer,   \* the request that holds the write guard, or NoOne
    readers,  \* the requests that hold a read guard
    wants,    \* wants[r] is the guard r waits for, or "none"
    ahead     \* ahead[r] is the set of waiting requests that r queues behind

lockVars == <<writer, readers, wants, ahead>>

LockTypeOK ==
    /\ writer \in Requests \cup {NoOne}
    /\ readers \in SUBSET Requests
    /\ wants \in [Requests -> {"none", "read", "write"}]
    /\ ahead \in [Requests -> SUBSET Requests]

LockInit ==
    /\ writer = NoOne
    /\ readers = {}
    /\ wants = [r \in Requests |-> "none"]
    /\ ahead = [r \in Requests |-> {}]

Waiting == {r \in Requests : wants[r] # "none"}

\* `read().await` or `write().await` is first polled: r joins the queue.
Join(r, guard) ==
    /\ wants[r] = "none"
    /\ wants' = [wants EXCEPT ![r] = guard]
    /\ ahead' = [ahead EXCEPT ![r] = Waiting]
    /\ UNCHANGED <<writer, readers>>

LeaveQueue(r) ==
    /\ wants' = [wants EXCEPT ![r] = "none"]
    /\ ahead' = [q \in Requests |-> IF q = r THEN {} ELSE ahead[q] \ {r}]

\* The head of the queue gets a read guard as soon as nobody writes ...
GrantRead(r) ==
    /\ wants[r] = "read"
    /\ ahead[r] = {}
    /\ writer = NoOne
    /\ readers' = readers \cup {r}
    /\ LeaveQueue(r)
    /\ UNCHANGED writer

\* ... and the write guard as soon as nobody reads or writes.
GrantWrite(r) ==
    /\ wants[r] = "write"
    /\ ahead[r] = {}
    /\ writer = NoOne
    /\ readers = {}
    /\ writer' = r
    /\ LeaveQueue(r)
    /\ UNCHANGED readers

ReleaseRead(r) ==
    /\ readers' = readers \ {r}
    /\ UNCHANGED <<writer, wants, ahead>>

ReleaseWrite(r) ==
    /\ writer' = NoOne
    /\ UNCHANGED <<readers, wants, ahead>>

\* The future that waits is dropped before it got the guard.
GiveUp(r) ==
    /\ LeaveQueue(r)
    /\ UNCHANGED <<writer, readers>>

\* A writer excludes everybody else.
Exclusive == writer # NoOne => readers = {}

=============================================================================
