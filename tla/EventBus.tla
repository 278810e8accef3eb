------------------------------ MODULE EventBus ------------------------------
(***************************************************************************)
(* The way of an event from the pipeline to the page: the broadcast        *)
(* channel of AppState (pipeline.rs, events.rs), the stream of sse_events  *)
(* (api.rs), the connection to the browser and the console of app.js.      *)
(*                                                                         *)
(* The channel is tokio's.  It keeps the last events in a ring, a sender   *)
(* never waits for a reader, and a reader that is too slow is told that it *)
(* lags and goes on with the oldest event that is kept.                    *)
(***************************************************************************)
EXTENDS Naturals, Sequences

CONSTANTS
    Pages,         \* the pages that are open in browsers
    Capacity,      \* broadcast::channel(512)
    WireCapacity,  \* bound: the events that a connection takes ahead
    ConsoleRows,   \* the rows that the console displays: 200
    MaxEvents      \* bound: the events that are emitted

ASSUME BusAssumption ==
    /\ Capacity \in Nat \ {0}
    /\ WireCapacity \in Nat \ {0}
    /\ ConsoleRows \in Nat \ {0}
    /\ MaxEvents \in Nat

VARIABLES
    sent,    \* events are numbered; this is the number of the last one
    open,    \* the pages whose event stream is connected
    cursor,  \* the next event of each page's Receiver
    wire,    \* the events that were written and have not arrived yet
    rows,    \* rows of mountConsole
    joined   \* history: the last event before the page subscribed

vars == <<sent, open, cursor, wire, rows, joined>>

Init ==
    /\ sent = 0
    /\ open = {}
    /\ cursor = [p \in Pages |-> 1]
    /\ wire = [p \in Pages |-> <<>>]
    /\ rows = [p \in Pages |-> <<>>]
    /\ joined = [p \in Pages |-> 0]

\* AppState::emit and emit_detail: whoever is subscribed, or nobody.
Emit ==
    /\ sent < MaxEvents
    /\ sent' = sent + 1
    /\ UNCHANGED <<open, cursor, wire, rows, joined>>

\* Mutant: the stream begins with the oldest event that is kept.
SubscribeToOldest(p) ==
    /\ p \notin open
    /\ open' = open \cup {p}
    /\ cursor' = [cursor EXCEPT
                    ![p] = IF sent < Capacity THEN 1 ELSE sent - Capacity + 1]
    /\ joined' = [joined EXCEPT ![p] = sent]
    /\ UNCHANGED <<sent, wire, rows>>

\* Mutant: the request of the stream is not repeated.
SubscribeOnce(p) ==
    /\ p \notin open
    /\ rows[p] = <<>>
    /\ open' = open \cup {p}
    /\ cursor' = [cursor EXCEPT ![p] = sent + 1]
    /\ joined' = [joined EXCEPT ![p] = sent]
    /\ UNCHANGED <<sent, wire, rows>>

\* sse_events, when a page is opened or when its EventSource tries again.
Subscribe(p) ==
    /\ p \notin open
    /\ open' = open \cup {p}
    /\ cursor' = [cursor EXCEPT ![p] = sent + 1]
    /\ joined' = [joined EXCEPT ![p] = sent]
    /\ UNCHANGED <<sent, wire, rows>>

\* The event at the cursor has been overwritten.
Lags(p) == cursor[p] + Capacity <= sent

\* The stream is polled while the connection takes more.
Polled(p) == p \in open /\ Len(wire[p]) < WireCapacity

\* Mutant: a reader that lags goes on with the newest event.
SkipToNewest(p) ==
    /\ Polled(p)
    /\ Lags(p)
    /\ cursor' = [cursor EXCEPT ![p] = sent]
    /\ UNCHANGED <<sent, open, wire, rows, joined>>

\* Err(_lagged) => None: nobody is told what was lost.
Skip(p) ==
    /\ Polled(p)
    /\ Lags(p)
    /\ cursor' = [cursor EXCEPT ![p] = sent - Capacity + 1]
    /\ UNCHANGED <<sent, open, wire, rows, joined>>

Deliver(p) ==
    /\ Polled(p)
    /\ ~Lags(p)
    /\ cursor[p] <= sent
    /\ wire' = [wire EXCEPT ![p] = Append(@, cursor[p])]
    /\ cursor' = [cursor EXCEPT ![p] = @ + 1]
    /\ UNCHANGED <<sent, open, rows, joined>>

\* The listener of mountConsole.
Receive(p) ==
    /\ wire[p] # <<>>
    /\ rows' = [rows EXCEPT ![p] = Append(@, Head(wire[p]))]
    /\ wire' = [wire EXCEPT ![p] = Tail(@)]
    /\ UNCHANGED <<sent, open, cursor, joined>>

\* The connection breaks, or the server restarts: "EventSource retries
\* automatically", and the page keeps its rows.
Lose(p) ==
    /\ p \in open
    /\ open' = open \ {p}
    /\ wire' = [wire EXCEPT ![p] = <<>>]
    /\ UNCHANGED <<sent, cursor, rows, joined>>

\* The user goes to another page of the dashboard: a new document.
Navigate(p) ==
    /\ open' = open \ {p}
    /\ wire' = [wire EXCEPT ![p] = <<>>]
    /\ rows' = [rows EXCEPT ![p] = <<>>]
    /\ UNCHANGED <<sent, cursor, joined>>

PageNext(p) ==
    \/ Subscribe(p) \/ Skip(p) \/ Deliver(p) \/ Receive(p)
    \/ Lose(p) \/ Navigate(p)

Next == Emit \/ \E p \in Pages : PageNext(p)

\* The runtime polls a stream that can go on, the browser takes what has
\* arrived, and an EventSource tries again.
Fairness ==
    \A p \in Pages :
        /\ WF_vars(Skip(p) \/ Deliver(p))
        /\ WF_vars(Receive(p))
        /\ WF_vars(Subscribe(p))

Spec == Init /\ [][Next]_vars /\ Fairness

-----------------------------------------------------------------------------
(***************************************************************************)
(* Properties                                                              *)
(***************************************************************************)

LastOf(events) == IF events = <<>> THEN 0 ELSE events[Len(events)]

(***************************************************************************)
(* The variables keep their types; the cursor of a connected page is       *)
(* behind what the page has and never beyond the next event, and a         *)
(* connection that is lost carries nothing.                                *)
(***************************************************************************)
TypeOK ==
    /\ sent \in 0 .. MaxEvents
    /\ open \subseteq Pages
    /\ cursor \in [Pages -> Nat]
    /\ wire \in [Pages -> Seq(Nat)]
    /\ rows \in [Pages -> Seq(Nat)]
    /\ joined \in [Pages -> Nat]
    /\ \A p \in Pages :
          /\ Len(wire[p]) <= WireCapacity
          /\ p \notin open => wire[p] = <<>>
          /\ cursor[p] <= sent + 1
          /\ joined[p] < cursor[p]
          /\ LastOf(rows[p] \o wire[p]) < cursor[p]

Displayed(p) ==
    LET n == Len(rows[p]) IN
    SubSeq(rows[p], IF n > ConsoleRows THEN n - ConsoleRows + 1 ELSE 1, n)

CaughtUp(p) == p \in open /\ wire[p] = <<>> /\ cursor[p] = sent + 1

(***************************************************************************)
(* The log has "every action anywhere in the app" (README): of a page      *)
(* that is connected, every event since it subscribed that is among the    *)
(* last Capacity ones is in its rows, under way, or still to be read, and  *)
(* when nothing is left to come the console displays the newest of them,   *)
(* in the order of the pipeline, and ends with the last one.               *)
(***************************************************************************)
RecentEventsReachThePage ==
    \A p \in open :
        LET unread == cursor[p] .. sent
            got    == rows[p] \o wire[p]
            gotten == {got[i] : i \in 1 .. Len(got)}
            expected == {e \in joined[p] + 1 .. sent : sent < e + Capacity}
            shown  == Displayed(p)
        IN  /\ expected \subseteq gotten \cup unread
            /\ CaughtUp(p) =>
                  \A e \in expected :
                      sent < e + ConsoleRows =>
                         /\ Len(shown) > sent - e
                         /\ shown[Len(shown) - (sent - e)] = e

LiveLog == INSTANCE LiveLog

(***************************************************************************)
(* The console keeps the promise of the log: the events come in order and  *)
(* none twice, over lags, lost connections and new pages, and one that is  *)
(* missing is older than the connection or than what the server keeps.     *)
(***************************************************************************)
LiveLogKept == LiveLog!Spec

(***************************************************************************)
(* Once nothing more is emitted, a page that is neither left nor keeps     *)
(* losing its connection has its stream back and is up to date, however    *)
(* far it lagged.                                                          *)
(***************************************************************************)
CatchesUp ==
    \A p \in Pages : []<>~CaughtUp(p) => []<><<Lose(p) \/ Navigate(p) \/ Emit>>_vars

=============================================================================
