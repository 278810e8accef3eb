--------------------------- MODULE EventBusProofs ---------------------------
(***************************************************************************)
(* Proofs about EventBus, for any pages and any capacities: the console    *)
(* keeps the promise of the log, and shows what the channel still keeps.   *)
(*                                                                         *)
(* The invariant speaks of what a page got, got: its rows and what is on   *)
(* the wire as one sequence.  It is ordered, with gaps only where events   *)
(* may be missing, and its end is what was read last, without a gap.       *)
(***************************************************************************)
EXTENDS EventBus, SequenceTheorems, TLAPS

\* The entry before the next one.
Before(got, i) == IF i = 0 THEN 0 ELSE got[i]

\* What lies between events a and b may be missing, for a page that joined
\* after event j, when s is the last event.
Gap(a, b, j, s) == \A e \in a + 1 .. b - 1 : e <= j \/ e + Capacity <= s

Ordered(got, next, j, s) ==
    /\ \A i \in 0 .. Len(got) - 1 :
          Before(got, i) < got[i + 1] /\ Gap(Before(got, i), got[i + 1], j, s)
    /\ \A i \in 1 .. Len(got) : got[i] < next

Recent(got, next, j, s) ==
    /\ Gap(Before(got, Len(got)), next, j, s)
    /\ \A e \in j + 1 .. next - 1 :
          s < e + Capacity =>
              /\ next - 1 - e < Len(got)
              /\ got[Len(got) - (next - 1 - e)] = e

Got(p) == rows[p] \o wire[p]

Types ==
    /\ sent \in 0 .. MaxEvents
    /\ open \subseteq Pages
    /\ cursor \in [Pages -> Nat]
    /\ wire \in [Pages -> Seq(Nat)]
    /\ rows \in [Pages -> Seq(Nat)]
    /\ joined \in [Pages -> Nat]

PageInv(p) ==
    /\ Len(wire[p]) <= WireCapacity
    /\ p \notin open => wire[p] = <<>>
    /\ cursor[p] <= sent + 1
    /\ joined[p] < cursor[p]
    /\ Ordered(Got(p), cursor[p], joined[p], sent)
    /\ p \in open => Recent(Got(p), cursor[p], joined[p], sent)

IInv == Types /\ \A p \in Pages : PageInv(p)

-----------------------------------------------------------------------------
(***************************************************************************)
(* Ordered sequences                                                       *)
(***************************************************************************)

(* An entry of a sequence of numbers, or what stands for the one before the  *)
(* first, is a number.                                                       *)
LEMMA BeforeType ==
    ASSUME NEW got \in Seq(Nat), NEW i \in 0 .. Len(got)
    PROVE  Before(got, i) \in Nat
BY DEF Before

(* What may be missing may be missing later on, and after joining again.    *)
LEMMA GapStays ==
    ASSUME NEW a \in Nat, NEW b \in Nat, NEW j \in Nat, NEW s \in Nat,
           NEW k \in Nat, NEW t \in Nat, j <= k, s <= t, Gap(a, b, j, s)
    PROVE  Gap(a, b, k, t)
BY BusAssumption DEF Gap

LEMMA OrderedStays ==
    ASSUME NEW got \in Seq(Nat), NEW next \in Nat, NEW j \in Nat, NEW s \in Nat,
           NEW after \in Nat, NEW k \in Nat, NEW t \in Nat,
           next <= after, j <= k, s <= t, Ordered(got, next, j, s)
    PROVE  Ordered(got, after, k, t)
<1>1. ASSUME NEW i \in 0 .. Len(got) - 1
      PROVE  /\ Before(got, i) < got[i + 1]
             /\ Gap(Before(got, i), got[i + 1], k, t)
  <2>1. Before(got, i) \in Nat /\ got[i + 1] \in Nat
    BY BeforeType
  <2>2. Before(got, i) < got[i + 1] /\ Gap(Before(got, i), got[i + 1], j, s)
    BY DEF Ordered
  <2>3. QED
    BY <2>1, <2>2, GapStays
<1>2. \A i \in 1 .. Len(got) : got[i] < after
  BY DEF Ordered
<1>3. QED
  BY <1>1, <1>2 DEF Ordered

(* The event at the cursor may come next. *)
LEMMA OrderedGrows ==
    ASSUME NEW got \in Seq(Nat), NEW next \in Nat, NEW j \in Nat, NEW s \in Nat,
           Ordered(got, next, j, s), Gap(Before(got, Len(got)), next, j, s),
           next > 0
    PROVE  Ordered(Append(got, next), next + 1, j, s)
<1> DEFINE more == Append(got, next)
<1>1. /\ more \in Seq(Nat) /\ Len(more) = Len(got) + 1 /\ Len(got) \in Nat
      /\ more[Len(got) + 1] = next
      /\ \A i \in 1 .. Len(got) : more[i] = got[i]
  OBVIOUS
<1> HIDE DEF more
<1>2. \A i \in 0 .. Len(got) : Before(more, i) = Before(got, i)
  BY <1>1 DEF Before
<1>3. ASSUME NEW i \in 0 .. Len(more) - 1
      PROVE  /\ Before(more, i) < more[i + 1]
             /\ Gap(Before(more, i), more[i + 1], j, s)
  <2>1. CASE i < Len(got)
    <3>1. i \in 0 .. Len(got) - 1 /\ i + 1 \in 1 .. Len(got)
      BY <1>1, <2>1
    <3>2. Before(more, i) = Before(got, i) /\ more[i + 1] = got[i + 1]
      BY <1>1, <1>2, <3>1
    <3>3. QED
      BY <3>1, <3>2 DEF Ordered
  <2>2. CASE i = Len(got)
    <3>1. Before(got, i) < next
      BY <1>1, <2>2 DEF Ordered, Before
    <3>2. QED
      BY SMTT(30), <1>1, <1>2, <2>2, <3>1
  <2>3. QED
    BY <1>1, <2>1, <2>2
<1>4. \A i \in 1 .. Len(more) : more[i] < next + 1
  <2>1. \A i \in 1 .. Len(got) : got[i] \in Nat /\ got[i] < next
    BY DEF Ordered
  <2>2. QED
    BY SMTT(30), <1>1, <2>1
<1>5. QED
  BY <1>3, <1>4 DEF Ordered, more

(* What the page had before is ordered, too. *)
LEMMA OrderedPrefix ==
    ASSUME NEW had \in Seq(Nat), NEW got \in Seq(Nat), Len(had) <= Len(got),
           \A i \in 1 .. Len(had) : had[i] = got[i],
           NEW next \in Nat, NEW j \in Nat, NEW s \in Nat,
           Ordered(got, next, j, s)
    PROVE  Ordered(had, next, j, s)
<1>1. \A i \in 0 .. Len(had) : Before(had, i) = Before(got, i)
  BY DEF Before
<1>2. ASSUME NEW i \in 0 .. Len(had) - 1
      PROVE  /\ Before(had, i) < had[i + 1]
             /\ Gap(Before(had, i), had[i + 1], j, s)
  <2>1. /\ i \in 0 .. Len(got) - 1
        /\ Before(had, i) = Before(got, i) /\ had[i + 1] = got[i + 1]
    BY <1>1
  <2>2. QED
    BY <2>1 DEF Ordered
<1>3. \A i \in 1 .. Len(had) : i \in 1 .. Len(got) /\ had[i] < next
  BY DEF Ordered
<1>4. QED
  BY <1>2, <1>3 DEF Ordered

(* All that is missing was overrun. *)
LEMMA GapOverrun ==
    ASSUME NEW a \in Nat, NEW b \in Nat, NEW j \in Nat, NEW s \in Nat,
           \A e \in Nat : e < b => e + Capacity <= s
    PROVE  Gap(a, b, j, s)
<1>1. ASSUME NEW e \in a + 1 .. b - 1
      PROVE  e + Capacity <= s
  <2>1. e \in Nat /\ e < b
    OBVIOUS
  <2>2. QED
    BY <2>1
<1>2. QED
  BY <1>1 DEF Gap

(* Later, fewer events are recent. *)
LEMMA RecentStays ==
    ASSUME NEW got \in Seq(Nat), NEW next \in Nat, NEW j \in Nat, NEW s \in Nat,
           NEW t \in Nat, s <= t, Recent(got, next, j, s)
    PROVE  Recent(got, next, j, t)
<1>1. Gap(Before(got, Len(got)), next, j, t)
  BY BeforeType, GapStays DEF Recent
<1>2. QED
  BY <1>1, BusAssumption DEF Recent

LEMMA RecentGrows ==
    ASSUME NEW got \in Seq(Nat), NEW next \in Nat, NEW j \in Nat, NEW s \in Nat,
           next > 0, Recent(got, next, j, s)
    PROVE  Recent(Append(got, next), next + 1, j, s)
<1> DEFINE more == Append(got, next)
<1>1. /\ more \in Seq(Nat) /\ Len(more) = Len(got) + 1 /\ Len(got) \in Nat
      /\ more[Len(got) + 1] = next
      /\ \A i \in 1 .. Len(got) : more[i] = got[i]
  OBVIOUS
<1> HIDE DEF more
<1>2. Gap(Before(more, Len(more)), next + 1, j, s)
  BY <1>1 DEF Before, Gap
<1>3. ASSUME NEW e \in j + 1 .. next, s < e + Capacity
      PROVE  /\ next - e < Len(more)
             /\ more[Len(more) - (next - e)] = e
  <2>1. CASE e = next
    BY <1>1, <2>1
  <2>2. CASE e < next
    <3>1. /\ next - 1 - e < Len(got)
          /\ got[Len(got) - (next - 1 - e)] = e
      BY <1>3, <2>2 DEF Recent
    <3>2. PICK k \in 1 .. Len(got) : k = Len(got) - (next - 1 - e)
      BY <1>1, <1>3, <2>2, <3>1
    <3>3. k = Len(more) - (next - e) /\ next - e < Len(more)
      BY <1>1, <1>3, <3>1, <3>2
    <3>4. more[k] = e
      BY <1>1, <3>1, <3>2
    <3>5. QED
      BY <3>3, <3>4
  <2>3. QED
    BY <2>1, <2>2
<1>4. QED
  BY <1>2, <1>3 DEF Recent, more

(* Appending to the second part appends to both. *)
LEMMA ConcatAppend ==
    ASSUME NEW r \in Seq(Nat), NEW w \in Seq(Nat), NEW e \in Nat
    PROVE  r \o Append(w, e) = Append(r \o w, e)
<1>1. r \o w \in Seq(Nat) /\ <<e>> \in Seq(Nat)
  OBVIOUS
<1>2. Append(w, e) = w \o <<e>>
  BY AppendIsConcat
<1>3. Append(r \o w, e) = (r \o w) \o <<e>>
  BY <1>1, AppendIsConcat
<1>4. (r \o w) \o <<e>> = r \o (w \o <<e>>)
  BY <1>1, ConcatAssociative
<1>5. QED
  BY <1>2, <1>3, <1>4

-----------------------------------------------------------------------------
(***************************************************************************)
(* The steps                                                               *)
(***************************************************************************)

(* The variables of a page, and their types. *)
LEMMA PageVariables ==
    ASSUME Types, NEW p \in Pages
    PROVE  /\ sent \in Nat /\ cursor[p] \in Nat /\ joined[p] \in Nat
           /\ rows[p] \in Seq(Nat) /\ wire[p] \in Seq(Nat) /\ Got(p) \in Seq(Nat)
BY DEF Types, Got

(* What the page got starts with its rows. *)
LEMMA RowsFirst ==
    ASSUME Types, NEW p \in Pages
    PROVE  /\ Len(rows[p]) <= Len(Got(p))
           /\ \A i \in 1 .. Len(rows[p]) : rows[p][i] = Got(p)[i]
BY DEF Types, Got

LEMMA EmitStep ==
    ASSUME IInv, Emit
    PROVE  IInv'
<1>1. Types'
  BY BusAssumption DEF IInv, Types, Emit
<1>2. ASSUME NEW p \in Pages
      PROVE  PageInv(p)'
  <2>1. /\ Types /\ PageInv(p) /\ sent' = sent + 1
        /\ UNCHANGED <<open, cursor, wire, rows, joined>> /\ Got(p)' = Got(p)
    BY DEF IInv, Emit, Got
  <2>2. /\ sent \in Nat /\ cursor[p] \in Nat /\ joined[p] \in Nat
        /\ Got(p) \in Seq(Nat) /\ sent <= sent + 1 /\ sent + 1 \in Nat
    BY <2>1, PageVariables
  <2>3. Ordered(Got(p), cursor[p], joined[p], sent + 1)
    BY <2>1, <2>2, OrderedStays DEF PageInv
  <2>4. p \in open => Recent(Got(p), cursor[p], joined[p], sent + 1)
    BY <2>1, <2>2, RecentStays DEF PageInv
  <2>5. QED
    BY <2>1, <2>2, <2>3, <2>4 DEF PageInv
<1>3. QED
  BY <1>1, <1>2 DEF IInv

(* A step of a page leaves the other ones alone. *)
LEMMA PageStep ==
    ASSUME IInv, NEW p \in Pages, PageNext(p), Types', PageInv(p)'
    PROVE  IInv'
<1>1. ASSUME NEW q \in Pages, q # p
      PROVE  PageInv(q)'
  <2>1. /\ Types /\ PageInv(q) /\ sent' = sent /\ (q \in open') = (q \in open)
        /\ cursor'[q] = cursor[q] /\ wire'[q] = wire[q]
        /\ rows'[q] = rows[q] /\ joined'[q] = joined[q]
    <3>1. CASE Subscribe(p)
      BY <1>1, <3>1 DEF IInv, Types, Subscribe
    <3>2. CASE Skip(p)
      BY <1>1, <3>2 DEF IInv, Types, Skip
    <3>3. CASE Deliver(p)
      BY <1>1, <3>3 DEF IInv, Types, Deliver
    <3>4. CASE Receive(p)
      BY <1>1, <3>4 DEF IInv, Types, Receive
    <3>5. CASE Lose(p)
      BY <1>1, <3>5 DEF IInv, Types, Lose
    <3>6. CASE Navigate(p)
      BY <1>1, <3>6 DEF IInv, Types, Navigate
    <3>7. QED
      BY <3>1, <3>2, <3>3, <3>4, <3>5, <3>6 DEF PageNext
  <2>2. Got(q)' = Got(q)
    BY <2>1 DEF Got
  <2>3. QED
    BY <2>1, <2>2 DEF PageInv
<1>2. QED
  BY <1>1 DEF IInv

LEMMA SubscribeStep ==
    ASSUME IInv, NEW p \in Pages, Subscribe(p)
    PROVE  IInv'
<1>1. Types'
  BY DEF IInv, Types, Subscribe
<1>2. /\ Types /\ PageInv(p) /\ UNCHANGED <<sent, wire, rows>> /\ p \in open'
      /\ p \notin open
      /\ cursor'[p] = sent + 1 /\ joined'[p] = sent /\ Got(p)' = Got(p)
  BY DEF IInv, Types, Subscribe, Got
<1>3. /\ sent \in Nat /\ cursor[p] \in Nat /\ joined[p] \in Nat
      /\ Got(p) \in Seq(Nat) /\ sent + 1 \in Nat
  BY <1>2, PageVariables
<1>4. /\ Ordered(Got(p), cursor[p], joined[p], sent) /\ cursor[p] <= sent + 1
      /\ joined[p] <= sent /\ sent <= sent /\ Len(wire[p]) <= WireCapacity
  BY <1>2, <1>3 DEF PageInv
<1>5. Ordered(Got(p), sent + 1, sent, sent)
  BY <1>3, <1>4, OrderedStays
<1>6. Recent(Got(p), sent + 1, sent, sent)
  BY <1>3, BeforeType DEF Recent, Gap
<1>7. PageInv(p)'
  BY <1>2, <1>3, <1>4, <1>5, <1>6 DEF PageInv
<1>8. QED
  BY <1>1, <1>7, PageStep DEF PageNext

LEMMA SkipStep ==
    ASSUME IInv, NEW p \in Pages, Skip(p)
    PROVE  IInv'
<1> DEFINE oldest == sent - Capacity + 1
<1>1. /\ Types /\ PageInv(p) /\ UNCHANGED <<sent, open, wire, rows, joined>>
      /\ p \in open /\ cursor[p] + Capacity <= sent
      /\ cursor' = [cursor EXCEPT ![p] = oldest] /\ Got(p)' = Got(p)
  BY DEF IInv, Skip, Polled, Lags, Got
<1>2. /\ sent \in Nat /\ cursor[p] \in Nat /\ joined[p] \in Nat
      /\ Got(p) \in Seq(Nat) /\ Capacity \in Nat \ {0}
  BY <1>1, PageVariables, BusAssumption
<1>3. oldest \in Nat /\ cursor[p] < oldest /\ oldest <= sent
  BY <1>1, <1>2
<1>4. \A e \in Nat : e < oldest => e + Capacity <= sent
  BY <1>2
<1> HIDE DEF oldest
<1>5. Types' /\ cursor'[p] = oldest
  BY <1>1, <1>3 DEF Types
<1>6. /\ Ordered(Got(p), cursor[p], joined[p], sent)
      /\ Recent(Got(p), cursor[p], joined[p], sent)
      /\ joined[p] < cursor[p] /\ Len(wire[p]) <= WireCapacity
  BY <1>1 DEF PageInv
<1>7. Ordered(Got(p), oldest, joined[p], sent)
  BY SMTT(30), <1>2, <1>3, <1>6, OrderedStays
<1>8. Recent(Got(p), oldest, joined[p], sent)
  <2>1. Before(Got(p), Len(Got(p))) \in Nat
    BY <1>2, BeforeType
  <2>2. Gap(Before(Got(p), Len(Got(p))), oldest, joined[p], sent)
    BY <1>2, <1>3, <1>4, <2>1, GapOverrun
  <2>3. \A e \in joined[p] + 1 .. oldest - 1 : ~(sent < e + Capacity)
    BY <1>2, <1>3, <1>4
  <2>4. QED
    BY <2>2, <2>3 DEF Recent
<1>9. PageInv(p)'
  BY <1>1, <1>2, <1>3, <1>5, <1>6, <1>7, <1>8 DEF PageInv
<1>10. QED
  BY <1>5, <1>9, PageStep DEF PageNext

LEMMA DeliverStep ==
    ASSUME IInv, NEW p \in Pages, Deliver(p)
    PROVE  IInv'
<1>1. /\ Types /\ PageInv(p) /\ UNCHANGED <<sent, open, rows, joined>>
      /\ p \in open /\ Len(wire[p]) < WireCapacity /\ cursor[p] <= sent
      /\ cursor' = [cursor EXCEPT ![p] = @ + 1]
      /\ wire' = [wire EXCEPT ![p] = Append(@, cursor[p])]
  BY DEF IInv, Deliver, Polled
<1>2. /\ sent \in Nat /\ cursor[p] \in Nat /\ joined[p] \in Nat
      /\ rows[p] \in Seq(Nat) /\ wire[p] \in Seq(Nat) /\ Got(p) \in Seq(Nat)
      /\ WireCapacity \in Nat
  BY <1>1, PageVariables, BusAssumption
<1>3. cursor[p] + 1 \in Nat /\ Append(wire[p], cursor[p]) \in Seq(Nat)
  BY <1>2
<1>4. /\ Types' /\ cursor'[p] = cursor[p] + 1
      /\ wire'[p] = Append(wire[p], cursor[p])
  BY <1>1, <1>3 DEF Types
<1>5. Got(p)' = Append(Got(p), cursor[p])
  <2>1. rows[p] \o Append(wire[p], cursor[p])
          = Append(rows[p] \o wire[p], cursor[p])
    BY <1>2, ConcatAppend
  <2>2. QED
    BY <1>1, <1>4, <2>1 DEF Got
<1>6. /\ Ordered(Got(p), cursor[p], joined[p], sent)
      /\ Recent(Got(p), cursor[p], joined[p], sent)
      /\ Gap(Before(Got(p), Len(Got(p))), cursor[p], joined[p], sent)
      /\ joined[p] < cursor[p] /\ cursor[p] > 0
  BY <1>1, <1>2 DEF PageInv, Recent
<1>7. Ordered(Append(Got(p), cursor[p]), cursor[p] + 1, joined[p], sent)
  BY <1>2, <1>6, OrderedGrows
<1>8. Recent(Append(Got(p), cursor[p]), cursor[p] + 1, joined[p], sent)
  BY <1>2, <1>6, RecentGrows
<1>9. Len(wire'[p]) <= WireCapacity
  BY <1>1, <1>2, <1>4
<1>10. PageInv(p)'
  BY <1>1, <1>2, <1>4, <1>5, <1>6, <1>7, <1>8, <1>9 DEF PageInv
<1>11. QED
  BY <1>4, <1>10, PageStep DEF PageNext

LEMMA ReceiveStep ==
    ASSUME IInv, NEW p \in Pages, Receive(p)
    PROVE  IInv'
<1> DEFINE r == rows[p]
           w == wire[p]
<1>1. /\ Types /\ PageInv(p) /\ UNCHANGED <<sent, open, cursor, joined>>
      /\ w # <<>> /\ rows' = [rows EXCEPT ![p] = Append(r, Head(w))]
      /\ wire' = [wire EXCEPT ![p] = Tail(w)]
  BY DEF IInv, Receive
<1>2. r \in Seq(Nat) /\ w \in Seq(Nat) /\ WireCapacity \in Nat
      /\ Len(w) <= WireCapacity
  BY <1>1, PageVariables, BusAssumption DEF PageInv
<1> HIDE DEF r, w
<1>3. /\ Head(w) \in Nat /\ Tail(w) \in Seq(Nat) /\ Append(r, Head(w)) \in Seq(Nat)
      /\ Len(Tail(w)) <= WireCapacity
  BY <1>1, <1>2
<1>4. Append(r, Head(w)) \o Tail(w) = r \o w
  BY <1>1, <1>2
<1>5. Types' /\ rows'[p] = Append(r, Head(w)) /\ wire'[p] = Tail(w)
  BY <1>1, <1>3 DEF Types
<1>6. Got(p)' = Got(p)
  BY <1>4, <1>5 DEF Got, r, w
<1>7. p \in open
  BY <1>1 DEF PageInv, w
<1>8. PageInv(p)'
  BY <1>1, <1>3, <1>5, <1>6, <1>7 DEF PageInv
<1>9. QED
  BY <1>5, <1>8, PageStep DEF PageNext

LEMMA LoseStep ==
    ASSUME IInv, NEW p \in Pages, Lose(p)
    PROVE  IInv'
<1>1. /\ Types /\ PageInv(p) /\ UNCHANGED <<sent, cursor, rows, joined>>
      /\ open' = open \ {p} /\ wire' = [wire EXCEPT ![p] = <<>>]
  BY DEF IInv, Lose
<1>2. Types' /\ wire'[p] = <<>> /\ p \notin open'
  BY <1>1 DEF Types
<1>3. /\ sent \in Nat /\ cursor[p] \in Nat /\ joined[p] \in Nat
      /\ rows[p] \in Seq(Nat) /\ Got(p) \in Seq(Nat)
  BY <1>1, PageVariables
<1>4. Got(p)' = rows[p]
  BY <1>1, <1>2, <1>3, ConcatEmptySeq DEF Got
<1>5. Ordered(rows[p], cursor[p], joined[p], sent)
  <2>1. Ordered(Got(p), cursor[p], joined[p], sent)
    BY <1>1 DEF PageInv
  <2>2. QED
    BY <1>1, <1>3, <2>1, RowsFirst, OrderedPrefix
<1>6. Len(<<>>) <= WireCapacity
  BY BusAssumption
<1>7. PageInv(p)'
  BY <1>1, <1>2, <1>4, <1>5, <1>6 DEF PageInv
<1>8. QED
  BY <1>2, <1>7, PageStep DEF PageNext

LEMMA NavigateStep ==
    ASSUME IInv, NEW p \in Pages, Navigate(p)
    PROVE  IInv'
<1>1. /\ Types /\ PageInv(p) /\ UNCHANGED <<sent, cursor, joined>>
      /\ open' = open \ {p} /\ wire' = [wire EXCEPT ![p] = <<>>]
      /\ rows' = [rows EXCEPT ![p] = <<>>]
  BY DEF IInv, Navigate
<1>2. Types' /\ wire'[p] = <<>> /\ rows'[p] = <<>> /\ p \notin open'
  BY <1>1 DEF Types
<1>3. Got(p)' = <<>>
  BY <1>2 DEF Got
<1>4. Ordered(<<>>, cursor[p], joined[p], sent)
  BY DEF Ordered
<1>5. Len(<<>>) <= WireCapacity
  BY BusAssumption
<1>6. PageInv(p)'
  BY <1>1, <1>2, <1>3, <1>4, <1>5 DEF PageInv
<1>7. QED
  BY <1>2, <1>6, PageStep DEF PageNext

-----------------------------------------------------------------------------
(***************************************************************************)
(* The theorems                                                            *)
(***************************************************************************)

LEMMA Initially ==
    ASSUME Init
    PROVE  IInv
<1>1. /\ sent = 0 /\ open = {} /\ cursor = [p \in Pages |-> 1]
      /\ wire = [p \in Pages |-> <<>>] /\ rows = [p \in Pages |-> <<>>]
      /\ joined = [p \in Pages |-> 0]
  BY DEF Init
<1>2. Types
  BY <1>1, BusAssumption DEF Types
<1>3. ASSUME NEW p \in Pages
      PROVE  PageInv(p)
  <2>1. /\ p \notin open /\ cursor[p] = 1 /\ wire[p] = <<>> /\ rows[p] = <<>>
        /\ joined[p] = 0 /\ sent = 0 /\ Len(<<>>) = 0
    BY <1>1
  <2>2. Got(p) = <<>>
    BY <2>1 DEF Got
  <2>3. Ordered(<<>>, 1, 0, 0)
    BY <2>1 DEF Ordered
  <2>4. QED
    BY <2>1, <2>2, <2>3, BusAssumption DEF PageInv
<1>4. QED
  BY <1>2, <1>3 DEF IInv

LEMMA Step ==
    ASSUME IInv, [Next]_vars
    PROVE  IInv'
<1>1. CASE Emit
  BY <1>1, EmitStep
<1>2. ASSUME NEW p \in Pages, PageNext(p)
      PROVE  IInv'
  BY <1>2, SubscribeStep, SkipStep, DeliverStep, ReceiveStep, LoseStep, NavigateStep
  DEF PageNext
<1>3. CASE UNCHANGED vars
  <2>1. UNCHANGED <<sent, open, cursor, wire, rows, joined>>
    BY <1>3 DEF vars
  <2>2. Types' /\ \A p \in Pages : Got(p)' = Got(p)
    BY <2>1 DEF IInv, Types, Got
  <2>3. QED
    BY <2>1, <2>2 DEF IInv, PageInv
<1>4. QED
  BY <1>1, <1>2, <1>3 DEF Next

(* What every page got is in order, up to date and without needless gaps:    *)
(* the inductive invariant of this module.                                   *)
THEOREM InvariantHolds == Spec => []IInv
<1>1. Init => IInv
  BY Initially
<1>2. IInv /\ [Next]_vars => IInv'
  BY Step
<1>3. QED
  BY <1>1, <1>2, PTL DEF Spec

(* The last entry is below the cursor. *)
LEMMA LastIsOld ==
    ASSUME NEW got \in Seq(Nat), NEW next \in Nat, next > 0,
           NEW j, NEW s, Ordered(got, next, j, s)
    PROVE  LastOf(got) < next
<1>1. got # <<>> => Len(got) \in 1 .. Len(got)
  OBVIOUS
<1>2. QED
  BY <1>1 DEF Ordered, LastOf

(* The variables of the event bus keep their types, and no cursor overtakes  *)
(* the events.                                                               *)
THEOREM TypeCorrect == Spec => []TypeOK
<1>1. ASSUME IInv
      PROVE  TypeOK
  <2>1. ASSUME NEW p \in Pages
        PROVE  /\ Len(wire[p]) <= WireCapacity
               /\ p \notin open => wire[p] = <<>>
               /\ cursor[p] <= sent + 1
               /\ joined[p] < cursor[p]
               /\ LastOf(rows[p] \o wire[p]) < cursor[p]
    <3>1. Types /\ PageInv(p)
      BY <1>1 DEF IInv
    <3>2. cursor[p] \in Nat /\ joined[p] \in Nat /\ Got(p) \in Seq(Nat)
      BY <3>1, PageVariables
    <3>3. joined[p] < cursor[p] /\ Ordered(Got(p), cursor[p], joined[p], sent)
      BY <3>1 DEF PageInv
    <3>4. LastOf(Got(p)) < cursor[p]
      BY <3>2, <3>3, LastIsOld
    <3>5. QED
      BY <3>1, <3>4 DEF PageInv, Got
  <2>2. QED
    BY <1>1, <2>1 DEF IInv, Types, TypeOK
<1>2. QED
  BY <1>1, InvariantHolds, PTL

(* The head of the wire is what the page gets next. *)
LEMMA HeadIsNext ==
    ASSUME NEW r \in Seq(Nat), NEW w \in Seq(Nat), w # <<>>
    PROVE  /\ Len(r) \in 0 .. Len(r \o w) - 1
           /\ (r \o w)[Len(r) + 1] = Head(w) /\ Head(w) \in Nat
           /\ LastOf(r) = Before(r \o w, Len(r)) /\ LastOf(r) \in Nat
<1>1. Len(w) \in Nat /\ Len(w) > 0 /\ Len(r) \in Nat
  OBVIOUS
<1>2. Len(r) \in 0 .. Len(r \o w) - 1
  BY <1>1
<1>3. (r \o w)[Len(r) + 1] = w[1] /\ w[1] = Head(w) /\ w[1] \in Nat
  BY <1>1, ConcatProperties
<1>4. LastOf(r) = Before(r \o w, Len(r)) /\ LastOf(r) \in Nat
  <2>1. CASE r = <<>>
    BY <2>1 DEF LastOf, Before
  <2>2. CASE r # <<>>
    <3>1. Len(r) \in 1 .. Len(r)
      BY <1>1, <2>2
    <3>2. (r \o w)[Len(r)] = r[Len(r)]
      BY <1>1, <3>1, ConcatProperties
    <3>3. QED
      BY <2>2, <3>1, <3>2 DEF LastOf, Before
  <2>3. QED
    BY <2>1, <2>2
<1>5. QED
  BY <1>2, <1>3, <1>4

(* Every step of the event bus is a step of the log, or none: the console    *)
(* shows what the log promises, for every page and every capacity.           *)
THEOREM ConsoleKeepsTheLog == Spec => LiveLogKept
<1>1. Init => LiveLog!Init
  BY DEF Init, LiveLog!Init
<1>2. IInv /\ [Next]_vars => [LiveLog!Next]_(LiveLog!vars)
  <2> SUFFICES ASSUME IInv, [Next]_vars
               PROVE  LiveLog!Next \/ UNCHANGED LiveLog!vars
    OBVIOUS
  <2>1. CASE Emit
    BY <2>1 DEF Emit, LiveLog!Next, LiveLog!Emit
  <2>2. ASSUME NEW p \in Pages, Subscribe(p)
        PROVE  LiveLog!Next
    BY <2>2 DEF Subscribe, LiveLog!Next, LiveLog!Join
  <2>3. ASSUME NEW p \in Pages, Skip(p) \/ Deliver(p) \/ Lose(p)
        PROVE  UNCHANGED LiveLog!vars
    BY <2>3 DEF Skip, Deliver, Lose, LiveLog!vars
  <2>4. ASSUME NEW p \in Pages, Navigate(p)
        PROVE  LiveLog!Next
    BY <2>4 DEF Navigate, LiveLog!Next, LiveLog!Clear
  <2>5. ASSUME NEW p \in Pages, Receive(p)
        PROVE  LiveLog!Next
    <3> DEFINE n == Len(rows[p])
               e == Head(wire[p])
    <3>1. /\ Types /\ Ordered(Got(p), cursor[p], joined[p], sent)
          /\ cursor[p] <= sent + 1 /\ wire[p] # <<>>
          /\ rows' = [rows EXCEPT ![p] = Append(@, e)] /\ UNCHANGED <<sent, joined>>
      BY <2>5 DEF IInv, PageInv, Receive
    <3>2. /\ sent \in Nat /\ cursor[p] \in Nat /\ joined[p] \in Nat
          /\ rows[p] \in Seq(Nat) /\ wire[p] \in Seq(Nat) /\ Got(p) \in Seq(Nat)
      BY <3>1, PageVariables
    <3>3. /\ n \in 0 .. Len(Got(p)) - 1 /\ Got(p)[n + 1] = e /\ e \in Nat
          /\ LastOf(rows[p]) = Before(Got(p), n) /\ LastOf(rows[p]) \in Nat
      BY <3>1, <3>2, HeadIsNext DEF Got
    <3>4. \A i \in 1 .. Len(Got(p)) : Got(p)[i] < cursor[p]
      BY <3>1 DEF Ordered
    <3>5. /\ LastOf(rows[p]) < e /\ e < cursor[p]
          /\ Gap(LastOf(rows[p]), e, joined[p], sent)
      BY <3>1, <3>2, <3>3, <3>4 DEF Ordered
    <3>6. e \in Nat /\ LastOf(rows[p]) \in Nat
      BY <3>3
    <3> HIDE DEF n, e
    <3>7. e \in 1 .. sent
      BY <3>1, <3>2, <3>5, <3>6
    <3>8. LiveLog!LastOf(rows[p]) = LastOf(rows[p])
      BY DEF LastOf, LiveLog!LastOf
    <3>9. LiveLog!Show(p, e)
      BY <3>1, <3>5, <3>8 DEF Gap, LiveLog!Show, LiveLog!MayMiss
    <3>10. QED
      BY <3>7, <3>9 DEF LiveLog!Next
  <2>6. CASE UNCHANGED vars
    BY <2>6 DEF vars, LiveLog!vars
  <2>7. QED
    BY <2>1, <2>2, <2>3, <2>4, <2>5, <2>6 DEF Next, PageNext
<1>3. QED
  BY <1>1, <1>2, InvariantHolds, PTL DEF Spec, LiveLogKept, LiveLog!Spec

(* A tail of a sequence ends like the sequence. *)
LEMMA SubSeqEnd ==
    ASSUME NEW r \in Seq(Nat), NEW from \in 1 .. Len(r), NEW k \in Nat,
           k < Len(r) - from + 1
    PROVE  /\ Len(SubSeq(r, from, Len(r))) > k
           /\ SubSeq(r, from, Len(r))[Len(SubSeq(r, from, Len(r))) - k]
                 = r[Len(r) - k]
<1> DEFINE n == Len(r)
           end == SubSeq(r, from, n)
<1>1. n \in Nat
  OBVIOUS
<1>2. Len(end) = n - from + 1 /\ \A i \in 1 .. n - from + 1 : end[i] = r[i + from - 1]
  BY <1>1
<1> HIDE DEF end
<1>3. PICK i \in 1 .. n - from + 1 : i = n - from + 1 - k
  <2>1. from \in Nat /\ k < n - from + 1
    OBVIOUS
  <2> HIDE DEF n
  <2>2. n - from + 1 - k \in 1 .. n - from + 1
    BY <1>1, <2>1
  <2>3. QED
    BY <2>2
<1>4. end[i] = r[i + from - 1] /\ i + from - 1 = n - k
  BY <1>1, <1>2, <1>3
<1>5. Len(end) > k /\ end[Len(end) - k] = r[n - k]
  <2>1. Len(end) - k = i /\ Len(end) > k
    BY <1>1, <1>2, <1>3
  <2>2. QED
    BY <1>4, <2>1
<1>6. QED
  BY <1>5 DEF end

(* What the console displays ends like what the page got. *)
LEMMA DisplayedEnd ==
    ASSUME Types, NEW p \in Pages, NEW k \in Nat,
           k < Len(rows[p]), k < ConsoleRows
    PROVE  /\ Len(Displayed(p)) > k
           /\ Displayed(p)[Len(Displayed(p)) - k] = rows[p][Len(rows[p]) - k]
<1> DEFINE r == rows[p]
           n == Len(r)
           from == IF n > ConsoleRows THEN n - ConsoleRows + 1 ELSE 1
<1>1. r \in Seq(Nat) /\ n \in Nat /\ ConsoleRows \in Nat \ {0}
  BY PageVariables, BusAssumption
<1>2. Displayed(p) = SubSeq(r, from, n)
  BY DEF Displayed
<1>3. from \in 1 .. n /\ k < n - from + 1
  <2>1. k < n
    OBVIOUS
  <2> HIDE DEF n
  <2>2. QED
    BY <1>1, <2>1
<1> HIDE DEF from, r
<1>4. QED
  BY <1>1, <1>2, <1>3, SubSeqEnd DEF r

(* No event that the channel still keeps is lost on its way to a page that   *)
(* is connected, and the console displays the newest ones.                   *)
THEOREM RecentEventsArrive == Spec => []RecentEventsReachThePage
<1>1. ASSUME IInv, NEW p \in open,
             NEW e \in joined[p] + 1 .. sent, sent < e + Capacity
      PROVE  /\ e \in {Got(p)[i] : i \in 1 .. Len(Got(p))} \cup cursor[p] .. sent
             /\ CaughtUp(p) /\ sent < e + ConsoleRows =>
                   /\ Len(Displayed(p)) > sent - e
                   /\ Displayed(p)[Len(Displayed(p)) - (sent - e)] = e
  <2>1. p \in Pages /\ Types /\ Recent(Got(p), cursor[p], joined[p], sent)
    BY <1>1 DEF IInv, Types, PageInv
  <2>2. /\ sent \in Nat /\ cursor[p] \in Nat /\ joined[p] \in Nat
        /\ Got(p) \in Seq(Nat) /\ rows[p] \in Seq(Nat) /\ e \in Nat
    BY <2>1, PageVariables
  <2>3. e < cursor[p] => /\ cursor[p] - 1 - e < Len(Got(p))
                         /\ Got(p)[Len(Got(p)) - (cursor[p] - 1 - e)] = e
    BY <1>1, <2>1, <2>2 DEF Recent
  <2>4. e \in {Got(p)[i] : i \in 1 .. Len(Got(p))} \cup cursor[p] .. sent
    <3>1. CASE e < cursor[p]
      <4>1. PICK i \in 1 .. Len(Got(p)) : i = Len(Got(p)) - (cursor[p] - 1 - e)
        BY <2>2, <2>3, <3>1
      <4>2. Got(p)[i] = e
        BY <2>3, <3>1, <4>1
      <4>3. QED
        BY <4>2
    <3>2. CASE e >= cursor[p]
      BY <2>2, <3>2
    <3>3. QED
      BY <2>2, <3>1, <3>2
  <2>5. ASSUME CaughtUp(p), sent < e + ConsoleRows
        PROVE  /\ Len(Displayed(p)) > sent - e
               /\ Displayed(p)[Len(Displayed(p)) - (sent - e)] = e
    <3>1. Got(p) = rows[p] /\ cursor[p] = sent + 1
      BY <2>2, <2>5, ConcatEmptySeq DEF CaughtUp, Got
    <3>2. sent - e \in Nat /\ sent - e < ConsoleRows /\ cursor[p] - 1 - e = sent - e
      BY <2>2, <2>5, <3>1, BusAssumption
    <3>3. sent - e < Len(rows[p]) /\ rows[p][Len(rows[p]) - (sent - e)] = e
      BY <2>2, <2>3, <3>1, <3>2
    <3>4. QED
      BY <2>1, <3>2, <3>3, DisplayedEnd
  <2>6. QED
    BY <2>4, <2>5
<1>2. IInv => RecentEventsReachThePage
  BY <1>1 DEF RecentEventsReachThePage, Got
<1>3. QED
  BY <1>2, InvariantHolds, PTL

=============================================================================
