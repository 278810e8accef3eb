---------------------------- MODULE ReadingProofs ----------------------------
(***************************************************************************)
(* Proofs about ReadBack: the beginning of a ClientHello gives no other    *)
(* name than its own, and a packet that was written as the sample writes   *)
(* packets is told as it was sent.                                         *)
(*                                                                         *)
(* The encoders put parts together.  What the parsers read at the places   *)
(* that they compute is one of these parts.                                *)
(***************************************************************************)
EXTENDS IngestionProofs, ReadBack

-----------------------------------------------------------------------------
(***************************************************************************)
(* What stands in what was written                                         *)
(*                                                                         *)
(* A part of a sequence is read where it stands, in the whole or in what is*)
(* left of it.                                                             *)
(***************************************************************************)

\* The part stands in the whole, from that place.
Stands(part, whole, from) ==
    /\ from + Len(part) <= Len(whole)
    /\ \A i \in 1 .. Len(part) : whole[from + i] = part[i]

(* Each of two sequences stands in the two together. *)
LEMMA StandsTogether ==
    ASSUME NEW s \in Seq(Nat), NEW t \in Seq(Nat)
    PROVE  /\ s \o t \in Seq(Nat) /\ Len(s \o t) = Len(s) + Len(t)
           /\ Stands(s, s \o t, 0)
           /\ Stands(t, s \o t, Len(s))
<1>1. PICK whole : whole = s \o t
  OBVIOUS
<1>2. /\ whole \in Seq(Nat) /\ Len(whole) = Len(s) + Len(t)
      /\ \A i \in 1 .. Len(s) + Len(t) :
            whole[i] = IF i <= Len(s) THEN s[i] ELSE t[i - Len(s)]
  BY <1>1, ConcatProperties
<1>3. Len(s) \in Nat /\ Len(t) \in Nat
  OBVIOUS
<1>4. \A i \in 1 .. Len(s) : whole[0 + i] = s[i]
  BY <1>2, <1>3
<1>5. ASSUME NEW i \in 1 .. Len(t)
      PROVE  whole[Len(s) + i] = t[i]
  <2>1. PICK k : k = Len(s) + i
    OBVIOUS
  <2>2. k \in 1 .. Len(s) + Len(t) /\ ~(k <= Len(s)) /\ k - Len(s) = i
    BY <1>3, <2>1
  <2>3. QED
    BY <1>2, <2>1, <2>2
<1>6. Stands(s, whole, 0)
  BY <1>2, <1>3, <1>4 DEF Stands
<1>7. Stands(t, whole, Len(s))
  BY <1>2, <1>3, <1>5 DEF Stands
<1>8. QED
  BY <1>1, <1>2, <1>6, <1>7

(* What stands in a part stands in the whole. *)
LEMMA StandsWithin ==
    ASSUME NEW part \in Seq(Nat), NEW middle \in Seq(Nat), NEW whole \in Seq(Nat),
           NEW a \in Nat, NEW b \in Nat,
           Stands(part, middle, a), Stands(middle, whole, b)
    PROVE  Stands(part, whole, b + a)
<1>1. /\ a + Len(part) <= Len(middle) /\ b + Len(middle) <= Len(whole)
      /\ Len(part) \in Nat /\ Len(middle) \in Nat /\ Len(whole) \in Nat
  BY DEF Stands
<1>2. ASSUME NEW i \in 1 .. Len(part)
      PROVE  whole[b + a + i] = part[i]
  <2>1. PICK k : k = a + i
    OBVIOUS
  <2>2. k \in 1 .. Len(middle) /\ b + k = b + a + i
    BY <1>1, <1>2, <2>1
  <2>3. middle[k] = part[i] /\ whole[b + k] = middle[k]
    BY <2>1, <2>2 DEF Stands
  <2>4. QED
    BY <2>2, <2>3
<1>3. QED
  BY SMTT(30), ZenonT(30), <1>1, <1>2 DEF Stands

(* Bytes, words and slices of a part, read where it stands. *)
LEMMA ReadWhereItStands ==
    ASSUME NEW part \in Seq(Nat), NEW whole \in Seq(Nat), NEW from \in Nat,
           Stands(part, whole, from)
    PROVE  /\ \A i \in 0 .. Len(part) - 1 : At(whole, from + i) = At(part, i)
           /\ \A i \in 0 .. Len(part) - 2 : U16(whole, from + i) = U16(part, i)
           /\ \A a \in 0 .. Len(part) : \A b \in a .. Len(part) :
                 Slice(whole, from + a, from + b) = Slice(part, a, b)
<1>1. from + Len(part) <= Len(whole) /\ Len(part) \in Nat /\ Len(whole) \in Nat
  BY DEF Stands
<1>2. ASSUME NEW i \in 0 .. Len(part) - 1
      PROVE  whole[from + i + 1] = part[i + 1]
  <2>1. i + 1 \in 1 .. Len(part) /\ from + (i + 1) = from + i + 1
    BY <1>1
  <2>2. QED
    BY <2>1 DEF Stands
<1>3. ASSUME NEW i \in 0 .. Len(part) - 2
      PROVE  U16(whole, from + i) = U16(part, i)
  <2>1. PICK j : j = i + 1
    OBVIOUS
  <2>2. /\ i \in 0 .. Len(part) - 1 /\ j \in 0 .. Len(part) - 1
        /\ from + j + 1 = from + i + 2 /\ j + 1 = i + 2
    BY <1>1, <2>1
  <2>3. whole[from + i + 1] = part[i + 1] /\ whole[from + i + 2] = part[i + 2]
    <3>1. whole[from + i + 1] = part[i + 1]
      BY <1>2, <2>2
    <3>2. whole[from + j + 1] = part[j + 1]
      BY <1>2, <2>2
    <3>3. QED
      BY <2>2, <3>1, <3>2
  <2>4. /\ U16(whole, from + i) = 256 * whole[from + i + 1] + whole[from + i + 2]
        /\ U16(part, i) = 256 * part[i + 1] + part[i + 2]
    BY DEF U16
  <2>5. QED
    BY <2>3, <2>4
<1>4. ASSUME NEW a \in 0 .. Len(part), NEW b \in a .. Len(part)
      PROVE  Slice(whole, from + a, from + b) = Slice(part, a, b)
  <2>1. PICK s, t : s = Slice(whole, from + a, from + b) /\ t = Slice(part, a, b)
    OBVIOUS
  <2>2. /\ a \in Nat /\ b \in Nat /\ a <= b /\ b <= Len(part)
        /\ (from + b) - (from + a + 1) + 1 = b - a
        /\ b - (a + 1) + 1 = b - a
    BY <1>1
  <2>3. \A i \in from + a + 1 .. from + b : whole[i] \in Nat
    BY <1>1, <2>2
  <2>4. \A i \in a + 1 .. b : part[i] \in Nat
    BY SMTT(30), ZenonT(30), <1>1, <2>2
  <2>5. /\ s \in Seq(Nat) /\ Len(s) = b - a
        /\ \A i \in 1 .. b - a : s[i] = whole[from + a + 1 + i - 1]
    <3>1. from + a + 1 \in Int /\ from + b \in Int
      BY <2>2
    <3>2. /\ s \in Seq(Nat)
          /\ Len(s) = IF from + a + 1 <= from + b THEN (from + b) - (from + a + 1) + 1 ELSE 0
          /\ \A i \in 1 .. (from + b) - (from + a + 1) + 1 : s[i] = whole[from + a + 1 + i - 1]
      BY <2>1, <2>3, <3>1, SubSeqProperties DEF Slice
    <3>3. QED
      BY <2>2, <3>2
  <2>6. /\ t \in Seq(Nat) /\ Len(t) = b - a
        /\ \A i \in 1 .. b - a : t[i] = part[a + 1 + i - 1]
    <3>1. a + 1 \in Int /\ b \in Int
      BY <2>2
    <3>2. /\ t \in Seq(Nat)
          /\ Len(t) = IF a + 1 <= b THEN b - (a + 1) + 1 ELSE 0
          /\ \A i \in 1 .. b - (a + 1) + 1 : t[i] = part[a + 1 + i - 1]
      BY <2>1, <2>4, <3>1, SubSeqProperties DEF Slice
    <3>3. QED
      BY <2>2, <3>2
  <2>7. ASSUME NEW i \in 1 .. b - a
        PROVE  s[i] = t[i]
    <3>1. /\ from + a + 1 + i - 1 = from + (a + i) /\ a + 1 + i - 1 = a + i
          /\ a + i \in 1 .. Len(part)
      BY <1>1, <2>2
    <3>2. whole[from + (a + i)] = part[a + i]
      BY <3>1 DEF Stands
    <3>3. QED
      BY <2>5, <2>6, <3>1, <3>2
  <2>8. s = t
    BY <2>5, <2>6, <2>7, SeqEqual
  <2>9. QED
    BY <2>1, <2>8
<1>5. QED
  BY <1>2, <1>3, <1>4 DEF At

(* The beginning of a sequence stands at its start. *)
LEMMA CutStands ==
    ASSUME NEW whole \in Seq(Nat), NEW n \in 0 .. Len(whole)
    PROVE  /\ SubSeq(whole, 1, n) \in Seq(Nat) /\ Len(SubSeq(whole, 1, n)) = n
           /\ Stands(SubSeq(whole, 1, n), whole, 0)
<1>1. PICK cut : cut = SubSeq(whole, 1, n)
  OBVIOUS
<1>2. n \in Nat /\ n <= Len(whole) /\ Len(whole) \in Nat /\ \A i \in 1 .. n : whole[i] \in Nat
  OBVIOUS
<1>3. /\ cut \in Seq(Nat)
      /\ Len(cut) = IF 1 <= n THEN n - 1 + 1 ELSE 0
      /\ \A i \in 1 .. n - 1 + 1 : cut[i] = whole[1 + i - 1]
  BY <1>1, <1>2, SubSeqProperties
<1>4. Len(cut) = n /\ n - 1 + 1 = n
  BY <1>2, <1>3
<1>5. \A i \in 1 .. n : whole[0 + i] = cut[i]
  <2>1. \A i \in 1 .. n : 1 + i - 1 = i /\ 0 + i = i
    BY <1>2
  <2>2. QED
    BY <1>3, <1>4, <2>1
<1>6. Stands(cut, whole, 0)
  BY <1>2, <1>4, <1>5 DEF Stands
<1>7. QED
  BY <1>1, <1>3, <1>4, <1>6

(* A word, written and read. *)
LEMMA WordReadBack ==
    ASSUME NEW n \in Nat
    PROVE  Be16(n) \in Seq(Nat) /\ Len(Be16(n)) = 2 /\ U16(Be16(n), 0) = n
<1>1. n \div 256 \in Nat /\ n % 256 \in Nat /\ 256 * (n \div 256) + (n % 256) = n
  <2>1. n \div 256 \in Nat
    OBVIOUS
  <2>2. n % 256 \in Nat
    OBVIOUS
  <2>3. 256 * (n \div 256) + (n % 256) = n
    OBVIOUS
  <2>4. QED
    BY <2>1, <2>2, <2>3
<1>2. PICK high, low : high = n \div 256 /\ low = n % 256
  OBVIOUS
<1>3. Be16(n) = <<high, low>> /\ high \in Nat /\ low \in Nat
  BY <1>1, <1>2 DEF Be16
<1>4. <<high, low>>[0 + 1] = high /\ <<high, low>>[0 + 2] = low
  OBVIOUS
<1>5. QED
  BY <1>1, <1>2, <1>3, <1>4 DEF U16

-----------------------------------------------------------------------------
(***************************************************************************)
(* Sequences one after the other                                           *)
(***************************************************************************)

Texts == Seq(Seq(Nat))

\* The first n parts put together, one more at a time.
Flattens(parts, n, f) ==
    f = [i \in 1 .. n |-> IF i = 1 THEN parts[i] ELSE f[i - 1] \o parts[i]]

(* There is such a function for every n. *)
LEMMA FlattenExists ==
    ASSUME NEW parts
    PROVE  \A n \in Nat : \E f : Flattens(parts, n, f)
<1> DEFINE S == {n \in Nat : \E f : Flattens(parts, n, f)}
<1>1. 0 \in S
  <2>1. PICK f : f = [i \in 1 .. 0 |-> parts[i]]
    OBVIOUS
  <2>2. Flattens(parts, 0, f)
    BY <2>1 DEF Flattens
  <2>3. QED
    BY <2>2
<1>2. ASSUME NEW n \in Nat, n \in S
      PROVE  n + 1 \in S
  <2>1. PICK f : Flattens(parts, n, f)
    BY <1>2
  <2>2. PICK last : last = IF n = 0 THEN parts[1] ELSE f[n] \o parts[n + 1]
    OBVIOUS
  <2>3. PICK g : g = [i \in 1 .. n + 1 |-> IF i = n + 1 THEN last ELSE f[i]]
    OBVIOUS
  <2>4. \A i \in 1 .. n : g[i] = f[i]
    BY <2>3
  <2>5. ASSUME NEW i \in 1 .. n + 1
        PROVE  g[i] = IF i = 1 THEN parts[i] ELSE g[i - 1] \o parts[i]
    <3>1. CASE i = n + 1
      <4>1. g[i] = last /\ i - 1 = n
        BY <2>3, <3>1
      <4>2. n # 0 => g[n] = f[n]
        BY <2>4
      <4>3. i = 1 <=> n = 0
        BY <3>1
      <4>4. QED
        BY <2>2, <3>1, <4>1, <4>2, <4>3
    <3>2. CASE i # n + 1
      <4>1. i \in 1 .. n /\ g[i] = f[i]
        BY <2>4, <3>2
      <4>2. f[i] = IF i = 1 THEN parts[i] ELSE f[i - 1] \o parts[i]
        BY <2>1, <4>1 DEF Flattens
      <4>3. i # 1 => i - 1 \in 1 .. n
        BY <4>1
      <4>4. QED
        BY <2>4, <4>1, <4>2, <4>3
    <3>3. QED
      BY <3>1, <3>2
  <2>6. Flattens(parts, n + 1, g)
    BY <2>3, <2>5 DEF Flattens
  <2>7. QED
    BY <2>6
<1>3. Nat \subseteq S
  <2> HIDE DEF S
  <2> QED BY <1>1, <1>2, SetInduction
<1>4. QED
  BY <1>3

(* FlattenSeq puts the parts together. *)
LEMMA FlattenSeqFlattens ==
    ASSUME NEW parts \in Texts, parts # <<>>
    PROVE  \E f : Flattens(parts, Len(parts), f) /\ FlattenSeq(parts) = f[Len(parts)]
<1>1. Len(parts) \in Nat /\ Len(parts) # 0
  BY DEF Texts
<1> DEFINE flatten == CHOOSE f : f = [i \in 1 .. Len(parts) |->
                          IF i = 1 THEN parts[i] ELSE f[i - 1] \o parts[i]]
<1>2. \E f : f = [i \in 1 .. Len(parts) |->
                    IF i = 1 THEN parts[i] ELSE f[i - 1] \o parts[i]]
  BY <1>1, FlattenExists DEF Flattens
<1>3. Flattens(parts, Len(parts), flatten)
  BY <1>2 DEF Flattens
<1>4. FlattenSeq(parts) = flatten[Len(parts)]
  BY <1>1 DEF FlattenSeq
<1>5. QED
  BY <1>3, <1>4

\* Where each part of a sequence of parts stands.
LaidOut(parts, whole, place) ==
    /\ place \in [0 .. Len(parts) -> Nat]
    /\ place[0] = 0
    /\ place[Len(parts)] = Len(whole)
    /\ \A k \in 1 .. Len(parts) :
          /\ place[k] = place[k - 1] + Len(parts[k])
          /\ Stands(parts[k], whole, place[k - 1])

(* Parts that are put together stand one after the other. *)
LEMMA PartsAreLaidOut ==
    ASSUME NEW parts \in Texts
    PROVE  /\ FlattenSeq(parts) \in Seq(Nat)
           /\ \E place : LaidOut(parts, FlattenSeq(parts), place)
<1>1. CASE parts = <<>>
  <2>1. FlattenSeq(parts) = <<>>
    BY <1>1 DEF FlattenSeq
  <2>2. PICK place : place = [k \in 0 .. 0 |-> 0]
    OBVIOUS
  <2>3. LaidOut(parts, <<>>, place)
    BY <1>1, <2>2 DEF LaidOut
  <2>4. QED
    BY <2>1, <2>3, EmptyText
<1>2. CASE parts # <<>>
  <2>1. Len(parts) \in Nat \ {0} /\ \A k \in 1 .. Len(parts) : parts[k] \in Seq(Nat)
    BY <1>2 DEF Texts
  <2>2. PICK f : Flattens(parts, Len(parts), f) /\ FlattenSeq(parts) = f[Len(parts)]
    BY <1>2, FlattenSeqFlattens
  <2>3. PICK before : before = [k \in 0 .. Len(parts) |-> IF k = 0 THEN <<>> ELSE f[k]]
    OBVIOUS
  <2>4. before[0] = <<>> /\ before[Len(parts)] = FlattenSeq(parts)
    BY <2>1, <2>2, <2>3
  <2>5. ASSUME NEW k \in 1 .. Len(parts)
        PROVE  before[k] = before[k - 1] \o parts[k]
    <3>1. before[k] = f[k] /\ k \in Nat /\ k # 0 /\ (k # 1 => k - 1 # 0)
      BY <2>1, <2>3
    <3>2. f[k] = IF k = 1 THEN parts[k] ELSE f[k - 1] \o parts[k]
      BY <2>2 DEF Flattens
    <3>3. CASE k = 1
      <4>1. before[k - 1] = <<>>
        BY <2>4, <3>3
      <4>2. <<>> \o parts[k] = parts[k]
        BY <2>1, NothingBefore
      <4>3. QED
        BY <3>1, <3>2, <3>3, <4>1, <4>2
    <3>4. CASE k # 1
      <4>1. before[k - 1] = f[k - 1]
        BY <2>1, <2>3, <3>1, <3>4
      <4>2. QED
        BY <3>1, <3>2, <3>4, <4>1
    <3>5. QED
      BY <3>3, <3>4
  <2>6. \A k \in 0 .. Len(parts) : before[k] \in Seq(Nat)
    <3> DEFINE S == {k \in Nat : k <= Len(parts) => before[k] \in Seq(Nat)}
    <3>1. 0 \in S
      BY <2>4, EmptyText
    <3>2. ASSUME NEW k \in Nat, k \in S
          PROVE  k + 1 \in S
      <4>1. SUFFICES ASSUME k + 1 <= Len(parts)
                     PROVE  before[k + 1] \in Seq(Nat)
        OBVIOUS
      <4>2. k <= Len(parts) /\ k + 1 \in 1 .. Len(parts) /\ k + 1 - 1 = k
        BY <2>1, <4>1
      <4>3. before[k] \in Seq(Nat) /\ parts[k + 1] \in Seq(Nat)
        BY <2>1, <3>2, <4>2
      <4>4. before[k + 1] = before[k] \o parts[k + 1]
        <5>1. PICK j : j = k + 1
          OBVIOUS
        <5>2. j \in 1 .. Len(parts) /\ j - 1 = k
          BY <4>2, <5>1
        <5>3. before[j] = before[j - 1] \o parts[j]
          BY <2>5, <5>2
        <5>4. QED
          BY <5>1, <5>2, <5>3
      <4>5. QED
        BY <4>3, <4>4, StandsTogether
    <3>3. Nat \subseteq S
      <4> HIDE DEF S
      <4> QED BY <3>1, <3>2, SetInduction
    <3>4. QED
      BY <2>1, <3>3
  <2>7. ASSUME NEW k \in 1 .. Len(parts)
        PROVE  /\ Stands(before[k - 1], before[k], 0)
               /\ Stands(parts[k], before[k], Len(before[k - 1]))
               /\ Len(before[k]) = Len(before[k - 1]) + Len(parts[k])
    <3>1. before[k - 1] \in Seq(Nat) /\ parts[k] \in Seq(Nat)
      BY <2>1, <2>6
    <3>2. QED
      BY <2>5, <3>1, StandsTogether
  <2>8. \A k \in 0 .. Len(parts) : Stands(before[k], FlattenSeq(parts), 0)
    <3> DEFINE S == {n \in Nat : n <= Len(parts) =>
                         Stands(before[Len(parts) - n], FlattenSeq(parts), 0)}
    <3>1. 0 \in S
      <4>1. Len(parts) - 0 = Len(parts)
        BY <2>1
      <4>2. FlattenSeq(parts) \in Seq(Nat)
        BY <2>1, <2>4, <2>6
      <4>3. Stands(FlattenSeq(parts), FlattenSeq(parts), 0)
        BY <4>2 DEF Stands
      <4>4. QED
        BY <2>4, <4>1, <4>3
    <3>2. ASSUME NEW n \in Nat, n \in S
          PROVE  n + 1 \in S
      <4>1. SUFFICES ASSUME n + 1 <= Len(parts)
                     PROVE  Stands(before[Len(parts) - (n + 1)], FlattenSeq(parts), 0)
        OBVIOUS
      <4>2. PICK k : k = Len(parts) - n
        OBVIOUS
      <4>3. /\ k \in 1 .. Len(parts) /\ Len(parts) - (n + 1) = k - 1 /\ n <= Len(parts)
            /\ k - 1 \in 0 .. Len(parts) /\ Len(parts) \in 0 .. Len(parts)
        BY <2>1, <4>1, <4>2
      <4>4. Stands(before[k], FlattenSeq(parts), 0)
        BY <3>2, <4>2, <4>3
      <4>5. Stands(before[k - 1], before[k], 0)
        BY <2>7, <4>3
      <4>6. /\ before[k - 1] \in Seq(Nat) /\ before[k] \in Seq(Nat)
            /\ FlattenSeq(parts) \in Seq(Nat)
        BY <2>4, <2>6, <4>3
      <4>7. Stands(before[k - 1], FlattenSeq(parts), 0 + 0)
        BY <4>4, <4>5, <4>6, StandsWithin
      <4>8. QED
        BY <4>3, <4>7
    <3>3. Nat \subseteq S
      <4> HIDE DEF S
      <4> QED BY <3>1, <3>2, SetInduction
    <3>4. ASSUME NEW k \in 0 .. Len(parts)
          PROVE  Stands(before[k], FlattenSeq(parts), 0)
      <4>1. PICK n : n = Len(parts) - k
        OBVIOUS
      <4>2. n \in Nat /\ n <= Len(parts) /\ Len(parts) - n = k
        BY <2>1, <4>1
      <4>3. n \in S
        BY <3>3, <4>2
      <4>4. QED
        BY <4>2, <4>3
    <3>5. QED
      BY <3>4
  <2>9. PICK place : place = [k \in 0 .. Len(parts) |-> Len(before[k])]
    OBVIOUS
  <2>10. /\ place \in [0 .. Len(parts) -> Nat] /\ place[0] = 0
         /\ place[Len(parts)] = Len(FlattenSeq(parts))
    <3>1. \A k \in 0 .. Len(parts) : Len(before[k]) \in Nat
      BY <2>6
    <3>2. 0 \in 0 .. Len(parts) /\ Len(parts) \in 0 .. Len(parts) /\ Len(<<>>) = 0
      BY <2>1
    <3>3. QED
      BY <2>4, <2>9, <3>1, <3>2
  <2>11. ASSUME NEW k \in 1 .. Len(parts)
         PROVE  /\ place[k] = place[k - 1] + Len(parts[k])
                /\ Stands(parts[k], FlattenSeq(parts), place[k - 1])
    <3>1. /\ k \in 0 .. Len(parts) /\ k - 1 \in 0 .. Len(parts)
          /\ Len(parts) \in 0 .. Len(parts)
      BY <2>1
    <3>2. place[k] = Len(before[k]) /\ place[k - 1] = Len(before[k - 1])
      BY <2>9, <3>1
    <3>3. PICK here : here = place[k - 1]
      OBVIOUS
    <3>4. /\ parts[k] \in Seq(Nat) /\ before[k] \in Seq(Nat)
          /\ FlattenSeq(parts) \in Seq(Nat) /\ here \in Nat
      BY <2>1, <2>4, <2>6, <3>1, <3>2, <3>3
    <3>5. Stands(parts[k], before[k], here) /\ Stands(before[k], FlattenSeq(parts), 0)
      BY <2>7, <2>8, <3>1, <3>2, <3>3
    <3>6. Stands(parts[k], FlattenSeq(parts), 0 + here)
      BY <3>4, <3>5, StandsWithin
    <3>7. 0 + here = here
      BY <3>4
    <3>8. QED
      BY <2>7, <3>2, <3>3, <3>6, <3>7
  <2>12. LaidOut(parts, FlattenSeq(parts), place)
    BY <2>10, <2>11 DEF LaidOut
  <2>13. FlattenSeq(parts) \in Seq(Nat)
    BY <2>1, <2>4, <2>6
  <2>14. QED
    BY <2>12, <2>13
<1>3. QED
  BY <1>1, <1>2

-----------------------------------------------------------------------------
(***************************************************************************)
(* The fields of a ClientHello                                             *)
(*                                                                         *)
(* The encoder writes them one after the other.  What extract_sni reads at the*)
(* places it computes is what was written.                                 *)
(***************************************************************************)

(* What stands in the beginning of a sequence stands in it at the same place. *)
LEMMA StandsInStart ==
    ASSUME NEW part \in Seq(Nat), NEW start \in Seq(Nat), NEW whole \in Seq(Nat),
           NEW a \in Nat, Stands(part, start, a), Stands(start, whole, 0)
    PROVE  Stands(part, whole, a)
<1>1. Stands(part, whole, 0 + a)
  BY StandsWithin
<1>2. 0 + a = a
  OBVIOUS
<1>3. QED
  BY <1>1, <1>2

(* The first byte of a part, and its first word, read where it stands. *)
LEMMA ReadFirstByte ==
    ASSUME NEW part \in Seq(Nat), NEW whole \in Seq(Nat), NEW from \in Nat,
           Stands(part, whole, from), Len(part) >= 1
    PROVE  At(whole, from) = At(part, 0)
<1>1. 0 \in 0 .. Len(part) - 1 /\ from + 0 = from
  OBVIOUS
<1>2. At(whole, from + 0) = At(part, 0)
  BY <1>1, ReadWhereItStands
<1>3. QED
  BY <1>1, <1>2

(* So is its first word. *)
LEMMA ReadFirstWord ==
    ASSUME NEW part \in Seq(Nat), NEW whole \in Seq(Nat), NEW from \in Nat,
           Stands(part, whole, from), Len(part) >= 2
    PROVE  U16(whole, from) = U16(part, 0)
<1>1. 0 \in 0 .. Len(part) - 2 /\ from + 0 = from
  OBVIOUS
<1>2. U16(whole, from + 0) = U16(part, 0)
  BY <1>1, ReadWhereItStands
<1>3. QED
  BY <1>1, <1>2

(* A counted sequence: its length, and then itself. *)
LEMMA CountedReadBack ==
    ASSUME NEW s \in Seq(Nat)
    PROVE  /\ Counted16(s) \in Seq(Nat) /\ Len(Counted16(s)) = 2 + Len(s)
           /\ U16(Counted16(s), 0) = Len(s)
           /\ Stands(s, Counted16(s), 2)
<1>1. PICK word, whole : word = Be16(Len(s)) /\ whole = Counted16(s)
  OBVIOUS
<1>2. word \in Seq(Nat) /\ Len(word) = 2 /\ U16(word, 0) = Len(s) /\ Len(s) \in Nat
  BY <1>1, WordReadBack
<1>3. whole = word \o s
  BY <1>1 DEF Counted16
<1>4. /\ whole \in Seq(Nat) /\ Len(whole) = 2 + Len(s)
      /\ Stands(word, whole, 0) /\ Stands(s, whole, 2)
  BY <1>2, <1>3, StandsTogether
<1>5. U16(whole, 0) = U16(word, 0)
  <2>1. 0 \in Nat /\ Len(word) >= 2
    BY <1>2
  <2>2. QED
    BY <1>2, <1>4, <2>1, ReadFirstWord, Zenon
<1>6. QED
  BY <1>1, <1>2, <1>4, <1>5

(* Zeros are bytes. *)
LEMMA ZerosAreBytes ==
    ASSUME NEW n \in Nat
    PROVE  Zeros(n) \in Seq(Nat) /\ Len(Zeros(n)) = n
BY DEF Zeros

\* The fields of a ClientHello before its extensions, one more at a time.
OneByte(n) == <<n>>
Suite == <<19, 1>>
Methods == <<1, 0>>
Version771 == Be16(771)
WithRandom == Version771 \o Zeros(32)
WithLength(session) == WithRandom \o OneByte(Len(session))
WithSession(session) == WithLength(session) \o session
WithCiphers(session) == WithSession(session) \o Counted16(Suite)
WithMethods(session) == WithCiphers(session) \o Methods
HelloBody(session, list) == WithMethods(session) \o Counted16(list)
Handshake(session, list) == <<1, 0>> \o Counted16(HelloBody(session, list))

(* Their lengths. *)
LEMMA FieldLengths ==
    ASSUME NEW session \in Seq(Nat), NEW list \in Seq(Nat)
    PROVE  /\ WithRandom \in Seq(Nat) /\ Len(WithRandom) = 34
           /\ WithLength(session) \in Seq(Nat) /\ Len(WithLength(session)) = 35
           /\ WithSession(session) \in Seq(Nat)
           /\ Len(WithSession(session)) = 35 + Len(session)
           /\ WithCiphers(session) \in Seq(Nat)
           /\ Len(WithCiphers(session)) = 39 + Len(session)
           /\ WithMethods(session) \in Seq(Nat)
           /\ Len(WithMethods(session)) = 41 + Len(session)
           /\ HelloBody(session, list) \in Seq(Nat)
           /\ Len(HelloBody(session, list)) = 43 + Len(session) + Len(list)
<1>0. Len(session) \in Nat /\ Len(list) \in Nat
  OBVIOUS
<1>1. Version771 \in Seq(Nat) /\ Len(Version771) = 2
  BY WordReadBack DEF Version771
<1>2. Zeros(32) \in Seq(Nat) /\ Len(Zeros(32)) = 32
  BY ZerosAreBytes
<1>3. WithRandom \in Seq(Nat) /\ Len(WithRandom) = 34
  <2>1. WithRandom \in Seq(Nat) /\ Len(WithRandom) = 2 + 32
    BY SMTT(30), ZenonT(30), <1>1, <1>2, StandsTogether DEF WithRandom
  <2>2. QED
    BY <2>1
<1>4. OneByte(Len(session)) \in Seq(Nat) /\ Len(OneByte(Len(session))) = 1
  BY <1>0 DEF OneByte
<1>5. WithLength(session) \in Seq(Nat) /\ Len(WithLength(session)) = 35
  <2>1. WithLength(session) \in Seq(Nat) /\ Len(WithLength(session)) = 34 + 1
    BY <1>3, <1>4, StandsTogether DEF WithLength
  <2>2. QED
    BY <2>1
<1>6. WithSession(session) \in Seq(Nat) /\ Len(WithSession(session)) = 35 + Len(session)
  BY <1>5, StandsTogether DEF WithSession
<1>7. Suite \in Seq(Nat) /\ Len(Suite) = 2
  BY DEF Suite
<1>8. Counted16(Suite) \in Seq(Nat) /\ Len(Counted16(Suite)) = 4
  <2>1. Counted16(Suite) \in Seq(Nat) /\ Len(Counted16(Suite)) = 2 + 2
    BY <1>7, CountedReadBack
  <2>2. QED
    BY <2>1
<1>9. WithCiphers(session) \in Seq(Nat) /\ Len(WithCiphers(session)) = 39 + Len(session)
  <2>1. /\ WithCiphers(session) \in Seq(Nat)
        /\ Len(WithCiphers(session)) = (35 + Len(session)) + 4
    BY <1>6, <1>8, StandsTogether DEF WithCiphers
  <2>2. QED
    BY <1>0, <2>1
<1>10. Methods \in Seq(Nat) /\ Len(Methods) = 2
  BY DEF Methods
<1>11. WithMethods(session) \in Seq(Nat) /\ Len(WithMethods(session)) = 41 + Len(session)
  <2>1. /\ WithMethods(session) \in Seq(Nat)
        /\ Len(WithMethods(session)) = (39 + Len(session)) + 2
    BY <1>9, <1>10, StandsTogether DEF WithMethods
  <2>2. QED
    BY <1>0, <2>1
<1>12. Counted16(list) \in Seq(Nat) /\ Len(Counted16(list)) = 2 + Len(list)
  BY CountedReadBack
<1>13. /\ HelloBody(session, list) \in Seq(Nat)
       /\ Len(HelloBody(session, list)) = 43 + Len(session) + Len(list)
  <2>1. /\ HelloBody(session, list) \in Seq(Nat)
        /\ Len(HelloBody(session, list)) = (41 + Len(session)) + (2 + Len(list))
    BY <1>11, <1>12, StandsTogether DEF HelloBody
  <2>2. QED
    BY <1>0, <2>1
<1>14. QED
  BY <1>3, <1>5, <1>6, <1>9, <1>11, <1>13

(* Where they stand in the handshake message. *)
LEMMA FieldsStand ==
    ASSUME NEW session \in Seq(Nat), NEW list \in Seq(Nat),
           NEW body, body = HelloBody(session, list),
           NEW size, size = Len(session)
    PROVE  /\ Stands(OneByte(size), body, 34)
           /\ Stands(Counted16(Suite), body, 35 + size)
           /\ Stands(Methods, body, 39 + size)
           /\ Stands(Counted16(list), body, 41 + size)
<1>0. size \in Nat /\ body \in Seq(Nat)
  BY FieldLengths
<1>1. /\ OneByte(size) \in Seq(Nat) /\ Methods \in Seq(Nat)
      /\ Counted16(Suite) \in Seq(Nat) /\ Counted16(list) \in Seq(Nat)
  <2>1. OneByte(size) \in Seq(Nat) /\ Methods \in Seq(Nat) /\ Suite \in Seq(Nat)
    BY <1>0 DEF OneByte, Methods, Suite
  <2>2. QED
    BY <2>1, CountedReadBack
<1>2. PICK p3, p4, p5, p6 : /\ p3 = WithLength(session) /\ p4 = WithSession(session)
                            /\ p5 = WithCiphers(session) /\ p6 = WithMethods(session)
  OBVIOUS
<1>3. /\ p3 \in Seq(Nat) /\ p4 \in Seq(Nat) /\ p5 \in Seq(Nat) /\ p6 \in Seq(Nat)
      /\ WithRandom \in Seq(Nat) /\ Len(WithRandom) = 34 /\ Len(p4) = 35 + size
      /\ Len(p5) = 39 + size /\ Len(p6) = 41 + size
  BY <1>2, FieldLengths
<1>4. Stands(p6, body, 0) /\ Stands(Counted16(list), body, 41 + size)
  BY <1>1, <1>2, <1>3, StandsTogether DEF HelloBody
<1>5. Stands(p5, p6, 0) /\ Stands(Methods, p6, 39 + size)
  BY <1>1, <1>2, <1>3, StandsTogether DEF WithMethods
<1>6. Stands(p4, p5, 0) /\ Stands(Counted16(Suite), p5, 35 + size)
  BY <1>1, <1>2, <1>3, StandsTogether DEF WithCiphers
<1>7. Stands(p3, p4, 0)
  BY <1>2, <1>3, StandsTogether DEF WithSession
<1>8. Stands(OneByte(size), p3, 34)
  <2>1. p3 = WithRandom \o OneByte(size)
    BY <1>2 DEF WithLength
  <2>2. Stands(OneByte(size), WithRandom \o OneByte(size), Len(WithRandom))
    BY <1>1, <1>3, StandsTogether
  <2>3. QED
    BY <1>3, <2>1, <2>2
<1>9. 34 \in Nat /\ 35 + size \in Nat /\ 39 + size \in Nat /\ 0 \in Nat
  BY <1>0
<1>10. Stands(Methods, body, 39 + size)
  BY SMTT(30), ZenonT(30), <1>0, <1>1, <1>3, <1>4, <1>5, <1>9, StandsInStart
<1>11. Stands(p5, body, 0)
  BY <1>0, <1>3, <1>4, <1>5, <1>9, StandsInStart
<1>12. Stands(Counted16(Suite), body, 35 + size)
  BY SMTT(30), ZenonT(30), <1>0, <1>1, <1>3, <1>6, <1>9, <1>11, StandsInStart
<1>13. Stands(p4, body, 0)
  BY <1>0, <1>3, <1>6, <1>9, <1>11, StandsInStart
<1>14. Stands(p3, body, 0)
  BY <1>0, <1>3, <1>7, <1>9, <1>13, StandsInStart
<1>15. Stands(OneByte(size), body, 34)
  BY SMTT(30), ZenonT(30), <1>0, <1>1, <1>3, <1>8, <1>9, <1>14, StandsInStart
<1>16. QED
  BY <1>4, <1>10, <1>12, <1>15

\* What the code reads of the handshake message, on the way to the extensions.
ReadsAsHello(record, size, list) ==
    /\ record \in Seq(Nat) /\ Len(record) = 47 + size + Len(list)
    /\ At(record, 0) = CLIENT_HELLO
    /\ At(record, 38) = size
    /\ U16(record, 39 + size) = 2
    /\ At(record, 43 + size) = 1
    /\ U16(record, 45 + size) = Len(list)
    /\ Stands(list, record, 47 + size)

(* So reads the handshake that the encoder writes. *)
LEMMA HandshakeReadsAsHello ==
    ASSUME NEW session \in Seq(Nat), NEW list \in Seq(Nat)
    PROVE  ReadsAsHello(Handshake(session, list), Len(session), list)
<1>1. PICK size, body, counted, record, type :
         /\ size = Len(session) /\ body = HelloBody(session, list)
         /\ counted = Counted16(body) /\ record = Handshake(session, list)
         /\ type = Methods
  OBVIOUS
<1>2. /\ size \in Nat /\ body \in Seq(Nat) /\ Len(body) = 43 + size + Len(list)
      /\ Len(list) \in Nat
  BY <1>1, FieldLengths
<1>3. type \in Seq(Nat) /\ Len(type) = 2 /\ At(type, 0) = 1
  BY <1>1 DEF Methods, At
<1>4. /\ counted \in Seq(Nat) /\ Len(counted) = 2 + Len(body) /\ Stands(body, counted, 2)
  BY <1>1, <1>2, CountedReadBack
<1>5. record = type \o counted
  BY <1>1 DEF Handshake, Methods
<1>6. /\ record \in Seq(Nat) /\ Len(record) = 2 + Len(counted)
      /\ Stands(type, record, 0) /\ Stands(counted, record, 2)
  BY <1>3, <1>4, <1>5, StandsTogether
<1>7. Stands(body, record, 4)
  <2>1. Stands(body, record, 2 + 2)
    BY <1>2, <1>4, <1>6, StandsWithin
  <2>2. QED
    BY <2>1
<1>8. ASSUME NEW part \in Seq(Nat), NEW a \in Nat, Stands(part, body, a)
      PROVE  Stands(part, record, 4 + a)
  BY <1>2, <1>6, <1>7, <1>8, StandsWithin
<1>9. PICK byte, suite, methods, last :
         /\ byte = OneByte(size) /\ suite = Counted16(Suite) /\ methods = Methods
         /\ last = Counted16(list)
  OBVIOUS
<1>10. /\ byte \in Seq(Nat) /\ Len(byte) = 1 /\ At(byte, 0) = size
       /\ methods \in Seq(Nat) /\ Len(methods) = 2 /\ At(methods, 0) = 1
  BY <1>2, <1>9 DEF OneByte, Methods, At
<1>11. suite \in Seq(Nat) /\ Len(suite) = 4 /\ U16(suite, 0) = 2
  <2>1. Suite \in Seq(Nat) /\ Len(Suite) = 2
    BY DEF Suite
  <2>2. suite \in Seq(Nat) /\ Len(suite) = 2 + 2 /\ U16(suite, 0) = 2
    BY <1>9, <2>1, CountedReadBack
  <2>3. QED
    BY <2>2
<1>12. /\ last \in Seq(Nat) /\ Len(last) = 2 + Len(list) /\ U16(last, 0) = Len(list)
       /\ Stands(list, last, 2)
  BY <1>9, CountedReadBack
<1>13. /\ Stands(byte, body, 34) /\ Stands(suite, body, 35 + size)
       /\ Stands(methods, body, 39 + size) /\ Stands(last, body, 41 + size)
  BY <1>1, <1>9, FieldsStand
<1>14. /\ Stands(byte, record, 38) /\ Stands(suite, record, 39 + size)
       /\ Stands(methods, record, 43 + size) /\ Stands(last, record, 45 + size)
  <2>1. Stands(byte, record, 4 + 34)
    BY <1>8, <1>10, <1>13
  <2>2. Stands(suite, record, 4 + (35 + size))
    BY <1>2, <1>8, <1>11, <1>13
  <2>3. Stands(methods, record, 4 + (39 + size))
    BY <1>2, <1>8, <1>10, <1>13
  <2>4. Stands(last, record, 4 + (41 + size))
    BY <1>2, <1>8, <1>12, <1>13
  <2>5. /\ 4 + 34 = 38 /\ 4 + (35 + size) = 39 + size /\ 4 + (39 + size) = 43 + size
        /\ 4 + (41 + size) = 45 + size
    BY <1>2
  <2>6. QED
    BY <2>1, <2>2, <2>3, <2>4, <2>5
<1>15. Stands(list, record, 47 + size)
  <2>1. Stands(list, record, (45 + size) + 2)
    BY <1>2, <1>6, <1>12, <1>14, StandsWithin
  <2>2. (45 + size) + 2 = 47 + size
    BY <1>2
  <2>3. QED
    BY <2>1, <2>2
<1>16. /\ 0 \in Nat /\ 38 \in Nat /\ 39 + size \in Nat /\ 43 + size \in Nat
       /\ 45 + size \in Nat /\ Len(type) >= 1 /\ Len(byte) >= 1 /\ Len(methods) >= 1
       /\ Len(suite) >= 2 /\ Len(last) >= 2
  BY <1>2, <1>3, <1>10, <1>11, <1>12
<1>17. At(record, 0) = 1 /\ At(record, 38) = size /\ At(record, 43 + size) = 1
  <2>1. At(record, 0) = At(type, 0)
    BY <1>3, <1>6, <1>16, ReadFirstByte, Zenon
  <2>2. At(record, 38) = At(byte, 0)
    BY <1>6, <1>10, <1>14, <1>16, ReadFirstByte, Zenon
  <2>3. At(record, 43 + size) = At(methods, 0)
    BY <1>6, <1>10, <1>14, <1>16, ReadFirstByte, Zenon
  <2>4. QED
    BY <1>3, <1>10, <2>1, <2>2, <2>3
<1>18. U16(record, 39 + size) = 2 /\ U16(record, 45 + size) = Len(list)
  <2>1. U16(record, 39 + size) = U16(suite, 0)
    BY <1>6, <1>11, <1>14, <1>16, ReadFirstWord, Zenon
  <2>2. U16(record, 45 + size) = U16(last, 0)
    BY <1>6, <1>12, <1>14, <1>16, ReadFirstWord, Zenon
  <2>3. QED
    BY <1>11, <1>12, <2>1, <2>2
<1>19. Len(record) = 47 + size + Len(list)
  BY <1>2, <1>4, <1>6
<1>20. QED
  BY <1>1, <1>6, <1>15, <1>17, <1>18, <1>19 DEF ReadsAsHello, CLIENT_HELLO

\* A TLS record: its type, its version, its length and what it holds.
(* The bytes of a ClientHello, and of what comes after it. *)
LEMMA HelloIsRecord ==
    ASSUME NEW session \in Seq(Nat), NEW list \in Seq(Nat), NEW after \in Seq(Nat),
           NEW bytes, bytes = hello_with(session, list) \o after,
           NEW record, record = Handshake(session, list)
    PROVE  /\ bytes \in Seq(Nat) /\ Len(bytes) >= 5 + Len(record)
           /\ At(bytes, 0) = HANDSHAKE
           /\ U16(bytes, 3) = Len(record)
           /\ Stands(record, bytes, 5)
<1>1. PICK type, version, counted, hello :
         /\ type = <<22>> /\ version = Be16(769) /\ counted = Counted16(record)
         /\ hello = hello_with(session, list)
  OBVIOUS
<1>2. record \in Seq(Nat) /\ Len(record) \in Nat
  <2>1. ReadsAsHello(record, Len(session), list)
    BY HandshakeReadsAsHello
  <2>2. QED
    BY <2>1 DEF ReadsAsHello
<1>3. /\ type \in Seq(Nat) /\ Len(type) = 1 /\ At(type, 0) = 22
      /\ version \in Seq(Nat) /\ Len(version) = 2
  BY <1>1, WordReadBack DEF At
<1>4. /\ counted \in Seq(Nat) /\ Len(counted) = 2 + Len(record)
      /\ U16(counted, 0) = Len(record) /\ Stands(record, counted, 2)
  BY <1>1, <1>2, CountedReadBack
<1>5. PICK start : start = type \o version
  OBVIOUS
<1>6. start \in Seq(Nat) /\ Len(start) = 3 /\ Stands(type, start, 0)
  <2>1. /\ start \in Seq(Nat) /\ Len(start) = Len(type) + Len(version)
        /\ Stands(type, start, 0)
    BY <1>3, <1>5, StandsTogether, Zenon
  <2>2. QED
    BY <1>3, <2>1
<1>7. hello = start \o counted
  BY <1>1, <1>5 DEF hello_with, Handshake, HelloBody, WithMethods, WithCiphers,
       WithSession, WithLength, WithRandom, Version771, OneByte, Suite, Methods
<1>8. /\ hello \in Seq(Nat) /\ Len(hello) = 3 + Len(counted)
      /\ Stands(start, hello, 0) /\ Stands(counted, hello, 3)
  <2>1. /\ hello \in Seq(Nat) /\ Len(hello) = Len(start) + Len(counted)
        /\ Stands(start, hello, 0) /\ Stands(counted, hello, Len(start))
    BY <1>4, <1>6, <1>7, StandsTogether, Zenon
  <2>2. QED
    BY <1>6, <2>1
<1>9. /\ bytes \in Seq(Nat) /\ Len(bytes) = Len(hello) + Len(after)
      /\ Stands(hello, bytes, 0)
  BY <1>1, <1>8, StandsTogether
<1>10. Stands(counted, bytes, 3) /\ Stands(type, bytes, 0)
  <2>1. Stands(type, hello, 0)
    BY <1>3, <1>6, <1>8, StandsInStart
  <2>2. QED
    BY <1>3, <1>4, <1>8, <1>9, <2>1, StandsInStart
<1>11. Stands(record, bytes, 5)
  <2>1. Stands(record, bytes, 3 + 2)
    BY <1>2, <1>4, <1>9, <1>10, StandsWithin
  <2>2. QED
    BY <2>1
<1>12. At(bytes, 0) = 22
  <2>1. At(bytes, 0) = At(type, 0)
    <3>1. 0 \in Nat /\ Len(type) >= 1
      BY <1>3
    <3>2. QED
      BY <1>3, <1>9, <1>10, <3>1, ReadFirstByte, Zenon
  <2>2. QED
    BY <1>3, <2>1
<1>13. U16(bytes, 3) = Len(record)
  <2>1. U16(bytes, 3) = U16(counted, 0)
    <3>1. 3 \in Nat /\ Len(counted) >= 2
      BY <1>2, <1>4
    <3>2. QED
      BY <1>4, <1>9, <1>10, <3>1, ReadFirstWord, Zenon
  <2>2. QED
    BY <1>4, <2>1
<1>14. QED
  BY <1>2, <1>4, <1>8, <1>9, <1>11, <1>12, <1>13 DEF HANDSHAKE

(* Bytes are numbers. *)
LEMMA BufferIsText ==
    ASSUME NEW buf \in Buffer
    PROVE  buf \in Seq(Nat)
<1>1. Byte \subseteq Nat
  BY DEF Byte
<1>2. QED
  BY <1>1, SeqMonotonic DEF Buffer

(* An entry of a list of server names: its kind, and its counted name. *)
LEMMA ServerNameReadBack ==
    ASSUME NEW entry, entry.kind \in Nat, entry.name \in Seq(Nat)
    PROVE  /\ ServerName(entry) \in Seq(Nat)
           /\ Len(ServerName(entry)) = 3 + Len(entry.name)
           /\ At(ServerName(entry), 0) = entry.kind
           /\ U16(ServerName(entry), 1) = Len(entry.name)
           /\ Stands(entry.name, ServerName(entry), 3)
<1>1. PICK kind, counted, whole, text :
         /\ kind = <<entry.kind>> /\ counted = Counted16(entry.name)
         /\ whole = ServerName(entry) /\ text = entry.name
  OBVIOUS
<1>2. text \in Seq(Nat) /\ Len(text) \in Nat
  BY <1>1
<1>3. kind \in Seq(Nat) /\ Len(kind) = 1 /\ At(kind, 0) = entry.kind
  BY <1>1 DEF At
<1>4. /\ counted \in Seq(Nat) /\ Len(counted) = 2 + Len(text)
      /\ U16(counted, 0) = Len(text) /\ Stands(text, counted, 2)
  BY <1>1, <1>2, CountedReadBack
<1>5. whole = kind \o counted
  BY <1>1 DEF ServerName
<1>6. /\ whole \in Seq(Nat) /\ Len(whole) = 1 + Len(counted)
      /\ Stands(kind, whole, 0) /\ Stands(counted, whole, 1)
  <2>1. /\ whole \in Seq(Nat) /\ Len(whole) = Len(kind) + Len(counted)
        /\ Stands(kind, whole, 0) /\ Stands(counted, whole, Len(kind))
    BY <1>3, <1>4, <1>5, StandsTogether, Zenon
  <2>2. QED
    BY <1>3, <2>1
<1>7. At(whole, 0) = entry.kind
  <2>1. 0 \in Nat /\ Len(kind) >= 1
    BY <1>3
  <2>2. QED
    BY <1>3, <1>6, <2>1, ReadFirstByte, Zenon
<1>8. U16(whole, 1) = Len(text)
  <2>1. 1 \in Nat /\ Len(counted) >= 2
    BY <1>2, <1>4
  <2>2. QED
    BY <1>4, <1>6, <2>1, ReadFirstWord, Zenon
<1>9. Stands(text, whole, 3)
  <2>1. Stands(text, whole, 1 + 2)
    BY <1>2, <1>4, <1>6, StandsWithin
  <2>2. QED
    BY <2>1
<1>10. QED
  BY <1>1, <1>2, <1>4, <1>6, <1>7, <1>8, <1>9

(* An extension: its type, and its counted data. *)
LEMMA ExtensionReadBack ==
    ASSUME NEW extension, extension.type \in Nat,
           NEW data \in Seq(Nat), data = ExtensionData(extension)
    PROVE  /\ Extension(extension) \in Seq(Nat)
           /\ Len(Extension(extension)) = 4 + Len(data)
           /\ U16(Extension(extension), 0) = extension.type
           /\ U16(Extension(extension), 2) = Len(data)
           /\ Stands(data, Extension(extension), 4)
<1>1. PICK type, counted, whole :
         /\ type = Be16(extension.type) /\ counted = Counted16(data)
         /\ whole = Extension(extension)
  OBVIOUS
<1>2. Len(data) \in Nat
  OBVIOUS
<1>3. type \in Seq(Nat) /\ Len(type) = 2 /\ U16(type, 0) = extension.type
  BY <1>1, WordReadBack
<1>4. /\ counted \in Seq(Nat) /\ Len(counted) = 2 + Len(data)
      /\ U16(counted, 0) = Len(data) /\ Stands(data, counted, 2)
  BY <1>1, CountedReadBack
<1>5. whole = type \o counted
  BY <1>1 DEF Extension
<1>6. /\ whole \in Seq(Nat) /\ Len(whole) = 2 + Len(counted)
      /\ Stands(type, whole, 0) /\ Stands(counted, whole, 2)
  <2>1. /\ whole \in Seq(Nat) /\ Len(whole) = Len(type) + Len(counted)
        /\ Stands(type, whole, 0) /\ Stands(counted, whole, Len(type))
    BY <1>3, <1>4, <1>5, StandsTogether, Zenon
  <2>2. QED
    BY <1>3, <2>1
<1>7. U16(whole, 0) = extension.type
  <2>1. 0 \in Nat /\ Len(type) >= 2
    BY <1>3
  <2>2. QED
    BY <1>3, <1>6, <2>1, ReadFirstWord, Zenon
<1>8. U16(whole, 2) = Len(data)
  <2>1. 2 \in Nat /\ Len(counted) >= 2
    BY <1>2, <1>4
  <2>2. QED
    BY <1>4, <1>6, <2>1, ReadFirstWord, Zenon
<1>9. Stands(data, whole, 4)
  <2>1. Stands(data, whole, 2 + 2)
    BY <1>4, <1>6, StandsWithin
  <2>2. QED
    BY <2>1
<1>10. QED
  BY <1>1, <1>2, <1>4, <1>6, <1>7, <1>8, <1>9

\* The parts of a ClientHello, and the places where they stand.
ExtensionParts(hello) ==
    [i \in DOMAIN hello.extensions |-> Extension(hello.extensions[i])]
NameParts(extension) ==
    [j \in DOMAIN extension.names |-> ServerName(extension.names[j])]
ListOf(hello) == FlattenSeq(ExtensionParts(hello))
NamesOf(extension) == FlattenSeq(NameParts(extension))
Places(parts) == CHOOSE place : LaidOut(parts, FlattenSeq(parts), place)
HandshakeOf(hello) == Handshake(hello.session, ListOf(hello))
ListStart(hello) == 47 + Len(hello.session)

(* A type is a number. *)
LEMMA WordIsNatural ==
    ASSUME NEW w \in Word
    PROVE  w \in Nat
BY DEF Word

(* Names, one after the other. *)
LEMMA NamesLaidOut ==
    ASSUME NEW extension \in Extensions
    PROVE  /\ NameParts(extension) \in Texts
           /\ Len(NameParts(extension)) = Len(extension.names)
           /\ NamesOf(extension) \in Seq(Nat)
           /\ LaidOut(NameParts(extension), NamesOf(extension),
                      Places(NameParts(extension)))
<1>1. PICK names, parts : names = extension.names /\ parts = NameParts(extension)
  OBVIOUS
<1>2. names \in Seq(Names)
  BY <1>1 DEF Extensions
<1>3. \A j \in 1 .. Len(names) : ServerName(names[j]) \in Seq(Nat)
  <2>1. SUFFICES ASSUME NEW j \in 1 .. Len(names)
                 PROVE  ServerName(names[j]) \in Seq(Nat)
    OBVIOUS
  <2>2. names[j] \in Names
    BY <1>2
  <2>3. names[j].kind \in Nat /\ names[j].name \in Seq(Nat)
    <3>1. names[j].kind \in Byte /\ names[j].name \in Buffer
      BY <2>2 DEF Names
    <3>2. QED
      BY <3>1, ByteIsNatural, BufferIsText
  <2>4. QED
    BY <2>3, ServerNameReadBack
<1>4. Len(names) \in Nat /\ DOMAIN names = 1 .. Len(names)
  BY <1>2
<1>5. parts = [j \in 1 .. Len(names) |-> ServerName(names[j])]
  BY <1>1, <1>4 DEF NameParts
<1>6. parts \in Texts /\ Len(parts) = Len(names)
  BY <1>3, <1>4, <1>5 DEF Texts
<1>7. FlattenSeq(parts) \in Seq(Nat) /\ LaidOut(parts, FlattenSeq(parts), Places(parts))
  BY <1>6, PartsAreLaidOut DEF Places
<1>8. QED
  BY <1>1, <1>6, <1>7 DEF NamesOf

(* The data of an extension are bytes, or at least numbers. *)
LEMMA DataIsText ==
    ASSUME NEW extension \in Extensions
    PROVE  ExtensionData(extension) \in Seq(Nat)
<1>1. extension.data \in Seq(Nat)
  BY BufferIsText DEF Extensions
<1>2. NamesOf(extension) \in Seq(Nat)
  BY NamesLaidOut
<1>3. Counted16(NamesOf(extension)) \in Seq(Nat)
  BY <1>2, CountedReadBack
<1>4. QED
  BY <1>1, <1>3 DEF ExtensionData, NamesOf, NameParts

(* Extensions, one after the other. *)
LEMMA ExtensionsLaidOut ==
    ASSUME NEW hello, hello.extensions \in Seq(Extensions)
    PROVE  /\ ExtensionParts(hello) \in Texts
           /\ Len(ExtensionParts(hello)) = Len(hello.extensions)
           /\ ListOf(hello) \in Seq(Nat)
           /\ LaidOut(ExtensionParts(hello), ListOf(hello), Places(ExtensionParts(hello)))
<1>1. PICK list, parts : list = hello.extensions /\ parts = ExtensionParts(hello)
  OBVIOUS
<1>2. list \in Seq(Extensions)
  BY <1>1
<1>3. \A j \in 1 .. Len(list) : Extension(list[j]) \in Seq(Nat)
  <2>1. SUFFICES ASSUME NEW j \in 1 .. Len(list)
                 PROVE  Extension(list[j]) \in Seq(Nat)
    OBVIOUS
  <2>2. list[j] \in Extensions
    BY <1>2
  <2>3. list[j].type \in Nat
    BY <2>2, WordIsNatural DEF Extensions
  <2>4. ExtensionData(list[j]) \in Seq(Nat)
    BY <2>2, DataIsText
  <2>5. QED
    BY <2>3, <2>4, ExtensionReadBack
<1>4. Len(list) \in Nat /\ DOMAIN list = 1 .. Len(list)
  BY <1>2
<1>5. parts = [j \in 1 .. Len(list) |-> Extension(list[j])]
  BY <1>1, <1>4 DEF ExtensionParts
<1>6. parts \in Texts /\ Len(parts) = Len(list)
  BY <1>3, <1>4, <1>5 DEF Texts
<1>7. FlattenSeq(parts) \in Seq(Nat) /\ LaidOut(parts, FlattenSeq(parts), Places(parts))
  BY <1>6, PartsAreLaidOut DEF Places
<1>8. QED
  BY <1>1, <1>6, <1>7 DEF ListOf

-----------------------------------------------------------------------------
(***************************************************************************)
(* What is left of a ClientHello                                           *)
(*                                                                         *)
(* Its extensions, and the names in them, read as they were written, as far as*)
(* the capture goes.                                                       *)
(***************************************************************************)

(* A sequence that is cut off reads like the whole, as far as it goes. *)
LEMMA CutReads ==
    ASSUME NEW cut \in Seq(Nat), NEW whole \in Seq(Nat), Stands(cut, whole, 0)
    PROVE  /\ \A i \in 0 .. Len(cut) - 1 : At(cut, i) = At(whole, i)
           /\ \A i \in 0 .. Len(cut) - 2 : U16(cut, i) = U16(whole, i)
           /\ \A a \in 0 .. Len(cut) : \A b \in a .. Len(cut) :
                 Slice(cut, a, b) = Slice(whole, a, b)
           /\ Len(cut) <= Len(whole)
<1>1. 0 \in Nat /\ Len(cut) \in Nat /\ \A i \in 0 .. Len(cut) : 0 + i = i
  OBVIOUS
<1>2. /\ \A i \in 0 .. Len(cut) - 1 : At(whole, 0 + i) = At(cut, i)
      /\ \A i \in 0 .. Len(cut) - 2 : U16(whole, 0 + i) = U16(cut, i)
      /\ \A a \in 0 .. Len(cut) : \A b \in a .. Len(cut) :
            Slice(whole, 0 + a, 0 + b) = Slice(cut, a, b)
  BY <1>1, ReadWhereItStands, Zenon
<1>3. ASSUME NEW i \in 0 .. Len(cut) - 1
      PROVE  At(cut, i) = At(whole, i)
  <2>1. 0 + i = i
    BY <1>1
  <2>2. QED
    BY <1>2, <2>1
<1>4. ASSUME NEW i \in 0 .. Len(cut) - 2
      PROVE  U16(cut, i) = U16(whole, i)
  <2>1. 0 + i = i
    BY <1>1
  <2>2. QED
    BY <1>2, <2>1
<1>5. ASSUME NEW a \in 0 .. Len(cut), NEW b \in a .. Len(cut)
      PROVE  Slice(cut, a, b) = Slice(whole, a, b)
  <2>1. 0 + a = a /\ 0 + b = b
    BY <1>1
  <2>2. Slice(whole, 0 + a, 0 + b) = Slice(cut, a, b)
    BY <1>2
  <2>3. QED
    BY <2>1, <2>2
<1>6. Len(cut) <= Len(whole)
  BY <1>1 DEF Stands
<1>7. QED
  BY <1>3, <1>4, <1>5, <1>6

\* A part with a head and a text stands at p in a list, and the list in a whole
\* that is cut off behind the head.
CutPart(part, head, text, list, p, whole, start, cut, here) ==
    /\ part \in Seq(Nat) /\ text \in Seq(Nat) /\ list \in Seq(Nat)
    /\ whole \in Seq(Nat) /\ cut \in Seq(Nat)
    /\ head \in Nat /\ p \in Nat /\ start \in Nat /\ here = start + p
    /\ Len(part) = head + Len(text)
    /\ Stands(text, part, head) /\ Stands(part, list, p)
    /\ Stands(list, whole, start) /\ Stands(cut, whole, 0)
    /\ here + head <= Len(cut)

\* What is read of it.
HeadReads(part, head, text, p, whole, start, cut, here) ==
    /\ here \in Nat
    /\ \A i \in 0 .. head - 1 : At(cut, here + i) = At(part, i)
    /\ \A i \in 0 .. head - 2 : U16(cut, here + i) = U16(part, i)
    /\ start + (p + Len(part)) = here + head + Len(text)
    /\ Stands(text, whole, here + head)

(* The head reads in what is left as it was written, and the text stands behind *)
(* it.                                                                          *)
LEMMA CutPartReads ==
    ASSUME NEW part, NEW head, NEW text, NEW list, NEW p, NEW whole, NEW start,
           NEW cut, NEW here,
           CutPart(part, head, text, list, p, whole, start, cut, here)
    PROVE  HeadReads(part, head, text, p, whole, start, cut, here)
<1>1. /\ part \in Seq(Nat) /\ text \in Seq(Nat) /\ list \in Seq(Nat)
      /\ whole \in Seq(Nat) /\ cut \in Seq(Nat)
      /\ head \in Nat /\ p \in Nat /\ start \in Nat /\ here = start + p
      /\ Len(part) = head + Len(text)
      /\ Stands(text, part, head) /\ Stands(part, list, p)
      /\ Stands(list, whole, start) /\ Stands(cut, whole, 0)
      /\ here + head <= Len(cut)
  BY DEF CutPart
<1>2. here \in Nat /\ Len(text) \in Nat /\ Len(part) \in Nat /\ Len(cut) \in Nat
  BY <1>1
<1>3. Stands(part, whole, here)
  BY <1>1, <1>2, StandsWithin, Zenon
<1>4. Stands(text, whole, here + head)
  BY <1>1, <1>2, <1>3, StandsWithin, Zenon
<1>5. /\ \A i \in 0 .. Len(part) - 1 : At(whole, here + i) = At(part, i)
      /\ \A i \in 0 .. Len(part) - 2 : U16(whole, here + i) = U16(part, i)
  BY <1>1, <1>2, <1>3, ReadWhereItStands, Zenon
<1>6. /\ \A i \in 0 .. Len(cut) - 1 : At(cut, i) = At(whole, i)
      /\ \A i \in 0 .. Len(cut) - 2 : U16(cut, i) = U16(whole, i)
  BY <1>1, CutReads, Zenon
<1>7. ASSUME NEW i \in 0 .. head - 1
      PROVE  At(cut, here + i) = At(part, i)
  <2>1. i \in 0 .. Len(part) - 1 /\ here + i \in 0 .. Len(cut) - 1
    BY <1>1, <1>2
  <2>2. QED
    BY <1>5, <1>6, <2>1, Zenon
<1>8. ASSUME NEW i \in 0 .. head - 2
      PROVE  U16(cut, here + i) = U16(part, i)
  <2>1. i \in 0 .. Len(part) - 2 /\ here + i \in 0 .. Len(cut) - 2
    BY <1>1, <1>2
  <2>2. QED
    BY <1>5, <1>6, <2>1, Zenon
<1>9. start + (p + Len(part)) = here + head + Len(text)
  BY <1>1, <1>2
<1>10. QED
  BY <1>2, <1>4, <1>7, <1>8, <1>9 DEF HeadReads

\* Extension k of a ClientHello begins at a place of what was captured of it.
ExtensionCut(hello, cut, k, here) ==
    /\ WrittenHello(hello)
    /\ cut \in Seq(Nat) /\ Stands(cut, HandshakeOf(hello), 0)
    /\ k \in 1 .. Len(hello.extensions)
    /\ here = ListStart(hello) + Places(ExtensionParts(hello))[k - 1]
    /\ here + 4 <= Len(cut)

\* What the code reads there.
ExtensionReads(hello, cut, k, here) ==
    /\ here \in Nat /\ hello.extensions[k] \in Extensions
    /\ ExtensionData(hello.extensions[k]) \in Seq(Nat)
    /\ U16(cut, here) = hello.extensions[k].type
    /\ U16(cut, here + 2) = Len(ExtensionData(hello.extensions[k]))
    /\ ListStart(hello) + Places(ExtensionParts(hello))[k]
           = here + 4 + Len(ExtensionData(hello.extensions[k]))
    /\ Stands(ExtensionData(hello.extensions[k]), HandshakeOf(hello), here + 4)

(* The code reads the type, and how long the data are, which stand behind them. *)
LEMMA ExtensionIsRead ==
    ASSUME NEW hello, NEW cut, NEW k, NEW here, ExtensionCut(hello, cut, k, here)
    PROVE  ExtensionReads(hello, cut, k, here)
<1> SUFFICES ASSUME WrittenHello(hello),
                    cut \in Seq(Nat), Stands(cut, HandshakeOf(hello), 0),
                    NEW place, place = Places(ExtensionParts(hello)),
                    k \in 1 .. Len(hello.extensions),
                    here = ListStart(hello) + place[k - 1],
                    here + 4 <= Len(cut),
                    NEW e, e = hello.extensions[k],
                    NEW data, data = ExtensionData(e)
             PROVE  /\ here \in Nat /\ e \in Extensions /\ data \in Seq(Nat)
                    /\ U16(cut, here) = e.type
                    /\ U16(cut, here + 2) = Len(data)
                    /\ ListStart(hello) + place[k] = here + 4 + Len(data)
                    /\ Stands(data, HandshakeOf(hello), here + 4)
  BY Zenon DEF ExtensionCut, ExtensionReads
<1>1. PICK parts, list, whole, start, part :
         /\ parts = ExtensionParts(hello) /\ list = ListOf(hello)
         /\ whole = HandshakeOf(hello) /\ start = ListStart(hello)
         /\ part = Extension(e)
  OBVIOUS
<1>2. /\ hello.extensions \in Seq(Extensions) /\ hello.session \in Seq(Nat)
      /\ Len(hello.session) \in Nat
  BY BufferIsText DEF WrittenHello
<1>3. /\ Len(parts) = Len(hello.extensions) /\ list \in Seq(Nat)
      /\ LaidOut(parts, list, place)
  BY <1>1, <1>2, ExtensionsLaidOut
<1>4. e \in Extensions /\ Len(hello.extensions) \in Nat
  BY <1>2
<1>5. e.type \in Nat /\ data \in Seq(Nat)
  BY <1>4, WordIsNatural, DataIsText DEF Extensions
<1>6. parts[k] = part
  BY <1>1, <1>2 DEF ExtensionParts
<1>7. /\ part \in Seq(Nat) /\ Len(part) = 4 + Len(data)
      /\ U16(part, 0) = e.type /\ U16(part, 2) = Len(data) /\ Stands(data, part, 4)
  BY <1>1, <1>5, ExtensionReadBack
<1>8. /\ whole \in Seq(Nat) /\ Stands(list, whole, start) /\ start \in Nat
  <2>1. ReadsAsHello(whole, Len(hello.session), list)
    BY <1>1, <1>2, <1>3, HandshakeReadsAsHello DEF HandshakeOf
  <2>2. QED
    BY <1>1, <1>2, <2>1 DEF ReadsAsHello, ListStart
<1>9. PICK p : p = place[k - 1]
  OBVIOUS
<1>10. /\ p \in Nat /\ place[k] = p + Len(part) /\ Stands(part, list, p)
  <2>1. k \in 1 .. Len(parts) /\ k - 1 \in 0 .. Len(parts)
    BY <1>3, <1>4
  <2>2. QED
    BY <1>3, <1>6, <1>9, <2>1 DEF LaidOut
<1>11. PICK q : q = place[k]
  OBVIOUS
<1>12. here = start + p /\ q = p + Len(part)
  BY <1>1, <1>9, <1>10, <1>11, Zenon
<1>18. PICK head : head = 4
  OBVIOUS
<1>13. CutPart(part, head, data, list, p, whole, start, cut, here)
  <2>1. head \in Nat /\ here + head <= Len(cut) /\ Stands(cut, whole, 0)
    BY <1>1, <1>18
  <2>2. QED
    BY <1>18, <1>3, <1>5, <1>7, <1>8, <1>10, <1>12, <2>1, Zenon DEF CutPart
<1>14. /\ here \in Nat
       /\ \A i \in 0 .. head - 2 : U16(cut, here + i) = U16(part, i)
       /\ start + (p + Len(part)) = here + head + Len(data)
       /\ Stands(data, whole, here + head)
  <2>1. HeadReads(part, head, data, p, whole, start, cut, here)
    BY <1>13, CutPartReads, Zenon
  <2>2. QED
    BY <2>1 DEF HeadReads
<1>15. 0 \in 0 .. head - 2 /\ 2 \in 0 .. head - 2 /\ here + 0 = here
  BY <1>14, <1>18
<1>16. U16(cut, here) = e.type /\ U16(cut, here + 2) = Len(data)
  BY <1>7, <1>14, <1>15, Zenon
<1>17. QED
  BY <1>1, <1>4, <1>5, <1>11, <1>12, <1>14, <1>16, <1>18, Zenon

(* What the code reads of a list of names, and of a name where it begins. *)
LEMMA ListHere ==
    ASSUME NEW e \in Extensions, e.type = 0,
           NEW whole \in Seq(Nat), NEW cut \in Seq(Nat), Stands(cut, whole, 0),
           NEW from \in Nat, Stands(ExtensionData(e), whole, from),
           from + 2 <= Len(cut)
    PROVE  /\ U16(cut, from) = Len(NamesOf(e))
           /\ Len(ExtensionData(e)) = 2 + Len(NamesOf(e))
           /\ Stands(NamesOf(e), whole, from + 2)
<1>1. PICK data, names : data = ExtensionData(e) /\ names = NamesOf(e)
  OBVIOUS
<1>2. names \in Seq(Nat) /\ Len(names) \in Nat /\ Len(cut) \in Nat
  BY <1>1, NamesLaidOut
<1>3. data = Counted16(names)
  BY <1>1 DEF ExtensionData, NamesOf, NameParts
<1>4. /\ data \in Seq(Nat) /\ Len(data) = 2 + Len(names)
      /\ U16(data, 0) = Len(names) /\ Stands(names, data, 2)
  BY <1>2, <1>3, CountedReadBack
<1>5. Stands(data, whole, from)
  BY <1>1
<1>6. U16(cut, from) = U16(whole, from)
  <2>1. from \in 0 .. Len(cut) - 2
    BY <1>2
  <2>2. QED
    BY <2>1, CutReads, Zenon
<1>7. U16(whole, from) = U16(data, 0)
  <2>1. Len(data) >= 2
    BY <1>2, <1>4
  <2>2. QED
    BY <1>4, <1>5, <2>1, ReadFirstWord, Zenon
<1>8. Stands(names, whole, from + 2)
  BY <1>2, <1>4, <1>5, StandsWithin
<1>9. QED
  BY <1>1, <1>4, <1>6, <1>7, <1>8

\* Name j of a list begins at a place of what was captured of a ClientHello.
NameCut(e, whole, cut, from, j, here) ==
    /\ e \in Extensions /\ from \in Nat
    /\ whole \in Seq(Nat) /\ cut \in Seq(Nat) /\ Stands(cut, whole, 0)
    /\ Stands(NamesOf(e), whole, from)
    /\ j \in 1 .. Len(e.names)
    /\ here = from + Places(NameParts(e))[j - 1]
    /\ here + 3 <= Len(cut)

\* What the code reads there.
NameReads(e, whole, cut, from, j, here) ==
    /\ here \in Nat /\ e.names[j] \in Names
    /\ At(cut, here) = e.names[j].kind
    /\ U16(cut, here + 1) = Len(e.names[j].name)
    /\ from + Places(NameParts(e))[j] = here + 3 + Len(e.names[j].name)
    /\ Stands(e.names[j].name, whole, here + 3)

(* The code reads the kind, and how long the name is, which stands behind them. *)
LEMMA NameIsRead ==
    ASSUME NEW e, NEW whole, NEW cut, NEW from, NEW j, NEW here,
           NameCut(e, whole, cut, from, j, here)
    PROVE  NameReads(e, whole, cut, from, j, here)
<1> SUFFICES ASSUME e \in Extensions, from \in Nat,
                    whole \in Seq(Nat), cut \in Seq(Nat), Stands(cut, whole, 0),
                    Stands(NamesOf(e), whole, from),
                    NEW place, place = Places(NameParts(e)),
                    j \in 1 .. Len(e.names),
                    here = from + place[j - 1],
                    here + 3 <= Len(cut),
                    NEW entry, entry = e.names[j]
             PROVE  /\ here \in Nat /\ entry \in Names
                    /\ At(cut, here) = entry.kind
                    /\ U16(cut, here + 1) = Len(entry.name)
                    /\ from + place[j] = here + 3 + Len(entry.name)
                    /\ Stands(entry.name, whole, here + 3)
  BY Zenon DEF NameCut, NameReads
<1>1. PICK parts, list, part, text :
         /\ parts = NameParts(e) /\ list = NamesOf(e)
         /\ part = ServerName(entry) /\ text = entry.name
  OBVIOUS
<1>2. e.names \in Seq(Names)
  BY DEF Extensions
<1>3. /\ Len(parts) = Len(e.names) /\ list \in Seq(Nat)
      /\ LaidOut(parts, list, place)
  BY <1>1, NamesLaidOut
<1>4. entry \in Names /\ Len(e.names) \in Nat
  BY <1>2
<1>5. entry.kind \in Nat /\ text \in Seq(Nat)
  <2>1. entry.kind \in Byte /\ entry.name \in Buffer
    BY <1>4 DEF Names
  <2>2. QED
    BY <1>1, <2>1, ByteIsNatural, BufferIsText
<1>6. parts[j] = part
  BY <1>1, <1>2 DEF NameParts
<1>7. /\ part \in Seq(Nat) /\ Len(part) = 3 + Len(text)
      /\ At(part, 0) = entry.kind /\ U16(part, 1) = Len(text) /\ Stands(text, part, 3)
  BY <1>1, <1>5, ServerNameReadBack
<1>8. Stands(list, whole, from)
  BY <1>1
<1>9. PICK p : p = place[j - 1]
  OBVIOUS
<1>10. /\ p \in Nat /\ place[j] = p + Len(part) /\ Stands(part, list, p)
  <2>1. j \in 1 .. Len(parts) /\ j - 1 \in 0 .. Len(parts)
    BY <1>3, <1>4
  <2>2. QED
    BY <1>3, <1>6, <1>9, <2>1 DEF LaidOut
<1>11. PICK q : q = place[j]
  OBVIOUS
<1>12. here = from + p /\ q = p + Len(part)
  BY <1>9, <1>10, <1>11, Zenon
<1>18. PICK head : head = 3
  OBVIOUS
<1>13. CutPart(part, head, text, list, p, whole, from, cut, here)
  <2>1. head \in Nat /\ here + head <= Len(cut)
    BY <1>18
  <2>2. QED
    BY <1>18, <1>3, <1>5, <1>7, <1>8, <1>10, <1>12, <2>1, Zenon DEF CutPart
<1>14. /\ here \in Nat
       /\ \A i \in 0 .. head - 1 : At(cut, here + i) = At(part, i)
       /\ \A i \in 0 .. head - 2 : U16(cut, here + i) = U16(part, i)
       /\ from + (p + Len(part)) = here + head + Len(text)
       /\ Stands(text, whole, here + head)
  <2>1. HeadReads(part, head, text, p, whole, from, cut, here)
    BY <1>13, CutPartReads, Zenon
  <2>2. QED
    BY <2>1 DEF HeadReads
<1>15. 0 \in 0 .. head - 1 /\ 1 \in 0 .. head - 2 /\ here + 0 = here
  BY <1>14, <1>18
<1>16. At(cut, here) = entry.kind /\ U16(cut, here + 1) = Len(text)
  BY <1>7, <1>14, <1>15, Zenon
<1>17. QED
  BY <1>1, <1>4, <1>11, <1>12, <1>14, <1>16, <1>18, Zenon

-----------------------------------------------------------------------------
(***************************************************************************)
(* The walk of extract_sni                                                 *)
(***************************************************************************)

\* Where the walk through what was captured of a ClientHello stands: where an
\* extension, or a name in a list of names, begins or the last one ends, or where
\* the capture ends.
AtExtension(hello) ==
    \/ pos = extensions_end
    \/ \E k \in 0 .. Len(hello.extensions) :
          pos = ListStart(hello) + Places(ExtensionParts(hello))[k]

AtName(extension) ==
    \/ cursor = ExtEnd - ExtStart
    \/ \E j \in 0 .. Len(extension.names) :
          cursor = 2 + Places(NameParts(extension))[j]

InNames(hello, k) ==
    /\ pos = ListStart(hello) + Places(ExtensionParts(hello))[k - 1]
    /\ hello.extensions[k].type = 0
    /\ AtName(hello.extensions[k])

Walking(hello) ==
    /\ Stands(message, HandshakeOf(hello), 0)
    /\ extensions_end = Len(message)
    /\ at = "extensions" => AtExtension(hello)
    /\ at = "names" => \E k \in 1 .. Len(hello.extensions) : InNames(hello, k)

\* While the parser reads the beginning of a ClientHello.
HelloRead(hello) ==
    /\ at \in {"hello", "extensions", "names", "found"}
    /\ at = "hello" => message = segment.payload
    /\ at # "found" => hostname = None /\ segment.payload # <<>>
    /\ at = "found" => hostname \in {None} \cup BeginningOf(hello.sni)
    /\ at \in {"extensions", "names"} => Walking(hello)

HelloSoFar ==
    LET hello == capture.truth.hello IN
    hello # None /\ at # "idle" /\ HoldsStartOf(segment, hello) => HelloRead(hello)

(* The first of some places. *)
LEMMA FirstOfPlaces ==
    ASSUME NEW places, places \subseteq Nat, NEW end
    PROVE  /\ places = {} => First(places, end) = end
           /\ places # {} => /\ First(places, end) \in places
                             /\ \A j \in places : First(places, end) <= j
<1>1. ASSUME places # {}
      PROVE  \E i \in places : \A j \in places : i <= j
  BY <1>1, LeastNatural
<1>2. QED
  BY <1>1 DEF First

(* A payload that begins with the type of a handshake is no HTTP request: its *)
(* first word is no method.                                                   *)
LEMMA HandshakeNotRequest ==
    ASSUME NEW text \in Seq(Nat), text # <<>>, At(text, 0) = HANDSHAKE
    PROVE  ~IsRequest(text)
<1>1. Len(text) \in Nat /\ Len(text) >= 1 /\ text[1] = 22
  BY DEF At, HANDSHAKE
<1>11. At(text, 0) \notin SPACES
  BY DEF HANDSHAKE, SPACES
<1>2. PICK line : line = LineEnd(text, 0)
  OBVIOUS
<1>3. line \in Nat /\ line >= 1
  <2>1. PICK places : places = {i \in 0 .. Len(text) - 2 : Slice(text, i, i + 2) = CRLF}
    OBVIOUS
  <2>2. line = First(places, Len(text)) /\ places \subseteq Nat
    <3>1. line = First(places, Len(text))
      BY <1>2, <2>1, Zenon DEF LineEnd
    <3>2. places \subseteq Nat
      BY <1>1, <2>1
    <3>3. QED
      BY <3>1, <3>2
  <2>3. 0 \notin places
    <3>1. SUFFICES ASSUME 0 \in 0 .. Len(text) - 2, Slice(text, 0, 0 + 2) = CRLF
                   PROVE  FALSE
      BY <2>1
    <3>2. Slice(text, 0, 0 + 2) = SubSeq(text, 1, 2)
      BY DEF Slice
    <3>3. SubSeq(text, 1, 2)[1] = text[1]
      BY <1>1, <3>1
    <3>4. CRLF[1] = 13
      BY DEF CRLF
    <3>5. QED
      BY <1>1, <3>1, <3>2, <3>3, <3>4
  <2>4. CASE places = {}
    <3>1. line = Len(text)
      BY <2>2, <2>4, FirstOfPlaces, Zenon
    <3>2. QED
      BY <1>1, <3>1
  <2>5. CASE places # {}
    <3>1. line \in places
      BY <2>2, <2>5, FirstOfPlaces, Zenon
    <3>2. line \in Nat /\ line # 0
      BY <2>2, <2>3, <3>1, Zenon
    <3>3. QED
      BY <3>2
  <2>6. QED
    BY <2>4, <2>5
<1>4. MethodStart(text) = 0
  <2>1. PICK places : places = {i \in 0 .. line - 1 : At(text, i) \notin SPACES}
    OBVIOUS
  <2>2. MethodStart(text) = First(places, line) /\ places \subseteq Nat
    <3>1. MethodStart(text) = First(places, line)
      BY <1>2, <2>1, Zenon DEF MethodStart, WordStart
    <3>2. places \subseteq Nat
      BY <1>3, <2>1
    <3>3. QED
      BY <3>1, <3>2
  <2>3. 0 \in places
    BY <1>3, <1>11, <2>1
  <2>4. PICK first : first = First(places, line)
    OBVIOUS
  <2>5. first \in places /\ first <= 0
    <3>1. places # {}
      BY <2>3
    <3>2. QED
      BY <2>2, <2>3, <2>4, <3>1, FirstOfPlaces, Zenon
  <2>6. first \in Nat
    BY <2>2, <2>5, Zenon
  <2>7. QED
    BY <2>2, <2>4, <2>5, <2>6
<1>5. PICK word : word = MethodEnd(text)
  OBVIOUS
<1>6. word \in Nat /\ word >= 1
  <2>1. PICK places : places = {i \in 0 .. line - 1 : At(text, i) \in SPACES}
    OBVIOUS
  <2>2. word = First(places, line) /\ places \subseteq Nat
    <3>1. word = First(places, line)
      BY <1>2, <1>4, <1>5, <2>1, Zenon DEF MethodEnd, WordEnd
    <3>2. places \subseteq Nat
      BY <1>3, <2>1
    <3>3. QED
      BY <3>1, <3>2
  <2>3. 0 \notin places
    BY <1>11, <2>1
  <2>4. CASE places = {}
    <3>1. word = line
      BY <2>2, <2>4, FirstOfPlaces, Zenon
    <3>2. QED
      BY <1>3, <3>1
  <2>5. CASE places # {}
    <3>1. word \in places
      BY <2>2, <2>5, FirstOfPlaces, Zenon
    <3>2. word \in Nat /\ word # 0
      BY <2>2, <2>3, <3>1, Zenon
    <3>3. QED
      BY <3>2
  <2>6. QED
    BY <2>4, <2>5
<1>7. Slice(text, 0, word)[1] = 22
  <2>1. Slice(text, 0, word) = SubSeq(text, 1, word)
    BY DEF Slice
  <2>2. SubSeq(text, 1, word)[1] = text[1]
    BY <1>1, <1>6
  <2>3. QED
    BY <1>1, <2>1, <2>2
<1>8. \A method \in HTTP_METHODS : method[1] \in {71, 80, 68, 72, 79}
  BY DEF HTTP_METHODS
<1>9. Slice(text, 0, word) \notin HTTP_METHODS
  BY <1>7, <1>8
<1>10. QED
  BY <1>4, <1>5, <1>9 DEF IsRequest

(* What is known of a ClientHello that was written, and of its parts. *)
LEMMA WrittenParts ==
    ASSUME NEW hello, WrittenHello(hello),
           NEW place, place = Places(ExtensionParts(hello)),
           NEW whole, whole = HandshakeOf(hello),
           NEW start, start = ListStart(hello)
    PROVE  /\ hello.extensions \in Seq(Extensions)
           /\ ListOf(hello) \in Seq(Nat) /\ whole \in Seq(Nat) /\ start \in Nat
           /\ ReadsAsHello(whole, Len(hello.session), ListOf(hello))
           /\ place \in [0 .. Len(hello.extensions) -> Nat]
           /\ place[0] = 0
           /\ start + place[Len(hello.extensions)] = Len(whole)
           /\ hello.bytes \in Seq(Nat) /\ Len(hello.bytes) >= 5 + Len(whole)
           /\ At(hello.bytes, 0) = HANDSHAKE
           /\ U16(hello.bytes, 3) = Len(whole)
           /\ Stands(whole, hello.bytes, 5)
<1>1. /\ hello.extensions \in Seq(Extensions) /\ hello.session \in Seq(Nat)
      /\ hello.after \in Seq(Nat) /\ hello.bytes = ClientHello(hello) \o hello.after
  BY BufferIsText DEF WrittenHello
<1>2. PICK list, session, size, count, after, bytes :
         /\ list = ListOf(hello) /\ session = hello.session /\ size = Len(session)
         /\ count = Len(hello.extensions) /\ after = hello.after /\ bytes = hello.bytes
  OBVIOUS
<1>3. /\ Len(ExtensionParts(hello)) = count /\ list \in Seq(Nat)
      /\ LaidOut(ExtensionParts(hello), list, place)
  BY <1>1, <1>2, ExtensionsLaidOut
<1>4. place \in [0 .. count -> Nat] /\ place[0] = 0 /\ place[count] = Len(list)
  BY <1>3, Zenon DEF LaidOut
<1>5. session \in Seq(Nat) /\ after \in Seq(Nat) /\ size \in Nat /\ Len(list) \in Nat
  BY <1>1, <1>2, <1>3
<1>6. whole = Handshake(session, list)
  BY <1>2, Zenon DEF HandshakeOf
<1>7. ReadsAsHello(whole, size, list)
  BY <1>2, <1>3, <1>5, <1>6, HandshakeReadsAsHello, Zenon
<1>8. whole \in Seq(Nat) /\ Len(whole) = 47 + size + Len(list)
  BY <1>7, Zenon DEF ReadsAsHello
<1>9. start = 47 + size
  BY <1>2, Zenon DEF ListStart
<1>10. start \in Nat /\ start + Len(list) = Len(whole)
  BY <1>5, <1>8, <1>9
<1>11. bytes = hello_with(session, list) \o after
  BY <1>1, <1>2, Zenon DEF ClientHello, ListOf, ExtensionParts
<1>12. /\ bytes \in Seq(Nat) /\ Len(bytes) >= 5 + Len(whole)
       /\ At(bytes, 0) = HANDSHAKE
       /\ U16(bytes, 3) = Len(whole)
       /\ Stands(whole, bytes, 5)
  BY <1>3, <1>5, <1>6, <1>11, HelloIsRecord, Zenon
<1>13. start + place[count] = Len(whole)
  BY <1>4, <1>10, Zenon
<1>14. QED
  BY <1>1, <1>2, <1>3, <1>4, <1>7, <1>8, <1>10, <1>12, <1>13, Zenon

(* Where the walk finds an extension, one of those that were written begins. *)
LEMMA FindsExtension ==
    ASSUME NEW hello, WrittenHello(hello), TypeOK,
           Stands(message, HandshakeOf(hello), 0), extensions_end = Len(message),
           AtExtension(hello), HasExtension
    PROVE  \E k \in 1 .. Len(hello.extensions) :
              pos = ListStart(hello) + Places(ExtensionParts(hello))[k - 1]
<1>1. PICK place, whole, start, count :
         /\ place = Places(ExtensionParts(hello)) /\ whole = HandshakeOf(hello)
         /\ start = ListStart(hello) /\ count = Len(hello.extensions)
  OBVIOUS
<1>2. /\ hello.extensions \in Seq(Extensions) /\ whole \in Seq(Nat) /\ start \in Nat
      /\ place \in [0 .. count -> Nat] /\ start + place[count] = Len(whole)
  BY <1>1, WrittenParts
<1>3. /\ count \in Nat /\ Len(whole) \in Nat /\ Len(message) \in Nat /\ pos \in Nat
      /\ Len(message) <= Len(whole)
  BY <1>1, <1>2 DEF TypeOK, Buffer, Stands
<1>4. pos + 4 <= Len(message)
  BY DEF HasExtension
<1>5. PICK k \in 0 .. count : pos = start + place[k]
  BY <1>1, <1>3, <1>4 DEF AtExtension
<1>6. k # count
  BY <1>2, <1>3, <1>4, <1>5
<1>7. PICK next_one : next_one = k + 1
  OBVIOUS
<1>8. next_one \in 1 .. count /\ next_one - 1 = k
  BY <1>3, <1>5, <1>6, <1>7
<1>9. QED
  BY <1>1, <1>5, <1>8

(* The code reads there what was written, as far as it was captured. *)
LEMMA ExtensionAtHand ==
    ASSUME NEW hello, WrittenHello(hello), TypeOK,
           Stands(message, HandshakeOf(hello), 0), extensions_end = Len(message),
           NEW k \in 1 .. Len(hello.extensions),
           pos = ListStart(hello) + Places(ExtensionParts(hello))[k - 1],
           HasExtension
    PROVE  /\ ExtensionReads(hello, message, k, pos)
           /\ \/ ExtEnd = extensions_end
              \/ ExtEnd = ListStart(hello) + Places(ExtensionParts(hello))[k]
<1>1. pos + 4 <= Len(message)
  BY DEF HasExtension
<1>2. message \in Seq(Nat)
  BY BufferIsText DEF TypeOK
<1>3. ExtensionCut(hello, message, k, pos)
  BY <1>1, <1>2, Zenon DEF ExtensionCut
<1>4. ExtensionReads(hello, message, k, pos)
  BY <1>3, ExtensionIsRead, Zenon
<1>5. PICK size, end :
         /\ size = Len(ExtensionData(hello.extensions[k]))
         /\ end = ListStart(hello) + Places(ExtensionParts(hello))[k]
  OBVIOUS
<1>6. U16(message, pos + 2) = size /\ end = pos + 4 + size
  BY <1>4, <1>5, Zenon DEF ExtensionReads
<1>7. ExtEnd = AtMostOf(end, extensions_end)
  BY <1>6, Zenon DEF ExtEnd, ExtStart
<1>8. ExtEnd = extensions_end \/ ExtEnd = end
  BY <1>7, Zenon DEF AtMostOf
<1>9. QED
  BY <1>4, <1>5, <1>8, Zenon

(* Where the walk finds a name, one of those that were written begins, and the *)
(* code reads what was written, as far as it was captured.                     *)
LEMMA NameAtHand ==
    ASSUME NEW hello, WrittenHello(hello), TypeOK, at = "names",
           Stands(message, HandshakeOf(hello), 0), extensions_end = Len(message),
           NEW k \in 1 .. Len(hello.extensions), InNames(hello, k), HasName
    PROVE  \E j \in 1 .. Len(hello.extensions[k].names) :
              /\ cursor = 2 + Places(NameParts(hello.extensions[k]))[j - 1]
              /\ NameReads(hello.extensions[k], HandshakeOf(hello), message,
                           ExtStart + 2, j, ExtStart + cursor)
<1>1. PICK e, whole, data, list, place, count, from :
         /\ e = hello.extensions[k] /\ whole = HandshakeOf(hello)
         /\ data = ExtensionData(e) /\ list = NamesOf(e)
         /\ place = Places(NameParts(e)) /\ count = Len(e.names)
         /\ from = ExtStart + 2
  OBVIOUS
<1>2. /\ message \in Buffer /\ Len(message) \in Nat /\ pos \in Nat /\ cursor \in Nat
      /\ HasExtension /\ NamesServers
  BY DEF TypeOK, Buffer
<1>3. /\ pos = ListStart(hello) + Places(ExtensionParts(hello))[k - 1]
      /\ e.type = 0 /\ AtName(e)
  BY <1>1, Zenon DEF InNames
<1>4. ExtensionReads(hello, message, k, pos)
  BY <1>2, <1>3, ExtensionAtHand, Zenon
<1>5. e \in Extensions /\ Stands(data, whole, ExtStart)
  <2>1. e \in Extensions /\ Stands(data, whole, pos + 4)
    BY <1>1, <1>4, Zenon DEF ExtensionReads
  <2>2. QED
    BY <2>1, Zenon DEF ExtStart
<1>6. /\ ExtStart \in Nat /\ ExtEnd \in Nat /\ ExtStart + 5 <= ExtEnd
      /\ ExtEnd <= Len(message)
  <2>1. /\ ExtStart \in Nat /\ ExtEnd \in Nat /\ ExtEnd <= extensions_end
    BY <1>2, ExtensionInside
  <2>2. ExtEnd - ExtStart >= 5
    BY <1>2 DEF NamesServers
  <2>3. QED
    BY <1>2, <2>1, <2>2
<1>7. whole \in Seq(Nat) /\ message \in Seq(Nat) /\ Stands(message, whole, 0)
  BY <1>1, <1>2, WrittenParts, BufferIsText
<1>8. U16(message, ExtStart) = Len(list) /\ Stands(list, whole, from)
  <2>1. ExtStart + 2 <= Len(message)
    BY <1>2, <1>6
  <2>2. Stands(ExtensionData(e), whole, ExtStart)
    BY <1>1, <1>5, Zenon
  <2>3. U16(message, ExtStart) = Len(NamesOf(e)) /\ Stands(NamesOf(e), whole, ExtStart + 2)
    BY <1>3, <1>5, <1>6, <1>7, <2>1, <2>2, ListHere, Zenon
  <2>4. QED
    BY <1>1, <2>3, Zenon
<1>9. /\ list \in Seq(Nat) /\ place \in [0 .. count -> Nat] /\ place[count] = Len(list)
  <2>1. /\ list \in Seq(Nat) /\ LaidOut(NameParts(e), list, place)
        /\ Len(NameParts(e)) = count
    BY <1>1, <1>5, NamesLaidOut
  <2>2. QED
    BY <2>1, Zenon DEF LaidOut
<1>10. count \in Nat /\ Len(list) \in Nat
  BY <1>1, <1>5, <1>9 DEF Extensions
<1>11. cursor + 3 <= 2 + Len(list) /\ cursor + 3 <= ExtEnd - ExtStart
  <2>1. ListEnd = AtMostOf(2 + Len(list), ExtEnd - ExtStart)
    BY <1>8, Zenon DEF ListEnd
  <2>2. cursor + 3 <= ListEnd
    BY DEF HasName, NameStart
  <2>3. QED
    BY <1>2, <1>6, <1>10, <2>1, <2>2 DEF AtMostOf
<1>12. PICK i \in 0 .. count : cursor = 2 + place[i]
  <2>1. cursor # ExtEnd - ExtStart
    BY <1>2, <1>6, <1>11
  <2>2. QED
    BY <1>1, <1>3, <2>1, Zenon DEF AtName
<1>13. i # count
  BY <1>2, <1>9, <1>10, <1>11, <1>12
<1>14. PICK j : j = i + 1
  OBVIOUS
<1>15. j \in 1 .. count /\ j - 1 = i
  BY <1>10, <1>12, <1>13, <1>14
<1>16. /\ ExtStart + cursor = from + place[j - 1] /\ from \in Nat
       /\ ExtStart + cursor + 3 <= Len(message)
  <2>1. place[i] \in Nat
    BY <1>9, <1>12
  <2>2. ExtStart + cursor = from + place[i]
    BY <1>1, <1>6, <1>12, <2>1
  <2>3. QED
    BY <1>1, <1>2, <1>6, <1>11, <1>15, <2>2
<1>17. NameCut(e, whole, message, from, j, ExtStart + cursor)
  BY <1>1, <1>5, <1>7, <1>8, <1>15, <1>16, Zenon DEF NameCut
<1>18. NameReads(e, whole, message, from, j, ExtStart + cursor)
  BY <1>17, NameIsRead, Zenon
<1>19. QED
  BY <1>1, <1>12, <1>15, <1>18, Zenon

(* A host name that is taken is the one that the ClientHello is for, or begins it. *)
LEMMA NameTaken ==
    ASSUME NEW hello, WrittenHello(hello), TypeOK, at = "names",
           Stands(message, HandshakeOf(hello), 0), extensions_end = Len(message),
           NEW k \in 1 .. Len(hello.extensions), InNames(hello, k),
           HasName, IsHostName
    PROVE  Lossy(Slice(message, ExtStart + NameStart, ExtStart + NameEnd))
               \in BeginningOf(hello.sni)
<1>1. PICK e, whole : e = hello.extensions[k] /\ whole = HandshakeOf(hello)
  OBVIOUS
<1>2. PICK j \in 1 .. Len(e.names) :
         NameReads(e, whole, message, ExtStart + 2, j, ExtStart + cursor)
  BY <1>1, NameAtHand
<1>3. PICK text : text = e.names[j].name
  OBVIOUS
<1>4. /\ e.names[j] \in Names /\ At(message, ExtStart + cursor) = e.names[j].kind
      /\ U16(message, ExtStart + cursor + 1) = Len(text)
      /\ Stands(text, whole, ExtStart + cursor + 3)
  BY <1>2, <1>3, Zenon DEF NameReads
<1>5. text = hello.sni /\ e \in Extensions /\ Len(e.names) \in Nat
  <2>1. e.names[j].kind = 0
    BY <1>4 DEF IsHostName
  <2>2. e.type = 0
    BY <1>1 DEF InNames
  <2>3. hello.extensions \in Seq(Extensions)
    BY DEF WrittenHello
  <2>4. e \in Extensions /\ k \in DOMAIN hello.extensions
    BY <1>1, <2>3
  <2>5. e.names \in Seq(Names)
    BY <2>4 DEF Extensions
  <2>6. j \in DOMAIN e.names /\ Len(e.names) \in Nat
    BY <2>5
  <2>7. QED
    BY <1>1, <1>3, <2>1, <2>2, <2>4, <2>6, Zenon DEF WrittenHello
<1>6. text \in Seq(Nat)
  BY <1>3, <1>4, BufferIsText DEF Names
<1>7. /\ message \in Seq(Nat) /\ Len(message) \in Nat /\ cursor \in Nat
      /\ whole \in Seq(Nat) /\ Len(text) \in Nat
  BY <1>1, <1>6, BufferIsText, WrittenParts DEF TypeOK
<1>8. /\ ExtStart \in Nat /\ ExtEnd \in Nat /\ ExtEnd <= Len(message)
      /\ NameEnd \in Nat /\ NameStart <= NameEnd /\ NameEnd <= ExtEnd - ExtStart
  BY ExtensionInside, NameInside DEF TypeOK
<1>9. NameEnd <= NameStart + Len(text) /\ NameStart = cursor + 3
  <2>1. NameEnd = AtMostOf(NameStart + Len(text), ExtEnd - ExtStart)
    BY <1>4, Zenon DEF NameEnd
  <2>2. NameStart = cursor + 3
    BY DEF NameStart
  <2>3. QED
    BY <1>7, <1>8, <2>1, <2>2 DEF AtMostOf
<1>10. PICK n, from : n = NameEnd - NameStart /\ from = ExtStart + cursor + 3
  OBVIOUS
<1>11. /\ n \in 0 .. Len(text) /\ from \in Nat
       /\ ExtStart + NameStart = from /\ ExtStart + NameEnd = from + n
       /\ from \in 0 .. Len(message) /\ from + n \in from .. Len(message)
       /\ from + 0 = from
  BY <1>7, <1>8, <1>9, <1>10
<1>12. Slice(message, from, from + n) = Slice(whole, from, from + n)
  BY <1>1, <1>7, <1>11, CutReads, Zenon
<1>13. Slice(whole, from + 0, from + n) = Slice(text, 0, n)
  <2>1. Stands(text, whole, from)
    BY <1>4, <1>10, Zenon
  <2>2. 0 \in 0 .. Len(text)
    BY <1>7
  <2>3. QED
    BY <1>6, <1>7, <1>11, <2>1, <2>2, ReadWhereItStands, ZenonT(40)
<1>14. Slice(text, 0, n) = SubSeq(hello.sni, 1, n)
  BY <1>5 DEF Slice
<1>15. Slice(message, ExtStart + NameStart, ExtStart + NameEnd) = SubSeq(hello.sni, 1, n)
  BY <1>11, <1>12, <1>13, <1>14, Zenon
<1>16. n \in 0 .. Len(hello.sni)
  BY <1>5, <1>11, Zenon
<1>17. QED
  BY <1>15, <1>16, Zenon DEF BeginningOf

(* A name that is skipped is followed by the next, or by the end of the extension. *)
LEMMA NameSkipped ==
    ASSUME NEW hello, WrittenHello(hello), TypeOK, at = "names",
           Stands(message, HandshakeOf(hello), 0), extensions_end = Len(message),
           NEW k \in 1 .. Len(hello.extensions), InNames(hello, k), HasName
    PROVE  \/ NameEnd = ExtEnd - ExtStart
           \/ \E j \in 0 .. Len(hello.extensions[k].names) :
                 NameEnd = 2 + Places(NameParts(hello.extensions[k]))[j]
<1>1. PICK e, whole, place :
         /\ e = hello.extensions[k] /\ whole = HandshakeOf(hello)
         /\ place = Places(NameParts(e))
  OBVIOUS
<1>2. PICK j \in 1 .. Len(e.names) :
         NameReads(e, whole, message, ExtStart + 2, j, ExtStart + cursor)
  BY <1>1, NameAtHand
<1>3. PICK size : size = Len(e.names[j].name)
  OBVIOUS
<1>4. /\ U16(message, ExtStart + cursor + 1) = size
      /\ ExtStart + 2 + place[j] = ExtStart + cursor + 3 + size
      /\ e.names[j] \in Names
  BY <1>1, <1>2, <1>3, Zenon DEF NameReads
<1>5. hello.extensions \in Seq(Extensions)
  BY DEF WrittenHello
<1>6. e \in Extensions
  BY <1>1, <1>5
<1>7. Len(e.names) \in Nat /\ size \in Nat
  BY <1>3, <1>4, <1>6 DEF Extensions, Names, Buffer
<1>8. place[j] \in Nat
  <2>1. LaidOut(NameParts(e), NamesOf(e), place) /\ Len(NameParts(e)) = Len(e.names)
    BY <1>1, <1>6, NamesLaidOut
  <2>2. place \in [0 .. Len(e.names) -> Nat]
    BY <2>1, Zenon DEF LaidOut
  <2>3. QED
    BY <1>7, <2>2
<1>9. ExtStart \in Nat /\ cursor \in Nat
  BY ExtensionInside DEF TypeOK
<1>10. 2 + place[j] = NameStart + size
  <2>1. PICK p : p = place[j]
    OBVIOUS
  <2>2. 2 + p = cursor + 3 + size
    BY SMTT(30), ZenonT(30), <1>4, <1>7, <1>8, <1>9, <2>1
  <2>3. QED
    BY <2>1, <2>2 DEF NameStart
<1>11. NameEnd = AtMostOf(NameStart + size, ExtEnd - ExtStart)
  BY <1>4, Zenon DEF NameEnd
<1>12. NameEnd = 2 + place[j] \/ NameEnd = ExtEnd - ExtStart
  BY <1>10, <1>11, Zenon DEF AtMostOf
<1>13. j \in 0 .. Len(e.names)
  BY <1>7
<1>14. QED
  BY <1>1, <1>12, <1>13, Zenon

(* What the capture holds of a ClientHello stands at the start of it. *)
LEMMA HeldStands ==
    ASSUME NEW payload \in Seq(Nat), NEW bytes \in Seq(Nat), IsPrefix(payload, bytes)
    PROVE  Stands(payload, bytes, 0)
<1>1. PICK n : n = Len(payload)
  OBVIOUS
<1>2. n \in Nat /\ Len(bytes) \in Nat
  BY <1>1
<1>3. n <= Len(bytes) /\ payload = SubSeq(bytes, 1, n)
  BY <1>1, <1>2 DEF IsPrefix
<1>4. n \in 0 .. Len(bytes)
  BY <1>2, <1>3
<1>5. QED
  BY <1>3, <1>4, CutStands, Zenon

(* Where the extensions begin in what was captured of the handshake. *)
LEMMA FieldsRead ==
    ASSUME NEW record \in Seq(Nat), NEW whole \in Seq(Nat), NEW size \in Nat,
           NEW list \in Seq(Nat), ReadsAsHello(whole, size, list),
           Stands(record, whole, 0), ReachesExtensions(record)
    PROVE  /\ MethodsEnd(record) = 45 + size
           /\ U16(record, 45 + size) = Len(list)
<1>1. /\ Len(record) \in Nat
      /\ 38 < Len(record)
      /\ SessionEnd(record) + 1 < Len(record)
      /\ CiphersEnd(record) < Len(record)
      /\ MethodsEnd(record) + 1 < Len(record)
  BY DEF ReachesExtensions
<1>2. /\ \A i \in 0 .. Len(record) - 1 : At(record, i) = At(whole, i)
      /\ \A i \in 0 .. Len(record) - 2 : U16(record, i) = U16(whole, i)
  BY CutReads, Zenon
<1>3. /\ At(whole, 38) = size
      /\ U16(whole, 39 + size) = 2
      /\ At(whole, 43 + size) = 1
      /\ U16(whole, 45 + size) = Len(list)
  BY Zenon DEF ReadsAsHello
<1>4. SessionEnd(record) = 39 + size
  <2>1. 38 \in 0 .. Len(record) - 1
    BY <1>1
  <2>2. At(record, 38) = size
    BY <1>2, <1>3, <2>1, Zenon
  <2>3. QED
    BY <2>2 DEF SessionEnd
<1>5. CiphersEnd(record) = 43 + size
  <2>1. 39 + size \in 0 .. Len(record) - 2
    BY <1>1, <1>4
  <2>2. U16(record, 39 + size) = 2
    BY <1>2, <1>3, <2>1, Zenon
  <2>3. CiphersEnd(record) = 39 + size + 2 + 2
    BY <1>4, <2>2, Zenon DEF CiphersEnd
  <2>4. QED
    BY <2>3
<1>6. MethodsEnd(record) = 45 + size
  <2>1. 43 + size \in 0 .. Len(record) - 1
    BY <1>1, <1>5
  <2>2. At(record, 43 + size) = 1
    BY <1>2, <1>3, <2>1, Zenon
  <2>3. MethodsEnd(record) = 43 + size + 1 + 1
    BY <1>5, <2>2, Zenon DEF MethodsEnd
  <2>4. QED
    BY <2>3
<1>7. U16(record, 45 + size) = Len(list)
  <2>1. 45 + size \in 0 .. Len(record) - 2
    BY <1>1, <1>6
  <2>2. QED
    BY <1>2, <1>3, <2>1, Zenon
<1>8. QED
  BY <1>6, <1>7

(* The record of the payload is the handshake, or what was captured of it. *)
LEMMA RecordHeld ==
    ASSUME NEW hello, WrittenHello(hello), message \in Buffer,
           IsPrefix(message, hello.bytes), IsHello
    PROVE  Record \in Seq(Nat) /\ Stands(Record, HandshakeOf(hello), 0)
<1>1. PICK whole, bytes : whole = HandshakeOf(hello) /\ bytes = hello.bytes
  OBVIOUS
<1>2. /\ whole \in Seq(Nat) /\ bytes \in Seq(Nat) /\ Len(bytes) >= 5 + Len(whole)
      /\ U16(bytes, 3) = Len(whole) /\ Stands(whole, bytes, 5)
  BY <1>1, WrittenParts
<1>3. message \in Seq(Nat) /\ Len(message) \in Nat /\ Len(whole) \in Nat /\ Len(message) >= 5
  BY <1>2, BufferIsText DEF IsHello
<1>4. Stands(message, bytes, 0)
  BY <1>1, <1>2, <1>3, HeldStands
<1>5. U16(message, 3) = Len(whole)
  <2>1. 3 \in 0 .. Len(message) - 2
    BY <1>3
  <2>2. U16(message, 3) = U16(bytes, 3)
    BY <1>2, <1>3, <1>4, <2>1, CutReads, Zenon
  <2>3. QED
    BY <1>2, <2>2, Zenon
<1>6. PICK end : end = AtMostOf(5 + Len(whole), Len(message))
  OBVIOUS
<1>7. Record = Slice(message, 5, end)
  BY <1>5, <1>6, Zenon DEF Record
<1>8. /\ end \in 5 .. Len(message) /\ 5 \in 0 .. Len(message)
      /\ end - 5 \in 0 .. Len(whole) /\ 0 \in 0 .. Len(whole)
      /\ end - 5 \in 0 .. Len(whole) /\ 5 + 0 = 5 /\ 5 + (end - 5) = end
  BY <1>3, <1>6 DEF AtMostOf
<1>9. Slice(message, 5, end) = Slice(bytes, 5, end)
  BY <1>2, <1>3, <1>4, <1>8, CutReads, Zenon
<1>10. PICK n : n = end - 5
  OBVIOUS
<1>11. n \in 0 .. Len(whole) /\ 5 + 0 = 5 /\ 5 + n = end /\ 5 \in Nat
  BY <1>8, <1>10
<1>12. Slice(bytes, 5, end) = Slice(whole, 0, n)
  <2>1. PICK from : from = 5
    OBVIOUS
  <2>2. from \in Nat /\ Stands(whole, bytes, from)
    BY <1>2, <2>1
  <2>3. \A a \in 0 .. Len(whole) : \A b \in a .. Len(whole) :
           Slice(bytes, from + a, from + b) = Slice(whole, a, b)
    BY <1>2, <2>2, ReadWhereItStands, Zenon
  <2>4. PICK none : none = 0
    OBVIOUS
  <2>5. none \in 0 .. Len(whole) /\ n \in none .. Len(whole)
    BY <1>8, <1>11, <2>4
  <2>6. PICK a, b : a = from + none /\ b = from + n
    OBVIOUS
  <2>7. Slice(bytes, a, b) = Slice(whole, none, n)
    BY <2>3, <2>5, <2>6, Zenon
  <2>8. a = 5 /\ b = end
    BY <1>11, <2>1, <2>4, <2>6
  <2>9. QED
    BY <2>4, <2>7, <2>8, Zenon
<1>13. Record = Slice(whole, 0, n)
  BY <1>7, <1>9, <1>12, Zenon
<1>14. Slice(whole, 0, n) = SubSeq(whole, 1, n)
  BY DEF Slice
<1>15. SubSeq(whole, 1, n) \in Seq(Nat) /\ Stands(SubSeq(whole, 1, n), whole, 0)
  BY <1>2, <1>11, CutStands, Zenon
<1>16. QED
  BY <1>1, <1>13, <1>14, <1>15, Zenon

(* The walk starts at the first extension, and ends where the record does. *)
LEMMA ReadHelloHeld ==
    ASSUME NEW hello, WrittenHello(hello), TypeOK, segment.payload \in Buffer,
           HoldsStartOf(segment, hello), HelloRead(hello),
           ReadHello, UNCHANGED segment
    PROVE  HelloRead(hello)'
<1> DEFINE first == MethodsEnd(Record) + 2
<1>1. /\ at = "hello" /\ IsHello /\ message' = Record /\ pos' = first
      /\ extensions_end' = AtMostOf(first + U16(Record, first - 2), Len(Record))
      /\ at' = "extensions" /\ UNCHANGED foundVars
  BY Zenon DEF ReadHello
<1>14. hostname' = hostname
  BY <1>1 DEF foundVars
<1>2. message = segment.payload /\ hostname = None /\ segment.payload # <<>>
  BY <1>1 DEF HelloRead
<1>3. Record \in Seq(Nat) /\ Stands(Record, HandshakeOf(hello), 0)
  BY <1>1, <1>2, RecordHeld DEF HoldsStartOf
<1>4. PICK whole, list, size, place, start :
         /\ whole = HandshakeOf(hello) /\ list = ListOf(hello)
         /\ size = Len(hello.session) /\ place = Places(ExtensionParts(hello))
         /\ start = ListStart(hello)
  OBVIOUS
<1>5. /\ whole \in Seq(Nat) /\ list \in Seq(Nat) /\ start \in Nat
      /\ ReadsAsHello(whole, size, list)
      /\ place \in [0 .. Len(hello.extensions) -> Nat] /\ place[0] = 0
      /\ hello.extensions \in Seq(Extensions)
  BY <1>4, WrittenParts
<1>6. size \in Nat /\ Len(list) \in Nat /\ Len(hello.extensions) \in Nat
  BY <1>4, <1>5, BufferIsText DEF WrittenHello
<1>7. MethodsEnd(Record) = 45 + size /\ U16(Record, 45 + size) = Len(list)
  <2>1. ReachesExtensions(Record)
    BY <1>1 DEF IsHello
  <2>2. QED
    BY <1>3, <1>4, <1>5, <1>6, <2>1, FieldsRead, Zenon
<1>8. Len(Record) <= 47 + size + Len(list) /\ Len(Record) \in Nat
  <2>1. Len(whole) = 47 + size + Len(list)
    BY <1>5 DEF ReadsAsHello
  <2>2. QED
    BY <1>3, <1>4, <2>1, CutReads, <1>5
<1>9. extensions_end' = Len(Record) /\ pos' = 47 + size
  <2>1. first = 47 + size /\ first - 2 = 45 + size
    BY <1>6, <1>7
  <2>2. extensions_end' = AtMostOf(47 + size + Len(list), Len(Record))
    BY <1>1, <1>7, <2>1, Zenon
  <2>3. AtMostOf(47 + size + Len(list), Len(Record)) = Len(Record)
    BY <1>6, <1>8 DEF AtMostOf
  <2>4. QED
    BY <1>1, <2>1, <2>2, <2>3, Zenon
<1>10. pos' = start + place[0] /\ 0 \in 0 .. Len(hello.extensions)
  <2>1. start = 47 + size
    BY <1>4, Zenon DEF ListStart
  <2>2. QED
    BY <1>5, <1>6, <1>9, <2>1
<1>11. AtExtension(hello)'
  BY <1>4, <1>10, Zenon DEF AtExtension
<1>12. Walking(hello)'
  BY <1>1, <1>3, <1>9, <1>11 DEF Walking
<1>13. QED
  BY <1>1, <1>2, <1>12, <1>14 DEF HelloRead

(* What is read of an extension after a step that keeps the place. *)
LEMMA SameExtension ==
    ASSUME UNCHANGED <<message, pos, extensions_end>>
    PROVE  ExtEnd' = ExtEnd /\ ExtStart' = ExtStart
BY DEF ExtEnd, ExtStart

(* After another extension the next one begins, or the capture ends. *)
LEMMA SkipExtensionHeld ==
    ASSUME NEW hello, WrittenHello(hello), TypeOK, HelloRead(hello),
           SkipExtension, UNCHANGED segment
    PROVE  HelloRead(hello)'
<1>1. /\ at = "extensions" /\ HasExtension /\ pos' = ExtEnd
      /\ UNCHANGED <<at, message, extensions_end, hostname>>
  BY DEF SkipExtension, foundVars
<1>2. /\ Stands(message, HandshakeOf(hello), 0) /\ extensions_end = Len(message)
      /\ AtExtension(hello) /\ hostname = None /\ segment.payload # <<>>
  BY <1>1 DEF HelloRead, Walking
<1>3. PICK k \in 1 .. Len(hello.extensions) :
         pos = ListStart(hello) + Places(ExtensionParts(hello))[k - 1]
  BY <1>1, <1>2, FindsExtension
<1>4. \/ ExtEnd = extensions_end
      \/ ExtEnd = ListStart(hello) + Places(ExtensionParts(hello))[k]
  BY <1>1, <1>2, <1>3, ExtensionAtHand, Zenon
<1>5. k \in 0 .. Len(hello.extensions)
  <2>1. Len(hello.extensions) \in Nat
    BY WrittenParts
  <2>2. QED
    BY <2>1
<1>6. AtExtension(hello)'
  BY <1>1, <1>4, <1>5, Zenon DEF AtExtension
<1>7. Walking(hello)'
  BY <1>1, <1>2, <1>6 DEF Walking
<1>8. QED
  BY <1>1, <1>2, <1>7 DEF HelloRead

(* A list of names begins with the first of them. *)
LEMMA EnterListHeld ==
    ASSUME NEW hello, WrittenHello(hello), TypeOK, HelloRead(hello),
           EnterList, UNCHANGED segment
    PROVE  HelloRead(hello)'
<1>1. /\ at = "extensions" /\ HasExtension /\ NamesServers /\ cursor' = 2
      /\ at' = "names" /\ UNCHANGED <<message, pos, extensions_end, hostname>>
  BY DEF EnterList, foundVars
<1>2. /\ Stands(message, HandshakeOf(hello), 0) /\ extensions_end = Len(message)
      /\ AtExtension(hello) /\ hostname = None /\ segment.payload # <<>>
  BY <1>1 DEF HelloRead, Walking
<1>3. PICK k \in 1 .. Len(hello.extensions) :
         pos = ListStart(hello) + Places(ExtensionParts(hello))[k - 1]
  BY <1>1, <1>2, FindsExtension
<1>4. PICK e : e = hello.extensions[k]
  OBVIOUS
<1>5. e.type = 0 /\ e \in Extensions
  <2>1. ExtensionReads(hello, message, k, pos)
    BY <1>1, <1>2, <1>3, ExtensionAtHand, Zenon
  <2>2. U16(message, pos) = e.type /\ e \in Extensions
    BY <1>4, <2>1, Zenon DEF ExtensionReads
  <2>3. QED
    BY <1>1, <2>2 DEF NamesServers
<1>6. PICK place : place = Places(NameParts(e))
  OBVIOUS
<1>7. place[0] = 0 /\ 0 \in 0 .. Len(e.names)
  <2>1. LaidOut(NameParts(e), NamesOf(e), place)
    BY <1>5, <1>6, NamesLaidOut
  <2>2. Len(e.names) \in Nat
    BY <1>5 DEF Extensions
  <2>3. QED
    BY <2>1, <2>2 DEF LaidOut
<1>8. AtName(e)'
  <2>1. cursor' = 2 + place[0]
    BY <1>1, <1>7
  <2>2. QED
    BY <1>6, <1>7, <2>1, Zenon DEF AtName
<1>9. InNames(hello, k)'
  BY <1>1, <1>3, <1>4, <1>5, <1>8, Zenon DEF InNames
<1>10. Walking(hello)'
  BY <1>1, <1>2, <1>9 DEF Walking
<1>11. QED
  BY <1>1, <1>2, <1>10 DEF HelloRead

(* While the names of a list are read. *)
LEMMA AmongNames ==
    ASSUME NEW hello, HelloRead(hello), at = "names"
    PROVE  /\ Stands(message, HandshakeOf(hello), 0) /\ extensions_end = Len(message)
           /\ hostname = None /\ segment.payload # <<>>
           /\ \E k \in 1 .. Len(hello.extensions) : InNames(hello, k)
BY DEF HelloRead, Walking

(* The name that is taken is the one of the ClientHello, or the beginning of it. *)
LEMMA TakeNameHeld ==
    ASSUME NEW hello, WrittenHello(hello), TypeOK, HelloRead(hello),
           TakeName, UNCHANGED segment
    PROVE  HelloRead(hello)'
<1>1. /\ at = "names" /\ HasName /\ IsHostName /\ at' = "found"
      /\ hostname' = Lossy(Slice(message, ExtStart + NameStart, ExtStart + NameEnd))
  BY Zenon DEF TakeName
<1>2. /\ Stands(message, HandshakeOf(hello), 0) /\ extensions_end = Len(message)
      /\ \E k \in 1 .. Len(hello.extensions) : InNames(hello, k)
  BY <1>1, AmongNames, Zenon
<1>3. hostname' \in BeginningOf(hello.sni)
  BY <1>1, <1>2, NameTaken, Zenon
<1>4. QED
  BY <1>1, <1>3 DEF HelloRead

(* After an entry of another kind the next one begins, or the extension ends. *)
LEMMA SkipNameHeld ==
    ASSUME NEW hello, WrittenHello(hello), TypeOK, HelloRead(hello),
           SkipName, UNCHANGED segment
    PROVE  HelloRead(hello)'
<1>1. /\ at = "names" /\ HasName /\ cursor' = NameEnd
      /\ UNCHANGED <<at, message, pos, extensions_end, hostname>>
  BY DEF SkipName, foundVars
<1>2. /\ Stands(message, HandshakeOf(hello), 0) /\ extensions_end = Len(message)
      /\ hostname = None /\ segment.payload # <<>>
  BY <1>1, AmongNames
<1>3. PICK k \in 1 .. Len(hello.extensions) : InNames(hello, k)
  BY <1>1, AmongNames, Zenon
<1>4. \/ NameEnd = ExtEnd - ExtStart
      \/ \E j \in 0 .. Len(hello.extensions[k].names) :
            NameEnd = 2 + Places(NameParts(hello.extensions[k]))[j]
  BY <1>1, <1>2, <1>3, NameSkipped, Zenon
<1>5. AtName(hello.extensions[k])'
  BY <1>1, <1>4, SameExtension, Zenon DEF AtName
<1>6. InNames(hello, k)'
  BY <1>1, <1>3, <1>5, Zenon DEF InNames
<1>7. Walking(hello)'
  BY <1>1, <1>2, <1>6 DEF Walking
<1>8. QED
  BY <1>1, <1>2, <1>7 DEF HelloRead

(* After the list the next extension begins, or the capture ends. *)
LEMMA LeaveListHeld ==
    ASSUME NEW hello, WrittenHello(hello), TypeOK, HelloRead(hello),
           LeaveList, UNCHANGED segment
    PROVE  HelloRead(hello)'
<1>1. /\ at = "names" /\ at' = "extensions" /\ pos' = ExtEnd
      /\ UNCHANGED <<message, extensions_end, hostname>>
  BY DEF LeaveList, foundVars
<1>2. /\ Stands(message, HandshakeOf(hello), 0) /\ extensions_end = Len(message)
      /\ hostname = None /\ segment.payload # <<>> /\ HasExtension
  BY <1>1, AmongNames DEF TypeOK
<1>3. PICK k \in 1 .. Len(hello.extensions) : InNames(hello, k)
  BY <1>1, AmongNames, Zenon
<1>4. pos = ListStart(hello) + Places(ExtensionParts(hello))[k - 1]
  BY <1>3, Zenon DEF InNames
<1>5. \/ ExtEnd = extensions_end
      \/ ExtEnd = ListStart(hello) + Places(ExtensionParts(hello))[k]
  BY <1>2, <1>3, <1>4, ExtensionAtHand, Zenon
<1>6. k \in 0 .. Len(hello.extensions)
  <2>1. Len(hello.extensions) \in Nat
    BY WrittenParts
  <2>2. QED
    BY <2>1
<1>7. AtExtension(hello)'
  BY <1>1, <1>5, <1>6, Zenon DEF AtExtension
<1>8. Walking(hello)'
  BY <1>1, <1>2, <1>7 DEF Walking
<1>9. QED
  BY <1>1, <1>2, <1>8 DEF HelloRead

(* The beginning of a ClientHello is never taken for an HTTP request. *)
LEMMA TryHttpHeld ==
    ASSUME NEW hello, WrittenHello(hello), segment.payload \in Buffer,
           HoldsStartOf(segment, hello), HelloRead(hello),
           TryHttp(segment.payload), UNCHANGED segment
    PROVE  HelloRead(hello)'
<1>1. PICK payload, bytes : payload = segment.payload /\ bytes = hello.bytes
  OBVIOUS
<1>2. at \in {"hello", "extensions"} /\ at' = "found"
  BY DEF TryHttp
<1>3. hostname = None /\ payload # <<>>
  BY <1>1, <1>2 DEF HelloRead
<1>4. payload \in Seq(Nat) /\ IsPrefix(payload, bytes)
  BY <1>1, BufferIsText DEF HoldsStartOf
<1>5. bytes \in Seq(Nat) /\ At(bytes, 0) = HANDSHAKE
  BY <1>1, WrittenParts
<1>6. At(payload, 0) = HANDSHAKE
  <2>1. Stands(payload, bytes, 0)
    BY <1>4, <1>5, HeldStands
  <2>2. 0 \in 0 .. Len(payload) - 1
    BY <1>3, <1>4
  <2>3. QED
    BY <1>4, <1>5, <2>1, <2>2, CutReads
<1>7. ~IsRequest(payload)
  BY <1>3, <1>4, <1>6, HandshakeNotRequest, Zenon
<1>8. hostname' = hostname
  BY <1>1, <1>7, Zenon DEF TryHttp
<1>9. QED
  BY <1>2, <1>3, <1>8 DEF HelloRead

(* Steps that leave the parsers alone. *)
LEMMA HelloUntouched ==
    ASSUME NEW hello, HelloRead(hello), UNCHANGED <<segment, parserVars>>
    PROVE  HelloRead(hello)'
<1>1. UNCHANGED <<segment, at, message, pos, cursor, extensions_end, hostname>>
  BY DEF parserVars, nameVars, foundVars
<1>2. ExtEnd' = ExtEnd /\ ExtStart' = ExtStart
  BY <1>1, SameExtension
<1>3. AtExtension(hello) => AtExtension(hello)'
  BY <1>1 DEF AtExtension
<1>4. ASSUME NEW k, InNames(hello, k)
      PROVE  InNames(hello, k)'
  BY <1>1, <1>2, <1>4 DEF InNames, AtName
<1>5. Walking(hello) => Walking(hello)'
  BY <1>1, <1>3, <1>4 DEF Walking
<1>6. QED
  BY <1>1, <1>5 DEF HelloRead

(* The steps of the parsers. *)
LEMMA ParserHeld ==
    ASSUME NEW hello, WrittenHello(hello), IInv,
           HoldsStartOf(segment, hello), HelloRead(hello),
           ParserNext(segment.payload), UNCHANGED segment
    PROVE  HelloRead(hello)'
<1>1. TypeOK /\ segment.payload \in Buffer
  BY DEF IInv, TypeOK, ReaderTypeOK
<1>2. at \in {"hello", "extensions", "names", "found"}
  BY DEF HelloRead
<1>3. CASE ReadHello
  BY <1>1, <1>3, ReadHelloHeld
<1>4. CASE SkipExtension
  BY <1>1, <1>4, SkipExtensionHeld
<1>5. CASE EnterList
  BY <1>1, <1>5, EnterListHeld
<1>6. CASE TakeName
  BY <1>1, <1>6, TakeNameHeld
<1>7. CASE SkipName
  BY <1>1, <1>7, SkipNameHeld
<1>8. CASE LeaveList
  BY <1>1, <1>8, LeaveListHeld
<1>9. CASE TryHttp(segment.payload)
  BY <1>1, <1>9, TryHttpHeld
<1>10. ~ (ReadQuery \/ ReadHeader \/ NextItem \/ NameFails \/ NameEnds \/ Jump
          \/ Label \/ ItemFails \/ ReadQuestion \/ ReadAnswer)
  BY <1>2 DEF ReadQuery, ReadHeader, NextItem, NameFails, NameEnds, Jump, Label,
              ItemFails, ReadQuestion, ReadAnswer, TakesTurn, InName
<1>11. QED
  BY <1>3, <1>4, <1>5, <1>6, <1>7, <1>8, <1>9, <1>10 DEF ParserNext

(* A segment that is taken. *)
LEMMA TakeHeld ==
    ASSUME NEW hello, Take, HoldsStartOf(segment, hello)'
    PROVE  HelloRead(hello)'
<1>1. /\ at' = ParserFor(segment') /\ message' = segment'.payload
      /\ hostname' = None
  BY DEF Take, Start
<1>2. segment'.protocol = TCP
  BY DEF HoldsStartOf
<1>3. \/ at' = "hello" /\ segment'.payload # <<>>
      \/ at' = "found"
  BY <1>1, <1>2 DEF ParserFor, TCP, UDP
<1>4. QED
  BY <1>1, <1>3 DEF HelloRead

\* The packets are a sequence.
PacketsInOrder == packets \in Seq({packets[i] : i \in DOMAIN packets})

\* What is known of the packets, and of the one that is parsed.
HellosAreRead ==
    /\ capture \in Captures
    /\ HelloSoFar
    /\ CutHelloNoOtherName
    /\ PacketsInOrder

(* One more packet. *)
LEMMA PacketAdded ==
    ASSUME PacketsInOrder, NEW packet, packets' = Append(packets, packet)
    PROVE  /\ PacketsInOrder'
           /\ \A i \in DOMAIN packets' :
                 \/ i \in DOMAIN packets /\ packets'[i] = packets[i]
                 \/ packets'[i] = packet
<1>1. PICK S, before, after :
         /\ S = {packets[i] : i \in DOMAIN packets}
         /\ before = packets /\ after = Append(packets, packet)
  OBVIOUS
<1>2. before \in Seq(S)
  BY <1>1 DEF PacketsInOrder
<1>3. PICK T : T = S \cup {packet}
  OBVIOUS
<1>4. S \subseteq T /\ packet \in T
  BY <1>3
<1>5. before \in Seq(T)
  BY <1>2, <1>4, SeqMonotonic
<1>6. /\ Len(before) \in Nat /\ DOMAIN before = 1 .. Len(before)
      /\ after \in Seq(T) /\ DOMAIN after = 1 .. Len(before) + 1
      /\ after[Len(before) + 1] = packet
      /\ \A i \in 1 .. Len(before) : after[i] = before[i]
  BY <1>1, <1>4, <1>5
<1>7. \A i \in DOMAIN after :
         \/ i \in DOMAIN before /\ after[i] = before[i]
         \/ after[i] = packet
  BY <1>6
<1>8. after \in Seq({after[i] : i \in DOMAIN after})
  <2>1. Len(after) \in Nat /\ DOMAIN after = 1 .. Len(after)
        /\ after = [i \in 1 .. Len(after) |-> after[i]]
    BY <1>6
  <2>2. QED
    BY <2>1
<1>9. QED
  BY <1>1, <1>7, <1>8 DEF PacketsInOrder

(* The step after which a packet is told. *)
LEMMA ToldHeld ==
    ASSUME HellosAreRead, Told
    PROVE  HellosAreRead'
<1>1. PICK hello : hello = capture.truth.hello
  OBVIOUS
<1>2. PICK packet :
         packet = [src |-> segment.src, dst |-> segment.dst,
                   protocol |-> segment.protocol, payload |-> segment.payload,
                   ts |-> raw[next].ts,
                   hostname |-> hostname, url |-> url, answers |-> resolved]
  OBVIOUS
<1>3. /\ at = "found" /\ at' = "idle" /\ capture' = capture
      /\ packets' = Append(packets, packet)
  BY <1>2 DEF Told, readerVars
<1>4. PacketsInOrder' /\ \A i \in DOMAIN packets' :
                            \/ i \in DOMAIN packets /\ packets'[i] = packets[i]
                            \/ packets'[i] = packet
  BY <1>3, PacketAdded DEF HellosAreRead
<1>5. ASSUME hello # None, HoldsStartOf(packet, hello)
      PROVE  packet.hostname \in {None} \cup BeginningOf(hello.sni)
  <2>1. HoldsStartOf(segment, hello)
    BY <1>2, <1>5 DEF HoldsStartOf
  <2>2. HelloRead(hello)
    BY <1>1, <1>3, <1>5, <2>1 DEF HellosAreRead, HelloSoFar
  <2>3. QED
    BY <1>2, <1>3, <2>2 DEF HelloRead
<1>6. ASSUME hello # None, NEW i \in DOMAIN packets, packets[i] # None,
             HoldsStartOf(packets[i], hello)
      PROVE  packets[i].hostname \in {None} \cup BeginningOf(hello.sni)
  BY <1>1, <1>6 DEF HellosAreRead, CutHelloNoOtherName
<1>7. ASSUME hello # None, NEW i \in DOMAIN packets', packets'[i] # None,
             HoldsStartOf(packets'[i], hello)
      PROVE  packets'[i].hostname \in {None} \cup BeginningOf(hello.sni)
  BY <1>4, <1>5, <1>6, <1>7
<1>8. CutHelloNoOtherName'
  BY <1>1, <1>3, <1>7 DEF CutHelloNoOtherName
<1>9. HelloSoFar'
  BY <1>3 DEF HelloSoFar
<1>10. QED
  BY <1>3, <1>4, <1>8, <1>9 DEF HellosAreRead

(* A packet that does not parse tells nothing. *)
LEMMA SkipHeld ==
    ASSUME HellosAreRead, Skip
    PROVE  HellosAreRead'
<1>1. PICK hello : hello = capture.truth.hello
  OBVIOUS
<1>2. /\ at = "idle" /\ at' = at /\ capture' = capture
      /\ packets' = Append(packets, None)
  BY DEF Skip, AtPacket, readerVars, parserVars
<1>3. PacketsInOrder' /\ \A i \in DOMAIN packets' :
                            \/ i \in DOMAIN packets /\ packets'[i] = packets[i]
                            \/ packets'[i] = None
  BY <1>2, PacketAdded DEF HellosAreRead
<1>4. ASSUME hello # None, NEW i \in DOMAIN packets, packets[i] # None,
             HoldsStartOf(packets[i], hello)
      PROVE  packets[i].hostname \in {None} \cup BeginningOf(hello.sni)
  BY <1>1, <1>4 DEF HellosAreRead, CutHelloNoOtherName
<1>5. ASSUME hello # None, NEW i \in DOMAIN packets', packets'[i] # None,
             HoldsStartOf(packets'[i], hello)
      PROVE  packets'[i].hostname \in {None} \cup BeginningOf(hello.sni)
  BY <1>3, <1>4, <1>5
<1>6. CutHelloNoOtherName'
  BY <1>1, <1>2, <1>5 DEF CutHelloNoOtherName
<1>7. HelloSoFar'
  BY <1>2 DEF HelloSoFar
<1>8. QED
  BY <1>2, <1>3, <1>6, <1>7 DEF HellosAreRead

(* Every step keeps what is known of the packets and of the one that is parsed. *)
LEMMA HelloStep ==
    ASSUME IInv, HellosAreRead, [Next]_vars,
           \A h \in {c.truth.hello : c \in Captures} \ {None} : WrittenHello(h)
    PROVE  HellosAreRead'
<1>1. PICK hello : hello = capture.truth.hello
  OBVIOUS
<1>2. hello # None => WrittenHello(hello)
  BY <1>1 DEF HellosAreRead
<1>3. ASSUME UNCHANGED <<capture, packets>>, HelloSoFar'
      PROVE  HellosAreRead'
  BY <1>3 DEF HellosAreRead, CutHelloNoOtherName, PacketsInOrder
<1>4. ASSUME UNCHANGED <<capture, packets, segment, parserVars>>
      PROVE  HellosAreRead'
  <2>1. at' = at
    BY <1>4 DEF parserVars
  <2>2. HoldsStartOf(segment, hello)' => HoldsStartOf(segment, hello)
    BY <1>4 DEF HoldsStartOf
  <2>3. HelloRead(hello) => HelloRead(hello)'
    BY <1>4, HelloUntouched
  <2>4. HelloSoFar'
    BY <1>1, <1>4, <2>1, <2>2, <2>3 DEF HelloSoFar, HellosAreRead
  <2>5. QED
    BY <1>3, <1>4, <2>4
<1>5. CASE UNCHANGED vars
  BY <1>4, <1>5 DEF vars, readerVars
<1>6. CASE Read
  BY <1>4, <1>6 DEF Read, ReaderNext, Refuse, Open, ReadRecord, Stop
<1>7. CASE Skip
  BY <1>7, SkipHeld
<1>8. CASE Told
  BY <1>8, ToldHeld
<1>9. CASE Take
  <2>1. UNCHANGED <<capture, packets>>
    BY <1>9 DEF Take, readerVars
  <2>2. HoldsStartOf(segment, hello)' => HelloRead(hello)'
    BY <1>9, TakeHeld
  <2>3. HelloSoFar'
    BY <1>1, <2>1, <2>2 DEF HelloSoFar
  <2>4. QED
    BY <1>3, <2>1, <2>3
<1>10. CASE Parse
  <2>1. /\ UNCHANGED <<capture, packets, segment>>
        /\ ParserNext(segment.payload)
    BY <1>10 DEF Parse, readerVars
  <2>2. at # "idle"
    BY <2>1 DEF ParserNext, ReadQuery, ReadHeader, NextItem, NameFails, NameEnds,
                Jump, Label, ItemFails, ReadQuestion, ReadAnswer, ReadHello,
                SkipExtension, EnterList, TakeName, SkipName, LeaveList, TryHttp,
                TakesTurn, InName
  <2>3. ASSUME hello # None, HoldsStartOf(segment, hello)
        PROVE  HelloRead(hello)'
    <3>1. HelloRead(hello)
      BY <1>1, <2>2, <2>3 DEF HelloSoFar, HellosAreRead
    <3>2. QED
      BY <1>2, <2>1, <2>3, <3>1, ParserHeld
  <2>4. HoldsStartOf(segment, hello)' => HoldsStartOf(segment, hello)
    BY <2>1 DEF HoldsStartOf
  <2>5. HelloSoFar'
    BY <1>1, <2>1, <2>3, <2>4 DEF HelloSoFar
  <2>6. QED
    BY <1>3, <2>1, <2>5
<1>11. QED
  BY <1>5, <1>6, <1>7, <1>8, <1>9, <1>10 DEF Next

(* extract_sni, for every capture that may hold the beginning of a           *)
(* ClientHello, however its extensions are arranged and wherever it is cut:   *)
(* no packet is told to be for another server than the one that is named.     *)
THEOREM CutHellosNameNoOther ==
    ASSUME \A h \in {c.truth.hello : c \in Captures} \ {None} : WrittenHello(h)
    PROVE  Spec => []CutHelloNoOtherName
<1>1. Init => HellosAreRead
  <2>1. SUFFICES ASSUME Init PROVE HellosAreRead
    OBVIOUS
  <2>2. capture \in Captures /\ at = "idle" /\ packets = <<>>
    BY <2>1, Zenon DEF Init, ReaderInit, ParserInit
  <2>3. PacketsInOrder
    BY <2>2 DEF PacketsInOrder
  <2>4. HelloSoFar /\ CutHelloNoOtherName
    BY <2>2 DEF HelloSoFar, CutHelloNoOtherName
  <2>5. QED
    BY <2>2, <2>3, <2>4 DEF HellosAreRead
<1>2. IInv /\ HellosAreRead /\ [Next]_vars => HellosAreRead'
  BY HelloStep
<1>3. HellosAreRead => CutHelloNoOtherName
  BY DEF HellosAreRead
<1>4. QED
  BY <1>1, <1>2, <1>3, InvariantHolds, PTL DEF Spec

-----------------------------------------------------------------------------
(*****************************************************************************)
(* Packets as bytes                                                          *)
(*                                                                           *)
(* What the encoders of the sample write, put together of parts, reads as    *)
(* these parts.                                                              *)
(*****************************************************************************)

\* The whole is a start and three parts behind it.
Three(start, a, b, c, whole) ==
    /\ whole \in Seq(Nat) /\ Len(whole) = Len(start) + Len(a) + Len(b) + Len(c)
    /\ Stands(start, whole, 0)
    /\ Stands(a, whole, Len(start))
    /\ Stands(b, whole, Len(start) + Len(a))
    /\ Stands(c, whole, Len(start) + Len(a) + Len(b))

(* Three parts that are put behind a start. *)
LEMMA ThreeMore ==
    ASSUME NEW start \in Seq(Nat), NEW a \in Seq(Nat), NEW b \in Seq(Nat),
           NEW c \in Seq(Nat)
    PROVE  Three(start, a, b, c, start \o a \o b \o c)
<1>1. PICK w1, w2, w3 : w1 = start \o a /\ w2 = w1 \o b /\ w3 = w2 \o c
  OBVIOUS
<1>2. /\ w1 \in Seq(Nat) /\ Len(w1) = Len(start) + Len(a)
      /\ Stands(start, w1, 0) /\ Stands(a, w1, Len(start))
  BY <1>1, StandsTogether, Zenon
<1>3. /\ w2 \in Seq(Nat) /\ Len(w2) = Len(w1) + Len(b)
      /\ Stands(w1, w2, 0) /\ Stands(b, w2, Len(w1))
  BY <1>1, <1>2, StandsTogether, Zenon
<1>4. /\ w3 \in Seq(Nat) /\ Len(w3) = Len(w2) + Len(c)
      /\ Stands(w2, w3, 0) /\ Stands(c, w3, Len(w2))
  BY <1>1, <1>3, StandsTogether, Zenon
<1>5. /\ Len(start) \in Nat /\ Len(w1) \in Nat /\ 0 \in Nat
  BY <1>2
<1>6. Stands(w1, w3, 0) /\ Stands(b, w3, Len(w1))
  BY <1>2, <1>3, <1>4, <1>5, StandsInStart
<1>7. Stands(start, w3, 0) /\ Stands(a, w3, Len(start))
  BY <1>2, <1>4, <1>5, <1>6, StandsInStart
<1>8. Three(start, a, b, c, w3)
  BY <1>2, <1>3, <1>4, <1>6, <1>7, Zenon DEF Three
<1>9. QED
  BY <1>1, <1>8, Zenon

\* The whole is a start and four parts behind it.
Four(start, a, b, c, d, whole) ==
    /\ whole \in Seq(Nat)
    /\ Len(whole) = Len(start) + Len(a) + Len(b) + Len(c) + Len(d)
    /\ Stands(start, whole, 0)
    /\ Stands(a, whole, Len(start))
    /\ Stands(b, whole, Len(start) + Len(a))
    /\ Stands(c, whole, Len(start) + Len(a) + Len(b))
    /\ Stands(d, whole, Len(start) + Len(a) + Len(b) + Len(c))

(* Four parts that are put behind a start. *)
LEMMA FourMore ==
    ASSUME NEW start \in Seq(Nat), NEW a \in Seq(Nat), NEW b \in Seq(Nat),
           NEW c \in Seq(Nat), NEW d \in Seq(Nat)
    PROVE  Four(start, a, b, c, d, start \o a \o b \o c \o d)
<1>1. PICK most, whole : most = start \o a \o b \o c /\ whole = most \o d
  OBVIOUS
<1>2. Three(start, a, b, c, most)
  BY <1>1, ThreeMore, Zenon
<1>3. most \in Seq(Nat) /\ Len(most) = Len(start) + Len(a) + Len(b) + Len(c)
  BY <1>2, Zenon DEF Three
<1>4. /\ whole \in Seq(Nat) /\ Len(whole) = Len(most) + Len(d)
      /\ Stands(most, whole, 0) /\ Stands(d, whole, Len(most))
  BY <1>1, <1>3, StandsTogether, Zenon
<1>5. /\ 0 \in Nat /\ Len(start) \in Nat /\ Len(start) + Len(a) \in Nat
      /\ Len(start) + Len(a) + Len(b) \in Nat
  OBVIOUS
<1>6. /\ Stands(start, most, 0)
      /\ Stands(a, most, Len(start))
      /\ Stands(b, most, Len(start) + Len(a))
      /\ Stands(c, most, Len(start) + Len(a) + Len(b))
  BY <1>2, Zenon DEF Three
<1>7. ASSUME NEW part \in Seq(Nat), NEW from \in Nat, Stands(part, most, from)
      PROVE  Stands(part, whole, from)
  BY <1>3, <1>4, <1>7, StandsInStart, Zenon
<1>8. /\ Stands(start, whole, 0)
      /\ Stands(a, whole, Len(start))
      /\ Stands(b, whole, Len(start) + Len(a))
      /\ Stands(c, whole, Len(start) + Len(a) + Len(b))
  BY <1>5, <1>6, <1>7, Zenon
<1>9. Four(start, a, b, c, d, whole)
  BY <1>3, <1>4, <1>8, Zenon DEF Four
<1>10. QED
  BY <1>1, <1>9, Zenon

(* A part is what is cut out where it stands. *)
LEMMA PartCutOut ==
    ASSUME NEW part \in Seq(Nat), NEW whole \in Seq(Nat), NEW from \in Nat,
           Stands(part, whole, from), NEW to, to = from + Len(part)
    PROVE  Slice(whole, from, to) = part
<1>1. PICK n : n = Len(part)
  OBVIOUS
<1>2. n \in Nat /\ from + 0 = from
  BY <1>1
<1>3. PICK none, last : none = 0 /\ last = from + none
  OBVIOUS
<1>4. none \in 0 .. n /\ n \in none .. n /\ last = from
  BY <1>2, <1>3
<1>5. Slice(whole, last, from + n) = Slice(part, none, n)
  BY <1>1, <1>3, <1>4, ReadWhereItStands, ZenonT(30)
<1>6. Slice(part, none, n) = SubSeq(part, 1, n)
  BY <1>3 DEF Slice
<1>7. SubSeq(part, 1, n) = part
  BY <1>1
<1>8. QED
  BY <1>1, <1>4, <1>5, <1>6, <1>7

(* A word is read where it stands. *)
LEMMA WordThere ==
    ASSUME NEW n \in Nat, NEW word, word = Be16(n),
           NEW whole \in Seq(Nat), NEW from \in Nat, Stands(word, whole, from)
    PROVE  U16(whole, from) = n
<1>2. word \in Seq(Nat) /\ Len(word) = 2 /\ U16(word, 0) = n
  BY WordReadBack
<1>3. Len(word) >= 2
  BY <1>2
<1>4. U16(whole, from) = U16(word, 0)
  BY <1>2, <1>3, ReadFirstWord, Zenon
<1>5. QED
  BY <1>2, <1>4

(* A word of four bytes is four bytes. *)
LEMMA DoubleWord ==
    ASSUME NEW n \in Nat
    PROVE  Be32(n) \in Seq(Nat) /\ Len(Be32(n)) = 4
<1>1. PICK a, b, low : a = n \div 16777216 /\ b = (n \div 65536) % 256 /\ low = n % 65536
  OBVIOUS
<1>2. a \in Nat /\ b \in Nat /\ low \in Nat
  <2>1. n \div 65536 \in Nat /\ n \div 16777216 \in Nat
    OBVIOUS
  <2>2. (n \div 65536) % 256 \in Nat /\ n % 65536 \in Nat
    BY <2>1
  <2>3. QED
    BY <1>1, <2>1, <2>2
<1>3. PICK high, word : high = <<a, b>> /\ word = Be16(low)
  OBVIOUS
<1>4. high \in Seq(Nat) /\ Len(high) = 2 /\ word \in Seq(Nat) /\ Len(word) = 2
  BY <1>2, <1>3, WordReadBack
<1>5. Be32(n) = high \o word
  BY <1>1, <1>3 DEF Be32
<1>6. high \o word \in Seq(Nat) /\ Len(high \o word) = Len(high) + Len(word)
  BY <1>4, StandsTogether, Zenon
<1>7. QED
  BY <1>4, <1>5, <1>6

\* What parse_dns_query_name finds in a query for the encoded name e.
ReadsAsQuery(whole, e) ==
    /\ whole \in Seq(Nat) /\ Len(whole) = 16 + Len(e)
    /\ U16(whole, 4) = 1
    /\ Stands(e, whole, 12)

(* So reads the query that the encoder writes. *)
LEMMA QueryReads ==
    ASSUME NEW id \in Nat, NEW labels, NEW e \in Seq(Nat), e = encode_dns_name(labels)
    PROVE  ReadsAsQuery(dns_query(id, labels), e)
<1>1. PICK start, flags, one, zeros : /\ start = Be16(id) /\ flags = Be16(256)
                                      /\ one = Be16(1) /\ zeros = Zeros(6)
  OBVIOUS
<1>2. /\ start \in Seq(Nat) /\ Len(start) = 2 /\ flags \in Seq(Nat) /\ Len(flags) = 2
      /\ one \in Seq(Nat) /\ Len(one) = 2 /\ zeros \in Seq(Nat) /\ Len(zeros) = 6
  <2>1. 1 \in Nat /\ 256 \in Nat /\ 6 \in Nat
    OBVIOUS
  <2>2. zeros \in Seq(Nat) /\ Len(zeros) = 6
    BY <1>1, <2>1, ZerosAreBytes, Zenon
  <2>3. QED
    BY <1>1, <2>1, <2>2, WordReadBack, Zenon
<1>3. PICK most, whole : most = start \o flags \o one \o zeros /\ whole = most \o e \o one \o one
  OBVIOUS
<1>4. whole = dns_query(id, labels)
  BY <1>1, <1>3, Zenon DEF dns_query
<1>5. Three(start, flags, one, zeros, most)
  BY <1>2, <1>3, ThreeMore, Zenon
<1>6. /\ most \in Seq(Nat) /\ Len(most) = 12 /\ Stands(one, most, 4)
  BY <1>2, <1>5 DEF Three
<1>7. Three(most, e, one, one, whole)
  BY <1>2, <1>3, <1>6, ThreeMore, Zenon
<1>8. /\ whole \in Seq(Nat) /\ Len(whole) = 16 + Len(e) /\ Len(e) \in Nat
      /\ Stands(most, whole, 0) /\ Stands(e, whole, 12)
  BY <1>2, <1>6, <1>7 DEF Three
<1>9. U16(whole, 4) = 1
  <2>1. 4 \in Nat /\ 1 \in Nat
    OBVIOUS
  <2>2. Stands(one, whole, 4)
    BY <1>2, <1>6, <1>8, <2>1, StandsInStart, Zenon
  <2>3. QED
    BY <1>1, <1>8, <2>1, <2>2, WordThere, Zenon
<1>10. QED
  BY <1>4, <1>8, <1>9 DEF ReadsAsQuery

\* What parse_dns_response finds in a response for the encoded name e.
ReadsAsResponse(whole, e, ip) ==
    /\ whole \in Seq(Nat) /\ Len(whole) = 30 + 2 * Len(e)
    /\ U16(whole, 4) = 1 /\ U16(whole, 6) = 1
    /\ Stands(e, whole, 12)
    /\ Stands(e, whole, 16 + Len(e))
    /\ U16(whole, 16 + 2 * Len(e)) = 1
    /\ U16(whole, 24 + 2 * Len(e)) = 4
    /\ Slice(whole, 26 + 2 * Len(e), 30 + 2 * Len(e)) = ip

(* So reads the response that the encoder writes. *)
LEMMA ResponseReads ==
    ASSUME NEW id \in Nat, NEW labels, NEW e \in Seq(Nat), e = encode_dns_name(labels),
           NEW ip \in Seq(Nat), Len(ip) = 4
    PROVE  ReadsAsResponse(dns_response(id, labels, ip), e, ip)
<1>0. PICK flags, ttl : flags = Be16(33152) /\ ttl = Be32(60)
  OBVIOUS
<1>1. PICK start, one, zeros, four, size : /\ start = Be16(id) /\ one = Be16(1)
                                           /\ zeros = Zeros(4) /\ four = Be16(4)
                                           /\ size = Len(e)
  OBVIOUS
<1>2. /\ start \in Seq(Nat) /\ Len(start) = 2 /\ flags \in Seq(Nat) /\ Len(flags) = 2
      /\ one \in Seq(Nat) /\ Len(one) = 2 /\ zeros \in Seq(Nat) /\ Len(zeros) = 4
      /\ ttl \in Seq(Nat) /\ Len(ttl) = 4 /\ four \in Seq(Nat) /\ Len(four) = 2
      /\ size \in Nat
  <2>1. 1 \in Nat /\ 4 \in Nat
    OBVIOUS
  <2>2. zeros \in Seq(Nat) /\ Len(zeros) = 4
    BY <1>1, <2>1, ZerosAreBytes, Zenon
  <2>3. ttl \in Seq(Nat) /\ Len(ttl) = 4
    <3>1. PICK n \in Nat : ttl = Be32(n)
      BY <1>0
    <3>2. QED
      BY <3>1, DoubleWord, Zenon
  <2>4. size \in Nat
    BY <1>1
  <2>5. start \in Seq(Nat) /\ Len(start) = 2
    BY <1>1, WordReadBack, Zenon
  <2>6. one \in Seq(Nat) /\ Len(one) = 2 /\ four \in Seq(Nat) /\ Len(four) = 2
    BY <1>1, <2>1, WordReadBack, Zenon
  <2>7. flags \in Seq(Nat) /\ Len(flags) = 2
    <3>1. PICK n \in Nat : flags = Be16(n)
      BY <1>0
    <3>2. QED
      BY <3>1, WordReadBack, Zenon
  <2>8. QED
    BY <2>2, <2>3, <2>4, <2>5, <2>6, <2>7, Zenon
<1>3. PICK w1, w2, w3, whole : /\ w1 = start \o flags \o one \o one \o zeros
                               /\ w2 = w1 \o e \o one \o one
                               /\ w3 = w2 \o e \o one \o one
                               /\ whole = w3 \o ttl \o four \o ip
  OBVIOUS
<1>4. whole = dns_response(id, labels, ip)
  BY <1>0, <1>1, <1>3 DEF dns_response
<1>5. Four(start, flags, one, one, zeros, w1)
  BY <1>2, <1>3, FourMore, Zenon
<1>6. /\ w1 \in Seq(Nat) /\ Len(w1) = 12 /\ Stands(one, w1, 4) /\ Stands(one, w1, 6)
  BY <1>2, <1>5 DEF Four
<1>7. Three(w1, e, one, one, w2)
  BY <1>2, <1>3, <1>6, ThreeMore, Zenon
<1>8. /\ w2 \in Seq(Nat) /\ Len(w2) = 16 + size
      /\ Stands(w1, w2, 0) /\ Stands(e, w2, 12)
  BY <1>1, <1>2, <1>6, <1>7 DEF Three
<1>9. Three(w2, e, one, one, w3)
  BY <1>2, <1>3, <1>8, ThreeMore, Zenon
<1>10. /\ w3 \in Seq(Nat) /\ Len(w3) = 20 + 2 * size
       /\ Stands(w2, w3, 0) /\ Stands(e, w3, 16 + size)
       /\ Stands(one, w3, 16 + 2 * size)
  <2>1. Len(w2) + Len(e) = 16 + 2 * size
    BY <1>1, <1>2, <1>8
  <2>2. QED
    BY <1>1, <1>2, <1>8, <1>9, <2>1 DEF Three
<1>11. Three(w3, ttl, four, ip, whole)
  BY <1>2, <1>3, <1>10, ThreeMore, Zenon
<1>12. /\ whole \in Seq(Nat) /\ Len(whole) = 30 + 2 * size
       /\ Stands(w3, whole, 0) /\ Stands(four, whole, 24 + 2 * size)
       /\ Stands(ip, whole, 26 + 2 * size)
  <2>1. /\ Len(w3) + Len(ttl) = 24 + 2 * size
        /\ Len(w3) + Len(ttl) + Len(four) = 26 + 2 * size
        /\ Len(w3) + Len(ttl) + Len(four) + Len(ip) = 30 + 2 * size
    BY <1>2, <1>10
  <2>2. QED
    BY <1>11, <2>1, Zenon DEF Three
<1>13. PICK four_at, six_at, name_at, next_at, type_at, size_at, ip_at, end_at :
          /\ four_at = 4 /\ six_at = 6 /\ name_at = 12 /\ next_at = 16 + size
          /\ type_at = 16 + 2 * size /\ size_at = 24 + 2 * size
          /\ ip_at = 26 + 2 * size /\ end_at = 30 + 2 * size
  OBVIOUS
<1>14. /\ four_at \in Nat /\ six_at \in Nat /\ name_at \in Nat /\ next_at \in Nat
       /\ type_at \in Nat /\ size_at \in Nat /\ ip_at \in Nat /\ end_at = ip_at + Len(ip)
  BY <1>2, <1>13
<1>15. Stands(w2, whole, 0) /\ Stands(w1, whole, 0)
  <2>1. 0 \in Nat
    OBVIOUS
  <2>2. Stands(w2, whole, 0)
    BY <1>8, <1>10, <1>12, <2>1, StandsInStart, Zenon
  <2>3. QED
    BY <1>6, <1>8, <1>12, <2>1, <2>2, StandsInStart, Zenon
<1>16. /\ Stands(one, whole, four_at) /\ Stands(one, whole, six_at)
       /\ Stands(e, whole, name_at) /\ Stands(e, whole, next_at)
       /\ Stands(one, whole, type_at)
  <2>1. /\ Stands(one, w1, four_at) /\ Stands(one, w1, six_at)
        /\ Stands(e, w2, name_at) /\ Stands(e, w3, next_at)
        /\ Stands(one, w3, type_at)
    BY <1>6, <1>8, <1>10, <1>13, Zenon
  <2>2. Stands(one, whole, four_at) /\ Stands(one, whole, six_at)
    BY <1>2, <1>6, <1>12, <1>14, <1>15, <2>1, StandsInStart, Zenon
  <2>3. Stands(e, whole, name_at)
    BY <1>8, <1>12, <1>14, <1>15, <2>1, StandsInStart, Zenon
  <2>4. Stands(e, whole, next_at) /\ Stands(one, whole, type_at)
    BY <1>2, <1>10, <1>12, <1>14, <2>1, StandsInStart, Zenon
  <2>5. QED
    BY <2>2, <2>3, <2>4
<1>17. /\ U16(whole, four_at) = 1 /\ U16(whole, six_at) = 1 /\ U16(whole, type_at) = 1
       /\ U16(whole, size_at) = 4
  <2>1. 1 \in Nat /\ 4 \in Nat
    OBVIOUS
  <2>2. /\ U16(whole, four_at) = 1 /\ U16(whole, six_at) = 1 /\ U16(whole, type_at) = 1
    <3>0. \E n \in Nat : n = 1 /\ one = Be16(n)
      <4>1. 1 = 1 /\ one = Be16(1)
        BY <1>1, Zenon
      <4>2. QED
        BY <2>1, <4>1, Zenon
    <3>1. PICK n \in Nat : n = 1 /\ one = Be16(n)
      BY <3>0, Zenon
    <3>2. one = Be16(n) /\ n \in Nat
      BY <3>1, Zenon
    <3>3. U16(whole, four_at) = n /\ U16(whole, six_at) = n /\ U16(whole, type_at) = n
      <4>1. ASSUME NEW i \in Nat, Stands(one, whole, i)
            PROVE  U16(whole, i) = n
        BY <1>12, <3>2, <4>1, WordThere, Zenon
      <4>2. QED
        BY <1>14, <1>16, <4>1
    <3>4. QED
      BY <3>1, <3>3, Zenon
  <2>3. U16(whole, size_at) = 4
    <3>1. Stands(four, whole, size_at)
      BY <1>12, <1>13, Zenon
    <3>0. \E n \in Nat : n = 4 /\ four = Be16(n)
      <4>1. 4 = 4 /\ four = Be16(4)
        BY <1>1, Zenon
      <4>2. QED
        BY <2>1, <4>1, Zenon
    <3>2. PICK n \in Nat : n = 4 /\ four = Be16(n)
      BY <3>0, Zenon
    <3>3. four = Be16(n) /\ n \in Nat
      BY <3>2, Zenon
    <3>4. U16(whole, size_at) = n
      BY <1>12, <1>14, <3>1, <3>3, WordThere, ZenonT(30)
    <3>5. QED
      BY <3>2, <3>4, Zenon
  <2>4. QED
    BY <2>2, <2>3
<1>18. Slice(whole, ip_at, end_at) = ip
  <2>1. Stands(ip, whole, ip_at)
    BY <1>12, <1>13, Zenon
  <2>2. QED
    BY <1>12, <1>14, <2>1, PartCutOut, Zenon
<1>19. ReadsAsResponse(whole, e, ip)
  <2>1. /\ U16(whole, 4) = 1 /\ U16(whole, 6) = 1 /\ Stands(e, whole, 12)
        /\ Stands(e, whole, 16 + Len(e)) /\ U16(whole, 16 + 2 * Len(e)) = 1
        /\ U16(whole, 24 + 2 * Len(e)) = 4
        /\ Slice(whole, 26 + 2 * Len(e), 30 + 2 * Len(e)) = ip
    BY <1>1, <1>13, <1>16, <1>17, <1>18
  <2>2. QED
    BY <1>1, <1>12, <2>1 DEF ReadsAsResponse
<1>20. QED
  BY <1>4, <1>19

-----------------------------------------------------------------------------
(*****************************************************************************)
(* The names of DNS messages as they were sent                               *)
(*****************************************************************************)

\* The parts that a name is encoded from, and those of its text.
LabelParts(labels) == [i \in DOMAIN labels |-> <<Len(labels[i])>> \o labels[i]]
TextParts(labels) ==
    [i \in DOMAIN labels |-> IF i = 1 THEN labels[i] ELSE <<46>> \o labels[i]]

\* The texts of the first labels of a name.
Grows(labels, text) ==
    /\ text \in [0 .. Len(labels) -> Seq(Nat)]
    /\ text[0] = <<>>
    /\ text[Len(labels)] = Text(labels)
    /\ \A k \in 1 .. Len(labels) : text[k] = Longer(text[k - 1], labels[k])

TextsOf(labels) == CHOOSE text : Grows(labels, text)

(* The labels of a name are texts that survive decoding. *)
LEMMA LabelFacts ==
    ASSUME NEW labels, IsName(labels)
    PROVE  /\ Len(labels) \in Nat /\ DOMAIN labels = 1 .. Len(labels)
           /\ Len(labels) < MAX_HOPS
           /\ \A i \in 1 .. Len(labels) :
                 /\ labels[i] \in Seq(Nat) /\ Len(labels[i]) \in 1 .. 63
                 /\ Lossy(labels[i]) = labels[i]
<1>1. labels \in Seq(Buffer) /\ Len(labels) < MAX_HOPS
  BY DEF IsName
<1>2. Len(labels) \in Nat /\ DOMAIN labels = 1 .. Len(labels)
  BY <1>1
<1>3. ASSUME NEW i \in 1 .. Len(labels)
      PROVE  /\ labels[i] \in Seq(Nat) /\ Len(labels[i]) \in 1 .. 63
             /\ Lossy(labels[i]) = labels[i]
  <2>1. Len(labels[i]) \in 1 .. 63 /\ Plain(labels[i])
    BY <1>2 DEF IsName
  <2>2. labels[i] \in Buffer /\ Lossy(labels[i]) = labels[i]
    BY <2>1 DEF Plain
  <2>3. QED
    BY <2>1, <2>2, BufferIsText
<1>4. QED
  BY <1>1, <1>2, <1>3

(* A label behind a dot. *)
LEMMA DottedLabel ==
    ASSUME NEW label \in Seq(Nat), NEW octet \in Nat
    PROVE  <<octet>> \o label \in Seq(Nat) /\ Len(<<octet>> \o label) = 1 + Len(label)
<1>1. PICK one : one = <<octet>>
  OBVIOUS
<1>2. one \in Seq(Nat) /\ Len(one) = 1
  BY <1>1
<1>3. one \o label \in Seq(Nat) /\ Len(one \o label) = Len(one) + Len(label)
  BY <1>2, StandsTogether, Zenon
<1>4. QED
  BY <1>1, <1>2, <1>3

(* The text of a name is what it grows to, label by label. *)
LEMMA TextGrows ==
    ASSUME NEW labels, IsName(labels)
    PROVE  Grows(labels, TextsOf(labels))
<1>1. PICK n, parts : n = Len(labels) /\ parts = TextParts(labels)
  OBVIOUS
<1>2. /\ n \in Nat /\ DOMAIN labels = 1 .. n
      /\ \A i \in 1 .. n : labels[i] \in Seq(Nat) /\ Len(labels[i]) \in 1 .. 63
  BY <1>1, LabelFacts
<1>3. parts = [i \in 1 .. n |-> IF i = 1 THEN labels[i] ELSE <<46>> \o labels[i]]
  BY <1>1, <1>2 DEF TextParts
<1>4. \A i \in 1 .. n : parts[i] \in Seq(Nat) /\ Len(parts[i]) >= 1
  <2>1. SUFFICES ASSUME NEW i \in 1 .. n
                 PROVE  parts[i] \in Seq(Nat) /\ Len(parts[i]) >= 1
    OBVIOUS
  <2>2. labels[i] \in Seq(Nat) /\ Len(labels[i]) \in 1 .. 63
    BY <1>2
  <2>3. 46 \in Nat
    OBVIOUS
  <2>4. PICK dotted : dotted = <<46>> \o labels[i]
    OBVIOUS
  <2>5. dotted \in Seq(Nat) /\ Len(dotted) = 1 + Len(labels[i])
    BY <2>2, <2>3, <2>4, DottedLabel
  <2>6. parts[i] = IF i = 1 THEN labels[i] ELSE dotted
    BY <1>3, <2>4
  <2>7. QED
    BY <2>2, <2>5, <2>6
<1>5. parts \in Texts /\ Len(parts) = n
  BY <1>2, <1>3, <1>4 DEF Texts
<1>6. Text(labels) = FlattenSeq(parts)
  BY <1>1 DEF Text, TextParts
<1>7. \E text : Grows(labels, text)
  <2>1. CASE n = 0
    <3>1. Text(labels) = <<>>
      <4>1. parts = <<>>
        BY <1>5, <2>1 DEF Texts
      <4>2. QED
        BY <1>6, <4>1 DEF FlattenSeq
    <3>2. PICK text : text = [k \in 0 .. 0 |-> <<>>]
      OBVIOUS
    <3>3. Grows(labels, text)
      BY <1>1, <2>1, <3>1, <3>2 DEF Grows
    <3>4. QED
      BY <3>3
  <2>2. CASE n # 0
    <3>1. parts # <<>>
      BY <1>5, <2>2 DEF Texts
    <3>2. PICK f : Flattens(parts, n, f) /\ FlattenSeq(parts) = f[n]
      BY <1>5, <3>1, FlattenSeqFlattens
    <3>3. \A i \in 1 .. n : f[i] = IF i = 1 THEN parts[i] ELSE f[i - 1] \o parts[i]
      BY <3>2 DEF Flattens
    <3> DEFINE S == {k \in Nat : k \in 1 .. n => f[k] \in Seq(Nat) /\ Len(f[k]) >= 1}
    <3>4. 0 \in S
      OBVIOUS
    <3>5. ASSUME NEW k \in Nat, k \in S
          PROVE  k + 1 \in S
      <4>1. SUFFICES ASSUME NEW i \in 1 .. n, i = k + 1
                     PROVE  f[i] \in Seq(Nat) /\ Len(f[i]) >= 1
        OBVIOUS
      <4>2. parts[i] \in Seq(Nat) /\ Len(parts[i]) >= 1
        BY <1>4
      <4>3. f[i] = IF i = 1 THEN parts[i] ELSE f[i - 1] \o parts[i]
        BY <3>3
      <4>4. CASE k = 0
        <5>1. i = 1
          BY <4>1, <4>4
        <5>2. QED
          BY <4>2, <4>3, <5>1
      <4>5. CASE k # 0
        <5>1. f[k] \in Seq(Nat) /\ Len(f[k]) >= 1
          BY <1>2, <3>5, <4>1, <4>5
        <5>2. i # 1 /\ i - 1 = k
          BY <4>1, <4>5
        <5>3. PICK s, t, u : s = f[k] /\ t = parts[i] /\ u = s \o t
          OBVIOUS
        <5>4. f[i] = u
          BY <4>3, <5>2, <5>3
        <5>5. /\ s \in Seq(Nat) /\ t \in Seq(Nat)
              /\ Len(s) \in Nat /\ Len(t) \in Nat /\ Len(t) >= 1
          BY <4>2, <5>1, <5>3
        <5>6. u \in Seq(Nat) /\ Len(u) = Len(s) + Len(t)
          BY <5>3, <5>5, StandsTogether, Zenon
        <5>7. Len(u) >= 1
          BY <5>5, <5>6
        <5>8. QED
          BY <5>4, <5>6, <5>7, Zenon
      <4>6. QED
        BY <4>4, <4>5
    <3>6. Nat \subseteq S
      <4> HIDE DEF S
      <4> QED BY <3>4, <3>5, SetInduction
    <3>7. \A i \in 1 .. n : f[i] \in Seq(Nat) /\ Len(f[i]) >= 1
      BY <3>6
    <3>8. PICK text : text = [k \in 0 .. n |-> IF k = 0 THEN <<>> ELSE f[k]]
      OBVIOUS
    <3>9. text \in [0 .. n -> Seq(Nat)]
      BY <3>7, <3>8, EmptyText
    <3>10. text[0] = <<>> /\ text[n] = FlattenSeq(parts)
      BY <1>2, <2>2, <3>2, <3>8
    <3>11. ASSUME NEW k \in 1 .. n
           PROVE  text[k] = Longer(text[k - 1], labels[k])
      <4>1. text[k] = f[k] /\ labels[k] \in Seq(Nat)
        BY <1>2, <3>8
      <4>2. CASE k = 1
        <5>1. text[k] = labels[k] /\ text[k - 1] = <<>>
          BY <1>3, <3>3, <3>10, <4>1, <4>2
        <5>2. QED
          BY <4>1, <5>1, NothingBefore DEF Longer
      <4>3. CASE k # 1
        <5>1. k - 1 \in 1 .. n /\ k - 1 \in 0 .. n /\ k - 1 # 0
          BY <1>2, <4>3
        <5>2. text[k - 1] = f[k - 1] /\ f[k - 1] \in Seq(Nat) /\ Len(f[k - 1]) >= 1
          BY <1>2, <3>7, <3>8, <5>1
        <5>3. PICK part, label, dot : part = f[k - 1] /\ label = labels[k] /\ dot = <<46>>
          OBVIOUS
        <5>4. text[k] = part \o (dot \o label)
          BY <1>3, <3>3, <4>1, <4>3, <5>3
        <5>5. part \in Seq(Nat) /\ label \in Seq(Nat) /\ dot \in Seq(Nat) /\ part # <<>>
          BY <4>1, <5>2, <5>3
        <5>6. (part \o dot) \o label = part \o (dot \o label)
          BY <5>5, TextAssociative, Zenon
        <5>7. Append(part, 46) = part \o dot
          BY <5>3, <5>5, AppendIsConcat
        <5>8. Longer(part, label) = (part \o dot) \o label
          BY <5>5, <5>7 DEF Longer
        <5>9. QED
          BY <5>2, <5>3, <5>4, <5>6, <5>8
      <4>4. QED
        BY <4>2, <4>3
    <3>12. Grows(labels, text)
      BY <1>1, <1>6, <3>9, <3>10, <3>11 DEF Grows
    <3>13. QED
      BY <3>12
  <2>3. QED
    BY <2>1, <2>2
<1>8. QED
  BY <1>7 DEF TextsOf

\* Where the labels of a name stand in its encoded form e, and its end.
Encoded(labels, e, flat, place) ==
    /\ e \in Seq(Nat) /\ flat \in Seq(Nat)
    /\ Len(LabelParts(labels)) = Len(labels)
    /\ \A k \in 1 .. Len(labels) :
          /\ LabelParts(labels)[k] = <<Len(labels[k])>> \o labels[k]
          /\ LabelParts(labels)[k] \in Seq(Nat)
          /\ Len(LabelParts(labels)[k]) = 1 + Len(labels[k])
    /\ LaidOut(LabelParts(labels), flat, place)
    /\ Len(e) = Len(flat) + 1
    /\ Stands(flat, e, 0)
    /\ Stands(<<0>>, e, Len(flat))

(* A name is encoded label by label. *)
LEMMA NameEncoded ==
    ASSUME NEW labels, IsName(labels)
    PROVE  Encoded(labels, encode_dns_name(labels), FlattenSeq(LabelParts(labels)),
                   Places(LabelParts(labels)))
<1>1. PICK n, parts, flat, e : /\ n = Len(labels) /\ parts = LabelParts(labels)
                               /\ flat = FlattenSeq(parts) /\ e = encode_dns_name(labels)
  OBVIOUS
<1>2. /\ n \in Nat /\ DOMAIN labels = 1 .. n
      /\ \A i \in 1 .. n : labels[i] \in Seq(Nat) /\ Len(labels[i]) \in 1 .. 63
  BY <1>1, LabelFacts
<1>3. parts = [i \in 1 .. n |-> <<Len(labels[i])>> \o labels[i]]
  BY <1>1, <1>2 DEF LabelParts
<1>4. ASSUME NEW i \in 1 .. n
      PROVE  /\ parts[i] = <<Len(labels[i])>> \o labels[i]
             /\ parts[i] \in Seq(Nat) /\ Len(parts[i]) = 1 + Len(labels[i])
  <2>1. labels[i] \in Seq(Nat) /\ Len(labels[i]) \in Nat
    BY <1>2
  <2>2. parts[i] = <<Len(labels[i])>> \o labels[i]
    BY <1>3
  <2>3. QED
    BY <2>1, <2>2, DottedLabel
<1>5. parts \in Texts /\ Len(parts) = n
  BY <1>2, <1>3, <1>4 DEF Texts
<1>6. flat \in Seq(Nat) /\ LaidOut(parts, flat, Places(parts))
  BY <1>1, <1>5, PartsAreLaidOut DEF Places
<1>7. PICK zero : zero = <<0>> /\ zero \in Seq(Nat) /\ Len(zero) = 1
  <2>1. <<0>> \in Seq(Nat) /\ Len(<<0>>) = 1
    OBVIOUS
  <2>2. QED
    BY <2>1
<1>8. e = flat \o zero
  BY <1>1, <1>7 DEF encode_dns_name, LabelParts
<1>9. /\ e \in Seq(Nat) /\ Len(e) = Len(flat) + Len(zero)
      /\ Stands(flat, e, 0) /\ Stands(zero, e, Len(flat))
  BY <1>6, <1>7, <1>8, StandsTogether, Zenon
<1>10. Encoded(labels, e, flat, Places(parts))
  BY <1>1, <1>4, <1>5, <1>6, <1>7, <1>9 DEF Encoded
<1>11. QED
  BY <1>1, <1>10

(* Behind the labels of a name that stands in a message there is a zero byte. *)
LEMMA NoLabelAhead ==
    ASSUME NEW labels, NEW e, NEW flat, NEW place, Encoded(labels, e, flat, place),
           Len(labels) \in Nat,
           NEW whole \in Seq(Nat), NEW from \in Nat, Stands(e, whole, from),
           NEW here, here = from + place[Len(labels)]
    PROVE  /\ here \in Nat /\ here < Len(whole) /\ At(whole, here) = 0
           /\ here + 1 = from + Len(e)
<1>1. PICK zero : zero = <<0>> /\ zero \in Seq(Nat) /\ Len(zero) = 1 /\ At(zero, 0) = 0
  <2>1. <<0>> \in Seq(Nat) /\ Len(<<0>>) = 1 /\ <<0>>[0 + 1] = 0
    OBVIOUS
  <2>2. QED
    BY <2>1 DEF At
<1>2. e \in Seq(Nat) /\ flat \in Seq(Nat) /\ Len(e) = Len(flat) + 1 /\ Stands(zero, e, Len(flat))
  BY <1>1 DEF Encoded
<1>3. place[Len(labels)] = Len(flat)
  BY DEF Encoded, LaidOut
<1>4. here \in Nat /\ Len(flat) \in Nat /\ here = from + Len(flat) /\ Len(zero) >= 1
  BY <1>1, <1>2, <1>3
<1>5. Stands(zero, whole, here)
  BY <1>1, <1>2, <1>4, StandsWithin, Zenon
<1>6. At(whole, here) = At(zero, 0)
  BY <1>1, <1>4, <1>5, ReadFirstByte, Zenon
<1>7. from + Len(e) <= Len(whole)
  BY DEF Stands
<1>8. QED
  BY <1>1, <1>2, <1>4, <1>6, <1>7

\* There is the length of a label, and then the label.
LabelAt(whole, label, here, after) ==
    /\ here \in Nat /\ Len(label) \in 1 .. 63
    /\ after = here + 1 + Len(label) /\ after <= Len(whole)
    /\ At(whole, here) = Len(label)
    /\ Slice(whole, here + 1, after) = label

(* So it is where each label of the name starts. *)
LEMMA LabelAhead ==
    ASSUME NEW labels, IsName(labels),
           NEW e, NEW flat, NEW place, Encoded(labels, e, flat, place),
           NEW whole \in Seq(Nat), NEW from \in Nat, Stands(e, whole, from),
           NEW k \in 1 .. Len(labels), NEW here, here = from + place[k - 1],
           NEW after, after = from + place[k]
    PROVE  LabelAt(whole, labels[k], here, after)
<1>1. PICK one, label, size : one = <<size>> /\ label = labels[k] /\ size = Len(label)
  OBVIOUS
<1>2. label \in Seq(Nat) /\ size \in 1 .. 63 /\ size = Len(label) /\ k - 1 \in 0 .. Len(labels)
  BY <1>1, LabelFacts
<1>3. one \in Seq(Nat) /\ Len(one) = 1 /\ At(one, 0) = size
  <2>1. <<size>> \in Seq(Nat) /\ Len(<<size>>) = 1 /\ <<size>>[0 + 1] = size
    BY <1>2
  <2>2. QED
    BY <1>1, <2>1 DEF At
<1>4. PICK part : part = LabelParts(labels)[k]
  OBVIOUS
<1>5. part = one \o label /\ part \in Seq(Nat) /\ Len(part) = 1 + size
  BY <1>1, <1>4 DEF Encoded
<1>6. Stands(one, part, 0) /\ Stands(label, part, 1)
  <2>1. Stands(one, part, 0) /\ Stands(label, part, Len(one))
    BY <1>2, <1>3, <1>5, StandsTogether, Zenon
  <2>2. QED
    BY <1>3, <2>1
<1>7. /\ place[k - 1] \in Nat /\ place[k] \in Nat
      /\ place[k] = place[k - 1] + Len(part)
      /\ Stands(part, flat, place[k - 1])
  <2>1. PICK parts : parts = LabelParts(labels)
    OBVIOUS
  <2>2. LaidOut(parts, flat, place) /\ Len(parts) = Len(labels) /\ part = parts[k]
    BY <1>4, <2>1 DEF Encoded
  <2>3. k \in 1 .. Len(parts) /\ place \in [0 .. Len(parts) -> Nat]
    BY <2>2 DEF LaidOut
  <2>4. Len(labels) \in Nat
    BY LabelFacts
  <2>5. place[k - 1] \in Nat /\ place[k] \in Nat
    <3>1. PICK n, low : n = Len(labels) /\ low = k - 1
      OBVIOUS
    <3>2. n \in Nat /\ low \in 0 .. n /\ k \in 0 .. n
      BY <2>4, <3>1
    <3>3. place \in [0 .. n -> Nat]
      BY <2>2, <2>3, <3>1, Zenon
    <3>4. place[low] \in Nat /\ place[k] \in Nat
      BY <3>2, <3>3, Zenon
    <3>5. QED
      BY <3>1, <3>4
  <2>6. place[k] = place[k - 1] + Len(part) /\ Stands(part, flat, place[k - 1])
    BY <2>2, <2>3 DEF LaidOut
  <2>7. QED
    BY <2>5, <2>6
<1>8. /\ e \in Seq(Nat) /\ flat \in Seq(Nat) /\ Stands(flat, e, 0)
  BY DEF Encoded
<1>9. PICK p : p = place[k - 1] /\ p \in Nat
  BY <1>7
<1>10. Stands(part, e, p)
  BY <1>5, <1>7, <1>8, <1>9, StandsInStart, Zenon
<1>11. here = from + p /\ here \in Nat
  BY <1>9
<1>12. Stands(part, whole, here)
  BY <1>5, <1>8, <1>9, <1>10, <1>11, StandsWithin, Zenon
<1>13. here + Len(part) <= Len(whole) /\ Len(whole) \in Nat
  BY <1>12 DEF Stands
<1>14. At(whole, here) = At(part, 0) /\ At(part, 0) = At(one, 0)
  <2>1. Len(part) >= 1 /\ Len(one) >= 1 /\ 0 \in Nat
    BY <1>2, <1>3, <1>5
  <2>2. At(whole, here) = At(part, 0)
    BY <1>5, <1>11, <1>12, <2>1, ReadFirstByte, Zenon
  <2>3. At(part, 0) = At(one, 0)
    BY <1>3, <1>5, <1>6, <2>1, ReadFirstByte, Zenon
  <2>4. QED
    BY <2>2, <2>3
<1>15. Slice(whole, here + 1, here + 1 + size) = label
  <2>1. PICK first, last, step : first = here + step /\ last = first + Len(label) /\ step = 1
    OBVIOUS
  <2>2. step \in Nat /\ first \in Nat /\ Stands(label, part, step)
    BY <1>6, <1>11, <2>1
  <2>3. Stands(label, whole, first)
    BY <1>2, <1>5, <1>11, <1>12, <2>1, <2>2, StandsWithin, Zenon
  <2>4. Slice(whole, first, last) = label
    <3>1. last = first + Len(label)
      BY <2>1
    <3>2. QED
      BY <1>2, <2>2, <2>3, <3>1, PartCutOut, Zenon
  <2>5. first = here + 1 /\ last = here + 1 + size
    BY <1>2, <2>1
  <2>6. QED
    BY <2>4, <2>5
<1>16. here < Len(whole) /\ here + 1 + size <= Len(whole)
  BY <1>2, <1>5, <1>11, <1>13, SMTT(30), ZenonT(30)
<1>17. from + place[k] = here + 1 + size
  <2>1. PICK q : q = place[k]
    OBVIOUS
  <2>2. q = p + Len(part)
    BY <1>7, <1>9, <2>1, Zenon
  <2>3. Len(part) = 1 + size /\ size \in Nat
    BY <1>2, <1>5
  <2>4. from + q = here + 1 + size
    <3>1. q = p + (1 + size)
      BY <2>2, <2>3, Zenon
    <3>2. \A a, b, c \in Nat : a + (b + (1 + c)) = (a + b) + 1 + c
      OBVIOUS
    <3>3. from + q = (from + p) + 1 + size
      BY <1>9, <2>3, <3>1, <3>2, Zenon
    <3>4. QED
      BY <1>11, <3>3, Zenon
  <2>5. QED
    BY <2>1, <2>4, Zenon
<1>18. At(whole, here) = size /\ size = Len(label)
  BY <1>1, <1>3, <1>14, Zenon
<1>19. after = here + 1 + size
  BY <1>17, Zenon
<1>20. LabelAt(whole, label, here, after)
  BY <1>2, <1>11, <1>15, <1>16, <1>18, <1>19 DEF LabelAt
<1>21. QED
  BY <1>1, <1>20, Zenon

\* read_dns_name, called at a place where that name stands, has read k labels.
Walked(labels, from, k) ==
    /\ k \in 0 .. Len(labels)
    /\ cursor = from + Places(LabelParts(labels))[k]
    /\ hops = k /\ ~jumped
    /\ name = TextsOf(labels)[k]

NameWalk(labels, from) == \E k : Walked(labels, from, k)

\* It finds the name in the message.
NameThere(labels, from) ==
    /\ IsName(labels) /\ from \in Nat
    /\ message \in Seq(Nat) /\ Stands(encode_dns_name(labels), message, from)

(* It starts with no label. *)
LEMMA NameWalkStarts ==
    ASSUME NEW labels, IsName(labels), NEW from \in Nat, StartName(from)
    PROVE  NameWalk(labels, from)'
<1>1. PICK place, text : place = Places(LabelParts(labels)) /\ text = TextsOf(labels)
  OBVIOUS
<1>2. place[0] = 0 /\ text[0] = <<>> /\ Len(labels) \in Nat
  BY <1>1, NameEncoded, TextGrows, LabelFacts DEF Encoded, LaidOut, Grows
<1>3. cursor' = from /\ name' = <<>> /\ hops' = 0 /\ ~jumped'
  BY DEF StartName
<1>4. 0 \in 0 .. Len(labels) /\ from + place[0] = from
  BY <1>2
<1>5. Walked(labels, from, 0)'
  BY <1>1, <1>2, <1>3, <1>4 DEF Walked
<1>6. QED
  BY <1>5 DEF NameWalk

(* It has a turn left for the next label, and finds it. *)
LEMMA WalkedToLabel ==
    ASSUME NEW labels, NEW from, NameThere(labels, from), NEW k, Walked(labels, from, k),
           k # Len(labels), InName
    PROVE  /\ ~NameFails /\ ~NameEnds /\ ~Jump
           /\ Label => Walked(labels, from, k + 1)'
<1>1. PICK place, text, e, flat :
         /\ place = Places(LabelParts(labels)) /\ text = TextsOf(labels)
         /\ e = encode_dns_name(labels) /\ flat = FlattenSeq(LabelParts(labels))
  OBVIOUS
<1>2. /\ IsName(labels) /\ from \in Nat /\ message \in Seq(Nat) /\ Stands(e, message, from)
      /\ Encoded(labels, e, flat, place) /\ Grows(labels, text)
  BY <1>1, NameEncoded, TextGrows DEF NameThere
<1>3. Len(labels) \in Nat /\ Len(labels) < MAX_HOPS /\ MAX_HOPS \in Nat
  BY <1>2, LabelFacts, HopsAssumption
<1>4. PICK i, size, after : /\ i = k + 1 /\ size = Len(labels[i])
                            /\ after = from + place[i]
  OBVIOUS
<1>5. /\ k \in 0 .. Len(labels) /\ cursor = from + place[k] /\ hops = k /\ ~jumped
      /\ name = text[k]
  BY <1>1 DEF Walked
<1>6. i \in 1 .. Len(labels) /\ i - 1 = k
  BY <1>3, <1>4, <1>5
<1>7. cursor = from + place[i - 1]
  BY <1>5, <1>6
<1>8. LabelAt(message, labels[i], cursor, after)
  BY <1>2, <1>4, <1>6, <1>7, LabelAhead, Zenon
<1>9. /\ cursor \in Nat /\ cursor < Len(message) /\ Len(message) \in Nat
      /\ Octet = size /\ size # 0 /\ ~(size >= 192) /\ after = cursor + 1 + size
      /\ Inside(message, cursor + 1, cursor + 1 + size)
      /\ Slice(message, cursor + 1, after) = labels[i]
  <2>1. Len(message) \in Nat
    BY <1>2
  <2>2. PICK label : label = labels[i]
    OBVIOUS
  <2>3. LabelAt(message, label, cursor, after) /\ size = Len(label)
    BY <1>4, <1>8, <2>2, Zenon
  <2>4. /\ cursor \in Nat /\ size \in 1 .. 63 /\ after = cursor + 1 + size
        /\ after <= Len(message) /\ At(message, cursor) = size
        /\ Slice(message, cursor + 1, after) = label
    BY <2>3 DEF LabelAt
  <2>5. cursor < Len(message) /\ size # 0 /\ ~(size >= 192) /\ cursor + 1 <= after
    BY <2>1, <2>4
  <2>6. QED
    BY <2>1, <2>2, <2>4, <2>5 DEF Octet, Inside
<1>10. ~NameFails /\ ~NameEnds /\ ~Jump
  <2>1. hops # MAX_HOPS /\ ~(cursor >= Len(message))
    BY <1>3, <1>5, <1>9
  <2>2. QED
    BY <1>9, <2>1 DEF NameFails, NameEnds, Jump
<1>11. ASSUME Label
       PROVE  Walked(labels, from, i)'
  <2>1. /\ name' = Longer(name, Lossy(Slice(message, cursor + 1, after)))
        /\ cursor' = after
        /\ hops' = hops + 1 /\ jumped' = jumped
    BY <1>9, <1>11 DEF Label, Longer
  <2>2. Lossy(labels[i]) = labels[i]
    BY <1>2, <1>6, LabelFacts
  <2>3. text[i] = Longer(text[i - 1], labels[i])
    BY <1>2, <1>6 DEF Grows
  <2>4. name' = text[i]
    BY <1>5, <1>6, <1>9, <2>1, <2>2, <2>3
  <2>5. cursor' = from + place[i]
    BY <1>4, <2>1
  <2>6. hops' = i /\ i \in 0 .. Len(labels) /\ ~jumped'
    BY <1>3, <1>4, <1>5, <1>6, <2>1
  <2>7. QED
    BY <1>1, <2>4, <2>5, <2>6 DEF Walked
<1>12. QED
  BY <1>4, <1>10, <1>11

(* It ends behind the last label. *)
LEMMA WalkedToEnd ==
    ASSUME NEW labels, NEW from, NameThere(labels, from), Walked(labels, from, Len(labels)),
           InName
    PROVE  /\ ~NameFails /\ ~Label /\ ~Jump
           /\ ~jumped /\ name = Text(labels)
           /\ cursor + 1 = from + Len(encode_dns_name(labels))
<1>1. PICK place, text, e, flat :
         /\ place = Places(LabelParts(labels)) /\ text = TextsOf(labels)
         /\ e = encode_dns_name(labels) /\ flat = FlattenSeq(LabelParts(labels))
  OBVIOUS
<1>2. /\ IsName(labels) /\ from \in Nat /\ message \in Seq(Nat) /\ Stands(e, message, from)
      /\ Encoded(labels, e, flat, place) /\ Grows(labels, text)
  BY <1>1, NameEncoded, TextGrows DEF NameThere
<1>3. Len(labels) \in Nat /\ Len(labels) < MAX_HOPS /\ MAX_HOPS \in Nat
  BY <1>2, LabelFacts, HopsAssumption
<1>4. /\ cursor = from + place[Len(labels)] /\ hops = Len(labels) /\ ~jumped
      /\ name = text[Len(labels)]
  BY <1>1 DEF Walked
<1>5. /\ cursor \in Nat /\ cursor < Len(message) /\ At(message, cursor) = 0
      /\ cursor + 1 = from + Len(e)
  BY <1>2, <1>3, <1>4, NoLabelAhead
<1>6. name = Text(labels)
  BY <1>2, <1>4 DEF Grows
<1>7. hops # MAX_HOPS /\ ~(cursor >= Len(message))
  BY <1>3, <1>4, <1>5
<1>8. Octet = 0 /\ Inside(message, cursor + 1, cursor + 1 + 0)
  BY <1>5 DEF Octet, Inside
<1>9. ~NameFails /\ ~Label /\ ~Jump
  BY <1>7, <1>8 DEF NameFails, Label, Jump
<1>10. QED
  BY <1>1, <1>4, <1>5, <1>6, <1>9

\* What the steps of read_dns_name do to a name that stands there.
NameIsWalked(labels, from) ==
    /\ ~NameFails /\ ~Jump
    /\ Label => NameWalk(labels, from)'
    /\ NameEnds => /\ ~jumped /\ name = Text(labels)
                   /\ cursor + 1 = from + Len(encode_dns_name(labels))

(* So it reads the whole name. *)
LEMMA NameWalks ==
    ASSUME NEW labels, NEW from, NameThere(labels, from), NameWalk(labels, from), InName
    PROVE  NameIsWalked(labels, from)
<1>1. PICK k : Walked(labels, from, k)
  BY DEF NameWalk
<1>2. CASE k = Len(labels)
  BY <1>1, <1>2, WalkedToEnd DEF NameIsWalked
<1>3. CASE k # Len(labels)
  <2>1. /\ ~NameFails /\ ~NameEnds /\ ~Jump
        /\ Label => Walked(labels, from, k + 1)'
    BY <1>1, <1>3, WalkedToLabel
  <2>2. Label => NameWalk(labels, from)'
    BY <2>1 DEF NameWalk
  <2>3. QED
    BY <2>1, <2>2 DEF NameIsWalked
<1>4. QED
  BY <1>2, <1>3

-----------------------------------------------------------------------------
(*****************************************************************************)
(* Queries and responses as they were sent                                   *)
(*****************************************************************************)

\* How far parse_dns_query_name is with a query that was sent.
AtQuery(carried) ==
    /\ message = dns_query(carried.id, carried.name)
    /\ url = None /\ resolved = <<>>
    /\ \/ at = "query" /\ hostname = None
       \/ at = "asked" /\ hostname = None /\ NameWalk(carried.name, 12)
       \/ at = "found" /\ hostname = Text(carried.name)

(* It reads the name. *)
LEMMA QueryStep ==
    ASSUME NEW carried, carried.id \in Word, IsName(carried.name), AtQuery(carried),
           NEW payload, ParserNext(payload)
    PROVE  AtQuery(carried)'
<1>1. PICK labels, e, twelve : /\ labels = carried.name /\ e = encode_dns_name(labels)
                               /\ twelve = 12
  OBVIOUS
<1>2. IsName(labels) /\ e \in Seq(Nat) /\ carried.id \in Nat /\ twelve \in Nat
  BY <1>1, NameEncoded, WordIsNatural DEF Encoded
<1>3. ReadsAsQuery(message, e)
  BY <1>1, <1>2, QueryReads DEF AtQuery
<1>4. /\ message \in Seq(Nat) /\ ~(Len(message) < 12) /\ U16(message, 4) = 1
      /\ Stands(e, message, 12)
  BY <1>2, <1>3 DEF ReadsAsQuery
<1>5. NameThere(labels, twelve)
  BY <1>1, <1>2, <1>4 DEF NameThere
<1>6. /\ ~ReadHeader /\ ~NextItem /\ ~ItemFails /\ ~ReadQuestion /\ ~ReadAnswer
      /\ ~ReadHello /\ ~SkipExtension /\ ~EnterList /\ ~TakeName /\ ~SkipName
      /\ ~LeaveList /\ ~TryHttp(payload)
  BY DEF AtQuery, ReadHeader, NextItem, ItemFails, ReadQuestion, ReadAnswer,
         ReadHello, SkipExtension, EnterList, TakeName, SkipName, LeaveList, TryHttp
<1>7. CASE ReadQuery
  <2>1. /\ at = "query" /\ at' = "asked" /\ StartName(12)
        /\ UNCHANGED <<message, foundVars>>
    BY <1>4, <1>7 DEF ReadQuery
  <2>2. NameWalk(labels, twelve)'
    BY <1>1, <1>2, <2>1, NameWalkStarts
  <2>3. QED
    BY <1>1, <2>1, <2>2 DEF AtQuery, foundVars
<1>8. CASE InName /\ (NameFails \/ NameEnds \/ Jump \/ Label)
  <2>1. at = "asked" /\ hostname = None /\ NameWalk(labels, twelve)
    BY <1>1, <1>8 DEF AtQuery, InName
  <2>2. NameIsWalked(labels, twelve)
    BY <1>5, <1>8, <2>1, NameWalks
  <2>3. CASE Label
    <3>1. NameWalk(labels, twelve)' /\ UNCHANGED <<at, message, foundVars>>
      BY <2>2, <2>3 DEF NameIsWalked, Label
    <3>2. QED
      BY <1>1, <2>1, <3>1 DEF AtQuery, foundVars
  <2>4. CASE NameEnds
    <3>1. /\ name = Text(labels) /\ at' = "found" /\ hostname' = name
          /\ UNCHANGED <<message, url, resolved>>
      BY <2>1, <2>2, <2>4 DEF NameIsWalked, NameEnds
    <3>2. QED
      BY <1>1, <3>1 DEF AtQuery
  <2>5. QED
    BY <1>8, <2>2, <2>3, <2>4 DEF NameIsWalked
<1>9. QED
  BY <1>6, <1>7, <1>8 DEF ParserNext, NameFails, NameEnds, Jump, Label, TakesTurn

-----------------------------------------------------------------------------

\* How far parse_dns_response is with a response that was sent.
Size(carried) == Len(encode_dns_name(carried.name))
AnswerOf(carried) == <<[name |-> Text(carried.name), ip |-> carried.ip]>>

AtQuestion(place) == pos = place /\ questions = 1 /\ answers = 1
AtAnswer(place) == pos = place /\ questions = 0 /\ answers = 1

AtNames(carried) ==
    /\ resolved = <<>>
    /\ AtQuestion(12) \/ AtAnswer(16 + Size(carried))
    /\ at = "name" => NameWalk(carried.name, pos)

AtItem(carried) ==
    /\ resolved = <<>>
    /\ name = Text(carried.name)
    /\ AtQuestion(12 + Size(carried)) \/ AtAnswer(16 + 2 * Size(carried))

AtResponse(carried) ==
    /\ message = dns_response(carried.id, carried.name, carried.ip)
    /\ hostname = None /\ url = None
    /\ \/ at = "response" /\ resolved = <<>>
       \/ at \in {"items", "name"} /\ AtNames(carried)
       \/ at = "item" /\ AtItem(carried)
       \/ /\ at = "items" /\ questions = 0 /\ answers = 0
          /\ resolved = AnswerOf(carried)
       \/ at = "found" /\ resolved = AnswerOf(carried)

\* What stands in it.
ResponseThere(carried) ==
    /\ IsName(carried.name)
    /\ Size(carried) \in Nat
    /\ ReadsAsResponse(message, encode_dns_name(carried.name), carried.ip)

(* It is there. *)
LEMMA ResponseIsThere ==
    ASSUME NEW carried, carried.id \in Word, IsName(carried.name), carried.ip \in IPv4,
           AtResponse(carried)
    PROVE  ResponseThere(carried)
<1>1. PICK labels, e, ip : /\ labels = carried.name /\ e = encode_dns_name(labels)
                           /\ ip = carried.ip
  OBVIOUS
<1>2. e \in Seq(Nat) /\ carried.id \in Nat
  BY <1>1, NameEncoded, WordIsNatural DEF Encoded
<1>3. ip \in Seq(Nat) /\ Len(ip) = 4
  <2>1. ip \in [1 .. 4 -> Byte]
    BY <1>1 DEF IPv4
  <2>2. ip = [i \in 1 .. 4 |-> ip[i]] /\ \A i \in 1 .. 4 : ip[i] \in Nat
    BY <2>1, ByteIsNatural
  <2>3. QED
    BY <2>2
<1>4. ReadsAsResponse(message, e, ip)
  BY <1>1, <1>2, <1>3, ResponseReads DEF AtResponse
<1>5. QED
  BY <1>1, <1>2, <1>4 DEF ResponseThere, Size

(* Its two names stand where they are read. *)
LEMMA ResponseNames ==
    ASSUME NEW carried, ResponseThere(carried), AtNames(carried)
    PROVE  NameThere(carried.name, pos)
<1>1. PICK e, size : e = encode_dns_name(carried.name) /\ size = Len(e)
  OBVIOUS
<1>2. /\ size \in Nat /\ message \in Seq(Nat) /\ Stands(e, message, 12)
      /\ Stands(e, message, 16 + size)
  BY <1>1 DEF ResponseThere, ReadsAsResponse, Size
<1>3. pos \in Nat /\ Stands(e, message, pos)
  BY <1>1, <1>2 DEF AtNames, AtQuestion, AtAnswer, Size
<1>4. QED
  BY <1>1, <1>2, <1>3 DEF NameThere, ResponseThere

(* The header of a response announces a question and an answer. *)
LEMMA HeaderOfResponse ==
    ASSUME NEW carried, ResponseThere(carried), AtResponse(carried), ReadHeader
    PROVE  AtResponse(carried)'
<1>1. /\ ~(Len(message) < 12) /\ U16(message, 4) = 1 /\ U16(message, 6) = 1
  BY DEF ResponseThere, ReadsAsResponse, Size
<1>2. /\ at = "response" /\ at' = "items"
      /\ pos' = 12 /\ questions' = 1 /\ answers' = 1
      /\ UNCHANGED <<message, hostname, url, resolved>>
  BY <1>1 DEF ReadHeader, foundVars
<1>3. resolved = <<>>
  BY <1>2 DEF AtResponse
<1>4. AtNames(carried)'
  BY <1>2, <1>3 DEF AtNames, AtQuestion
<1>5. QED
  BY <1>2, <1>4 DEF AtResponse

(* The loop goes on to the next name, or ends. *)
LEMMA ItemOfResponse ==
    ASSUME NEW carried, ResponseThere(carried), AtResponse(carried), NextItem
    PROVE  AtResponse(carried)'
<1>1. at = "items" /\ UNCHANGED <<message, pos, questions, answers, hostname, url, resolved>>
  BY DEF NextItem, foundVars
<1>2. CASE AtNames(carried)
  <2>1. questions + answers # 0
    BY <1>2 DEF AtNames, AtQuestion, AtAnswer
  <2>2. at' = "name" /\ StartName(pos)
    BY <2>1 DEF NextItem
  <2>3. PICK from, labels : from = pos /\ labels = carried.name
    OBVIOUS
  <2>4. from \in Nat /\ IsName(labels)
    BY <1>2, <2>3, ResponseNames DEF NameThere
  <2>5. NameWalk(labels, from)'
    BY <2>2, <2>3, <2>4, NameWalkStarts
  <2>6. AtNames(carried)'
    BY <1>1, <1>2, <2>3, <2>5 DEF AtNames, AtQuestion, AtAnswer
  <2>7. QED
    BY <1>1, <2>2, <2>6 DEF AtResponse
<1>3. CASE questions = 0 /\ answers = 0 /\ resolved = AnswerOf(carried)
  <2>1. at' = "found"
    BY <1>3 DEF NextItem
  <2>2. QED
    BY <1>1, <1>3, <2>1 DEF AtResponse
<1>4. QED
  BY <1>1, <1>2, <1>3 DEF AtResponse

(* A name is read. *)
LEMMA NameOfResponse ==
    ASSUME NEW carried, ResponseThere(carried), AtResponse(carried), at = "name",
           NameFails \/ NameEnds \/ Jump \/ Label
    PROVE  AtResponse(carried)'
<1>1. AtNames(carried) /\ hostname = None /\ url = None
  BY DEF AtResponse
<1>2. PICK from, labels, size : /\ from = pos /\ labels = carried.name
                                /\ size = Size(carried)
  OBVIOUS
<1>3. NameThere(labels, from) /\ NameWalk(labels, from) /\ resolved = <<>>
  BY <1>1, <1>2, ResponseNames DEF AtNames
<1>4. NameIsWalked(labels, from)
  BY <1>3, NameWalks DEF InName
<1>5. CASE Label
  <2>1. /\ NameWalk(labels, from)'
        /\ UNCHANGED <<at, message, pos, questions, answers, hostname, url, resolved>>
    BY <1>4, <1>5 DEF NameIsWalked, Label, foundVars
  <2>2. AtNames(carried)'
    BY <1>1, <1>2, <2>1 DEF AtNames, AtQuestion, AtAnswer
  <2>3. QED
    BY <2>1, <2>2 DEF AtResponse
<1>6. CASE NameEnds
  <2>1. ~jumped /\ name = Text(labels) /\ cursor + 1 = from + size
    BY <1>2, <1>4, <1>6 DEF NameIsWalked, Size
  <2>2. /\ at' = "item" /\ pos' = cursor + 1 /\ name' = name
        /\ UNCHANGED <<message, questions, answers, hostname, url, resolved>>
    BY <1>6, <2>1 DEF NameEnds
  <2>3. size \in Nat /\ pos' = from + size
    BY <1>2, <2>1, <2>2 DEF ResponseThere
  <2>4. \/ from = 12 /\ questions = 1 /\ answers = 1
        \/ from = 16 + size /\ questions = 0 /\ answers = 1
    BY <1>1, <1>2 DEF AtNames, AtQuestion, AtAnswer
  <2>5. \/ pos' = 12 + size /\ questions' = 1 /\ answers' = 1
        \/ pos' = 16 + 2 * size /\ questions' = 0 /\ answers' = 1
    BY <2>2, <2>3, <2>4
  <2>6. AtItem(carried)'
    BY <1>2, <1>3, <2>1, <2>2, <2>5 DEF AtItem, AtQuestion, AtAnswer
  <2>7. QED
    BY <2>2, <2>6 DEF AtResponse
<1>7. QED
  BY <1>4, <1>5, <1>6 DEF NameIsWalked

(* The fixed part of a question, and of the answer, is whole. *)
LEMMA FixedPartOfResponse ==
    ASSUME NEW carried, ResponseThere(carried), AtItem(carried)
    PROVE  /\ ItemIsWhole
           /\ questions = 0 => /\ RdLength = 4 /\ IsAddress
                               /\ Slice(message, pos + 10, pos + 10 + RdLength) = carried.ip
<1>1. PICK size : size = Size(carried)
  OBVIOUS
<1>2. /\ size \in Nat /\ Len(message) = 30 + 2 * size
      /\ U16(message, 16 + 2 * size) = 1
      /\ U16(message, 24 + 2 * size) = 4
      /\ Slice(message, 26 + 2 * size, 30 + 2 * size) = carried.ip
  BY <1>1 DEF ResponseThere, ReadsAsResponse, Size
<1>3. CASE questions = 1 /\ pos = 12 + size
  BY <1>2, <1>3 DEF ItemIsWhole, FixedPart
<1>4. CASE questions = 0 /\ pos = 16 + 2 * size
  <2>1. pos + 8 = 24 + 2 * size /\ pos + 10 = 26 + 2 * size /\ pos + 14 = 30 + 2 * size
    BY <1>2, <1>4
  <2>2. RdLength = 4 /\ U16(message, pos) = 1
    BY <1>2, <1>4, <2>1 DEF RdLength
  <2>3. pos + 10 + RdLength = 30 + 2 * size
    BY <1>2, <2>1, <2>2
  <2>4. Slice(message, pos + 10, pos + 10 + RdLength) = carried.ip
    BY <1>2, <2>1, <2>3
  <2>5. IsAddress
    BY <2>2 DEF IsAddress
  <2>6. ItemIsWhole
    BY <1>2, <1>4, <2>1, <2>3 DEF ItemIsWhole, FixedPart
  <2>7. QED
    BY <2>2, <2>4, <2>5, <2>6
<1>5. QED
  BY <1>1, <1>3, <1>4 DEF AtItem, AtQuestion, AtAnswer

(* The fixed part is read. *)
LEMMA RestOfResponse ==
    ASSUME NEW carried, ResponseThere(carried), AtResponse(carried), at = "item",
           ItemFails \/ ReadQuestion \/ ReadAnswer
    PROVE  AtResponse(carried)'
<1>1. AtItem(carried)
  BY DEF AtResponse
<1>2. /\ ItemIsWhole
      /\ questions = 0 => /\ RdLength = 4 /\ IsAddress
                          /\ Slice(message, pos + 10, pos + 10 + RdLength) = carried.ip
  BY <1>1, FixedPartOfResponse
<1>3. PICK size : size = Size(carried) /\ size \in Nat
  BY DEF ResponseThere
<1>4. /\ resolved = <<>> /\ name = Text(carried.name)
      /\ \/ pos = 12 + size /\ questions = 1 /\ answers = 1
         \/ pos = 16 + 2 * size /\ questions = 0 /\ answers = 1
  BY <1>1, <1>3 DEF AtItem, AtQuestion, AtAnswer
<1>5. CASE ReadQuestion
  <2>1. /\ questions > 0 /\ questions' = questions - 1 /\ pos' = pos + 4
        /\ at' = "items"
        /\ UNCHANGED <<message, answers, hostname, url, resolved>>
    BY <1>5 DEF ReadQuestion, foundVars
  <2>2. pos' = 16 + size /\ questions' = 0 /\ answers' = 1
    BY <1>3, <1>4, <2>1
  <2>3. AtNames(carried)'
    BY <1>3, <1>4, <2>1, <2>2 DEF AtNames, AtAnswer
  <2>4. QED
    BY <2>1, <2>3 DEF AtResponse
<1>6. CASE ReadAnswer
  <2>1. questions = 0 /\ answers = 1
    BY <1>4, <1>6 DEF ReadAnswer
  <2>2. /\ resolved' = Append(resolved, [name |-> name, ip |-> carried.ip])
        /\ answers' = answers - 1 /\ questions' = questions /\ at' = "items"
        /\ UNCHANGED <<message, hostname, url>>
    BY <1>2, <1>6, <2>1 DEF ReadAnswer
  <2>3. resolved' = AnswerOf(carried)
    BY <1>4, <2>2 DEF AnswerOf
  <2>4. questions' = 0 /\ answers' = 0
    BY <2>1, <2>2
  <2>5. QED
    BY <2>2, <2>3, <2>4 DEF AtResponse
<1>7. QED
  BY <1>2, <1>5, <1>6 DEF ItemFails

(* parse_dns_response reads what was sent. *)
LEMMA ResponseStep ==
    ASSUME NEW carried, carried.id \in Word, IsName(carried.name), carried.ip \in IPv4,
           AtResponse(carried), NEW payload, ParserNext(payload)
    PROVE  AtResponse(carried)'
<1>1. ResponseThere(carried)
  BY ResponseIsThere
<1>2. /\ ~ReadQuery /\ ~ReadHello /\ ~SkipExtension /\ ~EnterList /\ ~TakeName
      /\ ~SkipName /\ ~LeaveList /\ ~TryHttp(payload)
  BY DEF AtResponse, ReadQuery, ReadHello, SkipExtension, EnterList, TakeName, SkipName,
         LeaveList, TryHttp
<1>3. CASE ReadHeader
  BY <1>1, <1>3, HeaderOfResponse
<1>4. CASE NextItem
  BY <1>1, <1>4, ItemOfResponse
<1>5. CASE NameFails \/ NameEnds \/ Jump \/ Label
  <2>1. at = "name"
    BY <1>5 DEF AtResponse, NameFails, NameEnds, Jump, Label, TakesTurn, InName
  <2>2. QED
    BY <1>1, <1>5, <2>1, NameOfResponse
<1>6. CASE ItemFails \/ ReadQuestion \/ ReadAnswer
  <2>1. at = "item"
    BY <1>6 DEF ItemFails, ReadQuestion, ReadAnswer
  <2>2. QED
    BY <1>1, <1>6, <2>1, RestOfResponse
<1>7. QED
  BY <1>2, <1>3, <1>4, <1>5, <1>6 DEF ParserNext

-----------------------------------------------------------------------------
(*****************************************************************************)
(* The headers of packets as they were sent                                  *)
(*****************************************************************************)

\* How a datagram starts: what parse_ip_header reads of it.
ReadsAsIp(whole, n, total, protocol, src, dst) ==
    /\ At(whole, 0) = 69 + n
    /\ U16(whole, 2) = total
    /\ At(whole, 9) = protocol
    /\ Slice(whole, 12, 16) = src
    /\ Slice(whole, 16, 20) = dst

\* Two bytes.
Pair(a, b) == <<a, b>>

(* They are read one by one. *)
LEMMA PairRead ==
    ASSUME NEW a \in Nat, NEW b \in Nat
    PROVE  /\ Pair(a, b) \in Seq(Nat) /\ Len(Pair(a, b)) = 2
           /\ At(Pair(a, b), 0) = a /\ At(Pair(a, b), 1) = b
<1>1. <<a, b>>[0 + 1] = a /\ <<a, b>>[1 + 1] = b
  OBVIOUS
<1>2. QED
  BY <1>1 DEF Pair, At

(* Where a pair stands both bytes are read. *)
LEMMA PairThere ==
    ASSUME NEW a \in Nat, NEW b \in Nat, NEW pair, pair = Pair(a, b),
           NEW whole \in Seq(Nat), NEW from \in Nat, Stands(pair, whole, from)
    PROVE  At(whole, from) = a /\ At(whole, from + 1) = b
<1>1. pair \in Seq(Nat) /\ Len(pair) = 2 /\ At(pair, 0) = a /\ At(pair, 1) = b
  BY PairRead
<1>2. 0 \in 0 .. Len(pair) - 1 /\ 1 \in 0 .. Len(pair) - 1 /\ from + 0 = from
  BY <1>1
<1>3. \A i \in 0 .. Len(pair) - 1 : At(whole, from + i) = At(pair, i)
  BY <1>1, ReadWhereItStands
<1>4. QED
  BY <1>1, <1>2, <1>3

\* Options fill words of four bytes, up to ten of them.
OptionWords(options, n) ==
    options \in Seq(Nat) /\ n \in 0 .. 10 /\ Len(options) = 4 * n

\* An address.
IsAddress4(address) == address \in Seq(Nat) /\ Len(address) = 4

\* Such a header.
IpHead(head, n, length, total, protocol, src, dst) ==
    /\ head \in Seq(Nat) /\ Len(head) = length
    /\ \A whole \in Seq(Nat) :
          Stands(head, whole, 0) => ReadsAsIp(whole, n, total, protocol, src, dst)

(* The header of a datagram reads so. *)
LEMMA IpHeaderReads ==
    ASSUME NEW options, NEW n, OptionWords(options, n),
           NEW src, IsAddress4(src), NEW dst, IsAddress4(dst),
           NEW protocol \in Nat, NEW payload_len \in Nat,
           NEW length, length = 20 + Len(options), NEW total, total = length + payload_len,
           NEW head, head = ipv4_header_with(options, src, dst, protocol, payload_len)
    PROVE  IpHead(head, n, length, total, protocol, src, dst)
<1>0. /\ options \in Seq(Nat) /\ n \in Nat /\ n = Len(options) \div 4
      /\ src \in Seq(Nat) /\ Len(src) = 4 /\ dst \in Seq(Nat) /\ Len(dst) = 4
      /\ total \in Nat /\ total = 20 + Len(options) + payload_len
  BY DEF OptionWords, IsAddress4
<1>1. PICK first, zero, fragment, ttl, size, most :
         /\ first = Pair(69 + n, 0) /\ size = Be16(total) /\ zero = Be16(0)
         /\ fragment = Be16(16384) /\ ttl = Pair(64, protocol)
  OBVIOUS
<1>2. PICK w1, w2 : /\ w1 = first \o size \o zero \o fragment
                    /\ w2 = w1 \o ttl \o zero \o src \o dst
  OBVIOUS
<1>3. head = w2 \o options
  BY <1>0, <1>1, <1>2 DEF ipv4_header_with, Pair
<1>4. /\ total \in Nat
      /\ first \in Seq(Nat) /\ Len(first) = 2 /\ size \in Seq(Nat) /\ Len(size) = 2
      /\ zero \in Seq(Nat) /\ Len(zero) = 2 /\ fragment \in Seq(Nat) /\ Len(fragment) = 2
      /\ ttl \in Seq(Nat) /\ Len(ttl) = 2
  <2>1. total \in Nat /\ 69 + n \in Nat /\ 0 \in Nat /\ 16384 \in Nat /\ 64 \in Nat
    BY <1>0, <1>1
  <2>2. first \in Seq(Nat) /\ Len(first) = 2
    BY <1>0, <1>1, <2>1, PairRead
  <2>3. ttl \in Seq(Nat) /\ Len(ttl) = 2
    BY <1>0, <1>1, <2>1, PairRead
  <2>4. size \in Seq(Nat) /\ Len(size) = 2
    BY <1>0, <1>1, <2>1, WordReadBack
  <2>5. zero \in Seq(Nat) /\ Len(zero) = 2
    BY <1>0, <1>1, <2>1, WordReadBack
  <2>6. fragment \in Seq(Nat) /\ Len(fragment) = 2
    BY <1>0, <1>1, <2>1, WordReadBack
  <2>7. QED
    BY <2>1, <2>2, <2>3, <2>4, <2>5, <2>6
<1>5. Three(first, size, zero, fragment, w1)
  BY <1>2, <1>4, ThreeMore, Zenon
<1>6. /\ w1 \in Seq(Nat) /\ Len(w1) = 8 /\ Stands(first, w1, 0) /\ Stands(size, w1, 2)
  BY <1>4, <1>5 DEF Three
<1>7. Four(w1, ttl, zero, src, dst, w2)
  BY <1>0, <1>2, <1>4, <1>6, FourMore, Zenon
<1>8. /\ w2 \in Seq(Nat) /\ Len(w2) = 20 /\ Stands(w1, w2, 0)
      /\ Stands(ttl, w2, 8) /\ Stands(src, w2, 12) /\ Stands(dst, w2, 16)
  BY <1>0, <1>4, <1>6, <1>7 DEF Four
<1>9. /\ head \in Seq(Nat) /\ Len(head) = Len(w2) + Len(options) /\ Stands(w2, head, 0)
  <2>1. options \in Seq(Nat)
    BY <1>0
  <2>2. QED
    BY <1>3, <1>8, <2>1, StandsTogether, Zenon
<1>10. SUFFICES ASSUME NEW whole \in Seq(Nat), Stands(head, whole, 0)
                PROVE  ReadsAsIp(whole, n, total, protocol, src, dst)
  <2>1. Len(head) = length
    BY <1>0, <1>8, <1>9
  <2>2. QED
    BY <1>9, <2>1 DEF IpHead
<1>11. PICK none, two, eight, twelve, sixteen :
          none = 0 /\ two = 2 /\ eight = 8 /\ twelve = 12 /\ sixteen = 16
  OBVIOUS
<1>12. none \in Nat /\ two \in Nat /\ eight \in Nat /\ twelve \in Nat /\ sixteen \in Nat
  BY <1>0, <1>11
<1>13. /\ Stands(w2, head, none) /\ Stands(head, whole, none) /\ Stands(w1, w2, none)
       /\ Stands(first, w1, none) /\ Stands(size, w1, two) /\ Stands(ttl, w2, eight)
       /\ Stands(src, w2, twelve) /\ Stands(dst, w2, sixteen)
  BY <1>6, <1>8, <1>9, <1>10, <1>11
<1>14. Stands(w2, whole, none)
  BY <1>8, <1>9, <1>10, <1>11, <1>12, <1>13, StandsInStart
<1>15. Stands(w1, whole, none)
  BY <1>6, <1>8, <1>11, <1>12, <1>13, <1>14, StandsInStart
<1>16. /\ Stands(first, whole, none) /\ Stands(size, whole, two)
       /\ Stands(ttl, whole, eight)
       /\ Stands(src, whole, twelve) /\ Stands(dst, whole, sixteen)
  <2>1. ASSUME NEW part \in Seq(Nat), NEW from \in Nat, Stands(part, w1, from)
        PROVE  Stands(part, whole, from)
    BY <1>6, <1>11, <1>15, <2>1, StandsInStart
  <2>2. ASSUME NEW part \in Seq(Nat), NEW from \in Nat, Stands(part, w2, from)
        PROVE  Stands(part, whole, from)
    BY <1>8, <1>11, <1>14, <2>2, StandsInStart
  <2>3. QED
    BY <1>0, <1>4, <1>12, <1>13, <2>1, <2>2, Zenon
<1>17. At(whole, none) = 69 + n
  <2>1. 69 + n \in Nat /\ 0 \in Nat /\ none \in Nat /\ whole \in Seq(Nat)
    BY <1>0, <1>12
  <2>2. first = Pair(69 + n, 0) /\ Stands(first, whole, none)
    BY <1>1, <1>16
  <2>3. QED
    BY <2>1, <2>2, PairThere
<1>18. At(whole, eight + 1) = protocol
  <2>1. 64 \in Nat /\ protocol \in Nat /\ eight \in Nat /\ whole \in Seq(Nat)
    BY <1>12
  <2>2. ttl = Pair(64, protocol) /\ Stands(ttl, whole, eight)
    BY <1>1, <1>16
  <2>3. QED
    BY <2>1, <2>2, PairThere
<1>19. U16(whole, two) = total
  <2>1. size = Be16(total) /\ total \in Nat
    BY <1>0, <1>1, <1>4
  <2>2. Stands(size, whole, two) /\ two \in Nat
    BY <1>12, <1>16, Zenon
  <2>3. QED
    BY <2>1, <2>2, WordThere, ZenonT(30)
<1>20. Slice(whole, twelve, sixteen) = src
  <2>1. sixteen = twelve + Len(src)
    BY <1>0, <1>11
  <2>2. QED
    BY <1>0, <1>12, <1>16, <2>1, PartCutOut, Zenon
<1>21. Slice(whole, sixteen, 20) = dst
  <2>1. PICK end : end = 20
    OBVIOUS
  <2>2. end = sixteen + Len(dst)
    BY <1>0, <1>11, <2>1
  <2>3. Slice(whole, sixteen, end) = dst
    BY <1>0, <1>12, <1>16, <2>2, PartCutOut, Zenon
  <2>4. QED
    BY <2>1, <2>3
<1>22. ReadsAsIp(whole, n, total, protocol, src, dst)
  BY <1>0, <1>11, <1>17, <1>18, <1>19, <1>20, <1>21 DEF ReadsAsIp
<1>23. QED
  BY <1>22

\* What parse_l4 reads of a transport segment.
ReadsAsL4(protocol, whole, src_port, dst_port, payload) ==
    /\ L4Accepted(protocol, whole)
    /\ L4Info(protocol, whole) =
          [src_port |-> src_port, dst_port |-> dst_port, protocol |-> protocol,
           payload |-> payload]

\* The ports stand at the start of a header.
PortsIn(head, src_port, dst_port) ==
    /\ head \in Seq(Nat)
    /\ Stands(Be16(src_port), head, 0)
    /\ Stands(Be16(dst_port), head, 2)

\* So they do in a segment, with its payload behind the header.
BehindPorts(whole, head, src_port, dst_port, payload) ==
    /\ whole \in Seq(Nat) /\ Len(whole) = Len(head) + Len(payload)
    /\ Stands(head, whole, 0)
    /\ U16(whole, 0) = src_port /\ U16(whole, 2) = dst_port
    /\ Slice(whole, Len(head), Len(whole)) = payload

(* The header and the payload of a segment. *)
LEMMA PortsRead ==
    ASSUME NEW src_port \in Nat, NEW dst_port \in Nat,
           NEW head, PortsIn(head, src_port, dst_port),
           NEW payload \in Seq(Nat), NEW whole, whole = head \o payload
    PROVE  BehindPorts(whole, head, src_port, dst_port, payload)
<1>1. PICK none, two, first, second : /\ none = 0 /\ two = 2 
                                      /\ first = Be16(src_port) /\ second = Be16(dst_port)
  OBVIOUS
<1>2. /\ none \in Nat /\ two \in Nat /\ head \in Seq(Nat)
      /\ Stands(first, head, none) /\ Stands(second, head, two)
  BY <1>1 DEF PortsIn
<1>3. /\ whole \in Seq(Nat) /\ Len(whole) = Len(head) + Len(payload)
      /\ Stands(head, whole, none) /\ Stands(payload, whole, Len(head))
  BY <1>1, <1>2, StandsTogether
<1>4. first \in Seq(Nat) /\ second \in Seq(Nat) /\ Len(head) \in Nat
  BY <1>1, <1>2, WordReadBack
<1>5. Stands(first, whole, none) /\ Stands(second, whole, two)
  BY <1>1, <1>2, <1>3, <1>4, StandsInStart
<1>6. first = Be16(src_port) /\ second = Be16(dst_port)
  BY <1>1
<1>7. U16(whole, none) = src_port
  BY <1>2, <1>3, <1>5, <1>6, WordThere, ZenonT(30)
<1>8. U16(whole, two) = dst_port
  BY <1>2, <1>3, <1>5, <1>6, WordThere, ZenonT(30)
<1>9. Slice(whole, Len(head), Len(whole)) = payload
  <2>1. PICK from, to : from = Len(head) /\ to = Len(whole)
    OBVIOUS
  <2>2. from \in Nat /\ to = from + Len(payload) /\ Stands(payload, whole, from)
    BY <1>3, <1>4, <2>1
  <2>3. Slice(whole, from, to) = payload
    BY <1>3, <2>2, PartCutOut, SMTT(30), ZenonT(30)
  <2>4. QED
    BY <2>1, <2>3
<1>10. QED
  BY <1>1, <1>3, <1>7, <1>8, <1>9 DEF BehindPorts

(* A datagram of UDP. *)
LEMMA UdpReads ==
    ASSUME NEW src_port \in Nat, NEW dst_port \in Nat, NEW payload \in Seq(Nat),
           NEW head, head = udp_header(src_port, dst_port, Len(payload)),
           NEW whole, whole = head \o payload
    PROVE  whole \in Seq(Nat) /\ ReadsAsL4(UDP, whole, src_port, dst_port, payload)
<1>1. PICK first, second, size, zero, sum :
         /\ first = Be16(src_port) /\ second = Be16(dst_port)
         /\ size = Be16(sum) /\ sum = 8 + Len(payload) /\ zero = Be16(0)
  OBVIOUS
<1>2. /\ first \in Seq(Nat) /\ Len(first) = 2 /\ second \in Seq(Nat) /\ Len(second) = 2
      /\ size \in Seq(Nat) /\ Len(size) = 2 /\ zero \in Seq(Nat) /\ Len(zero) = 2
  <2>1. sum \in Nat /\ 0 \in Nat
    BY <1>1
  <2>2. QED
    BY <1>1, <2>1, WordReadBack, Zenon
<1>3. head = first \o second \o size \o zero
  BY <1>1 DEF udp_header
<1>4. Three(first, second, size, zero, head)
  BY <1>2, <1>3, ThreeMore, Zenon
<1>5. head \in Seq(Nat) /\ Len(head) = 8 /\ Stands(first, head, 0) /\ Stands(second, head, 2)
  BY <1>2, <1>4 DEF Three
<1>6. PortsIn(head, src_port, dst_port)
  BY <1>1, <1>5 DEF PortsIn
<1>7. /\ whole \in Seq(Nat) /\ Len(whole) = 8 + Len(payload)
      /\ U16(whole, 0) = src_port /\ U16(whole, 2) = dst_port
      /\ Slice(whole, 8, Len(whole)) = payload
  <2>1. BehindPorts(whole, head, src_port, dst_port, payload)
    BY <1>6, PortsRead, Zenon
  <2>2. QED
    BY <1>5, <2>1 DEF BehindPorts
<1>8. L4Length(UDP, whole) = 8 /\ Len(whole) >= 8
  BY <1>7 DEF L4Length, TCP, UDP
<1>9. L4Accepted(UDP, whole)
  BY <1>8 DEF L4Accepted, TCP, UDP
<1>10. L4Info(UDP, whole) = [src_port |-> src_port, dst_port |-> dst_port,
                             protocol |-> UDP, payload |-> payload]
  BY <1>7, <1>8 DEF L4Info, TCP, UDP, ICMP6
<1>11. QED
  BY <1>7, <1>9, <1>10 DEF ReadsAsL4

(* A segment of TCP. *)
LEMMA TcpReads ==
    ASSUME NEW src_port \in Nat, NEW dst_port \in Nat, NEW seq \in Nat,
           NEW payload \in Seq(Nat),
           NEW head, head = tcp_header(src_port, dst_port, seq),
           NEW whole, whole = head \o payload
    PROVE  whole \in Seq(Nat) /\ ReadsAsL4(TCP, whole, src_port, dst_port, payload)
<1>1. PICK first, second, number, ack, flags, window, zero :
         /\ first = Be16(src_port) /\ second = Be16(dst_port)
         /\ number = Be32(seq) /\ ack = Be32(0) /\ flags = Pair(80, 24)
         /\ window = Be16(8192) /\ zero = Be16(0)
  OBVIOUS
<1>2. PICK w1 : w1 = first \o second \o number \o ack
  OBVIOUS
<1>3. head = w1 \o flags \o window \o zero \o zero
  BY <1>1, <1>2 DEF tcp_header, Pair
<1>4. /\ first \in Seq(Nat) /\ Len(first) = 2 /\ second \in Seq(Nat) /\ Len(second) = 2
      /\ number \in Seq(Nat) /\ Len(number) = 4 /\ ack \in Seq(Nat) /\ Len(ack) = 4
      /\ flags \in Seq(Nat) /\ Len(flags) = 2 /\ window \in Seq(Nat) /\ Len(window) = 2
      /\ zero \in Seq(Nat) /\ Len(zero) = 2
  <2>1. first \in Seq(Nat) /\ Len(first) = 2 /\ second \in Seq(Nat) /\ Len(second) = 2
    BY <1>1, WordReadBack
  <2>2. number \in Seq(Nat) /\ Len(number) = 4 /\ ack \in Seq(Nat) /\ Len(ack) = 4
    BY <1>1, DoubleWord
  <2>3. window \in Seq(Nat) /\ Len(window) = 2
    BY <1>1, WordReadBack
  <2>4. zero \in Seq(Nat) /\ Len(zero) = 2
    BY <1>1, WordReadBack
  <2>5. flags \in Seq(Nat) /\ Len(flags) = 2
    BY <1>1, PairRead
  <2>6. QED
    BY <2>1, <2>2, <2>3, <2>4, <2>5
<1>5. Three(first, second, number, ack, w1)
  BY <1>2, <1>4, ThreeMore, Zenon
<1>6. PICK two, none : two = 2 /\ none = 0
  OBVIOUS
<1>7. /\ w1 \in Seq(Nat) /\ Len(w1) = 12
      /\ Stands(first, w1, none) /\ Stands(second, w1, two)
  BY <1>4, <1>5, <1>6 DEF Three
<1>8. Four(w1, flags, window, zero, zero, head)
  <2>1. /\ w1 \in Seq(Nat) /\ flags \in Seq(Nat) /\ window \in Seq(Nat)
        /\ zero \in Seq(Nat)
    BY <1>4, <1>7
  <2>2. QED
    BY <1>3, <2>1, FourMore, Zenon
<1>9. /\ head \in Seq(Nat) /\ Len(head) = 20
      /\ Stands(w1, head, 0) /\ Stands(flags, head, 12)
  BY <1>4, <1>7, <1>8 DEF Four
<1>10. Stands(first, head, none) /\ Stands(second, head, two)
  BY <1>4, <1>6, <1>7, <1>9, StandsInStart
<1>11. /\ whole \in Seq(Nat) /\ Len(whole) = 20 + Len(payload)
       /\ Stands(head, whole, 0)
       /\ U16(whole, 0) = src_port /\ U16(whole, 2) = dst_port
       /\ Slice(whole, 20, Len(whole)) = payload
  <2>1. PortsIn(head, src_port, dst_port)
    BY <1>1, <1>6, <1>9, <1>10 DEF PortsIn
  <2>2. BehindPorts(whole, head, src_port, dst_port, payload)
    BY <2>1, PortsRead, Zenon
  <2>3. QED
    BY <1>9, <2>2 DEF BehindPorts
<1>12. At(whole, 12) = 80
  <2>1. PICK twelve, a, b : twelve = 12 /\ a = 80 /\ b = 24
    OBVIOUS
  <2>2. /\ twelve \in Nat /\ Stands(flags, head, twelve) /\ flags \in Seq(Nat)
        /\ a \in Nat /\ b \in Nat /\ flags = Pair(a, b)
    BY <1>1, <1>4, <1>9, <2>1
  <2>3. head \in Seq(Nat) /\ whole \in Seq(Nat) /\ Stands(head, whole, 0)
    BY <1>9, <1>11
  <2>4. Stands(flags, whole, twelve)
    BY <2>2, <2>3, StandsInStart, Zenon
  <2>5. At(whole, twelve) = a
    <3>1. At(flags, 0) = a /\ Len(flags) >= 1
      BY <1>4, <2>2, PairRead
    <3>2. At(whole, twelve) = At(flags, 0)
      BY <2>2, <2>3, <2>4, <3>1, ReadFirstByte, Zenon
    <3>3. QED
      BY <3>1, <3>2, Zenon
  <2>6. QED
    BY <2>1, <2>5
<1>13. L4Length(TCP, whole) = 20 /\ Len(whole) >= 20
  BY <1>11, <1>12 DEF L4Length, TCP, UDP
<1>14. L4Accepted(TCP, whole)
  BY <1>13 DEF L4Accepted, TCP, UDP
<1>15. L4Info(TCP, whole) = [src_port |-> src_port, dst_port |-> dst_port,
                             protocol |-> TCP, payload |-> payload]
  BY <1>11, <1>13 DEF L4Info, TCP, UDP, ICMP6
<1>16. QED
  BY <1>11, <1>14, <1>15 DEF ReadsAsL4

\* The whole is two parts.
Two(a, b, whole) ==
    /\ whole \in Seq(Nat) /\ Len(whole) = Len(a) + Len(b)
    /\ Stands(a, whole, 0) /\ Stands(b, whole, Len(a))

(* Two parts, one behind the other. *)
LEMMA TwoTogether ==
    ASSUME NEW a \in Seq(Nat), NEW b \in Seq(Nat), NEW whole, whole = a \o b
    PROVE  Two(a, b, whole)
BY StandsTogether, Zenon DEF Two

\* The whole is two parts, and this behind the first part.
EndsWith(whole, head, inner) ==
    /\ head \in Seq(Nat) /\ inner \in Seq(Nat) /\ whole \in Seq(Nat)
    /\ Len(whole) = Len(head) + Len(inner)
    /\ Stands(head, whole, 0)
    /\ Slice(whole, Len(head), Len(whole)) = inner

(* What stands behind the first part. *)
LEMMA PartBehind ==
    ASSUME NEW head \in Seq(Nat), NEW inner \in Seq(Nat)
    PROVE  EndsWith(head \o inner, head, inner)
<1>1. PICK whole, from, to : whole = head \o inner /\ from = Len(head) /\ to = Len(whole)
  OBVIOUS
<1>2. /\ whole \in Seq(Nat) /\ Len(whole) = Len(head) + Len(inner)
      /\ Stands(head, whole, 0) /\ Stands(inner, whole, from)
  BY <1>1, StandsTogether
<1>3. from \in Nat /\ to = from + Len(inner)
  BY <1>1, <1>2
<1>4. Slice(whole, from, to) = inner
  BY <1>2, <1>3, PartCutOut
<1>5. EndsWith(whole, head, inner)
  BY <1>1, <1>2, <1>4 DEF EndsWith
<1>6. QED
  BY <1>1, <1>5, Zenon

(* A word of the part in front is read in the whole. *)
LEMMA WordInHead ==
    ASSUME NEW whole, NEW head, NEW inner, EndsWith(whole, head, inner),
           NEW n \in Nat, NEW from \in Nat, Stands(Be16(n), head, from)
    PROVE  U16(whole, from) = n
<1>1. PICK word : word = Be16(n)
  OBVIOUS
<1>2. word \in Seq(Nat) /\ Stands(word, head, from)
  BY <1>1, WordReadBack
<1>3. head \in Seq(Nat) /\ whole \in Seq(Nat) /\ Stands(head, whole, 0)
  BY DEF EndsWith
<1>4. Stands(word, whole, from)
  BY <1>2, <1>3, StandsInStart, Zenon
<1>5. QED
  BY <1>1, <1>3, <1>4, WordThere, Zenon

\* Two addresses.
IsMac(mac) == mac \in Seq(Nat) /\ Len(mac) = 12

(* An Ethernet frame without a tag. *)
LEMMA PlainFrame ==
    ASSUME NEW mac, IsMac(mac), NEW inner \in Seq(Nat),
           NEW data, data = (mac \o Be16(IPV4)) \o inner
    PROVE  Datagram(data, LINKTYPE_ETHERNET) = inner
<1>1. PICK type, head, twelve, four : /\ type = Be16(four) /\ head = mac \o type
                                      /\ twelve = 12 /\ four = IPV4
  OBVIOUS
<1>2. /\ four \in Nat /\ twelve \in Nat /\ mac \in Seq(Nat) /\ twelve = Len(mac)
      /\ type \in Seq(Nat) /\ Len(type) = 2
  BY <1>1, WordReadBack DEF IPV4, IsMac
<1>3. head \in Seq(Nat) /\ Len(head) = 14 /\ Stands(type, head, twelve)
  <2>1. Two(mac, type, head)
    BY <1>1, <1>2, TwoTogether
  <2>2. head \in Seq(Nat) /\ Len(head) = twelve + 2 /\ Stands(type, head, twelve)
    BY <1>2, <2>1, Zenon DEF Two
  <2>3. QED
    BY <1>1, <2>2
<1>4. EndsWith(data, head, inner)
  BY <1>1, <1>3, PartBehind
<1>5. U16(data, twelve) = four
  BY <1>1, <1>2, <1>3, <1>4, WordInHead
<1>6. IpOffset(data) = 14 /\ Len(data) >= 14 /\ U16(data, 14 - 2) = IPV4
  BY <1>1, <1>3, <1>4, <1>5 DEF IpOffset, IPV4, VLAN, EndsWith
<1>7. FrameHoldsIp(data)
  BY <1>6 DEF FrameHoldsIp
<1>8. Slice(data, 14, Len(data)) = inner
  BY <1>3, <1>4 DEF EndsWith
<1>9. QED
  BY <1>6, <1>7, <1>8 DEF Datagram, LINKTYPE_RAW, LINKTYPE_ETHERNET

\* With a VLAN tag.
TaggedHead(mac, vlan) == mac \o (Be16(VLAN) \o Be16(vlan)) \o Be16(IPV4)

(* An Ethernet frame with a VLAN tag. *)
LEMMA TaggedFrame ==
    ASSUME NEW mac, IsMac(mac), NEW vlan \in Nat, NEW inner \in Seq(Nat)
    PROVE  Datagram(TaggedHead(mac, vlan) \o inner, LINKTYPE_ETHERNET) = inner
<1>0. PICK head, data : head = TaggedHead(mac, vlan) /\ data = head \o inner
  OBVIOUS
<1>1. PICK mark, id, type, four, eight, twelve, sixteen :
         /\ mark = Be16(eight) /\ id = Be16(vlan) /\ type = Be16(four)
         /\ twelve = 12 /\ sixteen = 16 /\ four = IPV4 /\ eight = VLAN
  OBVIOUS
<1>2. PICK tag, start : tag = mark \o id /\ start = mac \o tag /\ head = start \o type
  BY <1>0, <1>1, Zenon DEF TaggedHead
<1>3. /\ four \in Nat /\ eight \in Nat /\ twelve \in Nat /\ sixteen \in Nat
      /\ mac \in Seq(Nat) /\ Len(mac) = 12
      /\ mark \in Seq(Nat) /\ Len(mark) = 2 /\ id \in Seq(Nat) /\ Len(id) = 2
      /\ type \in Seq(Nat) /\ Len(type) = 2
  BY <1>1, WordReadBack DEF IPV4, VLAN, IsMac
<1>4. tag \in Seq(Nat) /\ Len(tag) = 4 /\ Stands(mark, tag, 0)
  <2>1. Two(mark, id, tag)
    BY <1>2, <1>3, TwoTogether
  <2>2. QED
    BY <1>3, <2>1 DEF Two
<1>5. start \in Seq(Nat) /\ Len(start) = 16 /\ Stands(tag, start, Len(mac))
  <2>1. Two(mac, tag, start)
    BY <1>2, <1>3, <1>4, TwoTogether
  <2>2. QED
    BY <1>3, <1>4, <2>1 DEF Two
<1>6. /\ head \in Seq(Nat) /\ Len(head) = 18 /\ Stands(start, head, 0)
      /\ Stands(type, head, sixteen)
  <2>1. Two(start, type, head)
    BY <1>2, <1>3, <1>5, TwoTogether
  <2>2. QED
    BY <1>1, <1>3, <1>5, <2>1 DEF Two
<1>7. Stands(mark, head, twelve)
  <2>1. PICK none : none = 0 /\ none \in Nat
    OBVIOUS
  <2>2. Stands(mark, start, twelve + none)
    BY <1>1, <1>3, <1>4, <1>5, <2>1, StandsWithin
  <2>3. Stands(mark, start, twelve)
    BY <1>3, <2>1, <2>2
  <2>4. QED
    BY <1>3, <1>5, <1>6, <2>3, StandsInStart
<1>8. EndsWith(data, head, inner)
  BY <1>0, <1>6, PartBehind
<1>9. U16(data, twelve) = eight
  BY <1>1, <1>3, <1>7, <1>8, WordInHead
<1>10. U16(data, sixteen) = four
  BY <1>1, <1>3, <1>6, <1>8, WordInHead
<1>11. IpOffset(data) = 18 /\ Len(data) >= 18 /\ U16(data, 18 - 2) = IPV4
  BY <1>1, <1>6, <1>8, <1>9, <1>10 DEF IpOffset, EndsWith
<1>12. FrameHoldsIp(data)
  BY <1>11 DEF FrameHoldsIp
<1>13. Slice(data, 18, Len(data)) = inner
  BY <1>6, <1>8 DEF EndsWith
<1>14. QED
  BY <1>0, <1>11, <1>12, <1>13 DEF Datagram, LINKTYPE_RAW, LINKTYPE_ETHERNET

(* The datagram is found in the frame, or is all that there is. *)
LEMMA DatagramFound ==
    ASSUME NEW sent, IsMac(sent.mac),
           sent.vlan \in {None} \cup Word,
           NEW link \in {LINKTYPE_ETHERNET, LINKTYPE_RAW},
           NEW inner \in Seq(Nat), NEW data, data = FrameHeader(sent, link) \o inner
    PROVE  Datagram(data, link) = inner
<1>1. CASE link = LINKTYPE_RAW
  <2>1. data = inner
    BY <1>1, NothingBefore DEF FrameHeader
  <2>2. QED
    BY <1>1, <2>1 DEF Datagram
<1>2. CASE link # LINKTYPE_RAW /\ sent.vlan = None
  <2>1. PICK mac : mac = sent.mac /\ IsMac(mac)
    OBVIOUS
  <2>2. FrameHeader(sent, link) = mac \o <<>> \o Be16(IPV4)
    BY <1>2, <2>1 DEF FrameHeader, Tag
  <2>3. mac \o <<>> = mac
    BY <2>1, ConcatEmptySeq DEF IsMac
  <2>4. data = (mac \o Be16(IPV4)) \o inner
    BY <2>2, <2>3, Zenon
  <2>5. link = LINKTYPE_ETHERNET
    BY <1>2
  <2>6. Datagram(data, LINKTYPE_ETHERNET) = inner
    BY <2>1, <2>4, PlainFrame
  <2>7. QED
    BY <2>5, <2>6, Zenon
<1>3. CASE link # LINKTYPE_RAW /\ sent.vlan # None
  <2>1. PICK mac, vlan, head : /\ mac = sent.mac /\ IsMac(mac) /\ vlan = sent.vlan
                             /\ head = FrameHeader(sent, link)
    OBVIOUS
  <2>2. vlan \in Nat
    BY <1>3, <2>1, WordIsNatural
  <2>3. data = head \o inner /\ head = TaggedHead(mac, vlan)
    BY <1>3, <2>1, Zenon DEF FrameHeader, Tag, TaggedHead
  <2>4. link = LINKTYPE_ETHERNET
    BY <1>3
  <2>5. Datagram(data, LINKTYPE_ETHERNET) = inner
    <3>1. IsMac(mac)
      BY <2>1
    <3>2. QED
      BY <2>2, <2>3, <3>1, TaggedFrame, Zenon
  <2>6. QED
    BY <2>4, <2>5, Zenon
<1>4. QED
  BY <1>1, <1>2, <1>3

\* What parse_ip_header reads of a datagram.
ReadsAsPacket(ip, src, dst, protocol, data) ==
    /\ IpAccepted(ip)
    /\ IpPacket(ip) = [src |-> src, dst |-> dst, protocol |-> protocol, data |-> data]

(* A datagram, with what may stand behind it. *)
LEMMA DatagramReads ==
    ASSUME NEW options, NEW n, OptionWords(options, n),
           NEW src, IsAddress4(src), NEW dst, IsAddress4(dst),
           NEW protocol \in Nat, NEW transport \in Seq(Nat), NEW padding \in Seq(Nat),
           NEW head, head = ipv4_header_with(options, src, dst, protocol, Len(transport)),
           NEW ip, ip = (head \o transport) \o padding
    PROVE  ip \in Seq(Nat) /\ ReadsAsPacket(ip, src, dst, protocol, transport)
<1>1. /\ options \in Seq(Nat) /\ n \in 0 .. 10 /\ Len(options) = 4 * n
      /\ Len(options) \in Nat /\ n = Len(options) \div 4 /\ n \in Nat
      /\ src \in Seq(Nat) /\ Len(src) = 4 /\ dst \in Seq(Nat) /\ Len(dst) = 4
  BY DEF OptionWords, IsAddress4
<1>2. PICK size, length, total : /\ size = Len(transport) /\ length = 20 + Len(options)
                                 /\ total = length + size
  OBVIOUS
<1>3. size \in Nat /\ length \in Nat /\ total \in Nat /\ length = 20 + 4 * n /\ length >= 20
  BY <1>1, <1>2
<1>4. /\ head \in Seq(Nat) /\ Len(head) = length
      /\ \A whole \in Seq(Nat) :
            Stands(head, whole, 0) => ReadsAsIp(whole, n, total, protocol, src, dst)
  <2>1. IpHead(head, n, length, total, protocol, src, dst)
    <3>1. head = ipv4_header_with(options, src, dst, protocol, size)
      BY <1>2
    <3>2. length = 20 + Len(options) /\ total = length + size
      BY <1>2
    <3>3. QED
      BY <1>3, <3>1, <3>2, IpHeaderReads
  <2>2. QED
    BY <2>1 DEF IpHead
<1>5. PICK datagram : datagram = head \o transport
  OBVIOUS
<1>6. Two(head, transport, datagram)
  BY <1>4, <1>5, TwoTogether
<1>7. /\ datagram \in Seq(Nat) /\ Len(datagram) = total
      /\ Stands(head, datagram, 0) /\ Stands(transport, datagram, length)
  BY <1>2, <1>4, <1>6 DEF Two
<1>8. Two(datagram, padding, ip)
  BY <1>5, <1>7, TwoTogether
<1>9. /\ ip \in Seq(Nat) /\ Len(ip) = total + Len(padding) /\ Len(padding) \in Nat
      /\ Stands(datagram, ip, 0)
  BY <1>7, <1>8 DEF Two
<1>10. Stands(head, ip, 0) /\ Stands(transport, ip, length)
  <2>1. PICK none : none = 0 /\ none \in Nat
    OBVIOUS
  <2>2. Stands(head, ip, none)
    BY <1>4, <1>7, <1>9, <2>1, StandsInStart
  <2>3. Stands(transport, ip, length)
    BY <1>3, <1>7, <1>9, StandsInStart
  <2>4. QED
    BY <2>1, <2>2, <2>3
<1>11. ReadsAsIp(ip, n, total, protocol, src, dst)
  BY <1>4, <1>9, <1>10, Zenon
<1>12. Version(ip) = 4 /\ HeaderLength(ip) = length
  <2>1. At(ip, 0) = 69 + n
    BY <1>11 DEF ReadsAsIp
  <2>2. (69 + n) \div 16 = 4 /\ (69 + n) % 16 = 5 + n
    BY <1>1
  <2>3. Version(ip) = 4
    BY <2>1, <2>2 DEF Version
  <2>4. HeaderLength(ip) = 4 * (5 + n)
    BY <2>1, <2>2, <2>3 DEF HeaderLength
  <2>5. 4 * (5 + n) = length
    BY <1>1, <1>3
  <2>6. QED
    BY <2>3, <2>4, <2>5
<1>13. Len(ip) >= total /\ total >= length
  BY <1>2, <1>3, <1>9
<1>14. IpAccepted(ip)
  BY <1>3, <1>9, <1>12, <1>13 DEF IpAccepted
<1>15. IpEnd(ip) = total
  <2>1. U16(ip, 2) = total /\ Len(ip) \in Nat
    BY <1>9, <1>11 DEF ReadsAsIp
  <2>2. QED
    BY <1>3, <1>12, <1>13, <2>1 DEF IpEnd, Clamp, AtMostOf
<1>16. Slice(ip, length, total) = transport
  <2>1. total = length + Len(transport)
    BY <1>2
  <2>2. transport \in Seq(Nat) /\ ip \in Seq(Nat) /\ length \in Nat /\ Stands(transport, ip, length)
    BY <1>3, <1>9, <1>10
  <2>3. ASSUME NEW whole \in Seq(Nat), Stands(transport, whole, length)
        PROVE  Slice(whole, length, total) = transport
    BY <1>3, <2>1, <2>3, PartCutOut
  <2>4. QED
    BY <2>2, <2>3
<1>17. IpPacket(ip) = [src |-> src, dst |-> dst, protocol |-> protocol, data |-> transport]
  BY <1>11, <1>12, <1>15, <1>16 DEF IpPacket, ReadsAsIp
<1>18. QED
  BY <1>9, <1>14, <1>17 DEF ReadsAsPacket

\* What was sent, as a segment.
SegmentOf(sent) ==
    [src |-> sent.src, dst |-> sent.dst, protocol |-> Protocol(sent),
     payload |-> Payload(sent.carried)]

(* A packet that was sent has ports that are read. *)
LEMMA TransportReads ==
    ASSUME NEW sent, sent.src \in Endpoints, sent.dst \in Endpoints, sent.seq \in Nat,
           Payload(sent.carried) \in Seq(Nat)
    PROVE  /\ Transport(sent) \in Seq(Nat)
           /\ Protocol(sent) \in Nat /\ Protocol(sent) # ICMP6
           /\ ReadsAsL4(Protocol(sent), Transport(sent), sent.src[2], sent.dst[2],
                        Payload(sent.carried))
<1>1. PICK src_port, dst_port, payload, seq :
         /\ src_port = sent.src[2] /\ dst_port = sent.dst[2] /\ seq = sent.seq
         /\ payload = Payload(sent.carried)
  OBVIOUS
<1>2. /\ src_port \in Nat /\ dst_port \in Nat /\ payload \in Seq(Nat) /\ seq \in Nat
  BY <1>1, WordIsNatural DEF Endpoints
<1>3. PICK head, whole : head = L4Header(sent) /\ whole = head \o payload
  OBVIOUS
<1>4. whole = Transport(sent)
  BY <1>1, <1>3 DEF Transport
<1>5. CASE OverUdp(sent)
  <2>1. head = udp_header(src_port, dst_port, Len(payload))
    BY <1>1, <1>3, <1>5 DEF L4Header
  <2>2. whole \in Seq(Nat) /\ ReadsAsL4(UDP, whole, src_port, dst_port, payload)
    BY <1>2, <1>3, <2>1, UdpReads
  <2>3. QED
    BY <1>1, <1>4, <1>5, <2>2 DEF Protocol, UDP, ICMP6
<1>6. CASE ~OverUdp(sent)
  <2>1. head = tcp_header(src_port, dst_port, seq)
    BY <1>1, <1>3, <1>6 DEF L4Header
  <2>2. whole \in Seq(Nat) /\ ReadsAsL4(TCP, whole, src_port, dst_port, payload)
    BY <1>2, <1>3, <2>1, TcpReads
  <2>3. QED
    BY <1>1, <1>4, <1>6, <2>2 DEF Protocol, TCP, ICMP6
<1>7. QED
  BY <1>5, <1>6

(* An address of four bytes. *)
LEMMA AddressIsRead ==
    ASSUME NEW ip \in IPv4
    PROVE  IsAddress4(ip)
<1>1. ip \in [1 .. 4 -> Byte]
  BY DEF IPv4
<1>2. ip = [i \in 1 .. 4 |-> ip[i]] /\ \A i \in 1 .. 4 : ip[i] \in Nat
  BY <1>1, ByteIsNatural
<1>3. QED
  BY <1>2 DEF IsAddress4

(* The header of a frame is bytes. *)
LEMMA FrameHeaderIsText ==
    ASSUME NEW sent, IsMac(sent.mac), sent.vlan \in {None} \cup Word, NEW link
    PROVE  FrameHeader(sent, link) \in Seq(Nat)
<1>1. PICK mac, vlan : mac = sent.mac /\ IsMac(mac) /\ vlan = sent.vlan
  OBVIOUS
<1>2. mac \in Seq(Nat)
  BY <1>1 DEF IsMac
<1>3. Be16(VLAN) \in Seq(Nat) /\ Be16(IPV4) \in Seq(Nat)
  <2>1. VLAN \in Nat /\ IPV4 \in Nat
    BY DEF VLAN, IPV4
  <2>2. QED
    BY <2>1, WordReadBack
<1>4. Tag(vlan) \in Seq(Nat)
  <2>1. CASE vlan = None
    BY <2>1 DEF Tag
  <2>2. CASE vlan # None
    <3>1. vlan \in Nat
      BY <1>1, <2>2, WordIsNatural
    <3>2. Be16(vlan) \in Seq(Nat)
      BY <3>1, WordReadBack
    <3>3. Tag(vlan) = Be16(VLAN) \o Be16(vlan)
      BY <2>2 DEF Tag
    <3>4. QED
      BY <1>3, <3>2, <3>3, ConcatProperties
  <2>3. QED
    BY <2>1, <2>2
<1>5. mac \o Tag(vlan) \o Be16(IPV4) \in Seq(Nat)
  BY <1>2, <1>3, <1>4, ConcatProperties
<1>6. CASE link = LINKTYPE_RAW
  BY <1>6 DEF FrameHeader
<1>7. CASE link # LINKTYPE_RAW
  BY <1>1, <1>5, <1>7 DEF FrameHeader
<1>8. QED
  BY <1>6, <1>7

(* What was sent in such a frame has endpoints and a payload, which are    *)
(* those that it was sent with: parse_ip_packet, parse_ip_header and       *)
(* parse_l4 undo the encoders.                                             *)
LEMMA SentParses ==
    ASSUME NEW sent, NEW link \in {LINKTYPE_ETHERNET, LINKTYPE_RAW}, NEW data,
           WrittenAs(sent, link, data), Payload(sent.carried) \in Seq(Nat)
    PROVE  Parses(data, link) /\ Segment(data, link) = SegmentOf(sent)
<1>1. PICK options, src, dst, protocol, transport, padding, payload, header :
         /\ options = sent.options /\ src = sent.src[1] /\ dst = sent.dst[1]
         /\ protocol = Protocol(sent) /\ transport = Transport(sent)
         /\ padding = sent.padding /\ payload = Payload(sent.carried)
         /\ header = FrameHeader(sent, link)
  OBVIOUS
<1>2. /\ sent.src \in Endpoints /\ sent.dst \in Endpoints /\ sent.seq \in Nat
      /\ IsMac(sent.mac) /\ sent.vlan \in {None} \cup Word
      /\ options \in Seq(Nat) /\ padding \in Seq(Nat)
      /\ Len(options) \in {4 * n : n \in 0 .. 10}
      /\ data = Frame(sent, link)
  BY <1>1, BufferIsText DEF WrittenAs, IsMac
<1>3. PICK n \in 0 .. 10 : Len(options) = 4 * n
  BY <1>2
<1>4. OptionWords(options, n)
  BY <1>2, <1>3 DEF OptionWords
<1>5. src \in IPv4 /\ dst \in IPv4
  BY <1>1, <1>2 DEF Endpoints
<1>6. IsAddress4(src) /\ IsAddress4(dst)
  BY <1>5, AddressIsRead
<1>7. /\ transport \in Seq(Nat) /\ protocol \in Nat /\ protocol # ICMP6
      /\ ReadsAsL4(protocol, transport, sent.src[2], sent.dst[2], payload)
  BY <1>1, <1>2, TransportReads
<1>8. header \in Seq(Nat)
  BY <1>1, <1>2, FrameHeaderIsText
<1>9. PICK head, ip : /\ head = ipv4_header_with(options, src, dst, protocol, Len(transport))
                      /\ ip = (head \o transport) \o padding
  OBVIOUS
<1>10. ip \in Seq(Nat) /\ ReadsAsPacket(ip, src, dst, protocol, transport)
  BY <1>2, <1>4, <1>6, <1>7, <1>9, DatagramReads
<1>11. data = header \o ip
  <2>1. head = IpHeader(sent)
    BY <1>1, <1>9 DEF IpHeader
  <2>2. PICK datagram : datagram = head \o transport
    OBVIOUS
  <2>3. data = (header \o datagram) \o padding
    BY <1>1, <1>2, <2>1, <2>2 DEF Frame
  <2>4. datagram \in Seq(Nat)
    <3>1. head \in Seq(Nat)
      <4>1. PICK size, length, total : /\ size = Len(transport)
                                       /\ length = 20 + Len(options) /\ total = length + size
        OBVIOUS
      <4>2. size \in Nat /\ head = ipv4_header_with(options, src, dst, protocol, size)
        BY <1>7, <1>9, <4>1
      <4>3. IpHead(head, n, length, total, protocol, src, dst)
        BY <1>4, <1>6, <1>7, <4>1, <4>2, IpHeaderReads
      <4>4. QED
        BY <4>3 DEF IpHead
    <3>2. QED
      BY <1>7, <2>2, <3>1, ConcatProperties
  <2>5. (header \o datagram) \o padding = header \o (datagram \o padding)
    BY <1>2, <1>8, <2>4, TextAssociative
  <2>6. QED
    BY <1>9, <2>2, <2>3, <2>5
<1>12. Datagram(data, link) = ip
  BY <1>1, <1>2, <1>10, <1>11, DatagramFound
<1>13. /\ IpAccepted(ip)
       /\ IpPacket(ip) = [src |-> src, dst |-> dst, protocol |-> protocol, data |-> transport]
  BY <1>10 DEF ReadsAsPacket
<1>14. /\ L4Accepted(protocol, transport)
       /\ L4Info(protocol, transport) =
             [src_port |-> sent.src[2], dst_port |-> sent.dst[2], protocol |-> protocol,
              payload |-> payload]
  BY <1>7 DEF ReadsAsL4
<1>15. Parses(data, link)
  BY <1>12, <1>13, <1>14 DEF Parses
<1>16. Segment(data, link) = [src |-> <<src, sent.src[2]>>, dst |-> <<dst, sent.dst[2]>>,
                              protocol |-> protocol, payload |-> payload]
  BY <1>12, <1>13, <1>14 DEF Segment
<1>17. sent.src = <<src, sent.src[2]>> /\ sent.dst = <<dst, sent.dst[2]>>
  BY <1>1, <1>2 DEF Endpoints
<1>18. QED
  BY <1>1, <1>15, <1>16, <1>17 DEF SegmentOf

-----------------------------------------------------------------------------
(*****************************************************************************)
(* The name of a server as it was sent                                       *)
(*****************************************************************************)

(* A counted sequence, read where it stands. *)
LEMMA CountedThere ==
    ASSUME NEW s \in Seq(Nat), NEW whole \in Seq(Nat), NEW from \in Nat,
           Stands(Counted16(s), whole, from), NEW behind, behind = from + 2
    PROVE  /\ U16(whole, from) = Len(s)
           /\ Stands(s, whole, behind) /\ behind \in Nat
<1>1. PICK counted, count, two : counted = Counted16(s) /\ count = Len(s) /\ two = 2
  OBVIOUS
<1>2. /\ counted \in Seq(Nat) /\ Len(counted) = 2 + count /\ count \in Nat
      /\ U16(counted, 0) = count /\ Stands(s, counted, two) /\ two \in Nat
  BY <1>1, CountedReadBack
<1>3. Stands(counted, whole, from)
  BY <1>1
<1>4. U16(whole, from) = count
  <2>1. Len(counted) >= 2
    BY <1>2
  <2>2. U16(whole, from) = U16(counted, 0)
    BY <1>2, <1>3, <2>1, ReadFirstWord
  <2>3. QED
    BY <1>2, <2>2
<1>5. Stands(s, whole, from + two)
  BY <1>2, <1>3, StandsWithin, Zenon
<1>6. from + two = behind
  BY <1>1
<1>7. behind \in Nat
  OBVIOUS
<1>8. QED
  BY <1>1, <1>4, <1>5, <1>6, <1>7

\* What the code reads of a handshake message that has a server name alone.
NamesServer(record, sni) ==
    /\ record \in Seq(Nat) /\ Len(record) = 56 + Len(sni) /\ Len(sni) \in Nat
    /\ U16(record, 47) = 0
    /\ U16(record, 49) = 5 + Len(sni)
    /\ U16(record, 51) = 3 + Len(sni)
    /\ At(record, 53) = 0
    /\ U16(record, 54) = Len(sni)
    /\ Slice(record, 56, 56 + Len(sni)) = sni

(* The server name of tls_client_hello. *)
LEMMA ServerNameRead ==
    ASSUME NEW sni \in Seq(Nat), NEW list, list = sni_extension(sni),
           NEW record, ReadsAsHello(record, 0, list)
    PROVE  list \in Seq(Nat) /\ NamesServer(record, sni)
<1>1. PICK type, size, entry, kind, names, data, counted, none :
         /\ none = 0 /\ type = Be16(none) /\ kind = OneByte(none) /\ size = Counted16(sni)
         /\ entry = kind \o size /\ names = Counted16(entry)
         /\ counted = Counted16(names) /\ data = type \o counted
  OBVIOUS
<1>2. data = list
  BY <1>1 DEF sni_extension, OneByte
<1>3. PICK n : n = Len(sni) /\ n \in Nat
  OBVIOUS
<1>4. /\ none \in Nat /\ type \in Seq(Nat) /\ Len(type) = 2
      /\ kind \in Seq(Nat) /\ Len(kind) = 1
  <2>1. none \in Nat
    BY <1>1
  <2>2. type \in Seq(Nat) /\ Len(type) = 2
    BY <1>1, <2>1, WordReadBack
  <2>3. kind \in Seq(Nat) /\ Len(kind) = 1
    BY <1>1 DEF OneByte
  <2>4. QED
    BY <2>1, <2>2, <2>3
<1>5. size \in Seq(Nat) /\ Len(size) = 2 + n
  BY <1>1, <1>3, CountedReadBack
<1>6. Two(kind, size, entry)
  BY <1>1, <1>4, <1>5, TwoTogether
<1>7. /\ entry \in Seq(Nat) /\ Len(entry) = 3 + n /\ Stands(kind, entry, none)
      /\ Stands(size, entry, 1)
  <2>1. /\ entry \in Seq(Nat) /\ Len(entry) = Len(kind) + Len(size)
        /\ Stands(kind, entry, 0) /\ Stands(size, entry, Len(kind))
    BY <1>6, Zenon DEF Two
  <2>2. none = 0
    BY <1>1
  <2>3. QED
    BY <1>3, <1>4, <1>5, <2>1, <2>2
<1>8. names \in Seq(Nat) /\ Len(names) = 5 + n
  <2>1. names \in Seq(Nat) /\ Len(names) = 2 + Len(entry)
    BY <1>1, <1>7, CountedReadBack
  <2>2. QED
    BY <1>3, <1>7, <2>1
<1>9. counted \in Seq(Nat) /\ Len(counted) = 7 + n
  BY <1>1, <1>3, <1>8, CountedReadBack
<1>10. Two(type, counted, data)
  BY <1>1, <1>4, <1>9, TwoTogether
<1>11. /\ data \in Seq(Nat) /\ Len(data) = 9 + n /\ Stands(type, data, none)
       /\ Stands(counted, data, 2)
  <2>1. /\ data \in Seq(Nat) /\ Len(data) = Len(type) + Len(counted)
        /\ Stands(type, data, 0) /\ Stands(counted, data, Len(type))
    BY <1>10, Zenon DEF Two
  <2>2. none = 0
    BY <1>1
  <2>3. QED
    BY <1>3, <1>4, <1>9, <2>1, <2>2
<1>12. PICK p47, p49, p51, p53, p54, p56, p56n :
         /\ p47 = 47 /\ p49 = 49 /\ p51 = 51 /\ p53 = 53 /\ p54 = 54 /\ p56 = 56
         /\ p56n = p56 + Len(sni)
  OBVIOUS
<1>13. /\ p47 \in Nat /\ p49 \in Nat /\ p51 \in Nat /\ p53 \in Nat /\ p54 \in Nat
       /\ p56 \in Nat
  BY <1>12
<1>14. record \in Seq(Nat) /\ Len(record) = 56 + n /\ Stands(data, record, p47)
  BY <1>2, <1>11, <1>12, <1>3 DEF ReadsAsHello
<1>15. Stands(type, record, p47)
  <2>1. Stands(type, record, p47 + none)
    BY <1>4, <1>11, <1>13, <1>14, StandsWithin, Zenon
  <2>2. p47 + none = p47
    BY <1>1, <1>12
  <2>3. QED
    BY <2>1, <2>2
<1>16. Stands(counted, record, p49)
  <2>1. PICK two : two = 2 /\ two \in Nat
    OBVIOUS
  <2>2. Stands(counted, data, two)
    BY <1>11, <2>1
  <2>3. Stands(counted, record, p47 + two)
    BY <1>9, <1>11, <1>13, <1>14, <2>1, <2>2, StandsWithin, Zenon
  <2>4. p47 + two = p49
    BY <1>12, <2>1
  <2>5. QED
    BY <2>3, <2>4
<1>17. U16(record, p47) = none
  BY <1>1, <1>4, <1>13, <1>14, <1>15, WordThere
<1>18. U16(record, p49) = Len(names) /\ Stands(names, record, p51)
  <2>1. p51 = p49 + 2
    BY <1>12
  <2>2. Stands(Counted16(names), record, p49)
    BY <1>1, <1>16
  <2>3. QED
    BY <1>8, <1>13, <1>14, <2>1, <2>2, CountedThere, Zenon
<1>19. U16(record, p51) = Len(entry) /\ Stands(entry, record, p53)
  <2>1. p53 = p51 + 2
    BY <1>12
  <2>2. Stands(Counted16(entry), record, p51)
    BY <1>1, <1>18
  <2>3. QED
    BY <1>7, <1>13, <1>14, <2>1, <2>2, CountedThere, Zenon
<1>20. At(record, p53) = 0
  <2>1. Stands(kind, record, p53 + none)
    BY <1>4, <1>7, <1>13, <1>14, <1>19, StandsWithin, Zenon
  <2>2. p53 + none = p53
    BY <1>1, <1>13
  <2>3. Stands(kind, record, p53) /\ Len(kind) >= 1
    BY <1>4, <2>1, <2>2
  <2>4. At(record, p53) = At(kind, 0)
    BY <1>4, <1>13, <1>14, <2>3, ReadFirstByte
  <2>5. At(kind, 0) = 0
    BY <1>1 DEF OneByte, At
  <2>6. QED
    BY <2>4, <2>5
<1>21. Stands(size, record, p54)
  <2>1. PICK one : one = 1 /\ one \in Nat
    OBVIOUS
  <2>2. Stands(size, entry, one)
    BY <1>7, <2>1
  <2>3. Stands(size, record, p53 + one)
    BY <1>5, <1>7, <1>13, <1>14, <1>19, <2>1, <2>2, StandsWithin, Zenon
  <2>4. p53 + one = p54
    BY <1>12, <2>1
  <2>5. QED
    BY <2>3, <2>4
<1>22. U16(record, p54) = Len(sni) /\ Stands(sni, record, p56)
  <2>1. p56 = p54 + 2
    BY <1>12
  <2>2. Stands(Counted16(sni), record, p54)
    BY <1>1, <1>21
  <2>3. QED
    BY <1>13, <1>14, <2>1, <2>2, CountedThere, Zenon
<1>23. Slice(record, p56, p56n) = sni
  BY <1>12, <1>13, <1>14, <1>22, PartCutOut
<1>24. NamesServer(record, sni)
  BY <1>1, <1>3, <1>7, <1>8, <1>12, <1>14, <1>17, <1>18, <1>19, <1>20, <1>22, <1>23
     DEF NamesServer
<1>25. QED
  BY <1>2, <1>11, <1>24

\* While the parser reads the ClientHello that was sent.
AtHello(sni) ==
    /\ resolved = <<>> /\ url = None
    /\ at \in {"hello", "extensions", "names", "found"}
    /\ at = "hello" => message = tls_client_hello(sni)
    /\ at \in {"extensions", "names"} =>
          NamesServer(message, sni) /\ pos = 47 /\ extensions_end = Len(message)
    /\ at = "names" => cursor = 2
    /\ hostname = IF at = "found" THEN sni ELSE None

(* The record of tls_client_hello, in its bytes. *)
LEMMA HelloIsSent ==
    ASSUME NEW sni \in Seq(Nat), NEW bytes, bytes = tls_client_hello(sni)
    PROVE  /\ bytes \in Seq(Nat) /\ At(bytes, 0) = HANDSHAKE /\ Len(bytes) >= 5
           /\ \E record, list :
                 /\ ReadsAsHello(record, 0, list) /\ Len(list) \in Nat
                 /\ NamesServer(record, sni)
                 /\ Slice(bytes, 5, AtMostOf(5 + U16(bytes, 3), Len(bytes))) = record
<1>1. PICK list, record, session : /\ list = sni_extension(sni) /\ session = <<>>
                                   /\ record = Handshake(session, list)
  OBVIOUS
<1>2. session \in Seq(Nat) /\ Len(session) = 0
  BY <1>1
<1>3. list \in Seq(Nat)
  <2>1. PICK entry : entry = OneByte(0) \o Counted16(sni)
    OBVIOUS
  <2>2. entry \in Seq(Nat)
    <3>1. OneByte(0) \in Seq(Nat)
      BY DEF OneByte
    <3>2. Counted16(sni) \in Seq(Nat)
      BY CountedReadBack
    <3>3. QED
      BY <2>1, <3>1, <3>2, ConcatProperties
  <2>3. Counted16(entry) \in Seq(Nat)
    BY <2>2, CountedReadBack
  <2>4. Counted16(Counted16(entry)) \in Seq(Nat)
    BY <2>3, CountedReadBack
  <2>5. Be16(0) \in Seq(Nat)
    BY WordReadBack
  <2>6. list = Be16(0) \o Counted16(Counted16(entry))
    BY <1>1, <2>1 DEF sni_extension, OneByte
  <2>7. QED
    BY <2>4, <2>5, <2>6, ConcatProperties
<1>4. ReadsAsHello(record, 0, list)
  BY <1>1, <1>2, <1>3, HandshakeReadsAsHello
<1>5. NamesServer(record, sni)
  BY <1>1, <1>4, ServerNameRead
<1>6. bytes = hello_with(session, list) \o <<>>
  <2>1. bytes = hello_with(session, list)
    BY <1>1 DEF tls_client_hello
  <2>2. hello_with(session, list) \in Seq(Nat)
    <3>1. PICK version, counted, type : /\ version = Be16(769) /\ type = OneByte(22)
                                        /\ counted = Counted16(record)
      OBVIOUS
    <3>2. version \in Seq(Nat) /\ type \in Seq(Nat) /\ counted \in Seq(Nat)
      BY <1>5, <3>1, WordReadBack, CountedReadBack DEF OneByte, NamesServer
    <3>3. hello_with(session, list) = type \o version \o counted
      BY <1>1, <3>1 DEF hello_with, Handshake, HelloBody, WithMethods, WithCiphers,
         WithSession, WithLength, WithRandom, Version771, OneByte, Suite, Methods
    <3>4. QED
      BY <3>2, <3>3, ConcatProperties
  <2>3. QED
    BY <2>1, <2>2, ConcatEmptySeq
<1>7. /\ bytes \in Seq(Nat) /\ Len(bytes) >= 5 + Len(record)
      /\ At(bytes, 0) = HANDSHAKE /\ U16(bytes, 3) = Len(record)
      /\ Stands(record, bytes, 5)
  <2>1. PICK after : after = <<>>
    OBVIOUS
  <2>2. after \in Seq(Nat) /\ bytes = hello_with(session, list) \o after
    BY <1>6, <2>1
  <2>3. record = Handshake(session, list)
    BY <1>1
  <2>4. ASSUME NEW whole, whole = hello_with(session, list) \o after
        PROVE  /\ whole \in Seq(Nat) /\ Len(whole) >= 5 + Len(record)
               /\ At(whole, 0) = HANDSHAKE /\ U16(whole, 3) = Len(record)
               /\ Stands(record, whole, 5)
    <3>1. session \in Seq(Nat) /\ list \in Seq(Nat) /\ after \in Seq(Nat)
      BY <1>2, <1>3, <2>2
    <3>2. QED
      BY <2>3, <2>4, <3>1, HelloIsRecord, SMTT(30), ZenonT(30)
  <2>5. QED
    BY <2>2, <2>4
<1>8. record \in Seq(Nat) /\ Len(record) \in Nat
  BY <1>5 DEF NamesServer
<1>9. PICK from, to : from = 5 /\ to = from + Len(record)
  OBVIOUS
<1>10. Slice(bytes, from, to) = record
  <2>1. Stands(record, bytes, from) /\ from \in Nat
    BY <1>7, <1>9
  <2>2. QED
    BY <1>7, <1>8, <1>9, <2>1, PartCutOut
<1>11. AtMostOf(5 + U16(bytes, 3), Len(bytes)) = to
  BY <1>7, <1>8, <1>9 DEF AtMostOf
<1>12. Slice(bytes, 5, AtMostOf(5 + U16(bytes, 3), Len(bytes))) = record
  BY <1>9, <1>10, <1>11
<1>13. Len(bytes) >= 5
  BY <1>7, <1>8
<1>14. Len(list) \in Nat
  BY <1>3
<1>15. QED
  BY <1>4, <1>5, <1>7, <1>12, <1>13, <1>14

(* The record is taken for a ClientHello, and its extensions are found. *)
LEMMA HelloFound ==
    ASSUME NEW sni \in Seq(Nat), message = tls_client_hello(sni)
    PROVE  /\ IsHello /\ NamesServer(Record, sni)
           /\ MethodsEnd(Record) = 45
           /\ AtMostOf(47 + U16(Record, 45), Len(Record)) = Len(Record)
<1>1. PICK bytes : bytes = message /\ bytes = tls_client_hello(sni)
  OBVIOUS
<1>2. /\ At(bytes, 0) = HANDSHAKE /\ Len(bytes) >= 5
      /\ \E record, list :
            /\ ReadsAsHello(record, 0, list) /\ Len(list) \in Nat
            /\ NamesServer(record, sni)
            /\ Slice(bytes, 5, AtMostOf(5 + U16(bytes, 3), Len(bytes))) = record
  BY <1>1, HelloIsSent
<1>3. PICK record, list :
         /\ ReadsAsHello(record, 0, list) /\ Len(list) \in Nat
         /\ NamesServer(record, sni)
         /\ Slice(bytes, 5, AtMostOf(5 + U16(bytes, 3), Len(bytes))) = record
  BY <1>2
<1>4. Record = record
  BY <1>1, <1>3 DEF Record
<1>5. /\ Len(record) = 47 + Len(list) /\ Len(record) = 56 + Len(sni) /\ Len(sni) \in Nat
      /\ At(record, 0) = CLIENT_HELLO
      /\ At(record, 38) = 0
      /\ U16(record, 39) = 2
      /\ At(record, 43) = 1
      /\ U16(record, 45) = Len(list)
  BY <1>3, SMTT(30), ZenonT(30) DEF ReadsAsHello, NamesServer
<1>6. SessionEnd(record) = 39
  BY <1>5 DEF SessionEnd
<1>7. CiphersEnd(record) = 43
  BY <1>5, <1>6 DEF CiphersEnd
<1>8. MethodsEnd(record) = 45
  BY <1>5, <1>7 DEF MethodsEnd
<1>9. ReachesExtensions(record)
  BY <1>5, <1>6, <1>7, <1>8 DEF ReachesExtensions
<1>10. IsHello
  BY <1>1, <1>2, <1>4, <1>9 DEF IsHello
<1>11. AtMostOf(47 + U16(record, 45), Len(record)) = Len(record)
  BY <1>3, <1>5 DEF AtMostOf
<1>12. QED
  BY <1>3, <1>4, <1>8, <1>10, <1>11

(* In the extensions: the list of names, and the name in it. *)
LEMMA ServerNameFound ==
    ASSUME NEW sni, NamesServer(message, sni), pos = 47, extensions_end = Len(message)
    PROVE  /\ HasExtension /\ NamesServers
           /\ cursor = 2 =>
                 /\ HasName /\ IsHostName
                 /\ Slice(message, ExtStart + NameStart, ExtStart + NameEnd) = sni
<1>1. PICK n : n = Len(sni)
  OBVIOUS
<1>2. /\ n \in Nat /\ Len(message) = 56 + n
      /\ U16(message, 47) = 0
      /\ U16(message, 49) = 5 + n
      /\ U16(message, 51) = 3 + n
      /\ At(message, 53) = 0
      /\ U16(message, 54) = n
      /\ Slice(message, 56, 56 + n) = sni
  BY <1>1 DEF NamesServer
<1>3. ExtStart = 51
  BY DEF ExtStart
<1>4. ExtEnd = 56 + n
  BY <1>2, <1>3 DEF ExtEnd, AtMostOf
<1>5. ListEnd = 5 + n
  BY <1>2, <1>3, <1>4 DEF ListEnd, AtMostOf
<1>6. HasExtension
  BY <1>2 DEF HasExtension
<1>7. NamesServers
  BY <1>2, <1>3, <1>4 DEF NamesServers
<1>8. ASSUME cursor = 2
      PROVE  /\ HasName /\ IsHostName
             /\ Slice(message, ExtStart + NameStart, ExtStart + NameEnd) = sni
  <2>1. NameStart = 5
    BY <1>8 DEF NameStart
  <2>2. NameEnd = 5 + n
    BY <1>2, <1>3, <1>4, <1>8, <2>1 DEF NameEnd, AtMostOf
  <2>3. HasName
    BY <1>2, <1>5, <2>1 DEF HasName
  <2>4. IsHostName
    BY <1>2, <1>3, <1>8 DEF IsHostName
  <2>5. ExtStart + NameStart = 56 /\ ExtStart + NameEnd = 56 + n
    BY <1>2, <1>3, <2>1, <2>2
  <2>6. QED
    BY <1>2, <2>3, <2>4, <2>5
<1>9. QED
  BY <1>6, <1>7, <1>8

(* A step of the parser, while it reads the ClientHello that was sent: its *)
(* walk ends with the server name.                                         *)
LEMMA HelloNamedStep ==
    ASSUME NEW sni, Plain(sni), AtHello(sni), NEW payload, ParserNext(payload)
    PROVE  AtHello(sni)'
<1>1. sni \in Seq(Nat) /\ Lossy(sni) = sni
  BY BufferIsText DEF Plain
<1>2. CASE ReadHello
  <2>1. /\ at = "hello" /\ message' = Record /\ pos' = MethodsEnd(Record) + 2
        /\ extensions_end' = AtMostOf((MethodsEnd(Record) + 2)
                                         + U16(Record, (MethodsEnd(Record) + 2) - 2), Len(Record))
        /\ at' = "extensions" /\ UNCHANGED <<hostname, url, resolved>>
    BY <1>2 DEF ReadHello, foundVars
  <2>2. message = tls_client_hello(sni) /\ hostname = None /\ resolved = <<>> /\ url = None
    BY <2>1 DEF AtHello
  <2>3. /\ NamesServer(Record, sni) /\ MethodsEnd(Record) = 45
        /\ AtMostOf(47 + U16(Record, 45), Len(Record)) = Len(Record)
    BY <1>1, <2>2, HelloFound
  <2>4. MethodsEnd(Record) + 2 = 47 /\ 47 - 2 = 45
    BY <2>3
  <2>5. pos' = 47 /\ extensions_end' = Len(message')
    BY <2>1, <2>3, <2>4
  <2>6. NamesServer(message', sni)
    BY <2>1, <2>3
  <2>7. QED
    BY <2>1, <2>2, <2>5, <2>6 DEF AtHello
<1>3. CASE TryHttp(payload)
  <2>1. (at = "hello" /\ ~IsHello) \/ (at = "extensions" /\ ~HasExtension)
    BY <1>3 DEF TryHttp
  <2>2. CASE at = "hello" /\ ~IsHello
    <3>1. message = tls_client_hello(sni)
      BY <2>2 DEF AtHello
    <3>2. QED
      BY <1>1, <2>2, <3>1, HelloFound
  <2>3. CASE at = "extensions" /\ ~HasExtension
    <3>1. NamesServer(message, sni) /\ pos = 47 /\ extensions_end = Len(message)
      BY <2>3 DEF AtHello
    <3>2. QED
      BY <2>3, <3>1, ServerNameFound
  <2>4. QED
    BY <2>1, <2>2, <2>3
<1>4. CASE at \in {"extensions", "names"}
  <2>1. /\ NamesServer(message, sni) /\ pos = 47 /\ extensions_end = Len(message)
        /\ hostname = None /\ resolved = <<>> /\ url = None
        /\ at = "names" => cursor = 2
    BY <1>4 DEF AtHello
  <2>2. /\ HasExtension /\ NamesServers
        /\ cursor = 2 =>
              /\ HasName /\ IsHostName
              /\ Slice(message, ExtStart + NameStart, ExtStart + NameEnd) = sni
    BY <2>1, ServerNameFound
  <2>3. EnterList \/ TakeName \/ TryHttp(payload)
    BY <1>4, <2>1, <2>2
       DEF ParserNext, ReadQuery, ReadHeader, NextItem, NameFails, NameEnds, Jump, Label,
           TakesTurn, InName, ItemFails, ReadQuestion, ReadAnswer, ReadHello,
           SkipExtension, SkipName, LeaveList
  <2>4. CASE EnterList
    <3>1. /\ cursor' = 2 /\ at' = "names"
          /\ UNCHANGED <<message, pos, extensions_end, hostname, url, resolved>>
      BY <2>4 DEF EnterList, foundVars
    <3>2. NamesServer(message', sni)
      BY <2>1, <3>1
    <3>3. QED
      BY <2>1, <3>1, <3>2 DEF AtHello
  <2>5. CASE TakeName
    <3>1. /\ hostname' = Lossy(Slice(message, ExtStart + NameStart, ExtStart + NameEnd))
          /\ at = "names" /\ at' = "found" /\ UNCHANGED <<url, resolved>>
      BY <2>5 DEF TakeName
    <3>2. hostname' = sni
      BY <1>1, <2>1, <2>2, <3>1
    <3>3. QED
      BY <2>1, <3>1, <3>2 DEF AtHello
  <2>6. QED
    BY <1>3, <2>3, <2>4, <2>5
<1>5. CASE at \in {"hello", "found"}
  <2>1. ReadHello \/ TryHttp(payload)
    BY <1>5
       DEF ParserNext, ReadQuery, ReadHeader, NextItem, NameFails, NameEnds, Jump, Label,
           TakesTurn, InName, ItemFails, ReadQuestion, ReadAnswer,
           SkipExtension, EnterList, TakeName, SkipName, LeaveList
  <2>2. QED
    BY <1>2, <1>3, <2>1
<1>6. QED
  BY <1>4, <1>5 DEF AtHello

-----------------------------------------------------------------------------
(*****************************************************************************)
(* Requests as they were sent                                                *)
(*                                                                           *)
(* A request is three words and a header, in bytes.  What IsRequest,         *)
(* RequestHost and RequestUrl look for is found at the places of these.      *)
(*****************************************************************************)

\* Bytes none of which is a space.
Solid(text, from, to) == \A i \in from .. to - 1 : At(text, i) \notin SPACES

\* The bytes of a request: its method from the start, its path between two
\* spaces, v being the place of the second, its host line at s, which ends at e
\* with an empty line.
RequestBytes(text, m, v, s, e) ==
    /\ text \in Seq(Nat) /\ Len(text) = e + 4
    /\ m \in Nat /\ v \in Nat /\ s \in Nat /\ e \in Nat
    /\ m >= 1 /\ v > m + 1 /\ s = v + 11 /\ e >= s + 6
    /\ Solid(text, 0, m) /\ At(text, m) = 32
    /\ Solid(text, m + 1, v) /\ At(text, v) = 32
    /\ Solid(text, v + 1, v + 9) /\ At(text, v + 9) = 13 /\ At(text, v + 10) = 10
    /\ Solid(text, s, s + 5) /\ At(text, s + 5) = 32
    /\ Solid(text, s + 6, e)
    /\ At(text, e) = 13 /\ At(text, e + 1) = 10
    /\ At(text, e + 2) = 13 /\ At(text, e + 3) = 10

\* What they spell.
RequestWords(text, m, v, s, e, method, path, host) ==
    /\ Slice(text, 0, m) = method
    /\ Slice(text, m + 1, v) = path
    /\ Slice(text, s, s + 6) \in HOST
    /\ Slice(text, s + 6, e) = host

\* The fixed parts of a request.
Space == <<32>>
Version11 == <<32, 72, 84, 84, 80, 47, 49, 46, 49, 13, 10>>
HostIs == <<72, 111, 115, 116, 58, 32>>
TwoEnds == <<13, 10, 13, 10>>

(* A part without a space stands there without one. *)
LEMMA SolidThere ==
    ASSUME NEW part \in Seq(Nat), NEW whole \in Seq(Nat), NEW from \in Nat,
           Stands(part, whole, from), \A i \in DOMAIN part : part[i] \notin SPACES,
           NEW to, to = from + Len(part)
    PROVE  Solid(whole, from, to)
<1>1. SUFFICES ASSUME NEW i \in from .. to - 1
               PROVE  At(whole, i) \notin SPACES
  BY DEF Solid
<1>2. PICK k : k = i - from + 1
  OBVIOUS
<1>3. k \in 1 .. Len(part) /\ from + k = i + 1
  BY <1>2
<1>4. whole[from + k] = part[k]
  BY <1>3 DEF Stands
<1>5. part[k] \notin SPACES
  BY <1>3
<1>6. At(whole, i) = part[k]
  BY <1>3, <1>4 DEF At
<1>7. QED
  BY <1>5, <1>6

(* A method is a word, and its first byte is not that of a handshake. *)
LEMMA MethodIsWord ==
    ASSUME NEW method \in HTTP_METHODS
    PROVE  /\ method \in Seq(Nat) /\ Len(method) \in 3 .. 7 /\ method[1] # HANDSHAKE
           /\ \A i \in DOMAIN method : method[i] \notin SPACES
<1>1. CASE method = <<71, 69, 84>>
  BY <1>1 DEF SPACES, HANDSHAKE
<1>2. CASE method = <<80, 79, 83, 84>>
  BY <1>2 DEF SPACES, HANDSHAKE
<1>3. CASE method = <<80, 85, 84>>
  BY <1>3 DEF SPACES, HANDSHAKE
<1>4. CASE method = <<68, 69, 76, 69, 84, 69>>
  BY <1>4 DEF SPACES, HANDSHAKE
<1>5. CASE method = <<72, 69, 65, 68>>
  BY <1>5 DEF SPACES, HANDSHAKE
<1>6. CASE method = <<79, 80, 84, 73, 79, 78, 83>>
  BY <1>6 DEF SPACES, HANDSHAKE
<1>7. CASE method = <<80, 65, 84, 67, 72>>
  BY <1>7 DEF SPACES, HANDSHAKE
<1>8. QED
  BY <1>1, <1>2, <1>3, <1>4, <1>5, <1>6, <1>7, Zenon DEF HTTP_METHODS

(* A request has these bytes, and they spell what was asked for. *)
LEMMA RequestLaidOut ==
    ASSUME NEW method \in HTTP_METHODS, NEW path \in Seq(Nat), NEW host \in Seq(Nat),
           path # <<>>,
           \A i \in DOMAIN path : path[i] \notin SPACES,
           \A i \in DOMAIN host : host[i] \notin SPACES,
           NEW text, text = http_request(method, path, host)
    PROVE  \E m, v, s, e : /\ RequestBytes(text, m, v, s, e)
                           /\ RequestWords(text, m, v, s, e, method, path, host)
<1>1. PICK m, p, h, v, s, e, m1, s6 :
         /\ m = Len(method) /\ p = Len(path) /\ h = Len(host)
         /\ m1 = m + 1 /\ v = m1 + p /\ s = v + 11 /\ s6 = s + 6 /\ e = s6 + h
  OBVIOUS
<1>2. method \in Seq(Nat) /\ m \in 3 .. 7 /\ \A i \in DOMAIN method : method[i] \notin SPACES
  BY <1>1, MethodIsWord
<1>3. p \in Nat /\ p >= 1 /\ h \in Nat
  BY <1>1
<1>4. /\ m \in Nat /\ m >= 1 /\ m1 \in Nat /\ v \in Nat /\ s \in Nat /\ s6 \in Nat /\ e \in Nat
      /\ v > m + 1 /\ e >= s + 6
  <2>1. m \in Nat /\ m >= 1
    BY <1>2
  <2>2. m1 = m + 1 /\ v = m1 + p /\ s = v + 11 /\ s6 = s + 6 /\ e = s6 + h
    BY <1>1
  <2>3. QED
    BY <1>3, <2>1, <2>2
<1>5. PICK space, version, field, ends, w1 :
         /\ space = Space /\ version = Version11 /\ field = HostIs /\ ends = TwoEnds
         /\ w1 = method \o space \o path \o version
  OBVIOUS
<1>6. text = w1 \o field \o host \o ends
  BY <1>5 DEF http_request, Space, Version11, HostIs, TwoEnds
<1>7. /\ space \in Seq(Nat) /\ Len(space) = 1 /\ version \in Seq(Nat) /\ Len(version) = 11
      /\ field \in Seq(Nat) /\ Len(field) = 6 /\ ends \in Seq(Nat) /\ Len(ends) = 4
  <2>1. Space \in Seq(Nat) /\ Len(Space) = 1
    BY DEF Space
  <2>2. Version11 \in Seq(Nat) /\ Len(Version11) = 11
    BY DEF Version11
  <2>3. HostIs \in Seq(Nat) /\ Len(HostIs) = 6
    BY DEF HostIs
  <2>4. TwoEnds \in Seq(Nat) /\ Len(TwoEnds) = 4
    BY DEF TwoEnds
  <2>5. QED
    BY <1>5, <2>1, <2>2, <2>3, <2>4
<1>8. Three(method, space, path, version, w1)
  BY <1>2, <1>5, <1>7, ThreeMore, Zenon
<1>9. /\ w1 \in Seq(Nat) /\ Len(w1) = s
      /\ Stands(method, w1, 0) /\ Stands(space, w1, m) /\ Stands(path, w1, m1)
      /\ Stands(version, w1, v)
  <2>1. /\ w1 \in Seq(Nat) /\ Len(w1) = Len(method) + Len(space) + Len(path) + Len(version)
        /\ Stands(method, w1, 0) /\ Stands(space, w1, Len(method))
        /\ Stands(path, w1, Len(method) + Len(space))
        /\ Stands(version, w1, Len(method) + Len(space) + Len(path))
    BY <1>8, Zenon DEF Three
  <2>2. /\ Len(method) + Len(space) = m1 /\ Len(method) + Len(space) + Len(path) = v
        /\ Len(method) + Len(space) + Len(path) + Len(version) = s
    BY <1>1, <1>2, <1>3, <1>7
  <2>3. QED
    BY <1>1, <2>1, <2>2, Zenon
<1>10. Three(w1, field, host, ends, text)
  BY <1>6, <1>7, <1>9, ThreeMore
<1>11. /\ text \in Seq(Nat) /\ Len(text) = e + 4
       /\ Stands(w1, text, 0) /\ Stands(field, text, s) /\ Stands(host, text, s6)
       /\ Stands(ends, text, e)
  <2>1. /\ text \in Seq(Nat) /\ Len(text) = Len(w1) + Len(field) + Len(host) + Len(ends)
        /\ Stands(w1, text, 0) /\ Stands(field, text, Len(w1))
        /\ Stands(host, text, Len(w1) + Len(field))
        /\ Stands(ends, text, Len(w1) + Len(field) + Len(host))
    BY <1>10, Zenon DEF Three
  <2>2. /\ Len(w1) + Len(field) = s6 /\ Len(w1) + Len(field) + Len(host) = e
        /\ Len(w1) + Len(field) + Len(host) + Len(ends) = e + 4
    BY <1>1, <1>3, <1>4, <1>7, <1>9
  <2>3. QED
    BY <1>9, <2>1, <2>2, Zenon
<1>12. PICK none : none = 0 /\ none \in Nat
  OBVIOUS
<1>13. /\ Stands(method, text, none) /\ Stands(space, text, m) /\ Stands(path, text, m1)
       /\ Stands(version, text, v)
  <2>1. ASSUME NEW part \in Seq(Nat), NEW from \in Nat, Stands(part, w1, from)
        PROVE  Stands(part, text, from)
    BY <1>9, <1>11, <2>1, StandsInStart, Zenon
  <2>2. Stands(method, w1, none)
    BY <1>9, <1>12
  <2>3. QED
    BY <1>2, <1>4, <1>7, <1>9, <1>12, <2>1, <2>2, Zenon
<1>14. ASSUME NEW part \in Seq(Nat), NEW from \in Nat, Stands(part, text, from),
              NEW to, to = from + Len(part)
       PROVE  Slice(text, from, to) = part
  <2>1. ASSUME NEW whole \in Seq(Nat), Stands(part, whole, from)
        PROVE  Slice(whole, from, to) = part
    BY <1>14, <2>1, PartCutOut
  <2>2. QED
    BY <1>11, <1>14, <2>1
<1>15. Solid(text, 0, m) /\ Slice(text, 0, m) = method
  <2>1. m = none + Len(method)
    BY <1>1, <1>2, <1>12
  <2>2. Solid(text, none, m)
    BY <1>2, <1>11, <1>12, <1>13, <2>1, SolidThere, Zenon
  <2>3. Slice(text, none, m) = method
    BY <1>2, <1>12, <1>13, <1>14, <2>1, Zenon
  <2>4. QED
    BY <1>12, <2>2, <2>3
<1>16. Solid(text, m1, v) /\ Slice(text, m1, v) = path
  <2>1. v = m1 + Len(path)
    BY <1>1
  <2>2. Solid(text, m1, v)
    BY <1>4, <1>11, <1>13, <2>1, SolidThere, Zenon
  <2>3. QED
    BY <1>4, <1>13, <1>14, <2>1, <2>2, Zenon
<1>17. Solid(text, s6, e) /\ Slice(text, s6, e) = host
  <2>1. e = s6 + Len(host)
    BY <1>1
  <2>2. Solid(text, s6, e)
    BY <1>4, <1>11, <2>1, SolidThere, Zenon
  <2>3. QED
    BY <1>4, <1>11, <1>14, <2>1, <2>2, Zenon
<1>18. At(text, m) = 32
  BY <1>4, <1>5, <1>13 DEF Stands, Space, At
<1>19. /\ At(text, v) = 32 /\ Solid(text, v + 1, v + 9)
       /\ At(text, v + 9) = 13 /\ At(text, v + 10) = 10
  <2>1. /\ version = <<32, 72, 84, 84, 80, 47, 49, 46, 49, 13, 10>>
        /\ \A i \in 1 .. 11 : text[v + i] = version[i]
    BY <1>5, <1>7, <1>13 DEF Version11, Stands
  <2>2. At(text, v) = 32 /\ At(text, v + 9) = 13 /\ At(text, v + 10) = 10
    BY <1>4, <2>1 DEF At
  <2>3. ASSUME NEW i \in v + 1 .. (v + 9) - 1
        PROVE  At(text, i) \notin SPACES
    <3>1. PICK k : k = i - v + 1
      OBVIOUS
    <3>2. k \in 2 .. 9 /\ v + k = i + 1
      BY <1>4, <3>1
    <3>3. At(text, i) = version[k]
      <4>1. k \in 1 .. 11
        BY <3>2
      <4>2. text[v + k] = version[k]
        BY <2>1, <4>1
      <4>3. QED
        BY <3>2, <4>2 DEF At
    <3>4. version[k] \in {72, 84, 80, 47, 49, 46}
      BY <2>1, <3>2, SMTT(30), ZenonT(30)
    <3>5. QED
      BY <3>3, <3>4, SMTT(30), ZenonT(30) DEF SPACES
  <2>4. QED
    BY <2>2, <2>3 DEF Solid
<1>20. Solid(text, s, s + 5) /\ At(text, s + 5) = 32 /\ Slice(text, s, s6) \in HOST
  <2>1. /\ field = <<72, 111, 115, 116, 58, 32>>
        /\ \A i \in 1 .. 6 : text[s + i] = field[i]
    BY <1>5, <1>7, <1>11 DEF HostIs, Stands
  <2>2. At(text, s + 5) = 32
    BY <1>4, <2>1 DEF At
  <2>3. ASSUME NEW i \in s .. (s + 5) - 1
        PROVE  At(text, i) \notin SPACES
    <3>1. PICK k : k = i - s + 1
      OBVIOUS
    <3>2. k \in 1 .. 5 /\ s + k = i + 1
      BY <1>4, <3>1
    <3>3. At(text, i) = field[k]
      <4>1. k \in 1 .. 6
        BY <3>2
      <4>2. text[s + k] = field[k]
        BY <2>1, <4>1
      <4>3. QED
        BY <3>2, <4>2 DEF At
    <3>4. field[k] \in {72, 111, 115, 116, 58}
      BY <2>1, <3>2
    <3>5. {72, 111, 115, 116, 58} \cap SPACES = {}
      BY DEF SPACES
    <3>6. QED
      BY <3>3, <3>4, <3>5, ZenonT(30)
  <2>4. Slice(text, s, s6) = field
    <3>1. s6 = s + Len(field)
      BY <1>1, <1>7
    <3>2. QED
      BY <1>4, <1>7, <1>11, <1>14, <3>1, Zenon
  <2>5. QED
    BY <2>1, <2>2, <2>3, <2>4 DEF Solid, HOST
<1>21. /\ At(text, e) = 13 /\ At(text, e + 1) = 10
       /\ At(text, e + 2) = 13 /\ At(text, e + 3) = 10
  <2>1. /\ ends = <<13, 10, 13, 10>>
        /\ \A i \in 1 .. 4 : text[e + i] = ends[i]
    BY <1>5, <1>7, <1>11 DEF TwoEnds, Stands
  <2>2. QED
    BY <1>4, <2>1 DEF At
<1>22. m1 = m + 1 /\ s6 = s + 6 /\ s = v + 11
  BY <1>1
<1>23. RequestBytes(text, m, v, s, e)
  BY <1>4, <1>11, <1>15, <1>16, <1>17, <1>18, <1>19, <1>20, <1>21, <1>22 DEF RequestBytes
<1>24. RequestWords(text, m, v, s, e, method, path, host)
  BY <1>15, <1>16, <1>17, <1>20, <1>22 DEF RequestWords
<1>25. QED
  BY <1>23, <1>24

(* The first of some places is the one that none comes before. *)
LEMMA FirstIs ==
    ASSUME NEW places, places \subseteq Nat, NEW end,
           NEW i \in places, \A j \in places : i <= j
    PROVE  First(places, end) = i
<1>1. PICK k : k = First(places, end)
  OBVIOUS
<1>2. places # {}
  OBVIOUS
<1>3. k \in places /\ \A j \in places : k <= j
  BY <1>1, <1>2, FirstOfPlaces, Zenon
<1>4. k <= i /\ i <= k /\ k \in Nat /\ i \in Nat
  BY <1>3
<1>5. QED
  BY <1>1, <1>4

(* Where a line ends in such bytes: a carriage return stands at three places *)
(* alone.                                                                    *)
LEMMA LinesEnd ==
    ASSUME NEW text, NEW m, NEW v, NEW s, NEW e, RequestBytes(text, m, v, s, e),
           NEW i \in 0 .. Len(text) - 2
    PROVE  Slice(text, i, i + 2) = CRLF <=> i \in {v + 9, e, e + 2}
<1>1. /\ text \in Seq(Nat) /\ Len(text) = e + 4
      /\ m \in Nat /\ v \in Nat /\ s \in Nat /\ e \in Nat
      /\ m >= 1 /\ v > m + 1 /\ s = v + 11 /\ e >= s + 6
  BY DEF RequestBytes
<1>2. Slice(text, i, i + 2) = CRLF <=> At(text, i) = 13 /\ At(text, i + 1) = 10
  <2>1. Slice(text, i, i + 2) = SubSeq(text, i + 1, i + 2)
    BY DEF Slice
  <2>2. /\ Len(SubSeq(text, i + 1, i + 2)) = 2
        /\ SubSeq(text, i + 1, i + 2)[1] = text[i + 1]
        /\ SubSeq(text, i + 1, i + 2)[2] = text[i + 2]
        /\ SubSeq(text, i + 1, i + 2) \in Seq(Nat)
    BY <1>1
  <2>3. PICK pair : pair = SubSeq(text, i + 1, i + 2)
    OBVIOUS
  <2>4. pair \in Seq(Nat) /\ Len(pair) = 2 /\ pair[1] = At(text, i) /\ pair[2] = At(text, i + 1)
    BY <1>1, <2>2, <2>3 DEF At
  <2>5. pair = <<13, 10>> <=> pair[1] = 13 /\ pair[2] = 10
    BY <2>4
  <2>6. QED
    BY <2>1, <2>3, <2>4, <2>5 DEF CRLF
<1>3. ASSUME i \in {v + 9, e, e + 2}
      PROVE  At(text, i) = 13 /\ At(text, i + 1) = 10
  <2>1. /\ At(text, v + 9) = 13 /\ At(text, v + 10) = 10
        /\ At(text, e) = 13 /\ At(text, e + 1) = 10
        /\ At(text, e + 2) = 13 /\ At(text, e + 3) = 10
    BY DEF RequestBytes
  <2>2. (v + 9) + 1 = v + 10 /\ (e + 2) + 1 = e + 3
    BY <1>1
  <2>3. QED
    BY <1>3, <2>1, <2>2
<1>4. ASSUME At(text, i) = 13
      PROVE  i \in {v + 9, e, e + 2}
  <2>1. 13 \in SPACES
    BY DEF SPACES
  <2>2. ASSUME NEW a, NEW b, Solid(text, a, b)
        PROVE  i \notin a .. b - 1
    BY <1>4, <2>1, <2>2 DEF Solid
  <2>3. /\ i \notin 0 .. m - 1 /\ i \notin m + 1 .. v - 1 /\ i \notin v + 1 .. (v + 9) - 1
        /\ i \notin s .. (s + 5) - 1 /\ i \notin s + 6 .. e - 1
    BY <2>2 DEF RequestBytes
  <2>4. i # m /\ i # v /\ i # v + 10 /\ i # s + 5 /\ i # e + 1
    <3>1. /\ At(text, m) # 13 /\ At(text, v) # 13 /\ At(text, v + 10) # 13
          /\ At(text, s + 5) # 13 /\ At(text, e + 1) # 13
      <4>1. /\ At(text, m) = 32 /\ At(text, v) = 32 /\ At(text, v + 10) = 10
            /\ At(text, s + 5) = 32 /\ At(text, e + 1) = 10
        BY DEF RequestBytes
      <4>2. QED
        BY <4>1
    <3>2. QED
      BY <1>4, <3>1, Zenon
  <2>5. QED
    BY <1>1, <2>3, <2>4
<1>5. QED
  BY <1>2, <1>3, <1>4

(* The ends of the first line, of the host line and of the empty line. *)
LEMMA LineEnds ==
    ASSUME NEW text, NEW m, NEW v, NEW s, NEW e, RequestBytes(text, m, v, s, e)
    PROVE  /\ LineEnd(text, 0) = v + 9
           /\ LineEnd(text, s) = e
           /\ LineEnd(text, e + 2) = e + 2
<1>1. /\ text \in Seq(Nat) /\ Len(text) = e + 4
      /\ m \in Nat /\ v \in Nat /\ s \in Nat /\ e \in Nat
      /\ m >= 1 /\ v > m + 1 /\ s = v + 11 /\ e >= s + 6
  BY DEF RequestBytes
<1>2. \A i \in 0 .. Len(text) - 2 : Slice(text, i, i + 2) = CRLF <=> i \in {v + 9, e, e + 2}
  BY LinesEnd, Zenon
<1>3. ASSUME NEW from \in Nat, NEW line \in {v + 9, e, e + 2}, from <= line,
             \A j \in {v + 9, e, e + 2} : j >= from => line <= j
      PROVE  LineEnd(text, from) = line
  <2>1. PICK places :
           places = {i \in from .. Len(text) - 2 : Slice(text, i, i + 2) = CRLF}
    OBVIOUS
  <2>2. places \subseteq Nat /\ \A j \in places : j \in {v + 9, e, e + 2} /\ j >= from
    <3>1. places \subseteq from .. Len(text) - 2 /\ Len(text) - 2 \in Nat
      BY <1>1, <2>1
    <3>2. \A j \in from .. Len(text) - 2 : j \in Nat /\ j >= from /\ j \in 0 .. Len(text) - 2
      BY <1>3, <3>1
    <3>3. \A j \in places : Slice(text, j, j + 2) = CRLF
      BY <2>1
    <3>4. QED
      BY <1>2, <3>1, <3>2, <3>3, Zenon
  <2>3. line \in places
    <3>1. line \in from .. Len(text) - 2 /\ line \in 0 .. Len(text) - 2
      BY <1>1, <1>3
    <3>2. Slice(text, line, line + 2) = CRLF
      BY <1>2, <1>3, <3>1
    <3>3. QED
      BY <2>1, <3>1, <3>2
  <2>4. \A j \in places : line <= j
    BY <1>3, <2>2, Zenon
  <2>5. LineEnd(text, from) = First(places, Len(text))
    BY <2>1, Zenon DEF LineEnd
  <2>6. QED
    BY <2>2, <2>3, <2>4, <2>5, FirstIs, Zenon
<1>4. LineEnd(text, 0) = v + 9
  <2>1. /\ 0 \in Nat /\ v + 9 \in {v + 9, e, e + 2} /\ 0 <= v + 9
        /\ \A j \in {v + 9, e, e + 2} : j >= 0 => v + 9 <= j
    BY <1>1
  <2>2. QED
    BY <1>3, <2>1
<1>5. LineEnd(text, s) = e
  <2>1. /\ e \in {v + 9, e, e + 2} /\ s <= e
        /\ \A j \in {v + 9, e, e + 2} : j >= s => e <= j
    BY <1>1
  <2>2. QED
    BY <1>1, <1>3, <2>1
<1>6. LineEnd(text, e + 2) = e + 2
  <2>1. /\ e + 2 \in Nat /\ e + 2 \in {v + 9, e, e + 2} /\ e + 2 <= e + 2
        /\ \A j \in {v + 9, e, e + 2} : j >= e + 2 => e + 2 <= j
    BY <1>1
  <2>2. QED
    BY <1>3, <2>1
<1>7. QED
  BY <1>4, <1>5, <1>6

(* A word begins at a byte that is no space, and ends at the next space. *)
LEMMA WordFound ==
    ASSUME NEW text \in Seq(Nat), NEW from \in Nat, NEW to \in Nat, NEW end \in Nat
    PROVE  /\ from < to /\ At(text, from) \notin SPACES => WordStart(text, from, to) = from
           /\ from <= end /\ end < to /\ Solid(text, from, end) /\ At(text, end) \in SPACES =>
                 WordEnd(text, from, to) = end
<1>1. ASSUME from < to, At(text, from) \notin SPACES
      PROVE  WordStart(text, from, to) = from
  <2>1. PICK places : places = {i \in from .. to - 1 : At(text, i) \notin SPACES}
    OBVIOUS
  <2>2. places \subseteq Nat /\ from \in places /\ \A j \in places : from <= j
    BY <1>1, <2>1
  <2>3. WordStart(text, from, to) = First(places, to)
    BY <2>1, Zenon DEF WordStart
  <2>4. QED
    BY <2>2, <2>3, FirstIs, Zenon
<1>2. ASSUME from <= end, end < to, Solid(text, from, end), At(text, end) \in SPACES
      PROVE  WordEnd(text, from, to) = end
  <2>1. PICK places : places = {i \in from .. to - 1 : At(text, i) \in SPACES}
    OBVIOUS
  <2>2. places \subseteq Nat /\ end \in places
    BY <1>2, <2>1
  <2>3. \A j \in places : end <= j
    <3>1. SUFFICES ASSUME NEW j \in places, ~(end <= j)
                   PROVE  FALSE
      OBVIOUS
    <3>2. j \in from .. end - 1 /\ At(text, j) \in SPACES
      BY <2>1, <3>1
    <3>3. QED
      BY <1>2, <3>2 DEF Solid
  <2>4. WordEnd(text, from, to) = First(places, to)
    BY <2>1, Zenon DEF WordEnd
  <2>5. QED
    BY <2>2, <2>3, <2>4, FirstIs, Zenon
<1>3. QED
  BY <1>1, <1>2

(* After one space comes the next word; no word begins where the text ends. *)
LEMMA WordBehindSpace ==
    ASSUME NEW text \in Seq(Nat), NEW from \in Nat, NEW to \in Nat
    PROVE  /\ from + 1 < to /\ At(text, from) \in SPACES /\ At(text, from + 1) \notin SPACES =>
                 WordStart(text, from, to) = from + 1
           /\ WordStart(text, to, to) = to
<1>1. ASSUME from + 1 < to, At(text, from) \in SPACES, At(text, from + 1) \notin SPACES
      PROVE  WordStart(text, from, to) = from + 1
  <2>1. PICK places, first : /\ places = {i \in from .. to - 1 : At(text, i) \notin SPACES}
                             /\ first = from + 1
    OBVIOUS
  <2>2. places \subseteq Nat /\ first \in places
    BY <1>1, <2>1
  <2>3. \A j \in places : first <= j
    <3>1. SUFFICES ASSUME NEW j \in places
                   PROVE  first <= j
      OBVIOUS
    <3>2. j \in from .. to - 1 /\ At(text, j) \notin SPACES
      BY <2>1
    <3>3. j # from
      BY <1>1, <3>2
    <3>4. QED
      BY <2>1, <3>2, <3>3
  <2>4. WordStart(text, from, to) = First(places, to)
    BY <2>1, Zenon DEF WordStart
  <2>5. WordStart(text, from, to) = first
    BY <2>2, <2>3, <2>4, FirstIs, Zenon
  <2>6. QED
    BY <2>1, <2>5
<1>2. WordStart(text, to, to) = to
  <2>1. {i \in to .. to - 1 : At(text, i) \notin SPACES} = {}
    OBVIOUS
  <2>2. QED
    BY <2>1 DEF WordStart, First
<1>3. QED
  BY <1>1, <1>2

(* Text without a space is not trimmed. *)
LEMMA SolidUntrimmed ==
    ASSUME NEW text, NEW from \in Nat, NEW to \in Nat, from <= to, Solid(text, from, to)
    PROVE  TrimmedEnd(text, from, to) = to
<1>1. PICK ends : ends = {i \in from .. to :
                             /\ i > from => At(text, i - 1) \notin SPACES
                             /\ \A j \in i .. to - 1 : At(text, j) \in SPACES}
  OBVIOUS
<1>2. to \in ends
  <2>1. to \in from .. to /\ \A j \in to .. to - 1 : At(text, j) \in SPACES
    OBVIOUS
  <2>2. to > from => At(text, to - 1) \notin SPACES
    <3>1. to > from => to - 1 \in from .. to - 1
      OBVIOUS
    <3>2. QED
      BY <3>1 DEF Solid
  <2>3. QED
    BY <1>1, <2>1, <2>2
<1>3. ASSUME NEW i \in ends
      PROVE  i = to
  <2>1. i \in from .. to /\ \A j \in i .. to - 1 : At(text, j) \in SPACES
    BY <1>1
  <2>2. ASSUME i # to
        PROVE  FALSE
    <3>1. i \in i .. to - 1 /\ i \in from .. to - 1
      BY <2>1, <2>2
    <3>2. QED
      BY <2>1, <3>1 DEF Solid
  <2>3. QED
    BY <2>2
<1>4. TrimmedEnd(text, from, to) =
         CHOOSE i \in from .. to :
             /\ i > from => At(text, i - 1) \notin SPACES
             /\ \A j \in i .. to - 1 : At(text, j) \in SPACES
  BY DEF TrimmedEnd
<1>5. TrimmedEnd(text, from, to) \in ends
  BY <1>1, <1>2, <1>4
<1>6. QED
  BY <1>3, <1>5

\* What extract_http reads of a request.
ReadsAsRequest(text, method, path, host) ==
    /\ Slice(text, MethodStart(text), MethodEnd(text)) = method
    /\ PathStart(text) < PathEnd(text)
    /\ Slice(text, PathStart(text), PathEnd(text)) = path
    /\ HostHeaders(text) # {}
    /\ RequestHost(text) = host

(* The headers of such bytes: the host line alone. *)
LEMMA HostLine ==
    ASSUME NEW text, NEW m, NEW v, NEW s, NEW e, RequestBytes(text, m, v, s, e),
           Slice(text, s, s + 6) \in HOST
    PROVE  HostHeaders(text) = {s}
<1>1. /\ text \in Seq(Nat) /\ Len(text) = e + 4
      /\ m \in Nat /\ v \in Nat /\ s \in Nat /\ e \in Nat
      /\ m >= 1 /\ v > m + 1 /\ s = v + 11 /\ e >= s + 6
  BY DEF RequestBytes
<1>2. LineEnd(text, s) = e /\ LineEnd(text, e + 2) = e + 2
  BY LineEnds
<1>3. PICK starts : starts = {i \in 2 .. Len(text) : Slice(text, i - 2, i) = CRLF}
  OBVIOUS
<1>4. \A i \in 2 .. Len(text) : i \in starts <=> i \in {s, e + 2, e + 4}
  <2>1. SUFFICES ASSUME NEW i \in 2 .. Len(text)
                 PROVE  i \in starts <=> i \in {s, e + 2, e + 4}
    OBVIOUS
  <2>2. PICK k : k = i - 2
    OBVIOUS
  <2>3. k \in 0 .. Len(text) - 2 /\ k + 2 = i
    BY <1>1, <2>2
  <2>4. Slice(text, k, k + 2) = CRLF <=> k \in {v + 9, e, e + 2}
    BY <2>3, LinesEnd, Zenon
  <2>5. k \in {v + 9, e, e + 2} <=> i \in {s, e + 2, e + 4}
    BY <1>1, <2>3
  <2>6. i \in starts <=> Slice(text, k, k + 2) = CRLF
    <3>1. i \in starts <=> Slice(text, i - 2, i) = CRLF
      BY <1>3
    <3>2. QED
      BY <2>2, <2>3, <3>1
  <2>7. QED
    BY <2>4, <2>5, <2>6
<1>5. s \in starts /\ e + 2 \in starts
  BY <1>1, <1>4
<1>6. starts \subseteq Nat /\ \A i \in starts : i \in {s, e + 2, e + 4}
  <2>1. starts \subseteq 2 .. Len(text)
    BY <1>3
  <2>2. QED
    BY <1>1, <1>4, <2>1
<1>7. PICK blank : blank = {i \in starts : LineEnd(text, i) = i}
  OBVIOUS
<1>8. First(blank, Len(text)) = e + 2
  <2>1. PICK last : last = e + 2
    OBVIOUS
  <2>2. blank \subseteq Nat /\ last \in blank
    BY <1>2, <1>5, <1>6, <1>7, <2>1
  <2>3. \A j \in blank : last <= j
    <3>1. s \notin blank
      BY <1>1, <1>2, <1>7
    <3>2. QED
      BY <1>1, <1>6, <1>7, <2>1, <3>1
  <2>4. First(blank, Len(text)) = last
    BY <2>2, <2>3, FirstIs, Zenon
  <2>5. QED
    BY <2>1, <2>4
<1>9. Headers(text) = {s}
  <2>1. Headers(text) = {i \in starts : i < First(blank, Len(text))}
    BY <1>3, <1>7, Zenon DEF Headers
  <2>2. \A i \in starts : i < e + 2 <=> i = s
    <3>1. s < e + 2 /\ ~(e + 2 < e + 2) /\ ~(e + 4 < e + 2)
      BY <1>1
    <3>2. QED
      BY <1>6, <3>1
  <2>3. QED
    BY <1>5, <1>8, <2>1, <2>2
<1>10. AtMostOf(s + 6, LineEnd(text, s)) = s + 6
  BY <1>1, <1>2 DEF AtMostOf
<1>11. QED
  BY <1>9, <1>10 DEF HostHeaders

(* So reads such a request. *)
LEMMA RequestReads ==
    ASSUME NEW text, NEW m, NEW v, NEW s, NEW e, RequestBytes(text, m, v, s, e),
           NEW method, NEW path, NEW host,
           RequestWords(text, m, v, s, e, method, path, host)
    PROVE  ReadsAsRequest(text, method, path, host)
<1>1. /\ text \in Seq(Nat) /\ Len(text) = e + 4
      /\ m \in Nat /\ v \in Nat /\ s \in Nat /\ e \in Nat
      /\ m >= 1 /\ v > m + 1 /\ s = v + 11 /\ e >= s + 6
  BY DEF RequestBytes
<1>2. /\ Solid(text, 0, m) /\ At(text, m) \in SPACES
      /\ Solid(text, m + 1, v) /\ At(text, v) \in SPACES
      /\ Solid(text, s + 6, e)
  <2>1. 32 \in SPACES
    BY DEF SPACES
  <2>2. QED
    BY <2>1 DEF RequestBytes
<1>3. /\ LineEnd(text, 0) = v + 9 /\ LineEnd(text, s) = e
  BY LineEnds
<1>4. PICK none, line, m1, s6 : none = 0 /\ line = v + 9 /\ m1 = m + 1 /\ s6 = s + 6
  OBVIOUS
<1>5. /\ none \in Nat /\ line \in Nat /\ m1 \in Nat /\ s6 \in Nat
      /\ none < line /\ none <= m /\ m < line /\ m1 < line /\ m1 <= v /\ v < line
      /\ s6 <= e
  BY <1>1, <1>4
<1>6. /\ LineEnd(text, none) = line /\ Solid(text, none, m) /\ Solid(text, m1, v)
      /\ Solid(text, s6, e)
  BY <1>2, <1>3, <1>4
<1>7. At(text, none) \notin SPACES /\ At(text, m1) \notin SPACES
  <2>1. none \in none .. m - 1 /\ m1 \in m1 .. v - 1
    BY <1>1, <1>4
  <2>2. QED
    BY <1>6, <2>1 DEF Solid
<1>8. MethodStart(text) = none
  <2>1. WordStart(text, none, line) = none
    BY <1>1, <1>5, <1>7, WordFound
  <2>2. QED
    BY <1>4, <1>6, <2>1 DEF MethodStart
<1>9. MethodEnd(text) = m
  <2>1. WordEnd(text, none, line) = m
    BY <1>1, <1>2, <1>5, <1>6, WordFound
  <2>2. QED
    BY <1>4, <1>6, <1>8, <2>1 DEF MethodEnd
<1>10. PathStart(text) = m1
  <2>1. WordStart(text, m, line) = m1
    <3>1. m + 1 < line /\ At(text, m + 1) \notin SPACES
      BY <1>4, <1>5, <1>7
    <3>2. WordStart(text, m, line) = m + 1
      BY <1>1, <1>2, <1>5, <3>1, WordBehindSpace
    <3>3. QED
      BY <1>4, <3>2
  <2>2. QED
    BY <1>4, <1>6, <1>9, <2>1 DEF PathStart
<1>11. PathEnd(text) = v
  <2>1. WordEnd(text, m1, line) = v
    BY <1>1, <1>2, <1>5, <1>6, WordFound
  <2>2. QED
    BY <1>4, <1>6, <1>10, <2>1 DEF PathEnd
<1>12. HostHeaders(text) = {s}
  BY HostLine DEF RequestWords
<1>13. First(HostHeaders(text), 0) = s
  <2>1. PICK places : places = {s}
    OBVIOUS
  <2>2. places \subseteq Nat /\ s \in places /\ \A j \in places : s <= j
    BY <1>1, <2>1
  <2>3. First(places, 0) = s
    BY <2>2, FirstIs
  <2>4. QED
    BY <1>12, <2>1, <2>3
<1>15. WordStart(text, s6, e) = s6
  <2>1. CASE s6 < e
    <3>1. s6 \in s6 .. e - 1
      BY <1>1, <1>5, <2>1
    <3>2. At(text, s6) \notin SPACES
      BY <1>6, <3>1 DEF Solid
    <3>3. QED
      BY <1>1, <1>5, <2>1, <3>2, WordFound
  <2>2. CASE s6 = e
    <3>1. WordStart(text, e, e) = e
      BY <1>1, WordBehindSpace
    <3>2. QED
      BY <2>2, <3>1
  <2>3. QED
    BY <1>1, <1>5, <2>1, <2>2
<1>16. TrimmedEnd(text, s6, e) = e
  BY <1>1, <1>5, <1>6, SolidUntrimmed
<1>17. RequestHost(text) = Slice(text, s6, e)
  BY <1>3, <1>4, <1>13, <1>15, <1>16 DEF RequestHost
<1>18. /\ Slice(text, none, m) = method /\ Slice(text, m1, v) = path
       /\ Slice(text, s6, e) = host
  BY <1>4 DEF RequestWords
<1>19. m1 < v /\ {s} # {}
  BY <1>1, <1>4
<1>20. QED
  BY <1>8, <1>9, <1>10, <1>11, <1>12, <1>17, <1>18, <1>19 DEF ReadsAsRequest

\* A request that can be asked.
Asks(carried) ==
    /\ carried.method \in HTTP_METHODS
    /\ Unspaced(carried.path) /\ carried.path # <<>>
    /\ Unspaced(carried.host)
    /\ IsUtf8(http_request(carried.method, carried.path, carried.host))
    /\ Plain(SCHEME \o carried.host \o carried.path)

\* While the parser reads the request that was sent.
AtRequest(carried) ==
    /\ resolved = <<>>
    /\ \/ /\ at = "hello" /\ hostname = None /\ url = None
          /\ message = http_request(carried.method, carried.path, carried.host)
       \/ /\ at = "found" /\ hostname = carried.host
          /\ url = SCHEME \o carried.host \o carried.path

(* A request is bytes, begins with no handshake, and reads as what was asked. *)
LEMMA RequestIsSent ==
    ASSUME NEW carried, Asks(carried),
           NEW text, text = http_request(carried.method, carried.path, carried.host)
    PROVE  /\ text \in Seq(Nat) /\ text # <<>> /\ At(text, 0) # HANDSHAKE
           /\ IsRequest(text)
           /\ RequestHost(text) = carried.host
           /\ RequestUrl(text) = SCHEME \o carried.host \o carried.path
<1>1. PICK method, path, host : /\ method = carried.method /\ path = carried.path
                                /\ host = carried.host
  OBVIOUS
<1>2. /\ method \in HTTP_METHODS /\ path \in Seq(Nat) /\ host \in Seq(Nat) /\ path # <<>>
      /\ \A i \in DOMAIN path : path[i] \notin SPACES
      /\ \A i \in DOMAIN host : host[i] \notin SPACES
  BY <1>1, BufferIsText DEF Asks, Unspaced, Plain
<1>3. text = http_request(method, path, host)
  BY <1>1
<1>4. PICK m, v, s, e : /\ RequestBytes(text, m, v, s, e)
                        /\ RequestWords(text, m, v, s, e, method, path, host)
  BY <1>2, <1>3, RequestLaidOut
<1>5. ReadsAsRequest(text, method, path, host)
  BY <1>4, RequestReads
<1>6. text \in Seq(Nat) /\ Len(text) = e + 4 /\ e \in Nat /\ m \in Nat /\ m >= 1 /\ m <= Len(text)
  BY <1>4 DEF RequestBytes
<1>7. At(text, 0) = method[1]
  <2>1. Slice(text, 0, m) = method
    BY <1>4 DEF RequestWords
  <2>2. Slice(text, 0, m) = SubSeq(text, 1, m)
    BY DEF Slice
  <2>3. SubSeq(text, 1, m)[1] = text[1]
    BY <1>6
  <2>4. At(text, 0) = text[1]
    BY DEF At
  <2>5. QED
    BY <2>1, <2>2, <2>3, <2>4, Zenon
<1>8. method[1] # HANDSHAKE
  BY <1>2, MethodIsWord
<1>9. IsUtf8(text)
  BY DEF Asks
<1>10. IsRequest(text)
  BY <1>2, <1>5, <1>9 DEF IsRequest, ReadsAsRequest
<1>11. RequestHost(text) = host /\ RequestUrl(text) = SCHEME \o host \o path
  BY <1>5 DEF ReadsAsRequest, RequestUrl
<1>12. text # <<>>
  BY <1>6
<1>13. QED
  BY <1>1, <1>6, <1>7, <1>8, <1>10, <1>11, <1>12

(* A step of the parser, while it reads the request that was sent. *)
LEMMA RequestStep ==
    ASSUME NEW carried, Asks(carried), AtRequest(carried),
           NEW payload, payload = http_request(carried.method, carried.path, carried.host),
           ParserNext(payload)
    PROVE  AtRequest(carried)'
<1>1. /\ At(payload, 0) # HANDSHAKE /\ IsRequest(payload)
      /\ RequestHost(payload) = carried.host
      /\ RequestUrl(payload) = SCHEME \o carried.host \o carried.path
  BY RequestIsSent
<1>2. at \in {"hello", "found"}
  BY DEF AtRequest
<1>3. ReadHello \/ TryHttp(payload)
  BY <1>2
     DEF ParserNext, ReadQuery, ReadHeader, NextItem, NameFails, NameEnds, Jump, Label,
         TakesTurn, InName, ItemFails, ReadQuestion, ReadAnswer,
         SkipExtension, EnterList, TakeName, SkipName, LeaveList
<1>4. at = "hello"
  BY <1>2, <1>3 DEF ReadHello, TryHttp
<1>5. message = payload /\ resolved = <<>>
  BY <1>4 DEF AtRequest
<1>6. ~IsHello
  BY <1>1, <1>5 DEF IsHello
<1>7. TryHttp(payload)
  BY <1>3, <1>6 DEF ReadHello
<1>8. /\ hostname' = Lossy(RequestHost(payload)) /\ url' = Lossy(RequestUrl(payload))
      /\ at' = "found" /\ resolved' = resolved
  BY <1>1, <1>7 DEF TryHttp
<1>9. Lossy(carried.host) = carried.host
  BY DEF Asks, Unspaced, Plain
<1>10. Lossy(SCHEME \o carried.host \o carried.path) = SCHEME \o carried.host \o carried.path
  BY DEF Asks, Plain
<1>11. hostname' = carried.host /\ url' = SCHEME \o carried.host \o carried.path
  BY <1>1, <1>8, <1>9, <1>10, Zenon
<1>12. QED
  BY <1>5, <1>8, <1>11 DEF AtRequest

-----------------------------------------------------------------------------
(*****************************************************************************)
(* Packets as they were sent                                                 *)
(*****************************************************************************)

\* While the parser reads what was sent.
ReadAsSent(carried) ==
    CASE carried.kind = "query"    -> AtQuery(carried)
      [] carried.kind = "response" -> AtResponse(carried)
      [] carried.kind = "hello"    -> AtHello(carried.sni)
      [] carried.kind = "request"  -> AtRequest(carried)

(* What a packet carries is bytes, and of a ClientHello or a request there *)
(* are some.                                                               *)
LEMMA PayloadIsText ==
    ASSUME NEW sent, Carries(sent)
    PROVE  /\ Payload(sent.carried) \in Seq(Nat)
           /\ ~OverUdp(sent) => Payload(sent.carried) # <<>>
<1>1. PICK carried : carried = sent.carried
  OBVIOUS
<1>2. CASE /\ carried.kind = "query"
           /\ carried.id \in Word /\ IsName(carried.name)
  <2>1. PICK e : e = encode_dns_name(carried.name)
    OBVIOUS
  <2>2. e \in Seq(Nat) /\ carried.id \in Nat
    BY <1>2, <2>1, NameEncoded, WordIsNatural DEF Encoded
  <2>3. dns_query(carried.id, carried.name) \in Seq(Nat)
    BY <2>1, <2>2, QueryReads DEF ReadsAsQuery
  <2>4. QED
    BY <1>1, <1>2, <2>3 DEF Payload, OverUdp
<1>3. CASE /\ carried.kind = "response"
           /\ carried.id \in Word /\ IsName(carried.name) /\ carried.ip \in IPv4
  <2>1. PICK e, ip : e = encode_dns_name(carried.name) /\ ip = carried.ip
    OBVIOUS
  <2>2. e \in Seq(Nat) /\ carried.id \in Nat /\ ip \in Seq(Nat) /\ Len(ip) = 4
    BY <1>3, <2>1, NameEncoded, WordIsNatural, AddressIsRead DEF Encoded, IsAddress4
  <2>3. dns_response(carried.id, carried.name, ip) \in Seq(Nat)
    BY <2>1, <2>2, ResponseReads DEF ReadsAsResponse
  <2>4. QED
    BY <1>1, <1>3, <2>1, <2>3 DEF Payload, OverUdp
<1>4. CASE carried.kind = "hello" /\ Plain(carried.sni)
  <2>1. PICK bytes, sni : sni = carried.sni /\ bytes = tls_client_hello(sni)
    OBVIOUS
  <2>2. sni \in Seq(Nat)
    BY <1>4, <2>1, BufferIsText DEF Plain
  <2>3. bytes \in Seq(Nat) /\ Len(bytes) >= 5
    BY <2>1, <2>2, HelloIsSent
  <2>4. bytes # <<>>
    BY <2>3
  <2>5. QED
    BY <1>1, <1>4, <2>1, <2>3, <2>4 DEF Payload
<1>5. CASE carried.kind = "request" /\ Asks(carried)
  <2>1. PICK text : text = http_request(carried.method, carried.path, carried.host)
    OBVIOUS
  <2>2. text \in Seq(Nat) /\ text # <<>>
    BY <1>5, <2>1, RequestIsSent
  <2>3. QED
    BY <1>1, <1>5, <2>1, <2>2 DEF Payload
<1>6. ASSUME carried.kind = "request", IsUtf8(Payload(carried))
      PROVE  IsUtf8(http_request(carried.method, carried.path, carried.host))
  BY <1>6 DEF Payload
<1>7. QED
  BY <1>1, <1>2, <1>3, <1>4, <1>5, <1>6 DEF Carries, Asks

(* A step of the parser, while it reads what was sent. *)
LEMMA SentStep ==
    ASSUME NEW sent, Carries(sent), ReadAsSent(sent.carried),
           ParserNext(Payload(sent.carried))
    PROVE  ReadAsSent(sent.carried)'
<1>1. PICK carried, payload : carried = sent.carried /\ payload = Payload(carried)
  OBVIOUS
<1>2. ReadAsSent(carried) /\ ParserNext(payload)
  BY <1>1
<1>3. CASE /\ carried.kind = "query"
           /\ carried.id \in Word /\ IsName(carried.name)
  <2>1. AtQuery(carried)
    BY <1>2, <1>3 DEF ReadAsSent
  <2>2. AtQuery(carried)'
    BY <1>2, <1>3, <2>1, QueryStep
  <2>3. QED
    BY <1>1, <1>3, <2>2 DEF ReadAsSent
<1>4. CASE /\ carried.kind = "response"
           /\ carried.id \in Word /\ IsName(carried.name) /\ carried.ip \in IPv4
  <2>1. AtResponse(carried)
    BY <1>2, <1>4 DEF ReadAsSent
  <2>2. AtResponse(carried)'
    BY <1>2, <1>4, <2>1, ResponseStep
  <2>3. QED
    BY <1>1, <1>4, <2>2 DEF ReadAsSent
<1>5. CASE carried.kind = "hello" /\ Plain(carried.sni)
  <2>1. PICK sni : sni = carried.sni
    OBVIOUS
  <2>2. AtHello(sni) /\ Plain(sni)
    BY <1>2, <1>5, <2>1 DEF ReadAsSent
  <2>3. AtHello(sni)'
    BY <1>2, <2>2, HelloNamedStep
  <2>4. QED
    BY <1>1, <1>5, <2>1, <2>3 DEF ReadAsSent
<1>6. CASE carried.kind = "request" /\ Asks(carried)
  <2>1. AtRequest(carried)
    BY <1>2, <1>6 DEF ReadAsSent
  <2>2. payload = http_request(carried.method, carried.path, carried.host)
    BY <1>1, <1>6 DEF Payload
  <2>3. AtRequest(carried)'
    BY <1>2, <1>6, <2>1, <2>2, RequestStep
  <2>4. QED
    BY <1>1, <1>6, <2>3 DEF ReadAsSent
<1>7. ASSUME carried.kind = "request", IsUtf8(Payload(carried))
      PROVE  IsUtf8(http_request(carried.method, carried.path, carried.host))
  BY <1>7 DEF Payload
<1>8. QED
  BY <1>1, <1>3, <1>4, <1>5, <1>6, <1>7 DEF Carries, Asks

(* The parser that is called for what was sent. *)
LEMMA SentStarts ==
    ASSUME NEW sent, Carries(sent), sent.src \in Endpoints, sent.dst \in Endpoints,
           segment' = SegmentOf(sent), Start(segment')
    PROVE  ReadAsSent(sent.carried)'
<1>1. PICK carried, payload : carried = sent.carried /\ payload = Payload(carried)
  OBVIOUS
<1>2. /\ at' = ParserFor(segment') /\ message' = payload
      /\ hostname' = None /\ url' = None /\ resolved' = <<>>
  BY <1>1 DEF Start, SegmentOf
<1>3. /\ segment'.src = sent.src /\ segment'.dst = sent.dst
      /\ segment'.protocol = Protocol(sent) /\ segment'.payload = payload
  BY <1>1 DEF SegmentOf
<1>4. CASE carried.kind = "query" /\ sent.dst[2] = 53
  <2>1. Protocol(sent) = UDP /\ payload = dns_query(carried.id, carried.name)
    BY <1>1, <1>4 DEF Protocol, OverUdp, Payload
  <2>2. at' = "query"
    BY <1>2, <1>3, <1>4, <2>1 DEF ParserFor
  <2>3. AtQuery(carried)'
    BY <1>2, <2>1, <2>2 DEF AtQuery
  <2>4. QED
    BY <1>1, <1>4, <2>3 DEF ReadAsSent
<1>5. CASE carried.kind = "response" /\ sent.src[2] = 53 /\ sent.dst[2] # 53
  <2>1. Protocol(sent) = UDP /\ payload = dns_response(carried.id, carried.name, carried.ip)
    BY <1>1, <1>5 DEF Protocol, OverUdp, Payload
  <2>2. at' = "response"
    BY <1>2, <1>3, <1>5, <2>1 DEF ParserFor
  <2>3. AtResponse(carried)'
    BY <1>2, <2>1, <2>2 DEF AtResponse
  <2>4. QED
    BY <1>1, <1>5, <2>3 DEF ReadAsSent
<1>6. ASSUME ~OverUdp(sent)
      PROVE  at' = "hello"
  <2>1. Protocol(sent) = TCP /\ payload # <<>>
    BY <1>1, <1>6, PayloadIsText DEF Protocol
  <2>2. QED
    BY <1>2, <1>3, <2>1 DEF ParserFor, TCP, UDP
<1>7. CASE carried.kind = "hello"
  <2>1. payload = tls_client_hello(carried.sni) /\ ~OverUdp(sent)
    BY <1>1, <1>7 DEF Payload, OverUdp
  <2>2. at' = "hello"
    BY <1>6, <2>1
  <2>3. PICK sni : sni = carried.sni
    OBVIOUS
  <2>4. AtHello(sni)'
    BY <1>2, <2>1, <2>2, <2>3 DEF AtHello
  <2>5. QED
    BY <1>1, <1>7, <2>3, <2>4 DEF ReadAsSent
<1>8. CASE carried.kind = "request"
  <2>1. /\ payload = http_request(carried.method, carried.path, carried.host)
        /\ ~OverUdp(sent)
    BY <1>1, <1>8 DEF Payload, OverUdp
  <2>2. at' = "hello"
    BY <1>6, <2>1
  <2>3. AtRequest(carried)'
    BY <1>2, <2>1, <2>2 DEF AtRequest
  <2>4. QED
    BY <1>1, <1>8, <2>3 DEF ReadAsSent
<1>9. QED
  BY <1>1, <1>4, <1>5, <1>7, <1>8 DEF Carries

(* What it has found in the end is what the packet should tell. *)
LEMMA SentTells ==
    ASSUME NEW sent, sent # None, Carries(sent), segment = SegmentOf(sent),
           ReadAsSent(sent.carried), at = "found", NEW ts
    PROVE  [src |-> segment.src, dst |-> segment.dst,
            protocol |-> segment.protocol, payload |-> segment.payload, ts |-> ts,
            hostname |-> hostname, url |-> url, answers |-> resolved] = Tells(sent, ts)
<1>1. PICK carried : carried = sent.carried
  OBVIOUS
<1>2. /\ segment.src = sent.src /\ segment.dst = sent.dst
      /\ segment.protocol = Protocol(sent) /\ segment.payload = Payload(carried)
  BY <1>1 DEF SegmentOf
<1>3. CASE carried.kind = "query"
  <2>1. hostname = Text(carried.name) /\ url = None /\ resolved = <<>>
    BY <1>1, <1>3 DEF ReadAsSent, AtQuery
  <2>2. QED
    BY <1>1, <1>2, <1>3, <2>1 DEF Tells
<1>4. CASE carried.kind = "response"
  <2>1. hostname = None /\ url = None /\ resolved = AnswerOf(carried)
    BY <1>1, <1>4 DEF ReadAsSent, AtResponse
  <2>2. QED
    BY <1>1, <1>2, <1>4, <2>1 DEF Tells, AnswerOf
<1>5. CASE carried.kind = "hello"
  <2>1. hostname = carried.sni /\ url = None /\ resolved = <<>>
    BY <1>1, <1>5 DEF ReadAsSent, AtHello
  <2>2. QED
    BY <1>1, <1>2, <1>5, <2>1 DEF Tells
<1>6. CASE carried.kind = "request"
  <2>1. /\ hostname = carried.host /\ url = SCHEME \o carried.host \o carried.path
        /\ resolved = <<>>
    BY <1>1, <1>6 DEF ReadAsSent, AtRequest
  <2>2. QED
    BY <1>1, <1>2, <1>6, <2>1 DEF Tells
<1>7. QED
  BY <1>1, <1>3, <1>4, <1>5, <1>6 DEF Carries

\* The packet that is parsed is one that was sent, and is read as such.
TakenAsSent(sent) ==
    /\ sent # None /\ Carries(sent)
    /\ segment = SegmentOf(sent)
    /\ ReadAsSent(sent.carried)

\* What is known of the packets that were sent: those that are behind were told,
\* and one is parsed.
SentSoFar ==
    /\ PacketsInOrder /\ Len(packets) = next - 1
    /\ reading \in {"records", "read"} =>
          /\ Len(file) >= 24
          /\ link_type = StatedWord(file, 20)
          /\ nano = InNanos(file)
    /\ at # "idle" /\ next \in DOMAIN capture.truth.sent =>
          TakenAsSent(capture.truth.sent[next])
    /\ GeneratedIsReadBack

(* One more packet, and its place. *)
LEMMA PacketPlaced ==
    ASSUME PacketsInOrder, NEW packet, packets' = Append(packets, packet),
           Len(packets) = next - 1, next \in Nat
    PROVE  /\ PacketsInOrder' /\ Len(packets') = next
           /\ \A i \in DOMAIN packets' :
                 \/ i \in DOMAIN packets /\ packets'[i] = packets[i]
                 \/ i = next /\ packets'[i] = packet
<1>1. PacketsInOrder'
  BY PacketAdded
<1>2. PICK S, before, after :
         /\ S = {packets[i] : i \in DOMAIN packets} \cup {packet}
         /\ before = packets /\ after = Append(packets, packet)
  OBVIOUS
<1>3. before \in Seq({packets[i] : i \in DOMAIN packets})
  BY <1>2 DEF PacketsInOrder
<1>4. {packets[i] : i \in DOMAIN packets} \subseteq S /\ packet \in S
  BY <1>2
<1>5. before \in Seq(S)
  BY <1>3, <1>4, SeqMonotonic
<1>6. PICK n : n = Len(before)
  OBVIOUS
<1>7. /\ n \in Nat /\ n + 1 = next /\ DOMAIN before = 1 .. n
  BY <1>2, <1>5, <1>6
<1>8. /\ Len(after) = n + 1 /\ DOMAIN after = 1 .. n + 1
      /\ after[n + 1] = packet
      /\ \A i \in 1 .. n : after[i] = before[i]
  BY <1>2, <1>4, <1>5, <1>6
<1>9. \A i \in 1 .. n + 1 : i \in 1 .. n \/ i = n + 1
  BY <1>7
<1>10. QED
  BY <1>1, <1>2, <1>7, <1>8, <1>9

(* The packet that comes next, if it is one that was sent: it was read as it *)
(* was written, in its second, and of a link that the parsers know it is the *)
(* frame around what was sent.                                               *)
LEMMA NextWasSent ==
    ASSUME IInv, RecordsSoFar, SentSoFar, HoldsRecords(capture), HoldsSent(capture),
           reading = "read", next <= Len(raw),
           NEW sent, sent = capture.truth.sent, next \in DOMAIN sent
    PROVE  /\ raw[next].ts = Written[next].ts
           /\ IF link_type \in {LINKTYPE_ETHERNET, LINKTYPE_RAW}
              THEN sent[next] # None /\ WrittenAs(sent[next], link_type, raw[next].data)
              ELSE sent[next] = None
<1>1. next \in Nat /\ next >= 1 /\ Len(raw) \in Nat
  BY DEF IInv, TypeOK, ReaderTypeOK
<1>2. PICK k \in 0 .. Len(Written) :
         /\ Len(raw) = k
         /\ \A i \in 1 .. k :
               /\ raw[i].data = Written[i].data
               /\ \/ raw[i].ts = Written[i].ts
                  \/ nano /\ raw[i].ts = Written[i].ts + 1
  BY DEF RecordsSoFar, WholePacketsRead, Written
<1>3. Written \in Seq(Packet)
  BY DEF HoldsRecords, Written, Packet
<1>4. next \in 1 .. k /\ next \in DOMAIN Written
  BY <1>1, <1>2, <1>3
<1>5. Len(file) >= 24 /\ link_type = StatedWord(file, 20) /\ nano = InNanos(file)
  BY DEF SentSoFar
<1>6. /\ ~InNanos(file)
      /\ IF link_type \in {LINKTYPE_ETHERNET, LINKTYPE_RAW}
         THEN sent[next] # None /\ WrittenAs(sent[next], link_type, Written[next].data)
         ELSE sent[next] = None
  BY <1>4, <1>5 DEF HoldsSent, Written, file
<1>7. raw[next].data = Written[next].data
  BY <1>2, <1>4
<1>8. raw[next].ts = Written[next].ts
  BY <1>2, <1>4, <1>5, <1>6
<1>9. QED
  BY <1>6, <1>7, <1>8

(* Of another link nothing is parsed. *)
LEMMA OtherLink ==
    ASSUME NEW data, NEW link, link \notin {LINKTYPE_ETHERNET, LINKTYPE_RAW}
    PROVE  ~Parses(data, link)
<1>1. Datagram(data, link) = <<>>
  BY DEF Datagram
<1>2. ~IpAccepted(<<>>)
  BY DEF IpAccepted
<1>3. QED
  BY <1>1, <1>2 DEF Parses

(* With the next packet, GeneratedIsReadBack holds of one more. *)
LEMMA OneMoreToldRight ==
    ASSUME IInv, SentSoFar, UNCHANGED capture, NEW packet,
           packets' = Append(packets, packet),
           NEW sent, sent = capture.truth.sent,
           next \in DOMAIN sent => packet = Tells(sent[next], Written[next].ts)
    PROVE  PacketsInOrder' /\ Len(packets') = next /\ GeneratedIsReadBack'
<1>1. next \in Nat
  BY DEF IInv, TypeOK, ReaderTypeOK
<1>2. /\ PacketsInOrder' /\ Len(packets') = next
      /\ \A i \in DOMAIN packets' :
            \/ i \in DOMAIN packets /\ packets'[i] = packets[i]
            \/ i = next /\ packets'[i] = packet
  BY <1>1, PacketPlaced DEF SentSoFar
<1>3. \A i \in DOMAIN packets \cap DOMAIN sent :
         packets[i] = Tells(sent[i], Written[i].ts)
  BY DEF SentSoFar, GeneratedIsReadBack, Written
<1>4. ASSUME NEW i \in DOMAIN packets' \cap DOMAIN sent
      PROVE  packets'[i] = Tells(sent[i], Written[i].ts)
  BY <1>2, <1>3, <1>4
<1>5. capture'.truth.sent = sent /\ capture'.truth.written = Written
  BY DEF Written
<1>6. GeneratedIsReadBack'
  <2>1. PICK written : written = Written
    OBVIOUS
  <2>2. \A i \in DOMAIN packets' \cap DOMAIN sent :
           packets'[i] = Tells(sent[i], written[i].ts)
    BY <1>4, <2>1
  <2>3. capture'.truth.sent = sent /\ capture'.truth.written = written
    BY <1>5, <2>1
  <2>4. QED
    BY <2>2, <2>3 DEF GeneratedIsReadBack
<1>7. QED
  BY <1>2, <1>6

(* A step of nothing keeps how a packet is read. *)
LEMMA TakenKept ==
    ASSUME NEW sent, TakenAsSent(sent), UNCHANGED <<segment, parserVars>>
    PROVE  TakenAsSent(sent)'
<1>1. UNCHANGED <<at, message, pos, cursor, name, jumped, end_pos, hops, questions,
                  answers, extensions_end, hostname, url, resolved, segment>>
  BY DEF parserVars, nameVars, foundVars
<1>2. PICK carried : carried = sent.carried
  OBVIOUS
<1>3. ASSUME NEW labels, NEW from, NameWalk(labels, from)
      PROVE  NameWalk(labels, from)'
  BY <1>1, <1>3 DEF NameWalk, Walked
<1>4. ASSUME NEW labels, NameWalk(labels, pos)
      PROVE  NameWalk(labels, pos)'
  BY <1>1, <1>4 DEF NameWalk, Walked
<1>5. AtQuery(carried) => AtQuery(carried)'
  BY <1>1, <1>3 DEF AtQuery
<1>6. AtResponse(carried) => AtResponse(carried)'
  <2>1. AtNames(carried) => AtNames(carried)'
    BY <1>1, <1>4 DEF AtNames, AtQuestion, AtAnswer
  <2>2. AtItem(carried) => AtItem(carried)'
    BY <1>1 DEF AtItem, AtQuestion, AtAnswer
  <2>3. QED
    BY <1>1, <2>1, <2>2 DEF AtResponse
<1>7. AtHello(carried.sni) => AtHello(carried.sni)'
  BY <1>1 DEF AtHello
<1>8. AtRequest(carried) => AtRequest(carried)'
  BY <1>1 DEF AtRequest
<1>9. ReadAsSent(carried)'
  BY <1>2, <1>5, <1>6, <1>7, <1>8 DEF TakenAsSent, ReadAsSent, Carries
<1>10. QED
  BY <1>1, <1>2, <1>9 DEF TakenAsSent

(* Every step keeps what is known of the packets that were sent. *)
LEMMA SentSoFarStep ==
    ASSUME IInv, RecordsSoFar, SentSoFar, HoldsRecords(capture), HoldsSent(capture),
           [Next]_vars
    PROVE  SentSoFar'
<1>1. PICK sent : sent = capture.truth.sent
  OBVIOUS
<1>2. next \in Nat /\ Len(raw) \in Nat /\ next + 1 - 1 = next
  BY DEF IInv, TypeOK, ReaderTypeOK
<1>3. ASSUME UNCHANGED <<packets, next, capture>>
      PROVE  /\ PacketsInOrder' /\ Len(packets') = next' - 1 /\ GeneratedIsReadBack'
  BY <1>3, SMTT(30), ZenonT(30)
     DEF SentSoFar, PacketsInOrder, GeneratedIsReadBack, Tells
<1>4. ASSUME UNCHANGED readerVars
      PROVE  /\ UNCHANGED capture
             /\ reading' \in {"records", "read"} =>
                   /\ Len(file') >= 24
                   /\ link_type' = StatedWord(file', 20)
                   /\ nano' = InNanos(file')
  BY <1>4 DEF SentSoFar, readerVars, file
<1>5. CASE UNCHANGED vars
  <2>1. UNCHANGED <<packets, next, capture, readerVars, segment, parserVars>>
    BY <1>5 DEF vars, readerVars
  <2>2. ASSUME NEW one, TakenAsSent(one)
        PROVE  TakenAsSent(one)'
    BY <2>1, <2>2, TakenKept
  <2>3. QED
    BY <1>3, <1>4, <2>1, <2>2 DEF SentSoFar, parserVars
<1>6. CASE Read
  <2>1. at = "idle"
    BY <1>6 DEF IInv, Underway, Read, ReaderNext, Refuse, Open, ReadRecord, Stop
  <2>2. at' = "idle" /\ UNCHANGED <<packets, next, capture>>
    BY <1>6, <2>1 DEF Read, parserVars, ReaderNext, Refuse, Open, ReadRecord, Stop
  <2>3. file' = file
    BY <2>2 DEF file
  <2>4. ASSUME Open
        PROVE  /\ Len(file') >= 24
               /\ link_type' = StatedWord(file', 20)
               /\ nano' = InNanos(file')
    BY <2>3, <2>4 DEF Open, StatedWord, InNanos, InLittle, TakenAsLittle
  <2>5. reading' \in {"records", "read"} =>
           /\ Len(file') >= 24
           /\ link_type' = StatedWord(file', 20)
           /\ nano' = InNanos(file')
    <3>1. CASE Open
      BY <2>4, <3>1
    <3>2. CASE Refuse
      BY <3>2 DEF Refuse
    <3>3. CASE ReadRecord \/ Stop
      BY <2>3, <3>3 DEF SentSoFar, ReadRecord, Stop
    <3>4. QED
      BY <1>6, <3>1, <3>2, <3>3 DEF Read, ReaderNext
  <2>6. QED
    BY <1>3, <2>2, <2>5 DEF SentSoFar
<1>7. CASE Skip
  <2>1. /\ at = "idle" /\ at' = "idle" /\ reading = "read" /\ next <= Len(raw)
        /\ ~Parses(raw[next].data, link_type)
        /\ packets' = Append(packets, None) /\ next' = next + 1 /\ UNCHANGED readerVars
    BY <1>7 DEF Skip, AtPacket, parserVars
  <2>2. ASSUME next \in DOMAIN sent
        PROVE  sent[next] = None
    <3>1. IF link_type \in {LINKTYPE_ETHERNET, LINKTYPE_RAW}
          THEN sent[next] # None /\ WrittenAs(sent[next], link_type, raw[next].data)
          ELSE sent[next] = None
      BY <1>1, <2>1, <2>2, NextWasSent
    <3>2. SUFFICES ASSUME sent[next] # None
                   PROVE  FALSE
      OBVIOUS
    <3>3. PICK one, link, data : one = sent[next] /\ link = link_type /\ data = raw[next].data
      OBVIOUS
    <3>4. link \in {LINKTYPE_ETHERNET, LINKTYPE_RAW} /\ WrittenAs(one, link, data)
      BY <3>1, <3>2, <3>3
    <3>5. Carries(one)
      BY <3>4 DEF WrittenAs
    <3>6. Payload(one.carried) \in Seq(Nat)
      BY <3>5, PayloadIsText
    <3>7. Parses(data, link)
      BY <3>4, <3>6, SentParses
    <3>8. QED
      BY <2>1, <3>3, <3>7
  <2>3. next \in DOMAIN sent => None = Tells(sent[next], Written[next].ts)
    BY <2>2 DEF Tells
  <2>4. PacketsInOrder' /\ Len(packets') = next /\ GeneratedIsReadBack'
    BY <1>1, <1>4, <2>1, <2>3, OneMoreToldRight
  <2>5. QED
    BY <1>2, <1>4, <2>1, <2>4 DEF SentSoFar
<1>8. CASE Told
  <2>1. PICK packet :
           packet = [src |-> segment.src, dst |-> segment.dst,
                     protocol |-> segment.protocol, payload |-> segment.payload,
                     ts |-> raw[next].ts,
                     hostname |-> hostname, url |-> url, answers |-> resolved]
    OBVIOUS
  <2>2. /\ at = "found" /\ at' = "idle" /\ packets' = Append(packets, packet)
        /\ next' = next + 1 /\ UNCHANGED readerVars
    BY <1>8, <2>1 DEF Told
  <2>3. reading = "read" /\ next <= Len(raw)
    BY <2>2 DEF IInv, Underway
  <2>4. ASSUME next \in DOMAIN sent
        PROVE  packet = Tells(sent[next], Written[next].ts)
    <3>1. PICK one, ts : one = sent[next] /\ ts = Written[next].ts
      OBVIOUS
    <3>2. raw[next].ts = ts
      BY <1>1, <2>3, <2>4, <3>1, NextWasSent
    <3>3. /\ one # None /\ Carries(one) /\ segment = SegmentOf(one)
          /\ ReadAsSent(one.carried)
      BY <1>1, <2>2, <2>4, <3>1 DEF SentSoFar, TakenAsSent
    <3>4. packet = [src |-> segment.src, dst |-> segment.dst,
                    protocol |-> segment.protocol, payload |-> segment.payload, ts |-> ts,
                    hostname |-> hostname, url |-> url, answers |-> resolved]
      BY <2>1, <3>2
    <3>5. packet = Tells(one, ts)
      BY <2>2, <3>3, <3>4, SentTells
    <3>6. QED
      BY <3>1, <3>5
  <2>5. PacketsInOrder' /\ Len(packets') = next /\ GeneratedIsReadBack'
    BY <1>1, <1>4, <2>2, <2>4, OneMoreToldRight
  <2>6. QED
    BY <1>2, <1>4, <2>2, <2>5 DEF SentSoFar
<1>9. CASE Take
  <2>1. /\ at = "idle" /\ reading = "read" /\ next <= Len(raw)
        /\ Parses(raw[next].data, link_type)
        /\ segment' = Segment(raw[next].data, link_type)
        /\ Start(segment')
        /\ UNCHANGED <<readerVars, next, packets>>
    BY <1>9 DEF Take, AtPacket
  <2>2. ASSUME next \in DOMAIN sent
        PROVE  TakenAsSent(sent[next])'
    <3>1. IF link_type \in {LINKTYPE_ETHERNET, LINKTYPE_RAW}
          THEN sent[next] # None /\ WrittenAs(sent[next], link_type, raw[next].data)
          ELSE sent[next] = None
      BY <1>1, <2>1, <2>2, NextWasSent
    <3>2. PICK one, link, data : one = sent[next] /\ link = link_type /\ data = raw[next].data
      OBVIOUS
    <3>3. link \in {LINKTYPE_ETHERNET, LINKTYPE_RAW}
      BY <2>1, <3>2, OtherLink
    <3>4. one # None /\ WrittenAs(one, link, data)
      BY <3>1, <3>2, <3>3
    <3>5. Carries(one) /\ one.src \in Endpoints /\ one.dst \in Endpoints
      BY <3>4 DEF WrittenAs
    <3>6. Payload(one.carried) \in Seq(Nat)
      BY <3>5, PayloadIsText
    <3>7. Segment(data, link) = SegmentOf(one)
      BY <3>3, <3>4, <3>6, SentParses
    <3>8. segment' = SegmentOf(one)
      BY <2>1, <3>2, <3>7
    <3>9. ReadAsSent(one.carried)'
      BY <2>1, <3>5, <3>8, SentStarts
    <3>10. TakenAsSent(one)'
      BY <3>4, <3>5, <3>8, <3>9 DEF TakenAsSent
    <3>11. sent[next]' = one
      BY <2>1, <3>2
    <3>12. QED
      BY <3>10, <3>11
  <2>3. capture' = capture
    BY <2>1 DEF readerVars
  <2>4. QED
    BY <1>1, <1>3, <1>4, <2>1, <2>2, <2>3 DEF SentSoFar
<1>10. CASE Parse
  <2>1. /\ UNCHANGED <<readerVars, next, segment, packets>>
        /\ ParserNext(segment.payload)
    BY <1>10 DEF Parse
  <2>2. at # "idle"
    BY <2>1 DEF ParserNext, ReadQuery, ReadHeader, NextItem, NameFails, NameEnds,
                Jump, Label, ItemFails, ReadQuestion, ReadAnswer, ReadHello,
                SkipExtension, EnterList, TakeName, SkipName, LeaveList, TryHttp,
                TakesTurn, InName
  <2>3. ASSUME next \in DOMAIN sent
        PROVE  TakenAsSent(sent[next])'
    <3>1. PICK one : one = sent[next]
      OBVIOUS
    <3>2. one # None /\ Carries(one) /\ segment = SegmentOf(one) /\ ReadAsSent(one.carried)
      BY <1>1, <2>2, <2>3, <3>1 DEF SentSoFar, TakenAsSent
    <3>3. segment.payload = Payload(one.carried)
      BY <3>2 DEF SegmentOf
    <3>4. ReadAsSent(one.carried)'
      BY <2>1, <3>2, <3>3, SentStep
    <3>5. TakenAsSent(one)'
      BY <2>1, <3>2, <3>4 DEF TakenAsSent
    <3>6. sent[next]' = one
      BY <2>1, <3>1
    <3>7. QED
      BY <3>5, <3>6
  <2>4. capture' = capture
    BY <2>1 DEF readerVars
  <2>5. QED
    BY <1>1, <1>3, <1>4, <2>1, <2>3, <2>4 DEF SentSoFar
<1>11. QED
  BY <1>5, <1>6, <1>7, <1>8, <1>9, <1>10 DEF Next

(* The reader and the parsers, for every capture that holds packets as        *)
(* bin/gen_sample_pcap.rs writes them, in either byte order, behind a VLAN     *)
(* tag, IP options or padding or without, whatever names, servers and requests *)
(* they carry: each packet is told with the endpoints, the time, the payload,  *)
(* the names, the addresses and the URL that it was written with.              *)
THEOREM GeneratedPacketsAreReadBack ==
    ASSUME \A c \in Captures : HoldsRecords(c) /\ HoldsSent(c)
    PROVE  Spec => []GeneratedIsReadBack
<1>1. Init => RecordsSoFar
  BY DEF Init, ReaderInit, RecordsSoFar, WholePacketsRead
<1>2. IInv /\ RecordsSoFar /\ [Next]_vars => RecordsSoFar'
  BY StepRecords DEF RecordsSoFar
<1>3. Init => SentSoFar
  <2>1. SUFFICES ASSUME Init PROVE SentSoFar
    OBVIOUS
  <2>2. at = "idle" /\ packets = <<>> /\ next = 1 /\ reading = "open"
    BY <2>1, Zenon DEF Init, ReaderInit, ParserInit
  <2>3. PacketsInOrder /\ Len(packets) = next - 1
    BY <2>2 DEF PacketsInOrder
  <2>4. GeneratedIsReadBack
    BY <2>2 DEF GeneratedIsReadBack
  <2>5. QED
    BY <2>2, <2>3, <2>4 DEF SentSoFar
<1>4. IInv /\ RecordsSoFar /\ SentSoFar /\ [Next]_vars => SentSoFar'
  BY SentSoFarStep DEF RecordsSoFar
<1>5. SentSoFar => GeneratedIsReadBack
  BY DEF SentSoFar
<1>6. QED
  BY <1>1, <1>2, <1>3, <1>4, <1>5, InvariantHolds, PTL DEF Spec

==============================================================================
