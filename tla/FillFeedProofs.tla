---------------------------- MODULE FillFeedProofs ----------------------------
(***************************************************************************)
(* Proofs about FillFeed, for every number of fills, every capacity of the *)
(* ring and size of the snapshot, and every number and kind of faults.     *)
(***************************************************************************)
EXTENDS FillFeed, SequenceTheorems, WellFoundedInduction, TLAPS

-----------------------------------------------------------------------------
(* Sequences.                                                              *)

\* A set of natural numbers has a smallest element.
LEMMA Least ==
    ASSUME NEW T, T \subseteq Nat, T # {}
    PROVE  \E x \in T : \A y \in T : x <= y
<1> DEFINE R == OpToRel(<, Nat)
<1>1. IsWellFoundedOn(R, Nat)
  BY NatLessThanWellFounded
<1>2. ASSUME NEW x \in Nat, NEW y \in Nat, x < y
      PROVE  <<x, y>> \in R
  BY <1>2 DEF OpToRel
<1> HIDE DEF R
<1>3. PICK x \in T : \A y \in T : ~(<<y, x>> \in R)
  BY <1>1, WFMin
<1>4. ASSUME NEW y \in T
      PROVE  x <= y
  <2>1. ~(y < x)
    BY <1>2, <1>3
  <2> QED BY <2>1
<1> QED BY <1>4

\* A sequence without its first element.
LEMMA Taken ==
    ASSUME NEW S, NEW s \in Seq(S), s # <<>>
    PROVE  /\ Head(s) \in S
           /\ Head(s) = s[1] /\ 1 \in DOMAIN s
           /\ Tail(s) \in Seq(S)
           /\ Len(Tail(s)) + 1 = Len(s)
           /\ DOMAIN s = 1 .. Len(s) /\ Len(s) \in Nat
           /\ DOMAIN Tail(s) = 1 .. Len(Tail(s)) /\ Len(Tail(s)) \in Nat
           /\ \A i \in DOMAIN Tail(s) :
                 i + 1 \in DOMAIN s /\ Tail(s)[i] = s[i + 1]
<1>1. Len(s) \in Nat /\ DOMAIN s = 1 .. Len(s) /\ Len(s) # 0
  BY EmptySeq, LenProperties
<1>2. /\ Head(s) \in S
      /\ Tail(s) \in Seq(S)
      /\ Len(Tail(s)) = Len(s) - 1
      /\ \A i \in 1 .. Len(Tail(s)) : Tail(s)[i] = s[i + 1]
  BY HeadTailProperties
<1>3. DOMAIN Tail(s) = 1 .. Len(Tail(s))
  BY <1>2, LenProperties
<1> QED BY <1>1, <1>2, <1>3

\* A sequence with one more element.
LEMMA Appended ==
    ASSUME NEW S, NEW s \in Seq(S), NEW x \in S
    PROVE  /\ Append(s, x) \in Seq(S)
           /\ Append(s, x) # <<>>
           /\ Len(Append(s, x)) = Len(s) + 1 /\ Len(s) \in Nat
           /\ DOMAIN Append(s, x) = 1 .. Len(s) + 1
           /\ DOMAIN s = 1 .. Len(s)
           /\ \A i \in DOMAIN s : Append(s, x)[i] = s[i]
           /\ Append(s, x)[Len(s) + 1] = x
  BY AppendProperties, LenProperties

\* The last n elements of a sequence.
LEMMA LastNFacts ==
    ASSUME NEW S, NEW s \in Seq(S), NEW n \in Nat
    PROVE  LET m == IF Len(s) > n THEN Len(s) - n ELSE 0 IN
           /\ LastN(s, n) \in Seq(S)
           /\ m \in 0 .. Len(s)
           /\ Len(LastN(s, n)) = Len(s) - m
           /\ Len(LastN(s, n)) <= n
           /\ DOMAIN LastN(s, n) = 1 .. Len(s) - m
           /\ \A i \in DOMAIN LastN(s, n) :
                 i + m \in DOMAIN s /\ LastN(s, n)[i] = s[i + m]
<1> DEFINE m == IF Len(s) > n THEN Len(s) - n ELSE 0
<1>1. Len(s) \in Nat /\ DOMAIN s = 1 .. Len(s)
  BY LenProperties
<1>2. m \in 0 .. Len(s) /\ Len(s) - m <= n
  BY <1>1
<1>3. LastN(s, n) = SubSeq(s, m + 1, Len(s))
  BY <1>1 DEF LastN
<1> HIDE DEF m
<1>4. \A i \in m + 1 .. Len(s) : s[i] \in S
  BY <1>1, <1>2, ElementOfSeq
<1>5. /\ LastN(s, n) \in Seq(S)
      /\ Len(LastN(s, n)) = IF m + 1 <= Len(s) THEN Len(s) - (m + 1) + 1 ELSE 0
      /\ \A i \in 1 .. Len(s) - (m + 1) + 1 : LastN(s, n)[i] = s[m + 1 + i - 1]
  BY <1>1, <1>2, <1>3, <1>4, SubSeqProperties
<1>6. Len(LastN(s, n)) = Len(s) - m
  <2>1. CASE m + 1 <= Len(s)
    <3>1. Len(LastN(s, n)) = Len(s) - (m + 1) + 1
      BY <1>5, <2>1
    <3> QED BY <1>1, <1>2, <3>1
  <2>2. CASE ~(m + 1 <= Len(s))
    <3>1. Len(LastN(s, n)) = 0
      BY <1>5, <2>2
    <3>2. Len(s) - m = 0
      <4>1. Len(s) \in Nat /\ m \in 0 .. Len(s)
        BY <1>1, <1>2
      <4> QED BY <2>2, <4>1
    <3> QED BY <3>1, <3>2
  <2> QED BY <2>1, <2>2
<1>7. DOMAIN LastN(s, n) = 1 .. Len(s) - m
  BY <1>5, <1>6, LenProperties
<1>8. ASSUME NEW i \in 1 .. Len(s) - m
      PROVE  i + m \in DOMAIN s /\ LastN(s, n)[i] = s[i + m]
  <2>1. /\ m + 1 + i - 1 = i + m
        /\ i \in 1 .. Len(s) - (m + 1) + 1
        /\ i + m \in 1 .. Len(s)
    BY <1>1, <1>2
  <2>2. LastN(s, n)[i] = s[m + 1 + i - 1]
    BY <1>5, <2>1
  <2> QED BY <1>1, <2>1, <2>2
<1> QED BY <1>2, <1>5, <1>6, <1>7, <1>8 DEF m

\* What the ring keeps of an ascending sequence of fills ascends, has the same
\* newest fill and, with what is pushed out, misses nothing.
LEMMA KeptFacts ==
    ASSUME NEW s \in Seq(Fills)
    PROVE  /\ Kept(s) \in Seq(Fills)
           /\ Len(Kept(s)) <= Capacity
           /\ Ascending(s) => Ascending(Kept(s))
           /\ Range(Kept(s)) \subseteq Range(s)
           /\ Range(s) = Range(Kept(s)) \cup PushedOut(s)
           /\ s = <<>> => Kept(s) = <<>>
           /\ s # <<>> => Kept(s) # <<>> /\ Last(Kept(s)) = Last(s)
           /\ PushedOut(s) \subseteq Fills
<1> DEFINE m == IF Len(s) > Capacity THEN Len(s) - Capacity ELSE 0
<1>1. /\ Kept(s) \in Seq(Fills)
      /\ m \in 0 .. Len(s)
      /\ Len(Kept(s)) = Len(s) - m
      /\ Len(Kept(s)) <= Capacity
      /\ DOMAIN Kept(s) = 1 .. Len(s) - m
      /\ \A i \in DOMAIN Kept(s) : i + m \in DOMAIN s /\ Kept(s)[i] = s[i + m]
  BY ConstantsAssumption, LastNFacts DEF Kept
<1>2. Len(s) \in Nat /\ DOMAIN s = 1 .. Len(s) /\ (s # <<>> => Len(s) # 0)
  BY LenProperties, EmptySeq
<1>3. s # <<>> => m < Len(s)
  BY <1>2, ConstantsAssumption
<1> HIDE DEF m
<1>4. Ascending(s) => Ascending(Kept(s))
  BY <1>1, <1>2 DEF Ascending
<1>5. Range(Kept(s)) \subseteq Range(s)
  BY <1>1 DEF Range
<1>6. Range(s) \subseteq Fills
  BY RangeOfSeq
<1>7. s = <<>> => Kept(s) = <<>>
  <2>1. s = <<>> => Len(s) = 0
    OBVIOUS
  <2>2. Len(s) = 0 => Len(Kept(s)) = 0
    <3>1. SUFFICES ASSUME Len(s) = 0 PROVE Len(Kept(s)) = 0
      OBVIOUS
    <3>2. m \in 0 .. 0 /\ Len(Kept(s)) = 0 - m
      BY <1>1, <3>1
    <3>3. m = 0
      BY <3>2
    <3> QED BY <3>2, <3>3
  <2> QED BY <1>1, <2>1, <2>2, EmptySeq
<1>8. s # <<>> => Kept(s) # <<>> /\ Last(Kept(s)) = Last(s)
  <2> SUFFICES ASSUME s # <<>>
               PROVE  Kept(s) # <<>> /\ Last(Kept(s)) = Last(s)
    OBVIOUS
  <2>1. Len(Kept(s)) \in DOMAIN Kept(s) /\ Len(Kept(s)) + m = Len(s)
        /\ Len(Kept(s)) # 0
    BY <1>1, <1>2, <1>3
  <2>2. Kept(s)[Len(Kept(s))] = s[Len(s)]
    BY <1>1, <2>1
  <2> QED BY <2>1, <2>2 DEF Last
<1> QED BY <1>1, <1>4, <1>5, <1>6, <1>7, <1>8 DEF PushedOut

\* A newer fill at the end keeps the order.
LEMMA AscendingAppend ==
    ASSUME NEW s \in Seq(Fills), NEW f \in Fills, Ascending(s),
           s # <<>> => Last(s) < f
    PROVE  Ascending(Append(s, f))
<1>1. /\ Len(s) \in Nat /\ DOMAIN s = 1 .. Len(s)
      /\ DOMAIN Append(s, f) = 1 .. Len(s) + 1
      /\ \A i \in DOMAIN s : Append(s, f)[i] = s[i]
      /\ Append(s, f)[Len(s) + 1] = f
      /\ \A i \in 1 .. Len(s) : s[i] \in Fills
  BY Appended, ElementOfSeq
<1>2. ASSUME NEW i \in 1 .. Len(s)
      PROVE  s[i] < f
  <2>1. s # <<>> /\ s[Len(s)] < f /\ Len(s) \in 1 .. Len(s)
    BY <1>1 DEF Last
  <2>2. s[i] = s[Len(s)] \/ s[i] < s[Len(s)]
    BY <1>1, <2>1 DEF Ascending
  <2> QED BY <1>1, <2>1, <2>2, ConstantsAssumption DEF Fills
<1> QED BY <1>1, <1>2 DEF Ascending

-----------------------------------------------------------------------------
(* The wire.                                                               *)

\* The reconciler's stage and counters are typed after a step that leaves them
\* alone.
LEMMA WorkKept == WorkOK /\ UNCHANGED <<batch, workVars>> => WorkOK'
  BY DEF WorkOK, workVars

\* So are the ring's order and what it covers.
LEMMA RingKept ==
    ASSUME FeedInv,
           UNCHANGED <<ring, highest, batch, mark, applied, executed>>,
           lost \subseteq lost'
    PROVE  RingInOrder' /\ CoverInv' /\ NoFillSkipped'
<1>1. RingInOrder' /\ NoFillSkipped'
  BY DEF FeedInv, RingInOrder, NoFillSkipped
<1>2. CoverInv'
  BY DEF FeedInv, CoverInv
<1> QED BY <1>1, <1>2

\* The message at the head, and those behind it.
LEMMA WireFacts ==
    ASSUME TypeOK, wire # <<>>
    PROVE  /\ Head(wire) \in Message
           /\ Head(wire) = wire[1] /\ 1 \in DOMAIN wire
           /\ Head(wire).fills \in Seq(Fills)
           /\ Tail(wire) \in Seq(Message)
           /\ Len(Tail(wire)) + 1 = Len(wire)
           /\ DOMAIN wire = 1 .. Len(wire) /\ Len(wire) \in Nat
           /\ DOMAIN Tail(wire) = 1 .. Len(Tail(wire))
           /\ Len(Tail(wire)) \in Nat
           /\ \A i \in DOMAIN Tail(wire) :
                 i + 1 \in DOMAIN wire /\ Tail(wire)[i] = wire[i + 1]
<1>1. wire \in Seq(Message)
  BY DEF TypeOK
<1>2. Head(wire) \in Message
  BY <1>1, Taken
<1>3. Head(wire).fills \in Seq(Fills)
  BY <1>2 DEF Message
<1> QED BY <1>1, <1>2, <1>3, Taken

\* The wire invariant is about the connection and the ring only.
LEMMA WireUntouched ==
    ASSUME WireInv, UNCHANGED <<executed, conn, wire, ring, highest, synced, lost>>
    PROVE  WireInv'
<1>1. RingEmpty' = RingEmpty
  BY DEF RingEmpty
<1>2. ASSUME NEW g, NEW i PROVE Known(g, i)' = Known(g, i)
  BY DEF Known, Carried
<1>3. ASSUME NEW i PROVE MessageOK(i)' = MessageOK(i)
  BY <1>1, <1>2 DEF MessageOK
<1> QED BY <1>1, <1>2, <1>3 DEF WireInv

\* When the head is handled or dropped and its fills are in the ring's past or
\* lost, what is behind it keeps its promise.
LEMMA HeadHandled ==
    ASSUME FeedInv, conn = "live", wire # <<>>, wire' = Tail(wire),
           conn' = conn, executed' = executed,
           highest' \in Nat, highest <= highest', lost \subseteq lost',
           \A f \in Range(Head(wire).fills) : f <= highest' \/ f \in lost'
    PROVE  WireInv'
<1>1. /\ Head(wire) = wire[1] /\ 1 \in DOMAIN wire
      /\ Len(wire') + 1 = Len(wire)
      /\ DOMAIN wire = 1 .. Len(wire) /\ Len(wire) \in Nat
      /\ DOMAIN wire' = 1 .. Len(wire') /\ Len(wire') \in Nat
      /\ \A i \in DOMAIN wire' : i + 1 \in DOMAIN wire /\ wire'[i] = wire[i + 1]
  BY WireFacts DEF FeedInv
<1>2. highest \in Nat /\ executed \in Nat
  BY ConstantsAssumption DEF FeedInv, TypeOK
<1>3. ASSUME NEW n \in 0 .. Len(wire'), NEW g \in Nat, Known(g, n + 1)
      PROVE  Known(g, n)'
  <2>1. CASE g <= highest
    BY <1>2, <2>1 DEF Known
  <2>2. CASE g \in lost
    BY <2>2 DEF Known
  <2>3. CASE g \in Carried(n + 1)
    <3>1. PICK j \in 1 .. n + 1 : g \in Range(wire[j].fills)
      BY <2>3 DEF Carried
    <3>2. CASE j = 1
      BY <1>1, <3>1, <3>2 DEF Known
    <3>3. CASE j # 1
      <4>1. j - 1 \in 1 .. n /\ j - 1 \in DOMAIN wire' /\ (j - 1) + 1 = j
        BY <1>1, <3>3
      <4>2. g \in Range(wire'[j - 1].fills)
        BY <1>1, <3>1, <4>1
      <4> QED BY <4>1, <4>2 DEF Known, Carried
    <3> QED BY <3>2, <3>3
  <2> QED BY <1>3, <2>1, <2>2, <2>3 DEF Known
<1>4. ASSUME NEW i \in DOMAIN wire'
      PROVE  MessageOK(i)'
  <2>1. i + 1 \in DOMAIN wire /\ wire'[i] = wire[i + 1] /\ i + 1 # 1
        /\ i \in 0 .. Len(wire') /\ i \in Nat
    BY <1>1
  <2>2. MessageOK(i + 1)
    BY <2>1 DEF FeedInv, WireInv
  <2>3. Len(wire'[i].fills) = 1 /\ ~wire'[i].snapshot
    BY <2>1, <2>2 DEF MessageOK
  <2>4. ASSUME NEW f \in Range(wire'[i].fills)
        PROVE  f <= executed' /\ \A g \in 1 .. f : Known(g, i)'
    BY <1>3, <2>1, <2>2 DEF MessageOK
  <2> QED BY <2>3, <2>4 DEF MessageOK
<1>5. ASSUME NEW g \in 1 .. executed'
      PROVE  Known(g, Len(wire))'
  <2>1. Known(g, Len(wire') + 1)
    BY <1>1 DEF FeedInv, WireInv
  <2> QED BY <1>1, <1>2, <1>3, <2>1
<1> QED BY <1>4, <1>5 DEF WireInv

\* A fill message at the end of the wire, for the next fill or for an old one.
LEMMA MessageSent ==
    ASSUME FeedInv, conn = "live", conn' = conn,
           NEW f \in Fills, f <= executed', executed' \in Nat,
           executed' = executed \/ (executed' = executed + 1 /\ f = executed'),
           wire' = Append(wire, [snapshot |-> FALSE, fills |-> <<f>>]),
           UNCHANGED <<ring, highest, lost>>
    PROVE  wire' \in Seq(Message) /\ WireInv'
<1> DEFINE m == [snapshot |-> FALSE, fills |-> <<f>>]
<1>1. m \in Message /\ m.fills = <<f>> /\ m.snapshot = FALSE
  BY DEF Message
<1>2. Len(m.fills) = 1 /\ Range(m.fills) = {f}
  BY <1>1 DEF Range
<1> HIDE DEF m
<1>3. /\ wire' \in Seq(Message)
      /\ Len(wire') = Len(wire) + 1 /\ Len(wire) \in Nat
      /\ DOMAIN wire' = 1 .. Len(wire) + 1
      /\ DOMAIN wire = 1 .. Len(wire)
      /\ \A i \in DOMAIN wire : wire'[i] = wire[i]
      /\ wire'[Len(wire) + 1] = m
  BY <1>1, Appended DEF FeedInv, TypeOK, m
<1>4. highest \in Nat /\ executed \in Nat /\ f \in Nat
  BY ConstantsAssumption DEF FeedInv, TypeOK, Fills
<1>5. ASSUME NEW n \in 0 .. Len(wire), NEW g, Known(g, n)
      PROVE  Known(g, n)'
  <2>1. CASE g \in Carried(n)
    <3>1. PICK j \in 1 .. n : g \in Range(wire[j].fills)
      BY <2>1 DEF Carried
    <3>2. wire'[j] = wire[j]
      BY <1>3
    <3> QED BY <3>1, <3>2 DEF Known, Carried
  <2> QED BY <1>5, <2>1 DEF Known
<1>6. ASSUME NEW g \in 1 .. executed'
      PROVE  Known(g, Len(wire))'
  <2>1. CASE g = f
    <3>1. Len(wire') \in 1 .. Len(wire') /\ wire'[Len(wire')] = m
      BY <1>3
    <3>2. g \in Range(wire'[Len(wire')].fills)
      BY <1>2, <2>1, <3>1
    <3> QED BY <3>1, <3>2 DEF Known, Carried
  <2>2. CASE g # f /\ g \in 1 .. executed
    <3>1. Known(g, Len(wire))
      BY <2>2 DEF FeedInv, WireInv
    <3>2. CASE g \in Carried(Len(wire))
      <4>1. PICK j \in 1 .. Len(wire) : g \in Range(wire[j].fills)
        BY <3>2 DEF Carried
      <4>2. wire'[j] = wire[j] /\ j \in 1 .. Len(wire')
        BY <1>3
      <4> QED BY <4>1, <4>2 DEF Known, Carried
    <3> QED BY <3>1, <3>2 DEF Known
  <2> QED BY <1>4, <2>1, <2>2
<1>7. ASSUME NEW i \in DOMAIN wire'
      PROVE  MessageOK(i)'
  <2>1. CASE i \in DOMAIN wire
    <3>1. wire'[i] = wire[i] /\ i \in 0 .. Len(wire) /\ MessageOK(i)
      BY <1>3, <2>1 DEF FeedInv, WireInv
    <3>2. ASSUME NEW h \in Range(wire'[i].fills)
          PROVE  h <= executed' /\ \A g \in 1 .. h : Known(g, i)'
      <4>1. h \in Nat
        <5>1. wire[i] \in Message
          BY <2>1, <1>3, ElementOfSeq DEF FeedInv, TypeOK
        <5>2. wire[i].fills \in Seq(Fills)
          BY <5>1 DEF Message
        <5>3. Range(wire[i].fills) \in SUBSET Fills
          BY <5>2, RangeOfSeq
        <5> QED BY <3>1, <5>3, ConstantsAssumption DEF Fills
      <4> QED BY <1>4, <1>5, <3>1, <4>1 DEF MessageOK
    <3> QED BY <3>1, <3>2 DEF MessageOK, RingEmpty
  <2>2. CASE i = Len(wire')
    <3>1. wire'[i] = m
      BY <1>3, <2>2
    <3>2. \A g \in 1 .. f : Known(g, Len(wire))'
      BY <1>4, <1>6
    <3> QED BY <1>1, <1>2, <2>2, <3>1, <3>2 DEF MessageOK
  <2> QED BY <1>3, <2>1, <2>2
<1> QED BY <1>3, <1>6, <1>7 DEF WireInv

\* The venue's answer to a subscription: the latest fills, those before lost.
LEMMA Subscribed ==
    ASSUME FeedInv, SubscribePrivate
    PROVE  wire' \in Seq(Message) /\ WireInv'
<1> DEFINE all   == [i \in 1 .. executed |-> i]
           fills == LastN(all, SnapshotSize)
           m     == [snapshot |-> TRUE, fills |-> fills]
<1>1. executed \in Nat /\ executed <= MaxFills /\ MaxFills \in Nat
      /\ SnapshotSize \in Nat
  BY ConstantsAssumption DEF FeedInv, TypeOK
<1>2. all \in Seq(Fills) /\ Len(all) = executed
  <2>1. all \in [1 .. executed -> Fills]
    BY <1>1 DEF Fills
  <2> QED BY <1>1, <2>1
<1>3. \A i \in 1 .. executed : all[i] = i
  OBVIOUS
<1> DEFINE cut == IF Len(all) > SnapshotSize THEN Len(all) - SnapshotSize ELSE 0
<1> HIDE DEF all
<1>4. /\ fills \in Seq(Fills)
      /\ cut \in 0 .. executed
      /\ DOMAIN fills = 1 .. executed - cut
      /\ \A i \in DOMAIN fills : fills[i] = all[i + cut]
  BY <1>1, <1>2, LastNFacts
<1>5. cut \in Nat /\ \A g \in 1 .. cut : g \in 1 .. executed - SnapshotSize
  BY <1>1, <1>2
<1> HIDE DEF fills, cut
<1>6. \A i \in DOMAIN fills : fills[i] = i + cut /\ fills[i] \in 1 .. executed
  BY <1>1, <1>3, <1>4, <1>5
<1>7. Ascending(fills)
  BY <1>1, <1>4, <1>5, <1>6 DEF Ascending
<1>8. m \in Message /\ m.fills = fills /\ m.snapshot = TRUE
  BY <1>4 DEF Message
<1>9. wire' = <<m>> /\ conn' = "live" /\ conn = "challenged"
      /\ UNCHANGED <<executed, ring, highest>>
      /\ lost' = lost \cup 1 .. (executed - SnapshotSize)
  BY DEF SubscribePrivate, wsVars, ringVars, fills, all
<1> HIDE DEF m
<1>10. wire' \in Seq(Message) /\ Len(wire') = 1 /\ wire'[1] = m
       /\ DOMAIN wire' = {1}
  BY <1>8, <1>9
<1>11. ASSUME NEW g \in 1 .. executed
       PROVE  Known(g, 1)'
  <2>1. CASE g \in 1 .. cut
    BY <1>5, <1>9, <2>1 DEF Known
  <2>2. CASE g > cut
    <3>1. g - cut \in DOMAIN fills /\ fills[g - cut] = g
      <4>1. g - cut \in 1 .. executed - cut /\ (g - cut) + cut = g
        BY <1>1, <1>5, <2>2
      <4> QED BY <1>4, <1>6, <4>1
    <3>2. g \in Range(wire'[1].fills)
      BY <1>8, <1>10, <3>1 DEF Range
    <3> QED BY <3>2 DEF Known, Carried
  <2> QED BY <1>1, <1>5, <2>1, <2>2
<1>12. RingEmpty'
  BY <1>9 DEF FeedInv, WireInv, RingEmpty
<1>13. MessageOK(1)'
  <2>1. \A f \in Range(fills) : f \in 1 .. executed
    BY <1>6 DEF Range
  <2>2. \A f \in Range(wire'[1].fills) :
           f <= executed' /\ \A g \in 1 .. f : Known(g, 1)'
    BY <1>1, <1>8, <1>9, <1>10, <1>11, <2>1
  <2> QED BY <1>7, <1>8, <1>10, <1>12, <2>2 DEF MessageOK
<1>14. \A g \in 1 .. executed' : Known(g, Len(wire))'
  BY <1>9, <1>10, <1>11
<1> QED BY <1>9, <1>10, <1>13, <1>14 DEF WireInv

-----------------------------------------------------------------------------
(* The ring.                                                               *)

\* The ring is given the fills of a message, s being what it would hold without
\* a bound: it keeps its order and its newest fill, and what falls out is lost.
LEMMA RingFilled ==
    ASSUME FeedInv, NEW s \in Seq(Fills), Ascending(s),
           \A i \in DOMAIN s : s[i] <= executed,
           ring' = Kept(s),
           highest' = (IF s = <<>> THEN 0 ELSE Last(s)),
           lost' = lost \cup PushedOut(s),
           \A g \in 1 .. highest' : g \in Range(s) \cup lost,
           executed' = executed, UNCHANGED recVars
    PROVE  /\ ring' \in Seq(Fills) /\ Len(ring') <= Capacity
           /\ highest' \in 0 .. executed'
           /\ lost' \subseteq Fills
           /\ RingInOrder' /\ CoverInv' /\ NoFillSkipped'
<1>1. /\ Kept(s) \in Seq(Fills)
      /\ Len(Kept(s)) <= Capacity
      /\ Ascending(Kept(s))
      /\ Range(Kept(s)) \subseteq Range(s)
      /\ Range(s) = Range(Kept(s)) \cup PushedOut(s)
      /\ s = <<>> => Kept(s) = <<>>
      /\ s # <<>> => Kept(s) # <<>> /\ Last(Kept(s)) = Last(s)
      /\ PushedOut(s) \subseteq Fills
  BY KeptFacts
<1>2. executed \in Nat
  BY ConstantsAssumption DEF FeedInv, TypeOK
<1>3. highest' \in 0 .. executed
  <2>1. CASE s = <<>>
    BY <1>2, <2>1
  <2>2. CASE s # <<>>
    <3>1. Len(s) \in DOMAIN s /\ s[Len(s)] \in Fills
      BY <2>2, EmptySeq, LenProperties, ElementOfSeq
    <3> QED BY <1>2, <2>2, <3>1, ConstantsAssumption DEF Last, Fills
  <2> QED BY <2>1, <2>2
<1>4. lost' \subseteq Fills
  BY <1>1 DEF FeedInv, TypeOK
<1>5. RingInOrder'
  <2>1. highest' = IF ring' = <<>> THEN 0 ELSE Last(ring')
    BY <1>1
  <2> QED BY <1>1, <2>1 DEF FeedInv, RingInOrder, recVars, workVars, Ascending
<1>6. CoverInv'
  <2>1. \A g \in 1 .. highest' : g \in Range(ring') \cup lost'
    BY <1>1
  <2>2. \A i \in DOMAIN ring' : ring'[i] <= executed'
    BY <1>1 DEF Range
  <2> QED BY <2>1, <2>2 DEF FeedInv, CoverInv, recVars, workVars
<1>7. NoFillSkipped'
  BY DEF FeedInv, NoFillSkipped, recVars, workVars
<1> QED BY <1>1, <1>3, <1>4, <1>5, <1>6, <1>7

\* Everything but the ring, the loss and the wire is left alone.
LEMMA SnapshotStep ==
    ASSUME FeedInv, ApplySnapshot
    PROVE  FeedInv'
<1> DEFINE s == Head(wire).fills
<1>1. /\ conn = "live" /\ wire # <<>> /\ Head(wire).snapshot
      /\ wire' = Tail(wire)
      /\ ring' = Kept(s)
      /\ lost' = lost \cup PushedOut(s)
      /\ highest' = IF s = <<>> THEN 0 ELSE Last(s)
      /\ synced' = TRUE
      /\ UNCHANGED <<executed, conn, batch, mark, applied, stage, ordN,
                     posN, torn, faults, deaf>>
  BY DEF ApplySnapshot, NextIsSnapshot, recVars, workVars
<1>2. /\ s \in Seq(Fills)
      /\ Head(wire) = wire[1] /\ 1 \in DOMAIN wire
      /\ Tail(wire) \in Seq(Message)
  BY <1>1, WireFacts DEF FeedInv
<1>3. MessageOK(1)
  BY <1>2 DEF FeedInv, WireInv
<1>4. /\ Ascending(s) /\ highest = 0 /\ ring = <<>>
      /\ \A f \in Range(s) : f <= executed /\ \A g \in 1 .. f : Known(g, 1)
  BY <1>1, <1>2, <1>3 DEF MessageOK, RingEmpty
<1> HIDE DEF s
<1>5. DOMAIN s = 1 .. Len(s) /\ Len(s) \in Nat
      /\ \A i \in DOMAIN s : s[i] \in Fills /\ s[i] <= executed
  BY <1>2, <1>4, LenProperties, ElementOfSeq DEF Range
<1>6. s # <<>> => Last(s) \in Range(s) /\ Last(s) \in Nat
  BY <1>2, <1>5, EmptySeq, ConstantsAssumption DEF Last, Range, Fills
<1>7. ASSUME NEW f \in Range(s)
      PROVE  f <= highest'
  <2>1. PICK i \in DOMAIN s : f = s[i]
    BY DEF Range
  <2>2. s # <<>> /\ highest' = s[Len(s)] /\ Len(s) \in DOMAIN s
    BY <1>1, <1>5, <2>1 DEF Last
  <2>3. f = s[Len(s)] \/ f < s[Len(s)]
    BY <1>4, <1>5, <2>1, <2>2 DEF Ascending
  <2> QED BY <1>5, <2>1, <2>2, <2>3, ConstantsAssumption DEF Fills
<1>8. \A g \in 1 .. highest' : g \in Range(s) \cup lost
  <2>1. SUFFICES ASSUME NEW g \in 1 .. highest'
                 PROVE  g \in Range(s) \cup lost
    OBVIOUS
  <2>2. s # <<>> /\ highest' = Last(s)
    BY <1>1, <2>1
  <2>3. Known(g, 1)
    BY <1>4, <1>6, <2>1, <2>2
  <2>4. Carried(1) = Range(s)
    BY <1>2 DEF Carried, s
  <2> QED BY <1>4, <2>1, <2>3, <2>4 DEF Known
<1>9. /\ ring' \in Seq(Fills) /\ Len(ring') <= Capacity
      /\ highest' \in 0 .. executed'
      /\ lost' \subseteq Fills
      /\ RingInOrder' /\ CoverInv' /\ NoFillSkipped'
  BY <1>1, <1>2, <1>4, <1>5, <1>8, RingFilled DEF recVars, workVars
<1>10. WireInv'
  <2>1. highest' \in Nat /\ highest <= highest'
    BY <1>4, <1>9, <1>1, ConstantsAssumption DEF FeedInv, TypeOK
  <2> QED BY <1>1, <1>7, <2>1, HeadHandled DEF s
<1>11. WorkOK'
  BY <1>1, WorkKept DEF FeedInv, TypeOK, workVars
<1> QED BY <1>1, <1>2, <1>9, <1>10, <1>11 DEF FeedInv, TypeOK

\* A fill is appended, or skipped as a duplicate.
LEMMA FillStep ==
    ASSUME FeedInv, ApplyFills
    PROVE  FeedInv'
<1> DEFINE m == Head(wire)
           f == Head(m.fills)
<1>1. /\ conn = "live" /\ wire # <<>> /\ ~m.snapshot
      /\ wire' = Tail(wire)
      /\ AppendFill(f)
      /\ UNCHANGED <<executed, conn, synced, batch, mark, applied, stage, ordN,
                     posN, torn, faults,
                     deaf>>
  BY DEF ApplyFills, NextIsFill, recVars, workVars
<1>2. /\ m.fills \in Seq(Fills)
      /\ m = wire[1] /\ 1 \in DOMAIN wire
      /\ Tail(wire) \in Seq(Message)
  BY <1>1, WireFacts DEF FeedInv
<1>3. MessageOK(1)
  BY <1>2 DEF FeedInv, WireInv
<1> HIDE DEF m
<1>4. Len(m.fills) = 1
  BY <1>1, <1>2, <1>3 DEF MessageOK
<1>5. f \in Fills /\ Range(m.fills) = {f}
  <2>1. m.fills # <<>> /\ DOMAIN m.fills = {1}
    <3>1. DOMAIN m.fills = 1 .. 1
      BY <1>2, <1>4, LenProperties
    <3>2. m.fills # <<>>
      BY <1>4, EmptySeq
    <3> QED BY <3>1, <3>2
  <2>2. f = m.fills[1] /\ f \in Fills
    BY <1>2, <2>1, Taken
  <2> QED BY <2>1, <2>2 DEF Range
<1> HIDE DEF f
<1>6. f <= executed /\ \A g \in 1 .. f : Known(g, 1)
  BY <1>2, <1>3, <1>5 DEF MessageOK
<1>7. highest \in Nat /\ executed \in Nat /\ f \in Nat
  BY <1>5, ConstantsAssumption DEF FeedInv, TypeOK, Fills
<1>8. CASE f <= highest
  <2>1. UNCHANGED <<ring, highest, lost>>
    BY <1>1, <1>8 DEF AppendFill
  <2>2. WireInv'
    BY <1>1, <1>5, <1>7, <1>8, <2>1, HeadHandled DEF m
  <2>3. RingInOrder' /\ CoverInv' /\ NoFillSkipped'
    BY <1>1, <2>1, RingKept
  <2>4. WorkOK'
    BY <1>1, WorkKept DEF FeedInv, TypeOK, workVars
  <2>5. TypeOK'
    BY <1>1, <1>2, <2>1, <2>4 DEF FeedInv, TypeOK
  <2> QED BY <2>2, <2>3, <2>5 DEF FeedInv
<1>9. CASE f > highest
  <2> DEFINE s == Append(ring, f)
  <2>1. highest' = f /\ ring' = Kept(s) /\ lost' = lost \cup PushedOut(s)
    BY <1>1, <1>7, <1>9 DEF AppendFill
  <2>2. ring \in Seq(Fills) /\ Ascending(ring)
        /\ highest = IF ring = <<>> THEN 0 ELSE Last(ring)
    BY DEF FeedInv, TypeOK, RingInOrder
  <2>3. /\ s \in Seq(Fills) /\ s # <<>>
        /\ Len(s) = Len(ring) + 1 /\ Len(ring) \in Nat
        /\ DOMAIN s = 1 .. Len(ring) + 1 /\ DOMAIN ring = 1 .. Len(ring)
        /\ \A i \in DOMAIN ring : s[i] = ring[i]
        /\ s[Len(ring) + 1] = f
    BY <1>5, <2>2, Appended
  <2>4. Ascending(s)
    BY <1>5, <1>9, <2>2, AscendingAppend
  <2> HIDE DEF s
  <2>5. \A i \in DOMAIN s : s[i] <= executed
    BY <1>6, <2>3 DEF FeedInv, CoverInv
  <2>6. highest' = IF s = <<>> THEN 0 ELSE Last(s)
    BY <2>1, <2>3 DEF Last
  <2>7. Range(ring) \subseteq Range(s) /\ f \in Range(s)
    BY <2>3 DEF Range
  <2>8. \A g \in 1 .. highest' : g \in Range(s) \cup lost
    <3>1. SUFFICES ASSUME NEW g \in 1 .. f
                   PROVE  g \in Range(s) \cup lost
      BY <2>1
    <3>2. Known(g, 1)
      BY <1>6
    <3>3. Carried(1) = {f}
      BY <1>2, <1>5 DEF Carried
    <3>4. g \in 1 .. highest => g \in Range(ring) \cup lost
      BY DEF FeedInv, CoverInv
    <3> QED BY <1>7, <2>7, <3>2, <3>3, <3>4 DEF Known
  <2>9. /\ ring' \in Seq(Fills) /\ Len(ring') <= Capacity
        /\ highest' \in 0 .. executed'
        /\ lost' \subseteq Fills
        /\ RingInOrder' /\ CoverInv' /\ NoFillSkipped'
    BY <1>1, <2>1, <2>3, <2>4, <2>5, <2>6, <2>8, RingFilled DEF recVars, workVars
  <2>10. WireInv'
    <3>1. highest' \in Nat /\ highest <= highest' /\ lost \subseteq lost'
      BY <1>7, <1>9, <2>1
    <3>2. \A h \in Range(Head(wire).fills) : h <= highest' \/ h \in lost'
      BY <1>5, <1>7, <2>1 DEF m
    <3> QED BY <1>1, <3>1, <3>2, HeadHandled
  <2>11. WorkOK'
    BY <1>1, WorkKept DEF FeedInv, TypeOK, workVars
  <2> QED BY <1>1, <1>2, <2>9, <2>10, <2>11 DEF FeedInv, TypeOK
<1> QED BY <1>7, <1>8, <1>9

-----------------------------------------------------------------------------
(* The reconciler.                                                         *)

\* The batch is the end of the ring above the watermark: there is a first new
\* fill, and the fills behind it are the newer ones.
LEMMA NewFillsFacts ==
    ASSUME FeedInv, highest > mark
    PROVE  \E first \in DOMAIN ring :
              /\ \A j \in DOMAIN ring : ring[j] > mark <=> j >= first
              /\ NewFills \in Seq(Fills)
              /\ DOMAIN NewFills = 1 .. Len(ring) - first + 1
              /\ \A i \in DOMAIN NewFills :
                    /\ first + i - 1 \in DOMAIN ring
                    /\ NewFills[i] = ring[first + i - 1]
<1> DEFINE T == {i \in DOMAIN ring : ring[i] > mark}
           First(i) == \A j \in DOMAIN ring : ring[j] > mark <=> j >= i
           first == CHOOSE i \in DOMAIN ring : First(i)
<1>1. /\ ring \in Seq(Fills) /\ Ascending(ring)
      /\ highest = IF ring = <<>> THEN 0 ELSE Last(ring)
      /\ mark \in Nat /\ highest \in Nat
  BY ConstantsAssumption DEF FeedInv, TypeOK, RingInOrder
<1>2. /\ Len(ring) \in Nat /\ DOMAIN ring = 1 .. Len(ring)
      /\ \A i \in DOMAIN ring : ring[i] \in Fills /\ ring[i] \in Nat
  BY <1>1, LenProperties, ElementOfSeq, ConstantsAssumption DEF Fills
<1>3. ring # <<>> /\ Len(ring) # 0
  BY <1>1, EmptySeq
<1>4. Len(ring) \in T
  BY <1>1, <1>2, <1>3 DEF Last
<1>5. T \subseteq Nat /\ T # {}
  BY <1>2, <1>4
<1>6. PICK least \in T : \A y \in T : least <= y
  <2> HIDE DEF T
  <2> QED BY <1>5, Least
<1>7. ASSUME NEW j \in DOMAIN ring
      PROVE  ring[j] > mark <=> j >= least
  <2>1. least \in DOMAIN ring /\ ring[least] > mark
    BY <1>6
  <2>2. ring[j] > mark => j >= least
    BY <1>2, <1>6
  <2>3. j > least => ring[j] > ring[least]
    BY <1>1, <1>2, <2>1 DEF Ascending
  <2> QED BY <1>1, <1>2, <2>1, <2>2, <2>3
<1>8. \E i \in DOMAIN ring : First(i)
  BY <1>6, <1>7
<1>9. first \in DOMAIN ring /\ First(first)
  BY <1>8
<1>10. NewFills = SubSeq(ring, first, Len(ring))
  BY DEF NewFills
<1> HIDE DEF first
<1>11. first \in Int /\ first >= 1 /\ first <= Len(ring)
       /\ \A i \in first .. Len(ring) : ring[i] \in Fills
  BY <1>2, <1>9
<1>12. /\ NewFills \in Seq(Fills)
       /\ Len(NewFills) = IF first <= Len(ring) THEN Len(ring) - first + 1 ELSE 0
       /\ \A i \in 1 .. Len(ring) - first + 1 : NewFills[i] = ring[first + i - 1]
  <2>1. ring \in Seq(Fills) /\ first \in 1 .. Len(ring) + 1 /\ Len(ring) \in 0 .. Len(ring)
    BY <1>1, <1>2, <1>11
  <2> QED BY <1>10, <1>11, <2>1, SubSeqProperties
<1>13. DOMAIN NewFills = 1 .. Len(ring) - first + 1
  BY <1>11, <1>12, LenProperties
<1>14. \A i \in DOMAIN NewFills : first + i - 1 \in DOMAIN ring
  BY <1>2, <1>11, <1>13
<1> QED BY <1>9, <1>12, <1>13, <1>14

\* The batch is what the ring has above the watermark, in order.
LEMMA BatchStep ==
    ASSUME FeedInv, TakeBatch
    PROVE  FeedInv'
<1>1. /\ highest > mark /\ batch' = NewFills /\ batch = <<>>
      /\ UNCHANGED <<executed, conn, wire, ring, highest, synced, mark, applied,
                     stage, ordN, posN, torn, faults, lost, deaf>>
  BY DEF TakeBatch, wsVars, ringVars, workVars, lossVars
<1>2. PICK first \in DOMAIN ring :
         /\ \A j \in DOMAIN ring : ring[j] > mark <=> j >= first
         /\ batch' \in Seq(Fills)
         /\ DOMAIN batch' = 1 .. Len(ring) - first + 1
         /\ \A i \in DOMAIN batch' :
               /\ first + i - 1 \in DOMAIN ring
               /\ batch'[i] = ring[first + i - 1]
  BY <1>1, NewFillsFacts
<1>3. /\ Len(ring) \in Nat /\ DOMAIN ring = 1 .. Len(ring)
      /\ \A i \in DOMAIN ring : ring[i] \in Nat
      /\ mark \in Nat /\ highest \in Nat
  <2>1. ring \in Seq(Fills) /\ mark \in 0 .. executed /\ highest \in 0 .. executed
        /\ executed \in 0 .. MaxFills
    BY DEF FeedInv, TypeOK
  <2>2. Len(ring) \in Nat /\ DOMAIN ring = 1 .. Len(ring)
    BY <2>1, LenProperties
  <2>3. \A i \in DOMAIN ring : ring[i] \in Fills
    BY <2>1, <2>2, ElementOfSeq
  <2> QED BY <2>1, <2>2, <2>3, ConstantsAssumption DEF Fills
<1>4. \A i \in DOMAIN batch' : batch'[i] > mark
  BY <1>2, <1>3
<1>5. Ascending(batch')
  <2> SUFFICES ASSUME NEW i \in DOMAIN batch', NEW j \in DOMAIN batch', i < j
               PROVE  batch'[i] < batch'[j]
    BY DEF Ascending
  <2>1. first + i - 1 < first + j - 1
    BY <1>2, <1>3
  <2>2. ring[first + i - 1] < ring[first + j - 1]
    BY <1>2, <2>1 DEF Ascending, FeedInv, RingInOrder
  <2> QED BY <1>2, <2>2
<1>6. RingInOrder'
  BY <1>1, <1>4, <1>5 DEF FeedInv, RingInOrder, Ascending
<1>7. \A i \in DOMAIN batch' : batch'[i] <= executed
  BY <1>2 DEF FeedInv, CoverInv
<1>8. ASSUME NEW i \in DOMAIN batch', NEW g \in 1 .. batch'[i]
      PROVE  g \in applied \cup lost \/ \E j \in 1 .. i : g = batch'[j]
  <2> DEFINE k == first + i - 1
  <2>1. k \in DOMAIN ring /\ batch'[i] = ring[k] /\ ring[k] \in Nat
        /\ first \in Nat /\ i \in Nat
    BY <1>2, <1>3
  <2>2. CASE g <= mark
    BY <1>3, <2>1, <2>2 DEF FeedInv, NoFillSkipped
  <2>3. CASE g > mark /\ g \notin lost
    <3>1. ring[k] <= highest
      <4>1. ring # <<>> /\ highest = ring[Len(ring)] /\ Len(ring) \in DOMAIN ring
        BY <1>3, <2>1 DEF FeedInv, RingInOrder, Last
      <4>2. k = Len(ring) \/ ring[k] < ring[Len(ring)]
        BY <1>3, <2>1, <4>1 DEF FeedInv, RingInOrder, Ascending
      <4> QED BY <1>3, <2>1, <4>1, <4>2
    <3>2. g \in 1 .. highest
      BY <1>3, <2>1, <3>1
    <3>3. PICK n \in DOMAIN ring : g = ring[n]
      BY <2>3, <3>2 DEF FeedInv, CoverInv, Range
    <3>4. n >= first
      BY <1>2, <2>3, <3>3
    <3>5. n <= k
      <4>1. k < n => ring[k] < ring[n]
        BY <2>1 DEF FeedInv, RingInOrder, Ascending
      <4> QED BY <1>3, <2>1, <3>3, <4>1
    <3> HIDE DEF k
    <3>6. n - first + 1 \in 1 .. i /\ first + (n - first + 1) - 1 = n
      BY <1>3, <2>1, <3>4, <3>5 DEF k
    <3>7. n - first + 1 \in DOMAIN batch'
      <4>1. n - first + 1 \in 1 .. Len(ring) - first + 1
        BY <1>3, <2>1, <3>4
      <4> QED BY <1>2, <4>1
    <3>8. batch'[n - first + 1] = ring[n]
      BY <1>2, <3>6, <3>7
    <3> QED BY <3>3, <3>6, <3>8
  <2> QED BY <1>3, <2>1, <2>2, <2>3
<1>9. CoverInv'
  BY <1>1, <1>7, <1>8 DEF FeedInv, CoverInv
<1>10. WireInv'
  BY <1>1, WireUntouched DEF FeedInv
<1>11. WorkOK'
  BY <1>1 DEF FeedInv, TypeOK, WorkOK
<1>12. TypeOK'
  BY <1>1, <1>2, <1>11 DEF FeedInv, TypeOK
<1> QED BY <1>1, <1>6, <1>9, <1>10, <1>12 DEF FeedInv, NoFillSkipped

\* The first fill of the batch is recorded, or found recorded, and the watermark
\* moves to it.
LEMMA AdvanceStep ==
    ASSUME FeedInv, batch # <<>>, Advance, applied' = applied \cup {Head(batch)},
           UNCHANGED <<wsVars, ringVars, ordN, posN, torn, faults, lossVars>>
    PROVE  FeedInv'
<1> DEFINE f == Head(batch)
<1>1. /\ batch # <<>> /\ batch' = Tail(batch)
      /\ stage' = "check"
      /\ applied' = applied \cup {f}
      /\ mark' = IF f > mark THEN f ELSE mark
      /\ UNCHANGED <<executed, conn, wire, ring, highest, synced, ordN, posN,
                     torn, faults, lost, deaf>>
  BY DEF Advance, wsVars, ringVars, lossVars
<1>2. /\ f \in Fills /\ f = batch[1] /\ 1 \in DOMAIN batch
      /\ batch' \in Seq(Fills)
      /\ DOMAIN batch = 1 .. Len(batch) /\ Len(batch) \in Nat
      /\ DOMAIN batch' = 1 .. Len(batch') /\ Len(batch') \in Nat
      /\ \A i \in DOMAIN batch' : i + 1 \in DOMAIN batch /\ batch'[i] = batch[i + 1]
  BY <1>1, Taken DEF FeedInv, TypeOK
<1> HIDE DEF f
<1>3. /\ f > mark /\ mark' = f /\ f \in Nat /\ mark \in Nat /\ f <= executed
      /\ executed \in Nat /\ f >= 1
  <2>1. f > mark
    BY <1>2 DEF FeedInv, RingInOrder
  <2>2. f <= executed
    BY <1>2 DEF FeedInv, CoverInv
  <2>3. f \in Nat /\ f >= 1
    BY <1>2, ConstantsAssumption DEF Fills
  <2>4. mark \in Nat /\ executed \in Nat
    BY ConstantsAssumption DEF FeedInv, TypeOK
  <2> QED BY <1>1, <2>1, <2>2, <2>3, <2>4
<1>4. \A g \in 1 .. f : g \in applied' \cup lost
  BY <1>1, <1>2 DEF FeedInv, CoverInv
<1>5. NoFillSkipped'
  BY <1>1, <1>3, <1>4 DEF NoFillSkipped
<1>6. RingInOrder'
  <2>1. Ascending(batch')
    BY <1>2 DEF FeedInv, RingInOrder, Ascending
  <2>2. \A i \in DOMAIN batch' : batch'[i] > mark'
    BY <1>2, <1>3 DEF FeedInv, RingInOrder, Ascending
  <2> QED BY <1>1, <2>1, <2>2 DEF FeedInv, RingInOrder, Ascending
<1>7. CoverInv'
  <2>1. \A i \in DOMAIN batch' : batch'[i] <= executed
    BY <1>2 DEF FeedInv, CoverInv
  <2>2. ASSUME NEW i \in DOMAIN batch', NEW g \in 1 .. batch'[i]
        PROVE  g \in applied' \cup lost \/ \E j \in 1 .. i : g = batch'[j]
    <3>1. g \in applied \cup lost \/ \E j \in 1 .. i + 1 : g = batch[j]
      BY <1>2 DEF FeedInv, CoverInv
    <3>2. ASSUME NEW j \in 1 .. i + 1, g = batch[j]
          PROVE  g \in applied' \/ \E n \in 1 .. i : g = batch'[n]
      <4>1. CASE j = 1
        BY <1>1, <1>2, <3>2, <4>1
      <4>2. CASE j # 1
        <5>1. j - 1 \in 1 .. i /\ j - 1 \in DOMAIN batch' /\ (j - 1) + 1 = j
          BY <1>2, <4>2
        <5> QED BY <1>2, <3>2, <5>1
      <4> QED BY <4>1, <4>2
    <3> QED BY <1>1, <3>1, <3>2
  <2> QED BY <1>1, <2>1, <2>2 DEF FeedInv, CoverInv
<1>8. WireInv'
  BY <1>1, WireUntouched DEF FeedInv
<1>9. applied' \subseteq 1 .. executed
  <2>1. applied \subseteq 1 .. executed /\ f \in 1 .. executed
    BY <1>3 DEF FeedInv, TypeOK
  <2> QED BY <1>1, <2>1
<1>10. WorkOK'
  BY <1>1 DEF FeedInv, TypeOK, WorkOK, Stage
<1> QED BY <1>1, <1>2, <1>3, <1>5, <1>6, <1>7, <1>8, <1>9, <1>10
        DEF FeedInv, TypeOK

\* The statements that move the fill in hand from one stage to the next.
LEMMA WorkStep ==
    ASSUME FeedInv, UNCHANGED <<wsVars, ringVars, batch, mark, applied, faults, lossVars>>,
           stage' \in Stage, batch # <<>>,
           ordN' \in [Fills -> Nat], posN' \in [Fills -> Nat], torn' = torn
    PROVE  FeedInv'
<1>1. UNCHANGED <<executed, conn, wire, ring, highest, synced, batch, mark,
                  applied, torn, faults, lost, deaf>>
  BY DEF wsVars, ringVars, lossVars
<1>2. WireInv'
  BY <1>1, WireUntouched DEF FeedInv
<1>3. WorkOK'
  BY <1>1 DEF FeedInv, TypeOK, WorkOK
<1>4. TypeOK'
  BY <1>1, <1>3 DEF FeedInv, TypeOK
<1> QED BY <1>1, <1>2, <1>4, RingKept DEF FeedInv

\* has_fill_been_applied and the three transactions.
LEMMA ApplyStep ==
    ASSUME FeedInv,
           \/ HasFillBeenApplied \/ ApplyFillToOrder \/ ApplyFillToPosition
           \/ RecordFillApplied
    PROVE  FeedInv'
<1>1. /\ batch \in Seq(Fills) /\ (stage # "check" => batch # <<>>)
      /\ ordN \in [Fills -> Nat] /\ posN \in [Fills -> Nat]
  BY DEF FeedInv, TypeOK, WorkOK
<1>2. batch # <<>> /\ Head(batch) \in Fills
  BY <1>1, Taken DEF HasFillBeenApplied, ApplyFillToOrder, ApplyFillToPosition,
     RecordFillApplied
<1>3. CASE HasFillBeenApplied
  <2>1. CASE Head(batch) \in applied
    BY <1>2, <1>3, <2>1, AdvanceStep DEF HasFillBeenApplied
  <2>2. CASE Head(batch) \notin applied
    BY <1>1, <1>2, <1>3, <2>2, WorkStep DEF HasFillBeenApplied, Stage
  <2> QED BY <2>1, <2>2
<1>4. CASE ApplyFillToOrder
  <2>1. ordN' \in [Fills -> Nat]
    BY <1>1, <1>2, <1>4 DEF ApplyFillToOrder
  <2>2. stage' \in Stage
    BY <1>4 DEF ApplyFillToOrder, Stage
  <2> QED BY <1>1, <1>2, <1>4, <2>1, <2>2, WorkStep DEF ApplyFillToOrder
<1>5. CASE ApplyFillToPosition
  <2>1. posN' \in [Fills -> Nat] /\ stage' \in Stage
    BY <1>1, <1>2, <1>5 DEF ApplyFillToPosition, Stage
  <2> QED BY <1>1, <1>2, <1>5, <2>1, WorkStep DEF ApplyFillToPosition
<1>6. CASE RecordFillApplied
  BY <1>2, <1>6, AdvanceStep DEF RecordFillApplied
<1> QED BY <1>3, <1>4, <1>5, <1>6

-----------------------------------------------------------------------------
(* The invariant.                                                          *)

\* What is left when the socket task gives a connection up.
LEMMA Emptied ==
    /\ <<>> \in Seq(Message) /\ <<>> \in Seq(Fills)
    /\ Len(<<>>) = 0 /\ DOMAIN <<>> = {}
    /\ Ascending(<<>>)
<1>1. <<>> \in Seq(Message) /\ <<>> \in Seq(Fills) /\ Len(<<>>) = 0
  BY EmptySeq
<1>2. DOMAIN <<>> = {}
  OBVIOUS
<1> QED BY <1>1, <1>2 DEF Ascending

\* Steps of the venue and of the network.
LEMMA FaultCount ==
    ASSUME FeedInv, NEW kind, Fault(kind)
    PROVE  faults' \in 0 .. MaxFaults
  BY ConstantsAssumption DEF Fault, FeedInv, TypeOK

\* An interrupted batch leaves nothing in hand.
LEMMA InterruptedWork ==
    ASSUME WorkOK, Interrupted
    PROVE  WorkOK' /\ batch' = <<>> /\ UNCHANGED applied
<1>1. \A f \in Fills : torn[f] \in Nat /\ torn[f] + 1 \in Nat
  BY DEF WorkOK
<1>2. torn' \in [Fills -> Nat]
  BY <1>1 DEF Interrupted
<1> QED BY <1>2 DEF WorkOK, Interrupted, Stage

\* Every step keeps the invariant.
LEMMA FeedStep == FeedInv /\ [Next]_vars => FeedInv'
<1> SUFFICES ASSUME FeedInv, [Next]_vars PROVE FeedInv'
  OBVIOUS
<1>1. CASE Connect
  <2>1. /\ conn = "down" /\ conn' = "challenged"
        /\ UNCHANGED <<executed, wire, ring, highest, synced, batch, mark,
                       applied, stage, ordN, posN, torn, faults, lost, deaf>>
    BY <1>1 DEF Connect, ringVars, recVars, workVars, lossVars
  <2>2. wire = <<>> /\ RingEmpty
    BY <2>1 DEF FeedInv, WireInv
  <2>3. WireInv'
    BY <2>1, <2>2, Emptied DEF WireInv, RingEmpty
  <2>4. WorkOK'
    BY <2>1, WorkKept DEF FeedInv, TypeOK, workVars
  <2>5. TypeOK'
    BY <2>1, <2>4 DEF FeedInv, TypeOK, Conn
  <2> QED BY <2>1, <2>3, <2>5, RingKept DEF FeedInv
<1>2. CASE SubscribePrivate
  <2>1. /\ conn' = "live"
        /\ lost' = lost \cup 1 .. (executed - SnapshotSize)
        /\ UNCHANGED <<executed, ring, highest, synced, batch, mark, applied,
                       stage, ordN, posN, torn, faults, deaf>>
    BY <1>2 DEF SubscribePrivate, ringVars, recVars, workVars
  <2>2. lost' \subseteq Fills
    <3>1. 1 .. (executed - SnapshotSize) \subseteq Fills
      BY ConstantsAssumption DEF FeedInv, TypeOK, Fills
    <3> QED BY <2>1, <3>1 DEF FeedInv, TypeOK
  <2>3. wire' \in Seq(Message) /\ WireInv'
    BY <1>2, Subscribed
  <2>4. WorkOK'
    BY <2>1, WorkKept DEF FeedInv, TypeOK, workVars
  <2>5. TypeOK'
    BY <2>1, <2>2, <2>3, <2>4 DEF FeedInv, TypeOK, Conn
  <2> QED BY <2>1, <2>3, <2>5, RingKept DEF FeedInv
<1>3. CASE ApplySnapshot
  BY <1>3, SnapshotStep
<1>4. CASE ApplyFills
  BY <1>4, FillStep
<1>5. CASE InvalidateAll
  <2>1. /\ conn' = "down" /\ wire' = <<>> /\ ring' = <<>> /\ highest' = 0
        /\ synced' = FALSE /\ deaf' = FALSE
        /\ UNCHANGED <<executed, batch, mark, applied, stage, ordN,
                     posN, torn, faults, lost>>
    BY <1>5 DEF InvalidateAll, recVars, workVars
  <2>2. TypeOK'
    <3>1. 0 \in 0 .. executed /\ 0 <= Capacity
      BY ConstantsAssumption DEF FeedInv, TypeOK
    <3>2. ring' \in Seq(Fills) /\ Len(ring') <= Capacity /\ wire' \in Seq(Message)
      BY <2>1, <3>1, Emptied
    <3>3. WorkOK'
      BY <2>1, WorkKept DEF FeedInv, TypeOK, workVars
    <3> QED BY <2>1, <3>1, <3>2, <3>3, Zenon DEF FeedInv, TypeOK, Conn
  <2>3. RingInOrder' /\ WireInv' /\ CoverInv' /\ NoFillSkipped'
    BY <2>1, Emptied
       DEF FeedInv, RingInOrder, WireInv, RingEmpty, CoverInv, NoFillSkipped,
           Ascending
  <2> QED BY <2>1, <2>2, <2>3 DEF FeedInv
<1>6. CASE TakeBatch
  BY <1>6, BatchStep
<1>7. CASE HasFillBeenApplied \/ ApplyFillToOrder \/ ApplyFillToPosition
              \/ RecordFillApplied
  BY <1>7, ApplyStep
<1>8. CASE Execute
  <2>1. /\ executed < MaxFills /\ executed' = executed + 1
        /\ UNCHANGED <<conn, ring, highest, synced, batch, mark, applied,
                       stage, ordN, posN, torn, faults, lost, deaf>>
    BY <1>8 DEF Execute, ringVars, recVars, workVars, lossVars
  <2>2. executed \in Nat /\ executed' \in Nat /\ executed' \in Fills
        /\ executed' \in 0 .. MaxFills
    BY <2>1, ConstantsAssumption DEF FeedInv, TypeOK, Fills
  <2>3. wire' \in Seq(Message) /\ WireInv'
    <3>1. CASE conn = "live"
      <4>1. wire' = Append(wire, [snapshot |-> FALSE, fills |-> <<executed'>>])
        BY <1>8, <3>1 DEF Execute
      <4>2. PICK f \in Fills : f = executed'
        BY <2>2
      <4>3. f <= executed' /\ conn' = conn /\ UNCHANGED <<ring, highest, lost>>
        BY <2>1, <2>2, <4>2
      <4>4. executed' = executed + 1 /\ f = executed'
            /\ wire' = Append(wire, [snapshot |-> FALSE, fills |-> <<f>>])
        BY <2>1, <4>1, <4>2
      <4> QED BY <2>2, <3>1, <4>3, <4>4, MessageSent
    <3>2. CASE conn # "live"
      <4>1. wire' = wire /\ wire = <<>>
        BY <1>8, <3>2 DEF Execute, FeedInv, WireInv
      <4> QED BY <2>1, <3>2, <4>1, Emptied DEF FeedInv, WireInv, RingEmpty
    <3> QED BY <3>1, <3>2
  <2>4. CoverInv'
    <3>1. \A n \in Fills : n <= executed => n <= executed'
      BY <2>1, <2>2, ConstantsAssumption DEF Fills
    <3>2. /\ \A i \in DOMAIN ring : ring[i] \in Fills
          /\ \A i \in DOMAIN batch : batch[i] \in Fills
      BY LenProperties, ElementOfSeq DEF FeedInv, TypeOK
    <3>3. /\ \A i \in DOMAIN ring' : ring'[i] <= executed'
          /\ \A i \in DOMAIN batch' : batch'[i] <= executed'
      BY <2>1, <3>1, <3>2 DEF FeedInv, CoverInv
    <3>4. \A g \in 1 .. highest' : g \in Range(ring') \cup lost'
      BY <2>1 DEF FeedInv, CoverInv
    <3>5. \A i \in DOMAIN batch' : \A g \in 1 .. batch'[i] :
             g \in applied' \cup lost' \/ \E j \in 1 .. i : g = batch'[j]
      BY <2>1 DEF FeedInv, CoverInv
    <3> QED BY <3>3, <3>4, <3>5 DEF CoverInv
  <2>5. TypeOK'
    <3>1. /\ highest' \in 0 .. executed' /\ mark' \in 0 .. executed'
          /\ applied' \subseteq 1 .. executed'
      BY <2>1, <2>2 DEF FeedInv, TypeOK
    <3>2. Len(ring') <= Capacity
      BY <2>1 DEF FeedInv, TypeOK
    <3>3. WorkOK'
      BY <2>1, WorkKept DEF FeedInv, TypeOK, workVars
    <3> QED BY <2>1, <2>2, <2>3, <3>1, <3>2, <3>3, Zenon DEF FeedInv, TypeOK
  <2> QED BY <2>1, <2>3, <2>4, <2>5 DEF FeedInv, RingInOrder, NoFillSkipped
<1>9. CASE ConnectionLost
  <2>1. /\ conn' = "lost" /\ wire' = <<>> /\ faults' \in 0 .. MaxFaults
        /\ UNCHANGED <<executed, ring, highest, synced, batch, mark, applied,
                       stage, ordN, posN, torn, lost, deaf>>
    BY <1>9, FaultCount DEF ConnectionLost, ringVars, recVars, workVars, lossVars
  <2>2. WorkOK'
    BY <2>1, WorkKept DEF FeedInv, TypeOK, workVars
  <2>3. TypeOK'
    BY <2>1, <2>2, Emptied DEF FeedInv, TypeOK, Conn
  <2>4. WireInv'
    BY <2>1, Emptied DEF WireInv
  <2> QED BY <2>1, <2>3, <2>4, RingKept DEF FeedInv
<1>10. CASE DropMessage
  <2>1. /\ conn = "live" /\ wire # <<>> /\ wire' = Tail(wire)
        /\ faults' \in 0 .. MaxFaults
        /\ lost' = lost \cup {f \in Range(Head(wire).fills) : f > highest}
        /\ deaf' = (deaf \/ Head(wire).snapshot)
        /\ UNCHANGED <<executed, conn, ring, highest, synced, batch, mark,
                       applied, stage, ordN, posN, torn>>
    BY <1>10, FaultCount DEF DropMessage, ringVars, recVars, workVars
  <2>2. wire' \in Seq(Message) /\ Head(wire) \in Message
        /\ Head(wire).fills \in Seq(Fills)
    BY <2>1, WireFacts DEF FeedInv
  <2>3. Range(Head(wire).fills) \subseteq Fills /\ highest \in Nat
    BY <2>2, RangeOfSeq, ConstantsAssumption DEF FeedInv, TypeOK
  <2>4. \A f \in Range(Head(wire).fills) : f <= highest' \/ f \in lost'
    BY <2>1, <2>3, ConstantsAssumption DEF Fills
  <2>5. WireInv'
    BY <2>1, <2>3, <2>4, HeadHandled
  <2>6. deaf' \in BOOLEAN /\ lost' \subseteq Fills
    BY <2>1, <2>2, <2>3 DEF FeedInv, TypeOK, Message
  <2>7. WorkOK'
    BY <2>1, WorkKept DEF FeedInv, TypeOK, workVars
  <2>8. TypeOK'
    BY <2>1, <2>2, <2>6, <2>7 DEF FeedInv, TypeOK
  <2> QED BY <2>1, <2>5, <2>8, RingKept DEF FeedInv
<1>11. ASSUME NEW f \in Fills, Redeliver(f)
       PROVE  FeedInv'
  <2>1. /\ conn = "live" /\ f <= executed /\ faults' \in 0 .. MaxFaults
        /\ wire' = Append(wire, [snapshot |-> FALSE, fills |-> <<f>>])
        /\ UNCHANGED <<executed, conn, ring, highest, synced, batch, mark,
                       applied, stage, ordN, posN, torn, lost, deaf>>
    BY <1>11, FaultCount DEF Redeliver, ringVars, recVars, workVars, lossVars
  <2>2. executed \in Nat
    BY ConstantsAssumption DEF FeedInv, TypeOK
  <2>3. wire' \in Seq(Message) /\ WireInv'
    <3>1. f <= executed' /\ executed' \in Nat /\ executed' = executed
          /\ conn = "live" /\ conn' = conn /\ UNCHANGED <<ring, highest, lost>>
      BY <2>1, <2>2
    <3>2. wire' = Append(wire, [snapshot |-> FALSE, fills |-> <<f>>])
      BY <2>1
    <3>3. executed' = executed \/ (executed' = executed + 1 /\ f = executed')
      BY <3>1
    <3> QED BY <3>1, <3>2, <3>3, MessageSent
  <2>4. WorkOK'
    BY <2>1, WorkKept DEF FeedInv, TypeOK, workVars
  <2>5. TypeOK'
    BY <2>1, <2>3, <2>4 DEF FeedInv, TypeOK
  <2> QED BY <2>1, <2>3, <2>5, RingKept DEF FeedInv
<1>12. CASE ApplyFails
  <2>1. /\ Interrupted /\ faults' \in 0 .. MaxFaults
        /\ UNCHANGED <<executed, conn, wire, ring, highest, synced, mark, lost,
                       deaf>>
    BY <1>12, FaultCount DEF ApplyFails, wsVars, ringVars, lossVars
  <2>2. WireInv'
    BY <2>1, WireUntouched DEF FeedInv
  <2>3. WorkOK' /\ batch' = <<>> /\ UNCHANGED applied
    BY <2>1, InterruptedWork DEF FeedInv, TypeOK
  <2>4. TypeOK'
    BY <2>1, <2>3, Emptied DEF FeedInv, TypeOK
  <2> QED BY <2>1, <2>2, <2>3, <2>4, Emptied
          DEF FeedInv, RingInOrder, CoverInv, NoFillSkipped
<1>13. CASE Crash
  <2>1. /\ conn' = "down" /\ wire' = <<>> /\ ring' = <<>> /\ highest' = 0
        /\ synced' = FALSE /\ batch' = <<>> /\ mark' = 0 /\ deaf' = FALSE
        /\ faults' \in 0 .. MaxFaults /\ WorkOK'
        /\ UNCHANGED <<executed, applied, lost>>
    BY <1>13, FaultCount, InterruptedWork DEF Crash, FeedInv, TypeOK
  <2>2. executed \in Nat
    BY ConstantsAssumption DEF FeedInv, TypeOK
  <2>3. TypeOK'
    <3>1. 0 \in 0 .. executed /\ 0 <= Capacity
      BY ConstantsAssumption DEF FeedInv, TypeOK
    <3>2. ring' \in Seq(Fills) /\ Len(ring') <= Capacity
          /\ wire' \in Seq(Message) /\ batch' \in Seq(Fills)
      BY <2>1, <3>1, Emptied
    <3> QED BY <2>1, <3>1, <3>2, Zenon DEF FeedInv, TypeOK, Conn
  <2>4. RingInOrder' /\ WireInv' /\ CoverInv' /\ NoFillSkipped'
    BY <2>1, Emptied
       DEF FeedInv, RingInOrder, WireInv, RingEmpty, CoverInv, NoFillSkipped
  <2> QED BY <2>1, <2>3, <2>4 DEF FeedInv
<1>14. CASE ChallengeFails
  <2>1. /\ conn = "challenged" /\ conn' = "public" /\ deaf' = TRUE
        /\ faults' \in 0 .. MaxFaults
        /\ UNCHANGED <<executed, wire, ring, highest, synced, batch, mark,
                       applied, stage, ordN, posN, torn, lost>>
    BY <1>14, FaultCount DEF ChallengeFails, ringVars, recVars, workVars
  <2>2. wire = <<>> /\ RingEmpty
    BY <2>1 DEF FeedInv, WireInv
  <2>3. WireInv'
    BY <2>1, <2>2, Emptied DEF WireInv, RingEmpty
  <2>4. WorkOK'
    BY <2>1, WorkKept DEF FeedInv, TypeOK, workVars
  <2>5. TypeOK'
    BY <2>1, <2>4 DEF FeedInv, TypeOK, Conn
  <2> QED BY <2>1, <2>3, <2>5, RingKept DEF FeedInv
<1>15. CASE UNCHANGED vars
  <2>1. UNCHANGED <<executed, conn, wire, ring, highest, synced, batch, mark,
                    applied, stage, ordN, posN, torn, faults, lost, deaf>>
    BY <1>15 DEF vars, wsVars, ringVars, recVars, workVars, lossVars
  <2>2. WireInv'
    BY <2>1, WireUntouched DEF FeedInv
  <2>3. WorkOK'
    BY <2>1, WorkKept DEF FeedInv, TypeOK, workVars
  <2>4. TypeOK'
    BY <2>1, <2>3 DEF FeedInv, TypeOK
  <2> QED BY <2>1, <2>2, <2>4, RingKept DEF FeedInv
<1> QED BY <1>1, <1>2, <1>3, <1>4, <1>5, <1>6, <1>7, <1>8, <1>9, <1>10, <1>11,
           <1>12, <1>13, <1>14, <1>15 DEF Next, SocketStep, ReconcilerStep

\* An empty ring and no fill.
LEMMA FeedInit == Init => FeedInv
<1> SUFFICES ASSUME Init PROVE FeedInv
  OBVIOUS
<1>1. TypeOK
  <2>1. 0 \in 0 .. MaxFills /\ 0 \in 0 .. 0 /\ 0 <= Capacity /\ 0 \in 0 .. MaxFaults
    BY ConstantsAssumption
  <2>2. ring \in Seq(Fills) /\ Len(ring) <= Capacity
        /\ wire \in Seq(Message) /\ batch \in Seq(Fills)
    BY <2>1, Emptied DEF Init
  <2>3. /\ ordN \in [Fills -> Nat] /\ posN \in [Fills -> Nat]
        /\ torn \in [Fills -> Nat]
        /\ applied \subseteq 1 .. executed /\ lost \subseteq Fills
    BY DEF Init
  <2>4. conn \in Conn /\ synced \in BOOLEAN /\ deaf \in BOOLEAN
        /\ stage \in Stage /\ stage = "check"
    BY Zenon DEF Init, Conn, Stage
  <2>5. /\ executed \in 0 .. MaxFills /\ highest \in 0 .. executed
        /\ mark \in 0 .. executed /\ faults \in 0 .. MaxFaults
    BY <2>1 DEF Init
  <2> QED BY <2>2, <2>3, <2>4, <2>5 DEF TypeOK, WorkOK
<1>2. RingInOrder /\ WireInv /\ CoverInv /\ NoFillSkipped
  BY Emptied DEF Init, RingInOrder, WireInv, RingEmpty, CoverInv, NoFillSkipped
<1> QED BY <1>1, <1>2 DEF FeedInv

\* Ring, wire, batch and watermark hold sequence numbers of fills that happened,
\* and the ring never outgrows FILLS_RING_CAPACITY.
THEOREM FeedTypeCorrect == Spec => []TypeOK
<1>1. FeedInv => TypeOK
  BY DEF FeedInv
<1> QED BY <1>1, FeedInit, FeedStep, PTL DEF Spec

\* The ring stays in sequence order with highest_seq its newest fill, and the
\* batch starts above the watermark (apply_snapshot, apply_fills,
\* reconcile_once).
THEOREM RingTheorem == Spec => []RingInOrder
<1>1. FeedInv => RingInOrder
  BY DEF FeedInv
<1> QED BY <1>1, FeedInit, FeedStep, PTL DEF Spec

\* CountInv is about the reconciler's place and counters only.
LEMMA CountKept ==
    ASSUME CountInv, UNCHANGED <<batch, applied, stage, ordN, posN, torn>>
    PROVE  CountInv'
  BY DEF CountInv, InHand

\* Every step keeps the counts.
LEMMA CountStep == FeedInv /\ CountInv /\ [Next]_vars => CountInv'
<1> SUFFICES ASSUME FeedInv, CountInv, [Next]_vars PROVE CountInv'
  OBVIOUS
<1>1. /\ batch \in Seq(Fills) /\ (stage # "check" => batch # <<>>)
      /\ ordN \in [Fills -> Nat] /\ posN \in [Fills -> Nat]
      /\ torn \in [Fills -> Nat]
  BY DEF FeedInv, TypeOK, WorkOK
<1>2. batch # <<>> => Head(batch) \in Fills
  BY <1>1, Taken
<1>3. CASE \/ SocketStep \/ Execute \/ ConnectionLost \/ ChallengeFails
           \/ DropMessage \/ (\E f \in Fills : Redeliver(f)) \/ UNCHANGED vars
  <2>1. UNCHANGED recVars
    BY <1>3 DEF SocketStep, Connect, SubscribePrivate, ApplySnapshot, ApplyFills,
       InvalidateAll, Execute, ConnectionLost, ChallengeFails, DropMessage,
       Redeliver, vars
  <2> QED BY <2>1, CountKept DEF recVars, workVars
<1>4. CASE TakeBatch
  <2>1. stage = "check" /\ UNCHANGED <<applied, stage, ordN, posN, torn>>
    BY <1>1, <1>4 DEF TakeBatch, workVars
  <2> QED BY <2>1 DEF CountInv, InHand
<1>5. CASE HasFillBeenApplied
  <2>1. /\ stage = "check" /\ UNCHANGED <<applied, ordN, posN, torn>>
        /\ \/ stage' = "check"
           \/ stage' = "order" /\ batch' = batch /\ Head(batch) \notin applied
    BY <1>5 DEF HasFillBeenApplied, Advance
  <2> QED BY <2>1 DEF CountInv, InHand
<1>6. CASE ApplyFillToOrder
  <2> DEFINE h == Head(batch)
  <2>1. stage = "order" /\ h \in Fills /\ h \notin applied
        /\ UNCHANGED <<batch, applied, posN, torn>>
    BY <1>1, <1>2, <1>6 DEF ApplyFillToOrder, CountInv
  <2>2. ordN[h] <= torn[h] /\ posN[h] <= ordN[h]
    BY <1>1, <2>1 DEF CountInv, InHand
  <2>3. CASE stage' = "record" /\ ordN' = ordN
    BY <1>1, <2>1, <2>2, <2>3 DEF CountInv, InHand
  <2>4. CASE stage' = "position" /\ ordN' = [ordN EXCEPT ![h] = @ + 1]
    <3>1. ordN'[h] = ordN[h] + 1 /\ \A f \in Fills \ {h} : ordN'[f] = ordN[f]
      BY <1>1, <2>1, <2>4
    <3> QED BY <1>1, <2>1, <2>2, <2>4, <3>1 DEF CountInv, InHand
  <2> QED BY <1>6, <2>3, <2>4 DEF ApplyFillToOrder
<1>7. CASE ApplyFillToPosition
  <2> DEFINE h == Head(batch)
  <2>1. /\ stage = "position" /\ stage' = "record" /\ h \in Fills
        /\ posN' = [posN EXCEPT ![h] = @ + 1]
        /\ UNCHANGED <<batch, applied, ordN, torn>>
    BY <1>1, <1>2, <1>7 DEF ApplyFillToPosition
  <2>2. posN'[h] = posN[h] + 1 /\ \A f \in Fills \ {h} : posN'[f] = posN[f]
    BY <1>1, <2>1
  <2>3. posN[h] < ordN[h]
    BY <2>1 DEF CountInv
  <2>4. \A f \in Fills : posN'[f] <= ordN'[f]
    BY <1>1, <2>1, <2>2, <2>3 DEF CountInv
  <2>5. \A f \in Fills : InHand(f)' = InHand(f)
    BY <2>1 DEF InHand
  <2> QED BY <2>1, <2>4, <2>5 DEF CountInv
<1>8. CASE RecordFillApplied
  <2>1. /\ stage = "record" /\ stage' = "check"
        /\ applied' = applied \cup {Head(batch)} /\ UNCHANGED <<ordN, posN, torn>>
    BY <1>8 DEF RecordFillApplied, Advance
  <2> QED BY <2>1 DEF CountInv, InHand
<1>9. CASE ApplyFails \/ Crash
  <2>1. Interrupted
    BY <1>9 DEF ApplyFails, Crash
  <2>2. /\ stage' = "check" /\ UNCHANGED <<applied, ordN, posN>>
        /\ \A f \in Fills : torn'[f] = IF InHand(f) THEN torn[f] + 1 ELSE torn[f]
    BY <2>1 DEF Interrupted
  <2>3. \A f \in Fills : InHand(f) => f \notin applied
    BY DEF CountInv, InHand
  <2>4. \A f \in Fills : ordN'[f] <= torn'[f] + IF f \in applied' THEN 1 ELSE 0
    BY <1>1, <2>2, <2>3 DEF CountInv
  <2> QED BY <2>2, <2>4 DEF CountInv, InHand
<1> QED BY <1>3, <1>4, <1>5, <1>6, <1>7, <1>8, <1>9 DEF Next, ReconcilerStep

\* However often a fill is replayed by snapshots, duplicates and restarts, it is
\* added to its order row once, and once more only for each interruption between
\* that transaction and record_fill_applied, and to the position never more
\* often (has_fill_been_applied, reconcile_once).
THEOREM AppliedOnceTheorem == Spec => []AppliedAtMostOnce
<1>1. Init => CountInv
  BY DEF Init, CountInv
<1>2. FeedInv /\ CountInv => AppliedAtMostOnce
  <2> SUFFICES ASSUME FeedInv, CountInv, NEW f \in Fills
               PROVE  ordN[f] <= 1 + torn[f] /\ posN[f] <= ordN[f]
    BY DEF AppliedAtMostOnce
  <2>1. torn[f] \in Nat /\ ordN[f] \in Nat
    BY DEF FeedInv, TypeOK, WorkOK
  <2> QED BY <2>1 DEF CountInv
<1> QED BY <1>1, <1>2, FeedInit, FeedStep, CountStep, PTL DEF Spec

\* The watermark passes no fill that the daemon could have taken
\* (reconcile_once, "stop at the first error ... without skipping a fill").
THEOREM NoSkipTheorem == Spec => []NoFillSkipped
<1>1. FeedInv => NoFillSkipped
  BY DEF FeedInv
<1> QED BY <1>1, FeedInit, FeedStep, PTL DEF Spec
=============================================================================
