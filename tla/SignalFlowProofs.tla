--------------------------- MODULE SignalFlowProofs ---------------------------
(***************************************************************************)
(* Proofs about SignalFlow, for every size of the queue and the feed, every *)
(* notional, FX rate and limit, and every market and portfolio.            *)
(***************************************************************************)
EXTENDS SignalFlow, SequenceTheorems, NaturalsInduction, WellFoundedInduction,
        TLAPS

-----------------------------------------------------------------------------
(* Sequences and numbers.                                                  *)

\* A set of natural numbers has a smallest element.
LEMMA Smallest ==
    ASSUME NEW T, T \subseteq Nat, T # {}
    PROVE  \E x \in T : \A y \in T : x <= y
<1> DEFINE Less == OpToRel(<, Nat)
<1>1. IsWellFoundedOn(Less, Nat)
  BY NatLessThanWellFounded
<1>2. \A x, y \in Nat : x < y => <<x, y>> \in Less
  BY DEF OpToRel
<1> HIDE DEF Less
<1>3. PICK x \in T : \A y \in T : ~(<<y, x>> \in Less)
  BY <1>1, WFMin
<1>4. ASSUME NEW y \in T PROVE x <= y
  <2>1. x \in Nat /\ y \in Nat
    OBVIOUS
  <2>2. ~(y < x)
    BY <1>2, <1>3, <2>1
  <2> QED BY <2>1, <2>2
<1> QED BY <1>4

\* A sequence without its first element.
LEMMA TailElements ==
    ASSUME NEW S, NEW s \in Seq(S), s # <<>>
    PROVE  /\ Len(s) \in Nat \ {0} /\ DOMAIN s = 1 .. Len(s)
           /\ Head(s) = s[1] /\ Head(s) \in S
           /\ Tail(s) \in Seq(S) /\ Len(Tail(s)) = Len(s) - 1
           /\ DOMAIN Tail(s) = 1 .. Len(s) - 1
           /\ \A i \in DOMAIN Tail(s) : Tail(s)[i] = s[i + 1]
<1>1. /\ Head(s) \in S /\ Head(s) = s[1]
      /\ Tail(s) \in Seq(S) /\ Len(Tail(s)) = Len(s) - 1
      /\ \A i \in 1 .. Len(Tail(s)) : Tail(s)[i] = s[i + 1]
  BY HeadTailProperties
<1>2. /\ Len(s) \in Nat /\ DOMAIN s = 1 .. Len(s)
      /\ DOMAIN Tail(s) = 1 .. Len(Tail(s))
  BY <1>1, LenProperties
<1>3. Len(s) # 0
  BY EmptySeq
<1> QED BY <1>1, <1>2, <1>3

\* A sequence with one element more.
LEMMA AppendElements ==
    ASSUME NEW S, NEW s \in Seq(S), NEW e \in S
    PROVE  /\ Append(s, e) \in Seq(S) /\ Append(s, e) # <<>>
           /\ Len(s) \in Nat /\ Len(Append(s, e)) = Len(s) + 1
           /\ DOMAIN s = 1 .. Len(s) /\ DOMAIN Append(s, e) = 1 .. Len(s) + 1
           /\ \A i \in DOMAIN s : Append(s, e)[i] = s[i]
           /\ Append(s, e)[Len(s) + 1] = e
           /\ s # <<>> => Head(Append(s, e)) = Head(s)
<1>1. /\ Append(s, e) \in Seq(S) /\ Append(s, e) # <<>>
      /\ Len(Append(s, e)) = Len(s) + 1
      /\ \A i \in 1 .. Len(s) : Append(s, e)[i] = s[i]
      /\ Append(s, e)[Len(s) + 1] = e
  BY AppendProperties
<1>2. /\ Len(s) \in Nat /\ DOMAIN s = 1 .. Len(s)
      /\ DOMAIN Append(s, e) = 1 .. Len(Append(s, e))
  BY <1>1, LenProperties
<1>3. ASSUME s # <<>> PROVE Head(Append(s, e)) = Head(s)
  <2>1. Head(s) = s[1] /\ 1 \in 1 .. Len(s)
    BY <1>3, TailElements
  <2>2. Head(Append(s, e)) = Append(s, e)[1]
    BY <1>1, TailElements
  <2> QED BY <1>1, <2>1, <2>2
<1> QED BY <1>1, <1>2, <1>3

\* A sequence without its element k.
LEMMA RemoveElements ==
    ASSUME NEW S, NEW s \in Seq(S), NEW k \in DOMAIN s
    PROVE  /\ RemoveAt(s, k) \in Seq(S)
           /\ DOMAIN s = 1 .. Len(s) /\ Len(s) \in Nat
           /\ DOMAIN RemoveAt(s, k) = 1 .. Len(s) - 1
           /\ \A i \in DOMAIN RemoveAt(s, k) :
                 RemoveAt(s, k)[i] = IF i < k THEN s[i] ELSE s[i + 1]
<1> DEFINE a == SubSeq(s, 1, k - 1)
           b == SubSeq(s, k + 1, Len(s))
<1>1. Len(s) \in Nat /\ DOMAIN s = 1 .. Len(s) /\ k \in 1 .. Len(s)
  BY LenProperties
<1>2. /\ a \in Seq(S) /\ Len(a) = k - 1
      /\ \A i \in 1 .. k - 1 : a[i] = s[i]
  <2>1. \A i \in 1 .. k - 1 : i \in 1 .. Len(s)
    BY <1>1
  <2> QED BY <1>1, <2>1, SubSeqProperties
<1>3. /\ b \in Seq(S) /\ Len(b) = Len(s) - k
      /\ \A i \in 1 .. Len(s) - k : b[i] = s[k + i]
  <2>1. \A i \in k + 1 .. Len(s) : i \in 1 .. Len(s)
    BY <1>1
  <2> QED BY <1>1, <2>1, SubSeqProperties
<1> HIDE DEF a, b
<1>4. /\ a \o b \in Seq(S) /\ Len(a \o b) = Len(s) - 1
      /\ \A i \in 1 .. Len(s) - 1 : (a \o b)[i] = IF i < k THEN s[i] ELSE s[i + 1]
  <2>1. /\ a \o b \in Seq(S) /\ Len(a \o b) = Len(a) + Len(b)
        /\ \A i \in 1 .. Len(a) + Len(b) :
              (a \o b)[i] = IF i <= Len(a) THEN a[i] ELSE b[i - Len(a)]
    BY <1>2, <1>3, ConcatProperties
  <2>2. \A i \in 1 .. Len(s) - 1 : (a \o b)[i] = IF i < k THEN s[i] ELSE s[i + 1]
    <3> TAKE i \in 1 .. Len(s) - 1
    <3>1. CASE i < k
      <4>1. i \in 1 .. Len(a) + Len(b) /\ i <= Len(a) /\ i \in 1 .. k - 1
        BY <1>1, <1>2, <1>3, <3>1
      <4> QED BY <1>2, <2>1, <3>1, <4>1
    <3>2. CASE i >= k
      <4>1. (a \o b)[i] = b[i - (k - 1)]
        <5>1. i \in 1 .. Len(a) + Len(b) /\ ~(i <= Len(a)) /\ Len(a) = k - 1
          BY <1>1, <1>2, <1>3, <3>2
        <5> QED BY <2>1, <5>1
      <4>2. i - (k - 1) \in 1 .. Len(s) - k /\ k + (i - (k - 1)) = i + 1
        BY <1>1, <3>2
      <4>3. b[i - (k - 1)] = s[i + 1] /\ ~(i < k)
        BY <1>1, <1>3, <3>2, <4>2
      <4> QED BY <4>1, <4>3
    <3>3. i < k \/ i >= k
      BY <1>1
    <3> QED BY <3>1, <3>2, <3>3
  <2>3. Len(a) + Len(b) = Len(s) - 1
    BY <1>1, <1>2, <1>3
  <2> QED BY <2>1, <2>2, <2>3
<1>5. RemoveAt(s, k) = a \o b
  BY DEF RemoveAt, a, b
<1>6. DOMAIN (a \o b) = 1 .. Len(s) - 1
  BY <1>4, LenProperties
<1> QED BY <1>1, <1>4, <1>5, <1>6

\* A side is +1 or -1.
LEMMA SidesAreInt == \A side \in Sides : side \in Int /\ (side = 1 \/ side = -1)
  BY DEF Sides

\* The sign of a position in terms of a side.
LEMMA SignOf ==
    ASSUME NEW n \in Int, NEW side \in Sides
    PROVE  /\ Sign(n) # side <=> side * n <= 0
           /\ Sign(n) = -side <=> side * n < 0
           /\ Sign(n) \in {-1, 0, 1}
  BY DEF Sign, Sides

\* The largest entry is a number of contracts.
LEMMA CapIsNat == Cap \in Nat
<1>1. MaxNotional * FxNum \in Nat /\ FxDen \in Nat \ {0}
  BY ConstantsAssumption
<1>2. \A x \in Nat, d \in Nat \ {0} : x \div d \in Nat
  OBVIOUS
<1> QED BY <1>1, <1>2 DEF Cap, Contracts

\* The floor is monotone: a notional within the cap makes an entry within it.
LEMMA ContractsWithinCap ==
    ASSUME NEW n \in Nat, n <= MaxNotional
    PROVE  Contracts(n) \in Nat /\ Contracts(n) <= Cap
<1>1. \A x, y \in Nat, d \in Nat \ {0} :
         x <= y => x \div d <= y \div d /\ x \div d \in Nat
  OBVIOUS
<1>2. /\ n * FxNum \in Nat /\ MaxNotional * FxNum \in Nat
      /\ n * FxNum <= MaxNotional * FxNum
  BY ConstantsAssumption
<1>3. FxDen \in Nat \ {0}
  BY ConstantsAssumption
<1> DEFINE x == n * FxNum
           y == MaxNotional * FxNum
<1>4. x \in Nat /\ y \in Nat /\ x <= y
  BY <1>2
<1> HIDE DEF x, y
<1>5. x \div FxDen <= y \div FxDen /\ x \div FxDen \in Nat
  BY <1>1, <1>3, <1>4
<1> QED BY <1>5 DEF Contracts, Cap, x, y

-----------------------------------------------------------------------------
(* Steps that leave the venue and the position alone.                      *)

\* No entry in a new direction is wanted.
NothingNewWanted == \A side \in Sides : Wanted(side)' => Wanted(side)

\* What is said of venue, feed and position stays true then.
LEMMA VenueAlone ==
    ASSUME FlowInv, UNCHANGED <<localQty, venQty, resting, feed, half>>,
           NothingNewWanted
    PROVE  RestingInv' /\ VenueInv' /\ PathInv'
<1>1. VenueInv'
  BY DEF FlowInv, VenueInv
<1>2. \A i \in DOMAIN resting : resting[i].side \in Sides
  <2>1. resting \in Seq(Orders)
    BY DEF FlowInv, TypeOK
  <2>2. \A i \in DOMAIN resting : resting[i] \in Orders
    BY <2>1, ElementOfSeq, LenProperties
  <2> QED BY <2>2 DEF Orders
<1>3. RestingInv'
  BY <1>2 DEF FlowInv, RestingInv, NothingNewWanted
<1>4. PathInv'
  <2>1. PICK h \in [0 .. Len(feed) -> Int] :
           Path(h) /\ \A side \in Sides : Wanted(side) => Clear(side, h)
    BY DEF FlowInv, PathInv
  <2>2. Path(h)' /\ \A side \in Sides : Wanted(side)' => Clear(side, h)'
    BY <2>1 DEF Path, Clear, NothingNewWanted
  <2> QED BY <2>2 DEF PathInv
<1> QED BY <1>1, <1>3, <1>4

\* The first signal leaves the queue.
LEMMA SettleQueue ==
    ASSUME FlowInv, Settle, queue # <<>>, UNCHANGED entryJob
    PROVE  /\ NothingNewWanted /\ QueueInv' /\ OrderInv'
           /\ queue' \in Seq(Signals)
           /\ stage' = "idle" /\ order' = None
<1>1. /\ queue' \in Seq(Signals)
      /\ DOMAIN queue = 1 .. Len(queue) /\ Len(queue) \in Nat
      /\ DOMAIN queue' = 1 .. Len(queue) - 1
      /\ \A i \in DOMAIN queue' : queue'[i] = queue[i + 1]
  BY TailElements DEF Settle, FlowInv, TypeOK
<1>2. \A i \in DOMAIN queue' : i + 1 \in DOMAIN queue /\ i \in Int
  BY <1>1
<1>3. \A i \in DOMAIN queue' : Live(i)' <=> Live(i + 1)
  BY <1>1 DEF Live
<1>4. NothingNewWanted
  BY <1>1, <1>2, <1>3 DEF NothingNewWanted, Wanted
<1>5. QueueInv'
  <2>1. ASSUME NEW i \in DOMAIN queue', NEW j \in DOMAIN queue', Live(i)', Live(j)'
        PROVE  i = j
    <3>1. i + 1 = j + 1
      BY <1>2, <1>3, <2>1 DEF FlowInv, QueueInv
    <3> QED BY <1>2, <3>1
  <2> QED BY <1>2, <1>3, <2>1 DEF FlowInv, QueueInv, Settle
<1>6. OrderInv'
  BY DEF OrderInv, Settle
<1> QED BY <1>1, <1>4, <1>5, <1>6 DEF Settle

\* A signal joins the queue. It is an exit, or the one entry.
LEMMA AppendQueue ==
    ASSUME FlowInv, NEW s \in Signals, queue' = Append(queue, s),
           UNCHANGED <<stage, order, venQty>>,
           entryJob' # None => entryJob' = entryJob /\ s.type = "trend_exit",
           s.type = "trend_entry" => \A i \in DOMAIN queue : ~Live(i)
    PROVE  QueueInv' /\ OrderInv' /\ queue' \in Seq(Signals) /\ queue' # <<>>
<1>1. /\ queue' \in Seq(Signals) /\ queue' # <<>>
      /\ DOMAIN queue = 1 .. Len(queue) /\ Len(queue) \in Nat
      /\ DOMAIN queue' = 1 .. Len(queue) + 1
      /\ \A i \in DOMAIN queue : queue'[i] = queue[i]
      /\ queue'[Len(queue) + 1] = s
      /\ queue # <<>> => Head(queue') = Head(queue)
  BY AppendElements DEF FlowInv, TypeOK
<1>2. \A i \in DOMAIN queue : Live(i)' <=> Live(i)
  BY <1>1 DEF Live
<1> PICK last \in Nat : last = Len(queue) + 1
  BY <1>1
<1>3. \A i \in DOMAIN queue' : i \in DOMAIN queue \/ i = last
  BY <1>1
<1>4. Live(last)' => s.type = "trend_entry"
  BY <1>1 DEF Live
<1>5. stage # "idle" => Head(queue') = Head(queue)
  BY <1>1 DEF FlowInv, TypeOK
<1>6. QueueInv'
  <2>1. \A i, j \in DOMAIN queue' : Live(i)' /\ Live(j)' => i = j
    BY <1>2, <1>3, <1>4 DEF FlowInv, QueueInv
  <2>2. entryJob' # None => \A i \in DOMAIN queue' : ~Live(i)'
    <3> SUFFICES ASSUME entryJob' # None, NEW i \in DOMAIN queue' PROVE ~Live(i)'
      OBVIOUS
    <3>1. entryJob # None /\ s.type # "trend_entry"
      OBVIOUS
    <3> QED BY <1>2, <1>3, <1>4, <3>1 DEF FlowInv, QueueInv
  <2>3. stage' # "idle" => ~Head(queue').expired
    BY <1>5 DEF FlowInv, QueueInv
  <2> QED BY <2>1, <2>2, <2>3 DEF QueueInv
<1>7. OrderInv'
  BY <1>5 DEF FlowInv, OrderInv
<1> QED BY <1>1, <1>6, <1>7

-----------------------------------------------------------------------------
(* The invariant is inductive.                                             *)

\* No position, no order and no signal.
LEMMA InitEstablishes == Init => FlowInv
<1> SUFFICES ASSUME Init PROVE FlowInv
  OBVIOUS
<1> USE DEF Init
<1>1. TypeOK
  BY ConstantsAssumption DEF TypeOK, Stages
<1>2. QueueInv /\ OrderInv
  BY DEF QueueInv, OrderInv
<1>3. RestingInv /\ VenueInv
  BY CapIsNat, SidesAreInt DEF RestingInv, VenueInv
<1>4. PathInv
  <2> DEFINE h == [i \in 0 .. Len(feed) |-> 0]
  <2>1. Len(feed) = 0 /\ DOMAIN feed = {}
    OBVIOUS
  <2>2. h \in [0 .. Len(feed) -> Int] /\ h[0] = 0
    BY <2>1
  <2> HIDE DEF h
  <2>3. Path(h)
    BY <2>1, <2>2 DEF Path
  <2>4. \A side \in Sides : Clear(side, h)
    BY <2>1 DEF Clear
  <2> QED BY <2>2, <2>3, <2>4 DEF PathInv
<1> QED BY <1>1, <1>2, <1>3, <1>4 DEF FlowInv

\* A signal is settled and nothing is sent to the venue.
LEMMA SettleKeeps ==
    ASSUME FlowInv, Settle, queue # <<>>,
           UNCHANGED <<localQty, venueVars, half, jobVars>>
    PROVE  FlowInv'
<1>1. /\ NothingNewWanted /\ QueueInv' /\ OrderInv'
      /\ queue' \in Seq(Signals) /\ stage' = "idle" /\ order' = None
  BY SettleQueue DEF jobVars
<1>2. TypeOK'
  BY <1>1 DEF FlowInv, TypeOK, Stages, venueVars, jobVars
<1>3. RestingInv' /\ VenueInv' /\ PathInv'
  BY <1>1, VenueAlone DEF venueVars
<1> QED BY <1>1, <1>2, <1>3 DEF FlowInv

\* The first signal is taken up; it has not expired.
LEMMA BeginSignalKeeps == FlowInv /\ BeginSignal => FlowInv'
<1> SUFFICES ASSUME FlowInv, BeginSignal PROVE FlowInv'
  OBVIOUS
<1> USE DEF BeginSignal, venueVars, jobVars
<1>1. TypeOK'
  BY DEF FlowInv, TypeOK, Stages
<1>2. QueueInv' /\ OrderInv'
  BY DEF FlowInv, QueueInv, OrderInv, Live
<1>3. NothingNewWanted
  BY DEF NothingNewWanted, Wanted, Live
<1>4. RestingInv' /\ VenueInv' /\ PathInv'
  BY <1>3, VenueAlone
<1> QED BY <1>1, <1>2, <1>4 DEF FlowInv

\* When an entry is wanted and the position row shows none on its side, the
\* venue's position on that side is one entry at most.
LEMMA RoomForOne ==
    ASSUME NEW side \in Sides, NEW h \in [0 .. Len(feed) -> Int],
           feed \in Seq(Int), Path(h), Clear(side, h), side * localQty <= 0
    PROVE  side * venQty <= Cap
<1>1. Len(feed) \in Nat /\ DOMAIN feed = 1 .. Len(feed)
  BY LenProperties
<1> DEFINE T == {i \in 0 .. Len(feed) : side * h[i] > Cap}
<1> SUFFICES ASSUME side * venQty > Cap PROVE FALSE
  <2>1. venQty = h[Len(feed)] /\ venQty \in Int
    BY <1>1 DEF Path
  <2> QED BY <2>1, SidesAreInt, CapIsNat
<1>2. T \subseteq Nat /\ Len(feed) \in T
  BY <1>1 DEF Path
<1>3. PICK k \in T : \A i \in T : k <= i
  BY <1>2, Smallest
<1>4. k \in 0 .. Len(feed) /\ side * h[k] > Cap
  OBVIOUS
<1>5. k # 0
  BY <1>1, <1>4, SidesAreInt, CapIsNat DEF Path
<1>6. k \in DOMAIN feed /\ k - 1 \in 0 .. Len(feed)
  BY <1>1, <1>4, <1>5
<1>7. k - 1 \notin T
  BY <1>3, <1>4, <1>6
<1>8. side * h[k - 1] <= Cap
  BY <1>6, <1>7, SidesAreInt, CapIsNat
<1>9. /\ h[k] = h[k - 1] + feed[k] /\ feed[k] \in Int
      /\ side * feed[k] > 0 => side * h[k] <= 0 \/ side * feed[k] <= Cap
      /\ side * feed[k] > 0 => side * h[k] <= 0 \/ k = 1
  BY <1>1, <1>6, ElementOfSeq DEF Path, Clear
<1>10. h[k] \in Int /\ h[k - 1] \in Int
  BY <1>4, <1>6
<1> DEFINE u == side * h[k - 1]
           v == side * feed[k]
<1>11. u \in Int /\ v \in Int /\ Cap \in Int /\ Cap >= 0
  <2>1. side \in Int
    BY SidesAreInt
  <2>2. u \in Int
    BY <1>10, <2>1
  <2>3. v \in Int
    BY <1>9, <2>1
  <2> QED BY <2>2, <2>3, CapIsNat
<1>12. side * h[k] = u + v
  <2>1. \A x, y \in Int : side * (x + y) = side * x + side * y
    BY SidesAreInt
  <2> QED BY <1>9, <1>10, <2>1
<1>13. u <= Cap /\ u + v > Cap
  BY <1>4, <1>8, <1>12
<1>14. v > 0 => u + v <= 0 \/ (v <= Cap /\ k = 1)
  BY <1>9, <1>12
<1>15. k = 1 => u <= 0
  BY DEF Path
<1> HIDE DEF u, v
<1> QED BY <1>11, <1>13, <1>14, <1>15

\* The checklist: the order it lets through fits what the cap leaves.
LEMMA ApproveSignalKeeps ==
    ASSUME NEW m \in Markets, NEW p \in Portfolios
    PROVE  FlowInv /\ ApproveSignal(m, p) => FlowInv'
<1> SUFFICES ASSUME FlowInv, ApproveSignal(m, p) PROVE FlowInv'
  OBVIOUS
<1> DEFINE s == Head(queue)
<1>1. /\ stage = "evaluate" /\ stage' = "submit" /\ order' \in BuildOrder(s)
      /\ UNCHANGED <<queue, localQty, venQty, resting, feed, trend, half,
                     entryJob, exitJob>>
      /\ DuplicatePositionCheck(s) /\ NotionalCapCheck(s)
  BY DEF ApproveSignal, Approves, ChecklistApproves, venueVars, jobVars
<1>2. /\ s \in Signals /\ s = queue[1] /\ 1 \in DOMAIN queue /\ ~s.expired
      /\ queue # <<>>
  BY <1>1, TailElements DEF FlowInv, TypeOK, QueueInv
<1>3. /\ s.side \in Sides /\ s.notional \in Nat /\ localQty \in Int
      /\ s.type \in {"trend_entry", "trend_exit"}
  <2>1. /\ s.side \in Sides /\ s.notional \in Notionals \cup {0}
        /\ s.type \in {"trend_entry", "trend_exit"}
    BY <1>2 DEF Signals
  <2>2. s.notional \in Nat
    <3>1. Notionals \cup {0} \subseteq Nat
      BY ConstantsAssumption
    <3> HIDE DEF s
    <3> QED BY <2>1, <3>1
  <2>3. localQty \in Int
    BY DEF FlowInv, TypeOK
  <2> QED BY <2>1, <2>2, <2>3
<1> HIDE DEF s
<1>4. ASSUME s.type = "trend_entry"
      PROVE  /\ order' \in BuiltOrders /\ ~order'.reduceOnly
             /\ order'.side = s.side /\ order'.qty <= Cap
             /\ order'.qty <= MaxContracts /\ order'.side * venQty <= Cap
  <2>1. /\ order' = [side |-> s.side, qty |-> Contracts(s.notional),
                     reduceOnly |-> FALSE]
        /\ Contracts(s.notional) \in 1 .. MaxContracts
    BY <1>1, <1>4 DEF BuildOrder, BuildEntryOrder
  <2>2. Contracts(s.notional) <= Cap
    BY <1>1, <1>3, ContractsWithinCap DEF NotionalCapCheck
  <2>3. Wanted(s.side)
    BY <1>2, <1>4 DEF Wanted, Live
  <2>4. PICK h \in [0 .. Len(feed) -> Int] : Path(h) /\ Clear(s.side, h)
    BY <1>3, <2>3 DEF FlowInv, PathInv
  <2>5. s.side * localQty <= 0
    BY <1>1, <1>3, SignOf DEF DuplicatePositionCheck
  <2>6. feed \in Seq(Int)
    <3>1. feed \in Seq(Int \ {0})
      BY DEF FlowInv, TypeOK
    <3> QED BY <3>1, SeqMonotonic
  <2>7. s.side * venQty <= Cap
    BY <1>3, <2>4, <2>5, <2>6, RoomForOne
  <2>8. Contracts(s.notional) \in Nat \ {0} /\ Contracts(s.notional) <= MaxContracts
    BY <2>1, ConstantsAssumption
  <2> QED BY <1>3, <2>1, <2>2, <2>7, <2>8 DEF BuiltOrders
<1>5. ASSUME s.type = "trend_exit"
      PROVE  order' \in BuiltOrders /\ order'.reduceOnly
  <2>1. /\ order' = [side |-> s.side, qty |-> Abs(localQty), reduceOnly |-> TRUE]
        /\ localQty # 0
    BY <1>1, <1>5 DEF BuildOrder, BuildExitOrder
  <2>2. Abs(localQty) \in Nat \ {0}
    BY <1>3, <2>1 DEF Abs
  <2> QED BY <1>3, <2>1, <2>2 DEF BuiltOrders
<1>6. order' \in BuiltOrders
  BY <1>3, <1>4, <1>5
<1>7. order' # None
  BY <1>6, ConstantsAssumption
<1>8. TypeOK'
  BY <1>1, <1>7 DEF FlowInv, TypeOK, Stages
<1>9. QueueInv'
  BY <1>1 DEF FlowInv, QueueInv, Live
<1>10. OrderInv'
  BY <1>1, <1>3, <1>4, <1>5, <1>6 DEF OrderInv, s
<1>11. NothingNewWanted
  BY <1>1 DEF NothingNewWanted, Wanted, Live
<1>12. RestingInv' /\ VenueInv' /\ PathInv'
  BY <1>1, <1>11, VenueAlone
<1> QED BY <1>8, <1>9, <1>10, <1>12 DEF FlowInv

\* The wanted entry becomes the one resting order of its side.
LEMMA SubmitEntryKeeps == FlowInv /\ SubmitEntry => FlowInv'
<1> SUFFICES ASSUME FlowInv, SubmitEntry PROVE FlowInv'
  OBVIOUS
<1>1. /\ stage = "submit" /\ Head(queue).type = "trend_entry"
      /\ resting' = Append(resting, order) /\ Settle
      /\ UNCHANGED <<localQty, venQty, feed, trend, half, entryJob, exitJob>>
  BY DEF SubmitEntry, jobVars
<1>2. /\ queue # <<>> /\ Head(queue) = queue[1] /\ 1 \in DOMAIN queue
      /\ Live(1)
  BY <1>1, TailElements DEF FlowInv, TypeOK, QueueInv, Live
<1>3. /\ NothingNewWanted /\ QueueInv' /\ OrderInv'
      /\ queue' \in Seq(Signals) /\ stage' = "idle" /\ order' = None
  BY <1>1, <1>2, SettleQueue
<1>4. /\ order \in Orders /\ order.side = queue[1].side
      /\ order.qty <= Cap /\ order.side * venQty <= Cap
  <2>1. /\ order \in BuiltOrders /\ order.side = queue[1].side
        /\ order.qty <= Cap /\ order.qty <= MaxContracts
        /\ order.side * venQty <= Cap
    BY <1>1, <1>2 DEF FlowInv, OrderInv
  <2>2. order.qty \in 1 .. MaxContracts
    BY <2>1, ConstantsAssumption DEF BuiltOrders
  <2> QED BY <2>1, <2>2 DEF BuiltOrders, Orders
<1>5. /\ resting' \in Seq(Orders)
      /\ DOMAIN resting = 1 .. Len(resting) /\ Len(resting) \in Nat
      /\ DOMAIN resting' = 1 .. Len(resting) + 1
      /\ \A i \in DOMAIN resting : resting'[i] = resting[i]
      /\ resting'[Len(resting) + 1] = order
  BY <1>1, <1>4, AppendElements DEF FlowInv, TypeOK
<1>6. TypeOK'
  BY <1>1, <1>3, <1>5 DEF FlowInv, TypeOK, Stages
<1>7. \A side \in Sides : ~Wanted(side)'
  <2>1. entryJob = None
    BY <1>2 DEF FlowInv, QueueInv
  <2>2. \A i \in DOMAIN queue' : ~Live(i)'
    <3>1. /\ DOMAIN queue = 1 .. Len(queue) /\ Len(queue) \in Nat
          /\ DOMAIN queue' = 1 .. Len(queue) - 1
          /\ \A i \in DOMAIN queue' : queue'[i] = queue[i + 1]
      BY <1>1, <1>2, TailElements DEF FlowInv, TypeOK, Settle
    <3>2. \A i \in DOMAIN queue' : i + 1 \in DOMAIN queue /\ i + 1 # 1
      BY <3>1
    <3>3. \A i \in DOMAIN queue' : ~Live(i + 1)
      BY <1>2, <3>2 DEF FlowInv, QueueInv
    <3> QED BY <3>1, <3>3 DEF Live
  <2> QED BY <1>1, <2>1, <2>2 DEF Wanted
<1>8. \A i \in DOMAIN resting : resting[i].side # order.side
  BY <1>2, <1>4 DEF FlowInv, RestingInv, Wanted
<1>9. \A i \in DOMAIN resting' : resting'[i].side \in Sides
  <2>1. \A i \in DOMAIN resting' : resting'[i] \in Orders
    BY <1>5, ElementOfSeq, LenProperties
  <2> QED BY <2>1 DEF Orders
<1>10. \A i \in DOMAIN resting' : i \in DOMAIN resting \/ i = Len(resting) + 1
  BY <1>5
<1>11. RestingInv'
  <2>1. \A i \in DOMAIN resting' :
           resting'[i].qty <= Cap /\ resting'[i].side * venQty <= Cap
    BY <1>4, <1>5, <1>10 DEF FlowInv, RestingInv
  <2>2. \A i, j \in DOMAIN resting' : resting'[i].side = resting'[j].side => i = j
    BY <1>5, <1>8, <1>10 DEF FlowInv, RestingInv
  <2>3. (\A i \in DOMAIN resting : ~Wanted(resting[i].side))'
    BY <1>7, <1>9
  <2> QED BY <1>1, <2>1, <2>2, <2>3 DEF RestingInv
<1>12. VenueInv'
  BY <1>1 DEF FlowInv, VenueInv
<1>13. PathInv'
  <2>1. PICK h \in [0 .. Len(feed) -> Int] :
           Path(h) /\ \A side \in Sides : Wanted(side) => Clear(side, h)
    BY DEF FlowInv, PathInv
  <2>2. Path(h)' /\ \A side \in Sides : Wanted(side)' => Clear(side, h)'
    BY <1>1, <1>3, <2>1 DEF Path, Clear, NothingNewWanted
  <2> QED BY <1>1, <2>2 DEF PathInv
<1> QED BY <1>3, <1>6, <1>11, <1>12, <1>13 DEF FlowInv

\* One execution more at the end of the feed. It is an exit that does not go past
\* zero, or an entry within the cap in a direction in which none is wanted.
LEMMA Executed ==
    ASSUME FlowInv, NEW d \in Int \ {0}, feed' = Append(feed, d),
           venQty' = venQty + d, UNCHANGED <<localQty, half>>, NothingNewWanted,
           \A side \in Sides : side * d > 0 =>
              \/ side * venQty' <= 0
              \/ side * d <= Cap /\ ~Wanted(side)'
    PROVE  PathInv'
<1>1. /\ feed' \in Seq(Int \ {0}) /\ Len(feed') = Len(feed) + 1
      /\ DOMAIN feed = 1 .. Len(feed) /\ Len(feed) \in Nat
      /\ DOMAIN feed' = 1 .. Len(feed) + 1
      /\ \A i \in DOMAIN feed : feed'[i] = feed[i]
      /\ feed'[Len(feed) + 1] = d
  BY AppendElements DEF FlowInv, TypeOK
<1>2. PICK h \in [0 .. Len(feed) -> Int] :
         Path(h) /\ \A side \in Sides : Wanted(side) => Clear(side, h)
  BY DEF FlowInv, PathInv
<1>3. venQty \in Int /\ venQty' \in Int
  BY DEF FlowInv, TypeOK
<1>4. PICK g \in [0 .. Len(feed) + 1 -> Int] :
         (\A i \in 0 .. Len(feed) : g[i] = h[i]) /\ g[Len(feed) + 1] = venQty'
  <2> DEFINE f == [i \in 0 .. Len(feed) + 1 |->
                      IF i <= Len(feed) THEN h[i] ELSE venQty']
  <2>1. /\ f \in [0 .. Len(feed) + 1 -> Int]
        /\ (\A i \in 0 .. Len(feed) : f[i] = h[i]) /\ f[Len(feed) + 1] = venQty'
    BY <1>1, <1>3
  <2> HIDE DEF f
  <2> QED BY <2>1
<1>5. g[0] = localQty' /\ g[Len(feed')] = venQty'
  BY <1>1, <1>2, <1>4 DEF Path
<1>6. ASSUME NEW i \in DOMAIN feed'
      PROVE  /\ g[i] = g[i - 1] + feed'[i]
             /\ \A side \in Sides : side * feed'[i] > 0 =>
                   side * g[i] <= 0 \/ side * feed'[i] <= Cap
             /\ \A side \in Sides : Wanted(side)' =>
                   (side * feed'[i] > 0 => side * g[i] <= 0 \/ (i = 1 /\ half'))
  <2>1. CASE i \in DOMAIN feed
    <3>1. g[i] = h[i] /\ g[i - 1] = h[i - 1] /\ feed'[i] = feed[i]
      BY <1>1, <1>4, <2>1
    <3> QED BY <1>2, <2>1, <3>1 DEF Path, Clear, NothingNewWanted
  <2>2. CASE i = Len(feed) + 1
    <3>1. g[i] = venQty' /\ g[i - 1] = venQty /\ feed'[i] = d
      BY <1>1, <1>2, <1>4, <2>2 DEF Path
    <3> QED BY <3>1
  <2> QED BY <1>1, <1>6, <2>1, <2>2
<1>7. Path(g)' /\ \A side \in Sides : Wanted(side)' => Clear(side, g)'
  BY <1>5, <1>6 DEF Path, Clear
<1> QED BY <1>1, <1>4, <1>7 DEF PathInv

\* A reduce-only order moves the position towards zero and not past it.
LEMMA ReduceOnlyDelta ==
    ASSUME NEW o \in BuiltOrders, o.reduceOnly, venQty \in Int,
           MarketDelta(o) # 0
    PROVE  LET d == MarketDelta(o)
           IN  /\ d \in Int /\ venQty * (venQty + d) >= 0
               /\ Abs(venQty + d) < Abs(venQty)
               /\ \A side \in Sides :
                     /\ side * (venQty + d) <= side * venQty \/ side * (venQty + d) <= 0
                     /\ side * d > 0 => side * (venQty + d) <= 0
<1> DEFINE d == MarketDelta(o)
           q == Min({o.qty, Abs(venQty)})
<1>1. o.side \in Sides /\ o.qty \in Nat \ {0}
  BY DEF BuiltOrders
<1>2. Sign(venQty) = -o.side /\ d = o.side * q
  BY DEF MarketDelta
<1>3. o.side * venQty < 0
  BY <1>1, <1>2, SignOf
<1>4. Abs(venQty) \in Nat \ {0} /\ (venQty = Abs(venQty) \/ venQty = -Abs(venQty))
  BY <1>1, <1>3, SidesAreInt DEF Abs
<1>5. q \in Nat \ {0} /\ q <= Abs(venQty)
  <2>1. \A x, y \in Nat \ {0} : Min({x, y}) = IF x <= y THEN x ELSE y
    BY DEF Min
  <2>2. q = IF o.qty <= Abs(venQty) THEN o.qty ELSE Abs(venQty)
    BY <1>1, <1>4, <2>1
  <2> QED BY <1>1, <1>4, <2>2
<1> HIDE DEF q, d
<1>6. CASE o.side = 1
  <2>1. d = q /\ venQty < 0 /\ venQty = -Abs(venQty)
    BY <1>2, <1>3, <1>4, <1>5, <1>6
  <2>2. d \in Int /\ d > 0 /\ venQty + d <= 0
    BY <1>4, <1>5, <2>1
  <2>3. venQty * (venQty + d) >= 0
    BY <2>1, <2>2
  <2>4. Abs(venQty + d) < Abs(venQty)
    BY <2>1, <2>2 DEF Abs
  <2> QED BY <2>1, <2>2, <2>3, <2>4, SidesAreInt DEF d
<1>7. CASE o.side = -1
  <2>1. d = -q /\ venQty > 0 /\ venQty = Abs(venQty)
    BY <1>2, <1>3, <1>4, <1>5, <1>7
  <2>2. d \in Int /\ d < 0 /\ venQty + d >= 0
    BY <1>4, <1>5, <2>1
  <2>3. venQty * (venQty + d) >= 0
    BY <2>1, <2>2
  <2>4. Abs(venQty + d) < Abs(venQty)
    BY <2>1, <2>2 DEF Abs
  <2> QED BY <2>1, <2>2, <2>3, <2>4, SidesAreInt DEF d
<1> QED BY <1>1, <1>6, <1>7, SidesAreInt

\* An exit is executed at once, against the position.
LEMMA SubmitExitKeeps == FlowInv /\ SubmitExit => FlowInv'
<1> SUFFICES ASSUME FlowInv, SubmitExit PROVE FlowInv'
  OBVIOUS
<1> DEFINE d == MarketDelta(order)
<1>1. /\ stage = "submit" /\ Head(queue).type = "trend_exit" /\ d # 0
      /\ venQty' = venQty + d /\ feed' = Append(feed, d) /\ Settle
      /\ UNCHANGED <<localQty, resting, trend, half, entryJob, exitJob>>
  BY DEF SubmitExit, jobVars
<1>2. order \in BuiltOrders /\ order.reduceOnly /\ venQty \in Int
  BY <1>1 DEF FlowInv, OrderInv, TypeOK
<1>3. /\ d \in Int
      /\ \A side \in Sides :
            /\ side * (venQty + d) <= side * venQty \/ side * (venQty + d) <= 0
            /\ side * d > 0 => side * (venQty + d) <= 0
  BY <1>1, <1>2, ReduceOnlyDelta
<1> HIDE DEF d
<1>4. /\ NothingNewWanted /\ QueueInv' /\ OrderInv'
      /\ queue' \in Seq(Signals) /\ stage' = "idle" /\ order' = None
  <2>1. queue # <<>>
    BY <1>1 DEF FlowInv, TypeOK
  <2> QED BY <1>1, <2>1, SettleQueue
<1>5. PathInv'
  BY <1>1, <1>3, <1>4, Executed
<1>6. TypeOK'
  <2>1. feed' \in Seq(Int \ {0}) /\ feed' # <<>>
    BY <1>1, <1>3, AppendElements DEF FlowInv, TypeOK
  <2>2. venQty' \in Int
    BY <1>1, <1>2, <1>3
  <2> QED BY <1>1, <1>4, <2>1, <2>2 DEF FlowInv, TypeOK, Stages
<1>7. ASSUME NEW side \in Sides, NEW bound \in Nat, side * venQty <= bound
      PROVE  side * venQty' <= bound
  <2> DEFINE x == side * (venQty + d)
             y == side * venQty
  <2>1. x \in Int /\ y \in Int /\ (x <= y \/ x <= 0) /\ y <= bound
    BY <1>2, <1>3, <1>7, SidesAreInt
  <2> HIDE DEF x, y
  <2>2. x <= bound
    BY <2>1
  <2> QED BY <1>1, <2>2 DEF x
<1>8. VenueInv'
  BY <1>7, CapIsNat DEF FlowInv, VenueInv
<1>9. RestingInv'
  <2>1. \A i \in DOMAIN resting : resting[i].side \in Sides
    <3>1. \A i \in DOMAIN resting : resting[i] \in Orders
      BY ElementOfSeq, LenProperties DEF FlowInv, TypeOK
    <3> QED BY <3>1 DEF Orders
  <2>2. \A i \in DOMAIN resting : resting[i].side * venQty' <= Cap
    BY <1>7, <2>1, CapIsNat DEF FlowInv, RestingInv
  <2> QED BY <1>1, <1>4, <2>1, <2>2 DEF FlowInv, RestingInv, NothingNewWanted
<1> QED BY <1>4, <1>5, <1>6, <1>8, <1>9 DEF FlowInv

\* A position that has not grown in a direction is within the cap if it was.
LEMMA StillBelow ==
    ASSUME NEW side \in Sides, NEW x \in Int, NEW y \in Int,
           side * x <= side * y, side * y <= Cap
    PROVE  side * x <= Cap
<1>1. side * x \in Int /\ side * y \in Int
  BY SidesAreInt
<1> QED BY <1>1, CapIsNat

\* An entry is executed: its side had room for it, and none is wanted there.
LEMMA ExecuteKeeps ==
    ASSUME NEW k \in DOMAIN resting
    PROVE  FlowInv /\ Execute(k) => FlowInv'
<1> SUFFICES ASSUME FlowInv, Execute(k) PROVE FlowInv'
  OBVIOUS
<1> DEFINE o == resting[k]
           d == o.side * o.qty
<1>1. /\ venQty' = venQty + d /\ feed' = Append(feed, d)
      /\ resting' = RemoveAt(resting, k)
      /\ UNCHANGED <<queue, localQty, trend, stage, order, half, entryJob, exitJob>>
  BY DEF Execute, daemonVars, jobVars
<1>2. /\ resting \in Seq(Orders) /\ venQty \in Int
      /\ \A i \in DOMAIN resting : resting[i] \in Orders
  BY ElementOfSeq, LenProperties DEF FlowInv, TypeOK
<1>3. o.side \in Sides /\ o.qty \in Nat \ {0}
  BY <1>2, ConstantsAssumption DEF Orders
<1>4. o.qty <= Cap /\ o.side * venQty <= Cap /\ ~Wanted(o.side)
  BY DEF FlowInv, RestingInv
<1> HIDE DEF o
<1>5. /\ d \in Int \ {0} /\ o.side * d = o.qty
      /\ \A side \in Sides : side # o.side => side * d = -o.qty
  BY <1>3, SidesAreInt
<1> HIDE DEF d
<1>6. NothingNewWanted
  BY <1>1 DEF NothingNewWanted, Wanted, Live
<1>7. PathInv'
  <2>1. \A side \in Sides : side * d > 0 => side * d <= Cap /\ ~Wanted(side)'
    <3> SUFFICES ASSUME NEW side \in Sides, side * d > 0
                 PROVE  side * d <= Cap /\ ~Wanted(side)'
      OBVIOUS
    <3>1. side = o.side
      BY <1>3, <1>5
    <3> QED BY <1>4, <1>5, <1>6, <3>1 DEF NothingNewWanted
  <2> QED BY <1>1, <1>5, <1>6, <2>1, Executed
<1>8. /\ resting' \in Seq(Orders)
      /\ DOMAIN resting = 1 .. Len(resting) /\ Len(resting) \in Nat
      /\ DOMAIN resting' = 1 .. Len(resting) - 1
      /\ \A i \in DOMAIN resting' :
            resting'[i] = IF i < k THEN resting[i] ELSE resting[i + 1]
  BY <1>1, <1>2, RemoveElements
<1>9. TypeOK'
  <2>1. feed' \in Seq(Int \ {0}) /\ feed' # <<>>
    <3>1. feed \in Seq(Int \ {0}) /\ feed' = Append(feed, d) /\ d \in Int \ {0}
      BY <1>1, <1>5 DEF FlowInv, TypeOK
    <3> QED BY <3>1, AppendElements
  <2>2. venQty' \in Int
    BY <1>1, <1>2, <1>5
  <2> QED BY <1>1, <1>8, <2>1, <2>2 DEF FlowInv, TypeOK
<1>10. \A side \in Sides : side # o.side => side * venQty' <= side * venQty
  <2> SUFFICES ASSUME NEW side \in Sides, side # o.side
               PROVE  side * venQty' <= side * venQty
    OBVIOUS
  <2>1. side * d <= 0
    BY <1>3, <1>5
  <2>2. venQty' = venQty + d /\ venQty \in Int /\ d \in Int /\ side \in Int
    BY <1>1, <1>2, <1>5, SidesAreInt
  <2>3. side * venQty' = side * venQty + side * d
    BY <2>2
  <2> QED BY <2>1, <2>2, <2>3
<1>11. QueueInv'
  BY <1>1 DEF FlowInv, QueueInv, Live
<1>12. OrderInv'
  <2>1. ASSUME stage = "submit", Head(queue).type = "trend_entry"
        PROVE  order.side * venQty' <= Cap
    <3>1. /\ Head(queue) = queue[1] /\ 1 \in DOMAIN queue /\ Live(1)
          /\ order.side = queue[1].side /\ order.side * venQty <= Cap
          /\ order.side \in Sides
      BY <2>1, TailElements DEF FlowInv, TypeOK, QueueInv, Live, OrderInv, BuiltOrders
    <3>2. order.side # o.side
      BY <1>4, <3>1 DEF Wanted
    <3>3. order.side * venQty' <= order.side * venQty
      BY <1>10, <3>1, <3>2
    <3> QED BY <1>1, <1>2, <1>5, <3>1, <3>3, StillBelow
  <2> QED BY <1>1, <2>1 DEF FlowInv, OrderInv
<1>13. VenueInv'
  <2> SUFFICES ASSUME NEW side \in Sides PROVE side * venQty' <= 2 * Cap
    BY DEF VenueInv
  <2>1. CASE side = o.side
    BY <1>1, <1>2, <1>3, <1>4, <1>5, <2>1, SidesAreInt, CapIsNat
  <2>2. CASE side # o.side
    BY <1>1, <1>2, <1>5, <1>10, <2>2, SidesAreInt, CapIsNat DEF FlowInv, VenueInv
  <2> QED BY <2>1, <2>2
<1>14. RestingInv'
  <2>1. \A i \in DOMAIN resting' :
           \E j \in DOMAIN resting \ {k} :
              resting'[i] = resting[j] /\ j = IF i < k THEN i ELSE i + 1
    BY <1>8
  <2>2. \A j \in DOMAIN resting \ {k} :
           /\ resting[j].qty <= Cap /\ resting[j].side * venQty' <= Cap
           /\ ~Wanted(resting[j].side)
    <3> SUFFICES ASSUME NEW j \in DOMAIN resting \ {k}
                 PROVE  /\ resting[j].qty <= Cap /\ resting[j].side * venQty' <= Cap
                        /\ ~Wanted(resting[j].side)
      OBVIOUS
    <3>1. resting[j].side \in Sides /\ resting[j].side # o.side
      BY <1>2 DEF FlowInv, RestingInv, Orders, o
    <3>2. /\ resting[j].qty <= Cap /\ resting[j].side * venQty <= Cap
          /\ ~Wanted(resting[j].side)
      BY DEF FlowInv, RestingInv
    <3>3. resting[j].side * venQty' <= resting[j].side * venQty
      BY <1>10, <3>1
    <3>4. resting[j].side * venQty' <= Cap
      BY <1>1, <1>2, <1>5, <3>1, <3>2, <3>3, StillBelow
    <3> QED BY <3>2, <3>4
  <2>3. \A i \in DOMAIN resting' : resting'[i].side \in Sides
    BY <1>2, <2>1 DEF Orders
  <2>4. (\A i \in DOMAIN resting : ~Wanted(resting[i].side))'
    BY <1>6, <2>1, <2>2, <2>3 DEF NothingNewWanted
  <2>5. \A i, j \in DOMAIN resting' : resting'[i].side = resting'[j].side => i = j
    <3> SUFFICES ASSUME NEW i \in DOMAIN resting', NEW j \in DOMAIN resting',
                        resting'[i].side = resting'[j].side
                 PROVE  i = j
      OBVIOUS
    <3>1. PICK a \in DOMAIN resting \ {k} :
             resting'[i] = resting[a] /\ a = IF i < k THEN i ELSE i + 1
      BY <2>1
    <3>2. PICK b \in DOMAIN resting \ {k} :
             resting'[j] = resting[b] /\ b = IF j < k THEN j ELSE j + 1
      BY <2>1
    <3>3. a = b
      BY <3>1, <3>2 DEF FlowInv, RestingInv
    <3> QED BY <1>8, <3>1, <3>2, <3>3
  <2>6. \A i \in DOMAIN resting' :
           resting'[i].qty <= Cap /\ resting'[i].side * venQty' <= Cap
    BY <2>1, <2>2
  <2> QED BY <2>4, <2>5, <2>6 DEF RestingInv
<1> QED BY <1>7, <1>9, <1>11, <1>12, <1>13, <1>14 DEF FlowInv

-----------------------------------------------------------------------------
(* The reconciler and the jobs.                                            *)

\* The order row is closed, and from here on nobody sees the execution.
LEMMA ApplyFillToOrderKeeps == FlowInv /\ ApplyFillToOrder => FlowInv'
<1> SUFFICES ASSUME FlowInv, ApplyFillToOrder PROVE FlowInv'
  OBVIOUS
<1> USE DEF ApplyFillToOrder, venueVars, daemonVars, jobVars
<1>1. TypeOK'
  BY DEF FlowInv, TypeOK
<1>2. QueueInv' /\ OrderInv' /\ VenueInv'
  BY DEF FlowInv, QueueInv, OrderInv, VenueInv, Live
<1>3. \A side \in Sides : Wanted(side)' => Wanted(side)
  BY DEF Wanted, Live
<1>4. RestingInv'
  <2>1. (\A i \in DOMAIN resting : ~Wanted(resting[i].side))'
    BY DEF FlowInv, RestingInv, Wanted, Live
  <2> QED BY <2>1 DEF FlowInv, RestingInv
<1>5. PathInv'
  <2>1. PICK h \in [0 .. Len(feed) -> Int] :
           Path(h) /\ \A side \in Sides : Wanted(side) => Clear(side, h)
    BY DEF FlowInv, PathInv
  <2>2. Path(h)' /\ \A side \in Sides : Wanted(side)' => Clear(side, h)'
    BY <1>3, <2>1 DEF Path, Clear
  <2> QED BY <2>2 DEF PathInv
<1> QED BY <1>1, <1>2, <1>4, <1>5 DEF FlowInv

\* The path loses its first step; the execution that could be overlooked is the
\* one that is applied.
LEMMA ApplyFillToPositionKeeps == FlowInv /\ ApplyFillToPosition => FlowInv'
<1> SUFFICES ASSUME FlowInv, ApplyFillToPosition PROVE FlowInv'
  OBVIOUS
<1>1. /\ half /\ half' = FALSE /\ localQty' = localQty + Head(feed)
      /\ feed' = Tail(feed) /\ feed # <<>>
      /\ UNCHANGED <<queue, venQty, resting, trend, stage, order, entryJob, exitJob>>
  BY DEF ApplyFillToPosition, daemonVars, jobVars, FlowInv, TypeOK
<1>2. /\ Len(feed) \in Nat \ {0} /\ DOMAIN feed = 1 .. Len(feed)
      /\ Head(feed) = feed[1] /\ Head(feed) \in Int
      /\ feed' \in Seq(Int \ {0}) /\ Len(feed') = Len(feed) - 1
      /\ DOMAIN feed' = 1 .. Len(feed) - 1
      /\ \A i \in DOMAIN feed' : feed'[i] = feed[i + 1]
  BY <1>1, TailElements DEF FlowInv, TypeOK
<1>3. TypeOK'
  <2>1. localQty' \in Int
    BY <1>1, <1>2 DEF FlowInv, TypeOK
  <2> QED BY <1>1, <1>2, <2>1 DEF FlowInv, TypeOK
<1>4. QueueInv' /\ OrderInv' /\ VenueInv'
  BY <1>1 DEF FlowInv, QueueInv, OrderInv, VenueInv, Live
<1>5. \A side \in Sides : Wanted(side)' => Wanted(side)
  BY <1>1 DEF Wanted, Live
<1>6. RestingInv'
  <2>1. (\A i \in DOMAIN resting : ~Wanted(resting[i].side))'
    BY <1>1 DEF FlowInv, RestingInv, Wanted, Live
  <2> QED BY <1>1, <2>1 DEF FlowInv, RestingInv
<1>7. PathInv'
  <2>1. PICK h \in [0 .. Len(feed) -> Int] :
           Path(h) /\ \A side \in Sides : Wanted(side) => Clear(side, h)
    BY DEF FlowInv, PathInv
  <2>2. PICK g \in [0 .. Len(feed) - 1 -> Int] :
           \A i \in 0 .. Len(feed) - 1 : g[i] = h[i + 1]
    <3> DEFINE f == [i \in 0 .. Len(feed) - 1 |-> h[i + 1]]
    <3>1. /\ f \in [0 .. Len(feed) - 1 -> Int]
          /\ \A i \in 0 .. Len(feed) - 1 : f[i] = h[i + 1]
      BY <1>2
    <3> HIDE DEF f
    <3> QED BY <3>1
  <2>3. g[0] = localQty'
    <3>1. h[1] = h[0] + feed[1] /\ g[0] = h[1]
      <4>1. 1 \in DOMAIN feed /\ 1 - 1 = 0 /\ 0 \in 0 .. Len(feed) - 1 /\ 0 + 1 = 1
        BY <1>2
      <4>2. h[1] = h[1 - 1] + feed[1] /\ g[0] = h[0 + 1]
        BY <2>1, <2>2, <4>1 DEF Path
      <4> QED BY <4>1, <4>2
    <3> QED BY <1>1, <1>2, <2>1, <3>1 DEF Path
  <2>4. g[Len(feed')] = venQty'
    <3>1. g[Len(feed) - 1] = h[Len(feed)]
      BY <1>2, <2>2
    <3> QED BY <1>1, <1>2, <2>1, <3>1 DEF Path
  <2>5. ASSUME NEW i \in DOMAIN feed'
        PROVE  /\ g[i] = g[i - 1] + feed'[i]
               /\ \A side \in Sides : side * feed'[i] > 0 =>
                     side * g[i] <= 0 \/ side * feed'[i] <= Cap
               /\ \A side \in Sides : Wanted(side)' =>
                     (side * feed'[i] > 0 => side * g[i] <= 0)
    <3>1. /\ g[i] = h[i + 1] /\ g[i - 1] = h[i] /\ feed'[i] = feed[i + 1]
          /\ i + 1 \in DOMAIN feed /\ i + 1 # 1 /\ (i + 1) - 1 = i
      <4>1. /\ i \in 1 .. Len(feed) - 1 /\ i + 1 \in DOMAIN feed
            /\ feed'[i] = feed[i + 1]
        BY <1>2
      <4>2. /\ i \in 0 .. Len(feed) - 1 /\ i - 1 \in 0 .. Len(feed) - 1
            /\ (i - 1) + 1 = i /\ i + 1 # 1 /\ (i + 1) - 1 = i
        <5>1. Len(feed) \in Nat
          BY <1>2
        <5> QED BY <4>1, <5>1
      <4>3. g[i] = h[i + 1] /\ g[i - 1] = h[(i - 1) + 1]
        BY <2>2, <4>2
      <4> QED BY <4>1, <4>2, <4>3
    <3>2. h[i + 1] = h[i] + feed[i + 1]
      BY <2>1, <3>1 DEF Path
    <3>3. \A side \in Sides : side * feed[i + 1] > 0 =>
             side * h[i + 1] <= 0 \/ side * feed[i + 1] <= Cap
      BY <2>1, <3>1 DEF Path
    <3>4. \A side \in Sides : Wanted(side)' =>
             (side * feed[i + 1] > 0 => side * h[i + 1] <= 0)
      BY <1>5, <2>1, <3>1 DEF Clear
    <3> QED BY <3>1, <3>2, <3>3, <3>4
  <2>6. Path(g)' /\ \A side \in Sides : Wanted(side)' => Clear(side, g)'
    BY <2>3, <2>4, <2>5 DEF Path, Clear
  <2> QED BY <1>2, <2>6 DEF PathInv
<1> QED BY <1>3, <1>4, <1>6, <1>7 DEF FlowInv

\* The entry job begins; nothing is wanted before the orders are read.
LEMMA CheckPositionsKeeps ==
    ASSUME NEW side \in Sides, NEW notional \in Notionals
    PROVE  FlowInv /\ CheckPositions(side, notional) => FlowInv'
<1> SUFFICES ASSUME FlowInv, CheckPositions(side, notional) PROVE FlowInv'
  OBVIOUS
<1> USE DEF CheckPositions, venueVars, daemonVars
<1>1. TypeOK'
  BY DEF FlowInv, TypeOK
<1>2. QueueInv' /\ OrderInv'
  BY DEF FlowInv, QueueInv, OrderInv, Live, EntryJobDue
<1>3. NothingNewWanted
  BY DEF NothingNewWanted, Wanted, Live
<1>4. RestingInv' /\ VenueInv' /\ PathInv'
  BY <1>3, VenueAlone
<1> QED BY <1>1, <1>2, <1>4 DEF FlowInv

\* From here on the entry is wanted: there is no order of its side in flight,
\* but for the one execution that is half applied.
LEMMA CheckOrdersKeeps == FlowInv /\ CheckOrders => FlowInv'
<1> SUFFICES ASSUME FlowInv, CheckOrders PROVE FlowInv'
  OBVIOUS
<1>1. /\ entryJob # None /\ ~entryJob.checked
      /\ entryJob' = IF InFlight(entryJob.side) THEN None
                     ELSE [entryJob EXCEPT !.checked = TRUE]
      /\ UNCHANGED <<queue, localQty, venQty, resting, feed, trend, stage, order,
                     half, exitJob>>
  BY DEF CheckOrders, venueVars, daemonVars
<1>2. entryJob \in [side : Sides, notional : Notionals, checked : BOOLEAN]
  BY <1>1 DEF FlowInv, TypeOK
<1>3. TypeOK'
  BY <1>1, <1>2 DEF FlowInv, TypeOK
<1>4. QueueInv' /\ OrderInv' /\ VenueInv'
  BY <1>1 DEF FlowInv, QueueInv, OrderInv, VenueInv, Live
<1>5. CASE InFlight(entryJob.side)
  <2>1. NothingNewWanted
    BY <1>1, <1>5 DEF NothingNewWanted, Wanted, Live
  <2> QED BY <1>1, <1>3, <1>4, <2>1, VenueAlone DEF FlowInv
<1>6. CASE ~InFlight(entryJob.side)
  <2>1. \A side \in Sides : Wanted(side)' => side = entryJob.side
    BY <1>1, <1>2, <1>6 DEF Wanted, FlowInv, QueueInv, Live
  <2>2. \A i \in DOMAIN resting : resting[i].side # entryJob.side
    BY <1>6 DEF InFlight
  <2>3. \A i \in DOMAIN resting : resting[i].side \in Sides
    <3>1. \A i \in DOMAIN resting : resting[i] \in Orders
      BY ElementOfSeq, LenProperties DEF FlowInv, TypeOK
    <3> QED BY <3>1 DEF Orders
  <2>4. RestingInv'
    <3>1. (\A i \in DOMAIN resting : ~Wanted(resting[i].side))'
      BY <1>1, <2>1, <2>2, <2>3
    <3> QED BY <1>1, <3>1 DEF FlowInv, RestingInv
  <2>5. PICK h \in [0 .. Len(feed) -> Int] : Path(h)
    BY DEF FlowInv, PathInv
  <2>6. ASSUME NEW i \in DOMAIN feed, entryJob.side * feed[i] > 0
        PROVE  i = 1 /\ half
    <3>1. feed[i] \in Int
      BY ElementOfSeq, LenProperties DEF FlowInv, TypeOK
    <3>2. Sign(feed[i]) = entryJob.side
      BY <1>2, <2>6, <3>1, SignOf, SidesAreInt
    <3> QED BY <1>6, <3>2 DEF InFlight
  <2>7. Path(h)' /\ \A side \in Sides : Wanted(side)' => Clear(side, h)'
    BY <1>1, <2>1, <2>5, <2>6 DEF Path, Clear
  <2>8. PathInv'
    BY <1>1, <2>7 DEF PathInv
  <2> QED BY <1>3, <1>4, <2>4, <2>8 DEF FlowInv
<1> QED BY <1>5, <1>6

\* The signal is written, and stays as wanted as it was.
LEMMA WriteSignalKeeps == FlowInv /\ WriteSignal => FlowInv'
<1> SUFFICES ASSUME FlowInv, WriteSignal PROVE FlowInv'
  OBVIOUS
<1> DEFINE s == [type |-> "trend_entry", side |-> entryJob.side,
                 notional |-> entryJob.notional, metadata |-> TRUE,
                 expired |-> FALSE]
<1>1. /\ entryJob # None /\ entryJob.checked /\ entryJob' = None
      /\ queue' = Append(queue, s)
      /\ UNCHANGED <<localQty, venQty, resting, feed, trend, stage, order, half,
                     exitJob>>
  BY DEF WriteSignal, venueVars, daemonVars
<1>2. entryJob \in [side : Sides, notional : Notionals, checked : BOOLEAN]
  BY <1>1 DEF FlowInv, TypeOK
<1>3. s \in Signals /\ s.type = "trend_entry" /\ s.side = entryJob.side
  BY <1>2 DEF Signals
<1> HIDE DEF s
<1>4. \A i \in DOMAIN queue : ~Live(i)
  BY <1>1 DEF FlowInv, QueueInv
<1>5. QueueInv' /\ OrderInv' /\ queue' \in Seq(Signals) /\ queue' # <<>>
  BY <1>1, <1>3, <1>4, AppendQueue
<1>6. TypeOK'
  BY <1>1, <1>5 DEF FlowInv, TypeOK
<1>7. NothingNewWanted
  <2>1. /\ DOMAIN queue' = 1 .. Len(queue) + 1 /\ DOMAIN queue = 1 .. Len(queue)
        /\ Len(queue) \in Nat /\ queue'[Len(queue) + 1] = s
        /\ \A i \in DOMAIN queue : queue'[i] = queue[i]
    BY <1>1, <1>3, AppendElements DEF FlowInv, TypeOK
  <2>2. \A i \in DOMAIN queue' : i \in DOMAIN queue \/ i = Len(queue) + 1
    BY <2>1
  <2>3. \A i \in DOMAIN queue : ~Live(i)'
    BY <1>4, <2>1 DEF Live
  <2>4. \A side \in Sides : Wanted(side)' => side = entryJob.side
    BY <1>1, <1>3, <2>1, <2>2, <2>3 DEF Wanted
  <2> QED BY <1>1, <2>4 DEF NothingNewWanted, Wanted
<1>8. RestingInv' /\ VenueInv' /\ PathInv'
  BY <1>1, <1>7, VenueAlone
<1> QED BY <1>5, <1>6, <1>8 DEF FlowInv

\* The exit job reads, or gives up.
LEMMA ExitJobReadsKeep ==
    ASSUME FlowInv,
           UNCHANGED <<queue, localQty, venueVars, daemonVars, half, entryJob>>,
           exitJob' # None => exitJob' \in [qty : Int \ {0}, checked : BOOLEAN]
    PROVE  FlowInv'
<1> USE DEF venueVars, daemonVars
<1>1. TypeOK'
  BY DEF FlowInv, TypeOK
<1>2. QueueInv' /\ OrderInv'
  BY DEF FlowInv, QueueInv, OrderInv, Live
<1>3. NothingNewWanted
  BY DEF NothingNewWanted, Wanted, Live
<1>4. RestingInv' /\ VenueInv' /\ PathInv'
  BY <1>3, VenueAlone
<1> QED BY <1>1, <1>2, <1>4 DEF FlowInv

\* Reading positions and signals, and holding the position.
LEMMA ExitJobKeeps ==
    FlowInv /\ (ListOpenPositions \/ HasPendingExitSignal \/ Hold) => FlowInv'
<1>1. ASSUME FlowInv, ListOpenPositions PROVE FlowInv'
  BY <1>1, ExitJobReadsKeep DEF ListOpenPositions, FlowInv, TypeOK
<1>2. ASSUME FlowInv, HasPendingExitSignal PROVE FlowInv'
  BY <1>2, ExitJobReadsKeep DEF HasPendingExitSignal, FlowInv, TypeOK
<1>3. ASSUME FlowInv, Hold PROVE FlowInv'
  BY <1>3, ExitJobReadsKeep DEF Hold
<1> QED BY <1>1, <1>2, <1>3

\* The exit job or the operator writes an exit.
LEMMA ExitWrittenKeeps ==
    ASSUME FlowInv, NEW side \in Sides, NEW metadata \in BOOLEAN,
           queue' = Append(queue, ExitSignal(side, metadata)),
           UNCHANGED <<localQty, venueVars, daemonVars, half, entryJob>>,
           exitJob' = None \/ exitJob' = exitJob
    PROVE  FlowInv'
<1> USE DEF venueVars, daemonVars
<1>1. /\ ExitSignal(side, metadata) \in Signals
      /\ ExitSignal(side, metadata).type = "trend_exit"
  BY DEF ExitSignal, Signals
<1>2. QueueInv' /\ OrderInv' /\ queue' \in Seq(Signals) /\ queue' # <<>>
  BY <1>1, AppendQueue
<1>3. TypeOK'
  BY <1>2 DEF FlowInv, TypeOK
<1>4. NothingNewWanted
  <2>1. /\ DOMAIN queue' = 1 .. Len(queue) + 1 /\ DOMAIN queue = 1 .. Len(queue)
        /\ Len(queue) \in Nat
        /\ queue'[Len(queue) + 1] = ExitSignal(side, metadata)
        /\ \A i \in DOMAIN queue : queue'[i] = queue[i]
    BY <1>1, AppendElements DEF FlowInv, TypeOK
  <2>2. \A i \in DOMAIN queue' :
           i \in DOMAIN queue \/ queue'[i].type = "trend_exit"
    BY <1>1, <2>1
  <2> QED BY <2>1, <2>2 DEF NothingNewWanted, Wanted, Live
<1>5. RestingInv' /\ VenueInv' /\ PathInv'
  BY <1>4, VenueAlone
<1> QED BY <1>2, <1>3, <1>5 DEF FlowInv

\* The side of an exit for a position is a side.
LEMMA ExitSide ==
    ASSUME NEW n \in Int \ {0}
    PROVE  -Sign(n) \in Sides
<1>1. Sign(n) \in Int /\ (Sign(n) + 1 = 0 \/ Sign(n) = 1)
  BY DEF Sign
<1>2. \A x \in Int : x + 1 = 0 \/ x = 1 => -x = 1 \/ -x = -1
  OBVIOUS
<1>3. -Sign(n) = 1 \/ -Sign(n) = -1
  BY <1>1, <1>2
<1> QED BY <1>3 DEF Sides

\* The exit job writes.
LEMMA WriteExitSignalKeeps == FlowInv /\ WriteExitSignal => FlowInv'
<1> SUFFICES ASSUME FlowInv, WriteExitSignal PROVE FlowInv'
  OBVIOUS
<1>1. exitJob.qty \in Int \ {0}
  BY DEF WriteExitSignal, FlowInv, TypeOK
<1>2. PICK side \in Sides : side = -Sign(exitJob.qty)
  BY <1>1, ExitSide
<1> QED BY <1>2, ExitWrittenKeeps DEF WriteExitSignal

\* The operator writes.
LEMMA OperatorExitKeeps == FlowInv /\ OperatorExit => FlowInv'
<1> SUFFICES ASSUME FlowInv, OperatorExit PROVE FlowInv'
  OBVIOUS
<1>1. localQty \in Int \ {0}
  BY DEF OperatorExit, FlowInv, TypeOK
<1>2. PICK side \in Sides : side = -Sign(localQty)
  BY <1>1, ExitSide
<1> QED BY <1>2, ExitWrittenKeeps DEF OperatorExit, jobVars

\* A signal that has expired is no longer wanted.
LEMMA ExpireKeeps ==
    ASSUME NEW k \in DOMAIN queue
    PROVE  FlowInv /\ Expire(k) => FlowInv'
<1> SUFFICES ASSUME FlowInv, Expire(k) PROVE FlowInv'
  OBVIOUS
<1>1. /\ stage = "idle" /\ queue' = [queue EXCEPT ![k].expired = TRUE]
      /\ UNCHANGED <<localQty, venQty, resting, feed, trend, stage, order, half,
                     entryJob, exitJob>>
  BY DEF Expire, venueVars, daemonVars, jobVars
<1>2. /\ queue \in Seq(Signals) /\ queue[k] \in Signals
      /\ k \in 1 .. Len(queue)
  BY ElementOfSeq, LenProperties DEF FlowInv, TypeOK
<1>3. /\ queue' = [queue EXCEPT ![k] = [queue[k] EXCEPT !.expired = TRUE]]
      /\ [queue[k] EXCEPT !.expired = TRUE] \in Signals
  BY <1>1, <1>2 DEF Signals
<1>4. queue' \in Seq(Signals)
  BY <1>2, <1>3, ExceptSeq
<1>5. DOMAIN queue' = DOMAIN queue
  BY <1>3
<1>6. \A i \in DOMAIN queue : queue'[i].side = queue[i].side /\ (Live(i)' => Live(i))
  BY <1>2, <1>3 DEF Live, Signals
<1>7. TypeOK'
  BY <1>1, <1>4 DEF FlowInv, TypeOK
<1>8. QueueInv' /\ OrderInv'
  BY <1>1, <1>5, <1>6 DEF FlowInv, QueueInv, OrderInv
<1>9. NothingNewWanted
  BY <1>1, <1>5, <1>6 DEF NothingNewWanted, Wanted
<1>10. RestingInv' /\ VenueInv' /\ PathInv'
  BY <1>1, <1>9, VenueAlone
<1> QED BY <1>7, <1>8, <1>10 DEF FlowInv

\* The market moves, or nothing happens.
LEMMA MarketMoveKeeps == FlowInv /\ (MarketMove \/ UNCHANGED vars) => FlowInv'
<1> SUFFICES ASSUME FlowInv, trend' \in Trends,
                    UNCHANGED <<queue, localQty, venQty, resting, feed,
                                daemonVars, half, jobVars>>
             PROVE  FlowInv'
  BY DEF MarketMove, vars, venueVars, FlowInv, TypeOK
<1> USE DEF daemonVars, jobVars
<1>1. TypeOK'
  BY DEF FlowInv, TypeOK
<1>2. QueueInv' /\ OrderInv'
  BY DEF FlowInv, QueueInv, OrderInv, Live
<1>3. NothingNewWanted
  BY DEF NothingNewWanted, Wanted, Live
<1>4. RestingInv' /\ VenueInv' /\ PathInv'
  BY <1>3, VenueAlone
<1> QED BY <1>1, <1>2, <1>4 DEF FlowInv

\* The invariant holds: one entry is under way at a time, it is admitted only
\* where at most one more has been executed, and the executions not yet applied
\* lead from the position row to the venue's position.
THEOREM FlowInvariant == Spec => []FlowInv
<1>1. FlowInv /\ [Next]_vars => FlowInv'
  <2> SUFFICES ASSUME FlowInv, [Next]_vars PROVE FlowInv'
    OBVIOUS
  <2>1. CASE Daemon
    <3>1. stage # "idle" => queue # <<>>
      BY DEF FlowInv, TypeOK
    <3>2. ASSUME RejectExpired PROVE FlowInv'
      BY <3>2, SettleKeeps DEF RejectExpired
    <3>3. ASSUME NEW m, NEW p, RejectSignal(m, p) PROVE FlowInv'
      BY <3>1, <3>3, SettleKeeps DEF RejectSignal
    <3>4. ASSUME SubmitRefused PROVE FlowInv'
      BY <3>1, <3>4, SettleKeeps DEF SubmitRefused
    <3> QED BY <2>1, <3>2, <3>3, <3>4, BeginSignalKeeps, ApproveSignalKeeps,
               SubmitEntryKeeps, SubmitExitKeeps DEF Daemon
  <2>2. CASE Reconciler
    BY <2>2, ApplyFillToOrderKeeps, ApplyFillToPositionKeeps DEF Reconciler
  <2>3. CASE EntryJob
    BY <2>3, CheckPositionsKeeps, CheckOrdersKeeps, WriteSignalKeeps DEF EntryJob
  <2>4. CASE ExitJob
    BY <2>4, ExitJobKeeps, WriteExitSignalKeeps DEF ExitJob
  <2>5. CASE Environment
    BY <2>5, OperatorExitKeeps, ExpireKeeps, ExecuteKeeps, MarketMoveKeeps
       DEF Environment
  <2>6. CASE UNCHANGED vars
    BY <2>6, MarketMoveKeeps
  <2> QED BY <2>1, <2>2, <2>3, <2>4, <2>5, <2>6 DEF Next
<1> QED BY <1>1, InitEstablishes, PTL DEF Spec

-----------------------------------------------------------------------------
(* The results.                                                            *)

\* Every variable keeps its type; no order of zero contracts or of more than
\* MAX_CONTRACTS_PER_ORDER ever rests (build_kraken_futures_order).
THEOREM FlowTypeCorrect == Spec => []TypeOK
<1>1. FlowInv => TypeOK
  BY DEF FlowInv
<1> QED BY <1>1, FlowInvariant, PTL

\* However generator, daemon, venue and reconciler interleave, the exposure in
\* one direction is at most twice the largest entry the notional cap admits, and
\* no two orders of one direction rest at a time (check_existing_exposure,
\* DuplicatePositionCheck).
THEOREM ExposureTheorem == Spec => []ExposureBounded
<1>1. FlowInv => ExposureBounded
  <2> SUFFICES ASSUME FlowInv, NEW side \in Sides
               PROVE  /\ side * venQty <= 2 * Cap
                      /\ \A i \in DOMAIN resting : resting[i].side = side =>
                            /\ side * venQty + resting[i].qty <= 2 * Cap
                            /\ \A j \in DOMAIN resting \ {i} : resting[j].side # side
    BY DEF ExposureBounded
  <2>1. side * venQty <= 2 * Cap
    BY DEF FlowInv, VenueInv
  <2>2. ASSUME NEW i \in DOMAIN resting, resting[i].side = side
        PROVE  side * venQty + resting[i].qty <= 2 * Cap
    <3>1. /\ resting[i].qty <= Cap /\ side * venQty <= Cap /\ venQty \in Int
      BY <2>2 DEF FlowInv, RestingInv, TypeOK
    <3>2. resting[i].qty \in Int
      <4>1. resting[i] \in Orders
        BY ElementOfSeq, LenProperties DEF FlowInv, TypeOK
      <4> QED BY <4>1 DEF Orders
    <3>3. side * venQty \in Int
      BY <3>1, SidesAreInt
    <3> QED BY <3>1, <3>2, <3>3, CapIsNat
  <2>3. \A i, j \in DOMAIN resting : resting[i].side = resting[j].side => i = j
    BY DEF FlowInv, RestingInv
  <2> QED BY <2>1, <2>2, <2>3
<1> QED BY <1>1, FlowInvariant, PTL

\* An exit sized by a stale position row never increases or reverses the
\* position at the venue (build_exit_order).
THEOREM ExitTheorem == Spec => ExitOnlyReduces
<1> DEFINE A == (stage = "submit" /\ Head(queue).type = "trend_exit"
                   /\ venQty' # venQty /\ stage' = "idle")
                  => Abs(venQty') < Abs(venQty) /\ venQty * venQty' >= 0
<1>1. FlowInv /\ [Next]_vars => [A]_vars
  <2> SUFFICES ASSUME FlowInv, Next, stage = "submit",
                      Head(queue).type = "trend_exit",
                      venQty' # venQty, stage' = "idle"
               PROVE  Abs(venQty') < Abs(venQty) /\ venQty * venQty' >= 0
    BY DEF vars
  <2>1. SubmitExit
    BY DEF Next, Daemon, Reconciler, EntryJob, ExitJob, Environment,
       RejectExpired, BeginSignal, ApproveSignal, RejectSignal, SubmitEntry,
       SubmitRefused, ApplyFillToOrder, ApplyFillToPosition, CheckPositions,
       CheckOrders, WriteSignal, ListOpenPositions, HasPendingExitSignal,
       WriteExitSignal, Hold, OperatorExit, Expire, Execute, MarketMove,
       venueVars, daemonVars
  <2>2. order \in BuiltOrders /\ order.reduceOnly /\ venQty \in Int
    BY DEF FlowInv, OrderInv, TypeOK
  <2>3. MarketDelta(order) # 0 /\ venQty' = venQty + MarketDelta(order)
    BY <2>1 DEF SubmitExit
  <2> QED BY <2>2, <2>3, ReduceOnlyDelta
<1> QED BY <1>1, FlowInvariant, PTL DEF Spec, ExitOnlyReduces
=============================================================================
