--------------------------- MODULE OrderBookProofs ---------------------------
(***************************************************************************)
(* Proofs about OrderBook, for every set of prices, every number of        *)
(* changes of the venue's book and every number and kind of faults.        *)
(***************************************************************************)
EXTENDS OrderBook, SequenceTheorems, TLAPS

\* One level set or removed leaves a book of the same prices.
LEMMA LevelType ==
    ASSUME NEW b \in Books, NEW side \in {"bids", "asks"},
           NEW price \in Prices, NEW present \in BOOLEAN
    PROVE  WithLevel(b, side, price, present) \in Books
  BY DEF WithLevel, Books

\* What is left of book and connection when they are given up.
LEMMA Emptied ==
    /\ EmptyBook \in Books
    /\ <<>> \in Seq(Messages)
    /\ DOMAIN <<>> = {}
<1>1. EmptyBook \in Books
  BY DEF EmptyBook, Books
<1>2. <<>> \in Seq(Messages) /\ DOMAIN <<>> = {}
  OBVIOUS
<1> QED BY <1>1, <1>2

\* The socket takes one message; the others keep their order.
LEMMA MessageTaken ==
    ASSUME chan \in Seq(Messages), chan # <<>>
    PROVE  /\ Head(chan) \in Messages
           /\ Head(chan) = chan[1] /\ 1 \in DOMAIN chan
           /\ Tail(chan) \in Seq(Messages)
           /\ \A i \in DOMAIN Tail(chan) :
                 i + 1 \in DOMAIN chan /\ Tail(chan)[i] = chan[i + 1]
<1>1. Len(chan) \in Nat /\ DOMAIN chan = 1 .. Len(chan) /\ Len(chan) # 0
  BY EmptySeq, LenProperties
<1>2. /\ Tail(chan) \in Seq(Messages)
      /\ Len(Tail(chan)) = Len(chan) - 1
      /\ \A i \in 1 .. Len(Tail(chan)) : Tail(chan)[i] = chan[i + 1]
      /\ Head(chan) \in Messages
  BY HeadTailProperties
<1>3. DOMAIN Tail(chan) = 1 .. Len(Tail(chan))
  BY <1>2, LenProperties
<1> QED BY <1>1, <1>2, <1>3

\* A truthful message stays so while the venue's book is left alone, and the
\* messages that remain after one is taken are truthful.
LEMMA TruthKept ==
    ASSUME ExactInv, hist' = hist, chan # <<>>, chan' = Tail(chan)
    PROVE  /\ chan' \in Seq(Messages)
           /\ \A i \in DOMAIN chan' : Truthful(chan'[i], hist')
<1>1. chan \in Seq(Messages) /\ \A i \in DOMAIN chan : Truthful(chan[i], hist)
  BY DEF ExactInv, TypeOK
<1>2. /\ chan' \in Seq(Messages)
      /\ \A i \in DOMAIN chan' : i + 1 \in DOMAIN chan /\ chan'[i] = chan[i + 1]
  BY <1>1, MessageTaken
<1> QED BY <1>1, <1>2 DEF Truthful

\* The sequence number of a truthful delta and the book before it.
LEMMA DeltaFacts ==
    ASSUME ExactInv, chan # <<>>, Head(chan).kind = "delta"
    PROVE  LET m == Head(chan) IN
           /\ m.seq \in DOMAIN hist /\ m.seq \in Seqs
           /\ m.side \in {"bids", "asks"}
           /\ m.price \in Prices /\ m.present \in BOOLEAN
           /\ m.seq - 1 \in DOMAIN hist
           /\ hist[m.seq] = WithLevel(hist[m.seq - 1], m.side, m.price, m.present)
<1>1. chan \in Seq(Messages) /\ \A i \in DOMAIN chan : Truthful(chan[i], hist)
  BY DEF ExactInv, TypeOK
<1>2. Head(chan) \in Messages /\ Truthful(Head(chan), hist)
  BY <1>1, MessageTaken
<1>3. Head(chan) \in [kind : {"delta"}, seq : Seqs, side : {"bids", "asks"},
                      price : Prices, present : BOOLEAN]
  BY <1>2 DEF Messages
<1> QED BY <1>2, <1>3 DEF Truthful

\* A snapshot carries a book of the venue.
LEMMA SnapshotFacts ==
    ASSUME ExactInv, chan # <<>>, Head(chan).kind = "snapshot"
    PROVE  LET m == Head(chan) IN
           /\ m.seq \in DOMAIN hist /\ m.seq \in Seqs
           /\ m.book \in Books
           /\ m.book = hist[m.seq]
<1>1. chan \in Seq(Messages) /\ \A i \in DOMAIN chan : Truthful(chan[i], hist)
  BY DEF ExactInv, TypeOK
<1>2. Head(chan) \in Messages /\ Truthful(Head(chan), hist)
  BY <1>1, MessageTaken
<1>3. Head(chan) \in [kind : {"snapshot"}, seq : Seqs, book : Books]
  BY <1>2 DEF Messages
<1> QED BY <1>2, <1>3 DEF Truthful

\* The venue's latest book; sequence numbers are integers, None is not.
LEMMA Latest ==
    ASSUME TypeOK
    PROVE  /\ Len(hist) \in DOMAIN hist /\ Len(hist) \in Seqs
           /\ hist[Len(hist)] \in Books
           /\ DOMAIN hist = 1 .. Len(hist) /\ Len(hist) \in Nat
           /\ DOMAIN hist \subseteq Seqs
           /\ None \notin Seqs
           /\ \A i \in DOMAIN hist : hist[i] \in Books
<1>1. hist \in Seq(Books) /\ Len(hist) \in Seqs /\ MaxSeq \in Nat /\ None \notin Int
  BY ConstantsAssumption DEF TypeOK
<1>2. DOMAIN hist = 1 .. Len(hist) /\ Len(hist) \in Nat /\ Len(hist) >= 1
  BY <1>1, LenProperties DEF Seqs
<1> QED BY <1>1, <1>2, ElementOfSeq DEF Seqs

\* The venue publishes a change: earlier books stay, the new message leads from
\* the last of them to the new one.
LEMMA ChangeStep ==
    ASSUME ExactInv, NEW side \in {"bids", "asks"}, NEW price \in Prices,
           VenueChange(side, price)
    PROVE  ExactInv'
<1> DEFINE old     == hist[Len(hist)]
           present == price \notin old[side]
           new     == WithLevel(old, side, price, present)
           delta   == [kind |-> "delta", seq |-> Len(hist) + 1, side |-> side,
                       price |-> price, present |-> present]
<1>1. /\ Len(hist) <= MaxSeq
      /\ hist' = Append(hist, new)
      /\ chan' = IF up THEN Append(chan, delta) ELSE chan
      /\ UNCHANGED <<state, book, lastSeq, up>>
      /\ faults' \in 0 .. MaxFaults
  BY ConstantsAssumption
     DEF VenueChange, localVars, Fault, ExactInv, TypeOK
<1>2. present \in BOOLEAN
  OBVIOUS
<1>3. new \in Books
  BY <1>2, LevelType, Latest DEF ExactInv
<1>4. /\ hist' \in Seq(Books)
      /\ Len(hist') = Len(hist) + 1
      /\ \A i \in 1 .. Len(hist) : hist'[i] = hist[i]
      /\ hist'[Len(hist) + 1] = new
  BY <1>1, <1>3, AppendProperties DEF ExactInv, TypeOK
<1>5. /\ DOMAIN hist = 1 .. Len(hist) /\ Len(hist) \in Nat /\ Len(hist) >= 1
      /\ DOMAIN hist' = 1 .. Len(hist) + 1
      /\ Len(hist) + 1 \in Seqs
  BY <1>1, <1>4, Latest, LenProperties, ConstantsAssumption
     DEF ExactInv, TypeOK, Seqs
<1> HIDE DEF new
<1>6. delta \in Messages
  BY <1>2, <1>5 DEF Messages
<1>7. \A m \in Messages : Truthful(m, hist) => Truthful(m, hist')
  BY <1>4, <1>5 DEF Truthful
<1>8. Truthful(delta, hist')
  <2>1. delta.seq = Len(hist) + 1 /\ delta.side = side /\ delta.price = price
        /\ delta.present = present /\ delta.kind = "delta"
    OBVIOUS
  <2>2. hist'[delta.seq - 1] = old
    BY <1>4, <1>5, <2>1
  <2>3. delta.seq - 1 \in DOMAIN hist' /\ delta.seq \in DOMAIN hist'
    BY <1>5, <2>1
  <2>4. hist'[delta.seq] = WithLevel(old, side, price, present)
    BY <1>4, <2>1 DEF new
  <2> HIDE DEF delta, old, present
  <2> QED BY <2>1, <2>2, <2>3, <2>4 DEF Truthful
<1> HIDE DEF delta
<1>9. chan' \in Seq(Messages) /\ \A i \in DOMAIN chan' : Truthful(chan'[i], hist')
  <2>1. chan \in Seq(Messages) /\ \A i \in DOMAIN chan : Truthful(chan[i], hist)
    BY DEF ExactInv, TypeOK
  <2>2. CASE ~up
    BY <1>1, <1>7, <2>1, <2>2, ElementOfSeq, LenProperties
  <2>3. CASE up
    <3>1. chan' = Append(chan, delta)
      BY <1>1, <2>3
    <3>2. /\ chan' \in Seq(Messages)
          /\ Len(chan') = Len(chan) + 1
          /\ \A i \in 1 .. Len(chan) : chan'[i] = chan[i]
          /\ chan'[Len(chan) + 1] = delta
      BY <1>6, <2>1, <3>1, AppendProperties
    <3>3. DOMAIN chan' = 1 .. Len(chan) + 1 /\ DOMAIN chan = 1 .. Len(chan)
          /\ Len(chan) \in Nat
      BY <2>1, <3>2, LenProperties
    <3>4. \A i \in DOMAIN chan : chan[i] \in Messages
      BY <2>1, <3>3, ElementOfSeq
    <3> QED BY <1>7, <1>8, <2>1, <3>2, <3>3, <3>4
  <2> QED BY <2>2, <2>3 DEF ExactInv, TypeOK
<1> QED BY <1>1, <1>4, <1>5, <1>9 DEF ExactInv, TypeOK, SyncedIsExact

\* Every step keeps the invariant.
LEMMA ExactStep == ExactInv /\ [Next]_vars => ExactInv'
<1> SUFFICES ASSUME ExactInv, [Next]_vars PROVE ExactInv'
  OBVIOUS
<1> USE DEF ExactInv, SyncedIsExact
<1>1. CASE HandleSnapshot
  BY <1>1, SnapshotFacts, TruthKept, Latest
     DEF HandleSnapshot, ApplySnapshot, TypeOK, BookState
<1>2. CASE HandleDelta
  <2> DEFINE m == Head(chan)
  <2>1. /\ chan # <<>> /\ m.kind = "delta" /\ state = "Synced"
        /\ m.seq = lastSeq + 1
        /\ book' = WithLevel(book, m.side, m.price, m.present)
        /\ lastSeq' = m.seq
        /\ state' \in {"OutOfSync", "Synced"}
        /\ chan' = Tail(chan)
        /\ UNCHANGED <<up, hist, faults>>
    BY <1>2 DEF HandleDelta, ApplyDelta, NextInSequence
  <2>2. /\ m.seq \in DOMAIN hist /\ m.seq \in Seqs
        /\ m.side \in {"bids", "asks"}
        /\ m.price \in Prices /\ m.present \in BOOLEAN
        /\ hist[m.seq] = WithLevel(hist[m.seq - 1], m.side, m.price, m.present)
    BY <2>1, DeltaFacts
  <2>3. lastSeq \in DOMAIN hist /\ lastSeq \in Int /\ book = hist[lastSeq]
    BY <2>1, Latest
  <2>4. m.seq - 1 = lastSeq
    BY <2>1, <2>3
  <2>5. book' = hist[m.seq] /\ book' \in Books
    BY <2>1, <2>2, <2>3, <2>4, Latest
  <2> HIDE DEF m
  <2> QED BY <2>1, <2>2, <2>5, TruthKept, Latest DEF TypeOK, BookState
<1>3. CASE RefuseDelta
  BY <1>3, TruthKept DEF RefuseDelta, localVars, TypeOK
<1>4. CASE SequenceGap
  BY <1>4, Emptied DEF SequenceGap, Invalidate, TypeOK, BookState
<1>5. CASE Connect
  <2> DEFINE m == [kind |-> "snapshot", seq |-> Len(hist),
                   book |-> hist[Len(hist)]]
  <2>1. chan' = <<m>> /\ up' = TRUE /\ UNCHANGED <<state, book, lastSeq, hist, faults>>
    BY <1>5 DEF Connect, localVars
  <2>2. m \in Messages
    BY Latest DEF Messages
  <2>3. m.seq = Len(hist) /\ m.book = hist[Len(hist)] /\ m.kind = "snapshot"
    OBVIOUS
  <2> HIDE DEF m
  <2>4. Truthful(m, hist')
    BY <2>1, <2>3, Latest DEF Truthful
  <2>5. chan' \in Seq(Messages) /\ \A i \in DOMAIN chan' : chan'[i] = m
    BY <2>1, <2>2
  <2> QED BY <2>1, <2>4, <2>5 DEF TypeOK
<1>6. ASSUME NEW side \in {"bids", "asks"}, NEW price \in Prices,
             VenueChange(side, price)
      PROVE  ExactInv'
  BY <1>6, ChangeStep
<1>7. CASE DropMessage
  BY <1>7, TruthKept, ConstantsAssumption
     DEF DropMessage, Fault, localVars, TypeOK
<1>8. CASE ConnectionLost
  <2>1. faults' \in 0 .. MaxFaults
    BY <1>8, ConstantsAssumption DEF ConnectionLost, Fault, TypeOK
  <2>2. /\ state' = "OutOfSync" /\ book' = EmptyBook /\ lastSeq' = None
        /\ up' = FALSE /\ chan' = <<>> /\ hist' = hist
    BY <1>8 DEF ConnectionLost, Invalidate
  <2> QED BY <2>1, <2>2, Emptied DEF TypeOK, BookState
<1>9. CASE UNCHANGED vars
  BY <1>9 DEF vars, localVars, TypeOK, Truthful
<1> QED BY <1>1, <1>2, <1>3, <1>4, <1>5, <1>6, <1>7, <1>8, <1>9
        DEF Next, HandleMessage

\* No book yet.
LEMMA ExactInit == Init => ExactInv
<1> SUFFICES ASSUME Init PROVE ExactInv
  OBVIOUS
<1>1. EmptyBook \in Books
  BY Emptied
<1>2. hist \in Seq(Books) /\ Len(hist) = 1
  BY <1>1 DEF Init
<1>3. chan \in Seq(Messages) /\ DOMAIN chan = {}
  BY Emptied DEF Init
<1>4. Len(hist) \in Seqs /\ faults \in 0 .. MaxFaults
  BY <1>2, ConstantsAssumption DEF Init, Seqs
<1> QED BY <1>1, <1>2, <1>3, <1>4
        DEF Init, ExactInv, TypeOK, SyncedIsExact, BookState

\* The local book, its sequence number and the messages under way keep their
\* types, and a Synced book has a sequence number, which apply_delta unwraps.
THEOREM BookTypeCorrect == Spec => []TypeOK
<1>1. ExactInv => TypeOK
  BY DEF ExactInv
<1> QED BY <1>1, ExactInit, ExactStep, PTL DEF Spec

\* A book that can be read is exactly the venue's book at its sequence number,
\* whatever is dropped, cut off or resubscribed (apply_delta, invalidate).
THEOREM BookExact == Spec => []SyncedIsExact
<1>1. ExactInv => SyncedIsExact
  BY DEF ExactInv
<1> QED BY <1>1, ExactInit, ExactStep, PTL DEF Spec
=============================================================================
