---------------------------- MODULE PositionProofs ----------------------------
(***************************************************************************)
(* Proofs about Position, for every set of instruments, quantities and     *)
(* prices and every number of fills.                                       *)
(***************************************************************************)
EXTENDS Position, SequenceTheorems, TLAPS

USE DEF Signed, Abs

BookInv == QuantitiesOK /\ OneOpenRow /\ BookMatchesFills

\* A fill changes the sum of its own instrument only.
LEMMA FillEffect ==
    ASSUME NEW k \in Instruments, NEW isBuy \in BOOLEAN,
           NEW q \in Nat \ {0}, QuantitiesOK, Fill(k, isBuy, q)
    PROVE  /\ fills' \in 0 .. MaxFills
           /\ net' \in [Instruments -> Int]
           /\ net'[k] = net[k] + Signed(isBuy, q)
           /\ \A j \in Instruments \ {k} : net'[j] = net[j]
  BY ConstantsAssumption DEF Fill, QuantitiesOK

\* An appended sequence, element by element.
LEMMA Appended ==
    ASSUME NEW S, NEW s \in Seq(S), NEW x \in S
    PROVE  /\ Append(s, x) \in Seq(S)
           /\ Len(Append(s, x)) = Len(s) + 1
           /\ DOMAIN Append(s, x) = DOMAIN s \cup {Len(s) + 1}
           /\ \A i \in DOMAIN s : Append(s, x)[i] = s[i]
           /\ Append(s, x)[Len(s) + 1] = x
  BY AppendProperties

\* Inserting an open row for an instrument that has none.
LEMMA OpenedStep ==
    ASSUME BookInv, NEW k \in Instruments, NEW isBuy \in BOOLEAN,
           NEW q \in Nat \ {0}, NEW p \in Prices, Opened(k, isBuy, q, p)
    PROVE  BookInv'
<1> USE DEF BookInv
<1>1. /\ fills' \in 0 .. MaxFills
      /\ net' \in [Instruments -> Int]
      /\ net'[k] = net[k] + Signed(isBuy, q)
      /\ \A j \in Instruments \ {k} : net'[j] = net[j]
  BY FillEffect DEF Opened
<1>2. /\ OpenRows(k) = {}
      /\ open' = open \cup {NextId}
  BY DEF Opened
<1>3. /\ instrument' \in Seq(Instruments)
      /\ Len(instrument') = Len(instrument) + 1
      /\ DOMAIN instrument' = DOMAIN instrument \cup {NextId}
      /\ \A i \in DOMAIN instrument : instrument'[i] = instrument[i]
      /\ instrument'[NextId] = k
  BY Appended DEF Opened, NextId, QuantitiesOK
<1>4. /\ quantity' \in Seq(Int)
      /\ Len(quantity') = Len(quantity) + 1
      /\ DOMAIN quantity' = DOMAIN quantity \cup {NextId}
      /\ \A i \in DOMAIN quantity : quantity'[i] = quantity[i]
      /\ quantity'[NextId] = Signed(isBuy, q)
  <2>1. Signed(isBuy, q) \in Int /\ quantity \in Seq(Int)
        /\ NextId = Len(quantity) + 1
        /\ quantity' = Append(quantity, Signed(isBuy, q))
    BY DEF QuantitiesOK, Opened, NextId
  <2> QED BY <2>1, Appended
<1>5. QuantitiesOK'
  BY <1>1, <1>2, <1>3, <1>4 DEF QuantitiesOK
<1>6. NextId \notin DOMAIN quantity /\ DOMAIN quantity = DOMAIN instrument
  BY DEF QuantitiesOK, NextId
<1>7. OneOpenRow'
  <2>1. open \subseteq DOMAIN quantity
    BY <1>6 DEF QuantitiesOK
  <2>2. \A i \in open : instrument'[i] = instrument[i] /\ instrument[i] # k
    BY <1>2, <1>3, <1>6, <2>1 DEF OpenRows
  <2>3. ASSUME NEW i \in open', NEW j \in open',
               instrument'[i] = instrument'[j]
        PROVE  i = j
    BY <1>2, <1>3, <2>2, <2>3 DEF OneOpenRow
  <2>4. Signed(isBuy, q) # 0
    OBVIOUS
  <2>5. ASSUME NEW i \in DOMAIN quantity'
        PROVE  i \in open' <=> quantity'[i] # 0
    <3>1. CASE i = NextId
      BY <1>2, <1>4, <2>4, <3>1
    <3>2. CASE i \in DOMAIN quantity
      BY <1>2, <1>4, <1>6, <3>2 DEF OneOpenRow
    <3> QED BY <1>4, <3>1, <3>2
  <2> QED BY <2>3, <2>5 DEF OneOpenRow
<1>8. BookMatchesFills'
  <2>1. open \subseteq DOMAIN quantity
    BY <1>6 DEF QuantitiesOK
  <2>2. OpenRows(k)' = {NextId}
    BY <1>2, <1>3, <1>6, <2>1 DEF OpenRows
  <2>3. net[k] = 0 /\ net'[k] = Signed(isBuy, q)
    BY <1>1, <1>2 DEF BookMatchesFills, QuantitiesOK
  <2>4. ASSUME NEW j \in Instruments \ {k}
        PROVE  OpenRows(j)' = OpenRows(j)
    BY <1>2, <1>3, <1>6, <2>1 DEF OpenRows
  <2>5. ASSUME NEW j \in Instruments
        PROVE  /\ \A r \in OpenRows(j)' : quantity'[r] = net'[j]
               /\ OpenRows(j)' = {} => net'[j] = 0
    <3>1. CASE j = k
      BY <1>4, <2>2, <2>3, <3>1
    <3>2. CASE j # k
      BY <1>1, <1>4, <2>1, <2>4, <3>2 DEF BookMatchesFills, OpenRows
    <3> QED BY <3>1, <3>2
  <2> QED BY <2>5 DEF BookMatchesFills
<1> QED BY <1>5, <1>7, <1>8

\* The open row a fill meets is the only one of its instrument and holds the
\* instrument's sum.
LEMMA OpenRowFacts ==
    ASSUME BookInv, NEW k \in Instruments, NEW r, IsOpenRow(r, k)
    PROVE  /\ r \in DOMAIN quantity /\ r \in open
           /\ instrument[r] = k
           /\ OpenRows(k) = {r}
           /\ quantity[r] \in Int
           /\ quantity[r] = net[k]
           /\ quantity[r] # 0
           /\ DOMAIN quantity = DOMAIN instrument
<1>1. r \in OpenRows(k)
  BY DEF IsOpenRow
<1>2. r \in open /\ instrument[r] = k
  BY <1>1 DEF OpenRows
<1>3. DOMAIN quantity = DOMAIN instrument /\ r \in DOMAIN quantity
      /\ quantity[r] \in Int
  BY <1>2 DEF BookInv, QuantitiesOK
<1>4. OpenRows(k) = {r}
  BY <1>1, <1>2 DEF OpenRows, BookInv, OneOpenRow
<1> QED BY <1>1, <1>2, <1>3, <1>4 DEF BookInv, BookMatchesFills, OneOpenRow

\* A fill that leaves the open row open.
LEMMA ResizedStep ==
    ASSUME BookInv, NEW k \in Instruments, NEW isBuy \in BOOLEAN,
           NEW q \in Nat \ {0}, NEW r, IsOpenRow(r, k), Fill(k, isBuy, q),
           quantity' = [quantity EXCEPT ![r] = @ + Signed(isBuy, q)],
           quantity[r] + Signed(isBuy, q) # 0,
           UNCHANGED <<instrument, open>>
    PROVE  BookInv'
<1>1. /\ fills' \in 0 .. MaxFills
      /\ net' \in [Instruments -> Int]
      /\ net'[k] = net[k] + Signed(isBuy, q)
      /\ \A j \in Instruments \ {k} : net'[j] = net[j]
  BY FillEffect DEF BookInv
<1>2. /\ r \in DOMAIN quantity /\ r \in open
      /\ instrument[r] = k
      /\ OpenRows(k) = {r}
      /\ quantity[r] \in Int
      /\ quantity[r] = net[k]
      /\ DOMAIN quantity = DOMAIN instrument
  BY OpenRowFacts
<1>3. quantity \in Seq(Int) /\ quantity[r] + Signed(isBuy, q) \in Int
  <2>1. quantity \in Seq(Int)
    BY DEF BookInv, QuantitiesOK
  <2>2. Signed(isBuy, q) \in Int
    OBVIOUS
  <2> HIDE DEF Signed
  <2> QED BY <1>2, <2>1, <2>2
<1>4. /\ quantity' \in Seq(Int)
      /\ Len(quantity') = Len(quantity)
      /\ DOMAIN quantity' = DOMAIN quantity
      /\ quantity'[r] = quantity[r] + Signed(isBuy, q)
      /\ \A i \in DOMAIN quantity \ {r} : quantity'[i] = quantity[i]
  BY <1>2, <1>3, ExceptSeq
<1>5. QuantitiesOK'
  BY <1>1, <1>4 DEF BookInv, QuantitiesOK
<1>6. OneOpenRow'
  BY <1>2, <1>4 DEF BookInv, OneOpenRow
<1>7. \A j \in Instruments : OpenRows(j)' = OpenRows(j)
  BY DEF OpenRows
<1>8. BookMatchesFills'
  <2>1. ASSUME NEW j \in Instruments
        PROVE  /\ \A i \in OpenRows(j) : quantity'[i] = net'[j]
               /\ OpenRows(j) = {} => net'[j] = 0
    <3>1. CASE j = k
      BY <1>1, <1>2, <1>4, <3>1
    <3>2. CASE j # k
      <4>1. \A i \in OpenRows(j) : i \in DOMAIN quantity \ {r}
        BY <1>2, <3>2 DEF OpenRows, BookInv, QuantitiesOK
      <4> QED BY <1>1, <1>4, <3>2, <4>1 DEF BookInv, BookMatchesFills
    <3> QED BY <3>1, <3>2
  <2> QED BY <1>7, <2>1 DEF BookMatchesFills
<1> QED BY <1>5, <1>6, <1>8 DEF BookInv

\* A fill of exactly the open contracts, on the opposite side.
LEMMA ClosedStep ==
    ASSUME BookInv, NEW k \in Instruments, NEW isBuy \in BOOLEAN,
           NEW q \in Nat \ {0}, NEW r, NEW p, Closed(r, k, isBuy, q, p)
    PROVE  BookInv'
<1>1. /\ fills' \in 0 .. MaxFills
      /\ net' \in [Instruments -> Int]
      /\ net'[k] = net[k] + Signed(isBuy, q)
      /\ \A j \in Instruments \ {k} : net'[j] = net[j]
  BY FillEffect DEF BookInv, Closed
<1>2. /\ r \in DOMAIN quantity /\ r \in open
      /\ instrument[r] = k
      /\ OpenRows(k) = {r}
      /\ quantity[r] \in Int
      /\ quantity[r] = net[k]
      /\ DOMAIN quantity = DOMAIN instrument
  BY OpenRowFacts DEF Closed
<1>3. quantity \in Seq(Int)
  BY DEF BookInv, QuantitiesOK
<1>4. /\ quantity' \in Seq(Int)
      /\ Len(quantity') = Len(quantity)
      /\ DOMAIN quantity' = DOMAIN quantity
      /\ quantity'[r] = 0
      /\ \A i \in DOMAIN quantity \ {r} : quantity'[i] = quantity[i]
  BY <1>2, <1>3, ExceptSeq DEF Closed
<1>5. open' = open \ {r} /\ instrument' = instrument
  BY DEF Closed
<1>6. net'[k] = 0
  BY <1>1, <1>2 DEF Closed, SameSide
<1>7. QuantitiesOK'
  BY <1>1, <1>4, <1>5 DEF BookInv, QuantitiesOK
<1>8. OneOpenRow'
  BY <1>4, <1>5 DEF BookInv, OneOpenRow
<1>9. BookMatchesFills'
  <2>1. ASSUME NEW j \in Instruments
        PROVE  /\ \A i \in OpenRows(j)' : quantity'[i] = net'[j]
               /\ OpenRows(j)' = {} => net'[j] = 0
    <3>1. CASE j = k
      <4>1. OpenRows(k)' = {}
        BY <1>2, <1>5 DEF OpenRows
      <4> QED BY <1>6, <3>1, <4>1
    <3>2. CASE j # k
      <4>1. OpenRows(j)' = OpenRows(j)
        BY <1>2, <1>5, <3>2 DEF OpenRows
      <4>2. \A i \in OpenRows(j) : i \in DOMAIN quantity \ {r}
        BY <1>2, <3>2 DEF OpenRows, BookInv, QuantitiesOK
      <4> QED BY <1>1, <1>4, <3>2, <4>1, <4>2 DEF BookInv, BookMatchesFills
    <3> QED BY <3>1, <3>2
  <2> QED BY <2>1 DEF BookMatchesFills
<1> QED BY <1>7, <1>8, <1>9 DEF BookInv

\* A larger fill on the opposite side: one row closes, another opens.
LEMMA FlippedStep ==
    ASSUME BookInv, NEW k \in Instruments, NEW isBuy \in BOOLEAN,
           NEW q \in Nat \ {0}, NEW r, NEW p, Flipped(r, k, isBuy, q, p)
    PROVE  BookInv'
<1> DEFINE residual == Signed(isBuy, q - Abs(quantity[r]))
           emptied == [quantity EXCEPT ![r] = 0]
<1>1. /\ fills' \in 0 .. MaxFills
      /\ net' \in [Instruments -> Int]
      /\ net'[k] = net[k] + Signed(isBuy, q)
      /\ \A j \in Instruments \ {k} : net'[j] = net[j]
  BY FillEffect DEF BookInv, Flipped
<1>2. /\ r \in DOMAIN quantity /\ r \in open
      /\ instrument[r] = k
      /\ OpenRows(k) = {r}
      /\ quantity[r] \in Int
      /\ quantity[r] = net[k]
      /\ DOMAIN quantity = DOMAIN instrument
  BY OpenRowFacts DEF Flipped
<1>3. quantity \in Seq(Int) /\ NextId = Len(quantity) + 1
      /\ NextId \notin DOMAIN quantity /\ open \subseteq DOMAIN quantity
      /\ instrument \in Seq(Instruments) /\ NextId = Len(instrument) + 1
  BY DEF BookInv, QuantitiesOK, NextId
<1>4. /\ emptied \in Seq(Int)
      /\ Len(emptied) = Len(quantity)
      /\ DOMAIN emptied = DOMAIN quantity
      /\ emptied[r] = 0
      /\ \A i \in DOMAIN quantity \ {r} : emptied[i] = quantity[i]
  BY <1>2, <1>3, ExceptSeq
<1>5. residual \in Int /\ residual # 0 /\ residual = net'[k]
  <2> DEFINE x == quantity[r]
  <2>1. x \in Int /\ (x < 0 <=> isBuy) /\ q > Abs(x)
    <3>1. x \in Int /\ ~SameSide(r, isBuy) /\ q > Abs(x)
      BY <1>2 DEF Flipped
    <3>2. x >= 0 <=> ~isBuy
      BY <3>1 DEF SameSide
    <3> QED BY <3>1, <3>2
  <2>2. net'[k] = x + Signed(isBuy, q) /\ residual = Signed(isBuy, q - Abs(x))
    BY <1>1, <1>2
  <2> HIDE DEF x, residual
  <2>3. CASE isBuy
    <3>1. x < 0 /\ q > -x
      BY <2>1, <2>3
    <3>2. net'[k] = x + q /\ residual = q - (-x)
      BY <2>1, <2>2, <2>3, <3>1
    <3> QED BY <2>1, <3>1, <3>2
  <2>4. CASE ~isBuy
    <3>1. x >= 0 /\ q > x
      BY <2>1, <2>4
    <3>2. net'[k] = x - q /\ residual = -(q - x)
      BY <2>1, <2>2, <2>4, <3>1
    <3> QED BY <2>1, <3>1, <3>2
  <2> QED BY <2>3, <2>4
<1>6. /\ quantity' = Append(emptied, residual)
      /\ instrument' = Append(instrument, k)
      /\ open' = (open \ {r}) \cup {NextId}
  BY DEF Flipped
<1>7. /\ quantity' \in Seq(Int)
      /\ Len(quantity') = Len(quantity) + 1
      /\ DOMAIN quantity' = DOMAIN quantity \cup {NextId}
      /\ \A i \in DOMAIN quantity : quantity'[i] = emptied[i]
      /\ quantity'[NextId] = residual
  <2> HIDE DEF residual, emptied
  <2> QED BY <1>3, <1>4, <1>5, <1>6, Appended
<1> HIDE DEF residual, emptied
<1>8. /\ instrument' \in Seq(Instruments)
      /\ Len(instrument') = Len(instrument) + 1
      /\ DOMAIN instrument' = DOMAIN instrument \cup {NextId}
      /\ \A i \in DOMAIN instrument : instrument'[i] = instrument[i]
      /\ instrument'[NextId] = k
  BY <1>3, <1>6, Appended
<1>9. QuantitiesOK'
  BY <1>1, <1>2, <1>6, <1>7, <1>8, <1>3 DEF BookInv, QuantitiesOK
<1>10. \A i \in open \ {r} : instrument'[i] = instrument[i]
                             /\ instrument[i] # k
  BY <1>2, <1>3, <1>8 DEF OpenRows
<1>11. OneOpenRow'
  <2>1. ASSUME NEW i \in open', NEW j \in open',
               instrument'[i] = instrument'[j]
        PROVE  i = j
    <3>1. CASE i \in open \ {r} /\ j \in open \ {r}
      BY <1>10, <2>1, <3>1 DEF BookInv, OneOpenRow
    <3>2. CASE i = NextId \/ j = NextId
      BY <1>6, <1>8, <1>10, <2>1, <3>2
    <3> QED BY <1>6, <3>1, <3>2
  <2>2. ASSUME NEW i \in DOMAIN quantity'
        PROVE  i \in open' <=> quantity'[i] # 0
    <3>1. CASE i = NextId
      BY <1>5, <1>6, <1>7, <3>1
    <3>2. CASE i = r
      BY <1>2, <1>3, <1>4, <1>6, <1>7, <3>2
    <3>3. CASE i \in DOMAIN quantity \ {r}
      BY <1>3, <1>4, <1>6, <1>7, <3>3 DEF BookInv, OneOpenRow
    <3> QED BY <1>7, <3>1, <3>2, <3>3
  <2> QED BY <2>1, <2>2 DEF OneOpenRow
<1>12. BookMatchesFills'
  <2>1. OpenRows(k)' = {NextId}
    BY <1>6, <1>8, <1>10 DEF OpenRows
  <2>2. ASSUME NEW j \in Instruments
        PROVE  /\ \A i \in OpenRows(j)' : quantity'[i] = net'[j]
               /\ OpenRows(j)' = {} => net'[j] = 0
    <3>1. CASE j = k
      BY <1>5, <1>7, <2>1, <3>1
    <3>2. CASE j # k
      <4>1. OpenRows(j)' = OpenRows(j)
        BY <1>2, <1>3, <1>6, <1>8, <1>10, <3>2 DEF OpenRows
      <4>2. \A i \in OpenRows(j) : i \in DOMAIN quantity \ {r}
        BY <1>2, <1>3, <3>2 DEF OpenRows
      <4>3. \A i \in OpenRows(j) : quantity'[i] = quantity[i]
        BY <1>4, <1>7, <4>2
      <4> QED BY <1>1, <3>2, <4>1, <4>3 DEF BookInv, BookMatchesFills
    <3> QED BY <3>1, <3>2
  <2> QED BY <2>2 DEF BookMatchesFills
<1> QED BY <1>9, <1>11, <1>12 DEF BookInv

\* Every fill keeps the quantities.
LEMMA BookStep == BookInv /\ [Next]_vars => BookInv'
<1> SUFFICES ASSUME BookInv, [Next]_vars PROVE BookInv'
  OBVIOUS
<1>1. ASSUME NEW k \in Instruments, NEW isBuy \in BOOLEAN,
             NEW q \in Quantities, NEW p \in Prices,
             apply_fill_to_position(k, isBuy, q, p)
      PROVE  BookInv'
  <2>1. q \in Nat \ {0}
    BY ConstantsAssumption
  <2>2. CASE Opened(k, isBuy, q, p)
    BY <2>1, <2>2, OpenedStep
  <2>3. ASSUME NEW r \in DOMAIN quantity, Added(r, k, isBuy, q, p)
        PROVE  BookInv'
    <3>1. IsOpenRow(r, k) /\ Fill(k, isBuy, q) /\ SameSide(r, isBuy)
          /\ quantity' = [quantity EXCEPT ![r] = @ + Signed(isBuy, q)]
          /\ UNCHANGED <<instrument, open>>
      BY <2>3 DEF Added
    <3>2. quantity[r] \in Int /\ quantity[r] # 0
      BY <3>1, OpenRowFacts
    <3>3. quantity[r] + Signed(isBuy, q) # 0
      BY <2>1, <3>1, <3>2 DEF SameSide
    <3> QED BY <2>1, <3>1, <3>3, ResizedStep
  <2>4. ASSUME NEW r \in DOMAIN quantity, Reduced(r, k, isBuy, q, p)
        PROVE  BookInv'
    <3>1. IsOpenRow(r, k) /\ Fill(k, isBuy, q) /\ q < Abs(quantity[r])
          /\ quantity' = [quantity EXCEPT ![r] = @ + Signed(isBuy, q)]
          /\ UNCHANGED <<instrument, open>>
      BY <2>4 DEF Reduced
    <3>2. quantity[r] \in Int /\ quantity[r] # 0
      BY <3>1, OpenRowFacts
    <3>3. quantity[r] + Signed(isBuy, q) # 0
      BY <2>1, <3>1, <3>2
    <3> QED BY <2>1, <3>1, <3>3, ResizedStep
  <2>5. ASSUME NEW r \in DOMAIN quantity, Closed(r, k, isBuy, q, p)
        PROVE  BookInv'
    BY <2>1, <2>5, ClosedStep
  <2>6. ASSUME NEW r \in DOMAIN quantity, Flipped(r, k, isBuy, q, p)
        PROVE  BookInv'
    BY <2>1, <2>6, FlippedStep
  <2> QED BY <1>1, <2>2, <2>3, <2>4, <2>5, <2>6 DEF apply_fill_to_position
<1>2. CASE UNCHANGED vars
  BY <1>2 DEF vars, tableVars, BookInv, QuantitiesOK, OneOpenRow,
              BookMatchesFills, OpenRows
<1> QED BY <1>1, <1>2 DEF Next

\* An empty table.
LEMMA BookInit == Init => BookInv
  BY ConstantsAssumption, EmptySeq
     DEF Init, BookInv, QuantitiesOK, OneOpenRow, BookMatchesFills, OpenRows

\* apply_fill_to_position never leaves two open rows of an instrument, and a row
\* is open exactly while it holds contracts.
THEOREM OneOpenRowTheorem == Spec => []OneOpenRow
<1>1. BookInv => OneOpenRow
  BY DEF BookInv
<1> QED BY <1>1, BookInit, BookStep, PTL DEF Spec

\* The open row of an instrument always holds the signed sum of the fills
\* apply_fill_to_position was given for it, whatever their order.
THEOREM BookMatchesFillsTheorem == Spec => []BookMatchesFills
<1>1. BookInv => BookMatchesFills
  BY DEF BookInv
<1> QED BY <1>1, BookInit, BookStep, PTL DEF Spec

-----------------------------------------------------------------------------
(* Fractions.                                                              *)

\* The product of two denominators is one.
LEMMA PosMul ==
    ASSUME NEW m \in Nat \ {0}, NEW n \in Nat \ {0}
    PROVE  m * n \in Nat \ {0}
  OBVIOUS

\* An inequality may be multiplied.
LEMMA Scale ==
    ASSUME NEW x \in Int, NEW y \in Int, NEW z \in Nat, x <= y
    PROVE  x * z <= y * z
  OBVIOUS

\* a/b <= c/d and e/f <= g/h give a/b + e/f <= c/d + g/h.
LEMMA SumArith ==
    ASSUME NEW a \in Int, NEW b \in Nat \ {0}, NEW c \in Int,
           NEW d \in Nat \ {0}, NEW e \in Int, NEW f \in Nat \ {0},
           NEW g \in Int, NEW h \in Nat \ {0},
           a * d <= c * b, e * h <= g * f
    PROVE  (a * f + e * b) * (d * h) <= (c * h + g * d) * (b * f)
<1>1. /\ f * h \in Nat /\ b * d \in Nat /\ a * d \in Int /\ c * b \in Int
      /\ e * h \in Int /\ g * f \in Int
  BY PosMul
<1>2. (a * d) * (f * h) <= (c * b) * (f * h) /\ (e * h) * (b * d) <= (g * f) * (b * d)
  BY <1>1, Scale
<1>3. (a * f + e * b) * (d * h) = (a * d) * (f * h) + (e * h) * (b * d)
  OBVIOUS
<1>4. (c * h + g * d) * (b * f) = (c * b) * (f * h) + (g * f) * (b * d)
  OBVIOUS
<1> QED BY <1>2, <1>3, <1>4

\* Numerator and denominator.
LEMMA FracType == ASSUME NEW a \in Frac PROVE a[1] \in Int /\ a[2] \in Nat \ {0}
  BY DEF Frac

\* A sum of fractions is a fraction.
LEMMA PlusType == ASSUME NEW a \in Frac, NEW b \in Frac PROVE Plus(a, b) \in Frac
<1>1. a[2] * b[2] \in Nat \ {0} /\ a[1] * b[2] + b[1] * a[2] \in Int
  BY FracType, PosMul
<1> QED BY <1>1 DEF Plus, Frac

\* Fractions are added side by side.
LEMMA PlusAtMost ==
    ASSUME NEW a \in Frac, NEW b \in Frac, NEW c \in Frac, NEW d \in Frac,
           AtMost(a, b), AtMost(c, d)
    PROVE  AtMost(Plus(a, c), Plus(b, d))
  BY FracType, SumArith DEF AtMost, Plus

\* The order of fractions is reflexive.
LEMMA AtMostSelf == ASSUME NEW a \in Frac PROVE AtMost(a, a)
  BY FracType DEF AtMost

\* A positive factor may be cancelled.
LEMMA CancelArith ==
    ASSUME NEW x \in Int, NEW y \in Int, NEW z \in Nat \ {0}, x * z <= y * z
    PROVE  x <= y
  OBVIOUS

\* a/b <= c/d <= e/f
LEMMA ChainArith ==
    ASSUME NEW a \in Int, NEW b \in Nat \ {0}, NEW c \in Int,
           NEW d \in Nat \ {0}, NEW e \in Int, NEW f \in Nat \ {0},
           a * d <= c * b, c * f <= e * d
    PROVE  a * f <= e * b
<1>1. (a * d) * f <= (c * b) * f /\ (c * f) * b <= (e * d) * b
  BY Scale
<1>2. (a * f) * d <= (e * b) * d
  BY <1>1
<1>3. a * f \in Int /\ e * b \in Int
  OBVIOUS
<1> QED BY <1>2, <1>3, CancelArith

\* The order of fractions is transitive.
LEMMA AtMostChain ==
    ASSUME NEW a \in Frac, NEW b \in Frac, NEW c \in Frac, AtMost(a, b), AtMost(b, c)
    PROVE  AtMost(a, c)
  BY FracType, ChainArith DEF AtMost

\* Cauchy-Schwarz
LEMMA MeanArith ==
    ASSUME NEW m \in Nat, NEW q \in Nat, NEW u \in Nat, NEW v \in Nat, NEW p \in Nat
    PROVE  ((m + q) * (u * (m + q))) * (v * p)
             <= ((m * u) * p + q * v) * (m * v + (q * p) * u)
<1> DEFINE w == p * u - v
<1>1. m * q \in Nat /\ w \in Int /\ w * w \in Nat
  OBVIOUS
<1>2. (m * q) * (w * w) \in Nat
  BY <1>1
<1>3. ((m * u) * p + q * v) * (m * v + (q * p) * u)
        = ((m + q) * (u * (m + q))) * (v * p) + (m * q) * (w * w)
  OBVIOUS
<1> QED BY <1>2, <1>3

-----------------------------------------------------------------------------
(* One row, through every kind of fill.                                    *)

\* What MoneyOK and RealisedBias say about one row.
RowOK(e, z, f, n, isLong) ==
    /\ e \in Frac /\ e[1] > 0
    /\ z \in Frac
    /\ f \in Frac
    /\ IF isLong THEN AtMost(Plus(z, <<n * e[2], e[1]>>), f)
                 ELSE AtMost(f, Plus(z, <<n * e[2], e[1]>>))

\* A new row: nothing realised, and the entry price is the one of its fill.
LEMMA OpenRow ==
    ASSUME NEW n \in Int, NEW p \in Nat \ {0}, NEW isLong \in BOOLEAN
    PROVE  RowOK(<<p, 1>>, <<0, 1>>, <<n, p>>, n, isLong)
<1>1. <<p, 1>> \in Frac /\ <<0, 1>> \in Frac /\ <<n, p>> \in Frac
  BY DEF Frac
<1>2. <<p, 1>>[1] = p /\ <<p, 1>>[2] = 1 /\ n * 1 = n
  OBVIOUS
<1>3. Plus(<<0, 1>>, <<n, p>>) = <<n, p>>
  BY DEF Plus
<1>4. AtMost(<<n, p>>, <<n, p>>)
  BY <1>1, AtMostSelf
<1> QED BY <1>1, <1>2, <1>3, <1>4 DEF RowOK

\* c contracts of a row are closed at price p: the value and the flow move by
\* the same amount.
LEMMA CloseArith ==
    ASSUME NEW a \in Int, NEW b \in Int, NEW u \in Int, NEW v \in Int,
           NEW n \in Int, NEW c \in Int, NEW p \in Int
    PROVE  /\ (a * (v * p) + (c * (u * p - 1 * v)) * b) * v + ((n - c) * u) * (b * (v * p))
                = v * ((a * v + (n * u) * b) * p + (-c) * (b * v))
           /\ (b * (v * p)) * v = v * ((b * v) * p)
  OBVIOUS

\* A multiple of a fraction is a fraction.
LEMMA TimesType ==
    ASSUME NEW n \in Int, NEW a \in Frac PROVE Times(n, a) \in Frac
  BY FracType DEF Times, Frac

\* Contracts are closed: what they realise leaves the value of the row as it is.
LEMMA CloseRow ==
    ASSUME NEW e, NEW z, NEW f, NEW n \in Int, NEW c \in Int,
           NEW p \in Nat \ {0}, NEW isLong \in BOOLEAN, RowOK(e, z, f, n, isLong)
    PROVE  RowOK(e, Plus(z, Times(c, InverseDifference(e, <<p, 1>>))),
                 Plus(f, <<-c, p>>), n - c, isLong)
<1> DEFINE d  == Times(c, InverseDifference(e, <<p, 1>>))
           x  == <<-c, p>>
           o  == <<n * e[2], e[1]>>
           o2 == <<(n - c) * e[2], e[1]>>
           v  == Plus(Plus(z, o), x)
           v2 == Plus(Plus(z, d), o2)
<1>1. /\ e \in Frac /\ z \in Frac /\ f \in Frac
      /\ e[1] \in Nat \ {0} /\ e[2] \in Nat \ {0}
      /\ z[1] \in Int /\ z[2] \in Nat \ {0}
  BY FracType DEF RowOK
<1>2. e[1] * p \in Nat \ {0} /\ e[2] * p - 1 * e[1] \in Int
  BY <1>1, PosMul
<1>3. d = <<c * (e[2] * p - 1 * e[1]), e[1] * p>>
  BY <1>1 DEF Times, InverseDifference
<1>4. d \in Frac
  BY <1>2, <1>3 DEF Frac
<1>5. x \in Frac /\ o \in Frac /\ o2 \in Frac
  BY <1>1 DEF Frac
<1>6. /\ v \in Frac /\ v2 \in Frac /\ Plus(z, d) \in Frac
      /\ Plus(f, x) \in Frac /\ Plus(z, o) \in Frac
  BY <1>1, <1>4, <1>5, PlusType
<1>7. v2[1] = e[1] * v[1] /\ v2[2] = e[1] * v[2]
  <2>1. v[1] = (z[1] * e[1] + (n * e[2]) * z[2]) * p + (-c) * (z[2] * e[1])
        /\ v[2] = (z[2] * e[1]) * p
    BY DEF Plus
  <2>2. v2[1] = (z[1] * (e[1] * p) + (c * (e[2] * p - 1 * e[1])) * z[2]) * e[1]
                  + ((n - c) * e[2]) * (z[2] * (e[1] * p))
        /\ v2[2] = (z[2] * (e[1] * p)) * e[1]
    BY <1>3 DEF Plus
  <2> QED BY <1>1, <2>1, <2>2, CloseArith
<1> HIDE DEF v, v2
<1>8. AtMost(v, v2) /\ AtMost(v2, v)
  <2>1. v[1] \in Int /\ v[2] \in Int
    BY <1>6, FracType
  <2>2. v[1] * (e[1] * v[2]) = (e[1] * v[1]) * v[2]
    BY <1>1, <2>1
  <2>3. v[1] * v2[2] \in Int /\ v[1] * v2[2] = v2[1] * v[2]
    BY <1>1, <1>7, <2>1, <2>2
  <2> QED BY <2>3 DEF AtMost
<1>9. AtMost(x, x)
  BY <1>5, AtMostSelf
<1>10. CASE isLong
  <2>1. AtMost(Plus(z, o), f)
    BY <1>10 DEF RowOK
  <2>2. AtMost(v, Plus(f, x))
    BY <1>1, <1>5, <1>6, <1>9, <2>1, PlusAtMost DEF v
  <2>3. AtMost(v2, Plus(f, x))
    BY <1>6, <1>8, <2>2, AtMostChain
  <2> QED BY <1>1, <1>6, <1>10, <2>3 DEF RowOK, v2
<1>11. CASE ~isLong
  <2>1. AtMost(f, Plus(z, o))
    BY <1>11 DEF RowOK
  <2>2. AtMost(Plus(f, x), v)
    BY <1>1, <1>5, <1>6, <1>9, <2>1, PlusAtMost DEF v
  <2>3. AtMost(Plus(f, x), v2)
    BY <1>6, <1>8, <2>2, AtMostChain
  <2> QED BY <1>1, <1>6, <1>11, <2>3 DEF RowOK, v2
<1> QED BY <1>10, <1>11

\* Addition of fractions is associative.
LEMMA PlusAssoc ==
    ASSUME NEW a \in Frac, NEW b \in Frac, NEW c \in Frac
    PROVE  Plus(Plus(a, b), c) = Plus(a, Plus(b, c))
<1>1. /\ a[1] \in Int /\ a[2] \in Int /\ b[1] \in Int /\ b[2] \in Int
      /\ c[1] \in Int /\ c[2] \in Int
  BY FracType
<1>2. (a[1] * b[2] + b[1] * a[2]) * c[2] + c[1] * (a[2] * b[2])
        = a[1] * (b[2] * c[2]) + (b[1] * c[2] + c[1] * b[2]) * a[2]
  BY <1>1
<1>3. (a[2] * b[2]) * c[2] = a[2] * (b[2] * c[2])
  BY <1>1
<1> QED BY <1>2, <1>3 DEF Plus

\* Contracts are added: the mean price moves the value one way only.
LEMMA AddRow ==
    ASSUME NEW e, NEW z, NEW f, NEW m \in Nat \ {0}, NEW q \in Nat \ {0},
           NEW p \in Nat \ {0}, NEW isBuy \in BOOLEAN,
           RowOK(e, z, f, Signed(isBuy, m), isBuy)
    PROVE  RowOK(<<m * e[1] + q * p * e[2], e[2] * (m + q)>>, z,
                 Plus(f, <<Signed(isBuy, q), p>>), Signed(isBuy, m + q), isBuy)
<1> DEFINE g  == <<m * e[1] + q * p * e[2], e[2] * (m + q)>>
           x  == <<Signed(isBuy, q), p>>
           o  == <<Signed(isBuy, m) * e[2], e[1]>>
           o2 == <<Signed(isBuy, m + q) * g[2], g[1]>>
<1>1. /\ e \in Frac /\ z \in Frac /\ f \in Frac
      /\ e[1] \in Nat \ {0} /\ e[2] \in Nat \ {0}
  BY FracType DEF RowOK
<1>2. m * e[1] + q * p * e[2] \in Nat \ {0} /\ e[2] * (m + q) \in Nat \ {0}
  BY <1>1, PosMul
<1>3. g \in Frac /\ g[1] > 0 /\ g[1] = m * e[1] + q * p * e[2]
      /\ g[2] = e[2] * (m + q)
  BY <1>2 DEF Frac
<1>4. x \in Frac /\ o \in Frac
  BY <1>1 DEF Frac
<1>5. o2 \in Frac
  BY <1>2, <1>3 DEF Frac
<1>6. Plus(o, x) \in Frac /\ Plus(z, o) \in Frac /\ Plus(f, x) \in Frac
      /\ Plus(z, o2) \in Frac /\ Plus(z, Plus(o, x)) \in Frac
  BY <1>1, <1>4, <1>5, PlusType
<1>7. ((m + q) * (e[2] * (m + q))) * (e[1] * p)
         <= ((m * e[2]) * p + q * e[1]) * (m * e[1] + (q * p) * e[2])
  BY <1>1, MeanArith
<1>8. IF isBuy THEN AtMost(o2, Plus(o, x)) ELSE AtMost(Plus(o, x), o2)
  <2>1. CASE isBuy
    <3>1. o2 = <<(m + q) * (e[2] * (m + q)), m * e[1] + q * p * e[2]>>
      BY <1>3, <2>1
    <3>2. Plus(o, x) = <<(m * e[2]) * p + q * e[1], e[1] * p>>
      BY <2>1 DEF Plus
    <3> QED BY <1>7, <2>1, <3>1, <3>2 DEF AtMost
  <2>2. CASE ~isBuy
    <3>1. o2 = <<(-(m + q)) * (e[2] * (m + q)), m * e[1] + q * p * e[2]>>
      BY <1>3, <2>2
    <3>2. Plus(o, x) = <<((-m) * e[2]) * p + (-q) * e[1], e[1] * p>>
      BY <2>2 DEF Plus
    <3>3. (((-m) * e[2]) * p + (-q) * e[1]) * (m * e[1] + q * p * e[2])
             <= ((-(m + q)) * (e[2] * (m + q))) * (e[1] * p)
      <4>1. (((-m) * e[2]) * p + (-q) * e[1]) * (m * e[1] + q * p * e[2])
              = -(((m * e[2]) * p + q * e[1]) * (m * e[1] + (q * p) * e[2]))
        <5>1. ((-m) * e[2]) * p + (-q) * e[1] = -((m * e[2]) * p + q * e[1])
          BY <1>1
        <5>2. (m * e[2]) * p + q * e[1] \in Int
              /\ m * e[1] + (q * p) * e[2] \in Int
          BY <1>1
        <5>3. \A y, w \in Int : (-y) * w = -(y * w)
          OBVIOUS
        <5> QED BY <5>1, <5>2, <5>3
      <4>2. ((-(m + q)) * (e[2] * (m + q))) * (e[1] * p)
              = -(((m + q) * (e[2] * (m + q))) * (e[1] * p))
        BY <1>1
      <4> QED BY <1>1, <1>7, <4>1, <4>2
    <3> QED BY <2>2, <3>1, <3>2, <3>3 DEF AtMost
  <2> QED BY <2>1, <2>2
<1>9. Plus(Plus(z, o), x) = Plus(z, Plus(o, x))
  BY <1>1, <1>4, PlusAssoc
<1>10. AtMost(x, x) /\ AtMost(z, z)
  BY <1>1, <1>4, AtMostSelf
<1>11. CASE isBuy
  <2>1. AtMost(Plus(z, o), f)
    BY <1>11 DEF RowOK
  <2>2. AtMost(Plus(z, Plus(o, x)), Plus(f, x))
    BY <1>1, <1>4, <1>6, <1>9, <1>10, <2>1, PlusAtMost
  <2>3. AtMost(Plus(z, o2), Plus(z, Plus(o, x)))
    BY <1>1, <1>5, <1>6, <1>8, <1>10, <1>11, PlusAtMost
  <2>4. AtMost(Plus(z, o2), Plus(f, x))
    BY <1>6, <2>2, <2>3, AtMostChain
  <2> QED BY <1>1, <1>3, <1>6, <1>11, <2>4 DEF RowOK
<1>12. CASE ~isBuy
  <2>1. AtMost(f, Plus(z, o))
    BY <1>12 DEF RowOK
  <2>2. AtMost(Plus(f, x), Plus(z, Plus(o, x)))
    BY <1>1, <1>4, <1>6, <1>9, <1>10, <2>1, PlusAtMost
  <2>3. AtMost(Plus(z, Plus(o, x)), Plus(z, o2))
    BY <1>1, <1>5, <1>6, <1>8, <1>10, <1>12, PlusAtMost
  <2>4. AtMost(Plus(f, x), Plus(z, o2))
    BY <1>6, <2>2, <2>3, AtMostChain
  <2> QED BY <1>1, <1>3, <1>6, <1>12, <2>4 DEF RowOK
<1> QED BY <1>11, <1>12

\* RowOK of every row of a table with columns es (entry), zs (realised), fs
\* (flow), ns (quantity), of which the rows ls were opened by a buy.
TableOK(es, zs, fs, ns, ls) ==
    /\ es \in Seq(Frac) /\ Len(es) = Len(ns)
    /\ zs \in Seq(Frac) /\ Len(zs) = Len(ns)
    /\ fs \in Seq(Frac) /\ Len(fs) = Len(ns)
    /\ ns \in Seq(Int)
    /\ ls \subseteq DOMAIN ns
    /\ \A i \in DOMAIN ns : RowOK(es[i], zs[i], fs[i], ns[i], i \in ls)

\* An element of a sequence is replaced.
LEMMA Edited ==
    ASSUME NEW S, NEW s \in Seq(S), NEW r \in DOMAIN s, NEW x \in S
    PROVE  /\ [s EXCEPT ![r] = x] \in Seq(S)
           /\ Len([s EXCEPT ![r] = x]) = Len(s)
           /\ DOMAIN [s EXCEPT ![r] = x] = DOMAIN s
           /\ [s EXCEPT ![r] = x][r] = x
           /\ \A i \in DOMAIN s \ {r} : [s EXCEPT ![r] = x][i] = s[i]
  BY ExceptSeq

\* One row is replaced by a sound one.
LEMMA TableEdited ==
    ASSUME NEW es, NEW zs, NEW fs, NEW ns, NEW ls, TableOK(es, zs, fs, ns, ls),
           NEW r \in DOMAIN ns, NEW e, NEW z, NEW f, NEW n \in Int,
           RowOK(e, z, f, n, r \in ls)
    PROVE  TableOK([es EXCEPT ![r] = e], [zs EXCEPT ![r] = z],
                   [fs EXCEPT ![r] = f], [ns EXCEPT ![r] = n], ls)
<1> DEFINE es2 == [es EXCEPT ![r] = e]
           zs2 == [zs EXCEPT ![r] = z]
           fs2 == [fs EXCEPT ![r] = f]
           ns2 == [ns EXCEPT ![r] = n]
<1>1. e \in Frac /\ z \in Frac /\ f \in Frac
  BY DEF RowOK
<1>2. /\ es \in Seq(Frac) /\ zs \in Seq(Frac) /\ fs \in Seq(Frac)
      /\ ns \in Seq(Int)
      /\ Len(es) = Len(ns) /\ Len(zs) = Len(ns) /\ Len(fs) = Len(ns)
      /\ DOMAIN es = DOMAIN ns /\ DOMAIN zs = DOMAIN ns
      /\ DOMAIN fs = DOMAIN ns
  BY DEF TableOK
<1>3. /\ es2 \in Seq(Frac) /\ Len(es2) = Len(es) /\ es2[r] = e
      /\ \A i \in DOMAIN ns \ {r} : es2[i] = es[i]
  BY <1>1, <1>2, Edited
<1>4. /\ zs2 \in Seq(Frac) /\ Len(zs2) = Len(zs) /\ zs2[r] = z
      /\ \A i \in DOMAIN ns \ {r} : zs2[i] = zs[i]
  BY <1>1, <1>2, Edited
<1>5. /\ fs2 \in Seq(Frac) /\ Len(fs2) = Len(fs) /\ fs2[r] = f
      /\ \A i \in DOMAIN ns \ {r} : fs2[i] = fs[i]
  BY <1>1, <1>2, Edited
<1>6. /\ ns2 \in Seq(Int) /\ Len(ns2) = Len(ns) /\ ns2[r] = n
      /\ DOMAIN ns2 = DOMAIN ns
      /\ \A i \in DOMAIN ns \ {r} : ns2[i] = ns[i]
  BY <1>2, Edited
<1> HIDE DEF es2, zs2, fs2, ns2
<1>7. ASSUME NEW i \in DOMAIN ns2
      PROVE  RowOK(es2[i], zs2[i], fs2[i], ns2[i], i \in ls)
  <2>1. CASE i = r
    BY <1>3, <1>4, <1>5, <1>6, <2>1
  <2>2. CASE i # r
    <3>1. RowOK(es[i], zs[i], fs[i], ns[i], i \in ls)
      BY <1>6 DEF TableOK
    <3> QED BY <1>3, <1>4, <1>5, <1>6, <2>2, <3>1
  <2> QED BY <2>1, <2>2
<1>8. TableOK(es2, zs2, fs2, ns2, ls)
  BY <1>2, <1>3, <1>4, <1>5, <1>6, <1>7 DEF TableOK
<1> QED BY <1>8 DEF es2, zs2, fs2, ns2

\* One sound row is added.
LEMMA TableGrown ==
    ASSUME NEW es, NEW zs, NEW fs, NEW ns, NEW ls, TableOK(es, zs, fs, ns, ls),
           NEW e, NEW z, NEW f, NEW n \in Int, NEW isLong \in BOOLEAN,
           RowOK(e, z, f, n, isLong), NEW id, id = Len(ns) + 1
    PROVE  TableOK(Append(es, e), Append(zs, z), Append(fs, f), Append(ns, n),
                   IF isLong THEN ls \cup {id} ELSE ls)
<1> DEFINE es2 == Append(es, e)
           zs2 == Append(zs, z)
           fs2 == Append(fs, f)
           ns2 == Append(ns, n)
           ls2 == IF isLong THEN ls \cup {id} ELSE ls
<1>1. e \in Frac /\ z \in Frac /\ f \in Frac
  BY DEF RowOK
<1>2. /\ es \in Seq(Frac) /\ zs \in Seq(Frac) /\ fs \in Seq(Frac)
      /\ ns \in Seq(Int)
      /\ Len(es) = Len(ns) /\ Len(zs) = Len(ns) /\ Len(fs) = Len(ns)
      /\ DOMAIN es = DOMAIN ns /\ DOMAIN zs = DOMAIN ns
      /\ DOMAIN fs = DOMAIN ns /\ Len(ns) \in Nat /\ DOMAIN ns = 1 .. Len(ns)
  BY DEF TableOK
<1>3. /\ es2 \in Seq(Frac) /\ Len(es2) = Len(es) + 1 /\ es2[id] = e
      /\ \A i \in DOMAIN ns : es2[i] = es[i]
  BY <1>1, <1>2, Appended
<1>4. /\ zs2 \in Seq(Frac) /\ Len(zs2) = Len(zs) + 1 /\ zs2[id] = z
      /\ \A i \in DOMAIN ns : zs2[i] = zs[i]
  BY <1>1, <1>2, Appended
<1>5. /\ fs2 \in Seq(Frac) /\ Len(fs2) = Len(fs) + 1 /\ fs2[id] = f
      /\ \A i \in DOMAIN ns : fs2[i] = fs[i]
  BY <1>1, <1>2, Appended
<1>6. /\ ns2 \in Seq(Int) /\ Len(ns2) = Len(ns) + 1 /\ ns2[id] = n
      /\ DOMAIN ns2 = DOMAIN ns \cup {id}
      /\ \A i \in DOMAIN ns : ns2[i] = ns[i]
  BY <1>2, Appended
<1>7. id \notin DOMAIN ns /\ ls \subseteq DOMAIN ns
  BY <1>2 DEF TableOK
<1>8. /\ ls2 \subseteq DOMAIN ns2
      /\ id \in ls2 <=> isLong
      /\ \A i \in DOMAIN ns : i \in ls2 <=> i \in ls
  BY <1>6, <1>7
<1> HIDE DEF es2, zs2, fs2, ns2, ls2
<1>9. ASSUME NEW i \in DOMAIN ns2
      PROVE  RowOK(es2[i], zs2[i], fs2[i], ns2[i], i \in ls2)
  <2>1. CASE i = id
    <3>1. RowOK(es2[i], zs2[i], fs2[i], ns2[i], isLong)
      BY <1>3, <1>4, <1>5, <1>6, <2>1
    <3> QED BY <1>8, <2>1, <3>1 DEF RowOK
  <2>2. CASE i \in DOMAIN ns
    <3>1. RowOK(es[i], zs[i], fs[i], ns[i], i \in ls)
      BY <2>2 DEF TableOK
    <3>2. RowOK(es2[i], zs2[i], fs2[i], ns2[i], i \in ls)
      BY <1>3, <1>4, <1>5, <1>6, <2>2, <3>1
    <3> QED BY <1>8, <2>2, <3>2 DEF RowOK
  <2> QED BY <1>6, <2>1, <2>2
<1>10. TableOK(es2, zs2, fs2, ns2, ls2)
  BY <1>2, <1>3, <1>4, <1>5, <1>6, <1>8, <1>9 DEF TableOK
<1> QED BY <1>10 DEF es2, zs2, fs2, ns2, ls2

-----------------------------------------------------------------------------
(* The money columns.                                                      *)

MoneyInv == TableOK(entry, realized, flow, quantity, long) /\ SideKept

\* Replacing an element by itself changes nothing.
LEMMA EditedSame ==
    ASSUME NEW S, NEW s \in Seq(S), NEW r \in DOMAIN s
    PROVE  s = [s EXCEPT ![r] = s[r]]
  OBVIOUS

\* A fill without an open row opens one.
LEMMA MoneyOpened ==
    ASSUME BookInv, MoneyInv, NEW k \in Instruments, NEW isBuy \in BOOLEAN,
           NEW q \in Nat \ {0}, NEW p \in Nat \ {0}, Opened(k, isBuy, q, p)
    PROVE  MoneyInv'
<1> DEFINE n == Signed(isBuy, q)
<1>1. n \in Int /\ (n > 0 <=> isBuy)
  OBVIOUS
<1>2. RowOK(<<p, 1>>, <<0, 1>>, <<n, p>>, n, isBuy)
  BY <1>1, OpenRow
<1>3. NextId = Len(quantity) + 1 /\ NextId \notin DOMAIN quantity
      /\ quantity \in Seq(Int) /\ open \subseteq DOMAIN quantity
  BY DEF NextId, BookInv, QuantitiesOK
<1>4. /\ entry' = Append(entry, <<p, 1>>) /\ realized' = Append(realized, <<0, 1>>)
      /\ flow' = Append(flow, <<n, p>>) /\ quantity' = Append(quantity, n)
      /\ long' = (IF isBuy THEN long \cup {NextId} ELSE long)
      /\ open' = open \cup {NextId}
  BY DEF Opened
<1> HIDE DEF n
<1>5. TableOK(entry', realized', flow', quantity', long')
  <2>1. TableOK(Append(entry, <<p, 1>>), Append(realized, <<0, 1>>),
                Append(flow, <<n, p>>), Append(quantity, n),
                IF isBuy THEN long \cup {NextId} ELSE long)
    <3>1. TableOK(entry, realized, flow, quantity, long)
      BY DEF MoneyInv
    <3>2. NextId = Len(quantity) + 1
      BY <1>3
    <3> QED BY <1>1, <1>2, <3>1, <3>2, TableGrown
  <2> QED BY <1>4, <2>1
<1>6. /\ quantity'[NextId] = n
      /\ \A i \in DOMAIN quantity : quantity'[i] = quantity[i]
  <2>1. Append(quantity, n)[Len(quantity) + 1] = n
        /\ \A i \in DOMAIN quantity : Append(quantity, n)[i] = quantity[i]
    BY <1>1, <1>3, Appended
  <2> QED BY <1>3, <1>4, <2>1
<1>7. long \subseteq DOMAIN quantity
  BY DEF MoneyInv, TableOK
<1>8. SideKept'
  BY <1>1, <1>3, <1>4, <1>6, <1>7 DEF MoneyInv, SideKept
<1> QED BY <1>5, <1>8 DEF MoneyInv

\* A row of the table is rewritten.
LEMMA MoneyEdited ==
    ASSUME BookInv, MoneyInv, NEW r \in DOMAIN quantity, NEW e, NEW z, NEW f,
           NEW n \in Int, RowOK(e, z, f, n, r \in long),
           entry' = [entry EXCEPT ![r] = e],
           realized' = [realized EXCEPT ![r] = z],
           flow' = [flow EXCEPT ![r] = f],
           quantity' = [quantity EXCEPT ![r] = n],
           long' = long, open' \subseteq open,
           r \in open' => (r \in long <=> n > 0)
    PROVE  MoneyInv'
<1>1. TableOK(entry', realized', flow', quantity', long')
  BY TableEdited DEF MoneyInv
<1>2. quantity \in Seq(Int) /\ open \subseteq DOMAIN quantity
  BY DEF BookInv, QuantitiesOK
<1>3. /\ quantity'[r] = n
      /\ \A i \in DOMAIN quantity \ {r} : quantity'[i] = quantity[i]
  BY <1>2, Edited
<1>4. SideKept'
  BY <1>2, <1>3 DEF MoneyInv, SideKept
<1> QED BY <1>1, <1>4 DEF MoneyInv

\* What MoneyInv says of the open row a fill meets.
LEMMA MoneyRow ==
    ASSUME BookInv, MoneyInv, NEW k \in Instruments, NEW r, IsOpenRow(r, k)
    PROVE  /\ r \in DOMAIN quantity /\ quantity[r] \in Int /\ quantity[r] # 0
           /\ r \in open
           /\ RowOK(entry[r], realized[r], flow[r], quantity[r], r \in long)
           /\ r \in long <=> quantity[r] > 0
           /\ entry = [entry EXCEPT ![r] = entry[r]]
           /\ realized = [realized EXCEPT ![r] = realized[r]]
<1>1. r \in DOMAIN quantity /\ quantity[r] \in Int /\ quantity[r] # 0
      /\ r \in open
  BY OpenRowFacts
<1>2. entry \in Seq(Frac) /\ realized \in Seq(Frac)
      /\ r \in DOMAIN entry /\ r \in DOMAIN realized
  BY <1>1 DEF MoneyInv, TableOK
<1> QED BY <1>1, <1>2, EditedSame DEF MoneyInv, TableOK, SideKept

\* A fill on the side of the row is added to it.
LEMMA MoneyAdded ==
    ASSUME BookInv, MoneyInv, NEW k \in Instruments, NEW isBuy \in BOOLEAN,
           NEW q \in Nat \ {0}, NEW p \in Nat \ {0}, NEW r,
           Added(r, k, isBuy, q, p)
    PROVE  MoneyInv'
<1> DEFINE m == Abs(quantity[r])
           e == <<m * entry[r][1] + q * p * entry[r][2], entry[r][2] * (m + q)>>
           f == Plus(flow[r], <<Signed(isBuy, q), p>>)
           n == quantity[r] + Signed(isBuy, q)
<1>1. IsOpenRow(r, k) /\ SameSide(r, isBuy)
  BY DEF Added
<1>2. /\ r \in DOMAIN quantity /\ quantity[r] \in Int /\ quantity[r] # 0
      /\ r \in open
      /\ RowOK(entry[r], realized[r], flow[r], quantity[r], r \in long)
      /\ r \in long <=> quantity[r] > 0
      /\ realized = [realized EXCEPT ![r] = realized[r]]
  BY <1>1, MoneyRow
<1>3. isBuy <=> r \in long
  BY <1>1, <1>2 DEF SameSide
<1>4. m \in Nat \ {0} /\ quantity[r] = Signed(isBuy, m)
      /\ n = Signed(isBuy, m + q) /\ n \in Int /\ (n > 0 <=> isBuy)
  BY <1>2, <1>3
<1>5. /\ entry' = [entry EXCEPT ![r] = e] /\ flow' = [flow EXCEPT ![r] = f]
      /\ quantity' = [quantity EXCEPT ![r] = n]
      /\ realized' = realized /\ open' = open /\ long' = long
  BY DEF Added
<1>6. RowOK(entry[r], realized[r], flow[r], Signed(isBuy, m), isBuy)
  BY <1>2, <1>3, <1>4 DEF RowOK
<1> HIDE DEF m, Signed
<1>7. RowOK(e, realized[r], f, Signed(isBuy, m + q), isBuy)
  BY <1>4, <1>6, AddRow
<1> HIDE DEF e, f, n
<1>8. RowOK(e, realized[r], f, n, r \in long)
  BY <1>3, <1>4, <1>7 DEF RowOK
<1> QED BY <1>2, <1>3, <1>4, <1>5, <1>8, MoneyEdited

\* The row of a reduction, of a closing fill or of a flip, c contracts less.
LEMMA MoneyClosed ==
    ASSUME BookInv, MoneyInv, NEW k \in Instruments, NEW r, IsOpenRow(r, k),
           NEW c \in Int, NEW p \in Nat \ {0}
    PROVE  RowOK(entry[r], Realise(r, c, p), Plus(flow[r], <<-c, p>>),
                 quantity[r] - c, r \in long)
<1>1. /\ quantity[r] \in Int
      /\ RowOK(entry[r], realized[r], flow[r], quantity[r], r \in long)
  BY MoneyRow
<1>2. (r \in long) \in BOOLEAN
  OBVIOUS
<1>3. RowOK(entry[r],
            Plus(realized[r], Times(c, InverseDifference(entry[r], <<p, 1>>))),
            Plus(flow[r], <<-c, p>>), quantity[r] - c, r \in long)
  BY <1>1, <1>2, CloseRow, Zenon
<1> QED BY <1>3 DEF Realise, inverse_pnl_per_contract

\* A smaller fill on the other side reduces the row.
LEMMA MoneyReduced ==
    ASSUME BookInv, MoneyInv, NEW k \in Instruments, NEW isBuy \in BOOLEAN,
           NEW q \in Nat \ {0}, NEW p \in Nat \ {0}, NEW r,
           Reduced(r, k, isBuy, q, p)
    PROVE  MoneyInv'
<1> DEFINE c == Signed(quantity[r] >= 0, q)
           z == Realise(r, c, p)
           f == Plus(flow[r], <<-c, p>>)
           n == quantity[r] - c
<1>1. IsOpenRow(r, k) /\ ~SameSide(r, isBuy) /\ q < Abs(quantity[r])
  BY DEF Reduced
<1>2. /\ r \in DOMAIN quantity /\ quantity[r] \in Int /\ quantity[r] # 0
      /\ r \in open
      /\ r \in long <=> quantity[r] > 0
      /\ entry = [entry EXCEPT ![r] = entry[r]]
  BY <1>1, MoneyRow
<1>3. c \in Int /\ -c = Signed(isBuy, q) /\ n \in Int
      /\ n = quantity[r] + Signed(isBuy, q) /\ (n > 0 <=> quantity[r] > 0)
  BY <1>1, <1>2 DEF SameSide
<1>4. /\ realized' = [realized EXCEPT ![r] = z]
      /\ flow' = [flow EXCEPT ![r] = Plus(flow[r], <<Signed(isBuy, q), p>>)]
      /\ quantity' = [quantity EXCEPT ![r] = quantity[r] + Signed(isBuy, q)]
      /\ entry' = entry /\ open' = open /\ long' = long
  BY DEF Reduced
<1>5. RowOK(entry[r], z, f, n, r \in long)
  BY <1>1, <1>3, MoneyClosed
<1>6. flow' = [flow EXCEPT ![r] = f] /\ quantity' = [quantity EXCEPT ![r] = n]
  BY <1>3, <1>4
<1>7. /\ entry' = [entry EXCEPT ![r] = entry[r]] /\ open' \subseteq open
      /\ r \in open' => (r \in long <=> n > 0)
      /\ realized' = [realized EXCEPT ![r] = z] /\ long' = long
  BY <1>2, <1>3, <1>4
<1>8. r \in DOMAIN quantity /\ n \in Int
  BY <1>2, <1>3
<1> HIDE DEF c, z, f, n
<1> QED BY <1>5, <1>6, <1>7, <1>8, MoneyEdited, Zenon

\* An equal fill on the other side closes the row.
LEMMA MoneyAllClosed ==
    ASSUME BookInv, MoneyInv, NEW k \in Instruments, NEW isBuy \in BOOLEAN,
           NEW q \in Nat \ {0}, NEW p \in Nat \ {0}, NEW r,
           Closed(r, k, isBuy, q, p)
    PROVE  MoneyInv'
<1> DEFINE z == Realise(r, quantity[r], p)
           f == Plus(flow[r], <<-quantity[r], p>>)
<1>1. IsOpenRow(r, k)
  BY DEF Closed
<1>2. /\ r \in DOMAIN quantity /\ quantity[r] \in Int
      /\ entry = [entry EXCEPT ![r] = entry[r]]
  BY <1>1, MoneyRow
<1>3. /\ realized' = [realized EXCEPT ![r] = z]
      /\ flow' = [flow EXCEPT ![r] = f]
      /\ quantity' = [quantity EXCEPT ![r] = 0]
      /\ entry' = entry /\ open' = open \ {r} /\ long' = long
  BY DEF Closed
<1>4. quantity[r] - quantity[r] = 0
  BY <1>2
<1>5. RowOK(entry[r], z, f, 0, r \in long)
  BY <1>1, <1>2, <1>4, MoneyClosed
<1>6. /\ entry' = [entry EXCEPT ![r] = entry[r]] /\ open' \subseteq open
      /\ r \notin open' /\ 0 \in Int
  BY <1>2, <1>3
<1> HIDE DEF z, f
<1> QED BY <1>2, <1>3, <1>5, <1>6, MoneyEdited, Zenon

\* A larger fill on the other side closes the row and opens the opposite one.
LEMMA MoneyFlipped ==
    ASSUME BookInv, MoneyInv, NEW k \in Instruments, NEW isBuy \in BOOLEAN,
           NEW q \in Nat \ {0}, NEW p \in Nat \ {0}, NEW r,
           Flipped(r, k, isBuy, q, p)
    PROVE  MoneyInv'
<1> DEFINE z  == Realise(r, quantity[r], p)
           f  == Plus(flow[r], <<-quantity[r], p>>)
           n  == Signed(isBuy, q - Abs(quantity[r]))
           zs == [realized EXCEPT ![r] = z]
           fs == [flow EXCEPT ![r] = f]
           ns == [quantity EXCEPT ![r] = 0]
<1>1. IsOpenRow(r, k) /\ ~SameSide(r, isBuy) /\ q > Abs(quantity[r])
  BY DEF Flipped
<1>2. /\ r \in DOMAIN quantity /\ quantity[r] \in Int
      /\ entry = [entry EXCEPT ![r] = entry[r]]
  BY <1>1, MoneyRow
<1>3. /\ entry' = Append(entry, <<p, 1>>) /\ realized' = Append(zs, <<0, 1>>)
      /\ flow' = Append(fs, <<n, p>>) /\ quantity' = Append(ns, n)
      /\ long' = (IF isBuy THEN long \cup {NextId} ELSE long)
      /\ open' = (open \ {r}) \cup {NextId}
  BY DEF Flipped
<1>4. quantity[r] - quantity[r] = 0 /\ n \in Int /\ (n > 0 <=> isBuy)
  BY <1>1, <1>2
<1>5. RowOK(entry[r], z, f, 0, r \in long)
  BY <1>1, <1>2, <1>4, MoneyClosed
<1>6. RowOK(<<p, 1>>, <<0, 1>>, <<n, p>>, n, isBuy)
  BY <1>4, OpenRow
<1>7. NextId = Len(quantity) + 1 /\ NextId \notin DOMAIN quantity
      /\ quantity \in Seq(Int) /\ open \subseteq DOMAIN quantity
  BY DEF NextId, BookInv, QuantitiesOK
<1>8. /\ ns \in Seq(Int) /\ Len(ns) = Len(quantity)
      /\ DOMAIN ns = DOMAIN quantity
      /\ \A i \in DOMAIN quantity \ {r} : ns[i] = quantity[i]
  BY <1>2, <1>7, Edited
<1> HIDE DEF z, f, n
<1>9. TableOK(entry, zs, fs, ns, long)
  BY <1>2, <1>5, TableEdited DEF MoneyInv
<1> HIDE DEF zs, fs, ns
<1>10. TableOK(entry', realized', flow', quantity', long')
  BY <1>3, <1>4, <1>6, <1>7, <1>8, <1>9, TableGrown
<1>11. /\ quantity'[NextId] = n
       /\ \A i \in DOMAIN quantity : quantity'[i] = ns[i]
  <2>1. Append(ns, n)[Len(ns) + 1] = n
        /\ \A i \in DOMAIN ns : Append(ns, n)[i] = ns[i]
    BY <1>4, <1>8, Appended
  <2>2. NextId = Len(ns) + 1 /\ DOMAIN ns = DOMAIN quantity
        /\ quantity' = Append(ns, n)
    BY <1>3, <1>7, <1>8
  <2> QED BY <2>1, <2>2
<1>12. long \subseteq DOMAIN quantity
  BY DEF MoneyInv, TableOK
<1>13. SideKept'
  <2>1. ASSUME NEW i \in open \ {r} PROVE i \in long' <=> quantity'[i] > 0
    <3>1. i \in DOMAIN quantity /\ i # NextId
      BY <1>7
    <3>2. quantity'[i] = quantity[i]
      BY <1>8, <1>11, <3>1
    <3>3. i \in long' <=> i \in long
      BY <1>3, <3>1
    <3> QED BY <3>2, <3>3 DEF MoneyInv, SideKept
  <2>2. NextId \in long' <=> quantity'[NextId] > 0
    <3>1. NextId \in long' <=> isBuy
      BY <1>3, <1>7, <1>12
    <3> QED BY <1>4, <1>11, <3>1
  <2> QED BY <1>3, <2>1, <2>2 DEF SideKept
<1> QED BY <1>10, <1>13 DEF MoneyInv

\* Every fill keeps the money.
LEMMA MoneyStep ==
    ASSUME BookInv, MoneyInv, [Next]_vars
    PROVE  MoneyInv'
<1>1. ASSUME NEW k \in Instruments, NEW isBuy \in BOOLEAN,
             NEW q \in Quantities, NEW p \in Prices,
             apply_fill_to_position(k, isBuy, q, p)
      PROVE  MoneyInv'
  <2>1. q \in Nat \ {0} /\ p \in Nat \ {0}
    BY ConstantsAssumption
  <2> QED BY <1>1, <2>1, MoneyOpened, MoneyAdded, MoneyReduced, MoneyAllClosed,
             MoneyFlipped DEF apply_fill_to_position
<1>2. CASE UNCHANGED vars
  BY <1>2 DEF vars, tableVars, MoneyInv, SideKept
<1> QED BY <1>1, <1>2 DEF Next

\* An empty table.
LEMMA MoneyInit == Init => MoneyInv
  BY EmptySeq DEF Init, MoneyInv, TableOK, SideKept

\* The invariant is enough.
LEMMA MoneyMeans ==
    ASSUME BookInv, MoneyInv
    PROVE  TypeOK /\ RealisedBias
<1>1. QuantitiesOK /\ Len(quantity) = Len(instrument)
      /\ DOMAIN quantity = DOMAIN instrument
  BY DEF BookInv, QuantitiesOK
<1>2. MoneyOK
  <2>1. /\ entry \in Seq(Frac) /\ Len(entry) = Len(instrument)
        /\ realized \in Seq(Frac) /\ Len(realized) = Len(instrument)
        /\ flow \in Seq(Frac) /\ Len(flow) = Len(instrument)
        /\ long \subseteq DOMAIN instrument
    BY <1>1 DEF MoneyInv, TableOK
  <2>2. DOMAIN entry = DOMAIN quantity
    BY <1>1, <2>1
  <2>3. \A r \in DOMAIN entry : entry[r][1] > 0
    BY <2>2 DEF MoneyInv, TableOK, RowOK
  <2> QED BY <2>1, <2>3 DEF MoneyOK
<1>3. RealisedBias
  BY DEF MoneyInv, TableOK, RowOK, RealisedBias, BookValue
<1> QED BY <1>1, <1>2, <1>3 DEF TypeOK

\* Whatever fills apply_fill_to_position is given, the columns keep their
\* domains: no division of it has a zero divisor, and no entry price becomes
\* zero or negative.
THEOREM PositionTypeCorrect == Spec => []TypeOK
  BY BookInit, BookStep, MoneyInit, MoneyStep, MoneyMeans, PTL DEF Spec

\* For every history of buys and sells, the average entry price of
\* apply_fill_to_position never overstates the P&L of a long row and never
\* understates that of a short one, against the sum contract by contract.
THEOREM RealisedBiasTheorem == Spec => []RealisedBias
  BY BookInit, BookStep, MoneyInit, MoneyStep, MoneyMeans, PTL DEF Spec
=============================================================================
