------------------------------- MODULE Position -------------------------------
(***************************************************************************)
(* The positions table (rt-persistence/src/repo.rs,                        *)
(* apply_fill_to_position): how a stream of fills becomes open and closed  *)
(* position rows with an average entry price and a realised P&L.           *)
(*                                                                         *)
(* A row's id is its index. The broker is fixed (BROKER_TAG), so a row is  *)
(* keyed by its instrument. Each call is one database transaction, so each *)
(* transition is one action. Decimals are exact fractions <<n, d>> here;   *)
(* the code rounds to 28 digits.                                           *)
(***************************************************************************)
EXTENDS Integers, Sequences

CONSTANTS
    Instruments,  \* instrument symbols
    Quantities,   \* contracts of one fill
    Prices,       \* prices a fill can have
    MaxFills      \* bound on the number of fills

ASSUME ConstantsAssumption ==
    /\ Quantities \subseteq Nat \ {0}
    /\ Prices \subseteq Nat \ {0}
    /\ MaxFills \in Nat

VARIABLES
    instrument,   \* positions.instrument_symbol
    quantity,     \* positions.quantity, signed
    entry,        \* positions.avg_entry_price
    realized,     \* positions.realized_pnl_btc
    open,         \* the rows whose closed_at IS NULL
    \* bookkeeping of the model
    fills,        \* fills so far
    net,          \* signed sum of the fills of an instrument
    flow,         \* per row: the sum of signed contracts / price of its fills
    long          \* the rows a buy opened

tableVars == <<instrument, quantity, entry, realized, open>>

vars == <<tableVars, fills, net, flow, long>>

-----------------------------------------------------------------------------
(* Fractions.                                                              *)

Frac == Int \X (Nat \ {0})

Plus(a, b) == <<a[1] * b[2] + b[1] * a[2], a[2] * b[2]>>

Times(n, a) == <<n * a[1], a[2]>>

\* 1/a - 1/b for positive fractions
InverseDifference(a, b) == <<a[2] * b[1] - b[2] * a[1], a[1] * b[1]>>

AtMost(a, b) == a[1] * b[2] <= b[1] * a[2]

-----------------------------------------------------------------------------

Abs(n) == IF n < 0 THEN -n ELSE n

Signed(isBuy, q) == IF isBuy THEN q ELSE -q

\* The id AUTOINCREMENT gives to the next row.
NextId == Len(instrument) + 1

\* The open row of an instrument, the newest if there were several.
OpenRows(k) == {r \in open : instrument[r] = k}

IsOpenRow(r, k) == r \in OpenRows(k) /\ \A i \in OpenRows(k) : i <= r

\* old_qty.is_sign_positive() && is_buy || old_qty.is_sign_negative() && !is_buy
SameSide(r, isBuy) == (quantity[r] >= 0) = isBuy

inverse_pnl_per_contract(r, p) == InverseDifference(entry[r], <<p, 1>>)

\* Mutant: the reduced or closed part is booked with the fill's sign.
RealiseFillSign(r, c, p) ==
    Plus(realized[r], Times(-c, inverse_pnl_per_contract(r, p)))

\* realized_pnl_btc after c signed contracts of row r are closed at price p
Realise(r, c, p) ==
    Plus(realized[r], Times(c, inverse_pnl_per_contract(r, p)))

\* The fill itself, as the venue reports it.
Fill(k, isBuy, q) ==
    /\ fills < MaxFills
    /\ fills' = fills + 1
    /\ net' = [net EXCEPT ![k] = @ + Signed(isBuy, q)]

Opened(k, isBuy, q, p) ==
    /\ OpenRows(k) = {}
    /\ Fill(k, isBuy, q)
    /\ instrument' = Append(instrument, k)
    /\ quantity' = Append(quantity, Signed(isBuy, q))
    /\ entry' = Append(entry, <<p, 1>>)
    /\ realized' = Append(realized, <<0, 1>>)
    /\ open' = open \cup {NextId}
    /\ flow' = Append(flow, <<Signed(isBuy, q), p>>)
    /\ long' = IF isBuy THEN long \cup {NextId} ELSE long

\* Mutant: the weighted sum is divided by the signed quantity.
AddedSigned(r, k, isBuy, q, p) ==
    /\ IsOpenRow(r, k)
    /\ SameSide(r, isBuy)
    /\ Fill(k, isBuy, q)
    /\ quantity' = [quantity EXCEPT ![r] = @ + Signed(isBuy, q)]
    /\ entry' = [entry EXCEPT ![r] =
                    <<Abs(quantity[r]) * @[1] + q * p * @[2],
                      @[2] * (quantity[r] + Signed(isBuy, q))>>]
    /\ flow' = [flow EXCEPT ![r] = Plus(@, <<Signed(isBuy, q), p>>)]
    /\ UNCHANGED <<instrument, realized, open, long>>

\* The entry price becomes the quantity-weighted mean.
Added(r, k, isBuy, q, p) ==
    /\ IsOpenRow(r, k)
    /\ SameSide(r, isBuy)
    /\ Fill(k, isBuy, q)
    /\ quantity' = [quantity EXCEPT ![r] = @ + Signed(isBuy, q)]
    /\ entry' = [entry EXCEPT ![r] =
                    <<Abs(quantity[r]) * @[1] + q * p * @[2],
                      @[2] * (Abs(quantity[r]) + q)>>]
    /\ flow' = [flow EXCEPT ![r] = Plus(@, <<Signed(isBuy, q), p>>)]
    /\ UNCHANGED <<instrument, realized, open, long>>

Reduced(r, k, isBuy, q, p) ==
    /\ IsOpenRow(r, k)
    /\ ~SameSide(r, isBuy)
    /\ q < Abs(quantity[r])
    /\ Fill(k, isBuy, q)
    /\ quantity' = [quantity EXCEPT ![r] = @ + Signed(isBuy, q)]
    /\ realized' = [realized EXCEPT ![r] =
                       Realise(r, Signed(quantity[r] >= 0, q), p)]
    /\ flow' = [flow EXCEPT ![r] = Plus(@, <<Signed(isBuy, q), p>>)]
    /\ UNCHANGED <<instrument, entry, open, long>>

Closed(r, k, isBuy, q, p) ==
    /\ IsOpenRow(r, k)
    /\ ~SameSide(r, isBuy)
    /\ q = Abs(quantity[r])
    /\ Fill(k, isBuy, q)
    /\ quantity' = [quantity EXCEPT ![r] = 0]
    /\ open' = open \ {r}
    /\ realized' = [realized EXCEPT ![r] = Realise(r, quantity[r], p)]
    /\ flow' = [flow EXCEPT ![r] = Plus(@, <<-quantity[r], p>>)]
    /\ UNCHANGED <<instrument, entry, long>>

\* Mutant: the whole fill, not the residual, opens the new row.
FlippedWhole(r, k, isBuy, q, p) ==
    /\ IsOpenRow(r, k)
    /\ ~SameSide(r, isBuy)
    /\ q > Abs(quantity[r])
    /\ Fill(k, isBuy, q)
    /\ instrument' = Append(instrument, k)
    /\ quantity' = Append([quantity EXCEPT ![r] = 0], Signed(isBuy, q))
    /\ entry' = Append(entry, <<p, 1>>)
    /\ realized' = Append([realized EXCEPT ![r] = Realise(r, quantity[r], p)],
                          <<0, 1>>)
    /\ open' = (open \ {r}) \cup {NextId}
    /\ flow' = Append([flow EXCEPT ![r] = Plus(@, <<-quantity[r], p>>)],
                      <<Signed(isBuy, q), p>>)
    /\ long' = IF isBuy THEN long \cup {NextId} ELSE long

\* Mutant: the old row is emptied but its closed_at is not stamped.
FlippedStaysOpen(r, k, isBuy, q, p) ==
    LET residual == Signed(isBuy, q - Abs(quantity[r]))
    IN  /\ IsOpenRow(r, k)
        /\ ~SameSide(r, isBuy)
        /\ q > Abs(quantity[r])
        /\ Fill(k, isBuy, q)
        /\ instrument' = Append(instrument, k)
        /\ quantity' = Append([quantity EXCEPT ![r] = 0], residual)
        /\ entry' = Append(entry, <<p, 1>>)
        /\ realized' = Append([realized EXCEPT ![r] =
                                  Realise(r, quantity[r], p)], <<0, 1>>)
        /\ open' = open \cup {NextId}
        /\ flow' = Append([flow EXCEPT ![r] = Plus(@, <<-quantity[r], p>>)],
                          <<residual, p>>)
        /\ long' = IF isBuy THEN long \cup {NextId} ELSE long

\* The old row is closed, the residual opens a new row at the fill's price.
Flipped(r, k, isBuy, q, p) ==
    LET residual == Signed(isBuy, q - Abs(quantity[r]))
    IN  /\ IsOpenRow(r, k)
        /\ ~SameSide(r, isBuy)
        /\ q > Abs(quantity[r])
        /\ Fill(k, isBuy, q)
        /\ instrument' = Append(instrument, k)
        /\ quantity' = Append([quantity EXCEPT ![r] = 0], residual)
        /\ entry' = Append(entry, <<p, 1>>)
        /\ realized' = Append([realized EXCEPT ![r] =
                                  Realise(r, quantity[r], p)], <<0, 1>>)
        /\ open' = (open \ {r}) \cup {NextId}
        /\ flow' = Append([flow EXCEPT ![r] = Plus(@, <<-quantity[r], p>>)],
                          <<residual, p>>)
        /\ long' = IF isBuy THEN long \cup {NextId} ELSE long

-----------------------------------------------------------------------------

Init ==
    /\ instrument = <<>>
    /\ quantity = <<>>
    /\ entry = <<>>
    /\ realized = <<>>
    /\ open = {}
    /\ fills = 0
    /\ net = [k \in Instruments |-> 0]
    /\ flow = <<>>
    /\ long = {}

apply_fill_to_position(k, isBuy, q, p) ==
    \/ Opened(k, isBuy, q, p)
    \/ \E r \in DOMAIN quantity :
          \/ Added(r, k, isBuy, q, p)
          \/ Reduced(r, k, isBuy, q, p)
          \/ Closed(r, k, isBuy, q, p)
          \/ Flipped(r, k, isBuy, q, p)

Next ==
    \E k \in Instruments, isBuy \in BOOLEAN, q \in Quantities, p \in Prices :
        apply_fill_to_position(k, isBuy, q, p)

Spec == Init /\ [][Next]_vars

-----------------------------------------------------------------------------
(* Properties.                                                             *)

QuantitiesOK ==
    /\ instrument \in Seq(Instruments)
    /\ quantity \in Seq(Int) /\ Len(quantity) = Len(instrument)
    /\ open \subseteq DOMAIN instrument
    /\ fills \in 0 .. MaxFills
    /\ net \in [Instruments -> Int]

MoneyOK ==
    /\ entry \in Seq(Frac) /\ Len(entry) = Len(instrument)
    /\ realized \in Seq(Frac) /\ Len(realized) = Len(instrument)
    /\ flow \in Seq(Frac) /\ Len(flow) = Len(instrument)
    /\ long \subseteq DOMAIN instrument
    /\ \A r \in DOMAIN entry : entry[r][1] > 0

\* Every column of the table holds values of its domain, a price is positive
\* and a fraction never has a zero denominator (a Decimal division by zero
\* panics).
TypeOK == QuantitiesOK /\ MoneyOK

\* The table never holds two open rows of an instrument, though nothing but
\* the order of the transactions prevents it; an open row is never flat.
OneOpenRow ==
    /\ \A i, j \in open : instrument[i] = instrument[j] => i = j
    /\ \A i \in DOMAIN quantity : i \in open <=> quantity[i] # 0

\* After any sequence of buys and sells, additions, reductions and flips, the
\* open row of an instrument holds exactly the signed sum of its fills, and
\* there is none when that sum is zero.
BookMatchesFills ==
    \A k \in Instruments :
        /\ \A r \in OpenRows(k) : quantity[r] = net[k]
        /\ OpenRows(k) = {} => net[k] = 0

\* An open row keeps the side it was opened on: additions, reductions and flips
\* never turn a long row short.
SideKept == \A r \in open : r \in long <=> quantity[r] > 0

\* What a row has realised, plus its open contracts valued at the entry price.
BookValue(r) ==
    Plus(realized[r], <<quantity[r] * entry[r][2], entry[r][1]>>)

\* Contract by contract, pnl = contracts * (1/entry - 1/exit) adds up to the
\* row's sum of signed contracts / price. The average entry is an arithmetic
\* mean, never below the harmonic mean an inverse contract calls for: the P&L
\* of a long is never overstated by it, and the P&L of a short never
\* understated, whatever the order of additions and reductions.
RealisedBias ==
    \A r \in DOMAIN quantity :
        IF r \in long THEN AtMost(BookValue(r), flow[r])
                     ELSE AtMost(flow[r], BookValue(r))
=============================================================================
