---------------------------- MODULE MCSignalFlow ----------------------------
(* Model-checking instances of SignalFlow.                                 *)
EXTENDS SignalFlow

GoodMarket == [book |-> TRUE, fresh |-> TRUE, tight |-> TRUE, deep |-> TRUE,
               calm |-> TRUE, funding |-> 0]

OnlyGood == {GoodMarket}

\* The good market, one that cannot be read, and one adverse to buyers.
MixedMarkets == {GoodMarket, [GoodMarket EXCEPT !.book = FALSE],
                 [GoodMarket EXCEPT !.deep = FALSE, !.funding = 1]}

NoLoss == {[pnl |-> 0, active |-> FALSE]}

\* No loss, a loss that leaves room for small orders only, and the flag.
MixedPortfolios == NoLoss \cup {[pnl |-> -9, active |-> FALSE],
                                [pnl |-> 0, active |-> TRUE]}

\* Outside both channels, on either side.
Breakouts == {-2, 2}

AllTrends == -2 .. 2
=============================================================================
