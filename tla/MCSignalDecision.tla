--------------------------- MODULE MCSignalDecision ---------------------------
(* A model-checking instance of SignalDecision: the limits are those of    *)
(* RiskConfig::default, and the inputs stand on both sides of each limit.  *)
EXTENDS SignalDecision, TLC

MCRiskConfig ==
    [max_tick_age_ms |-> 500, max_spread_bps |-> 20,
     min_book_depth_multiple |-> 3, book_depth_levels |-> 2,
     max_atr_pct_for_leverage |-> 6, max_atr_pct_absolute |-> 15,
     leverage_kill_switch_budget_chf |-> -1000, max_portfolio_drawdown |-> 20,
     adverse_move_for_worst_case |-> 100, expected_round_trip_fee_fraction |-> 1,
     expected_funding_reserve_fraction |-> 2, max_funding_rate_per_8h |-> 2,
     max_leverage |-> 2, max_notional_chf_per_order |-> 1000,
     min_liq_distance_atrs |-> 2]

Row(side, type, sleeve, notional, leverage) ==
    [side |-> side, type |-> type, sleeve |-> sleeve, instrument |-> "PI_XBTUSD",
     notional |-> notional, leverage |-> leverage, metadata |-> TRUE,
     valid |-> TRUE]

BuyEntry == Row(1, "trend_entry", "crypto_leverage", 300, 2)

MCRows ==
    {Row(side, "trend_entry", "crypto_leverage", notional, leverage) :
        side \in {1, -1}, notional \in {300, 1000, 1001}, leverage \in {1, 2}}
    \cup {Row(side, "trend_exit", "crypto_leverage", 0, 1) : side \in {1, -1}}
    \cup {Row(1, "spot_accumulation", "crypto_spot", 300, 1),
          Row(-1, "rebalance", "etf", 300, 1),
          [BuyEntry EXCEPT !.leverage = 3], [BuyEntry EXCEPT !.leverage = 0],
          [BuyEntry EXCEPT !.notional = 0], [BuyEntry EXCEPT !.notional = -300],
          [BuyEntry EXCEPT !.metadata = FALSE],
          [BuyEntry EXCEPT !.valid = FALSE]}

Book(bid, ask, bidQty, askQty) ==
    [bids |-> <<[price |-> bid, qty |-> bidQty], [price |-> bid - 1, qty |-> 1]>>,
     asks |-> <<[price |-> ask, qty |-> askQty], [price |-> ask + 1, qty |-> 1]>>,
     age |-> 100, atr |-> 30, atrPct |-> 3, last |-> bid, fx |-> 110,
     funding |-> 1]

\* 20 bps wide; the depth of 5 is enough for every notional up to the cap.
Calm == Book(999, 1001, 4, 4)

MCMarkets ==
    {None, Calm, [Calm EXCEPT !.asks = <<>>], Book(998, 1001, 4, 4),
     Book(999, 1001, 1, 4), Book(999, 1001, 4, 1), Book(1001, 999, 4, 4)}
    \cup {[Calm EXCEPT !.age = a] : a \in {500, 501}}
    \cup {[Calm EXCEPT !.atrPct = a] : a \in {7, 16}}
    \cup {[Calm EXCEPT !.funding = f] : f \in {None, 2, 3, -3}}
    \cup {[Calm EXCEPT !.fx = f] : f \in {0, 90}}

Flat == [realized |-> 0, unrealized |-> 0, nav |-> 100, hwm |-> 100,
         killed |-> FALSE, positions |-> {}]

Holding(instrument, qty) ==
    [Flat EXCEPT !.positions = {[instrument |-> instrument, qty |-> qty, liq |-> None]}]

MCPortfolios ==
    {Flat, [Flat EXCEPT !.killed = TRUE], [Flat EXCEPT !.nav = 79],
     [Flat EXCEPT !.realized = -1000], [Flat EXCEPT !.realized = -900, !.unrealized = 500],
     [Flat EXCEPT !.realized = -900, !.unrealized = -90],
     Holding("PI_XBTUSD", 5), Holding("PI_XBTUSD", -5), Holding("PI_ETHUSD", 5)}
=============================================================================
