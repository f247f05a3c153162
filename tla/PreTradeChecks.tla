---------------------------- MODULE PreTradeChecks ----------------------------
(***************************************************************************)
(* The pre-trade checklist of rt-risk and the two order builders of        *)
(* rt-daemon/src/signal_processor.rs as operators, with the arithmetic of  *)
(* the code: a verdict on a signal s, a market snapshot m and a portfolio  *)
(* p, and the order an approved signal becomes.                            *)
(*                                                                         *)
(* Decimals are integers in fixed units: fx in hundredths of the quote     *)
(* currency per CHF, fractions of a notional in thousandths, a drawdown in *)
(* per cent. Divisions are multiplied out. Sides are +1 (buy), -1 (sell).  *)
(***************************************************************************)
EXTENDS Integers, Sequences, SequencesExt

CONSTANTS
    RiskConfig,     \* the limits, see ConfigFields
    MaxContracts,   \* MAX_CONTRACTS_PER_ORDER
    None            \* no value

Sides   == {1, -1}
Sleeves == {"crypto_spot", "crypto_leverage", "etf", "cash_yield"}
SignalTypes == {"spot_accumulation", "trend_entry", "trend_exit", "rebalance"}

FxUnit   == 100
Permille == 1000

ConfigFields ==
    {"max_tick_age_ms", "max_spread_bps", "min_book_depth_multiple",
     "book_depth_levels", "max_atr_pct_for_leverage", "max_atr_pct_absolute",
     "leverage_kill_switch_budget_chf", "max_portfolio_drawdown",
     "adverse_move_for_worst_case", "expected_round_trip_fee_fraction",
     "expected_funding_reserve_fraction", "max_funding_rate_per_8h",
     "max_leverage", "max_notional_chf_per_order", "min_liq_distance_atrs"}

ASSUME ConfigAssumption ==
    /\ RiskConfig \in [ConfigFields -> Int]
    /\ MaxContracts \in Nat \ {0}

\* Mutant: paper gains count as budget.
EffectivePnlWithGains(p) == p.realized + p.unrealized

\* leverage_sleeve_effective_pnl: paper gains are not budget.
EffectivePnl(p) == p.realized + Min({p.unrealized, 0})

-----------------------------------------------------------------------------
(* The book of the snapshot: two sequences of levels, best first.          *)

Best(levels) == Head(levels).price

BothSides(m) == m.bids # <<>> /\ m.asks # <<>>

TwiceMid(m) == Best(m.bids) + Best(m.asks)

Total(quantities) == FoldLeft(LAMBDA x, y : x + y, 0, quantities)

\* The quantities of the first book_depth_levels levels
Depth(levels) ==
    Total([i \in 1 .. Min({RiskConfig.book_depth_levels, Len(levels)})
              |-> levels[i].qty])

OwnSide(side, m)      == IF side = 1 THEN m.bids ELSE m.asks
OppositeSide(side, m) == IF side = 1 THEN m.asks ELSE m.bids

-----------------------------------------------------------------------------
(* The checks, in the order of PreTradeChecklist::standard.                *)

Outcomes == {"approved", "rejected", "not_applicable"}

Verdict(ok) == IF ok THEN "approved" ELSE "rejected"

Leveraged(s) == s.sleeve = "crypto_leverage"

StalenessCheck(s, m, p) == Verdict(m.age <= RiskConfig.max_tick_age_ms)

\* notional * fx / mid * multiple against the side that would be taken from.
DepthSuffices(s, m) ==
    Depth(OppositeSide(s.side, m)) * FxUnit * TwiceMid(m)
        >= 2 * s.notional * m.fx * RiskConfig.min_book_depth_multiple

SpreadWithin(m) ==
    2 * (Best(m.asks) - Best(m.bids)) * 10000
        <= RiskConfig.max_spread_bps * TwiceMid(m)

SpreadLiquidityCheck(s, m, p) ==
    Verdict(/\ m.fx > 0
            /\ BothSides(m)
            /\ TwiceMid(m) # 0
            /\ SpreadWithin(m)
            /\ DepthSuffices(s, m))

VolatilityRegimeCheck(s, m, p) ==
    Verdict(/\ m.atrPct <= RiskConfig.max_atr_pct_absolute
            /\ Leveraged(s) => m.atrPct <= RiskConfig.max_atr_pct_for_leverage)

\* In CHF * Permille: adverse move, fees and funding on the leveraged notional.
WorstCaseLoss(s) ==
    s.notional * s.leverage * (RiskConfig.adverse_move_for_worst_case
                               + RiskConfig.expected_round_trip_fee_fraction
                               + RiskConfig.expected_funding_reserve_fraction)

\* Cold start and a new high are no drawdown.
DrawdownWithin(p) ==
    \/ p.hwm = 0
    \/ p.nav >= p.hwm
    \/ (p.hwm - p.nav) * 100 <= RiskConfig.max_portfolio_drawdown * p.hwm

HardLimitCheck(s, m, p) ==
    LET budget == RiskConfig.leverage_kill_switch_budget_chf
    IN  Verdict(/\ s.leverage <= RiskConfig.max_leverage
                /\ Leveraged(s) =>
                     /\ EffectivePnl(p) > budget
                     /\ DrawdownWithin(p)
                     /\ EffectivePnl(p) * Permille - WorstCaseLoss(s)
                            > budget * Permille)

\* The open crypto_leverage positions of the signal's instrument.
PositionsOf(s, p) == {q \in p.positions : q.instrument = s.instrument}

DuplicatePositionCheck(s, m, p) ==
    IF Leveraged(s)
    THEN Verdict(\A q \in PositionsOf(s, p) : s.side * q.qty <= 0)
    ELSE "not_applicable"

\* Positions without a liquidation price are skipped.
LiquidationDistanceCheck(s, m, p) ==
    LET known == {q \in PositionsOf(s, p) : q.liq # None}
        Distance(q) == IF m.last > q.liq THEN m.last - q.liq ELSE q.liq - m.last
    IN  IF ~Leveraged(s) \/ m.atr = 0 \/ known = {} THEN "not_applicable"
        ELSE Verdict(\A q \in known :
                        Distance(q) >= RiskConfig.min_liq_distance_atrs * m.atr)

\* Mutant: the sign of the funding does not matter.
FundingEitherWay(s, m, p) ==
    IF m.funding = None THEN "not_applicable"
    ELSE Verdict(m.funding <= RiskConfig.max_funding_rate_per_8h)

\* Positive funding: longs pay.
FundingRateCheck(s, m, p) ==
    IF m.funding = None THEN "not_applicable"
    ELSE Verdict(s.side * m.funding <= RiskConfig.max_funding_rate_per_8h)

NotionalCapCheck(s, m, p) ==
    Verdict(s.notional <= RiskConfig.max_notional_chf_per_order)

\* Mutant: the kill-switch stops every sleeve.
GateEverySleeve(s, p) == Verdict(~p.killed)

\* The gate is for the leverage sleeve; the checks below run all the same.
KillSwitchGate(s, p) == Verdict(~(p.killed /\ Leveraged(s)))

Evaluate(s, m, p) ==
    << KillSwitchGate(s, p),
       StalenessCheck(s, m, p),
       SpreadLiquidityCheck(s, m, p),
       VolatilityRegimeCheck(s, m, p),
       HardLimitCheck(s, m, p),
       DuplicatePositionCheck(s, m, p),
       LiquidationDistanceCheck(s, m, p),
       FundingRateCheck(s, m, p),
       NotionalCapCheck(s, m, p) >>

Approved(s, m, p) == "rejected" \notin Range(Evaluate(s, m, p))

-----------------------------------------------------------------------------
(* The order of an approved signal; the empty set if it cannot be built.   *)

\* floor(notional * fx), contracts of one quote unit
Contracts(s, m) == (s.notional * m.fx) \div FxUnit

\* Market, immediate or cancel, of the whole position; there is at most one open
\* row of an instrument. A position on the signal's own side is a mismatch.
BuildExitOrder(s, p) ==
    {[side |-> s.side, qty |-> s.side * (-q.qty), price |-> None,
      reduceOnly |-> TRUE] :
        q \in {x \in PositionsOf(s, p) : s.side * x.qty < 0}}

\* A PostOnly order joins the best level of its own side.
LimitPrice(s, m) == Best(OwnSide(s.side, m))

\* Mutant: no minimum size.
BuildEntryAnySize(s, m) ==
    {[side |-> s.side, qty |-> Contracts(s, m), price |-> LimitPrice(s, m),
      reduceOnly |-> FALSE]}

BuildEntryOrder(s, m) ==
    IF /\ m.fx > 0
       /\ Contracts(s, m) \in 1 .. MaxContracts
       /\ OwnSide(s.side, m) # <<>>
       /\ LimitPrice(s, m) > 0
    THEN {[side |-> s.side, qty |-> Contracts(s, m),
           price |-> LimitPrice(s, m), reduceOnly |-> FALSE]}
    ELSE {}

BuildOrder(s, m, p) ==
    IF s.type = "trend_exit" THEN BuildExitOrder(s, p)
    ELSE BuildEntryOrder(s, m)
=============================================================================
