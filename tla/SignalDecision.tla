---------------------------- MODULE SignalDecision ----------------------------
(***************************************************************************)
(* process_signal of rt-daemon/src/signal_processor.rs, statement by       *)
(* statement, for one row of the signals table: parse, expiry, market      *)
(* snapshot, portfolio, checklist, audit row, and then a rejection, a      *)
(* dry-run intent or an order for the broker. Each statement on the        *)
(* database can fail and the daemon can stop between two of them; the row  *)
(* is then still pending and the next poll begins again, on another market *)
(* and another portfolio. What follows once an order has been built is the *)
(* subject of OrderLifecycle.                                              *)
(***************************************************************************)
EXTENDS PreTradeChecks

CONSTANTS
    Rows,           \* signals rows the jobs or the operator may write
    Markets,        \* market snapshots; None if there is none to be had
    Portfolios,     \* portfolio states
    Modes,          \* execution modes the daemon may be started in
    MaxFaults       \* bound on failed statements and crashes

ExecutionModes == {"dry_run", "paper", "live"}

Reasons ==
    {"invalid_signal", "signal_expired", "market_data_unavailable",
     "portfolio_state_unavailable", "checklist_rejected",
     "sleeve_not_implemented", "order_not_built"}

SignalRows ==
    [side : Sides, type : SignalTypes, sleeve : Sleeves, instrument : STRING,
     notional : Int, leverage : Int, metadata : BOOLEAN, valid : BOOLEAN]

\* The book drops a level with quantity 0. It may be crossed: a crossed snapshot
\* of the venue is readable (module OrderBook).
Levels == [price : Nat \ {0}, qty : Nat \ {0}]

MarketSnapshots ==
    [bids : Seq(Levels), asks : Seq(Levels), age : Nat, atr : Nat, atrPct : Nat,
     last : Nat, fx : Nat, funding : Int \cup {None}]

OpenPositions ==
    [instrument : STRING, qty : Int \ {0}, liq : Nat \cup {None}]

PortfolioStates ==
    [realized : Int, unrealized : Int, nav : Nat, hwm : Nat, killed : BOOLEAN,
     positions : SUBSET OpenPositions]

ASSUME InputsAssumption ==
    /\ None \notin Int /\ None \notin Reasons
    /\ Rows \subseteq SignalRows
    /\ Markets \ {None} \subseteq MarketSnapshots
    /\ Portfolios \subseteq PortfolioStates
    /\ Modes \subseteq ExecutionModes
    /\ MaxFaults \in Nat

VARIABLES
    \* database
    row,        \* the signal
    status,     \* its status
    reason,     \* kind of its rejection_reason, from the moment it is known
    audit,      \* approved column of its checklist_evaluations rows, in order
    intents,    \* its dry_run_orders rows, in order
    snapshots,  \* there is an equity_snapshots row
    \* daemon
    mode,       \* execution_mode
    pc,         \* stage of process_signal
    market,     \* MarketSnapshot
    portfolio,  \* PortfolioState
    order,      \* order built for the broker
    \* environment
    expired,    \* expires_at has passed
    faults      \* failed statements and crashes so far

dbVars     == <<row, status, reason, audit, intents, snapshots>>
daemonVars == <<mode, pc, market, portfolio, order>>

vars == <<dbVars, daemonVars, expired, faults>>

PCs == {"idle", "market", "portfolio", "audit", "intent", "mark", "route",
        "reject", "submit"}

BrokerHints == {"kraken_spot", "kraken_futures", "ibkr"}

Intents == [broker : BrokerHints, price : Nat \ {0}]

Orders ==
    [side : Sides, qty : Nat \ {0}, price : Nat \cup {None}, reduceOnly : BOOLEAN]

TypeOK ==
    /\ row \in Rows
    /\ status \in {"pending", "processed", "rejected"}
    /\ reason \in Reasons \cup {None}
    /\ audit \in Seq(BOOLEAN)
    /\ intents \in Seq(Intents)
    /\ Len(audit) <= MaxFaults + 1
    /\ snapshots \in BOOLEAN
    /\ mode \in Modes
    /\ pc \in PCs
    /\ market \in Markets \cup {None}
    /\ portfolio \in Portfolios \cup {None}
    /\ order \in Orders \cup {None}
    /\ expired \in BOOLEAN
    /\ faults \in 0 .. MaxFaults

-----------------------------------------------------------------------------
(* Reading. A rejection is decided here and written by MarkRejected.       *)

Reject(why) ==
    /\ reason' = why
    /\ pc' = "reject"

\* Side, type, sleeve, decimals, timestamps and JSON of the row can be parsed.
RowToSignal == row.valid

\* poll_once finds the row; expiry guard
BeginSignal ==
    /\ pc = "idle"
    /\ status = "pending"
    /\ IF ~RowToSignal THEN Reject("invalid_signal")
       ELSE IF expired THEN Reject("signal_expired")
       ELSE pc' = "market" /\ UNCHANGED reason
    /\ UNCHANGED <<row, status, audit, intents, snapshots, mode, market,
                   portfolio, order, expired, faults>>

\* ATR and FX come from the metadata of the signal, the rest from a synchronised
\* book and a ticker.
SnapshotForSignal(m) == row.metadata /\ m # None

ReadMarket(m) ==
    /\ pc = "market"
    /\ IF SnapshotForSignal(m)
       THEN market' = m /\ pc' = "portfolio" /\ UNCHANGED reason
       ELSE Reject("market_data_unavailable") /\ UNCHANGED market
    /\ UNCHANGED <<row, status, audit, intents, snapshots, mode, portfolio,
                   order, expired, faults>>

\* write_bootstrap_equity_snapshot: no P&L, NAV at its high.
Bootstrapped(p) == p.realized = 0 /\ p.unrealized = 0 /\ p.nav = p.hwm

\* Mutant: a cold database is an error that is tried again.
LoadFromSnapshotOnly(p) ==
    /\ pc = "portfolio"
    /\ IF snapshots THEN portfolio' = p /\ pc' = "audit"
       ELSE pc' = "idle" /\ UNCHANGED portfolio
    /\ UNCHANGED <<dbVars, mode, market, order, expired, faults>>

\* load_portfolio_state. The first call on a cold database writes a snapshot.
LoadPortfolio(p) ==
    /\ pc = "portfolio"
    /\ ~snapshots => Bootstrapped(p)
    /\ snapshots' = TRUE
    /\ portfolio' = p
    /\ pc' = "audit"
    /\ UNCHANGED <<row, status, reason, audit, intents, mode, market, order,
                   expired, faults>>

\* One of its statements fails, or a row cannot be parsed: unlike a failed
\* write, this rejects the signal. The bootstrap row may have been written.
LoadPortfolioFails ==
    /\ pc = "portfolio"
    /\ faults < MaxFaults
    /\ faults' = faults + 1
    /\ snapshots' \in {snapshots, TRUE}
    /\ Reject("portfolio_state_unavailable")
    /\ UNCHANGED <<row, status, audit, intents, mode, market, portfolio, order,
                   expired>>

-----------------------------------------------------------------------------
(* Deciding.                                                               *)

ChecklistVerdict == Approved(row, market, portfolio)

\* handle_approval, or the rejection of the checklist
AfterChecklist ==
    IF ~ChecklistVerdict THEN Reject("checklist_rejected")
    ELSE /\ pc' = IF mode = "dry_run" THEN "intent" ELSE "route"
         /\ UNCHANGED reason

\* Mutant: only rejections are recorded.
RecordRejectionsOnly ==
    /\ pc = "audit"
    /\ audit' = IF ChecklistVerdict THEN audit ELSE Append(audit, FALSE)
    /\ AfterChecklist
    /\ UNCHANGED <<row, status, intents, snapshots, mode, market, portfolio,
                   order, expired, faults>>

\* evaluate and record_checklist_evaluation
RecordEvaluation ==
    /\ pc = "audit"
    /\ audit' = Append(audit, ChecklistVerdict)
    /\ AfterChecklist
    /\ UNCHANGED <<row, status, intents, snapshots, mode, market, portfolio,
                   order, expired, faults>>

MarkRejected ==
    /\ pc = "reject"
    /\ status' = "rejected"
    /\ pc' = "idle"
    /\ UNCHANGED <<row, reason, audit, intents, snapshots, mode, market,
                   portfolio, order, expired, faults>>

-----------------------------------------------------------------------------
(* Dry run: two statements, the intent and the status.                     *)

BrokerHint(sleeve) ==
    CASE sleeve = "crypto_spot"     -> "kraken_spot"
      [] sleeve = "crypto_leverage" -> "kraken_futures"
      [] OTHER                      -> "ibkr"

\* build_order_intent: the price a market order would take
Intent ==
    [broker |-> BrokerHint(row.sleeve),
     price  |-> Best(OppositeSide(row.side, market))]

\* Mutant: the status first.
MarkThenRecord ==
    /\ pc = "intent"
    /\ status' = "processed"
    /\ pc' = "mark"
    /\ UNCHANGED <<row, reason, audit, intents, snapshots, mode, market,
                   portfolio, order, expired, faults>>

\* record_dry_run_order
RecordIntent ==
    /\ pc = "intent"
    /\ intents' = Append(intents, Intent)
    /\ pc' = "mark"
    /\ UNCHANGED <<row, status, reason, audit, snapshots, mode, market,
                   portfolio, order, expired, faults>>

\* mark_signal_processed
MarkProcessed ==
    /\ pc = "mark"
    /\ status' = "processed"
    /\ pc' = "idle"
    /\ UNCHANGED <<row, reason, audit, intents, snapshots, mode, market,
                   portfolio, order, expired, faults>>

-----------------------------------------------------------------------------
(* Paper and live: submit_via_broker up to the order.                      *)

Buildable == BuildOrder(row, market, portfolio)

Route ==
    /\ pc = "route"
    /\ IF ~Leveraged(row)
       THEN Reject("sleeve_not_implemented") /\ UNCHANGED order
       ELSE IF Buildable = {}
       THEN Reject("order_not_built") /\ UNCHANGED order
       ELSE order' \in Buildable /\ pc' = "submit" /\ UNCHANGED reason
    /\ UNCHANGED <<row, status, audit, intents, snapshots, mode, market,
                   portfolio, expired, faults>>

-----------------------------------------------------------------------------
(* The world around it.                                                    *)

\* A statement fails and process_signal returns the error, or the daemon stops.
Abandon ==
    /\ pc \in PCs \ {"idle", "submit"}
    /\ faults < MaxFaults
    /\ faults' = faults + 1
    /\ pc' = "idle"
    /\ reason' = None
    /\ market' = None
    /\ portfolio' = None
    /\ UNCHANGED <<row, status, audit, intents, snapshots, mode, order, expired>>

Expire ==
    /\ status = "pending"
    /\ ~expired
    /\ expired' = TRUE
    /\ UNCHANGED <<dbVars, daemonVars, faults>>

-----------------------------------------------------------------------------

Init ==
    /\ row \in Rows
    /\ status = "pending"
    /\ reason = None
    /\ audit = <<>>
    /\ intents = <<>>
    /\ snapshots \in BOOLEAN
    /\ mode \in Modes
    /\ pc = "idle"
    /\ market = None
    /\ portfolio = None
    /\ order = None
    /\ expired = FALSE
    /\ faults = 0

Process ==
    \/ BeginSignal
    \/ \E m \in Markets : ReadMarket(m)
    \/ \E p \in Portfolios : LoadPortfolio(p)
    \/ RecordEvaluation
    \/ MarkRejected
    \/ RecordIntent
    \/ MarkProcessed
    \/ Route

Next ==
    \/ Process
    \/ LoadPortfolioFails
    \/ Abandon
    \/ Expire

\* The poll loop runs as long as the daemon does.
Spec == Init /\ [][Next]_vars /\ WF_vars(Process)

-----------------------------------------------------------------------------
(* Properties.                                                             *)

Decided == pc \in {"intent", "mark", "route", "submit"}

Evaluated == Decided \/ reason = "checklist_rejected"

Entry == order # None /\ ~order.reduceOnly

\* An entry order cannot lose the budget: were the venue position it opens to
\* move against it by the simulated amount, fees and funding included, the
\* effective P&L of the portfolio it was checked on would still be above the
\* kill-switch budget. The code checks the CHF notional times leverage; the
\* order is in contracts of one quote unit, converted at the signal's FX rate
\* (hard_limit.rs, build_kraken_futures_order). The leverage must be at least
\* one, as signal.rs documents and row_to_signal does not check: the projection
\* scales with it and the order does not.
OrderWithinBudget ==
    Entry /\ row.leverage >= 1 =>
        LET risk == RiskConfig.adverse_move_for_worst_case
                    + RiskConfig.expected_round_trip_fee_fraction
                    + RiskConfig.expected_funding_reserve_fraction
            pnl  == Min({portfolio.realized, portfolio.realized + portfolio.unrealized})
        IN  pnl * Permille * market.fx - order.qty * FxUnit * risk
                > RiskConfig.leverage_kill_switch_budget_chf * Permille * market.fx

\* The same context with buyers and sellers exchanged: the book reflected at
\* its mid price, the funding and the positions reversed.
Reflect(levels, m) ==
    [i \in DOMAIN levels |-> [levels[i] EXCEPT !.price = TwiceMid(m) - @]]

MirrorMarket(m) ==
    [m EXCEPT !.bids = Reflect(m.asks, m), !.asks = Reflect(m.bids, m),
              !.funding = IF @ = None THEN None ELSE -@]

MirrorPortfolio(p) ==
    [p EXCEPT !.positions = {[q EXCEPT !.qty = -@] : q \in p.positions}]

\* The checklist treats the two sides alike: the verdict is the one
\* the mirrored signal would get on the mirrored market and portfolio (funding
\* sign, depth side and position side in rt-risk/src/checks).
VerdictMirrored ==
    Evaluated /\ BothSides(market) =>
        ChecklistVerdict = Approved([row EXCEPT !.side = -@], MirrorMarket(market),
                            MirrorPortfolio(portfolio))

\* The spot, ETF and cash sleeves do not depend on the state of the leverage
\* sleeve: a kill-switch, a drawdown or an exhausted budget never changes the
\* verdict on their signals (hard_limit.rs, PreTradeChecklist::evaluate).
SpotUnaffected ==
    Evaluated /\ ~Leveraged(row) =>
        \A p \in Portfolios : Approved(row, market, p) = ChecklistVerdict

\* The recorded evaluations that approved
Approvals == {i \in DOMAIN audit : audit[i]}

\* The audit trail is complete: there are no more intents than evaluations that
\* approved, an order or an intent under way was approved by the evaluation
\* recorded last, and a rejection by the checklist is recorded as one. Statements
\* fail and the daemon stops between the tables (record_checklist_evaluation,
\* record_dry_run_order, mark_signal_rejected).
AuditTrail ==
    /\ Len(intents) <= Cardinality(Approvals)
    /\ Decided => audit # <<>> /\ Last(audit)
    /\ status = "rejected" /\ reason = "checklist_rejected" => ~Last(audit)

\* A dry run leaves its result: a signal it has marked processed has an intent,
\* whatever failed in between, and one more at most for each failure. No order is
\* built for the broker (record_dry_run_intent).
DryRunRecorded ==
    mode = "dry_run" =>
        /\ status = "processed" => intents # <<>>
        /\ Len(intents) <= 1 + faults
        /\ order = None

-----------------------------------------------------------------------------
(* The inductive invariant behind them (module SignalDecisionProofs).      *)

\* What process_signal has in hand at each stage: nothing is decided but on a
\* market and a portfolio of this attempt, and an order stands on an approval.
StageInv ==
    /\ pc # "idle" => status = "pending"
    /\ pc \in {"market", "portfolio", "audit"} \/ (pc = "idle" /\ status = "pending")
          => reason = None
    /\ pc \in {"portfolio", "audit"} \/ Evaluated => market \in Markets \ {None}
    /\ pc = "audit" \/ Evaluated => portfolio \in Portfolios
    /\ Decided => ChecklistVerdict
    /\ pc \in {"intent", "mark"} => mode = "dry_run"
    /\ pc \in {"route", "submit"} => mode # "dry_run"
    /\ order # None => pc = "submit" /\ Leveraged(row) /\ order \in Buildable

\* This attempt has been evaluated, or the signal is settled.
Concluded == status # "pending" \/ pc \in {"reject", "intent", "mark", "route", "submit"}

\* Every attempt but the last has cost a fault, and leaves one audit row and one
\* intent at most.
RecordInv ==
    /\ Len(audit) <= faults + (IF Concluded THEN 1 ELSE 0)
    /\ Len(intents) <= Cardinality(Approvals)
    /\ pc = "intent" => Len(intents) < Cardinality(Approvals)
    /\ Len(intents) <= faults + (IF status # "pending" \/ pc = "mark" THEN 1 ELSE 0)
    /\ pc = "mark" \/ status = "processed" => intents # <<>>
    /\ Decided => audit # <<>> /\ Last(audit)
    /\ reason = "checklist_rejected" => audit # <<>> /\ ~Last(audit)

DecisionInv == TypeOK /\ StageInv /\ RecordInv

-----------------------------------------------------------------------------

\* Every signal is settled or becomes an order, on a cold database too, once
\* statements stop failing (poll_once, load_portfolio_state).
SignalSettles == <>[](status # "pending" \/ order # None)
=============================================================================
