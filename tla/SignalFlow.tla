------------------------------ MODULE SignalFlow ------------------------------
(***************************************************************************)
(* From a signal to an exposure: the two timer jobs that write signals     *)
(* (tools/donchian_signal.py, tools/donchian_exit.py), the daemon that     *)
(* checks them and builds the order (rt-daemon/src/signal_processor.rs,    *)
(* rt-daemon/src/market_data.rs, rt-risk/src/checks/), and the fills that  *)
(* come back (rt-daemon/src/fill_reconciler.rs). One instrument,           *)
(* PI_XBTUSD. How one submission can go wrong is the subject of            *)
(* OrderLifecycle, panic-closes that of KillSwitch; here an order is       *)
(* placed or refused in one step and executed as a whole.                  *)
(*                                                                         *)
(* Sides are +1 (buy) and -1 (sell). A market is described by which of the *)
(* limits of RiskConfig it respects.                                       *)
(***************************************************************************)
EXTENDS Integers, Sequences, SequencesExt, FiniteSetsExt

CONSTANTS
    Notionals,      \* notional_chf the entry job may be run with
    FxNum, FxDen,   \* fx_quote_per_chf as a fraction
    Leverage,       \* leverage of the entry signals
    MaxLeverage,    \* max_leverage
    MaxNotional,    \* max_notional_chf_per_order
    MaxContracts,   \* MAX_CONTRACTS_PER_ORDER
    Budget,         \* -leverage_kill_switch_budget_chf
    LossNum, LossDen, \* adverse move, fees and funding reserve, as a fraction
    Markets,        \* market conditions
    Portfolios,     \* effective P&L and kill-switch flag the daemon may load
    Trends,         \* where the close may stand, see Breakout and ShouldExit
    Outages,        \* the daemon may be down for longer than a signal lives
    None,           \* no value
    MaxQueue,       \* bound on pending signals
    MaxFeed         \* bound on executions not yet applied

Sides == {1, -1}

MarketConditions ==
    [book : BOOLEAN, fresh : BOOLEAN, tight : BOOLEAN, deep : BOOLEAN,
     calm : BOOLEAN, funding : {-1, 0, 1}]

\* What the builders make: an exit may be larger than MaxContracts.
BuiltOrders == [side : Sides, qty : Nat \ {0}, reduceOnly : BOOLEAN]

ASSUME ConstantsAssumption ==
    /\ Notionals \subseteq Nat
    /\ FxNum \in Nat \ {0} /\ FxDen \in Nat \ {0}
    /\ Leverage \in Nat \ {0} /\ MaxLeverage \in Nat
    /\ MaxNotional \in Nat /\ MaxContracts \in Nat \ {0}
    /\ Budget \in Nat /\ LossNum \in Nat /\ LossDen \in Nat \ {0}
    /\ Markets \subseteq MarketConditions
    /\ Portfolios \subseteq [pnl : Int, active : BOOLEAN]
    /\ Trends \subseteq -2 .. 2
    /\ Outages \in BOOLEAN
    /\ None \notin Int /\ None \notin BuiltOrders
    /\ MaxQueue \in Nat /\ MaxFeed \in Nat

VARIABLES
    \* database
    queue,      \* pending signals, by created_at
    localQty,   \* signed quantity of the open positions row, 0 if none
    \* venue
    venQty,     \* position
    resting,    \* PostOnly entry orders in the book
    feed,       \* executions the reconciler has not applied
    trend,      \* where the close stands, see Breakout and ExitDue
    \* processes
    stage,      \* of the daemon with the first signal of the queue
    order,      \* the order it has built
    half,       \* the first execution has reached its order, not the position
    entryJob,   \* the breakout the entry job works on
    exitJob     \* the position the exit job works on

daemonVars == <<stage, order>>
venueVars  == <<venQty, resting, feed, trend>>
jobVars    == <<entryJob, exitJob>>

vars == <<queue, localQty, venueVars, daemonVars, half, jobVars>>

Stages == {"idle", "evaluate", "submit"}

Signals ==
    [type : {"trend_entry", "trend_exit"}, side : Sides,
     notional : Notionals \cup {0}, metadata : BOOLEAN, expired : BOOLEAN]

Orders == [side : Sides, qty : 1 .. MaxContracts, reduceOnly : BOOLEAN]

Sign(n) == IF n < 0 THEN -1 ELSE IF n > 0 THEN 1 ELSE 0

Abs(n) == IF n < 0 THEN -n ELSE n

-----------------------------------------------------------------------------
(* The checklist: signal s, market m, portfolio p. The snapshot and the     *)
(* flag in p belong to the equity writer and the kill-switch and are inputs *)
(* here; the open position is the local row. Every signal is of the        *)
(* leverage sleeve.                                                        *)

KillSwitchGate(p) == ~p.active

StalenessCheck(m) == m.fresh

\* Two-sided book, spread, and depth for the notional: an exit has notional 0.
SpreadLiquidityCheck(s, m) == m.tight /\ (m.deep \/ s.notional = 0)

VolatilityRegimeCheck(m) == m.calm

\* The exit job writes leverage 1.
LeverageOf(s) == IF s.type = "trend_exit" THEN 1 ELSE Leverage

\* Leverage cap, budget, worst case on top of it. The drawdown guard never
\* rejects: the equity writer stores equal NAV and high-water mark.
HardLimitCheck(s, p) ==
    /\ LeverageOf(s) <= MaxLeverage
    /\ p.pnl > -Budget
    /\ (p.pnl + Budget) * LossDen > s.notional * LeverageOf(s) * LossNum

\* Mutant: the open position is not looked at.
NoDuplicateCheck(s) == TRUE

DuplicatePositionCheck(s) == Sign(localQty) # s.side

\* No liquidation price is ever loaded, so the check does not apply.
LiquidationDistanceCheck == TRUE

FundingRateCheck(s, m) == m.funding # s.side

NotionalCapCheck(s) == s.notional <= MaxNotional

ChecklistApproves(s, m, p) ==
    /\ KillSwitchGate(p)
    /\ StalenessCheck(m)
    /\ SpreadLiquidityCheck(s, m)
    /\ VolatilityRegimeCheck(m)
    /\ HardLimitCheck(s, p)
    /\ DuplicatePositionCheck(s)
    /\ LiquidationDistanceCheck
    /\ FundingRateCheck(s, m)
    /\ NotionalCapCheck(s)

\* snapshot_for_signal: ATR and FX come from the metadata of the signal, the
\* rest from a book and a ticker that can be read.
SnapshotAvailable(s, m) == s.metadata /\ m.book

-----------------------------------------------------------------------------
(* The orders.                                                             *)

\* floor(notional_chf * fx)
Contracts(notional) == (notional * FxNum) \div FxDen

\* Mutant: the size is not checked.
BuildAnyEntry(s) ==
    {[side |-> s.side, qty |-> Contracts(s.notional), reduceOnly |-> FALSE]}

\* Empty if the order cannot be built.
BuildEntryOrder(s) ==
    {[side |-> s.side, qty |-> q, reduceOnly |-> FALSE] :
        q \in {Contracts(s.notional)} \cap 1 .. MaxContracts}

\* Mutant: an exit may open a position.
BuildPlainExit(s) ==
    IF localQty # 0 /\ s.side = -Sign(localQty)
    THEN {[side |-> s.side, qty |-> Abs(localQty), reduceOnly |-> FALSE]}
    ELSE {}

\* The size is that of the local position, whatever the signal says.
BuildExitOrder(s) ==
    IF localQty # 0 /\ s.side = -Sign(localQty)
    THEN {[side |-> s.side, qty |-> Abs(localQty), reduceOnly |-> TRUE]}
    ELSE {}

BuildOrder(s) ==
    IF s.type = "trend_exit" THEN BuildExitOrder(s) ELSE BuildEntryOrder(s)

-----------------------------------------------------------------------------
(* The daemon. A signal stays pending, and so in the queue, until it is     *)
(* settled.                                                                *)

Settle ==
    /\ queue' = Tail(queue)
    /\ stage' = "idle"
    /\ order' = None

RejectExpired ==
    /\ stage = "idle"
    /\ queue # <<>>
    /\ Head(queue).expired
    /\ Settle
    /\ UNCHANGED <<localQty, venueVars, half, jobVars>>

BeginSignal ==
    /\ stage = "idle"
    /\ queue # <<>>
    /\ ~Head(queue).expired
    /\ stage' = "evaluate"
    /\ UNCHANGED <<queue, localQty, venueVars, order, half, jobVars>>

Approves(s, m, p) ==
    /\ SnapshotAvailable(s, m)
    /\ ChecklistApproves(s, m, p)
    /\ BuildOrder(s) # {}

\* The portfolio is loaded and the checklist run on it.
ApproveSignal(m, p) ==
    /\ stage = "evaluate"
    /\ Approves(Head(queue), m, p)
    /\ stage' = "submit"
    /\ order' \in BuildOrder(Head(queue))
    /\ UNCHANGED <<queue, localQty, venueVars, half, jobVars>>

RejectSignal(m, p) ==
    /\ stage = "evaluate"
    /\ ~Approves(Head(queue), m, p)
    /\ Settle
    /\ UNCHANGED <<localQty, venueVars, half, jobVars>>

\* An entry rests in the book; nothing is read again before it goes out.
SubmitEntry ==
    /\ stage = "submit"
    /\ Head(queue).type = "trend_entry"
    /\ resting' = Append(resting, order)
    /\ Settle
    /\ UNCHANGED <<localQty, venQty, feed, trend, half, jobVars>>

\* What a market order executes: a reduce-only one never goes past zero.
MarketDelta(o) ==
    IF ~o.reduceOnly THEN o.side * o.qty
    ELSE IF Sign(venQty) = -o.side THEN o.side * Min({o.qty, Abs(venQty)})
    ELSE 0

\* An exit is a market order, immediate or cancelled.
SubmitExit ==
    /\ stage = "submit"
    /\ Head(queue).type = "trend_exit"
    /\ MarketDelta(order) # 0
    /\ Len(feed) < MaxFeed
    /\ venQty' = venQty + MarketDelta(order)
    /\ feed' = Append(feed, MarketDelta(order))
    /\ Settle
    /\ UNCHANGED <<localQty, resting, trend, half, jobVars>>

\* The venue refuses the order: PostOnly would cross, or nothing to reduce.
SubmitRefused ==
    /\ stage = "submit"
    /\ order.reduceOnly => MarketDelta(order) = 0
    /\ Settle
    /\ UNCHANGED <<localQty, venueVars, half, jobVars>>

-----------------------------------------------------------------------------
(* The reconciler: order row first, position in a second transaction.      *)

ApplyFillToOrder ==
    /\ feed # <<>>
    /\ ~half
    /\ half' = TRUE
    /\ UNCHANGED <<queue, localQty, venueVars, daemonVars, jobVars>>

ApplyFillToPosition ==
    /\ half
    /\ half' = FALSE
    /\ localQty' = localQty + Head(feed)
    /\ feed' = Tail(feed)
    /\ UNCHANGED <<queue, venQty, resting, trend, daemonVars,
                   jobVars>>

-----------------------------------------------------------------------------
(* The entry job, every four hours.                                        *)

\* The close is outside the entry channel on this side: two steps out. One step
\* out is outside the narrower exit channel only.
Breakout(side) == trend = 2 * side

\* Between two runs everything a run wrote has been processed or has expired,
\* after 30 minutes.
EntryJobDue ==
    /\ entryJob = None
    /\ stage = "idle"
    /\ \A i \in DOMAIN queue : queue[i].type = "trend_entry" => queue[i].expired

\* check_existing_exposure, the positions. A job that refuses has no effect.
CheckPositions(side, notional) ==
    /\ EntryJobDue
    /\ Breakout(side)
    /\ Sign(localQty) # side
    /\ entryJob' = [side |-> side, notional |-> notional, checked |-> FALSE]
    /\ UNCHANGED <<queue, localQty, venueVars, daemonVars, half,
                   exitJob>>

\* An orders row of this side is not terminal.
InFlight(side) ==
    \/ \E i \in DOMAIN resting : resting[i].side = side
    \/ \E i \in DOMAIN feed : Sign(feed[i]) = side /\ ~(i = 1 /\ half)

\* Mutant: orders are not looked at.
OrdersNotChecked ==
    /\ entryJob # None
    /\ ~entryJob.checked
    /\ entryJob' = [entryJob EXCEPT !.checked = TRUE]
    /\ UNCHANGED <<queue, localQty, venueVars, daemonVars, half,
                   exitJob>>

\* check_existing_exposure, the orders.
CheckOrders ==
    /\ entryJob # None
    /\ ~entryJob.checked
    /\ entryJob' = IF InFlight(entryJob.side) THEN None
                   ELSE [entryJob EXCEPT !.checked = TRUE]
    /\ UNCHANGED <<queue, localQty, venueVars, daemonVars, half,
                   exitJob>>

WriteSignal ==
    /\ entryJob # None
    /\ entryJob.checked
    /\ Len(queue) < MaxQueue
    /\ queue' = Append(queue, [type |-> "trend_entry", side |-> entryJob.side,
                               notional |-> entryJob.notional,
                               metadata |-> TRUE, expired |-> FALSE])
    /\ entryJob' = None
    /\ UNCHANGED <<localQty, venueVars, daemonVars, half, exitJob>>

-----------------------------------------------------------------------------
(* The exit job, every five minutes.                                       *)

ListOpenPositions ==
    /\ exitJob = None
    /\ localQty # 0
    /\ exitJob' = [qty |-> localQty, checked |-> FALSE]
    /\ UNCHANGED <<queue, localQty, venueVars, daemonVars, half,
                   entryJob>>

HasPendingExitSignal ==
    /\ exitJob # None
    /\ ~exitJob.checked
    /\ exitJob' = IF \E i \in DOMAIN queue : queue[i].type = "trend_exit"
                  THEN None ELSE [exitJob EXCEPT !.checked = TRUE]
    /\ UNCHANGED <<queue, localQty, venueVars, daemonVars, half,
                   entryJob>>

\* detect_exit: the close has left the exit channel against the position.
ShouldExit(qty) == Sign(trend) = -Sign(qty)

ExitSignal(side, metadata) ==
    [type |-> "trend_exit", side |-> side, notional |-> 0,
     metadata |-> metadata, expired |-> FALSE]

\* The metadata of this job has no ATR and no FX rate.
WriteExitSignal ==
    /\ exitJob # None
    /\ exitJob.checked
    /\ ShouldExit(exitJob.qty)
    /\ Len(queue) < MaxQueue
    /\ queue' = Append(queue, ExitSignal(-Sign(exitJob.qty), FALSE))
    /\ exitJob' = None
    /\ UNCHANGED <<localQty, venueVars, daemonVars, half, entryJob>>

Hold ==
    /\ exitJob # None
    /\ exitJob.checked
    /\ ~ShouldExit(exitJob.qty)
    /\ exitJob' = None
    /\ UNCHANGED <<queue, localQty, venueVars, daemonVars, half,
                   entryJob>>

-----------------------------------------------------------------------------
(* The world around them.                                                  *)

\* The operator writes a row by hand to close the position the table shows, with
\* the metadata the daemon wants.
OperatorExit ==
    /\ localQty # 0
    /\ Len(queue) < MaxQueue
    /\ queue' = Append(queue, ExitSignal(-Sign(localQty), TRUE))
    /\ UNCHANGED <<localQty, venueVars, daemonVars, half, jobVars>>

\* 30 minutes pass in which the daemon, which polls every second, is down.
Expire(i) ==
    /\ Outages
    /\ stage = "idle"
    /\ ~queue[i].expired
    /\ queue' = [queue EXCEPT ![i].expired = TRUE]
    /\ UNCHANGED <<localQty, venueVars, daemonVars, half, jobVars>>

\* A resting order is executed.
Execute(i) ==
    /\ Len(feed) < MaxFeed
    /\ venQty' = venQty + resting[i].side * resting[i].qty
    /\ feed' = Append(feed, resting[i].side * resting[i].qty)
    /\ resting' = RemoveAt(resting, i)
    /\ UNCHANGED <<queue, localQty, trend, daemonVars, half, jobVars>>

MarketMove ==
    /\ trend' \in Trends \ {trend}
    /\ UNCHANGED <<queue, localQty, venQty, resting, feed,
                   daemonVars, half, jobVars>>

-----------------------------------------------------------------------------

Init ==
    /\ queue = <<>>
    /\ localQty = 0
    /\ venQty = 0
    /\ resting = <<>>
    /\ feed = <<>>
    /\ trend \in Trends
    /\ stage = "idle"
    /\ order = None
    /\ half = FALSE
    /\ entryJob = None
    /\ exitJob = None

Daemon ==
    \/ RejectExpired
    \/ BeginSignal
    \/ \E m \in Markets, p \in Portfolios :
          ApproveSignal(m, p) \/ RejectSignal(m, p)
    \/ SubmitEntry
    \/ SubmitExit
    \/ SubmitRefused

Reconciler == ApplyFillToOrder \/ ApplyFillToPosition

EntryJob ==
    \/ \E side \in Sides, notional \in Notionals : CheckPositions(side, notional)
    \/ CheckOrders
    \/ WriteSignal

ExitJob == ListOpenPositions \/ HasPendingExitSignal \/ WriteExitSignal \/ Hold

Environment ==
    \/ OperatorExit
    \/ \E i \in DOMAIN queue : Expire(i)
    \/ \E i \in DOMAIN resting : Execute(i)
    \/ MarketMove

Next == Daemon \/ Reconciler \/ EntryJob \/ ExitJob \/ Environment

Spec == Init /\ [][Next]_vars

\* The daemon's tasks and the timers keep running. Nothing is assumed of the
\* market, the venue's executions and the operator.
FairSpec ==
    /\ Spec
    /\ WF_vars(Daemon)
    /\ WF_vars(Reconciler)
    /\ WF_vars(EntryJob)
    /\ WF_vars(ExitJob)

-----------------------------------------------------------------------------
(* Properties.                                                             *)

\* The variables have their types; an order has at least one contract and at
\* most MAX_CONTRACTS_PER_ORDER when it opens, and is there exactly between
\* approval and submission (build_kraken_futures_order).
TypeOK ==
    /\ queue \in Seq(Signals)
    /\ localQty \in Int /\ venQty \in Int
    /\ resting \in Seq(Orders)
    /\ feed \in Seq(Int \ {0}) /\ (half => feed # <<>>)
    /\ trend \in Trends
    /\ stage \in Stages /\ (stage # "idle" => queue # <<>>)
    /\ order # None <=> stage = "submit"
    /\ entryJob # None => entryJob \in [side : Sides, notional : Notionals,
                                        checked : BOOLEAN]
    /\ exitJob # None => exitJob \in [qty : Int \ {0}, checked : BOOLEAN]

\* The largest entry the notional cap lets through
Cap == Contracts(MaxNotional)

\* Generator and daemon each look before they act, and each on rows that lag
\* behind the venue (check_existing_exposure, DuplicatePositionCheck). Between
\* them there are never two resting orders in one direction, and the exposure in
\* that direction, position and resting order, can be doubled but never becomes
\* larger than that.
ExposureBounded ==
    \A side \in Sides :
        /\ side * venQty <= 2 * Cap
        /\ \A i \in DOMAIN resting : resting[i].side = side =>
              /\ side * venQty + resting[i].qty <= 2 * Cap
              /\ \A j \in DOMAIN resting \ {i} : resting[j].side # side

\* An exit sized by a stale position row never increases or reverses the
\* position at the venue, although a second exit may follow before the fill of
\* the first is applied (build_exit_order).
ExitOnlyReduces ==
    [][(stage = "submit" /\ Head(queue).type = "trend_exit" /\ venQty' # venQty
        /\ stage' = "idle")
       => Abs(venQty') < Abs(venQty) /\ venQty * venQty' >= 0]_vars

\* A position whose exit condition persists is closed: donchian_exit.py closes
\* a position when the close breaks the exit channel.
ExitsHonoured ==
    (localQty # 0 /\ ShouldExit(localQty))
        ~> (localQty = 0 \/ ~ShouldExit(localQty))

-----------------------------------------------------------------------------
(* The inductive invariant behind ExposureBounded (module SignalFlowProofs). *)

\* An entry signal the daemon would still act on.
Live(i) == queue[i].type = "trend_entry" /\ ~queue[i].expired

\* An entry in this direction has been found free of orders in flight and has not
\* been submitted or given up.
Wanted(side) ==
    \/ entryJob # None /\ entryJob.checked /\ entryJob.side = side
    \/ \E i \in DOMAIN queue : Live(i) /\ queue[i].side = side

\* One entry is under way at a time.
QueueInv ==
    /\ \A i, j \in DOMAIN queue : Live(i) /\ Live(j) => i = j
    /\ entryJob # None => \A i \in DOMAIN queue : ~Live(i)
    /\ stage # "idle" => ~Head(queue).expired

\* The order in the daemon's hand; an entry leaves room for its size.
OrderInv ==
    stage = "submit" =>
        /\ order \in BuiltOrders
        /\ order.reduceOnly <=> Head(queue).type = "trend_exit"
        /\ Head(queue).type = "trend_entry" =>
              /\ order.side = Head(queue).side
              /\ order.qty <= Cap /\ order.qty <= MaxContracts
              /\ order.side * venQty <= Cap

RestingInv ==
    /\ \A i \in DOMAIN resting :
          resting[i].qty <= Cap /\ resting[i].side * venQty <= Cap
    /\ \A i, j \in DOMAIN resting : resting[i].side = resting[j].side => i = j
    /\ \A i \in DOMAIN resting : ~Wanted(resting[i].side)

VenueInv == \A side \in Sides : side * venQty <= 2 * Cap

\* h[i] is the venue's position after the first i executions of the feed. Each
\* of them is an exit, which does not go past zero, or an entry within the cap.
Path(h) ==
    /\ h[0] = localQty
    /\ h[Len(feed)] = venQty
    /\ \A i \in DOMAIN feed :
          /\ h[i] = h[i - 1] + feed[i]
          /\ \A side \in Sides : side * feed[i] > 0 =>
                side * h[i] <= 0 \/ side * feed[i] <= Cap

\* While an entry is wanted the feed has no other one in its direction, except
\* the execution whose order row is already closed and whose position is not.
Clear(side, h) ==
    \A i \in DOMAIN feed :
        side * feed[i] > 0 => side * h[i] <= 0 \/ (i = 1 /\ half)

PathInv ==
    \E h \in [0 .. Len(feed) -> Int] :
        Path(h) /\ \A side \in Sides : Wanted(side) => Clear(side, h)

FlowInv == TypeOK /\ QueueInv /\ OrderInv /\ RestingInv /\ VenueInv /\ PathInv
=============================================================================
