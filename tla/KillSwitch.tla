------------------------------ MODULE KillSwitch ------------------------------
(***************************************************************************)
(* The kill-switch: the evaluator that both the 60 s supervisor and the    *)
(* fill reconciler run (rt-daemon/src/main.rs, evaluate_kill_switch_once;  *)
(* rt-risk/src/kill_switch.rs), the panic-close it may start, the equity   *)
(* writer whose snapshots it reads (rt-daemon/src/equity_writer.rs), and   *)
(* the gate it closes for new signals (rt-risk/src/checklist.rs).          *)
(*                                                                         *)
(* Amounts of money are whole units of CHF; the P&L of a contract moves    *)
(* between the levels in Levels. Every database statement and every call   *)
(* of the venue is a step of its own. Entries are post-only and good till  *)
(* cancelled: they rest at the venue, which executes them contract by      *)
(* contract or never, also during and after a panic-close; a panic order   *)
(* is a market order. Fills reach the daemon later. The daemon is in Paper *)
(* or Live mode.                                                           *)
(***************************************************************************)
EXTENDS Integers, Sequences, FiniteSets, FiniteSetsExt, Functions

CONSTANTS
    Instruments,    \* leverage instruments
    Perp,           \* PERP_SYMBOL, the one whose account the writer reads
    Deltas,         \* signed order sizes
    Levels,         \* unrealised P&L a contract can have
    Capital,        \* collateral at the start
    Budget,         \* -leverage_kill_switch_budget_chf
    HardThreshold,  \* -kill_switch_effective_threshold_chf
    None,           \* no value
    MaxOrders,      \* bound on the orders of the signal processor
    MaxResolves,    \* bound on the operator's resets
    MaxFailures     \* bound on failed panic orders and crashes

ASSUME ConstantsAssumption ==
    /\ Perp \in Instruments
    /\ Deltas \subseteq Int \ {0}
    /\ Levels \subseteq Int /\ 0 \in Levels
    /\ Capital \in Nat
    /\ Budget \in Nat
    /\ HardThreshold \in Nat
    /\ None \notin Int
    /\ MaxOrders \in Nat /\ MaxResolves \in Nat /\ MaxFailures \in Nat

VARIABLES
    \* database
    soft,       \* an unresolved kill_switch_events row without hard_ prefix
    hard,       \* number of unresolved rows with hard_ prefix
    snap,       \* the latest equity_snapshots row
    localQty,   \* positions.quantity of the open leverage row, 0 if none
    realized,   \* realised P&L in the leverage rows of positions
    \* venue
    venQty,     \* position
    resting,    \* contracts of entries in its book, by instrument and side
    unreal,     \* unrealised P&L of each of its contracts
    balance,    \* collateral of the account of Perp
    feed,       \* fills not yet applied
    \* tasks
    epc,        \* where each evaluator stands
    view,       \* the portfolio it loaded
    hardSeen,   \* hard_already
    todo,       \* positions it still has to close
    fetched,    \* the account data of the equity writer
    approved,   \* the order the signal processor is about to submit
    \* bookkeeping of the model
    slack,      \* contracts that a running panic-close cannot know of
    missed,     \* instruments whose panic order was refused or failed
    orders,     \* orders submitted so far
    late,       \* orders submitted while the kill-switch was active
    resolves,   \* resets so far
    failures    \* failures so far

dbVars     == <<soft, hard, snap, localQty, realized>>
venueVars  == <<venQty, resting, unreal, balance, feed>>
evalVars   == <<epc, view, hardSeen, todo>>
countVars  == <<slack, missed, orders, late, resolves, failures>>

vars == <<dbVars, venueVars, evalVars, fetched, approved, countVars>>

Evaluators == {"supervisor", "reconciler"}

Sides == {-1, 1}

EvaluatorPc == {"idle", "load", "active", "hard", "decide", "list", "close"}

-----------------------------------------------------------------------------
(* The decision.                                                           *)

\* kill_switch_active: any unresolved event
Active == soft \/ hard > 0

\* leverage_sleeve_effective_pnl: gains do not count
EffectivePnl(p) ==
    p.realized + (IF p.unrealized < 0 THEN p.unrealized ELSE 0)

\* Mutant: a soft-disabled sleeve is not evaluated any further.
EvaluateSoftFirst(p) ==
    CASE p.active -> "nochange"
      [] EffectivePnl(p) <= -HardThreshold -> "panic"
      [] p.realized <= -Budget \/ p.drawdown > 0 -> "disable"
      [] OTHER -> "nochange"

\* KillSwitchEvaluator::evaluate
Evaluate(p) ==
    CASE EffectivePnl(p) <= -HardThreshold -> "panic"
      [] p.active -> "nochange"
      [] p.realized <= -Budget \/ p.drawdown > 0 -> "disable"
      [] OTHER -> "nochange"

-----------------------------------------------------------------------------
(* evaluate_kill_switch_once                                               *)

Step(e, from, to) == epc[e] = from /\ epc' = [epc EXCEPT ![e] = to]

\* The locals of an evaluation that is not running
NoView == [realized |-> 0, unrealized |-> 0, drawdown |-> 0, active |-> FALSE]

Forget(e) ==
    /\ view' = [view EXCEPT ![e] = NoView]
    /\ hardSeen' = [hardSeen EXCEPT ![e] = FALSE]

\* The 60 s tick.
Tick ==
    /\ Step("supervisor", "idle", "load")
    /\ UNCHANGED <<dbVars, venueVars, view, hardSeen, todo, fetched, approved,
                   countVars>>

\* The portfolio is the latest snapshot and, in a second statement, the flag.
LoadPortfolioState(e) ==
    \/ /\ Step(e, "load", "active")
       /\ view' = [view EXCEPT ![e] =
                      [realized |-> snap.realized, unrealized |-> snap.unrealized,
                       drawdown |-> snap.drawdown, active |-> FALSE]]
       /\ UNCHANGED <<dbVars, venueVars, hardSeen, todo, fetched, approved,
                      countVars>>
    \/ /\ Step(e, "active", "hard")
       /\ view' = [view EXCEPT ![e].active = Active]
       /\ UNCHANGED <<dbVars, venueVars, hardSeen, todo, fetched, approved,
                      countVars>>

\* Mutant: the unresolved hard event is not looked up.
HardTriggerIgnored(e) ==
    /\ Step(e, "hard", "decide")
    /\ hardSeen' = [hardSeen EXCEPT ![e] = FALSE]
    /\ UNCHANGED <<dbVars, venueVars, view, todo, fetched, approved, countVars>>

HasActiveHardTrigger(e) ==
    /\ Step(e, "hard", "decide")
    /\ hardSeen' = [hardSeen EXCEPT ![e] = hard > 0]
    /\ UNCHANGED <<dbVars, venueVars, view, todo, fetched, approved, countVars>>

\* Nothing to do, or a hard event exists already.
NoChange(e) ==
    /\ Step(e, "decide", "idle")
    /\ \/ Evaluate(view[e]) = "nochange"
       \/ Evaluate(view[e]) = "panic" /\ hardSeen[e]
    /\ Forget(e)
    /\ UNCHANGED <<dbVars, venueVars, todo, fetched, approved, countVars>>

RecordDisable(e) ==
    /\ Step(e, "decide", "idle")
    /\ Evaluate(view[e]) = "disable"
    /\ soft' = TRUE
    /\ Forget(e)
    /\ UNCHANGED <<hard, snap, localQty, realized, venueVars, todo, fetched,
                   approved, countVars>>

\* The event is recorded first, the orders follow.
RecordPanic(e) ==
    /\ Step(e, "decide", "list")
    /\ Evaluate(view[e]) = "panic"
    /\ ~hardSeen[e]
    /\ hard' = hard + 1
    /\ Forget(e)
    /\ UNCHANGED <<soft, snap, localQty, realized, venueVars, todo, fetched,
                   approved, countVars>>

Sign(n) == IF n < 0 THEN -1 ELSE 1

Abs(n) == IF n < 0 THEN -n ELSE n

\* Rows of positions that are to be closed, symbol and signed quantity
PositionsOf(instruments) == {<<k, localQty[k]>> : k \in instruments}

\* The bookkeeping of a panic-close begins: the table may be off already.
BeginSlack(e) ==
    /\ slack' = [slack EXCEPT ![e] =
                    [k \in Instruments |-> Abs(localQty[k] - venQty[k])]]
    /\ missed' = [missed EXCEPT ![e] = {}]
    /\ UNCHANGED <<orders, late, resolves, failures>>

NoSlack == [k \in Instruments |-> 0]

\* Mutant: short positions are forgotten.
ListLongPositions(e) ==
    /\ Step(e, "list", "close")
    /\ todo' = [todo EXCEPT ![e] =
                   PositionsOf({k \in Instruments : localQty[k] > 0})]
    /\ BeginSlack(e)
    /\ UNCHANGED <<dbVars, venueVars, view, hardSeen, fetched, approved>>

\* list_open_leverage_positions reads the local table.
ListOpenPositions(e) ==
    /\ Step(e, "list", "close")
    /\ todo' = [todo EXCEPT ![e] =
                   PositionsOf({k \in Instruments : localQty[k] # 0})]
    /\ BeginSlack(e)
    /\ UNCHANGED <<dbVars, venueVars, view, hardSeen, fetched, approved>>

\* Mutant: the panic order is not reduce-only.
PlainPanicOrder(p) ==
    [instrument |-> p[1], delta |-> -p[2], reduceOnly |-> FALSE]

\* The market order against a listed position: the opposite side, its whole
\* quantity, reduce_only.
PanicOrder(p) ==
    [instrument |-> p[1], delta |-> -p[2], reduceOnly |-> TRUE]

\* What a market order does to a venue position of q contracts. One that may
\* only reduce is executed as far as there is something to reduce.
MarketDelta(q, o) ==
    IF ~o.reduceOnly THEN o.delta
    ELSE IF q = 0 \/ Sign(q) = Sign(o.delta) THEN 0
    ELSE Sign(o.delta) * Min({Abs(q), Abs(o.delta)})

\* What is left of a position of q contracts changes by d: the contracts it
\* closes book their P&L, to the collateral and with the fill.
ClosedContracts(q, d) ==
    IF Sign(q) = Sign(d) THEN 0 ELSE Min({Abs(q), Abs(d)})

\* The venue executes d contracts of instrument k. The fill of an order without
\* an orders row is not known to the reconciler.
Execute(k, d, known) ==
    LET booked == ClosedContracts(venQty[k], d) * unreal[k]
    IN /\ venQty' = [venQty EXCEPT ![k] = @ + d]
       /\ unreal' = IF Abs(venQty[k]) <= Abs(d) /\ booked # 0
                    THEN [unreal EXCEPT ![k] = 0] ELSE unreal
       /\ balance' = IF k = Perp THEN balance + booked ELSE balance
       /\ feed' = Append(feed, [instrument |-> k, delta |-> d, pnl |-> booked,
                                known |-> known])

\* One panic order. It has no orders row.
SubmitClose(e, p) ==
    /\ epc[e] = "close"
    /\ p \in todo[e]
    /\ todo' = [todo EXCEPT ![e] = @ \ {p}]
    /\ LET d == MarketDelta(venQty[p[1]], PanicOrder(p))
       IN IF d = 0 THEN UNCHANGED <<venQty, unreal, balance, feed>>
                   ELSE Execute(p[1], d, FALSE)
    /\ UNCHANGED <<dbVars, resting, epc, view, hardSeen, fetched, approved, countVars>>

\* What panic_close_leverage_positions says of Kraken: a reduce-only order for
\* more than the position that is left is rejected, not cut down.
CloseRefused(e, p) ==
    /\ epc[e] = "close"
    /\ p \in todo[e]
    /\ venQty[p[1]] # 0
    /\ MarketDelta(venQty[p[1]], PanicOrder(p)) # PanicOrder(p).delta
    /\ todo' = [todo EXCEPT ![e] = @ \ {p}]
    /\ missed' = [missed EXCEPT ![e] = @ \cup {p[1]}]
    /\ UNCHANGED <<dbVars, venueVars, epc, view, hardSeen, fetched, approved,
                   slack, orders, late, resolves, failures>>

\* A panic order that fails is logged; there is no retry.
CloseFails(e, p) ==
    /\ epc[e] = "close"
    /\ p \in todo[e]
    /\ failures < MaxFailures
    /\ failures' = failures + 1
    /\ todo' = [todo EXCEPT ![e] = @ \ {p}]
    /\ missed' = [missed EXCEPT ![e] = @ \cup {p[1]}]
    /\ UNCHANGED <<dbVars, venueVars, epc, view, hardSeen, fetched, approved,
                   slack, orders, late, resolves>>

\* Mutant: the loop ends after its first order.
PanicDoneEarly(e) ==
    /\ Step(e, "close", "idle")
    /\ slack' = [slack EXCEPT ![e] = NoSlack]
    /\ UNCHANGED <<dbVars, venueVars, view, hardSeen, todo, fetched, approved,
                   missed, orders, late, resolves, failures>>

PanicDone(e) ==
    /\ Step(e, "close", "idle")
    /\ todo[e] = {}
    /\ slack' = [slack EXCEPT ![e] = NoSlack]
    /\ UNCHANGED <<dbVars, venueVars, view, hardSeen, todo, fetched, approved,
                   missed, orders, late, resolves, failures>>

-----------------------------------------------------------------------------
(* The equity writer.                                                      *)

\* The sleeve the signal generator writes, signals.sleeve and so
\* positions.sleeve.
RowSleeve == "crypto_leverage"

\* The sleeve the equity writer sums up.
LEVERAGE_SLEEVE == "CryptoLeverage"

SumRealizedPnlBySleeve(sleeve) == IF sleeve = RowSleeve THEN realized ELSE 0

\* auxiliary.pnl of SC_MARGIN_ACCOUNT_KEY
AccountUnrealized == Abs(venQty[Perp]) * unreal[Perp]

GetAccounts ==
    /\ fetched = None
    /\ fetched' = [equity |-> balance + AccountUnrealized,
                   unrealized |-> AccountUnrealized]
    /\ UNCHANGED <<dbVars, venueVars, evalVars, approved, countVars>>

\* insert_equity_snapshot, refused when the equity is not positive. NAV per
\* unit and its high-water mark are both 1, so the drawdown is always zero.
WriteSnapshot ==
    /\ fetched # None
    /\ fetched' = None
    /\ snap' = IF fetched.equity > 0
               THEN [realized |-> SumRealizedPnlBySleeve(LEVERAGE_SLEEVE),
                     unrealized |-> fetched.unrealized, drawdown |-> 0]
               ELSE snap
    /\ UNCHANGED <<soft, hard, localQty, realized, venueVars, evalVars, approved,
                   countVars>>

-----------------------------------------------------------------------------
(* The signal processor, the reconciler, and the world around them.        *)

\* Mutant: the gate does not read the flag.
GateIgnoresFlag(k, d) == localQty[k] = 0 \/ Sign(localQty[k]) # Sign(d)

\* kill_switch_gate, and the duplicate_position check on the local table
GateOpen(k, d) ==
    /\ ~Active
    /\ localQty[k] = 0 \/ Sign(localQty[k]) # Sign(d)

\* A signal is approved; one the gate rejects changes nothing here. Signals are
\* processed one at a time.
ApproveSignal(k, d) ==
    /\ approved = None
    /\ orders < MaxOrders
    /\ GateOpen(k, d)
    /\ approved' = <<k, d>>
    /\ UNCHANGED <<dbVars, venueVars, evalVars, fetched, countVars>>

\* The flag is not read again before the order goes out. The venue takes the
\* post-only order into its book, or refuses it because it would trade at once.
SubmitApproved ==
    /\ approved # None
    /\ approved' = None
    /\ orders' = orders + 1
    /\ late' = late + (IF Active THEN 1 ELSE 0)
    /\ \/ resting' = [resting EXCEPT ![<<approved[1], Sign(approved[2])>>] =
                          @ + Abs(approved[2])]
       \/ UNCHANGED resting
    /\ UNCHANGED <<dbVars, venQty, unreal, balance, feed, evalVars, fetched,
                   slack, missed, resolves, failures>>

\* One contract of a resting entry is executed. The panic-closes that have
\* listed their positions do not know of it.
EntryFills(k, s) ==
    /\ resting[<<k, s>>] > 0
    /\ resting' = [resting EXCEPT ![<<k, s>>] = @ - 1]
    /\ Execute(k, s, TRUE)
    /\ slack' = [e \in Evaluators |->
                    IF epc[e] = "close" THEN [slack[e] EXCEPT ![k] = @ + 1]
                                        ELSE slack[e]]
    /\ UNCHANGED <<dbVars, evalVars, fetched, approved, missed, orders, late,
                   resolves, failures>>

\* The operator or the venue cancels what rests. The daemon never does.
EntryCancelled(k, s) ==
    /\ resting[<<k, s>>] > 0
    /\ resting' = [resting EXCEPT ![<<k, s>>] = 0]
    /\ UNCHANGED <<dbVars, venQty, unreal, balance, feed, evalVars, fetched,
                   approved, countVars>>

\* A fill of an order of the daemon changes the position and starts an
\* evaluation, after which the next fill is taken; an unknown one is skipped.
ApplyFill ==
    /\ epc["reconciler"] = "idle"
    /\ feed # <<>>
    /\ feed' = Tail(feed)
    /\ LET f == Head(feed) IN
       IF f.known
       THEN /\ localQty' = [localQty EXCEPT ![f.instrument] = @ + f.delta]
            /\ realized' = realized + f.pnl
            /\ epc' = [epc EXCEPT !["reconciler"] = "load"]
       ELSE UNCHANGED <<localQty, realized, epc>>
    /\ UNCHANGED <<soft, hard, snap, venQty, resting, unreal, balance, view,
                   hardSeen, todo, fetched, approved, countVars>>

\* The price moves.
MarketMove(k) ==
    /\ venQty[k] # 0
    /\ \E l \in Levels \ {unreal[k]} : unreal' = [unreal EXCEPT ![k] = l]
    /\ UNCHANGED <<dbVars, venQty, resting, balance, feed, evalVars, fetched,
                   approved, countVars>>

\* The operator resolves the open events.
Resolve ==
    /\ Active
    /\ resolves < MaxResolves
    /\ resolves' = resolves + 1
    /\ soft' = FALSE
    /\ hard' = 0
    /\ late' = 0
    /\ UNCHANGED <<snap, localQty, realized, venueVars, evalVars, fetched,
                   approved, slack, missed, orders, failures>>

\* A database statement of an evaluation fails and ends it.
EvaluationFails(e) ==
    /\ epc[e] \in {"load", "active", "hard", "decide", "list"}
    /\ failures < MaxFailures
    /\ failures' = failures + 1
    /\ epc' = [epc EXCEPT ![e] = "idle"]
    /\ Forget(e)
    /\ UNCHANGED <<dbVars, venueVars, todo, fetched, approved, slack, missed,
                   orders, late, resolves>>

\* The daemon stops anywhere and starts again: the tasks lose what they hold.
Crash ==
    /\ failures < MaxFailures
    /\ failures' = failures + 1
    /\ epc' = [e \in Evaluators |-> "idle"]
    /\ view' = [e \in Evaluators |-> NoView]
    /\ hardSeen' = [e \in Evaluators |-> FALSE]
    /\ todo' = [e \in Evaluators |-> {}]
    /\ fetched' = None
    /\ approved' = None
    /\ slack' = [e \in Evaluators |-> NoSlack]
    /\ UNCHANGED <<dbVars, venueVars, missed, orders, late, resolves>>

-----------------------------------------------------------------------------
BootstrapSnapshot == [realized |-> 0, unrealized |-> 0, drawdown |-> 0]

Init ==
    /\ soft = FALSE
    /\ hard = 0
    /\ snap = BootstrapSnapshot
    /\ localQty = [k \in Instruments |-> 0]
    /\ realized = 0
    /\ venQty = [k \in Instruments |-> 0]
    /\ resting = [r \in Instruments \X Sides |-> 0]
    /\ unreal = [k \in Instruments |-> 0]
    /\ balance = Capital
    /\ feed = <<>>
    /\ epc = [e \in Evaluators |-> "idle"]
    /\ view = [e \in Evaluators |-> NoView]
    /\ hardSeen = [e \in Evaluators |-> FALSE]
    /\ todo = [e \in Evaluators |-> {}]
    /\ fetched = None
    /\ approved = None
    /\ slack = [e \in Evaluators |-> NoSlack]
    /\ missed = [e \in Evaluators |-> {}]
    /\ orders = 0
    /\ late = 0
    /\ resolves = 0
    /\ failures = 0

\* The steps of an evaluation and of the panic-close it starts.
EvaluatorStep(e) ==
    \/ LoadPortfolioState(e)
    \/ HasActiveHardTrigger(e)
    \/ NoChange(e)
    \/ RecordDisable(e)
    \/ RecordPanic(e)
    \/ ListOpenPositions(e)
    \/ \E p \in todo[e] : SubmitClose(e, p) \/ CloseRefused(e, p)
    \/ PanicDone(e)

Fault ==
    \/ \E e \in Evaluators :
          EvaluationFails(e) \/ \E p \in todo[e] : CloseFails(e, p)
    \/ Crash

Next ==
    \/ Tick
    \/ \E e \in Evaluators : EvaluatorStep(e)
    \/ GetAccounts
    \/ WriteSnapshot
    \/ \E k \in Instruments, d \in Deltas : ApproveSignal(k, d)
    \/ SubmitApproved
    \/ \E k \in Instruments, s \in Sides :
          EntryFills(k, s) \/ EntryCancelled(k, s)
    \/ ApplyFill
    \/ \E k \in Instruments : MarketMove(k)
    \/ Resolve
    \/ Fault

Spec == Init /\ [][Next]_vars

\* Each task of the daemon is a loop that the runtime keeps scheduling, and the
\* tickers of the supervisor and of the writer keep firing. Nothing is assumed
\* of the market, the venue, the operator and the faults.
FairSpec ==
    /\ Spec
    /\ WF_vars(Tick)
    /\ \A e \in Evaluators : WF_vars(EvaluatorStep(e))
    /\ WF_vars(GetAccounts)
    /\ WF_vars(WriteSnapshot)
    /\ WF_vars(SubmitApproved)
    /\ WF_vars(ApplyFill)

-----------------------------------------------------------------------------
(* Properties.                                                             *)

Snapshots == [realized : Int, unrealized : Int, drawdown : {0}]

DbOK ==
    /\ soft \in BOOLEAN
    /\ hard \in Nat
    /\ snap \in Snapshots
    /\ localQty \in [Instruments -> Int]
    /\ realized \in Int

VenueOK ==
    /\ venQty \in [Instruments -> Int]
    /\ resting \in [Instruments \X Sides -> Nat]
    /\ unreal \in [Instruments -> Levels]
    /\ balance \in Int
    /\ feed \in Seq([instrument : Instruments, delta : Int \ {0}, pnl : Int,
                      known : BOOLEAN])

EvaluationOK ==
    /\ epc \in [Evaluators -> EvaluatorPc]
    /\ view \in [Evaluators -> [realized : Int, unrealized : Int,
                                 drawdown : {0}, active : BOOLEAN]]
    /\ hardSeen \in [Evaluators -> BOOLEAN]
    /\ todo \in [Evaluators -> SUBSET (Instruments \X (Int \ {0}))]
    /\ \A e \in Evaluators : todo[e] # {} => epc[e] = "close"

TaskOK ==
    /\ fetched \in {None} \cup [equity : Int, unrealized : Int]
    /\ approved \in {None} \cup (Instruments \X Deltas)

CountOK ==
    /\ slack \in [Evaluators -> [Instruments -> Nat]]
    /\ missed \in [Evaluators -> SUBSET Instruments]
    /\ orders \in 0..MaxOrders
    /\ late \in 0..MaxOrders
    /\ resolves \in 0..MaxResolves
    /\ failures \in 0..MaxFailures

\* Every variable keeps its type: positions, P&L and the views of the two
\* evaluators are whole numbers, the tasks' locals are what their next
\* statement expects.
TypeOK == DbOK /\ VenueOK /\ EvaluationOK /\ TaskOK /\ CountOK

\* A panic-close that got all its orders through leaves at the venue, on either
\* side, no more contracts than it could not know of: those by which the
\* positions table was off when it was read, and those that resting entries
\* executed since. This holds although the other evaluator may close the same
\* positions at the same time and a fill may change them between the listing
\* and the order (panic_close_leverage_positions, side, size and reduce_only).
PanicResidual ==
    \A e \in Evaluators, k \in Instruments :
        epc[e] = "close" /\ todo[e] = {} /\ k \notin missed[e] =>
            Abs(venQty[k]) <= slack[e][k]

\* A venue position q is no further than n from the way from 0 to the listed l
Near(q, l, n) ==
    IF l > 0 THEN -n <= q /\ q <= l + n ELSE l - n <= q /\ q <= n

\* Until its order is sent, a listed position lies between its listed quantity
\* and zero up to the slack; any other position is within the slack.
ResidualOf(e) ==
    /\ \A p1, p2 \in todo[e] : p1[1] = p2[1] => p1 = p2
    /\ epc[e] = "close" =>
          \A k \in Instruments \ missed[e] :
             /\ \A p \in todo[e] :
                   p[1] = k => Near(venQty[k], p[2], slack[e][k])
             /\ (\A p \in todo[e] : p[1] # k) =>
                   Abs(venQty[k]) <= slack[e][k]

\* PanicResidual with what it rests on.
ResidualInv == \A e \in Evaluators : ResidualOf(e)

\* Once an event is unresolved at most the one order that the signal processor
\* had already approved still goes out, across resets by the operator
\* (PreTradeChecklist::evaluate, SignalProcessor::poll_once).
OneLateOrder == late <= 1

\* The approved order is the only one that can still become late, and while no
\* event is unresolved none has: OneLateOrder with what it rests on.
LateInv ==
    /\ approved # None => orders < MaxOrders
    /\ late <= orders
    /\ ~Active => late = 0
    /\ late + (IF approved = None THEN 0 ELSE 1) <= 1

\* The check for an unresolved hard event and its recording are two statements,
\* run by two tasks: between two resolutions each of them records at most one
\* hard event, so at most two panic-closes run (evaluate_kill_switch_once).
OnePanicPerEvaluator == hard <= Cardinality(Evaluators)

\* 1 for an evaluator that has seen no hard event and may record one
MayRecord(e) == IF epc[e] = "decide" /\ ~hardSeen[e] THEN 1 ELSE 0

\* Recorded and still recordable hard events together: a recorded one stops the
\* evaluators that look later, and it uses up its recorder's chance.
PanicInv == hard + MayRecord("supervisor") + MayRecord("reconciler") <= 2

\* A loss at the venue beyond the hard threshold
Breach == venQty[Perp] # 0 /\ AccountUnrealized <= -HardThreshold

\* An open loss beyond the hard threshold does not last without a hard event:
\* the writer records it, the supervisor sees it, also when the sleeve is
\* soft-disabled already (KillSwitchEvaluator::evaluate, write_one_snapshot).
Escalates == Breach ~> (hard > 0 \/ ~Breach)

\* No entry of instrument k rests at the venue.
NothingRests(k) == \A s \in Sides : resting[<<k, s>>] = 0

\* The panic order of instrument k was refused or failed.
CloseMissed(k) == \E e \in Evaluators : k \in missed[e]

\* Once a panic-close is about to list a table that agrees with the venue, with
\* no entry in the book, every position gets closed, whatever the other
\* evaluator and the market do meanwhile. Only an order that is refused or fails,
\* a crash or a reset by the operator stands in its way: nothing repeats the
\* close then (panic_close_leverage_positions, "No retry loop here"). What an
\* entry that does rest can leave open is the matter of PanicResidual.
PanicCloses ==
    \A k \in Instruments, n \in 0..MaxFailures, m \in 0..MaxResolves :
        (/\ \E e \in Evaluators : epc[e] = "list"
         /\ localQty = venQty /\ feed = <<>> /\ approved = None
         /\ NothingRests(k)
         /\ hard > 0 /\ ~CloseMissed(k) /\ failures = n /\ resolves = m)
            ~> (venQty[k] = 0 \/ failures > n \/ resolves > m \/ CloseMissed(k))

\* A realised loss beyond the lifetime budget disables the sleeve
\* (KillSwitchEvaluator::evaluate, guard 1).
BudgetEnforced == [](realized <= -Budget => <>Active)
=============================================================================
