# razortrade: a TLA+ verification project

razortrade turns Donchian signals into leveraged orders at Kraken Futures and
keeps the resulting orders, fills, positions and risk state in one SQLite
database. This directory holds TLA+ models of the parts of `rt-daemon` and its
crates where several tasks, the venue and failures meet, TLC configurations
that check them on small instances, and proofs checked by TLAPS.

## 1. Inventory

| Part | State | Operations | Module |
| --- | --- | --- | --- |
| signal processor (`rt-daemon/src/signal_processor.rs`) | `signals`, `orders`, `checklist_evaluations`, `dry_run_orders` rows; the signal under way | poll, parse, check, reject, record an intent (dry run), build an order | `SignalDecision` |
| the same, order path | | reconcile an uncertain order, insert, submit, record the outcome | `OrderLifecycle` |
| fill reconciler (`rt-daemon/src/fill_reconciler.rs`) | `applied_fills`, watermark in memory | take, deduplicate, apply to order and position, adopt orphans, record | `OrderLifecycle`, `FillFeed` |
| position book (`rt-persistence/src/repo.rs`) | `positions` rows | open, add, reduce, close, flip | `Position` |
| private feed (`rt-kraken-futures/src/ws.rs`, `private_state.rs`) | connection, `FillsRing` | connect, challenge, subscribe, snapshot, append, invalidate | `FillFeed` |
| book feed (`ws.rs`, `orderbook.rs`) | `LocalOrderBook` | snapshot, delta, gap, invalidate | `OrderBook` |
| kill-switch (`rt-daemon/src/main.rs`, `rt-risk/src/kill_switch.rs`) | `kill_switch_events` | evaluate, disable, panic-close, reset | `KillSwitch` |
| equity writer (`rt-daemon/src/equity_writer.rs`) | `equity_snapshots` | fetch accounts, write a snapshot | `KillSwitch` |
| pre-trade checklist (`rt-risk/src/checklist.rs`, `checks/`) | none | approve or reject | `PreTradeChecks`; among interleaved jobs in `SignalFlow`; gate and duplicate check in `KillSwitch`; any rejection in `OrderLifecycle` |
| market data service (`rt-daemon/src/market_data.rs`) | none | build a snapshot for a signal | `SignalDecision`, `SignalFlow` |
| portfolio loader (`rt-daemon/src/portfolio_loader.rs`, `rt-core/src/portfolio.rs`) | first `equity_snapshots` row | load, bootstrap | `SignalDecision`, `PreTradeChecks` |
| periodic reconciler (`rt-daemon/src/periodic_reconciler.rs`) | none but its log | list both sides, report drift | `DriftMonitor` |
| signal generators (`tools/donchian_signal.py`, `tools/donchian_exit.py`) | locals of a run | check positions and orders, write a `signals` row | `SignalFlow` |
| position sizing, dashboard, domain types, packaging | see `PROJECT.json` | | not modelled (section 7) |

How they interact. All tasks are tokio tasks of one process and share the
database; nothing locks across statements, so every `await` is a point where
another task may run. The signal processor talks to the venue over REST; the
venue talks back over the WebSocket, whose task fills the books and the fills
ring; the fill reconciler polls the ring once a second, and after each fill of
the leverage sleeve runs the same kill-switch evaluation that the supervisor
runs every 60 s. The evaluation reads only the database: the snapshots the
equity writer leaves there, and the events. Panic orders go to the venue
directly and leave no `orders` row. The gate in the checklist reads the events
table when a signal is checked. The signal generators are processes of their own,
started by systemd timers every four hours and every five minutes; they share
nothing with the daemon but the tables, which they read and then write in
separate transactions.

What is hard. A REST response may be lost, late, or overtaken by the fill it
announces. Three transactions apply one fill. Messages of the feed may be lost
in parsing, replayed after a reconnect, or pushed out of the ring. Two tasks
take the same check-then-act decision in the kill-switch. Entries rest at the
venue and fill whenever it likes, during a panic-close too. Local state lags
behind the venue whenever a decision is taken on it. The list of hazards, each
with its line and the properties that cover it, is in `PROJECT.json`.

What makes each part correct:

* order path: one verdict per signal, at most one order at the venue, no
  verdict "processed" without that order, no signal stuck for ever;
* fills: every fill reaches its order and its position, and again only when its
  three transactions were interrupted;
* positions: one open row per instrument, quantity equal to the fills, P&L
  equal to the value of what was closed;
* feed: in order, complete, bounded;
* book: readable only when equal to a state of the venue's book, and
  readable again after a failure;
* signals to exposure: no direction is entered twice, an exit closes and never
  opens, a due exit happens;
* decision: an approved order fits the budget, the two sides are treated alike, the other sleeves do not depend on the leverage
  sleeve, and every verdict leaves its record;
* drift between rows and venue orders that lasts is reported;
* kill-switch: fires when it must, fires once, stops new orders, and its
  panic-close leaves nothing open that it could have known of.

## 2. Modules

**`OrderLifecycle`** is the core. Its variables are the columns of the three
tables (`sigStatus`, `cooling` for `retry_after_at`, `expired`; `ordStatus`,
`ordBid`, `ordFilled`; `applied`), the program counter and locals of the two
tasks (`pc`, `cur`, `reuse`, `answer`, `gotBid`; `rpc`, `mark`), the venue
(`venSig`, `venOpen`, `venFilled`, `feed`) and the requests under way (`net`).
Each database statement and each REST call is an action: `InsertPendingOrder`,
`MarkOrderSubmitted`, `MarkOrderUncertain`, `Backfill` and so on keep the WHERE
clause of their SQL. `cli_ord_id` is derived from the signal id and unique per
broker, so a row is named by its signal. A contract is the unit of execution.
What the venue does with a repeated `cli_ord_id` is not in this repository; it
is the constant `DedupScope`: no check, a check against open orders, or against
all orders. `NoExpiry` are the signals whose `expires_at` is NULL. Crashes and
failed statements are actions bounded by `MaxFaults` and selected by
`FaultKinds`. The ghosts `ordN` and `posN` count how often a fill was added to
its order and its position, `torn` how often the reconciler was interrupted
after the first of these transactions and before the record.

**`DriftMonitor`** extends `OrderLifecycle` with the periodic reconciler:
`OpenOrders` asks the venue, `ReportDrift` reads the live rows and compares,
each an action, since orders are placed, filled and cancelled between the two.
`missing` and `unknown` are the two classes of drift the last tick logged. The
order path goes on as `OrderPathStep`.

**`SignalContract`** is the abstract promise: a signal is settled once, at most
one venue order exists for it, it is processed only if that order exists.
`OrderLifecycle` implements it under the mapping `outcome <- sigStatus`,
`orders <- OrdersOf`.

**`Position`** is `apply_fill_to_position` with its transitions `Opened`,
`Added`, `Reduced`, `Closed`, `Flipped`. Rows keep what the columns hold; P&L
is an exact fraction, as the code's decimals are for these purposes; ghost
variables keep the fills and the contract-by-contract value.

**`FillFeed`** is the path of a fill from the venue into `applied_fills`:
`Connect`, `SubscribePrivate` (with the challenge), `ApplySnapshot`,
`ApplyFills`, `InvalidateAll`, the reconciler's `TakeBatch` (the copy under the
lock), the statements for each fill (`HasFillBeenApplied`, `ApplyFillToOrder`,
`ApplyFillToPosition`, `RecordFillApplied`, with `torn` as in `OrderLifecycle`),
and the faults. `ChallengeFails` is a challenge that is answered by an error or
not at all: the connection stays up with the public feeds only. `Foreign` are
the fills of orders without a row. The ghost `lost` collects the fills the
daemon had no chance to take: in a message that did not parse, before the reach
of the snapshot, or pushed out of the full ring. The ghost `deaf` says that the
present connection has no private subscription or that its snapshot was dropped.

**`OrderBook`** is `LocalOrderBook` and the book feed. A side is the set of
prices with a quantity. `hist` keeps the venue's book by sequence number, to
say what "consistent" means.

**`KillSwitch`** has two evaluators that run `evaluate_kill_switch_once`
statement by statement (`LoadPortfolioState` in two reads,
`HasActiveHardTrigger`, then `NoChange`, `RecordDisable` or `RecordPanic`, then
`ListOpenPositions`, `SubmitClose` per position, or `CloseRefused` and
`CloseFails`), the equity writer
(`GetAccounts`, `WriteSnapshot`), the signal processor reduced to its gate and
submission, the reconciler reduced to `ApplyFill`, and the venue. An entry is
post-only: `SubmitApproved` puts it into the book (`resting`) or the venue
refuses it, `EntryFills` executes it contract by contract at any time, and
`EntryCancelled` is the operator's or the venue's doing, never the daemon's. A
panic order (`PanicOrder`) is a reduce-only market order against a listed row;
the venue executes what there is to reduce (`MarketDelta`) or refuses it
(`CloseRefused`, as `main.rs` expects). The ghost `slack` counts, for a running
panic-close, the contracts by which the table was off when it was listed and
those filled since; `missed` the instruments whose panic order did not get
through. Money is in whole units; a contract's unrealised P&L moves between the
values of `Levels`.

**`SignalFlow`** goes from signal to exposure for one instrument: the entry job
(`CheckPositions`, `CheckOrders`, `WriteSignal`), the exit job
(`ListOpenPositions`, `HasPendingExitSignal`, then `WriteExitSignal` or `Hold`),
the daemon (`RejectExpired`, `BeginSignal`, `ApproveSignal` or `RejectSignal`
with every check of the checklist and the order builders, `SubmitEntry`,
`SubmitExit`, `SubmitRefused`), the two transactions of the reconciler, and the
venue. Money is in whole CHF and contracts, so sizing, notional cap, budget and
worst case are computed; a market is described by which limits it respects. The
snapshot and the kill-switch flag the daemon loads are inputs. The candles are
reduced to where the close stands: inside both channels, outside the exit
channel, or outside both. Failures of a submission are in `OrderLifecycle` and
panic-closes in `KillSwitch`, so they are not repeated here.

**`PreTradeChecks`** is the checklist and the two order builders as operators on
a signal, a market snapshot and a portfolio, with the arithmetic of the code:
decimals are integers in fixed units and divisions are multiplied out. The
checks are in the order of `PreTradeChecklist::standard`, behind the gate; all
run, whatever the gate says.

**`SignalDecision`** runs `process_signal` statement by statement on one row:
`BeginSignal` (parse, expiry), `ReadMarket`, `LoadPortfolio` (with the bootstrap
snapshot of a cold database) or `LoadPortfolioFails`, `RecordEvaluation` (the
checklist and its audit row), then `MarkRejected`, or `RecordIntent` and
`MarkProcessed` (dry run), or `Route` (paper and live, up to the built order).
`Abandon` is an error of a statement, or the daemon stopping: the row is pending
and the next poll begins again on another market and portfolio. What follows
once the order is built is `OrderLifecycle`. `SignalFlow` repeats the checks of
the leverage sleeve in small numbers, because there the question is what
several jobs and signals do together.

`MCOrderLifecycle`, `MCDriftMonitor`, `MCSignalDecision`, `MCPosition`,
`MCFillFeed`, `MCOrderBook`, `MCKillSwitch` and `MCSignalFlow` are the instances
TLC runs. `OrderLifecycleProofs`, `PositionProofs`, `FillFeedProofs`,
`OrderBookProofs`, `KillSwitchProofs`, `SignalDecisionProofs` and
`SignalFlowProofs` hold the proofs (section 5); the inductive invariants they
use stand, as a rule, at the end of the module they are about. Operators
commented "Mutant" are deliberately wrong variants of the definition that
follows them, used to see that a property can fail.

## 3. Runs that pass

| Run | Checks | Bounds |
| --- | --- | --- |
| `OrderContract` | `TypeOK`, `ProcessedIsPlaced`, `OrderHasRow`, `NoFillSwallowed`, `FillAppliedOnce`, `ImplementsContract` | 2 signals, 2 order ids, 1 contract, 1 fault (crash, processor, reconciler); venue refuses every known id |
| `OrderNoDedup` | `NeverTwoOpenOrders` | 1 signal, 3 ids, 2 contracts, 1 external fill, 1 failed statement of the orphan-catcher; venue checks nothing |
| `OrderDrift` | `EverySignalSettles`, `EveryFillRecorded`, `DriftReported` | order path and monitor; 1 signal, 1 id, 1 contract, 1 fault of any kind, failed reads of the monitor included |
| `PositionBook` | `TypeOK`, `OneOpenRow`, `BookMatchesFills`, `RealisedBias` | 2 instruments, 4 fills of 1 to 3 contracts at 2 prices |
| `FeedFaults` | `TypeOK`, `RingInOrder`, `AppliedAtMostOnce`, `NoFillSkipped`, `EveryFillApplied` | 4 fills, one of them foreign, ring of 2, snapshot of 3, 3 faults of any kind |
| `BookFeed` | `TypeOK`, `SyncedIsExact`, `Resynchronises` | 3 prices, 4 changes, 3 faults: lost deltas, disconnects, a crossed venue book |
| `KillSafety` | `TypeOK`, `OneLateOrder`, `OnePanicPerEvaluator`, `PanicResidual` | 1 instrument, budget 0 (the first evaluation records a soft event), 2 orders of 1 contract, 1 reset, 1 failure |
| `KillEscalation` | `Escalates`, `PanicCloses` | budget 0 (disabled from the first evaluation), 1 short order of 2 contracts |
| `SignalFlow` | `TypeOK`, `ExposureBounded`, `ExitOnlyReduces` | 2 pending signals, 2 unapplied executions, notionals below the minimum, at the cap and above it, 3 markets, 3 portfolios |
| `Decision` | `TypeOK`, `OrderWithinBudget`, `VerdictMirrored`, `SpotUnaffected`, `AuditTrail`, `DryRunRecorded`, `SignalSettles` | 22 rows (leverage 0 and negative notional among them), 17 market situations (a crossed book among them), 9 portfolios, the limits of `RiskConfig::default`, dry run and live, cold and warm database, 1 failed statement or crash |

Why the bounds are enough. The order path processes one signal at a time and
signals share nothing but the venue's ids, so two signals show every
interference and one is enough where only rows and fills matter; three ids let
a signal be submitted three times; two contracts tell a partial from a complete
fill. One fault puts a crash or an error between any two steps. A fill sequence
of length four reaches every transition of the position book after every other.
In `OrderContract` the fault can fall between any two of the transactions of a
fill, or after its record, and both ways the feed is walked again. In
`KillSafety` two orders are what an open position and a late order need; both
can rest, so one of them is listed and the other fills between listing, close
and the close of the second evaluator. The daemon trades one instrument
(`PI_XBTUSD`). In `KillEscalation` the order of two contracts is open in part or
in whole. With a positive budget `RecordDisable` cannot happen
at all (run `KillBudget`), which is why `KillSafety` and `KillEscalation` set it
to zero. The soft event that follows from the first evaluation may come after
any number of orders, so open positions, late orders and both kinds of event
are reached. In `SignalFlow` two executions on their way are what the daemon and
a job can both overlook; a third order needs the in-flight check or the
duplicate check to fail as well, and the mutants show that it then happens
within the bounds.

In `Decision` signals share no state (`poll_once` handles one after the other and
each reads its own market and portfolio), so one row is enough; the inputs stand
on both sides of each limit, at the limit where the code's comparison is exact,
and one at a time around a calm market and a flat portfolio. In `OrderDrift` one
order is enough for a row without its order and an order without its row; a
second id would let the same signal have a filled and a live order, which
`OrderContract` and `OrderNoDedup` have. Its signal has an expiry (`NoExpiry` is
empty in every run): one without could only stay pending. With a ring of two and a snapshot of
three, four fills overflow the ring, fall out of the snapshot, and the last ones
must still arrive.

Deadlock is not checked where the bounds end the behaviour (orders, fills and
changes run out); `KillSafety` and `KillEscalation` check it.

Fairness. `OrderLifecycle!Fairness`: both tasks are loops over tokio intervals,
so their steps are weakly fair; every REST call has a 10 s timeout, so a
request is delivered or lost; `poll_once` walks the whole list of selectable
signals each tick, which is strong fairness for a signal that stays selectable
between other signals' turns; clocks advance, which expires the signals that
have an `expires_at` and no others. The venue is not assumed to execute
anything. `FillFeed` and `OrderBook`: the WebSocket task reconnects for
ever with a capped backoff and handles what arrives. `KillSwitch`: supervisor,
reconciler, writer and signal processor take their next step; nothing is
assumed of market, operator or faults. `SignalFlow` (run `ExitsIgnored`): daemon,
reconciler and both timers keep going; nothing is assumed of market and venue.
`DriftMonitor`: its loop over a timer goes on, and of its requests one is
answered in the end (a failed one is logged and has no effect). `SignalDecision`:
the poll loop takes its next step; which market and portfolio it meets, and
whether the signal expires, is open.

## 4. Where code and comments disagree

Two runs state what the repository says and find a behaviour of the code that
does otherwise; `PROJECT.json` quotes the lines.

| Run | Property | What happens |
| --- | --- | --- |
| `ExitsIgnored` | `ExitsHonoured` | exit signals carry no ATR and no FX rate, `snapshot_for_signal` requires both: every exit is rejected and the position stays open. With the metadata in place the same instance satisfies the property |
| `KillBudget` | `BudgetEnforced` | the writer sums the sleeve `CryptoLeverage`, rows say `crypto_leverage`: the budget never disables the sleeve |

The models have more behaviours that a comment rules out. They limit what the
passing runs can claim, and are listed here with the statement that fails:

* `FillAppliedOnce`, "applied_fills dedup (Drop 6c) prevents the same fill being
  applied twice in practice" (`repo.rs:1888`): order update, position update and
  `record_fill_applied` are three transactions (`fill_reconciler.rs:155`). After
  a crash or a failed statement between them the fill is added again, to the
  order and, if the position update was through, to the position; after a failed
  statement within the same daemon run, in which "the same fill is never
  submitted to the database twice" (`fill_reconciler.rs:17-19`). What the code
  does keep is the bound of `FillAppliedOnce` (and of `AppliedAtMostOnce` in
  `FillFeed`): once, and once more for each such interruption of that fill; no
  snapshot, duplicate, reconnect, retry or restart adds it for another reason.
* `signal.rs:66`, "None means no expiry": nothing else settles a signal that gets
  stuck. A `pending_submission` row left by a crash is skipped on every tick
  (`signal_processor.rs:563`), a filled or failed row runs into the UNIQUE index
  on every tick (`repo.rs:523`), and lookups may go on failing. Without an
  expiry (as `tools/inject_test_signal.py` writes them) such a signal is pending
  for ever; `EverySignalSettles` is about the others.
* "Signal-Rejection `NoBook` -> retry bis expiry" (`docs/OPERATIONS.md:300-302`):
  missing market data is recorded as a rejection, and a rejected signal is never
  selected again (`signal_processor.rs:199-210`; `ReadMarket` in
  `SignalDecision`).
* "reject all further leveraged entries" (`hard_limit.rs:10`): the checklist does
  not tell entries from exits, so an exhausted budget, an active kill-switch or
  high volatility also reject exits that do have their metadata.
* "the path to an unintended doubled position was real" and closed
  (`duplicate_position.rs:11`): one window is left. While a fill has reached its
  order row and not the position row, generator and daemon see neither;
  `ExposureBounded` says that doubling is all that can happen.
* `OneOrderPerSignal`, "venue-side uniqueness of cli_ord_id prevents a genuine
  double-submit" (`rt-execution/src/lib.rs:90`): the lookup lists open orders
  only (`rest.rs:420`). With `DedupScope = "open"` an order that was filled
  while its response was lost is submitted again. `ImplementsContract` is
  checked with `"all"`; what remains for any venue is `NeverTwoOpenOrders`.
* "Monotonic: once 'filled', stays 'filled'" (`repo.rs:692`):
  `mark_order_submitted` (`repo.rs:400`) overwrites the status that the
  reconciler set from a fill that overtook the response.
* "keep the signal in `pending` status" while its order is uncertain
  (`signal_processor.rs:623`): expiry, market data and checklist run before the
  lookup (`signal_processor.rs:165`) and may reject it while the order is live.
* "stop at the first error so we can retry next tick without skipping a fill"
  (`fill_reconciler.rs:126`): an error inside the orphan-catcher
  (`fill_reconciler.rs:276`) falls through to `record_fill_applied`.
  `NoFillSwallowed` is checked without that fault.
* "pnl_btc = closed_contracts * (1/entry_price - 1/exit_price)"
  (`repo.rs:754`): with the arithmetic mean as entry (`repo.rs:849`) the P&L of
  a row is not that of its fills; `RealisedBias` says which way it errs.
* "covers it by calling the REST fills endpoint" (`private_state.rs:151`): no
  code calls it. A fill in a dropped message, or pushed out of the ring before
  the reconciler saw it, is never applied; `NoFillSkipped` counts these as lost
  and says that nothing else is passed over, and `EveryFillApplied` that
  everything else is applied unless the daemon ends up for ever on a connection
  without a private subscription or without its snapshot.
* Such a connection is possible: an error event in answer to the challenge, or a
  reply that does not parse, is an error of `handle_event` (`ws.rs:441`) that
  the reader only logs (`ws.rs:289`). The public feeds go on, so nothing
  reconnects, and no fill arrives until the connection breaks by itself.
* "We detect this in `sanity_check` and mark the book out-of-sync"
  (`orderbook.rs:26`): a crossed snapshot leaves the book Synced and readable
  (`orderbook.rs:134`), and after a crossing delta the book is out-of-sync and
  nothing resubscribes (`ws.rs:289`). `Resynchronises` is checked for gaps and
  disconnects.
* On a crossed snapshot the spread is negative, which the check "spread at most
  20 bps" passes (`spread_liquidity.rs:66`); the entry is then priced to trade at
  once, and the post-only order is refused by the venue. `Decision` includes such
  a market.
* "we do not re-fire panic-close if one is already unresolved" (`main.rs:488`):
  both evaluators can pass the check before either records. What remains is
  `OnePanicPerEvaluator`, and `PanicResidual`: with two closes at once, too, no
  more is left on either side than what neither could know of. The mutant
  without `reduce_only` shows that this rests on that flag.
* "for every open leverage position" (`kill_switch.rs:49`): a fill not applied
  yet is no position for the panic-close; and since panic orders have no
  `orders` row (`main.rs:655`), a panic-closed position stays open locally.
  `PanicCloses` therefore begins where the table agrees with the venue.
* The panic-close cancels nothing. An entry that rests (`signal_processor.rs:1109`,
  PostOnly, GTC) may fill after its position was listed, or after the close, and
  since the hard event stays unresolved nothing closes what it opens. A partial
  close by the other evaluator or by an exit in between can also make the venue
  refuse the panic order as too large (`CloseRefused`), with the same effect.
  `PanicResidual` bounds what is left by what filled late, and `PanicCloses` is
  about a panic-close that finds no entry in the book.
* "levels must contain at least 3x our order size" (`rt-risk/src/lib.rs:54`):
  the check divides the notional by the mid price and so compares an amount of
  the base currency with book quantities that are contracts of one dollar. For
  `PI_XBTUSD` the required depth is too small by the factor of the price.
* Drift class 3, `QuantityDrift` (`periodic_reconciler.rs:40`), is announced and
  not implemented; `DriftReported` is about classes 1 and 2.
* `signal.rs` documents a positive notional and a leverage of at least one;
  `row_to_signal` checks neither. `OrderWithinBudget` needs the leverage to be at
  least one, since the projection scales with it and the order does not.
* The liquidation check never applies: `portfolio_loader.rs:106` always leaves
  the liquidation price empty, as `liquidation_distance.rs:14` says.
* Reads and writes fail differently: an error in `load_portfolio_state` rejects
  the signal for good (`signal_processor.rs:216`), an error of any write leaves
  it pending for the next poll.
* A dry-run intent does not mean the signal was processed: after a failure
  between the two statements the next poll may reject the signal, or record a
  second intent. `DryRunRecorded` bounds both.
* "We submit all orders in parallel" (`main.rs:607`): the loop awaits one order
  after the other (`main.rs:632`), so a slow first order delays the rest.
* "Nonces must be strictly monotonic per API key" (`auth.rs:21`): they are when
  drawn, but the request is sent later (`rest.rs:73`) and tasks share the client,
  so two requests may arrive in the other order; an API error in answer counts
  as a rejection.

## 5. What is proved

Every safety invariant and every action property of the passing runs is also a
theorem, for all values of the constants that satisfy the named assumption of
its module: any set of signals, prices, quantities, rows, markets, any ring and
snapshot size, any number of faults. Where a theorem needs more than that, the
hypothesis is in its statement and is named below. TLC checked each inductive
invariant on the instance of the corresponding run before it was proved. Each
proof has one lemma or step per action.

**`OrderLifecycleProofs`**

* `TypeCorrect`: `Spec => []TypeOK`.
* `ProcessedIsPlacedTheorem`: `ProcessedIsPlaced` is not inductive. It needs to
  know where a broker order id in the processor's hands came from
  (`Attribution`: `gotBid` belongs to the current signal, and a request counted
  as current belongs to the one that waits) and that a signal about to be
  settled has its row ready (`Settlement`). Their conjunction `PlacedInv` with
  `TypeOK` is inductive (`PlacedInvariant`).
* `NeverTwoOpenOrdersTheorem`: without crashes and failed statements of the
  processor, and for every `DedupScope`. The argument is `SingleFlight`: a
  request on its way is the only chance of its signal to get a live order,
  because it is the one awaited or the cooldown holds the signal back, and the
  cooldown (90 s) outlasts the request (10 s). That time relation is the guard
  of `CooldownElapses` and is an assumption about the HTTP client and the
  network. With a crash the cooldown is not set, and the theorem's assumption
  is needed.
* `OrderHasRowTheorem`, with every fault: an order is sent only with its row in
  the table, whether the row is new or the lookup found it (`RowInv`: the stages
  `lookup` and `send`, and a rebuilt order, have a row).
* `FillAppliedOnceTheorem`, with every fault. `OnceInv` says that the fill in the
  reconciler's hands is not a recorded one, and that of the additions of a fill
  all but one were interrupted: that one is recorded, or under way. What keeps a
  recorded fill from being taken again after a restart is the lookup in
  `applied_fills`, not the watermark.
* `NoFillSwallowedTheorem`, at a venue with `DedupScope = "all"` and without a
  failed statement of the orphan-catcher, crashes and all other faults included.
  `SwallowInv` says that a signal has one venue order, that once the
  orphan-catcher is through the row names the order of the fill, and that what
  is about to be recorded has been applied to order and position.
* `ImplementsContractTheorem`: with `DedupScope = "all"` every step is a step
  of `SignalContract` or a stutter, from `PlacedInv`.

**`PositionProofs`**, for all instruments, quantities and prices

* `OneOpenRowTheorem` and `BookMatchesFillsTheorem`, from `BookInv`: the two
  properties and the types of the quantities are inductive together, one lemma
  per transition (`Opened`, `Added`, `Reduced`, `Closed`, `Flipped`).
* `PositionTypeCorrect` and `RealisedBiasTheorem`: every row keeps its side
  (`SideKept`), and for every row a bound ties its average entry price, its P&L
  and the contract-by-contract value of its fills (`TableOK`). The
  step that adds a fill is the inequality between the arithmetic and the
  harmonic mean (lemma `MeanArith`), which is why the bias has a direction.

**`FillFeedProofs`**: `FeedTypeCorrect`, `RingTheorem`, `AppliedOnceTheorem`,
`NoSkipTheorem`, the first two and the last from one invariant `FeedInv`. `NoFillSkipped` alone says nothing
of what is on its way. `WireInv` adds what the wire carries: a snapshot comes
first and only into an empty ring, and every fill older than one in a message is
known before it. `CoverInv` adds that whatever the ring misses is lost, and
whatever the batch cut from it misses is lost or applied. `AppliedOnceTheorem`
has an invariant of its own, `CountInv`: the fill between its check and its
record is not a recorded one, and all additions of a fill were interrupted but
the recorded one or the one in hand.

**`OrderBookProofs`**: `BookTypeCorrect` and `BookExact` (`SyncedIsExact`). The
invariant `ExactInv` adds that each message under way is `Truthful`: a snapshot
equals the venue's book at its number, a delta leads from the book before to the
book at its number.

**`KillSwitchProofs`**

* `KillTypeCorrect` and `LateTheorem` (`OneLateOrder`), from `LateInv`: the order
  approved before the event is the only one that can become late, and without
  an unresolved event there is none.
* `PanicTheorem` (`OnePanicPerEvaluator`), from `PanicInv`: the hard events
  recorded and those that an evaluator may still record are together at most
  two, since a recorded event stops whoever looks later.
* `PanicResidualTheorem` (`PanicResidual`), for any instruments and order sizes,
  with both evaluators, resting entries and all failures. The bound is about the
  end of a panic-close; `ResidualInv` says what holds on the way: until its
  order is sent, the venue position lies between the listed quantity and zero,
  up to the slack (`Near`), and afterwards within the slack. The other
  evaluator's reduce-only orders move a position towards zero and not past it; a
  fill moves position and slack together.

**`SignalDecisionProofs`**

* `DecisionInvariant` establishes `DecisionInv`: `TypeOK`; `StageInv`, what
  `process_signal` has in hand at each stage, an order standing on an approval;
  `RecordInv`, every attempt but the last has cost a fault and leaves one audit
  row and one intent at most. `DecisionTypeCorrect`, `AuditTheorem`
  (`AuditTrail`) and `DryRunTheorem` (`DryRunRecorded`) follow.
* `BudgetTheorem` (`OrderWithinBudget`): arithmetic from the projection of the
  hard-limit check to the contracts of the order, which rounds down, for signals
  with a leverage of at least one. Hypothesis:
  the three loss fractions of `RiskConfig` add up to no less than zero. The
  code does not validate them; with negative ones a larger notional would
  project a smaller loss.
* `MirrorTheorem` (`VerdictMirrored`): check by check, the verdict on a signal is
  that on its mirror image in the mirrored market and portfolio.
* `SpotUnaffectedTheorem`: the checks and the gate do not read the portfolio of
  the leverage sleeve for other sleeves.

**`SignalFlowProofs`**: `FlowInvariant`, from which `FlowTypeCorrect`,
`ExposureTheorem` (`ExposureBounded`) and `ExitTheorem` (`ExitOnlyReduces`).
`ExposureBounded` says that the exposure in one direction, with an order resting
in it, is at most twice the largest entry, and that two orders never rest in one
direction. The invariant `FlowInv` says that one entry is under way at a time
(`QueueInv`), that the order in hand and the resting orders leave room for their
size (`OrderInv`, `RestingInv`), and, in `PathInv`, what nobody in the daemon has
seen: between the local position and the venue's lies a path, one step per
execution in the feed, on which each step is an exit that stops at zero or an
entry within the cap; and while an entry is wanted in a direction there is none
in that direction on the path, except the execution whose order row is closed
and whose position row is not written yet. That exception is the window of
section 4 and the reason for the factor two. Lemma `RoomForOne` draws the bound
from the path.

## 6. What is only model-checked

The liveness properties: `EverySignalSettles`, `EveryFillRecorded`,
`DriftReported`, `EveryFillApplied`, `Resynchronises`, `Escalates`,
`PanicCloses` and `SignalSettles` (fairness and ENABLED are outside the prover);
and that `KillSafety` and `KillEscalation` have no deadlock. The violations of
section 4 are counterexamples of instances. `DriftMonitor` has no safety
property of its own: it reads and logs.

## 7. What is not modelled

* Precision of decimals; the estimated quantity of a dry-run intent, which is
  only logged.
* `OpenOrdersState`: nothing in the daemon reads it.
* Position sizing (`rt-risk/src/position_sizing.rs`): nothing calls it.
* The nonces of the REST client: what the venue accepts is not in this
  repository, and a refusal is the error answer of `OrderLifecycle`.
* The dashboard: queries and presentation, nothing reads it back.
* Signing, JSON, packaging, backups.
* The quantity and price of a row per attempt. The quantity of an entry follows
  from the signal alone and is the same at each attempt; the price, and the
  quantity of an exit, may differ from the row's.
* Two instruments in the panic-close, and the identity of its orders: the daemon
  trades one instrument.
* Candles and indicators; entries written by hand, which pass by the checks of
  the entry job.
* Liquidation by the venue, and its rules for `reduceOnly` beyond what the code
  expects: execution up to zero, or refusal of an order that is too large.
* `tools/reset-killswitch.sh`: the model's reset is the SQL of
  `docs/OPERATIONS.md`. The script sets a column `operator_note` that the
  schema of `kill_switch_events` does not have (it has `resolved_by` and
  `resolved_note`), so its UPDATE fails.

## 8. Plan

1. A composition of `FillFeed` with the reconciler of `OrderLifecycle`, and an
   abstract "every fill once" specification that both refine, with the
   refinement proved.
2. `SignalFlow` with panic-closes, whose positions stay open locally.
3. `DriftMonitor`: that a step of the monitor changes nothing of the order path
   but the count of faults, as a theorem, so that the theorems of section 5 hold
   with the monitor running.
