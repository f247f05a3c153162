---------------------------- MODULE OrderLifecycle ----------------------------
(***************************************************************************)
(* The core of the daemon: how an approved signal becomes an order at the  *)
(* venue, and how the venue's fills come back into the database.           *)
(*                                                                         *)
(* Two tasks of the daemon share the SQLite database:                      *)
(*  - the signal processor (rt-daemon/src/signal_processor.rs) polls the   *)
(*    pending signals, submits their orders and records the outcome;       *)
(*  - the fill reconciler (rt-daemon/src/fill_reconciler.rs) walks the     *)
(*    fill feed and applies each fill to the orders and positions tables.  *)
(* Every database statement (rt-persistence/src/repo.rs) and every REST    *)
(* call is an await point, so each is an action of its own: between two of *)
(* them the other task, the venue, the network or a crash may step.        *)
(*                                                                         *)
(* cli_ord_id is "rt-s<signal id>" and (broker, cli_ord_id) is UNIQUE, so  *)
(* a signal and its order row share one name here: row s is the row whose  *)
(* cli_ord_id belongs to signal s. The model covers the Paper and Live     *)
(* execution modes.                                                        *)
(***************************************************************************)
EXTENDS Integers, Sequences, FiniteSets

CONSTANTS
    Signals,      \* signal ids
    NoExpiry,     \* signals whose expires_at is NULL
    Bids,         \* broker order ids the venue can hand out
    None,         \* NULL
    Qty,          \* contracts per order; every fill is of one contract
    MaxExternal,  \* bound on fills of orders the daemon did not place
    MaxFaults,    \* bound on crashes and failed database statements
    FaultKinds,   \* which faults the instance explores
    AckStatus,    \* statuses a placement response may map to
    DedupScope    \* which earlier orders make the venue refuse a cli_ord_id

BrokerStatus == {"submitted", "acknowledged", "partially_filled", "filled",
                 "cancelled", "rejected"}

ASSUME ConstantsAssumption ==
    /\ None \notin Bids \cup Signals
    /\ NoExpiry \subseteq Signals
    /\ Qty \in Nat \ {0}
    /\ MaxExternal \in Nat
    /\ MaxFaults \in Nat
    /\ FaultKinds \subseteq {"crash", "processor", "reconciler", "orphan",
                        "monitor"}
    /\ AckStatus \subseteq BrokerStatus
    /\ DedupScope \in {"none", "open", "all"}

VARIABLES
    \* signals table
    sigStatus,    \* signals.status
    cooling,      \* signals.retry_after_at lies in the future
    expired,      \* signals.expires_at lies in the past
    \* orders table
    ordStatus,    \* orders.status, or "absent" when there is no row
    ordBid,       \* orders.broker_order_id
    ordFilled,    \* orders.filled_quantity
    \* applied_fills table: the recorded fills
    applied,
    \* signal processor
    pc,           \* where process_signal stands
    cur,          \* the signal it is processing
    reuse,        \* resubmit_into_order_id is Some
    answer,       \* what the venue replied to the submit under way
    gotBid,       \* the broker order id of that reply, or of a lookup
    \* fill reconciler
    rpc,          \* where reconcile_once stands with fill mark + 1
    mark,         \* last_applied_seq
    \* venue and network
    venSig,       \* cli_ord_id of a venue order, as the signal it names
    venOpen,      \* the order is in the venue's open-orders list
    venFilled,    \* contracts executed
    feed,         \* fills in sequence order: the venue order each belongs to
    net,          \* submit requests on their way to the venue
    \* bookkeeping of the model
    faults,       \* faults so far
    ordN,         \* how often a fill has been added to an order row
    posN,         \* how often a fill has been added to a position
    torn          \* how often it was interrupted after that, before its record

signalVars  == <<sigStatus, cooling, expired>>
orderVars   == <<ordStatus, ordBid, ordFilled>>
procVars    == <<pc, cur, reuse, answer, gotBid>>
recVars     == <<rpc, mark>>
venueVars   == <<venSig, venOpen, venFilled, feed>>
ghostVars   == <<ordN, posN, torn>>

vars == <<signalVars, orderVars, applied, procVars, recVars, venueVars, net,
          faults, ghostVars>>

\* What neither the processor's steps, the reconciler's nor the venue's touch.
outsideProcessor  == <<applied, recVars, venueVars, faults, ghostVars>>
outsideReconciler == <<signalVars, procVars, venueVars, net, faults>>
outsideVenue      == <<signalVars, orderVars, applied, recVars, faults,
                       ghostVars>>

-----------------------------------------------------------------------------

SignalStatus == {"pending", "processed", "rejected"}

OrderStatus ==
    BrokerStatus \cup {"absent", "pending_submission", "uncertain", "failed"}

\* The statuses pending_order_for_signal selects; "filled" is not among them.
PendingOrderStatus ==
    {"pending_submission", "uncertain", "acknowledged", "submitted",
     "partially_filled"}

ProcessorPc ==
    {"idle", "reconcile", "lookup", "adopt", "build", "insert", "send", "await",
     "submitted", "uncertain", "cooldown", "failed", "reject", "processed",
     "clear"}

ReconcilerPc == {"idle", "order", "orphan", "reapply", "position", "record"}

\* Sequence numbers of the fills an instance can see.
Fills == 1 .. (Cardinality(Bids) * Qty + MaxExternal)

\* The fill the reconciler is working on, and the venue order it executes.
Current == mark + 1

CurrentBid == feed[Current]

\* Venue orders placed for signal s.
OrdersOf(s) == {b \in Bids : venSig[b] = s}

OpenOrdersOf(s) == {b \in OrdersOf(s) : venOpen[b]}

-----------------------------------------------------------------------------
(* The signal processor.                                                   *)

\* Mutant: the status filter of pending_signals is missing.
SelectableAnyStatus(s) == pc = "idle" /\ ~cooling[s]

\* poll_once selects the pending signals whose cooldown has elapsed; the
\* expiry guard, an unusable row, a missing market or portfolio snapshot, a
\* failed pre-trade check or an unsupported sleeve rejects the signal before
\* its order row is looked at.
Selectable(s) == pc = "idle" /\ sigStatus[s] = "pending" /\ ~cooling[s]

RejectBeforeSubmit(s) ==
    /\ Selectable(s)
    /\ sigStatus' = [sigStatus EXCEPT ![s] = "rejected"]
    /\ UNCHANGED <<cooling, expired, orderVars, procVars, net,
                   outsideProcessor>>

\* Mutant: no expiry guard.
ApproveExpired(s) ==
    /\ Selectable(s)
    /\ pc' = "reconcile"
    /\ cur' = s
    /\ UNCHANGED <<signalVars, orderVars, reuse, answer, gotBid, net,
                   outsideProcessor>>

Approve(s) ==
    /\ Selectable(s)
    /\ ~expired[s]
    /\ pc' = "reconcile"
    /\ cur' = s
    /\ UNCHANGED <<reuse, answer, gotBid, venueVars, net, outsideVenue>>

\* process_signal moves on to l, or returns and its locals are gone.
Goto(l) == pc' = l /\ UNCHANGED <<cur, reuse, answer, gotBid>>

Return ==
    /\ pc' = "idle"
    /\ cur' = None
    /\ reuse' = FALSE
    /\ answer' = "none"
    /\ gotBid' = None

\* Mutant: an uncertain order is taken for one in flight.
ReconcileTrustsUncertain ==
    /\ pc = "reconcile"
    /\ CASE ordStatus[cur] \notin PendingOrderStatus -> Goto("build")
         [] ordStatus[cur] = "pending_submission" -> Return
         [] OTHER -> Goto("processed")
    /\ UNCHANGED <<signalVars, orderVars, net, outsideProcessor>>

\* try_reconcile_uncertain_order: what the signal's order row, if
\* pending_order_for_signal returns one, says about an earlier attempt.
ReconcileStep ==
    /\ pc = "reconcile"
    /\ CASE ordStatus[cur] \notin PendingOrderStatus -> Goto("build")
         [] ordStatus[cur] = "uncertain" -> Goto("lookup")
         [] ordStatus[cur] = "pending_submission" -> Return
         [] OTHER -> Goto("processed")
    /\ UNCHANGED <<venueVars, net, outsideVenue>>

\* get_order_by_cli_ord_id lists the venue's OPEN orders only.
LookupFound ==
    /\ pc = "lookup"
    /\ \E b \in OpenOrdersOf(cur) : gotBid' = b
    /\ pc' = "adopt"
    /\ UNCHANGED <<cur, reuse, answer, venueVars, net, outsideVenue>>

LookupAbsent ==
    /\ pc = "lookup"
    /\ OpenOrdersOf(cur) = {}
    /\ pc' = "build"
    /\ reuse' = TRUE
    /\ UNCHANGED <<cur, answer, gotBid, venueVars, net, outsideVenue>>

LookupFails ==
    /\ pc = "lookup"
    /\ Goto("cooldown")
    /\ UNCHANGED <<venueVars, net, outsideVenue>>

\* backfill_broker_order_id: only a NULL broker_order_id is set, and only
\* then does a pending_submission or uncertain row become acknowledged.
Backfill(s, b) ==
    IF ordBid[s] = None
    THEN /\ ordBid' = [ordBid EXCEPT ![s] = b]
         /\ ordStatus' =
                [ordStatus EXCEPT ![s] =
                    IF @ \in {"pending_submission", "uncertain"}
                    THEN "acknowledged" ELSE @]
    ELSE UNCHANGED <<ordBid, ordStatus>>

AdoptFound ==
    /\ pc = "adopt"
    /\ Backfill(cur, gotBid)
    /\ Goto("processed")
    /\ UNCHANGED <<signalVars, ordFilled, net, outsideProcessor>>

\* Mutant: the order goes out before its row is written.
BuildAndSend ==
    /\ pc = "build"
    /\ Goto("reject") \/ Goto("send")
    /\ UNCHANGED <<venueVars, net, outsideVenue>>

\* build_kraken_futures_order may refuse (no FX rate, zero or oversized
\* quantity, no usable price, nothing to exit): the signal is rejected.
BuildOrder ==
    /\ pc = "build"
    /\ Goto("reject") \/ Goto(IF reuse THEN "send" ELSE "insert")
    /\ UNCHANGED <<venueVars, net, outsideVenue>>

\* insert_pending_order; a second row for the same cli_ord_id violates the
\* UNIQUE index and process_signal returns the error: the signal stays pending.
InsertPendingOrder ==
    /\ pc = "insert"
    /\ IF ordStatus[cur] = "absent"
       THEN /\ ordStatus' = [ordStatus EXCEPT ![cur] = "pending_submission"]
            /\ Goto("send")
       ELSE Return /\ UNCHANGED ordStatus
    /\ UNCHANGED <<signalVars, ordBid, ordFilled, net, outsideProcessor>>

\* submit_order: the request leaves, the processor awaits the response.
SubmitOrder ==
    /\ pc = "send"
    /\ net' = [net EXCEPT ![cur] = @ \cup {"current"}]
    /\ Goto("await")
    /\ UNCHANGED <<venueVars, outsideVenue>>

\* A response with an order id.
ResponseOk ==
    /\ pc = "await"
    /\ answer = "placed"
    /\ Goto("submitted")
    /\ UNCHANGED <<venueVars, net, outsideVenue>>

\* A refusal, or a response to a placed order that cannot be parsed: both are
\* errors other than Timeout and Network.
ResponseError ==
    /\ pc = "await"
    /\ answer \in {"placed", "refused"}
    /\ Goto("failed")
    /\ UNCHANGED <<venueVars, net, outsideVenue>>

\* Timeout or network error: the response, or the request itself, is lost or
\* late. A request still on its way is no longer anyone's.
ResponseLost ==
    /\ pc = "await"
    /\ net' = [net EXCEPT ![cur] = IF "current" \in @ THEN {"stale"} ELSE @]
    /\ Goto("uncertain")
    /\ UNCHANGED <<venueVars, outsideVenue>>

\* mark_order_submitted overwrites broker_order_id and status whatever the row
\* holds by now.
MarkOrderSubmitted ==
    /\ pc = "submitted"
    /\ ordBid' = [ordBid EXCEPT ![cur] = gotBid]
    /\ \E st \in AckStatus : ordStatus' = [ordStatus EXCEPT ![cur] = st]
    /\ Goto("processed")
    /\ UNCHANGED <<signalVars, ordFilled, net, outsideProcessor>>

\* mark_order_uncertain, equally unconditional.
MarkOrderUncertain ==
    /\ pc = "uncertain"
    /\ ordStatus' = [ordStatus EXCEPT ![cur] = "uncertain"]
    /\ Goto("cooldown")
    /\ UNCHANGED <<signalVars, ordBid, ordFilled, net, outsideProcessor>>

\* mark_order_failed, equally unconditional.
MarkOrderFailed ==
    /\ pc = "failed"
    /\ ordStatus' = [ordStatus EXCEPT ![cur] = "failed"]
    /\ Goto("reject")
    /\ UNCHANGED <<signalVars, ordBid, ordFilled, net, outsideProcessor>>

\* Mutant: no cooldown after an uncertain submit.
NoRetryAfter ==
    /\ pc = "cooldown"
    /\ Return
    /\ UNCHANGED <<signalVars, orderVars, net, outsideProcessor>>

\* set_signal_retry_after(now + 90 s)
SetRetryAfter ==
    /\ pc = "cooldown"
    /\ cooling' = [cooling EXCEPT ![cur] = TRUE]
    /\ Return
    /\ UNCHANGED <<sigStatus, expired, orderVars, net, outsideProcessor>>

MarkSignalRejected ==
    /\ pc = "reject"
    /\ sigStatus' = [sigStatus EXCEPT ![cur] = "rejected"]
    /\ Return
    /\ UNCHANGED <<cooling, expired, orderVars, net, outsideProcessor>>

MarkSignalProcessed ==
    /\ pc = "processed"
    /\ sigStatus' = [sigStatus EXCEPT ![cur] = "processed"]
    /\ Goto("clear")
    /\ UNCHANGED <<cooling, expired, orderVars, net, outsideProcessor>>

ClearRetryAfter ==
    /\ pc = "clear"
    /\ cooling' = [cooling EXCEPT ![cur] = FALSE]
    /\ Return
    /\ UNCHANGED <<sigStatus, expired, orderVars, net, outsideProcessor>>

-----------------------------------------------------------------------------
(* The fill reconciler. Fills are taken in sequence order.                 *)

\* Mutant: a fill is taken whether or not the ring holds a new one.
TakeFillUnchecked ==
    /\ rpc = "idle"
    /\ IF Current \in applied
       THEN mark' = Current /\ UNCHANGED rpc
       ELSE rpc' = "order" /\ UNCHANGED mark
    /\ UNCHANGED <<orderVars, ghostVars, applied, outsideReconciler>>

\* Mutant: applied_fills is not consulted.
TakeFillBlindly ==
    /\ rpc = "idle"
    /\ mark < Len(feed)
    /\ rpc' = "order"
    /\ UNCHANGED <<orderVars, mark, ghostVars, applied, outsideReconciler>>

\* has_fill_been_applied
TakeFill ==
    /\ rpc = "idle"
    /\ mark < Len(feed)
    /\ IF Current \in applied
       THEN mark' = Current /\ UNCHANGED rpc
       ELSE rpc' = "order" /\ UNCHANGED mark
    /\ UNCHANGED <<orderVars, ghostVars, applied, outsideReconciler>>

\* The transaction of apply_fill_to_order on row s.
AddFill(s) ==
    /\ ordFilled' = [ordFilled EXCEPT ![s] = @ + 1]
    /\ ordStatus' = [ordStatus EXCEPT ![s] =
                        IF @ = "filled" \/ ordFilled[s] + 1 >= Qty
                        THEN "filled" ELSE "partially_filled"]
    /\ ordN' = [ordN EXCEPT ![Current] = @ + 1]

\* The row that carries the fill's broker order id, if any.
MatchingRows ==
    {s \in Signals : CurrentBid # None /\ ordBid[s] = CurrentBid}

\* The row that carries the fill's cli_ord_id, if any.
RowsByCliOrdId ==
    {s \in Signals : /\ CurrentBid # None
                     /\ venSig[CurrentBid] = s
                     /\ ordStatus[s] # "absent"}

\* Mutant: no orphan-catcher, the fill waits for a row with its broker order id.
ApplyFillWaitsForRow ==
    /\ rpc = "order"
    /\ \/ \E s \in MatchingRows : AddFill(s) /\ rpc' = "position"
       \/ /\ MatchingRows = {}
          /\ rpc' = "idle"
          /\ UNCHANGED <<ordStatus, ordFilled, ordN>>
    /\ UNCHANGED <<ordBid, mark, posN, torn, applied, outsideReconciler>>

ApplyFillToOrder ==
    /\ rpc = "order"
    /\ \/ \E s \in MatchingRows : AddFill(s) /\ rpc' = "position"
       \/ /\ MatchingRows = {}
          /\ rpc' = "orphan"
          /\ UNCHANGED <<ordStatus, ordFilled, ordN>>
    /\ UNCHANGED <<ordBid, mark, posN, torn, applied, outsideReconciler>>

\* Mutant: the matching row's broker_order_id is not backfilled.
OrphanNotBackfilled ==
    /\ rpc = "orphan"
    /\ RowsByCliOrdId # {}
    /\ rpc' = "reapply"
    /\ UNCHANGED <<orderVars, mark, ghostVars, applied, outsideReconciler>>

\* The orphan-catcher: find_order_id_by_cli_ord_id, then the backfill.
OrphanKnown ==
    /\ rpc = "orphan"
    /\ \E s \in RowsByCliOrdId : Backfill(s, CurrentBid)
    /\ rpc' = "reapply"
    /\ UNCHANGED <<ordFilled, mark, ghostVars, applied, outsideReconciler>>

\* A fill without a cli_ord_id of ours is taken for an external order's.
OrphanUnknown ==
    /\ rpc = "orphan"
    /\ RowsByCliOrdId = {}
    /\ rpc' = "record"
    /\ UNCHANGED <<orderVars, mark, ghostVars, applied, outsideReconciler>>

\* The second apply_fill_to_order; still no row: the fill is abandoned.
ReapplyFillToOrder ==
    /\ rpc = "reapply"
    /\ \/ \E s \in MatchingRows : AddFill(s) /\ rpc' = "position"
       \/ /\ MatchingRows = {}
          /\ rpc' = "record"
          /\ UNCHANGED <<ordStatus, ordFilled, ordN>>
    /\ UNCHANGED <<ordBid, mark, posN, torn, applied, outsideReconciler>>

\* apply_fill_to_position, a transaction of its own (module Position).
ApplyFillToPosition ==
    /\ rpc = "position"
    /\ posN' = [posN EXCEPT ![Current] = @ + 1]
    /\ rpc' = "record"
    /\ UNCHANGED <<orderVars, mark, ordN, torn, applied, outsideReconciler>>

\* record_fill_applied, then the in-memory watermark advances.
RecordFillApplied ==
    /\ rpc = "record"
    /\ applied' = applied \cup {Current}
    /\ mark' = Current
    /\ rpc' = "idle"
    /\ UNCHANGED <<orderVars, ghostVars, outsideReconciler>>

-----------------------------------------------------------------------------
(* The venue, the network and the clock.                                   *)

\* Earlier orders that make the venue refuse a request with the same
\* cli_ord_id.
Duplicates(s) ==
    CASE DedupScope = "none" -> {}
      [] DedupScope = "open" -> OpenOrdersOf(s)
      [] OTHER -> OrdersOf(s)

\* The venue places the order of request r; only the response to the current
\* request still has a reader.
PlaceOrder(s, r) ==
    /\ r \in net[s]
    /\ Duplicates(s) = {}
    /\ \E b \in Bids :
          /\ venSig[b] = None
          /\ venSig' = [venSig EXCEPT ![b] = s]
          /\ venOpen' = [venOpen EXCEPT ![b] = TRUE]
          /\ IF r = "current"
             THEN answer' = "placed" /\ gotBid' = b
             ELSE UNCHANGED <<answer, gotBid>>
    /\ net' = [net EXCEPT ![s] = @ \ {r}]
    /\ UNCHANGED <<pc, cur, reuse, venFilled, feed, outsideVenue>>

\* The venue refuses the request: a duplicate cli_ord_id, a post-only order
\* that would execute, insufficient funds and the like.
RefuseOrder(s, r) ==
    /\ r \in net[s]
    /\ net' = [net EXCEPT ![s] = @ \ {r}]
    /\ answer' = IF r = "current" THEN "refused" ELSE answer
    /\ UNCHANGED <<pc, cur, reuse, gotBid, venueVars, outsideVenue>>

\* A request that never arrives.
LoseRequest(s, r) ==
    /\ r \in net[s]
    /\ net' = [net EXCEPT ![s] = @ \ {r}]
    /\ UNCHANGED <<procVars, venueVars, outsideVenue>>

EmitFill(b) ==
    /\ feed' = Append(feed, b)
    /\ ordN' = Append(ordN, 0)
    /\ posN' = Append(posN, 0)
    /\ torn' = Append(torn, 0)

ExecuteContract(b) ==
    /\ venOpen[b]
    /\ venFilled' = [venFilled EXCEPT ![b] = @ + 1]
    /\ venOpen' = [venOpen EXCEPT ![b] = venFilled[b] + 1 < Qty]
    /\ EmitFill(b)
    /\ UNCHANGED <<signalVars, orderVars, applied, procVars, recVars, venSig,
                   net, faults>>

CancelOrder(b) ==
    /\ venOpen[b]
    /\ venOpen' = [venOpen EXCEPT ![b] = FALSE]
    /\ UNCHANGED <<procVars, venSig, venFilled, feed, net, outsideVenue>>

\* A fill of an order placed by hand, or by the panic-close, which keeps no
\* order row.
ExternalFill ==
    /\ Cardinality({i \in DOMAIN feed : feed[i] = None}) < MaxExternal
    /\ EmitFill(None)
    /\ UNCHANGED <<signalVars, orderVars, applied, procVars, recVars, venSig,
                   venOpen, venFilled, net, faults>>

\* 90 s pass. The HTTP client gives up after 10 s: a request does not outlive
\* the cooldown.
CooldownElapses(s) ==
    /\ cooling[s]
    /\ "stale" \notin net[s]
    /\ cooling' = [cooling EXCEPT ![s] = FALSE]
    /\ UNCHANGED <<sigStatus, expired, orderVars, procVars, net,
                   outsideProcessor>>

\* The time in expires_at passes, if there is one.
Expire(s) ==
    /\ s \notin NoExpiry
    /\ ~expired[s]
    /\ expired' = [expired EXCEPT ![s] = TRUE]
    /\ UNCHANGED <<sigStatus, cooling, orderVars, procVars, net,
                   outsideProcessor>>

-----------------------------------------------------------------------------
(* Faults.                                                                 *)

Fault(kind) ==
    /\ kind \in FaultKinds
    /\ faults < MaxFaults
    /\ faults' = faults + 1

\* The reconciler is interrupted: a fill that has reached its order row and is
\* not yet recorded will be taken again.
Interrupted ==
    torn' = [f \in DOMAIN torn |->
                IF f = Current /\ rpc \in {"position", "record"}
                THEN torn[f] + 1 ELSE torn[f]]

\* The daemon stops and starts again: the tables survive, the watermark and
\* the positions of the tasks do not.
Crash ==
    /\ Fault("crash")
    /\ Return
    /\ rpc' = "idle"
    /\ mark' = 0
    /\ Interrupted
    /\ net' = [s \in Signals |-> IF "current" \in net[s] THEN {"stale"}
                                 ELSE net[s]]
    /\ UNCHANGED <<signalVars, orderVars, venueVars, ordN, posN, applied>>

\* A statement of process_signal fails: it returns the error to poll_once.
ProcessorDbError ==
    /\ pc \notin {"idle", "lookup", "build", "send", "await"}
    /\ Fault("processor")
    /\ Return
    /\ UNCHANGED <<signalVars, orderVars, recVars, venueVars, ghostVars,
                   applied, net>>

\* A statement of reconcile_once fails: the watermark stays, the next tick
\* takes the same fill again.
ReconcilerDbError ==
    /\ rpc \notin {"idle", "orphan"}
    /\ Fault("reconciler")
    /\ rpc' = "idle"
    /\ Interrupted
    /\ UNCHANGED <<signalVars, orderVars, procVars, mark, venueVars, ordN, posN,
                   applied, net>>

\* A statement of the orphan-catcher fails: the error is logged and the fill
\* treated like one of an unknown order.
OrphanDbError ==
    /\ rpc = "orphan"
    /\ Fault("orphan")
    /\ rpc' = "record"
    /\ UNCHANGED <<signalVars, orderVars, procVars, mark, venueVars, ghostVars,
                   applied, net>>

-----------------------------------------------------------------------------

Init ==
    /\ sigStatus = [s \in Signals |-> "pending"]
    /\ cooling = [s \in Signals |-> FALSE]
    /\ expired = [s \in Signals |-> FALSE]
    /\ ordStatus = [s \in Signals |-> "absent"]
    /\ ordBid = [s \in Signals |-> None]
    /\ ordFilled = [s \in Signals |-> 0]
    /\ applied = {}
    /\ pc = "idle"
    /\ cur = None
    /\ reuse = FALSE
    /\ answer = "none"
    /\ gotBid = None
    /\ rpc = "idle"
    /\ mark = 0
    /\ venSig = [b \in Bids |-> None]
    /\ venOpen = [b \in Bids |-> FALSE]
    /\ venFilled = [b \in Bids |-> 0]
    /\ feed = <<>>
    /\ net = [s \in Signals |-> {}]
    /\ faults = 0
    /\ ordN = <<>>
    /\ posN = <<>>
    /\ torn = <<>>

ProcessorStep ==
    \/ ReconcileStep
    \/ LookupFound
    \/ LookupAbsent
    \/ LookupFails
    \/ AdoptFound
    \/ BuildOrder
    \/ InsertPendingOrder
    \/ SubmitOrder
    \/ ResponseOk
    \/ ResponseError
    \/ ResponseLost
    \/ MarkOrderSubmitted
    \/ MarkOrderUncertain
    \/ MarkOrderFailed
    \/ SetRetryAfter
    \/ MarkSignalRejected
    \/ MarkSignalProcessed
    \/ ClearRetryAfter

ReconcilerStep ==
    \/ TakeFill
    \/ ApplyFillToOrder
    \/ OrphanKnown
    \/ OrphanUnknown
    \/ ReapplyFillToOrder
    \/ ApplyFillToPosition
    \/ RecordFillApplied

Resolve(s, r) == PlaceOrder(s, r) \/ RefuseOrder(s, r) \/ LoseRequest(s, r)

Next ==
    \/ \E s \in Signals :
          \/ RejectBeforeSubmit(s)
          \/ Approve(s)
          \/ \E r \in {"current", "stale"} : Resolve(s, r)
          \/ CooldownElapses(s)
          \/ Expire(s)
    \/ ProcessorStep
    \/ ReconcilerStep
    \/ \E b \in Bids : ExecuteContract(b) \/ CancelOrder(b)
    \/ ExternalFill
    \/ Crash
    \/ ProcessorDbError
    \/ ReconcilerDbError
    \/ OrphanDbError

Spec == Init /\ [][Next]_vars

(***************************************************************************)
(* Fairness. Both tasks are driven by interval timers, every REST call is  *)
(* bounded by the client's 10 s timeout, poll_once walks the whole list    *)
(* of selectable signals on each tick, and clocks advance. The venue need  *)
(* not execute anything, but a request is delivered or lost.               *)
(***************************************************************************)
Fairness ==
    /\ WF_vars(ProcessorStep)
    /\ WF_vars(ReconcilerStep)
    /\ \A s \in Signals :
          /\ SF_vars(RejectBeforeSubmit(s) \/ Approve(s))
          /\ WF_vars(\E r \in {"current", "stale"} : Resolve(s, r))
          /\ WF_vars(CooldownElapses(s))
          /\ WF_vars(Expire(s))

FairSpec == Spec /\ Fairness

-----------------------------------------------------------------------------
(* Properties.                                                             *)

SignalsOK ==
    /\ sigStatus \in [Signals -> SignalStatus]
    /\ cooling \in [Signals -> BOOLEAN]
    /\ expired \in [Signals -> BOOLEAN]

OrdersOK ==
    /\ ordStatus \in [Signals -> OrderStatus]
    /\ ordBid \in [Signals -> Bids \cup {None}]
    /\ ordFilled \in [Signals -> Nat]

ProcessorOK ==
    /\ pc \in ProcessorPc
    /\ cur \in Signals \cup {None}
    /\ pc # "idle" => cur \in Signals
    /\ reuse \in BOOLEAN
    /\ answer \in {"none", "placed", "refused"}
    /\ gotBid \in Bids \cup {None}

ReconcilerOK ==
    /\ rpc \in ReconcilerPc
    /\ mark \in Nat
    /\ rpc # "idle" => Current \in DOMAIN feed
    /\ applied \subseteq DOMAIN feed
    /\ feed \in Seq(Bids \cup {None})
    /\ ordN \in Seq(Nat) /\ Len(ordN) = Len(feed)
    /\ posN \in Seq(Nat) /\ Len(posN) = Len(feed)
    /\ torn \in Seq(Nat) /\ Len(torn) = Len(feed)

VenueOK ==
    /\ venSig \in [Bids -> Signals \cup {None}]
    /\ venOpen \in [Bids -> BOOLEAN]
    /\ venFilled \in [Bids -> Nat]
    /\ net \in [Signals -> SUBSET {"current", "stale"}]
    /\ faults \in 0 .. MaxFaults

\* The columns of the three tables and the locals of the two tasks hold values
\* of their domains, and a task that is inside a call knows what it works on.
TypeOK ==
    /\ SignalsOK
    /\ OrdersOK
    /\ ProcessorOK
    /\ ReconcilerOK
    /\ VenueOK

\* A signal is marked processed only when its order row names a venue order,
\* and that venue order carries the signal's own cli_ord_id: neither a lost
\* response, an adoption by the orphan-catcher nor a crash in between can
\* settle a signal on an order the venue does not have, or on another's.
ProcessedIsPlaced ==
    \A s \in Signals :
        /\ sigStatus[s] = "processed" => ordBid[s] # None
        /\ ordBid[s] # None => venSig[ordBid[s]] = s

\* Every order the venue has or may still get from the daemon has its row in
\* the orders table: through lost responses, crashes, failed statements and the
\* rejection of a signal whose uncertain order is live (process_signal runs
\* expiry and checklist before it reconciles) the orphan-catcher finds a row to
\* put a fill in.
OrderHasRow ==
    \A s \in Signals :
        OrdersOf(s) # {} \/ net[s] # {} => ordStatus[s] # "absent"

\* The uncertain path (cooldown, lookup, resubmit with the same cli_ord_id)
\* never leaves two live orders of one signal at the venue, even when the
\* venue itself does not check cli_ord_id.
NeverTwoOpenOrders ==
    \A s \in Signals : \A a, b \in OpenOrdersOf(s) : a = b

\* A fill is added to orders.filled_quantity once, and once more for every time
\* the reconciler was interrupted (a crash, a failed statement) after that
\* transaction and before record_fill_applied; to the position it is never
\* added more often. The orphan-catcher's second apply_fill_to_order, the
\* watermark that starts again at zero and the replay of the whole feed after a
\* restart add nothing: that is the part of "applied_fills dedup (Drop 6c)
\* prevents the same fill being applied twice in practice"
\* (rt-persistence/src/repo.rs) that the code keeps.
FillAppliedOnce ==
    \A f \in DOMAIN feed : ordN[f] <= 1 + torn[f] /\ posN[f] <= ordN[f]

\* A fill is recorded in applied_fills, and so never looked at again, only
\* after it has reached the order row and the position, if it executes an
\* order of the daemon's and no statement of the orphan-catcher fails (its
\* errors are logged and the fill is recorded all the same).
NoFillSwallowed ==
    \A f \in applied :
        feed[f] # None => ordN[f] >= 1 /\ posN[f] >= 1

\* Every signal that has an expiry is settled in the end: timeouts, failed
\* lookups, rows left behind by a crash and UNIQUE violations can delay it until
\* it expires, not longer. A signal without an expiry they can hold back for
\* ever (expires_at is optional, rt-core/src/signal.rs: "None means no expiry").
EverySignalSettles ==
    \A s \in Signals \ NoExpiry :
        sigStatus[s] = "pending" ~> sigStatus[s] # "pending"

\* Every fill the feed carries is recorded in the end, across crashes and
\* failed statements.
EveryFillRecorded ==
    \A f \in Fills : (f <= Len(feed)) ~> (f \in applied)

-----------------------------------------------------------------------------
(* Inductive invariants behind ProcessedIsPlaced, OrderHasRow,             *)
(* NeverTwoOpenOrders, FillAppliedOnce, NoFillSwallowed and                *)
(* ImplementsContract (module OrderLifecycleProofs).                       *)

\* Broker order ids end up with the signal whose cli_ord_id they carry.
Attribution ==
    /\ \A s \in Signals : ordBid[s] # None => venSig[ordBid[s]] = s
    /\ gotBid # None => venSig[gotBid] = cur
    /\ \A s \in Signals :
          "current" \in net[s] => pc = "await" /\ cur = s /\ answer = "none"
    /\ pc \in {"idle", "reconcile", "lookup", "build", "insert", "send"}
          => gotBid = None /\ answer = "none"

\* A settled or about to be settled signal has a row with a broker order id.
Settlement ==
    /\ pc \in {"adopt", "submitted"} \/ answer = "placed" => gotBid # None
    /\ pc \in {"processed", "clear"} => ordBid[cur] # None
    /\ pc \notin {"idle", "clear"} => sigStatus[cur] = "pending"
    /\ \A s \in Signals :
          ordStatus[s] \in BrokerStatus \/ sigStatus[s] = "processed"
              => ordBid[s] # None

PlacedInv == Attribution /\ Settlement

\* An order is sent only with its row in the table, new or found by the lookup.
RowInv ==
    /\ OrderHasRow
    /\ pc \in {"idle", "reconcile", "lookup"} => ~reuse
    /\ pc \in {"lookup", "send"} \/ (pc = "build" /\ reuse)
          => ordStatus[cur] # "absent"

\* The fill under way is not a recorded one. Of its additions to an order row
\* all were interrupted but the one that was recorded or is about to be, and
\* each is followed by at most one to the position.
UnderWay(f) == f = Current /\ rpc \in {"position", "record"}

OnceInv ==
    /\ rpc # "idle" => Current \notin applied
    /\ \A f \in DOMAIN feed :
          /\ ordN[f] <= torn[f] + IF f \in applied \/ UnderWay(f) THEN 1 ELSE 0
          /\ posN[f] <= ordN[f]
          /\ f = Current /\ rpc = "position" => posN[f] < ordN[f]

\* At a venue that never gives a signal a second order, a fill's order is the
\* one its row names once the orphan-catcher has seen it, and what is about to
\* be recorded has been applied.
SwallowInv ==
    /\ \A b \in Bids : venOpen[b] => venSig[b] # None
    /\ \A f \in DOMAIN feed : feed[f] # None => venSig[feed[f]] # None
    /\ \A a, b \in Bids : venSig[a] = venSig[b] /\ venSig[a] # None => a = b
    /\ rpc = "reapply" /\ CurrentBid # None
          => ordBid[venSig[CurrentBid]] = CurrentBid
    /\ rpc = "position" => ordN[Current] >= 1
    /\ rpc = "record" /\ CurrentBid # None
          => ordN[Current] >= 1 /\ posN[Current] >= 1
    /\ NoFillSwallowed

\* A request that is still on its way is the only chance of its signal to get a
\* live order: it is the one under way, or the cooldown holds the signal back.
SingleFlight ==
    /\ pc # "idle" => ~cooling[cur]
    /\ pc \in {"idle", "reconcile", "lookup"} => ~reuse
    /\ pc \in {"lookup", "send"} \/ (pc = "build" /\ reuse)
          => ordStatus[cur] # "absent"
    /\ pc = "send" \/ (pc = "build" /\ reuse)
          => net[cur] = {} /\ OpenOrdersOf(cur) = {}
    /\ \A s \in Signals :
          /\ net[s] # {} => OpenOrdersOf(s) = {}
          /\ net[s] # {"current", "stale"}
          /\ "stale" \in net[s]
                => cooling[s] \/ (cur = s /\ pc \in {"uncertain", "cooldown"})
          /\ ordStatus[s] = "absent" => net[s] = {} /\ OrdersOf(s) = {}

FlightInv == SingleFlight /\ NeverTwoOpenOrders

\* The contract of the order path.
Contract == INSTANCE SignalContract
                WITH outcome <- sigStatus,
                     orders <- [s \in Signals |-> OrdersOf(s)]

\* With a venue that refuses every cli_ord_id it has seen, the order path
\* implements SignalContract: one verdict per signal, at most one venue order,
\* and no "processed" without it.
ImplementsContract == Contract!Spec
=============================================================================
