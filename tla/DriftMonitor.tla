----------------------------- MODULE DriftMonitor -----------------------------
(***************************************************************************)
(* The order path (OrderLifecycle) watched by the periodic reconciler      *)
(* (rt-daemon/src/periodic_reconciler.rs): every 60 s it asks the venue    *)
(* for the open orders, then the database for the live rows, and logs what *)
(* only one of the two has. The two lists are taken at different times,    *)
(* and nothing acts on the log: it is how an operator learns of an order   *)
(* that was cancelled at the venue, or is live there behind a row the      *)
(* daemon has given up.                                                    *)
(***************************************************************************)
EXTENDS OrderLifecycle

VARIABLES
    dpc,      \* where its reconcile_once stands
    listed,   \* the venue orders broker.open_orders() returned
    missing,  \* rows the tick reported: live here, not open at the venue
    unknown   \* venue orders it reported: open there, not live here

driftVars == <<dpc, listed, missing, unknown>>

allVars == <<vars, driftVars>>

-----------------------------------------------------------------------------

\* list_live_orders
LiveStatus == {"submitted", "acknowledged", "partially_filled", "uncertain",
               "pending_submission"}

\* Mutant: a row that the venue has acknowledged is not looked at.
UnsettledRows == {s \in Signals : ordStatus[s] \in LiveStatus \ {"acknowledged"}}

LiveRows == {s \in Signals : ordStatus[s] \in LiveStatus}

\* Row and venue order match by broker_order_id or by cli_ord_id.
SameOrder(s, b) == ordBid[s] = b \/ venSig[b] = s

\* A tick whose request fails is logged and has no effect.
OpenOrders ==
    /\ dpc = "idle"
    /\ dpc' = "listed"
    /\ listed' = {b \in Bids : venOpen[b]}
    /\ missing' = {}
    /\ unknown' = {}
    /\ UNCHANGED vars

ReportDrift ==
    /\ dpc = "listed"
    /\ dpc' = "idle"
    /\ listed' = {}
    /\ missing' = {s \in LiveRows : \A b \in listed : ~SameOrder(s, b)}
    /\ unknown' = {b \in listed : \A s \in LiveRows : ~SameOrder(s, b)}
    /\ UNCHANGED vars

\* list_live_orders fails and ends the tick.
MonitorDbError ==
    /\ dpc = "listed"
    /\ Fault("monitor")
    /\ dpc' = "idle"
    /\ listed' = {}
    /\ UNCHANGED <<missing, unknown, signalVars, orderVars, applied, procVars,
                   recVars, venueVars, net, ghostVars>>

\* Everything else goes on meanwhile; a restart forgets the tick under way.
OrderPathStep ==
    /\ Next
    /\ dpc' = IF Crash THEN "idle" ELSE dpc
    /\ listed' = IF Crash THEN {} ELSE listed
    /\ UNCHANGED <<missing, unknown>>

-----------------------------------------------------------------------------

DriftInit ==
    /\ Init
    /\ dpc = "idle"
    /\ listed = {}
    /\ missing = {}
    /\ unknown = {}

DriftNext ==
    \/ OrderPathStep
    \/ OpenOrders
    \/ ReportDrift
    \/ MonitorDbError

\* The monitor is a loop over a timer, and the venue answers in the end.
DriftSpec ==
    /\ DriftInit
    /\ [][DriftNext]_allVars
    /\ Fairness
    /\ WF_allVars(OpenOrders \/ ReportDrift)

-----------------------------------------------------------------------------
(* Properties.                                                             *)

Missing(s) == ordStatus[s] \in LiveStatus /\ OpenOrdersOf(s) = {}

Unknown(b) == venOpen[b] /\ ordStatus[venSig[b]] \notin LiveStatus

\* Drift that lasts is reported, across crashes and failed statements: a row
\* that stays live after the venue cancelled its order (nothing in the daemon
\* ever closes it, and the entry job takes it for exposure), and an order that
\* stays open at the venue after its row was marked failed
\* (rt-daemon/src/periodic_reconciler.rs, drift classes 1 and 2).
DriftReported ==
    /\ \A s \in Signals : Missing(s) ~> (s \in missing \/ ~Missing(s))
    /\ \A b \in Bids : Unknown(b) ~> (b \in unknown \/ ~Unknown(b))
=============================================================================
