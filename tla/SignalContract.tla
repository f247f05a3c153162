---------------------------- MODULE SignalContract ----------------------------
(***************************************************************************)
(* What the order path promises about a signal, whatever happens on the    *)
(* way: it is settled at most once and for good, at most one order ever    *)
(* reaches the venue on its behalf, and it counts as processed only when   *)
(* that order exists. OrderLifecycle implements this contract when the     *)
(* venue refuses a cli_ord_id it has ever seen before.                     *)
(***************************************************************************)
CONSTANTS Signals, Bids

VARIABLES
    outcome,   \* signals.status
    orders     \* the venue orders placed for each signal

vars == <<outcome, orders>>

Init ==
    /\ outcome = [s \in Signals |-> "pending"]
    /\ orders = [s \in Signals |-> {}]

\* An order may still be placed after the signal was rejected: the request was
\* on its way.
Place(s, b) ==
    /\ orders[s] = {}
    /\ \A t \in Signals : b \notin orders[t]
    /\ orders' = [orders EXCEPT ![s] = {b}]
    /\ UNCHANGED outcome

Process(s) ==
    /\ outcome[s] = "pending"
    /\ orders[s] # {}
    /\ outcome' = [outcome EXCEPT ![s] = "processed"]
    /\ UNCHANGED orders

Reject(s) ==
    /\ outcome[s] = "pending"
    /\ outcome' = [outcome EXCEPT ![s] = "rejected"]
    /\ UNCHANGED orders

Next ==
    \E s \in Signals :
        \/ \E b \in Bids : Place(s, b)
        \/ Process(s)
        \/ Reject(s)

Spec == Init /\ [][Next]_vars
=============================================================================
