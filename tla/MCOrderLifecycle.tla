--------------------------- MODULE MCOrderLifecycle ---------------------------
(* Model-checking instances of OrderLifecycle.                             *)
EXTENDS OrderLifecycle, TLC

\* Broker order ids are interchangeable: the venue hands out any unused one.
BidSymmetry == Permutations(Bids)

SignalAndBidSymmetry == Permutations(Signals) \cup Permutations(Bids)
=============================================================================
