------------------------- MODULE OrderLifecycleProofs -------------------------
(***************************************************************************)
(* Theorems about OrderLifecycle, for every set of signals and broker      *)
(* order ids, every quantity and every number of faults.                   *)
(***************************************************************************)
EXTENDS OrderLifecycle, SequenceTheorems, TLAPS

USE DEF signalVars, orderVars, procVars, recVars, venueVars, ghostVars,
        outsideProcessor, outsideReconciler, outsideVenue

-----------------------------------------------------------------------------
(* Type correctness.                                                       *)

\* A part of the type invariant survives a step that leaves its variables
\* alone.
LEMMA KeepParts ==
    /\ SignalsOK /\ UNCHANGED signalVars => SignalsOK'
    /\ OrdersOK /\ UNCHANGED orderVars => OrdersOK'
    /\ ProcessorOK /\ UNCHANGED procVars => ProcessorOK'
    /\ ReconcilerOK /\ UNCHANGED <<recVars, applied, feed, ghostVars>>
          => ReconcilerOK'
    /\ VenueOK /\ UNCHANGED <<venSig, venOpen, venFilled, net, faults>>
          => VenueOK'
  BY DEF SignalsOK, OrdersOK, ProcessorOK, ReconcilerOK, VenueOK, Current

\* backfill_broker_order_id keeps the columns it writes in their domains.
LEMMA BackfillType ==
    ASSUME OrdersOK, NEW s \in Signals, NEW b \in Bids \cup {None},
           Backfill(s, b)
    PROVE  /\ ordStatus' \in [Signals -> OrderStatus]
           /\ ordBid' \in [Signals -> Bids \cup {None}]
<1>1. CASE ordBid[s] = None
  <2>1. ordBid' = [ordBid EXCEPT ![s] = b]
    BY <1>1 DEF Backfill
  <2>2. PICK st \in OrderStatus : ordStatus' = [ordStatus EXCEPT ![s] = st]
    BY <1>1 DEF Backfill, OrdersOK, OrderStatus, BrokerStatus
  <2> QED BY <2>1, <2>2 DEF OrdersOK
<1>2. CASE ordBid[s] # None
  BY <1>2 DEF Backfill, OrdersOK
<1> QED BY <1>1, <1>2

\* apply_fill_to_order keeps the columns it writes in their domains.
LEMMA AddFillType ==
    ASSUME OrdersOK, ReconcilerOK, Current \in DOMAIN feed,
           NEW s \in Signals, AddFill(s)
    PROVE  /\ ordStatus' \in [Signals -> OrderStatus]
           /\ ordFilled' \in [Signals -> Nat]
           /\ ordN' \in Seq(Nat) /\ Len(ordN') = Len(ordN)
<1>1. PICK st \in OrderStatus : ordStatus' = [ordStatus EXCEPT ![s] = st]
  BY DEF AddFill, OrdersOK, OrderStatus, BrokerStatus
<1>2. ordFilled' \in [Signals -> Nat]
  BY DEF AddFill, OrdersOK
<1>3. ordN' \in Seq(Nat) /\ Len(ordN') = Len(ordN)
  <2>1. Current \in 1 .. Len(ordN) /\ ordN[Current] + 1 \in Nat
    BY DEF ReconcilerOK
  <2> QED BY <2>1, ExceptSeq DEF AddFill, ReconcilerOK
<1> QED BY <1>1, <1>2, <1>3 DEF OrdersOK

\* An interruption counts in torn, and only for the fill under way.
LEMMA InterruptedEffect ==
    ASSUME ReconcilerOK, Interrupted
    PROVE  /\ torn' \in Seq(Nat) /\ Len(torn') = Len(torn)
           /\ \A f \in DOMAIN feed :
                 torn'[f] = IF UnderWay(f) THEN torn[f] + 1 ELSE torn[f]
<1>1. torn \in Seq(Nat) /\ DOMAIN torn = 1 .. Len(torn) /\ Len(torn) \in Nat
      /\ DOMAIN torn = DOMAIN feed
  BY DEF ReconcilerOK
<1>2. torn' \in [1 .. Len(torn) -> Nat]
  BY <1>1 DEF Interrupted
<1>3. torn' \in Seq(Nat) /\ Len(torn') = Len(torn)
  BY <1>1, <1>2
<1>4. \A f \in DOMAIN feed :
         torn'[f] = IF UnderWay(f) THEN torn[f] + 1 ELSE torn[f]
  BY <1>1 DEF Interrupted, UnderWay
<1> QED BY <1>3, <1>4

\* A step of the signal processor keeps the type invariant.
LEMMA TypeProcessor ==
    ASSUME TypeOK, ProcessorStep
    PROVE  TypeOK'
<1> SUFFICES SignalsOK' /\ OrdersOK' /\ ProcessorOK' /\ ReconcilerOK' /\ VenueOK'
  BY DEF TypeOK
<1> USE DEF TypeOK
<1>1. CASE ReconcileStep
  <2>1. ProcessorOK'
    BY <1>1 DEF ReconcileStep, Goto, Return, ProcessorOK, ProcessorPc
  <2> QED BY <1>1, <2>1, KeepParts DEF ReconcileStep, Goto, Return
<1>2. CASE LookupFound
  <2>1. ProcessorOK'
    BY <1>2 DEF LookupFound, OpenOrdersOf, OrdersOf, ProcessorOK, ProcessorPc
  <2> QED BY <1>2, <2>1, KeepParts DEF LookupFound, OpenOrdersOf, OrdersOf
<1>3. CASE LookupAbsent
  <2>1. ProcessorOK'
    BY <1>3 DEF LookupAbsent, ProcessorOK, ProcessorPc
  <2> QED BY <1>3, <2>1, KeepParts DEF LookupAbsent
<1>4. CASE LookupFails
  <2>1. ProcessorOK'
    BY <1>4 DEF LookupFails, Goto, ProcessorOK, ProcessorPc
  <2> QED BY <1>4, <2>1, KeepParts DEF LookupFails, Goto
<1>5. CASE AdoptFound
  <2>1. OrdersOK'
    BY <1>5, BackfillType DEF AdoptFound, Goto, OrdersOK, OrderStatus,
       BrokerStatus, ProcessorOK
  <2>2. ProcessorOK'
    BY <1>5 DEF AdoptFound, Goto, ProcessorOK, ProcessorPc
  <2> QED BY <1>5, <2>1, <2>2, KeepParts DEF AdoptFound, Goto
<1>6. CASE BuildOrder
  <2>1. ProcessorOK'
    BY <1>6 DEF BuildOrder, Goto, ProcessorOK, ProcessorPc
  <2> QED BY <1>6, <2>1, KeepParts DEF BuildOrder, Goto
<1>7. CASE InsertPendingOrder
  <2>1. OrdersOK'
    BY <1>7 DEF InsertPendingOrder, Goto, Return, OrdersOK, OrderStatus,
       BrokerStatus, ProcessorOK
  <2>2. ProcessorOK'
    BY <1>7 DEF InsertPendingOrder, Goto, Return, ProcessorOK, ProcessorPc
  <2> QED BY <1>7, <2>1, <2>2, KeepParts DEF InsertPendingOrder, Goto, Return
<1>8. CASE SubmitOrder
  <2>1. ProcessorOK'
    BY <1>8 DEF SubmitOrder, Goto, ProcessorOK, ProcessorPc
  <2>2. VenueOK'
    BY <1>8 DEF SubmitOrder, Goto, VenueOK, ProcessorOK
  <2> QED BY <1>8, <2>1, <2>2, KeepParts DEF SubmitOrder, Goto
<1>9. CASE ResponseOk
  <2>1. ProcessorOK'
    BY <1>9 DEF ResponseOk, Goto, ProcessorOK, ProcessorPc
  <2> QED BY <1>9, <2>1, KeepParts DEF ResponseOk, Goto
<1>10. CASE ResponseError
  <2>1. ProcessorOK'
    BY <1>10 DEF ResponseError, Goto, ProcessorOK, ProcessorPc
  <2> QED BY <1>10, <2>1, KeepParts DEF ResponseError, Goto
<1>11. CASE ResponseLost
  <2>1. ProcessorOK'
    BY <1>11 DEF ResponseLost, Goto, ProcessorOK, ProcessorPc
  <2>2. VenueOK'
    BY <1>11 DEF ResponseLost, Goto, VenueOK, ProcessorOK
  <2> QED BY <1>11, <2>1, <2>2, KeepParts DEF ResponseLost, Goto
<1>12. CASE MarkOrderSubmitted
  <2>1. OrdersOK'
    BY <1>12, ConstantsAssumption DEF MarkOrderSubmitted, Goto, OrdersOK,
       OrderStatus, BrokerStatus, ProcessorOK
  <2>2. ProcessorOK'
    BY <1>12 DEF MarkOrderSubmitted, Goto, ProcessorOK, ProcessorPc
  <2> QED BY <1>12, <2>1, <2>2, KeepParts DEF MarkOrderSubmitted, Goto
<1>13. CASE MarkOrderUncertain
  <2>1. OrdersOK'
    BY <1>13 DEF MarkOrderUncertain, Goto, OrdersOK, OrderStatus, BrokerStatus,
       ProcessorOK
  <2>2. ProcessorOK'
    BY <1>13 DEF MarkOrderUncertain, Goto, ProcessorOK, ProcessorPc
  <2> QED BY <1>13, <2>1, <2>2, KeepParts DEF MarkOrderUncertain, Goto
<1>14. CASE MarkOrderFailed
  <2>1. OrdersOK'
    BY <1>14 DEF MarkOrderFailed, Goto, OrdersOK, OrderStatus, BrokerStatus,
       ProcessorOK
  <2>2. ProcessorOK'
    BY <1>14 DEF MarkOrderFailed, Goto, ProcessorOK, ProcessorPc
  <2> QED BY <1>14, <2>1, <2>2, KeepParts DEF MarkOrderFailed, Goto
<1>15. CASE SetRetryAfter
  <2>1. SignalsOK'
    BY <1>15 DEF SetRetryAfter, Return, SignalsOK, SignalStatus, ProcessorOK
  <2>2. ProcessorOK'
    BY <1>15 DEF SetRetryAfter, Return, ProcessorOK, ProcessorPc
  <2> QED BY <1>15, <2>1, <2>2, KeepParts DEF SetRetryAfter, Return
<1>16. CASE MarkSignalRejected
  <2>1. SignalsOK'
    BY <1>16 DEF MarkSignalRejected, Return, SignalsOK, SignalStatus,
       ProcessorOK
  <2>2. ProcessorOK'
    BY <1>16 DEF MarkSignalRejected, Return, ProcessorOK, ProcessorPc
  <2> QED BY <1>16, <2>1, <2>2, KeepParts DEF MarkSignalRejected, Return
<1>17. CASE MarkSignalProcessed
  <2>1. SignalsOK'
    BY <1>17 DEF MarkSignalProcessed, Goto, SignalsOK, SignalStatus,
       ProcessorOK
  <2>2. ProcessorOK'
    BY <1>17 DEF MarkSignalProcessed, Goto, ProcessorOK, ProcessorPc
  <2> QED BY <1>17, <2>1, <2>2, KeepParts DEF MarkSignalProcessed, Goto
<1>18. CASE ClearRetryAfter
  <2>1. SignalsOK'
    BY <1>18 DEF ClearRetryAfter, Return, SignalsOK, SignalStatus, ProcessorOK
  <2>2. ProcessorOK'
    BY <1>18 DEF ClearRetryAfter, Return, ProcessorOK, ProcessorPc
  <2> QED BY <1>18, <2>1, <2>2, KeepParts DEF ClearRetryAfter, Return
<1> QED BY <1>1, <1>2, <1>3, <1>4, <1>5, <1>6, <1>7, <1>8, <1>9, <1>10, <1>11,
           <1>12, <1>13, <1>14, <1>15, <1>16, <1>17, <1>18 DEF ProcessorStep

\* A step of the fill reconciler keeps the type invariant.
LEMMA TypeReconciler ==
    ASSUME TypeOK, ReconcilerStep
    PROVE  TypeOK'
<1> SUFFICES SignalsOK' /\ OrdersOK' /\ ProcessorOK' /\ ReconcilerOK' /\ VenueOK'
  BY DEF TypeOK
<1> USE DEF TypeOK
<1>1. CASE TakeFill
  <2>1. ReconcilerOK'
    BY <1>1 DEF TakeFill, ReconcilerOK, ReconcilerPc, Current
  <2> QED BY <1>1, <2>1, KeepParts DEF TakeFill
<1>2. CASE ApplyFillToOrder
  <2>1. OrdersOK'
    BY <1>2, AddFillType DEF ApplyFillToOrder, MatchingRows, OrdersOK,
       OrderStatus, BrokerStatus, ReconcilerOK
  <2>2. ReconcilerOK'
    BY <1>2, AddFillType DEF ApplyFillToOrder, MatchingRows, ReconcilerOK,
       ReconcilerPc, Current
  <2> QED BY <1>2, <2>1, <2>2, KeepParts DEF ApplyFillToOrder, MatchingRows
<1>3. CASE OrphanKnown
  <2>1. OrdersOK'
    BY <1>3, BackfillType DEF OrphanKnown, RowsByCliOrdId, CurrentBid,
       OrdersOK, OrderStatus, BrokerStatus, ReconcilerOK
  <2>2. ReconcilerOK'
    BY <1>3 DEF OrphanKnown, RowsByCliOrdId, CurrentBid, ReconcilerOK,
       ReconcilerPc, Current
  <2> QED BY <1>3, <2>1, <2>2, KeepParts DEF OrphanKnown, RowsByCliOrdId,
          CurrentBid
<1>4. CASE OrphanUnknown
  <2>1. ReconcilerOK'
    BY <1>4 DEF OrphanUnknown, ReconcilerOK, ReconcilerPc, Current
  <2> QED BY <1>4, <2>1, KeepParts DEF OrphanUnknown
<1>5. CASE ReapplyFillToOrder
  <2>1. OrdersOK'
    BY <1>5, AddFillType DEF ReapplyFillToOrder, MatchingRows, OrdersOK,
       OrderStatus, BrokerStatus, ReconcilerOK
  <2>2. ReconcilerOK'
    BY <1>5, AddFillType DEF ReapplyFillToOrder, MatchingRows, ReconcilerOK,
       ReconcilerPc, Current
  <2> QED BY <1>5, <2>1, <2>2, KeepParts DEF ReapplyFillToOrder, MatchingRows
<1>6. CASE ApplyFillToPosition
  <2>1. ReconcilerOK'
    BY <1>6 DEF ApplyFillToPosition, ReconcilerOK, ReconcilerPc, Current
  <2> QED BY <1>6, <2>1, KeepParts DEF ApplyFillToPosition
<1>7. CASE RecordFillApplied
  <2>1. ReconcilerOK'
    BY <1>7 DEF RecordFillApplied, ReconcilerOK, ReconcilerPc, Current
  <2> QED BY <1>7, <2>1, KeepParts DEF RecordFillApplied
<1> QED BY <1>1, <1>2, <1>3, <1>4, <1>5, <1>6, <1>7 DEF ReconcilerStep

\* Any other step (the polling of a signal, the network, the venue, the clocks
\* and the faults) keeps the type invariant.
LEMMA TypeEnvironment ==
    ASSUME TypeOK, [Next]_vars
    PROVE  ProcessorStep \/ ReconcilerStep \/ TypeOK'
<1> SUFFICES ASSUME ~ProcessorStep, ~ReconcilerStep
             PROVE  SignalsOK' /\ OrdersOK' /\ ProcessorOK' /\ ReconcilerOK'
                       /\ VenueOK'
  BY DEF TypeOK
<1> USE DEF TypeOK
<1>1. ASSUME NEW s \in Signals, RejectBeforeSubmit(s)
     PROVE  SignalsOK' /\ OrdersOK' /\ ProcessorOK' /\ ReconcilerOK'
               /\ VenueOK'
  <2>1. SignalsOK'
    BY <1>1 DEF RejectBeforeSubmit, SignalsOK, SignalStatus
  <2> QED BY <1>1, <2>1, KeepParts DEF RejectBeforeSubmit
<1>2. ASSUME NEW s \in Signals, Approve(s)
     PROVE  SignalsOK' /\ OrdersOK' /\ ProcessorOK' /\ ReconcilerOK'
               /\ VenueOK'
  <2>1. ProcessorOK'
    BY <1>2 DEF Approve, ProcessorOK, ProcessorPc
  <2> QED BY <1>2, <2>1, KeepParts DEF Approve
<1>3. ASSUME NEW s \in Signals, NEW r \in {"current", "stale"}, PlaceOrder(s, r)
     PROVE  SignalsOK' /\ OrdersOK' /\ ProcessorOK' /\ ReconcilerOK'
               /\ VenueOK'
  <2>1. ProcessorOK'
    BY <1>3 DEF PlaceOrder, ProcessorOK, ProcessorPc
  <2>2. VenueOK'
    BY <1>3 DEF PlaceOrder, VenueOK
  <2> QED BY <1>3, <2>1, <2>2, KeepParts DEF PlaceOrder
<1>4. ASSUME NEW s \in Signals, NEW r \in {"current", "stale"}, RefuseOrder(s, r)
     PROVE  SignalsOK' /\ OrdersOK' /\ ProcessorOK' /\ ReconcilerOK'
               /\ VenueOK'
  <2>1. ProcessorOK'
    BY <1>4 DEF RefuseOrder, ProcessorOK, ProcessorPc
  <2>2. VenueOK'
    BY <1>4 DEF RefuseOrder, VenueOK
  <2> QED BY <1>4, <2>1, <2>2, KeepParts DEF RefuseOrder
<1>5. ASSUME NEW s \in Signals, NEW r \in {"current", "stale"}, LoseRequest(s, r)
     PROVE  SignalsOK' /\ OrdersOK' /\ ProcessorOK' /\ ReconcilerOK'
               /\ VenueOK'
  <2>1. VenueOK'
    BY <1>5 DEF LoseRequest, VenueOK
  <2> QED BY <1>5, <2>1, KeepParts DEF LoseRequest
<1>6. ASSUME NEW s \in Signals, CooldownElapses(s)
     PROVE  SignalsOK' /\ OrdersOK' /\ ProcessorOK' /\ ReconcilerOK'
               /\ VenueOK'
  <2>1. SignalsOK'
    BY <1>6 DEF CooldownElapses, SignalsOK, SignalStatus
  <2> QED BY <1>6, <2>1, KeepParts DEF CooldownElapses
<1>7. ASSUME NEW s \in Signals, Expire(s)
     PROVE  SignalsOK' /\ OrdersOK' /\ ProcessorOK' /\ ReconcilerOK'
               /\ VenueOK'
  <2>1. SignalsOK'
    BY <1>7 DEF Expire, SignalsOK, SignalStatus
  <2> QED BY <1>7, <2>1, KeepParts DEF Expire
<1>8. ASSUME NEW b \in Bids, ExecuteContract(b)
     PROVE  SignalsOK' /\ OrdersOK' /\ ProcessorOK' /\ ReconcilerOK'
               /\ VenueOK'
  <2>1. ReconcilerOK'
    BY <1>8 DEF ExecuteContract, EmitFill, ReconcilerOK, ReconcilerPc, Current
  <2>2. VenueOK'
    BY <1>8 DEF ExecuteContract, EmitFill, VenueOK
  <2> QED BY <1>8, <2>1, <2>2, KeepParts DEF ExecuteContract, EmitFill
<1>9. ASSUME NEW b \in Bids, CancelOrder(b)
     PROVE  SignalsOK' /\ OrdersOK' /\ ProcessorOK' /\ ReconcilerOK'
               /\ VenueOK'
  <2>1. VenueOK'
    BY <1>9 DEF CancelOrder, VenueOK
  <2> QED BY <1>9, <2>1, KeepParts DEF CancelOrder
<1>10. CASE ExternalFill
  <2>1. ReconcilerOK'
    BY <1>10 DEF ExternalFill, EmitFill, ReconcilerOK, ReconcilerPc, Current
  <2> QED BY <1>10, <2>1, KeepParts DEF ExternalFill, EmitFill
<1>11. CASE Crash
  <2>1. ProcessorOK'
    BY <1>11 DEF Crash, Fault, Return, ProcessorOK, ProcessorPc
  <2>2. ReconcilerOK'
    BY <1>11, InterruptedEffect DEF Crash, Fault, ReconcilerOK, ReconcilerPc
  <2>3. VenueOK'
    BY <1>11, ConstantsAssumption DEF Crash, Fault, Return, VenueOK
  <2> QED BY <1>11, <2>1, <2>2, <2>3, KeepParts DEF Crash, Fault, Return
<1>12. CASE ProcessorDbError
  <2>1. ProcessorOK'
    BY <1>12 DEF ProcessorDbError, Fault, Return, ProcessorOK, ProcessorPc
  <2>2. VenueOK'
    BY <1>12, ConstantsAssumption DEF ProcessorDbError, Fault, Return, VenueOK
  <2> QED BY <1>12, <2>1, <2>2, KeepParts DEF ProcessorDbError, Fault, Return
<1>13. CASE ReconcilerDbError
  <2>1. ReconcilerOK'
    BY <1>13, InterruptedEffect DEF ReconcilerDbError, Fault, ReconcilerOK,
       ReconcilerPc
  <2>2. VenueOK'
    BY <1>13, ConstantsAssumption DEF ReconcilerDbError, Fault, VenueOK
  <2> QED BY <1>13, <2>1, <2>2, KeepParts DEF ReconcilerDbError, Fault
<1>14. CASE OrphanDbError
  <2>1. ReconcilerOK'
    BY <1>14 DEF OrphanDbError, Fault, ReconcilerOK, ReconcilerPc, Current
  <2>2. VenueOK'
    BY <1>14, ConstantsAssumption DEF OrphanDbError, Fault, VenueOK
  <2> QED BY <1>14, <2>1, <2>2, KeepParts DEF OrphanDbError, Fault
<1>15. CASE UNCHANGED vars
  BY <1>15, KeepParts DEF vars
<1> QED BY <1>1, <1>2, <1>3, <1>4, <1>5, <1>6, <1>7, <1>8, <1>9, <1>10, <1>11,
           <1>12, <1>13, <1>14, <1>15 DEF Next, Resolve

\* The type invariant is inductive.
LEMMA TypeStep == TypeOK /\ [Next]_vars => TypeOK'
  BY TypeProcessor, TypeReconciler, TypeEnvironment

\* Every state the two tasks, the venue and the faults can reach is well typed:
\* no statement of theirs writes a value outside its column's domain, and the
\* reconciler never looks past the end of the feed.
THEOREM TypeCorrect == Spec => []TypeOK
<1>1. Init => TypeOK
  <2> SUFFICES ASSUME Init PROVE TypeOK
    OBVIOUS
  <2>1. SignalsOK /\ OrdersOK
    BY DEF Init, SignalsOK, OrdersOK, SignalStatus, OrderStatus
  <2>2. ProcessorOK
    BY DEF Init, ProcessorOK, ProcessorPc
  <2>3. ReconcilerOK
    BY EmptySeq DEF Init, ReconcilerOK, ReconcilerPc
  <2>4. VenueOK
    BY ConstantsAssumption DEF Init, VenueOK
  <2> QED BY <2>1, <2>2, <2>3, <2>4 DEF TypeOK
<1> QED BY <1>1, TypeStep, PTL DEF Spec

-----------------------------------------------------------------------------
(* A processed signal has its order at the venue.                          *)

\* What backfill_broker_order_id does to the two columns it writes.
LEMMA BackfillEffect ==
    ASSUME OrdersOK, NEW s \in Signals, NEW b \in Bids, Backfill(s, b)
    PROVE  /\ ordBid'[s] = IF ordBid[s] = None THEN b ELSE ordBid[s]
           /\ \A t \in Signals \ {s} : /\ ordBid'[t] = ordBid[t]
                                       /\ ordStatus'[t] = ordStatus[t]
  BY DEF Backfill, OrdersOK

\* PlacedInv is inductive, given the types.
LEMMA PlacedStep ==
    ASSUME TypeOK, PlacedInv, [Next]_vars
    PROVE  PlacedInv'
<1>1. CASE ReconcileStep
  BY <1>1 DEF ReconcileStep, Goto, Return, PendingOrderStatus, OrderStatus,
     PlacedInv, Attribution, Settlement, TypeOK, SignalsOK, OrdersOK,
     ProcessorOK, VenueOK, BrokerStatus
<1>2. CASE LookupFound
  BY <1>2, ConstantsAssumption DEF LookupFound, OpenOrdersOf, OrdersOf,
     PlacedInv, Attribution, Settlement, TypeOK, SignalsOK, OrdersOK,
     ProcessorOK, VenueOK, BrokerStatus
<1>3. CASE LookupAbsent
  BY <1>3 DEF LookupAbsent, PlacedInv, Attribution, Settlement, TypeOK,
     SignalsOK, OrdersOK, ProcessorOK, VenueOK, BrokerStatus
<1>4. CASE LookupFails
  BY <1>4 DEF LookupFails, Goto, PlacedInv, Attribution, Settlement, TypeOK,
     SignalsOK, OrdersOK, ProcessorOK, VenueOK, BrokerStatus
<1>5. CASE AdoptFound
  <2>1. gotBid \in Bids /\ venSig[gotBid] = cur /\ Backfill(cur, gotBid)
    BY <1>5 DEF AdoptFound, PlacedInv, Attribution, Settlement, TypeOK, ProcessorOK
  <2> QED BY <1>5, <2>1, BackfillEffect, ConstantsAssumption
          DEF AdoptFound, Goto, PlacedInv, Attribution, Settlement, TypeOK,
              ProcessorOK
<1>6. CASE BuildOrder
  BY <1>6 DEF BuildOrder, Goto, PlacedInv, Attribution, Settlement, TypeOK,
     SignalsOK, OrdersOK, ProcessorOK, VenueOK, BrokerStatus
<1>7. CASE InsertPendingOrder
  BY <1>7 DEF InsertPendingOrder, Goto, Return, PlacedInv, Attribution,
     Settlement, TypeOK, SignalsOK, OrdersOK, ProcessorOK, VenueOK,
     BrokerStatus
<1>8. CASE SubmitOrder
  BY <1>8 DEF SubmitOrder, Goto, PlacedInv, Attribution, Settlement, TypeOK,
     SignalsOK, OrdersOK, ProcessorOK, VenueOK, BrokerStatus
<1>9. CASE ResponseOk
  BY <1>9 DEF ResponseOk, Goto, PlacedInv, Attribution, Settlement, TypeOK,
     SignalsOK, OrdersOK, ProcessorOK, VenueOK, BrokerStatus
<1>10. CASE ResponseError
  BY <1>10 DEF ResponseError, Goto, PlacedInv, Attribution, Settlement, TypeOK,
     SignalsOK, OrdersOK, ProcessorOK, VenueOK, BrokerStatus
<1>11. CASE ResponseLost
  BY <1>11 DEF ResponseLost, Goto, PlacedInv, Attribution, Settlement, TypeOK,
     SignalsOK, OrdersOK, ProcessorOK, VenueOK, BrokerStatus
<1>12. CASE MarkOrderSubmitted
  BY <1>12, ConstantsAssumption DEF MarkOrderSubmitted, Goto, PlacedInv,
     Attribution, Settlement, TypeOK, SignalsOK, OrdersOK, ProcessorOK,
     VenueOK, BrokerStatus
<1>13. CASE MarkOrderUncertain
  BY <1>13 DEF MarkOrderUncertain, Goto, PlacedInv, Attribution, Settlement,
     TypeOK, SignalsOK, OrdersOK, ProcessorOK, VenueOK, BrokerStatus
<1>14. CASE MarkOrderFailed
  BY <1>14 DEF MarkOrderFailed, Goto, PlacedInv, Attribution, Settlement,
     TypeOK, SignalsOK, OrdersOK, ProcessorOK, VenueOK, BrokerStatus
<1>15. CASE SetRetryAfter
  BY <1>15 DEF SetRetryAfter, Return, PlacedInv, Attribution, Settlement,
     TypeOK, SignalsOK, OrdersOK, ProcessorOK, VenueOK, BrokerStatus
<1>16. CASE MarkSignalRejected
  BY <1>16 DEF MarkSignalRejected, Return, PlacedInv, Attribution, Settlement,
     TypeOK, SignalsOK, OrdersOK, ProcessorOK, VenueOK, BrokerStatus
<1>17. CASE MarkSignalProcessed
  BY <1>17 DEF MarkSignalProcessed, Goto, PlacedInv, Attribution, Settlement,
     TypeOK, SignalsOK, OrdersOK, ProcessorOK, VenueOK, BrokerStatus
<1>18. CASE ClearRetryAfter
  BY <1>18 DEF ClearRetryAfter, Return, PlacedInv, Attribution, Settlement,
     TypeOK, SignalsOK, OrdersOK, ProcessorOK, VenueOK, BrokerStatus
<1>19. CASE TakeFill
  BY <1>19 DEF TakeFill, PlacedInv, Attribution, Settlement, TypeOK, SignalsOK,
     OrdersOK, ProcessorOK, VenueOK, BrokerStatus
<1>20. CASE ApplyFillToOrder
  BY <1>20, ConstantsAssumption DEF ApplyFillToOrder, MatchingRows, AddFill,
     PlacedInv, Attribution, Settlement, TypeOK, SignalsOK, OrdersOK,
     ProcessorOK, VenueOK, BrokerStatus
<1>21. CASE OrphanKnown
  <2>1. PICK t \in Signals : /\ CurrentBid # None
                             /\ venSig[CurrentBid] = t
                             /\ Backfill(t, CurrentBid)
    BY <1>21 DEF OrphanKnown, RowsByCliOrdId
  <2>2. CurrentBid \in Bids
    BY <1>21, <2>1 DEF OrphanKnown, CurrentBid, TypeOK, ReconcilerOK
  <2> QED BY <1>21, <2>1, <2>2, BackfillEffect, ConstantsAssumption
          DEF OrphanKnown, PlacedInv, Attribution, Settlement, TypeOK,
              ProcessorOK
<1>22. CASE OrphanUnknown
  BY <1>22 DEF OrphanUnknown, PlacedInv, Attribution, Settlement, TypeOK,
     SignalsOK, OrdersOK, ProcessorOK, VenueOK, BrokerStatus
<1>23. CASE ReapplyFillToOrder
  BY <1>23, ConstantsAssumption DEF ReapplyFillToOrder, MatchingRows, AddFill,
     PlacedInv, Attribution, Settlement, TypeOK, SignalsOK, OrdersOK,
     ProcessorOK, VenueOK, BrokerStatus
<1>24. CASE ApplyFillToPosition
  BY <1>24 DEF ApplyFillToPosition, PlacedInv, Attribution, Settlement, TypeOK,
     SignalsOK, OrdersOK, ProcessorOK, VenueOK, BrokerStatus
<1>25. CASE RecordFillApplied
  BY <1>25 DEF RecordFillApplied, PlacedInv, Attribution, Settlement, TypeOK,
     SignalsOK, OrdersOK, ProcessorOK, VenueOK, BrokerStatus
<1>26. ASSUME NEW s \in Signals, RejectBeforeSubmit(s) PROVE PlacedInv'
  BY <1>26 DEF RejectBeforeSubmit, Selectable, PlacedInv, Attribution,
     Settlement, TypeOK, SignalsOK, OrdersOK, ProcessorOK, VenueOK,
     BrokerStatus
<1>27. ASSUME NEW s \in Signals, Approve(s) PROVE PlacedInv'
  BY <1>27, ConstantsAssumption DEF Approve, Selectable, PlacedInv,
     Attribution, Settlement, TypeOK, SignalsOK, OrdersOK, ProcessorOK,
     VenueOK, BrokerStatus
<1>28. ASSUME NEW s \in Signals, NEW r \in {"current", "stale"}, PlaceOrder(s, r)
      PROVE PlacedInv'
  BY <1>28, ConstantsAssumption DEF PlaceOrder, PlacedInv, Attribution,
     Settlement, TypeOK, SignalsOK, OrdersOK, ProcessorOK, VenueOK,
     BrokerStatus
<1>29. ASSUME NEW s \in Signals, NEW r \in {"current", "stale"}, RefuseOrder(s, r)
      PROVE PlacedInv'
  BY <1>29 DEF RefuseOrder, PlacedInv, Attribution, Settlement, TypeOK,
     SignalsOK, OrdersOK, ProcessorOK, VenueOK, BrokerStatus
<1>30. ASSUME NEW s \in Signals, NEW r \in {"current", "stale"}, LoseRequest(s, r)
      PROVE PlacedInv'
  BY <1>30 DEF LoseRequest, PlacedInv, Attribution, Settlement, TypeOK,
     SignalsOK, OrdersOK, ProcessorOK, VenueOK, BrokerStatus
<1>31. ASSUME NEW s \in Signals, CooldownElapses(s) PROVE PlacedInv'
  BY <1>31 DEF CooldownElapses, PlacedInv, Attribution, Settlement, TypeOK,
     SignalsOK, OrdersOK, ProcessorOK, VenueOK, BrokerStatus
<1>32. ASSUME NEW s \in Signals, Expire(s) PROVE PlacedInv'
  BY <1>32 DEF Expire, PlacedInv, Attribution, Settlement, TypeOK, SignalsOK,
     OrdersOK, ProcessorOK, VenueOK, BrokerStatus
<1>33. ASSUME NEW b \in Bids, ExecuteContract(b) PROVE PlacedInv'
  BY <1>33 DEF ExecuteContract, PlacedInv, Attribution, Settlement, TypeOK,
     SignalsOK, OrdersOK, ProcessorOK, VenueOK, BrokerStatus
<1>34. ASSUME NEW b \in Bids, CancelOrder(b) PROVE PlacedInv'
  BY <1>34 DEF CancelOrder, PlacedInv, Attribution, Settlement, TypeOK,
     SignalsOK, OrdersOK, ProcessorOK, VenueOK, BrokerStatus
<1>35. CASE ExternalFill
  BY <1>35 DEF ExternalFill, PlacedInv, Attribution, Settlement, TypeOK,
     SignalsOK, OrdersOK, ProcessorOK, VenueOK, BrokerStatus
<1>36. CASE Crash
  BY <1>36 DEF Crash, Return, PlacedInv, Attribution, Settlement, TypeOK,
     SignalsOK, OrdersOK, ProcessorOK, VenueOK, BrokerStatus
<1>37. CASE ProcessorDbError
  BY <1>37 DEF ProcessorDbError, Return, PlacedInv, Attribution, Settlement,
     TypeOK, SignalsOK, OrdersOK, ProcessorOK, VenueOK, BrokerStatus
<1>38. CASE ReconcilerDbError
  BY <1>38 DEF ReconcilerDbError, PlacedInv, Attribution, Settlement, TypeOK,
     SignalsOK, OrdersOK, ProcessorOK, VenueOK, BrokerStatus
<1>39. CASE OrphanDbError
  BY <1>39 DEF OrphanDbError, PlacedInv, Attribution, Settlement, TypeOK,
     SignalsOK, OrdersOK, ProcessorOK, VenueOK, BrokerStatus
<1>40. CASE UNCHANGED vars
  BY <1>40 DEF vars, PlacedInv, Attribution, Settlement, TypeOK, SignalsOK,
     OrdersOK, ProcessorOK, VenueOK, BrokerStatus
<1> QED BY <1>1, <1>2, <1>3, <1>4, <1>5, <1>6, <1>7, <1>8, <1>9, <1>10, <1>11,
           <1>12, <1>13, <1>14, <1>15, <1>16, <1>17, <1>18, <1>19, <1>20,
           <1>21, <1>22, <1>23, <1>24, <1>25, <1>26, <1>27, <1>28, <1>29,
           <1>30, <1>31, <1>32, <1>33, <1>34, <1>35, <1>36, <1>37, <1>38,
           <1>39, <1>40
       DEF Next, ProcessorStep, ReconcilerStep, Resolve

\* PlacedInv holds throughout.
LEMMA PlacedInvariant == Spec => []PlacedInv
<1>1. Init => PlacedInv
  BY ConstantsAssumption DEF Init, PlacedInv, Attribution, Settlement,
     BrokerStatus
<1> QED BY <1>1, TypeCorrect, PlacedStep, PTL DEF Spec

\* Whatever is lost, delayed, repeated or crashed between the statements of the
\* two tasks, a signal is marked processed only on a venue order that carries
\* its own cli_ord_id.
THEOREM ProcessedIsPlacedTheorem == Spec => []ProcessedIsPlaced
<1>1. PlacedInv => ProcessedIsPlaced
  BY DEF PlacedInv, Attribution, Settlement, ProcessedIsPlaced
<1> QED BY <1>1, PlacedInvariant, PTL

-----------------------------------------------------------------------------
(* Never two live orders of one signal, whatever the venue checks.         *)

\* Nothing in the invariant depends on the fills.
LEMMA KeepFlight ==
    ASSUME FlightInv,
           UNCHANGED <<procVars, cooling, ordStatus, venSig, venOpen, net>>
    PROVE  FlightInv'
  BY DEF FlightInv, SingleFlight, NeverTwoOpenOrders, OpenOrdersOf, OrdersOf

\* The invariant is inductive when neither a crash nor a failed statement of
\* the processor cuts the cooldown short.
LEMMA FlightStep ==
    ASSUME FaultKinds \cap {"crash", "processor"} = {},
           TypeOK, PlacedInv, FlightInv, [Next]_vars
    PROVE  FlightInv'
<1>1. CASE ReconcileStep
  BY <1>1 DEF ReconcileStep, Goto, Return, PendingOrderStatus, OrderStatus,
     FlightInv, SingleFlight, NeverTwoOpenOrders, OpenOrdersOf, OrdersOf,
     PlacedInv, Attribution, TypeOK, SignalsOK, OrdersOK, ProcessorOK, VenueOK
<1>2. CASE LookupFound
  BY <1>2 DEF LookupFound, OpenOrdersOf, OrdersOf, FlightInv, SingleFlight,
     NeverTwoOpenOrders, OpenOrdersOf, OrdersOf, PlacedInv, Attribution,
     TypeOK, SignalsOK, OrdersOK, ProcessorOK, VenueOK
<1>3. CASE LookupAbsent
  BY <1>3 DEF LookupAbsent, FlightInv, SingleFlight, NeverTwoOpenOrders,
     OpenOrdersOf, OrdersOf, PlacedInv, Attribution, TypeOK, SignalsOK,
     OrdersOK, ProcessorOK, VenueOK
<1>4. CASE LookupFails
  BY <1>4 DEF LookupFails, Goto, FlightInv, SingleFlight, NeverTwoOpenOrders,
     OpenOrdersOf, OrdersOf, PlacedInv, Attribution, TypeOK, SignalsOK,
     OrdersOK, ProcessorOK, VenueOK
<1>5. CASE AdoptFound
  BY <1>5 DEF AdoptFound, Goto, Backfill, FlightInv, SingleFlight,
     NeverTwoOpenOrders, OpenOrdersOf, OrdersOf, PlacedInv, Attribution,
     TypeOK, SignalsOK, OrdersOK, ProcessorOK, VenueOK
<1>6. CASE BuildOrder
  BY <1>6 DEF BuildOrder, Goto, FlightInv, SingleFlight, NeverTwoOpenOrders,
     OpenOrdersOf, OrdersOf, PlacedInv, Attribution, TypeOK, SignalsOK,
     OrdersOK, ProcessorOK, VenueOK
<1>7. CASE InsertPendingOrder
  BY <1>7 DEF InsertPendingOrder, Goto, Return, FlightInv, SingleFlight,
     NeverTwoOpenOrders, OpenOrdersOf, OrdersOf, PlacedInv, Attribution,
     TypeOK, SignalsOK, OrdersOK, ProcessorOK, VenueOK
<1>8. CASE SubmitOrder
  <2>1. /\ net[cur] = {} /\ OpenOrdersOf(cur) = {} /\ cur \in Signals
        /\ ordStatus[cur] # "absent"
    BY <1>8 DEF SubmitOrder, FlightInv, SingleFlight, TypeOK, ProcessorOK
  <2>2. NeverTwoOpenOrders'
    BY <1>8 DEF SubmitOrder, FlightInv, NeverTwoOpenOrders, OpenOrdersOf, OrdersOf
  <2>3. SingleFlight'
    BY <1>8, <2>1 DEF SubmitOrder, Goto, FlightInv, SingleFlight, OpenOrdersOf,
       OrdersOf, TypeOK, VenueOK
  <2> QED BY <2>2, <2>3 DEF FlightInv
<1>9. CASE ResponseOk
  BY <1>9 DEF ResponseOk, Goto, FlightInv, SingleFlight, NeverTwoOpenOrders,
     OpenOrdersOf, OrdersOf, PlacedInv, Attribution, TypeOK, SignalsOK,
     OrdersOK, ProcessorOK, VenueOK
<1>10. CASE ResponseError
  BY <1>10 DEF ResponseError, Goto, FlightInv, SingleFlight,
     NeverTwoOpenOrders, OpenOrdersOf, OrdersOf, PlacedInv, Attribution,
     TypeOK, SignalsOK, OrdersOK, ProcessorOK, VenueOK
<1>11. CASE ResponseLost
  BY <1>11 DEF ResponseLost, Goto, FlightInv, SingleFlight, NeverTwoOpenOrders,
     OpenOrdersOf, OrdersOf, PlacedInv, Attribution, TypeOK, SignalsOK,
     OrdersOK, ProcessorOK, VenueOK
<1>12. CASE MarkOrderSubmitted
  BY <1>12, ConstantsAssumption DEF MarkOrderSubmitted, Goto, BrokerStatus,
     FlightInv, SingleFlight, NeverTwoOpenOrders, OpenOrdersOf, OrdersOf,
     PlacedInv, Attribution, TypeOK, SignalsOK, OrdersOK, ProcessorOK, VenueOK
<1>13. CASE MarkOrderUncertain
  BY <1>13 DEF MarkOrderUncertain, Goto, FlightInv, SingleFlight,
     NeverTwoOpenOrders, OpenOrdersOf, OrdersOf, PlacedInv, Attribution,
     TypeOK, SignalsOK, OrdersOK, ProcessorOK, VenueOK
<1>14. CASE MarkOrderFailed
  BY <1>14 DEF MarkOrderFailed, Goto, FlightInv, SingleFlight,
     NeverTwoOpenOrders, OpenOrdersOf, OrdersOf, PlacedInv, Attribution,
     TypeOK, SignalsOK, OrdersOK, ProcessorOK, VenueOK
<1>15. CASE SetRetryAfter
  BY <1>15 DEF SetRetryAfter, Return, FlightInv, SingleFlight,
     NeverTwoOpenOrders, OpenOrdersOf, OrdersOf, PlacedInv, Attribution,
     TypeOK, SignalsOK, OrdersOK, ProcessorOK, VenueOK
<1>16. CASE MarkSignalRejected
  BY <1>16 DEF MarkSignalRejected, Return, FlightInv, SingleFlight,
     NeverTwoOpenOrders, OpenOrdersOf, OrdersOf, PlacedInv, Attribution,
     TypeOK, SignalsOK, OrdersOK, ProcessorOK, VenueOK
<1>17. CASE MarkSignalProcessed
  BY <1>17 DEF MarkSignalProcessed, Goto, FlightInv, SingleFlight,
     NeverTwoOpenOrders, OpenOrdersOf, OrdersOf, PlacedInv, Attribution,
     TypeOK, SignalsOK, OrdersOK, ProcessorOK, VenueOK
<1>18. CASE ClearRetryAfter
  BY <1>18 DEF ClearRetryAfter, Return, FlightInv, SingleFlight,
     NeverTwoOpenOrders, OpenOrdersOf, OrdersOf, PlacedInv, Attribution,
     TypeOK, SignalsOK, OrdersOK, ProcessorOK, VenueOK
<1>19. CASE TakeFill
  BY <1>19, KeepFlight DEF TakeFill
<1>20. CASE ApplyFillToOrder
  BY <1>20 DEF ApplyFillToOrder, MatchingRows, AddFill, FlightInv,
     SingleFlight, NeverTwoOpenOrders, OpenOrdersOf, OrdersOf, PlacedInv,
     Attribution, TypeOK, SignalsOK, OrdersOK, ProcessorOK, VenueOK
<1>21. CASE OrphanKnown
  BY <1>21 DEF OrphanKnown, RowsByCliOrdId, Backfill, FlightInv, SingleFlight,
     NeverTwoOpenOrders, OpenOrdersOf, OrdersOf, PlacedInv, Attribution,
     TypeOK, SignalsOK, OrdersOK, ProcessorOK, VenueOK
<1>22. CASE OrphanUnknown
  BY <1>22, KeepFlight DEF OrphanUnknown
<1>23. CASE ReapplyFillToOrder
  BY <1>23 DEF ReapplyFillToOrder, MatchingRows, AddFill, FlightInv,
     SingleFlight, NeverTwoOpenOrders, OpenOrdersOf, OrdersOf, PlacedInv,
     Attribution, TypeOK, SignalsOK, OrdersOK, ProcessorOK, VenueOK
<1>24. CASE ApplyFillToPosition
  BY <1>24, KeepFlight DEF ApplyFillToPosition
<1>25. CASE RecordFillApplied
  BY <1>25, KeepFlight DEF RecordFillApplied
<1>26. ASSUME NEW s \in Signals, RejectBeforeSubmit(s) PROVE FlightInv'
  BY <1>26, KeepFlight DEF RejectBeforeSubmit
<1>27. ASSUME NEW s \in Signals, Approve(s) PROVE FlightInv'
  BY <1>27 DEF Approve, Selectable, FlightInv, SingleFlight,
     NeverTwoOpenOrders, OpenOrdersOf, OrdersOf, PlacedInv, Attribution,
     TypeOK, SignalsOK, OrdersOK, ProcessorOK, VenueOK
<1>28. ASSUME NEW s \in Signals, NEW r \in {"current", "stale"}, PlaceOrder(s, r)
      PROVE FlightInv'
  BY <1>28, ConstantsAssumption DEF PlaceOrder, FlightInv, SingleFlight,
     NeverTwoOpenOrders, OpenOrdersOf, OrdersOf, PlacedInv, Attribution,
     TypeOK, SignalsOK, OrdersOK, ProcessorOK, VenueOK
<1>29. ASSUME NEW s \in Signals, NEW r \in {"current", "stale"}, RefuseOrder(s, r)
      PROVE FlightInv'
  BY <1>29 DEF RefuseOrder, FlightInv, SingleFlight, NeverTwoOpenOrders,
     OpenOrdersOf, OrdersOf, PlacedInv, Attribution, TypeOK, SignalsOK,
     OrdersOK, ProcessorOK, VenueOK
<1>30. ASSUME NEW s \in Signals, NEW r \in {"current", "stale"}, LoseRequest(s, r)
      PROVE FlightInv'
  BY <1>30 DEF LoseRequest, FlightInv, SingleFlight, NeverTwoOpenOrders,
     OpenOrdersOf, OrdersOf, PlacedInv, Attribution, TypeOK, SignalsOK,
     OrdersOK, ProcessorOK, VenueOK
<1>31. ASSUME NEW s \in Signals, CooldownElapses(s) PROVE FlightInv'
  BY <1>31 DEF CooldownElapses, FlightInv, SingleFlight, NeverTwoOpenOrders,
     OpenOrdersOf, OrdersOf, PlacedInv, Attribution, TypeOK, SignalsOK,
     OrdersOK, ProcessorOK, VenueOK
<1>32. ASSUME NEW s \in Signals, Expire(s) PROVE FlightInv'
  BY <1>32, KeepFlight DEF Expire
<1>33. ASSUME NEW b \in Bids, ExecuteContract(b) PROVE FlightInv'
  BY <1>33 DEF ExecuteContract, FlightInv, SingleFlight, NeverTwoOpenOrders,
     OpenOrdersOf, OrdersOf, PlacedInv, Attribution, TypeOK, SignalsOK,
     OrdersOK, ProcessorOK, VenueOK
<1>34. ASSUME NEW b \in Bids, CancelOrder(b) PROVE FlightInv'
  BY <1>34 DEF CancelOrder, FlightInv, SingleFlight, NeverTwoOpenOrders,
     OpenOrdersOf, OrdersOf, PlacedInv, Attribution, TypeOK, SignalsOK,
     OrdersOK, ProcessorOK, VenueOK
<1>35. CASE ExternalFill
  BY <1>35, KeepFlight DEF ExternalFill
<1>36. CASE Crash
  BY <1>36, ConstantsAssumption DEF Crash, Fault
<1>37. CASE ProcessorDbError
  BY <1>37, ConstantsAssumption DEF ProcessorDbError, Fault
<1>38. CASE ReconcilerDbError
  BY <1>38, KeepFlight DEF ReconcilerDbError
<1>39. CASE OrphanDbError
  BY <1>39, KeepFlight DEF OrphanDbError
<1>40. CASE UNCHANGED vars
  BY <1>40, KeepFlight DEF vars
<1> QED BY <1>1, <1>2, <1>3, <1>4, <1>5, <1>6, <1>7, <1>8, <1>9, <1>10, <1>11,
           <1>12, <1>13, <1>14, <1>15, <1>16, <1>17, <1>18, <1>19, <1>20,
           <1>21, <1>22, <1>23, <1>24, <1>25, <1>26, <1>27, <1>28, <1>29,
           <1>30, <1>31, <1>32, <1>33, <1>34, <1>35, <1>36, <1>37, <1>38,
           <1>39, <1>40
       DEF Next, ProcessorStep, ReconcilerStep, Resolve

\* The uncertain path alone (cooldown, lookup by cli_ord_id, resubmission into
\* the same row, the UNIQUE index) keeps a signal from ever having two live
\* orders, even at a venue that accepts any cli_ord_id, as long as no crash or
\* failed statement comes between marking the order uncertain and the cooldown.
THEOREM NeverTwoOpenOrdersTheorem ==
    ASSUME FaultKinds \cap {"crash", "processor"} = {}
    PROVE  Spec => []NeverTwoOpenOrders
<1>1. Init => FlightInv
  BY ConstantsAssumption DEF Init, FlightInv, SingleFlight, NeverTwoOpenOrders,
     OpenOrdersOf, OrdersOf
<1>2. FlightInv => NeverTwoOpenOrders
  BY DEF FlightInv
<1> QED BY <1>1, <1>2, TypeCorrect, PlacedInvariant, FlightStep, PTL DEF Spec

-----------------------------------------------------------------------------
(* Every order has its row.                                                *)

\* No statement takes a row out of the orders table.
LEMMA RowsStay ==
    ASSUME TypeOK, [Next]_vars, NEW s \in Signals, ordStatus[s] # "absent"
    PROVE  ordStatus'[s] # "absent"
<1> USE DEF TypeOK, OrdersOK
<1>1. CASE ordStatus' = ordStatus
  BY <1>1
<1>2. CASE AdoptFound \/ OrphanKnown
  BY <1>2 DEF AdoptFound, OrphanKnown, Backfill
<1>3. CASE InsertPendingOrder \/ MarkOrderUncertain \/ MarkOrderFailed
  BY <1>3 DEF InsertPendingOrder, MarkOrderUncertain, MarkOrderFailed
<1>4. CASE MarkOrderSubmitted
  BY <1>4, ConstantsAssumption DEF MarkOrderSubmitted, BrokerStatus
<1>5. CASE ApplyFillToOrder \/ ReapplyFillToOrder
  BY <1>5 DEF ApplyFillToOrder, ReapplyFillToOrder, AddFill
<1>6. ProcessorStep =>
         \/ ordStatus' = ordStatus
         \/ AdoptFound \/ InsertPendingOrder \/ MarkOrderUncertain
         \/ MarkOrderFailed \/ MarkOrderSubmitted
  BY DEF ProcessorStep, ReconcileStep, LookupFound, LookupAbsent, LookupFails,
         BuildOrder, SubmitOrder, ResponseOk, ResponseError, ResponseLost,
         SetRetryAfter, MarkSignalRejected, MarkSignalProcessed,
         ClearRetryAfter, outsideVenue, orderVars
<1>7. ReconcilerStep =>
         \/ ordStatus' = ordStatus
         \/ ApplyFillToOrder \/ OrphanKnown \/ ReapplyFillToOrder
  BY DEF ReconcilerStep, TakeFill, OrphanUnknown, ApplyFillToPosition,
         RecordFillApplied, orderVars
<1>8. ProcessorStep \/ ReconcilerStep \/ ordStatus' = ordStatus
  BY DEF Next, RejectBeforeSubmit, Approve, Resolve, PlaceOrder, RefuseOrder,
         LoseRequest, CooldownElapses, Expire, ExecuteContract, CancelOrder,
         ExternalFill, Crash, ProcessorDbError, ReconcilerDbError,
         OrphanDbError, vars, outsideVenue, orderVars
<1> QED BY <1>1, <1>2, <1>3, <1>4, <1>5, <1>6, <1>7, <1>8

\* What the fill reconciler, the clocks and the venue's executions leave alone.
LEMMA KeepRow ==
    ASSUME TypeOK, RowInv, [Next]_vars, UNCHANGED <<pc, cur, reuse, venSig>>,
           \A s \in Signals : net'[s] \subseteq net[s]
    PROVE  RowInv'
<1>1. OrderHasRow'
  BY RowsStay DEF RowInv, OrderHasRow, OrdersOf
<1>2. pc # "idle" => cur \in Signals
  BY DEF TypeOK, ProcessorOK
<1> QED BY <1>1, <1>2, RowsStay DEF RowInv

\* Every step keeps the rows behind the venue orders and the requests.
LEMMA RowStep ==
    ASSUME TypeOK, RowInv, [Next]_vars
    PROVE  RowInv'
<1>1. CASE ProcessorStep
  <2>1. pc # "idle" /\ cur \in Signals
    BY <1>1 DEF ProcessorStep, ReconcileStep, LookupFound, LookupAbsent,
       LookupFails, AdoptFound, BuildOrder, InsertPendingOrder, SubmitOrder,
       ResponseOk, ResponseError, ResponseLost, MarkOrderSubmitted,
       MarkOrderUncertain, MarkOrderFailed, SetRetryAfter, MarkSignalRejected,
       MarkSignalProcessed, ClearRetryAfter, TypeOK, ProcessorOK
  <2>2. CASE SubmitOrder
    <3>1. /\ net' = [net EXCEPT ![cur] = @ \cup {"current"}]
          /\ ordStatus' = ordStatus /\ venSig' = venSig
          /\ pc' = "await" /\ ordStatus[cur] # "absent"
      BY <2>2 DEF SubmitOrder, Goto, outsideVenue, venueVars, orderVars, RowInv
    <3>2. OrderHasRow'
      BY <2>1, <3>1 DEF RowInv, OrderHasRow, OrdersOf, TypeOK, VenueOK
    <3> QED BY <3>1, <3>2 DEF RowInv
  <2>3. CASE ~SubmitOrder
    <3>1. venSig' = venSig /\ \A s \in Signals : net'[s] # {} => net[s] # {}
      BY <1>1, <2>1, <2>3 DEF ProcessorStep, ReconcileStep, LookupFound,
         LookupAbsent, LookupFails, AdoptFound, BuildOrder, InsertPendingOrder,
         ResponseOk, ResponseError, ResponseLost, MarkOrderSubmitted,
         MarkOrderUncertain, MarkOrderFailed, SetRetryAfter,
         MarkSignalRejected, MarkSignalProcessed, ClearRetryAfter,
         outsideProcessor, venueVars, TypeOK, VenueOK
    <3>2. OrderHasRow'
      BY <3>1, RowsStay DEF RowInv, OrderHasRow, OrdersOf
    <3>3. pc' \in {"idle", "reconcile", "lookup"} => ~reuse'
      BY <1>1, <2>3 DEF ProcessorStep, ReconcileStep, LookupFound,
         LookupAbsent, LookupFails, AdoptFound, BuildOrder, InsertPendingOrder,
         ResponseOk, ResponseError, ResponseLost, MarkOrderSubmitted,
         MarkOrderUncertain, MarkOrderFailed, SetRetryAfter,
         MarkSignalRejected, MarkSignalProcessed, ClearRetryAfter, Goto,
         Return, RowInv
    <3>4. pc' \in {"lookup", "send"} \/ (pc' = "build" /\ reuse')
             => cur' = cur /\ ordStatus'[cur] # "absent"
      <4>1. CASE ReconcileStep
        BY <2>1, <4>1 DEF ReconcileStep, Goto, Return, PendingOrderStatus,
           outsideVenue, orderVars, RowInv
      <4>2. CASE LookupAbsent
        BY <4>2, RowsStay, <2>1 DEF LookupAbsent, RowInv
      <4>3. CASE BuildOrder
        BY <4>3, RowsStay, <2>1 DEF BuildOrder, Goto, RowInv
      <4>4. CASE InsertPendingOrder
        BY <2>1, <4>4 DEF InsertPendingOrder, Goto, Return, TypeOK, OrdersOK
      <4>5. CASE ~(ReconcileStep \/ LookupAbsent \/ BuildOrder
                      \/ InsertPendingOrder)
        BY <1>1, <2>3, <4>5 DEF ProcessorStep, LookupFound, LookupFails,
           AdoptFound, ResponseOk, ResponseError, ResponseLost,
           MarkOrderSubmitted, MarkOrderUncertain, MarkOrderFailed,
           SetRetryAfter, MarkSignalRejected, MarkSignalProcessed,
           ClearRetryAfter, Goto, Return
      <4> QED BY <4>1, <4>2, <4>3, <4>4, <4>5
    <3> QED BY <3>2, <3>3, <3>4 DEF RowInv
  <2> QED BY <2>2, <2>3
<1>2. CASE ReconcilerStep
  BY <1>2, KeepRow DEF ReconcilerStep, TakeFill, ApplyFillToOrder, OrphanKnown,
     OrphanUnknown, ReapplyFillToOrder, ApplyFillToPosition, RecordFillApplied,
     outsideReconciler, procVars, venueVars
<1>3. ASSUME NEW s \in Signals, Approve(s)
      PROVE  RowInv'
  BY <1>3 DEF Approve, Selectable, outsideVenue, orderVars, venueVars, RowInv,
     OrderHasRow, OrdersOf
<1>4. ASSUME NEW s \in Signals, NEW r \in {"current", "stale"}, PlaceOrder(s, r)
      PROVE  RowInv'
  <2>1. PICK b \in Bids : /\ venSig[b] = None
                          /\ venSig' = [venSig EXCEPT ![b] = s]
    BY <1>4 DEF PlaceOrder
  <2>2. /\ net[s] # {} /\ net' = [net EXCEPT ![s] = @ \ {r}]
        /\ UNCHANGED <<pc, cur, reuse, ordStatus>>
    BY <1>4 DEF PlaceOrder, outsideVenue, orderVars
  <2>3. \A t \in Signals : OrdersOf(t)' # {} => t = s \/ OrdersOf(t) # {}
    BY <2>1 DEF OrdersOf, TypeOK, VenueOK
  <2>4. \A t \in Signals : net'[t] # {} => net[t] # {}
    BY <2>2 DEF TypeOK, VenueOK
  <2>5. OrderHasRow'
    BY <2>2, <2>3, <2>4 DEF RowInv, OrderHasRow
  <2> QED BY <2>2, <2>5 DEF RowInv
<1>5. ASSUME NEW s \in Signals,
             \/ RejectBeforeSubmit(s) \/ CooldownElapses(s) \/ Expire(s)
             \/ \E r \in {"current", "stale"} :
                   RefuseOrder(s, r) \/ LoseRequest(s, r)
      PROVE  RowInv'
  BY <1>5, KeepRow DEF RejectBeforeSubmit, CooldownElapses, Expire, RefuseOrder,
     LoseRequest, outsideProcessor, outsideVenue, procVars, venueVars, TypeOK,
     VenueOK
<1>6. CASE \/ \E b \in Bids : ExecuteContract(b) \/ CancelOrder(b)
           \/ ExternalFill \/ ReconcilerDbError \/ OrphanDbError
  BY <1>6, KeepRow DEF ExecuteContract, CancelOrder, ExternalFill,
     ReconcilerDbError, OrphanDbError, procVars, venueVars
<1>7. CASE Crash \/ ProcessorDbError
  <2>1. /\ pc' = "idle" /\ reuse' = FALSE /\ UNCHANGED <<ordStatus, venSig>>
        /\ \A s \in Signals : net'[s] # {} => net[s] # {}
    BY <1>7 DEF Crash, ProcessorDbError, Return, orderVars, venueVars
  <2> QED BY <2>1 DEF RowInv, OrderHasRow, OrdersOf
<1>8. CASE UNCHANGED vars
  BY <1>8, KeepRow DEF vars, procVars, venueVars
<1> QED BY <1>1, <1>2, <1>3, <1>4, <1>5, <1>6, <1>7, <1>8 DEF Next, Resolve

\* The invariant behind OrderHasRow.
LEMMA RowInvariant == Spec => []RowInv
<1>1. Init => RowInv
  BY ConstantsAssumption DEF Init, RowInv, OrderHasRow, OrdersOf
<1> QED BY <1>1, TypeCorrect, RowStep, PTL DEF Spec

\* Whatever is lost, late, refused or crashed, every order the venue has or may
\* still get carries the cli_ord_id of a row: insert_pending_order comes before
\* submit_order, a resubmission reuses the row, and no statement deletes one.
THEOREM OrderHasRowTheorem == Spec => []OrderHasRow
<1>1. RowInv => OrderHasRow
  BY DEF RowInv
<1> QED BY <1>1, RowInvariant, PTL

-----------------------------------------------------------------------------
(* No fill is counted twice.                                               *)

\* A new fill reaches the end of the feed, counted nowhere.
LEMMA Emitted ==
    ASSUME ReconcilerOK, NEW b \in Bids \cup {None}, EmitFill(b)
    PROVE  /\ DOMAIN feed' = DOMAIN feed \cup {Len(feed) + 1}
           /\ Len(feed) + 1 \notin DOMAIN feed
           /\ feed'[Len(feed) + 1] = b
           /\ ordN'[Len(feed) + 1] = 0 /\ posN'[Len(feed) + 1] = 0
           /\ torn'[Len(feed) + 1] = 0
           /\ \A f \in DOMAIN feed : /\ feed'[f] = feed[f]
                                     /\ ordN'[f] = ordN[f]
                                     /\ posN'[f] = posN[f]
                                     /\ torn'[f] = torn[f]
<1>1. /\ feed \in Seq(Bids \cup {None}) /\ ordN \in Seq(Nat) /\ posN \in Seq(Nat)
      /\ torn \in Seq(Nat) /\ Len(torn) = Len(feed)
      /\ Len(ordN) = Len(feed) /\ Len(posN) = Len(feed)
      /\ feed' = Append(feed, b) /\ ordN' = Append(ordN, 0)
      /\ posN' = Append(posN, 0) /\ torn' = Append(torn, 0)
  BY DEF ReconcilerOK, EmitFill
<1>2. /\ DOMAIN feed' = DOMAIN feed \cup {Len(feed) + 1}
      /\ Len(feed) + 1 \notin DOMAIN feed
      /\ feed'[Len(feed) + 1] = b
      /\ \A f \in DOMAIN feed : feed'[f] = feed[f]
  BY <1>1, AppendProperties
<1>3. ordN'[Len(feed) + 1] = 0 /\ \A f \in DOMAIN feed : ordN'[f] = ordN[f]
  BY <1>1, AppendProperties
<1>4. posN'[Len(feed) + 1] = 0 /\ \A f \in DOMAIN feed : posN'[f] = posN[f]
  BY <1>1, AppendProperties
<1>5. torn'[Len(feed) + 1] = 0 /\ \A f \in DOMAIN feed : torn'[f] = torn[f]
  BY <1>1, AppendProperties
<1> QED BY <1>2, <1>3, <1>4, <1>5

\* A fill is added to a row once more.
LEMMA Counted ==
    ASSUME ReconcilerOK, Current \in DOMAIN feed, NEW s \in Signals, AddFill(s)
    PROVE  /\ ordN'[Current] = ordN[Current] + 1
           /\ \A f \in DOMAIN feed \ {Current} : ordN'[f] = ordN[f]
<1>1. DOMAIN ordN = DOMAIN feed
  BY DEF ReconcilerOK
<1> QED BY <1>1 DEF AddFill

\* OnceInv is about the reconciler's counters and place only.
LEMMA KeepOnce ==
    ASSUME OnceInv, UNCHANGED <<feed, ordN, posN, torn, applied, rpc, mark>>
    PROVE  OnceInv'
  BY DEF OnceInv, UnderWay, Current

\* The counters run along the feed.
LEMMA CounterFacts ==
    ASSUME ReconcilerOK
    PROVE  /\ mark \in Nat /\ DOMAIN feed \subseteq Nat
           /\ applied \subseteq DOMAIN feed
           /\ DOMAIN ordN = DOMAIN feed /\ DOMAIN posN = DOMAIN feed
           /\ \A f \in DOMAIN feed :
                 ordN[f] \in Nat /\ posN[f] \in Nat /\ torn[f] \in Nat
<1>1. mark \in Nat /\ applied \subseteq DOMAIN feed /\ feed \in Seq(Bids \cup {None})
  BY DEF ReconcilerOK
<1>2. ordN \in Seq(Nat) /\ Len(ordN) = Len(feed)
  BY DEF ReconcilerOK
<1>3. posN \in Seq(Nat) /\ Len(posN) = Len(feed)
  BY DEF ReconcilerOK
<1>4. DOMAIN feed \subseteq Nat
  BY <1>1
<1>5. DOMAIN ordN = DOMAIN feed /\ \A f \in DOMAIN ordN : ordN[f] \in Nat
  BY <1>1, <1>2
<1>6. DOMAIN posN = DOMAIN feed /\ \A f \in DOMAIN posN : posN[f] \in Nat
  BY <1>1, <1>3
<1>7. torn \in Seq(Nat) /\ Len(torn) = Len(feed)
  BY DEF ReconcilerOK
<1>8. \A f \in DOMAIN feed : torn[f] \in Nat
  BY <1>1, <1>7
<1> QED BY <1>1, <1>4, <1>5, <1>6, <1>8

\* A fill under way is not recorded, and each of its transactions adds one.
LEMMA OnceReconciler ==
    ASSUME TypeOK, OnceInv, ReconcilerStep
    PROVE  OnceInv'
<1> USE DEF TypeOK
<1>1. /\ mark \in Nat /\ DOMAIN feed \subseteq Nat
      /\ applied \subseteq DOMAIN feed
      /\ DOMAIN ordN = DOMAIN feed /\ DOMAIN posN = DOMAIN feed
      /\ \A f \in DOMAIN feed :
            ordN[f] \in Nat /\ posN[f] \in Nat /\ torn[f] \in Nat
  BY CounterFacts
<1>2. CASE TakeFill
  <2>1. /\ rpc = "idle" /\ UNCHANGED <<feed, ordN, posN, torn, applied>>
        /\ \/ rpc' = "idle"
           \/ mark' = mark /\ rpc' = "order" /\ Current \notin applied
    BY <1>2 DEF TakeFill
  <2> QED BY <2>1 DEF OnceInv, UnderWay, Current
<1>3. CASE ApplyFillToOrder \/ ReapplyFillToOrder
  <2>1. /\ rpc \in {"order", "reapply"} /\ Current \in DOMAIN feed
        /\ UNCHANGED <<feed, posN, torn, applied, mark>>
    BY <1>3 DEF ApplyFillToOrder, ReapplyFillToOrder, ReconcilerOK
  <2>2. CASE \E s \in MatchingRows : AddFill(s) /\ rpc' = "position"
    <3>1. PICK s \in Signals : AddFill(s) /\ rpc' = "position"
      BY <2>2 DEF MatchingRows
    <3>2. /\ ordN'[Current] = ordN[Current] + 1
          /\ \A f \in DOMAIN feed \ {Current} : ordN'[f] = ordN[f]
      BY <2>1, <3>1, Counted
    <3>3. Current \notin applied /\ ordN[Current] <= torn[Current]
          /\ posN[Current] <= ordN[Current]
      BY <1>1, <2>1 DEF OnceInv, UnderWay
    <3> QED BY <1>1, <2>1, <3>1, <3>2, <3>3 DEF OnceInv, UnderWay, Current
  <2>3. CASE ordN' = ordN /\ rpc' \in {"orphan", "record"}
    BY <1>1, <2>1, <2>3 DEF OnceInv, UnderWay, Current
  <2> QED BY <1>3, <2>2, <2>3 DEF ApplyFillToOrder, ReapplyFillToOrder
<1>4. CASE OrphanKnown \/ OrphanUnknown
  <2>1. /\ rpc = "orphan" /\ rpc' \in {"reapply", "record"}
        /\ UNCHANGED <<feed, ordN, posN, torn, applied, mark>>
    BY <1>4 DEF OrphanKnown, OrphanUnknown
  <2> QED BY <1>1, <2>1 DEF OnceInv, UnderWay, Current
<1>5. CASE ApplyFillToPosition
  <2>1. /\ rpc = "position" /\ rpc' = "record" /\ Current \in DOMAIN feed
        /\ posN' = [posN EXCEPT ![Current] = @ + 1]
        /\ UNCHANGED <<feed, ordN, torn, applied, mark>>
    BY <1>5 DEF ApplyFillToPosition, ReconcilerOK
  <2>2. /\ posN'[Current] = posN[Current] + 1
        /\ \A f \in DOMAIN feed \ {Current} : posN'[f] = posN[f]
    BY <1>1, <2>1
  <2>3. posN[Current] < ordN[Current]
    BY <2>1 DEF OnceInv
  <2> QED BY <1>1, <2>1, <2>2, <2>3 DEF OnceInv, UnderWay, Current
<1>6. CASE RecordFillApplied
  <2>1. /\ rpc = "record" /\ rpc' = "idle" /\ applied' = applied \cup {Current}
        /\ UNCHANGED <<feed, ordN, posN, torn>>
    BY <1>6 DEF RecordFillApplied
  <2> QED BY <2>1 DEF OnceInv, UnderWay
<1> QED BY <1>2, <1>3, <1>4, <1>5, <1>6 DEF ReconcilerStep

\* Every step keeps the counts.
LEMMA OnceStep ==
    ASSUME TypeOK, OnceInv, [Next]_vars
    PROVE  OnceInv'
<1>1. CASE ProcessorStep
  BY <1>1, KeepOnce DEF ProcessorStep, ReconcileStep, LookupFound,
     LookupAbsent, LookupFails, AdoptFound, BuildOrder, InsertPendingOrder,
     SubmitOrder, ResponseOk, ResponseError, ResponseLost, MarkOrderSubmitted,
     MarkOrderUncertain, MarkOrderFailed, SetRetryAfter, MarkSignalRejected,
     MarkSignalProcessed, ClearRetryAfter
<1>2. CASE ReconcilerStep
  BY <1>2, OnceReconciler
<1>3. ASSUME NEW s \in Signals,
             \/ RejectBeforeSubmit(s) \/ Approve(s) \/ CooldownElapses(s)
             \/ Expire(s) \/ \E r \in {"current", "stale"} : Resolve(s, r)
      PROVE  OnceInv'
  BY <1>3, KeepOnce DEF RejectBeforeSubmit, Approve, CooldownElapses, Expire,
     Resolve, PlaceOrder, RefuseOrder, LoseRequest
<1>4. ASSUME NEW b \in Bids \cup {None}, EmitFill(b), UNCHANGED <<recVars, applied>>
      PROVE  OnceInv'
  <2>1. /\ DOMAIN feed' = DOMAIN feed \cup {Len(feed) + 1}
        /\ ordN'[Len(feed) + 1] = 0 /\ posN'[Len(feed) + 1] = 0
        /\ torn'[Len(feed) + 1] = 0
        /\ \A f \in DOMAIN feed : /\ ordN'[f] = ordN[f]
                                  /\ posN'[f] = posN[f]
                                  /\ torn'[f] = torn[f]
    BY <1>4, Emitted DEF TypeOK
  <2>2. rpc' = rpc /\ mark' = mark /\ applied' = applied
        /\ (rpc # "idle" => Current # Len(feed) + 1)
    BY <1>4 DEF TypeOK, ReconcilerOK
  <2> QED BY <2>1, <2>2 DEF OnceInv, UnderWay, Current
<1>5. CASE ExternalFill \/ \E b \in Bids : ExecuteContract(b)
  BY <1>4, <1>5 DEF ExternalFill, ExecuteContract
<1>6. CASE \E b \in Bids : CancelOrder(b)
  BY <1>6, KeepOnce DEF CancelOrder
<1>7. CASE Crash \/ ReconcilerDbError
  <2>1. /\ rpc' = "idle" /\ Interrupted
        /\ UNCHANGED <<feed, ordN, posN, applied>>
    BY <1>7 DEF Crash, ReconcilerDbError
  <2>2. \A f \in DOMAIN feed :
           torn'[f] = IF UnderWay(f) THEN torn[f] + 1 ELSE torn[f]
    BY <2>1, InterruptedEffect DEF TypeOK
  <2>3. \A f \in DOMAIN feed : torn[f] \in Nat /\ ordN[f] \in Nat
    BY CounterFacts DEF TypeOK
  <2>4. \A f \in DOMAIN feed : UnderWay(f) => f \notin applied
    BY DEF OnceInv, UnderWay
  <2>5. \A f \in DOMAIN feed :
           ordN'[f] <= torn'[f] + IF f \in applied' THEN 1 ELSE 0
    BY <2>1, <2>2, <2>3, <2>4 DEF OnceInv
  <2> QED BY <2>1, <2>5 DEF OnceInv, UnderWay
<1>8. CASE ProcessorDbError
  BY <1>8, KeepOnce DEF ProcessorDbError
<1>9. CASE OrphanDbError
  <2>1. /\ rpc = "orphan" /\ rpc' = "record"
        /\ UNCHANGED <<feed, ordN, posN, torn, applied, mark>>
    BY <1>9 DEF OrphanDbError
  <2>2. \A f \in DOMAIN feed : torn[f] \in Nat /\ ordN[f] \in Nat
    BY CounterFacts DEF TypeOK
  <2> QED BY <2>1, <2>2 DEF OnceInv, UnderWay, Current
<1>10. CASE UNCHANGED vars
  BY <1>10, KeepOnce DEF vars
<1> QED BY <1>1, <1>2, <1>3, <1>5, <1>6, <1>7, <1>8, <1>9, <1>10 DEF Next

\* A fill is added to its order row once, and once more for each time the
\* reconciler was interrupted between that transaction and record_fill_applied,
\* and never more often to the position: not by the retry after the
\* orphan-catcher, not when the orphan-catcher fails, and not by the replay
\* after a restart, however many faults there are.
THEOREM FillAppliedOnceTheorem == Spec => []FillAppliedOnce
<1>1. Init => OnceInv
  BY DEF Init, OnceInv
<1>2. TypeOK /\ OnceInv => FillAppliedOnce
  <2> SUFFICES ASSUME TypeOK, OnceInv, NEW f \in DOMAIN feed
               PROVE  ordN[f] <= 1 + torn[f] /\ posN[f] <= ordN[f]
    BY DEF FillAppliedOnce
  <2>1. torn[f] \in Nat /\ ordN[f] \in Nat
    BY CounterFacts DEF TypeOK
  <2> QED BY <2>1 DEF OnceInv
<1> QED BY <1>1, <1>2, TypeCorrect, OnceStep, PTL DEF Spec

-----------------------------------------------------------------------------
(* No fill is swallowed.                                                   *)

\* A step that touches neither the fills nor what is known of them.
LEMMA KeepSwallow ==
    ASSUME SwallowInv,
           UNCHANGED <<ordBid, applied, rpc, mark, venSig, feed, ordN, posN>>,
           \A b \in Bids : venOpen'[b] => venOpen[b]
    PROVE  SwallowInv'
  BY DEF SwallowInv, NoFillSwallowed, Current, CurrentBid

\* The only order of a signal is the one its row names.
LEMMA RowNames ==
    ASSUME TypeOK, PlacedInv, SwallowInv, NEW s \in Signals, NEW b \in Bids,
           venSig[b] = s, ordBid[s] # None
    PROVE  ordBid[s] = b
<1>1. ordBid[s] \in Bids /\ venSig[ordBid[s]] = s
  BY DEF TypeOK, OrdersOK, PlacedInv, Attribution
<1> QED BY <1>1, ConstantsAssumption DEF SwallowInv

\* Writing a broker order id into a row leaves the row of the fill under way
\* with that fill's order.
LEMMA SwallowBid ==
    ASSUME TypeOK, PlacedInv, PlacedInv', TypeOK', SwallowInv,
           UNCHANGED <<applied, rpc, mark, venSig, venOpen, feed, ordN, posN>>,
           \A s \in Signals : ordBid[s] # None => ordBid'[s] # None
    PROVE  SwallowInv'
<1>1. ASSUME rpc = "reapply", CurrentBid # None
      PROVE  ordBid'[venSig[CurrentBid]] = CurrentBid
  <2>1. CurrentBid \in Bids /\ venSig[CurrentBid] \in Signals
        /\ ordBid[venSig[CurrentBid]] = CurrentBid
    <3>1. Current \in DOMAIN feed /\ feed \in Seq(Bids \cup {None})
          /\ venSig \in [Bids -> Signals \cup {None}]
      BY <1>1 DEF TypeOK, ReconcilerOK, VenueOK
    <3>2. CurrentBid \in Bids
      BY <1>1, <3>1 DEF CurrentBid
    <3>3. venSig[CurrentBid] # None
      BY <1>1, <3>1 DEF SwallowInv, CurrentBid
    <3> QED BY <1>1, <3>1, <3>2, <3>3 DEF SwallowInv
  <2>2. ordBid'[venSig[CurrentBid]] # None
    BY <1>1, <2>1
  <2>3. /\ ordBid'[venSig[CurrentBid]] \in Bids
        /\ venSig[ordBid'[venSig[CurrentBid]]] = venSig[CurrentBid]
    BY <2>1, <2>2 DEF TypeOK, OrdersOK, PlacedInv, Attribution
  <2> QED BY <2>1, <2>3, ConstantsAssumption DEF SwallowInv
<1> QED BY <1>1 DEF SwallowInv, NoFillSwallowed, Current, CurrentBid

\* The reconciler records a fill behind its two transactions, or finds it foreign.
LEMMA SwallowReconciler ==
    ASSUME TypeOK, TypeOK', PlacedInv, RowInv, SwallowInv, ReconcilerStep
    PROVE  SwallowInv'
<1> USE DEF TypeOK
<1>1. /\ mark \in Nat /\ DOMAIN ordN = DOMAIN feed /\ DOMAIN posN = DOMAIN feed
      /\ \A f \in DOMAIN feed : ordN[f] \in Nat /\ posN[f] \in Nat
      /\ applied \subseteq DOMAIN feed
  BY CounterFacts
<1>2. UNCHANGED <<venSig, venOpen, feed>>
  BY DEF ReconcilerStep, TakeFill, ApplyFillToOrder, OrphanKnown, OrphanUnknown,
     ReapplyFillToOrder, ApplyFillToPosition, RecordFillApplied,
     outsideReconciler, venueVars
<1>3. rpc # "idle" => Current \in DOMAIN feed /\ CurrentBid \in Bids \cup {None}
  BY DEF ReconcilerOK, CurrentBid
<1>4. CurrentBid # None /\ rpc # "idle"
         => /\ venSig[CurrentBid] \in Signals
            /\ ordStatus[venSig[CurrentBid]] # "absent"
  <2> SUFFICES ASSUME CurrentBid # None, rpc # "idle"
               PROVE  /\ venSig[CurrentBid] \in Signals
                      /\ ordStatus[venSig[CurrentBid]] # "absent"
    OBVIOUS
  <2>1. CurrentBid \in Bids /\ venSig[CurrentBid] \in Signals
    BY <1>3 DEF SwallowInv, VenueOK, CurrentBid
  <2>2. CurrentBid \in OrdersOf(venSig[CurrentBid])
    BY <2>1 DEF OrdersOf
  <2> QED BY <2>1, <2>2 DEF RowInv, OrderHasRow
<1>5. CASE TakeFill
  <2>1. /\ rpc' \in {"idle", "order"}
        /\ UNCHANGED <<applied, ordN, posN>>
    BY <1>5 DEF TakeFill, ghostVars
  <2> QED BY <1>2, <2>1 DEF SwallowInv, NoFillSwallowed
<1>6. CASE \/ rpc = "order" /\ ApplyFillToOrder
           \/ rpc = "reapply" /\ ReapplyFillToOrder
  <2>1. UNCHANGED <<applied, posN, mark>> /\ Current \in DOMAIN feed
    BY <1>3, <1>6 DEF ApplyFillToOrder, ReapplyFillToOrder
  <2>2. CASE \E s \in MatchingRows : AddFill(s) /\ rpc' = "position"
    <3>1. PICK s \in Signals : AddFill(s) /\ rpc' = "position"
      BY <2>2 DEF MatchingRows
    <3>2. /\ ordN'[Current] = ordN[Current] + 1
          /\ \A f \in DOMAIN feed \ {Current} : ordN'[f] = ordN[f]
      BY <2>1, <3>1, Counted
    <3>3. Current' = Current /\ ordN'[Current] >= 1
      BY <1>1, <2>1, <3>2 DEF Current
    <3>4. NoFillSwallowed'
      BY <1>1, <1>2, <2>1, <3>2, <3>3 DEF SwallowInv, NoFillSwallowed
    <3> QED BY <1>2, <3>1, <3>3, <3>4 DEF SwallowInv
  <2>3. CASE ordN' = ordN /\ rpc' = "orphan"
    BY <1>2, <2>1, <2>3 DEF SwallowInv, NoFillSwallowed
  <2>4. CASE rpc = "reapply" /\ MatchingRows = {} /\ ordN' = ordN /\ rpc' = "record"
    <3>1. CurrentBid = None
      BY <1>4, <2>4 DEF SwallowInv, MatchingRows
    <3>2. CurrentBid' = CurrentBid
      BY <1>2, <2>1 DEF CurrentBid, Current
    <3> QED BY <1>2, <2>1, <2>4, <3>1, <3>2 DEF SwallowInv, NoFillSwallowed
  <2> QED BY <1>6, <2>2, <2>3, <2>4 DEF ApplyFillToOrder, ReapplyFillToOrder
<1>7. CASE OrphanKnown
  <2>1. PICK s \in Signals : /\ CurrentBid # None /\ venSig[CurrentBid] = s
                             /\ Backfill(s, CurrentBid)
    BY <1>7 DEF OrphanKnown, RowsByCliOrdId
  <2>2. /\ rpc = "orphan" /\ rpc' = "reapply"
        /\ UNCHANGED <<applied, mark, ordN, posN>>
    BY <1>7 DEF OrphanKnown, ghostVars
  <2>3. CurrentBid \in Bids /\ CurrentBid' = CurrentBid
    BY <1>2, <1>3, <2>1, <2>2 DEF CurrentBid, Current
  <2>4. ordBid'[s] = IF ordBid[s] = None THEN CurrentBid ELSE ordBid[s]
    BY <2>1, <2>3, BackfillEffect
  <2>5. ordBid'[s] = CurrentBid
    BY <2>1, <2>3, <2>4, RowNames
  <2> QED BY <1>2, <2>1, <2>2, <2>3, <2>5 DEF SwallowInv, NoFillSwallowed
<1>8. CASE OrphanUnknown
  <2>1. /\ rpc = "orphan" /\ rpc' = "record" /\ RowsByCliOrdId = {}
        /\ UNCHANGED <<applied, mark, ordN, posN>>
    BY <1>8 DEF OrphanUnknown, ghostVars
  <2>2. CurrentBid = None
    BY <1>4, <2>1 DEF RowsByCliOrdId
  <2>3. CurrentBid' = CurrentBid
    BY <1>2, <2>1 DEF CurrentBid, Current
  <2> QED BY <1>2, <2>1, <2>2, <2>3 DEF SwallowInv, NoFillSwallowed
<1>9. CASE ApplyFillToPosition
  <2>1. /\ rpc = "position" /\ rpc' = "record" /\ Current \in DOMAIN feed
        /\ posN' = [posN EXCEPT ![Current] = @ + 1]
        /\ UNCHANGED <<applied, ordN, mark>>
    BY <1>3, <1>9 DEF ApplyFillToPosition
  <2>2. /\ posN'[Current] = posN[Current] + 1
        /\ \A f \in DOMAIN feed \ {Current} : posN'[f] = posN[f]
    BY <1>1, <2>1
  <2>3. Current' = Current /\ ordN'[Current] >= 1 /\ posN'[Current] >= 1
    BY <1>1, <2>1, <2>2 DEF Current, SwallowInv
  <2>4. NoFillSwallowed'
    BY <1>1, <1>2, <2>1, <2>2, <2>3 DEF SwallowInv, NoFillSwallowed
  <2> QED BY <1>2, <2>1, <2>3, <2>4 DEF SwallowInv
<1>10. CASE RecordFillApplied
  <2>1. /\ rpc = "record" /\ rpc' = "idle" /\ applied' = applied \cup {Current}
        /\ UNCHANGED <<ordN, posN>>
    BY <1>10 DEF RecordFillApplied, ghostVars
  <2>2. NoFillSwallowed'
    BY <1>2, <2>1 DEF SwallowInv, NoFillSwallowed, CurrentBid
  <2> QED BY <1>2, <2>1, <2>2 DEF SwallowInv
<1> QED BY <1>5, <1>6, <1>7, <1>8, <1>9, <1>10
        DEF ReconcilerStep, ApplyFillToOrder, ReapplyFillToOrder

\* Every step keeps the invariant, if the orphan-catcher does not fail.
LEMMA SwallowStep ==
    ASSUME "orphan" \notin FaultKinds, DedupScope = "all",
           TypeOK, TypeOK', PlacedInv, PlacedInv', RowInv, SwallowInv,
           [Next]_vars
    PROVE  SwallowInv'
<1>1. CASE ProcessorStep
  <2>1. /\ UNCHANGED <<applied, rpc, mark, venSig, venOpen, feed, ordN, posN>>
        /\ \/ ordBid' = ordBid
           \/ AdoptFound
           \/ MarkOrderSubmitted
    BY <1>1 DEF ProcessorStep, ReconcileStep, LookupFound, LookupAbsent,
       LookupFails, AdoptFound, BuildOrder, InsertPendingOrder, SubmitOrder,
       ResponseOk, ResponseError, ResponseLost, MarkOrderSubmitted,
       MarkOrderUncertain, MarkOrderFailed, SetRetryAfter, MarkSignalRejected,
       MarkSignalProcessed, ClearRetryAfter, outsideProcessor, outsideVenue,
       venueVars, recVars, ghostVars, orderVars
  <2>2. \A s \in Signals : ordBid[s] # None => ordBid'[s] # None
    <3>1. CASE ordBid' = ordBid
      BY <3>1
    <3>2. CASE AdoptFound
      BY <3>2 DEF AdoptFound, Backfill, TypeOK, OrdersOK
    <3>3. CASE MarkOrderSubmitted
      BY <3>3 DEF MarkOrderSubmitted, PlacedInv, Settlement, TypeOK, OrdersOK
    <3> QED BY <2>1, <3>1, <3>2, <3>3
  <2> QED BY <2>1, <2>2, SwallowBid
<1>2. CASE ReconcilerStep
  BY <1>2, SwallowReconciler
<1>3. ASSUME NEW s \in Signals, NEW r \in {"current", "stale"}, PlaceOrder(s, r)
      PROVE  SwallowInv'
  <2>1. PICK b \in Bids : /\ venSig[b] = None
                          /\ venSig' = [venSig EXCEPT ![b] = s]
                          /\ venOpen' = [venOpen EXCEPT ![b] = TRUE]
    BY <1>3 DEF PlaceOrder
  <2>2. \A a \in Bids : venSig[a] # s
    BY <1>3 DEF PlaceOrder, Duplicates, OrdersOf
  <2>3. UNCHANGED <<applied, rpc, mark, feed, ordN, posN, ordBid>>
    BY <1>3 DEF PlaceOrder, outsideVenue, orderVars, recVars, ghostVars
  <2>4. /\ venSig'[b] = s
        /\ \A a \in Bids \ {b} : venSig'[a] = venSig[a]
        /\ \A a \in Bids \ {b} : venOpen'[a] = venOpen[a]
    BY <2>1 DEF TypeOK, VenueOK
  <2>5. s # None
    BY ConstantsAssumption
  <2>6. /\ \A a \in Bids : venOpen'[a] => venSig'[a] # None
        /\ \A a, c \in Bids : venSig'[a] = venSig'[c] /\ venSig'[a] # None => a = c
    BY <2>2, <2>4, <2>5 DEF SwallowInv
  <2>7. \A f \in DOMAIN feed : feed[f] # None
                                  => feed[f] \in Bids /\ feed[f] # b
    BY <2>1 DEF SwallowInv, TypeOK, ReconcilerOK
  <2>8. \A f \in DOMAIN feed : feed[f] # None => venSig'[feed[f]] = venSig[feed[f]]
    BY <2>4, <2>7
  <2>9. rpc = "reapply" => Current \in DOMAIN feed
    BY DEF TypeOK, ReconcilerOK
  <2>10. rpc = "reapply" /\ CurrentBid # None
            => ordBid'[venSig'[CurrentBid]] = CurrentBid
    BY <2>3, <2>8, <2>9 DEF SwallowInv, CurrentBid
  <2>11. Current' = Current /\ CurrentBid' = CurrentBid
    BY <2>3 DEF Current, CurrentBid
  <2> QED BY <2>3, <2>6, <2>8, <2>10, <2>11
          DEF SwallowInv, NoFillSwallowed
<1>4. ASSUME NEW s \in Signals,
             \/ RejectBeforeSubmit(s) \/ Approve(s) \/ CooldownElapses(s)
             \/ Expire(s)
             \/ \E r \in {"current", "stale"} :
                   RefuseOrder(s, r) \/ LoseRequest(s, r)
      PROVE  SwallowInv'
  BY <1>4, KeepSwallow DEF RejectBeforeSubmit, Approve, CooldownElapses, Expire,
     RefuseOrder, LoseRequest, outsideProcessor, outsideVenue, venueVars,
     recVars, ghostVars, orderVars
<1>5. ASSUME NEW b \in Bids \cup {None}, EmitFill(b),
             b # None => venOpen[b],
             \A a \in Bids : venOpen'[a] => venOpen[a],
             UNCHANGED <<ordBid, applied, rpc, mark, venSig>>
      PROVE  SwallowInv'
  <2>1. /\ DOMAIN feed' = DOMAIN feed \cup {Len(feed) + 1}
        /\ feed'[Len(feed) + 1] = b
        /\ \A f \in DOMAIN feed : /\ feed'[f] = feed[f]
                                  /\ ordN'[f] = ordN[f]
                                  /\ posN'[f] = posN[f]
    BY <1>5, Emitted DEF TypeOK
  <2>2. Current' = Current /\ (rpc # "idle" => Current \in DOMAIN feed)
        /\ applied \subseteq DOMAIN feed
    BY <1>5 DEF Current, TypeOK, ReconcilerOK
  <2>3. rpc # "idle" => CurrentBid' = CurrentBid
    BY <2>1, <2>2 DEF CurrentBid
  <2>4. \A f \in DOMAIN feed' : feed'[f] # None => venSig'[feed'[f]] # None
    BY <1>5, <2>1 DEF SwallowInv
  <2>5. NoFillSwallowed'
    BY <1>5, <2>1, <2>2 DEF SwallowInv, NoFillSwallowed
  <2> QED BY <1>5, <2>1, <2>2, <2>3, <2>4, <2>5 DEF SwallowInv
<1>6. ASSUME NEW b \in Bids, ExecuteContract(b)
      PROVE  SwallowInv'
  <2>1. /\ EmitFill(b) /\ venOpen[b]
        /\ \A a \in Bids : venOpen'[a] => venOpen[a]
        /\ UNCHANGED <<ordBid, applied, rpc, mark, venSig>>
    BY <1>6 DEF ExecuteContract, orderVars, recVars, TypeOK, VenueOK
  <2> QED BY <1>5, <2>1
<1>7. CASE ExternalFill
  <2>1. EmitFill(None) /\ UNCHANGED <<ordBid, applied, rpc, mark, venSig, venOpen>>
    BY <1>7 DEF ExternalFill, orderVars, recVars
  <2> QED BY <1>5, <2>1
<1>8. ASSUME NEW b \in Bids, CancelOrder(b)
      PROVE  SwallowInv'
  BY <1>8, KeepSwallow DEF CancelOrder, outsideVenue, orderVars, recVars,
     ghostVars, TypeOK, VenueOK
<1>9. CASE Crash \/ ReconcilerDbError
  <2>1. rpc' = "idle" /\ UNCHANGED <<ordBid, applied, venSig, venOpen, feed,
                                     ordN, posN>>
    BY <1>9 DEF Crash, ReconcilerDbError, orderVars, venueVars, ghostVars
  <2> QED BY <2>1 DEF SwallowInv, NoFillSwallowed
<1>10. CASE ProcessorDbError
  BY <1>10, KeepSwallow DEF ProcessorDbError, orderVars, recVars, venueVars,
     ghostVars
<1>11. CASE OrphanDbError
  BY <1>11 DEF OrphanDbError, Fault
<1>12. CASE UNCHANGED vars
  BY <1>12, KeepSwallow DEF vars, orderVars, recVars, venueVars, ghostVars
<1> QED BY <1>1, <1>2, <1>3, <1>4, <1>6, <1>7, <1>8, <1>9, <1>10, <1>11, <1>12
        DEF Next, Resolve

\* At a venue that refuses every cli_ord_id it has seen, and as long as no
\* statement of the orphan-catcher fails, a fill of an order of the daemon's is
\* recorded in applied_fills only once it has reached the order row and the
\* position, across crashes, lost responses and failed statements of the rest.
THEOREM NoFillSwallowedTheorem ==
    ASSUME "orphan" \notin FaultKinds, DedupScope = "all"
    PROVE  Spec => []NoFillSwallowed
<1>1. Init => SwallowInv
  BY ConstantsAssumption DEF Init, SwallowInv, NoFillSwallowed
<1>2. SwallowInv => NoFillSwallowed
  BY DEF SwallowInv
<1> QED BY <1>1, <1>2, TypeCorrect, PlacedInvariant, RowInvariant, SwallowStep,
           PTL DEF Spec

-----------------------------------------------------------------------------
(* The order path implements SignalContract.                               *)

\* A step that places no order and settles no signal stutters in the contract.
LEMMA ContractStutter ==
    ASSUME UNCHANGED <<sigStatus, venSig>>
    PROVE  UNCHANGED Contract!vars
  BY DEF Contract!vars, OrdersOf

\* An order placed at a venue that refuses every known cli_ord_id is the first
\* of its signal.
LEMMA ContractPlace ==
    ASSUME DedupScope = "all", TypeOK, NEW s \in Signals,
           NEW r \in {"current", "stale"}, PlaceOrder(s, r)
    PROVE  Contract!Next
<1>1. PICK b \in Bids : /\ venSig[b] = None
                        /\ venSig' = [venSig EXCEPT ![b] = s]
  BY DEF PlaceOrder
<1>2. OrdersOf(s) = {}
  BY DEF PlaceOrder, Duplicates
<1>3. \A t \in Signals : b \notin OrdersOf(t)
  BY <1>1, ConstantsAssumption DEF OrdersOf
<1>4. \A t \in Signals : OrdersOf(t)' = IF t = s THEN {b} ELSE OrdersOf(t)
  BY <1>1, <1>2, ConstantsAssumption DEF OrdersOf, TypeOK, VenueOK
<1>5. [t \in Signals |-> OrdersOf(t)]' =
         [[t \in Signals |-> OrdersOf(t)] EXCEPT ![s] = {b}]
  BY <1>4
<1>6. Contract!Place(s, b)
  BY <1>2, <1>3, <1>5 DEF Contract!Place, PlaceOrder
<1> QED BY <1>6 DEF Contract!Next

\* A verdict is given once, and "processed" only on an existing order.
LEMMA ContractSettle ==
    ASSUME TypeOK, PlacedInv, NEW s \in Signals,
           RejectBeforeSubmit(s) \/ MarkSignalRejected \/ MarkSignalProcessed
    PROVE  Contract!Next
<1>1. [t \in Signals |-> OrdersOf(t)]' = [t \in Signals |-> OrdersOf(t)]
  BY DEF RejectBeforeSubmit, MarkSignalRejected, MarkSignalProcessed, OrdersOf
<1>2. CASE RejectBeforeSubmit(s)
  BY <1>1, <1>2 DEF RejectBeforeSubmit, Selectable, Contract!Reject,
     Contract!Next
<1>3. CASE MarkSignalRejected
  <2>1. cur \in Signals /\ sigStatus[cur] = "pending"
    BY <1>3 DEF MarkSignalRejected, PlacedInv, Settlement, TypeOK, ProcessorOK
  <2> QED BY <1>1, <1>3, <2>1 DEF MarkSignalRejected, Contract!Reject,
             Contract!Next
<1>4. CASE MarkSignalProcessed
  <2>1. cur \in Signals /\ sigStatus[cur] = "pending" /\ ordBid[cur] # None
    BY <1>4 DEF MarkSignalProcessed, PlacedInv, Settlement, TypeOK, ProcessorOK
  <2>2. ordBid[cur] \in OrdersOf(cur)
    BY <2>1 DEF PlacedInv, Attribution, OrdersOf, TypeOK, OrdersOK
  <2> QED BY <1>1, <1>4, <2>1, <2>2 DEF MarkSignalProcessed, Contract!Process,
             Contract!Next
<1> QED BY <1>2, <1>3, <1>4

\* Every step of the daemon, the venue or a fault is a step of the contract or
\* leaves its variables alone.
LEMMA ContractStep ==
    ASSUME DedupScope = "all", TypeOK, PlacedInv, [Next]_vars
    PROVE  [Contract!Next]_Contract!vars
<1>1. CASE ProcessorStep
  <2>1. CASE MarkSignalRejected \/ MarkSignalProcessed
    <3>1. cur \in Signals
      BY <2>1 DEF MarkSignalRejected, MarkSignalProcessed, TypeOK, ProcessorOK
    <3> QED BY <2>1, <3>1, ContractSettle
  <2>2. CASE ~(MarkSignalRejected \/ MarkSignalProcessed)
    <3>1. UNCHANGED <<sigStatus, venSig>>
      BY <1>1, <2>2 DEF ProcessorStep, ReconcileStep, LookupFound, LookupAbsent,
         LookupFails, AdoptFound, BuildOrder, InsertPendingOrder, SubmitOrder,
         ResponseOk, ResponseError, ResponseLost, MarkOrderSubmitted,
         MarkOrderUncertain, MarkOrderFailed, SetRetryAfter, ClearRetryAfter
    <3> QED BY <3>1, ContractStutter
  <2> QED BY <2>1, <2>2
<1>2. CASE ReconcilerStep
  <2>1. UNCHANGED <<sigStatus, venSig>>
    BY <1>2 DEF ReconcilerStep, TakeFill, ApplyFillToOrder, OrphanKnown,
       OrphanUnknown, ReapplyFillToOrder, ApplyFillToPosition,
       RecordFillApplied
  <2> QED BY <2>1, ContractStutter
<1>3. ASSUME NEW s \in Signals, RejectBeforeSubmit(s) PROVE Contract!Next
  BY <1>3, ContractSettle
<1>4. ASSUME NEW s \in Signals, NEW r \in {"current", "stale"}, PlaceOrder(s, r)
      PROVE Contract!Next
  BY <1>4, ContractPlace
<1>5. ASSUME NEW s \in Signals, NEW r \in {"current", "stale"},
             RefuseOrder(s, r) \/ LoseRequest(s, r)
      PROVE UNCHANGED Contract!vars
  BY <1>5, ContractStutter DEF RefuseOrder, LoseRequest
<1>6. ASSUME NEW s \in Signals, Approve(s) \/ CooldownElapses(s) \/ Expire(s)
      PROVE UNCHANGED Contract!vars
  BY <1>6, ContractStutter DEF Approve, CooldownElapses, Expire
<1>7. ASSUME NEW b \in Bids, ExecuteContract(b) \/ CancelOrder(b)
      PROVE UNCHANGED Contract!vars
  BY <1>7, ContractStutter DEF ExecuteContract, CancelOrder
<1>8. CASE ExternalFill \/ Crash \/ ProcessorDbError \/ ReconcilerDbError
              \/ OrphanDbError \/ UNCHANGED vars
  BY <1>8, ContractStutter DEF ExternalFill, Crash, ProcessorDbError,
     ReconcilerDbError, OrphanDbError, vars
<1> QED BY <1>1, <1>2, <1>3, <1>4, <1>5, <1>6, <1>7, <1>8 DEF Next, Resolve

\* At a venue that refuses every cli_ord_id it has seen before, the order path
\* implements SignalContract: one verdict per signal, at most one venue order,
\* and no "processed" without it, whatever crashes or is lost on the way.
THEOREM ImplementsContractTheorem ==
    ASSUME DedupScope = "all"
    PROVE  Spec => ImplementsContract
<1>1. Init => Contract!Init
  BY ConstantsAssumption DEF Init, Contract!Init, OrdersOf
<1> QED BY <1>1, TypeCorrect, PlacedInvariant, ContractStep, PTL
        DEF Spec, ImplementsContract, Contract!Spec
=============================================================================
