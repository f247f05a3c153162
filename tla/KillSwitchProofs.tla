--------------------------- MODULE KillSwitchProofs ---------------------------
(***************************************************************************)
(* Proofs about KillSwitch, for every set of instruments, order sizes and  *)
(* prices, every threshold, and any number of orders, resets and failures. *)
(***************************************************************************)
EXTENDS KillSwitch, SequenceTheorems, FiniteSetTheorems, TLAPS

USE DEF dbVars, venueVars, evalVars, countVars

-----------------------------------------------------------------------------
(* Arithmetic of a panic order.                                            *)

\* The smaller of two integers.
LEMMA MinOfTwo ==
    ASSUME NEW a \in Int, NEW b \in Int
    PROVE  Min({a, b}) = IF a <= b THEN a ELSE b
<1>1. \E x \in {a, b} : \A y \in {a, b} : x <= y
  OBVIOUS
<1>2. /\ Min({a, b}) \in {a, b}
      /\ \A y \in {a, b} : Min({a, b}) <= y
  BY <1>1 DEF Min
<1> QED BY <1>2

\* What the panic order against a listed quantity l does to a position q: it
\* moves towards zero, not past it, and by all of l where there is as much.
LEMMA PanicDelta ==
    ASSUME NEW q \in Int, NEW p, NEW l \in Int \ {0}, p[2] = l
    PROVE  LET d == MarketDelta(q, PanicOrder(p)) IN
           /\ d \in Int
           /\ q >= 0 => d <= 0 /\ q + d >= 0
           /\ q <= 0 => d >= 0 /\ q + d <= 0
           /\ q > 0 /\ l > 0 => q + d = (IF l <= q THEN q - l ELSE 0)
           /\ q < 0 /\ l < 0 => q + d = (IF q <= l THEN q - l ELSE 0)
<1> DEFINE m == Min({Abs(q), Abs(-l)})
           d == MarketDelta(q, PanicOrder(p))
<1>1. /\ PanicOrder(p).delta = -l /\ PanicOrder(p).reduceOnly
      /\ -l \in Int \ {0}
  BY DEF PanicOrder
<1>2. Abs(q) \in Int /\ Abs(-l) \in Int
  BY <1>1 DEF Abs
<1>3. m = IF Abs(q) <= Abs(-l) THEN Abs(q) ELSE Abs(-l)
  BY <1>2, MinOfTwo
<1>4. d = IF q = 0 \/ Sign(q) = Sign(-l) THEN 0 ELSE Sign(-l) * m
  BY <1>1 DEF MarketDelta
<1> HIDE DEF m, d
<1>5. CASE q > 0 /\ l > 0
  <2>1. m \in Int
    BY <1>2, <1>3
  <2>2. Sign(q) = 1 /\ Sign(-l) = -1
    BY <1>5 DEF Sign
  <2>3. d = -m
    BY <1>4, <1>5, <2>1, <2>2
  <2> QED BY <1>3, <1>5, <2>3 DEF Abs, d
<1>6. CASE q < 0 /\ l < 0
  <2>1. d = 1 * m
    BY <1>4, <1>6 DEF Sign
  <2> QED BY <1>3, <1>6, <2>1 DEF Abs, d
<1>7. CASE ~(q > 0 /\ l > 0) /\ ~(q < 0 /\ l < 0)
  <2>1. d = 0
    BY <1>4, <1>7 DEF Sign
  <2> QED BY <1>7, <2>1 DEF d
<1> QED BY <1>5, <1>6, <1>7

\* One execution at the venue keeps the venue's variables typed.
LEMMA ExecuteType ==
    ASSUME TypeOK, NEW k \in Instruments, NEW d \in Int \ {0},
           NEW known \in BOOLEAN, Execute(k, d, known)
    PROVE  /\ venQty' \in [Instruments -> Int]
           /\ unreal' \in [Instruments -> Levels]
           /\ balance' \in Int
           /\ feed' \in Seq([instrument : Instruments, delta : Int \ {0},
                             pnl : Int, known : BOOLEAN])
<1> DEFINE booked == ClosedContracts(venQty[k], d) * unreal[k]
           fill   == [instrument |-> k, delta |-> d, pnl |-> booked,
                      known |-> known]
<1>1. /\ venQty[k] \in Int /\ d \in Int
      /\ unreal[k] \in Int
      /\ Levels \subseteq Int /\ 0 \in Levels
  BY ConstantsAssumption DEF TypeOK, VenueOK
<1>2. ClosedContracts(venQty[k], d) \in Int
  <2>1. Abs(venQty[k]) \in Int /\ Abs(d) \in Int
    BY <1>1 DEF Abs
  <2> QED BY <2>1, MinOfTwo DEF ClosedContracts
<1>3. booked \in Int
  <2> HIDE DEF Execute
  <2> QED BY <1>1, <1>2
<1>4. /\ venQty' = [venQty EXCEPT ![k] = @ + d]
      /\ unreal' = [unreal EXCEPT ![k] = 0] \/ unreal' = unreal
      /\ balance' = balance + booked \/ balance' = balance
      /\ feed' = Append(feed, fill)
  BY DEF Execute
<1> HIDE DEF booked
<1>5. fill \in [instrument : Instruments, delta : Int \ {0}, pnl : Int,
                known : BOOLEAN]
  BY <1>3
<1> HIDE DEF fill
<1>6. feed' \in Seq([instrument : Instruments, delta : Int \ {0}, pnl : Int,
                     known : BOOLEAN])
  BY <1>4, <1>5, AppendProperties DEF TypeOK, VenueOK
<1>7. venQty' \in [Instruments -> Int]
  BY <1>1, <1>4 DEF TypeOK, VenueOK
<1>8. unreal' \in [Instruments -> Levels]
  BY <1>1, <1>4 DEF TypeOK, VenueOK
<1>9. balance' \in Int
  BY <1>3, <1>4 DEF TypeOK, VenueOK
<1> QED BY <1>6, <1>7, <1>8, <1>9

\* A part whose variables a step leaves alone is kept.
LEMMA KeepParts ==
    /\ DbOK /\ UNCHANGED dbVars => DbOK'
    /\ VenueOK /\ UNCHANGED venueVars => VenueOK'
    /\ EvaluationOK /\ UNCHANGED evalVars => EvaluationOK'
    /\ TaskOK /\ UNCHANGED <<fetched, approved>> => TaskOK'
    /\ CountOK /\ UNCHANGED countVars => CountOK'
  BY DEF DbOK, VenueOK, EvaluationOK, TaskOK, CountOK

\* An evaluation that moves on from anywhere but its orders, with typed locals.
LEMMA MoveOn ==
    ASSUME EvaluationOK, NEW e \in Evaluators, NEW to \in EvaluatorPc,
           epc[e] # "close" \/ todo[e] = {},
           epc' = [epc EXCEPT ![e] = to],
           view' \in [Evaluators -> [realized : Int, unrealized : Int,
                                     drawdown : {0}, active : BOOLEAN]],
           hardSeen' \in [Evaluators -> BOOLEAN],
           todo' = todo
    PROVE  EvaluationOK'
  BY DEF EvaluationOK

\* Its locals are forgotten.
LEMMA Forgotten ==
    ASSUME EvaluationOK, NEW e \in Evaluators, Forget(e)
    PROVE  /\ view' \in [Evaluators -> [realized : Int, unrealized : Int,
                                         drawdown : {0}, active : BOOLEAN]]
           /\ hardSeen' \in [Evaluators -> BOOLEAN]
<1>1. NoView \in [realized : Int, unrealized : Int, drawdown : {0},
                  active : BOOLEAN]
  BY DEF NoView
<1> HIDE DEF NoView
<1> QED BY <1>1 DEF EvaluationOK, Forget

\* The list of positions to close gets shorter.
LEMMA OrderDone ==
    ASSUME EvaluationOK, NEW e \in Evaluators, NEW p,
           todo' = [todo EXCEPT ![e] = @ \ {p}],
           UNCHANGED <<epc, view, hardSeen>>
    PROVE  EvaluationOK'
  BY DEF EvaluationOK

\* One more instrument whose order did not get through.
LEMMA MissedType ==
    ASSUME CountOK, EvaluationOK, NEW e \in Evaluators, NEW p \in todo[e],
           missed' = [missed EXCEPT ![e] = @ \cup {p[1]}]
    PROVE  missed' \in [Evaluators -> SUBSET Instruments]
  BY DEF CountOK, EvaluationOK

-----------------------------------------------------------------------------
(* Types.                                                                  *)

TypeInv == TypeOK /\ LateInv

\* One step of an evaluator's loop.
LEMMA EvaluatorTypes ==
    ASSUME TypeInv, NEW e \in Evaluators, EvaluatorStep(e)
    PROVE  TypeOK'
<1> USE KeepParts DEF TypeInv, TypeOK, Step
<1>1. CASE LoadPortfolioState(e)
  <2>1. view' \in [Evaluators -> [realized : Int, unrealized : Int,
                                  drawdown : {0}, active : BOOLEAN]]
    <3>1. [realized |-> snap.realized, unrealized |-> snap.unrealized,
           drawdown |-> snap.drawdown, active |-> FALSE]
             \in [realized : Int, unrealized : Int, drawdown : {0},
                  active : BOOLEAN]
      BY DEF DbOK, Snapshots
    <3>2. Active \in BOOLEAN
      BY DEF Active, DbOK
    <3>3. CASE view' = [view EXCEPT ![e].active = Active]
      <4>1. [view[e] EXCEPT !.active = Active]
               \in [realized : Int, unrealized : Int, drawdown : {0},
                    active : BOOLEAN]
        BY <3>2 DEF EvaluationOK
      <4>2. view' = [view EXCEPT ![e] = [view[e] EXCEPT !.active = Active]]
        BY <3>3 DEF EvaluationOK
      <4> QED BY <4>1, <4>2 DEF EvaluationOK
    <3>4. CASE view' = [view EXCEPT ![e] =
                           [realized |-> snap.realized,
                            unrealized |-> snap.unrealized,
                            drawdown |-> snap.drawdown, active |-> FALSE]]
      BY <3>1, <3>4 DEF EvaluationOK
    <3> QED BY <1>1, <3>3, <3>4 DEF LoadPortfolioState
  <2>2. hardSeen' = hardSeen /\ todo' = todo /\ epc[e] # "close"
        /\ \E to \in EvaluatorPc : epc' = [epc EXCEPT ![e] = to]
    BY <1>1 DEF LoadPortfolioState, EvaluatorPc
  <2>3. EvaluationOK'
    BY <2>1, <2>2, MoveOn DEF EvaluationOK
  <2> QED BY <1>1, <2>3 DEF LoadPortfolioState
<1>2. CASE HasActiveHardTrigger(e)
  <2>1. hardSeen' \in [Evaluators -> BOOLEAN]
    BY <1>2 DEF HasActiveHardTrigger, EvaluationOK
  <2>2. EvaluationOK'
    BY <1>2, <2>1, MoveOn DEF HasActiveHardTrigger, EvaluationOK, EvaluatorPc
  <2> QED BY <1>2, <2>2 DEF HasActiveHardTrigger
<1>3. CASE NoChange(e)
  <2>1. EvaluationOK'
    BY <1>3, MoveOn, Forgotten DEF NoChange, EvaluatorPc
  <2> QED BY <1>3, <2>1 DEF NoChange
<1>4. CASE RecordDisable(e)
  <2>1. EvaluationOK'
    BY <1>4, MoveOn, Forgotten DEF RecordDisable, EvaluatorPc
  <2> QED BY <1>4, <2>1 DEF RecordDisable, DbOK
<1>5. CASE RecordPanic(e)
  <2>1. EvaluationOK'
    BY <1>5, MoveOn, Forgotten DEF RecordPanic, EvaluatorPc
  <2> QED BY <1>5, <2>1 DEF RecordPanic, DbOK
<1>6. CASE ListOpenPositions(e)
  <2> DEFINE open == PositionsOf({k \in Instruments : localQty[k] # 0})
  <2>1. open \in SUBSET (Instruments \X (Int \ {0}))
    BY DEF DbOK, PositionsOf
  <2>2. EvaluationOK'
    <3>1. /\ todo' = [todo EXCEPT ![e] = open]
          /\ epc' = [epc EXCEPT ![e] = "close"]
          /\ epc[e] = "list"
          /\ UNCHANGED <<view, hardSeen>>
      BY <1>6 DEF ListOpenPositions
    <3> HIDE DEF open
    <3> QED BY <2>1, <3>1 DEF EvaluationOK, EvaluatorPc
  <2>3. CountOK'
    <3>1. [k \in Instruments |-> Abs(localQty[k] - venQty[k])]
             \in [Instruments -> Nat]
      BY DEF DbOK, VenueOK, Abs
    <3> QED BY <1>6, <3>1 DEF ListOpenPositions, BeginSlack, CountOK
  <2> QED BY <1>6, <2>2, <2>3 DEF ListOpenPositions
<1>7. ASSUME NEW p \in todo[e], SubmitClose(e, p)
      PROVE  TypeOK'
  <2>1. p \in Instruments \X (Int \ {0})
    BY DEF EvaluationOK
  <2>2. EvaluationOK'
    BY <1>7, OrderDone DEF SubmitClose
  <2>3. VenueOK'
    <3> DEFINE d == MarketDelta(venQty[p[1]], PanicOrder(p))
    <3>1. d \in Int
      BY <2>1, PanicDelta DEF VenueOK
    <3>2. d = 0 => UNCHANGED venueVars
      BY <1>7 DEF SubmitClose
    <3>3. d # 0 => Execute(p[1], d, FALSE)
      BY <1>7 DEF SubmitClose
    <3>4. resting' = resting
      BY <1>7 DEF SubmitClose
    <3> HIDE DEF d
    <3> QED BY <2>1, <3>1, <3>2, <3>3, <3>4, ExecuteType DEF VenueOK
  <2> QED BY <1>7, <2>2, <2>3 DEF SubmitClose
<1>8. ASSUME NEW p \in todo[e], CloseRefused(e, p)
      PROVE  TypeOK'
  <2>1. EvaluationOK'
    BY <1>8, OrderDone DEF CloseRefused
  <2>2. CountOK'
    BY <1>8, MissedType DEF CloseRefused, CountOK, EvaluationOK
  <2> QED BY <1>8, <2>1, <2>2 DEF CloseRefused
<1>9. CASE PanicDone(e)
  <2>1. EvaluationOK'
    BY <1>9, MoveOn DEF PanicDone, EvaluationOK, EvaluatorPc
  <2>2. CountOK'
    BY <1>9 DEF PanicDone, NoSlack, CountOK
  <2> QED BY <1>9, <2>1, <2>2 DEF PanicDone
<1> QED BY <1>1, <1>2, <1>3, <1>4, <1>5, <1>6, <1>7, <1>8, <1>9
        DEF EvaluatorStep

\* One fault.
LEMMA FaultTypes ==
    ASSUME TypeInv, Fault
    PROVE  TypeOK'
<1> USE KeepParts DEF TypeInv, TypeOK
<1>1. ASSUME NEW e \in Evaluators, EvaluationFails(e)
      PROVE  TypeOK'
  <2>1. EvaluationOK'
    <3>1. "idle" \in EvaluatorPc /\ epc[e] # "close"
      BY <1>1 DEF EvaluationFails, EvaluatorPc
    <3> QED BY <1>1, <3>1, MoveOn, Forgotten DEF EvaluationFails
  <2>2. CountOK'
    BY <1>1, ConstantsAssumption DEF EvaluationFails, CountOK
  <2> QED BY <1>1, <2>1, <2>2 DEF EvaluationFails
<1>2. ASSUME NEW e \in Evaluators, NEW p \in todo[e], CloseFails(e, p)
      PROVE  TypeOK'
  <2>1. EvaluationOK'
    BY <1>2, OrderDone DEF CloseFails
  <2>2. CountOK'
    <3>1. missed' \in [Evaluators -> SUBSET Instruments]
      BY <1>2, MissedType DEF CloseFails
    <3> QED BY <1>2, <3>1, ConstantsAssumption DEF CloseFails, CountOK
  <2> QED BY <1>2, <2>1, <2>2 DEF CloseFails
<1>3. CASE Crash
  <2>1. EvaluationOK'
    <3>1. NoView \in [realized : Int, unrealized : Int, drawdown : {0},
                      active : BOOLEAN]
      BY DEF NoView
    <3> HIDE DEF NoView
    <3> QED BY <1>3, <3>1 DEF Crash, EvaluationOK, EvaluatorPc
  <2>2. CountOK'
    BY <1>3, ConstantsAssumption DEF Crash, NoSlack, CountOK
  <2>3. TaskOK'
    BY <1>3 DEF Crash, TaskOK
  <2> QED BY <1>3, <2>1, <2>2, <2>3 DEF Crash
<1> QED BY <1>1, <1>2, <1>3 DEF Fault

\* Every step keeps the types.
LEMMA TypeStep == TypeInv /\ [Next]_vars => TypeOK'
<1> SUFFICES ASSUME TypeInv, [Next]_vars PROVE TypeOK'
  OBVIOUS
<1> USE KeepParts DEF TypeInv, TypeOK
<1>1. CASE Tick
  <2>1. EvaluationOK'
    BY <1>1, MoveOn DEF Tick, Step, EvaluationOK, EvaluatorPc, Evaluators
  <2> QED BY <1>1, <2>1 DEF Tick
<1>2. CASE GetAccounts
  <2>1. AccountUnrealized \in Int /\ balance \in Int
    <3>1. venQty[Perp] \in Int /\ unreal[Perp] \in Int
      BY ConstantsAssumption DEF VenueOK
    <3>2. Abs(venQty[Perp]) \in Int
      BY <3>1 DEF Abs
    <3>3. AccountUnrealized \in Int
      BY <3>1, <3>2 DEF AccountUnrealized
    <3> QED BY <3>3 DEF VenueOK
  <2>2. TaskOK'
    BY <1>2, <2>1 DEF GetAccounts, TaskOK
  <2> QED BY <1>2, <2>2 DEF GetAccounts
<1>3. CASE WriteSnapshot
  <2>1. fetched \in [equity : Int, unrealized : Int]
    BY <1>3 DEF WriteSnapshot, TaskOK
  <2>2. SumRealizedPnlBySleeve(LEVERAGE_SLEEVE) \in Int
    BY DEF SumRealizedPnlBySleeve, DbOK
  <2>3. snap' \in Snapshots
    BY <1>3, <2>1, <2>2 DEF WriteSnapshot, Snapshots, DbOK
  <2>4. DbOK' /\ TaskOK'
    BY <1>3, <2>3 DEF WriteSnapshot, DbOK, TaskOK
  <2> QED BY <1>3, <2>4 DEF WriteSnapshot
<1>4. ASSUME NEW k \in Instruments, NEW d \in Deltas, ApproveSignal(k, d)
      PROVE  TypeOK'
  <2>1. TaskOK'
    BY <1>4 DEF ApproveSignal, TaskOK
  <2> QED BY <1>4, <2>1 DEF ApproveSignal
<1>5. CASE SubmitApproved
  <2>1. approved \in Instruments \X Deltas
    BY <1>5 DEF SubmitApproved, TaskOK
  <2>2. approved[1] \in Instruments /\ approved[2] \in Int \ {0}
    BY <2>1, ConstantsAssumption
  <2>3. VenueOK'
    <3>1. <<approved[1], Sign(approved[2])>> \in Instruments \X Sides
      BY <2>2 DEF Sign, Sides
    <3>2. Abs(approved[2]) \in Nat
      BY <2>2 DEF Abs
    <3>3. resting' \in [Instruments \X Sides -> Nat]
      <4> DEFINE r == <<approved[1], Sign(approved[2])>>
                 n == Abs(approved[2])
      <4>1. \/ resting' = [resting EXCEPT ![r] = @ + n]
            \/ resting' = resting
        BY <1>5 DEF SubmitApproved
      <4>2. r \in Instruments \X Sides /\ n \in Nat
        BY <3>1, <3>2
      <4>3. resting \in [Instruments \X Sides -> Nat]
        BY DEF VenueOK
      <4> HIDE DEF r, n
      <4>4. resting[r] + n \in Nat
        BY <4>2, <4>3
      <4> QED BY <4>1, <4>2, <4>3, <4>4, Zenon
    <3> QED BY <1>5, <3>3 DEF SubmitApproved, VenueOK
  <2>4. CountOK'
    BY <1>5, ConstantsAssumption DEF SubmitApproved, LateInv, CountOK
  <2>5. TaskOK'
    BY <1>5 DEF SubmitApproved, TaskOK
  <2> QED BY <1>5, <2>3, <2>4, <2>5 DEF SubmitApproved
<1>6. CASE ApplyFill
  <2> DEFINE f == Head(feed)
  <2>1. /\ f \in [instrument : Instruments, delta : Int \ {0}, pnl : Int,
                   known : BOOLEAN]
        /\ feed' \in Seq([instrument : Instruments, delta : Int \ {0},
                          pnl : Int, known : BOOLEAN])
    BY <1>6, HeadTailProperties DEF ApplyFill, VenueOK
  <2>2. VenueOK'
    BY <1>6, <2>1 DEF ApplyFill, VenueOK
  <2>3. \/ /\ localQty' = [localQty EXCEPT ![f.instrument] = @ + f.delta]
           /\ realized' = realized + f.pnl
           /\ epc' = [epc EXCEPT !["reconciler"] = "load"]
        \/ UNCHANGED <<localQty, realized, epc>>
    BY <1>6 DEF ApplyFill
  <2>4. DbOK'
    <3>1. UNCHANGED <<soft, hard, snap>>
      BY <1>6 DEF ApplyFill
    <3> HIDE DEF f
    <3> QED BY <2>1, <2>3, <3>1 DEF DbOK
  <2>5. EvaluationOK'
    <3>1. UNCHANGED <<view, hardSeen, todo>> /\ epc["reconciler"] = "idle"
      BY <1>6 DEF ApplyFill
    <3> QED BY <2>3, <3>1, MoveOn DEF EvaluationOK, EvaluatorPc, Evaluators
  <2> QED BY <1>6, <2>2, <2>4, <2>5 DEF ApplyFill
<1>7. ASSUME NEW k \in Instruments, MarketMove(k)
      PROVE  TypeOK'
  <2>1. VenueOK'
    BY <1>7 DEF MarketMove, VenueOK
  <2> QED BY <1>7, <2>1 DEF MarketMove
<1>8. CASE Resolve
  <2>1. DbOK'
    BY <1>8 DEF Resolve, DbOK
  <2>2. CountOK'
    BY <1>8, ConstantsAssumption DEF Resolve, CountOK
  <2> QED BY <1>8, <2>1, <2>2 DEF Resolve
<1>9. ASSUME NEW k \in Instruments, NEW s \in Sides, EntryFills(k, s)
      PROVE  TypeOK'
  <2>1. s \in Int \ {0}
    BY DEF Sides
  <2>5. Execute(k, s, TRUE)
    BY <1>9 DEF EntryFills
  <2>2. resting' \in [Instruments \X Sides -> Nat]
    BY <1>9 DEF EntryFills, VenueOK
  <2>3. VenueOK'
    BY <2>1, <2>2, <2>5, ExecuteType DEF VenueOK
  <2>4. CountOK'
    <3>1. slack' \in [Evaluators -> [Instruments -> Nat]]
      BY <1>9 DEF EntryFills, CountOK
    <3> QED BY <1>9, <3>1 DEF EntryFills, CountOK
  <2> QED BY <1>9, <2>3, <2>4 DEF EntryFills
<1>10. ASSUME NEW k \in Instruments, NEW s \in Sides, EntryCancelled(k, s)
       PROVE  TypeOK'
  <2>1. VenueOK'
    BY <1>10 DEF EntryCancelled, VenueOK
  <2> QED BY <1>10, <2>1 DEF EntryCancelled
<1>11. CASE UNCHANGED vars
  BY <1>11 DEF vars
<1> QED BY <1>1, <1>2, <1>3, <1>4, <1>5, <1>6, <1>7, <1>8, <1>9, <1>10,
           <1>11, EvaluatorTypes, FaultTypes DEF Next

-----------------------------------------------------------------------------
(* The late order.                                                         *)

\* Only the gate, the submission, the events and a crash matter to it.
LEMMA LateStep == TypeInv /\ [Next]_vars => LateInv'
<1> SUFFICES ASSUME TypeInv, [Next]_vars PROVE LateInv'
  OBVIOUS
<1> USE ConstantsAssumption
        DEF TypeInv, TypeOK, DbOK, TaskOK, CountOK, LateInv, Active
<1>1. CASE Tick
  BY <1>1 DEF Tick
<1>2. ASSUME NEW e \in Evaluators, EvaluatorStep(e)
      PROVE  LateInv'
  <2>1. UNCHANGED <<approved, orders, late>>
    BY <1>2 DEF EvaluatorStep, LoadPortfolioState, HasActiveHardTrigger,
                NoChange, RecordDisable, RecordPanic, ListOpenPositions,
                BeginSlack, SubmitClose, CloseRefused, PanicDone
  <2>2. \/ UNCHANGED <<soft, hard>>
        \/ soft' = TRUE /\ hard' = hard
        \/ soft' = soft /\ hard' = hard + 1
    BY <1>2 DEF EvaluatorStep, LoadPortfolioState, HasActiveHardTrigger,
                NoChange, RecordDisable, RecordPanic, ListOpenPositions,
                BeginSlack, SubmitClose, CloseRefused, PanicDone
  <2> QED BY <2>1, <2>2
<1>3. CASE GetAccounts
  BY <1>3 DEF GetAccounts
<1>4. CASE WriteSnapshot
  BY <1>4 DEF WriteSnapshot
<1>5. ASSUME NEW k \in Instruments, NEW d \in Deltas, ApproveSignal(k, d)
      PROVE  LateInv'
  <2>1. /\ orders < MaxOrders /\ ~Active
        /\ UNCHANGED <<soft, hard, orders, late>>
    BY <1>5 DEF ApproveSignal, GateOpen
  <2> QED BY <2>1
<1>6. CASE SubmitApproved
  <2>1. /\ approved # None /\ approved' = None
        /\ orders' = orders + 1
        /\ late' = late + (IF Active THEN 1 ELSE 0)
        /\ UNCHANGED <<soft, hard>>
    BY <1>6 DEF SubmitApproved
  <2> QED BY <2>1
<1>7. CASE ApplyFill
  BY <1>7 DEF ApplyFill
<1>8. ASSUME NEW k \in Instruments, MarketMove(k)
      PROVE  LateInv'
  BY <1>8 DEF MarketMove
<1>9. CASE Resolve
  BY <1>9 DEF Resolve
<1>10. CASE Fault
  <2>1. /\ approved' \in {None, approved}
        /\ UNCHANGED <<soft, hard, orders, late>>
    BY <1>10 DEF Fault, EvaluationFails, CloseFails, Crash
  <2> QED BY <2>1
<1>11. CASE UNCHANGED vars
  BY <1>11 DEF vars
<1>12. ASSUME NEW k \in Instruments, NEW s \in Sides,
              EntryFills(k, s) \/ EntryCancelled(k, s)
       PROVE  LateInv'
  BY <1>12 DEF EntryFills, EntryCancelled
<1> QED BY <1>1, <1>2, <1>3, <1>4, <1>5, <1>6, <1>7, <1>8, <1>9, <1>10,
           <1>11, <1>12 DEF Next

\* No event, no order and both evaluators idle.
LEMMA TypeInit == Init => TypeInv
<1> SUFFICES ASSUME Init PROVE TypeInv
  OBVIOUS
<1>1. NoView \in [realized : Int, unrealized : Int, drawdown : {0},
                  active : BOOLEAN]
  BY DEF NoView
<1>2. DbOK
  <2>1. BootstrapSnapshot \in Snapshots
    BY DEF Snapshots, BootstrapSnapshot
  <2>2. soft \in BOOLEAN /\ hard \in Nat /\ realized \in Int
    <3>1. soft = FALSE /\ hard = 0 /\ realized = 0
      BY DEF Init
    <3>2. soft \in BOOLEAN
      BY <3>1, Zenon
    <3> QED BY <3>1, <3>2
  <2>3. localQty \in [Instruments -> Int]
    BY DEF Init
  <2>4. snap \in Snapshots
    BY <2>1 DEF Init
  <2> QED BY <2>2, <2>3, <2>4, Zenon DEF DbOK
<1>3. VenueOK
  <2>1. feed \in Seq([instrument : Instruments, delta : Int \ {0}, pnl : Int,
                      known : BOOLEAN])
    BY EmptySeq DEF Init
  <2> QED BY <2>1, ConstantsAssumption DEF Init, VenueOK
<1>4. EvaluationOK
  <2> HIDE DEF NoView
  <2> QED BY <1>1 DEF Init, EvaluationOK, EvaluatorPc
<1>5. TaskOK /\ CountOK /\ LateInv
  BY ConstantsAssumption DEF Init, NoSlack, TaskOK, CountOK, LateInv
<1> QED BY <1>2, <1>3, <1>4, <1>5 DEF TypeInv, TypeOK

\* The database, the venue and the locals of both evaluators keep their types,
\* whatever fails, crashes or is reset between two statements.
THEOREM KillTypeCorrect == Spec => []TypeOK
<1>1. TypeInv => TypeOK
  BY DEF TypeInv
<1>2. TypeInv /\ [Next]_vars => TypeInv'
  BY TypeStep, LateStep DEF TypeInv
<1> QED BY <1>1, <1>2, TypeInit, PTL DEF Spec

\* At most one order goes out after an event was recorded: the one the signal
\* processor had approved before (PreTradeChecklist::evaluate reads the flag,
\* the submission does not).
THEOREM LateTheorem == Spec => []OneLateOrder
<1>1. TypeInv => OneLateOrder
  BY DEF TypeInv, TypeOK, CountOK, LateInv, OneLateOrder
<1>2. TypeInv /\ [Next]_vars => TypeInv'
  BY TypeStep, LateStep DEF TypeInv
<1> QED BY <1>1, <1>2, TypeInit, PTL DEF Spec

-----------------------------------------------------------------------------
(* The panic events.                                                       *)

\* Hard events recorded and still recordable never exceed one per evaluator.
LEMMA PanicStep == TypeInv /\ PanicInv /\ [Next]_vars => PanicInv'
<1> SUFFICES ASSUME TypeInv, PanicInv, [Next]_vars PROVE PanicInv'
  OBVIOUS
<1> USE DEF TypeInv, TypeOK, DbOK, EvaluationOK, PanicInv, MayRecord,
            Evaluators
<1>1. CASE Tick
  BY <1>1 DEF Tick, Step
<1>2. ASSUME NEW e \in Evaluators, EvaluatorStep(e)
      PROVE  PanicInv'
  <2>1. CASE LoadPortfolioState(e)
    BY <2>1 DEF LoadPortfolioState, Step
  <2>2. CASE HasActiveHardTrigger(e)
    <3>1. /\ epc' = [epc EXCEPT ![e] = "decide"] /\ epc[e] = "hard"
          /\ hardSeen' = [hardSeen EXCEPT ![e] = hard > 0]
          /\ hard' = hard
      BY <2>2 DEF HasActiveHardTrigger, Step
    <3>2. CASE hard > 0
      <4>1. hardSeen' = [hardSeen EXCEPT ![e] = TRUE]
        BY <3>1, <3>2
      <4> QED BY <3>1, <4>1
    <3>3. CASE hard = 0
      BY <3>1, <3>3
    <3> QED BY <3>2, <3>3
  <2>3. CASE NoChange(e)
    BY <2>3 DEF NoChange, Forget, Step
  <2>4. CASE RecordDisable(e)
    BY <2>4 DEF RecordDisable, Forget, Step
  <2>5. CASE RecordPanic(e)
    BY <2>5 DEF RecordPanic, Forget, Step
  <2>6. CASE ListOpenPositions(e)
    BY <2>6 DEF ListOpenPositions, Step
  <2>7. ASSUME NEW p \in todo[e], SubmitClose(e, p) \/ CloseRefused(e, p)
        PROVE  PanicInv'
    BY <2>7 DEF SubmitClose, CloseRefused
  <2>8. CASE PanicDone(e)
    BY <2>8 DEF PanicDone, Step
  <2> QED BY <1>2, <2>1, <2>2, <2>3, <2>4, <2>5, <2>6, <2>7, <2>8
          DEF EvaluatorStep
<1>3. CASE GetAccounts
  BY <1>3 DEF GetAccounts
<1>4. CASE WriteSnapshot
  BY <1>4 DEF WriteSnapshot
<1>5. ASSUME NEW k \in Instruments, NEW d \in Deltas, ApproveSignal(k, d)
      PROVE  PanicInv'
  BY <1>5 DEF ApproveSignal
<1>6. CASE SubmitApproved
  BY <1>6 DEF SubmitApproved
<1>7. CASE ApplyFill
  BY <1>7 DEF ApplyFill
<1>8. ASSUME NEW k \in Instruments, MarketMove(k)
      PROVE  PanicInv'
  BY <1>8 DEF MarketMove
<1>9. CASE Resolve
  BY <1>9 DEF Resolve
<1>10. CASE Fault
  BY <1>10 DEF Fault, EvaluationFails, CloseFails, Crash, Forget
<1>11. CASE UNCHANGED vars
  BY <1>11 DEF vars
<1>12. ASSUME NEW k \in Instruments, NEW s \in Sides,
              EntryFills(k, s) \/ EntryCancelled(k, s)
       PROVE  PanicInv'
  BY <1>12 DEF EntryFills, EntryCancelled
<1> QED BY <1>1, <1>2, <1>3, <1>4, <1>5, <1>6, <1>7, <1>8, <1>9, <1>10,
           <1>11, <1>12 DEF Next

\* The supervisor and the reconciler.
LEMMA TwoEvaluators == Cardinality(Evaluators) = 2
<1>1. IsFiniteSet({"supervisor"}) /\ Cardinality({"supervisor"}) = 1
  BY FS_Singleton
<1>2. Cardinality({"supervisor"} \cup {"reconciler"}) = 2
  BY <1>1, FS_AddElement
<1>3. Evaluators = {"supervisor"} \cup {"reconciler"}
  BY DEF Evaluators
<1> QED BY <1>2, <1>3

\* Between two resolutions the supervisor and the reconciler together start at
\* most two panic-closes, although has_active_hard_trigger and the insert are
\* two statements (evaluate_kill_switch_once).
THEOREM PanicTheorem == Spec => []OnePanicPerEvaluator
<1>1. Init => PanicInv
  BY DEF Init, PanicInv, MayRecord, Evaluators
<1>2. TypeInv /\ PanicInv => OnePanicPerEvaluator
  BY TwoEvaluators
     DEF TypeInv, TypeOK, DbOK, PanicInv, MayRecord, OnePanicPerEvaluator
<1>3. TypeInv /\ [Next]_vars => TypeInv'
  BY TypeStep, LateStep DEF TypeInv
<1> QED BY <1>1, <1>2, <1>3, TypeInit, PanicStep, PTL DEF Spec

-----------------------------------------------------------------------------
(* The panic orders.                                                       *)

\* Position q changes to r by moving towards zero and not past it.
Towards(q, r) ==
    /\ q >= 0 => 0 <= r /\ r <= q
    /\ q <= 0 => q <= r /\ r <= 0

\* Position and slack of instrument k as far as evaluator e is concerned: what
\* takes the position further away is added to the slack.
Accounted(e, k) ==
    \/ slack'[e][k] = slack[e][k] /\ Towards(venQty[k], venQty'[k])
    \/ slack'[e][k] >= slack[e][k] + Abs(venQty'[k] - venQty[k])

\* Both bounds of ResidualOf survive an accounted change.
LEMMA BoundsKept ==
    ASSUME NEW q \in Int, NEW r \in Int, NEW n \in Nat, NEW m \in Nat,
           (m = n /\ Towards(q, r)) \/ m >= n + Abs(r - q)
    PROVE  /\ Abs(q) <= n => Abs(r) <= m
           /\ \A l \in Int \ {0} : Near(q, l, n) => Near(r, l, m)
  BY DEF Towards, Abs, Near

\* A step that sends no panic order of evaluator e.
LEMMA ResidualKept ==
    ASSUME TypeOK, TypeOK', NEW e \in Evaluators, ResidualOf(e),
           todo'[e] \subseteq todo[e],
           epc'[e] = "close" =>
               /\ epc[e] = "close" /\ todo'[e] = todo[e]
               /\ missed'[e] = missed[e]
               /\ \A k \in Instruments : Accounted(e, k)
    PROVE  ResidualOf(e)'
<1>1. \A p1, p2 \in todo'[e] : p1[1] = p2[1] => p1 = p2
  BY DEF ResidualOf
<1>2. ASSUME epc'[e] = "close", NEW k \in Instruments \ missed'[e]
      PROVE  /\ \A p \in todo'[e] :
                    p[1] = k => Near(venQty'[k], p[2], slack'[e][k])
             /\ (\A p \in todo'[e] : p[1] # k) =>
                    Abs(venQty'[k]) <= slack'[e][k]
  <2>1. /\ venQty[k] \in Int /\ venQty'[k] \in Int
        /\ slack[e][k] \in Nat /\ slack'[e][k] \in Nat
        /\ \A p \in todo[e] : p[2] \in Int \ {0}
    <3>1. venQty[k] \in Int /\ venQty'[k] \in Int
      BY DEF TypeOK, VenueOK
    <3>2. slack[e][k] \in Nat /\ slack'[e][k] \in Nat
      BY DEF TypeOK, CountOK
    <3>3. \A p \in todo[e] : p[2] \in Int \ {0}
      BY DEF TypeOK, EvaluationOK
    <3> QED BY <3>1, <3>2, <3>3
  <2>2. /\ Abs(venQty[k]) <= slack[e][k] => Abs(venQty'[k]) <= slack'[e][k]
        /\ \A l \in Int \ {0} : Near(venQty[k], l, slack[e][k]) =>
                                   Near(venQty'[k], l, slack'[e][k])
    <3>1. \/ slack'[e][k] = slack[e][k] /\ Towards(venQty[k], venQty'[k])
          \/ slack'[e][k] >= slack[e][k] + Abs(venQty'[k] - venQty[k])
      BY <1>2 DEF Accounted
    <3> DEFINE q == venQty[k]
               r == venQty'[k]
               n == slack[e][k]
               m == slack'[e][k]
    <3>2. /\ q \in Int /\ r \in Int /\ n \in Nat /\ m \in Nat
          /\ (m = n /\ Towards(q, r)) \/ m >= n + Abs(r - q)
      BY <2>1, <3>1
    <3> HIDE DEF q, r, n, m
    <3>3. /\ Abs(q) <= n => Abs(r) <= m
          /\ \A l \in Int \ {0} : Near(q, l, n) => Near(r, l, m)
      BY <3>2, BoundsKept
    <3> QED BY <3>3 DEF q, r, n, m
  <2>3. /\ \A p \in todo[e] : p[1] = k => Near(venQty[k], p[2], slack[e][k])
        /\ (\A p \in todo[e] : p[1] # k) => Abs(venQty[k]) <= slack[e][k]
    BY <1>2 DEF ResidualOf
  <2> QED BY <1>2, <2>1, <2>2, <2>3
<1> QED BY <1>1, <1>2 DEF ResidualOf

\* Nothing changes that evaluator e has to account for.
LEMMA ResidualStutter ==
    ASSUME TypeOK, TypeOK', NEW e \in Evaluators, ResidualOf(e),
           UNCHANGED <<venQty, slack, missed, todo>>,
           epc'[e] = "close" => epc[e] = "close"
    PROVE  ResidualOf(e)'
<1>1. \A k \in Instruments : Accounted(e, k)
  BY DEF Accounted, Towards, TypeOK, VenueOK
<1> QED BY <1>1, ResidualKept

\* The listing: whatever the table has wrong is slack.
LEMMA ListResidual ==
    ASSUME TypeOK, NEW e \in Evaluators, ListOpenPositions(e)
    PROVE  ResidualOf(e)'
<1>1. /\ todo'[e] = PositionsOf({k \in Instruments : localQty[k] # 0})
      /\ slack'[e] = [k \in Instruments |-> Abs(localQty[k] - venQty[k])]
      /\ venQty' = venQty
  BY DEF ListOpenPositions, BeginSlack, TypeOK, EvaluationOK, CountOK
<1>2. \A p \in todo'[e] : p[1] \in Instruments /\ p[2] = localQty[p[1]]
                           /\ p = <<p[1], p[2]>> /\ p[2] # 0
  BY <1>1 DEF PositionsOf
<1>3. ASSUME NEW k \in Instruments
      PROVE  /\ localQty[k] # 0 =>
                    Near(venQty'[k], localQty[k], slack'[e][k])
             /\ localQty[k] = 0 => Abs(venQty'[k]) <= slack'[e][k]
  <2>1. localQty[k] \in Int /\ venQty[k] \in Int
    BY DEF TypeOK, DbOK, VenueOK
  <2> QED BY <1>1, <2>1 DEF Abs, Near
<1>4. \A k \in Instruments :
         localQty[k] # 0 => \E p \in todo'[e] : p[1] = k
  <2> SUFFICES ASSUME NEW k \in Instruments, localQty[k] # 0
               PROVE  \E p \in todo'[e] : p[1] = k
    OBVIOUS
  <2>1. <<k, localQty[k]>> \in todo'[e]
    BY <1>1 DEF PositionsOf
  <2> QED BY <2>1
<1> QED BY <1>2, <1>3, <1>4 DEF ResidualOf

\* The quantity at the venue after a panic order of evaluator e.
LEMMA CloseEffect ==
    ASSUME TypeOK, NEW e \in Evaluators, NEW p \in todo[e], SubmitClose(e, p),
           NEW k \in Instruments
    PROVE  /\ Towards(venQty[k], venQty'[k])
           /\ p[1] = k /\ venQty[k] > 0 /\ p[2] > 0 =>
                 venQty'[k] = IF p[2] <= venQty[k] THEN venQty[k] - p[2] ELSE 0
           /\ p[1] = k /\ venQty[k] < 0 /\ p[2] < 0 =>
                 venQty'[k] = IF venQty[k] <= p[2] THEN venQty[k] - p[2] ELSE 0
<1> DEFINE d == MarketDelta(venQty[p[1]], PanicOrder(p))
<1>1. /\ p[1] \in Instruments /\ p[2] \in Int \ {0}
      /\ venQty \in [Instruments -> Int]
  BY DEF TypeOK, VenueOK, EvaluationOK
<1>2. /\ d \in Int
      /\ venQty[p[1]] >= 0 => d <= 0 /\ venQty[p[1]] + d >= 0
      /\ venQty[p[1]] <= 0 => d >= 0 /\ venQty[p[1]] + d <= 0
      /\ venQty[p[1]] > 0 /\ p[2] > 0 =>
            venQty[p[1]] + d =
               IF p[2] <= venQty[p[1]] THEN venQty[p[1]] - p[2] ELSE 0
      /\ venQty[p[1]] < 0 /\ p[2] < 0 =>
            venQty[p[1]] + d =
               IF venQty[p[1]] <= p[2] THEN venQty[p[1]] - p[2] ELSE 0
  BY <1>1, PanicDelta
<1>3. \/ venQty' = venQty /\ d = 0
      \/ venQty' = [venQty EXCEPT ![p[1]] = @ + d]
  BY DEF SubmitClose, Execute
<1> HIDE DEF d
<1>4. venQty'[k] = IF k = p[1] THEN venQty[k] + d ELSE venQty[k]
  BY <1>1, <1>2, <1>3
<1>5. CASE k = p[1]
  BY <1>1, <1>2, <1>4, <1>5 DEF Towards
<1>6. CASE k # p[1]
  BY <1>1, <1>4, <1>6 DEF Towards
<1> QED BY <1>5, <1>6

\* Its own order takes the listed position down to the slack, and its other
\* positions are not touched.
LEMMA CloseResidual ==
    ASSUME TypeOK, TypeOK', NEW e \in Evaluators, NEW p \in todo[e],
           SubmitClose(e, p), ResidualOf(e)
    PROVE  ResidualOf(e)'
<1>1. /\ todo'[e] = todo[e] \ {p} /\ epc' = epc /\ epc[e] = "close"
      /\ UNCHANGED <<missed, slack>>
  BY DEF SubmitClose, TypeOK, EvaluationOK
<1>2. \A p1, p2 \in todo[e] : p1[1] = p2[1] => p1 = p2
  BY DEF ResidualOf
<1>3. ASSUME NEW k \in Instruments \ missed[e]
      PROVE  /\ \A o \in todo'[e] :
                    o[1] = k => Near(venQty'[k], o[2], slack[e][k])
             /\ (\A o \in todo'[e] : o[1] # k) =>
                    Abs(venQty'[k]) <= slack[e][k]
  <2>1. /\ venQty[k] \in Int /\ venQty'[k] \in Int /\ slack[e][k] \in Nat
        /\ \A o \in todo[e] : o[2] \in Int \ {0}
    <3>1. venQty[k] \in Int /\ venQty'[k] \in Int
      BY DEF TypeOK, VenueOK
    <3>2. slack[e][k] \in Nat
      BY DEF TypeOK, CountOK
    <3>3. \A o \in todo[e] : o[2] \in Int \ {0}
      BY DEF TypeOK, EvaluationOK
    <3> QED BY <3>1, <3>2, <3>3
  <2>2. /\ \A o \in todo[e] : o[1] = k => Near(venQty[k], o[2], slack[e][k])
        /\ (\A o \in todo[e] : o[1] # k) => Abs(venQty[k]) <= slack[e][k]
    BY <1>1 DEF ResidualOf
  <2>3. Towards(venQty[k], venQty'[k])
    BY CloseEffect
  <2>4. CASE p[1] = k
    <3>1. \A o \in todo'[e] : o[1] # k
      BY <1>1, <1>2, <2>4
    <3>2. Near(venQty[k], p[2], slack[e][k]) /\ p[2] \in Int \ {0}
      BY <2>1, <2>2, <2>4
    <3>3. /\ venQty[k] > 0 /\ p[2] > 0 =>
                venQty'[k] = IF p[2] <= venQty[k] THEN venQty[k] - p[2] ELSE 0
          /\ venQty[k] < 0 /\ p[2] < 0 =>
                venQty'[k] = IF venQty[k] <= p[2] THEN venQty[k] - p[2] ELSE 0
      BY <2>4, CloseEffect
    <3>4. Abs(venQty'[k]) <= slack[e][k]
      BY <2>1, <2>3, <3>2, <3>3 DEF Towards, Near, Abs
    <3> QED BY <3>1, <3>4
  <2>5. CASE p[1] # k
    <3>1. /\ Abs(venQty[k]) <= slack[e][k] => Abs(venQty'[k]) <= slack[e][k]
          /\ \A l \in Int \ {0} : Near(venQty[k], l, slack[e][k]) =>
                                     Near(venQty'[k], l, slack[e][k])
      BY <2>1, <2>3, BoundsKept
    <3> QED BY <1>1, <2>1, <2>2, <2>5, <3>1
  <2> QED BY <2>4, <2>5
<1> QED BY <1>1, <1>2, <1>3 DEF ResidualOf

\* An order that does not get through.
LEMMA MissResidual ==
    ASSUME TypeOK, NEW e \in Evaluators, NEW p \in todo[e], ResidualOf(e),
           CloseRefused(e, p) \/ CloseFails(e, p)
    PROVE  ResidualOf(e)'
<1>1. /\ todo'[e] = todo[e] \ {p} /\ missed'[e] = missed[e] \cup {p[1]}
      /\ UNCHANGED <<epc, venQty, slack>> /\ epc[e] = "close"
  BY DEF CloseRefused, CloseFails, TypeOK, EvaluationOK, CountOK
<1> QED BY <1>1 DEF ResidualOf
\* An order of evaluator f that does not get through is nothing to evaluator e.
LEMMA OthersMiss ==
    ASSUME TypeOK, TypeOK', NEW e \in Evaluators, NEW f \in Evaluators, e # f,
           NEW p \in todo[f], ResidualOf(e),
           CloseRefused(f, p) \/ CloseFails(f, p)
    PROVE  ResidualOf(e)'
<1>1. /\ todo'[e] = todo[e] /\ epc' = epc /\ missed'[e] = missed[e]
      /\ UNCHANGED <<venQty, slack>>
  BY DEF CloseRefused, CloseFails, TypeOK, EvaluationOK, CountOK
<1>2. \A k \in Instruments : Accounted(e, k)
  BY <1>1 DEF Accounted, Towards, TypeOK, VenueOK
<1> QED BY <1>1, <1>2, ResidualKept

\* A contract of a resting entry is accounted for by every running panic-close.
LEMMA FillAccounted ==
    ASSUME TypeOK, TypeOK', NEW e \in Evaluators, NEW k \in Instruments,
           NEW s \in Sides, EntryFills(k, s)
    PROVE  /\ UNCHANGED <<todo, missed, epc>>
           /\ epc[e] = "close" => \A i \in Instruments : Accounted(e, i)
<1>1. /\ UNCHANGED <<todo, missed, epc>>
      /\ venQty' = [venQty EXCEPT ![k] = @ + s]
      /\ epc[e] = "close" => slack'[e] = [slack[e] EXCEPT ![k] = @ + 1]
  BY DEF EntryFills, Execute
<1>2. ASSUME epc[e] = "close", NEW i \in Instruments
      PROVE  Accounted(e, i)
  <2>1. venQty[i] \in Int /\ slack[e][i] \in Nat /\ s \in {-1, 1}
    BY DEF TypeOK, VenueOK, CountOK, Sides
  <2>2. venQty'[i] = IF i = k THEN venQty[i] + s ELSE venQty[i]
    BY <1>1 DEF TypeOK, VenueOK
  <2>3. slack'[e][i] = IF i = k THEN slack[e][i] + 1 ELSE slack[e][i]
    BY <1>1, <1>2 DEF TypeOK, CountOK
  <2> QED BY <2>1, <2>2, <2>3 DEF Accounted, Towards, Abs
<1> QED BY <1>1, <1>2

\* The steps of evaluator f, from the point of view of evaluator e.
LEMMA EvaluatorResidual ==
    ASSUME TypeOK, TypeOK', ResidualInv, NEW f \in Evaluators, EvaluatorStep(f)
    PROVE  ResidualInv'
<1> SUFFICES ASSUME NEW e \in Evaluators PROVE ResidualOf(e)'
  BY DEF ResidualInv
<1>0. ResidualOf(e) /\ epc \in [Evaluators -> EvaluatorPc]
  BY DEF ResidualInv, TypeOK, EvaluationOK
<1>1. CASE \/ LoadPortfolioState(f) \/ HasActiveHardTrigger(f) \/ NoChange(f)
           \/ RecordDisable(f) \/ RecordPanic(f)
  <2>1. /\ UNCHANGED <<venQty, slack, missed, todo>>
        /\ epc'[e] = "close" => epc[e] = "close"
    BY <1>0, <1>1 DEF LoadPortfolioState, HasActiveHardTrigger, NoChange,
                      RecordDisable, RecordPanic, Step
  <2> QED BY <1>0, <2>1, ResidualStutter
<1>2. CASE ListOpenPositions(f)
  <2>1. CASE e = f
    BY <1>2, <2>1, ListResidual
  <2>2. CASE e # f
    <3>1. /\ todo'[e] = todo[e] /\ epc'[e] = epc[e] /\ missed'[e] = missed[e]
          /\ slack'[e] = slack[e] /\ venQty' = venQty
      BY <1>2, <2>2 DEF ListOpenPositions, BeginSlack, Step, TypeOK,
                        EvaluationOK, CountOK
    <3>2. \A k \in Instruments : Accounted(e, k)
      BY <3>1 DEF Accounted, Towards, TypeOK, VenueOK
    <3> QED BY <1>0, <3>1, <3>2, ResidualKept
  <2> QED BY <2>1, <2>2
<1>3. ASSUME NEW p \in todo[f], SubmitClose(f, p)
      PROVE  ResidualOf(e)'
  <2>1. CASE e = f
    BY <1>0, <1>3, <2>1, CloseResidual
  <2>2. CASE e # f
    <3>1. /\ todo'[e] = todo[e] /\ epc'[e] = epc[e] /\ missed'[e] = missed[e]
          /\ slack' = slack
      BY <1>3, <2>2 DEF SubmitClose, TypeOK, EvaluationOK
    <3>2. \A k \in Instruments : Accounted(e, k)
      BY <1>3, <3>1, CloseEffect DEF Accounted
    <3> QED BY <1>0, <3>1, <3>2, ResidualKept
  <2> QED BY <2>1, <2>2
<1>4. ASSUME NEW p \in todo[f], CloseRefused(f, p)
      PROVE  ResidualOf(e)'
  BY <1>0, <1>4, OthersMiss, MissResidual
<1>5. CASE PanicDone(f)
  <2>1. /\ venQty' = venQty /\ missed' = missed /\ todo' = todo
        /\ epc'[f] = "idle"
        /\ e # f => epc'[e] = epc[e] /\ slack'[e] = slack[e]
    BY <1>0, <1>5 DEF PanicDone, Step, TypeOK, CountOK
  <2>2. e # f => \A k \in Instruments : Accounted(e, k)
    BY <2>1 DEF Accounted, Towards, TypeOK, VenueOK
  <2> QED BY <1>0, <2>1, <2>2, ResidualKept
<1> QED BY <1>1, <1>2, <1>3, <1>4, <1>5 DEF EvaluatorStep

\* Every step keeps the bounds of both evaluators.
LEMMA ResidualStep ==
    TypeOK /\ TypeOK' /\ ResidualInv /\ [Next]_vars => ResidualInv'
<1> SUFFICES ASSUME TypeOK, TypeOK', ResidualInv, [Next]_vars
             PROVE  ResidualInv'
  OBVIOUS
<1>1. CASE \E f \in Evaluators : EvaluatorStep(f)
  BY <1>1, EvaluatorResidual
<1> SUFFICES ASSUME ~ \E f \in Evaluators : EvaluatorStep(f),
                    NEW e \in Evaluators
             PROVE  ResidualOf(e)'
  BY <1>1 DEF ResidualInv
<1>0. ResidualOf(e) /\ epc \in [Evaluators -> EvaluatorPc]
  BY DEF ResidualInv, TypeOK, EvaluationOK
<1>2. CASE Tick \/ GetAccounts \/ WriteSnapshot \/ SubmitApproved \/ ApplyFill
           \/ Resolve \/ UNCHANGED vars
  <2>1. /\ UNCHANGED <<venQty, slack, missed, todo>>
        /\ epc'[e] = "close" => epc[e] = "close"
    BY <1>0, <1>2 DEF Tick, Step, GetAccounts, WriteSnapshot, SubmitApproved,
                      ApplyFill, Resolve, vars
  <2> QED BY <1>0, <2>1, ResidualStutter
<1>3. CASE \/ \E k \in Instruments, d \in Deltas : ApproveSignal(k, d)
           \/ \E k \in Instruments : MarketMove(k)
           \/ \E k \in Instruments, s \in Sides : EntryCancelled(k, s)
           \/ \E f \in Evaluators : EvaluationFails(f)
  <2>1. /\ UNCHANGED <<venQty, slack, missed, todo>>
        /\ epc'[e] = "close" => epc[e] = "close"
    BY <1>0, <1>3 DEF ApproveSignal, MarketMove, EntryCancelled,
                      EvaluationFails
  <2> QED BY <1>0, <2>1, ResidualStutter
<1>4. ASSUME NEW k \in Instruments, NEW s \in Sides, EntryFills(k, s)
      PROVE  ResidualOf(e)'
  BY <1>0, <1>4, FillAccounted, ResidualKept
<1>5. ASSUME NEW f \in Evaluators, NEW p \in todo[f], CloseFails(f, p)
      PROVE  ResidualOf(e)'
  BY <1>0, <1>5, OthersMiss, MissResidual
<1>6. CASE Crash
  <2>1. epc'[e] = "idle" /\ todo'[e] = {}
    BY <1>6 DEF Crash
  <2> QED BY <1>0, <2>1, ResidualKept
<1> QED BY <1>2, <1>3, <1>4, <1>5, <1>6 DEF Next, Fault

\* A panic-close whose orders all got through leaves no more contracts at the
\* venue than the table was off by when it was listed plus what resting entries
\* executed since, for any number of instruments, sizes and interleavings of
\* the two evaluators (panic_close_leverage_positions).
THEOREM PanicResidualTheorem == Spec => []PanicResidual
<1>1. Init => ResidualInv
  BY DEF Init, ResidualInv, ResidualOf
<1>2. TypeOK /\ ResidualInv => PanicResidual
  BY DEF ResidualInv, ResidualOf, PanicResidual
<1> QED BY <1>1, <1>2, ResidualStep, KillTypeCorrect, PTL DEF Spec
=============================================================================
