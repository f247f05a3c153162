------------------------- MODULE SignalDecisionProofs -------------------------
(***************************************************************************)
(* Proofs about SignalDecision and the checklist, for every risk           *)
(* configuration, every signal, market and portfolio, and any number of    *)
(* failures.                                                               *)
(***************************************************************************)
EXTENDS SignalDecision, SequenceTheorems, FiniteSetTheorems, TLAPS

-----------------------------------------------------------------------------
(* The checklist.                                                          *)

\* A signal is approved when no check of the list rejects it.
LEMMA ApprovedMeans ==
    ASSUME NEW s, NEW m, NEW p
    PROVE  Approved(s, m, p) <=>
              /\ KillSwitchGate(s, p) # "rejected"
              /\ StalenessCheck(s, m, p) # "rejected"
              /\ SpreadLiquidityCheck(s, m, p) # "rejected"
              /\ VolatilityRegimeCheck(s, m, p) # "rejected"
              /\ HardLimitCheck(s, m, p) # "rejected"
              /\ DuplicatePositionCheck(s, m, p) # "rejected"
              /\ LiquidationDistanceCheck(s, m, p) # "rejected"
              /\ FundingRateCheck(s, m, p) # "rejected"
              /\ NotionalCapCheck(s, m, p) # "rejected"
<1> DEFINE e == Evaluate(s, m, p)
<1>1. DOMAIN e = 1 .. 9
  BY DEF Evaluate
<1>2. /\ e[1] = KillSwitchGate(s, p)
      /\ e[2] = StalenessCheck(s, m, p)
      /\ e[3] = SpreadLiquidityCheck(s, m, p)
      /\ e[4] = VolatilityRegimeCheck(s, m, p)
      /\ e[5] = HardLimitCheck(s, m, p)
      /\ e[6] = DuplicatePositionCheck(s, m, p)
      /\ e[7] = LiquidationDistanceCheck(s, m, p)
      /\ e[8] = FundingRateCheck(s, m, p)
      /\ e[9] = NotionalCapCheck(s, m, p)
  BY DEF Evaluate
<1> HIDE DEF e
<1>3. Approved(s, m, p) <=> \A i \in 1 .. 9 : e[i] # "rejected"
  BY <1>1 DEF Approved, Range, e
<1>4. (\A i \in 1 .. 9 : e[i] # "rejected") <=>
         /\ e[1] # "rejected" /\ e[2] # "rejected" /\ e[3] # "rejected"
         /\ e[4] # "rejected" /\ e[5] # "rejected" /\ e[6] # "rejected"
         /\ e[7] # "rejected" /\ e[8] # "rejected" /\ e[9] # "rejected"
  OBVIOUS
<1> QED BY <1>2, <1>3, <1>4

\* A verdict rejects exactly when its condition fails.
LEMMA VerdictMeans ==
    ASSUME NEW ok \in BOOLEAN
    PROVE  Verdict(ok) # "rejected" <=> ok
  BY DEF Verdict

\* The verdict on a signal of another sleeve than crypto_leverage does not
\* depend on the portfolio.
LEMMA PortfolioIrrelevant ==
    ASSUME NEW s, NEW m, NEW p, NEW q, ~Leveraged(s)
    PROVE  Approved(s, m, p) = Approved(s, m, q)
<1>1. KillSwitchGate(s, p) = KillSwitchGate(s, q)
  BY DEF KillSwitchGate
<1>2. HardLimitCheck(s, m, p) = HardLimitCheck(s, m, q)
  BY DEF HardLimitCheck
<1>3. /\ DuplicatePositionCheck(s, m, p) = DuplicatePositionCheck(s, m, q)
      /\ LiquidationDistanceCheck(s, m, p) = LiquidationDistanceCheck(s, m, q)
  BY DEF DuplicatePositionCheck, LiquidationDistanceCheck
<1>4. Evaluate(s, m, p) = Evaluate(s, m, q)
  BY <1>1, <1>2, <1>3 DEF Evaluate, StalenessCheck, SpreadLiquidityCheck,
     VolatilityRegimeCheck, FundingRateCheck, NotionalCapCheck
<1> QED BY <1>4 DEF Approved

\* The kill-switch, a drawdown or an exhausted budget of the leverage sleeve
\* never changes the verdict on a signal of another sleeve (hard_limit.rs,
\* PreTradeChecklist::evaluate).
THEOREM SpotUnaffectedTheorem == Spec => []SpotUnaffected
<1>1. SpotUnaffected
  BY PortfolioIrrelevant DEF SpotUnaffected, ChecklistVerdict
<1> QED BY <1>1, PTL

\* What an approval says about the book and the budget.
LEMMA ApprovalImplies ==
    ASSUME NEW s, NEW m, NEW p, Approved(s, m, p)
    PROVE  /\ m.fx > 0 /\ BothSides(m)
           /\ Leveraged(s) =>
                 EffectivePnl(p) * Permille - WorstCaseLoss(s)
                    > RiskConfig.leverage_kill_switch_budget_chf * Permille
<1>1. SpreadLiquidityCheck(s, m, p) # "rejected" /\ HardLimitCheck(s, m, p) # "rejected"
  BY ApprovedMeans
<1>2. m.fx > 0 /\ BothSides(m)
  BY <1>1 DEF SpreadLiquidityCheck, Verdict
<1>3. Leveraged(s) =>
         EffectivePnl(p) * Permille - WorstCaseLoss(s)
            > RiskConfig.leverage_kill_switch_budget_chf * Permille
  BY <1>1 DEF HardLimitCheck, Verdict
<1> QED BY <1>2, <1>3
-----------------------------------------------------------------------------
(* The order builders.                                                     *)

\* A non-empty book has a best price.
LEMMA BestType ==
    ASSUME NEW levels \in Seq(Levels), levels # <<>>
    PROVE  Best(levels) \in Nat \ {0}
<1>1. Head(levels) \in Levels
  BY HeadTailProperties
<1> QED BY <1>1 DEF Best, Levels

\* The whole position, with a positive quantity.
LEMMA ExitOrderType ==
    ASSUME NEW s \in SignalRows, NEW p \in PortfolioStates
    PROVE  BuildExitOrder(s, p) \subseteq Orders
<1> SUFFICES ASSUME NEW q \in p.positions, s.side * q.qty < 0
             PROVE  [side |-> s.side, qty |-> s.side * (-q.qty),
                     price |-> None, reduceOnly |-> TRUE] \in Orders
  BY DEF BuildExitOrder, PositionsOf
<1>1. s.side \in {1, -1} /\ q.qty \in Int
  BY DEF SignalRows, PortfolioStates, OpenPositions, Sides
<1>2. s.side * (-q.qty) \in Nat \ {0}
  BY <1>1
<1> QED BY <1>1, <1>2 DEF Orders, Sides

\* At least one contract, at a price of the book.
LEMMA EntryOrderType ==
    ASSUME NEW s \in SignalRows, NEW m \in MarketSnapshots
    PROVE  BuildEntryOrder(s, m) \subseteq Orders
<1> SUFFICES ASSUME m.fx > 0,
                    Contracts(s, m) \in 1 .. MaxContracts,
                    OwnSide(s.side, m) # <<>>
             PROVE  [side |-> s.side, qty |-> Contracts(s, m),
                     price |-> LimitPrice(s, m), reduceOnly |-> FALSE] \in Orders
  BY DEF BuildEntryOrder
<1>1. Contracts(s, m) \in Nat \ {0}
  BY ConfigAssumption
<1>2. OwnSide(s.side, m) \in Seq(Levels)
  BY DEF OwnSide, MarketSnapshots
<1>3. LimitPrice(s, m) \in Nat
  BY <1>2, BestType DEF LimitPrice
<1> QED BY <1>1, <1>3 DEF Orders, SignalRows

\* Whatever is built is an order.
LEMMA BuildOrderType ==
    ASSUME NEW s \in SignalRows, NEW m \in MarketSnapshots,
           NEW p \in PortfolioStates
    PROVE  BuildOrder(s, m, p) \subseteq Orders
  BY ExitOrderType, EntryOrderType DEF BuildOrder

-----------------------------------------------------------------------------
(* The audit rows.                                                         *)

\* What is appended is last.
LEMMA LastAppended ==
    ASSUME NEW S, NEW a \in Seq(S), NEW v \in S
    PROVE  /\ Append(a, v) \in Seq(S)
           /\ Append(a, v) # <<>>
           /\ Len(Append(a, v)) = Len(a) + 1
           /\ Last(Append(a, v)) = v
<1>1. /\ Append(a, v) \in Seq(S)
      /\ Append(a, v) # <<>>
      /\ Len(Append(a, v)) = Len(a) + 1
      /\ Append(a, v)[Len(a) + 1] = v
  BY AppendProperties
<1> QED BY <1>1 DEF Last

\* A recorded approval is one more, a recorded rejection is not.
LEMMA ApprovalsAppended ==
    ASSUME NEW a \in Seq(BOOLEAN), NEW v \in BOOLEAN
    PROVE  LET of(s) == Cardinality({i \in DOMAIN s : s[i]})
           IN  /\ of(a) \in Nat
               /\ of(Append(a, v)) = of(a) + (IF v THEN 1 ELSE 0)
<1> DEFINE A == {i \in DOMAIN a : a[i]}
           b == Append(a, v)
           B == {i \in DOMAIN b : b[i]}
<1>1. DOMAIN a = 1 .. Len(a) /\ Len(a) \in Nat
  BY LenProperties
<1>2. /\ DOMAIN b = 1 .. Len(a) + 1
      /\ \A i \in 1 .. Len(a) : b[i] = a[i]
      /\ b[Len(a) + 1] = v
  BY AppendProperties, LenProperties
<1>3. IsFiniteSet(A) /\ Cardinality(A) \in Nat
  <2>1. IsFiniteSet(1 .. Len(a))
    BY <1>1, FS_Interval
  <2>2. A \subseteq 1 .. Len(a)
    BY <1>1
  <2>3. IsFiniteSet(A)
    BY <2>1, <2>2, FS_Subset
  <2> QED BY <2>3, FS_CardinalityType
<1>4. CASE v
  <2>1. B = A \cup {Len(a) + 1}
    BY <1>1, <1>2, <1>4
  <2>2. Len(a) + 1 \notin A
    BY <1>1
  <2> QED BY <1>3, <1>4, <2>1, <2>2, FS_AddElement
<1>5. CASE ~v
  <2>1. B = A
    BY <1>1, <1>2, <1>5
  <2>2. (IF v THEN 1 ELSE 0) = 0
    BY <1>5
  <2>3. Cardinality(A) + 0 = Cardinality(A)
    BY <1>3
  <2> QED BY <1>3, <2>1, <2>2, <2>3, Zenon
<1> QED BY <1>4, <1>5, <1>3
-----------------------------------------------------------------------------
(* The invariant is inductive.                                             *)

\* A signal that is just written.
LEMMA InitEstablishes == Init => DecisionInv
<1> SUFFICES ASSUME Init PROVE DecisionInv
  OBVIOUS
<1> USE InputsAssumption DEF Init
<1>1. TypeOK
  <2>1. /\ audit \in Seq(BOOLEAN) /\ intents \in Seq(Intents)
        /\ Len(audit) <= MaxFaults + 1 /\ faults \in 0 .. MaxFaults
    OBVIOUS
  <2> QED BY <2>1, Zenon DEF TypeOK, PCs
<1>2. StageInv
  BY DEF StageInv, Evaluated, Decided, Reasons
<1>3. Approvals = {} /\ Cardinality(Approvals) = 0
  BY FS_EmptySet DEF Approvals
<1>4. RecordInv
  BY <1>3 DEF RecordInv, Concluded, Decided, Reasons
<1> QED BY <1>1, <1>2, <1>4 DEF DecisionInv

\* poll_once: an expired or unreadable row is rejected before anything is read.
LEMMA BeginSignalKeeps == DecisionInv /\ BeginSignal => DecisionInv'
<1> SUFFICES ASSUME DecisionInv, BeginSignal PROVE DecisionInv'
  OBVIOUS
<1> USE InputsAssumption DEF DecisionInv, BeginSignal, Reject, RowToSignal
<1>1. TypeOK'
  BY DEF TypeOK, PCs, Reasons
<1>2. StageInv'
  BY DEF StageInv, Evaluated, Decided, Reasons, ChecklistVerdict, Buildable
<1>3. RecordInv'
  <2>1. Approvals' = Approvals
    BY DEF Approvals
  <2>2. ~Decided' /\ ~Concluded /\ reason' # "checklist_rejected"
    BY DEF Decided, Concluded, StageInv, Reasons
  <2>3. faults \in Nat /\ Len(audit) \in Nat /\ Len(intents) \in Nat
    BY DEF TypeOK
  <2>4. Len(audit) <= faults + (IF Concluded' THEN 1 ELSE 0)
    BY <2>2, <2>3 DEF RecordInv
  <2> QED BY <2>1, <2>2, <2>4 DEF RecordInv
<1> QED BY <1>1, <1>2, <1>3
\* The counters of the invariant are numbers.
LEMMA CountersAreNat ==
    TypeOK => /\ faults \in Nat /\ Len(audit) \in Nat /\ Len(intents) \in Nat
              /\ Cardinality(Approvals) \in Nat
<1> SUFFICES ASSUME TypeOK
             PROVE  /\ faults \in Nat /\ Len(audit) \in Nat /\ Len(intents) \in Nat
                    /\ Cardinality(Approvals) \in Nat
  OBVIOUS
<1>1. faults \in Nat /\ Len(audit) \in Nat /\ Len(intents) \in Nat
  BY InputsAssumption DEF TypeOK
<1>2. Cardinality(Approvals) \in Nat
  BY ApprovalsAppended DEF TypeOK, Approvals
<1> QED BY <1>1, <1>2

\* The market of this attempt is in hand, or the signal is rejected.
LEMMA ReadMarketKeeps ==
    ASSUME NEW m \in Markets
    PROVE  DecisionInv /\ ReadMarket(m) => DecisionInv'
<1> SUFFICES ASSUME DecisionInv, ReadMarket(m) PROVE DecisionInv'
  OBVIOUS
<1> USE InputsAssumption DEF DecisionInv, ReadMarket, Reject, SnapshotForSignal
<1>1. TypeOK'
  BY DEF TypeOK, PCs, Reasons
<1>2. StageInv'
  BY DEF StageInv, Evaluated, Decided, Reasons
<1>3. RecordInv'
  <2>1. Approvals' = Approvals
    BY DEF Approvals
  <2>2. ~Decided' /\ ~Concluded /\ reason' # "checklist_rejected"
    BY DEF Decided, Concluded, StageInv, Reasons
  <2>3. Len(audit) <= faults + (IF Concluded' THEN 1 ELSE 0)
    BY <2>2, CountersAreNat DEF RecordInv
  <2> QED BY <2>1, <2>2, <2>3 DEF RecordInv
<1> QED BY <1>1, <1>2, <1>3

\* The portfolio of this attempt is in hand.
LEMMA LoadPortfolioKeeps ==
    ASSUME NEW p \in Portfolios
    PROVE  DecisionInv /\ LoadPortfolio(p) => DecisionInv'
<1> SUFFICES ASSUME DecisionInv, LoadPortfolio(p) PROVE DecisionInv'
  OBVIOUS
<1> USE InputsAssumption DEF DecisionInv, LoadPortfolio
<1>1. TypeOK'
  BY DEF TypeOK, PCs, Reasons
<1>2. StageInv'
  BY DEF StageInv, Evaluated, Decided, Reasons
<1>3. RecordInv'
  BY DEF RecordInv, StageInv, Approvals, Decided, Concluded, Reasons
<1> QED BY <1>1, <1>2, <1>3

\* A portfolio that cannot be loaded rejects the signal: nothing was evaluated, so
\* nothing is missing in the audit table.
LEMMA LoadPortfolioFailsKeeps == DecisionInv /\ LoadPortfolioFails => DecisionInv'
<1> SUFFICES ASSUME DecisionInv, LoadPortfolioFails PROVE DecisionInv'
  OBVIOUS
<1> USE InputsAssumption DEF DecisionInv, LoadPortfolioFails, Reject
<1>1. TypeOK'
  <2>1. snapshots' \in BOOLEAN
    BY DEF TypeOK
  <2>2. faults' \in 0 .. MaxFaults
    BY DEF TypeOK
  <2> QED BY <2>1, <2>2 DEF TypeOK, PCs, Reasons
<1>2. StageInv'
  BY DEF StageInv, Evaluated, Decided, Reasons
<1>3. RecordInv'
  <2>1. Approvals' = Approvals
    BY DEF Approvals
  <2>2. ~Decided' /\ ~Concluded /\ Concluded' /\ reason' # "checklist_rejected"
    BY DEF Decided, Concluded, StageInv, Reasons
  <2>3. Len(audit) <= faults' + 1 /\ Len(intents) <= faults'
    BY <2>2, CountersAreNat DEF RecordInv, StageInv
  <2>4. status = "pending"
    BY DEF StageInv
  <2> QED BY <2>1, <2>2, <2>3, <2>4, CountersAreNat DEF RecordInv
<1> QED BY <1>1, <1>2, <1>3

\* The evaluation: one audit row more, and an approval leads to an intent or an
\* order on the market and the portfolio it was given for.
LEMMA RecordEvaluationKeeps == DecisionInv /\ RecordEvaluation => DecisionInv'
<1> SUFFICES ASSUME DecisionInv, RecordEvaluation PROVE DecisionInv'
  OBVIOUS
<1> USE InputsAssumption DEF DecisionInv, RecordEvaluation, AfterChecklist, Reject
<1>1. ChecklistVerdict \in BOOLEAN /\ ChecklistVerdict' = ChecklistVerdict
  BY DEF ChecklistVerdict, Approved
<1>2. /\ audit' \in Seq(BOOLEAN) /\ audit' # <<>>
      /\ Len(audit') = Len(audit) + 1 /\ Last(audit') = ChecklistVerdict
  BY <1>1, LastAppended DEF TypeOK
<1>3. status = "pending" /\ reason = None /\ order = None /\ ~Concluded
  BY DEF StageInv, Concluded
<1>4. Len(audit') <= faults + 1
  BY <1>2, <1>3, CountersAreNat DEF RecordInv
<1>5. TypeOK'
  <2>1. Len(audit') <= MaxFaults + 1
    BY <1>2, <1>4, CountersAreNat DEF TypeOK
  <2> QED BY <1>2, <2>1 DEF TypeOK, PCs, Reasons
<1>6. StageInv'
  BY <1>1, <1>3 DEF StageInv, Evaluated, Decided, Reasons
<1>7. Cardinality(Approvals)'
         = Cardinality(Approvals) + (IF ChecklistVerdict THEN 1 ELSE 0)
  BY <1>1, ApprovalsAppended DEF TypeOK, Approvals
<1>8. RecordInv'
  <2>1. Concluded'
    BY <1>1 DEF Concluded
  <2>2. Len(intents) <= Cardinality(Approvals)'
    BY <1>7, CountersAreNat DEF RecordInv
  <2>3. ChecklistVerdict => Len(intents) < Cardinality(Approvals)'
    BY <1>7, CountersAreNat DEF RecordInv
  <2>4. Len(intents) <= faults
    BY <1>3, CountersAreNat DEF RecordInv
  <2>5. pc' = "intent" \/ Decided' => ChecklistVerdict
    BY DEF Decided
  <2>6. reason' = "checklist_rejected" => ~ChecklistVerdict
    BY <1>3 DEF Reasons
  <2>7. status' = "pending" /\ pc' # "mark"
    BY <1>3
  <2> QED BY <1>2, <1>4, <2>1, <2>2, <2>3, <2>4, <2>5, <2>6, <2>7, CountersAreNat
          DEF RecordInv
<1> QED BY <1>5, <1>6, <1>8

\* The rejection is written with the reason that was decided.
LEMMA MarkRejectedKeeps == DecisionInv /\ MarkRejected => DecisionInv'
<1> SUFFICES ASSUME DecisionInv, MarkRejected PROVE DecisionInv'
  OBVIOUS
<1> USE InputsAssumption DEF DecisionInv, MarkRejected
<1>1. TypeOK'
  BY DEF TypeOK, PCs
<1>2. StageInv'
  BY DEF StageInv, Evaluated, Decided
<1>3. RecordInv'
  <2>1. Approvals' = Approvals
    BY DEF Approvals
  <2>2. Len(intents) <= faults + 1
    BY CountersAreNat DEF RecordInv
  <2> QED BY <2>1, <2>2 DEF RecordInv, Concluded, Decided, StageInv
<1> QED BY <1>1, <1>2, <1>3

\* The intent: an approval pays for it, and there is a price to quote.
LEMMA RecordIntentKeeps == DecisionInv /\ RecordIntent => DecisionInv'
<1> SUFFICES ASSUME DecisionInv, RecordIntent PROVE DecisionInv'
  OBVIOUS
<1> USE InputsAssumption DEF DecisionInv, RecordIntent
<1>1. Intent \in Intents
  <2>1. BothSides(market)
    BY ApprovalImplies DEF StageInv, Decided, ChecklistVerdict
  <2>2. /\ OppositeSide(row.side, market) \in Seq(Levels)
        /\ OppositeSide(row.side, market) # <<>>
    BY <2>1 DEF OppositeSide, BothSides, StageInv, Evaluated, Decided,
       MarketSnapshots
  <2>3. Best(OppositeSide(row.side, market)) \in Nat \ {0}
    BY <2>2, BestType
  <2>4. BrokerHint(row.sleeve) \in BrokerHints
    BY DEF BrokerHint, BrokerHints
  <2> QED BY <2>3, <2>4 DEF Intent, Intents
<1>2. /\ intents' \in Seq(Intents) /\ intents' # <<>>
      /\ Len(intents') = Len(intents) + 1
  BY <1>1, LastAppended DEF TypeOK
<1>3. TypeOK'
  BY <1>2 DEF TypeOK, PCs
<1>4. StageInv'
  BY DEF StageInv, Evaluated, Decided, ChecklistVerdict, Buildable
<1>5. RecordInv'
  <2>1. Approvals' = Approvals
    BY DEF Approvals
  <2>2. Len(intents') <= Cardinality(Approvals) /\ Len(intents') <= faults + 1
    BY <1>2, CountersAreNat DEF RecordInv, StageInv
  <2> QED BY <1>2, <2>1, <2>2 DEF RecordInv, Concluded, Decided, StageInv
<1> QED BY <1>3, <1>4, <1>5

\* The signal is processed only with its intent in the table.
LEMMA MarkProcessedKeeps == DecisionInv /\ MarkProcessed => DecisionInv'
<1> SUFFICES ASSUME DecisionInv, MarkProcessed PROVE DecisionInv'
  OBVIOUS
<1> USE InputsAssumption DEF DecisionInv, MarkProcessed
<1>1. TypeOK'
  BY DEF TypeOK, PCs
<1>2. StageInv'
  BY DEF StageInv, Evaluated, Decided, ChecklistVerdict, Buildable
<1>3. RecordInv'
  BY DEF RecordInv, Concluded, Decided, StageInv, Approvals
<1> QED BY <1>1, <1>2, <1>3

\* The order, on the market and the portfolio that were approved.
LEMMA RouteKeeps == DecisionInv /\ Route => DecisionInv'
<1> SUFFICES ASSUME DecisionInv, Route PROVE DecisionInv'
  OBVIOUS
<1> USE InputsAssumption DEF DecisionInv, Route, Reject
<1>1. /\ row \in SignalRows /\ market \in MarketSnapshots
      /\ portfolio \in PortfolioStates
  BY DEF TypeOK, StageInv, Evaluated, Decided
<1>2. order' \in Orders \cup {None}
  BY <1>1, BuildOrderType DEF TypeOK, Buildable
<1>3. TypeOK'
  BY <1>2 DEF TypeOK, PCs, Reasons
<1>4. Buildable' = Buildable /\ ChecklistVerdict' = ChecklistVerdict
  BY DEF Buildable, ChecklistVerdict
<1>5. StageInv'
  BY <1>4 DEF StageInv, Evaluated, Decided, Reasons
<1>6. RecordInv'
  BY DEF RecordInv, Concluded, Decided, StageInv, Approvals, Reasons
<1> QED BY <1>3, <1>5, <1>6

\* A failure or a stop: the row is pending again and the fault pays for what
\* the attempt has left in the tables.
LEMMA AbandonKeeps == DecisionInv /\ Abandon => DecisionInv'
<1> SUFFICES ASSUME DecisionInv, Abandon PROVE DecisionInv'
  OBVIOUS
<1> USE InputsAssumption DEF DecisionInv, Abandon
<1>1. faults' \in 0 .. MaxFaults
  BY DEF TypeOK
<1>2. TypeOK'
  BY <1>1 DEF TypeOK, PCs
<1>3. status = "pending" /\ order = None
  BY DEF StageInv
<1>4. StageInv'
  BY <1>3 DEF StageInv, Evaluated, Decided, Reasons
<1>5. RecordInv'
  <2>1. Approvals' = Approvals
    BY DEF Approvals
  <2>2. Len(audit) <= faults' /\ Len(intents) <= faults'
    BY CountersAreNat DEF RecordInv
  <2>3. ~Concluded' /\ ~Decided' /\ reason' # "checklist_rejected"
    BY <1>3 DEF Concluded, Decided, Reasons
  <2> QED BY <1>3, <2>1, <2>2, <2>3, CountersAreNat DEF RecordInv
<1> QED BY <1>2, <1>4, <1>5

\* The clock does not touch the daemon.
LEMMA ExpireKeeps == DecisionInv /\ (Expire \/ UNCHANGED vars) => DecisionInv'
<1> SUFFICES ASSUME DecisionInv, UNCHANGED <<dbVars, daemonVars, faults>>,
                    expired' \in BOOLEAN
             PROVE  DecisionInv'
  BY DEF Expire, vars, DecisionInv, TypeOK
<1> USE DEF DecisionInv, dbVars, daemonVars
<1>1. TypeOK'
  BY DEF TypeOK
<1>2. StageInv'
  BY DEF StageInv, Evaluated, Decided, ChecklistVerdict, Buildable
<1>3. RecordInv'
  BY DEF RecordInv, Concluded, Decided, Approvals
<1> QED BY <1>1, <1>2, <1>3

\* The inductive invariant holds: whatever statement fails and wherever the
\* daemon stops, process_signal decides on a market and a portfolio of the same
\* attempt, and each attempt leaves one audit row and one intent at most.
THEOREM DecisionInvariant == Spec => []DecisionInv
<1>1. DecisionInv /\ [Next]_vars => DecisionInv'
  BY BeginSignalKeeps, ReadMarketKeeps, LoadPortfolioKeeps,
     LoadPortfolioFailsKeeps, RecordEvaluationKeeps, MarkRejectedKeeps,
     RecordIntentKeeps, MarkProcessedKeeps, RouteKeeps, AbandonKeeps, ExpireKeeps
     DEF Next, Process
<1> QED BY <1>1, InitEstablishes, PTL DEF Spec
\* Every variable of process_signal keeps its type, and there are at most
\* MaxFaults + 1 evaluations of a signal.
THEOREM DecisionTypeCorrect == Spec => []TypeOK
<1>1. DecisionInv => TypeOK
  BY DEF DecisionInv
<1> QED BY <1>1, DecisionInvariant, PTL

\* The audit trail is complete: no more intents than recorded approvals, and the
\* evaluation recorded last is the one that was acted on, at whatever statement
\* the earlier attempts failed (record_checklist_evaluation,
\* record_dry_run_order, mark_signal_rejected).
THEOREM AuditTheorem == Spec => []AuditTrail
<1>1. DecisionInv => AuditTrail
  BY DEF DecisionInv, RecordInv, AuditTrail
<1> QED BY <1>1, DecisionInvariant, PTL

\* A dry run leaves an intent for the signal it marks processed, one more at
\* most for each failure, and never an order (record_dry_run_intent).
THEOREM DryRunTheorem == Spec => []DryRunRecorded
<1>1. DecisionInv => DryRunRecorded
  <2> SUFFICES ASSUME DecisionInv, mode = "dry_run" PROVE DryRunRecorded
    BY DEF DryRunRecorded
  <2>1. order = None
    BY DEF DecisionInv, StageInv
  <2>2. Len(intents) <= 1 + faults
    BY CountersAreNat DEF DecisionInv, RecordInv
  <2> QED BY <2>1, <2>2 DEF DecisionInv, RecordInv, DryRunRecorded
<1> QED BY <1>1, DecisionInvariant, PTL

-----------------------------------------------------------------------------
(* The entry order.                                                        *)

\* What is known of an entry order: it was built from the row and the market on
\* which the row was approved.
LEMMA EntryKnown ==
    ASSUME DecisionInv, Entry
    PROVE  /\ row \in SignalRows /\ market \in Markets \ {None}
           /\ market \in MarketSnapshots /\ portfolio \in PortfolioStates
           /\ Approved(row, market, portfolio) /\ Leveraged(row)
           /\ order = [side |-> row.side, qty |-> Contracts(row, market),
                       price |-> LimitPrice(row, market), reduceOnly |-> FALSE]
           /\ order.qty \in Nat \ {0}
<1>1. /\ pc = "submit" /\ Leveraged(row) /\ order \in Buildable
      /\ ~order.reduceOnly
  BY DEF DecisionInv, StageInv, Entry
<1>2. /\ row \in SignalRows /\ market \in Markets \ {None}
      /\ market \in MarketSnapshots /\ portfolio \in PortfolioStates
      /\ Approved(row, market, portfolio)
  BY <1>1, InputsAssumption DEF DecisionInv, StageInv, TypeOK, Evaluated, Decided,
     ChecklistVerdict
<1>3. order \in BuildEntryOrder(row, market)
  BY <1>1 DEF Buildable, BuildOrder, BuildExitOrder
<1>4. /\ order = [side |-> row.side, qty |-> Contracts(row, market),
                  price |-> LimitPrice(row, market), reduceOnly |-> FALSE]
      /\ order.qty \in Nat \ {0}
  BY <1>3, ConfigAssumption DEF BuildEntryOrder
<1> QED BY <1>1, <1>2, <1>4

\* The floor to whole contracts never rounds up.
LEMMA FloorBelow ==
    ASSUME NEW x \in Int
    PROVE  (x \div 100) * 100 <= x
  OBVIOUS

\* A product that is positive has no negative factor beside a positive one.
LEMMA PositiveFactor ==
    ASSUME NEW n \in Int, NEW fx \in Nat \ {0}, n * fx > 0
    PROVE  n \in Nat
  OBVIOUS

\* The arithmetic of the budget: with q contracts for at most the notional times
\* the FX rate, the loss in quote units is below the checked loss in CHF.
LEMMA BudgetArith ==
    ASSUME NEW q \in Nat, NEW n \in Nat, NEW l \in Nat \ {0}, NEW fx \in Nat \ {0},
           NEW risk \in Nat, NEW pnl \in Int, NEW budget \in Int,
           q * 100 <= n * fx,
           pnl * 1000 - n * l * risk > budget * 1000
    PROVE  pnl * 1000 * fx - q * 100 * risk > budget * 1000 * fx
<1>1. q * 100 * risk <= n * fx * risk
  OBVIOUS
<1>2. (n * fx) * risk <= (n * fx) * risk * l
  <2> DEFINE x == (n * fx) * risk
  <2>1. x \in Nat
    OBVIOUS
  <2> HIDE DEF x
  <2>2. x <= x * l
    BY <2>1
  <2> QED BY <2>2 DEF x
<1>3. (pnl * 1000 - n * l * risk - budget * 1000) * fx > 0
  <2> DEFINE x == pnl * 1000 - n * l * risk - budget * 1000
  <2>1. x \in Int /\ x > 0
    OBVIOUS
  <2> HIDE DEF x
  <2>2. x * fx > 0
    BY <2>1
  <2> QED BY <2>2 DEF x
<1>4. (pnl * 1000 - n * l * risk - budget * 1000) * fx
         = pnl * 1000 * fx - (n * fx) * risk * l - budget * 1000 * fx
  OBVIOUS
<1> QED BY <1>1, <1>2, <1>3, <1>4

\* leverage_sleeve_effective_pnl is the smaller of the realised and the total
\* P&L.
LEMMA EffectivePnlIsMin ==
    ASSUME NEW p \in PortfolioStates
    PROVE  /\ EffectivePnl(p) = Min({p.realized, p.realized + p.unrealized})
           /\ EffectivePnl(p) \in Int
<1>1. p.realized \in Int /\ p.unrealized \in Int
  BY DEF PortfolioStates
<1>2. \A x, y \in Int : Min({x, y}) = IF x <= y THEN x ELSE y
  BY DEF Min
<1> QED BY <1>1, <1>2 DEF EffectivePnl

\* An entry order of a signal with a leverage of at least one cannot lose the
\* budget by the simulated move, fees and funding included (hard_limit.rs,
\* build_kraken_futures_order). The three fractions of
\* the configuration must not sum to a negative number: RiskConfig is read from
\* a file and not validated.
THEOREM BudgetTheorem ==
    ASSUME RiskConfig.adverse_move_for_worst_case
           + RiskConfig.expected_round_trip_fee_fraction
           + RiskConfig.expected_funding_reserve_fraction \in Nat
    PROVE  Spec => []OrderWithinBudget
<1> DEFINE risk == RiskConfig.adverse_move_for_worst_case
                   + RiskConfig.expected_round_trip_fee_fraction
                   + RiskConfig.expected_funding_reserve_fraction
           budget == RiskConfig.leverage_kill_switch_budget_chf
<1>1. DecisionInv => OrderWithinBudget
  <2> SUFFICES ASSUME DecisionInv, Entry, row.leverage >= 1
               PROVE  Min({portfolio.realized,
                           portfolio.realized + portfolio.unrealized})
                         * Permille * market.fx - order.qty * FxUnit * risk
                      > budget * Permille * market.fx
    BY DEF OrderWithinBudget
  <2> DEFINE pnl == EffectivePnl(portfolio)
  <2>1. pnl = Min({portfolio.realized, portfolio.realized + portfolio.unrealized})
        /\ pnl \in Int
    BY EntryKnown, EffectivePnlIsMin
  <2>2. /\ market.fx > 0
        /\ pnl * Permille - WorstCaseLoss(row) > budget * Permille
    BY EntryKnown, ApprovalImplies
  <2>3. /\ market.fx \in Nat \ {0} /\ row.notional \in Int
        /\ row.leverage \in Nat \ {0}
    BY <2>2, EntryKnown DEF MarketSnapshots, SignalRows
  <2>4. /\ order.qty = (row.notional * market.fx) \div 100
        /\ order.qty \in Nat \ {0}
    BY EntryKnown DEF Contracts, FxUnit
  <2>5. /\ order.qty * 100 <= row.notional * market.fx
        /\ row.notional \in Nat
    <3>1. row.notional * market.fx \in Int
      BY <2>3
    <3>2. order.qty * 100 <= row.notional * market.fx
      BY <2>4, <3>1, FloorBelow
    <3>3. row.notional * market.fx > 0
      BY <2>4, <3>1, <3>2
    <3> QED BY <2>3, <3>2, <3>3, PositiveFactor
  <2>6. risk \in Nat /\ budget \in Int
    BY ConfigAssumption DEF ConfigFields
  <2>7. pnl * 1000 - row.notional * row.leverage * risk > budget * 1000
    BY <2>2 DEF WorstCaseLoss, Permille
  <2> DEFINE q == order.qty
             n == row.notional
             l == row.leverage
             fx == market.fx
  <2>8. /\ q \in Nat /\ n \in Nat /\ l \in Nat \ {0} /\ fx \in Nat \ {0}
        /\ q * 100 <= n * fx
        /\ pnl * 1000 - n * l * risk > budget * 1000
    BY <2>3, <2>4, <2>5, <2>7
  <2> HIDE DEF risk, pnl, budget, q, n, l, fx
  <2>9. pnl * 1000 * fx - q * 100 * risk > budget * 1000 * fx
    BY <2>1, <2>6, <2>8, BudgetArith
  <2> QED BY <2>1, <2>9 DEF Permille, FxUnit, q, fx, pnl
<1> QED BY <1>1, DecisionInvariant, PTL
-----------------------------------------------------------------------------
(* The two sides are treated alike.                                        *)

\* The smaller of two numbers.
LEMMA MinOfTwo ==
    ASSUME NEW x \in Int, NEW y \in Int
    PROVE  Min({x, y}) = IF x <= y THEN x ELSE y
  BY DEF Min

\* A reflected side of the book has the same quantities in the same order and
\* its best price reflected.
LEMMA ReflectedSide ==
    ASSUME NEW m \in MarketSnapshots, BothSides(m),
           NEW levels \in Seq(Levels), levels # <<>>
    PROVE  /\ Reflect(levels, m) # <<>>
           /\ Best(Reflect(levels, m)) = TwiceMid(m) - Best(levels)
           /\ Depth(Reflect(levels, m)) = Depth(levels)
<1> DEFINE r == Reflect(levels, m)
           T == TwiceMid(m)
           S == [price : Int, qty : Nat \ {0}]
<1>1. T \in Int
  <2>1. Best(m.bids) \in Nat /\ Best(m.asks) \in Nat
    BY BestType DEF BothSides, MarketSnapshots
  <2> QED BY <2>1 DEF TwiceMid
<1>2. DOMAIN levels = 1 .. Len(levels) /\ Len(levels) \in Nat \ {0}
  BY LenProperties, EmptySeq
<1> HIDE DEF T
<1>3. \A i \in 1 .. Len(levels) : levels[i] \in Levels
  BY <1>2, ElementOfSeq
<1>4. \A i \in 1 .. Len(levels) :
         r[i] \in S /\ r[i].qty = levels[i].qty /\ r[i].price = T - levels[i].price
  BY <1>1, <1>2, <1>3 DEF Reflect, Levels, T
<1>5. r = [i \in 1 .. Len(levels) |-> r[i]]
  BY <1>2 DEF Reflect
<1> HIDE DEF r, S
<1>6. r \in [1 .. Len(levels) -> S]
  BY <1>4, <1>5
<1>7. r \in Seq(S)
  BY <1>2, <1>6, IsASeq
<1>8. Len(r) = Len(levels)
  BY <1>2, <1>6, <1>7, LenProperties
<1>9. r # <<>> /\ Head(r) = r[1] /\ Head(levels) = levels[1]
  BY <1>2, <1>7, <1>8, EmptySeq, HeadTailProperties
<1>10. Best(r) = T - Best(levels)
  BY <1>2, <1>4, <1>9 DEF Best
<1>11. Depth(r) = Depth(levels)
  <2> DEFINE k == Min({RiskConfig.book_depth_levels, Len(levels)})
  <2>1. k \in Int /\ k <= Len(levels)
    <3>1. RiskConfig.book_depth_levels \in Int
      BY ConfigAssumption DEF ConfigFields
    <3> QED BY <1>2, <3>1, MinOfTwo
  <2> HIDE DEF k
  <2>2. [i \in 1 .. k |-> r[i].qty] = [i \in 1 .. k |-> levels[i].qty]
    BY <1>2, <1>4, <2>1
  <2> QED BY <1>8, <2>2 DEF Depth, k
<1> QED BY <1>9, <1>10, <1>11 DEF r, T

\* A verdict is the same on the mirrored signal, market and portfolio.
LEMMA Mirrored ==
    ASSUME NEW s \in SignalRows, NEW m \in MarketSnapshots,
           NEW p \in PortfolioStates, BothSides(m)
    PROVE  Approved(s, m, p) = Approved([s EXCEPT !.side = -@], MirrorMarket(m),
                                        MirrorPortfolio(p))
<1> DEFINE s2 == [s EXCEPT !.side = -@]
           m2 == MirrorMarket(m)
           p2 == MirrorPortfolio(p)
           Neg(q) == [q EXCEPT !.qty = -@]
<1>1. /\ s2.side = -s.side /\ s2.type = s.type /\ s2.sleeve = s.sleeve
      /\ s2.instrument = s.instrument /\ s2.notional = s.notional
      /\ s2.leverage = s.leverage /\ s.side \in {1, -1}
  BY DEF SignalRows, Sides
<1>2. /\ m2.bids = Reflect(m.asks, m) /\ m2.asks = Reflect(m.bids, m)
      /\ m2.age = m.age /\ m2.atr = m.atr /\ m2.atrPct = m.atrPct
      /\ m2.last = m.last /\ m2.fx = m.fx
      /\ m2.funding = IF m.funding = None THEN None ELSE -m.funding
  BY DEF MirrorMarket, MarketSnapshots
<1>3. /\ p2.realized = p.realized /\ p2.unrealized = p.unrealized
      /\ p2.nav = p.nav /\ p2.hwm = p.hwm /\ p2.killed = p.killed
      /\ p2.positions = {Neg(q) : q \in p.positions}
  BY DEF MirrorPortfolio, PortfolioStates
<1>4. \A q \in p.positions :
         /\ q.qty \in Int /\ Neg(q).qty = -q.qty
         /\ Neg(q).instrument = q.instrument /\ Neg(q).liq = q.liq
  BY DEF PortfolioStates, OpenPositions
<1>5. m.funding = None \/ m.funding \in Int
  BY DEF MarketSnapshots
<1> HIDE DEF s2, m2, p2, Neg
<1>6. /\ m.bids \in Seq(Levels) /\ m.asks \in Seq(Levels)
      /\ m.bids # <<>> /\ m.asks # <<>>
  BY DEF MarketSnapshots, BothSides
<1>7. /\ Best(m.bids) \in Int /\ Best(m.asks) \in Int
      /\ BothSides(m2)
      /\ Best(m2.bids) = TwiceMid(m) - Best(m.asks)
      /\ Best(m2.asks) = TwiceMid(m) - Best(m.bids)
  BY <1>2, <1>6, ReflectedSide, BestType DEF BothSides
<1>8. TwiceMid(m2) = TwiceMid(m)
      /\ Best(m2.asks) - Best(m2.bids) = Best(m.asks) - Best(m.bids)
  BY <1>7 DEF TwiceMid
<1>9. Depth(OppositeSide(s2.side, m2)) = Depth(OppositeSide(s.side, m))
  <2>1. CASE s.side = 1
    <3>1. OppositeSide(s2.side, m2) = m2.bids /\ OppositeSide(s.side, m) = m.asks
      BY <1>1, <2>1 DEF OppositeSide
    <3> QED BY <1>2, <1>6, <3>1, ReflectedSide
  <2>2. CASE s.side = -1
    <3>1. OppositeSide(s2.side, m2) = m2.asks /\ OppositeSide(s.side, m) = m.bids
      <4>1. \A x, y \in Int : x + 1 = 0 /\ y = -x => y = 1
        OBVIOUS
      <4>2. s.side \in Int /\ s.side + 1 = 0
        BY <2>2
      <4>3. s2.side \in Int
        BY <1>1, <4>2
      <4>4. s2.side = 1
        BY <1>1, <4>1, <4>2, <4>3
      <4> QED BY <2>2, <4>4 DEF OppositeSide
    <3> QED BY <1>2, <1>6, <3>1, ReflectedSide
  <2> QED BY <1>1, <2>1, <2>2
<1>10. Leveraged(s2) = Leveraged(s)
  BY <1>1 DEF Leveraged
<1>11. PositionsOf(s2, p2) = {Neg(q) : q \in PositionsOf(s, p)}
  BY <1>1, <1>3, <1>4 DEF PositionsOf
<1>12. PositionsOf(s, p) \subseteq p.positions
  BY DEF PositionsOf
<1>13. KillSwitchGate(s2, p2) = KillSwitchGate(s, p)
  BY <1>3, <1>10 DEF KillSwitchGate
<1>14. StalenessCheck(s2, m2, p2) = StalenessCheck(s, m, p)
  BY <1>2 DEF StalenessCheck
<1>15. SpreadLiquidityCheck(s2, m2, p2) = SpreadLiquidityCheck(s, m, p)
  <2>1. SpreadWithin(m2) = SpreadWithin(m)
    BY <1>8 DEF SpreadWithin
  <2>2. DepthSuffices(s2, m2) = DepthSuffices(s, m)
    BY <1>1, <1>2, <1>8, <1>9 DEF DepthSuffices
  <2>3. BothSides(m2) = BothSides(m)
    BY <1>7 DEF BothSides
  <2> QED BY <1>2, <1>8, <2>1, <2>2, <2>3 DEF SpreadLiquidityCheck
<1>16. VolatilityRegimeCheck(s2, m2, p2) = VolatilityRegimeCheck(s, m, p)
  BY <1>2, <1>10 DEF VolatilityRegimeCheck
<1>17. HardLimitCheck(s2, m2, p2) = HardLimitCheck(s, m, p)
  <2>1. /\ EffectivePnl(p2) = EffectivePnl(p) /\ DrawdownWithin(p2) = DrawdownWithin(p)
        /\ WorstCaseLoss(s2) = WorstCaseLoss(s)
    BY <1>1, <1>3 DEF EffectivePnl, DrawdownWithin, WorstCaseLoss
  <2> QED BY <1>1, <1>10, <2>1 DEF HardLimitCheck
<1>18. DuplicatePositionCheck(s2, m2, p2) = DuplicatePositionCheck(s, m, p)
  <2>1. \A q \in PositionsOf(s, p) : s2.side * Neg(q).qty = s.side * q.qty
    BY <1>1, <1>4, <1>12
  <2>2. (\A q \in PositionsOf(s2, p2) : s2.side * q.qty <= 0)
           = (\A q \in PositionsOf(s, p) : s.side * q.qty <= 0)
    BY <1>11, <2>1
  <2> QED BY <1>10, <2>2 DEF DuplicatePositionCheck
<1>19. LiquidationDistanceCheck(s2, m2, p2) = LiquidationDistanceCheck(s, m, p)
  <2> DEFINE known == {q \in PositionsOf(s, p) : q.liq # None}
             known2 == {q \in PositionsOf(s2, p2) : q.liq # None}
             Distance(q) == IF m.last > q.liq THEN m.last - q.liq ELSE q.liq - m.last
             Distance2(q) == IF m2.last > q.liq THEN m2.last - q.liq ELSE q.liq - m2.last
             far == RiskConfig.min_liq_distance_atrs * m.atr
             far2 == RiskConfig.min_liq_distance_atrs * m2.atr
  <2>1. known2 = {Neg(q) : q \in known}
    BY <1>4, <1>11, <1>12
  <2>2. (known2 = {}) = (known = {})
    BY <2>1
  <2>3. (\A q \in known2 : Distance2(q) >= far2) = (\A q \in known : Distance(q) >= far)
    <3>1. \A q \in known : Distance2(Neg(q)) = Distance(q)
      BY <1>2, <1>4, <1>12
    <3>2. far2 = far
      BY <1>2
    <3> HIDE DEF known, known2, Distance, Distance2, far, far2
    <3> QED BY <2>1, <3>1, <3>2
  <2> QED BY <1>2, <1>10, <2>2, <2>3 DEF LiquidationDistanceCheck
<1>20. FundingRateCheck(s2, m2, p2) = FundingRateCheck(s, m, p)
  <2>1. CASE m.funding = None
    BY <1>2, <2>1 DEF FundingRateCheck
  <2>2. CASE m.funding # None
    <3>1. m.funding \in Int /\ m2.funding = -m.funding /\ m2.funding # None
      BY <1>2, <1>5, <2>2, InputsAssumption
    <3>2. s2.side * m2.funding = s.side * m.funding
      BY <1>1, <3>1
    <3> QED BY <2>2, <3>1, <3>2 DEF FundingRateCheck
  <2> QED BY <2>1, <2>2
<1>21. NotionalCapCheck(s2, m2, p2) = NotionalCapCheck(s, m, p)
  BY <1>1 DEF NotionalCapCheck
<1>22. Evaluate(s2, m2, p2) = Evaluate(s, m, p)
  BY <1>13, <1>14, <1>15, <1>16, <1>17, <1>18, <1>19, <1>20, <1>21 DEF Evaluate
<1> QED BY <1>22 DEF Approved, s2, m2, p2

\* The verdict on a signal is the one its mirror image would get: no check has
\* the sign of the funding, the side of the depth or the side of a position
\* wrong for one of the two sides (rt-risk/src/checks).
THEOREM MirrorTheorem == Spec => []VerdictMirrored
<1>1. DecisionInv => VerdictMirrored
  <2> SUFFICES ASSUME DecisionInv, Evaluated, BothSides(market)
               PROVE  VerdictMirrored
    BY DEF VerdictMirrored
  <2>1. /\ row \in SignalRows /\ market \in MarketSnapshots
        /\ portfolio \in PortfolioStates
    BY InputsAssumption DEF DecisionInv, StageInv, TypeOK
  <2> QED BY <2>1, Mirrored DEF VerdictMirrored, ChecklistVerdict
<1> QED BY <1>1, DecisionInvariant, PTL
=============================================================================
