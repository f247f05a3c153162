SPECIFICATION Spec
CONSTANTS
    None = None
    RiskConfig <- MCRiskConfig
    MaxContracts = 1050
    Rows <- MCRows
    Markets <- MCMarkets
    Portfolios <- MCPortfolios
    Modes = {"dry_run", "live"}
    MaxFaults = 1
INVARIANTS TypeOK OrderWithinBudget VerdictMirrored SpotUnaffected AuditTrail DryRunRecorded
PROPERTIES SignalSettles
CHECK_DEADLOCK FALSE
