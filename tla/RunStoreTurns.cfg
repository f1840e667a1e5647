CONSTANTS
    Runs = {1, 2, 3}
    SessionOf <- MCSessionOf
    NoWorker = NoWorker
    Workers = {w1}
    Calls = {}
    RunOf <- MCRunOf
    MaxVersion = 3
    MaxAttempts = 2
    GlobalLimit = 1
    ReportedFailures = {"internal_failure"}
SPECIFICATION Spec
INVARIANTS
    SessionTurnOrder
    ConcurrencyLimit
