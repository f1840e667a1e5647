CONSTANTS
    Runs = {1}
    SessionOf <- MCSessionOf
    NoWorker = NoWorker
    Workers = {w1}
    Calls = {c1, c2}
    RunOf <- MCRunOf
    MaxVersion = 5
    MaxAttempts = 2
    GlobalLimit = 1
    ReportedFailures = {"internal_failure"}
SPECIFICATION Spec
SYMMETRY CallSymmetry
PROPERTIES
    AuthorizedEndsUncertain
