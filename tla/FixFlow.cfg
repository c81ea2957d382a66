\* A harmless and a sensitive patch, one foreign commit, one pull task, one
\* endpoint thread, with fairness of the worker.
SPECIFICATION FairSpec
CONSTANTS
    Patch = {p1, p2}
    Sensitive = {p2}
    Pushed = {c1}
    MaxPulls = 1
    Thread = {x1}
    Issue = Issue
    None = None
INVARIANTS
    ReportedMergesHappened
    IInv
PROPERTIES
    KeepsPromise
    MergedAsReviewed
    RunsEnd
