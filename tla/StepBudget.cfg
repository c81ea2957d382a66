\* Four kinds of call, one of which makes progress; six configurations.
SPECIFICATION BudgetSpec
CONSTANTS
    Action = {read, list, search, edit}
    Progress = {edit}
    Limits <- MCLimits
INVARIANTS
    NoLoopRecorded
    ExtraStepsAreEarned
