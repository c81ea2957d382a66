SPECIFICATION FairSpec
CONSTANTS
    a = a
    b = b
    Plugin <- MCPlugin
    Priority <- MCPriority
    Kind = {"pull_request", "issue"}
    MaxHead = 2
    MaxRequeues = 2
    MaxFailures = 2
INVARIANTS
    ReviewIsOfItsHead
    ValidatedValuesFlow
    PromisedResultsOnly

    
