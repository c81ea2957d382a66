\* Two deliveries of one pull request that stays on one head, two possible
\* reviews, two administrators, one endpoint thread, two POSTs per head.
SPECIFICATION Spec
CONSTANTS
    MaxTasks = 2
    Head = {h1}
    Request = {approve, changes}
    Blocking = {changes}
    Admin = {a1, a2}
    Thread = {x1}
    MaxPosts = 2
    None = None
SYMMETRY Symmetry
INVARIANTS
    EveryRetryWasAuthorised
    OneReviewPerHead
PROPERTIES
    RetryIsStillAllowed
    KeepsPromise
