\* One task of a pull request whose head moves between two commits and back,
\* with fairness for the worker and for the recoveries; no symmetry, which
\* would be unsound for the liveness properties.
SPECIFICATION FairSpec
CONSTANTS
    MaxTasks = 1
    Head = {h1, h2}
    Request = {changes}
    Blocking = {changes}
    Admin = {a1}
    Thread = {x1}
    MaxPosts = 2
    None = None
INVARIANTS
    IInv
PROPERTIES
    ClaimsEnd
    RunsEnd
