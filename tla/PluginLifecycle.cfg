\* Requests and heartbeat in turn or overlapping; calls, a client, crashes and
\* restarts at any time.
SPECIFICATION FairSpec
CONSTANTS
    Proc = {p1, p2}
    Socket = {s1}
    Call = {c1, c2}
    Admin = {a1}
    Heartbeat = heartbeat
    None = None
INVARIANTS
    DisableIsFinal
    NoOrphan
    RegistryFollows
PROPERTIES
    StopAdmitsNoCall
    RequestsEnd
