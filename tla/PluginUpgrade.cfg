\* Two versions, a coroutine and a thread that serve administrators, and the
\* heartbeat; any of them may overlap.
SPECIFICATION FairSpec
CONSTANTS
    Version = {v1, v2}
    Admin = {a1}
    Thread = {t1}
    Heartbeat = heartbeat
    None = None
INVARIANTS
    FailedUpgradeKeepsTheOld
    UpgradeTakesEffect
PROPERTIES
    PackageIsKept
    EnabledPluginsRun
