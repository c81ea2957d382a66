---------------------------- MODULE PluginUpgrade ----------------------------
(***************************************************************************)
(* The package of one plugin (API v2) on disk, its record and its process, *)
(* through install, upgrade, configure, enable, disable, uninstall and the *)
(* heartbeat.                                                              *)
(*                                                                         *)
(* A version stands for a package's code and for the form of configuration *)
(* it expects.  upgrade, enable, disable and uninstall are coroutines: what*)
(* they do up to the next await is one action, except that the two renames *)
(* of an upgrade are two steps, since threads (install, configure) and a   *)
(* crash may come between them.  The drain of calls and transports that    *)
(* precedes a stop is in PluginLifecycle; here the plugin leaves processes *)
(* when the stop begins.                                                   *)
(***************************************************************************)
EXTENDS FiniteSets

CONSTANTS Version,    \* versions of the package, in any order
          Admin,      \* concurrent requests served by coroutines
          Thread,     \* concurrent requests served in threads: install, configure
          Heartbeat,  \* the heartbeat coroutine
          None        \* the absent value

ASSUME UpgradeConstantsOK ==
    None \notin Version /\ Heartbeat \notin Admin \cup Thread /\ Admin \cap Thread = {}

VARIABLES installed,  \* the version in the directory of installed packages
          aside,      \* old versions that wait in upgrade-old directories
          record,     \* the plugin's record: enabled, and the form of its configuration
          running,    \* the plugin's entry in processes: its code and configuration
          op,         \* what each actor is doing, or did last
          beats       \* the heartbeat comes round

vars == <<installed, aside, record, running, op, beats>>

Actor == Admin \cup Thread \cup {Heartbeat}
Maybe == Version \cup {None}
Record == [enabled : BOOLEAN, config : Maybe]

\* before and old: the record and version an upgrade began with; record: the
\* record enable or configure read; crossed: whether another operation was in
\* progress at any time during this one, or earlier ones that crossed had left a
\* disabled plugin running.
Op == [kind    : {"none", "install", "upgrade", "configure", "enable", "disable", "uninstall"},
       pc      : {"idle", "recording", "stopping", "swapping", "migrating", "launching",
                  "starting", "editing", "disabling", "removing"},
       outcome : {"none", "done", "failed", "kept", "unmigrated"},
       version : Maybe, old : Maybe, code : Maybe,
       before  : Record, record : Record,
       crossed : BOOLEAN]

\* The record of a plugin without a row.
NoRecord == [enabled |-> FALSE, config |-> None]

IdleOp == [kind |-> "none", pc |-> "idle", outcome |-> "none",
           version |-> None, old |-> None, code |-> None,
           before |-> NoRecord, record |-> NoRecord, crossed |-> FALSE]

\* Type correctness: the plugin, and the heartbeat.
PluginOK ==
    /\ installed \in Maybe
    /\ aside \subseteq Version
    /\ record \in Record
    /\ running \in [code : Version, config : Maybe] \cup {None}
    /\ op \in [Actor -> Op]
TypeOK == PluginOK /\ beats \in BOOLEAN

Init ==
    /\ installed = None
    /\ aside = {}
    /\ record = NoRecord
    /\ running = None
    /\ op = [a \in Actor |-> IdleOp]
    /\ beats = TRUE

-----------------------------------------------------------------------------
Busy == {a \in Actor : op[a].pc # "idle"}

\* The event loop is not in the middle of the two renames.
LoopFree == \A a \in Actor : op[a].pc # "swapping"

\* An operation begins, in o; those in progress are crossed, and a request ends
\* what could be said of the requests before it.
Begins(a, o) ==
    op' = [b \in Actor |->
              IF b = a THEN [o EXCEPT !.crossed = Busy # {} \/ (running # None /\ ~record.enabled)]
              ELSE IF b \in Busy THEN [op[b] EXCEPT !.crossed = TRUE]
              ELSE IF a = Heartbeat THEN op[b]
              ELSE IdleOp]

Goes(a, pc) == op' = [op EXCEPT ![a].pc = pc]

\* What remains of an operation in o that has ended: all that an upgrade began with.
Rest(o, outcome) ==
    IF o.kind = "upgrade"
    THEN [o EXCEPT !.pc = "idle", !.outcome = outcome, !.code = None, !.record = NoRecord]
    ELSE [IdleOp EXCEPT !.outcome = outcome]
Returns(a, outcome) == op' = [op EXCEPT ![a] = Rest(op[a], outcome)]

-----------------------------------------------------------------------------
(***************************************************************************)
(* install, and configure: in threads.                                     *)
(***************************************************************************)
Install(a, v) ==
    /\ op[a].pc = "idle"
    /\ installed = None
    /\ installed' = v
    /\ Begins(a, [IdleOp EXCEPT !.kind = "install", !.pc = "recording", !.version = v])
    /\ UNCHANGED <<aside, record, running>>

RecordInstall(a) ==
    /\ op[a].pc = "recording"
    /\ record' = [enabled |-> FALSE, config |-> op[a].version]
    /\ Returns(a, "done")
    /\ UNCHANGED <<installed, aside, running>>

\* The new values make the configuration complete for the manifest on disk.
BeginConfigure(a) ==
    /\ op[a].pc = "idle"
    /\ installed # None
    /\ Begins(a, [IdleOp EXCEPT !.kind = "configure", !.pc = "editing",
                                !.record = [record EXCEPT !.config = installed]])
    /\ UNCHANGED <<installed, aside, record, running>>

FinishConfigure(a) ==
    /\ op[a].pc = "editing"
    /\ record' = op[a].record
    /\ Returns(a, "done")
    /\ UNCHANGED <<installed, aside, running>>

-----------------------------------------------------------------------------
(***************************************************************************)
(* enable.                                                                 *)
(***************************************************************************)

\* enable raises; upgrade then saves the record it began with, disabled.
EnableRaises(a, o, rec) ==
    /\ record' = IF o.kind = "upgrade" THEN [o.before EXCEPT !.enabled = FALSE] ELSE rec
    /\ op' = [op EXCEPT ![a] = Rest(o, IF o.kind = "upgrade" THEN "unmigrated" ELSE "failed")]

\* enable up to process.start, by an operation that is in o: the record is rec;
\* a configuration of another form may lack a required value.
Enable(a, o, rec) ==
    \/ /\ running # None
       /\ record' = [rec EXCEPT !.enabled = TRUE]
       /\ op' = [op EXCEPT ![a] = Rest(o, "done")]
    \/ /\ running = None
       /\ record' = rec
       /\ op' = [op EXCEPT ![a] = [o EXCEPT !.pc = "launching", !.record = rec]]
    \/ rec.config # installed /\ EnableRaises(a, o, rec)

BeginEnable(a) ==
    /\ op[a].pc = "idle" /\ LoopFree
    /\ installed # None
    /\ \/ /\ running # None
          /\ record' = [record EXCEPT !.enabled = TRUE]
          /\ Begins(a, [IdleOp EXCEPT !.outcome = "done"])
       \/ /\ running = None
          /\ Begins(a, [IdleOp EXCEPT !.kind = "enable", !.pc = "launching", !.record = record])
          /\ UNCHANGED record
       \/ /\ record.config # installed
          /\ Begins(a, [IdleOp EXCEPT !.outcome = "failed"])
          /\ UNCHANGED record
    /\ UNCHANGED <<installed, aside, running>>

\* The environment is ready: the child loads the code that is on disk.
Launch(a) ==
    /\ op[a].pc = "launching" /\ LoopFree
    /\ installed # None
    /\ op' = [op EXCEPT ![a].pc = "starting", ![a].code = installed]
    /\ UNCHANGED <<installed, aside, record, running>>

\* The child enters processes, and the record read at the beginning is written
\* as enabled.
StartSucceeds(a) ==
    /\ op[a].pc = "starting" /\ LoopFree
    /\ running' = [code |-> op[a].code, config |-> op[a].record.config]
    /\ record' = [op[a].record EXCEPT !.enabled = TRUE]
    /\ Returns(a, "done")
    /\ UNCHANGED <<installed, aside>>

StartFails(a) ==
    /\ op[a].pc \in {"launching", "starting"} /\ LoopFree
    /\ EnableRaises(a, op[a], record)
    /\ UNCHANGED <<installed, aside, running>>

-----------------------------------------------------------------------------
(***************************************************************************)
(* upgrade.                                                                *)
(***************************************************************************)
UpgradeOp(v) == [IdleOp EXCEPT !.kind = "upgrade", !.version = v, !.old = installed,
                               !.before = record]

\* Mutant of BeginUpgrade: the old process goes on while its files are replaced.
BeginUpgradeRunning(a, v) ==
    /\ op[a].pc = "idle" /\ LoopFree
    /\ installed # None
    /\ installed' = None
    /\ aside' = aside \cup {installed}
    /\ Begins(a, [UpgradeOp(v) EXCEPT !.pc = "swapping"])
    /\ UNCHANGED <<record, running>>

\* The archive is valid and its plugin installed.  An enabled plugin that runs
\* is stopped first; otherwise the old package is set aside at once.
BeginUpgrade(a, v) ==
    /\ op[a].pc = "idle" /\ LoopFree
    /\ installed # None
    /\ \/ /\ record.enabled /\ running # None
          /\ running' = None
          /\ Begins(a, [UpgradeOp(v) EXCEPT !.pc = "stopping"])
          /\ UNCHANGED <<installed, aside>>
       \/ /\ ~(record.enabled /\ running # None)
          /\ installed' = None
          /\ aside' = aside \cup {installed}
          /\ Begins(a, [UpgradeOp(v) EXCEPT !.pc = "swapping"])
          /\ UNCHANGED running
    /\ UNCHANGED record

\* The archive is unpacked and the old package set aside, or the unpacking
\* fails, or there is no package any more.
SetAside(a) ==
    /\ op[a].pc = "stopping" /\ LoopFree
    /\ \/ /\ installed # None
          /\ installed' = None
          /\ aside' = aside \cup {installed}
          /\ op' = [op EXCEPT ![a].pc = "swapping", ![a].old = installed]
       \/ Returns(a, "kept") /\ UNCHANGED <<installed, aside>>
    /\ UNCHANGED <<record, running>>

\* Mutant of SwapFails: the old package is deleted without being renamed back.
SwapFailsDiscards(a) ==
    /\ op[a].pc = "swapping"
    /\ aside' = aside \ {op[a].old}
    /\ Returns(a, "kept")
    /\ UNCHANGED <<installed, record, running>>

\* The second rename fails, and the old package is renamed back.  A package
\* that was installed in between makes both fail, and is kept.
SwapFails(a) ==
    /\ op[a].pc = "swapping"
    /\ installed' = IF installed = None THEN op[a].old ELSE installed
    /\ aside' = aside \ {op[a].old}
    /\ Returns(a, "kept")
    /\ UNCHANGED <<record, running>>

\* Neither the new package nor the old one can be renamed into place: the old
\* one stays aside.
SwapBackFails(a) ==
    /\ op[a].pc = "swapping"
    /\ installed = None
    /\ Returns(a, "failed")
    /\ UNCHANGED <<installed, aside, record, running>>

\* The new package is in place.  Then the old environment is removed, and
\* upgrade fails when that fails; the migration runs in a process of its own.
Swap(a) ==
    /\ op[a].pc = "swapping"
    /\ installed = None
    /\ installed' = op[a].version
    /\ aside' = aside \ {op[a].old}
    /\ Goes(a, "migrating") \/ Returns(a, "failed")
    /\ UNCHANGED <<record, running>>

\* config.migrate, the reconciliation and lifecycle.upgrade succeed: the new
\* record is saved, and a plugin that was enabled is enabled again.
Migrated(a) ==
    /\ op[a].pc = "migrating" /\ LoopFree
    /\ LET saved == [op[a].before EXCEPT !.config = op[a].version] IN
           \/ saved.enabled /\ Enable(a, op[a], saved)
           \/ ~saved.enabled /\ record' = saved /\ Returns(a, "done")
    /\ UNCHANGED <<installed, aside, running>>

\* Mutant of MigrationFails: the error is recorded, the plugin stays enabled.
MigrationFailsEnabled(a) ==
    /\ op[a].pc = "migrating" /\ LoopFree
    /\ record' = op[a].before
    /\ Returns(a, "unmigrated")
    /\ UNCHANGED <<installed, aside, running>>

MigrationFails(a) ==
    /\ op[a].pc = "migrating" /\ LoopFree
    /\ record' = [op[a].before EXCEPT !.enabled = FALSE]
    /\ Returns(a, "unmigrated")
    /\ UNCHANGED <<installed, aside, running>>

-----------------------------------------------------------------------------
(***************************************************************************)
(* disable and uninstall.                                                  *)
(***************************************************************************)
BeginStop(a, kind, pc) ==
    /\ op[a].pc = "idle" /\ LoopFree
    /\ running' = None
    /\ Begins(a, [IdleOp EXCEPT !.kind = kind, !.pc = pc])
    /\ UNCHANGED <<installed, aside, record>>

FinishDisable(a) ==
    /\ op[a].pc = "disabling" /\ LoopFree
    /\ record' = [record EXCEPT !.enabled = FALSE]
    /\ Returns(a, "done")
    /\ UNCHANGED <<installed, aside, running>>

\* The plugin is disabled, its package removed and its row deleted; or a
\* removal on disk fails, after the package went or before, or there is none.
FinishUninstall(a) ==
    /\ op[a].pc = "removing" /\ LoopFree
    /\ \/ /\ installed # None
          /\ installed' = None /\ record' = NoRecord
          /\ Returns(a, "done")
       \/ /\ installed' \in {installed, None}
          /\ record' = [record EXCEPT !.enabled = FALSE]
          /\ Returns(a, "failed")
    /\ UNCHANGED <<aside, running>>

-----------------------------------------------------------------------------
(***************************************************************************)
(* The heartbeat, and start after a restart of Core; crashes.              *)
(***************************************************************************)

\* Mutant of HeartbeatEnables: a plugin that failed to start is given up.
HeartbeatEnablesUntilFailure ==
    /\ record.enabled /\ running = None
    /\ op[Heartbeat].outcome # "failed"
    /\ BeginEnable(Heartbeat)

\* An enabled, installed plugin that is not in processes is started.
HeartbeatEnables ==
    /\ record.enabled /\ running = None
    /\ BeginEnable(Heartbeat)

\* The process has died or fails its health check, and leaves processes.
Dies ==
    /\ running # None /\ LoopFree
    /\ running' = None
    /\ UNCHANGED <<installed, aside, record, op>>

\* The loop ends with an exception that nothing catches, or never returns from
\* an await without a limit, the write to some plugin that does not read.
HeartbeatStops ==
    /\ beats /\ beats' = FALSE
    /\ UNCHANGED <<installed, aside, record, running, op>>

\* Core dies, its children with it, and starts again.
Restart ==
    /\ beats' = TRUE
    /\ running' = None
    /\ op' = [a \in Actor |-> IF op[a].pc = "idle" THEN op[a] ELSE IdleOp]
    /\ UNCHANGED <<installed, aside, record>>

FinishThread(t) == RecordInstall(t) \/ FinishConfigure(t)

\* The steps of a coroutine in progress.
Proceed(a) ==
    \/ Launch(a) \/ StartSucceeds(a) \/ StartFails(a)
    \/ SetAside(a) \/ SwapFails(a) \/ SwapBackFails(a) \/ Swap(a) \/ Migrated(a) \/ MigrationFails(a)
    \/ FinishDisable(a) \/ FinishUninstall(a)

Act ==
    \/ \E t \in Thread :
          \/ \E v \in Version : Install(t, v)
          \/ BeginConfigure(t) \/ FinishThread(t)
    \/ \E a \in Admin :
          \/ \E v \in Version : BeginUpgrade(a, v)
          \/ BeginEnable(a)
          \/ BeginStop(a, "disable", "disabling") \/ BeginStop(a, "uninstall", "removing")
          \/ Proceed(a)
    \/ Dies

\* The steps of the heartbeat.
Beat == beats /\ (HeartbeatEnables \/ Proceed(Heartbeat))

Next == ((Act \/ Beat) /\ UNCHANGED beats) \/ HeartbeatStops \/ Restart

Spec == Init /\ [][Next]_vars

\* The two renames are not interrupted, since nothing is awaited between them,
\* and a heartbeat that has not stopped goes on.  Of the plugin it is assumed
\* that a child that is started again and again comes up at last.
Fairness ==
    /\ \A a \in Admin : WF_vars((SwapFails(a) \/ Swap(a)) /\ UNCHANGED beats)
    /\ WF_vars(Beat /\ UNCHANGED beats)
    /\ SF_vars(beats /\ Launch(Heartbeat) /\ UNCHANGED beats)
    /\ SF_vars(beats /\ StartSucceeds(Heartbeat) /\ UNCHANGED beats)

FairSpec == Spec /\ Fairness

-----------------------------------------------------------------------------
(***************************************************************************)
(* Properties.  An operation that has ended is one that no request has     *)
(* begun since.                                                            *)
(***************************************************************************)
Ended(a, outcome) ==
    op[a].pc = "idle" /\ op[a].kind = "upgrade" /\ op[a].outcome = outcome
Alone(a) == ~op[a].crossed

\* Unless another operation was in progress at the same time: after an upgrade
\* whose migration (or new start) failed, the plugin is disabled with its old
\* configuration and does not run; an upgrade that could not replace the package
\* has changed nothing on disk and nothing in the record.
FailedUpgradeKeepsTheOld ==
    \A a \in Admin : Alone(a) =>
        /\ Ended(a, "unmigrated") =>
              running = None /\ record = [op[a].before EXCEPT !.enabled = FALSE]
        /\ Ended(a, "kept") =>
              installed = op[a].old /\ record = op[a].before

\* After an upgrade that returned, the plugin is enabled exactly if it was, its
\* configuration has the form of the new version, and whatever runs, the
\* heartbeat's restarts included, is the new version with that configuration.
UpgradeTakesEffect ==
    \A a \in Admin : Ended(a, "done") /\ Alone(a) =>
        /\ installed = op[a].version
        /\ record = [op[a].before EXCEPT !.config = op[a].version]
        /\ running # None => running = [code |-> op[a].version, config |-> op[a].version]

\* Whatever threads, heartbeat and crashes come between: an old package that was
\* set aside is deleted only when a package is installed, and an installed one
\* makes room only by being set aside or in an uninstall.
PackageIsKept ==
    [][/\ aside \subseteq aside' \/ installed' # None
       /\ installed # None /\ installed' # installed =>
             \/ installed \in aside'
             \/ \E a \in Admin : op[a].pc = "removing" /\ installed' = None]_vars

\* docs/plugin-api-v2.md:193: the failed upgrade of an enabled plugin prevents
\* the new version from starting, whatever else goes on.
FailedUpgradePreventsStart ==
    \A a \in Admin :
        Ended(a, "unmigrated") /\ op[a].before.enabled /\ op[a].version # op[a].old =>
            ~(running # None /\ running.code = op[a].version)

\* An enabled plugin whose configuration fits its package is running at last,
\* unless it is disabled, replaced or removed, or the heartbeat has stopped;
\* nothing but the heartbeat need go on for it.
EnabledPluginsRun ==
    record.enabled /\ record.config = installed /\ installed # None
        ~> running # None \/ ~record.enabled \/ record.config # installed \/ ~beats

=============================================================================
