--------------------------- MODULE PluginLifecycle ---------------------------
(***************************************************************************)
(* One plugin in the isolated runtime, as PluginManager runs it: the       *)
(* enabled flag of its record, the child processes started for it, the     *)
(* registry, the drain of running calls, its transports, administrators'   *)
(* requests and the heartbeat.                                             *)
(*                                                                         *)
(* The methods are coroutines without a lock, so they interleave at their  *)
(* awaits: what the code does up to the next await is one action.          *)
(* configure, regenerate_secret and set_runtime_mode run in threads, and   *)
(* read the whole record before they write it.                             *)
(***************************************************************************)
EXTENDS FiniteSets

CONSTANTS Proc,       \* child processes; one is used again when it has exited
          Socket,     \* WebSocket clients
          Call,       \* concurrent extension calls
          Admin,      \* concurrent requests of administrators
          Heartbeat,  \* the heartbeat coroutine
          None        \* the absent value

ASSUME ConstantsOK ==
    /\ None \notin Proc
    /\ Heartbeat \notin Admin

VARIABLES enabled,    \* enabled in the plugin's record
          process,    \* the plugin's entry in processes
          proc,       \* what each child process is doing
          registered, \* whether the registry holds the plugin's extensions
          draining,   \* whether the plugin is in draining_plugins
          sockets,    \* the plugin's entry in connections
          calls,      \* the process that serves each running call
          op,         \* what each administrator and the heartbeat is in the middle of
          inTurn      \* whether operations happen not to overlap: nothing in the code
                      \* prevents it, and some properties hold only then

vars == <<enabled, process, proc, registered, draining, sockets, calls, op, inTurn>>

Actor == Admin \cup {Heartbeat}
Kind == {"none", "enable", "disable", "reload", "lost"}
PC == {"idle", "draining", "closing", "stopping", "starting", "undoing",
       "health", "burying", "editing"}

\* Type correctness.
TypeOK ==
    /\ enabled \in BOOLEAN
    /\ process \in Proc \cup {None}
    /\ proc \in [Proc -> {"exited", "starting", "running"}]
    /\ registered \in BOOLEAN
    /\ draining \in BOOLEAN
    /\ sockets \subseteq Socket
    /\ calls \in [Call -> Proc \cup {None}]
    /\ op \in [Actor -> [kind: Kind, pc: PC, proc: Proc \cup {None}, enabled: BOOLEAN]]
    /\ inTurn \in BOOLEAN

IdleOp == [kind |-> "none", pc |-> "idle", proc |-> None, enabled |-> FALSE]

Init ==
    /\ enabled \in BOOLEAN
    /\ process = None
    /\ proc = [p \in Proc |-> "exited"]
    /\ registered = FALSE
    /\ draining = FALSE
    /\ sockets = {}
    /\ calls = [c \in Call |-> None]
    /\ op = [a \in Actor |-> IdleOp]
    /\ inTurn \in BOOLEAN

Busy == {a \in Actor : op[a].pc # "idle"}
MayBegin(a) == op[a].pc = "idle" /\ (inTurn => Busy = {})
Running == process # None /\ proc[process] = "running"
Active == {c \in Call : calls[c] # None}

\* The operation goes to its next await, or returns; kind stays behind as the
\* actor's last request.
Goes(a, kind, pc, p) ==
    op' = [op EXCEPT ![a] = [IdleOp EXCEPT !.kind = kind, !.pc = pc, !.proc = p]]
Returns(a, kind) == Goes(a, kind, "idle", None)

-----------------------------------------------------------------------------
(***************************************************************************)
(* enable.                                                                 *)
(***************************************************************************)
Unused(p) ==
    /\ process # p
    /\ \A a \in Actor : op[a].pc = "idle" \/ op[a].proc # p
    /\ \A c \in Call : calls[c] # p

\* enable up to process.start: the configuration is missing (whether the plugin
\* is in processes or not) or a dependency is, or the plugin is in processes
\* already, or a process is started.  entry and next are processes and the
\* child processes as enable finds them.
Enable(a, kind, entry, next) ==
    \/ entry # None /\ enabled' = TRUE /\ proc' = next /\ Returns(a, kind)
    \/ UNCHANGED enabled /\ proc' = next /\ Returns(a, kind)
    \/ /\ entry = None /\ UNCHANGED enabled
       /\ \E p \in Proc :
             /\ next[p] = "exited" /\ Unused(p)
             /\ proc' = [next EXCEPT ![p] = "starting"]
             /\ Goes(a, kind, "starting", p)

BeginEnable(a) ==
    /\ a \in Admin /\ MayBegin(a)
    /\ Enable(a, "enable", process, proc)
    /\ UNCHANGED <<process, registered, draining, sockets, calls>>

\* The child answers lifecycle.start: its extensions are registered, it enters
\* processes, and the record read at the beginning is written as enabled.
StartSucceeds(a) ==
    /\ op[a].pc = "starting"
    /\ proc' = [proc EXCEPT ![op[a].proc] = "running"]
    /\ process' = op[a].proc
    /\ registered' = TRUE
    /\ enabled' = TRUE
    /\ Returns(a, op[a].kind)
    /\ UNCHANGED <<draining, sockets, calls>>

\* The installation, the child or its start-up fails; start stops the child.
StartFails(a) ==
    /\ op[a].pc = "starting"
    /\ proc' = [proc EXCEPT ![op[a].proc] = "exited"]
    /\ Returns(a, op[a].kind)
    /\ UNCHANGED <<enabled, process, registered, draining, sockets, calls>>

\* The registrations or the provider configuration are rejected.
RegistrationFails(a) ==
    /\ op[a].pc = "starting"
    /\ proc' = [proc EXCEPT ![op[a].proc] = "running"]
    /\ registered' = FALSE
    /\ Goes(a, op[a].kind, "undoing", op[a].proc)
    /\ UNCHANGED <<enabled, process, draining, sockets, calls>>

\* Mutant of StartUndone: the rejected process is not stopped.
StartUndoneWithoutStop(a) ==
    /\ op[a].pc = "undoing"
    /\ Returns(a, op[a].kind)
    /\ UNCHANGED <<enabled, process, proc, registered, draining, sockets, calls>>

StartUndone(a) ==
    /\ op[a].pc = "undoing"
    /\ proc' = [proc EXCEPT ![op[a].proc] = "exited"]
    /\ Returns(a, op[a].kind)
    /\ UNCHANGED <<enabled, process, registered, draining, sockets, calls>>

-----------------------------------------------------------------------------
(***************************************************************************)
(* disable and reload: _stop_runtime, then the record or enable.           *)
(***************************************************************************)

\* Mutant of AfterStop: disable forgets the record.
AfterStopUnrecorded(a, kind, entry, next) ==
    /\ draining' = FALSE
    /\ \/ kind = "disable" /\ UNCHANGED enabled /\ proc' = next /\ Returns(a, kind)
       \/ kind = "reload" /\ Enable(a, kind, entry, next)

\* _stop_runtime has returned.
AfterStop(a, kind, entry, next) ==
    /\ draining' = FALSE
    /\ \/ kind = "disable" /\ enabled' = FALSE /\ proc' = next /\ Returns(a, kind)
       \/ kind = "reload" /\ Enable(a, kind, entry, next)

\* The process leaves processes and is told to stop, unless it has exited;
\* drain is the value of draining while the stop goes on.
TakeProcess(a, kind, drain) ==
    /\ process' = None
    /\ \/ ~Running /\ AfterStop(a, kind, None, proc)
       \/ /\ Running
          /\ draining' = drain
          /\ Goes(a, kind, "stopping", process)
          /\ UNCHANGED <<enabled, proc>>

\* The plugin's connections are taken, and closed one by one.
CloseTransports(a, kind, drain) ==
    /\ sockets' = {}
    /\ \/ sockets = {} /\ TakeProcess(a, kind, drain)
       \/ /\ sockets # {}
          /\ draining' = drain
          /\ Goes(a, kind, "closing", None)
          /\ UNCHANGED <<enabled, process, proc>>

\* Mutant of BeginStop: calls are awaited without a drain that refuses new ones.
BeginStopUndrained(a, kind) ==
    /\ a \in Admin /\ MayBegin(a)
    /\ kind = "reload" => enabled
    /\ registered' = FALSE
    /\ \/ Active = {} /\ CloseTransports(a, kind, FALSE)
       \/ /\ Active # {}
          /\ Goes(a, kind, "draining", None)
          /\ UNCHANGED <<enabled, process, proc, draining, sockets>>
    /\ UNCHANGED calls

BeginStop(a, kind) ==
    /\ a \in Admin /\ MayBegin(a)
    /\ kind = "reload" => enabled
    /\ registered' = FALSE
    /\ \/ Active = {} /\ CloseTransports(a, kind, TRUE)
       \/ /\ Active # {}
          /\ draining' = TRUE
          /\ Goes(a, kind, "draining", None)
          /\ UNCHANGED <<enabled, process, proc, sockets>>
    /\ UNCHANGED calls

\* Mutant of DrainEnds: no deadline.
DrainEndsWithCalls(a) ==
    /\ op[a].pc = "draining"
    /\ Active = {}
    /\ CloseTransports(a, op[a].kind, draining)
    /\ UNCHANGED <<registered, calls>>

\* The calls have ended, or five seconds are over.
DrainEnds(a) ==
    /\ op[a].pc = "draining"
    /\ CloseTransports(a, op[a].kind, draining)
    /\ UNCHANGED <<registered, calls>>

TransportsClosed(a) ==
    /\ op[a].pc = "closing"
    /\ TakeProcess(a, op[a].kind, draining)
    /\ UNCHANGED <<registered, sockets, calls>>

ProcessStops(a) ==
    /\ op[a].pc = "stopping"
    /\ AfterStop(a, op[a].kind, process, [proc EXCEPT ![op[a].proc] = "exited"])
    /\ UNCHANGED <<process, registered, sockets, calls>>

-----------------------------------------------------------------------------
(***************************************************************************)
(* configure, regenerate_secret, set_runtime_mode: a thread reads the      *)
(* record, and writes all of it back.                                      *)
(***************************************************************************)
BeginEdit(a) ==
    /\ a \in Admin /\ MayBegin(a)
    /\ op' = [op EXCEPT ![a].pc = "editing", ![a].enabled = enabled]
    /\ UNCHANGED <<enabled, process, proc, registered, draining, sockets, calls>>

FinishEdit(a) ==
    /\ op[a].pc = "editing"
    /\ enabled' = op[a].enabled
    /\ Returns(a, op[a].kind)
    /\ UNCHANGED <<process, proc, registered, draining, sockets, calls>>

-----------------------------------------------------------------------------
(***************************************************************************)
(* _heartbeat_loop, and start after a restart of Core.                     *)
(***************************************************************************)

\* An enabled plugin that is not in processes is started.
HeartbeatEnables ==
    /\ MayBegin(Heartbeat)
    /\ enabled /\ process = None
    /\ Enable(Heartbeat, "enable", process, proc)
    /\ UNCHANGED <<process, registered, draining, sockets, calls>>

HealthCheck ==
    /\ MayBegin(Heartbeat)
    /\ Running
    /\ Goes(Heartbeat, "none", "health", process)
    /\ UNCHANGED <<enabled, process, proc, registered, draining, sockets, calls>>

Healthy ==
    /\ op[Heartbeat].pc = "health"
    /\ proc[op[Heartbeat].proc] = "running"
    /\ Returns(Heartbeat, "none")
    /\ UNCHANGED <<enabled, process, proc, registered, draining, sockets, calls>>

\* The heartbeat goes on to stop the process, with the record it has just read.
Bury ==
    op' = [op EXCEPT ![Heartbeat] = [IdleOp EXCEPT !.pc = "burying",
                                                   !.proc = op[Heartbeat].proc,
                                                   !.enabled = enabled]]

\* Mutant of HealthFails: the extensions stay registered.
HealthFailsRegistered ==
    /\ op[Heartbeat].pc = "health"
    /\ proc[op[Heartbeat].proc] = "running"
    /\ Bury
    /\ UNCHANGED <<enabled, process, proc, registered, draining, sockets, calls>>

\* An error or no answer within five seconds: the record is read and written
\* with the error, and the process is stopped.
HealthFails ==
    /\ op[Heartbeat].pc = "health"
    /\ proc[op[Heartbeat].proc] = "running"
    /\ registered' = FALSE
    /\ Bury
    /\ UNCHANGED <<enabled, process, proc, draining, sockets, calls>>

\* A process that has exited needs no stop.
FoundDead ==
    /\ \/ MayBegin(Heartbeat) /\ process # None /\ ~Running
       \/ op[Heartbeat].pc = "health" /\ proc[op[Heartbeat].proc] = "exited"
    /\ registered' = FALSE
    /\ process' = None
    /\ Returns(Heartbeat, "none")
    /\ UNCHANGED <<enabled, proc, draining, sockets, calls>>

\* The process has stopped, and whatever is in processes is dropped.  When the
\* stop raised, the record as it was read before the stop is written once more.
Buried ==
    /\ op[Heartbeat].pc = "burying"
    /\ enabled' \in {enabled, op[Heartbeat].enabled}
    /\ proc' = [proc EXCEPT ![op[Heartbeat].proc] = "exited"]
    /\ process' = None
    /\ Returns(Heartbeat, "none")
    /\ UNCHANGED <<registered, draining, sockets, calls>>

-----------------------------------------------------------------------------
(***************************************************************************)
(* Calls, transports, crashes.                                             *)
(***************************************************************************)
\* _invoke_extension: the caller may hold a registration read earlier.
Invoke(c) ==
    /\ calls[c] = None
    /\ ~draining /\ Running
    /\ calls' = [calls EXCEPT ![c] = process]
    /\ UNCHANGED <<enabled, process, proc, registered, draining, sockets, op>>

\* A result, an error, a timeout, or the end of the process.
CallEnds(c) ==
    /\ calls[c] # None
    /\ calls' = [calls EXCEPT ![c] = None]
    /\ UNCHANGED <<enabled, process, proc, registered, draining, sockets, op>>

Connect(s) ==
    /\ Running
    /\ sockets' = sockets \cup {s}
    /\ UNCHANGED <<enabled, process, proc, registered, draining, calls, op>>

Disconnect(s) ==
    /\ sockets' = sockets \ {s}
    /\ UNCHANGED <<enabled, process, proc, registered, draining, calls, op>>

\* A child process dies.
Crash(p) ==
    /\ proc[p] = "running"
    /\ proc' = [proc EXCEPT ![p] = "exited"]
    /\ UNCHANGED <<enabled, process, registered, draining, sockets, calls, op>>

\* Core dies, its children with it; start enables what the record says.
Restart ==
    /\ process' = None
    /\ proc' = [p \in Proc |-> "exited"]
    /\ registered' = FALSE
    /\ draining' = FALSE
    /\ sockets' = {}
    /\ calls' = [c \in Call |-> None]
    /\ op' = [a \in Actor |-> IF op[a].pc \in {"idle", "editing"}
                             THEN [IdleOp EXCEPT !.kind = op[a].kind]
                             ELSE [IdleOp EXCEPT !.kind = "lost"]]
    /\ UNCHANGED enabled

\* The steps of an operation in progress.
Proceed(a) ==
    \/ StartSucceeds(a) \/ StartFails(a) \/ RegistrationFails(a) \/ StartUndone(a)
    \/ DrainEnds(a) \/ TransportsClosed(a) \/ ProcessStops(a)
    \/ FinishEdit(a)

HeartbeatProceeds == Proceed(Heartbeat) \/ Healthy \/ HealthFails \/ FoundDead \/ Buried

Step ==
    \/ \E a \in Admin :
          \/ BeginEnable(a) \/ BeginStop(a, "disable") \/ BeginStop(a, "reload")
          \/ BeginEdit(a) \/ Proceed(a)
    \/ HeartbeatEnables \/ HealthCheck \/ HeartbeatProceeds
    \/ \E c \in Call : Invoke(c) \/ CallEnds(c)
    \/ \E s \in Socket : Connect(s) \/ Disconnect(s)
    \/ \E p \in Proc : Crash(p)
    \/ Restart

Next == Step /\ UNCHANGED inTurn

Spec == Init /\ [][Next]_vars

\* The awaits of a start, a stop, a drain and a health check have timeouts, and
\* the plugin's process reads what is written to it (a write has no timeout,
\* plugin_system.py:656); a call has none of ours.
Fairness ==
    /\ \A a \in Admin : WF_vars(Proceed(a) /\ UNCHANGED inTurn)
    /\ WF_vars(HeartbeatProceeds /\ UNCHANGED inTurn)

FairSpec == Spec /\ Fairness

-----------------------------------------------------------------------------
(***************************************************************************)
(* Properties.                                                             *)
(***************************************************************************)

\* The plugin is disabled: no administrator's last request asks for it to
\* run, one of them was a disable, and it has returned.
Disabled ==
    /\ \A a \in Admin : op[a].pc \in {"idle", "editing"} /\ op[a].kind \in {"none", "disable"}
    /\ \E a \in Admin : op[a].kind = "disable"

\* When operations do not overlap, a disable that has returned is final,
\* through crashes and restarts: the plugin is not marked enabled and does not
\* enter processes again.
DisableIsFinal == inTurn /\ Disabled => ~enabled /\ process = None

\* When operations do not overlap, every process that lives is the one in
\* processes, or in the hands of an operation that will put it there or stop it.
NoOrphan ==
    inTurn => \A p \in Proc : proc[p] # "exited" =>
        p = process \/ \E a \in Actor : op[a].pc # "idle" /\ op[a].proc = p

\* When operations do not overlap, between two of them the registry offers the
\* plugin's extensions exactly while the plugin is in processes.
RegistryFollows == inTurn /\ Busy = {} => (registered <=> process # None)

\* From the moment a disable or a reload begins until it has stopped the old
\* process, no call of an extension begins, whatever the heartbeat and threads
\* that edit the record do meanwhile.  (Two stops that overlap share one drain,
\* and the first to end ends it.)
Stopping(a) == op[a].pc \in {"draining", "closing", "stopping"}
OnlyRequest(a) == \A b \in Admin \ {a} : op[b].kind = "none"

StopAdmitsNoCall ==
    [][\A a \in Admin : Stopping(a) /\ OnlyRequest(a) =>
          \A c \in Call : calls[c] = None => calls'[c] = None]_vars

\* Every request ends, whatever calls the plugin never answers.
RequestsEnd == \A a \in Admin : op[a].pc # "idle" ~> op[a].pc = "idle"

=============================================================================
