------------------------ MODULE PluginLifecycleProofs ------------------------
(***************************************************************************)
(* Proofs about PluginLifecycle, for any administrators, processes, clients *)
(* and calls.                                                               *)
(***************************************************************************)
EXTENDS PluginLifecycle, TLAPS

(* An operation is where its kind takes it.                                 *)
Phases ==
    /\ op[Heartbeat].pc \in {"idle", "starting", "undoing", "health", "burying"}
    /\ \A a \in Admin :
          /\ op[a].pc \notin {"health", "burying"}
          /\ Stopping(a) => op[a].kind \in {"disable", "reload"}
          /\ op[a].pc \in {"starting", "undoing"} => op[a].kind \in {"enable", "reload"}
    /\ \A a \in Actor :
          op[a].proc = None <=> op[a].pc \in {"idle", "draining", "closing", "editing"}

(* A stop that no other overlaps holds the drain.                           *)
DrainHeld == \A a \in Admin : Stopping(a) /\ OnlyRequest(a) => draining

(* What an operation relies on while nothing else is under way.             *)
Offered == registered <=> process # None
Relies(a) ==
    /\ op[a].pc \in {"starting", "undoing", "stopping"} => process = None /\ ~registered
    /\ op[a].pc \in {"draining", "closing", "burying"} => ~registered
    /\ op[a].pc \in {"health", "editing"} => Offered
    /\ op[a].pc \in {"health", "burying"} => process = op[a].proc
    /\ op[a].pc \in {"editing", "burying"} => op[a].enabled = enabled

TurnInv ==
    /\ \A a, b \in Busy : a = b
    /\ \A a \in Actor : Relies(a)
    /\ process # None => proc[process] # "starting"
    /\ op[Heartbeat].pc \in {"starting", "undoing"} => ~Disabled

IInv == /\ TypeOK /\ Phases /\ DrainHeld
        /\ inTurn => TurnInv
        /\ DisableIsFinal /\ NoOrphan /\ RegistryFollows

(***************************************************************************)
(* Types.                                                                   *)
(***************************************************************************)
Ops == [kind : Kind, pc : PC, proc : Proc \cup {None}, enabled : BOOLEAN]

(* An operation that goes on or returns stays one, and no other is changed. *)
LEMMA GoesTo ==
  ASSUME TypeOK, NEW a \in Actor, NEW kind \in Kind, NEW pc \in PC,
         NEW p \in Proc \cup {None}, Goes(a, kind, pc, p)
  PROVE  /\ op' \in [Actor -> Ops]
         /\ op'[a].kind = kind /\ op'[a].pc = pc /\ op'[a].proc = p
         /\ \A b \in Actor \ {a} : op'[b] = op[b]
BY DEF TypeOK, Ops, Goes, IdleOp

(* An operation that returns leaves its actor idle, without a process.      *)
LEMMA ReturnsTo ==
  ASSUME TypeOK, NEW a \in Actor, NEW kind \in Kind, Returns(a, kind)
  PROVE  /\ op' \in [Actor -> Ops]
         /\ op'[a].kind = kind /\ op'[a].pc = "idle" /\ op'[a].proc = None
         /\ \A b \in Actor \ {a} : op'[b] = op[b]
BY GoesTo DEF Returns, PC

(* An edit of the configuration copies the record it was read with.         *)
LEMMA EditTo ==
  ASSUME TypeOK, NEW a \in Admin, BeginEdit(a)
  PROVE  /\ op' \in [Actor -> Ops]
         /\ op'[a].kind = op[a].kind /\ op'[a].pc = "editing"
         /\ op'[a].proc = op[a].proc /\ op'[a].enabled = enabled
         /\ \A b \in Actor \ {a} : op'[b] = op[b]
<1>1. /\ a \in Actor /\ op \in [Actor -> Ops] /\ enabled \in BOOLEAN
      /\ op' = [op EXCEPT ![a] = [op[a] EXCEPT !.pc = "editing", !.enabled = enabled]]
  BY DEF TypeOK, BeginEdit, Actor, Ops
<1>2. [op[a] EXCEPT !.pc = "editing", !.enabled = enabled] \in Ops
  BY <1>1 DEF Ops, PC
<1>. QED
  BY <1>1, <1>2

(* A heartbeat that stops a failed process copies the record likewise.      *)
LEMMA BuryTo ==
  ASSUME TypeOK, Bury
  PROVE  /\ op' \in [Actor -> Ops]
         /\ op'[Heartbeat].kind = "none" /\ op'[Heartbeat].pc = "burying"
         /\ op'[Heartbeat].proc = op[Heartbeat].proc /\ op'[Heartbeat].enabled = enabled
         /\ \A b \in Actor \ {Heartbeat} : op'[b] = op[b]
<1>1. /\ Heartbeat \in Actor /\ op \in [Actor -> Ops] /\ enabled \in BOOLEAN
      /\ op[Heartbeat].proc \in Proc \cup {None}
  BY DEF TypeOK, Actor, Ops
<1>2. IdleOp \in Ops /\ IdleOp.kind = "none"
  BY DEF IdleOp, Ops, PC, Kind
<1>3. PICK i \in Ops : i = IdleOp /\ i.kind = "none"
  BY <1>2
<1>4. op' = [op EXCEPT ![Heartbeat] = [i EXCEPT !.pc = "burying", !.proc = op[Heartbeat].proc,
                                                !.enabled = enabled]]
  BY <1>3 DEF Bury
<1>. QED
  BY <1>1, <1>3, <1>4 DEF Ops, PC

(* The operators that enable and the two stops share keep the types.        *)
LEMMA EnableTypes ==
  ASSUME TypeOK, NEW a \in Actor, NEW kind \in Kind, NEW entry \in Proc \cup {None},
         NEW next \in [Proc -> {"exited", "starting", "running"}],
         Enable(a, kind, entry, next)
  PROVE  /\ enabled' \in BOOLEAN
         /\ proc' \in [Proc -> {"exited", "starting", "running"}]
         /\ op' \in [Actor -> Ops]
<1>1. enabled' \in BOOLEAN /\ proc' \in [Proc -> {"exited", "starting", "running"}]
  BY DEF Enable, TypeOK
<1>2. op' \in [Actor -> Ops]
  BY GoesTo, ReturnsTo DEF Enable, PC
<1>. QED
  BY <1>1, <1>2

(* What follows the stop of a process keeps the types.                      *)
LEMMA AfterStopTypes ==
  ASSUME TypeOK, NEW a \in Actor, NEW kind \in Kind, NEW entry \in Proc \cup {None},
         NEW next \in [Proc -> {"exited", "starting", "running"}],
         AfterStop(a, kind, entry, next)
  PROVE  /\ enabled' \in BOOLEAN /\ draining' \in BOOLEAN
         /\ proc' \in [Proc -> {"exited", "starting", "running"}]
         /\ op' \in [Actor -> Ops]
<1>1. draining' \in BOOLEAN
  BY DEF AfterStop
<1>2. CASE Enable(a, kind, entry, next)
  BY <1>1, <1>2, EnableTypes
<1>3. CASE enabled' = FALSE /\ proc' = next /\ Returns(a, kind)
  BY <1>1, <1>3, ReturnsTo
<1>. QED
  BY <1>2, <1>3 DEF AfterStop

(* Taking the process out of the table keeps the types.                     *)
LEMMA TakeProcessTypes ==
  ASSUME TypeOK, NEW a \in Actor, NEW kind \in Kind, NEW drain \in BOOLEAN,
         TakeProcess(a, kind, drain)
  PROVE  /\ process' \in Proc \cup {None}
         /\ enabled' \in BOOLEAN /\ draining' \in BOOLEAN
         /\ proc' \in [Proc -> {"exited", "starting", "running"}]
         /\ op' \in [Actor -> Ops]
<1>0. process' \in Proc \cup {None}
  BY DEF TakeProcess
<1>1. CASE AfterStop(a, kind, None, proc)
  BY <1>0, <1>1, AfterStopTypes DEF TypeOK
<1>2. CASE /\ draining' = drain
           /\ Goes(a, kind, "stopping", process)
           /\ UNCHANGED <<enabled, proc>>
  BY <1>0, <1>2, GoesTo DEF TypeOK, PC
<1>. QED
  BY <1>1, <1>2 DEF TakeProcess

(* Closing the sockets keeps the types.                                     *)
LEMMA CloseTypes ==
  ASSUME TypeOK, NEW a \in Actor, NEW kind \in Kind, NEW drain \in BOOLEAN,
         CloseTransports(a, kind, drain)
  PROVE  /\ process' \in Proc \cup {None} /\ sockets' \subseteq Socket
         /\ enabled' \in BOOLEAN /\ draining' \in BOOLEAN
         /\ proc' \in [Proc -> {"exited", "starting", "running"}]
         /\ op' \in [Actor -> Ops]
<1>0. sockets' \subseteq Socket
  BY DEF CloseTransports
<1>1. CASE TakeProcess(a, kind, drain)
  BY <1>0, <1>1, TakeProcessTypes
<1>2. CASE /\ draining' = drain
           /\ Goes(a, kind, "closing", None)
           /\ UNCHANGED <<enabled, process, proc>>
  BY <1>0, <1>2, GoesTo DEF TypeOK, PC
<1>. QED
  BY <1>1, <1>2 DEF CloseTransports

(* Every step keeps the types.                                              *)
LEMMA TypeStep ==
  ASSUME TypeOK, [Next]_vars
  PROVE  TypeOK'
<1>0. /\ \A a \in Actor : op[a].kind \in Kind /\ op[a].proc \in Proc \cup {None}
      /\ inTurn' \in BOOLEAN
  BY DEF TypeOK, Next, vars
<1>. SUFFICES ASSUME Step
              PROVE  TypeOK'
  BY DEF Next, vars, TypeOK
<1>1. ASSUME NEW a \in Admin, BeginEnable(a)
      PROVE  TypeOK'
  <2>1. a \in Actor /\ "enable" \in Kind
    BY DEF Actor, Kind
  <2>2. /\ enabled' \in BOOLEAN /\ op' \in [Actor -> Ops]
        /\ proc' \in [Proc -> {"exited", "starting", "running"}]
    BY <1>1, <2>1, EnableTypes DEF BeginEnable, TypeOK
  <2>. QED
    BY <1>0, <1>1, <2>2 DEF TypeOK, BeginEnable, Ops
<1>2. ASSUME NEW a \in Admin, NEW kind \in {"disable", "reload"}, BeginStop(a, kind)
      PROVE  TypeOK'
  <2>1. a \in Actor /\ kind \in Kind
    BY DEF Actor, Kind
  <2>2. CASE CloseTransports(a, kind, TRUE)
    BY <1>0, <1>2, <2>1, <2>2, CloseTypes DEF TypeOK, BeginStop, Ops
  <2>3. CASE /\ draining' = TRUE
             /\ Goes(a, kind, "draining", None)
             /\ UNCHANGED <<enabled, process, proc, sockets>>
    BY <1>0, <1>2, <2>1, <2>3, GoesTo DEF TypeOK, BeginStop, Ops, PC
  <2>. QED
    BY <1>2, <2>2, <2>3 DEF BeginStop
<1>3. ASSUME NEW a \in Actor, Proceed(a)
      PROVE  TypeOK'
  <2>1. CASE StartSucceeds(a) \/ StartFails(a) \/ StartUndone(a)
    BY <1>0, <2>1, ReturnsTo DEF TypeOK, StartSucceeds, StartFails, StartUndone, Ops
  <2>2. CASE RegistrationFails(a)
    BY <1>0, <2>2, GoesTo DEF TypeOK, RegistrationFails, Ops, PC
  <2>3. CASE DrainEnds(a)
    BY <1>0, <2>3, CloseTypes DEF TypeOK, DrainEnds, Ops
  <2>4. CASE TransportsClosed(a)
    BY <1>0, <2>4, TakeProcessTypes DEF TypeOK, TransportsClosed, Ops
  <2>5. CASE ProcessStops(a)
    <3>1. [proc EXCEPT ![op[a].proc] = "exited"] \in [Proc -> {"exited", "starting", "running"}]
      BY DEF TypeOK
    <3>. QED
      BY <1>0, <2>5, <3>1, AfterStopTypes DEF TypeOK, ProcessStops, Ops
  <2>6. CASE FinishEdit(a)
    BY <1>0, <2>6, ReturnsTo DEF TypeOK, FinishEdit, Ops
  <2>. QED
    BY <1>3, <2>1, <2>2, <2>3, <2>4, <2>5, <2>6 DEF Proceed
<1>4. ASSUME NEW a \in Admin, BeginEdit(a)
      PROVE  TypeOK'
  <2>1. op' \in [Actor -> Ops]
    BY <1>4, EditTo
  <2>. QED
    BY <1>0, <1>4, <2>1 DEF TypeOK, BeginEdit, Ops
<1>5. CASE HeartbeatEnables
  <2>1. Heartbeat \in Actor /\ "enable" \in Kind
    BY DEF Actor, Kind
  <2>2. /\ enabled' \in BOOLEAN /\ op' \in [Actor -> Ops]
        /\ proc' \in [Proc -> {"exited", "starting", "running"}]
    BY <1>5, <2>1, EnableTypes DEF HeartbeatEnables, TypeOK
  <2>. QED
    BY <1>0, <1>5, <2>2 DEF TypeOK, HeartbeatEnables, Ops
<1>6. CASE HealthCheck \/ Healthy \/ HealthFails \/ FoundDead \/ Buried
  <2>1. Heartbeat \in Actor /\ "none" \in Kind /\ {"health", "burying"} \subseteq PC
    BY DEF Actor, Kind, PC
  <2>2. CASE HealthFails
    <3>1. op' \in [Actor -> Ops]
      BY <1>0, <2>2, BuryTo DEF HealthFails
    <3>. QED
      BY <1>0, <2>2, <3>1 DEF TypeOK, HealthFails, Ops
  <2>3. CASE HealthCheck \/ Healthy \/ FoundDead \/ Buried
    <3>1. op' \in [Actor -> Ops]
      BY <1>0, <2>1, <2>3, GoesTo, ReturnsTo
         DEF TypeOK, HealthCheck, Healthy, FoundDead, Buried
    <3>. QED
      BY <1>0, <2>1, <2>3, <3>1
         DEF TypeOK, HealthCheck, Healthy, FoundDead, Buried, Ops
  <2>. QED
    BY <1>6, <2>2, <2>3
<1>7. CASE \/ \E c \in Call : Invoke(c) \/ CallEnds(c)
           \/ \E q \in Socket : Connect(q) \/ Disconnect(q)
           \/ \E p \in Proc : Crash(p)
  BY <1>0, <1>7 DEF TypeOK, Invoke, CallEnds, Connect, Disconnect, Crash
<1>8. CASE Restart
  BY <1>0, <1>8 DEF TypeOK, Restart, IdleOp, Kind, PC
<1>. QED
  BY <1>1, <1>2, <1>3, <1>4, <1>5, <1>6, <1>7, <1>8 DEF Step, HeartbeatProceeds, Actor

(***************************************************************************)
(* Phases and the drain.                                                    *)
(***************************************************************************)
Without == {"idle", "draining", "closing", "editing"}

(* The operation of a, and no other, has come to one of pcs.                *)
Moved(a, kind, pcs) ==
    /\ op'[a].kind = kind /\ op'[a].pc \in pcs
    /\ op'[a].proc = None <=> op'[a].pc \in Without
    /\ \A b \in Actor \ {a} : op'[b] = op[b]

(* An actor that goes on moves alone, to where it goes.                     *)
LEMMA GoesMoves ==
  ASSUME TypeOK, NEW a \in Actor, NEW kind \in Kind, NEW pc \in PC,
         NEW p \in Proc \cup {None}, Goes(a, kind, pc, p), p = None <=> pc \in Without
  PROVE  Moved(a, kind, {pc})
<1>1. op'[a].kind = kind
  BY GoesTo
<1>2. op'[a].pc = pc
  BY GoesTo
<1>3. op'[a].proc = p
  BY GoesTo
<1>4. \A b \in Actor \ {a} : op'[b] = op[b]
  BY GoesTo
<1>. QED
  BY <1>1, <1>2, <1>3, <1>4 DEF Moved

(* An actor that returns moves alone, to idle.                              *)
LEMMA ReturnsMoves ==
  ASSUME TypeOK, NEW a \in Actor, NEW kind \in Kind, Returns(a, kind)
  PROVE  Moved(a, kind, {"idle"})
BY GoesMoves DEF Returns, PC, Without

(* enable() ends at once or goes on to start a child.                       *)
LEMMA EnableMoves ==
  ASSUME TypeOK, NEW a \in Actor, NEW kind \in Kind, NEW entry, NEW next,
         Enable(a, kind, entry, next)
  PROVE  Moved(a, kind, {"idle", "starting"})
<1>1. CASE Returns(a, kind)
  BY <1>1, ReturnsTo DEF Moved, Without
<1>2. CASE \E p \in Proc : Goes(a, kind, "starting", p)
  BY <1>2, GoesTo, ConstantsOK DEF Moved, Without, PC
<1>. QED
  BY <1>1, <1>2 DEF Enable

(* After the stop a disable ends; only a reload goes on to start a child.   *)
LEMMA AfterStopMoves ==
  ASSUME TypeOK, NEW a \in Actor, NEW kind \in Kind, NEW entry, NEW next,
         AfterStop(a, kind, entry, next)
  PROVE  /\ Moved(a, kind, {"idle", "starting"})
         /\ kind \in {"disable", "reload"} /\ (op'[a].pc = "starting" => kind = "reload")
<1>1. CASE kind = "disable" /\ Returns(a, kind)
  BY <1>1, ReturnsTo DEF Moved, Without
<1>2. CASE kind = "reload" /\ Enable(a, kind, entry, next)
  BY <1>2, EnableMoves
<1>. QED
  BY <1>1, <1>2 DEF AfterStop

(* A stop with nothing to stop ends at once; one that waits says whether it *)
(* drains.                                                                  *)
LEMMA TakeProcessMoves ==
  ASSUME TypeOK, NEW a \in Actor, NEW kind \in Kind, NEW drain,
         TakeProcess(a, kind, drain)
  PROVE  /\ Moved(a, kind, {"idle", "starting", "stopping"})
         /\ op'[a].pc = "stopping" => draining' = drain
         /\ op'[a].pc = "starting" => kind = "reload"
<1>1. CASE AfterStop(a, kind, None, proc)
  BY <1>1, AfterStopMoves DEF Moved
<1>2. CASE Running /\ draining' = drain /\ Goes(a, kind, "stopping", process)
  BY <1>2, GoesTo DEF Moved, Without, PC, Running, TypeOK
<1>. QED
  BY <1>1, <1>2 DEF TakeProcess

(* A stop whose last socket is closed goes on to the process.               *)
LEMMA CloseMoves ==
  ASSUME TypeOK, NEW a \in Actor, NEW kind \in Kind, NEW drain,
         CloseTransports(a, kind, drain)
  PROVE  /\ Moved(a, kind, {"idle", "starting", "stopping", "closing"})
         /\ op'[a].pc \in {"stopping", "closing"} => draining' = drain
         /\ op'[a].pc = "starting" => kind = "reload"
<1>1. CASE TakeProcess(a, kind, drain)
  BY <1>1, TakeProcessMoves DEF Moved
<1>2. CASE draining' = drain /\ Goes(a, kind, "closing", None)
  BY <1>2, GoesTo DEF Moved, Without, PC
<1>. QED
  BY <1>1, <1>2 DEF CloseTransports

(* Where the operations of administrators and of the heartbeat can come to. *)
Legal(kind, pc) ==
    /\ pc \notin {"health", "burying"}
    /\ pc \in {"draining", "closing", "stopping"} => kind \in {"disable", "reload"}
    /\ pc \in {"starting", "undoing"} => kind \in {"enable", "reload"}

(* A step moves one operation, to a place that is legal for it and with the *)
(* drain it needs; or it moves none; or it ends all.                        *)
AdminMoves(a, kind) ==
    /\ Moved(a, kind, PC) /\ Legal(kind, op'[a].pc)
    /\ kind = op[a].kind \/ kind # "none"
    /\ op'[a].pc \in {"draining", "closing", "stopping"} =>
          draining' = TRUE \/ (Stopping(a) /\ UNCHANGED draining)
    /\ UNCHANGED draining \/ kind # "none"
HeartbeatMoves(kind) ==
    /\ Moved(Heartbeat, kind, {"idle", "starting", "undoing", "health", "burying"})
    /\ UNCHANGED draining
OneMoves ==
    \/ UNCHANGED <<op, draining>>
    \/ \A a \in Actor : op'[a].pc = "idle" /\ op'[a].proc = None
    \/ \E a \in Admin : \E kind \in Kind : AdminMoves(a, kind)
    \/ \E kind \in Kind : HeartbeatMoves(kind)

AdminStep(a) ==
    \/ BeginEnable(a) \/ BeginStop(a, "disable") \/ BeginStop(a, "reload")
    \/ BeginEdit(a) \/ Proceed(a)
HeartbeatStep == HeartbeatEnables \/ HealthCheck \/ HeartbeatProceeds

(* Where each step of an administrator and of the heartbeat may lead.       *)
LEMMA ActorMoves ==
  ASSUME TypeOK, Phases
  PROVE  /\ \A a \in Admin : AdminStep(a) => \E kind \in Kind : AdminMoves(a, kind)
         /\ HeartbeatStep => \E kind \in Kind : HeartbeatMoves(kind)
<1>0. /\ Heartbeat \in Actor /\ Admin \subseteq Actor /\ Heartbeat \notin Admin
      /\ \A a \in Actor : op[a].kind \in Kind /\ op[a].proc \in Proc \cup {None}
      /\ {"none", "enable", "disable", "reload"} \subseteq Kind
      /\ None \notin Proc
  BY ConstantsOK DEF Actor, TypeOK, Kind
<1>1. ASSUME NEW a \in Admin, BeginEnable(a)
      PROVE  /\ Moved(a, "enable", PC) /\ Legal("enable", op'[a].pc)
             /\ op'[a].pc \notin {"draining", "closing", "stopping"}
  BY <1>0, <1>1, EnableMoves DEF BeginEnable, Moved, Legal, PC
<1>2. ASSUME NEW a \in Admin, NEW kind \in {"disable", "reload"}, BeginStop(a, kind)
      PROVE  /\ Moved(a, kind, PC) /\ Legal(kind, op'[a].pc)
             /\ op'[a].pc \in {"draining", "closing", "stopping"} => draining' = TRUE
  <2>1. CASE CloseTransports(a, kind, TRUE)
    <3>1. /\ Moved(a, kind, {"idle", "starting", "stopping", "closing"})
          /\ op'[a].pc \in {"stopping", "closing"} => draining' = TRUE
          /\ op'[a].pc = "starting" => kind = "reload"
      BY <1>0, <2>1, CloseMoves
    <3>. QED
      BY <3>1 DEF Moved, Legal, PC
  <2>2. CASE draining' = TRUE /\ Goes(a, kind, "draining", None)
    BY <1>0, <2>2, GoesTo DEF Moved, Legal, PC, Without
  <2>. QED
    BY <1>2, <2>1, <2>2 DEF BeginStop
<1>3. ASSUME NEW a \in Actor, Proceed(a), op[a].pc \in {"starting", "undoing"}
      PROVE  /\ Moved(a, op[a].kind, {"idle", "starting", "undoing"})
             /\ op'[a].pc = "undoing" => op[a].pc = "starting"
             /\ op'[a].pc # "starting" /\ UNCHANGED draining
  <2>1. CASE Returns(a, op[a].kind)
    BY <1>0, <1>3, <2>1, ReturnsTo
       DEF Moved, Without, Proceed, StartSucceeds, StartFails, StartUndone, RegistrationFails,
           DrainEnds, TransportsClosed, ProcessStops, FinishEdit
  <2>2. CASE Goes(a, op[a].kind, "undoing", op[a].proc) /\ op[a].pc = "starting"
    BY <1>0, <1>3, <2>2, GoesTo
       DEF Moved, Without, PC, Phases, Proceed, StartSucceeds, StartFails, StartUndone,
           RegistrationFails, DrainEnds, TransportsClosed, ProcessStops, FinishEdit
  <2>. QED
    BY <1>3, <2>1, <2>2
       DEF Proceed, StartSucceeds, StartFails, StartUndone, RegistrationFails,
           DrainEnds, TransportsClosed, ProcessStops, FinishEdit
<1>4. ASSUME NEW a \in Admin, Proceed(a), op[a].pc \notin {"starting", "undoing"}
      PROVE  /\ Moved(a, op[a].kind, PC) /\ Legal(op[a].kind, op'[a].pc)
             /\ op'[a].pc \in {"draining", "closing", "stopping"} =>
                   Stopping(a) /\ UNCHANGED draining
             /\ UNCHANGED draining \/ op[a].kind # "none"
  <2>1. CASE FinishEdit(a)
    BY <1>0, <2>1, ReturnsTo DEF Moved, Without, PC, Legal, FinishEdit
  <2>2. ASSUME op[a].pc \in {"draining", "closing", "stopping"}
        PROVE  op[a].kind \in {"disable", "reload"}
    BY <2>2 DEF Phases, Stopping
  <2>3. CASE DrainEnds(a)
    BY <1>0, <2>2, <2>3, CloseMoves DEF DrainEnds, Moved, Legal, PC, Stopping
  <2>4. CASE TransportsClosed(a)
    BY <1>0, <2>2, <2>4, TakeProcessMoves DEF TransportsClosed, Moved, Legal, PC, Stopping
  <2>5. CASE ProcessStops(a)
    BY <1>0, <2>2, <2>5, AfterStopMoves DEF ProcessStops, Moved, Legal, PC
  <2>. QED
    BY <1>4, <2>1, <2>3, <2>4, <2>5
       DEF Proceed, StartSucceeds, StartFails, StartUndone, RegistrationFails
<1>5. ASSUME NEW a \in Admin, BeginEdit(a)
      PROVE  /\ Moved(a, op[a].kind, {"editing"}) /\ Legal(op[a].kind, "editing")
             /\ UNCHANGED draining
  <2>1. op[a].proc = None /\ op[a] \in Ops /\ op[a].pc = "idle"
    BY <1>0, <1>5 DEF Phases, BeginEdit, MayBegin, TypeOK, Ops
  <2>. QED
    BY <1>5, <2>1, EditTo DEF Moved, Without, Legal, BeginEdit, Ops
<1>6. ASSUME HeartbeatEnables
      PROVE  Moved(Heartbeat, "enable", {"idle", "starting"}) /\ UNCHANGED draining
  BY <1>0, <1>6, EnableMoves DEF HeartbeatEnables
<1>7. ASSUME HealthCheck \/ Healthy \/ HealthFails \/ FoundDead \/ Buried
      PROVE  /\ Moved(Heartbeat, "none", {"idle", "health", "burying"})
             /\ UNCHANGED draining
  <2>1. CASE Returns(Heartbeat, "none")
    BY <1>0, <1>7, <2>1, ReturnsTo
       DEF Moved, Without, HealthCheck, Healthy, HealthFails, FoundDead, Buried
  <2>2. CASE HealthCheck
    BY <1>0, <2>2, GoesTo DEF Moved, Without, PC, HealthCheck, Running, TypeOK
  <2>3. CASE HealthFails
    <3>1. op[Heartbeat].proc \in Proc
      BY <1>0, <2>3 DEF HealthFails, Phases
    <3>. QED
      BY <1>0, <2>3, <3>1, BuryTo DEF Moved, Without, PC, HealthFails
  <2>. QED
    BY <1>7, <2>1, <2>2, <2>3 DEF Healthy, FoundDead, Buried
<1>8. ASSUME Proceed(Heartbeat)
       PROVE  op[Heartbeat].pc \in {"starting", "undoing"}
  BY <1>8 DEF Phases, Proceed, StartSucceeds, StartFails, StartUndone, RegistrationFails,
     DrainEnds, TransportsClosed, ProcessStops, FinishEdit
<1>9. ASSUME NEW a \in Admin, Proceed(a), op[a].pc \in {"starting", "undoing"}
       PROVE  /\ Moved(a, op[a].kind, PC) /\ Legal(op[a].kind, op'[a].pc)
              /\ op'[a].pc \notin {"draining", "closing", "stopping"} /\ UNCHANGED draining
  BY <1>0, <1>3, <1>9 DEF Moved, Legal, PC, Phases
<1>10. ASSUME NEW a \in Admin, AdminStep(a)
       PROVE  \E kind \in Kind : AdminMoves(a, kind)
  <2>1. CASE BeginEnable(a)
    BY <1>0, <1>1, <2>1 DEF AdminMoves
  <2>2. CASE BeginStop(a, "disable") \/ BeginStop(a, "reload")
    BY <1>0, <1>2, <2>2 DEF AdminMoves
  <2>3. CASE BeginEdit(a)
    BY <1>0, <1>5, <2>3 DEF AdminMoves, Moved, PC
  <2>4. CASE Proceed(a)
    BY <1>0, <1>4, <1>9, <2>4 DEF AdminMoves
  <2>. QED
    BY <1>10, <2>1, <2>2, <2>3, <2>4 DEF AdminStep
<1>11. ASSUME HeartbeatStep
       PROVE  \E kind \in Kind : HeartbeatMoves(kind)
  <2>1. CASE HeartbeatEnables
    BY <1>0, <1>6, <2>1 DEF HeartbeatMoves, Moved
  <2>2. CASE HealthCheck \/ Healthy \/ HealthFails \/ FoundDead \/ Buried
    BY <1>0, <1>7, <2>2 DEF HeartbeatMoves, Moved
  <2>3. CASE Proceed(Heartbeat)
    BY <1>0, <1>3, <1>8, <2>3 DEF HeartbeatMoves, Moved
  <2>. QED
    BY <1>11, <2>1, <2>2, <2>3 DEF HeartbeatStep, HeartbeatProceeds
<1>. QED
  BY <1>10, <1>11

(* Every step moves at most one actor, or is a restart that ends all of     *)
(* them.                                                                    *)
LEMMA Moves ==
  ASSUME TypeOK, Phases, [Next]_vars
  PROVE  OneMoves
<1>. SUFFICES ASSUME Step
              PROVE  OneMoves
  BY DEF Next, vars, OneMoves
<1>1. ASSUME Restart
      PROVE  \A a \in Actor : op'[a].pc = "idle" /\ op'[a].proc = None
  BY <1>1 DEF Restart, IdleOp
<1>2. CASE \/ \E c \in Call : Invoke(c) \/ CallEnds(c)
           \/ \E q \in Socket : Connect(q) \/ Disconnect(q)
           \/ \E p \in Proc : Crash(p)
  BY <1>2 DEF Invoke, CallEnds, Connect, Disconnect, Crash, OneMoves
<1>. QED
  BY <1>1, <1>2, ActorMoves DEF Step, OneMoves, AdminStep, HeartbeatStep

(* Every step keeps the phases of the operations and the drain they ask     *)
(* for.                                                                     *)
LEMMA PhasesStep ==
  ASSUME TypeOK, Phases, DrainHeld, [Next]_vars
  PROVE  Phases' /\ DrainHeld'
<1>0. Heartbeat \in Actor /\ Admin \subseteq Actor /\ Heartbeat \notin Admin
  BY ConstantsOK DEF Actor
<1>1. CASE UNCHANGED <<op, draining>>
  BY <1>1 DEF Phases, DrainHeld, Stopping, OnlyRequest
<1>2. CASE \A a \in Actor : op'[a].pc = "idle" /\ op'[a].proc = None
  BY <1>0, <1>2 DEF Phases, DrainHeld, Stopping
<1>3. ASSUME NEW a \in Admin, NEW kind \in Kind, AdminMoves(a, kind)
      PROVE  Phases' /\ DrainHeld'
  <2>. USE DEF AdminMoves
  <2>1. Phases'
    BY <1>0, <1>3 DEF Phases, Moved, Without, Legal, Stopping
  <2>2. ASSUME NEW b \in Admin, Stopping(b)', OnlyRequest(b)'
        PROVE  draining'
    <3>1. CASE b = a
      <4>1. \A c \in Admin \ {a} : op[c].kind = "none"
        BY <1>0, <1>3, <2>2, <3>1 DEF OnlyRequest, Moved
      <4>. QED
        BY <1>3, <2>2, <3>1, <4>1 DEF Stopping, OnlyRequest, DrainHeld
    <3>2. CASE b # a
      <4>1. kind = "none" /\ op[a].kind = "none" /\ UNCHANGED draining
        BY <1>3, <2>2, <3>2 DEF OnlyRequest, Moved
      <4>2. Stopping(b) /\ OnlyRequest(b)
        BY <1>0, <1>3, <2>2, <3>2, <4>1 DEF Stopping, OnlyRequest, Moved
      <4>. QED
        BY <4>1, <4>2 DEF DrainHeld
    <3>. QED
      BY <3>1, <3>2
  <2>. QED
    BY <2>1, <2>2 DEF DrainHeld
<1>4. ASSUME NEW kind \in Kind, HeartbeatMoves(kind)
      PROVE  Phases' /\ DrainHeld'
  BY <1>0, <1>4 DEF HeartbeatMoves, Phases, DrainHeld, Moved, Without, Stopping, OnlyRequest
<1>. QED
  BY <1>1, <1>2, <1>3, <1>4, Moves DEF OneMoves

(***************************************************************************)
(* One operation after the other.                                           *)
(***************************************************************************)
(* What holds when nothing but the operation of a may be under way.         *)
Own(a) ==
    /\ Relies(a)
    /\ op[a].pc = "idle" => Offered
    /\ process # None => proc[process] # "starting"
    /\ \A p \in Proc : proc[p] # "exited" =>
          p = process \/ (op[a].pc # "idle" /\ op[a].proc = p)
    /\ Disabled => ~enabled /\ process = None
    /\ a = Heartbeat /\ op[a].pc \in {"starting", "undoing"} => ~Disabled

Alone(a) == \A b \in Actor \ {a} : op[b].pc = "idle"

(* In turn, an operation that is under way, or about to begin, finds the    *)
(* manager to itself.                                                       *)
LEMMA OwnBefore ==
  ASSUME IInv, inTurn, NEW a \in Actor, op[a].pc # "idle" \/ Busy = {}
  PROVE  Alone(a) /\ Own(a)
<1>1. Alone(a)
  BY DEF IInv, TurnInv, Busy, Alone
<1>2. op[a].pc = "idle" => Busy = {}
  BY <1>1 DEF Alone, Busy
<1>. QED
  BY <1>1, <1>2 DEF IInv, TurnInv, Own, Alone, DisableIsFinal, NoOrphan, RegistryFollows, Offered

(* What the only operation relies on is what the manager promises in turn.  *)
LEMMA OwnAfter ==
  ASSUME Phases', NEW a \in Actor, Alone(a)', Own(a)'
  PROVE  TurnInv' /\ DisableIsFinal' /\ NoOrphan' /\ RegistryFollows'
<1>1. \A b \in Actor : op'[b].pc # "idle" => b = a
  BY DEF Alone
<1>2. \A b \in Actor : Relies(b)'
  <2>. TAKE b \in Actor
  <2>1. CASE b = a
    BY <2>1 DEF Own
  <2>2. CASE b # a
    BY <1>1, <2>2 DEF Relies
  <2>. QED
    BY <2>1, <2>2
<1>3. op'[Heartbeat].pc \in {"starting", "undoing"} => ~Disabled'
  BY <1>1 DEF Own, Actor
<1>4. TurnInv'
  BY <1>1, <1>2, <1>3 DEF TurnInv, Busy, Own
<1>5. DisableIsFinal' /\ NoOrphan'
  BY DEF DisableIsFinal, NoOrphan, Own
<1>6. RegistryFollows'
  BY DEF RegistryFollows, Busy, Own, Offered
<1>. QED
  BY <1>4, <1>5, <1>6

(* The plugin is not disabled after a step of an administrator who wants it *)
(* to run or is not done; steps of the heartbeat do not matter to it.       *)
LEMMA NotDisabled ==
  ASSUME NEW a \in Admin,
         op'[a].kind \notin {"none", "disable"} \/ op'[a].pc \notin {"idle", "editing"}
  PROVE  ~Disabled'
BY DEF Disabled

(* The heartbeat disables nothing.                                          *)
LEMMA DisabledStays ==
  ASSUME NEW kind, NEW pcs, Moved(Heartbeat, kind, pcs)
  PROVE  Disabled' <=> Disabled
<1>1. \A b \in Admin : op'[b] = op[b]
  BY ConstantsOK DEF Moved, Actor
<1>. QED
  BY <1>1 DEF Disabled

(* enable() alone leaves what an operation may rely on.                     *)
LEMMA EnableOwn ==
  ASSUME TypeOK, NEW a \in Actor, NEW kind \in Kind,
         NEW next \in [Proc -> {"exited", "starting", "running"}],
         Enable(a, kind, process', next),
         process' \in Proc \cup {None}, process' # None => next[process'] # "starting",
         \A p \in Proc : next[p] # "exited" => p = process',
         registered' <=> process' # None,
         ~Disabled'
  PROVE  Own(a)'
<1>1. CASE proc' = next /\ Returns(a, kind)
  <2>1. op'[a].pc = "idle"
    BY <1>1, ReturnsTo
  <2>. QED
    BY <1>1, <2>1 DEF Own, Relies, Offered
<1>2. ASSUME process' = None,
             NEW p \in Proc, next[p] = "exited", proc' = [next EXCEPT ![p] = "starting"],
             Goes(a, kind, "starting", p)
      PROVE  Own(a)'
  <2>1. op'[a].pc = "starting" /\ op'[a].proc = p
    BY <1>2, GoesTo DEF PC
  <2>2. \A q \in Proc : proc'[q] # "exited" => q = p
    BY <1>2, ConstantsOK
  <2>. QED
    BY <1>2, <2>1, <2>2 DEF Own, Relies, Offered
<1>. QED
  BY <1>1, <1>2 DEF Enable

(* So does what follows a stop,                                             *)
LEMMA AfterStopOwn ==
  ASSUME TypeOK, NEW a \in Admin, NEW kind \in Kind,
         NEW next \in [Proc -> {"exited", "starting", "running"}],
         AfterStop(a, kind, None, next), process' = None, ~registered',
         \A p \in Proc : next[p] = "exited"
  PROVE  Own(a)'
<1>0. a \in Actor /\ a # Heartbeat
  BY ConstantsOK DEF Actor
<1>1. CASE kind = "reload" /\ Enable(a, kind, None, next)
  <2>1. ~Disabled'
    BY <1>0, <1>1, EnableMoves, NotDisabled DEF Moved
  <2>. QED
    BY <1>0, <1>1, <2>1, EnableOwn
<1>2. CASE kind = "disable" /\ enabled' = FALSE /\ proc' = next /\ Returns(a, kind)
  <2>1. op'[a].pc = "idle"
    BY <1>0, <1>2, ReturnsTo
  <2>. QED
    BY <1>0, <1>2, <2>1 DEF Own, Relies, Offered
<1>. QED
  BY <1>1, <1>2 DEF AfterStop

(* the stop of a process,                                                   *)
LEMMA TakeProcessOwn ==
  ASSUME TypeOK, NEW a \in Admin, NEW kind \in Kind, NEW drain,
         TakeProcess(a, kind, drain), ~registered',
         process # None => proc[process] # "starting",
         \A p \in Proc : proc[p] # "exited" => p = process
  PROVE  Own(a)'
<1>0. a \in Actor /\ a # Heartbeat /\ proc \in [Proc -> {"exited", "starting", "running"}]
  BY ConstantsOK DEF Actor, TypeOK
<1>1. CASE ~Running /\ AfterStop(a, kind, None, proc)
  <2>1. \A p \in Proc : proc[p] = "exited"
    BY <1>0, <1>1, ConstantsOK DEF Running
  <2>. QED
    BY <1>0, <1>1, <2>1, AfterStopOwn DEF TakeProcess
<1>2. CASE Running /\ Goes(a, kind, "stopping", process) /\ UNCHANGED <<enabled, proc>>
  <2>1. op'[a].pc = "stopping" /\ op'[a].proc = process /\ process' = None
    BY <1>0, <1>2, GoesTo DEF PC, TypeOK, TakeProcess
  <2>2. ~Disabled'
    BY <2>1, NotDisabled
  <2>. QED
    BY <1>0, <1>2, <2>1, <2>2 DEF Own, Relies, Offered
<1>. QED
  BY <1>1, <1>2 DEF TakeProcess

(* and the closing of the sockets.                                          *)
LEMMA CloseOwn ==
  ASSUME TypeOK, NEW a \in Admin, NEW kind \in Kind, NEW drain,
         CloseTransports(a, kind, drain), ~registered',
         process # None => proc[process] # "starting",
         \A p \in Proc : proc[p] # "exited" => p = process
  PROVE  Own(a)'
<1>0. a \in Actor /\ a # Heartbeat
  BY ConstantsOK DEF Actor
<1>1. CASE TakeProcess(a, kind, drain)
  BY <1>1, TakeProcessOwn
<1>2. CASE Goes(a, kind, "closing", None) /\ UNCHANGED <<enabled, process, proc>>
  <2>1. op'[a].pc = "closing"
    BY <1>0, <1>2, GoesTo DEF PC
  <2>2. ~Disabled'
    BY <2>1, NotDisabled
  <2>. QED
    BY <1>0, <1>2, <2>1, <2>2 DEF Own, Relies, Offered
<1>. QED
  BY <1>1, <1>2 DEF CloseTransports

(* What is alive while an operation has no process is in processes.         *)
LEMMA Alive ==
  ASSUME TypeOK, Phases, NEW a \in Actor, Own(a), op[a].pc \in Without
  PROVE  \A p \in Proc : proc[p] # "exited" => p = process
BY ConstantsOK DEF Own, Phases, Without

(* Every operation, while it is alone, leaves to itself what it relies on.  *)
LEMMA AdminOwn ==
  ASSUME TypeOK, Phases, NEW a \in Admin, Own(a), AdminStep(a)
  PROVE  Own(a)'
<1>0. /\ a \in Actor /\ a # Heartbeat /\ op[a].kind \in Kind
      /\ {"enable", "disable", "reload"} \subseteq Kind
      /\ process \in Proc \cup {None} /\ proc \in [Proc -> {"exited", "starting", "running"}]
      /\ op[a].proc \in Proc \cup {None} /\ None \notin Proc
  BY ConstantsOK DEF Actor, TypeOK, Kind
<1>1. CASE BeginEnable(a)
  <2>1. ~Disabled'
    BY <1>0, <1>1, EnableMoves, NotDisabled DEF Moved, BeginEnable
  <2>2. \A p \in Proc : proc[p] # "exited" => p = process
    BY <1>0, <1>1, Alive DEF BeginEnable, MayBegin, Without
  <2>. QED
    BY <1>0, <1>1, <2>1, <2>2, EnableOwn DEF BeginEnable, MayBegin, Own, Offered
<1>2. ASSUME NEW kind \in {"disable", "reload"}, BeginStop(a, kind)
      PROVE  Own(a)'
  <2>1. \A p \in Proc : proc[p] # "exited" => p = process
    BY <1>0, <1>2, Alive DEF BeginStop, MayBegin, Without
  <2>2. CASE CloseTransports(a, kind, TRUE)
    BY <1>0, <1>2, <2>1, <2>2, CloseOwn DEF BeginStop, Own
  <2>3. CASE Goes(a, kind, "draining", None) /\ UNCHANGED <<enabled, process, proc, sockets>>
    <3>1. op'[a].pc = "draining"
      BY <1>0, <2>3, GoesTo DEF PC
    <3>2. ~Disabled'
      BY <3>1, NotDisabled
    <3>. QED
      BY <1>0, <1>2, <2>1, <2>3, <3>1, <3>2 DEF BeginStop, Own, Relies
  <2>. QED
    BY <1>2, <2>2, <2>3 DEF BeginStop
<1>3. CASE BeginEdit(a)
  <2>1. /\ op'[a].kind = op[a].kind /\ op'[a].pc = "editing" /\ op[a].pc = "idle"
        /\ op'[a].enabled = enabled /\ \A b \in Actor \ {a} : op'[b] = op[b]
    BY <1>3, EditTo DEF BeginEdit, MayBegin
  <2>2. Disabled' => Disabled
    BY <2>1 DEF Disabled, Actor
  <2>3. \A p \in Proc : proc[p] # "exited" => p = process
    BY <1>0, <2>1, Alive DEF Without
  <2>. QED
    BY <1>0, <1>3, <2>1, <2>2, <2>3 DEF BeginEdit, Own, Relies, Offered
<1>4. CASE StartSucceeds(a)
  <2>1. op'[a].pc = "idle" /\ op'[a].kind = op[a].kind
    BY <1>0, <1>4, ReturnsTo DEF StartSucceeds
  <2>2. ~Disabled'
    BY <1>4, <2>1, NotDisabled DEF Phases, StartSucceeds
  <2>3. op[a].proc \in Proc /\ process = None
    BY <1>0, <1>4 DEF Phases, StartSucceeds, Own, Relies
  <2>4. \A p \in Proc : proc'[p] # "exited" => p = process'
    BY <1>0, <1>4, <2>3 DEF StartSucceeds, Own
  <2>. QED
    BY <1>0, <1>4, <2>1, <2>2, <2>3, <2>4 DEF StartSucceeds, Own, Relies, Offered
<1>5. CASE StartFails(a) \/ StartUndone(a)
  <2>1. op'[a].pc = "idle" /\ op'[a].kind = op[a].kind
    BY <1>0, <1>5, ReturnsTo DEF StartFails, StartUndone
  <2>2. ~Disabled'
    BY <1>5, <2>1, NotDisabled DEF Phases, StartFails, StartUndone
  <2>3. process' = None /\ ~registered'
    BY <1>5 DEF StartFails, StartUndone, Own, Relies
  <2>4. \A p \in Proc : proc'[p] = "exited"
    BY <1>0, <1>5 DEF StartFails, StartUndone, Own, Relies
  <2>. QED
    BY <1>0, <2>1, <2>2, <2>3, <2>4 DEF Own, Relies, Offered
<1>6. CASE RegistrationFails(a)
  <2>1. op'[a].pc = "undoing" /\ op'[a].proc = op[a].proc
    BY <1>0, <1>6, GoesTo DEF RegistrationFails, PC
  <2>2. ~Disabled'
    BY <2>1, NotDisabled
  <2>3. process' = None /\ ~registered'
    BY <1>6 DEF RegistrationFails, Own, Relies
  <2>4. \A p \in Proc : proc'[p] # "exited" => p = op[a].proc
    BY <1>0, <1>6 DEF RegistrationFails, Own, Relies
  <2>. QED
    BY <1>0, <2>1, <2>2, <2>3, <2>4 DEF Own, Relies, Offered
<1>7. CASE DrainEnds(a)
  <2>1. \A p \in Proc : proc[p] # "exited" => p = process
    BY <1>0, <1>7, Alive DEF DrainEnds, Without
  <2>. QED
    BY <1>0, <1>7, <2>1, CloseOwn DEF DrainEnds, Own, Relies
<1>8. CASE TransportsClosed(a)
  <2>1. \A p \in Proc : proc[p] # "exited" => p = process
    BY <1>0, <1>8, Alive DEF TransportsClosed, Without
  <2>. QED
    BY <1>0, <1>8, <2>1, TakeProcessOwn DEF TransportsClosed, Own, Relies
<1>9. CASE ProcessStops(a)
  <2>. DEFINE next == [proc EXCEPT ![op[a].proc] = "exited"]
  <2>1. process = None /\ process' = None /\ ~registered'
    BY <1>9 DEF ProcessStops, Own, Relies
  <2>2. AfterStop(a, op[a].kind, None, next)
    BY <1>9, <2>1 DEF ProcessStops
  <2>3. \A p \in Proc : next[p] = "exited"
    BY <1>0, <1>9, <2>1 DEF Own
  <2>4. next \in [Proc -> {"exited", "starting", "running"}]
    BY <1>0
  <2>. HIDE DEF next
  <2>. QED
    BY <1>0, <2>1, <2>2, <2>3, <2>4, AfterStopOwn
<1>10. CASE FinishEdit(a)
  <2>1. /\ op'[a].kind = op[a].kind /\ op'[a].pc = "idle"
        /\ \A b \in Actor \ {a} : op'[b] = op[b]
    BY <1>0, <1>10, ReturnsTo DEF FinishEdit
  <2>2. Disabled' => Disabled
    BY <1>10, <2>1 DEF Disabled, Actor, FinishEdit
  <2>3. \A p \in Proc : proc[p] # "exited" => p = process
    BY <1>0, <1>10, Alive DEF Without, FinishEdit
  <2>. QED
    BY <1>0, <1>10, <2>1, <2>2, <2>3 DEF FinishEdit, Own, Relies, Offered
<1>. QED
  BY <1>1, <1>2, <1>3, <1>4, <1>5, <1>6, <1>7, <1>8, <1>9, <1>10 DEF AdminStep, Proceed

(* So does every step of the heartbeat.                                     *)
LEMMA HeartbeatOwn ==
  ASSUME TypeOK, Phases, Own(Heartbeat), HeartbeatStep
  PROVE  Own(Heartbeat)'
<1>0. /\ Heartbeat \in Actor /\ op[Heartbeat].kind \in Kind
      /\ {"none", "enable"} \subseteq Kind
      /\ process \in Proc \cup {None} /\ proc \in [Proc -> {"exited", "starting", "running"}]
      /\ op[Heartbeat].proc \in Proc \cup {None} /\ None \notin Proc
  BY ConstantsOK DEF Actor, TypeOK, Kind
<1>1. CASE HeartbeatEnables
  <2>1. Moved(Heartbeat, "enable", {"idle", "starting"})
    BY <1>0, <1>1, EnableMoves DEF HeartbeatEnables
  <2>2. ~Disabled'
    BY <1>1, <2>1, DisabledStays DEF HeartbeatEnables, Own
  <2>3. \A p \in Proc : proc[p] # "exited" => p = process
    BY <1>0, <1>1, Alive DEF HeartbeatEnables, MayBegin, Without
  <2>. QED
    BY <1>0, <1>1, <2>2, <2>3, EnableOwn DEF HeartbeatEnables, MayBegin, Own, Offered
<1>2. CASE HealthCheck
  <2>1. Moved(Heartbeat, "none", {"health"})
    BY <1>0, <1>2, GoesMoves DEF HealthCheck, PC, Without, Running
  <2>2. op'[Heartbeat].pc = "health" /\ op'[Heartbeat].proc = process
    BY <1>0, <1>2, GoesTo DEF HealthCheck, PC
  <2>3. Disabled' => Disabled
    BY <2>1, DisabledStays
  <2>4. \A p \in Proc : proc[p] # "exited" => p = process
    BY <1>0, <1>2, Alive DEF HealthCheck, MayBegin, Without
  <2>. QED
    BY <1>0, <1>2, <2>2, <2>3, <2>4 DEF HealthCheck, MayBegin, Own, Relies, Offered
<1>3. CASE Healthy \/ FoundDead \/ Buried
  <2>1. Moved(Heartbeat, "none", {"idle"})
    BY <1>0, <1>3, ReturnsMoves DEF Healthy, FoundDead, Buried
  <2>2. op'[Heartbeat].pc = "idle"
    BY <2>1 DEF Moved
  <2>3. Disabled' => Disabled
    BY <2>1, DisabledStays
  <2>4. CASE Healthy
    BY <1>0, <2>2, <2>3, <2>4 DEF Healthy, Own, Relies, Offered
  <2>5. CASE Buried
    <3>1. \A p \in Proc : proc'[p] = "exited"
      BY <1>0, <2>5 DEF Buried, Own, Relies
    <3>2. enabled' = enabled
      BY <1>0, <2>5 DEF Buried, Own, Relies
    <3>. QED
      BY <1>0, <2>2, <2>3, <2>5, <3>1, <3>2 DEF Buried, Own, Relies, Offered
  <2>6. CASE FoundDead
    <3>1. \A p \in Proc : proc[p] = "exited"
      BY <1>0, <2>6, Alive DEF FoundDead, MayBegin, Own, Relies, Running, Without
    <3>. QED
      BY <1>0, <2>2, <2>3, <2>6, <3>1 DEF FoundDead, Own, Relies, Offered
  <2>. QED
    BY <1>3, <2>4, <2>5, <2>6
<1>4. CASE HealthFails
  <2>0. op[Heartbeat].proc \in Proc
    BY <1>0, <1>4 DEF HealthFails, Phases
  <2>1. Moved(Heartbeat, "none", {"burying"})
    BY <1>0, <1>4, <2>0, BuryTo DEF HealthFails, Moved, PC, Without
  <2>2. /\ op'[Heartbeat].pc = "burying" /\ op'[Heartbeat].proc = op[Heartbeat].proc
        /\ op'[Heartbeat].enabled = enabled
    BY <1>0, <1>4, BuryTo DEF HealthFails
  <2>3. Disabled' => Disabled
    BY <2>1, DisabledStays
  <2>. QED
    BY <1>0, <1>4, <2>2, <2>3 DEF HealthFails, Own, Relies, Offered
<1>5. CASE Proceed(Heartbeat)
  <2>0. op[Heartbeat].pc \in {"starting", "undoing"} /\ op[Heartbeat].proc \in Proc
    BY <1>0, <1>5 DEF Phases, Proceed, StartSucceeds, StartFails, StartUndone, RegistrationFails,
       DrainEnds, TransportsClosed, ProcessStops, FinishEdit
  <2>1. ~Disabled /\ process = None /\ ~registered
    BY <2>0 DEF Own, Relies
  <2>2. CASE RegistrationFails(Heartbeat)
    <3>1. Moved(Heartbeat, op[Heartbeat].kind, {"undoing"})
      BY <1>0, <2>0, <2>2, GoesMoves DEF RegistrationFails, PC, Without
    <3>2. op'[Heartbeat].pc = "undoing" /\ op'[Heartbeat].proc = op[Heartbeat].proc
      BY <1>0, <2>0, <2>2, GoesTo DEF RegistrationFails, PC
    <3>3. ~Disabled'
      BY <2>1, <3>1, DisabledStays
    <3>4. \A p \in Proc : proc'[p] # "exited" => p = op[Heartbeat].proc
      BY <1>0, <2>1, <2>2 DEF RegistrationFails, Own
    <3>. QED
      BY <1>0, <2>1, <2>2, <3>2, <3>3, <3>4 DEF RegistrationFails, Own, Relies, Offered
  <2>3. CASE StartSucceeds(Heartbeat) \/ StartFails(Heartbeat) \/ StartUndone(Heartbeat)
    <3>1. Moved(Heartbeat, op[Heartbeat].kind, {"idle"})
      BY <1>0, <2>3, ReturnsMoves DEF StartSucceeds, StartFails, StartUndone
    <3>2. op'[Heartbeat].pc = "idle"
      BY <3>1 DEF Moved
    <3>3. ~Disabled'
      BY <2>1, <3>1, DisabledStays
    <3>4. \A p \in Proc : proc'[p] # "exited" => p = process'
      BY <1>0, <2>0, <2>1, <2>3 DEF StartSucceeds, StartFails, StartUndone, Own
    <3>5. /\ registered' <=> process' # None
          /\ process' # None => proc'[process'] = "running"
      BY <1>0, <2>0, <2>1, <2>3 DEF StartSucceeds, StartFails, StartUndone
    <3>. QED
      BY <3>2, <3>3, <3>4, <3>5 DEF Own, Relies, Offered
  <2>. QED
    BY <1>5, <2>0, <2>2, <2>3
       DEF Proceed, DrainEnds, TransportsClosed, ProcessStops, FinishEdit
<1>. QED
  BY <1>1, <1>2, <1>3, <1>4, <1>5 DEF HeartbeatStep, HeartbeatProceeds

(* In turn means that an operation begins only when no other is under way.  *)
LEMMA InTurn ==
  ASSUME IInv, inTurn, NEW a \in Actor,
         (a \in Admin /\ AdminStep(a)) \/ (a = Heartbeat /\ HeartbeatStep)
  PROVE  op[a].pc # "idle" \/ Busy = {}
<1>1. CASE AdminStep(a)
  BY <1>1 DEF AdminStep, BeginEnable, BeginStop, BeginEdit, MayBegin, Proceed, StartSucceeds,
     StartFails, StartUndone, RegistrationFails, DrainEnds, TransportsClosed, ProcessStops, FinishEdit
<1>2. CASE a = Heartbeat /\ HeartbeatStep
  BY <1>2 DEF HeartbeatStep, HeartbeatEnables, HealthCheck, HeartbeatProceeds, Healthy, HealthFails,
     FoundDead, Buried, MayBegin, Proceed, StartSucceeds,
     StartFails, StartUndone, RegistrationFails, DrainEnds, TransportsClosed, ProcessStops, FinishEdit
<1>. QED
  BY <1>1, <1>2

(* As long as operations do not overlap, every step keeps what they rely    *)
(* on.                                                                      *)
LEMMA TurnStep ==
  ASSUME IInv, inTurn, [Next]_vars
  PROVE  TurnInv' /\ DisableIsFinal' /\ NoOrphan' /\ RegistryFollows'
<1>0. TypeOK /\ Phases /\ Phases' /\ Heartbeat \in Actor /\ Admin \subseteq Actor
  BY PhasesStep DEF IInv, Actor
<1>1. ASSUME NEW a \in Admin, AdminStep(a)
      PROVE  TurnInv' /\ DisableIsFinal' /\ NoOrphan' /\ RegistryFollows'
  <2>1. Alone(a) /\ Own(a)
    BY <1>0, <1>1, InTurn, OwnBefore
  <2>2. \A b \in Actor \ {a} : op'[b] = op[b]
    BY <1>0, <1>1, ActorMoves DEF AdminMoves, Moved
  <2>3. Alone(a)'
    BY <2>1, <2>2 DEF Alone
  <2>. QED
    BY <1>0, <1>1, <2>1, <2>3, AdminOwn, OwnAfter
<1>2. CASE HeartbeatStep
  <2>1. Alone(Heartbeat) /\ Own(Heartbeat)
    BY <1>0, <1>2, InTurn, OwnBefore
  <2>2. \A b \in Actor \ {Heartbeat} : op'[b] = op[b]
    BY <1>0, <1>2, ActorMoves DEF HeartbeatMoves, Moved
  <2>3. Alone(Heartbeat)'
    BY <2>1, <2>2 DEF Alone
  <2>. QED
    BY <1>0, <1>2, <2>1, <2>3, HeartbeatOwn, OwnAfter
<1>3. ASSUME UNCHANGED <<enabled, process, registered, op, inTurn>>,
             \A p \in Proc : proc'[p] \in {proc[p], "exited"}
      PROVE  TurnInv' /\ DisableIsFinal' /\ NoOrphan' /\ RegistryFollows'
  <2>1. /\ \A p \in Proc : proc'[p] # "exited" => proc'[p] = proc[p]
        /\ process # None => process \in Proc
    BY <1>0, <1>3 DEF TypeOK
  <2>2. \A a \in Actor : Relies(a)'
    BY <1>3 DEF IInv, TurnInv, Relies, Offered
  <2>3. Disabled' <=> Disabled
    BY <1>3 DEF Disabled
  <2>4. TurnInv'
    BY <1>3, <2>1, <2>2, <2>3 DEF IInv, TurnInv, Busy
  <2>. QED
    BY <1>3, <2>1, <2>3, <2>4 DEF IInv, DisableIsFinal, NoOrphan, RegistryFollows, Busy
<1>4. ASSUME \/ UNCHANGED vars
             \/ \E c \in Call : Invoke(c) \/ CallEnds(c)
             \/ \E q \in Socket : Connect(q) \/ Disconnect(q),
             UNCHANGED inTurn
      PROVE  TurnInv' /\ DisableIsFinal' /\ NoOrphan' /\ RegistryFollows'
  <2>1. UNCHANGED <<enabled, process, proc, registered, op, inTurn>>
    BY <1>4 DEF vars, Invoke, CallEnds, Connect, Disconnect
  <2>. QED
    BY <1>3, <2>1
<1>5. ASSUME NEW p \in Proc, Crash(p), UNCHANGED inTurn
      PROVE  TurnInv' /\ DisableIsFinal' /\ NoOrphan' /\ RegistryFollows'
  <2>1. /\ UNCHANGED <<enabled, process, registered, op>>
        /\ \A q \in Proc : proc'[q] \in {proc[q], "exited"}
    BY <1>0, <1>5 DEF TypeOK, Crash
  <2>. QED
    BY <1>3, <1>5, <2>1
<1>6. CASE Restart
  <2>1. \A a \in Actor : op'[a].pc = "idle"
    BY <1>6 DEF Restart, IdleOp
  <2>2. Disabled' => Disabled
    BY <1>0, <1>6 DEF Restart, IdleOp, Disabled
  <2>3. process' = None /\ ~registered' /\ UNCHANGED enabled /\ \A p \in Proc : proc'[p] = "exited"
    BY <1>6 DEF Restart
  <2>4. TurnInv'
    BY <1>0, <2>1, <2>3 DEF TurnInv, Busy, Relies
  <2>. QED
    BY <2>2, <2>3, <2>4 DEF IInv, DisableIsFinal, NoOrphan, RegistryFollows
<1>. QED
  BY <1>1, <1>2, <1>4, <1>5, <1>6 DEF Next, Step, vars, AdminStep, HeartbeatStep

(***************************************************************************)
(* The theorems.                                                            *)
(***************************************************************************)
(* The invariant of the proofs holds when Core starts ...                   *)
THEOREM Initially == Init => IInv
<1>. SUFFICES ASSUME Init
              PROVE  IInv
  OBVIOUS
<1>1. Heartbeat \in Actor /\ \A a \in Actor : op[a] = IdleOp
  BY DEF Init, Actor
<1>2. TypeOK
  BY DEF Init, TypeOK, IdleOp, Kind, PC
<1>3. Phases /\ DrainHeld
  BY <1>1 DEF Phases, DrainHeld, Stopping, IdleOp, Actor
<1>4. Busy = {} /\ ~Disabled /\ process = None /\ ~registered
  BY <1>1 DEF Init, Busy, Disabled, IdleOp, Actor
<1>5. TurnInv
  BY <1>1, <1>4 DEF TurnInv, Relies, IdleOp
<1>6. DisableIsFinal /\ NoOrphan /\ RegistryFollows
  BY <1>4 DEF Init, DisableIsFinal, NoOrphan, RegistryFollows
<1>. QED
  BY <1>2, <1>3, <1>5, <1>6 DEF IInv

(* ... and is kept by every step ...                                        *)
THEOREM Inductive == IInv /\ [Next]_vars => IInv'
<1>. SUFFICES ASSUME IInv, [Next]_vars
              PROVE  IInv'
  OBVIOUS
<1>1. TypeOK' /\ Phases' /\ DrainHeld'
  BY TypeStep, PhasesStep DEF IInv
<1>2. inTurn' = inTurn
  BY DEF Next, vars
<1>3. CASE inTurn
  BY <1>1, <1>3, TurnStep DEF IInv
<1>4. CASE ~inTurn
  BY <1>1, <1>2, <1>4 DEF IInv, DisableIsFinal, NoOrphan, RegistryFollows
<1>. QED
  BY <1>3, <1>4

(* ... so that it always holds.                                             *)
THEOREM Invariance == Spec => []IInv
BY Initially, Inductive, PTL DEF Spec

(* The record, processes, registry, calls and operations keep their types.  *)
THEOREM TypeCorrect == Spec => []TypeOK
<1>1. IInv => TypeOK
  BY DEF IInv
<1>. QED
  BY <1>1, Invariance, PTL

(* While operations take turns, a disable that has returned is final, and   *)
(* no crash, restart or heartbeat undoes it.                                *)
THEOREM DisabledForGood == Spec => []DisableIsFinal
<1>1. IInv => DisableIsFinal
  BY DEF IInv
<1>. QED
  BY <1>1, Invariance, PTL

(* While operations take turns, no child process is forgotten.              *)
THEOREM NothingForgotten == Spec => []NoOrphan
<1>1. IInv => NoOrphan
  BY DEF IInv
<1>. QED
  BY <1>1, Invariance, PTL

(* While operations take turns, the registry offers what processes serves.  *)
THEOREM RegistryIsTrue == Spec => []RegistryFollows
<1>1. IInv => RegistryFollows
  BY DEF IInv
<1>. QED
  BY <1>1, Invariance, PTL

(* A stop that no other overlaps admits no new call (_invoke_extension and  *)
(* draining_plugins), though everything else overlaps.                      *)
THEOREM NoCallWhileStopping == Spec => StopAdmitsNoCall
<1>. DEFINE A == \A a \in Admin : Stopping(a) /\ OnlyRequest(a) =>
                   \A c \in Call : calls[c] = None => calls'[c] = None
<1>1. IInv /\ [Next]_vars => [A]_vars
  <2>. SUFFICES ASSUME IInv, Next, NEW a \in Admin, Stopping(a), OnlyRequest(a),
                       NEW c \in Call, calls[c] = None
                PROVE  calls'[c] = None
    OBVIOUS
  <2>1. draining
    BY DEF IInv, DrainHeld
  <2>2. calls \in [Call -> Proc \cup {None}]
    BY DEF IInv, TypeOK
  <2>3. ASSUME NEW d \in Call, CallEnds(d)
        PROVE  calls'[c] = None
    BY <2>2, <2>3 DEF CallEnds
  <2>4. CASE Restart
    BY <2>4 DEF Restart
  <2>5. CASE UNCHANGED calls
    BY <2>5
  <2>. QED
    BY <2>1, <2>3, <2>4, <2>5
       DEF Next, Step, Invoke, Connect, Disconnect, Crash, BeginEnable, BeginStop, BeginEdit,
           Proceed, StartSucceeds, StartFails, StartUndone, RegistrationFails, DrainEnds,
           TransportsClosed, ProcessStops, FinishEdit, HeartbeatEnables, HealthCheck,
           HeartbeatProceeds, Healthy, HealthFails, FoundDead, Buried
<1>. QED
  BY <1>1, Invariance, PTL DEF Spec, StopAdmitsNoCall

=============================================================================
