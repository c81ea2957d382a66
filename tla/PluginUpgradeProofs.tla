------------------------- MODULE PluginUpgradeProofs -------------------------
(***************************************************************************)
(* Proofs about PluginUpgrade, for any versions, administrators and        *)
(* threads: an upgrade during which nothing else went on takes effect as a *)
(* whole or leaves the old plugin, and through crashes and races alike an  *)
(* old package is given up only for another one.                           *)
(***************************************************************************)
EXTENDS PluginUpgrade, TLAPS

(* What an operation does in each of its phases, and who runs which.        *)
Phase(a) ==
    /\ op[a].pc = "recording" => op[a].kind = "install"
    /\ op[a].pc = "editing" => op[a].kind = "configure"
    /\ op[a].pc \in {"stopping", "swapping", "migrating"} => op[a].kind = "upgrade"
    /\ op[a].pc \in {"launching", "starting"} => op[a].kind \in {"enable", "upgrade"}
    /\ op[a].pc \in {"disabling", "removing"} => op[a].kind # "upgrade"
    /\ op[a].pc = "idle" => op[a].kind \in {"none", "upgrade"}
    /\ op[a].pc \in {"stopping", "swapping"} => op[a].version \in Version
    /\ op[a].pc = "swapping" => op[a].old \in Version
    /\ op[a].pc = "starting" => op[a].code \in Version
    /\ a = Heartbeat => op[a].pc \in {"idle", "launching", "starting"}
                        /\ op[a].kind # "upgrade"
Phases == \A a \in Actor : Phase(a)

(* The operation of a is under way, and no other has been since it began.   *)
Lone(a) == a \in Busy /\ Alone(a)
LoneIsAlone == \A a \in Actor : Lone(a) => Busy = {a}

(* Nothing runs, and the record and the package are as the argument says.   *)
Holds(rec, package) == running = None /\ record = rec /\ installed = package

(* Nobody disturbs an upgrade that is alone, nor the plugin it works on.    *)
UpgradePhase(a) ==
    Lone(a) /\ op[a].kind = "upgrade" =>
        /\ op[a].pc = "stopping" => Holds(op[a].before, op[a].old)
        /\ op[a].pc = "swapping" => Holds(op[a].before, None)
        /\ op[a].pc = "migrating" => Holds(op[a].before, op[a].version)
        /\ op[a].pc \in {"launching", "starting"} =>
              /\ op[a].before.enabled
              /\ op[a].record = [op[a].before EXCEPT !.config = op[a].version]
              /\ Holds(op[a].record, op[a].version)
        /\ op[a].pc = "starting" => op[a].code = op[a].version

(* The heartbeat starts what is recorded and installed.                     *)
HeartbeatPhase ==
    Lone(Heartbeat) =>
        /\ op[Heartbeat].record.enabled
        /\ Holds(op[Heartbeat].record, installed)
        /\ op[Heartbeat].pc = "starting" => op[Heartbeat].code = installed

(* An upgrade that was alone has ended, and no request came after it: only  *)
(* the heartbeat may be under way, alone, and the plugin is as the outcome  *)
(* promises.                                                                *)
Settled(a) == op[a].pc = "idle" /\ op[a].kind = "upgrade" /\ Alone(a)
Quiet == Busy \subseteq {Heartbeat} /\ (Heartbeat \in Busy => Alone(Heartbeat))
Outcome(a) ==
    /\ op[a].outcome = "unmigrated" =>
          running = None /\ record = [op[a].before EXCEPT !.enabled = FALSE]
    /\ op[a].outcome = "kept" => installed = op[a].old /\ record = op[a].before
    /\ op[a].outcome = "done" =>
          /\ installed = op[a].version
          /\ record = [op[a].before EXCEPT !.config = op[a].version]
          /\ running # None => running = [code |-> op[a].version, config |-> op[a].version]
AfterUpgrade(a) == Settled(a) => Quiet /\ Outcome(a)

Claims(a) == UpgradePhase(a) /\ AfterUpgrade(a)

IInv == /\ PluginOK /\ Phases /\ LoneIsAlone /\ HeartbeatPhase
        /\ \A a \in Admin : Claims(a)

(* The two properties that the runs check are the outcomes.                 *)
LEMMA OutcomesAreThePromises ==
    ASSUME \A a \in Admin : Claims(a)
    PROVE  FailedUpgradeKeepsTheOld /\ UpgradeTakesEffect
BY DEF Claims, AfterUpgrade, Settled, Outcome, FailedUpgradeKeepsTheOld, UpgradeTakesEffect,
       Ended

(***************************************************************************)
(* Records of operations.                                                   *)
(***************************************************************************)
Pc == {"idle", "recording", "stopping", "swapping", "migrating", "launching",
       "starting", "editing", "disabling", "removing"}
Outcomes == {"none", "done", "failed", "kept", "unmigrated"}

LEMMA EmptyOps == NoRecord \in Record /\ IdleOp \in Op
BY DEF NoRecord, Record, Maybe, IdleOp, Op

(* An operation that goes on to another phase, launches, or ends.           *)
LEMMA OpGoes ==
    ASSUME NEW o \in Op, NEW pc \in Pc
    PROVE  [o EXCEPT !.pc = pc] \in Op
BY DEF Op, Pc

LEMMA RestOf ==
    ASSUME NEW o \in Op, NEW outcome \in Outcomes
    PROVE  /\ Rest(o, outcome) \in Op
           /\ Rest(o, outcome).pc = "idle"
           /\ Rest(o, outcome).outcome = outcome
           /\ o.kind # "upgrade" => Rest(o, outcome).kind = "none"
           /\ o.kind = "upgrade" =>
                 /\ Rest(o, outcome).kind = "upgrade"
                 /\ Rest(o, outcome).version = o.version
                 /\ Rest(o, outcome).old = o.old
                 /\ Rest(o, outcome).before = o.before
                 /\ Rest(o, outcome).crossed = o.crossed
<1>1. CASE o.kind = "upgrade"
  <2>1. Rest(o, outcome) = [o EXCEPT !.pc = "idle", !.outcome = outcome, !.code = None,
                                     !.record = NoRecord]
    BY <1>1 DEF Rest
  <2>2. Rest(o, outcome) \in Op
    BY <2>1, EmptyOps DEF Op, Outcomes, Maybe
  <2>3. Rest(o, outcome).pc = "idle" /\ Rest(o, outcome).outcome = outcome
    BY <2>1 DEF Op
  <2>4. /\ Rest(o, outcome).kind = o.kind /\ Rest(o, outcome).version = o.version
        /\ Rest(o, outcome).old = o.old
    BY <2>1 DEF Op
  <2>5. Rest(o, outcome).before = o.before /\ Rest(o, outcome).crossed = o.crossed
    BY <2>1 DEF Op
  <2> QED
    BY <1>1, <2>2, <2>3, <2>4, <2>5
<1>2. CASE o.kind # "upgrade"
  <2>1. Rest(o, outcome) = [IdleOp EXCEPT !.outcome = outcome]
    BY <1>2 DEF Rest
  <2>2. Rest(o, outcome) \in Op
    BY <2>1, EmptyOps DEF Op, Outcomes
  <2> QED
    BY <1>2, <2>1, <2>2 DEF Op, IdleOp
<1> QED
  BY <1>1, <1>2

(* Fields of a record of the plugin.                                        *)
LEMMA Configuring ==
    ASSUME NEW r \in Record, NEW v \in Maybe
    PROVE  /\ [r EXCEPT !.config = v] \in Record
           /\ [r EXCEPT !.config = v].enabled = r.enabled
           /\ [r EXCEPT !.config = v].config = v
BY DEF Record

LEMMA Enabling ==
    ASSUME NEW r \in Record
    PROVE  /\ [r EXCEPT !.enabled = TRUE] \in Record /\ [r EXCEPT !.enabled = TRUE].enabled
           /\ [r EXCEPT !.enabled = FALSE] \in Record /\ ~[r EXCEPT !.enabled = FALSE].enabled
           /\ r.enabled => [r EXCEPT !.enabled = TRUE] = r
           /\ [r EXCEPT !.enabled = TRUE].config = r.config
BY DEF Record

(***************************************************************************)
(* What one actor's step leaves to the others.                              *)
(***************************************************************************)

(* The record of a's operation becomes n, that of nobody else changes.      *)
LEMMA OpSet ==
    ASSUME PluginOK, NEW a \in Actor, NEW n \in Op, op' = [op EXCEPT ![a] = n]
    PROVE  /\ op' \in [Actor -> Op]
           /\ op'[a] = n
           /\ \A b \in Actor : b # a => op'[b] = op[b]
           /\ Busy' = IF n.pc = "idle" THEN Busy \ {a} ELSE Busy \cup {a}
<1>1. op \in [Actor -> Op]
  BY DEF PluginOK
<1>2. op' \in [Actor -> Op] /\ op'[a] = n /\ \A b \in Actor : b # a => op'[b] = op[b]
  BY <1>1
<1> QED
  BY <1>2 DEF Busy

(* Phases of the others are as they were.                                   *)
LEMMA OtherPhases ==
    ASSUME IInv, NEW a \in Actor, NEW n \in Op, op' = [op EXCEPT ![a] = n], Phase(a)'
    PROVE  Phases'
BY OpSet DEF IInv, Phases, Phase

(* An operation in progress that goes on, as n, disturbs no other: one that *)
(* is alone has no other beside it.                                         *)
LEMMA Turn ==
    ASSUME IInv, NEW a \in Admin \cup Thread, a \in Busy, NEW n \in Op,
           op' = [op EXCEPT ![a] = n],
           n.kind = "upgrade" \/ n.pc # "idle" => n.crossed = op[a].crossed,
           a \in Admin => UpgradePhase(a)' /\ (Settled(a)' => Outcome(a)')
    PROVE  LoneIsAlone' /\ HeartbeatPhase' /\ \A b \in Admin : Claims(b)'
<1> USE UpgradeConstantsOK DEF Actor
<1>0. PluginOK
  BY DEF IInv
<1>1. /\ op'[a] = n /\ \A b \in Actor : b # a => op'[b] = op[b]
      /\ Busy' = IF n.pc = "idle" THEN Busy \ {a} ELSE Busy \cup {a}
  BY <1>0, OpSet
<1>2. \A b \in Actor : b # a => ~Lone(b)'
  BY <1>1 DEF IInv, LoneIsAlone, Lone, Alone
<1>3. a # Heartbeat
  OBVIOUS
<1>4. \A b \in Admin : b # a => ~Settled(b)'
  BY <1>1, <1>3 DEF IInv, Claims, AfterUpgrade, Settled, Quiet, Alone
<1>5. \A b \in Admin : b # a => Claims(b)'
  BY <1>2, <1>4 DEF Claims, UpgradePhase, AfterUpgrade
<1>6. Lone(a)' => Busy' = {a}
  BY <1>1 DEF IInv, LoneIsAlone, Lone, Alone
<1>7. Settled(a)' => Busy' = {}
  BY <1>1 DEF IInv, LoneIsAlone, Lone, Alone, Settled
<1>8. a \in Admin => Claims(a)'
  BY <1>7 DEF Claims, AfterUpgrade, Quiet
<1> QED
  BY <1>2, <1>3, <1>5, <1>6, <1>8 DEF LoneIsAlone, HeartbeatPhase

(* The same for the heartbeat, which comes only after an upgrade.           *)
LEMMA HeartbeatTurn ==
    ASSUME IInv, Heartbeat \in Busy, NEW n \in Op,
           op' = [op EXCEPT ![Heartbeat] = n],
           n.pc # "idle" => n.crossed = op[Heartbeat].crossed,
           HeartbeatPhase',
           \A b \in Admin : Settled(b) /\ Lone(Heartbeat) => Outcome(b)'
    PROVE  LoneIsAlone' /\ \A b \in Admin : Claims(b)'
<1> USE UpgradeConstantsOK DEF Actor
<1>0. PluginOK
  BY DEF IInv
<1>1. /\ op'[Heartbeat] = n /\ \A b \in Actor : b # Heartbeat => op'[b] = op[b]
      /\ Busy' = IF n.pc = "idle" THEN Busy \ {Heartbeat} ELSE Busy \cup {Heartbeat}
  BY <1>0, OpSet
<1>2. \A b \in Actor : b # Heartbeat => ~Lone(b)'
  BY <1>1 DEF IInv, LoneIsAlone, Lone, Alone
<1>3. Lone(Heartbeat)' => Busy' = {Heartbeat}
  BY <1>1 DEF IInv, LoneIsAlone, Lone, Alone
<1>4. ASSUME NEW b \in Admin
      PROVE  Claims(b)'
  <2>1. b # Heartbeat
    OBVIOUS
  <2>2. UpgradePhase(b)'
    BY <1>2, <2>1 DEF UpgradePhase
  <2>3. ASSUME Settled(b)'
        PROVE  Quiet' /\ Outcome(b)'
    <3>1. Settled(b)
      BY <1>1, <2>1, <2>3 DEF Settled, Alone
    <3>2. Quiet
      BY <3>1 DEF IInv, Claims, AfterUpgrade
    <3>3. Quiet'
      BY <1>1, <3>2 DEF Quiet, Alone
    <3> QED
      BY <3>1, <3>2, <3>3 DEF Quiet, Lone
  <2> QED
    BY <2>2, <2>3 DEF Claims, AfterUpgrade
<1> QED
  BY <1>2, <1>3, <1>4 DEF LoneIsAlone

(* An operation that begins is alone only if no other is under way and no   *)
(* disabled plugin runs.                                                    *)
Crossed == Busy # {} \/ (running # None /\ ~record.enabled)

LEMMA BeginsOp ==
    ASSUME PluginOK, NEW a \in Actor, op[a].pc = "idle", NEW o \in Op, Begins(a, o)
    PROVE  /\ op' \in [Actor -> Op]
           /\ op'[a] = [o EXCEPT !.crossed = Crossed]
           /\ op'[a] \in Op
           /\ \A b \in Busy : op'[b] = [op[b] EXCEPT !.crossed = TRUE]
           /\ \A b \in Actor : b # a /\ b \notin Busy =>
                 op'[b] = IF a = Heartbeat THEN op[b] ELSE IdleOp
           /\ Busy' = IF o.pc = "idle" THEN Busy ELSE Busy \cup {a}
<1>1. \A b \in Actor : op[b] \in Op
  BY DEF PluginOK
<1>2. [o EXCEPT !.crossed = Crossed] \in Op
  BY DEF Op, Crossed
<1>3. \A b \in Actor : [op[b] EXCEPT !.crossed = TRUE] \in Op
  BY <1>1 DEF Op
<1>4. op' = [b \in Actor |-> IF b = a THEN [o EXCEPT !.crossed = Crossed]
                              ELSE IF b \in Busy THEN [op[b] EXCEPT !.crossed = TRUE]
                              ELSE IF a = Heartbeat THEN op[b] ELSE IdleOp]
  BY DEF Begins, Crossed
<1>5. op' \in [Actor -> Op]
  BY <1>1, <1>2, <1>3, <1>4, EmptyOps
<1>6. a \notin Busy
  BY DEF Busy
<1>7. \A b \in Busy : op'[b] = [op[b] EXCEPT !.crossed = TRUE]
  BY <1>4, <1>6 DEF Busy
<1>8. op'[a] = [o EXCEPT !.crossed = Crossed]
  BY <1>4
<1>9. \A b \in Actor : b # a /\ b \notin Busy =>
                 op'[b] = IF a = Heartbeat THEN op[b] ELSE IdleOp
  BY <1>4
<1>10. op'[a].pc = o.pc
  BY <1>8 DEF Op
<1>11. ASSUME NEW b \in Busy
       PROVE  op'[b].pc # "idle"
  <2>1. op[b] \in Op /\ op[b].pc # "idle"
    BY <1>1 DEF Busy
  <2>2. op'[b].pc = op[b].pc
    BY <1>7, <2>1 DEF Op
  <2> QED
    BY <2>1, <2>2
<1>12. \A b \in Actor : b # a /\ b \notin Busy => op'[b].pc = "idle"
  BY <1>9 DEF Busy, IdleOp
<1>13. Busy' = IF o.pc = "idle" THEN Busy ELSE Busy \cup {a}
  BY <1>6, <1>10, <1>11, <1>12 DEF Busy
<1> QED
  BY <1>2, <1>5, <1>7, <1>8, <1>9, <1>13

(* The phases of the others are as they were, or they are forgotten.        *)
LEMMA BeginsPhases ==
    ASSUME IInv, NEW a \in Actor, op[a].pc = "idle", NEW o \in Op, Begins(a, o), Phase(a)'
    PROVE  Phases'
<1>0. PluginOK /\ \A b \in Actor : op[b] \in Op /\ Phase(b)
  BY DEF IInv, PluginOK, Phases
<1> SUFFICES ASSUME NEW b \in Actor, b # a
             PROVE  Phase(b)'
  BY DEF Phases
<1>1. CASE b \in Busy
  <2>1. op'[b] = [op[b] EXCEPT !.crossed = TRUE]
    BY <1>0, <1>1, BeginsOp
  <2>2. op'[b].pc = op[b].pc /\ op'[b].kind = op[b].kind /\ op'[b].old = op[b].old
    BY <1>0, <2>1 DEF Op
  <2>3. op'[b].code = op[b].code /\ op'[b].version = op[b].version
    BY <1>0, <2>1 DEF Op
  <2> QED
    BY <1>0, <2>2, <2>3 DEF Phase
<1>2. CASE b \notin Busy
  <2>1. op'[b] = op[b] \/ op'[b] = IdleOp
    BY <1>0, <1>2, BeginsOp
  <2>2. Phase(b)'
    BY <1>0, <1>2, <2>1 DEF Phase, Busy, IdleOp
  <2> QED
    BY <2>2
<1> QED
  BY <1>1, <1>2

(* A request that begins crosses what is under way, and ends what could be  *)
(* said of the requests before it.                                          *)
LEMMA RequestBegins ==
    ASSUME IInv, NEW a \in Admin \cup Thread, op[a].pc = "idle", NEW o \in Op, Begins(a, o),
           o.pc = "idle" => o.kind # "upgrade",
           a \in Admin => UpgradePhase(a)'
    PROVE  LoneIsAlone' /\ HeartbeatPhase' /\ \A b \in Admin : Claims(b)'
<1> USE UpgradeConstantsOK DEF Actor
<1>0. PluginOK /\ \A b \in Actor : op[b] \in Op
  BY DEF IInv, PluginOK
<1>1. a # Heartbeat
  OBVIOUS
<1>2. /\ op'[a] = [o EXCEPT !.crossed = Crossed]
      /\ \A b \in Busy : op'[b] = [op[b] EXCEPT !.crossed = TRUE]
      /\ \A b \in Actor : b # a /\ b \notin Busy => op'[b] = IdleOp
      /\ Busy' = IF o.pc = "idle" THEN Busy ELSE Busy \cup {a}
  BY <1>0, <1>1, BeginsOp
<1>3. ASSUME NEW b \in Busy
      PROVE  op'[b].crossed
  <2>1. op[b] \in Op
    BY <1>0 DEF Busy
  <2>2. op'[b] = [op[b] EXCEPT !.crossed = TRUE]
    BY <1>2
  <2> QED
    BY <2>1, <2>2 DEF Op
<1>4. \A b \in Actor : b # a => ~Lone(b)'
  BY <1>2, <1>3 DEF Lone, Alone, Busy
<1>5. op'[a].crossed = Crossed /\ op'[a].pc = o.pc /\ op'[a].kind = o.kind
  BY <1>2 DEF Op, Crossed
<1>6. Lone(a)' => Busy' = {a}
  BY <1>2, <1>5 DEF Lone, Alone, Crossed
<1>7. \A b \in Actor : ~Settled(b)'
  <2>1. \A b \in Busy : ~Settled(b)'
    BY <1>3 DEF Settled, Alone
  <2>2. ~Settled(a)'
    BY <1>5 DEF Settled
  <2>3. \A b \in Actor : b # a /\ b \notin Busy => ~Settled(b)'
    BY <1>2 DEF Settled, IdleOp
  <2> QED
    BY <2>1, <2>2, <2>3
<1> QED
  BY <1>1, <1>4, <1>6, <1>7 DEF LoneIsAlone, HeartbeatPhase, Claims, UpgradePhase, AfterUpgrade

(* The heartbeat crosses what is under way too, but speaks for what ended.  *)
LEMMA HeartbeatBegins ==
    ASSUME IInv, op[Heartbeat].pc = "idle", NEW o \in Op, Begins(Heartbeat, o),
           running = None, UNCHANGED <<installed, record, running>>,
           o.kind # "upgrade", HeartbeatPhase'
    PROVE  LoneIsAlone' /\ \A b \in Admin : Claims(b)'
<1> USE UpgradeConstantsOK DEF Actor
<1>0. PluginOK /\ \A b \in Actor : op[b] \in Op
  BY DEF IInv, PluginOK
<1>2. /\ op'[Heartbeat] = [o EXCEPT !.crossed = Crossed]
      /\ \A b \in Busy : op'[b] = [op[b] EXCEPT !.crossed = TRUE]
      /\ \A b \in Actor : b # Heartbeat /\ b \notin Busy => op'[b] = op[b]
      /\ Busy' = IF o.pc = "idle" THEN Busy ELSE Busy \cup {Heartbeat}
  BY <1>0, BeginsOp
<1>3. ASSUME NEW b \in Busy
      PROVE  op'[b].crossed
  <2>1. op[b] \in Op
    BY <1>0 DEF Busy
  <2>2. op'[b] = [op[b] EXCEPT !.crossed = TRUE]
    BY <1>2
  <2> QED
    BY <2>1, <2>2 DEF Op
<1>4. \A b \in Actor : b # Heartbeat => ~Lone(b)'
  BY <1>2, <1>3 DEF Lone, Alone, Busy
<1>5. op'[Heartbeat].crossed = (Busy # {}) /\ op'[Heartbeat].pc = o.pc
  BY <1>2 DEF Op, Crossed
<1>6. Lone(Heartbeat)' => Busy' = {Heartbeat}
  BY <1>2, <1>5 DEF Lone, Alone
<1>7. ASSUME NEW b \in Admin
      PROVE  Claims(b)'
  <2>1. b # Heartbeat /\ b \in Actor
    OBVIOUS
  <2>2. ASSUME Settled(b)'
        PROVE  Quiet' /\ Outcome(b)'
    <3>1. b \notin Busy
      BY <1>3, <2>2 DEF Settled, Alone
    <3>2. op'[b] = op[b]
      BY <1>2, <2>1, <3>1
    <3>3. Quiet /\ Outcome(b)
      BY <2>2, <3>2 DEF IInv, Claims, AfterUpgrade, Settled, Alone
    <3>4. Busy = {}
      BY <3>3 DEF Quiet, Busy
    <3>5. Quiet'
      BY <1>2, <1>5, <3>4 DEF Quiet, Alone
    <3> QED
      BY <3>2, <3>3, <3>5 DEF Outcome
  <2> QED
    BY <1>4, <2>1, <2>2 DEF Claims, UpgradePhase, AfterUpgrade
<1> QED
  BY <1>4, <1>6, <1>7 DEF LoneIsAlone

(* The invariant in two parts: the plugin's state, and the operations.      *)
StateTyped ==
    /\ installed \in Maybe
    /\ aside \subseteq Version
    /\ record \in Record
    /\ running \in [code : Version, config : Maybe] \cup {None}
Operations ==
    /\ op \in [Actor -> Op] /\ Phases /\ LoneIsAlone /\ HeartbeatPhase
    /\ \A a \in Admin : Claims(a)

LEMMA Parts == (IInv => StateTyped /\ Operations) /\ (StateTyped' /\ Operations' => IInv')
BY DEF IInv, PluginOK, StateTyped, Operations

(* A request that ends: what is left to show is the outcome of an upgrade   *)
(* that was alone.                                                          *)
LEMMA RequestEnds ==
    ASSUME IInv, NEW a \in Admin \cup Thread, a \in Busy, NEW outcome \in Outcomes,
           Returns(a, outcome),
           Lone(a) /\ op[a].kind = "upgrade" /\ op'[a] = Rest(op[a], outcome) => Outcome(a)'
    PROVE  Operations'
<1> USE DEF Actor
<1>0. PluginOK /\ op[a] \in Op
  BY DEF IInv, PluginOK
<1> DEFINE n == Rest(op[a], outcome)
<1>1. n \in Op
  BY <1>0, RestOf
<1>2. op' = [op EXCEPT ![a] = n]
  BY DEF Returns
<1> HIDE DEF n
<1>3. op' \in [Actor -> Op] /\ op'[a] = n
  BY <1>0, <1>1, <1>2, OpSet
<1>4. n.pc = "idle" /\ (n.kind = "upgrade" => op[a].kind = "upgrade")
      /\ n.kind \in {"none", "upgrade"} /\ (n.kind = "upgrade" => n.crossed = op[a].crossed)
  BY <1>0, RestOf DEF n
<1>5. a # Heartbeat
  BY UpgradeConstantsOK
<1>6. Phase(a)'
  BY <1>3, <1>4, <1>5 DEF Phase
<1>7. Phases'
  BY <1>1, <1>2, <1>6, OtherPhases
<1>8. UpgradePhase(a)'
  BY <1>3, <1>4 DEF UpgradePhase, Lone, Busy
<1>9. Settled(a)' => Outcome(a)'
  BY <1>3, <1>4 DEF Settled, Lone, Alone, n
<1> QED
  BY <1>1, <1>2, <1>3, <1>4, <1>7, <1>8, <1>9, Turn DEF Operations

(* The heartbeat ends.                                                      *)
LEMMA HeartbeatEnds ==
    ASSUME IInv, Heartbeat \in Busy, NEW outcome \in Outcomes, Returns(Heartbeat, outcome),
           \A b \in Admin : Settled(b) /\ Lone(Heartbeat) /\ op'[b] = op[b] => Outcome(b)'
    PROVE  Operations'
<1> USE UpgradeConstantsOK DEF Actor
<1>0. PluginOK /\ op[Heartbeat] \in Op /\ Phase(Heartbeat)
  BY DEF IInv, PluginOK, Phases
<1> DEFINE n == Rest(op[Heartbeat], outcome)
<1>1. n \in Op
  BY <1>0, RestOf
<1>2. op' = [op EXCEPT ![Heartbeat] = n]
  BY DEF Returns
<1> HIDE DEF n
<1>3. op' \in [Actor -> Op] /\ op'[Heartbeat] = n /\ \A b \in Admin : op'[b] = op[b]
  BY <1>0, <1>1, <1>2, OpSet
<1>4. n.pc = "idle" /\ n.kind = "none"
  BY <1>0, RestOf DEF n, Phase
<1>5. Phase(Heartbeat)'
  BY <1>3, <1>4 DEF Phase
<1>6. Phases'
  BY <1>1, <1>2, <1>5, OtherPhases
<1>7. HeartbeatPhase'
  BY <1>3, <1>4 DEF HeartbeatPhase, Lone, Busy
<1> QED
  BY <1>1, <1>2, <1>3, <1>4, <1>6, <1>7, HeartbeatTurn DEF Operations

(***************************************************************************)
(* Requests that begin.                                                     *)
(***************************************************************************)

(* A request of another kind than upgrade.                                  *)
LEMMA OtherRequest ==
    ASSUME IInv, NEW a \in Admin \cup Thread, op[a].pc = "idle", NEW o \in Op, Begins(a, o),
           o.kind # "upgrade",
           o.pc = "recording" => o.kind = "install",
           o.pc = "editing" => o.kind = "configure",
           o.pc = "launching" => o.kind = "enable",
           o.pc = "idle" => o.kind = "none",
           o.pc \notin {"stopping", "swapping", "migrating", "starting"}
    PROVE  Operations'
<1> USE UpgradeConstantsOK DEF Actor
<1>0. PluginOK
  BY DEF IInv
<1>1. op' \in [Actor -> Op] /\ op'[a] = [o EXCEPT !.crossed = Crossed]
  BY <1>0, BeginsOp
<1>2. op'[a].pc = o.pc /\ op'[a].kind = o.kind
  BY <1>1 DEF Op
<1>3. Phase(a)'
  BY <1>2 DEF Phase
<1>4. Phases'
  BY <1>3, BeginsPhases
<1>5. UpgradePhase(a)'
  BY <1>2 DEF UpgradePhase
<1> QED
  BY <1>1, <1>4, <1>5, RequestBegins DEF Operations

LEMMA InstallStep ==
    ASSUME IInv, NEW t \in Thread, NEW v \in Version, Install(t, v)
    PROVE  IInv'
<1> DEFINE o == [IdleOp EXCEPT !.kind = "install", !.pc = "recording", !.version = v]
<1>1. o \in Op /\ o.kind = "install" /\ o.pc = "recording"
  BY DEF IdleOp, Op, Maybe, Record, NoRecord
<1>2. op[t].pc = "idle" /\ Begins(t, o)
  BY DEF Install
<1> HIDE DEF o
<1>3. Operations'
  BY <1>1, <1>2, OtherRequest
<1>4. StateTyped'
  BY Parts DEF Install, StateTyped, Maybe
<1> QED
  BY <1>3, <1>4, Parts

LEMMA BeginConfigureStep ==
    ASSUME IInv, NEW t \in Thread, BeginConfigure(t)
    PROVE  IInv'
<1>0. StateTyped
  BY Parts
<1> DEFINE r == [record EXCEPT !.config = installed]
           o == [IdleOp EXCEPT !.kind = "configure", !.pc = "editing", !.record = r]
<1>1. r \in Record
  BY <1>0, Configuring DEF StateTyped
<1>2. op[t].pc = "idle" /\ Begins(t, o)
  BY DEF BeginConfigure
<1> HIDE DEF r
<1>3. o \in Op /\ o.kind = "configure" /\ o.pc = "editing"
  BY <1>1, EmptyOps DEF IdleOp, Op
<1> HIDE DEF o
<1>4. Operations'
  BY <1>2, <1>3, OtherRequest
<1>5. StateTyped'
  BY <1>0 DEF BeginConfigure, StateTyped
<1> QED
  BY <1>4, <1>5, Parts

LEMMA BeginStopStep ==
    ASSUME IInv, NEW a \in Admin, NEW kind \in {"disable", "uninstall"},
           NEW pc \in {"disabling", "removing"}, BeginStop(a, kind, pc)
    PROVE  IInv'
<1> DEFINE o == [IdleOp EXCEPT !.kind = kind, !.pc = pc]
<1>1. o \in Op /\ o.kind = kind /\ o.pc = pc
  BY EmptyOps DEF IdleOp, Op
<1>2. op[a].pc = "idle" /\ Begins(a, o)
  BY DEF BeginStop
<1> HIDE DEF o
<1>3. Operations'
  BY <1>1, <1>2, OtherRequest
<1>4. StateTyped'
  BY Parts DEF BeginStop, StateTyped
<1> QED
  BY <1>3, <1>4, Parts

(* What enable begins with: it ends at once, or launches what is recorded.  *)
LEMMA EnableOps ==
    ASSUME StateTyped
    PROVE  LET launch == [IdleOp EXCEPT !.kind = "enable", !.pc = "launching",
                                        !.record = record]
           IN  /\ \A outcome \in Outcomes :
                     /\ [IdleOp EXCEPT !.outcome = outcome] \in Op
                     /\ [IdleOp EXCEPT !.outcome = outcome].kind = "none"
                     /\ [IdleOp EXCEPT !.outcome = outcome].pc = "idle"
               /\ launch \in Op /\ launch.kind = "enable" /\ launch.pc = "launching"
               /\ launch.record = record
<1>1. record \in Record
  BY DEF StateTyped
<1>2. ASSUME NEW outcome \in Outcomes
      PROVE  /\ [IdleOp EXCEPT !.outcome = outcome] \in Op
             /\ [IdleOp EXCEPT !.outcome = outcome].kind = "none"
             /\ [IdleOp EXCEPT !.outcome = outcome].pc = "idle"
  BY EmptyOps DEF Outcomes, IdleOp, Op
<1>3. LET launch == [IdleOp EXCEPT !.kind = "enable", !.pc = "launching", !.record = record]
      IN  launch \in Op /\ launch.kind = "enable" /\ launch.pc = "launching"
          /\ launch.record = record
  BY <1>1, EmptyOps DEF IdleOp, Op
<1> QED
  BY <1>2, <1>3

LEMMA BeginEnableStep ==
    ASSUME IInv, NEW a \in Admin, BeginEnable(a)
    PROVE  IInv'
<1>0. StateTyped
  BY Parts
<1> DEFINE launch == [IdleOp EXCEPT !.kind = "enable", !.pc = "launching", !.record = record]
           over(outcome) == [IdleOp EXCEPT !.outcome = outcome]
<1>1. \A outcome \in Outcomes :
         over(outcome) \in Op /\ over(outcome).kind = "none" /\ over(outcome).pc = "idle"
  BY <1>0, EnableOps
<1>2. launch \in Op /\ launch.kind = "enable" /\ launch.pc = "launching"
  BY <1>0, EnableOps
<1>3. /\ op[a].pc = "idle" /\ UNCHANGED <<installed, aside, running>>
      /\ record' = record \/ record' = [record EXCEPT !.enabled = TRUE]
      /\ \/ Begins(a, over("done"))
         \/ Begins(a, launch)
         \/ Begins(a, over("failed"))
  BY DEF BeginEnable
<1> HIDE DEF launch, over
<1>4. ASSUME Begins(a, launch)
      PROVE  Operations'
  BY <1>2, <1>3, <1>4, OtherRequest
<1>5. ASSUME NEW outcome \in {"done", "failed"}, Begins(a, over(outcome))
      PROVE  Operations'
  BY <1>1, <1>3, <1>5, OtherRequest DEF Outcomes
<1>6. Operations'
  BY <1>3, <1>4, <1>5
<1>7. record' \in Record
  <2>1. record \in Record
    BY <1>0 DEF StateTyped
  <2>2. [record EXCEPT !.enabled = TRUE] \in Record
    BY <2>1, Enabling
  <2> QED
    BY <1>3, <2>1, <2>2
<1>8. StateTyped'
  BY <1>0, <1>3, <1>7 DEF StateTyped
<1> QED
  BY <1>6, <1>8, Parts

LEMMA HeartbeatEnablesStep ==
    ASSUME IInv, HeartbeatEnables
    PROVE  IInv'
<1>0. StateTyped /\ PluginOK
  BY Parts DEF IInv
<1> USE UpgradeConstantsOK DEF Actor
<1> DEFINE launch == [IdleOp EXCEPT !.kind = "enable", !.pc = "launching", !.record = record]
           failed == [IdleOp EXCEPT !.outcome = "failed"]
<1>1. failed \in Op /\ failed.kind = "none" /\ failed.pc = "idle"
  BY <1>0, EnableOps DEF Outcomes
<1>2. /\ launch \in Op /\ launch.kind = "enable" /\ launch.pc = "launching"
      /\ launch.record = record
  BY <1>0, EnableOps
<1>3. /\ op[Heartbeat].pc = "idle" /\ UNCHANGED <<installed, aside, record, running>>
      /\ running = None /\ record.enabled
      /\ Begins(Heartbeat, launch) \/ Begins(Heartbeat, failed)
  BY DEF HeartbeatEnables, BeginEnable
<1> HIDE DEF launch, failed
<1>4. ASSUME NEW o \in {launch, failed}, Begins(Heartbeat, o)
      PROVE  Operations'
  <2>1. o \in Op /\ (\/ o.pc = "launching" /\ o.kind = "enable" /\ o.record = record
                     \/ o.pc = "idle" /\ o.kind = "none")
    <3>1. CASE o = launch
      BY <1>2, <3>1
    <3>2. CASE o = failed
      BY <1>1, <3>2
    <3> QED
      BY <3>1, <3>2
  <2>2. op' \in [Actor -> Op] /\ op'[Heartbeat] = [o EXCEPT !.crossed = Crossed]
    BY <1>0, <1>3, <1>4, <2>1, BeginsOp
  <2>3. /\ op'[Heartbeat].pc = o.pc /\ op'[Heartbeat].kind = o.kind
        /\ op'[Heartbeat].record = o.record
    BY <2>1, <2>2 DEF Op
  <2>4. Phase(Heartbeat)'
    BY <2>1, <2>3 DEF Phase
  <2>5. Phases'
    BY <1>3, <1>4, <2>1, <2>4, BeginsPhases
  <2>6. HeartbeatPhase'
    BY <1>3, <2>1, <2>3 DEF HeartbeatPhase, Lone, Busy, Holds
  <2> QED
    BY <1>3, <1>4, <2>1, <2>2, <2>5, <2>6, HeartbeatBegins DEF Operations
<1>5. StateTyped'
  BY <1>0, <1>3 DEF StateTyped
<1> QED
  BY <1>3, <1>4, <1>5, Parts

LEMMA BeginUpgradeStep ==
    ASSUME IInv, NEW a \in Admin, NEW v \in Version, BeginUpgrade(a, v)
    PROVE  IInv'
<1> USE UpgradeConstantsOK DEF Actor
<1>0. StateTyped /\ PluginOK
  BY Parts DEF IInv
<1> DEFINE o(pc) == [UpgradeOp(v) EXCEPT !.pc = pc]
<1>1. ASSUME NEW pc \in {"stopping", "swapping"}
      PROVE  /\ o(pc) \in Op /\ o(pc).pc = pc /\ o(pc).kind = "upgrade"
             /\ o(pc).old = installed /\ o(pc).before = record /\ o(pc).version = v
  BY <1>0, EmptyOps DEF StateTyped, UpgradeOp, IdleOp, Op, Maybe
<1>2. /\ op[a].pc = "idle" /\ installed # None /\ UNCHANGED record
      /\ \/ /\ record.enabled /\ Begins(a, o("stopping"))
            /\ running' = None /\ UNCHANGED <<installed, aside>>
         \/ /\ ~(record.enabled /\ running # None) /\ Begins(a, o("swapping"))
            /\ installed' = None /\ aside' = aside \cup {installed} /\ UNCHANGED running
  BY DEF BeginUpgrade
<1> HIDE DEF o
<1>3. ASSUME NEW pc \in {"stopping", "swapping"}, Begins(a, o(pc)),
             ~Crossed =>
               /\ running' = None /\ record' = record
               /\ installed' = IF pc = "stopping" THEN installed ELSE None
      PROVE  Operations'
  <2>1. op' \in [Actor -> Op] /\ op'[a] = [o(pc) EXCEPT !.crossed = Crossed]
    BY <1>0, <1>1, <1>2, <1>3, BeginsOp
  <2>2. /\ op'[a].pc = pc /\ op'[a].kind = "upgrade"
        /\ op'[a].old = installed /\ op'[a].before = record /\ op'[a].crossed = Crossed
        /\ op'[a].version = v
    BY <1>1, <2>1 DEF Op, Crossed
  <2>3. installed \in Version
    BY <1>0, <1>2 DEF StateTyped, Maybe
  <2>4. Phase(a)'
    BY <2>2, <2>3 DEF Phase
  <2>5. Phases'
    BY <1>1, <1>2, <1>3, <2>4, BeginsPhases
  <2>6. UpgradePhase(a)'
    BY <1>3, <2>2 DEF UpgradePhase, Lone, Alone, Holds
  <2> QED
    BY <1>1, <1>2, <1>3, <2>1, <2>5, <2>6, RequestBegins DEF Operations
<1>4. Operations'
  BY <1>2, <1>3 DEF Crossed
<1>5. StateTyped'
  BY <1>0, <1>2 DEF StateTyped, Maybe
<1> QED
  BY <1>4, <1>5, Parts

(***************************************************************************)
(* Operations that go on.                                                   *)
(***************************************************************************)

(* What is known of an operation's record.                                  *)
LEMMA Fields ==
    ASSUME IInv, NEW a \in Actor
    PROVE  /\ op[a] \in Op /\ Phase(a)
           /\ op[a].version \in Maybe /\ op[a].old \in Maybe /\ op[a].code \in Maybe
           /\ op[a].before \in Record /\ op[a].record \in Record
<1>1. op[a] \in Op /\ Phase(a)
  BY DEF IInv, PluginOK, Phases
<1> QED
  BY <1>1 DEF Op

(* A request goes on to another phase.                                      *)
LEMMA RequestGoes ==
    ASSUME IInv, NEW a \in Admin, a \in Busy, NEW n \in Op, op' = [op EXCEPT ![a] = n],
           n.pc # "idle", n.crossed = op[a].crossed, Phase(a)', UpgradePhase(a)'
    PROVE  Operations'
<1> USE DEF Actor
<1>1. op' \in [Actor -> Op] /\ op'[a] = n
  BY OpSet DEF IInv
<1>2. Phases'
  BY OtherPhases
<1>3. ~Settled(a)'
  BY <1>1 DEF Settled
<1> QED
  BY <1>1, <1>2, <1>3, Turn DEF Operations

LEMMA RecordInstallStep ==
    ASSUME IInv, NEW t \in Thread, RecordInstall(t)
    PROVE  IInv'
<1> USE DEF Actor
<1>1. t \in Busy /\ op[t].kind # "upgrade"
  BY Fields DEF RecordInstall, Busy, Phase
<1>2. Operations'
  BY <1>1, RequestEnds DEF RecordInstall, Outcomes
<1>3. op[t].version \in Maybe
  BY Fields
<1>4. StateTyped'
  BY <1>3, Parts DEF RecordInstall, StateTyped, Record
<1> QED
  BY <1>2, <1>4, Parts

LEMMA FinishConfigureStep ==
    ASSUME IInv, NEW t \in Thread, FinishConfigure(t)
    PROVE  IInv'
<1> USE DEF Actor
<1>1. t \in Busy /\ op[t].kind # "upgrade"
  BY Fields DEF FinishConfigure, Busy, Phase
<1>2. Operations'
  BY <1>1, RequestEnds DEF FinishConfigure, Outcomes
<1>3. op[t].record \in Record
  BY Fields
<1>4. StateTyped'
  BY <1>3, Parts DEF FinishConfigure, StateTyped
<1> QED
  BY <1>2, <1>4, Parts

(* The child loads what is installed.                                       *)
LEMMA LaunchOp ==
    ASSUME IInv, NEW a \in Actor, Launch(a)
    PROVE  /\ StateTyped' /\ a \in Busy /\ installed \in Version
           /\ \E n \in Op : /\ op' = [op EXCEPT ![a] = n]
                           /\ n.pc = "starting" /\ n.code = installed
                           /\ n.kind = op[a].kind /\ n.crossed = op[a].crossed
                           /\ n.version = op[a].version /\ n.before = op[a].before
                           /\ n.record = op[a].record
<1> DEFINE n == [op[a] EXCEPT !.pc = "starting", !.code = installed]
<1>1. installed \in Version
  BY Parts DEF Launch, StateTyped, Maybe
<1>2. op[a] \in Op
  BY Fields
<1>3. n \in Op
  BY <1>1, <1>2 DEF Op, Maybe
<1>4. /\ n.pc = "starting" /\ n.code = installed
      /\ n.kind = op[a].kind /\ n.crossed = op[a].crossed
      /\ n.version = op[a].version /\ n.before = op[a].before /\ n.record = op[a].record
  BY <1>2 DEF Op
<1>5. op' = [op EXCEPT ![a] = n]
  BY DEF Launch
<1>6. StateTyped' /\ a \in Busy
  BY Parts DEF Launch, StateTyped, Busy
<1> QED
  BY <1>1, <1>3, <1>4, <1>5, <1>6

LEMMA LaunchStep ==
    ASSUME IInv, NEW a \in Admin, Launch(a)
    PROVE  IInv'
<1> USE UpgradeConstantsOK DEF Actor
<1>1. PICK n \in Op : /\ op' = [op EXCEPT ![a] = n]
                      /\ n.pc = "starting" /\ n.code = installed
                      /\ n.kind = op[a].kind /\ n.crossed = op[a].crossed
                      /\ n.version = op[a].version /\ n.before = op[a].before
                      /\ n.record = op[a].record
  BY LaunchOp
<1>2. StateTyped' /\ a \in Busy /\ installed \in Version
  BY LaunchOp
<1>3. op'[a] = n
  BY <1>1, OpSet DEF IInv
<1>4. op[a].pc = "launching" /\ UNCHANGED <<installed, record, running>>
  BY DEF Launch
<1>5. Phase(a)'
  BY <1>1, <1>2, <1>3, <1>4, Fields DEF Phase
<1>6. UpgradePhase(a)'
  <2>1. SUFFICES ASSUME Lone(a)', op'[a].kind = "upgrade"
                 PROVE  /\ n.before.enabled /\ n.code = n.version
                        /\ n.record = [n.before EXCEPT !.config = n.version]
                        /\ Holds(n.record, n.version)'
    BY <1>1, <1>3 DEF UpgradePhase, Holds
  <2>2. Lone(a) /\ op[a].kind = "upgrade" /\ UpgradePhase(a)
    BY <1>1, <1>2, <1>3, <2>1 DEF IInv, Claims, Lone, Alone
  <2> QED
    BY <1>1, <1>4, <2>2 DEF UpgradePhase, Holds
<1>7. Operations'
  BY <1>1, <1>2, <1>5, <1>6, RequestGoes
<1> QED
  BY <1>2, <1>7, Parts

LEMMA HeartbeatLaunchStep ==
    ASSUME IInv, Launch(Heartbeat)
    PROVE  IInv'
<1> USE UpgradeConstantsOK DEF Actor
<1>1. PICK n \in Op : /\ op' = [op EXCEPT ![Heartbeat] = n]
                      /\ n.pc = "starting" /\ n.code = installed
                      /\ n.kind = op[Heartbeat].kind /\ n.crossed = op[Heartbeat].crossed
                      /\ n.record = op[Heartbeat].record
  BY LaunchOp
<1>2. StateTyped' /\ Heartbeat \in Busy /\ installed \in Version
  BY LaunchOp
<1>3. /\ op' \in [Actor -> Op] /\ op'[Heartbeat] = n
      /\ \A b \in Actor : b # Heartbeat => op'[b] = op[b]
  BY <1>1, OpSet DEF IInv
<1>4. op[Heartbeat].pc = "launching" /\ UNCHANGED <<installed, record, running>>
  BY DEF Launch
<1>5. Phase(Heartbeat)'
  BY <1>1, <1>2, <1>3, <1>4, Fields DEF Phase
<1>6. Phases'
  BY <1>1, <1>5, OtherPhases
<1>7. HeartbeatPhase'
  BY <1>1, <1>2, <1>3, <1>4 DEF IInv, HeartbeatPhase, Lone, Alone, Holds, Busy
<1>8. ASSUME NEW b \in Admin, Settled(b)
      PROVE  Outcome(b)'
  <2>1. Outcome(b) /\ op'[b] = op[b]
    BY <1>3, <1>8 DEF IInv, Claims, AfterUpgrade
  <2> QED
    BY <1>4, <2>1 DEF Outcome
<1>9. LoneIsAlone' /\ \A b \in Admin : Claims(b)'
  BY <1>1, <1>2, <1>7, <1>8, HeartbeatTurn
<1> QED
  BY <1>2, <1>3, <1>6, <1>7, <1>9, Parts DEF Operations

(***************************************************************************)
(* Operations that end.                                                     *)
(***************************************************************************)

(* An upgrade that has ended remembers what it began with.                  *)
LEMMA Ending ==
    ASSUME IInv, NEW a \in Actor, NEW outcome \in Outcomes,
           op[a].kind = "upgrade", op'[a] = Rest(op[a], outcome)
    PROVE  /\ op'[a].outcome = outcome /\ op'[a].version = op[a].version
           /\ op'[a].old = op[a].old /\ op'[a].before = op[a].before
BY Fields, RestOf

LEMMA StartSucceedsTyped ==
    ASSUME IInv, NEW a \in Actor, StartSucceeds(a)
    PROVE  StateTyped' /\ a \in Busy
<1>1. op[a].record \in Record /\ op[a].code \in Version /\ op[a].record.config \in Maybe
  BY Fields DEF StartSucceeds, Phase, Record
<1>2. [op[a].record EXCEPT !.enabled = TRUE] \in Record
  BY <1>1, Enabling
<1> QED
  BY <1>1, <1>2, Parts DEF StartSucceeds, StateTyped, Busy

LEMMA StartSucceedsStep ==
    ASSUME IInv, NEW a \in Admin, StartSucceeds(a)
    PROVE  IInv'
<1> USE DEF Actor
<1>1. StateTyped' /\ a \in Busy
  BY StartSucceedsTyped
<1>2. ASSUME Lone(a), op[a].kind = "upgrade", op'[a] = Rest(op[a], "done")
      PROVE  Outcome(a)'
  <2> DEFINE b == op[a].before
             v == op[a].version
             r == op[a].record
  <2>1. b \in Record /\ v \in Maybe /\ r \in Record
    BY Fields
  <2>2. b.enabled /\ r = [b EXCEPT !.config = v] /\ installed = v /\ op[a].code = v
    BY <1>2 DEF IInv, Claims, UpgradePhase, Holds, StartSucceeds
  <2>3. r.enabled /\ r.config = v
    BY <2>1, <2>2, Configuring
  <2>4. [r EXCEPT !.enabled = TRUE] = r
    BY <2>1, <2>3, Enabling
  <2>5. record' = r /\ installed' = v /\ running' = [code |-> v, config |-> v]
    BY <2>2, <2>3, <2>4 DEF StartSucceeds
  <2>6. op'[a].outcome = "done" /\ op'[a].version = v /\ op'[a].before = b
    BY <1>2, Ending DEF Outcomes
  <2> QED
    BY <2>2, <2>5, <2>6 DEF Outcome
<1>3. Operations'
  BY <1>1, <1>2, RequestEnds DEF StartSucceeds, Outcomes
<1> QED
  BY <1>1, <1>3, Parts

LEMMA HeartbeatStartSucceedsStep ==
    ASSUME IInv, StartSucceeds(Heartbeat)
    PROVE  IInv'
<1> USE DEF Actor
<1>1. StateTyped' /\ Heartbeat \in Busy
  BY StartSucceedsTyped
<1>2. ASSUME NEW b \in Admin, Settled(b), Lone(Heartbeat), op'[b] = op[b]
      PROVE  Outcome(b)'
  <2> DEFINE r == op[Heartbeat].record
  <2>1. op[b].before \in Record /\ op[b].version \in Maybe /\ r \in Record
    BY Fields
  <2>2. r.enabled /\ record = r /\ op[Heartbeat].code = installed
    BY <1>2 DEF IInv, HeartbeatPhase, Holds, StartSucceeds
  <2>3. [r EXCEPT !.enabled = TRUE] = r
    BY <2>1, <2>2, Enabling
  <2>4. /\ record' = record /\ installed' = installed
        /\ running' = [code |-> installed, config |-> record.config]
    BY <2>2, <2>3 DEF StartSucceeds
  <2>5. Outcome(b)
    BY <1>2 DEF IInv, Claims, AfterUpgrade
  <2>6. op[b].outcome # "unmigrated"
    <3>1. ~[op[b].before EXCEPT !.enabled = FALSE].enabled
      BY <2>1, Enabling
    <3> QED
      BY <2>2, <2>5, <3>1 DEF Outcome
  <2>7. op[b].outcome = "done" => record.config = op[b].version
    BY <2>1, <2>5, Configuring DEF Outcome
  <2> QED
    BY <1>2, <2>4, <2>5, <2>6, <2>7 DEF Outcome
<1>3. Operations'
  BY <1>1, <1>2, HeartbeatEnds DEF StartSucceeds, Outcomes
<1> QED
  BY <1>1, <1>3, Parts

LEMMA StartFailsStep ==
    ASSUME IInv, NEW a \in Admin, StartFails(a)
    PROVE  IInv'
<1> USE DEF Actor
<1> DEFINE outcome == IF op[a].kind = "upgrade" THEN "unmigrated" ELSE "failed"
<1>0. StateTyped
  BY Parts
<1>1. a \in Busy /\ Returns(a, outcome) /\ outcome \in Outcomes
  BY DEF StartFails, EnableRaises, Returns, Outcomes, Busy
<1>2. record' = IF op[a].kind = "upgrade" THEN [op[a].before EXCEPT !.enabled = FALSE]
                ELSE record
  BY DEF StartFails, EnableRaises
<1>3. record' \in Record
  BY <1>0, <1>2, Fields, Enabling DEF StateTyped
<1>4. StateTyped'
  BY <1>0, <1>3 DEF StartFails, StateTyped
<1>5. ASSUME Lone(a), op[a].kind = "upgrade", op'[a] = Rest(op[a], outcome)
      PROVE  Outcome(a)'
  <2>1. running = None
    BY <1>5 DEF IInv, Claims, UpgradePhase, Holds, StartFails
  <2>2. op'[a].outcome = "unmigrated" /\ op'[a].before = op[a].before
    BY <1>1, <1>5, Ending
  <2> QED
    BY <1>2, <1>5, <2>1, <2>2 DEF Outcome, StartFails
<1>6. Operations'
  BY <1>1, <1>5, RequestEnds
<1> QED
  BY <1>4, <1>6, Parts

LEMMA HeartbeatStartFailsStep ==
    ASSUME IInv, StartFails(Heartbeat)
    PROVE  IInv'
<1> USE DEF Actor
<1>1. Heartbeat \in Busy /\ op[Heartbeat].kind # "upgrade"
  BY Fields DEF StartFails, Busy, Phase
<1>2. Returns(Heartbeat, "failed") /\ UNCHANGED <<installed, aside, record, running>>
  BY <1>1 DEF StartFails, EnableRaises, Returns
<1>3. ASSUME NEW b \in Admin, Settled(b), op'[b] = op[b]
      PROVE  Outcome(b)'
  BY <1>2, <1>3 DEF IInv, Claims, AfterUpgrade, Outcome
<1>4. Operations'
  BY <1>1, <1>2, <1>3, HeartbeatEnds DEF Outcomes
<1>5. StateTyped'
  BY <1>2, Parts DEF StateTyped
<1> QED
  BY <1>4, <1>5, Parts

(***************************************************************************)
(* The steps of an upgrade.                                                 *)
(***************************************************************************)

(* They are not the heartbeat's.                                            *)
LEMMA Upgrading ==
    ASSUME IInv, NEW a \in Admin, op[a].pc \in {"stopping", "swapping", "migrating"}
    PROVE  /\ StateTyped /\ a \in Busy /\ a \in Actor /\ op[a].kind = "upgrade"
           /\ Lone(a) => UpgradePhase(a)
<1> USE DEF Actor
<1>1. Phase(a)
  BY Fields
<1> QED
  BY <1>1, Parts DEF IInv, Claims, Phase, Busy

LEMMA SetAsideStep ==
    ASSUME IInv, NEW a \in Admin, SetAside(a)
    PROVE  IInv'
<1>0. /\ StateTyped /\ a \in Busy /\ a \in Actor /\ op[a].kind = "upgrade"
      /\ Lone(a) => Holds(op[a].before, op[a].old)
  BY Upgrading DEF SetAside, UpgradePhase
<1>1. CASE installed # None /\ installed' = None
  <2> DEFINE n == [op[a] EXCEPT !.pc = "swapping", !.old = installed]
  <2>1. installed \in Version /\ op[a] \in Op /\ op[a].version \in Version
    BY <1>0, <1>1, Fields DEF StateTyped, Maybe, SetAside, Phase
  <2>2. /\ n \in Op /\ n.pc = "swapping" /\ n.old = installed
        /\ n.kind = op[a].kind /\ n.crossed = op[a].crossed /\ n.before = op[a].before
        /\ n.version = op[a].version
    BY <2>1 DEF Op, Maybe
  <2>3. op' = [op EXCEPT ![a] = n] /\ UNCHANGED <<record, running>>
        /\ aside' = aside \cup {installed}
    BY <1>1, <2>1, UpgradeConstantsOK DEF SetAside
  <2> HIDE DEF n
  <2>4. op'[a] = n
    BY <1>0, <2>2, <2>3, OpSet DEF IInv
  <2>5. Phase(a)'
    BY <1>0, <2>1, <2>2, <2>4, UpgradeConstantsOK DEF Phase
  <2>6. UpgradePhase(a)'
    BY <1>0, <1>1, <2>2, <2>3, <2>4 DEF UpgradePhase, Lone, Alone, Holds
  <2>7. Operations'
    BY <1>0, <2>2, <2>3, <2>5, <2>6, RequestGoes
  <2>8. StateTyped'
    BY <1>0, <1>1, <2>1, <2>3 DEF StateTyped, Maybe
  <2> QED
    BY <2>7, <2>8, Parts
<1>2. CASE Returns(a, "kept") /\ UNCHANGED <<installed, aside>>
  <2>1. ASSUME Lone(a), op'[a] = Rest(op[a], "kept")
        PROVE  Outcome(a)'
    <3>1. /\ op'[a].outcome = "kept" /\ op'[a].old = op[a].old
          /\ op'[a].before = op[a].before
      BY <1>0, <2>1, Ending DEF Outcomes
    <3> QED
      BY <1>0, <1>2, <2>1, <3>1 DEF Outcome, Holds, SetAside
  <2>2. Operations'
    BY <1>0, <1>2, <2>1, RequestEnds DEF Outcomes
  <2>3. StateTyped'
    BY <1>0, <1>2 DEF StateTyped, SetAside
  <2> QED
    BY <2>2, <2>3, Parts
<1> QED
  BY <1>1, <1>2 DEF SetAside

LEMMA SwapFailsStep ==
    ASSUME IInv, NEW a \in Admin, SwapFails(a)
    PROVE  IInv'
<1>0. /\ StateTyped /\ a \in Busy /\ a \in Actor /\ op[a].kind = "upgrade"
      /\ Lone(a) => Holds(op[a].before, None)
  BY Upgrading DEF SwapFails, UpgradePhase
<1>1. ASSUME Lone(a), op'[a] = Rest(op[a], "kept")
      PROVE  Outcome(a)'
  <2>1. /\ op'[a].outcome = "kept" /\ op'[a].old = op[a].old
        /\ op'[a].before = op[a].before
    BY <1>0, <1>1, Ending DEF Outcomes
  <2> QED
    BY <1>0, <1>1, <2>1 DEF Outcome, Holds, SwapFails
<1>2. Operations'
  BY <1>0, <1>1, RequestEnds DEF SwapFails, Outcomes
<1>3. op[a].old \in Maybe
  BY <1>0, Fields
<1>4. StateTyped'
  BY <1>0, <1>3 DEF StateTyped, SwapFails
<1> QED
  BY <1>2, <1>4, Parts

LEMMA SwapBackFailsStep ==
    ASSUME IInv, NEW a \in Admin, SwapBackFails(a)
    PROVE  IInv'
<1>0. /\ StateTyped /\ a \in Busy /\ a \in Actor /\ op[a].kind = "upgrade"
  BY Upgrading DEF SwapBackFails
<1>1. ASSUME op'[a] = Rest(op[a], "failed")
      PROVE  Outcome(a)'
  BY <1>0, <1>1, Ending DEF Outcomes, Outcome
<1>2. Operations'
  BY <1>0, <1>1, RequestEnds DEF SwapBackFails, Outcomes
<1>3. StateTyped'
  BY <1>0 DEF StateTyped, SwapBackFails
<1> QED
  BY <1>2, <1>3, Parts

LEMMA SwapStep ==
    ASSUME IInv, NEW a \in Admin, Swap(a)
    PROVE  IInv'
<1>0. /\ StateTyped /\ a \in Busy /\ a \in Actor /\ op[a].kind = "upgrade"
      /\ Lone(a) => Holds(op[a].before, None)
  BY Upgrading DEF Swap, UpgradePhase
<1>1. op[a] \in Op /\ op[a].version \in Maybe
  BY <1>0, Fields
<1>2. StateTyped'
  BY <1>0, <1>1 DEF StateTyped, Swap
<1>3. CASE Goes(a, "migrating")
  <2> DEFINE n == [op[a] EXCEPT !.pc = "migrating"]
  <2>0. n \in Op
    BY <1>1, OpGoes DEF Pc
  <2>1. /\ n \in Op /\ n.pc = "migrating" /\ n.version = op[a].version
        /\ n.kind = op[a].kind /\ n.crossed = op[a].crossed /\ n.before = op[a].before
    BY <1>1, <2>0 DEF Op
  <2>2. op' = [op EXCEPT ![a] = n]
    BY <1>3 DEF Goes
  <2> HIDE DEF n
  <2>3. op'[a] = n
    BY <1>0, <2>1, <2>2, OpSet DEF IInv
  <2>4. Phase(a)'
    BY <1>0, <2>1, <2>3, UpgradeConstantsOK DEF Phase
  <2>5. UpgradePhase(a)'
    BY <1>0, <2>1, <2>3 DEF UpgradePhase, Lone, Alone, Holds, Swap
  <2>6. Operations'
    BY <1>0, <2>1, <2>2, <2>4, <2>5, RequestGoes
  <2> QED
    BY <1>2, <2>6, Parts
<1>4. CASE Returns(a, "failed")
  <2>1. ASSUME op'[a] = Rest(op[a], "failed")
        PROVE  Outcome(a)'
    BY <1>0, <2>1, Ending DEF Outcomes, Outcome
  <2>2. Operations'
    BY <1>0, <1>4, <2>1, RequestEnds DEF Outcomes
  <2> QED
    BY <1>2, <2>2, Parts
<1> QED
  BY <1>3, <1>4 DEF Swap

LEMMA MigrationFailsStep ==
    ASSUME IInv, NEW a \in Admin, MigrationFails(a)
    PROVE  IInv'
<1>0. /\ StateTyped /\ a \in Busy /\ a \in Actor /\ op[a].kind = "upgrade"
      /\ Lone(a) => Holds(op[a].before, op[a].version)
  BY Upgrading DEF MigrationFails, UpgradePhase
<1>1. ASSUME Lone(a), op'[a] = Rest(op[a], "unmigrated")
      PROVE  Outcome(a)'
  <2>1. op'[a].outcome = "unmigrated" /\ op'[a].before = op[a].before
    BY <1>0, <1>1, Ending DEF Outcomes
  <2> QED
    BY <1>0, <1>1, <2>1 DEF Outcome, Holds, MigrationFails
<1>2. Operations'
  BY <1>0, <1>1, RequestEnds DEF MigrationFails, Outcomes
<1>3. [op[a].before EXCEPT !.enabled = FALSE] \in Record
  BY <1>0, Fields, Enabling
<1>4. StateTyped'
  BY <1>0, <1>3 DEF StateTyped, MigrationFails
<1> QED
  BY <1>2, <1>4, Parts

LEMMA MigratedStep ==
    ASSUME IInv, NEW a \in Admin, Migrated(a)
    PROVE  IInv'
<1> DEFINE before == op[a].before
           v == op[a].version
           saved == [before EXCEPT !.config = v]
<1>0. /\ StateTyped /\ a \in Busy /\ a \in Actor /\ op[a].kind = "upgrade"
      /\ Lone(a) => Holds(before, v)
  BY Upgrading DEF Migrated, UpgradePhase
<1>1. op[a] \in Op /\ before \in Record /\ v \in Maybe
  BY <1>0, Fields
<1>2. saved \in Record /\ saved.enabled = before.enabled /\ saved.config = v
  BY <1>1, Configuring
<1>3. UNCHANGED <<installed, aside, running>>
  BY DEF Migrated
<1>4. ASSUME record' \in Record, Operations'
      PROVE  IInv'
  <2>1. StateTyped'
    BY <1>0, <1>3, <1>4 DEF StateTyped
  <2> QED
    BY <1>4, <2>1, Parts
(* It ends in outcome; what it then says is right if it was alone.          *)
<1>5. ASSUME NEW outcome \in {"done", "unmigrated"}, op'[a] = Rest(op[a], outcome),
             outcome = "done" => installed' = v /\ record' = saved /\ running' = None,
             outcome = "unmigrated" =>
                running' = None /\ record' = [before EXCEPT !.enabled = FALSE]
      PROVE  Outcome(a)'
  <2>1. op'[a].outcome = outcome /\ op'[a].before = before /\ op'[a].version = v
    BY <1>0, <1>5, Ending DEF Outcomes
  <2> QED
    BY <1>5, <2>1 DEF Outcome
<1>6. CASE ~saved.enabled /\ record' = saved /\ Returns(a, "done")
  <2>1. Lone(a) => installed' = v /\ running' = None
    BY <1>0, <1>3 DEF Holds
  <2>2. Operations'
    BY <1>0, <1>5, <1>6, <2>1, RequestEnds DEF Outcomes
  <2> QED
    BY <1>2, <1>4, <1>6, <2>2
<1>7. CASE saved.enabled /\ running # None /\ record' = [saved EXCEPT !.enabled = TRUE]
           /\ Returns(a, "done")
  <2>1. ~Lone(a)
    BY <1>0, <1>7 DEF Holds
  <2>2. Operations'
    BY <1>0, <1>7, <2>1, RequestEnds DEF Outcomes
  <2>3. record' \in Record
    BY <1>2, <1>7, Enabling
  <2> QED
    BY <1>4, <2>2, <2>3
<1>8. CASE saved.enabled /\ running = None /\ record' = saved
           /\ op' = [op EXCEPT ![a] = [op[a] EXCEPT !.pc = "launching", !.record = saved]]
  <2> DEFINE n == [op[a] EXCEPT !.pc = "launching", !.record = saved]
  <2>1. n \in Op
    BY <1>1, <1>2 DEF Op
  <2>2. /\ n.pc = "launching" /\ n.record = saved /\ n.version = v
        /\ n.kind = op[a].kind /\ n.crossed = op[a].crossed /\ n.before = before
    BY <1>1 DEF Op
  <2>3. op' = [op EXCEPT ![a] = n]
    BY <1>8
  <2> HIDE DEF n, saved
  <2>4. op'[a] = n
    BY <1>0, <2>1, <2>3, OpSet DEF IInv
  <2>5. Phase(a)'
    BY <1>0, <2>2, <2>4, UpgradeConstantsOK DEF Phase
  <2>6. Lone(a)' => installed' = v /\ running' = None /\ record' = saved
    BY <1>0, <1>3, <1>8, <2>2, <2>4 DEF Lone, Alone, Holds
  <2>7. UpgradePhase(a)'
    BY <1>2, <1>8, <2>2, <2>4, <2>6 DEF UpgradePhase, Holds, saved
  <2>8. Operations'
    BY <1>0, <2>1, <2>2, <2>3, <2>5, <2>7, RequestGoes
  <2> QED
    BY <1>2, <1>4, <1>8, <2>8
<1>9. CASE record' = [before EXCEPT !.enabled = FALSE] /\ Returns(a, "unmigrated")
  <2>1. Lone(a) => running' = None
    BY <1>0, <1>3 DEF Holds
  <2>2. Operations'
    BY <1>0, <1>5, <1>9, <2>1, RequestEnds DEF Outcomes
  <2>3. record' \in Record
    BY <1>1, <1>9, Enabling
  <2> QED
    BY <1>4, <2>2, <2>3
<1>10. \/ ~saved.enabled /\ record' = saved /\ Returns(a, "done")
       \/ /\ saved.enabled
          /\ \/ running # None /\ record' = [saved EXCEPT !.enabled = TRUE]
                /\ Returns(a, "done")
             \/ running = None /\ record' = saved
                /\ op' = [op EXCEPT ![a] = [op[a] EXCEPT !.pc = "launching", !.record = saved]]
             \/ record' = [before EXCEPT !.enabled = FALSE] /\ Returns(a, "unmigrated")
  <2> HIDE DEF saved
  <2>1. \/ saved.enabled /\ Enable(a, op[a], saved)
        \/ ~saved.enabled /\ record' = saved /\ Returns(a, "done")
    BY DEF Migrated, saved
  <2> QED
    BY <1>0, <2>1 DEF Enable, EnableRaises, Returns
<1> HIDE DEF saved
<1> QED
  BY <1>6, <1>7, <1>8, <1>9, <1>10

(***************************************************************************)
(* disable, uninstall; deaths.                                              *)
(***************************************************************************)
LEMMA FinishDisableStep ==
    ASSUME IInv, NEW a \in Admin, FinishDisable(a)
    PROVE  IInv'
<1> USE DEF Actor
<1>0. StateTyped
  BY Parts
<1>1. a \in Busy /\ op[a].kind # "upgrade"
  BY Fields DEF FinishDisable, Busy, Phase
<1>2. Operations'
  BY <1>1, RequestEnds DEF FinishDisable, Outcomes
<1>3. [record EXCEPT !.enabled = FALSE] \in Record
  BY <1>0, Enabling DEF StateTyped
<1>4. StateTyped'
  BY <1>0, <1>3 DEF FinishDisable, StateTyped
<1> QED
  BY <1>2, <1>4, Parts

LEMMA FinishUninstallStep ==
    ASSUME IInv, NEW a \in Admin, FinishUninstall(a)
    PROVE  IInv'
<1> USE DEF Actor
<1>0. StateTyped
  BY Parts
<1>1. a \in Busy /\ op[a].kind # "upgrade"
  BY Fields DEF FinishUninstall, Busy, Phase
<1>2. Operations'
  BY <1>1, RequestEnds DEF FinishUninstall, Outcomes
<1>3. [record EXCEPT !.enabled = FALSE] \in Record
  BY <1>0, Enabling DEF StateTyped
<1>4. StateTyped'
  BY <1>0, <1>3, EmptyOps DEF FinishUninstall, StateTyped, Maybe
<1> QED
  BY <1>2, <1>4, Parts

(* A process that dies takes nothing from what is promised: the promises    *)
(* are about what runs, if anything does.                                   *)
LEMMA DiesStep ==
    ASSUME IInv, Dies
    PROVE  IInv'
<1>1. StateTyped' /\ UNCHANGED <<installed, record, op>> /\ running' = None
  BY Parts DEF Dies, StateTyped
<1>2. Phases' /\ LoneIsAlone' /\ HeartbeatPhase'
  BY <1>1 DEF IInv, Phases, Phase, LoneIsAlone, HeartbeatPhase, Lone, Alone, Busy, Holds
<1>3. ASSUME NEW a \in Admin
      PROVE  Claims(a)'
  <2>1. UpgradePhase(a) /\ AfterUpgrade(a)
    BY DEF IInv, Claims
  <2>2. UpgradePhase(a)'
    BY <1>1, <2>1 DEF UpgradePhase, Lone, Alone, Busy, Holds
  <2>3. AfterUpgrade(a)'
    BY <1>1, <2>1 DEF AfterUpgrade, Settled, Quiet, Alone, Busy, Outcome
  <2> QED
    BY <2>2, <2>3 DEF Claims
<1> QED
  BY <1>1, <1>2, <1>3, Parts DEF Operations, IInv, PluginOK

(* A restart forgets what was under way.                                    *)
LEMMA RestartStep ==
    ASSUME IInv, Restart
    PROVE  IInv'
<1> USE UpgradeConstantsOK DEF Actor
<1>1. StateTyped' /\ UNCHANGED <<installed, record>> /\ running' = None
  BY Parts DEF Restart, StateTyped
<1>2. op' = [a \in Actor |-> IF op[a].pc = "idle" THEN op[a] ELSE IdleOp]
  BY DEF Restart
<1>3. op' \in [Actor -> Op]
  BY <1>2, EmptyOps DEF IInv, PluginOK
<1>4. \A a \in Actor : op'[a].pc = "idle" /\ (op'[a] = op[a] \/ op'[a] = IdleOp)
  BY <1>2 DEF IdleOp
<1>5. Busy' = {}
  BY <1>4 DEF Busy
<1>6. ASSUME NEW a \in Actor
      PROVE  Phase(a)'
  BY <1>4 DEF IInv, Phases, Phase, IdleOp
<1>7. ASSUME NEW a \in Admin
      PROVE  Claims(a)'
  <2>1. UpgradePhase(a)'
    BY <1>5 DEF UpgradePhase, Lone
  <2>2. ASSUME Settled(a)'
        PROVE  Outcome(a)'
    <3>1. op'[a] = op[a]
      BY <1>4, <2>2 DEF Settled, IdleOp
    <3>2. Outcome(a)
      BY <2>2, <3>1 DEF IInv, Claims, AfterUpgrade, Settled, Alone
    <3> QED
      BY <1>1, <3>1, <3>2 DEF Outcome
  <2> QED
    BY <1>5, <2>1, <2>2 DEF Claims, AfterUpgrade, Quiet
<1>8. LoneIsAlone' /\ HeartbeatPhase'
  BY <1>5 DEF LoneIsAlone, HeartbeatPhase, Lone
<1> QED
  BY <1>1, <1>3, <1>6, <1>7, <1>8, Parts DEF Operations, Phases

(***************************************************************************)
(* The theorems.                                                            *)
(***************************************************************************)
LEMMA InitInv ==
    ASSUME Init
    PROVE  IInv
<1> USE UpgradeConstantsOK DEF Actor
<1>1. \A a \in Actor : op[a] = IdleOp
  BY DEF Init
<1>2. PluginOK
  BY EmptyOps DEF Init, PluginOK, Maybe
<1>3. Busy = {}
  BY <1>1 DEF Busy, IdleOp
<1>4. Phases
  BY <1>1 DEF Phases, Phase, IdleOp
<1>5. \A a \in Admin : Claims(a)
  BY <1>1, <1>3 DEF Claims, UpgradePhase, AfterUpgrade, Settled, Lone, IdleOp
<1> QED
  BY <1>2, <1>3, <1>4, <1>5 DEF IInv, LoneIsAlone, HeartbeatPhase, Lone

(* The steps of the heartbeat are those of enable.                          *)
LEMMA HeartbeatProceeds ==
    ASSUME IInv, Proceed(Heartbeat)
    PROVE  Launch(Heartbeat) \/ StartSucceeds(Heartbeat) \/ StartFails(Heartbeat)
<1>1. op[Heartbeat].pc \in {"idle", "launching", "starting"}
  BY Fields DEF Phase, Actor
<1> QED
  BY <1>1 DEF Proceed, SetAside, SwapFails, SwapBackFails, Swap, Migrated, MigrationFails, FinishDisable,
              FinishUninstall

LEMMA NextInv ==
    ASSUME IInv, [Next]_vars
    PROVE  IInv'
<1>1. ASSUME NEW t \in Thread, NEW v \in Version, Install(t, v)
      PROVE  IInv'
  BY <1>1, InstallStep
<1>2. ASSUME NEW t \in Thread, BeginConfigure(t) \/ FinishThread(t)
      PROVE  IInv'
  BY <1>2, BeginConfigureStep, RecordInstallStep, FinishConfigureStep DEF FinishThread
<1>3. ASSUME NEW a \in Admin, NEW v \in Version, BeginUpgrade(a, v)
      PROVE  IInv'
  BY <1>3, BeginUpgradeStep
<1>4. ASSUME NEW a \in Admin, BeginEnable(a)
      PROVE  IInv'
  BY <1>4, BeginEnableStep
<1>5. ASSUME NEW a \in Admin,
             BeginStop(a, "disable", "disabling") \/ BeginStop(a, "uninstall", "removing")
      PROVE  IInv'
  BY <1>5, BeginStopStep
<1>6. ASSUME NEW a \in Admin, Proceed(a)
      PROVE  IInv'
  BY <1>6, LaunchStep, StartSucceedsStep, StartFailsStep, SetAsideStep, SwapFailsStep,
     SwapBackFailsStep, SwapStep, MigratedStep, MigrationFailsStep, FinishDisableStep, FinishUninstallStep
     DEF Proceed
<1>7. ASSUME HeartbeatEnables PROVE IInv'
  BY <1>7, HeartbeatEnablesStep
<1>8. ASSUME Proceed(Heartbeat) PROVE IInv'
  BY <1>8, HeartbeatProceeds, HeartbeatLaunchStep, HeartbeatStartSucceedsStep,
     HeartbeatStartFailsStep
<1>9. ASSUME Dies \/ Restart PROVE IInv'
  BY <1>9, DiesStep, RestartStep
<1>10. ASSUME HeartbeatStops \/ UNCHANGED vars PROVE IInv'
  BY <1>10 DEF HeartbeatStops, vars, IInv, PluginOK, Phases, Phase, LoneIsAlone, HeartbeatPhase, Claims,
     UpgradePhase, AfterUpgrade, Settled, Outcome, Quiet, Lone, Alone, Holds, Busy
<1> QED
  BY <1>1, <1>2, <1>3, <1>4, <1>5, <1>6, <1>7, <1>8, <1>9, <1>10 DEF Next, Act, Beat

(* The inductive invariant: operations are in the phases of their kinds, an *)
(* upgrade that is alone finds the plugin as it left it, and one that was   *)
(* alone is followed by the heartbeat alone.                                *)
THEOREM Invariance == Spec => []IInv
<1>1. Init => IInv
  BY InitInv
<1>2. IInv /\ [Next]_vars => IInv'
  BY NextInv
<1> QED
  BY <1>1, <1>2, PTL DEF Spec

(* Packages, record, processes and operations stay in their types.          *)
THEOREM TypeCorrect == Spec => []TypeOK
<1>1. IInv => PluginOK
  BY DEF IInv
<1>2. Init => beats \in BOOLEAN
  BY DEF Init
<1>3. beats \in BOOLEAN /\ [Next]_vars => (beats \in BOOLEAN)'
  BY DEF Next, HeartbeatStops, Restart, vars
<1> QED
  BY <1>1, <1>2, <1>3, Invariance, PTL DEF Spec, TypeOK

(* An upgrade that failed has left the old plugin: disabled with its old    *)
(* configuration if it got as far as the migration, untouched if not.       *)
THEOREM FailureKeepsTheOld == Spec => []FailedUpgradeKeepsTheOld
<1>1. IInv => FailedUpgradeKeepsTheOld
  BY OutcomesAreThePromises DEF IInv
<1> QED
  BY <1>1, Invariance, PTL

(* An upgrade that returned has replaced package and configuration, and     *)
(* what runs after it is the new version, also when the heartbeat restarts  *)
(* it.                                                                      *)
THEOREM SuccessTakesEffect == Spec => []UpgradeTakesEffect
<1>1. IInv => UpgradeTakesEffect
  BY OutcomesAreThePromises DEF IInv
<1> QED
  BY <1>1, Invariance, PTL

(* A package is given up only for another one or in an uninstall: a crash   *)
(* at any place of an upgrade leaves the old package or the new one.        *)
THEOREM KeepsPackages == Spec => PackageIsKept
<1> DEFINE Kept == /\ aside \subseteq aside' \/ installed' # None
                   /\ installed # None /\ installed' # installed =>
                         \/ installed \in aside'
                         \/ \E a \in Admin : op[a].pc = "removing" /\ installed' = None
<1>1. ASSUME IInv, [Next]_vars
      PROVE  Kept
  <2>1. ASSUME NEW t \in Thread, NEW v \in Version, Install(t, v)
        PROVE  Kept
    BY <2>1 DEF Install
  <2>2. ASSUME NEW a \in Admin, NEW v \in Version, BeginUpgrade(a, v)
        PROVE  Kept
    BY <2>2 DEF BeginUpgrade
  <2>3. ASSUME NEW a \in Admin, SetAside(a)
        PROVE  Kept
    BY <2>3 DEF SetAside
  <2>4. ASSUME NEW a \in Admin, SwapFails(a) \/ SwapBackFails(a) \/ Swap(a)
        PROVE  Kept
    <3>1. Phase(a)
      BY <1>1, Fields DEF Actor
    <3>2. op[a].old \in Version /\ op[a].version \in Version
      BY <2>4, <3>1 DEF Phase, SwapFails, SwapBackFails, Swap
    <3> QED
      BY <2>4, <3>2, UpgradeConstantsOK DEF SwapFails, SwapBackFails, Swap
  <2>5. ASSUME NEW a \in Admin, FinishUninstall(a)
        PROVE  Kept
    BY <2>5 DEF FinishUninstall
  <2>6. ASSUME NEW a \in Admin \cup {Heartbeat},
               \/ Launch(a) \/ StartSucceeds(a) \/ StartFails(a) \/ Migrated(a)
               \/ MigrationFails(a) \/ FinishDisable(a) \/ BeginEnable(a)
        PROVE  Kept
    BY <2>6 DEF Launch, StartSucceeds, StartFails, Migrated, MigrationFails, FinishDisable,
                BeginEnable
  <2>7. ASSUME NEW a \in Admin,
               BeginStop(a, "disable", "disabling") \/ BeginStop(a, "uninstall", "removing")
        PROVE  Kept
    BY <2>7 DEF BeginStop
  <2>8. ASSUME NEW t \in Thread, BeginConfigure(t) \/ FinishThread(t)
        PROVE  Kept
    BY <2>8 DEF BeginConfigure, FinishThread, RecordInstall, FinishConfigure
  <2>9. ASSUME Dies \/ HeartbeatStops \/ Restart \/ UNCHANGED vars
        PROVE  Kept
    BY <2>9 DEF Dies, HeartbeatStops, Restart, vars
  <2> HIDE DEF Kept
  <2> QED
    BY <1>1, <2>1, <2>2, <2>3, <2>4, <2>5, <2>6, <2>7, <2>8, <2>9, HeartbeatProceeds
       DEF Next, Act, Beat, Proceed, HeartbeatEnables
<1>2. IInv /\ [Next]_vars => [Kept]_vars
  BY <1>1
<1> QED
  BY <1>2, Invariance, PTL DEF Spec, PackageIsKept

=============================================================================
