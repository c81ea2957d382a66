---------------------------- MODULE EventChannel ----------------------------
(***************************************************************************)
(* What docs/plugin-system.md promises of plugin events: an event given to  *)
(* the channel of a plugin is held until the remote peer has received it,   *)
(* at least once, unless the bounded outbox had to make room.               *)
(***************************************************************************)
EXTENDS Naturals, FiniteSets

CONSTANTS Plugin, Event, Limit

VARIABLES
    held,     \* [Plugin -> events that will be delivered (again)]
    received, \* [Plugin -> events the peer has recorded]
    dropped   \* [Plugin -> events a full channel has let go]

chanVars == <<held, received, dropped>>

ChanInit ==
    /\ held = [p \in Plugin |-> {}]
    /\ received = [p \in Plugin |-> {}]
    /\ dropped = [p \in Plugin |-> {}]

Accept(p, e) ==
    /\ e \notin held[p] \cup received[p] \cup dropped[p]
    /\ held' = [held EXCEPT ![p] = @ \cup {e}]
    /\ UNCHANGED <<received, dropped>>

(* Only a full channel loses an event, and it is never the one that came.   *)
AcceptFull(p, e, d) ==
    /\ e \notin held[p] \cup received[p] \cup dropped[p]
    /\ d \in held[p]
    /\ Cardinality(held[p]) >= Limit
    /\ held' = [held EXCEPT ![p] = (@ \cup {e}) \ {d}]
    /\ dropped' = [dropped EXCEPT ![p] = @ \cup {d}]
    /\ UNCHANGED received

(* What was on its way may arrive after it was let go.                      *)
Deliver(p, e) ==
    /\ e \in held[p] \cup dropped[p]
    /\ received' = [received EXCEPT ![p] = @ \cup {e}]
    /\ UNCHANGED <<held, dropped>>

Settle(p, e) ==
    /\ e \in received[p]
    /\ held' = [held EXCEPT ![p] = @ \ {e}]
    /\ UNCHANGED <<received, dropped>>

ChanNext ==
    \E p \in Plugin, e \in Event :
        \/ Accept(p, e)
        \/ \E d \in Event : AcceptFull(p, e, d)
        \/ Deliver(p, e)
        \/ Settle(p, e)

ChanSpec == ChanInit /\ [][ChanNext]_chanVars
=============================================================================
