-------------------------- MODULE PluginEventsProofs --------------------------
(***************************************************************************)
(* Proofs about PluginEvents, for any plugins, sockets, subscriptions,      *)
(* events, size of the outbox and number of failures: nothing falls between *)
(* replay and publication, and the outbox implements the channel.           *)
(***************************************************************************)
EXTENDS PluginEvents, FiniteSetTheorems, TLAPS

(* publish() has been at every plugin before the one it is at.              *)
VisitedBefore == \A e \in Event : \A p \in Plugin : p < at[e] => Visited(p, e)

(* A socket past connect() is listed until it breaks.                       *)
ListedWhileOpen ==
    \A c \in Client : conn[c] \in {"greeting", "replaying", "open"} => c \in listed

(* What the channel of a plugin has ever taken.                             *)
Taken(p) == outbox[p] \cup dropped[p] \cup received[p]

(* Only what was queued was taken, and only what was taken is on its way.   *)
TakenWasQueued == \A p \in Plugin : Taken(p) \subseteq Queued(p)
OnItsWay ==
    \A c \in Client :
        /\ wire[c] \cup replay[c] \subseteq Taken(Owner[c])
        /\ acks[c] \subseteq received[Owner[c]]
        /\ \A e \in Event : c \in sending[e] => e \in Taken(Owner[c])

IInv == TypeOK /\ VisitedBefore /\ ListedWhileOpen /\ NoGap /\ TakenWasQueued /\ OnItsWay

(***************************************************************************)
(* What the steps do.                                                       *)
(***************************************************************************)
(* The queue of a plugin takes one event at its end; the others stay.       *)
LEMMA Appends ==
    ASSUME TypeOK, NEW p \in Plugin, NEW e \in Event, Enqueue(p, e)
    PROVE  /\ Queued(p)' = Queued(p) \cup {e}
           /\ \A q \in Plugin : q # p => queued'[q] = queued[q]
<1>1. queued[p] \in Seq(Event)
  BY DEF TypeOK
<1>2. queued'[p] = Append(queued[p], e)
  BY DEF TypeOK, Enqueue
<1>3. /\ DOMAIN queued'[p] = 1 .. Len(queued[p]) + 1
      /\ DOMAIN queued[p] = 1 .. Len(queued[p])
      /\ Len(queued[p]) \in Nat
  BY <1>1, <1>2
<1>4. /\ \A i \in DOMAIN queued[p] : queued'[p][i] = queued[p][i]
      /\ queued'[p][Len(queued[p]) + 1] = e
  BY <1>1, <1>2
<1>5. Queued(p)' = Queued(p) \cup {e}
  BY <1>3, <1>4 DEF Queued
<1>6. \A q \in Plugin : q # p => queued'[q] = queued[q]
  BY DEF TypeOK, Enqueue
<1> QED
  BY <1>5, <1>6

(* publish() puts the event into the outbox and may push another one out.   *)
LEMMA EnqueueMoves ==
    ASSUME TypeOK, NEW p \in Plugin, NEW e \in Event, Enqueue(p, e)
    PROVE  /\ outbox'[p] \cup dropped'[p] = outbox[p] \cup dropped[p] \cup {e}
           /\ outbox'[p] \subseteq outbox[p] \cup {e}
           /\ dropped[p] \subseteq dropped'[p]
           /\ \A q \in Plugin : q # p => outbox'[q] = outbox[q] /\ dropped'[q] = dropped[q]
           /\ queued' \in [Plugin -> Seq(Event)]
           /\ outbox' \in [Plugin -> SUBSET Event]
           /\ dropped' \in [Plugin -> SUBSET Event]
<1>1. CASE Cardinality(outbox[p] \cup {e}) > Limit
  <2>1. PICK d \in outbox[p] \cup {e} :
           /\ outbox' = [outbox EXCEPT ![p] = (outbox[p] \cup {e}) \ {d}]
           /\ dropped' = [dropped EXCEPT ![p] = @ \cup {d}]
    BY <1>1 DEF Enqueue
  <2>2. d \in Event
    BY DEF TypeOK
  <2>3. queued' = [queued EXCEPT ![p] = Append(queued[p], e)] /\ queued[p] \in Seq(Event)
    BY DEF Enqueue, TypeOK
  <2> QED
    BY <2>1, <2>2, <2>3 DEF TypeOK
<1>2. CASE ~(Cardinality(outbox[p] \cup {e}) > Limit)
  <2>1. /\ outbox' = [outbox EXCEPT ![p] = outbox[p] \cup {e}]
        /\ dropped' = dropped
    BY <1>2 DEF Enqueue
  <2>2. queued' = [queued EXCEPT ![p] = Append(queued[p], e)] /\ queued[p] \in Seq(Event)
    BY DEF Enqueue, TypeOK
  <2> QED
    BY <2>1, <2>2 DEF TypeOK
<1> QED
  BY <1>1, <1>2

(* An event that ends at a plugin is at one that exists.                    *)
LEMMA VisitsAPlugin ==
    ASSUME NEW e \in Event, Visit(e)
    PROVE  at[e] \in Plugin
  BY DEF Visit

(* Type correctness is preserved.                                           *)
LEMMA TypeStep ==
    ASSUME TypeOK, Next
    PROVE  TypeOK'
<1> USE EventsAssumption
<1>1. ASSUME NEW e \in Event, Change(e) PROVE TypeOK'
  BY <1>1 DEF Change, Plugin, TypeOK, publishVars, hostVars, socketVars
<1>2. ASSUME NEW e \in Event, Visit(e) PROVE TypeOK'
  <2>1. CASE Subscribed(at[e], e)
    <3>1. Enqueue(at[e], e) /\ at[e] \in Plugin
      BY <1>2, <2>1 DEF Visit
    <3>2. /\ queued' \in [Plugin -> Seq(Event)]
          /\ outbox' \in [Plugin -> SUBSET Event]
          /\ dropped' \in [Plugin -> SUBSET Event]
      BY <3>1, EnqueueMoves
    <3>3. sending' = [sending EXCEPT ![e] = {c \in listed : Owner[c] = at[e]}]
      BY <1>2, <2>1 DEF Visit
    <3>4. {c \in listed : Owner[c] = at[e]} \in SUBSET Client
      BY DEF TypeOK
    <3>5. sending' \in [Event -> SUBSET Client]
      BY <3>3, <3>4 DEF TypeOK
    <3> QED
      BY <1>2, <2>1, <3>2, <3>5 DEF Visit, TypeOK, hostVars, socketVars
  <2>2. CASE ~Subscribed(at[e], e)
    <3>1. /\ skipped' = [skipped EXCEPT ![at[e]] = @ \cup {e}]
          /\ UNCHANGED <<queued, dropped, outbox, sending>>
          /\ UNCHANGED <<at, hostVars, socketVars, received, failures>>
      BY <1>2, <2>2 DEF Visit
    <3>2. skipped' \in [Plugin -> SUBSET Event]
      BY <3>1 DEF TypeOK
    <3> QED
      BY <3>1, <3>2 DEF TypeOK, hostVars, socketVars
  <2> QED
    BY <2>1, <2>2
<1>3. ASSUME NEW e \in Event, Advance(e) PROVE TypeOK'
  BY <1>3 DEF Advance, Plugin, TypeOK, publishVars, hostVars, socketVars
<1>4. ASSUME NEW e \in Event, NEW c \in Client, SendTo(e, c) PROVE TypeOK'
  BY <1>4 DEF SendTo, TypeOK, publishVars, hostVars, socketVars
<1>5. ASSUME NEW e \in Event, NEW c \in Client, SendFails(e, c) PROVE TypeOK'
  BY <1>5 DEF SendFails, TypeOK, publishVars, hostVars, socketVars
<1>6. ASSUME NEW e \in Event, NEW c \in Client, Replay(c, e) PROVE TypeOK'
  BY <1>6 DEF Replay, TypeOK, publishVars, hostVars, socketVars
<1>7. ASSUME NEW e \in Event, NEW c \in Client, Receive(c, e) PROVE TypeOK'
  BY <1>7 DEF Receive, TypeOK, publishVars, hostVars, socketVars
<1>8. ASSUME NEW e \in Event, NEW c \in Client, ReadAck(c, e) PROVE TypeOK'
  <2>1. outbox' \in [Plugin -> SUBSET Event]
    BY <1>8 DEF ReadAck, TypeOK
  <2>2. CASE process[Owner[c]] = "running"
    <3>1. /\ acks' = [acks EXCEPT ![c] = @ \ {e}]
          /\ UNCHANGED <<conn, listed, replay, wire, sending>>
          /\ UNCHANGED <<at, queued, skipped, dropped, hostVars, received, failures>>
      BY <1>8, <2>2 DEF ReadAck
    <3> QED
      BY <2>1, <3>1 DEF TypeOK, hostVars
  <2>3. CASE process[Owner[c]] # "running"
    <3>1. Gone({c}) /\ UNCHANGED <<at, queued, skipped, dropped, hostVars, received, failures>>
      BY <1>8, <2>3 DEF ReadAck
    <3> QED
      BY <2>1, <3>1 DEF Gone, TypeOK, hostVars
  <2> QED
    BY <2>2, <2>3
<1>9. ASSUME NEW c \in Client, Connect(c) PROVE TypeOK'
  BY <1>9 DEF Connect, TypeOK, publishVars, hostVars, socketVars
<1>10. ASSUME NEW c \in Client, Greet(c) PROVE TypeOK'
  BY <1>10 DEF Greet, TypeOK, publishVars, hostVars, socketVars
<1>11. ASSUME NEW c \in Client, Replayed(c) PROVE TypeOK'
  BY <1>11 DEF Replayed, TypeOK, publishVars, hostVars, socketVars
<1>12. ASSUME NEW c \in Client, Disconnect(c) PROVE TypeOK'
  BY <1>12 DEF Disconnect, Gone, TypeOK, publishVars, hostVars, socketVars
<1>13. ASSUME NEW c \in Client, Break(c) PROVE TypeOK'
  BY <1>13 DEF Break, TypeOK, publishVars, hostVars, socketVars
<1>14. ASSUME NEW p \in Plugin, Subscribe(p) PROVE TypeOK'
  BY <1>14 DEF Subscribe, TypeOK, publishVars, hostVars, socketVars
<1>15. ASSUME NEW p \in Plugin, Heartbeat(p) PROVE TypeOK'
  <2>1. process' \in [Plugin -> {"none", "running", "dead"}]
    BY <1>15 DEF Heartbeat, TypeOK
  <2> QED
    BY <1>15, <2>1 DEF Heartbeat, TypeOK, publishVars, socketVars
<1>16. ASSUME NEW p \in Unsteady, PluginDies(p) PROVE TypeOK'
  BY <1>16 DEF PluginDies, TypeOK, publishVars, hostVars, socketVars
<1>17. ASSUME NEW p \in Unsteady, CloseSockets(p) PROVE TypeOK'
  BY <1>17 DEF CloseSockets, Gone, TypeOK, publishVars, hostVars, socketVars
<1>18. ASSUME NEW p \in Unsteady, StopProcess(p) PROVE TypeOK'
  BY <1>18 DEF StopProcess, TypeOK, publishVars, hostVars, socketVars
<1>19. ASSUME NEW p \in Unsteady, RecordDisabled(p) PROVE TypeOK'
  BY <1>19 DEF RecordDisabled, TypeOK, publishVars, hostVars, socketVars
<1>20. ASSUME NEW p \in Unsteady, Enable(p) PROVE TypeOK'
  BY <1>20 DEF Enable, TypeOK, publishVars, hostVars, socketVars
<1>21. CASE Restart
  BY <1>21 DEF Restart, Gone, Plugin, TypeOK, publishVars, hostVars, socketVars
<1> QED
  BY TypeOK, Next, <1>1, <1>2, <1>3, <1>4, <1>5, <1>6, <1>7, <1>8, <1>9, <1>10, <1>11, <1>12, <1>13, <1>14, <1>15, <1>16, <1>17, <1>18, <1>19, <1>20, <1>21 DEF Next

(* publish() alone changes how far an event is and what was queued.         *)
LEMMA OnlyPublishVisits ==
    ASSUME Next
    PROVE  \/ \E e \in Event : Change(e) \/ Visit(e) \/ Advance(e)
           \/ Restart
           \/ UNCHANGED <<at, queued, skipped>>
<1>1. ASSUME NEW e \in Event, NEW c \in Client,
             SendTo(e, c) \/ SendFails(e, c) \/ Replay(c, e) \/ Receive(c, e) \/ ReadAck(c, e)
      PROVE  UNCHANGED <<at, queued, skipped>>
  BY <1>1 DEF SendTo, SendFails, Replay, Receive, ReadAck, publishVars
<1>2. ASSUME NEW c \in Client,
             Connect(c) \/ Greet(c) \/ Replayed(c) \/ Disconnect(c) \/ Break(c)
      PROVE  UNCHANGED <<at, queued, skipped>>
  BY <1>2 DEF Connect, Greet, Replayed, Disconnect, Break, publishVars
<1>3. ASSUME NEW p \in Plugin, Subscribe(p) \/ Heartbeat(p)
      PROVE  UNCHANGED <<at, queued, skipped>>
  BY <1>3 DEF Subscribe, Heartbeat, publishVars
<1>4. ASSUME NEW p \in Unsteady,
             \/ PluginDies(p) \/ CloseSockets(p) \/ StopProcess(p)
             \/ RecordDisabled(p) \/ Enable(p)
      PROVE  UNCHANGED <<at, queued, skipped>>
  BY <1>4 DEF PluginDies, CloseSockets, StopProcess, RecordDisabled, Enable, publishVars
<1> QED
  BY <1>1, <1>2, <1>3, <1>4 DEF Next

(* A plugin that was visited stays so.                                      *)
LEMMA VisitedStays ==
    ASSUME TypeOK, Next, NEW p \in Plugin, NEW e \in Event, Visited(p, e)
    PROVE  Visited(p, e)'
<1>1. CASE UNCHANGED <<queued, skipped>>
  BY <1>1 DEF Visited, Queued
<1>2. ASSUME NEW d \in Event, Visit(d) PROVE Visited(p, e)'
  <2>1. at[d] \in Plugin
    BY <1>2 DEF Visit
  <2>2. CASE Subscribed(at[d], d)
    <3>1. Enqueue(at[d], d) /\ skipped' = skipped
      BY <1>2, <2>2 DEF Visit
    <3>2. Queued(p) \subseteq Queued(p)'
      BY <2>1, <3>1, Appends DEF Queued
    <3> QED
      BY <3>1, <3>2 DEF Visited
  <2>3. CASE ~Subscribed(at[d], d)
    <3>1. queued' = queued /\ skipped' = [skipped EXCEPT ![at[d]] = @ \cup {d}]
      BY <1>2, <2>3 DEF Visit
    <3> QED
      BY <3>1 DEF Visited, Queued, TypeOK
  <2> QED
    BY <2>2, <2>3
<1>3. CASE Restart
  BY <1>3 DEF Restart, Visited, Queued, TypeOK
<1>4. ASSUME NEW d \in Event, Change(d) \/ Advance(d) PROVE Visited(p, e)'
  BY <1>1, <1>4 DEF Change, Advance
<1> QED
  BY <1>1, <1>2, <1>3, <1>4, OnlyPublishVisits

(* publish() leaves no plugin out.                                          *)
LEMMA VisitedStep ==
    ASSUME TypeOK, VisitedBefore, Next
    PROVE  VisitedBefore'
<1> USE EventsAssumption
<1> SUFFICES ASSUME NEW e \in Event, NEW p \in Plugin, p < at'[e]
             PROVE  Visited(p, e)'
  BY DEF VisitedBefore
<1>0. at[e] \in 0 .. PluginCount + 1 /\ p \in 1 .. PluginCount
  BY DEF TypeOK, Plugin
<1>1. CASE at'[e] = at[e]
  BY <1>1, VisitedStays DEF VisitedBefore
<1>2. ASSUME NEW d \in Event, Change(d) PROVE Visited(p, e)'
  <2>1. CASE d = e
    <3>1. at'[e] = 1
      BY <1>2, <2>1 DEF Change, TypeOK
    <3> QED
      BY <3>1, <1>0
  <2>2. CASE d # e
    BY <1>1, <1>2, <2>2 DEF Change, TypeOK
  <2> QED
    BY <2>1, <2>2
<1>3. ASSUME NEW d \in Event, Advance(d) PROVE Visited(p, e)'
  <2>1. CASE d = e
    <3>1. at'[e] = at[e] + 1 /\ Visited(at[e], e)
      BY <1>3, <2>1 DEF Advance, TypeOK
    <3>2. p < at[e] \/ p = at[e]
      BY <3>1, <1>0
    <3> QED
      BY <3>1, <3>2, VisitedStays DEF VisitedBefore
  <2>2. CASE d # e
    BY <1>1, <1>3, <2>2 DEF Advance, TypeOK
  <2> QED
    BY <2>1, <2>2
<1>4. CASE Restart
  <2>1. CASE at[e] = 0
    <3>1. at'[e] = 0
      BY <1>4, <2>1 DEF Restart
    <3> QED
      BY <3>1, <1>0
  <2>2. CASE at[e] # 0
    <3>1. CASE Visited(p, e)
      BY <3>1, VisitedStays
    <3>2. CASE ~Visited(p, e)
      <4>1. e \in skipped'[p]
        BY <1>4, <2>2, <3>2 DEF Restart
      <4> QED
        BY <4>1 DEF Visited
    <3> QED
      BY <3>1, <3>2
  <2> QED
    BY <2>1, <2>2
<1>5. ASSUME NEW d \in Event, Visit(d) PROVE Visited(p, e)'
  BY <1>1, <1>5 DEF Visit
<1> QED
  BY <1>1, <1>2, <1>3, <1>4, <1>5, OnlyPublishVisits

(***************************************************************************)
(* What a step may do to a plugin's channel and to a socket.                *)
(***************************************************************************)
(* A socket that is not taken from its endpoint is where it was, or has     *)
(* moved on by one step of its own.                                         *)
LEMMA ListedStep ==
    ASSUME TypeOK, ListedWhileOpen, Next
    PROVE  ListedWhileOpen'
<1> SUFFICES ASSUME NEW c \in Client, conn'[c] \in {"greeting", "replaying", "open"}
             PROVE  c \in listed'
  BY DEF ListedWhileOpen
<1>1. CASE conn' = conn /\ listed' = listed
  BY <1>1 DEF ListedWhileOpen
<1>2. ASSUME NEW G \in SUBSET Client, Gone(G) PROVE c \in listed'
  BY <1>2 DEF Gone, ListedWhileOpen
<1>3. ASSUME NEW b \in Client,
             Connect(b) \/ Greet(b) \/ Replayed(b) \/ Disconnect(b) \/ Break(b)
      PROVE  c \in listed'
  <2>1. CASE Connect(b)
    BY <2>1 DEF Connect, ListedWhileOpen, TypeOK
  <2>2. CASE Greet(b)
    BY <2>2 DEF Greet, ListedWhileOpen, TypeOK
  <2>3. CASE Replayed(b)
    BY <2>3 DEF Replayed, ListedWhileOpen, TypeOK
  <2>4. CASE Disconnect(b)
    BY <1>2, <2>4 DEF Disconnect
  <2>5. CASE Break(b)
    BY <2>5 DEF Break, ListedWhileOpen, TypeOK
  <2> QED
    BY <1>3, <2>1, <2>2, <2>3, <2>4, <2>5
<1>4. ASSUME NEW e \in Event, NEW b \in Client, SendFails(e, b)
      PROVE  c \in listed'
  BY <1>4 DEF SendFails, ListedWhileOpen
<1>5. ASSUME NEW e \in Event, NEW b \in Client, ReadAck(b, e)
      PROVE  c \in listed'
  BY <1>1, <1>2, <1>5 DEF ReadAck
<1>6. ASSUME NEW p \in Unsteady, CloseSockets(p)
      PROVE  c \in listed'
  <2>1. {b \in listed : Owner[b] = p} \in SUBSET Client
    BY DEF TypeOK
  <2> QED
    BY <1>2, <1>6, <2>1 DEF CloseSockets
<1>7. CASE Restart
  BY <1>2, <1>7 DEF Restart
<1>8. ASSUME NEW e \in Event, Change(e) \/ Visit(e) \/ Advance(e)
      PROVE  c \in listed'
  BY <1>1, <1>8 DEF Change, Visit, Advance, socketVars
<1>9. ASSUME NEW e \in Event, NEW b \in Client,
             SendTo(e, b) \/ Replay(b, e) \/ Receive(b, e)
      PROVE  c \in listed'
  BY <1>1, <1>9 DEF SendTo, Replay, Receive
<1>10. ASSUME NEW p \in Plugin, Subscribe(p) \/ Heartbeat(p)
       PROVE  c \in listed'
  BY <1>1, <1>10 DEF Subscribe, Heartbeat, socketVars
<1>11. ASSUME NEW p \in Unsteady,
              PluginDies(p) \/ StopProcess(p) \/ RecordDisabled(p) \/ Enable(p)
       PROVE  c \in listed'
  BY <1>1, <1>11 DEF PluginDies, StopProcess, RecordDisabled, Enable, socketVars
<1> QED
  BY <1>3, <1>4, <1>5, <1>6, <1>7, <1>8, <1>9, <1>10, <1>11, Next DEF Next

(* Four kinds of steps touch what a channel has taken.                      *)
LEMMA ChannelMoves ==
    ASSUME Next
    PROVE  \/ \E e \in Event : Visit(e) /\ Enqueue(at[e], e) /\ UNCHANGED received
           \/ \E c \in Client, e \in Event : Receive(c, e)
           \/ \E c \in Client, e \in Event : ReadAck(c, e)
           \/ UNCHANGED <<outbox, dropped, received, queued>>
<1>1. ASSUME NEW e \in Event, Visit(e)
      PROVE  \/ Enqueue(at[e], e) /\ UNCHANGED received
             \/ UNCHANGED <<outbox, dropped, received, queued>>
  BY <1>1 DEF Visit
<1>2. ASSUME NEW e \in Event, Change(e) \/ Advance(e)
      PROVE  UNCHANGED <<outbox, dropped, received, queued>>
  BY <1>2 DEF Change, Advance
<1>3. ASSUME NEW e \in Event, NEW c \in Client, SendTo(e, c) \/ SendFails(e, c) \/ Replay(c, e)
      PROVE  UNCHANGED <<outbox, dropped, received, queued>>
  BY <1>3 DEF SendTo, SendFails, Replay, publishVars
<1>4. ASSUME NEW c \in Client,
             Connect(c) \/ Greet(c) \/ Replayed(c) \/ Disconnect(c) \/ Break(c)
      PROVE  UNCHANGED <<outbox, dropped, received, queued>>
  BY <1>4 DEF Connect, Greet, Replayed, Disconnect, Break, publishVars
<1>5. ASSUME NEW p \in Plugin, Subscribe(p) \/ Heartbeat(p)
      PROVE  UNCHANGED <<outbox, dropped, received, queued>>
  BY <1>5 DEF Subscribe, Heartbeat, publishVars
<1>6. ASSUME NEW p \in Unsteady,
             PluginDies(p) \/ CloseSockets(p) \/ StopProcess(p) \/ RecordDisabled(p) \/ Enable(p)
      PROVE  UNCHANGED <<outbox, dropped, received, queued>>
  BY <1>6 DEF PluginDies, CloseSockets, StopProcess, RecordDisabled, Enable, publishVars
<1>7. Restart => UNCHANGED <<outbox, dropped, received, queued>>
  BY DEF Restart
<1> QED
  BY <1>1, <1>2, <1>3, <1>4, <1>5, <1>6, <1>7 DEF Next

(* What a channel has taken it does not forget: only an event that the peer *)
(* has leaves the outbox otherwise than by being pushed out.                *)
LEMMA TakenStays ==
    ASSUME TypeOK, OnItsWay, Next, NEW p \in Plugin
    PROVE  Taken(p) \subseteq Taken(p)'
<1> USE EventsAssumption
<1>1. ASSUME NEW e \in Event, Visit(e), Enqueue(at[e], e), UNCHANGED received
      PROVE  Taken(p) \subseteq Taken(p)'
  <2>1. at[e] \in Plugin
    BY <1>1, VisitsAPlugin
  <2> QED
    BY <1>1, <2>1, EnqueueMoves DEF Taken
<1>2. ASSUME NEW c \in Client, NEW e \in Event, Receive(c, e)
      PROVE  Taken(p) \subseteq Taken(p)'
  BY <1>2 DEF Receive, Taken, TypeOK, publishVars
<1>3. ASSUME NEW c \in Client, NEW e \in Event, ReadAck(c, e)
      PROVE  Taken(p) \subseteq Taken(p)'
  <2>1. e \in received[Owner[c]] /\ Owner[c] \in Plugin
    BY <1>3 DEF ReadAck, OnItsWay
  <2>2. received' = received /\ dropped' = dropped
    BY <1>3 DEF ReadAck
  <2>3. outbox' = outbox \/ outbox' = [outbox EXCEPT ![Owner[c]] = @ \ {e}]
    BY <1>3 DEF ReadAck
  <2>4. outbox[p] \subseteq outbox'[p] \cup received[p]
    <3>1. CASE outbox' = outbox
      BY <3>1
    <3>2. CASE outbox' = [outbox EXCEPT ![Owner[c]] = @ \ {e}]
      BY <2>1, <3>2 DEF TypeOK
    <3> QED
      BY <2>3, <3>1, <3>2
  <2> QED
    BY <2>2, <2>4 DEF Taken
<1>4. CASE UNCHANGED <<outbox, dropped, received, queued>>
  BY <1>4 DEF Taken
<1> QED
  BY <1>1, <1>2, <1>3, <1>4, ChannelMoves

(* Only what was queued is taken.                                           *)
LEMMA TakenStep ==
    ASSUME TypeOK, OnItsWay, TakenWasQueued, Next
    PROVE  TakenWasQueued'
<1> USE EventsAssumption
<1> SUFFICES ASSUME NEW p \in Plugin
             PROVE  Taken(p)' \subseteq Queued(p)'
  BY DEF TakenWasQueued
<1>1. ASSUME NEW e \in Event, Visit(e), Enqueue(at[e], e), UNCHANGED received
      PROVE  Taken(p)' \subseteq Queued(p)'
  <2>1. at[e] \in Plugin
    BY <1>1, VisitsAPlugin
  <2>2. CASE p = at[e]
    <3>1. Queued(p)' = Queued(p) \cup {e}
      BY <1>1, <2>1, <2>2, Appends
    <3>2. Taken(p)' \subseteq Taken(p) \cup {e}
      BY <1>1, <2>1, <2>2, EnqueueMoves DEF Taken
    <3> QED
      BY <3>1, <3>2 DEF TakenWasQueued
  <2>3. CASE p # at[e]
    <3>1. queued'[p] = queued[p]
      BY <1>1, <2>1, <2>3, Appends
    <3>2. Taken(p)' = Taken(p)
      BY <1>1, <2>1, <2>3, EnqueueMoves DEF Taken
    <3> QED
      BY <3>1, <3>2 DEF TakenWasQueued, Queued
  <2> QED
    BY <2>2, <2>3
<1>2. ASSUME NEW c \in Client, NEW e \in Event, Receive(c, e)
      PROVE  Taken(p)' \subseteq Queued(p)'
  <2>1. e \in Taken(Owner[c]) /\ Owner[c] \in Plugin
    BY <1>2 DEF Receive, OnItsWay
  <2>2. /\ UNCHANGED <<outbox, dropped, queued>>
        /\ received' = [received EXCEPT ![Owner[c]] = @ \cup {e}]
    BY <1>2 DEF Receive, publishVars
  <2>3. Taken(p)' \subseteq Taken(p)
    BY <2>1, <2>2 DEF Taken, TypeOK
  <2> QED
    BY <2>2, <2>3 DEF TakenWasQueued, Queued
<1>3. ASSUME NEW c \in Client, NEW e \in Event, ReadAck(c, e)
      PROVE  Taken(p)' \subseteq Queued(p)'
  <2>1. UNCHANGED <<received, dropped, queued>>
    BY <1>3 DEF ReadAck
  <2>2. outbox' = outbox \/ outbox' = [outbox EXCEPT ![Owner[c]] = @ \ {e}]
    BY <1>3 DEF ReadAck
  <2>3. outbox'[p] \subseteq outbox[p]
    <3>1. CASE outbox' = outbox
      BY <3>1
    <3>2. CASE outbox' = [outbox EXCEPT ![Owner[c]] = @ \ {e}]
      BY <3>2 DEF TypeOK
    <3> QED
      BY <2>2, <3>1, <3>2
  <2>4. Taken(p)' \subseteq Taken(p)
    BY <2>1, <2>3 DEF Taken
  <2> QED
    BY <2>1, <2>4 DEF TakenWasQueued, Queued
<1>4. CASE UNCHANGED <<outbox, dropped, received, queued>>
  BY <1>4 DEF Taken, TakenWasQueued, Queued
<1> QED
  BY <1>1, <1>2, <1>3, <1>4, ChannelMoves

(* What a socket carries after a step, and what is yet to be sent to it:    *)
(* what it carried before, or what the step took from the plugin's outbox.  *)
LEMMA SocketMoves ==
    ASSUME TypeOK, OnItsWay, Next, NEW c \in Client
    PROVE  /\ wire'[c] \cup replay'[c] \subseteq Taken(Owner[c])'
           /\ acks'[c] \subseteq received'[Owner[c]]
           /\ \A e \in Event : c \in sending'[e] => e \in Taken(Owner[c])'
<1> USE EventsAssumption
<1> DEFINE Goal == /\ wire'[c] \cup replay'[c] \subseteq Taken(Owner[c])'
                   /\ acks'[c] \subseteq received'[Owner[c]]
                   /\ \A e \in Event : c \in sending'[e] => e \in Taken(Owner[c])'
<1>0. /\ Owner[c] \in Plugin
      /\ Taken(Owner[c]) \subseteq Taken(Owner[c])'
      /\ wire[c] \cup replay[c] \subseteq Taken(Owner[c])
      /\ acks[c] \subseteq received[Owner[c]]
      /\ \A e \in Event : c \in sending[e] => e \in Taken(Owner[c])
  BY TakenStays DEF OnItsWay
<1>1. CASE UNCHANGED <<wire, replay, acks, sending, received>>
  BY <1>0, <1>1
<1>2. ASSUME NEW G \in SUBSET Client, Gone(G), UNCHANGED received PROVE Goal
  BY <1>0, <1>2 DEF Gone
<1>3. ASSUME NEW e \in Event, Visit(e) PROVE Goal
  <2>1. at[e] \in Plugin /\ UNCHANGED <<wire, replay, acks, received>>
    BY <1>3 DEF Visit, socketVars
  <2>2. CASE UNCHANGED sending
    BY <1>1, <2>1, <2>2
  <2>3. CASE /\ Enqueue(at[e], e)
             /\ sending' = [sending EXCEPT ![e] = {b \in listed : Owner[b] = at[e]}]
    <3>1. Owner[c] = at[e] => e \in Taken(Owner[c])'
      BY <2>1, <2>3, EnqueueMoves DEF Taken
    <3>2. /\ sending'[e] = {b \in listed : Owner[b] = at[e]}
          /\ \A f \in Event : f # e => sending'[f] = sending[f]
      BY <2>3 DEF TypeOK
    <3>3. \A f \in Event : c \in sending'[f] => f \in Taken(Owner[c])'
      BY <1>0, <3>1, <3>2
    <3> QED
      BY <1>0, <2>1, <3>3
  <2> QED
    BY <1>3, <2>2, <2>3 DEF Visit
<1>4. ASSUME NEW e \in Event, NEW b \in Client, SendTo(e, b) PROVE Goal
  BY <1>0, <1>4 DEF SendTo, TypeOK
<1>5. ASSUME NEW e \in Event, NEW b \in Client, SendFails(e, b) PROVE Goal
  BY <1>0, <1>5 DEF SendFails, TypeOK
<1>6. ASSUME NEW e \in Event, NEW b \in Client, Replay(b, e) PROVE Goal
  BY <1>0, <1>6 DEF Replay, TypeOK, publishVars
<1>7. ASSUME NEW e \in Event, NEW b \in Client, Receive(b, e) PROVE Goal
  <2>1. /\ received' = [received EXCEPT ![Owner[b]] = @ \cup {e}]
        /\ wire' = [wire EXCEPT ![b] = @ \ {e}]
        /\ acks' = [acks EXCEPT ![b] = @ \cup {e}]
        /\ UNCHANGED <<replay, sending>>
    BY <1>7 DEF Receive, publishVars
  <2>2. acks'[c] \subseteq received'[Owner[c]]
    BY <1>0, <2>1 DEF TypeOK
  <2>3. wire'[c] \subseteq wire[c]
    BY <2>1 DEF TypeOK
  <2> QED
    BY <1>0, <2>1, <2>2, <2>3
<1>8. ASSUME NEW e \in Event, NEW b \in Client, ReadAck(b, e) PROVE Goal
  <2>1. CASE Gone({b})
    BY <1>2, <1>8, <2>1 DEF ReadAck
  <2>2. CASE /\ acks' = [acks EXCEPT ![b] = @ \ {e}]
             /\ UNCHANGED <<conn, listed, replay, wire, sending>>
    <3>1. acks'[c] \subseteq acks[c] /\ received' = received
      BY <1>8, <2>2 DEF ReadAck, TypeOK
    <3> QED
      BY <1>0, <2>2, <3>1
  <2> QED
    BY <1>8, <2>1, <2>2 DEF ReadAck
<1>9. ASSUME NEW b \in Client, Greet(b) PROVE Goal
  <2>1. replay'[c] \subseteq replay[c] \cup outbox[Owner[c]]
    BY <1>9 DEF Greet, TypeOK
  <2> QED
    BY <1>0, <1>9, <2>1 DEF Greet, publishVars, Taken
<1>10. ASSUME NEW b \in Client, Break(b) PROVE Goal
  <2>1. wire'[c] \subseteq wire[c]
    BY <1>10 DEF Break, TypeOK
  <2> QED
    BY <1>0, <1>10, <2>1 DEF Break, publishVars
<1>11. ASSUME NEW b \in Client, Connect(b) \/ Replayed(b) PROVE Goal
  BY <1>1, <1>11 DEF Connect, Replayed, publishVars
<1>12. ASSUME NEW b \in Client, Disconnect(b) PROVE Goal
  BY <1>2, <1>12 DEF Disconnect
<1>13. ASSUME NEW p \in Unsteady, CloseSockets(p) PROVE Goal
  <2>1. {b \in listed : Owner[b] = p} \in SUBSET Client
    BY DEF TypeOK
  <2> QED
    BY <1>2, <1>13, <2>1 DEF CloseSockets
<1>14. CASE Restart
  BY <1>2, <1>14 DEF Restart
<1>15. ASSUME NEW e \in Event, Change(e) \/ Advance(e) PROVE Goal
  BY <1>1, <1>15 DEF Change, Advance, socketVars
<1>16. ASSUME NEW p \in Plugin, Subscribe(p) \/ Heartbeat(p) PROVE Goal
  BY <1>1, <1>16 DEF Subscribe, Heartbeat, socketVars, publishVars
<1>17. ASSUME NEW p \in Unsteady,
              PluginDies(p) \/ StopProcess(p) \/ RecordDisabled(p) \/ Enable(p)
       PROVE  Goal
  BY <1>1, <1>17 DEF PluginDies, StopProcess, RecordDisabled, Enable, socketVars, publishVars
<1> QED
  BY <1>3, <1>4, <1>5, <1>6, <1>7, <1>8, <1>9, <1>10, <1>11, <1>12, <1>13, <1>14, <1>15,
     <1>16, <1>17 DEF Next

(* Nothing falls between the replay of the outbox and publish().            *)
LEMMA NoGapStep ==
    ASSUME TypeOK, ListedWhileOpen, NoGap, Next
    PROVE  NoGap'
<1> USE EventsAssumption
<1> SUFFICES ASSUME NEW c \in Client, NEW f \in Event,
                    conn'[c] \in {"replaying", "open"}, f \in outbox'[Owner[c]]
             PROVE  \/ f \in received'[Owner[c]] \cup wire'[c] \cup replay'[c]
                    \/ c \in sending'[f]
  <2>1. TypeOK'
    BY TypeStep
  <2> QED
    BY <2>1 DEF NoGap, TypeOK
<1> DEFINE Goal == \/ f \in received'[Owner[c]] \cup wire'[c] \cup replay'[c]
                   \/ c \in sending'[f]
<1>0. /\ Owner[c] \in Plugin
      /\ conn[c] \in {"replaying", "open"} /\ f \in outbox[Owner[c]] =>
           \/ f \in received[Owner[c]] \cup wire[c] \cup replay[c]
           \/ c \in sending[f]
  BY DEF NoGap
<1>1. CASE UNCHANGED <<conn, wire, replay, sending, outbox, received>>
  BY <1>0, <1>1
<1>2. ASSUME NEW G \in SUBSET Client, Gone(G), UNCHANGED received,
             outbox'[Owner[c]] \subseteq outbox[Owner[c]]
      PROVE  Goal
  BY <1>0, <1>2 DEF Gone
<1>3. ASSUME NEW e \in Event, Visit(e) PROVE Goal
  <2>1. at[e] \in Plugin /\ sending[e] = {} /\ UNCHANGED <<conn, listed, wire, replay, received>>
    BY <1>3 DEF Visit, socketVars
  <2>2. CASE UNCHANGED <<sending, outbox>>
    BY <1>1, <2>1, <2>2
  <2>3. CASE /\ Enqueue(at[e], e)
             /\ sending' = [sending EXCEPT ![e] = {b \in listed : Owner[b] = at[e]}]
    <3>1. /\ sending'[e] = {b \in listed : Owner[b] = at[e]}
          /\ \A g \in Event : g # e => sending'[g] = sending[g]
      BY <2>3 DEF TypeOK
    <3>2. c \in listed
      BY <2>1 DEF ListedWhileOpen
    <3>3. Owner[c] # at[e] => outbox'[Owner[c]] = outbox[Owner[c]]
      BY <1>0, <2>1, <2>3, EnqueueMoves
    <3>4. outbox'[Owner[c]] \subseteq outbox[Owner[c]] \cup {e}
      BY <1>0, <2>1, <2>3, <3>3, EnqueueMoves
    <3>5. CASE f = e /\ Owner[c] = at[e]
      BY <3>1, <3>2, <3>5
    <3>6. CASE f \in outbox[Owner[c]]
      <4>1. f \in received[Owner[c]] \cup wire[c] \cup replay[c] \/ c \in sending[f]
        BY <1>0, <2>1, <3>6
      <4>2. c \in sending[f] => f # e
        BY <2>1
      <4> QED
        BY <2>1, <3>1, <4>1, <4>2
    <3> QED
      BY <3>3, <3>4, <3>5, <3>6
  <2> QED
    BY <1>3, <2>2, <2>3 DEF Visit
<1>4. ASSUME NEW e \in Event, NEW b \in Client, SendTo(e, b) PROVE Goal
  BY <1>0, <1>4 DEF SendTo, TypeOK
<1>5. ASSUME NEW e \in Event, NEW b \in Client, SendFails(e, b) PROVE Goal
  BY <1>0, <1>5 DEF SendFails, TypeOK
<1>6. ASSUME NEW e \in Event, NEW b \in Client, Replay(b, e) PROVE Goal
  BY <1>0, <1>6 DEF Replay, TypeOK, publishVars
<1>7. ASSUME NEW e \in Event, NEW b \in Client, Receive(b, e) PROVE Goal
  <2>1. /\ received' = [received EXCEPT ![Owner[b]] = @ \cup {e}]
        /\ wire' = [wire EXCEPT ![b] = @ \ {e}]
        /\ UNCHANGED <<conn, replay, sending, outbox>>
    BY <1>7 DEF Receive, publishVars
  <2>2. wire[c] \subseteq wire'[c] \cup received'[Owner[c]]
    BY <1>0, <2>1 DEF TypeOK
  <2>3. received[Owner[c]] \subseteq received'[Owner[c]]
    BY <1>0, <2>1 DEF TypeOK
  <2> QED
    BY <1>0, <2>1, <2>2, <2>3
<1>8. ASSUME NEW e \in Event, NEW b \in Client, ReadAck(b, e) PROVE Goal
  <2>1. outbox' = outbox \/ outbox' = [outbox EXCEPT ![Owner[b]] = @ \ {e}]
    BY <1>8 DEF ReadAck
  <2>2. outbox'[Owner[c]] \subseteq outbox[Owner[c]]
    <3>1. CASE outbox' = outbox
      BY <3>1
    <3>2. CASE outbox' = [outbox EXCEPT ![Owner[b]] = @ \ {e}]
      BY <1>0, <3>2 DEF TypeOK
    <3> QED
      BY <2>1, <3>1, <3>2
  <2>3. CASE Gone({b})
    BY <1>2, <1>8, <2>2, <2>3 DEF ReadAck
  <2>4. CASE UNCHANGED <<conn, listed, replay, wire, sending>>
    BY <1>0, <1>8, <2>2, <2>4 DEF ReadAck
  <2> QED
    BY <1>8, <2>3, <2>4 DEF ReadAck
<1>9. ASSUME NEW b \in Client, Greet(b) PROVE Goal
  BY <1>0, <1>9 DEF Greet, TypeOK, publishVars
<1>10. ASSUME NEW b \in Client, Replayed(b) PROVE Goal
  BY <1>0, <1>10 DEF Replayed, TypeOK, publishVars
<1>11. ASSUME NEW b \in Client, Connect(b) PROVE Goal
  BY <1>0, <1>11 DEF Connect, TypeOK, publishVars
<1>12. ASSUME NEW b \in Client, Break(b) PROVE Goal
  BY <1>0, <1>12 DEF Break, TypeOK, publishVars
<1>13. ASSUME NEW b \in Client, Disconnect(b) PROVE Goal
  BY <1>2, <1>13 DEF Disconnect
<1>14. ASSUME NEW p \in Unsteady, CloseSockets(p) PROVE Goal
  <2>1. {b \in listed : Owner[b] = p} \in SUBSET Client
    BY DEF TypeOK
  <2> QED
    BY <1>2, <1>14, <2>1 DEF CloseSockets
<1>15. CASE Restart
  BY <1>2, <1>15 DEF Restart
<1>16. ASSUME NEW e \in Event, Change(e) \/ Advance(e) PROVE Goal
  BY <1>1, <1>16 DEF Change, Advance, socketVars
<1>17. ASSUME NEW p \in Plugin, Subscribe(p) \/ Heartbeat(p) PROVE Goal
  BY <1>1, <1>17 DEF Subscribe, Heartbeat, socketVars, publishVars
<1>18. ASSUME NEW p \in Unsteady,
              PluginDies(p) \/ StopProcess(p) \/ RecordDisabled(p) \/ Enable(p)
       PROVE  Goal
  BY <1>1, <1>18 DEF PluginDies, StopProcess, RecordDisabled, Enable, socketVars, publishVars
<1> QED
  BY <1>3, <1>4, <1>5, <1>6, <1>7, <1>8, <1>9, <1>10, <1>11, <1>12, <1>13, <1>14, <1>15,
     <1>16, <1>17, <1>18 DEF Next

(***************************************************************************)
(* The invariant.                                                           *)
(***************************************************************************)
(* The initial states satisfy it.                                           *)
THEOREM Initially == Init => IInv
<1> USE EventsAssumption
<1> SUFFICES ASSUME Init PROVE IInv
  OBVIOUS
<1>1. TypeOK
  BY DEF Init, TypeOK, Plugin
<1>2. VisitedBefore
  BY DEF Init, VisitedBefore, Plugin
<1>3. ListedWhileOpen /\ NoGap /\ TakenWasQueued /\ OnItsWay
  BY DEF Init, ListedWhileOpen, NoGap, TakenWasQueued, Taken, OnItsWay
<1> QED
  BY <1>1, <1>2, <1>3 DEF IInv

(* Every step preserves it.                                                 *)
THEOREM Inductive == IInv /\ [Next]_vars => IInv'
<1>1. ASSUME IInv, Next PROVE IInv'
  <2> USE <1>1 DEF IInv
  <2>1. TypeOK'
    BY TypeStep
  <2>2. VisitedBefore'
    BY VisitedStep
  <2>3. ListedWhileOpen'
    BY ListedStep
  <2>4. NoGap'
    BY NoGapStep
  <2>5. TakenWasQueued'
    BY TakenStep
  <2>6. OnItsWay'
    BY SocketMoves DEF OnItsWay
  <2> QED
    BY <2>1, <2>2, <2>3, <2>4, <2>5, <2>6
<1>2. ASSUME IInv, UNCHANGED vars PROVE IInv'
  BY <1>2 DEF IInv, TypeOK, VisitedBefore, Visited, Queued, ListedWhileOpen, NoGap, TakenWasQueued,
     Taken, OnItsWay, vars, publishVars, hostVars, socketVars
<1> QED
  BY <1>1, <1>2

(* It holds in every reachable state.                                       *)
THEOREM Invariance == Spec => []IInv
  BY Initially, Inductive, PTL DEF Spec

(* The types of the model.                                                  *)
THEOREM TypeCorrect == Spec => []TypeOK
  BY Invariance, PTL DEF IInv

(* Whatever the outbox holds, a listed socket past the replay delivers.      *)
THEOREM NothingBetween == Spec => []NoGap
  BY Invariance, PTL DEF IInv

(* A publication that has ended was offered to every plugin.                *)
THEOREM Offered == Spec => []EveryPluginIsOffered
<1>1. IInv => EveryPluginIsOffered
  BY EventsAssumption DEF IInv, VisitedBefore, EveryPluginIsOffered, Over, Plugin
<1> QED
  BY <1>1, Invariance, PTL

(***************************************************************************)
(* The outbox implements the channel.                                       *)
(***************************************************************************)
(* An outbox that overflows was full, and it is not the newest that goes.   *)
LEMMA OldestGoes ==
    ASSUME IInv, NEW p \in Plugin, NEW e \in Event, e \notin Queued(p),
           Cardinality(outbox[p] \cup {e}) > Limit,
           NEW d \in outbox[p] \cup {e},
           FirstIn(Append(queued[p], e), d, outbox[p] \cup {e})
    PROVE  d \in outbox[p] /\ Cardinality(outbox[p]) >= Limit
<1> USE EventsAssumption
<1>1. outbox[p] \subseteq Queued(p) /\ outbox[p] \subseteq Event /\ queued[p] \in Seq(Event)
  BY DEF IInv, TypeOK, TakenWasQueued, Taken
<1>2. IsFiniteSet(outbox[p])
  <2>1. IsFiniteSet(Event)
    <3>1. 1 \in Int /\ EventCount \in Int
      OBVIOUS
    <3> QED
      BY <3>1, FS_Interval DEF Event
  <2> QED
    BY <1>1, <2>1, FS_Subset
<1>3. Cardinality(outbox[p]) \in Nat
  BY <1>2, FS_CardinalityType
<1>4. Cardinality(outbox[p] \cup {e}) = Cardinality(outbox[p]) + 1
  BY <1>1, <1>2, FS_AddElement
<1>5. Cardinality(outbox[p]) >= Limit
  BY <1>3, <1>4
<1>6. PICK g \in outbox[p] : TRUE
  BY <1>5, FS_EmptySet
<1>7. PICK k \in DOMAIN queued[p] : queued[p][k] = g
  BY <1>1, <1>6 DEF Queued
<1> DEFINE order == Append(queued[p], e)
<1>8. /\ Len(queued[p]) \in Nat
      /\ DOMAIN queued[p] = 1 .. Len(queued[p])
      /\ DOMAIN order = 1 .. Len(queued[p]) + 1
      /\ \A i \in DOMAIN queued[p] : order[i] = queued[p][i]
  BY <1>1
<1>9. PICK i \in DOMAIN order :
         order[i] = d /\ \A j \in 1 .. i - 1 : order[j] \notin outbox[p] \cup {e}
  BY DEF FirstIn
<1>10. order[k] \in outbox[p]
  BY <1>6, <1>7, <1>8
<1>11. i <= k
  BY <1>8, <1>9, <1>10
<1>12. d \in Queued(p)
  BY <1>8, <1>9, <1>11 DEF Queued
<1> QED
  BY <1>5, <1>12

(* Every step of the code is a step of the channel or none.                 *)
LEMMA StepImplements ==
    ASSUME IInv, Next
    PROVE  [Channel!ChanNext]_(Channel!chanVars)
<1> USE EventsAssumption
<1>1. ASSUME NEW e \in Event, Visit(e), Enqueue(at[e], e), UNCHANGED received
      PROVE  Channel!ChanNext
  <2>1. PICK p \in Plugin : p = at[e]
    BY <1>1, VisitsAPlugin
  <2>2. e \notin Queued(p)
    BY <1>1, <2>1 DEF Visit, Visited
  <2>3. e \notin outbox[p] \cup received[p] \cup dropped[p]
    BY <2>2 DEF IInv, TakenWasQueued, Taken
  <2>4. CASE Cardinality(outbox[p] \cup {e}) > Limit
    <3>1. PICK d \in outbox[p] \cup {e} :
             /\ FirstIn(Append(queued[p], e), d, outbox[p] \cup {e})
             /\ outbox' = [outbox EXCEPT ![p] = (outbox[p] \cup {e}) \ {d}]
             /\ dropped' = [dropped EXCEPT ![p] = @ \cup {d}]
      BY <1>1, <2>1, <2>4 DEF Enqueue
    <3>2. d \in outbox[p] /\ Cardinality(outbox[p]) >= Limit
      BY <2>2, <2>4, <3>1, OldestGoes
    <3>3. d \in Event
      BY <3>2 DEF IInv, TypeOK
    <3>4. Channel!AcceptFull(p, e, d)
      <4>1. outbox' = [outbox EXCEPT ![p] = (@ \cup {e}) \ {d}]
        BY <3>1
      <4>2. Channel!Cardinality(outbox[p]) = Cardinality(outbox[p])
        BY DEF Cardinality, Channel!Cardinality
      <4> QED
        BY <1>1, <2>3, <3>1, <3>2, <4>1, <4>2 DEF Channel!AcceptFull
    <3> QED
      BY <3>3, <3>4 DEF Channel!ChanNext
  <2>5. CASE ~(Cardinality(outbox[p] \cup {e}) > Limit)
    <3>1. outbox' = [outbox EXCEPT ![p] = outbox[p] \cup {e}] /\ dropped' = dropped
      BY <1>1, <2>1, <2>5 DEF Enqueue
    <3>2. Channel!Accept(p, e)
      BY <1>1, <2>3, <3>1 DEF Channel!Accept
    <3> QED
      BY <3>2 DEF Channel!ChanNext
  <2> QED
    BY <2>4, <2>5
<1>2. ASSUME NEW c \in Client, NEW e \in Event, Receive(c, e)
      PROVE  [Channel!ChanNext]_(Channel!chanVars)
  <2>1. Owner[c] \in Plugin /\ e \in Taken(Owner[c])
    BY <1>2 DEF Receive, IInv, OnItsWay
  <2>2. /\ received' = [received EXCEPT ![Owner[c]] = @ \cup {e}]
        /\ UNCHANGED <<outbox, dropped>>
    BY <1>2 DEF Receive, publishVars
  <2>3. CASE e \in outbox[Owner[c]] \cup dropped[Owner[c]]
    <3>1. Channel!Deliver(Owner[c], e)
      BY <2>2, <2>3 DEF Channel!Deliver
    <3> QED
      BY <2>1, <3>1 DEF Channel!ChanNext
  <2>4. CASE e \in received[Owner[c]]
    <3>1. received' = received
      BY <2>2, <2>4 DEF IInv, TypeOK
    <3> QED
      BY <2>2, <3>1 DEF Channel!chanVars
  <2> QED
    BY <2>1, <2>3, <2>4 DEF Taken
<1>3. ASSUME NEW c \in Client, NEW e \in Event, ReadAck(c, e)
      PROVE  [Channel!ChanNext]_(Channel!chanVars)
  <2>1. /\ Owner[c] \in Plugin /\ e \in received[Owner[c]]
        /\ UNCHANGED <<received, dropped>>
    BY <1>3 DEF ReadAck, IInv, OnItsWay
  <2>2. CASE outbox' = outbox
    BY <2>1, <2>2 DEF Channel!chanVars
  <2>3. CASE outbox' = [outbox EXCEPT ![Owner[c]] = @ \ {e}]
    <3>1. Channel!Settle(Owner[c], e)
      BY <2>1, <2>3 DEF Channel!Settle
    <3> QED
      BY <2>1, <3>1 DEF Channel!ChanNext
  <2> QED
    BY <1>3, <2>2, <2>3 DEF ReadAck
<1>4. UNCHANGED <<outbox, dropped, received, queued>> => UNCHANGED Channel!chanVars
  BY DEF Channel!chanVars
<1> QED
  BY <1>1, <1>2, <1>3, <1>4, ChannelMoves

(* The outbox, the sockets and the peers implement the channel.             *)
THEOREM Refinement == Spec => AtLeastOnce
<1>1. Init => Channel!ChanInit
  BY DEF Init, Channel!ChanInit
<1>2. IInv /\ [Next]_vars => [Channel!ChanNext]_(Channel!chanVars)
  <2>1. UNCHANGED vars => UNCHANGED Channel!chanVars
    BY DEF vars, publishVars, Channel!chanVars
  <2> QED
    BY <2>1, StepImplements
<1> QED
  BY <1>1, <1>2, Invariance, PTL DEF Spec, AtLeastOnce, Channel!ChanSpec

=============================================================================
