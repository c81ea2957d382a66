---------------------------- MODULE PluginEvents ----------------------------
(***************************************************************************)
(* Delivery of task events to the remote peers of plugins: publish_task,    *)
(* publish, connect, transport_message and the outbox file in               *)
(* plugin_manager.py, with the websocket endpoint of api.py.  Plugins are   *)
(* numbered in the order in which discover() lists them.  The order of the  *)
(* messages on one socket and their repetition are left out, because        *)
(* delivery is at least once and peers deduplicate.                         *)
(***************************************************************************)
EXTENDS Naturals, Sequences, FiniteSets

CONSTANTS
    PluginCount, \* installed plugins with the capability event.subscribe
    Client,      \* sockets of remote peers
    Owner,       \* [Client -> the plugin the socket belongs to]
    EventCount,  \* bound: status changes that have an event
    Wants,       \* [plugin -> events it subscribes to]
    Limit,       \* 1000: the events an outbox holds
    Unsteady,    \* bound: plugins that crash or are disabled
    MaxFailures  \* bound: sockets that break, plugins and hosts that crash

Plugin == 1 .. PluginCount
Event == 1 .. EventCount

ASSUME EventsAssumption ==
    /\ PluginCount \in Nat /\ EventCount \in Nat /\ Limit \in Nat \ {0} /\ MaxFailures \in Nat
    /\ Owner \in [Client -> Plugin]
    /\ Wants \in [Plugin -> SUBSET Event]
    /\ Unsteady \subseteq Plugin

VARIABLES
    at,        \* [Event -> 0 before the change, the plugin publish() is at, or after all]
    sending,   \* [Event -> sockets publish() has yet to send it to, at that plugin]
    outbox,    \* [Plugin -> events in event-outbox.json]
    queued,    \* [Plugin -> events in the order in which they were queued (history)]
    skipped,   \* [Plugin -> events it was not to have (history)]
    dropped,   \* [Plugin -> events a full outbox lost (history)]
    enabled,   \* [Plugin -> the record says enabled]
    process,   \* [Plugin -> its entry in processes]
    stopping,  \* [Plugin -> how far disable() is]
    told,      \* [Plugin -> it has made its subscription]
    conn,      \* [Client -> where the endpoint of the socket is]
    listed,    \* sockets in connections
    replay,    \* [Client -> what connect() has yet to send]
    wire,      \* [Client -> events on their way to the peer]
    acks,      \* [Client -> acknowledgements on their way to the host]
    received,  \* [Plugin -> event ids the peer has persisted]
    failures   \* counts toward MaxFailures

publishVars == <<at, sending, queued, skipped, dropped>>
hostVars == <<enabled, process, stopping, told>>
socketVars == <<conn, listed, replay, wire, acks>>
vars == <<publishVars, outbox, hostVars, socketVars, received, failures>>

TypeOK ==
    /\ at \in [Event -> 0 .. PluginCount + 1]
    /\ sending \in [Event -> SUBSET Client]
    /\ outbox \in [Plugin -> SUBSET Event]
    /\ queued \in [Plugin -> Seq(Event)]
    /\ skipped \in [Plugin -> SUBSET Event] /\ dropped \in [Plugin -> SUBSET Event]
    /\ enabled \in [Plugin -> BOOLEAN] /\ told \in [Plugin -> BOOLEAN]
    /\ process \in [Plugin -> {"none", "running", "dead"}]
    /\ stopping \in [Plugin -> {"no", "closing", "stopped"}]
    /\ conn \in [Client -> {"closed", "greeting", "replaying", "open", "broken"}]
    /\ listed \subseteq Client
    /\ replay \in [Client -> SUBSET Event]
    /\ wire \in [Client -> SUBSET Event] /\ acks \in [Client -> SUBSET Event]
    /\ received \in [Plugin -> SUBSET Event]
    /\ failures \in 0 .. MaxFailures

Init ==
    /\ at = [e \in Event |-> 0]
    /\ sending = [e \in Event |-> {}]
    /\ outbox = [p \in Plugin |-> {}]
    /\ queued = [p \in Plugin |-> <<>>]
    /\ skipped = [p \in Plugin |-> {}] /\ dropped = [p \in Plugin |-> {}]
    /\ enabled = [p \in Plugin |-> TRUE]
    /\ process = [p \in Plugin |-> "running"]
    /\ stopping = [p \in Plugin |-> "no"]
    /\ told = [p \in Plugin |-> FALSE]
    /\ conn = [c \in Client |-> "closed"]
    /\ listed = {}
    /\ replay = [c \in Client |-> {}]
    /\ wire = [c \in Client |-> {}] /\ acks = [c \in Client |-> {}]
    /\ received = [p \in Plugin |-> {}]
    /\ failures = 0

(***************************************************************************)
(* Publishing.                                                              *)
(***************************************************************************)
Queued(p) == {queued[p][i] : i \in DOMAIN queued[p]}

Over(e) == at[e] = PluginCount + 1

(* change_status commits and starts publish_task.                           *)
Change(e) ==
    /\ at[e] = 0 /\ \A d \in 1 .. e - 1 : at[d] # 0
    /\ at' = [at EXCEPT ![e] = 1]
    /\ UNCHANGED <<sending, queued, skipped, dropped, outbox, hostVars, socketVars,
                   received, failures>>

(* A plugin that has made no subscription, or an empty one, has every event. *)
Subscribed(p, e) == enabled[p] /\ (told[p] /\ Wants[p] # {} => e \in Wants[p])

(* _queue: an entry beyond the limit pushes out the one queued first.  The   *)
(* outbox file is read and written without error: an error would end        *)
(* publish() before the plugins that come later.                            *)
FirstIn(order, d, set) ==
    \E i \in DOMAIN order :
        /\ order[i] = d /\ d \in set
        /\ \A j \in 1 .. i - 1 : order[j] \notin set

Enqueue(p, e) ==
    LET all == outbox[p] \cup {e} order == Append(queued[p], e) IN
    /\ queued' = [queued EXCEPT ![p] = order]
    /\ IF Cardinality(all) > Limit
       THEN \E d \in all :
              /\ FirstIn(order, d, all)
              /\ outbox' = [outbox EXCEPT ![p] = all \ {d}]
              /\ dropped' = [dropped EXCEPT ![p] = @ \cup {d}]
       ELSE outbox' = [outbox EXCEPT ![p] = all] /\ UNCHANGED dropped

Visited(p, e) == e \in Queued(p) \cup skipped[p]

(* publish() at the next plugin, up to the first send that waits.  The      *)
(* tasks of publish() start in the order of the changes.                    *)
Visit(e) ==
    LET p == at[e] IN
    /\ p \in Plugin /\ sending[e] = {} /\ ~Visited(p, e)
    /\ p = 1 => \A d \in 1 .. e - 1 : Visited(1, d)
    /\ IF Subscribed(p, e)
       THEN /\ Enqueue(p, e)
            /\ sending' = [sending EXCEPT ![e] = {c \in listed : Owner[c] = p}]
            /\ UNCHANGED skipped
       ELSE /\ skipped' = [skipped EXCEPT ![p] = @ \cup {e}]
            /\ UNCHANGED <<queued, dropped, outbox, sending>>
    /\ UNCHANGED <<at, hostVars, socketVars, received, failures>>

(* When every send to the sockets of a plugin has come to its end.          *)
Advance(e) ==
    /\ at[e] \in Plugin /\ sending[e] = {} /\ Visited(at[e], e)
    /\ at' = [at EXCEPT ![e] = @ + 1]
    /\ UNCHANGED <<sending, queued, skipped, dropped, outbox, hostVars, socketVars,
                   received, failures>>

(* Mutant of SendFails: a failing send is the end of publish().             *)
SendFailsForAll(e, c) ==
    /\ c \in sending[e] /\ conn[c] = "broken"
    /\ sending' = [sending EXCEPT ![e] = {}]
    /\ at' = [at EXCEPT ![e] = PluginCount + 1]
    /\ listed' = listed \ {c}
    /\ UNCHANGED <<queued, skipped, dropped, outbox, hostVars, conn, replay, wire, acks,
                   received, failures>>

(* A send that raises takes the socket out of connections.                  *)
SendFails(e, c) ==
    /\ c \in sending[e] /\ conn[c] = "broken"
    /\ sending' = [sending EXCEPT ![e] = @ \ {c}]
    /\ listed' = listed \ {c}
    /\ UNCHANGED <<at, queued, skipped, dropped, outbox, hostVars, conn, replay, wire,
                   acks, received, failures>>

SendTo(e, c) ==
    /\ c \in sending[e] /\ conn[c] # "broken"
    /\ sending' = [sending EXCEPT ![e] = @ \ {c}]
    /\ wire' = [wire EXCEPT ![c] = @ \cup {e}]
    /\ UNCHANGED <<at, queued, skipped, dropped, outbox, hostVars, conn, listed, replay,
                   acks, received, failures>>

(***************************************************************************)
(* A socket.                                                                *)
(***************************************************************************)
(* Mutant of Connect: the socket is not in connections when publish() looks. *)
ConnectUnlisted(c) ==
    /\ conn[c] = "closed" /\ process[Owner[c]] = "running"
    /\ conn' = [conn EXCEPT ![c] = "greeting"]
    /\ UNCHANGED <<publishVars, outbox, hostVars, listed, replay, wire, acks, received,
                   failures>>

(* connect() lists the socket, then asks the plugin for its greeting.       *)
Connect(c) ==
    /\ conn[c] = "closed" /\ process[Owner[c]] = "running"
    /\ conn' = [conn EXCEPT ![c] = "greeting"]
    /\ listed' = listed \cup {c}
    /\ UNCHANGED <<publishVars, outbox, hostVars, replay, wire, acks, received, failures>>

(* Mutant of Greet: the outbox is not replayed.                             *)
GreetOnly(c) ==
    /\ conn[c] = "greeting" /\ process[Owner[c]] = "running"
    /\ conn' = [conn EXCEPT ![c] = "open"]
    /\ UNCHANGED <<publishVars, outbox, hostVars, listed, replay, wire, acks, received,
                   failures>>

(* The greeting is sent and the outbox is read, once.                       *)
Greet(c) ==
    /\ conn[c] = "greeting" /\ process[Owner[c]] = "running"
    /\ conn' = [conn EXCEPT ![c] = "replaying"]
    /\ replay' = [replay EXCEPT ![c] = outbox[Owner[c]]]
    /\ UNCHANGED <<publishVars, outbox, hostVars, listed, wire, acks, received, failures>>

Replay(c, e) ==
    /\ conn[c] = "replaying" /\ e \in replay[c]
    /\ replay' = [replay EXCEPT ![c] = @ \ {e}]
    /\ wire' = [wire EXCEPT ![c] = @ \cup {e}]
    /\ UNCHANGED <<publishVars, outbox, hostVars, conn, listed, acks, received, failures>>

Replayed(c) ==
    /\ conn[c] = "replaying" /\ replay[c] = {}
    /\ conn' = [conn EXCEPT ![c] = "open"]
    /\ UNCHANGED <<publishVars, outbox, hostVars, listed, replay, wire, acks, received,
                   failures>>

(* The peer persists the event id and acknowledges it.                      *)
Receive(c, e) ==
    /\ e \in wire[c]
    /\ received' = [received EXCEPT ![Owner[c]] = @ \cup {e}]
    /\ wire' = [wire EXCEPT ![c] = @ \ {e}]
    /\ acks' = [acks EXCEPT ![c] = @ \cup {e}]
    /\ UNCHANGED <<publishVars, outbox, hostVars, conn, listed, replay, failures>>

(* The endpoint comes to its end: what was under way on the socket is lost. *)
Gone(C) ==
    /\ conn' = [c \in Client |-> IF c \in C THEN "closed" ELSE conn[c]]
    /\ listed' = listed \ C
    /\ replay' = [c \in Client |-> IF c \in C THEN {} ELSE replay[c]]
    /\ wire' = [c \in Client |-> IF c \in C THEN {} ELSE wire[c]]
    /\ acks' = [c \in Client |-> IF c \in C THEN {} ELSE acks[c]]
    /\ sending' = [e \in Event |-> sending[e] \ C]

(* transport_message: the outbox first, then the plugin is told; an error   *)
(* of the plugin ends the endpoint.                                         *)
ReadAck(c, e) ==
    LET p == Owner[c] IN
    /\ conn[c] = "open" /\ e \in acks[c]
    /\ outbox' = IF process[p] = "none" THEN outbox
                 ELSE [outbox EXCEPT ![p] = @ \ {e}]
    /\ IF process[p] = "running"
       THEN /\ acks' = [acks EXCEPT ![c] = @ \ {e}]
            /\ UNCHANGED <<conn, listed, replay, wire, sending>>
       ELSE Gone({c})
    /\ UNCHANGED <<at, queued, skipped, dropped, hostVars, received, failures>>

(* Mutant of Disconnect: what is left of the replay counts as delivered.    *)
DisconnectSettled(c) ==
    /\ \/ conn[c] = "broken"
       \/ conn[c] = "greeting" /\ process[Owner[c]] # "running"
    /\ outbox' = [outbox EXCEPT ![Owner[c]] = @ \ replay[c]]
    /\ Gone({c})
    /\ UNCHANGED <<at, queued, skipped, dropped, hostVars, received, failures>>

(* The endpoint notices that the peer is gone, or connect() is refused.     *)
Disconnect(c) ==
    /\ \/ conn[c] = "broken"
       \/ conn[c] = "greeting" /\ process[Owner[c]] # "running"
    /\ Gone({c})
    /\ UNCHANGED <<at, queued, skipped, dropped, outbox, hostVars, received, failures>>

Break(c) ==
    /\ conn[c] \in {"greeting", "replaying", "open"}
    /\ failures < MaxFailures /\ failures' = failures + 1
    /\ conn' = [conn EXCEPT ![c] = "broken"]
    /\ wire' = [wire EXCEPT ![c] = {}]
    /\ UNCHANGED <<publishVars, outbox, hostVars, listed, replay, acks, received>>

(***************************************************************************)
(* The plugin and the host.                                                 *)
(***************************************************************************)
Subscribe(p) ==
    /\ process[p] = "running" /\ ~told[p]
    /\ told' = [told EXCEPT ![p] = TRUE]
    /\ UNCHANGED <<publishVars, outbox, enabled, process, stopping, socketVars, received,
                   failures>>

PluginDies(p) ==
    /\ process[p] = "running"
    /\ failures < MaxFailures /\ failures' = failures + 1
    /\ process' = [process EXCEPT ![p] = "dead"]
    /\ UNCHANGED <<publishVars, outbox, enabled, stopping, told, socketVars, received>>

(* The heartbeat takes a dead process out, and starts what is enabled; it   *)
(* leaves the sockets and the subscription alone.                           *)
Heartbeat(p) ==
    /\ \/ process[p] = "dead" /\ process' = [process EXCEPT ![p] = "none"]
       \/ process[p] = "none" /\ enabled[p] /\ process' = [process EXCEPT ![p] = "running"]
    /\ UNCHANGED <<publishVars, outbox, enabled, stopping, told, socketVars, received,
                   failures>>

(* disable(): the sockets that are listed are closed, the process is        *)
(* stopped, and the record is saved last.                                   *)
CloseSockets(p) ==
    /\ enabled[p] /\ stopping[p] = "no"
    /\ stopping' = [stopping EXCEPT ![p] = "closing"]
    /\ told' = [told EXCEPT ![p] = FALSE]
    /\ Gone({c \in listed : Owner[c] = p})
    /\ UNCHANGED <<at, queued, skipped, dropped, outbox, enabled, process, received,
                   failures>>

StopProcess(p) ==
    /\ stopping[p] = "closing"
    /\ stopping' = [stopping EXCEPT ![p] = "stopped"]
    /\ process' = [process EXCEPT ![p] = "none"]
    /\ UNCHANGED <<publishVars, outbox, enabled, told, socketVars, received, failures>>

RecordDisabled(p) ==
    /\ stopping[p] = "stopped"
    /\ stopping' = [stopping EXCEPT ![p] = "no"]
    /\ enabled' = [enabled EXCEPT ![p] = FALSE]
    /\ UNCHANGED <<publishVars, outbox, process, told, socketVars, received, failures>>

Enable(p) ==
    /\ ~enabled[p] /\ stopping[p] = "no"
    /\ enabled' = [enabled EXCEPT ![p] = TRUE]
    /\ process' = [process EXCEPT ![p] = "running"]
    /\ UNCHANGED <<publishVars, outbox, stopping, told, socketVars, received, failures>>

(* The host ends and starts again: of all this only the records and the     *)
(* outbox files are left, and what publish() had not reached is lost.       *)
Restart ==
    /\ failures < MaxFailures /\ failures' = failures + 1
    /\ at' = [e \in Event |-> IF at[e] = 0 THEN 0 ELSE PluginCount + 1]
    /\ skipped' = [p \in Plugin |->
                      skipped[p] \cup {e \in Event : at[e] # 0 /\ ~Visited(p, e)}]
    /\ Gone(Client)
    /\ process' = [p \in Plugin |-> IF enabled[p] THEN "running" ELSE "none"]
    /\ stopping' = [p \in Plugin |-> "no"]
    /\ told' = [p \in Plugin |-> FALSE]
    /\ UNCHANGED <<queued, dropped, outbox, enabled, received>>

Next ==
    \/ \E e \in Event : Change(e) \/ Visit(e) \/ Advance(e)
    \/ \E e \in Event, c \in Client :
         SendTo(e, c) \/ SendFails(e, c) \/ Replay(c, e) \/ Receive(c, e) \/ ReadAck(c, e)
    \/ \E c \in Client :
         Connect(c) \/ Greet(c) \/ Replayed(c) \/ Disconnect(c) \/ Break(c)
    \/ \E p \in Plugin : Subscribe(p) \/ Heartbeat(p)
    \/ \E p \in Unsteady :
         \/ PluginDies(p) \/ CloseSockets(p) \/ StopProcess(p) \/ RecordDisabled(p) \/ Enable(p)
    \/ Restart

Spec == Init /\ [][Next]_vars

(* The event loop runs what is ready and uvicorn ends a send to a silent    *)
(* peer by its ping timeout.  Beyond the code it is assumed that the peer   *)
(* reconnects, reads and acknowledges, that a plugin that runs answers      *)
(* transport.connected (Greet), and that the heartbeat comes round          *)
(* (Heartbeat: no plugin keeps it waiting, and none of its errors ends it). *)
Fairness ==
    /\ \A e \in Event : WF_vars(Visit(e)) /\ WF_vars(Advance(e))
    /\ \A e \in Event, c \in Client :
         /\ WF_vars(SendTo(e, c)) /\ WF_vars(SendFails(e, c))
         /\ WF_vars(Replay(c, e)) /\ WF_vars(Receive(c, e)) /\ WF_vars(ReadAck(c, e))
    /\ \A c \in Client :
         WF_vars(Connect(c)) /\ WF_vars(Greet(c)) /\ WF_vars(Replayed(c)) /\ WF_vars(Disconnect(c))
    /\ \A p \in Plugin :
         WF_vars(Heartbeat(p)) /\ WF_vars(StopProcess(p)) /\ WF_vars(RecordDisabled(p))

FairSpec == Spec /\ Fairness

(***************************************************************************)
(* Properties.                                                              *)
(***************************************************************************)
(* Between the outbox that connect() replays and the events that publish()  *)
(* sends there is no gap: whatever the outbox holds, a socket that has      *)
(* passed the replay and is still listed has delivered, carries, or is      *)
(* about to be sent, although connect() and publish() interleave at every   *)
(* send.                                                                    *)
NoGap ==
    \A c \in Client :
        conn[c] \in {"replaying", "open"} =>
            \A e \in outbox[Owner[c]] :
                \/ e \in received[Owner[c]] \cup wire[c] \cup replay[c]
                \/ c \in sending[e]

(* A publication that has ended was offered to every plugin: one whose      *)
(* peer fails in the middle of a send keeps the event from no other.        *)
EveryPluginIsOffered ==
    \A e \in Event : Over(e) => \A p \in Plugin : Visited(p, e)

(* The outbox implements the channel of the documentation: an event leaves  *)
(* it when the peer has it, or when it was full, whatever breaks.           *)
Channel == INSTANCE EventChannel WITH held <- outbox
AtLeastOnce == Channel!ChanSpec

(* While a plugin with a peer is enabled, an event is delivered and         *)
(* acknowledged in the end, or pushed out, if the plugin answers its peers'  *)
(* connections and the heartbeat starts it again after a crash.             *)
HeldEventsLeave ==
    \A c \in Client : \A e \in Event :
        (e \in outbox[Owner[c]]) ~> (e \notin outbox[Owner[c]] \/ ~enabled[Owner[c]])
=============================================================================
