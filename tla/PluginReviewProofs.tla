-------------------------- MODULE PluginReviewProofs --------------------------
(***************************************************************************)
(* Proofs about PluginReview, for any plugins and priorities, any number of *)
(* pushes, requeues and failures.                                           *)
(***************************************************************************)
EXTENDS PluginReview, FiniteSetTheorems, TLAPS

(* An attempt is under way only while the task runs, and it has neither a   *)
(* verdict nor a head before it has read the pull request.                  *)
AttemptInv ==
    /\ stage # None => status = "running"
    /\ stage \in {"task.started", "context"} => used = {}

(* The verdict and what flows through a dispatch are about the fetched head.*)
ValueInv ==
    /\ payload \in [by : Plugin \cup {"core"}, checked : BOOLEAN, head : 0 .. MaxHead]
    /\ fetched \in 0 .. MaxHead /\ head \in Heads
    /\ calls \subseteq [plugin : Plugin, try : {1, 2}]
    /\ \A u \in used : u.head = fetched
    /\ Dispatching => payload.checked /\ payload.head = fetched

(* A wait is stored before it can be answered.                              *)
WaitInv ==
    /\ waiting \subseteq stored
    /\ PromisedResultsOnly

(* While the plugins are asked no earlier review is left, and a dispatch    *)
(* that ends in a wait has promised this attempt's review of this head.     *)
PromiseInv ==
    /\ stage = "pr.review" => result = {}
    /\ stage = "pr.review" /\ ending.action = "wait" =>
           [plugin |-> ending.by, attempt |-> attempts, head |-> fetched] \in promised
    /\ WaitsCanEnd

(* A pull request has been read where the plugins are about to review it.   *)
HeadRead == stage \in {"hook", "pr.review"} => fetched \in Heads

IInv == /\ TypeOK /\ RegisteredOnce /\ HeadRead
        /\ AttemptInv /\ ValueInv /\ WaitInv /\ PromiseInv /\ CallsAreSingle

(* Every step keeps the invariant of the attempts.                          *)
LEMMA AttemptStep ==
  ASSUME IInv, [Next]_vars
  PROVE  AttemptInv'
<1>. USE DEF None, IInv, AttemptInv
<1>1. CASE UNCHANGED vars
  BY <1>1 DEF vars, taskVars
<1>2. ASSUME NEW p \in Plugin, Call(p) \/ Crash(p) \/ Unregister(p) \/ StopProcess(p) \/ Register(p)
      PROVE  AttemptInv'
  BY <1>2 DEF Call, Crash, Unregister, StopProcess, Register, taskVars
<1>3. ASSUME NEW c \in calls,
             Fails(c) \/ Continues(c) \/ Modifies(c) \/ Replaces(c) \/ Cancels(c) \/ Waits(c)
      PROVE  AttemptInv'
  BY <1>3 DEF Fails, Continues, Modifies, Replaces, Cancels, Waits, hookRest, taskVars
<1>4. ASSUME NEW p \in Plugin, NEW w \in promised, Resume(p, w)
      PROVE  AttemptInv'
  BY <1>4 DEF Resume
<1>5. CASE Start \/ Started \/ ReadIssue \/ ReadPull \/ AskPlugins \/ Reviewed
  BY <1>5 DEF Start, Started, ReadIssue, ReadPull, AskPlugins, Reviewed, GoOn
<1>6. CASE StoreWait \/ Cancelled \/ Finish \/ EndEarly
  BY <1>6 DEF StoreWait, Cancelled, Finish, EndEarly, Ends
<1>7. CASE Requeue \/ HeadMoves \/ Restart
  BY <1>7 DEF Requeue, HeadMoves, Restart, Ends, taskVars
<1>. QED
  BY <1>1, <1>2, <1>3, <1>4, <1>5, <1>6, <1>7 DEF Next, Stopped

(* Every step keeps the values of the hooks validated and of the right      *)
(* head.                                                                    *)
LEMMA ValueStep ==
  ASSUME IInv, [Next]_vars
  PROVE  ValueInv'
<1>. USE ReviewAssumption DEF None, IInv, ValueInv, Dispatching, Heads
<1>1. CASE UNCHANGED vars
  BY <1>1 DEF vars, taskVars, hookVars
<1>2. ASSUME NEW p \in Plugin, Call(p) \/ Crash(p) \/ Unregister(p) \/ StopProcess(p) \/ Register(p)
      PROVE  ValueInv'
  <2>1. UNCHANGED <<stage, fetched, head, used, payload>>
    BY <1>2 DEF Call, Crash, Unregister, StopProcess, Register, taskVars, hookVars
  <2>2. calls' \subseteq [plugin : Plugin, try : {1, 2}]
    <3>1. CASE Call(p)
      <4>1. calls' \in {calls, calls \cup {[plugin |-> p, try |-> 1]}}
        BY <3>1 DEF Call
      <4>2. [plugin |-> p, try |-> 1] \in [plugin : Plugin, try : {1, 2}]
        OBVIOUS
      <4>. QED
        BY <4>1, <4>2
    <3>2. CASE UNCHANGED calls
      BY <3>2
    <3>. QED
      BY <1>2, <3>1, <3>2 DEF Crash, Unregister, StopProcess, Register, hookVars
  <2>. QED
    BY <2>1, <2>2
<1>3. ASSUME NEW c \in calls,
             Fails(c) \/ Continues(c) \/ Modifies(c) \/ Replaces(c) \/ Cancels(c) \/ Waits(c)
      PROVE  ValueInv'
  <2>1. c \in [plugin : Plugin, try : {1, 2}]
    OBVIOUS
  <2>2. calls' \subseteq [plugin : Plugin, try : {1, 2}]
    BY <1>3, <2>1 DEF Fails, Continues, Modifies, Replaces, Cancels, Waits
  <2>. QED
    BY <1>3, <2>1, <2>2 DEF Fails, Continues, Modifies, Replaces, Cancels, Waits, hookRest, taskVars
<1>4. ASSUME NEW p \in Plugin, NEW w \in promised, Resume(p, w)
      PROVE  ValueInv'
  BY <1>4 DEF Resume, hookVars
<1>5. CASE Start \/ ReadIssue \/ AskPlugins
  <2>. USE DEF GoOn, outside, hookVars
  <2>1. ASSUME NEW h \in 0 .. MaxHead, Dispatch(h)
        PROVE  /\ payload' \in [by : Plugin \cup {"core"}, checked : BOOLEAN, head : 0 .. MaxHead]
               /\ payload'.checked /\ payload'.head = h /\ calls' = {}
    BY <2>1 DEF Dispatch
  <2>2. CASE Start
    BY <2>1, <2>2 DEF Start
  <2>3. CASE ReadIssue
    BY <2>1, <2>3 DEF ReadIssue
  <2>4. CASE AskPlugins
    <3>1. CASE Dispatch(fetched) /\ UNCHANGED used
      BY <2>1, <2>4, <3>1 DEF AskPlugins
    <3>2. CASE stage' = "verdict" /\ used' = {r \in result : r.head = fetched} /\ UNCHANGED hookVars
      BY <2>4, <3>2 DEF AskPlugins
    <3>. QED
      BY <2>4, <3>1, <3>2 DEF AskPlugins
  <2>. QED
    BY <1>5, <2>2, <2>3, <2>4
<1>6. CASE Started \/ ReadPull \/ Reviewed
  BY <1>6 DEF Started, ReadPull, Reviewed, GoOn, outside, hookVars, AttemptInv
<1>7. CASE StoreWait \/ Cancelled \/ Finish \/ EndEarly
  BY <1>7 DEF StoreWait, Cancelled, Finish, EndEarly, Ends, outside, hookVars
<1>8. CASE Requeue \/ HeadMoves
  BY <1>8 DEF Requeue, HeadMoves, taskVars, hookVars
<1>9. CASE Restart
  BY <1>9 DEF Restart, Ends, AttemptInv
<1>. QED
  BY <1>1, <1>2, <1>3, <1>4, <1>5, <1>6, <1>7, <1>8, <1>9 DEF Next, Stopped

(* Every step keeps the results promised.                                   *)
LEMMA WaitStep ==
  ASSUME IInv, [Next]_vars
  PROVE  WaitInv'
<1>. USE DEF IInv, WaitInv, PromisedResultsOnly
<1>1. CASE UNCHANGED <<waiting, result, stored>>
  BY <1>1
<1>2. ASSUME NEW p \in Plugin, NEW w \in promised, Resume(p, w)
      PROVE  WaitInv'
  BY <1>2 DEF Resume
<1>3. CASE AskPlugins
  BY <1>3 DEF AskPlugins, GoOn
<1>4. CASE StoreWait
  BY <1>4 DEF StoreWait
<1>5. CASE ~AskPlugins /\ ~StoreWait /\ ~\E p \in Plugin, w \in promised : Resume(p, w)
  <2>1. UNCHANGED <<waiting, result, stored>>
    BY <1>5 DEF Next, vars, Call, Crash, Unregister, StopProcess, Register, Fails, Continues,
       Modifies, Replaces, Cancels, Waits, hookRest, taskVars, Start, Started, ReadIssue, ReadPull,
       Reviewed, GoOn, Cancelled, Finish, EndEarly, Requeue, HeadMoves, Restart, Stopped
  <2>. QED
    BY <1>1, <2>1
<1>. QED
  BY <1>2, <1>3, <1>4, <1>5

(* A dispatch ends in a wait only by an answer, and only what a plugin has  *)
(* in its hands is stored as a wait.                                        *)
LEMMA PromiseStep ==
  ASSUME IInv, [Next]_vars
  PROVE  PromiseInv'
<1>. USE DEF IInv, PromiseInv, WaitsCanEnd, AttemptInv, None
<1>1. ASSUME UNCHANGED <<status, attempts, stage, fetched, waiting, result, ending>>,
             promised \subseteq promised'
      PROVE  PromiseInv'
  BY <1>1
<1>2. CASE \E p \in Plugin, w \in promised : Resume(p, w)
  BY <1>2 DEF Resume
<1>3. CASE \E c \in calls : Cancels(c)
  BY <1>3 DEF Cancels, hookRest, taskVars
<1>4. CASE \E c \in calls : Waits(c)
  BY <1>4 DEF Waits, hookRest, taskVars
<1>5. CASE AskPlugins
  <2>1. CASE stage' = "pr.review" /\ result' = {} /\ Dispatch(fetched)
    BY <1>5, <2>1 DEF AskPlugins, GoOn, Dispatch, NotEnded
  <2>2. CASE stage' = "verdict" /\ UNCHANGED <<waiting, result>>
    BY <1>5, <2>2 DEF AskPlugins, GoOn
  <2>. QED
    BY <1>5, <2>1, <2>2 DEF AskPlugins
<1>6. CASE StoreWait
  BY <1>6 DEF StoreWait, Ends
<1>7. CASE Start \/ Started \/ ReadIssue \/ ReadPull \/ Reviewed
  BY <1>7 DEF Start, Started, ReadIssue, ReadPull, Reviewed, GoOn
<1>8. CASE Cancelled \/ Finish \/ EndEarly
  BY <1>8 DEF Cancelled, Finish, EndEarly, Ends
<1>9. CASE Requeue \/ Restart
  BY <1>9 DEF Requeue, Restart, Ends, hookVars
<1>10. CASE \/ HeadMoves \/ Stopped \/ UNCHANGED vars
            \/ \E p \in Plugin :
                  Call(p) \/ Crash(p) \/ Unregister(p) \/ StopProcess(p) \/ Register(p)
            \/ \E c \in calls : Fails(c) \/ Continues(c) \/ Modifies(c) \/ Replaces(c)
  <2>1. UNCHANGED <<status, attempts, stage, fetched, waiting, result, ending, promised>>
    BY <1>10 DEF HeadMoves, Stopped, vars, Call, Crash, Unregister, StopProcess, Register,
       Fails, Continues, Modifies, Replaces, hookRest, taskVars, hookVars
  <2>. QED
    BY <1>1, <2>1
<1>. QED
  BY <1>2, <1>3, <1>4, <1>5, <1>6, <1>7, <1>8, <1>9, <1>10 DEF Next

(* A call is added for a plugin that has yet to be called, and in a serial  *)
(* dispatch only when no other is under way.                                *)
LEMMA CallStep ==
  ASSUME IInv, [Next]_vars
  PROVE  CallsAreSingle'
<1>. USE DEF IInv, CallsAreSingle, Dispatching, Parallel
<1>1. ASSUME UNCHANGED <<stage, todo>>, calls' \subseteq calls
      PROVE  CallsAreSingle'
  BY <1>1
<1>2. CASE \E p \in Plugin : Call(p)
  <2>1. PICK p \in Plugin : Call(p)
    BY <1>2
  <2>2. /\ stage' = stage /\ p \in todo /\ todo' = todo \ {p}
        /\ ~Parallel => calls = {}
        /\ calls' \subseteq calls \cup {[plugin |-> p, try |-> 1]}
    BY <2>1 DEF Call, taskVars
  <2>3. \A c \in calls' \ calls : c.plugin = p /\ c = [plugin |-> p, try |-> 1]
    BY <2>2
  <2>4. \A c \in calls : c.plugin # p /\ c.plugin \notin todo
    BY <2>2
  <2>. QED
    BY <2>2, <2>3, <2>4
<1>3. CASE \E c \in calls : Fails(c)
  <2>1. PICK c \in calls : Fails(c)
    BY <1>3
  <2>2. c \in [plugin : Plugin, try : {1, 2}]
    BY DEF ValueInv
  <2>3. UNCHANGED <<stage, todo>>
    BY <2>1 DEF Fails, hookRest, taskVars
  <2>4. CASE calls' = calls \ {c}
    BY <1>1, <2>3, <2>4
  <2>5. CASE calls' = (calls \ {c}) \cup {[c EXCEPT !.try = 2]} /\ Parallel
    <3>1. [c EXCEPT !.try = 2].plugin = c.plugin
      BY <2>2
    <3>. QED
      BY <2>3, <2>5, <3>1
  <2>. QED
    BY <2>1, <2>2, <2>4, <2>5 DEF Fails, Tries
<1>4. CASE \E c \in calls :
              Continues(c) \/ Modifies(c) \/ Replaces(c) \/ Cancels(c) \/ Waits(c)
  BY <1>1, <1>4 DEF Continues, Modifies, Replaces, Cancels, Waits, hookRest, taskVars
<1>5. CASE calls' = {}
  BY <1>5
<1>6. CASE Started \/ ReadPull \/ Reviewed \/ StoreWait \/ Cancelled \/ Finish \/ EndEarly
  BY <1>6 DEF Started, ReadPull, Reviewed, StoreWait, Cancelled, Finish, EndEarly, Ends,
              hookVars, None
<1>7. CASE AskPlugins
  BY <1>5, <1>7 DEF AskPlugins, Dispatch, hookVars
<1>8. CASE Start \/ ReadIssue \/ Restart
  BY <1>5, <1>8 DEF Start, ReadIssue, Restart, Dispatch
<1>9. CASE \/ Requeue \/ HeadMoves \/ Stopped \/ UNCHANGED vars
           \/ \E p \in Plugin : Crash(p) \/ Unregister(p) \/ StopProcess(p) \/ Register(p)
           \/ \E p \in Plugin, w \in promised : Resume(p, w)
  BY <1>1, <1>9 DEF Requeue, HeadMoves, Stopped, vars, Crash, Unregister, StopProcess,
                    Register, Resume, hookVars, taskVars
<1>. QED
  BY <1>2, <1>3, <1>4, <1>6, <1>7, <1>8, <1>9 DEF Next

(***************************************************************************)
(* Types.                                                                   *)
(***************************************************************************)
(* The registry without a plugin that is in it.                             *)
LEMMA WithoutIs ==
  ASSUME loaded \in Seq(Plugin), RegisteredOnce, NEW p \in Loaded
  PROVE  /\ Without(p) \in Seq(Plugin)
         /\ \A i \in DOMAIN Without(p) : Without(p)[i] # p
         /\ \A i, j \in DOMAIN Without(p) : Without(p)[i] = Without(p)[j] => i = j
<1>. DEFINE place == CHOOSE i \in DOMAIN loaded : loaded[i] = p
            n == Len(loaded)
<1>1. place \in 1 .. n /\ loaded[place] = p /\ DOMAIN loaded = 1 .. n /\ n \in Nat
  BY DEF Loaded
<1>2. Without(p) = [i \in 1 .. n - 1 |-> IF i < place THEN loaded[i] ELSE loaded[i + 1]]
  BY DEF Without
<1>. HIDE DEF place
<1>3. \A i \in 1 .. n - 1 : Without(p)[i] \in Plugin
  BY <1>1, <1>2
<1>4. Without(p) \in [1 .. n - 1 -> Plugin] /\ n - 1 \in Nat
  BY <1>1, <1>2, <1>3
<1>5. Without(p) \in Seq(Plugin)
  BY <1>4
<1>6. \A i \in 1 .. n - 1 : Without(p)[i] # p
  BY <1>1, <1>2 DEF RegisteredOnce
<1>7. \A i, j \in 1 .. n - 1 : Without(p)[i] = Without(p)[j] => i = j
  BY <1>1, <1>2 DEF RegisteredOnce
<1>. QED
  BY <1>4, <1>5, <1>6, <1>7

(* Every step keeps the registry a list of different plugins.               *)
LEMMA RegistryStep ==
  ASSUME IInv, [Next]_vars
  PROVE  loaded' \in Seq(Plugin) /\ RegisteredOnce'
<1>. USE DEF IInv, TypeOK
<1>1. CASE UNCHANGED loaded
  BY <1>1 DEF RegisteredOnce
<1>2. ASSUME NEW p \in Plugin, Unregister(p)
      PROVE  loaded' \in Seq(Plugin) /\ RegisteredOnce'
  BY <1>2, WithoutIs DEF Unregister, RegisteredOnce
<1>3. ASSUME NEW p \in Plugin, Register(p)
      PROVE  loaded' \in Seq(Plugin) /\ RegisteredOnce'
  <2>. DEFINE rest == IF p \in Loaded THEN Without(p) ELSE loaded
  <2>1. /\ rest \in Seq(Plugin)
        /\ \A i \in DOMAIN rest : rest[i] # p
        /\ \A i, j \in DOMAIN rest : rest[i] = rest[j] => i = j
    BY WithoutIs DEF Loaded, RegisteredOnce
  <2>2. loaded' = Append(rest, p)
    BY <1>3 DEF Register
  <2>. HIDE DEF rest
  <2>. QED
    BY <2>1, <2>2 DEF RegisteredOnce
<1>4. CASE ~\E p \in Plugin : Unregister(p) \/ Register(p)
  <2>1. UNCHANGED loaded
    BY <1>4 DEF Next, vars, Call, Crash, StopProcess, Fails, Continues, Modifies, Replaces,
       Cancels, Waits, hookRest, pluginVars, Resume, Start, Started, ReadIssue, ReadPull,
       AskPlugins, StoreWait, Cancelled, Reviewed, Finish, EndEarly, GoOn, outside, Requeue,
       HeadMoves, Restart, Stopped
  <2>. QED
    BY <1>1, <2>1
<1>. QED
  BY <1>2, <1>3, <1>4

(* Where a plugin is asked for a review, the pull request has been read.    *)
LEMMA HeadStep ==
  ASSUME IInv, [Next]_vars
  PROVE  HeadRead'
<1>. USE DEF IInv, HeadRead
<1>1. CASE ReadPull
  BY <1>1 DEF ReadPull, TypeOK
<1>2. CASE AskPlugins
  BY <1>2 DEF AskPlugins
<1>3. CASE UNCHANGED <<stage, fetched>>
  BY <1>3
<1>4. CASE stage' \notin {"hook", "pr.review"}
  BY <1>4
<1>5. stage' \notin {"hook", "pr.review"} \/ UNCHANGED <<stage, fetched>>
          \/ ReadPull \/ AskPlugins
  BY DEF Next, vars, Call, Crash, Unregister, StopProcess, Register, Fails, Continues,
     Modifies, Replaces, Cancels, Waits, hookRest, taskVars, Resume, Start, Started,
     ReadIssue, StoreWait, Cancelled, Reviewed, Finish, EndEarly, Ends, GoOn, Requeue,
     HeadMoves, Restart, Stopped, None
<1>. QED
  BY <1>1, <1>2, <1>3, <1>4, <1>5

(* A dispatch starts with the registry as it is.                            *)
LEMMA DispatchTypes ==
  ASSUME TypeOK, NEW h \in 0 .. MaxHead, Dispatch(h)
  PROVE  /\ order' \in Seq(Plugin) /\ todo' \subseteq Plugin
         /\ calls' \subseteq [plugin : Plugin, try : {1, 2}]
         /\ payload' \in [by : Plugin \cup {"core"}, checked : BOOLEAN, head : 0 .. MaxHead]
         /\ ending' \in [action : {None, "cancel", "wait"}, by : Plugin \cup {"core"}]
BY DEF Dispatch, TypeOK, Loaded, NotEnded

(* Every step keeps the types.                                              *)
LEMMA TypeStep ==
  ASSUME IInv, [Next]_vars
  PROVE  TypeOK'
<1>0. loaded' \in Seq(Plugin)
  BY RegistryStep
<1>. USE <1>0, ReviewAssumption DEF IInv, TypeOK, AtMostOne, Heads, None
<1>1. CASE UNCHANGED vars
  BY <1>1 DEF vars, taskVars, hookVars, pluginVars, bounds
<1>2. ASSUME NEW p \in Plugin, Call(p)
      PROVE  TypeOK'
  <2>1. calls' \subseteq [plugin : Plugin, try : {1, 2}]
    BY ValueStep DEF ValueInv
  <2>. QED
    BY <1>2, <2>1 DEF Call, taskVars, pluginVars, bounds
<1>3. ASSUME NEW p \in Plugin, Crash(p) \/ Unregister(p) \/ StopProcess(p) \/ Register(p)
      PROVE  TypeOK'
  <2>1. UNCHANGED <<taskVars, head, hookVars, promised, stored>> /\ up' \subseteq Plugin
    BY <1>3 DEF Crash, Unregister, StopProcess, Register
  <2>2. requeues' \in 0 .. MaxRequeues /\ failures' \in 0 .. MaxFailures
    BY <1>3 DEF Crash, Unregister, StopProcess, Register, Fault, bounds
  <2>. QED
    BY <2>1, <2>2 DEF taskVars, hookVars
<1>4. ASSUME NEW c \in calls,
             Fails(c) \/ Continues(c) \/ Modifies(c) \/ Replaces(c)
      PROVE  TypeOK'
  <2>1. /\ calls' \subseteq [plugin : Plugin, try : {1, 2}]
        /\ payload' \in [by : Plugin \cup {"core"}, checked : BOOLEAN, head : 0 .. MaxHead]
    BY ValueStep DEF ValueInv
  <2>2. UNCHANGED <<hookRest, ending, promised>>
    BY <1>4 DEF Fails, Continues, Modifies, Replaces
  <2>. QED
    BY <2>1, <2>2 DEF hookRest, taskVars, pluginVars, bounds
<1>5. ASSUME NEW c \in calls, Cancels(c) \/ Waits(c)
      PROVE  TypeOK'
  <2>1. /\ calls' \subseteq [plugin : Plugin, try : {1, 2}]
        /\ payload' \in [by : Plugin \cup {"core"}, checked : BOOLEAN, head : 0 .. MaxHead]
    BY ValueStep DEF ValueInv
  <2>2. c.plugin \in Plugin
    OBVIOUS
  <2>3. ending' \in [action : {None, "cancel", "wait"}, by : Plugin \cup {"core"}]
    BY <1>5, <2>2 DEF Cancels, Waits
  <2>4. promised' \subseteq Wait
    BY <1>5, <2>2 DEF Cancels, Waits, Wait, HeadRead
  <2>5. UNCHANGED hookRest
    BY <1>5 DEF Cancels, Waits
  <2>. QED
    BY <2>1, <2>3, <2>4, <2>5 DEF hookRest, taskVars, pluginVars, bounds
<1>6. ASSUME NEW p \in Plugin, NEW w \in promised, Resume(p, w)
      PROVE  TypeOK'
  BY <1>6 DEF Resume, Wait, hookVars, pluginVars, bounds
<1>7. CASE Start \/ ReadIssue
  <2>1. \E h \in 0 .. MaxHead : Dispatch(h)
    BY <1>7 DEF Start, ReadIssue
  <2>2. /\ order' \in Seq(Plugin) /\ todo' \subseteq Plugin
        /\ calls' \subseteq [plugin : Plugin, try : {1, 2}]
        /\ payload' \in [by : Plugin \cup {"core"}, checked : BOOLEAN, head : 0 .. MaxHead]
        /\ ending' \in [action : {None, "cancel", "wait"}, by : Plugin \cup {"core"}]
    BY <2>1, DispatchTypes
  <2>3. CASE Start
    BY <2>2, <2>3 DEF Start, outside, pluginVars, bounds
  <2>4. CASE ReadIssue
    BY <2>2, <2>4 DEF ReadIssue, GoOn, outside, pluginVars, bounds
  <2>. QED
    BY <1>7, <2>3, <2>4
<1>8. CASE AskPlugins
  <2>1. CASE Dispatch(fetched) /\ stage' = "pr.review" /\ result' = {}
             /\ waiting' \in {waiting, {}} /\ UNCHANGED used
    BY <1>8, <2>1, DispatchTypes DEF AskPlugins, GoOn, outside, pluginVars, bounds
  <2>2. CASE stage' = "verdict" /\ used' = {r \in result : r.head = fetched}
             /\ UNCHANGED <<waiting, result, hookVars>>
    <3>1. used' \subseteq [by : Plugin \cup {"core"}, head : Heads] /\ AtMostOne(used')
      BY <2>2
    <3>. QED
      BY <1>8, <2>2, <3>1 DEF AskPlugins, GoOn, outside, hookVars, pluginVars, bounds
  <2>. QED
    BY <1>8, <2>1, <2>2 DEF AskPlugins
<1>9. CASE Started \/ ReadPull
  <2>1. CASE Started
    BY <2>1 DEF Started, GoOn, outside, hookVars, pluginVars, bounds
  <2>2. CASE ReadPull
    BY <2>2 DEF ReadPull, GoOn, outside, hookVars, pluginVars, bounds
  <2>. QED
    BY <1>9, <2>1, <2>2
<1>10. CASE Reviewed
  <2>1. used' = {[by |-> payload.by, head |-> payload.head]} /\ payload.head = fetched
        /\ fetched \in Heads
    BY <1>10 DEF Reviewed, Dispatching, ValueInv, HeadRead
  <2>2. used' \subseteq [by : Plugin \cup {"core"}, head : Heads] /\ AtMostOne(used')
    BY <2>1
  <2>. QED
    BY <1>10, <2>2 DEF Reviewed, GoOn, outside, hookVars, pluginVars, bounds
<1>11. CASE StoreWait
  <2>1. [plugin |-> ending.by, attempt |-> attempts, head |-> fetched] \in promised
    BY <1>11 DEF StoreWait, PromiseInv
  <2>2. waiting' \subseteq Wait /\ stored' \subseteq Wait /\ AtMostOne(waiting')
    BY <1>11, <2>1 DEF StoreWait
  <2>. QED
    BY <1>11, <2>2 DEF StoreWait, Ends, outside, hookVars, pluginVars, bounds
<1>12. CASE Cancelled \/ Finish \/ EndEarly
  BY <1>12 DEF Cancelled, Finish, EndEarly, Ends, outside, hookVars, pluginVars, bounds
<1>13. CASE Requeue \/ HeadMoves
  <2>1. CASE Requeue
    BY <2>1 DEF Requeue, hookVars, pluginVars
  <2>2. CASE HeadMoves
    BY <2>2 DEF HeadMoves, taskVars, hookVars, pluginVars, bounds
  <2>. QED
    BY <1>13, <2>1, <2>2
<1>14. CASE Restart
  BY <1>14 DEF Restart, Fault, Ends, NotEnded, pluginVars
<1>. QED
  BY <1>1, <1>2, <1>3, <1>4, <1>5, <1>6, <1>7, <1>8, <1>9, <1>10, <1>11, <1>12, <1>13,
     <1>14 DEF Next, Stopped

(* The invariant of the proofs always holds.                                *)
THEOREM Invariance == Spec => []IInv
<1>1. Init => IInv
  <2>. SUFFICES ASSUME Init PROVE IInv
    OBVIOUS
  <2>1. AttemptInv /\ ValueInv /\ WaitInv /\ PromiseInv /\ CallsAreSingle /\ HeadRead
    BY ReviewAssumption
       DEF Init, AttemptInv, ValueInv, WaitInv, PromisedResultsOnly, None, Heads,
           Dispatching, PromiseInv, WaitsCanEnd, CallsAreSingle, HeadRead
  <2>2. Cardinality(Plugin) \in Nat
    BY ReviewAssumption, FS_CardinalityType
  <2>3. loaded \in Seq(Plugin) /\ RegisteredOnce
    BY <2>2 DEF Init, RegisteredOnce
  <2>4. TypeOK
    BY <2>3, ReviewAssumption DEF Init, TypeOK, AtMostOne, None, Heads, NotEnded
  <2>. QED
    BY <2>1, <2>3, <2>4 DEF IInv
<1>2. IInv /\ [Next]_vars => IInv'
  BY AttemptStep, ValueStep, WaitStep, PromiseStep, CallStep, TypeStep, RegistryStep,
     HeadStep DEF IInv
<1>. QED
  BY <1>1, <1>2, PTL DEF Spec

(* The task, the registry and the hook under way stay in their types.       *)
THEOREM TypeCorrect == Spec => []TypeOK
<1>1. IInv => TypeOK
  BY DEF IInv
<1>. QED
  BY <1>1, Invariance, PTL

(* The registry has one entry for each plugin, in a definite load order     *)
(* (register, unregister): it is what makes the order of calls definite.    *)
THEOREM OneEntry == Spec => []RegisteredOnce
<1>1. IInv => RegisteredOnce
  BY DEF IInv
<1>. QED
  BY <1>1, Invariance, PTL

(* The verdict of an attempt is about the head it has fetched, whoever made *)
(* it and whenever (process, _resume_review).                               *)
THEOREM VerdictOfHead == Spec => []ReviewIsOfItsHead
<1>1. IInv => ReviewIsOfItsHead
  BY DEF IInv, ValueInv, ReviewIsOfItsHead
<1>. QED
  BY <1>1, Invariance, PTL

(* Only validated values about the fetched head go through dispatch_hook.   *)
THEOREM ValidatedOnly == Spec => []ValidatedValuesFlow
<1>1. IInv => ValidatedValuesFlow
  BY DEF IInv, ValueInv, ValidatedValuesFlow
<1>. QED
  BY <1>1, Invariance, PTL

(* A stored review answers a wait that the task was in (_resume_review).    *)
THEOREM OnlyPromised == Spec => []PromisedResultsOnly
<1>1. IInv => PromisedResultsOnly
  BY DEF IInv, WaitInv
<1>. QED
  BY <1>1, Invariance, PTL

(* A waiting task has stored the invocation that a plugin holds, and keeps   *)
(* no review that would refuse the plugin's (the wait of the pr.review hook *)
(* and _resume_review): the safety that its resumption rests on.            *)
THEOREM WaitsAnswerable == Spec => []WaitsCanEnd
<1>1. IInv => WaitsCanEnd
  BY DEF IInv, PromiseInv
<1>. QED
  BY <1>1, Invariance, PTL

(* dispatch_hook has one call per plugin at a time, and one at a time where *)
(* the hook is serial, through failures, retries and registrations.         *)
THEOREM CalledOnce == Spec => []CallsAreSingle
<1>1. IInv => CallsAreSingle
  BY DEF IInv
<1>. QED
  BY <1>1, Invariance, PTL
===============================================================================
