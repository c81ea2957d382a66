---------------------------- MODULE PluginReview ----------------------------
(***************************************************************************)
(* Hooks of plugins in the processing of a task: the registry and           *)
(* dispatch_hook in plugin_api_v2.py, _invoke_extension and _resume_review  *)
(* in plugin_manager.py, and the places of tasks.py that dispatch           *)
(* task.started, issue.analysis_prompt and pr.review and that wait for the  *)
(* review of a plugin.  A payload is abstracted to who made it, whether its *)
(* schema was checked and the head it is about.  The invocation of a plugin *)
(* in an attempt is named by the two, as each is called once per hook.      *)
(***************************************************************************)
EXTENDS Integers, Sequences, FiniteSets

CONSTANTS
    Plugin,
    Priority,    \* [Plugin -> priority of its hooks]
    Kind,        \* kinds of task to look at: "pull_request", "issue"
    MaxHead,     \* bound: heads the pull request ever has
    MaxRequeues, \* bound: retries and rechecks by the owner
    MaxFailures  \* bound: plugins that end or are disabled

ASSUME ReviewAssumption ==
    /\ IsFiniteSet(Plugin)
    /\ Priority \in [Plugin -> Int]
    /\ Kind \subseteq {"pull_request", "issue"}
    /\ MaxHead \in Nat \ {0} /\ MaxRequeues \in Nat /\ MaxFailures \in Nat

VARIABLES
    kind,     \* the task's kind
    status,   \* the task's status
    attempts, \* the task's attempts
    stage,    \* where process() is
    head,     \* the pull request's head at GitHub
    fetched,  \* the head this attempt has read
    waiting,  \* data["plugin_waiting"], as a set of at most one record
    result,   \* data["plugin_review_result"], as a set of at most one record
    used,     \* the verdict this attempt goes on with, likewise (history)
    loaded,   \* plugins in the registry, in load order
    up,       \* plugins whose process runs
    todo,     \* dispatch_hook: plugins that have yet to be called
    order,    \* dispatch_hook: the load order it goes by
    calls,    \* dispatch_hook: calls under way
    payload,  \* dispatch_hook: the current payload
    ending,   \* dispatch_hook: how it ended, with the plugin that did it
    promised, \* invocations for which a plugin has answered "wait"
    stored,   \* waits the task was ever in (history)
    requeues, failures

taskVars == <<kind, status, attempts, stage, fetched, waiting, result, used>>
hookVars == <<todo, order, calls, payload, ending>>
pluginVars == <<loaded, up>>
bounds == <<requeues, failures>>
vars == <<taskVars, head, pluginVars, hookVars, promised, stored, bounds>>

Heads == 1 .. MaxHead
None == "none"
Wait == [plugin : Plugin, attempt : Nat, head : Heads]

AtMostOne(S) == \A x, y \in S : x = y

TypeOK ==
    /\ kind \in Kind
    /\ status \in {"queued", "running", "waiting_for_plugin", "review_cancelled",
                   "cancelled_by_plugin", "failed", "interrupted", "deferred", "finished"}
    /\ attempts \in Nat /\ requeues \in 0 .. MaxRequeues /\ failures \in 0 .. MaxFailures
    /\ stage \in {None, "task.started", "context", "hook", "pr.review",
                  "issue.analysis_prompt", "verdict", "publish"}
    /\ head \in Heads /\ fetched \in 0 .. MaxHead
    /\ waiting \subseteq Wait /\ AtMostOne(waiting)
    /\ result \subseteq [by : Plugin, head : Heads] /\ AtMostOne(result)
    /\ used \subseteq [by : Plugin \cup {"core"}, head : Heads] /\ AtMostOne(used)
    /\ loaded \in Seq(Plugin) /\ order \in Seq(Plugin)
    /\ up \subseteq Plugin /\ todo \subseteq Plugin
    /\ calls \subseteq [plugin : Plugin, try : {1, 2}]
    /\ payload \in [by : Plugin \cup {"core"}, checked : BOOLEAN, head : 0 .. MaxHead]
    /\ ending \in [action : {None, "cancel", "wait"}, by : Plugin \cup {"core"}]
    /\ promised \subseteq Wait /\ stored \subseteq Wait

Loaded == {loaded[i] : i \in DOMAIN loaded}

NotEnded == [action |-> None, by |-> "core"]

Init ==
    /\ kind \in Kind
    /\ status = "queued" /\ attempts = 0 /\ stage = None
    /\ head = 1 /\ fetched = 0
    /\ waiting = {} /\ result = {} /\ used = {}
    /\ loaded \in {s \in [1 .. Cardinality(Plugin) -> Plugin] :
                      \A i, j \in DOMAIN s : s[i] = s[j] => i = j}
    /\ up = Plugin
    /\ todo = {} /\ order = <<>> /\ calls = {}
    /\ payload = [by |-> "core", checked |-> TRUE, head |-> 0]
    /\ ending = NotEnded
    /\ promised = {} /\ stored = {}
    /\ requeues = 0 /\ failures = 0

(***************************************************************************)
(* dispatch_hook.                                                           *)
(***************************************************************************)
Dispatching == stage \in {"task.started", "issue.analysis_prompt", "pr.review"}
Parallel == stage = "task.started"
Tries == IF stage = "task.started" THEN 2 ELSE 1

Dispatch(h) ==
    /\ todo' = Loaded /\ order' = loaded /\ calls' = {}
    /\ payload' = [by |-> "core", checked |-> TRUE, head |-> h]
    /\ ending' = NotEnded

Place(p) == CHOOSE i \in DOMAIN order : order[i] = p

(* Entries are sorted by priority, then by load order.                      *)
Before(p, q) ==
    \/ Priority[p] < Priority[q]
    \/ Priority[p] = Priority[q] /\ Place(p) < Place(q)

(* Hooks that may run in parallel are all called, the others one by one.  A *)
(* plugin that drains or whose process has ended refuses at once.           *)
Call(p) ==
    /\ Dispatching /\ p \in todo /\ ending = NotEnded
    /\ ~Parallel => calls = {} /\ \A q \in todo \ {p} : Before(p, q)
    /\ todo' = todo \ {p}
    /\ calls' = IF p \in Loaded \cap up THEN calls \cup {[plugin |-> p, try |-> 1]}
                ELSE calls
    /\ UNCHANGED <<taskVars, head, pluginVars, order, payload, ending, promised, stored,
                   bounds>>

hookRest == <<taskVars, head, pluginVars, todo, order, stored, bounds>>

(* The end of the process, a time limit and an answer that is refused are   *)
(* all failures: one more try where the hook is safe to retry, and then the *)
(* dispatch goes on with what it had.                                       *)
Fails(c) ==
    /\ c \in calls
    /\ calls' = IF c.try < Tries
                THEN (calls \ {c}) \cup {[c EXCEPT !.try = 2]}
                ELSE calls \ {c}
    /\ UNCHANGED <<hookRest, payload, ending, promised>>

(* A notification that returns, or the answer "continue".                   *)
Continues(c) ==
    /\ c \in calls /\ c.plugin \in up
    /\ calls' = calls \ {c}
    /\ UNCHANGED <<hookRest, payload, ending, promised>>

(* Mutant of Modifies: the value is taken over before it is validated.      *)
ModifiesFirst(c) ==
    /\ stage = "issue.analysis_prompt" /\ c \in calls /\ c.plugin \in up
    /\ calls' = calls \ {c}
    /\ \E valid \in BOOLEAN :
         payload' = [payload EXCEPT !.by = c.plugin, !.checked = valid]
    /\ UNCHANGED <<hookRest, ending, promised>>

(* "modify" in a pipeline; a payload that does not match fails.             *)
Modifies(c) ==
    /\ stage = "issue.analysis_prompt" /\ c \in calls /\ c.plugin \in up
    /\ calls' = calls \ {c}
    /\ payload' = [payload EXCEPT !.by = c.plugin]
    /\ UNCHANGED <<hookRest, ending, promised>>

(* "replace" with a review of the head in the original payload; of another  *)
(* head it is stale and fails.                                              *)
Replaces(c) ==
    /\ stage = "pr.review" /\ c \in calls /\ c.plugin \in up
    /\ calls' = calls \ {c}
    /\ payload' = [payload EXCEPT !.by = c.plugin, !.head = fetched]
    /\ UNCHANGED <<hookRest, ending, promised>>

Cancels(c) ==
    /\ ~Parallel /\ c \in calls /\ c.plugin \in up
    /\ calls' = calls \ {c}
    /\ ending' = [action |-> "cancel", by |-> c.plugin]
    /\ UNCHANGED <<hookRest, payload, promised>>

(* "wait": the plugin has the invocation and the head in its hands.         *)
Waits(c) ==
    /\ stage = "pr.review" /\ c \in calls /\ c.plugin \in up
    /\ calls' = calls \ {c}
    /\ ending' = [action |-> "wait", by |-> c.plugin]
    /\ promised' = promised \cup {[plugin |-> c.plugin, attempt |-> attempts, head |-> fetched]}
    /\ UNCHANGED <<hookRest, payload>>

Dispatched == Dispatching /\ calls = {} /\ (todo = {} \/ ending # NotEnded)

(***************************************************************************)
(* The task.                                                                *)
(***************************************************************************)
outside == <<kind, head, pluginVars, bounds>>
GoOn == UNCHANGED <<status, attempts, outside, promised>>

Start ==
    /\ status = "queued"
    /\ status' = "running" /\ attempts' = attempts + 1
    /\ stage' = "task.started"
    /\ fetched' = 0 /\ used' = {}
    /\ Dispatch(0)
    /\ UNCHANGED <<outside, waiting, result, promised, stored>>

Started ==
    /\ stage = "task.started" /\ Dispatched
    /\ stage' = "context"
    /\ GoOn /\ UNCHANGED <<fetched, waiting, result, used, hookVars, stored>>

(* The prompt of an issue goes through the plugins before the analyzer.     *)
ReadIssue ==
    /\ stage = "context" /\ kind = "issue"
    /\ stage' = "issue.analysis_prompt"
    /\ Dispatch(fetched)
    /\ GoOn /\ UNCHANGED <<fetched, waiting, result, used, stored>>

ReadPull ==
    /\ stage = "context" /\ kind = "pull_request"
    /\ fetched' = head /\ stage' = "hook"
    /\ GoOn /\ UNCHANGED <<waiting, result, used, hookVars, stored>>

(* Mutant of AskPlugins: a result of another head is taken all the same.    *)
AskUnlessResult ==
    /\ stage = "hook"
    /\ IF result # {}
       THEN /\ stage' = "verdict" /\ used' = result
            /\ UNCHANGED <<waiting, result, hookVars>>
       ELSE /\ stage' = "pr.review" /\ Dispatch(fetched) /\ UNCHANGED <<result, waiting, used>>
    /\ UNCHANGED fetched
    /\ GoOn /\ UNCHANGED stored

(* A result that was submitted for this head is used; a stale one is        *)
(* removed, with the wait it answered, and the plugins are asked.           *)
AskPlugins ==
    /\ stage = "hook"
    /\ LET fresh == {r \in result : r.head = fetched} IN
       IF fresh # {}
       THEN /\ stage' = "verdict" /\ used' = fresh
            /\ UNCHANGED <<waiting, result, hookVars>>
       ELSE /\ stage' = "pr.review" /\ result' = {}
            /\ waiting' = IF result = {} THEN waiting ELSE {}
            /\ Dispatch(fetched) /\ UNCHANGED used
    /\ UNCHANGED fetched
    /\ GoOn /\ UNCHANGED stored

Ends(s) == status' = s /\ stage' = None

(* Mutant of StoreWait: the invocation is not stored with the status.       *)
StoreWaitOnly ==
    /\ stage = "pr.review" /\ Dispatched /\ ending.action = "wait"
    /\ Ends("waiting_for_plugin")
    /\ UNCHANGED <<outside, attempts, fetched, waiting, stored, result, used, hookVars,
                   promised>>

StoreWait ==
    /\ stage = "pr.review" /\ Dispatched /\ ending.action = "wait"
    /\ Ends("waiting_for_plugin")
    /\ waiting' = {[plugin |-> ending.by, attempt |-> attempts, head |-> fetched]}
    /\ stored' = stored \cup waiting'
    /\ UNCHANGED <<outside, attempts, fetched, result, used, hookVars, promised>>

Cancelled ==
    /\ stage \in {"pr.review", "issue.analysis_prompt"} /\ Dispatched
    /\ ending.action = "cancel"
    /\ Ends(IF kind = "issue" THEN "cancelled_by_plugin" ELSE "review_cancelled")
    /\ UNCHANGED <<outside, attempts, fetched, waiting, result, used, hookVars, promised,
                   stored>>

(* The last validated payload: a replacement, or Core's own reviewer.       *)
Reviewed ==
    /\ stage = "pr.review" /\ Dispatched /\ ending = NotEnded
    /\ stage' = "verdict"
    /\ used' = {[by |-> payload.by, head |-> payload.head]}
    /\ GoOn /\ UNCHANGED <<fetched, waiting, result, hookVars, stored>>

(* The review is written with the head that was fetched as its commit, or   *)
(* the owner is asked; an issue goes on to its analysis.                    *)
Finish ==
    /\ \/ stage = "verdict"
       \/ stage = "issue.analysis_prompt" /\ Dispatched /\ ending = NotEnded
    /\ \E s \in {"deferred", "finished"} : Ends(s)
    /\ UNCHANGED <<outside, attempts, fetched, waiting, result, used, hookVars, promised,
                   stored>>

(* A draft, a closed, oversized or deferred pull request ends before, and   *)
(* an exception at any stage outside the dispatch ends the attempt.         *)
EndEarly ==
    /\ stage \in {"context", "hook", "verdict"}
    /\ \/ stage # "verdict" /\ Ends("deferred")
       \/ Ends("failed")
    /\ UNCHANGED <<outside, attempts, fetched, waiting, result, used, hookVars, promised,
                   stored>>

(* retry and recheck, and the owner's decision.                             *)
Requeue ==
    /\ status \in {"failed", "interrupted", "deferred"}
    /\ requeues < MaxRequeues /\ requeues' = requeues + 1
    /\ status' = "queued"
    /\ UNCHANGED <<kind, attempts, stage, head, fetched, waiting, result, used, pluginVars,
                   hookVars, promised, stored, failures>>

HeadMoves ==
    /\ kind = "pull_request"
    /\ head < MaxHead /\ head' = head + 1
    /\ UNCHANGED <<taskVars, pluginVars, hookVars, promised, stored, bounds>>

(***************************************************************************)
(* Plugins.                                                                 *)
(***************************************************************************)
(* Mutant of Resume: the review is taken from whoever brings one.           *)
ResumeAny(p, w) ==
    /\ p \in up /\ w \in promised
    /\ status = "waiting_for_plugin" /\ result = {}
    /\ status' = "queued" /\ result' = {[by |-> p, head |-> w.head]}
    /\ UNCHANGED <<kind, attempts, stage, fetched, waiting, used, head, pluginVars,
                   hookVars, promised, stored, bounds>>

(* _resume_review: a plugin submits the review for some invocation; it is   *)
(* refused unless the task waits for just that.                             *)
Resume(p, w) ==
    /\ p \in up /\ w \in promised
    /\ status = "waiting_for_plugin"
    /\ w.plugin = p /\ w \in waiting
    /\ result = {}
    /\ status' = "queued" /\ result' = {[by |-> p, head |-> w.head]}
    /\ UNCHANGED <<kind, attempts, stage, fetched, waiting, used, head, pluginVars,
                   hookVars, promised, stored, bounds>>

Fault == failures < MaxFailures /\ failures' = failures + 1 /\ UNCHANGED requeues

Crash(p) ==
    /\ p \in up /\ Fault
    /\ up' = up \ {p}
    /\ UNCHANGED <<taskVars, head, loaded, hookVars, promised, stored>>

(* The registry without the entry of p.                                     *)
Without(p) ==
    LET place == CHOOSE i \in DOMAIN loaded : loaded[i] = p
    IN [i \in 1 .. Len(loaded) - 1 |-> IF i < place THEN loaded[i] ELSE loaded[i + 1]]

(* disable: the plugin leaves the registry, and its process drains first.   *)
Unregister(p) ==
    /\ p \in Loaded /\ Fault
    /\ loaded' = Without(p)
    /\ UNCHANGED <<taskVars, head, up, hookVars, promised, stored>>

StopProcess(p) ==
    /\ p \notin Loaded /\ p \in up
    /\ up' = up \ {p}
    /\ UNCHANGED <<taskVars, head, loaded, hookVars, promised, stored, bounds>>

(* The heartbeat or the administrator starts it again, at the end.          *)
Register(p) ==
    /\ p \notin up
    /\ up' = up \cup {p}
    /\ loaded' = Append(IF p \in Loaded THEN Without(p) ELSE loaded, p)
    /\ UNCHANGED <<taskVars, head, hookVars, promised, stored, bounds>>

(* The service restarts: a running task is interrupted, one that waits goes *)
(* on waiting.                                                              *)
Restart ==
    /\ Fault
    /\ IF status = "running" THEN Ends("interrupted") ELSE UNCHANGED <<status, stage>>
    /\ todo' = {} /\ calls' = {} /\ order' = <<>>
    /\ payload' = [by |-> "core", checked |-> TRUE, head |-> 0]
    /\ ending' = NotEnded
    /\ UNCHANGED <<kind, attempts, fetched, waiting, result, used, head, pluginVars,
                   promised, stored>>

Stopped == stage = None /\ status # "queued" /\ UNCHANGED vars

Next ==
    \/ \E p \in Plugin :
         Call(p) \/ Crash(p) \/ Unregister(p) \/ StopProcess(p) \/ Register(p)
    \/ \E c \in calls :
         Fails(c) \/ Continues(c) \/ Modifies(c) \/ Replaces(c) \/ Cancels(c) \/ Waits(c)
    \/ \E p \in Plugin, w \in promised : Resume(p, w)
    \/ Start \/ Started \/ ReadIssue \/ ReadPull \/ AskPlugins \/ StoreWait \/ Cancelled
    \/ Reviewed \/ Finish \/ EndEarly \/ Requeue \/ HeadMoves \/ Restart
    \/ Stopped

Spec == Init /\ [][Next]_vars

(* Every call has a time limit, the worker goes on, a plugin that is        *)
(* enabled is started again, and one that has promised a review submits it  *)
(* until it is accepted.                                                    *)
Attempt == Started \/ ReadIssue \/ ReadPull \/ AskPlugins \/ StoreWait \/ Cancelled
           \/ Reviewed \/ Finish

Fairness ==
    /\ WF_vars(Attempt) /\ WF_vars(Start)
    /\ \A p \in Plugin :
         /\ WF_vars(Call(p)) /\ WF_vars(Register(p))
         /\ WF_vars(\E w \in promised : Resume(p, w))
         /\ WF_vars(\E c \in calls : c.plugin = p /\ Fails(c))

FairSpec == Spec /\ Fairness

(***************************************************************************)
(* Properties.                                                              *)
(***************************************************************************)
(* The verdict a pull task goes on with, and writes with the fetched head   *)
(* as its commit, is about that head, whoever made it and however long      *)
(* ago: over waits, pushes to the pull request, retries and restarts.       *)
ReviewIsOfItsHead == \A u \in used : u.head = fetched

(* What a plugin is given, and what goes on after the dispatch, has been    *)
(* validated and is about the head of this attempt; the answer of a plugin  *)
(* that fails is never passed on.                                           *)
ValidatedValuesFlow == Dispatching => payload.checked /\ payload.head = fetched

(* A review that is stored was submitted by the plugin that the task waited *)
(* for, about the head it was asked about.                                  *)
PromisedResultsOnly ==
    \A r \in result : \E w \in stored : w.plugin = r.by /\ w.head = r.head

(* A task that waits has what ends its wait: the invocation of this attempt *)
(* and head is stored, a plugin has it in its hands, and no review is there *)
(* that would refuse the one to come.                                       *)
WaitsCanEnd ==
    status = "waiting_for_plugin" =>
        /\ waiting # {} /\ result = {}
        /\ \A w \in waiting :
              w \in promised /\ w.attempt = attempts /\ w.head = fetched

(* No plugin has two calls of a hook at once, and none is called again that *)
(* has been called: one retry of a failed notification apart.               *)
CallsAreSingle ==
    /\ \A c, d \in calls : c.plugin = d.plugin => c = d
    /\ \A c \in calls : c.plugin \notin todo
    /\ Dispatching /\ ~Parallel => \A c, d \in calls : c = d

(* A plugin has one entry in the registry, so that the order of calls is    *)
(* determined; whatever registers and unregisters while hooks are under way.*)
RegisteredOnce == \A i, j \in DOMAIN loaded : loaded[i] = loaded[j] => i = j

(* A task that waits is resumed, if the plugin does its part: across        *)
(* crashes, restarts of the service, and submissions that come before the   *)
(* wait is stored and are refused.                                          *)
WaitsEnd == (status = "waiting_for_plugin") ~> (status # "waiting_for_plugin")
=============================================================================
