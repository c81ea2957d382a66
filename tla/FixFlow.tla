------------------------------- MODULE FixFlow -------------------------------
(***************************************************************************)
(* An issue task from its fix loop to the merge of the pull request it     *)
(* opened: the code worker, the tests and the reviewer, the outbox rows of *)
(* fix_pr and merge_pr, the pull request on GitHub, the pull request tasks *)
(* that decide about its merge, the endpoints that queue a task again, and *)
(* restarts.                                                               *)
(*                                                                         *)
(* One worker runs one task at a time.  What the code does between two     *)
(* awaits is one action, except where a crash, or a database error, can    *)
(* separate two commits.  What the issue flow does before it creates a     *)
(* sandbox is abstracted to its outcomes.                                  *)
(***************************************************************************)
EXTENDS Naturals

CONSTANTS Patch,      \* what a code worker can produce, and the commit made of it
          Sensitive,  \* the commits that touch workflows, migrations or deployment files
          Pushed,     \* commits other people push to the maintainer's branch
          MaxPulls,   \* webhook deliveries for the pull request
          Thread,     \* concurrent retry, recheck and owner-decision requests
          Issue,      \* the issue task and, as a request, the creation of its pull request
          None        \* the absent value

Commit == Patch \cup Pushed
PullTask == 1..MaxPulls
Task == PullTask \cup {Issue}

\* The GitHub writes, by action key: fix-pr:{task} and merge-pr:{repo}:{number}:{head}.
Write == Commit \cup {Issue}

ASSUME ConstantsOK ==
    /\ MaxPulls \in Nat
    /\ Sensitive \subseteq Commit
    /\ Patch \cap Pushed = {}
    /\ Issue \notin Commit \cup PullTask
    /\ None \notin Commit \cup Task

VARIABLES status,     \* the status of each task
          linked,     \* the issue task's pull_number is that of its pull request
          reviewed,   \* the issue task's pull_head_sha
          tests,      \* the last tests_completed event
          review,     \* the last code_review_completed event, and the patch it is about
          row,        \* outbox rows: status, and the patch of data.paths
          request,    \* the GitHub request of each write, what it creates, the head it
                      \* was answered with
          pull,       \* the maintainer's branch on GitHub, and its pull request
          autoMerge,  \* auto_merge in the repository's configuration
          worker,     \* the coroutine of worker_loop
          thread      \* the task, and its data, that an endpoint thread is about to queue

issueData == <<linked, reviewed>>
timeline == <<tests, review>>
github == <<request, pull>>
vars == <<status, issueData, timeline, row, github, autoMerge, worker, thread>>

-----------------------------------------------------------------------------
TaskStatus == {"none", "queued", "running", "failed", "interrupted", "waiting_for_owner",
               "waiting_for_contributor", "stopped", "pr_created", "merged",
               "bot_merge_deferred", "bot_merged"}
Retryable == {"failed", "interrupted"}
RowStatus == {"none", "pending", "executing", "unknown", "completed"}
PC == {"idle", "triage", "working", "testing", "reviewing", "acting", "reserved",
       "looking", "branching", "sending", "recording", "closing", "destroying", "context"}
Sending == {"looking", "branching", "sending"}
Acting == {"acting", "reserved", "recording"} \cup Sending
IssuePC == {"triage", "working", "testing", "reviewing", "destroying"}
Worker == [pc: PC, task: Task \cup {None}, write: Write \cup {None}, patch: Patch \cup {None},
           round: 1..2, raised: BOOLEAN, autoMerge: BOOLEAN]
IdleWorker == [pc |-> "idle", task |-> None, write |-> None, patch |-> None,
               round |-> 1, raised |-> FALSE, autoMerge |-> FALSE]

\* The creation of the pull request goes through a look-up, the creation of its
\* branch and the opening of the pull request; a merge is one request.
Request == [state: {"unsent", "lookup", "branching", "branched", "inflight", "done", "lost"},
            sent: Nat, patch: Patch \cup {None}, head: Commit \cup {None}]

\* Type correctness.
TypeOK ==
    /\ status \in [Task -> TaskStatus]
    /\ linked \in BOOLEAN
    /\ reviewed \in Commit \cup {None}
    /\ tests \in {"none", "passed", "failed"}
    /\ review \in [approved: BOOLEAN, security: BOOLEAN, patch: Patch \cup {None}]
    /\ row \in [Write -> [status: RowStatus, patch: Patch \cup {None}]]
    /\ request \in [Write -> Request]
    /\ pull \in [state: {"none", "branch", "open", "closed", "merged"},
                 head: Commit \cup {None}]
    /\ autoMerge \in BOOLEAN
    /\ worker \in Worker
    /\ thread \in [Thread -> [task: Task \cup {None}, linked: BOOLEAN,
                              reviewed: Commit \cup {None}]]

NoThread == [task |-> None, linked |-> FALSE, reviewed |-> None]

Init ==
    /\ status = [t \in Task |-> IF t = Issue THEN "queued" ELSE "none"]
    /\ linked = FALSE
    /\ reviewed = None
    /\ tests = "none"
    /\ review = [approved |-> FALSE, security |-> FALSE, patch |-> None]
    /\ row = [w \in Write |-> [status |-> "none", patch |-> None]]
    /\ request = [w \in Write |-> [state |-> "unsent", sent |-> 0, patch |-> None,
                                   head |-> None]]
    /\ pull = [state |-> "none", head |-> None]
    /\ autoMerge \in BOOLEAN
    /\ worker = IdleWorker
    /\ thread = [x \in Thread |-> NoThread]

-----------------------------------------------------------------------------
(***************************************************************************)
(* GitHub and the repository's people.                                     *)
(***************************************************************************)

\* The branch is created at the maintainer's commit, unless it exists.
BranchLands ==
    /\ request[Issue].state = "branching"
    /\ pull.state = "none"
    /\ request' = [request EXCEPT ![Issue].state = "branched"]
    /\ pull' = [state |-> "branch", head |-> request[Issue].patch]
    /\ UNCHANGED <<status, issueData, timeline, row, autoMerge, worker, thread>>

\* The pull request is opened at what the branch holds by now, and the answer
\* names that commit.
CreateLands ==
    /\ request[Issue].state = "inflight"
    /\ pull.state = "branch"
    /\ request' = [request EXCEPT ![Issue].state = "done", ![Issue].head = pull.head]
    /\ pull' = [pull EXCEPT !.state = "open"]
    /\ UNCHANGED <<status, issueData, timeline, row, autoMerge, worker, thread>>

\* merge_pull_request takes effect, only on the head it names.
MergeLands(h) ==
    /\ request[h].state = "inflight"
    /\ pull = [state |-> "open", head |-> h]
    /\ request' = [request EXCEPT ![h].state = "done"]
    /\ pull' = [pull EXCEPT !.state = "merged"]
    /\ UNCHANGED <<status, issueData, timeline, row, autoMerge, worker, thread>>

\* A request never reaches GitHub, or GitHub refuses it.
RequestLost(w) ==
    /\ request[w].state \in {"branching", "inflight"}
    /\ request' = [request EXCEPT ![w].state = "lost"]
    /\ UNCHANGED <<status, issueData, timeline, row, pull, autoMerge, worker, thread>>

\* Someone creates the branch, pushes to it, or back to the maintainer's commit,
\* opens a pull request for it, closes, reopens or merges the pull request.
PullMoves ==
    /\ pull' \in [state: CASE pull.state = "none" -> {"branch"}
                           [] pull.state = "branch" -> {"branch", "open"}
                           [] pull.state \in {"open", "closed"} -> {"open", "closed", "merged"}
                           [] OTHER -> {},
                  head: Pushed \cup ({request[Issue].patch} \ {None})]
    /\ UNCHANGED <<status, issueData, timeline, row, request, autoMerge, worker, thread>>

SetAutoMerge ==
    /\ autoMerge' = ~autoMerge
    /\ UNCHANGED <<status, issueData, timeline, row, github, worker, thread>>

-----------------------------------------------------------------------------
(***************************************************************************)
(* Queueing: webhooks, retry, recheck, owner decisions.                    *)
(***************************************************************************)

\* Opened, synchronize and reopened deliveries of the maintainer's pull request.
Webhook(t) ==
    /\ pull.state = "open"
    /\ status[t] = "none"
    /\ \A u \in PullTask : u < t => status[u] # "none"
    /\ status' = [status EXCEPT ![t] = "queued"]
    /\ UNCHANGED <<issueData, timeline, row, github, autoMerge, worker, thread>>

\* A contributor answers the issue.
Comment ==
    /\ status[Issue] = "waiting_for_contributor"
    /\ status' = [status EXCEPT ![Issue] = "queued"]
    /\ UNCHANGED <<issueData, timeline, row, github, autoMerge, worker, thread>>

\* All outbox rows belong to the issue task, the merge_pr rows too.
Unresolved(t) == t = Issue /\ \E w \in Write : row[w].status \in {"executing", "unknown"}

\* An endpoint thread finds the task fit for retry, recheck or a decision.
CheckRequeue(x, t) ==
    /\ thread[x].task = None
    /\ \/ status[t] \in Retryable /\ ~Unresolved(t)
       \/ t = Issue /\ status[t] = "waiting_for_owner"
       \/ t # Issue /\ status[t] = "bot_merge_deferred" /\ ~Unresolved(t)
    /\ thread' = [thread EXCEPT ![x] =
                      IF t = Issue THEN [task |-> t, linked |-> linked, reviewed |-> reviewed]
                      ELSE [NoThread EXCEPT !.task = t]]
    /\ UNCHANGED <<status, issueData, timeline, row, github, autoMerge, worker>>

\* It queues the task, with the data it has read.
Requeue(x) ==
    /\ thread[x].task # None
    /\ status' = [status EXCEPT ![thread[x].task] = "queued"]
    /\ IF thread[x].task = Issue
       THEN linked' = thread[x].linked /\ reviewed' = thread[x].reviewed
       ELSE UNCHANGED issueData
    /\ thread' = [thread EXCEPT ![x] = NoThread]
    /\ UNCHANGED <<timeline, row, github, autoMerge, worker>>

-----------------------------------------------------------------------------
(***************************************************************************)
(* The worker on the issue: process_issue and fix_issue.                   *)
(***************************************************************************)

\* process: the oldest queued task runs, a pull task under the repository
\* configuration read now.
Process(t) ==
    /\ worker.pc = "idle"
    /\ status[t] = "queued"
    /\ t # Issue => status[Issue] # "queued" /\ \A u \in PullTask : u < t => status[u] # "queued"
    /\ status' = [status EXCEPT ![t] = "running"]
    /\ worker' = [IdleWorker EXCEPT !.pc = IF t = Issue THEN "triage" ELSE "context",
                                    !.task = t, !.autoMerge = t # Issue /\ autoMerge]
    /\ UNCHANGED <<issueData, timeline, row, github, autoMerge, thread>>

\* The task's status changes and the worker is done with it.
Finish(s) ==
    /\ status' = [status EXCEPT ![worker.task] = s]
    /\ worker' = IdleWorker

\* The outcomes of process_issue before a sandbox exists.
LeaveTriage ==
    /\ worker.pc = "triage"
    /\ \E s \in {"stopped", "waiting_for_owner", "waiting_for_contributor", "failed"} : Finish(s)
    /\ UNCHANGED <<issueData, timeline, row, github, autoMerge, thread>>

SandboxCreated ==
    /\ worker.pc = "triage"
    /\ worker' = [worker EXCEPT !.pc = "working"]
    /\ UNCHANGED <<status, issueData, timeline, row, github, autoMerge, thread>>

\* The code worker's run ends; its tests follow.
WorkerCompleted ==
    /\ worker.pc = "working"
    /\ \E p \in Patch \cup {None} :
           worker' = [worker EXCEPT !.pc = "testing", !.patch = p]
    /\ UNCHANGED <<status, issueData, timeline, row, github, autoMerge, thread>>

\* fix_issue returns with a status, or an exception leaves it; the sandbox is
\* destroyed first.
Returns(s) ==
    /\ status' = [status EXCEPT ![Issue] = s]
    /\ worker' = [IdleWorker EXCEPT !.pc = "destroying", !.task = Issue]
Raises ==
    /\ UNCHANGED status
    /\ worker' = [IdleWorker EXCEPT !.pc = "destroying", !.task = Issue, !.raised = TRUE]

\* Mutant of NextRound: the reviewer's feedback always starts another round.
NextRoundForever ==
    /\ UNCHANGED status
    /\ worker' = [worker EXCEPT !.pc = "working", !.round = 2, !.patch = None]

\* The first round's feedback goes into a second round; after it the task fails.
NextRound ==
    \/ /\ worker.round = 1
       /\ UNCHANGED status
       /\ worker' = [worker EXCEPT !.pc = "working", !.round = 2, !.patch = None]
    \/ worker.round = 2 /\ Returns("failed")

\* The tests have run.  Without a change, with too large a one, or with files
\* that cannot be read, the task ends here.
TestsCompleted ==
    /\ worker.pc = "testing"
    /\ \/ tests' = "failed" /\ NextRound
       \/ /\ tests' = "passed"
          /\ \/ worker.patch = None /\ \E s \in {"stopped", "waiting_for_owner"} : Returns(s)
             \/ worker.patch # None /\ Returns("waiting_for_owner")
             \/ Raises
             \/ /\ worker.patch # None
                /\ UNCHANGED status
                /\ worker' = [worker EXCEPT !.pc = "reviewing"]
    /\ UNCHANGED <<issueData, review, row, github, autoMerge, thread>>

\* The independent reviewer's verdict; approved stands for an approval without
\* blocking issues and at low risk.
CodeReviewCompleted ==
    /\ worker.pc = "reviewing"
    /\ \E approved, security \in BOOLEAN :
          /\ review' = [approved |-> approved, security |-> security, patch |-> worker.patch]
          /\ \/ /\ approved
                /\ UNCHANGED status
                /\ worker' = [worker EXCEPT !.pc = "acting", !.write = Issue]
             \/ ~approved /\ (Returns("waiting_for_owner") \/ NextRound)
    /\ UNCHANGED <<issueData, tests, row, github, autoMerge, thread>>

\* Any await of the fix loop fails.
FixFails ==
    /\ worker.pc \in {"working", "testing", "reviewing"}
    /\ Raises
    /\ UNCHANGED <<issueData, timeline, row, github, autoMerge, thread>>

\* The sandbox is destroyed, and process records the exception if there is one.
SandboxDestroyed ==
    /\ worker.pc = "destroying"
    /\ \/ worker.raised /\ Finish("failed")
       \/ ~worker.raised /\ worker' = IdleWorker /\ UNCHANGED status
    /\ UNCHANGED <<issueData, timeline, row, github, autoMerge, thread>>

\* The destruction fails, which is an exception of its own.
SandboxDestroyFails ==
    /\ worker.pc = "destroying"
    /\ Finish("failed")
    /\ UNCHANGED <<issueData, timeline, row, github, autoMerge, thread>>

-----------------------------------------------------------------------------
(***************************************************************************)
(* The worker on the pull request: process_bot_pull.                       *)
(***************************************************************************)

\* Mutant of HeadReviewed: that there was a review is enough.
HeadReviewedOnce(h) == reviewed # None

\* reviewed_sha is the current head: a task without a pull_head_sha falls back
\* on a single commit with the parent that the fix was made on.
HeadReviewed(h) == reviewed \in {h, None}

\* No blocker and no reason to defer, the result of the CI apart.
MayMerge(h) ==
    /\ worker.autoMerge
    /\ linked
    /\ row[Issue].status = "completed"
    /\ row[Issue].patch \notin Sensitive
    /\ tests = "passed"
    /\ review.approved /\ ~review.security
    /\ status[Issue] \in {"pr_created", "merged"}
    /\ HeadReviewed(h)

\* pull_context has been loaded; the merge is decided on it and on the issue
\* task's record.  ci stands for what GitHub says: checks, statuses, the marker
\* in the pull request's body and, for the fallback, the parent of the commit.
PullContext ==
    /\ worker.pc = "context"
    /\ \E ci \in BOOLEAN :
          \/ /\ ci /\ MayMerge(pull.head)
             /\ worker' = [worker EXCEPT !.pc = "acting", !.write = pull.head]
             /\ UNCHANGED status
          \/ ~(ci /\ MayMerge(pull.head)) /\ Finish("bot_merge_deferred")
    /\ UNCHANGED <<issueData, timeline, row, github, autoMerge, thread>>

\* GitHub's answers do not arrive, or are inconsistent.
PullContextFails ==
    /\ worker.pc = "context"
    /\ Finish("failed")
    /\ UNCHANGED <<issueData, timeline, row, github, autoMerge, thread>>

-----------------------------------------------------------------------------
(***************************************************************************)
(* github_action for fix_pr and merge_pr.                                  *)
(***************************************************************************)

\* The action raises: the issue's sandbox is destroyed, a pull task just fails.
ActionRaises ==
    \/ worker.task = Issue /\ Raises
    \/ worker.task # Issue /\ Finish("failed")

\* reserve: a new row, or the one an earlier attempt left pending.
Reserve ==
    /\ worker.pc = "acting"
    /\ row[worker.write].status \in {"none", "pending"}
    /\ IF row[worker.write].status = "none"
       THEN row' = [row EXCEPT ![worker.write] = [status |-> "pending", patch |-> worker.patch]]
       ELSE UNCHANGED row
    /\ worker' = [worker EXCEPT !.pc = "reserved"]
    /\ UNCHANGED <<status, issueData, timeline, github, autoMerge, thread>>

\* An action without a known outcome is not repeated.
RefuseAction ==
    /\ worker.pc = "acting"
    /\ row[worker.write].status \in {"executing", "unknown"}
    /\ ActionRaises
    /\ UNCHANGED <<issueData, timeline, row, github, autoMerge, thread>>

\* Mutant of ReuseCreate: the stored task keeps the number it had.
ReuseCreateLinked ==
    /\ worker.pc = "acting"
    /\ worker.write = Issue
    /\ row[Issue].status = "completed"
    /\ Returns("pr_created")
    /\ UNCHANGED <<issueData, timeline, row, github, autoMerge, thread>>

\* A completed fix_pr is reused.  Its row gives an id and a URL, so the task's
\* pull_number and pull_head_sha become None.
ReuseCreate ==
    /\ worker.pc = "acting"
    /\ worker.write = Issue
    /\ row[Issue].status = "completed"
    /\ Returns("pr_created")
    /\ linked' = FALSE
    /\ reviewed' = None
    /\ UNCHANGED <<timeline, row, github, autoMerge, thread>>

\* A completed merge_pr is reused.
ReuseMerge ==
    /\ worker.pc = "acting"
    /\ worker.write # Issue
    /\ row[worker.write].status = "completed"
    /\ worker' = [worker EXCEPT !.pc = "recording"]
    /\ UNCHANGED <<status, issueData, timeline, row, github, autoMerge, thread>>

\* The row is claimed, and the merge request leaves, or the look-up that
\* create_fix_pull_request begins with.
ClaimAndSend ==
    LET creates == worker.write = Issue IN
    /\ worker.pc = "reserved"
    /\ row' = [row EXCEPT ![worker.write].status = "executing"]
    /\ request' = [request EXCEPT ![worker.write] =
                      [state |-> IF creates THEN "lookup" ELSE "inflight",
                       sent |-> @.sent + 1, patch |-> worker.patch, head |-> None]]
    /\ worker' = [worker EXCEPT !.pc = IF creates THEN "looking" ELSE "sending"]
    /\ UNCHANGED <<status, issueData, timeline, pull, autoMerge, thread>>

\* The branch exists and has a pull request, which is taken for the task's own,
\* at the head it has now.
PullFound ==
    /\ worker.pc = "looking"
    /\ pull.state \in {"open", "closed", "merged"}
    /\ request' = [request EXCEPT ![Issue].state = "done", ![Issue].head = pull.head]
    /\ worker' = [worker EXCEPT !.pc = "sending"]
    /\ UNCHANGED <<status, issueData, timeline, row, pull, autoMerge, thread>>

\* The look-up found no branch, or failed, and the commit is made: the request
\* for the branch leaves.
BranchSent ==
    /\ worker.pc = "looking"
    /\ request' = [request EXCEPT ![Issue].state = "branching"]
    /\ worker' = [worker EXCEPT !.pc = "branching"]
    /\ UNCHANGED <<status, issueData, timeline, row, pull, autoMerge, thread>>

\* The branch is there: the request for the pull request leaves.
PullSent ==
    /\ worker.pc = "branching"
    /\ request[Issue].state = "branched"
    /\ request' = [request EXCEPT ![Issue].state = "inflight"]
    /\ worker' = [worker EXCEPT !.pc = "sending"]
    /\ UNCHANGED <<status, issueData, timeline, row, pull, autoMerge, thread>>

\* A database error before or between the two commits.
ClaimFails ==
    /\ worker.pc \in {"acting", "reserved"}
    /\ ActionRaises
    /\ UNCHANGED <<issueData, timeline, row, github, autoMerge, thread>>

ActionReturns ==
    /\ worker.pc = "sending"
    /\ request[worker.write].state = "done"
    /\ row' = [row EXCEPT ![worker.write].status = "completed"]
    /\ worker' = [worker EXCEPT !.pc = "recording"]
    /\ UNCHANGED <<status, issueData, timeline, github, autoMerge, thread>>

\* Mutant of ActionFails: an error that GitHub answers is taken for an answer.
ActionFailsCompleted ==
    /\ worker.pc \in Sending
    /\ row' = [row EXCEPT ![worker.write].status = "completed"]
    /\ worker' = [worker EXCEPT !.pc = "recording"]
    /\ UNCHANGED <<status, issueData, timeline, github, autoMerge, thread>>

\* A timeout, an error, a lost answer or a branch without a pull request: the
\* outcome is unknown.
ActionFails ==
    /\ worker.pc \in Sending
    /\ row' = [row EXCEPT ![worker.write].status = "unknown"]
    /\ ActionRaises
    /\ UNCHANGED <<issueData, timeline, github, autoMerge, thread>>

\* Mutant of RecordCreate: the pull request is read again for its head.
RecordCreateReadAgain ==
    /\ worker.pc = "recording"
    /\ worker.task = Issue
    /\ Returns("pr_created")
    /\ linked' = TRUE
    /\ reviewed' = pull.head
    /\ UNCHANGED <<timeline, row, github, autoMerge, thread>>

\* The issue task learns its pull request, and the head GitHub answered with
\* becomes its pull_head_sha.
RecordCreate ==
    /\ worker.pc = "recording"
    /\ worker.task = Issue
    /\ Returns("pr_created")
    /\ linked' = TRUE
    /\ reviewed' = request[Issue].head
    /\ UNCHANGED <<timeline, row, github, autoMerge, thread>>

\* The issue task is merged, and then the pull task is.
RecordMerge ==
    /\ worker.pc = "recording"
    /\ worker.task # Issue
    /\ status' = [status EXCEPT ![Issue] = "merged"]
    /\ linked' = TRUE
    /\ worker' = [worker EXCEPT !.pc = "closing"]
    /\ UNCHANGED <<reviewed, timeline, row, github, autoMerge, thread>>

RecordBotMerge ==
    /\ worker.pc = "closing"
    /\ Finish("bot_merged")
    /\ UNCHANGED <<issueData, timeline, row, github, autoMerge, thread>>

-----------------------------------------------------------------------------
\* Mutant of Restart: what was being sent is simply put back.
RestartRequeued ==
    /\ status' = [t \in Task |-> IF status[t] = "running" THEN "interrupted" ELSE status[t]]
    /\ row' = [w \in Write |-> IF row[w].status = "executing"
                               THEN [row[w] EXCEPT !.status = "pending"] ELSE row[w]]
    /\ worker' = IdleWorker
    /\ thread' = [x \in Thread |-> NoThread]
    /\ UNCHANGED <<issueData, timeline, github, autoMerge>>

\* The service dies and starts again: lifespan repairs tasks and rows.
Restart ==
    /\ status' = [t \in Task |-> IF status[t] = "running" THEN "interrupted" ELSE status[t]]
    /\ row' = [w \in Write |-> IF row[w].status = "executing"
                               THEN [row[w] EXCEPT !.status = "unknown"] ELSE row[w]]
    /\ worker' = IdleWorker
    /\ thread' = [x \in Thread |-> NoThread]
    /\ UNCHANGED <<issueData, timeline, github, autoMerge>>

WorkerStep ==
    \/ LeaveTriage \/ SandboxCreated \/ WorkerCompleted \/ TestsCompleted
    \/ CodeReviewCompleted \/ FixFails \/ SandboxDestroyed \/ SandboxDestroyFails
    \/ PullContext \/ PullContextFails
    \/ Reserve \/ RefuseAction \/ ReuseCreate \/ ReuseMerge
    \/ ClaimAndSend \/ ClaimFails \/ PullFound \/ BranchSent \/ PullSent
    \/ ActionReturns \/ ActionFails
    \/ RecordCreate \/ RecordMerge \/ RecordBotMerge

Next ==
    \/ BranchLands
    \/ CreateLands
    \/ \E h \in Commit : MergeLands(h)
    \/ \E w \in Write : RequestLost(w)
    \/ PullMoves
    \/ SetAutoMerge
    \/ \E t \in PullTask : Webhook(t)
    \/ Comment
    \/ \E x \in Thread, t \in Task : CheckRequeue(x, t)
    \/ \E x \in Thread : Requeue(x)
    \/ \E t \in Task : Process(t)
    \/ WorkerStep
    \/ Restart

Spec == Init /\ [][Next]_vars

\* Model, tool, task and HTTP calls all have timeouts.
FairSpec == Spec /\ WF_vars(WorkerStep)

-----------------------------------------------------------------------------
(***************************************************************************)
(* Properties.                                                             *)
(***************************************************************************)

\* A request to merge leaves only while the tests and the reviewer passed last
\* the patch that the pull request was created for, and only for the head that
\* GitHub answered the creation with: the commit of that patch, or one that other
\* people had put on the branch before the pull request was there to answer with,
\* whatever attempts, retries, pushes and crashes came between.
MergedAsReviewed ==
    [][\A h \in Commit : request'[h].sent > request[h].sent =>
          /\ tests = "passed" /\ review.approved
          /\ review.patch = request[Issue].patch
          /\ h = request[Issue].head
          /\ h \in Pushed \cup {review.patch}]_vars

\* No write is sent twice: one pull request for the task, one merge for a head.
SentOnce == \A w \in Write : request[w].sent <= 1

\* A task that says merged stands for a merge that GitHub made on request.
ReportedMergesHappened ==
    (\E t \in Task : status[t] \in {"merged", "bot_merged"})
        => pull.state = "merged" /\ \E h \in Commit : request[h].state = "done"

\* The controller asks for no merge but that of the head it was answered with
\* when it created the pull request: what other people push to its branch later
\* is theirs to merge.
OnlyCreatedMerged ==
    \A h \in Commit : request[h].sent > 0 => h = request[Issue].head

\* A running task comes to rest: the rounds of worker and reviewer are bounded.
RunsEnd == \A t \in Task : status[t] = "running" ~> status[t] # "running"

\* A commit that touches sensitive files is not merged by the controller.
SensitiveNeverMerged ==
    \A h \in Sensitive : request[h].sent = 0

\* Where one is, the outbox row holds the paths of another commit: a pending row of
\* an earlier attempt, or the worker's patch while GitHub answered with a head that
\* other people had pushed.  Nothing else gets sensitive files past the policy.
SensitiveNeedsStaleRow ==
    \A h \in Sensitive : request[h].sent > 0 => row[Issue].patch # h

\* The steps that are left of an attempt: every round of the fix loop, the
\* write to GitHub and its record.
Rank ==
    [idle |-> 0, destroying |-> 1, closing |-> 1, recording |-> 2, sending |-> 3,
     branching |-> 4, looking |-> 5, reserved |-> 6, acting |-> 7, context |-> 8,
     reviewing |-> 8, testing |-> 9, working |-> 10, triage |-> 14][worker.pc]
    + IF worker.pc \in {"working", "testing", "reviewing"} /\ worker.round = 1 THEN 3 ELSE 0

\* Every step of the worker brings its attempt nearer to its end, and nobody
\* sends it back: the fix loop cannot go round for ever.
AttemptsDescend ==
    [][/\ WorkerStep => Rank' < Rank
       /\ worker.pc # "idle" => Rank' <= Rank]_vars

-----------------------------------------------------------------------------
(***************************************************************************)
(* The inductive strengthening of the safety properties.                   *)
(***************************************************************************)

\* A request was sent exactly when its row was claimed, and was answered when
\* its row is completed.
RowsAreAccounted ==
    \A w \in Write :
        /\ request[w].sent = IF row[w].status \in {"none", "pending"} THEN 0 ELSE 1
        /\ request[w].sent = 0 <=> request[w].state = "unsent"
        /\ row[w].status = "completed" => request[w].state = "done"

\* What GitHub made of the requests, and of the people's pushes.
GitHubFollows ==
    /\ pull.state # "none" => pull.head \in Pushed \cup {request[Issue].patch} /\ pull.head # None
    /\ IF request[Issue].state = "unsent" THEN request[Issue].patch = None
                                          ELSE request[Issue].patch \in Patch
    /\ request[Issue].state = "done" =>
           request[Issue].head \in Pushed \cup {request[Issue].patch}
    /\ \A h \in Commit : request[h].state = "done" => pull.state = "merged" /\ pull.head = h
    /\ \A t \in PullTask : status[t] # "none" => pull.state # "none"
    /\ \A x \in Thread : thread[x].task \in PullTask => pull.state # "none"

\* The merge is over and recorded: no other head can be merged any more.
MergeRecorded == pull.state = "merged" /\ row[pull.head].status = "completed"

\* A pull_head_sha, stored or about to be written back by an endpoint, is the head
\* that the creation was answered with; it is missing beside a pull_number only
\* after the merge.
HeadIsCreated(number, h) ==
    /\ h # None => request[Issue].state = "done" /\ h = request[Issue].head
    /\ number /\ h = None => MergeRecorded
HeadsAreCreated ==
    /\ HeadIsCreated(linked, reviewed)
    /\ \A x \in Thread : HeadIsCreated(thread[x].linked, thread[x].reviewed)

Passed(p) == tests = "passed" /\ review.approved /\ review.patch = p

\* An issue task that offers its pull request for a merge was reviewed last for
\* the patch that the pull request was created for.
OffersAreReviewed ==
    status[Issue] \in {"pr_created", "merged"} /\ linked
        => Passed(request[Issue].patch) \/ MergeRecorded

\* What the worker knows stays true while it waits.
WorkerHolds ==
    /\ worker.pc # "idle" => worker.task \in Task
    /\ worker.pc \in IssuePC => worker.task = Issue
    /\ worker.pc \in {"context", "closing"} => worker.task \in PullTask
    /\ worker.task \in PullTask => status[worker.task] # "none"
    /\ worker.task = Issue /\ worker.pc # "destroying" => status[Issue] \in {"running", "queued"}
    /\ worker.pc = "reviewing" => worker.patch \in Patch /\ tests = "passed"
    /\ worker.pc \in Acting =>
           IF worker.task = Issue
           THEN /\ worker.write = Issue
                /\ worker.patch \in Patch
                /\ Passed(worker.patch)
           ELSE /\ worker.write \in Commit
                /\ \/ /\ Passed(request[Issue].patch)
                      /\ request[Issue].state = "done" /\ request[Issue].head = worker.write
                   \/ MergeRecorded /\ pull.head = worker.write
    /\ worker.pc = "reserved" => row[worker.write].status = "pending"
    /\ worker.pc \in {"looking", "branching"} => worker.task = Issue
    /\ worker.pc = "looking" => request[Issue].state = "lookup"
    /\ worker.pc \in Sending => row[worker.write].status = "executing"
    /\ \A w \in Write : row[w].status = "executing" =>
           worker.pc \in Sending /\ worker.write = w
    /\ worker.pc = "recording" => row[worker.write].status = "completed"
    /\ worker.pc \in Sending \cup {"recording"} /\ worker.task = Issue =>
           request[Issue].patch = worker.patch
    /\ worker.pc = "closing" => pull.state = "merged" /\ \E h \in Commit : request[h].state = "done"

\* A merge that was asked for, or that the worker is about to ask for, is that of
\* the head answered, decided on a fix_pr row that is completed.
HeadIsOurs(h) ==
    /\ request[Issue].head = h
    /\ row[Issue].status = "completed" /\ row[Issue].patch \notin Sensitive
MergesAreOurs ==
    /\ \A h \in Commit : request[h].sent > 0 => HeadIsOurs(h)
    /\ worker.pc \in Acting /\ worker.task # Issue =>
           HeadIsOurs(worker.write)

\* The inductive invariant.
IInv ==
    /\ TypeOK
    /\ RowsAreAccounted
    /\ GitHubFollows
    /\ HeadsAreCreated
    /\ OffersAreReviewed
    /\ WorkerHolds
    /\ MergesAreOurs
    /\ ReportedMergesHappened

-----------------------------------------------------------------------------
(***************************************************************************)
(* Refinement: these rows implement the promise of GitHubWrite too.        *)
(***************************************************************************)
PhaseOf == [none |-> "open", pending |-> "open", executing |-> "writing",
            unknown |-> "doubt", completed |-> "done"]

phaseBar == [w \in Write |-> PhaseOf[row[w].status]]
sentBar == [w \in Write |-> request[w].sent]
publishedBar == {w \in Write : request[w].state = "done"}

\* Nobody may grant a second pull request or merge.
Promise == INSTANCE GitHubWrite WITH
    Target <- Write, phase <- phaseBar, sent <- sentBar,
    grants <- [w \in Write |-> {}], published <- publishedBar

\* The creation of the pull request and every merge leave the service once, are
\* never repeated while their outcome is unknown, and are called completed only
\* when GitHub has made them.
KeepsPromise == Promise!Spec

=============================================================================
