---------------------------- MODULE ReviewOutbox ----------------------------
(***************************************************************************)
(* The review writes of one pull request: the tasks that review it, the    *)
(* outbox rows that guard its POSTs (one per head commit, unique by        *)
(* action_key), the single worker of api.py, the administrators' recovery  *)
(* requests of review_recovery.py, the endpoint threads that put a task    *)
(* back in the queue, GitHub, and restarts of the process.                 *)
(*                                                                         *)
(* Coroutines run on one event loop, so what the code does between two     *)
(* awaits is one action; a crash can fall between two transactions, so a   *)
(* commit that a crash can separate from the next one ends an action.      *)
(* Endpoint functions declared with a plain def run in threads, between    *)
(* any two transactions of a coroutine: their read and their write are two *)
(* actions, and what they write holds the task's data as they read it.     *)
(* Outbox rows of kind pr_review are written by coroutines only.           *)
(***************************************************************************)
EXTENDS Naturals

CONSTANTS MaxTasks,   \* webhook deliveries for this pull request
          Head,       \* the commits the head branch can point at
          Request,    \* review requests (event, body, comments) a reviewer can produce
          Blocking,   \* the requests whose event is REQUEST_CHANGES
          Admin,      \* concurrent review-recovery requests
          Thread,     \* concurrent retry, recheck and owner-decision requests
          MaxPosts,   \* bound: POSTs per head that the administrators will risk
          None        \* the absent value

Task == 1..MaxTasks
Attempt == 1..MaxPosts

ASSUME ConstantsOK ==
    /\ MaxTasks \in Nat
    /\ MaxPosts \in Nat \ {0}
    /\ Blocking \subseteq Request
    /\ None \notin Task \cup Head \cup Request \cup Admin

VARIABLES task,       \* Task rows: status, data.head_sha, head of data.review_url
          row,        \* Outbox rows of kind pr_review, by the head in their action_key
          post,       \* the POSTs sent for a head, by attempt
          granted,    \* the attempts after which an administrator authorised a retry
          pull,       \* the pull request on GitHub
          access,     \* repository enabled, auto_review_prs, installation unchanged
          withdrawn,  \* access went away after the retry's last check of it (history)
          worker,     \* the coroutine of worker_loop
          admin,      \* the recovery coroutines
          thread      \* the task, and its data, that an endpoint thread is about to queue

policy == <<access, withdrawn>>
vars == <<task, row, post, granted, pull, policy, worker, admin, thread>>

-----------------------------------------------------------------------------
TaskStatus == {"none", "queued", "running", "failed", "interrupted", "reviewed",
               "waiting_for_contributor", "waiting_for_owner", "stopped"}
RowStatus == {"none", "pending", "executing", "unknown", "reconciling", "completed"}
Unresolved == {"executing", "unknown", "reconciling"}
Retryable == {"failed", "interrupted"}
WorkerPC == {"idle", "context", "loaded", "review", "reserved", "inspect",
             "retry", "confirmed", "posting", "recording"}
AdminPC == {"idle", "previewed", "inspecting", "deciding"}

TaskRow == [status: TaskStatus, head: Head \cup {None}, review: Head \cup {None}]
OutboxRow == [status: RowStatus, owner: Task \cup {None}, request: Request \cup {None},
              attempts: 0..MaxPosts, retry_authorized: BOOLEAN,
              claim: Admin \cup {None}, cooled: BOOLEAN]
Post == [state: {"unsent", "inflight", "landed", "lost"}, request: Request \cup {None}]
Worker == [pc: WorkerPC, task: Task \cup {None}, head: Head \cup {None},
           request: Request \cup {None}, allowed: BOOLEAN, match: BOOLEAN]
AdminState == [pc: AdminPC, task: Task \cup {None}, head: Head \cup {None},
               seen: 0..MaxPosts, authorized: BOOLEAN, match: BOOLEAN]
ThreadState == [task: Task \cup {None}, whole: BOOLEAN,
                head: Head \cup {None}, review: Head \cup {None}]

NoRow == [status |-> "none", owner |-> None, request |-> None, attempts |-> 0,
          retry_authorized |-> FALSE, claim |-> None, cooled |-> FALSE]
NoPost == [state |-> "unsent", request |-> None]
IdleWorker == [pc |-> "idle", task |-> None, head |-> None, request |-> None,
               allowed |-> FALSE, match |-> FALSE]
IdleAdmin == [pc |-> "idle", task |-> None, head |-> None, seen |-> 0,
              authorized |-> FALSE, match |-> FALSE]
IdleThread == [task |-> None, whole |-> FALSE, head |-> None, review |-> None]

\* Type correctness: every row, coroutine and POST stays in its domain.
TypeOK ==
    /\ task \in [Task -> TaskRow]
    /\ row \in [Head -> OutboxRow]
    /\ post \in [Head -> [Attempt -> Post]]
    /\ granted \in [Head -> SUBSET Attempt]
    /\ pull \in [head: Head, open: BOOLEAN]
    /\ access \in BOOLEAN /\ withdrawn \in BOOLEAN
    /\ worker \in Worker
    /\ admin \in [Admin -> AdminState]
    /\ thread \in [Thread -> ThreadState]

Init ==
    /\ task = [t \in Task |-> [status |-> "none", head |-> None, review |-> None]]
    /\ row = [h \in Head |-> NoRow]
    /\ post = [h \in Head |-> [n \in Attempt |-> NoPost]]
    /\ granted = [h \in Head |-> {}]
    /\ pull \in [head: Head, open: {TRUE}]
    /\ access = TRUE /\ withdrawn = FALSE
    /\ worker = IdleWorker
    /\ admin = [a \in Admin |-> IdleAdmin]
    /\ thread = [x \in Thread |-> IdleThread]

-----------------------------------------------------------------------------
(***************************************************************************)
(* GitHub and the outside world.                                           *)
(***************************************************************************)

\* A push, a force-push back to an earlier head, a close or a reopen.
PullMoves ==
    /\ pull' \in [head: Head, open: BOOLEAN]
    /\ UNCHANGED <<task, row, post, granted, policy, worker, admin, thread>>

\* GitHub executes a POST, possibly long after the client stopped waiting.
Land(h, n) ==
    /\ post[h][n].state = "inflight"
    /\ post' = [post EXCEPT ![h][n].state = "landed"]
    /\ UNCHANGED <<task, row, granted, pull, policy, worker, admin, thread>>

\* A POST never reaches GitHub, or GitHub refuses it.
Vanish(h, n) ==
    /\ post[h][n].state = "inflight"
    /\ post' = [post EXCEPT ![h][n].state = "lost"]
    /\ UNCHANGED <<task, row, granted, pull, policy, worker, admin, thread>>

\* ingest_webhook: every accepted delivery creates a task of its own.
Webhook(t) ==
    /\ task[t].status = "none"
    /\ \A u \in Task : u < t => task[u].status # "none"
    /\ task' = [task EXCEPT ![t].status = "queued"]
    /\ UNCHANGED <<row, post, granted, pull, policy, worker, admin, thread>>

\* write_repository, from a thread: review access is switched off or on.
SetAccess ==
    /\ access' = ~access
    /\ withdrawn' = (withdrawn \/ (access /\ worker.pc = "confirmed"))
    /\ UNCHANGED <<task, row, post, granted, pull, worker, admin, thread>>

\* Two minutes have passed since the row's last attempt_started_at, which is
\* looked at only while the row waits to be recovered.
TwoMinutesPass(h) ==
    /\ row[h].status \in Unresolved
    /\ row' = [row EXCEPT ![h].cooled = TRUE]
    /\ UNCHANGED <<task, post, granted, pull, policy, worker, admin, thread>>

Landed(h) == {n \in Attempt : post[h][n].state = "landed"}

\* inspect_remote finds no reason to stop: the PR is open on this head, and
\* the App has at most one review there, identical to the saved request.
RemoteConsistent(h, request) ==
    /\ pull.open
    /\ pull.head = h
    /\ \A n \in Landed(h) : post[h][n].request = request
    /\ \A m, n \in Landed(h) : m = n

OwnHeads(t) == {h \in Head : row[h].owner = t}
OwnUnresolved(t) == {h \in OwnHeads(t) : row[h].status \in Unresolved}

-----------------------------------------------------------------------------
(***************************************************************************)
(* The worker: TaskProcessor.process, process_pull, resume_saved_review    *)
(* and github_action for a pull request.                                   *)
(***************************************************************************)

\* The worker leaves its task with this status and head.
Leave(status, head) ==
    /\ task' = [task EXCEPT ![worker.task].status = status,
                            ![worker.task].head = head]
    /\ worker' = IdleWorker

\* worker_loop takes the oldest queued task and process marks it running.
Process(t) ==
    /\ worker.pc = "idle"
    /\ task[t].status = "queued"
    /\ \A u \in Task : u < t => task[u].status # "queued"
    /\ task' = [task EXCEPT ![t].status = "running"]
    /\ worker' = [IdleWorker EXCEPT !.pc = "context", !.task = t, !.allowed = access]
    /\ UNCHANGED <<row, post, granted, pull, policy, admin, thread>>

\* pull_context reads the head first and the other evidence later.
PullContext ==
    /\ worker.pc = "context"
    /\ worker' = [worker EXCEPT !.pc = "loaded", !.head = pull.head,
                                !.allowed = @ /\ pull.open]
    /\ UNCHANGED <<task, row, post, granted, pull, policy, admin, thread>>

\* An await fails before any write: process records the failure.
StepFails ==
    /\ worker.pc \in {"context", "loaded", "review", "inspect"}
    /\ Leave("failed", task[worker.task].head)
    /\ UNCHANGED <<row, post, granted, pull, policy, admin, thread>>

\* Outcomes without a review: draft, owner reject or defer, size limit, CI
\* comment, plugin cancel, owner gate.  Some store the head and some do not.
LeaveWithoutReview ==
    /\ worker.pc \in {"loaded", "review"}
    /\ \E status \in {"waiting_for_owner", "waiting_for_contributor", "stopped"},
          head \in {worker.head, task[worker.task].head} :
           Leave(status, head)
    /\ UNCHANGED <<row, post, granted, pull, policy, admin, thread>>

\* resume_saved_review recognises this task's row for the head it has loaded.
Saved ==
    /\ row[worker.head].owner = worker.task
    /\ \/ row[worker.head].status = "completed"
       \/ /\ row[worker.head].status = "pending"
          /\ row[worker.head].attempts = 0 \/ row[worker.head].retry_authorized

\* resume_saved_review refuses: an unresolved row, or a policy that changed.
ResumeConflict ==
    /\ worker.pc = "loaded"
    /\ OwnUnresolved(worker.task) # {} \/ (Saved /\ ~worker.allowed)
    /\ Leave("failed", task[worker.task].head)
    /\ UNCHANGED <<row, post, granted, pull, policy, admin, thread>>

\* A saved approval waits for the owner decision the policy now asks for.
ResumeWaitsForOwner ==
    /\ worker.pc = "loaded"
    /\ OwnUnresolved(worker.task) = {} /\ Saved /\ worker.allowed
    /\ row[worker.head].request \notin Blocking
    /\ Leave("waiting_for_owner", worker.head)
    /\ UNCHANGED <<row, post, granted, pull, policy, admin, thread>>

\* Nothing saved for this head: a reviewer is asked for a verdict.
StartReview ==
    /\ worker.pc = "loaded"
    /\ OwnUnresolved(worker.task) = {} /\ ~Saved
    /\ worker' = [worker EXCEPT !.pc = "review"]
    /\ UNCHANGED <<task, row, post, granted, pull, policy, admin, thread>>

(***************************************************************************)
(* github_action up to its first await, for a review request of the        *)
(* worker's task on head h: each outcome of the identity check and of the  *)
(* reservation.  The head is stored in the task with the review context,   *)
(* unless another action blocks the request.                               *)
(***************************************************************************)
Mine(h, request) == row[h].owner = worker.task /\ row[h].request = request

GoesOn(pc, h, request) ==
    /\ worker' = [worker EXCEPT !.pc = pc, !.request = request]
    /\ task' = [task EXCEPT ![worker.task].head = h]

\* Mutant of ReserveReview: a published review is replaced by a new verdict.
ReserveReviewAgain(h, request) ==
    /\ row[h].status \in {"none", "completed"}
    /\ row' = [row EXCEPT ![h].status = "pending", ![h].owner = worker.task,
                          ![h].request = request]
    /\ GoesOn("reserved", h, request)

\* No row for this head: reserve one.
ReserveReview(h, request) ==
    /\ row[h].status = "none"
    /\ row' = [row EXCEPT ![h] = [NoRow EXCEPT !.status = "pending",
                                               !.owner = worker.task,
                                               !.request = request]]
    /\ GoesOn("reserved", h, request)

\* The same review is already published, by this task or by another.
ReuseReview(h, request) ==
    /\ row[h].status = "completed"
    /\ row[h].request = request
    /\ GoesOn("recording", h, request)
    /\ UNCHANGED row

\* This task's reservation waits to be sent; an authorised retry is checked.
ContinueReview(h, request) ==
    /\ Mine(h, request)
    /\ row[h].status = "pending"
    /\ \/ ~row[h].retry_authorized /\ GoesOn("reserved", h, request)
       \/ row[h].retry_authorized /\ access /\ GoesOn("inspect", h, request)
       \/ row[h].retry_authorized /\ ~access /\ Leave("failed", h)
    /\ UNCHANGED row

\* An action that is another task's, another review, or unresolved.
RefuseReview(h, request) ==
    /\ row[h].status # "none"
    /\ \/ /\ Mine(h, request)
          /\ row[h].status \in Unresolved
          /\ Leave("failed", h)
       \/ /\ ~Mine(h, request)
          /\ ~(row[h].status = "completed" /\ row[h].request = request)
          /\ Leave("failed", task[worker.task].head)
    /\ UNCHANGED row

GithubAction(h, request) ==
    \/ ReserveReview(h, request) \/ ReuseReview(h, request)
    \/ ContinueReview(h, request) \/ RefuseReview(h, request)

\* resume_saved_review goes on with the saved request, never a new verdict.
ResumeSavedReview ==
    /\ worker.pc = "loaded"
    /\ OwnUnresolved(worker.task) = {} /\ Saved /\ worker.allowed
    /\ GithubAction(worker.head, row[worker.head].request)
    /\ UNCHANGED <<post, granted, pull, policy, admin, thread>>

\* The reviewer's verdict arrives and becomes a review request.
Verdict ==
    /\ worker.pc = "review"
    /\ \E request \in Request : GithubAction(worker.head, request)
    /\ UNCHANGED <<post, granted, pull, policy, admin, thread>>

\* An authorised retry looks at GitHub before it writes.
InspectBeforeRetry ==
    /\ worker.pc = "inspect"
    /\ \/ /\ RemoteConsistent(worker.head, worker.request)
          /\ worker' = [worker EXCEPT !.pc = "retry", !.match = Landed(worker.head) # {}]
          /\ UNCHANGED task
       \/ /\ ~RemoteConsistent(worker.head, worker.request)
          /\ Leave("failed", task[worker.task].head)
    /\ UNCHANGED <<row, post, granted, pull, policy, admin, thread>>

\* The second check, in a transaction of its own: reviews are still allowed, and
\* nobody has put other data into the task.
StillAllowed == access /\ task[worker.task].head = worker.head

\* Mutant of ConfirmRetry: the repository is not looked at again before a retry.
ConfirmRetryUnchecked ==
    /\ worker.pc = "retry"
    /\ worker' = [worker EXCEPT !.pc = "confirmed"]
    /\ UNCHANGED <<task, row, post, granted, pull, policy, admin, thread>>

ConfirmRetry ==
    /\ worker.pc = "retry"
    /\ StillAllowed
    /\ worker' = [worker EXCEPT !.pc = "confirmed"]
    /\ UNCHANGED <<task, row, post, granted, pull, policy, admin, thread>>

\* Access went away while the retry was looking.
RetryRefused ==
    /\ worker.pc = "retry"
    /\ ~StillAllowed
    /\ Leave("failed", task[worker.task].head)
    /\ UNCHANGED <<row, post, granted, pull, policy, admin, thread>>

\* The first request did land: the retry becomes a completion, if the row is
\* still pending.
RetryFindsReview ==
    /\ worker.pc = "confirmed" /\ worker.match
    /\ row[worker.head].status = "pending"
    /\ row' = [row EXCEPT ![worker.head].status = "completed"]
    /\ worker' = [worker EXCEPT !.pc = "recording"]
    /\ withdrawn' = FALSE
    /\ UNCHANGED <<task, post, granted, pull, access, admin, thread>>

\* The conditional update from pending to executing, which looks at the row and
\* no longer at the repository, and the POST it guards.
ClaimAndPost ==
    LET h == worker.head
        n == row[h].attempts + 1
    IN  /\ worker.pc = "reserved" \/ (worker.pc = "confirmed" /\ ~worker.match)
        /\ row[h].status = "pending"
        /\ row' = [row EXCEPT ![h].status = "executing", ![h].attempts = n,
                              ![h].cooled = FALSE]
        /\ post' = [post EXCEPT ![h][n] = [state |-> "inflight",
                                           request |-> worker.request]]
        /\ worker' = [worker EXCEPT !.pc = "posting"]
        /\ withdrawn' = FALSE
        /\ UNCHANGED <<task, granted, pull, access, admin, thread>>

\* GitHub's response arrives.
PostReturns ==
    /\ worker.pc = "posting"
    /\ post[worker.head][row[worker.head].attempts].state = "landed"
    /\ row' = [row EXCEPT ![worker.head].status = "completed"]
    /\ worker' = [worker EXCEPT !.pc = "recording"]
    /\ UNCHANGED <<task, post, granted, pull, policy, admin, thread>>

\* Mutant of PostFails: a failed request is taken for one that was never sent.
PostFailsAsUnsent ==
    /\ worker.pc = "posting"
    /\ row' = [row EXCEPT ![worker.head].status = "pending"]
    /\ Leave("failed", task[worker.task].head)
    /\ UNCHANGED <<post, granted, pull, policy, admin, thread>>

\* Mutant of PostFails: the exception does not reach the task.
PostFailsSilently ==
    /\ worker.pc = "posting"
    /\ row' = [row EXCEPT ![worker.head].status = "unknown"]
    /\ worker' = IdleWorker
    /\ UNCHANGED <<task, post, granted, pull, policy, admin, thread>>

\* The request fails or times out, whatever GitHub does with it.
PostFails ==
    /\ worker.pc = "posting"
    /\ row' = [row EXCEPT ![worker.head].status = "unknown"]
    /\ Leave("failed", task[worker.task].head)
    /\ UNCHANGED <<post, granted, pull, policy, admin, thread>>

\* The findings are saved and the task ends with the review's outcome.
RecordReview ==
    /\ worker.pc = "recording"
    /\ task' = [task EXCEPT ![worker.task] =
                    [status |-> IF worker.request \in Blocking
                                THEN "waiting_for_contributor" ELSE "reviewed",
                     head |-> worker.head, review |-> worker.head]]
    /\ worker' = IdleWorker
    /\ UNCHANGED <<row, post, granted, pull, policy, admin, thread>>

\* Every step the worker takes once it holds a task.
WorkerStep ==
    \/ PullContext \/ StepFails \/ LeaveWithoutReview
    \/ ResumeConflict \/ ResumeWaitsForOwner \/ StartReview
    \/ ResumeSavedReview \/ Verdict
    \/ InspectBeforeRetry \/ ConfirmRetry \/ RetryRefused \/ RetryFindsReview
    \/ ClaimAndPost \/ PostReturns \/ PostFails \/ RecordReview

-----------------------------------------------------------------------------
(***************************************************************************)
(* The administrators: inspect_review and recover_review.                  *)
(***************************************************************************)

\* snapshot: the task failed, and its one unresolved action is this review.
Snapshot(t, h) ==
    /\ task[t].status \in Retryable
    /\ OwnUnresolved(t) = {h}
    /\ row[h].status = "unknown"
    /\ task[t].head = h
    /\ access

\* GET review-recovery: the preview a decision will be bound to.
InspectReview(a, t, h) ==
    /\ admin[a].pc = "idle"
    /\ Snapshot(t, h)
    /\ RemoteConsistent(h, row[h].request)
    /\ admin' = [admin EXCEPT ![a] = [IdleAdmin EXCEPT !.pc = "previewed", !.task = t,
                                          !.head = h, !.seen = row[h].attempts]]
    /\ UNCHANGED <<task, row, post, granted, pull, policy, worker, thread>>

StillBound(a) ==
    /\ Snapshot(admin[a].task, admin[a].head)
    /\ row[admin[a].head].attempts = admin[a].seen

\* POST review-recovery: the decision still fits, and the row is claimed.
\* No administrator risks a POST beyond MaxPosts.
ClaimRecovery(a, authorized) ==
    /\ admin[a].pc = "previewed"
    /\ StillBound(a)
    /\ authorized => admin[a].seen < MaxPosts
    /\ row' = [row EXCEPT ![admin[a].head].status = "reconciling",
                          ![admin[a].head].claim = a]
    /\ admin' = [admin EXCEPT ![a].pc = "inspecting", ![a].authorized = authorized]
    /\ UNCHANGED <<task, post, granted, pull, policy, worker, thread>>

\* The preview is stale: 409, and the administrator starts over.
RecoveryRefused(a) ==
    /\ admin[a].pc = "previewed"
    /\ ~StillBound(a)
    /\ admin' = [admin EXCEPT ![a] = IdleAdmin]
    /\ UNCHANGED <<task, row, post, granted, pull, policy, worker, thread>>

\* recover_review reads GitHub again under its claim.
InspectUnderClaim(a) ==
    /\ admin[a].pc = "inspecting"
    /\ RemoteConsistent(admin[a].head, row[admin[a].head].request)
    /\ admin' = [admin EXCEPT ![a].pc = "deciding", ![a].match = Landed(admin[a].head) # {}]
    /\ UNCHANGED <<task, row, post, granted, pull, policy, worker, thread>>

\* Mutant of CanFinish: two quiet minutes are enough, authorised or not.
CanFinishUnauthorised(a) ==
    LET h == admin[a].head IN
    /\ admin[a].match \/ row[h].cooled
    /\ task[admin[a].task].status \in Retryable
    /\ task[admin[a].task].head = h
    /\ access
    /\ row[h].status = "reconciling" /\ row[h].claim = a

\* The final transaction's conditions.
CanFinish(a) ==
    LET h == admin[a].head IN
    /\ admin[a].match \/ (admin[a].authorized /\ row[h].cooled)
    /\ task[admin[a].task].status \in Retryable
    /\ task[admin[a].task].head = h
    /\ access
    /\ row[h].status = "reconciling" /\ row[h].claim = a

\* The final transaction: completed or pending once more, and the task queued.
FinishRecovery(a) ==
    LET h == admin[a].head IN
    /\ admin[a].pc = "deciding"
    /\ CanFinish(a)
    /\ row' = [row EXCEPT ![h].status = IF admin[a].match THEN "completed" ELSE "pending",
                          ![h].retry_authorized = ~admin[a].match,
                          ![h].claim = None]
    /\ task' = [task EXCEPT ![admin[a].task].status = "queued"]
    /\ granted' = IF admin[a].authorized /\ ~admin[a].match
                  THEN [granted EXCEPT ![h] = @ \cup {admin[a].seen}]
                  ELSE granted
    /\ admin' = [admin EXCEPT ![a] = IdleAdmin]
    /\ UNCHANGED <<post, pull, policy, worker, thread>>

\* Mutant of ReleaseRecovery: no finally block.
ReleaseRecoveryStranded(a) ==
    /\ \/ admin[a].pc = "inspecting"
       \/ admin[a].pc = "deciding" /\ ~CanFinish(a)
    /\ admin' = [admin EXCEPT ![a] = IdleAdmin]
    /\ UNCHANGED <<task, row, post, granted, pull, policy, worker, thread>>

\* The finally block: a failed check gives the row back as unknown.
ReleaseRecovery(a) ==
    LET h == admin[a].head IN
    /\ \/ admin[a].pc = "inspecting"
       \/ admin[a].pc = "deciding" /\ ~CanFinish(a)
    /\ row' = IF row[h].status = "reconciling" /\ row[h].claim = a
              THEN [row EXCEPT ![h].status = "unknown", ![h].claim = None]
              ELSE row
    /\ admin' = [admin EXCEPT ![a] = IdleAdmin]
    /\ UNCHANGED <<task, post, granted, pull, policy, worker, thread>>

RecoveryStep(a) == InspectUnderClaim(a) \/ FinishRecovery(a) \/ ReleaseRecovery(a)

-----------------------------------------------------------------------------
(***************************************************************************)
(* The endpoint threads: retry_task, recheck_task and owner_decision read  *)
(* the task, check it, and write it: a decision, and a retry that has an   *)
(* error to clear, the whole data as it was read, a recheck only the       *)
(* status.                                                                 *)
(***************************************************************************)
CheckRequeue(x, t) ==
    /\ thread[x].task = None
    /\ \E whole \in BOOLEAN :
          /\ \/ task[t].status \in Retryable /\ OwnUnresolved(t) = {}
             \/ /\ task[t].status \in {"waiting_for_contributor", "waiting_for_owner"}
                /\ OwnUnresolved(t) = {} /\ ~whole
             \/ task[t].status = "waiting_for_owner" /\ whole
          /\ thread' = [thread EXCEPT ![x] =
                            IF whole THEN [task |-> t, whole |-> TRUE,
                                           head |-> task[t].head, review |-> task[t].review]
                            ELSE [IdleThread EXCEPT !.task = t]]
    /\ UNCHANGED <<task, row, post, granted, pull, policy, worker, admin>>

Requeue(x) ==
    /\ thread[x].task # None
    /\ task' = [task EXCEPT ![thread[x].task] =
                    IF thread[x].whole
                    THEN [status |-> "queued", head |-> thread[x].head,
                          review |-> thread[x].review]
                    ELSE [@ EXCEPT !.status = "queued"]]
    /\ thread' = [thread EXCEPT ![x] = IdleThread]
    /\ UNCHANGED <<row, post, granted, pull, policy, worker, admin>>

-----------------------------------------------------------------------------
(***************************************************************************)
(* The process dies at any moment and lifespan runs before anything else.  *)
(***************************************************************************)
\* Mutant of Restart: what was being sent is simply put back.
RestartRequeued ==
    /\ task' = [t \in Task |-> IF task[t].status = "running"
                               THEN [task[t] EXCEPT !.status = "interrupted"]
                               ELSE task[t]]
    /\ row' = [h \in Head |-> IF row[h].status = "executing"
                              THEN [row[h] EXCEPT !.status = "pending"]
                              ELSE IF row[h].status = "reconciling"
                              THEN [row[h] EXCEPT !.status = "unknown"]
                              ELSE row[h]]
    /\ worker' = IdleWorker
    /\ admin' = [a \in Admin |-> IdleAdmin]
    /\ thread' = [x \in Thread |-> IdleThread]
    /\ withdrawn' = FALSE
    /\ UNCHANGED <<post, granted, pull, access>>

Restart ==
    /\ task' = [t \in Task |-> IF task[t].status = "running"
                               THEN [task[t] EXCEPT !.status = "interrupted"]
                               ELSE task[t]]
    /\ row' = [h \in Head |-> IF row[h].status \in {"executing", "reconciling"}
                              THEN [row[h] EXCEPT !.status = "unknown"]
                              ELSE row[h]]
    /\ worker' = IdleWorker
    /\ admin' = [a \in Admin |-> IdleAdmin]
    /\ thread' = [x \in Thread |-> IdleThread]
    /\ withdrawn' = FALSE
    /\ UNCHANGED <<post, granted, pull, access>>

Next ==
    \/ PullMoves
    \/ \E h \in Head, n \in Attempt : Land(h, n) \/ Vanish(h, n)
    \/ \E t \in Task : Webhook(t)
    \/ SetAccess
    \/ \E h \in Head : TwoMinutesPass(h)
    \/ \E t \in Task : Process(t)
    \/ WorkerStep
    \/ \E a \in Admin, t \in Task, h \in Head : InspectReview(a, t, h)
    \/ \E a \in Admin, authorized \in BOOLEAN : ClaimRecovery(a, authorized)
    \/ \E a \in Admin : RecoveryRefused(a) \/ RecoveryStep(a)
    \/ \E x \in Thread, t \in Task : CheckRequeue(x, t)
    \/ \E x \in Thread : Requeue(x)
    \/ Restart

Spec == Init /\ [][Next]_vars

\* Every await of the worker and of a recovery has a timeout, so a coroutine
\* that holds a task or a claim takes its next step.
Fairness ==
    /\ WF_vars(WorkerStep)
    /\ \A a \in Admin : WF_vars(RecoveryStep(a))

FairSpec == Spec /\ Fairness

-----------------------------------------------------------------------------
(***************************************************************************)
(* Properties.                                                             *)
(***************************************************************************)

\* No blind replay: every POST for a head after the first was authorised by
\* an administrator who had been shown the attempt before it.
EveryRetryWasAuthorised ==
    \A h \in Head, n \in Attempt :
        n > 1 /\ post[h][n].state # "unsent" => n - 1 \in granted[h]

\* One verdict per head: however many tasks, models and retries work on a
\* head, every POST sent for it carries the same review.
OneReviewPerHead ==
    \A h \in Head, m, n \in Attempt :
        post[h][m].state # "unsent" /\ post[h][n].state # "unsent"
            => post[h][m].request = post[h][n].request

\* A completed action, and a task that links a review, stand for a review
\* that is on GitHub with the saved request's content.
ReportedReviewsExist ==
    /\ \A h \in Head : row[h].status = "completed" =>
           \E n \in Landed(h) : post[h][n].request = row[h].request
    /\ \A t \in Task : task[t].review # None => row[task[t].review].status = "completed"

\* No action is stranded: an executing row belongs to the worker's POST and a
\* reconciling row to the one recovery that claimed it.
ClaimsHaveHolders ==
    \A h \in Head :
        /\ row[h].status = "executing" => worker.pc = "posting" /\ worker.head = h
        /\ row[h].status = "reconciling" =>
               \E a \in Admin : /\ admin[a].pc \in {"inspecting", "deciding"}
                                /\ admin[a].head = h
                                /\ row[h].claim = a

\* A POST that repeats an earlier one is never sent within two minutes of the
\* attempt before it, and only to a repository that allowed reviews after the
\* worker's last look at GitHub: it may have stopped to do so only between that
\* check and the claim, which looks at the row alone.
RetryIsStillAllowed ==
    [][\A h \in Head :
          row'[h].attempts > row[h].attempts /\ row[h].attempts > 0
              => row[h].cooled /\ (access \/ withdrawn)]_vars

\* A claim or a POST in progress ends: the row does not stay reserved.
ClaimsEnd ==
    \A h \in Head :
        row[h].status \in {"executing", "reconciling"}
            ~> row[h].status \notin {"executing", "reconciling"}

\* A running task comes to rest.
RunsEnd ==
    \A t \in Task : task[t].status = "running" ~> task[t].status # "running"

-----------------------------------------------------------------------------
(***************************************************************************)
(* The inductive strengthening of the safety properties.                   *)
(***************************************************************************)

\* The POSTs of a head are numbered by its row's attempts and carry the
\* request saved in the row.
PostsFollowRow ==
    \A h \in Head, n \in Attempt :
        /\ post[h][n].state = "unsent" <=> n > row[h].attempts
        /\ post[h][n].state # "unsent" => post[h][n].request = row[h].request

\* A row that may be claimed has its first attempt before it, or an
\* authorised retry whose attempt was granted and is two minutes old; a row
\* that was claimed has an attempt behind it; a reserved row has its request.
RowsAreAccounted ==
    \A h \in Head :
        /\ row[h].status = "none" => row[h].attempts = 0
        /\ row[h].status # "none" => row[h].request \in Request
        /\ row[h].status = "pending" /\ row[h].attempts = 0 => ~row[h].retry_authorized
        /\ row[h].status = "pending" /\ row[h].attempts > 0 =>
               /\ row[h].retry_authorized /\ row[h].cooled
               /\ row[h].attempts < MaxPosts
               /\ row[h].attempts \in granted[h]
        /\ row[h].status \in Unresolved \cup {"completed"} => row[h].attempts > 0

\* What the worker knows about the row it works on stays true while it waits.
WorkerHolds ==
    /\ worker.pc # "idle" => worker.task \in Task
    /\ worker.pc \notin {"idle", "context"} => worker.head \in Head
    /\ worker.pc \in {"reserved", "inspect", "retry", "confirmed", "posting", "recording"} =>
           row[worker.head].request = worker.request
    /\ worker.pc \in {"reserved", "inspect", "retry", "confirmed"} =>
           row[worker.head].status = "pending"
    /\ worker.pc = "reserved" => row[worker.head].attempts = 0
    /\ worker.pc = "posting" => row[worker.head].status = "executing"
    /\ worker.pc = "recording" => row[worker.head].status = "completed"
    /\ worker.pc = "confirmed" => access \/ withdrawn
    /\ worker.pc \in {"retry", "confirmed"} /\ worker.match =>
           \E n \in Landed(worker.head) : post[worker.head][n].request = worker.request

\* A recovery keeps its claim, and the attempt it was decided about, until it
\* finishes or gives the row back.
RecoveryHolds(a) ==
    /\ admin[a].pc # "idle" => admin[a].task \in Task /\ admin[a].head \in Head
    /\ admin[a].pc \in {"inspecting", "deciding"} =>
           /\ row[admin[a].head].status = "reconciling"
           /\ row[admin[a].head].claim = a
           /\ row[admin[a].head].attempts = admin[a].seen
           /\ admin[a].authorized => admin[a].seen < MaxPosts
    /\ admin[a].pc = "deciding" /\ admin[a].match =>
           \E n \in Landed(admin[a].head) :
               post[admin[a].head][n].request = row[admin[a].head].request

AdminHolds == \A a \in Admin : RecoveryHolds(a)

\* What a thread is about to write back links no review that is not there.
ThreadHolds(x) == thread[x].review # None => row[thread[x].review].status = "completed"
ThreadsHold == \A x \in Thread : ThreadHolds(x)

\* The inductive invariant.
IInv ==
    /\ TypeOK
    /\ PostsFollowRow
    /\ RowsAreAccounted
    /\ WorkerHolds
    /\ AdminHolds
    /\ ThreadsHold
    /\ EveryRetryWasAuthorised
    /\ ReportedReviewsExist
    /\ ClaimsHaveHolders

-----------------------------------------------------------------------------
(***************************************************************************)
(* Refinement: the rows implement the promise of GitHubWrite.              *)
(***************************************************************************)
PhaseOf(status) ==
    CASE status \in {"none", "pending"} -> "open"
      [] status = "executing" -> "writing"
      [] status \in {"unknown", "reconciling"} -> "doubt"
      [] status = "completed" -> "done"

phaseBar == [h \in Head |-> PhaseOf(row[h].status)]
sentBar == [h \in Head |-> row[h].attempts]
publishedBar == {h \in Head : Landed(h) # {}}

Promise == INSTANCE GitHubWrite WITH
    Target <- Head,
    phase <- phaseBar, sent <- sentBar, grants <- granted, published <- publishedBar

\* The controller keeps the promise of GitHubWrite for every head: the rows
\* and the POSTs of every behaviour are a behaviour of GitHubWrite.
KeepsPromise == Promise!Spec

=============================================================================
