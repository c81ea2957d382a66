------------------------ MODULE ReviewOutboxProofs ------------------------
(***************************************************************************)
(* Proofs about ReviewOutbox, for any number of tasks, heads, reviews,     *)
(* administrators and threads.  IInv is inductive: one lemma per action    *)
(* shows that it preserves IInv, after a few lemmas for the actions that   *)
(* disturb only the tasks, only the worker or only one administrator.  The *)
(* refinement of GitHubWrite follows from it.                              *)
(***************************************************************************)
EXTENDS ReviewOutbox, TLAPS

\* The conjuncts of TypeOK, by name, so that a step cites only what it needs.
TasksTyped == task \in [Task -> TaskRow]
RowsTyped == row \in [Head -> OutboxRow]
PostsTyped == post \in [Head -> [Attempt -> Post]]
GrantsTyped == granted \in [Head -> SUBSET Attempt]
PullTyped == pull \in [head: Head, open: BOOLEAN]
AccessTyped == access \in BOOLEAN /\ withdrawn \in BOOLEAN
WorkerTyped == worker \in Worker
AdminsTyped == admin \in [Admin -> AdminState]
ThreadsTyped == thread \in [Thread -> ThreadState]

USE DEF policy

\* The inductive invariant gives every part of the type invariant.
LEMMA TypedParts ==
  ASSUME IInv
  PROVE  /\ TasksTyped /\ RowsTyped /\ PostsTyped /\ GrantsTyped /\ PullTyped
         /\ AccessTyped /\ WorkerTyped /\ AdminsTyped /\ ThreadsTyped
BY DEF IInv, TypeOK, TasksTyped, RowsTyped, PostsTyped, GrantsTyped, PullTyped,
       AccessTyped, WorkerTyped, AdminsTyped, ThreadsTyped

\* The parts make up the type invariant of the next state.
LEMMA TypedWhole ==
  ASSUME TasksTyped', RowsTyped', PostsTyped', GrantsTyped', PullTyped',
         AccessTyped', WorkerTyped', AdminsTyped', ThreadsTyped'
  PROVE  TypeOK'
BY DEF TypeOK, TasksTyped, RowsTyped, PostsTyped, GrantsTyped, PullTyped,
       AccessTyped, WorkerTyped, AdminsTyped, ThreadsTyped

\* The idle coroutine and the idle recovery are well typed.
LEMMA IdleTyped == IdleWorker \in Worker /\ IdleAdmin \in AdminState
BY ConstantsOK DEF IdleWorker, IdleAdmin, Worker, WorkerPC, AdminState, AdminPC

-----------------------------------------------------------------------------
\* A step that leaves tasks, rows, POSTs, grants, worker and recoveries alone
\* (GitHub moves the pull request, access changes, a thread reads a task).
LEMMA QuietStep ==
  ASSUME IInv, TypeOK', UNCHANGED <<task, row, post, granted, worker, admin>>,
         WorkerHolds', ThreadsHold'
  PROVE  IInv'
BY DEF IInv, PostsFollowRow, RowsAreAccounted, WorkerHolds, AdminHolds, RecoveryHolds,
       EveryRetryWasAuthorised, ReportedReviewsExist, ClaimsHaveHolders, Landed

\* What the threads read stays there while no completed row is reopened.
LEMMA ThreadsKept ==
  ASSUME IInv, UNCHANGED thread,
         \A h \in Head : row[h].status = "completed" => row'[h].status = "completed"
  PROVE  ThreadsHold'
<1>1. \A x \in Thread : thread[x].review \in Head \cup {None}
  BY TypedParts DEF ThreadsTyped, ThreadState
<1>. QED
  BY <1>1 DEF IInv, ThreadsHold, ThreadHolds

\* A step of the worker, or of the tasks alone, that touches no row and links
\* no review: only what the worker holds has to be shown again.
LEMMA WorkerOnlyStep ==
  ASSUME IInv, TypeOK', WorkerHolds', UNCHANGED <<row, post, granted, admin, thread>>,
         worker.pc # "posting" \/ worker' = worker,
         \A t \in Task : task'[t].review = task[t].review
  PROVE  IInv'
<1>1. /\ PostsFollowRow' /\ RowsAreAccounted' /\ AdminHolds'
      /\ EveryRetryWasAuthorised'
  BY DEF IInv, PostsFollowRow, RowsAreAccounted, AdminHolds, RecoveryHolds,
         EveryRetryWasAuthorised, Landed
<1>2. ReportedReviewsExist'
  BY DEF IInv, ReportedReviewsExist, Landed
<1>3. ClaimsHaveHolders'
  BY DEF IInv, ClaimsHaveHolders
<1>4. ThreadsHold'
  BY ThreadsKept
<1>. QED
  BY <1>1, <1>2, <1>3, <1>4 DEF IInv

\* The worker drops its task, whatever the status it leaves it in.
LEMMA LeaveStep ==
  ASSUME IInv, NEW status \in TaskStatus, NEW head \in Head \cup {None},
         Leave(status, head), worker.pc \notin {"idle", "posting"},
         UNCHANGED <<row, post, granted, pull, policy, admin, thread>>
  PROVE  IInv'
<1>1. worker.task \in Task
  BY DEF IInv, WorkerHolds
<1>2. TasksTyped' /\ \A t \in Task : task'[t].review = task[t].review
  BY <1>1, TypedParts DEF TasksTyped, TaskRow, Leave
<1>3. WorkerTyped' /\ WorkerHolds'
  BY IdleTyped DEF WorkerTyped, WorkerHolds, Leave, IdleWorker
<1>4. TypeOK'
  BY <1>2, <1>3, TypedParts, TypedWhole
     DEF RowsTyped, PostsTyped, GrantsTyped, AdminsTyped, PullTyped, AccessTyped, ThreadsTyped
<1>. QED
  BY <1>2, <1>3, <1>4, WorkerOnlyStep

\* The worker stores the head of its review and goes on.
LEMMA GoesOnStep ==
  ASSUME IInv, NEW pc \in WorkerPC, NEW h \in Head, NEW request \in Request,
         GoesOn(pc, h, request), worker.pc \notin {"idle", "posting"}, WorkerHolds',
         UNCHANGED <<row, post, granted, pull, policy, admin, thread>>
  PROVE  IInv'
<1>1. worker.task \in Task
  BY DEF IInv, WorkerHolds
<1>2. TasksTyped' /\ \A t \in Task : task'[t].review = task[t].review
  BY <1>1, TypedParts DEF TasksTyped, TaskRow, GoesOn
<1>3. WorkerTyped'
  BY TypedParts DEF WorkerTyped, Worker, GoesOn
<1>4. TypeOK'
  BY <1>2, <1>3, TypedParts, TypedWhole
     DEF RowsTyped, PostsTyped, GrantsTyped, AdminsTyped, PullTyped, AccessTyped, ThreadsTyped
<1>. QED
  BY <1>2, <1>4, WorkerOnlyStep

\* One recovery moves without touching a row, and gives up no claim.
LEMMA AdminOnlyStep ==
  ASSUME IInv, NEW a \in Admin, admin'[a] \in AdminState, RecoveryHolds(a)',
         admin' = [admin EXCEPT ![a] = admin'[a]],
         admin[a].pc \in {"inspecting", "deciding"} =>
             admin'[a].pc \in {"inspecting", "deciding"} /\ admin'[a].head = admin[a].head,
         UNCHANGED <<task, row, post, granted, pull, policy, worker, thread>>
  PROVE  IInv'
<1>1. \A b \in Admin \ {a} : admin'[b] = admin[b]
  BY TypedParts DEF AdminsTyped
<1>2. AdminsTyped'
  BY TypedParts DEF AdminsTyped
<1>3. TypeOK'
  BY <1>2, TypedParts, TypedWhole
     DEF TasksTyped, RowsTyped, PostsTyped, GrantsTyped, WorkerTyped, PullTyped,
         AccessTyped, ThreadsTyped
<1>4. AdminHolds'
  BY <1>1 DEF IInv, AdminHolds, RecoveryHolds, Landed
<1>5. ClaimsHaveHolders'
  BY <1>1 DEF IInv, ClaimsHaveHolders
<1>6. ThreadsHold'
  BY ThreadsKept
<1>. QED
  BY <1>3, <1>4, <1>5, <1>6
     DEF IInv, PostsFollowRow, RowsAreAccounted, WorkerHolds, EveryRetryWasAuthorised,
         ReportedReviewsExist, Landed

-----------------------------------------------------------------------------
\* GitHub moves the pull request, access changes, a thread checks a task.
LEMMA PullMovesStep ==
  ASSUME IInv, PullMoves
  PROVE  IInv'
<1>1. PullTyped'
  BY DEF PullTyped, PullMoves
<1>2. TypeOK'
  BY <1>1, TypedParts, TypedWhole
     DEF TasksTyped, RowsTyped, PostsTyped, GrantsTyped, AccessTyped, WorkerTyped,
         AdminsTyped, ThreadsTyped, PullMoves
<1>3. WorkerHolds' /\ ThreadsHold'
  BY ThreadsKept DEF IInv, WorkerHolds, Landed, PullMoves
<1>. QED
  BY <1>2, <1>3, QuietStep DEF PullMoves

\* Switching review access leaves the invariant alone.
LEMMA SetAccessStep ==
  ASSUME IInv, SetAccess
  PROVE  IInv'
<1>1. AccessTyped'
  BY TypedParts DEF AccessTyped, SetAccess
<1>2. TypeOK'
  BY <1>1, TypedParts, TypedWhole
     DEF TasksTyped, RowsTyped, PostsTyped, GrantsTyped, PullTyped, WorkerTyped,
         AdminsTyped, ThreadsTyped, SetAccess
<1>3. WorkerHolds'
  BY TypedParts DEF IInv, WorkerHolds, Landed, AccessTyped, SetAccess
<1>4. ThreadsHold'
  BY ThreadsKept DEF SetAccess
<1>. QED
  BY <1>2, <1>3, <1>4, QuietStep DEF SetAccess

\* A thread that has only read leaves the invariant alone.
LEMMA CheckRequeueStep ==
  ASSUME NEW x \in Thread, NEW t \in Task, IInv, CheckRequeue(x, t)
  PROVE  IInv'
<1>1. /\ task[t].head \in Head \cup {None} /\ task[t].review \in Head \cup {None}
      /\ task[t].review # None => row[task[t].review].status = "completed"
  BY TypedParts DEF TasksTyped, TaskRow, IInv, ReportedReviewsExist
<1>2. /\ [task |-> t, whole |-> TRUE, head |-> task[t].head, review |-> task[t].review]
             \in ThreadState
      /\ [IdleThread EXCEPT !.task = t] \in ThreadState
      /\ [IdleThread EXCEPT !.task = t].review = None
  BY <1>1 DEF ThreadState, IdleThread
<1>3. PICK s \in ThreadState :
         /\ s.review # None => row[s.review].status = "completed"
         /\ thread' = [thread EXCEPT ![x] = s]
  BY <1>1, <1>2 DEF CheckRequeue
<1>4. ThreadsTyped' /\ ThreadsHold'
  BY <1>3, TypedParts DEF ThreadsTyped, IInv, ThreadsHold, ThreadHolds, CheckRequeue
<1>5. TypeOK'
  BY <1>4, TypedParts, TypedWhole
     DEF TasksTyped, RowsTyped, PostsTyped, GrantsTyped, PullTyped, AccessTyped,
         WorkerTyped, AdminsTyped, CheckRequeue
<1>6. WorkerHolds'
  BY DEF IInv, WorkerHolds, Landed, CheckRequeue
<1>. QED
  BY <1>4, <1>5, <1>6, QuietStep DEF CheckRequeue

\* A webhook delivery creates a task.
LEMMA WebhookStep ==
  ASSUME NEW t \in Task, IInv, Webhook(t)
  PROVE  IInv'
<1>1. TasksTyped' /\ \A u \in Task : task'[u].review = task[u].review
  BY TypedParts DEF TasksTyped, TaskRow, TaskStatus, Webhook
<1>2. TypeOK'
  BY <1>1, TypedParts, TypedWhole
     DEF RowsTyped, PostsTyped, GrantsTyped, PullTyped, AccessTyped, WorkerTyped,
         AdminsTyped, ThreadsTyped, Webhook
<1>3. WorkerHolds'
  BY DEF IInv, WorkerHolds, Landed, Webhook
<1>. QED
  BY <1>1, <1>2, <1>3, WorkerOnlyStep DEF Webhook

\* A thread writes the task it has checked, perhaps with the data it had read.
LEMMA RequeueStep ==
  ASSUME NEW x \in Thread, IInv, Requeue(x)
  PROVE  IInv'
<1>. DEFINE t == thread[x].task
            queued == IF thread[x].whole
                      THEN [status |-> "queued", head |-> thread[x].head,
                            review |-> thread[x].review]
                      ELSE [task[t] EXCEPT !.status = "queued"]
<1>1. /\ t \in Task /\ thread[x] \in ThreadState /\ task[t] \in TaskRow
      /\ task' = [task EXCEPT ![t] = queued]
      /\ thread' = [thread EXCEPT ![x] = IdleThread]
      /\ UNCHANGED <<row, post, granted, pull, policy, worker, admin>>
  BY TypedParts DEF TasksTyped, ThreadsTyped, ThreadState, Requeue
<1>2. queued \in TaskRow /\ queued.review \in {task[t].review, thread[x].review}
  BY <1>1 DEF TaskRow, TaskStatus, ThreadState
<1>3. queued.review # None => row[queued.review].status = "completed"
  BY <1>1, <1>2 DEF IInv, ReportedReviewsExist, ThreadsHold, ThreadHolds
<1>. HIDE DEF queued, t
<1>4. TasksTyped' /\ ThreadsTyped'
  BY <1>1, <1>2, TypedParts DEF TasksTyped, ThreadsTyped, ThreadState, IdleThread
<1>5. TypeOK'
  BY <1>1, <1>4, TypedParts, TypedWhole
     DEF RowsTyped, PostsTyped, GrantsTyped, PullTyped, AccessTyped, WorkerTyped, AdminsTyped
<1>6. ReportedReviewsExist'
  BY <1>1, <1>3, TypedParts DEF IInv, ReportedReviewsExist, TasksTyped, Landed
<1>7. ThreadsHold'
  BY <1>1, TypedParts DEF IInv, ThreadsTyped, ThreadsHold, ThreadHolds, IdleThread
<1>8. WorkerHolds'
  BY <1>1 DEF IInv, WorkerHolds, Landed
<1>. QED
  BY <1>1, <1>5, <1>6, <1>7, <1>8
     DEF IInv, PostsFollowRow, RowsAreAccounted, AdminHolds, RecoveryHolds,
         EveryRetryWasAuthorised, ClaimsHaveHolders, Landed

\* GitHub executes a POST.
LEMMA LandStep ==
  ASSUME NEW h \in Head, NEW n \in Attempt, IInv, Land(h, n)
  PROVE  IInv'
<1>1. TypeOK'
  <2>1. PostsTyped'
    BY TypedParts DEF IInv, PostsTyped, Post, Land
  <2>. QED
    BY <2>1, TypedParts, TypedWhole
       DEF TasksTyped, RowsTyped, GrantsTyped, WorkerTyped, AdminsTyped, PullTyped,
           AccessTyped, ThreadsTyped, Land
<1>2. PostsFollowRow'
  BY TypedParts, ConstantsOK
     DEF IInv, PostsTyped, RowsTyped, Post, OutboxRow, PostsFollowRow, Attempt, Land
<1>3. WorkerHolds'
  BY TypedParts
     DEF IInv, PostsTyped, RowsTyped, WorkerTyped, Post, OutboxRow, Worker, WorkerHolds,
         Landed, PostsFollowRow, Land
<1>4. AdminHolds'
  BY TypedParts
     DEF IInv, AdminsTyped, PostsTyped, RowsTyped, AdminState, Post, OutboxRow,
         AdminHolds, Landed, PostsFollowRow, Land, RecoveryHolds
<1>5. EveryRetryWasAuthorised'
  BY TypedParts, ConstantsOK
     DEF IInv, GrantsTyped, PostsTyped, Post, EveryRetryWasAuthorised, PostsFollowRow,
         RowsAreAccounted, Attempt, Land
<1>6. ReportedReviewsExist'
  BY TypedParts
     DEF IInv, PostsTyped, RowsTyped, TasksTyped, Post, OutboxRow, TaskRow,
         ReportedReviewsExist, Landed, PostsFollowRow, Land
<1>9. ThreadsHold'
  <2>1. \A g \in Head : row[g].status = "completed" => row'[g].status = "completed"
    BY TypedParts DEF IInv, RowsTyped, OutboxRow, Land
  <2>. QED
    BY <2>1, ThreadsKept DEF Land
<1>. QED
  BY <1>9, <1>1, <1>2, <1>3, <1>4, <1>5, <1>6 DEF IInv, RowsAreAccounted, ClaimsHaveHolders, Land

\* A POST is lost.
LEMMA VanishStep ==
  ASSUME NEW h \in Head, NEW n \in Attempt, IInv, Vanish(h, n)
  PROVE  IInv'
<1>1. TypeOK'
  <2>1. PostsTyped'
    BY TypedParts DEF IInv, PostsTyped, Post, Vanish
  <2>. QED
    BY <2>1, TypedParts, TypedWhole
       DEF TasksTyped, RowsTyped, GrantsTyped, WorkerTyped, AdminsTyped, PullTyped,
           AccessTyped, ThreadsTyped, Vanish
<1>2. PostsFollowRow'
  BY TypedParts, ConstantsOK
     DEF IInv, PostsTyped, RowsTyped, Post, OutboxRow, PostsFollowRow, Attempt, Vanish
<1>3. WorkerHolds'
  <2>1. \A g \in Head : Landed(g)' = Landed(g)
    BY TypedParts DEF PostsTyped, Post, Landed, Vanish
  <2>2. \A g \in Head, m \in Attempt : post'[g][m].request = post[g][m].request
    BY TypedParts DEF PostsTyped, Post, Vanish
  <2>. QED
    BY <2>1, <2>2 DEF IInv, WorkerHolds, Vanish, Landed
<1>4. AdminHolds'
  BY TypedParts
     DEF IInv, AdminsTyped, PostsTyped, RowsTyped, AdminState, Post, OutboxRow,
         AdminHolds, Landed, PostsFollowRow, Vanish, RecoveryHolds
<1>5. EveryRetryWasAuthorised'
  BY TypedParts, ConstantsOK
     DEF IInv, GrantsTyped, PostsTyped, Post, EveryRetryWasAuthorised, PostsFollowRow,
         RowsAreAccounted, Attempt, Vanish
<1>6. ReportedReviewsExist'
  <2>1. \A g \in Head : Landed(g)' = Landed(g)
    BY TypedParts DEF PostsTyped, Post, Landed, Vanish
  <2>2. \A g \in Head, m \in Attempt : post'[g][m].request = post[g][m].request
    BY TypedParts DEF PostsTyped, Post, Vanish
  <2>. QED
    BY <2>1, <2>2 DEF IInv, ReportedReviewsExist, Vanish, Landed
<1>9. ThreadsHold'
  <2>1. \A g \in Head : row[g].status = "completed" => row'[g].status = "completed"
    BY TypedParts DEF IInv, RowsTyped, OutboxRow, Vanish
  <2>. QED
    BY <2>1, ThreadsKept DEF Vanish
<1>. QED
  BY <1>9, <1>1, <1>2, <1>3, <1>4, <1>5, <1>6
     DEF IInv, RowsAreAccounted, ClaimsHaveHolders, Vanish

\* Time passes for a row.
LEMMA TwoMinutesPassStep ==
  ASSUME NEW h \in Head, IInv, TwoMinutesPass(h)
  PROVE  IInv'
<1>1. TypeOK'
  <2>1. RowsTyped'
    BY TypedParts DEF IInv, RowsTyped, OutboxRow, RowStatus, TwoMinutesPass
  <2>. QED
    BY <2>1, TypedParts, TypedWhole
       DEF TasksTyped, PostsTyped, GrantsTyped, WorkerTyped, AdminsTyped, PullTyped,
           AccessTyped, ThreadsTyped, TwoMinutesPass
<1>2. PostsFollowRow'
  BY TypedParts, ConstantsOK
     DEF IInv, PostsTyped, RowsTyped, Post, OutboxRow, PostsFollowRow, Attempt,
         TwoMinutesPass
<1>3. RowsAreAccounted'
  BY TypedParts
     DEF IInv, GrantsTyped, RowsTyped, OutboxRow, RowsAreAccounted, Unresolved,
         PostsFollowRow, TwoMinutesPass
<1>4. WorkerHolds'
  BY TypedParts
     DEF IInv, PostsTyped, RowsTyped, WorkerTyped, Post, OutboxRow, Worker, WorkerHolds,
         Landed, PostsFollowRow, TwoMinutesPass
<1>5. AdminHolds'
  BY TypedParts
     DEF IInv, AdminsTyped, PostsTyped, RowsTyped, AdminState, Post, OutboxRow,
         AdminHolds, Landed, PostsFollowRow, TwoMinutesPass, RecoveryHolds
<1>6. ReportedReviewsExist'
  BY TypedParts
     DEF IInv, PostsTyped, RowsTyped, TasksTyped, Post, OutboxRow, TaskRow,
         ReportedReviewsExist, Landed, PostsFollowRow, TwoMinutesPass
<1>7. ClaimsHaveHolders'
  BY TypedParts
     DEF IInv, AdminsTyped, RowsTyped, WorkerTyped, AdminState, OutboxRow, Worker,
         ClaimsHaveHolders, TwoMinutesPass
<1>9. ThreadsHold'
  <2>1. \A g \in Head : row[g].status = "completed" => row'[g].status = "completed"
    BY TypedParts DEF IInv, RowsTyped, OutboxRow, TwoMinutesPass, Unresolved
  <2>. QED
    BY <2>1, ThreadsKept DEF TwoMinutesPass
<1>. QED
  BY <1>9, <1>1, <1>2, <1>3, <1>4, <1>5, <1>6, <1>7
     DEF IInv, EveryRetryWasAuthorised, TwoMinutesPass

-----------------------------------------------------------------------------
\* The worker takes a queued task.
LEMMA ProcessStep ==
  ASSUME NEW t \in Task, IInv, Process(t)
  PROVE  IInv'
<1>1. TasksTyped' /\ \A u \in Task : task'[u].review = task[u].review
  BY TypedParts DEF TasksTyped, TaskRow, TaskStatus, Process
<1>2. [IdleWorker EXCEPT !.pc = "context", !.task = t, !.allowed = access] \in Worker
  BY TypedParts, IdleTyped DEF AccessTyped, Worker, WorkerPC
<1>3. WorkerTyped' /\ WorkerHolds'
  BY <1>2 DEF WorkerTyped, WorkerHolds, Process, IdleWorker
<1>4. TypeOK'
  BY <1>1, <1>3, TypedParts, TypedWhole
     DEF RowsTyped, PostsTyped, GrantsTyped, AdminsTyped, PullTyped, AccessTyped,
         ThreadsTyped, Process
<1>. QED
  BY <1>1, <1>3, <1>4, WorkerOnlyStep DEF Process

\* The worker reads the pull request's head.
LEMMA PullContextStep ==
  ASSUME IInv, PullContext
  PROVE  IInv'
<1>1. pull.head \in Head /\ pull.open \in BOOLEAN /\ worker \in Worker
  BY TypedParts DEF PullTyped, WorkerTyped
<1>2. WorkerTyped' /\ WorkerHolds'
  BY <1>1 DEF IInv, WorkerTyped, WorkerHolds, Worker, WorkerPC, PullContext
<1>3. TypeOK'
  BY <1>2, TypedParts, TypedWhole
     DEF TasksTyped, RowsTyped, PostsTyped, GrantsTyped, AdminsTyped, PullTyped,
         AccessTyped, ThreadsTyped, PullContext
<1>. QED
  BY <1>2, <1>3, WorkerOnlyStep DEF PullContext

\* The worker asks for a verdict.
LEMMA StartReviewStep ==
  ASSUME IInv, StartReview
  PROVE  IInv'
<1>1. worker \in Worker
  BY TypedParts DEF WorkerTyped
<1>2. WorkerTyped' /\ WorkerHolds'
  BY <1>1 DEF IInv, WorkerTyped, WorkerHolds, Worker, WorkerPC, StartReview
<1>3. TypeOK'
  BY <1>2, TypedParts, TypedWhole
     DEF TasksTyped, RowsTyped, PostsTyped, GrantsTyped, AdminsTyped, PullTyped,
         AccessTyped, ThreadsTyped, StartReview
<1>. QED
  BY <1>2, <1>3, WorkerOnlyStep DEF StartReview

\* Every way to leave a task before a row is claimed.
LEMMA LeavingSteps ==
  ASSUME IInv,
         \/ StepFails \/ LeaveWithoutReview \/ ResumeConflict
         \/ ResumeWaitsForOwner \/ RetryRefused
  PROVE  IInv'
<1>1. worker.pc # "idle" => task[worker.task].head \in Head \cup {None}
  BY TypedParts DEF IInv, WorkerHolds, TasksTyped, TaskRow
<1>2. worker.pc \in {"loaded", "review"} => worker.head \in Head
  BY DEF IInv, WorkerHolds
<1>3. CASE StepFails
  BY <1>1, <1>3, LeaveStep DEF StepFails, TaskStatus
<1>4. CASE LeaveWithoutReview
  BY <1>1, <1>2, <1>4, LeaveStep DEF LeaveWithoutReview, TaskStatus
<1>5. CASE ResumeConflict
  BY <1>1, <1>5, LeaveStep DEF ResumeConflict, TaskStatus
<1>6. CASE ResumeWaitsForOwner
  BY <1>2, <1>6, LeaveStep DEF ResumeWaitsForOwner, TaskStatus
<1>7. CASE RetryRefused
  BY <1>1, <1>7, LeaveStep DEF RetryRefused, TaskStatus
<1>. QED
  BY <1>3, <1>4, <1>5, <1>6, <1>7

\* The worker reserves the first review of a head.
LEMMA ReserveReviewStep ==
  ASSUME NEW h \in Head, NEW request \in Request, IInv, ReserveReview(h, request),
         worker.pc \in {"loaded", "review"}, h = worker.head,
         UNCHANGED <<post, granted, pull, policy, admin, thread>>
  PROVE  IInv'
<1>1. TypeOK'
  <2>1. TasksTyped'
    BY TypedParts
       DEF IInv, TasksTyped, TaskRow, TaskStatus, WorkerHolds, ReserveReview, NoRow,
           GoesOn
  <2>2. RowsTyped'
    <3>1. [NoRow EXCEPT !.status = "pending", !.owner = worker.task, !.request = request]
             \in OutboxRow
      <4>1. worker.task \in Task
        BY DEF IInv, WorkerHolds
      <4>2. 0 \in 0..MaxPosts
        BY ConstantsOK
      <4>. QED
        BY <4>1, <4>2 DEF NoRow, OutboxRow, RowStatus
    <3>. QED
      BY <3>1, TypedParts DEF RowsTyped, ReserveReview
  <2>3. WorkerTyped'
    BY TypedParts DEF IInv, WorkerTyped, Worker, WorkerPC, ReserveReview, NoRow, GoesOn
  <2>. QED
    BY <2>1, <2>2, <2>3, TypedParts, TypedWhole
       DEF PostsTyped, GrantsTyped, AdminsTyped, PullTyped, AccessTyped, ThreadsTyped,
           ReserveReview, NoRow, GoesOn
<1>2. PostsFollowRow'
  <2>1. /\ row'[h].attempts = 0
        /\ \A g \in Head \ {h} : row'[g] = row[g]
    BY TypedParts DEF RowsTyped, OutboxRow, ReserveReview, NoRow
  <2>2. row[h].attempts = 0
    BY DEF IInv, RowsAreAccounted, ReserveReview
  <2>3. \A n \in Attempt : post[h][n].state = "unsent"
    BY <2>2, ConstantsOK DEF IInv, PostsFollowRow, Attempt
  <2>4. \A n \in Attempt : n > 0
    BY ConstantsOK DEF Attempt
  <2>. QED
    BY <2>1, <2>2, <2>3, <2>4 DEF IInv, PostsFollowRow
<1>3. RowsAreAccounted'
  <2>1. /\ row'[h].status = "pending"
        /\ row'[h].attempts = 0
        /\ row'[h].request = request /\ ~row'[h].retry_authorized
        /\ \A g \in Head \ {h} : row'[g] = row[g]
    BY TypedParts DEF RowsTyped, OutboxRow, ReserveReview, NoRow
  <2>. QED
    BY <2>1, ConstantsOK DEF IInv, RowsAreAccounted, Unresolved, ReserveReview
<1>4. WorkerHolds'
  BY TypedParts
     DEF IInv, PostsTyped, RowsTyped, TasksTyped, WorkerTyped, Post, OutboxRow, TaskRow,
         Worker, WorkerHolds, Landed, PostsFollowRow, ReserveReview, NoRow, GoesOn
<1>5. AdminHolds'
  BY TypedParts
     DEF IInv, AdminsTyped, PostsTyped, RowsTyped, TasksTyped, WorkerTyped, AdminState,
         Post, OutboxRow, TaskRow, Worker, AdminHolds, WorkerHolds, Landed,
         PostsFollowRow, ReserveReview, NoRow, GoesOn, RecoveryHolds
<1>6. ReportedReviewsExist'
  BY TypedParts
     DEF IInv, PostsTyped, RowsTyped, TasksTyped, WorkerTyped, Post, OutboxRow, TaskRow,
         Worker, ReportedReviewsExist, WorkerHolds, Landed, PostsFollowRow,
         ReserveReview, NoRow, GoesOn
<1>7. ClaimsHaveHolders'
  BY TypedParts
     DEF IInv, AdminsTyped, RowsTyped, TasksTyped, WorkerTyped, AdminState, OutboxRow,
         TaskRow, Worker, ClaimsHaveHolders, WorkerHolds, ReserveReview, NoRow, GoesOn
<1>9. ThreadsHold'
  <2>1. \A g \in Head : row[g].status = "completed" => row'[g].status = "completed"
    BY TypedParts DEF IInv, RowsTyped, OutboxRow, ReserveReview
  <2>. QED
    BY <2>1, ThreadsKept DEF ReserveReview
<1>. QED
  BY <1>9, <1>1, <1>2, <1>3, <1>4, <1>5, <1>6, <1>7
     DEF IInv, EveryRetryWasAuthorised, ReserveReview, NoRow, GoesOn

\* The worker finds the same review published.
LEMMA ReuseReviewStep ==
  ASSUME NEW h \in Head, NEW request \in Request, IInv, ReuseReview(h, request),
         worker.pc \in {"loaded", "review"}, h = worker.head,
         UNCHANGED <<post, granted, pull, policy, admin, thread>>
  PROVE  IInv'
<1>1. worker \in Worker
  BY TypedParts DEF WorkerTyped
<1>2. WorkerHolds'
  BY <1>1 DEF IInv, WorkerHolds, Worker, ReuseReview, GoesOn
<1>. QED
  BY <1>2, GoesOnStep DEF ReuseReview, WorkerPC

\* The worker finds its own reservation.
LEMMA ContinueReviewStep ==
  ASSUME NEW h \in Head, NEW request \in Request, IInv, ContinueReview(h, request),
         worker.pc \in {"loaded", "review"}, h = worker.head,
         UNCHANGED <<post, granted, pull, policy, admin, thread>>
  PROVE  IInv'
<1>1. worker \in Worker
  BY TypedParts DEF WorkerTyped
<1>2. CASE ~row[h].retry_authorized /\ GoesOn("reserved", h, request)
  <2>1. row[h].attempts = 0
    BY <1>2, TypedParts
       DEF IInv, RowsAreAccounted, RowsTyped, OutboxRow, ContinueReview
  <2>2. WorkerHolds'
    BY <1>1, <1>2, <2>1 DEF IInv, WorkerHolds, Worker, ContinueReview, GoesOn, Mine
  <2>. QED
    BY <1>2, <2>2, GoesOnStep DEF ContinueReview, WorkerPC
<1>3. CASE GoesOn("inspect", h, request)
  <2>1. WorkerHolds'
    BY <1>1, <1>3 DEF IInv, WorkerHolds, Worker, ContinueReview, GoesOn, Mine
  <2>. QED
    BY <1>3, <2>1, GoesOnStep DEF ContinueReview, WorkerPC
<1>4. CASE Leave("failed", h)
  BY <1>4, LeaveStep DEF ContinueReview, TaskStatus
<1>. QED
  BY <1>2, <1>3, <1>4 DEF ContinueReview

\* The worker is refused by an action that is not its own to repeat.
LEMMA RefuseReviewStep ==
  ASSUME NEW h \in Head, NEW request \in Request, IInv, RefuseReview(h, request),
         worker.pc \in {"loaded", "review"}, h = worker.head,
         UNCHANGED <<post, granted, pull, policy, admin, thread>>
  PROVE  IInv'
<1>1. task[worker.task].head \in Head \cup {None}
  BY TypedParts DEF IInv, WorkerHolds, TasksTyped, TaskRow
<1>. QED
  BY <1>1, LeaveStep DEF RefuseReview, TaskStatus

\* The worker looks at GitHub before an authorised retry.
LEMMA InspectBeforeRetryStep ==
  ASSUME IInv, InspectBeforeRetry
  PROVE  IInv'
<1>1. worker \in Worker /\ task[worker.task].head \in Head \cup {None}
  BY TypedParts DEF IInv, WorkerHolds, TasksTyped, TaskRow, WorkerTyped, InspectBeforeRetry
<1>2. CASE /\ RemoteConsistent(worker.head, worker.request)
           /\ worker' = [worker EXCEPT !.pc = "retry", !.match = Landed(worker.head) # {}]
           /\ UNCHANGED task
  <2>1. /\ worker'.pc = "retry" /\ worker'.task = worker.task
        /\ worker'.head = worker.head /\ worker'.request = worker.request
        /\ worker'.match = (Landed(worker.head) # {})
        /\ worker' \in Worker
    BY <1>1, <1>2 DEF Worker, WorkerPC
  <2>2. /\ worker.task \in Task /\ worker.head \in Head
        /\ row[worker.head].request = worker.request
        /\ row[worker.head].status = "pending"
    BY DEF IInv, WorkerHolds, InspectBeforeRetry
  <2>3. \A n \in Landed(worker.head) : post[worker.head][n].request = worker.request
    BY <1>2 DEF RemoteConsistent
  <2>4. row' = row /\ post' = post
    BY DEF InspectBeforeRetry
  <2>5. WorkerHolds'
    BY <2>1, <2>2, <2>3, <2>4 DEF WorkerHolds, Landed
  <2>6. TypeOK'
    BY <1>2, <2>1, TypedParts, TypedWhole
       DEF TasksTyped, RowsTyped, PostsTyped, GrantsTyped, AdminsTyped, PullTyped,
           AccessTyped, ThreadsTyped, WorkerTyped, InspectBeforeRetry
  <2>. QED
    BY <1>2, <2>5, <2>6, WorkerOnlyStep DEF InspectBeforeRetry
<1>3. CASE Leave("failed", task[worker.task].head)
  BY <1>1, <1>3, LeaveStep DEF InspectBeforeRetry, TaskStatus
<1>. QED
  BY <1>2, <1>3 DEF InspectBeforeRetry

\* The retry may go on: access was there a moment ago.
LEMMA ConfirmRetryStep ==
  ASSUME IInv, ConfirmRetry
  PROVE  IInv'
<1>1. worker \in Worker
  BY TypedParts DEF WorkerTyped
<1>2. WorkerTyped' /\ WorkerHolds'
  BY <1>1 DEF IInv, WorkerTyped, WorkerHolds, Worker, WorkerPC, Landed, ConfirmRetry, StillAllowed
<1>3. TypeOK'
  BY <1>2, TypedParts, TypedWhole
     DEF TasksTyped, RowsTyped, PostsTyped, GrantsTyped, AdminsTyped, PullTyped,
         AccessTyped, ThreadsTyped, ConfirmRetry
<1>. QED
  BY <1>2, <1>3, WorkerOnlyStep DEF ConfirmRetry

\* A retry finds the review of an earlier POST and completes the row.
LEMMA RetryFindsReviewStep ==
  ASSUME IInv, RetryFindsReview
  PROVE  IInv'
<1>1. TypeOK'
  <2>1. RowsTyped'
    BY TypedParts DEF IInv, RowsTyped, OutboxRow, RowStatus, WorkerHolds, RetryFindsReview
  <2>2. WorkerTyped'
    BY TypedParts DEF IInv, WorkerTyped, Worker, WorkerPC, RetryFindsReview
  <2>. QED
    BY <2>1, <2>2, TypedParts, TypedWhole
       DEF TasksTyped, PostsTyped, GrantsTyped, AdminsTyped, PullTyped, AccessTyped,
           ThreadsTyped, RetryFindsReview
<1>2. PostsFollowRow'
  BY TypedParts, ConstantsOK
     DEF IInv, PostsTyped, RowsTyped, WorkerTyped, Post, OutboxRow, Worker,
         PostsFollowRow, WorkerHolds, Attempt, RetryFindsReview
<1>3. RowsAreAccounted'
  <2>. DEFINE h == worker.head
  <2>1. h \in Head /\ \E n \in Attempt : post[h][n].state = "landed"
    BY DEF IInv, WorkerHolds, RetryFindsReview, Landed
  <2>2. row[h].attempts > 0
    BY <2>1, TypedParts, ConstantsOK
       DEF IInv, PostsFollowRow, Attempt, RowsTyped, OutboxRow
  <2>. QED
    BY <2>1, <2>2, TypedParts
       DEF IInv, RowsAreAccounted, RowsTyped, OutboxRow, RetryFindsReview
<1>4. WorkerHolds'
  BY TypedParts
     DEF IInv, PostsTyped, RowsTyped, WorkerTyped, Post, OutboxRow, Worker, WorkerHolds,
         Landed, PostsFollowRow, RetryFindsReview
<1>5. AdminHolds'
  BY TypedParts
     DEF IInv, AdminsTyped, PostsTyped, RowsTyped, WorkerTyped, AdminState, Post,
         OutboxRow, Worker, AdminHolds, WorkerHolds, Landed, PostsFollowRow,
         RetryFindsReview, RecoveryHolds
<1>6. ReportedReviewsExist'
  BY TypedParts
     DEF IInv, PostsTyped, RowsTyped, TasksTyped, WorkerTyped, Post, OutboxRow, TaskRow,
         Worker, ReportedReviewsExist, WorkerHolds, Landed, PostsFollowRow,
         RetryFindsReview
<1>7. ClaimsHaveHolders'
  BY TypedParts
     DEF IInv, AdminsTyped, RowsTyped, WorkerTyped, AdminState, OutboxRow, Worker,
         ClaimsHaveHolders, WorkerHolds, RetryFindsReview
<1>9. ThreadsHold'
  <2>1. \A g \in Head : row[g].status = "completed" => row'[g].status = "completed"
    BY TypedParts DEF IInv, RowsTyped, OutboxRow, RetryFindsReview
  <2>. QED
    BY <2>1, ThreadsKept DEF RetryFindsReview
<1>. QED
  BY <1>9, <1>1, <1>2, <1>3, <1>4, <1>5, <1>6, <1>7
     DEF IInv, EveryRetryWasAuthorised, RetryFindsReview

\* The worker claims its row and sends the POST.
LEMMA ClaimAndPostStep ==
  ASSUME IInv, ClaimAndPost
  PROVE  IInv'
<1>1. TypeOK'
  <2>1. RowsTyped'
    BY TypedParts DEF IInv, RowsTyped, OutboxRow, RowStatus, WorkerHolds, ClaimAndPost
  <2>2. PostsTyped'
    <3>1. [state |-> "inflight", request |-> worker.request] \in Post
      BY TypedParts DEF WorkerTyped, Worker, Post
    <3>. QED
      BY <3>1, TypedParts DEF PostsTyped, ClaimAndPost
  <2>3. WorkerTyped'
    BY TypedParts DEF IInv, WorkerTyped, Worker, WorkerPC, ClaimAndPost
  <2>. QED
    BY <2>1, <2>2, <2>3, TypedParts, TypedWhole
       DEF TasksTyped, GrantsTyped, AdminsTyped, PullTyped, AccessTyped, ThreadsTyped,
           ClaimAndPost
<1>2. PostsFollowRow'
  BY TypedParts, ConstantsOK
     DEF IInv, PostsTyped, RowsTyped, WorkerTyped, Post, OutboxRow, Worker,
         PostsFollowRow, WorkerHolds, Attempt, ClaimAndPost
<1>3. RowsAreAccounted'
  BY TypedParts
     DEF IInv, GrantsTyped, PostsTyped, RowsTyped, WorkerTyped, Post, OutboxRow, Worker,
         RowsAreAccounted, WorkerHolds, Unresolved, PostsFollowRow, ClaimAndPost
<1>4. WorkerHolds'
  <2>. DEFINE h == worker.head
  <2>1. worker.task \in Task /\ h \in Head /\ row[h].request = worker.request
    BY DEF IInv, WorkerHolds, ClaimAndPost
  <2>2. row'[h].request = row[h].request /\ row'[h].status = "executing"
    BY <2>1, TypedParts DEF RowsTyped, OutboxRow, ClaimAndPost
  <2>3. /\ worker'.pc = "posting" /\ worker'.task = worker.task
        /\ worker'.head = h /\ worker'.request = worker.request
    BY TypedParts DEF WorkerTyped, Worker, ClaimAndPost
  <2>. QED
    BY <2>1, <2>2, <2>3 DEF WorkerHolds
<1>5. AdminHolds'
  BY TypedParts
     DEF IInv, AdminsTyped, PostsTyped, RowsTyped, WorkerTyped, AdminState, Post,
         OutboxRow, Worker, AdminHolds, WorkerHolds, Landed, PostsFollowRow,
         ClaimAndPost, RecoveryHolds
<1>6. EveryRetryWasAuthorised'
  <2>. DEFINE h == worker.head
              k == row[worker.head].attempts + 1
  <2>1. h \in Head /\ row[h].attempts \in 0..MaxPosts
    BY TypedParts DEF IInv, WorkerHolds, ClaimAndPost, RowsTyped, OutboxRow
  <2>2. row[h].attempts = 0 \/ row[h].attempts \in granted[h]
    BY <2>1 DEF IInv, RowsAreAccounted, ClaimAndPost
  <2>3. SUFFICES ASSUME NEW g \in Head, NEW n \in Attempt,
                        n > 1, post'[g][n].state # "unsent"
                 PROVE  n - 1 \in granted[g]
    BY DEF EveryRetryWasAuthorised, ClaimAndPost
  <2>4. CASE g = h /\ n = k
    BY <2>1, <2>2, <2>3, <2>4, ConstantsOK DEF Attempt
  <2>5. CASE ~(g = h /\ n = k)
    <3>1. post'[g][n] = post[g][n]
      BY <2>1, <2>5, TypedParts DEF ClaimAndPost, PostsTyped
    <3>. QED
      BY <2>3, <3>1 DEF IInv, EveryRetryWasAuthorised
  <2>. QED
    BY <2>4, <2>5
<1>7. ReportedReviewsExist'
  BY TypedParts
     DEF IInv, PostsTyped, RowsTyped, TasksTyped, WorkerTyped, Post, OutboxRow, TaskRow,
         Worker, ReportedReviewsExist, WorkerHolds, Landed, PostsFollowRow, ClaimAndPost
<1>8. ClaimsHaveHolders'
  BY TypedParts
     DEF IInv, AdminsTyped, PostsTyped, RowsTyped, WorkerTyped, AdminState, Post,
         OutboxRow, Worker, ClaimsHaveHolders, WorkerHolds, ClaimAndPost
<1>9. ThreadsHold'
  <2>1. \A g \in Head : row[g].status = "completed" => row'[g].status = "completed"
    BY TypedParts DEF IInv, RowsTyped, OutboxRow, ClaimAndPost
  <2>. QED
    BY <2>1, ThreadsKept DEF ClaimAndPost
<1>. QED
  BY <1>9, <1>1, <1>2, <1>3, <1>4, <1>5, <1>6, <1>7, <1>8 DEF IInv, ClaimAndPost

\* The response of the worker's POST completes the row.
LEMMA PostReturnsStep ==
  ASSUME IInv, PostReturns
  PROVE  IInv'
<1>1. TypeOK'
  <2>1. RowsTyped'
    BY TypedParts DEF IInv, RowsTyped, OutboxRow, RowStatus, WorkerHolds, PostReturns
  <2>2. WorkerTyped'
    BY TypedParts DEF IInv, WorkerTyped, Worker, WorkerPC, PostReturns
  <2>. QED
    BY <2>1, <2>2, TypedParts, TypedWhole
       DEF TasksTyped, PostsTyped, GrantsTyped, AdminsTyped, PullTyped, AccessTyped,
           ThreadsTyped, PostReturns
<1>2. PostsFollowRow'
  BY TypedParts, ConstantsOK
     DEF IInv, PostsTyped, RowsTyped, WorkerTyped, Post, OutboxRow, Worker,
         PostsFollowRow, WorkerHolds, Attempt, PostReturns
<1>3. RowsAreAccounted'
  BY TypedParts
     DEF IInv, GrantsTyped, RowsTyped, WorkerTyped, OutboxRow, Worker, RowsAreAccounted,
         WorkerHolds, Unresolved, PostsFollowRow, PostReturns
<1>4. WorkerHolds'
  BY TypedParts
     DEF IInv, PostsTyped, RowsTyped, WorkerTyped, Post, OutboxRow, Worker, WorkerHolds,
         Landed, PostsFollowRow, PostReturns
<1>5. AdminHolds'
  BY TypedParts
     DEF IInv, AdminsTyped, PostsTyped, RowsTyped, WorkerTyped, AdminState, Post,
         OutboxRow, Worker, AdminHolds, WorkerHolds, Landed, PostsFollowRow,
         PostReturns, RecoveryHolds
<1>6. ReportedReviewsExist'
  <2>. DEFINE h == worker.head
              k == row[worker.head].attempts
  <2>1. h \in Head /\ row[h].status = "executing"
    BY DEF IInv, WorkerHolds, PostReturns
  <2>2. k \in Attempt
    BY <2>1, TypedParts, ConstantsOK
       DEF IInv, RowsAreAccounted, Unresolved, Attempt, RowsTyped, OutboxRow
  <2>3. k \in Landed(h) /\ post[h][k].request = row[h].request
    BY <2>1, <2>2 DEF IInv, PostsFollowRow, PostReturns, Landed
  <2>4. /\ row'[h].request = row[h].request
        /\ row'[h].status = "completed"
        /\ \A g \in Head \ {h} : row'[g] = row[g]
    BY <2>1, TypedParts DEF RowsTyped, OutboxRow, PostReturns
  <2>5. \A g \in Head : Landed(g)' = Landed(g)
    BY DEF Landed, PostReturns
  <2>. QED
    BY <2>1, <2>3, <2>4, <2>5, TypedParts
       DEF IInv, ReportedReviewsExist, PostReturns, TasksTyped, TaskRow
<1>7. ClaimsHaveHolders'
  BY TypedParts
     DEF IInv, AdminsTyped, RowsTyped, WorkerTyped, AdminState, OutboxRow, Worker,
         ClaimsHaveHolders, WorkerHolds, PostReturns
<1>9. ThreadsHold'
  <2>1. \A g \in Head : row[g].status = "completed" => row'[g].status = "completed"
    BY TypedParts DEF IInv, RowsTyped, OutboxRow, PostReturns
  <2>. QED
    BY <2>1, ThreadsKept DEF PostReturns
<1>. QED
  BY <1>9, <1>1, <1>2, <1>3, <1>4, <1>5, <1>6, <1>7 DEF IInv, EveryRetryWasAuthorised, PostReturns

\* The worker's POST fails and the row becomes unknown.
LEMMA PostFailsStep ==
  ASSUME IInv, PostFails
  PROVE  IInv'
<1>1. TypeOK'
  <2>1. TasksTyped'
    BY TypedParts
       DEF IInv, TasksTyped, TaskRow, TaskStatus, WorkerHolds, PostFails, Leave,
           IdleWorker
  <2>2. RowsTyped'
    BY TypedParts
       DEF IInv, RowsTyped, OutboxRow, RowStatus, WorkerHolds, PostFails, Leave,
           IdleWorker
  <2>3. WorkerTyped'
    BY TypedParts DEF IInv, WorkerTyped, Worker, WorkerPC, PostFails, Leave, IdleWorker
  <2>. QED
    BY <2>1, <2>2, <2>3, TypedParts, TypedWhole
       DEF PostsTyped, GrantsTyped, AdminsTyped, PullTyped, AccessTyped, ThreadsTyped,
           PostFails, Leave, IdleWorker
<1>2. PostsFollowRow'
  BY TypedParts, ConstantsOK
     DEF IInv, PostsTyped, RowsTyped, TasksTyped, WorkerTyped, Post, OutboxRow, TaskRow,
         Worker, PostsFollowRow, WorkerHolds, Attempt, PostFails, Leave, IdleWorker
<1>3. RowsAreAccounted'
  BY TypedParts
     DEF IInv, GrantsTyped, RowsTyped, TasksTyped, WorkerTyped, OutboxRow, TaskRow,
         Worker, RowsAreAccounted, WorkerHolds, Unresolved, PostsFollowRow, PostFails,
         Leave, IdleWorker
<1>4. WorkerHolds'
  BY TypedParts
     DEF IInv, PostsTyped, RowsTyped, TasksTyped, WorkerTyped, Post, OutboxRow, TaskRow,
         Worker, WorkerHolds, Landed, PostsFollowRow, PostFails, Leave, IdleWorker
<1>5. AdminHolds'
  BY TypedParts
     DEF IInv, AdminsTyped, PostsTyped, RowsTyped, TasksTyped, WorkerTyped, AdminState,
         Post, OutboxRow, TaskRow, Worker, AdminHolds, WorkerHolds, Landed,
         PostsFollowRow, PostFails, Leave, IdleWorker, RecoveryHolds
<1>6. ReportedReviewsExist'
  BY TypedParts
     DEF IInv, PostsTyped, RowsTyped, TasksTyped, WorkerTyped, Post, OutboxRow, TaskRow,
         Worker, ReportedReviewsExist, WorkerHolds, Landed, PostsFollowRow, PostFails,
         Leave, IdleWorker
<1>7. ClaimsHaveHolders'
  BY TypedParts
     DEF IInv, AdminsTyped, RowsTyped, TasksTyped, WorkerTyped, AdminState, OutboxRow,
         TaskRow, Worker, ClaimsHaveHolders, WorkerHolds, PostFails, Leave, IdleWorker
<1>9. ThreadsHold'
  <2>1. \A g \in Head : row[g].status = "completed" => row'[g].status = "completed"
    BY TypedParts DEF IInv, RowsTyped, OutboxRow, PostFails, WorkerHolds
  <2>. QED
    BY <2>1, ThreadsKept DEF PostFails
<1>. QED
  BY <1>9, <1>1, <1>2, <1>3, <1>4, <1>5, <1>6, <1>7
     DEF IInv, EveryRetryWasAuthorised, PostFails, Leave, IdleWorker

\* The worker ends its task with the review.
LEMMA RecordReviewStep ==
  ASSUME IInv, RecordReview
  PROVE  IInv'
<1>1. TypeOK'
  <2>1. TasksTyped'
    BY TypedParts
       DEF IInv, TasksTyped, TaskRow, TaskStatus, WorkerHolds, RecordReview, IdleWorker
  <2>2. WorkerTyped'
    BY TypedParts DEF IInv, WorkerTyped, Worker, WorkerPC, RecordReview, IdleWorker
  <2>. QED
    BY <2>1, <2>2, TypedParts, TypedWhole
       DEF RowsTyped, PostsTyped, GrantsTyped, AdminsTyped, PullTyped, AccessTyped,
           ThreadsTyped, RecordReview, IdleWorker
<1>2. WorkerHolds'
  BY TypedParts
     DEF IInv, PostsTyped, RowsTyped, TasksTyped, WorkerTyped, Post, OutboxRow, TaskRow,
         Worker, WorkerHolds, Landed, PostsFollowRow, RecordReview, IdleWorker
<1>3. ReportedReviewsExist'
  BY TypedParts
     DEF IInv, PostsTyped, RowsTyped, TasksTyped, WorkerTyped, Post, OutboxRow, TaskRow,
         Worker, ReportedReviewsExist, WorkerHolds, Landed, PostsFollowRow,
         RecordReview, IdleWorker
<1>4. ClaimsHaveHolders'
  BY TypedParts
     DEF IInv, AdminsTyped, RowsTyped, TasksTyped, WorkerTyped, AdminState, OutboxRow,
         TaskRow, Worker, ClaimsHaveHolders, WorkerHolds, RecordReview, IdleWorker
<1>9. ThreadsHold'
  <2>1. \A g \in Head : row[g].status = "completed" => row'[g].status = "completed"
    BY TypedParts DEF IInv, RowsTyped, OutboxRow, RecordReview
  <2>. QED
    BY <2>1, ThreadsKept DEF RecordReview
<1>. QED
  BY <1>9, <1>1, <1>2, <1>3, <1>4
     DEF IInv, PostsFollowRow, RowsAreAccounted, AdminHolds, RecoveryHolds,
         EveryRetryWasAuthorised, Landed, RecordReview, IdleWorker

-----------------------------------------------------------------------------
\* An administrator is shown a preview.
LEMMA InspectReviewStep ==
  ASSUME NEW a \in Admin, NEW t \in Task, NEW h \in Head, IInv, InspectReview(a, t, h)
  PROVE  IInv'
<1>1. row[h].attempts \in 0..MaxPosts
  BY TypedParts DEF RowsTyped, OutboxRow
<1>2. [IdleAdmin EXCEPT !.pc = "previewed", !.task = t, !.head = h,
                        !.seen = row[h].attempts] \in AdminState
  BY <1>1, IdleTyped DEF AdminState, AdminPC
<1>3. admin'[a] = [IdleAdmin EXCEPT !.pc = "previewed", !.task = t, !.head = h,
                                    !.seen = row[h].attempts]
  BY TypedParts DEF AdminsTyped, InspectReview
<1>4. RecoveryHolds(a)'
  BY <1>3 DEF RecoveryHolds, IdleAdmin
<1>. QED
  BY <1>2, <1>3, <1>4, AdminOnlyStep DEF InspectReview

\* An administrator whose preview is stale starts over.
LEMMA RecoveryRefusedStep ==
  ASSUME NEW a \in Admin, IInv, RecoveryRefused(a)
  PROVE  IInv'
<1>1. admin'[a] = IdleAdmin
  BY TypedParts DEF AdminsTyped, RecoveryRefused
<1>2. RecoveryHolds(a)'
  BY <1>1 DEF RecoveryHolds, IdleAdmin
<1>. QED
  BY <1>1, <1>2, IdleTyped, AdminOnlyStep DEF RecoveryRefused

\* A recovery reads GitHub under its claim.
LEMMA InspectUnderClaimStep ==
  ASSUME NEW a \in Admin, IInv, InspectUnderClaim(a)
  PROVE  IInv'
<1>. DEFINE h == admin[a].head
<1>1. \A b \in BOOLEAN : [admin[a] EXCEPT !.pc = "deciding", !.match = b] \in AdminState
  BY TypedParts DEF AdminsTyped, AdminState, AdminPC
<1>2. admin'[a] = [admin[a] EXCEPT !.pc = "deciding", !.match = Landed(h) # {}]
  BY TypedParts DEF AdminsTyped, InspectUnderClaim
<1>3. /\ admin'[a].pc = "deciding" /\ admin'[a].head = h
      /\ admin'[a].seen = admin[a].seen /\ admin'[a].task = admin[a].task
      /\ admin'[a].authorized = admin[a].authorized
      /\ admin'[a].match = (Landed(h) # {})
  BY <1>2, TypedParts DEF AdminsTyped, AdminState
<1>4. \A n \in Landed(h) : post[h][n].request = row[h].request
  BY DEF InspectUnderClaim, RemoteConsistent
<1>5. row' = row /\ post' = post
  BY DEF InspectUnderClaim
<1>6. RecoveryHolds(a) /\ admin[a].pc = "inspecting"
  BY DEF IInv, AdminHolds, InspectUnderClaim
<1>7. RecoveryHolds(a)'
  <2>2. admin[a].task \in Task /\ h \in Head
    BY <1>6 DEF RecoveryHolds
  <2>3. /\ row[h].status = "reconciling" /\ row[h].claim = a
        /\ row[h].attempts = admin[a].seen
        /\ admin[a].authorized => admin[a].seen < MaxPosts
    BY <1>6 DEF RecoveryHolds
  <2>4. admin'[a].match =>
            \E n \in Attempt : /\ post'[h][n].state = "landed"
                              /\ post'[h][n].request = row'[h].request
    BY <1>3, <1>4, <1>5 DEF Landed
  <2>. HIDE DEF h
  <2>5. /\ admin'[a].task \in Task /\ admin'[a].head \in Head
        /\ row'[admin'[a].head].status = "reconciling" /\ row'[admin'[a].head].claim = a
        /\ row'[admin'[a].head].attempts = admin'[a].seen
        /\ admin'[a].authorized => admin'[a].seen < MaxPosts
    BY <1>3, <1>5, <2>2, <2>3
  <2>6. admin'[a].match =>
            \E n \in Attempt :
                /\ post'[admin'[a].head][n].state = "landed"
                /\ post'[admin'[a].head][n].request = row'[admin'[a].head].request
    BY <1>3, <2>4
  <2>. QED
    BY <2>5, <2>6 DEF RecoveryHolds, Landed
<1>8. admin'[a] \in AdminState
  BY <1>1, <1>2
<1>. QED
  BY <1>2, <1>3, <1>7, <1>8, AdminOnlyStep DEF InspectUnderClaim

\* A recovery claims an unknown row.
LEMMA ClaimRecoveryStep ==
  ASSUME NEW a \in Admin, NEW authorized \in BOOLEAN, IInv, ClaimRecovery(a, authorized)
  PROVE  IInv'
<1>1. TypeOK'
  <2>1. RowsTyped'
    BY TypedParts
       DEF IInv, RowsTyped, OutboxRow, RowStatus, AdminHolds, RecoveryHolds,
           ClaimRecovery, StillBound, Snapshot
  <2>2. AdminsTyped'
    <3>1. [admin[a] EXCEPT !.pc = "inspecting", !.authorized = authorized] \in AdminState
      BY TypedParts DEF AdminsTyped, AdminState, AdminPC
    <3>. QED
      BY <3>1, TypedParts DEF AdminsTyped, ClaimRecovery
  <2>. QED
    BY <2>1, <2>2, TypedParts, TypedWhole
       DEF TasksTyped, PostsTyped, GrantsTyped, WorkerTyped, PullTyped, AccessTyped,
           ThreadsTyped, ClaimRecovery, StillBound, Snapshot
<1>2. PostsFollowRow'
  BY TypedParts, ConstantsOK
     DEF IInv, AdminsTyped, PostsTyped, RowsTyped, AdminState, Post, OutboxRow,
         PostsFollowRow, AdminHolds, RecoveryHolds, Attempt, ClaimRecovery, StillBound,
         Snapshot
<1>3. RowsAreAccounted'
  BY TypedParts
     DEF IInv, AdminsTyped, GrantsTyped, RowsTyped, AdminState, OutboxRow,
         RowsAreAccounted, AdminHolds, RecoveryHolds, Unresolved, PostsFollowRow,
         ClaimRecovery, StillBound, Snapshot
<1>4. WorkerHolds'
  BY TypedParts
     DEF IInv, AdminsTyped, PostsTyped, RowsTyped, WorkerTyped, AdminState, Post,
         OutboxRow, Worker, WorkerHolds, AdminHolds, RecoveryHolds, Landed,
         PostsFollowRow, ClaimRecovery, StillBound, Snapshot
<1>5. AdminHolds'
  <2>. DEFINE h == admin[a].head
  <2>1. /\ h \in Head /\ row[h].status = "unknown" /\ row[h].attempts = admin[a].seen
        /\ admin[a].task \in Task
    BY DEF IInv, AdminHolds, RecoveryHolds, ClaimRecovery, StillBound, Snapshot
  <2>2. /\ row'[h].status = "reconciling" /\ row'[h].claim = a
        /\ row'[h].attempts = row[h].attempts
        /\ \A g \in Head \ {h} : row'[g] = row[g]
        /\ \A g \in Head : row'[g].request = row[g].request
    BY <2>1, TypedParts DEF RowsTyped, OutboxRow, ClaimRecovery
  <2>3. /\ admin'[a].pc = "inspecting" /\ admin'[a].head = h
        /\ admin'[a].seen = admin[a].seen /\ admin'[a].task = admin[a].task
        /\ admin'[a].authorized = authorized
        /\ \A b \in Admin \ {a} : admin'[b] = admin[b]
    BY TypedParts DEF AdminsTyped, AdminState, ClaimRecovery
  <2>4. authorized => admin[a].seen < MaxPosts
    BY DEF ClaimRecovery
  <2>5. post' = post
    BY DEF ClaimRecovery
  <2>6. \A b \in Admin \ {a} : admin[b].pc \in {"inspecting", "deciding"} => admin[b].head # h
    BY <2>1 DEF IInv, AdminHolds, RecoveryHolds
  <2>. QED
    <3>1. SUFFICES ASSUME NEW b \in Admin PROVE RecoveryHolds(b)'
      BY DEF AdminHolds
    <3>2. CASE b = a
      BY <2>1, <2>2, <2>3, <2>4, <3>2 DEF RecoveryHolds
    <3>3. CASE b # a
      BY <2>1, <2>2, <2>3, <2>5, <2>6, <3>3 DEF IInv, AdminHolds, RecoveryHolds, Landed
    <3>. QED
      BY <3>2, <3>3
<1>6. ReportedReviewsExist'
  BY TypedParts
     DEF IInv, AdminsTyped, PostsTyped, RowsTyped, TasksTyped, AdminState, Post,
         OutboxRow, TaskRow, ReportedReviewsExist, AdminHolds, RecoveryHolds, Landed,
         PostsFollowRow, ClaimRecovery, StillBound, Snapshot
<1>7. ClaimsHaveHolders'
  BY TypedParts
     DEF IInv, AdminsTyped, RowsTyped, WorkerTyped, AdminState, OutboxRow, Worker,
         ClaimsHaveHolders, AdminHolds, RecoveryHolds, ClaimRecovery, StillBound,
         Snapshot
<1>9. ThreadsHold'
  <2>1. \A g \in Head : row[g].status = "completed" => row'[g].status = "completed"
    BY TypedParts DEF IInv, RowsTyped, OutboxRow, ClaimRecovery, AdminHolds, StillBound, Snapshot
  <2>. QED
    BY <2>1, ThreadsKept DEF ClaimRecovery
<1>. QED
  BY <1>9, <1>1, <1>2, <1>3, <1>4, <1>5, <1>6, <1>7
     DEF IInv, EveryRetryWasAuthorised, ClaimRecovery, StillBound, Snapshot

\* A recovery completes the row or grants one more attempt.
LEMMA FinishRecoveryStep ==
  ASSUME NEW a \in Admin, IInv, FinishRecovery(a)
  PROVE  IInv'
<1>1. TypeOK'
  <2>1. TasksTyped'
    BY TypedParts
       DEF IInv, TasksTyped, TaskRow, TaskStatus, AdminHolds, RecoveryHolds,
           FinishRecovery, IdleAdmin, CanFinish
  <2>2. RowsTyped'
    <3>1. admin[a].head \in Head /\ admin[a].match \in BOOLEAN
      BY TypedParts DEF IInv, AdminsTyped, AdminState, AdminHolds, RecoveryHolds, FinishRecovery
    <3>. QED
      BY <3>1, TypedParts DEF RowsTyped, OutboxRow, RowStatus, FinishRecovery
  <2>3. GrantsTyped'
    <3>1. admin[a].head \in Head /\ admin[a].seen \in Attempt
      BY TypedParts, ConstantsOK
         DEF IInv, AdminHolds, RecoveryHolds, RowsAreAccounted, Unresolved, RowsTyped,
             OutboxRow,
             Attempt, FinishRecovery
    <3>. QED
      BY <3>1, TypedParts DEF GrantsTyped, FinishRecovery
  <2>4. AdminsTyped'
    BY TypedParts, IdleTyped DEF AdminsTyped, FinishRecovery
  <2>. QED
    BY <2>1, <2>2, <2>3, <2>4, TypedParts, TypedWhole
       DEF PostsTyped, WorkerTyped, PullTyped, AccessTyped, ThreadsTyped,
           FinishRecovery, IdleAdmin, CanFinish
<1>2. PostsFollowRow'
  <2>1. \A g \in Head : /\ row'[g].attempts = row[g].attempts
                        /\ row'[g].request = row[g].request
    BY TypedParts DEF RowsTyped, OutboxRow, FinishRecovery
  <2>2. post' = post
    BY DEF FinishRecovery
  <2>. QED
    BY <2>1, <2>2 DEF IInv, PostsFollowRow
<1>3. RowsAreAccounted'
  <2>. DEFINE h == admin[a].head
  <2>1. /\ h \in Head /\ admin[a].seen = row[h].attempts
        /\ row[h].status = "reconciling"
        /\ admin[a].authorized => admin[a].seen < MaxPosts
    BY DEF IInv, AdminHolds, RecoveryHolds, FinishRecovery
  <2>2. row[h].attempts > 0 /\ row[h].request \in Request
    BY <2>1 DEF IInv, RowsAreAccounted, Unresolved
  <2>3. /\ row'[h].status = IF admin[a].match THEN "completed" ELSE "pending"
        /\ row'[h].retry_authorized = ~admin[a].match
        /\ row'[h].attempts = row[h].attempts /\ row'[h].request = row[h].request
        /\ row'[h].cooled = row[h].cooled
        /\ \A g \in Head \ {h} : row'[g] = row[g]
    BY <2>1, TypedParts DEF RowsTyped, OutboxRow, FinishRecovery
  <2>4. ~admin[a].match => /\ row[h].cooled /\ admin[a].authorized
                           /\ row[h].attempts \in granted'[h]
    BY <2>1, TypedParts DEF GrantsTyped, FinishRecovery, CanFinish
  <2>5. \A g \in Head : granted[g] \subseteq granted'[g]
    BY <2>1, TypedParts DEF GrantsTyped, FinishRecovery
  <2>6. ASSUME NEW g \in Head \ {h}
        PROVE  /\ row'[g] = row[g]
               /\ row[g].attempts \in granted[g] => row[g].attempts \in granted'[g]
    BY <2>3, <2>5
  <2>7. admin[a].match \in BOOLEAN
    BY TypedParts DEF AdminsTyped, AdminState
  <2>8. /\ row'[h].status \in {"pending", "completed"}
        /\ row'[h].status = "pending" =>
               /\ row'[h].retry_authorized /\ row'[h].cooled
               /\ row'[h].attempts < MaxPosts
               /\ row'[h].attempts \in granted'[h]
    BY <2>1, <2>3, <2>4, <2>7
  <2>. QED
    BY <2>2, <2>3, <2>6, <2>8 DEF IInv, RowsAreAccounted, Unresolved
<1>4. WorkerHolds'
  <2>. DEFINE h == admin[a].head
  <2>1. row[h].status = "reconciling"
    BY DEF FinishRecovery, CanFinish
  <2>2. worker' = worker /\ post' = post /\ UNCHANGED policy
    BY DEF FinishRecovery
  <2>3. \A g \in Head : /\ row'[g].request = row[g].request
                        /\ g # h => row'[g] = row[g]
    BY TypedParts DEF RowsTyped, OutboxRow, FinishRecovery
  <2>4. worker.pc \in {"reserved", "inspect", "retry", "confirmed", "posting", "recording"} =>
            worker.head \in Head /\ worker.head # h
    BY <2>1 DEF IInv, WorkerHolds
  <2>. QED
    BY <2>2, <2>3, <2>4 DEF IInv, WorkerHolds, Landed
<1>5. AdminHolds'
  <2>. DEFINE h == admin[a].head
  <2>1. /\ h \in Head
        /\ row[h].status = "reconciling" /\ row[h].claim = a
    BY DEF IInv, AdminHolds, RecoveryHolds, FinishRecovery
  <2>2. \A g \in Head \ {h} : row'[g] = row[g]
    BY TypedParts DEF RowsTyped, FinishRecovery
  <2>3. row'[h].request = row[h].request
    BY <2>1, TypedParts DEF RowsTyped, OutboxRow, FinishRecovery
  <2>4. post' = post
    BY DEF FinishRecovery
  <2>5. \A b \in Admin : admin'[b] = IF b = a THEN IdleAdmin ELSE admin[b]
    BY TypedParts DEF AdminsTyped, FinishRecovery
  <2>0. \A b \in Admin : RecoveryHolds(b)
    BY DEF IInv, AdminHolds
  <2>6. \A b \in Admin \ {a} : admin[b].pc \in {"inspecting", "deciding"} => admin[b].head # h
    BY <2>0, <2>1 DEF RecoveryHolds
  <2>. QED
    <3>1. SUFFICES ASSUME NEW b \in Admin PROVE RecoveryHolds(b)'
      BY DEF AdminHolds
    <3>2. CASE b = a
      BY <2>5, <3>2 DEF IdleAdmin, RecoveryHolds
    <3>3. CASE b # a
      BY <2>2, <2>3, <2>4, <2>5, <2>6, <3>3 DEF IInv, AdminHolds, RecoveryHolds, Landed
    <3>. QED
      BY <3>2, <3>3
<1>6. EveryRetryWasAuthorised'
  BY TypedParts, ConstantsOK
     DEF IInv, AdminsTyped, GrantsTyped, PostsTyped, RowsTyped, TasksTyped, AdminState,
         Post, OutboxRow, TaskRow, EveryRetryWasAuthorised, AdminHolds, RecoveryHolds,
         PostsFollowRow, RowsAreAccounted, Attempt, FinishRecovery, IdleAdmin, CanFinish
<1>7. ReportedReviewsExist'
  <2>. DEFINE h == admin[a].head
  <2>1. /\ h \in Head
        /\ row[h].status = "reconciling" /\ row[h].claim = a
    BY DEF IInv, AdminHolds, RecoveryHolds, FinishRecovery
  <2>2. \A g \in Head \ {h} : row'[g] = row[g]
    BY TypedParts DEF RowsTyped, FinishRecovery
  <2>3. row'[h].request = row[h].request
    BY <2>1, TypedParts DEF RowsTyped, OutboxRow, FinishRecovery
  <2>4. post' = post
    BY DEF FinishRecovery
  <2>5. row'[h].status = "completed" => admin[a].match
    BY <2>1, TypedParts DEF RowsTyped, OutboxRow, FinishRecovery
  <2>6. admin[a].match => \E n \in Landed(h) : post[h][n].request = row[h].request
    BY DEF IInv, AdminHolds, RecoveryHolds, FinishRecovery
  <2>7. \A t \in Task : task'[t].review = task[t].review
    BY TypedParts DEF TasksTyped, TaskRow, FinishRecovery
  <2>8. \A t \in Task : task[t].review # None => task[t].review \in Head \ {h}
    BY <2>1, TypedParts DEF IInv, ReportedReviewsExist, TasksTyped, TaskRow
  <2>9. \A t \in Task : task[t].review # None =>
            row'[task[t].review].status = "completed"
    BY <2>2, <2>8 DEF IInv, ReportedReviewsExist
  <2>10. ASSUME NEW g \in Head, row'[g].status = "completed"
         PROVE  \E n \in Landed(g) : post[g][n].request = row'[g].request
    <3>1. CASE g = h
      BY <2>3, <2>5, <2>6, <2>10, <3>1
    <3>2. CASE g # h
      BY <2>2, <2>10, <3>2 DEF IInv, ReportedReviewsExist
    <3>. QED
      BY <3>1, <3>2
  <2>. QED
    BY <2>4, <2>7, <2>9, <2>10 DEF ReportedReviewsExist, Landed
<1>8. ClaimsHaveHolders'
  <2>. DEFINE h == admin[a].head
  <2>1. h \in Head /\ row[h].claim = a
    BY DEF IInv, AdminHolds, RecoveryHolds, FinishRecovery
  <2>2. \A g \in Head \ {h} : row'[g] = row[g]
    BY TypedParts DEF RowsTyped, FinishRecovery
  <2>3. row'[h].status \in {"pending", "completed"}
    BY <2>1, TypedParts DEF RowsTyped, OutboxRow, FinishRecovery
  <2>4. \A b \in Admin \ {a} : admin'[b] = admin[b]
    BY TypedParts DEF AdminsTyped, FinishRecovery
  <2>5. worker' = worker
    BY DEF FinishRecovery
  <2>6. ASSUME NEW g \in Head, row'[g].status = "executing"
        PROVE  worker'.pc = "posting" /\ worker'.head = g
    BY <2>2, <2>3, <2>5, <2>6 DEF IInv, ClaimsHaveHolders
  <2>7. ASSUME NEW g \in Head, row'[g].status = "reconciling"
        PROVE  \E b \in Admin : /\ admin'[b].pc \in {"inspecting", "deciding"}
                                /\ admin'[b].head = g
                                /\ row'[g].claim = b
    <3>1. g # h /\ row'[g] = row[g]
      BY <2>2, <2>3, <2>7
    <3>2. PICK b \in Admin : /\ admin[b].pc \in {"inspecting", "deciding"}
                            /\ admin[b].head = g
                            /\ row[g].claim = b
      BY <2>7, <3>1 DEF IInv, ClaimsHaveHolders
    <3>3. b # a
      BY <3>1, <3>2
    <3>. QED
      BY <2>4, <3>1, <3>2, <3>3
  <2>. QED
    BY <2>6, <2>7 DEF ClaimsHaveHolders
<1>9. ThreadsHold'
  <2>1. \A g \in Head : row[g].status = "completed" => row'[g].status = "completed"
    BY TypedParts DEF IInv, RowsTyped, OutboxRow, FinishRecovery, AdminHolds, CanFinish
  <2>. QED
    BY <2>1, ThreadsKept DEF FinishRecovery
<1>. QED
  BY <1>9, <1>1, <1>2, <1>3, <1>4, <1>5, <1>6, <1>7, <1>8
     DEF IInv, FinishRecovery, IdleAdmin, CanFinish

\* A recovery gives its claim back.
LEMMA ReleaseRecoveryStep ==
  ASSUME NEW a \in Admin, IInv, ReleaseRecovery(a)
  PROVE  IInv'
<1>1. TypeOK'
  <2>1. RowsTyped'
    BY TypedParts
       DEF IInv, RowsTyped, OutboxRow, RowStatus, AdminHolds, RecoveryHolds,
           ReleaseRecovery, IdleAdmin
  <2>2. AdminsTyped'
    BY TypedParts, IdleTyped DEF AdminsTyped, ReleaseRecovery
  <2>. QED
    BY <2>1, <2>2, TypedParts, TypedWhole
       DEF TasksTyped, PostsTyped, GrantsTyped, WorkerTyped, PullTyped, AccessTyped,
           ThreadsTyped, ReleaseRecovery, IdleAdmin
<1>2. PostsFollowRow'
  BY TypedParts, ConstantsOK
     DEF IInv, AdminsTyped, PostsTyped, RowsTyped, AdminState, Post, OutboxRow,
         PostsFollowRow, AdminHolds, RecoveryHolds, Attempt, ReleaseRecovery, IdleAdmin
<1>3. RowsAreAccounted'
  BY TypedParts
     DEF IInv, AdminsTyped, GrantsTyped, RowsTyped, AdminState, OutboxRow,
         RowsAreAccounted, AdminHolds, RecoveryHolds, Unresolved, PostsFollowRow,
         ReleaseRecovery, IdleAdmin
<1>4. WorkerHolds'
  BY TypedParts
     DEF IInv, AdminsTyped, PostsTyped, RowsTyped, WorkerTyped, AdminState, Post,
         OutboxRow, Worker, WorkerHolds, AdminHolds, RecoveryHolds, Landed,
         PostsFollowRow, ReleaseRecovery, IdleAdmin
<1>5. AdminHolds'
  <2>. DEFINE h == admin[a].head
  <2>1. /\ h \in Head
        /\ row[h].status = "reconciling" /\ row[h].claim = a
    BY DEF IInv, AdminHolds, RecoveryHolds, ReleaseRecovery
  <2>2. /\ \A g \in Head \ {h} : row'[g] = row[g]
        /\ row'[h].request = row[h].request
    BY <2>1, TypedParts DEF RowsTyped, OutboxRow, ReleaseRecovery
  <2>3. post' = post
    BY DEF ReleaseRecovery
  <2>4. \A b \in Admin : admin'[b] = IF b = a THEN IdleAdmin ELSE admin[b]
    BY TypedParts DEF AdminsTyped, ReleaseRecovery
  <2>5. \A b \in Admin \ {a} : admin[b].pc \in {"inspecting", "deciding"} => admin[b].head # h
    BY <2>1 DEF IInv, AdminHolds, RecoveryHolds
  <2>. QED
    <3>1. SUFFICES ASSUME NEW b \in Admin PROVE RecoveryHolds(b)'
      BY DEF AdminHolds
    <3>2. CASE b = a
      BY <2>4, <3>2 DEF IdleAdmin, RecoveryHolds
    <3>3. CASE b # a
      BY <2>2, <2>3, <2>4, <2>5, <3>3 DEF IInv, AdminHolds, RecoveryHolds, Landed
    <3>. QED
      BY <3>2, <3>3
<1>6. ReportedReviewsExist'
  BY TypedParts
     DEF IInv, AdminsTyped, PostsTyped, RowsTyped, TasksTyped, AdminState, Post,
         OutboxRow, TaskRow, ReportedReviewsExist, AdminHolds, RecoveryHolds, Landed,
         PostsFollowRow, ReleaseRecovery, IdleAdmin
<1>7. ClaimsHaveHolders'
  BY TypedParts
     DEF IInv, AdminsTyped, RowsTyped, WorkerTyped, AdminState, OutboxRow, Worker,
         ClaimsHaveHolders, AdminHolds, RecoveryHolds, ReleaseRecovery, IdleAdmin
<1>9. ThreadsHold'
  <2>1. \A g \in Head : row[g].status = "completed" => row'[g].status = "completed"
    BY TypedParts DEF IInv, RowsTyped, OutboxRow, ReleaseRecovery, AdminHolds, RecoveryHolds
  <2>. QED
    BY <2>1, ThreadsKept DEF ReleaseRecovery
<1>. QED
  BY <1>9, <1>1, <1>2, <1>3, <1>4, <1>5, <1>6, <1>7
     DEF IInv, EveryRetryWasAuthorised, ReleaseRecovery, IdleAdmin

-----------------------------------------------------------------------------
\* The process dies and starts again.
LEMMA RestartStep ==
  ASSUME IInv, Restart
  PROVE  IInv'
<1>1. TypeOK'
  <2>1. TasksTyped'
    BY TypedParts DEF IInv, TasksTyped, TaskRow, TaskStatus, Restart, IdleWorker, IdleAdmin
  <2>2. RowsTyped'
    <3>1. \A h \in Head : [row[h] EXCEPT !.status = "unknown"] \in OutboxRow
      BY TypedParts DEF RowsTyped, OutboxRow, RowStatus
    <3>. QED
      BY <3>1, TypedParts DEF RowsTyped, Restart
  <2>3. WorkerTyped'
    BY TypedParts DEF IInv, WorkerTyped, Worker, WorkerPC, Restart, IdleWorker, IdleAdmin
  <2>4. AdminsTyped'
    BY TypedParts, IdleTyped DEF AdminsTyped, Restart
  <2>5. ThreadsTyped'
    BY DEF ThreadsTyped, ThreadState, IdleThread, Restart
  <2>. QED
    BY <2>1, <2>2, <2>3, <2>4, <2>5, TypedParts, TypedWhole
       DEF PostsTyped, GrantsTyped, PullTyped, AccessTyped, Restart, IdleWorker, IdleAdmin
<1>2. PostsFollowRow'
  BY TypedParts, ConstantsOK
     DEF IInv, AdminsTyped, PostsTyped, RowsTyped, TasksTyped, ThreadsTyped,
         WorkerTyped, AdminState, Post, OutboxRow, TaskRow, Worker, PostsFollowRow,
         Attempt, Restart, IdleWorker, IdleAdmin
<1>3. RowsAreAccounted'
  BY TypedParts
     DEF IInv, AdminsTyped, GrantsTyped, RowsTyped, TasksTyped, ThreadsTyped,
         WorkerTyped, AdminState, OutboxRow, TaskRow, Worker, RowsAreAccounted,
         Unresolved, PostsFollowRow, Restart, IdleWorker, IdleAdmin
<1>4. WorkerHolds'
  BY TypedParts
     DEF IInv, AdminsTyped, PostsTyped, RowsTyped, TasksTyped, ThreadsTyped,
         WorkerTyped, AdminState, Post, OutboxRow, TaskRow, Worker, WorkerHolds, Landed,
         PostsFollowRow, Restart, IdleWorker, IdleAdmin
<1>5. AdminHolds'
  BY TypedParts
     DEF IInv, AdminsTyped, PostsTyped, RowsTyped, TasksTyped, ThreadsTyped,
         WorkerTyped, AdminState, Post, OutboxRow, TaskRow, Worker, AdminHolds, Landed,
         PostsFollowRow, Restart, IdleWorker, IdleAdmin, RecoveryHolds
<1>6. ReportedReviewsExist'
  BY TypedParts
     DEF IInv, AdminsTyped, PostsTyped, RowsTyped, TasksTyped, ThreadsTyped,
         WorkerTyped, AdminState, Post, OutboxRow, TaskRow, Worker,
         ReportedReviewsExist, Landed, PostsFollowRow, Restart, IdleWorker, IdleAdmin
<1>7. ClaimsHaveHolders'
  BY TypedParts
     DEF IInv, AdminsTyped, RowsTyped, TasksTyped, ThreadsTyped, WorkerTyped,
         AdminState, OutboxRow, TaskRow, Worker, ClaimsHaveHolders, Restart, IdleWorker,
         IdleAdmin
<1>9. ThreadsHold'
  BY DEF Restart, ThreadsHold, ThreadHolds, IdleThread
<1>. QED
  BY <1>9, <1>1, <1>2, <1>3, <1>4, <1>5, <1>6, <1>7
     DEF IInv, EveryRetryWasAuthorised, Restart, IdleWorker, IdleAdmin

-----------------------------------------------------------------------------
\* github_action, whatever it answers, preserves the invariant.
LEMMA GithubActionStep ==
  ASSUME NEW request \in Request, IInv, GithubAction(worker.head, request),
         worker.pc \in {"loaded", "review"},
         UNCHANGED <<post, granted, pull, policy, admin, thread>>
  PROVE  IInv'
<1>1. worker.head \in Head
  BY DEF IInv, WorkerHolds
<1>. QED
  BY <1>1, ReserveReviewStep, ReuseReviewStep, ContinueReviewStep, RefuseReviewStep
     DEF GithubAction

\* A saved review goes on, with the request that was saved.
LEMMA ResumeSavedReviewStep ==
  ASSUME IInv, ResumeSavedReview
  PROVE  IInv'
<1>1. row[worker.head].request \in Request
  BY DEF IInv, WorkerHolds, RowsAreAccounted, ResumeSavedReview, Saved
<1>. QED
  BY <1>1, GithubActionStep DEF ResumeSavedReview

\* A fresh verdict becomes a request.
LEMMA VerdictStep ==
  ASSUME IInv, Verdict
  PROVE  IInv'
BY GithubActionStep DEF Verdict

\* Every step of the worker preserves the invariant.
LEMMA WorkerStepStep ==
  ASSUME IInv, WorkerStep
  PROVE  IInv'
BY PullContextStep, LeavingSteps, StartReviewStep, ResumeSavedReviewStep, VerdictStep,
   InspectBeforeRetryStep, ConfirmRetryStep, RetryFindsReviewStep, ClaimAndPostStep, PostReturnsStep,
   PostFailsStep, RecordReviewStep
   DEF WorkerStep

\* Init establishes the inductive invariant.
LEMMA InitIInv == Init => IInv
<1>. SUFFICES ASSUME Init PROVE IInv
  OBVIOUS
<1>1. 0 \in 0..MaxPosts
  BY ConstantsOK
<1>2. NoRow \in OutboxRow /\ NoPost \in Post
  BY <1>1 DEF NoRow, NoPost, OutboxRow, Post, RowStatus
<1>3. TypeOK
  <2>1. task \in [Task -> TaskRow]
    BY DEF Init, TaskRow, TaskStatus
  <2>2. row \in [Head -> OutboxRow] /\ post \in [Head -> [Attempt -> Post]]
    BY <1>2 DEF Init
  <2>3. worker \in Worker /\ admin \in [Admin -> AdminState]
    BY IdleTyped DEF Init
  <2>4. thread \in [Thread -> ThreadState]
    BY DEF Init, ThreadState, IdleThread
  <2>. QED
    BY <2>1, <2>2, <2>3, <2>4 DEF Init, TypeOK
<1>4. PostsFollowRow /\ EveryRetryWasAuthorised
  BY ConstantsOK DEF Init, PostsFollowRow, EveryRetryWasAuthorised, NoRow, NoPost, Attempt
<1>5. RowsAreAccounted /\ ReportedReviewsExist /\ ClaimsHaveHolders
  BY DEF Init, RowsAreAccounted, ReportedReviewsExist, ClaimsHaveHolders, NoRow, Unresolved
<1>6. WorkerHolds /\ AdminHolds /\ ThreadsHold
  BY DEF Init, WorkerHolds, AdminHolds, RecoveryHolds, ThreadsHold, ThreadHolds,
         IdleWorker, IdleAdmin, IdleThread
<1>. QED
  BY <1>3, <1>4, <1>5, <1>6 DEF IInv

\* Every step, or stutter, preserves the inductive invariant.
LEMMA NextIInv == IInv /\ [Next]_vars => IInv'
<1>. SUFFICES ASSUME IInv, [Next]_vars PROVE IInv'
  OBVIOUS
<1>1. CASE UNCHANGED vars
  <2>1. TypeOK'
    BY <1>1 DEF IInv, TypeOK, vars
  <2>2. WorkerHolds' /\ ThreadsHold'
    BY <1>1, ThreadsKept DEF IInv, WorkerHolds, Landed, vars
  <2>. QED
    BY <1>1, <2>1, <2>2, QuietStep DEF vars
<1>2. CASE \/ PullMoves \/ SetAccess \/ Restart \/ WorkerStep
           \/ \E h \in Head, n \in Attempt : Land(h, n) \/ Vanish(h, n)
           \/ \E t \in Task : Webhook(t) \/ Process(t)
  BY <1>2, PullMovesStep, SetAccessStep, RestartStep, WorkerStepStep, LandStep, VanishStep,
     WebhookStep, ProcessStep
<1>3. CASE \/ \E h \in Head : TwoMinutesPass(h)
           \/ \E a \in Admin, t \in Task, h \in Head : InspectReview(a, t, h)
           \/ \E a \in Admin, authorized \in BOOLEAN : ClaimRecovery(a, authorized)
           \/ \E a \in Admin : RecoveryRefused(a) \/ RecoveryStep(a)
  BY <1>3, TwoMinutesPassStep, InspectReviewStep, ClaimRecoveryStep, RecoveryRefusedStep,
     InspectUnderClaimStep, FinishRecoveryStep, ReleaseRecoveryStep DEF RecoveryStep
<1>4. CASE \/ \E x \in Thread, t \in Task : CheckRequeue(x, t)
           \/ \E x \in Thread : Requeue(x)
  BY <1>4, CheckRequeueStep, RequeueStep
<1>. QED
  BY <1>1, <1>2, <1>3, <1>4 DEF Next

\* The inductive invariant holds in every reachable state.
THEOREM Invariance == Spec => []IInv
BY InitIInv, NextIInv, PTL DEF Spec

\* Every row, coroutine and POST stays in its domain.
THEOREM TypeCorrect == Spec => []TypeOK
<1>1. IInv => TypeOK
  BY DEF IInv
<1>. QED
  BY <1>1, Invariance, PTL

\* No blind replay: a POST after the first was authorised by an administrator
\* who had been shown the attempt before it (recover_review, github_action).
THEOREM NoBlindReplay == Spec => []EveryRetryWasAuthorised
<1>1. IInv => EveryRetryWasAuthorised
  BY DEF IInv
<1>. QED
  BY <1>1, Invariance, PTL

\* Every POST sent for a head carries the same review (github_action's
\* identity check and the unique action_key).
THEOREM OneReview == Spec => []OneReviewPerHead
<1>1. IInv => OneReviewPerHead
  BY DEF IInv, PostsFollowRow, OneReviewPerHead
<1>. QED
  BY <1>1, Invariance, PTL

\* A completed action, and a task that links a review, stand for a review on
\* GitHub with the saved content.
THEOREM ReviewsExist == Spec => []ReportedReviewsExist
<1>1. IInv => ReportedReviewsExist
  BY DEF IInv
<1>. QED
  BY <1>1, Invariance, PTL

\* An executing row belongs to the worker's POST, a reconciling row to the
\* recovery that claimed it.
THEOREM NothingStranded == Spec => []ClaimsHaveHolders
<1>1. IInv => ClaimsHaveHolders
  BY DEF IInv
<1>. QED
  BY <1>1, Invariance, PTL

(***************************************************************************)
(* ReviewOutbox implements GitHubWrite: one lemma per action that changes a*)
(* row, a POST or a grant shows which abstract step it is, or that it is a *)
(* stutter.  Every other action leaves the mapped variables alone.         *)
(***************************************************************************)
\* A step that touches no row, POST or grant is a stutter.
LEMMA SameRowsAndPosts ==
  ASSUME UNCHANGED <<row, post, granted>>
  PROVE  UNCHANGED Promise!vars
BY DEF Promise!vars, phaseBar, sentBar, publishedBar, Landed

\* So is one that changes rows without changing a phase or a count.
LEMMA SamePhases ==
  ASSUME UNCHANGED <<post, granted>>,
         \A g \in Head : /\ PhaseOf(row'[g].status) = PhaseOf(row[g].status)
                         /\ row'[g].attempts = row[g].attempts
  PROVE  UNCHANGED Promise!vars
BY DEF Promise!vars, phaseBar, sentBar, publishedBar, Landed

\* A step that gives one row a new status changes one abstract phase.
LEMMA OnePhase ==
  ASSUME NEW h \in Head, NEW status,
         row'[h].status = status, row'[h].attempts = row[h].attempts,
         \A g \in Head \ {h} : row'[g] = row[g]
  PROVE  /\ phaseBar' = [phaseBar EXCEPT ![h] = PhaseOf(status)]
         /\ sentBar' = sentBar
<1>1. \A g \in Head : phaseBar'[g] = IF g = h THEN PhaseOf(status) ELSE phaseBar[g]
  BY DEF phaseBar
<1>. QED
  BY <1>1 DEF phaseBar, sentBar

\* GitHub executing a POST publishes a review for its head.
LEMMA LandRefines ==
  ASSUME NEW h \in Head, NEW n \in Attempt, IInv, Land(h, n)
  PROVE  Promise!Publish(h)
<1>1. /\ \A m \in Attempt : post'[h][m].state = IF m = n THEN "landed" ELSE post[h][m].state
      /\ \A g \in Head \ {h} : post'[g] = post[g]
  BY TypedParts DEF PostsTyped, Post, Land
<1>2. publishedBar' = publishedBar \cup {h}
  BY <1>1 DEF publishedBar, Landed
<1>3. row[h].attempts > 0
  BY TypedParts DEF IInv, PostsFollowRow, Land, Attempt, RowsTyped, OutboxRow
<1>4. sentBar[h] > 0
  BY <1>3 DEF sentBar
<1>. QED
  BY <1>2, <1>4 DEF Promise!Publish, Land, phaseBar, sentBar

\* A lost POST is not seen by the abstraction.
LEMMA VanishRefines ==
  ASSUME NEW h \in Head, NEW n \in Attempt, IInv, Vanish(h, n)
  PROVE  UNCHANGED Promise!vars
<1>1. \A g \in Head : Landed(g)' = Landed(g)
  BY DEF Landed, Vanish
<1>. QED
  BY <1>1 DEF Promise!vars, phaseBar, sentBar, publishedBar, Vanish

\* A reservation is not seen by the abstraction.
LEMMA ReserveRefines ==
  ASSUME NEW h \in Head, NEW request \in Request, IInv, ReserveReview(h, request),
         UNCHANGED <<post, granted, pull, policy, admin, thread>>
  PROVE  UNCHANGED Promise!vars
<1>1. /\ row'[h].attempts = 0 /\ row'[h].status = "pending"
      /\ \A g \in Head \ {h} : row'[g] = row[g]
  BY TypedParts DEF RowsTyped, ReserveReview, NoRow
<1>2. row[h].attempts = 0 /\ row[h].status = "none"
  BY DEF IInv, RowsAreAccounted, ReserveReview
<1>. QED
  BY <1>1, <1>2, SamePhases DEF PhaseOf

\* A retry that finds its review identifies it.
LEMMA RetryFindsReviewRefines ==
  ASSUME IInv, RetryFindsReview
  PROVE  Promise!Identify(worker.head)
<1>. DEFINE h == worker.head
<1>1. h \in Head /\ row[h].status = "pending" /\ Landed(h) # {}
  BY DEF IInv, WorkerHolds, RetryFindsReview
<1>2. /\ row'[h].status = "completed" /\ row'[h].attempts = row[h].attempts
      /\ \A g \in Head \ {h} : row'[g] = row[g]
  BY <1>1, TypedParts DEF RowsTyped, RetryFindsReview
<1>3. phaseBar' = [phaseBar EXCEPT ![h] = "done"] /\ sentBar' = sentBar
  BY <1>1, <1>2, OnePhase DEF PhaseOf
<1>4. phaseBar[h] = "open" /\ h \in publishedBar
  BY <1>1 DEF phaseBar, PhaseOf, publishedBar
<1>5. publishedBar' = publishedBar /\ granted' = granted
  BY DEF publishedBar, Landed, RetryFindsReview
<1>. QED
  BY <1>3, <1>4, <1>5 DEF Promise!Identify

\* The claim and its POST are the abstract write.
LEMMA ClaimAndPostRefines ==
  ASSUME IInv, ClaimAndPost
  PROVE  Promise!Write(worker.head)
<1>. DEFINE h == worker.head
            n == row[worker.head].attempts + 1
<1>1. h \in Head /\ row[h].status = "pending" /\ row[h].attempts \in 0..MaxPosts
  BY TypedParts DEF IInv, WorkerHolds, ClaimAndPost, RowsTyped, OutboxRow
<1>2. row[h].attempts < MaxPosts /\ (row[h].attempts = 0 \/ row[h].attempts \in granted[h])
  BY <1>1, ConstantsOK DEF IInv, RowsAreAccounted
<1>3. n \in Attempt /\ post[h][n].state = "unsent"
  BY <1>1, <1>2, ConstantsOK DEF IInv, PostsFollowRow, Attempt
<1>4. /\ \A m \in Attempt : post'[h][m].state = IF m = n THEN "inflight" ELSE post[h][m].state
      /\ \A g \in Head \ {h} : post'[g] = post[g]
  BY <1>1, TypedParts DEF PostsTyped, ClaimAndPost
<1>5. publishedBar' = publishedBar
  BY <1>3, <1>4 DEF publishedBar, Landed
<1>6. /\ row'[h].status = "executing" /\ row'[h].attempts = row[h].attempts + 1
      /\ \A g \in Head \ {h} : row'[g] = row[g]
  BY <1>1, TypedParts DEF RowsTyped, ClaimAndPost
<1>7. phaseBar' = [phaseBar EXCEPT ![h] = "writing"]
  <2>1. PhaseOf("executing") = "writing"
    BY DEF PhaseOf
  <2>2. \A g \in Head : phaseBar'[g] = IF g = h THEN "writing" ELSE phaseBar[g]
    BY <1>1, <1>6, <2>1 DEF phaseBar
  <2>. QED
    BY <2>2 DEF phaseBar
<1>8. sentBar' = [sentBar EXCEPT ![h] = @ + 1]
  BY <1>1, <1>6 DEF sentBar
<1>9. phaseBar[h] = "open" /\ (sentBar[h] = 0 \/ sentBar[h] \in granted[h])
  BY <1>1, <1>2 DEF phaseBar, PhaseOf, sentBar
<1>. QED
  BY <1>5, <1>7, <1>8, <1>9 DEF Promise!Write, ClaimAndPost

\* The response of the POST is the abstract answer.
LEMMA PostReturnsRefines ==
  ASSUME IInv, PostReturns
  PROVE  Promise!Answer(worker.head)
<1>. DEFINE h == worker.head
            n == row[worker.head].attempts
<1>1. h \in Head /\ row[h].status = "executing"
  BY DEF IInv, WorkerHolds, PostReturns
<1>2. n \in Attempt
  BY <1>1, TypedParts
     DEF IInv, RowsAreAccounted, Unresolved, RowsTyped, OutboxRow, Attempt
<1>3. /\ row'[h].status = "completed" /\ row'[h].attempts = row[h].attempts
      /\ \A g \in Head \ {h} : row'[g] = row[g]
  BY <1>1, TypedParts DEF RowsTyped, PostReturns
<1>4. phaseBar' = [phaseBar EXCEPT ![h] = "done"] /\ sentBar' = sentBar
  BY <1>1, <1>3, OnePhase DEF PhaseOf
<1>5. phaseBar[h] = "writing" /\ h \in publishedBar
  BY <1>1, <1>2 DEF phaseBar, PhaseOf, publishedBar, Landed, PostReturns
<1>6. publishedBar' = publishedBar /\ granted' = granted
  BY DEF publishedBar, Landed, PostReturns
<1>. QED
  BY <1>4, <1>5, <1>6 DEF Promise!Answer

\* A failed POST loses track of the request.
LEMMA PostFailsRefines ==
  ASSUME IInv, PostFails
  PROVE  Promise!LoseTrack(worker.head)
<1>. DEFINE h == worker.head
<1>1. h \in Head /\ row[h].status = "executing"
  BY DEF IInv, WorkerHolds, PostFails
<1>2. /\ row'[h].status = "unknown" /\ row'[h].attempts = row[h].attempts
      /\ \A g \in Head \ {h} : row'[g] = row[g]
  BY <1>1, TypedParts DEF RowsTyped, PostFails
<1>3. phaseBar' = [phaseBar EXCEPT ![h] = "doubt"] /\ sentBar' = sentBar
  BY <1>1, <1>2, OnePhase DEF PhaseOf
<1>4. phaseBar[h] = "writing"
  BY <1>1 DEF phaseBar, PhaseOf
<1>5. publishedBar' = publishedBar /\ granted' = granted
  BY DEF publishedBar, Landed, PostFails
<1>. QED
  BY <1>3, <1>4, <1>5 DEF Promise!LoseTrack

\* A recovery identifies the review or grants one more request.
LEMMA FinishRecoveryRefines ==
  ASSUME NEW a \in Admin, IInv, FinishRecovery(a)
  PROVE  Promise!Identify(admin[a].head) \/ Promise!Grant(admin[a].head)
<1>. DEFINE h == admin[a].head
<1>1. /\ h \in Head /\ row[h].status = "reconciling" /\ row[h].attempts = admin[a].seen
      /\ admin[a].match => Landed(h) # {}
  BY DEF IInv, AdminHolds, RecoveryHolds, FinishRecovery
<1>2. /\ row'[h].attempts = row[h].attempts
      /\ row'[h].status = IF admin[a].match THEN "completed" ELSE "pending"
      /\ \A g \in Head \ {h} : row'[g] = row[g]
  BY <1>1, TypedParts DEF RowsTyped, FinishRecovery
<1>3. phaseBar[h] = "doubt" /\ sentBar[h] = admin[a].seen
  BY <1>1 DEF phaseBar, PhaseOf, sentBar
<1>4. publishedBar' = publishedBar
  BY DEF publishedBar, Landed, FinishRecovery
<1>5. CASE admin[a].match
  <2>1. phaseBar' = [phaseBar EXCEPT ![h] = "done"] /\ sentBar' = sentBar
    BY <1>1, <1>2, <1>5, OnePhase DEF PhaseOf
  <2>2. h \in publishedBar /\ granted' = granted
    BY <1>1, <1>5 DEF publishedBar, FinishRecovery
  <2>. QED
    BY <1>3, <1>4, <2>1, <2>2 DEF Promise!Identify
<1>6. CASE ~admin[a].match
  <2>1. phaseBar' = [phaseBar EXCEPT ![h] = "open"] /\ sentBar' = sentBar
    BY <1>1, <1>2, <1>6, OnePhase DEF PhaseOf
  <2>2. granted' = [granted EXCEPT ![h] = @ \cup {sentBar[h]}]
    BY <1>3, <1>6 DEF FinishRecovery, CanFinish
  <2>. QED
    BY <1>3, <1>4, <2>1, <2>2 DEF Promise!Grant
<1>. QED
  BY <1>5, <1>6

\* A restart loses track of the one POST in flight, if there is one.
LEMMA RestartRefines ==
  ASSUME IInv, Restart
  PROVE  (\E h \in Head : Promise!LoseTrack(h)) \/ UNCHANGED Promise!vars
<1>1. \A g \in Head : /\ row'[g].attempts = row[g].attempts
                      /\ row'[g].status = IF row[g].status \in {"executing", "reconciling"}
                                          THEN "unknown" ELSE row[g].status
  BY TypedParts DEF RowsTyped, OutboxRow, Restart
<1>2. publishedBar' = publishedBar /\ granted' = granted
  BY DEF publishedBar, Landed, Restart
<1>3. sentBar' = sentBar
  BY <1>1 DEF sentBar
<1>4. CASE \E h \in Head : row[h].status = "executing"
  <2>1. PICK h \in Head : row[h].status = "executing"
    BY <1>4
  <2>2. \A g \in Head \ {h} : row[g].status # "executing"
    BY <2>1 DEF IInv, ClaimsHaveHolders
  <2>3. phaseBar' = [phaseBar EXCEPT ![h] = "doubt"]
    <3>1. PhaseOf("unknown") = "doubt" /\ PhaseOf("reconciling") = "doubt"
      BY DEF PhaseOf
    <3>2. \A g \in Head : PhaseOf(row'[g].status) = IF g = h THEN "doubt"
                                                    ELSE PhaseOf(row[g].status)
      BY <1>1, <2>1, <2>2, <3>1
    <3>. QED
      BY <3>2 DEF phaseBar
  <2>4. phaseBar[h] = "writing"
    BY <2>1 DEF phaseBar, PhaseOf
  <2>. QED
    BY <1>2, <1>3, <2>3, <2>4 DEF Promise!LoseTrack
<1>5. CASE \A h \in Head : row[h].status # "executing"
  <2>1. phaseBar' = phaseBar
    <3>1. \A g \in Head : PhaseOf(row'[g].status) = PhaseOf(row[g].status)
      BY <1>1, <1>5 DEF PhaseOf
    <3>. QED
      BY <3>1 DEF phaseBar
  <2>. QED
    BY <1>2, <1>3, <2>1 DEF Promise!vars
<1>. QED
  BY <1>4, <1>5

-----------------------------------------------------------------------------
\* Time passing, a claim by a recovery and its release stay in their phase.
LEMMA RowStaysInPhase ==
  ASSUME IInv,
         \/ \E h \in Head : TwoMinutesPass(h)
         \/ \E a \in Admin, authorized \in BOOLEAN : ClaimRecovery(a, authorized)
         \/ \E a \in Admin : ReleaseRecovery(a)
  PROVE  UNCHANGED Promise!vars
<1>1. CASE \E h \in Head : TwoMinutesPass(h)
  <2>1. PICK h \in Head : TwoMinutesPass(h)
    BY <1>1
  <2>2. \A g \in Head : row'[g].status = row[g].status /\ row'[g].attempts = row[g].attempts
    BY <2>1 DEF TwoMinutesPass
  <2>. QED
    BY <2>1, <2>2, SamePhases DEF TwoMinutesPass
<1>2. CASE \E a \in Admin, authorized \in BOOLEAN : ClaimRecovery(a, authorized)
  <2>1. PICK a \in Admin, authorized \in BOOLEAN : ClaimRecovery(a, authorized)
    BY <1>2
  <2>2. row[admin[a].head].status = "unknown"
    BY <2>1 DEF ClaimRecovery, StillBound, Snapshot
  <2>3. \A g \in Head :
           /\ row'[g].status = IF g = admin[a].head THEN "reconciling" ELSE row[g].status
           /\ row'[g].attempts = row[g].attempts
    BY <2>1, TypedParts DEF RowsTyped, ClaimRecovery
  <2>4. \A g \in Head : PhaseOf(row'[g].status) = PhaseOf(row[g].status)
    BY <2>2, <2>3 DEF PhaseOf
  <2>. QED
    BY <2>1, <2>3, <2>4, SamePhases DEF ClaimRecovery
<1>3. CASE \E a \in Admin : ReleaseRecovery(a)
  <2>1. PICK a \in Admin : ReleaseRecovery(a)
    BY <1>3
  <2>2. row[admin[a].head].status = "reconciling"
    BY <2>1 DEF IInv, AdminHolds, RecoveryHolds, ReleaseRecovery
  <2>3. \A g \in Head :
           /\ row'[g].status \in {row[g].status, IF g = admin[a].head THEN "unknown"
                                                 ELSE row[g].status}
           /\ row'[g].attempts = row[g].attempts
    BY <2>1, TypedParts DEF RowsTyped, OutboxRow, ReleaseRecovery
  <2>4. \A g \in Head : PhaseOf(row'[g].status) = PhaseOf(row[g].status)
    BY <2>2, <2>3 DEF PhaseOf
  <2>. QED
    BY <2>1, <2>3, <2>4, SamePhases DEF ReleaseRecovery
<1>. QED
  BY <1>1, <1>2, <1>3

\* github_action up to its first await writes nothing to GitHub.
LEMMA GithubActionRefines ==
  ASSUME NEW request \in Request, IInv, GithubAction(worker.head, request),
         worker.pc \in {"loaded", "review"},
         UNCHANGED <<post, granted, pull, policy, admin, thread>>
  PROVE  UNCHANGED Promise!vars
<1>1. worker.head \in Head
  BY DEF IInv, WorkerHolds
<1>2. CASE ReserveReview(worker.head, request)
  BY <1>1, <1>2, ReserveRefines
<1>3. CASE ~ReserveReview(worker.head, request)
  <2>1. row' = row
    BY <1>3 DEF GithubAction, ReuseReview, ContinueReview, RefuseReview
  <2>. QED
    BY Zenon, <2>1, SameRowsAndPosts
<1>. QED
  BY <1>2, <1>3

\* Every step of the worker is an abstract step or a stutter.
LEMMA WorkerRefines ==
  ASSUME IInv, WorkerStep
  PROVE  [Promise!Next]_Promise!vars
<1>1. CASE \/ PullContext \/ StepFails \/ LeaveWithoutReview \/ ResumeConflict
           \/ ResumeWaitsForOwner \/ StartReview \/ InspectBeforeRetry
           \/ ConfirmRetry \/ RetryRefused \/ RecordReview
  <2>1. UNCHANGED <<row, post, granted>>
    BY <1>1
       DEF PullContext, StepFails, LeaveWithoutReview, ResumeConflict,
           ResumeWaitsForOwner, StartReview, InspectBeforeRetry, ConfirmRetry, RetryRefused,
           RecordReview
  <2>. QED
    BY Zenon, <2>1, SameRowsAndPosts
<1>2. CASE ResumeSavedReview
  <2>1. row[worker.head].request \in Request
    BY <1>2 DEF IInv, WorkerHolds, RowsAreAccounted, ResumeSavedReview, Saved
  <2>. QED
    BY <1>2, <2>1, GithubActionRefines DEF ResumeSavedReview
<1>3. CASE Verdict
  BY <1>3, GithubActionRefines DEF Verdict
<1>4. CASE RetryFindsReview
  <2>1. worker.head \in Head
    BY <1>4 DEF IInv, WorkerHolds, RetryFindsReview
  <2>. QED
    BY <1>4, <2>1, RetryFindsReviewRefines DEF Promise!Next
<1>5. CASE ClaimAndPost
  <2>1. worker.head \in Head
    BY <1>5 DEF IInv, WorkerHolds, ClaimAndPost
  <2>. QED
    BY <1>5, <2>1, ClaimAndPostRefines DEF Promise!Next
<1>6. CASE PostReturns
  <2>1. worker.head \in Head
    BY <1>6 DEF IInv, WorkerHolds, PostReturns
  <2>. QED
    BY <1>6, <2>1, PostReturnsRefines DEF Promise!Next
<1>7. CASE PostFails
  <2>1. worker.head \in Head
    BY <1>7 DEF IInv, WorkerHolds, PostFails
  <2>. QED
    BY <1>7, <2>1, PostFailsRefines DEF Promise!Next
<1>. QED
  BY <1>1, <1>2, <1>3, <1>4, <1>5, <1>6, <1>7 DEF WorkerStep

\* The initial states map to the initial state of the promise.
LEMMA InitRefines == Init => Promise!Init
BY DEF Init, Promise!Init, phaseBar, sentBar, publishedBar, Landed, PhaseOf, NoRow, NoPost

\* Every step of the controller is a step of the promise or a stutter.
LEMMA NextRefines == IInv /\ [Next]_vars => [Promise!Next]_Promise!vars
<1>. SUFFICES ASSUME IInv, [Next]_vars PROVE [Promise!Next]_Promise!vars
  OBVIOUS
<1>1. CASE \/ UNCHANGED vars \/ PullMoves \/ SetAccess
           \/ \E t \in Task : Webhook(t) \/ Process(t)
           \/ \E a \in Admin, t \in Task, h \in Head : InspectReview(a, t, h)
           \/ \E a \in Admin : RecoveryRefused(a) \/ InspectUnderClaim(a)
           \/ \E x \in Thread, t \in Task : CheckRequeue(x, t)
           \/ \E x \in Thread : Requeue(x)
  <2>1. UNCHANGED <<row, post, granted>>
    BY <1>1 DEF vars, PullMoves, SetAccess, Webhook, Process, InspectReview,
                RecoveryRefused, InspectUnderClaim, CheckRequeue, Requeue
  <2>. QED
    BY Zenon, <2>1, SameRowsAndPosts
<1>2. CASE \E h \in Head, n \in Attempt : Land(h, n) \/ Vanish(h, n)
  BY <1>2, LandRefines, VanishRefines DEF Promise!Next
<1>3. CASE WorkerStep
  BY <1>3, WorkerRefines
<1>4. CASE \/ \E h \in Head : TwoMinutesPass(h)
           \/ \E a \in Admin, authorized \in BOOLEAN : ClaimRecovery(a, authorized)
           \/ \E a \in Admin : ReleaseRecovery(a)
  BY <1>4, RowStaysInPhase
<1>5. CASE \E a \in Admin : FinishRecovery(a)
  <2>1. PICK a \in Admin : FinishRecovery(a)
    BY <1>5
  <2>2. admin[a].head \in Head
    BY <2>1 DEF IInv, AdminHolds, RecoveryHolds, FinishRecovery
  <2>. QED
    BY <2>1, <2>2, FinishRecoveryRefines DEF Promise!Next
<1>6. CASE Restart
  BY <1>6, RestartRefines DEF Promise!Next
<1>. QED
  BY <1>1, <1>2, <1>3, <1>4, <1>5, <1>6 DEF Next, RecoveryStep

\* The controller keeps the promise of GitHubWrite: every behaviour of the
\* rows and the POSTs is a behaviour of the promise.
THEOREM Refinement == Spec => KeepsPromise
BY InitRefines, InitIInv, NextIInv, NextRefines, PTL DEF Spec, KeepsPromise, Promise!Spec

\* Only the claim of a POST counts an attempt, and it counts its own head's.
LEMMA AttemptsCount ==
  ASSUME IInv, [Next]_vars, NEW h \in Head, row'[h].attempts > row[h].attempts
  PROVE  ClaimAndPost /\ worker.head = h
<1>1. row[h].attempts \in 0..MaxPosts
  BY TypedParts DEF RowsTyped, OutboxRow
<1>3. CASE row' = row
  BY <1>1, <1>3
<1>4. CASE \E g \in Head : TwoMinutesPass(g)
  BY <1>1, <1>4 DEF TwoMinutesPass
<1>5. CASE \E a \in Admin, authorized \in BOOLEAN : ClaimRecovery(a, authorized)
  BY <1>1, <1>5, TypedParts DEF RowsTyped, ClaimRecovery
<1>6. CASE \E a \in Admin : FinishRecovery(a) \/ ReleaseRecovery(a)
  BY <1>6, TypedParts DEF RowsTyped, OutboxRow, FinishRecovery, ReleaseRecovery
<1>7. CASE Restart
  BY <1>1, <1>7 DEF Restart
<1>8. CASE WorkerStep /\ row' # row
  <2>1. CASE \E request : ReserveReview(worker.head, request)
    <3>1. \A g \in Head : row'[g].attempts = 0 \/ row'[g] = row[g]
      BY <2>1 DEF ReserveReview, NoRow
    <3>. QED
      BY <1>1, <3>1
  <2>2. CASE RetryFindsReview \/ PostReturns \/ PostFails
    BY <2>2, TypedParts DEF RowsTyped, OutboxRow, RetryFindsReview, PostReturns, PostFails
  <2>3. CASE ClaimAndPost
    BY <1>1, <2>3, TypedParts DEF RowsTyped, ClaimAndPost
  <2>. QED
    BY <1>8, <2>1, <2>2, <2>3
       DEF WorkerStep, PullContext, StepFails, LeaveWithoutReview, ResumeConflict,
           ResumeWaitsForOwner, StartReview, InspectBeforeRetry, ConfirmRetry, RetryRefused,
           RecordReview, ResumeSavedReview, Verdict, GithubAction, ReuseReview,
           ContinueReview, RefuseReview
<1>. QED
  BY <1>3, <1>4, <1>5, <1>6, <1>7, <1>8
     DEF Next, vars, PullMoves, Land, Vanish, Webhook, SetAccess, Process, InspectReview,
         RecoveryRefused, RecoveryStep, InspectUnderClaim, CheckRequeue, Requeue

\* A POST that repeats an earlier one is sent only to a repository that allowed
\* reviews after the worker's last look at GitHub, and never within two minutes
\* of the attempt before it (the second access check of github_action and
\* recover_review's quiet period).
THEOREM RetriesAreAllowed == Spec => RetryIsStillAllowed
<1>1. IInv /\ [Next]_vars =>
        [\A h \in Head : row'[h].attempts > row[h].attempts /\ row[h].attempts > 0
                            => row[h].cooled /\ (access \/ withdrawn)]_vars
  <2>. SUFFICES ASSUME IInv, [Next]_vars, NEW h \in Head,
                       row'[h].attempts > row[h].attempts, row[h].attempts > 0
                PROVE  row[h].cooled /\ (access \/ withdrawn)
    OBVIOUS
  <2>1. ClaimAndPost /\ worker.head = h
    BY AttemptsCount
  <2>2. row[h].status = "pending" /\ row[h].cooled
    BY <2>1 DEF IInv, RowsAreAccounted, ClaimAndPost
  <2>3. worker.pc = "confirmed"
    BY <2>1 DEF IInv, WorkerHolds, ClaimAndPost
  <2>. QED
    BY <2>2, <2>3 DEF IInv, WorkerHolds
<1>. QED
  BY <1>1, Invariance, PTL DEF Spec, RetryIsStillAllowed

=============================================================================
