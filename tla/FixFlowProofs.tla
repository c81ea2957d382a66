--------------------------- MODULE FixFlowProofs ---------------------------
(***************************************************************************)
(* Proofs about FixFlow, for any patches, pushes, deliveries and threads,  *)
(* and about the StepBudget of the code worker in its loop, for any calls  *)
(* and any step configuration.                                             *)
(* IInv is inductive: one lemma per action.  The steps that touch neither  *)
(* rows nor requests nor the issue task's data share ModestStep, and the   *)
(* ways to leave the fix loop share the lemmas on what the worker holds.   *)
(* The proofs about the step budget come last, and share no state with it. *)
(***************************************************************************)
EXTENDS FixFlow, StepBudget, TLAPS

\* The places of the worker that these names stand for.
USE DEF Sending, Acting

\* The idle worker is well typed.
LEMMA IdleTyped == IdleWorker \in Worker
BY ConstantsOK DEF IdleWorker, Worker, PC

\* The invariant without MergesAreOurs, which has a lemma of its own.
FlowInv ==
    /\ TypeOK /\ RowsAreAccounted /\ GitHubFollows /\ HeadsAreCreated /\ OffersAreReviewed
    /\ WorkerHolds /\ ReportedMergesHappened

\* Only while the worker is sending is a row executing.
NoneExecutes == \A w \in Write : row[w].status # "executing"
LEMMA OnlySendingExecutes ==
  ASSUME IInv, worker.pc \notin Sending
  PROVE  NoneExecutes
BY DEF IInv, WorkerHolds, NoneExecutes

\* Where fix_issue ends, and where a task ends, the worker is well typed and
\* holds nothing.
LEMMA RaisesHolds ==
  ASSUME NoneExecutes', Raises
  PROVE  worker' \in Worker /\ WorkerHolds'
<1>1. /\ worker' \in Worker
      /\ worker'.pc = "destroying" /\ worker'.task = Issue
  BY IdleTyped, ConstantsOK DEF Raises, Worker, PC, Task, IdleWorker
<1>. QED
  BY <1>1, ConstantsOK DEF WorkerHolds, NoneExecutes, Task

\* The same when fix_issue returns with a status.
LEMMA ReturnsHolds ==
  ASSUME NoneExecutes', NEW s, Returns(s)
  PROVE  worker' \in Worker /\ WorkerHolds'
<1>1. /\ worker' \in Worker
      /\ worker'.pc = "destroying" /\ worker'.task = Issue
  BY IdleTyped, ConstantsOK DEF Returns, Worker, PC, Task, IdleWorker
<1>. QED
  BY <1>1, ConstantsOK DEF WorkerHolds, NoneExecutes, Task

\* The same when the loop goes round, or fails.
LEMMA NextRoundHolds ==
  ASSUME IInv, worker.pc \in {"testing", "reviewing"}, NextRound, row' = row
  PROVE  worker' \in Worker /\ WorkerHolds'
<1>1. worker.task = Issue /\ NoneExecutes /\ NoneExecutes'
  BY OnlySendingExecutes DEF IInv, WorkerHolds, IssuePC, NoneExecutes
<1>2. CASE worker.round = 2 /\ Returns("failed")
  BY <1>1, <1>2, ReturnsHolds
<1>3. CASE /\ UNCHANGED status
           /\ worker' = [worker EXCEPT !.pc = "working", !.round = 2, !.patch = None]
  <2>0. "working" \in PC /\ 2 \in 1..2 /\ None \in Patch \cup {None}
    BY DEF PC
  <2>1. worker' \in Worker
    BY <1>3, <2>0 DEF IInv, TypeOK, Worker
  <2>2. worker'.pc = "working" /\ worker'.task = Issue
    BY <1>1, <1>3
  <2>. QED
    BY <1>1, <1>3, <2>1, <2>2 DEF IInv, WorkerHolds, NoneExecutes
<1>. QED
  BY <1>2, <1>3 DEF NextRound

\* The same when a task ends.
LEMMA FinishHolds ==
  ASSUME NoneExecutes', NEW s, Finish(s)
  PROVE  worker' \in Worker /\ WorkerHolds'
BY IdleTyped, ConstantsOK
   DEF Finish, WorkerHolds, IdleWorker, IssuePC, Task, NoneExecutes

\* The same when a GitHub write raises.
LEMMA ActionRaisesHolds ==
  ASSUME NoneExecutes', ActionRaises
  PROVE  worker' \in Worker /\ WorkerHolds'
BY RaisesHolds, FinishHolds DEF ActionRaises

\* Completed rows stay completed, so a merge that is recorded stays recorded.
LEMMA MergeStaysRecorded ==
  ASSUME IInv, MergeRecorded, pull' = pull,
         \A w \in Write : row[w].status = "completed" => row'[w].status = "completed"
  PROVE  MergeRecorded'
<1>1. pull.head \in Write
  BY DEF IInv, TypeOK, GitHubFollows, MergeRecorded, Write
<1>. QED
  BY <1>1 DEF MergeRecorded

\* A step that leaves rows, requests, the pull request, the endpoint threads and
\* the issue task's data alone, and moves no task to a status that claims a pull
\* request or a merge: only types and the worker's knowledge have to be shown.
LEMMA ModestStep ==
  ASSUME IInv, TypeOK', WorkerHolds',
         UNCHANGED <<row, request, pull, thread, linked, reviewed>>,
         \A t \in Task : \/ status'[t] = status[t]
                         \/ /\ t = Issue \/ status[t] # "none"
                            /\ status'[t] \notin {"pr_created", "merged", "bot_merged"},
         UNCHANGED timeline \/ status'[Issue] \notin {"pr_created", "merged"}
  PROVE  FlowInv'
<1>1. RowsAreAccounted' /\ HeadsAreCreated'
  BY DEF IInv, RowsAreAccounted, HeadsAreCreated, HeadIsCreated, MergeRecorded
<1>2. GitHubFollows'
  BY ConstantsOK DEF IInv, GitHubFollows, Task
<1>3. OffersAreReviewed'
  BY DEF IInv, OffersAreReviewed, MergeRecorded, Passed, timeline, Task
<1>4. ReportedMergesHappened'
  BY DEF IInv, ReportedMergesHappened
<1>. QED
  BY <1>1, <1>2, <1>3, <1>4 DEF FlowInv

\* What a request becomes when GitHub or the worker takes it on.
LEMMA RequestAdvances ==
  ASSUME IInv, NEW w \in Write, NEW h \in Commit \cup {None},
         NEW s \in {"unsent", "lookup", "branching", "branched", "inflight", "done", "lost"},
         \/ request' = [request EXCEPT ![w].state = s] /\ h = request[w].head
         \/ request' = [request EXCEPT ![w].state = s, ![w].head = h]
  PROVE  /\ request' \in [Write -> Request]
         /\ request'[w].state = s /\ request'[w].head = h
         /\ \A v \in Write : /\ request'[v].sent = request[v].sent
                             /\ request'[v].patch = request[v].patch
         /\ \A v \in Write \ {w} : request'[v] = request[v]
<1>1. request \in [Write -> Request]
  BY DEF IInv, TypeOK
<1>2. request' = [request EXCEPT ![w] = [request[w] EXCEPT !.state = s, !.head = h]]
  BY <1>1 DEF Request
<1>3. [request[w] EXCEPT !.state = s, !.head = h] \in Request
  BY <1>1 DEF Request
<1>. QED
  BY <1>1, <1>2, <1>3 DEF Request

\* The head of a branch is a commit.
LEMMA PullHeadTyped ==
  ASSUME IInv, pull.state # "none"
  PROVE  pull.head \in Commit
BY DEF IInv, TypeOK, GitHubFollows

\* The branch is created at the patch that was sent; nothing was merged yet.
LEMMA BranchLandsStep ==
  ASSUME IInv, BranchLands
  PROVE  FlowInv'
<1>r. request \in [Write -> Request] /\ Issue \in Write
  BY DEF IInv, TypeOK, Write
<1>0. ~MergeRecorded
  BY DEF MergeRecorded, BranchLands
<1>1. TypeOK'
  <2>1. request' \in [Write -> Request]
    BY <1>r DEF IInv, TypeOK, BranchLands, Request, GitHubFollows
  <2>. QED
    BY <1>r, <2>1, ConstantsOK
       DEF IInv, TypeOK, BranchLands, issueData, timeline, Request, Commit, GitHubFollows
<1>2. RowsAreAccounted'
  BY <1>r DEF IInv, RowsAreAccounted, BranchLands
<1>3. GitHubFollows'
  BY <1>r, ConstantsOK DEF IInv, GitHubFollows, BranchLands, Commit, Request
<1>4. HeadsAreCreated'
  BY <1>r, <1>0 DEF IInv, HeadsAreCreated, HeadIsCreated, BranchLands, issueData
<1>5. OffersAreReviewed'
  BY <1>r, <1>0 DEF IInv, OffersAreReviewed, Passed, BranchLands, issueData, timeline
<1>6. WorkerHolds'
  BY <1>r, <1>0 DEF IInv, WorkerHolds, Passed, BranchLands, timeline
<1>7. ReportedMergesHappened'
  BY <1>r, ConstantsOK DEF IInv, ReportedMergesHappened, BranchLands, Commit
<1>. QED
  BY <1>1, <1>2, <1>3, <1>4, <1>5, <1>6, <1>7 DEF FlowInv

\* The pull request opens at what the branch holds, and its head is fixed.
LEMMA CreateLandsStep ==
  ASSUME IInv, CreateLands
  PROVE  FlowInv'
<1>r. /\ request \in [Write -> Request] /\ Issue \in Write /\ Commit \subseteq Write
      /\ Issue \notin Commit /\ pull.head \in Commit /\ pull.state = "branch"
      /\ request[Issue].state = "inflight"
  BY ConstantsOK, PullHeadTyped DEF IInv, TypeOK, Write, CreateLands
<1>n. /\ request' \in [Write -> Request]
      /\ request'[Issue].state = "done" /\ request'[Issue].head = pull.head
      /\ \A v \in Write : /\ request'[v].sent = request[v].sent
                          /\ request'[v].patch = request[v].patch
      /\ \A v \in Write \ {Issue} : request'[v] = request[v]
  BY <1>r, RequestAdvances DEF CreateLands
<1>p. pull' \in [state: {"open"}, head: {pull.head}]
  BY DEF IInv, TypeOK, CreateLands
<1>0. ~MergeRecorded
  BY DEF MergeRecorded, CreateLands
<1>1. TypeOK'
  BY <1>r, <1>n, <1>p DEF IInv, TypeOK, CreateLands, issueData, timeline
<1>2. RowsAreAccounted'
  BY <1>r, <1>n DEF IInv, RowsAreAccounted, CreateLands
<1>3. GitHubFollows'
  BY <1>r, <1>n, <1>p DEF IInv, GitHubFollows, CreateLands
<1>4. HeadsAreCreated'
  BY <1>r, <1>0 DEF IInv, HeadsAreCreated, HeadIsCreated, CreateLands, issueData
<1>5. OffersAreReviewed'
  BY <1>r, <1>0 DEF IInv, OffersAreReviewed, Passed, CreateLands, issueData, timeline
<1>6. WorkerHolds'
  BY <1>r, <1>0 DEF IInv, WorkerHolds, Passed, CreateLands, timeline
<1>7. ReportedMergesHappened'
  BY <1>r, ConstantsOK DEF IInv, ReportedMergesHappened, CreateLands, Commit
<1>. QED
  BY <1>1, <1>2, <1>3, <1>4, <1>5, <1>6, <1>7 DEF FlowInv

\* A merge lands only while its request is in flight, and closes the pull
\* request for good.
LEMMA MergeLandsStep ==
  ASSUME IInv, NEW h \in Commit, MergeLands(h)
  PROVE  FlowInv'
<1>1. TypeOK'
  BY DEF IInv, TypeOK, MergeLands, issueData, timeline, Write, Request
<1>2. RowsAreAccounted'
  BY DEF IInv, RowsAreAccounted, MergeLands
<1>3. GitHubFollows'
  <2>1. /\ request' \in [Write -> Request] /\ h \in Write /\ h # Issue /\ Issue \in Write
        /\ \A v \in Write \ {h} : request'[v] = request[v]
    BY ConstantsOK DEF IInv, TypeOK, MergeLands, Write, Request
  <2>2. \A g \in Commit \ {h} : request[g].state # "done"
    BY DEF IInv, GitHubFollows, MergeLands
  <2>. QED
    BY <2>1, <2>2 DEF IInv, TypeOK, GitHubFollows, MergeLands, Write
<1>4. HeadsAreCreated'
  BY DEF IInv, HeadsAreCreated, HeadIsCreated, MergeRecorded, MergeLands, issueData
<1>5. OffersAreReviewed'
  BY DEF IInv, OffersAreReviewed, Passed, MergeRecorded, MergeLands, issueData, timeline
<1>6. WorkerHolds'
  BY DEF IInv, WorkerHolds, Passed, MergeRecorded, MergeLands, timeline
<1>7. ReportedMergesHappened'
  BY DEF IInv, ReportedMergesHappened, MergeLands
<1>. QED
  BY <1>1, <1>2, <1>3, <1>4, <1>5, <1>6, <1>7 DEF FlowInv

\* A lost request was sent, and its row is not completed.
LEMMA RequestLostStep ==
  ASSUME IInv, NEW w \in Write, RequestLost(w)
  PROVE  FlowInv'
<1>1. TypeOK'
  BY DEF IInv, TypeOK, RequestLost, issueData, timeline, Task, Request
<1>2. RowsAreAccounted'
  BY DEF IInv, RowsAreAccounted, RequestLost
<1>3. GitHubFollows'
  BY DEF IInv, GitHubFollows, RequestLost
<1>4. HeadsAreCreated'
  BY DEF IInv, HeadsAreCreated, HeadIsCreated, MergeRecorded, RequestLost, issueData
<1>5. OffersAreReviewed'
  BY DEF IInv, OffersAreReviewed, Passed, MergeRecorded, RequestLost, issueData, timeline
<1>6. WorkerHolds'
  BY DEF IInv, WorkerHolds, Passed, MergeRecorded, RequestLost, timeline
<1>7. ReportedMergesHappened'
  BY DEF IInv, ReportedMergesHappened, RequestLost
<1>. QED
  BY <1>1, <1>2, <1>3, <1>4, <1>5, <1>6, <1>7 DEF FlowInv

\* People move the pull request, never a request or a row, and never out of
\* merged.
LEMMA PullMovesStep ==
  ASSUME IInv, PullMoves
  PROVE  FlowInv'
<1>0. /\ pull.state # "merged"
      /\ pull' \in [state: {"branch", "open", "closed", "merged"},
                    head: Pushed \cup ({request[Issue].patch} \ {None})]
  <2>1. pull.state \in {"none", "branch", "open", "closed", "merged"}
    BY DEF IInv, TypeOK
  <2>. QED
    BY <2>1 DEF PullMoves
<1>h. pull'.head \in Commit /\ pull'.head # None
  BY <1>0, ConstantsOK DEF IInv, TypeOK, Request, Write, Commit
<1>1. TypeOK'
  BY <1>0, <1>h DEF IInv, TypeOK, PullMoves, issueData, timeline
<1>2. RowsAreAccounted'
  BY DEF IInv, RowsAreAccounted, PullMoves
<1>3. GitHubFollows'
  BY <1>0, <1>h DEF IInv, GitHubFollows, PullMoves
<1>4. HeadsAreCreated'
  BY DEF IInv, HeadsAreCreated, HeadIsCreated, MergeRecorded, PullMoves, issueData
<1>5. OffersAreReviewed'
  BY DEF IInv, OffersAreReviewed, Passed, MergeRecorded, PullMoves, issueData, timeline
<1>6. WorkerHolds'
  BY DEF IInv, WorkerHolds, Passed, MergeRecorded, PullMoves, timeline
<1>7. ReportedMergesHappened'
  BY DEF IInv, ReportedMergesHappened, PullMoves
<1>. QED
  BY <1>1, <1>2, <1>3, <1>4, <1>5, <1>6, <1>7 DEF FlowInv

\* The configuration is read by nobody but Process.
LEMMA SetAutoMergeStep ==
  ASSUME IInv, SetAutoMerge
  PROVE  FlowInv'
<1>1. TypeOK'
  BY DEF IInv, TypeOK, SetAutoMerge, issueData, timeline, github
<1>2. /\ \A u \in Task : \/ status'[u] = status[u]
                        \/ /\ u = Issue \/ status[u] # "none"
                           /\ status'[u] \notin {"pr_created", "merged", "bot_merged"}
      /\ UNCHANGED timeline \/ status'[Issue] \notin {"pr_created", "merged"}
  BY DEF SetAutoMerge
<1>3. UNCHANGED <<row, request, pull, thread, linked, reviewed>>
  BY DEF SetAutoMerge, issueData, github
<1>6. WorkerHolds'
  BY DEF IInv, WorkerHolds, Passed, MergeRecorded, SetAutoMerge, timeline, github
<1>. QED
  BY <1>1, <1>2, <1>3, <1>6, ModestStep

\* A delivery queues a pull task, for a pull request that exists.
LEMMA WebhookStep ==
  ASSUME IInv, NEW t \in PullTask, Webhook(t)
  PROVE  FlowInv'
<1>1. TypeOK'
  BY DEF IInv, TypeOK, Webhook, issueData, timeline, github, Task, TaskStatus
<1>2. RowsAreAccounted'
  BY DEF IInv, RowsAreAccounted, Webhook, github
<1>3. GitHubFollows'
  BY DEF IInv, GitHubFollows, Webhook, github
<1>4. HeadsAreCreated'
  BY DEF IInv, HeadsAreCreated, HeadIsCreated, MergeRecorded, Webhook, issueData, github
<1>5. OffersAreReviewed'
  BY DEF IInv, OffersAreReviewed, Passed, MergeRecorded, Webhook, issueData, timeline, github
<1>6. WorkerHolds'
  BY DEF IInv, WorkerHolds, Passed, MergeRecorded, Webhook, timeline, github
<1>7. ReportedMergesHappened'
  BY DEF IInv, ReportedMergesHappened, Webhook
<1>. QED
  BY <1>1, <1>2, <1>3, <1>4, <1>5, <1>6, <1>7 DEF FlowInv

\* A comment moves the issue task from one harmless status to another.
LEMMA CommentStep ==
  ASSUME IInv, Comment
  PROVE  FlowInv'
<1>1. TypeOK'
  BY DEF IInv, TypeOK, Comment, issueData, timeline, github, Task, TaskStatus
<1>2. /\ \A u \in Task : \/ status'[u] = status[u]
                        \/ /\ u = Issue \/ status[u] # "none"
                           /\ status'[u] \notin {"pr_created", "merged", "bot_merged"}
      /\ UNCHANGED timeline \/ status'[Issue] \notin {"pr_created", "merged"}
  BY DEF Comment
<1>3. UNCHANGED <<row, request, pull, thread, linked, reviewed>>
  BY DEF Comment, issueData, github
<1>6. WorkerHolds'
  BY DEF IInv, WorkerHolds, Passed, MergeRecorded, Comment, timeline, github
<1>. QED
  BY <1>1, <1>2, <1>3, <1>6, ModestStep

\* A thread remembers a head that the issue task stores.
LEMMA CheckRequeueStep ==
  ASSUME IInv, NEW x \in Thread, NEW t \in Task, CheckRequeue(x, t)
  PROVE  FlowInv'
<1>a. thread'[x] = IF t = Issue THEN [task |-> t, linked |-> linked, reviewed |-> reviewed]
                   ELSE [NoThread EXCEPT !.task = t]
  BY DEF IInv, TypeOK, CheckRequeue
<1>b. \A y \in Thread \ {x} : thread'[y] = thread[y]
  BY DEF IInv, TypeOK, CheckRequeue
<1>1. TypeOK'
  <2>1. TypeOK
    BY DEF IInv
  <2>2. thread'[x] \in [task: Task \cup {None}, linked: BOOLEAN,
                        reviewed: Commit \cup {None}]
    <3>1. CASE t = Issue
      BY <1>a, <2>1, <3>1 DEF TypeOK
    <3>2. CASE t # Issue
      BY <1>a, <2>1, <3>2 DEF NoThread
    <3>. QED
      BY <3>1, <3>2
  <2>3. thread' \in [Thread -> [task: Task \cup {None}, linked: BOOLEAN,
                                reviewed: Commit \cup {None}]]
    BY <2>1, <2>2 DEF TypeOK, CheckRequeue
  <2>. QED
    BY <2>1, <2>3 DEF TypeOK, CheckRequeue, issueData, timeline, github
<1>2. RowsAreAccounted'
  BY DEF IInv, RowsAreAccounted, CheckRequeue, github
<1>3. GitHubFollows'
  <2>1. ASSUME NEW y \in Thread, thread'[y].task \in PullTask
        PROVE  pull.state # "none"
    <3>1. CASE y = x
      <4>1. t \in PullTask /\ status[t] # "none"
        BY <2>1, <3>1, ConstantsOK DEF CheckRequeue, Retryable, Task
      <4>. QED
        BY <4>1 DEF IInv, GitHubFollows
    <3>2. CASE y # x
      BY <2>1, <3>2 DEF IInv, CheckRequeue, GitHubFollows
    <3>. QED
      BY <3>1, <3>2
  <2>. QED
    BY <2>1 DEF IInv, GitHubFollows, CheckRequeue, github
<1>4. HeadsAreCreated'
  <2>1. HeadIsCreated(thread[x].linked, thread[x].reviewed)'
    BY <1>a DEF IInv, HeadsAreCreated, HeadIsCreated, MergeRecorded, NoThread, CheckRequeue,
               github
  <2>. QED
    BY <1>b, <2>1 DEF IInv, HeadsAreCreated, HeadIsCreated, MergeRecorded, CheckRequeue,
                      issueData, github
<1>5. OffersAreReviewed'
  BY DEF IInv, OffersAreReviewed, Passed, MergeRecorded, CheckRequeue, issueData,
         timeline, github
<1>6. WorkerHolds'
  BY DEF IInv, WorkerHolds, Passed, MergeRecorded, CheckRequeue, timeline, github
<1>7. ReportedMergesHappened'
  BY DEF IInv, ReportedMergesHappened, CheckRequeue, github
<1>. QED
  BY <1>1, <1>2, <1>3, <1>4, <1>5, <1>6, <1>7 DEF FlowInv

\* A thread writes back a head that is still the created one.
LEMMA RequeueStep ==
  ASSUME IInv, NEW x \in Thread, Requeue(x)
  PROVE  FlowInv'
<1>a. worker' \in Worker
  BY DEF IInv, TypeOK, Requeue
<1>b. status' \in [Task -> TaskStatus]
  BY DEF IInv, TypeOK, Requeue, TaskStatus
<1>1. TypeOK'
  BY <1>b DEF IInv, TypeOK, Requeue, NoThread, issueData, timeline, github
<1>2. RowsAreAccounted'
  BY DEF IInv, RowsAreAccounted, Requeue, github
<1>3. GitHubFollows'
  BY ConstantsOK DEF IInv, GitHubFollows, Requeue, NoThread, github, Task
<1>4. HeadsAreCreated'
  BY DEF IInv, HeadsAreCreated, HeadIsCreated, MergeRecorded, Requeue, NoThread,
         issueData, github
<1>5. OffersAreReviewed'
  BY DEF IInv, TypeOK, OffersAreReviewed, Passed, MergeRecorded, Requeue, issueData,
         timeline, github, Task
<1>6. WorkerHolds'
  BY DEF IInv, WorkerHolds, Passed, MergeRecorded, Requeue, timeline, github
<1>7. ReportedMergesHappened'
  BY DEF IInv, ReportedMergesHappened, Requeue, github
<1>. QED
  BY <1>1, <1>2, <1>3, <1>4, <1>5, <1>6, <1>7 DEF FlowInv

\* A queued task starts to run with a fresh worker.
LEMMA ProcessStep ==
  ASSUME IInv, NEW t \in Task, Process(t)
  PROVE  FlowInv'
<1>n. NoneExecutes'
  BY OnlySendingExecutes DEF NoneExecutes, Process
<1>a. worker' \in Worker
  <2>1. autoMerge \in BOOLEAN
    BY DEF IInv, TypeOK
  <2>2. \A pc \in PC, merges \in BOOLEAN :
            [IdleWorker EXCEPT !.pc = pc, !.task = t, !.autoMerge = merges] \in Worker
    BY IdleTyped DEF Worker
  <2>3. \E pc \in PC, merges \in BOOLEAN :
            worker' = [IdleWorker EXCEPT !.pc = pc, !.task = t, !.autoMerge = merges]
    BY <2>1 DEF Process, PC
  <2>. QED
    BY <2>2, <2>3
<1>b. status' \in [Task -> TaskStatus]
  BY DEF IInv, TypeOK, Process, TaskStatus
<1>1. TypeOK'
  BY <1>a, <1>b DEF IInv, TypeOK, Process, issueData, timeline, github
<1>2. /\ \A u \in Task : \/ status'[u] = status[u]
                        \/ /\ u = Issue \/ status[u] # "none"
                           /\ status'[u] \notin {"pr_created", "merged", "bot_merged"}
      /\ UNCHANGED timeline \/ status'[Issue] \notin {"pr_created", "merged"}
  BY DEF Process
<1>3. UNCHANGED <<row, request, pull, thread, linked, reviewed>>
  BY DEF Process, issueData, github
<1>6. WorkerHolds'
  BY <1>n DEF WorkerHolds, NoneExecutes, IssuePC, Process, Task
<1>. QED
  BY <1>1, <1>2, <1>3, <1>6, ModestStep

\* The issue task rests before a sandbox exists.
LEMMA LeaveTriageStep ==
  ASSUME IInv, LeaveTriage
  PROVE  FlowInv'
<1>n. NoneExecutes'
  BY OnlySendingExecutes DEF NoneExecutes, LeaveTriage
<1>1. TypeOK'
  BY DEF IInv, TypeOK, LeaveTriage, Finish, issueData, timeline, github, TaskStatus, PC,
         Worker, IdleWorker, WorkerHolds
<1>2. /\ \A u \in Task : \/ status'[u] = status[u]
                        \/ /\ u = Issue \/ status[u] # "none"
                           /\ status'[u] \notin {"pr_created", "merged", "bot_merged"}
      /\ UNCHANGED timeline \/ status'[Issue] \notin {"pr_created", "merged"}
  BY DEF IInv, WorkerHolds, IssuePC, LeaveTriage, Finish
<1>3. UNCHANGED <<row, request, pull, thread, linked, reviewed>>
  BY DEF LeaveTriage, Finish, issueData, github
<1>6. WorkerHolds'
  BY <1>n, FinishHolds DEF LeaveTriage
<1>. QED
  BY <1>1, <1>2, <1>3, <1>6, ModestStep

\* The fix loop begins.
LEMMA SandboxCreatedStep ==
  ASSUME IInv, SandboxCreated
  PROVE  FlowInv'
<1>1. TypeOK'
  BY DEF IInv, TypeOK, SandboxCreated, issueData, timeline, github, TaskStatus, PC,
         Worker, WorkerHolds, IssuePC
<1>2. /\ \A u \in Task : \/ status'[u] = status[u]
                        \/ /\ u = Issue \/ status[u] # "none"
                           /\ status'[u] \notin {"pr_created", "merged", "bot_merged"}
      /\ UNCHANGED timeline \/ status'[Issue] \notin {"pr_created", "merged"}
  BY DEF SandboxCreated
<1>3. UNCHANGED <<row, request, pull, thread, linked, reviewed>>
  BY DEF SandboxCreated, issueData, github
<1>6. WorkerHolds'
  BY DEF IInv, WorkerHolds, IssuePC, SandboxCreated
<1>. QED
  BY <1>1, <1>2, <1>3, <1>6, ModestStep

\* The worker has produced a patch or nothing.
LEMMA WorkerCompletedStep ==
  ASSUME IInv, WorkerCompleted
  PROVE  FlowInv'
<1>a. worker' \in Worker
  BY DEF IInv, TypeOK, WorkerCompleted, Worker, PC
<1>b. status' \in [Task -> TaskStatus]
  BY DEF IInv, TypeOK, WorkerCompleted
<1>1. TypeOK'
  BY <1>a DEF IInv, TypeOK, WorkerCompleted, issueData, timeline, github
<1>2. /\ \A u \in Task : \/ status'[u] = status[u]
                        \/ /\ u = Issue \/ status[u] # "none"
                           /\ status'[u] \notin {"pr_created", "merged", "bot_merged"}
      /\ UNCHANGED timeline \/ status'[Issue] \notin {"pr_created", "merged"}
  BY DEF WorkerCompleted
<1>3. UNCHANGED <<row, request, pull, thread, linked, reviewed>>
  BY DEF WorkerCompleted, issueData, github
<1>6. WorkerHolds'
  BY DEF IInv, WorkerHolds, IssuePC, WorkerCompleted
<1>. QED
  BY <1>1, <1>2, <1>3, <1>6, ModestStep

\* New test results arrive while the issue task offers nothing for a merge.
LEMMA TestsCompletedStep ==
  ASSUME IInv, TestsCompleted
  PROVE  FlowInv'
<1>n. NoneExecutes'
  BY OnlySendingExecutes DEF NoneExecutes, TestsCompleted
<1>a. worker' \in Worker /\ WorkerHolds'
  <2>1. worker.task = Issue
    BY DEF IInv, WorkerHolds, IssuePC, TestsCompleted
  <2>2. CASE NextRound
    BY <2>2, NextRoundHolds DEF TestsCompleted
  <2>3. CASE Raises \/ \E s \in TaskStatus : Returns(s)
    BY <1>n, <2>3, RaisesHolds, ReturnsHolds
  <2>4. CASE /\ tests' = "passed" /\ worker.patch # None /\ UNCHANGED status
             /\ worker' = [worker EXCEPT !.pc = "reviewing"]
    <3>1. worker' \in Worker
      BY <2>4 DEF IInv, TypeOK, Worker, PC
    <3>2. /\ worker'.pc = "reviewing" /\ worker'.task = Issue
          /\ worker'.patch \in Patch
      BY <2>1, <2>4 DEF IInv, TypeOK, Worker
    <3>. QED
      BY <2>4, <3>1, <3>2 DEF IInv, WorkerHolds, TestsCompleted
  <2>. QED
    BY <2>2, <2>3, <2>4 DEF TestsCompleted, TaskStatus
<1>b. status' \in [Task -> TaskStatus]
  BY DEF IInv, TypeOK, TestsCompleted, NextRound, Returns, Raises, TaskStatus
<1>1. TypeOK'
  BY <1>a, <1>b DEF IInv, TypeOK, TestsCompleted, issueData, github
<1>2. /\ \A u \in Task : \/ status'[u] = status[u]
                        \/ /\ u = Issue \/ status[u] # "none"
                           /\ status'[u] \notin {"pr_created", "merged", "bot_merged"}
      /\ UNCHANGED timeline \/ status'[Issue] \notin {"pr_created", "merged"}
  BY DEF IInv, TypeOK, WorkerHolds, IssuePC, TestsCompleted, NextRound, Returns, Raises
<1>3. UNCHANGED <<row, request, pull, thread, linked, reviewed>>
  BY DEF TestsCompleted, issueData, github
<1>. QED
  BY <1>1, <1>2, <1>3, <1>a, ModestStep

\* A new review arrives while the issue task offers nothing for a merge; an
\* approval leads to fix_pr with the patch that was tested.
LEMMA CodeReviewCompletedStep ==
  ASSUME IInv, CodeReviewCompleted
  PROVE  FlowInv'
<1>n. NoneExecutes'
  BY OnlySendingExecutes DEF NoneExecutes, CodeReviewCompleted
<1>a. worker' \in Worker /\ WorkerHolds'
  <2>1. worker.task = Issue
    BY DEF IInv, WorkerHolds, IssuePC, CodeReviewCompleted
  <2>2. CASE NextRound
    BY <2>2, NextRoundHolds DEF CodeReviewCompleted
  <2>3. CASE Returns("waiting_for_owner")
    BY <1>n, <2>3, ReturnsHolds
  <2>4. CASE /\ review'.approved /\ review'.patch = worker.patch /\ UNCHANGED status
             /\ worker' = [worker EXCEPT !.pc = "acting", !.write = Issue]
    <3>1. worker' \in Worker
      BY <2>4 DEF IInv, TypeOK, Worker, PC, Write
    <3>2. /\ worker'.pc = "acting" /\ worker'.task = Issue /\ worker'.write = Issue
          /\ worker'.patch = worker.patch
      BY <2>1, <2>4
    <3>3. worker.patch \in Patch /\ tests' = "passed"
      BY DEF IInv, WorkerHolds, CodeReviewCompleted
    <3>. QED
      BY <2>4, <3>1, <3>2 DEF IInv, WorkerHolds, Passed, CodeReviewCompleted
  <2>. QED
    BY <2>2, <2>3, <2>4 DEF CodeReviewCompleted
<1>b. status' \in [Task -> TaskStatus]
  BY DEF IInv, TypeOK, CodeReviewCompleted, NextRound, Returns, TaskStatus
<1>1. TypeOK'
  BY <1>a, <1>b DEF IInv, TypeOK, CodeReviewCompleted, issueData, github, WorkerHolds
<1>2. /\ \A u \in Task : \/ status'[u] = status[u]
                        \/ /\ u = Issue \/ status[u] # "none"
                           /\ status'[u] \notin {"pr_created", "merged", "bot_merged"}
      /\ UNCHANGED timeline \/ status'[Issue] \notin {"pr_created", "merged"}
  BY DEF IInv, TypeOK, WorkerHolds, IssuePC, CodeReviewCompleted, NextRound, Returns
<1>3. UNCHANGED <<row, request, pull, thread, linked, reviewed>>
  BY DEF CodeReviewCompleted, issueData, github
<1>. QED
  BY <1>1, <1>2, <1>3, <1>a, ModestStep

\* An exception leaves the fix loop.
LEMMA FixFailsStep ==
  ASSUME IInv, FixFails
  PROVE  FlowInv'
<1>n. NoneExecutes'
  BY OnlySendingExecutes DEF NoneExecutes, FixFails
<1>a. worker' \in Worker /\ WorkerHolds'
  BY <1>n, RaisesHolds DEF FixFails
<1>b. status' \in [Task -> TaskStatus]
  BY DEF IInv, TypeOK, FixFails, Raises
<1>1. TypeOK'
  BY <1>a DEF IInv, TypeOK, FixFails, Raises, issueData, timeline, github
<1>2. /\ \A u \in Task : \/ status'[u] = status[u]
                        \/ /\ u = Issue \/ status[u] # "none"
                           /\ status'[u] \notin {"pr_created", "merged", "bot_merged"}
      /\ UNCHANGED timeline \/ status'[Issue] \notin {"pr_created", "merged"}
  BY DEF FixFails, Raises
<1>3. UNCHANGED <<row, request, pull, thread, linked, reviewed>>
  BY DEF FixFails, Raises, issueData, github
<1>. QED
  BY <1>1, <1>2, <1>3, <1>a, ModestStep

\* The sandbox is gone and the worker is idle.
LEMMA SandboxDestroyedStep ==
  ASSUME IInv, SandboxDestroyed
  PROVE  FlowInv'
<1>n. NoneExecutes'
  BY OnlySendingExecutes DEF NoneExecutes, SandboxDestroyed
<1>a. worker' \in Worker
  BY IdleTyped DEF SandboxDestroyed, Finish
<1>b. status' \in [Task -> TaskStatus]
  BY DEF IInv, TypeOK, SandboxDestroyed, Finish, TaskStatus
<1>1. TypeOK'
  BY <1>a, <1>b DEF IInv, TypeOK, SandboxDestroyed, issueData, timeline, github
<1>2. /\ \A u \in Task : \/ status'[u] = status[u]
                        \/ /\ u = Issue \/ status[u] # "none"
                           /\ status'[u] \notin {"pr_created", "merged", "bot_merged"}
      /\ UNCHANGED timeline \/ status'[Issue] \notin {"pr_created", "merged"}
  BY DEF IInv, TypeOK, WorkerHolds, IssuePC, SandboxDestroyed, Finish
<1>3. UNCHANGED <<row, request, pull, thread, linked, reviewed>>
  BY DEF SandboxDestroyed, Finish, issueData, github
<1>6. WorkerHolds'
  BY <1>n, ConstantsOK
     DEF WorkerHolds, NoneExecutes, IssuePC, SandboxDestroyed, Finish, IdleWorker, Task
<1>. QED
  BY <1>1, <1>2, <1>3, <1>6, ModestStep

\* Destroying the sandbox fails, after the task has rested or not.
LEMMA SandboxDestroyFailsStep ==
  ASSUME IInv, SandboxDestroyFails
  PROVE  FlowInv'
<1>n. NoneExecutes'
  BY OnlySendingExecutes DEF NoneExecutes, SandboxDestroyFails
<1>1. TypeOK'
  BY DEF IInv, TypeOK, SandboxDestroyFails, Finish, issueData, timeline, github,
         TaskStatus, PC, Worker, IdleWorker, WorkerHolds
<1>2. /\ \A u \in Task : \/ status'[u] = status[u]
                        \/ /\ u = Issue \/ status[u] # "none"
                           /\ status'[u] \notin {"pr_created", "merged", "bot_merged"}
      /\ UNCHANGED timeline \/ status'[Issue] \notin {"pr_created", "merged"}
  BY DEF IInv, WorkerHolds, IssuePC, SandboxDestroyFails, Finish
<1>3. UNCHANGED <<row, request, pull, thread, linked, reviewed>>
  BY DEF SandboxDestroyFails, Finish, issueData, github
<1>6. WorkerHolds'
  BY <1>n, FinishHolds DEF SandboxDestroyFails
<1>. QED
  BY <1>1, <1>2, <1>3, <1>6, ModestStep

\* A merge that is decided names the head that passed: the offered head is the
\* created one, and it was reviewed last.
LEMMA PullContextStep ==
  ASSUME IInv, PullContext
  PROVE  FlowInv'
<1>n. NoneExecutes'
  BY OnlySendingExecutes DEF NoneExecutes, PullContext
<1>a. worker' \in Worker /\ WorkerHolds'
  <2>1. CASE Finish("bot_merge_deferred")
    BY <1>n, <2>1, FinishHolds
  <2>2. CASE /\ MayMerge(pull.head) /\ UNCHANGED status
             /\ worker' = [worker EXCEPT !.pc = "acting", !.write = pull.head]
    <3>1. worker.task \in PullTask /\ pull.head \in Commit
      BY DEF IInv, WorkerHolds, TypeOK, GitHubFollows, PullContext
    <3>2. worker' \in Worker
      BY <2>2 DEF IInv, TypeOK, Worker, PC, Write
    <3>3. /\ worker'.pc = "acting" /\ worker'.task = worker.task
          /\ worker'.write = pull.head
      BY <2>2 DEF IInv, TypeOK, Worker
    <3>4. \/ /\ Passed(request[Issue].patch)'
             /\ request'[Issue].state = "done" /\ request'[Issue].head = pull.head
          \/ MergeRecorded'
      BY <2>2
         DEF IInv, MayMerge, HeadReviewed, OffersAreReviewed, Passed, HeadsAreCreated,
             HeadIsCreated, MergeRecorded, PullContext, timeline, github
    <3>. QED
      BY <2>2, <3>1, <3>2, <3>4, ConstantsOK
         DEF IInv, WorkerHolds, IssuePC, PullContext, github
  <2>. QED
    BY <2>1, <2>2 DEF PullContext
<1>b. status' \in [Task -> TaskStatus]
  BY DEF IInv, TypeOK, PullContext, Finish, TaskStatus
<1>1. TypeOK'
  BY <1>a, <1>b DEF IInv, TypeOK, PullContext, issueData, timeline, github
<1>2. /\ \A u \in Task : \/ status'[u] = status[u]
                        \/ /\ u = Issue \/ status[u] # "none"
                           /\ status'[u] \notin {"pr_created", "merged", "bot_merged"}
      /\ UNCHANGED timeline \/ status'[Issue] \notin {"pr_created", "merged"}
  BY DEF IInv, TypeOK, WorkerHolds, PullContext, Finish
<1>3. UNCHANGED <<row, request, pull, thread, linked, reviewed>>
  BY DEF PullContext, Finish, issueData, github
<1>. QED
  BY <1>1, <1>2, <1>3, <1>a, ModestStep

\* The pull task fails before it decides.
LEMMA PullContextFailsStep ==
  ASSUME IInv, PullContextFails
  PROVE  FlowInv'
<1>n. NoneExecutes'
  BY OnlySendingExecutes DEF NoneExecutes, PullContextFails
<1>1. TypeOK'
  BY DEF IInv, TypeOK, PullContextFails, Finish, issueData, timeline, github, TaskStatus,
         PC, Worker, IdleWorker, WorkerHolds
<1>2. /\ \A u \in Task : \/ status'[u] = status[u]
                        \/ /\ u = Issue \/ status[u] # "none"
                           /\ status'[u] \notin {"pr_created", "merged", "bot_merged"}
      /\ UNCHANGED timeline \/ status'[Issue] \notin {"pr_created", "merged"}
  BY DEF IInv, WorkerHolds, PullContextFails, Finish
<1>3. UNCHANGED <<row, request, pull, thread, linked, reviewed>>
  BY DEF PullContextFails, Finish, issueData, github
<1>6. WorkerHolds'
  BY <1>n, FinishHolds DEF PullContextFails
<1>. QED
  BY <1>1, <1>2, <1>3, <1>6, ModestStep

\* A row is reserved or found pending; nothing is sent.
LEMMA ReserveStep ==
  ASSUME IInv, Reserve
  PROVE  FlowInv'
<1>1. TypeOK'
  BY DEF IInv, TypeOK, Reserve, issueData, timeline, github, Write, Task, RowStatus, PC,
         Worker, WorkerHolds, IssuePC
<1>2. RowsAreAccounted'
  BY DEF IInv, TypeOK, RowsAreAccounted, Reserve, github
<1>a. MergeRecorded => MergeRecorded'
  <2>1. pull' = pull
    BY DEF Reserve, github
  <2>2. \A w \in Write : row[w].status = "completed" => row'[w].status = "completed"
    BY DEF IInv, TypeOK, Reserve
  <2>. QED
    BY <2>1, <2>2, MergeStaysRecorded
<1>3. GitHubFollows'
  BY DEF IInv, GitHubFollows, Reserve, github
<1>4. HeadsAreCreated'
  BY <1>a DEF IInv, HeadsAreCreated, HeadIsCreated, Reserve, issueData, github
<1>5. OffersAreReviewed'
  BY <1>a DEF IInv, OffersAreReviewed, Passed, Reserve, issueData, timeline, github
<1>6. WorkerHolds'
  BY DEF IInv, TypeOK, WorkerHolds, Passed, IssuePC, MergeRecorded, Reserve, timeline,
         github, Write
<1>7. ReportedMergesHappened'
  BY DEF IInv, ReportedMergesHappened, Reserve, github
<1>. QED
  BY <1>1, <1>2, <1>3, <1>4, <1>5, <1>6, <1>7 DEF FlowInv

\* An unresolved row stops the action.
LEMMA RefuseActionStep ==
  ASSUME IInv, RefuseAction
  PROVE  FlowInv'
<1>n. NoneExecutes'
  BY OnlySendingExecutes DEF NoneExecutes, RefuseAction
<1>a. worker' \in Worker
  BY <1>n, ActionRaisesHolds DEF RefuseAction
<1>b. status' \in [Task -> TaskStatus]
  BY DEF IInv, TypeOK, RefuseAction, ActionRaises, Raises, Finish, TaskStatus
<1>1. TypeOK'
  BY <1>a, <1>b DEF IInv, TypeOK, RefuseAction, issueData, timeline, github
<1>2. /\ \A u \in Task : \/ status'[u] = status[u]
                        \/ /\ u = Issue \/ status[u] # "none"
                           /\ status'[u] \notin {"pr_created", "merged", "bot_merged"}
      /\ UNCHANGED timeline \/ status'[Issue] \notin {"pr_created", "merged"}
  BY DEF IInv, TypeOK, WorkerHolds, RefuseAction, ActionRaises, Raises, Finish, Task
<1>3. UNCHANGED <<row, request, pull, thread, linked, reviewed>>
  BY DEF RefuseAction, issueData, github
<1>6. WorkerHolds'
  BY <1>n, ActionRaisesHolds DEF RefuseAction
<1>. QED
  BY <1>1, <1>2, <1>3, <1>6, ModestStep

\* A completed fix_pr is reused, and the issue task forgets its head.
LEMMA ReuseCreateStep ==
  ASSUME IInv, ReuseCreate
  PROVE  FlowInv'
<1>a. worker' \in Worker
  BY ConstantsOK, IdleTyped
     DEF IInv, TypeOK, ReuseCreate, Returns, Write, Task, Commit, PC, Worker, WorkerHolds,
         IssuePC, IdleWorker
<1>b. status' \in [Task -> TaskStatus]
  BY DEF IInv, TypeOK, ReuseCreate, Returns, TaskStatus
<1>1. TypeOK'
  BY <1>a, <1>b, ConstantsOK
     DEF IInv, TypeOK, ReuseCreate, Returns, issueData, timeline, github, Write, Task,
         Commit, RowStatus, WorkerHolds, IssuePC
<1>2. RowsAreAccounted'
  BY DEF IInv, RowsAreAccounted, ReuseCreate, github
<1>3. GitHubFollows'
  BY ConstantsOK DEF IInv, GitHubFollows, ReuseCreate, Returns, github
<1>4. HeadsAreCreated'
  BY DEF IInv, HeadsAreCreated, HeadIsCreated, MergeRecorded, ReuseCreate, github
<1>5. OffersAreReviewed'
  BY DEF OffersAreReviewed, ReuseCreate
<1>6. WorkerHolds'
  BY ConstantsOK DEF IInv, WorkerHolds, ReuseCreate, Returns
<1>7. ReportedMergesHappened'
  BY DEF IInv, ReportedMergesHappened, ReuseCreate, Returns, github
<1>. QED
  BY <1>1, <1>2, <1>3, <1>4, <1>5, <1>6, <1>7 DEF FlowInv

\* A completed merge_pr is reused: its request is done.
LEMMA ReuseMergeStep ==
  ASSUME IInv, ReuseMerge
  PROVE  FlowInv'
<1>a. worker' \in Worker
  BY DEF IInv, TypeOK, ReuseMerge, Worker, PC
<1>1. TypeOK'
  BY <1>a DEF IInv, TypeOK, ReuseMerge, issueData, timeline, github
<1>2. /\ \A u \in Task : \/ status'[u] = status[u]
                        \/ /\ u = Issue \/ status[u] # "none"
                           /\ status'[u] \notin {"pr_created", "merged", "bot_merged"}
      /\ UNCHANGED timeline \/ status'[Issue] \notin {"pr_created", "merged"}
  BY DEF ReuseMerge
<1>3. UNCHANGED <<row, request, pull, thread, linked, reviewed>>
  BY DEF ReuseMerge, issueData, github
<1>6. WorkerHolds'
  BY DEF IInv, WorkerHolds, Passed, IssuePC, MergeRecorded, ReuseMerge, timeline, github
<1>. QED
  BY <1>1, <1>2, <1>3, <1>6, ModestStep

\* A pending row is claimed, and its request leaves for the first time.
LEMMA ClaimAndSendStep ==
  ASSUME IInv, ClaimAndSend
  PROVE  FlowInv'
<1>1. TypeOK'
  <2>1. worker \in Worker /\ worker' \in Worker
    BY DEF IInv, TypeOK, ClaimAndSend, Worker, PC
  <2>2. row' \in [Write -> [status: RowStatus, patch: Patch \cup {None}]]
    <3>1. row \in [Write -> [status: RowStatus, patch: Patch \cup {None}]]
      BY DEF IInv, TypeOK
    <3>2. \A w \in Write : [row[w] EXCEPT !.status = "executing"]
                            \in [status: RowStatus, patch: Patch \cup {None}]
      BY <3>1 DEF RowStatus
    <3>3. row' = [row EXCEPT ![worker.write] = [row[worker.write] EXCEPT !.status = "executing"]]
      BY DEF ClaimAndSend
    <3>. QED
      BY <3>1, <3>2, <3>3
  <2>. DEFINE sent == [state |-> IF worker.write = Issue THEN "lookup" ELSE "inflight",
                       sent |-> request[worker.write].sent + 1,
                       patch |-> worker.patch, head |-> None]
  <2>3. request' \in [Write -> Request]
    <3>1. request \in [Write -> Request] /\ worker.patch \in Patch \cup {None}
      BY <2>1 DEF IInv, TypeOK, Worker
    <3>2. worker.write \in Write => sent \in Request
      BY <3>1 DEF Request
    <3>3. request' = [request EXCEPT ![worker.write] = sent]
      BY DEF ClaimAndSend
    <3>. HIDE DEF sent
    <3>. QED
      BY <3>1, <3>2, <3>3
  <2>4. UNCHANGED <<status, linked, reviewed, tests, review, pull, autoMerge, thread>>
    BY DEF ClaimAndSend, issueData, timeline
  <2>5. TypeOK
    BY DEF IInv
  <2>. QED
    BY <2>1, <2>2, <2>3, <2>4, <2>5 DEF TypeOK
<1>r. /\ request \in [Write -> Request] /\ worker.write \in Write
      /\ row[worker.write].status = "pending" /\ request[worker.write].state = "unsent"
      /\ \A v \in Write \ {worker.write} : request'[v] = request[v] /\ row'[v] = row[v]
      /\ request'[worker.write].state \in {"lookup", "inflight"}
      /\ request'[worker.write].patch = worker.patch
  BY DEF IInv, TypeOK, WorkerHolds, RowsAreAccounted, ClaimAndSend, Write
<1>p. worker.write = Issue =>
          /\ worker.task = Issue /\ worker.patch \in Patch
          /\ request[Issue].patch = None /\ status[Issue] \in {"running", "queued"}
  BY <1>r, ConstantsOK DEF IInv, WorkerHolds, GitHubFollows, ClaimAndSend
<1>m. MergeRecorded => MergeRecorded'
  BY <1>r, MergeStaysRecorded DEF ClaimAndSend
<1>2. RowsAreAccounted'
  BY DEF IInv, TypeOK, RowsAreAccounted, ClaimAndSend, WorkerHolds
<1>3. GitHubFollows'
  <2>1. Issue \in Write /\ Commit \subseteq Write
    BY DEF Write
  <2>2. CASE worker.write = Issue
    BY <1>r, <1>p, <2>1, <2>2, ConstantsOK DEF IInv, GitHubFollows, ClaimAndSend
  <2>3. CASE worker.write # Issue
    BY <1>r, <2>1, <2>3 DEF IInv, GitHubFollows, ClaimAndSend
  <2>. QED
    BY <2>2, <2>3
<1>4. HeadsAreCreated'
  BY DEF IInv, HeadsAreCreated, HeadIsCreated, MergeRecorded, RowsAreAccounted,
         ClaimAndSend, issueData, WorkerHolds, Write
<1>5. OffersAreReviewed'
  <2>1. worker.write # Issue => request'[Issue] = request[Issue]
    BY <1>r DEF Write
  <2>. QED
    BY <1>p, <1>m, <2>1 DEF IInv, OffersAreReviewed, Passed, ClaimAndSend, issueData, timeline
<1>6. WorkerHolds'
  BY DEF IInv, TypeOK, WorkerHolds, Passed, IssuePC, RowsAreAccounted, GitHubFollows,
         MergeRecorded, ClaimAndSend, timeline, Write, Task
<1>7. ReportedMergesHappened'
  BY DEF IInv, TypeOK, ReportedMergesHappened, ClaimAndSend, RowsAreAccounted, WorkerHolds
<1>. QED
  BY <1>1, <1>2, <1>3, <1>4, <1>5, <1>6, <1>7 DEF FlowInv

\* A pull request that is there is taken for the task's own, with its head.
LEMMA PullFoundStep ==
  ASSUME IInv, PullFound
  PROVE  FlowInv'
<1>r. /\ request \in [Write -> Request] /\ Issue \in Write /\ worker \in Worker
      /\ worker.task = Issue /\ worker.write = Issue /\ row[Issue].status = "executing"
      /\ worker.patch \in Patch /\ request[Issue].patch = worker.patch
      /\ request[Issue].state # "unsent"
  BY DEF IInv, TypeOK, Write, PullFound, WorkerHolds, RowsAreAccounted
<1>h. /\ pull.head \in Commit /\ Issue \notin Commit /\ Commit \subseteq Write
      /\ row[Issue].status # "completed" /\ request[Issue].state = "lookup"
  BY <1>r, ConstantsOK, PullHeadTyped DEF PullFound, Write, IInv, WorkerHolds
<1>n. /\ request' \in [Write -> Request]
      /\ request'[Issue].state = "done" /\ request'[Issue].head = pull.head
      /\ \A v \in Write : /\ request'[v].sent = request[v].sent
                          /\ request'[v].patch = request[v].patch
      /\ \A v \in Write \ {Issue} : request'[v] = request[v]
  BY <1>r, <1>h, RequestAdvances DEF PullFound
<1>1. TypeOK'
  <2>2. worker' \in Worker
    BY <1>r DEF PullFound, Worker, PC
  <2>. QED
    BY <1>n, <2>2 DEF IInv, TypeOK, PullFound, issueData, timeline
<1>2. RowsAreAccounted'
  BY <1>r, <1>n DEF IInv, RowsAreAccounted, PullFound
<1>3. GitHubFollows'
  BY <1>r, <1>h, <1>n DEF IInv, GitHubFollows, PullFound
<1>4. HeadsAreCreated'
  BY <1>r, <1>h, <1>n
     DEF IInv, HeadsAreCreated, HeadIsCreated, MergeRecorded, PullFound, issueData
<1>5. OffersAreReviewed'
  BY <1>r DEF IInv, OffersAreReviewed, Passed, MergeRecorded, PullFound, issueData, timeline
<1>6. WorkerHolds'
  BY <1>r DEF IInv, WorkerHolds, Passed, IssuePC, PullFound, timeline, Worker
<1>7. ReportedMergesHappened'
  BY <1>h, <1>n DEF IInv, ReportedMergesHappened, PullFound
<1>. QED
  BY <1>1, <1>2, <1>3, <1>4, <1>5, <1>6, <1>7 DEF FlowInv

\* The request for the branch leaves.
LEMMA BranchSentStep ==
  ASSUME IInv, BranchSent
  PROVE  FlowInv'
<1>r. /\ request \in [Write -> Request] /\ Issue \in Write /\ worker \in Worker
      /\ worker.task = Issue /\ worker.write = Issue /\ row[Issue].status = "executing"
      /\ worker.patch \in Patch /\ request[Issue].patch = worker.patch
      /\ request[Issue].state # "unsent"
  BY DEF IInv, TypeOK, Write, BranchSent, WorkerHolds, RowsAreAccounted
<1>1. TypeOK'
  <2>1. request' \in [Write -> Request]
    BY <1>r, ConstantsOK DEF IInv, TypeOK, BranchSent, Request, GitHubFollows, Commit
  <2>2. worker' \in Worker
    BY <1>r DEF BranchSent, Worker, PC
  <2>. QED
    BY <1>r, <2>1, <2>2 DEF IInv, TypeOK, BranchSent, issueData, timeline
<1>2. RowsAreAccounted'
  BY <1>r DEF IInv, RowsAreAccounted, BranchSent
<1>3. GitHubFollows'
  BY <1>r, ConstantsOK DEF IInv, GitHubFollows, BranchSent, Commit
<1>4. HeadsAreCreated'
  <2>1. request[Issue].state # "done"
    BY DEF IInv, WorkerHolds, BranchSent
  <2>. QED
    BY <1>r, <2>1
       DEF IInv, HeadsAreCreated, HeadIsCreated, MergeRecorded, BranchSent, issueData
<1>5. OffersAreReviewed'
  BY <1>r DEF IInv, OffersAreReviewed, Passed, MergeRecorded, BranchSent, issueData, timeline
<1>6. WorkerHolds'
  BY <1>r DEF IInv, WorkerHolds, Passed, IssuePC, BranchSent, timeline, Worker
<1>7. ReportedMergesHappened'
  BY <1>r, ConstantsOK DEF IInv, ReportedMergesHappened, BranchSent, Commit
<1>. QED
  BY <1>1, <1>2, <1>3, <1>4, <1>5, <1>6, <1>7 DEF FlowInv

\* The request for the pull request leaves.
LEMMA PullSentStep ==
  ASSUME IInv, PullSent
  PROVE  FlowInv'
<1>r. /\ request \in [Write -> Request] /\ Issue \in Write /\ worker \in Worker
      /\ worker.task = Issue /\ worker.write = Issue /\ row[Issue].status = "executing"
      /\ worker.patch \in Patch /\ request[Issue].patch = worker.patch
      /\ request[Issue].state # "unsent"
  BY DEF IInv, TypeOK, Write, PullSent, WorkerHolds, RowsAreAccounted
<1>1. TypeOK'
  <2>1. request' \in [Write -> Request]
    BY <1>r, ConstantsOK DEF IInv, TypeOK, PullSent, Request, GitHubFollows, Commit
  <2>2. worker' \in Worker
    BY <1>r DEF PullSent, Worker, PC
  <2>. QED
    BY <1>r, <2>1, <2>2 DEF IInv, TypeOK, PullSent, issueData, timeline
<1>2. RowsAreAccounted'
  BY <1>r DEF IInv, RowsAreAccounted, PullSent
<1>3. GitHubFollows'
  BY <1>r, ConstantsOK DEF IInv, GitHubFollows, PullSent, Commit
<1>4. HeadsAreCreated'
  BY <1>r DEF IInv, HeadsAreCreated, HeadIsCreated, MergeRecorded, PullSent, issueData,
         RowsAreAccounted
<1>5. OffersAreReviewed'
  BY <1>r DEF IInv, OffersAreReviewed, Passed, MergeRecorded, PullSent, issueData, timeline
<1>6. WorkerHolds'
  BY <1>r DEF IInv, WorkerHolds, Passed, IssuePC, PullSent, timeline, Worker
<1>7. ReportedMergesHappened'
  BY <1>r, ConstantsOK DEF IInv, ReportedMergesHappened, PullSent, Commit
<1>. QED
  BY <1>1, <1>2, <1>3, <1>4, <1>5, <1>6, <1>7 DEF FlowInv

\* The database fails before the claim.
LEMMA ClaimFailsStep ==
  ASSUME IInv, ClaimFails
  PROVE  FlowInv'
<1>n. NoneExecutes'
  BY OnlySendingExecutes DEF NoneExecutes, ClaimFails
<1>a. worker' \in Worker
  BY <1>n, ActionRaisesHolds DEF ClaimFails
<1>b. status' \in [Task -> TaskStatus]
  BY DEF IInv, TypeOK, ClaimFails, ActionRaises, Raises, Finish, TaskStatus
<1>1. TypeOK'
  BY <1>a, <1>b DEF IInv, TypeOK, ClaimFails, issueData, timeline, github
<1>2. /\ \A u \in Task : \/ status'[u] = status[u]
                        \/ /\ u = Issue \/ status[u] # "none"
                           /\ status'[u] \notin {"pr_created", "merged", "bot_merged"}
      /\ UNCHANGED timeline \/ status'[Issue] \notin {"pr_created", "merged"}
  BY DEF IInv, TypeOK, WorkerHolds, ClaimFails, ActionRaises, Raises, Finish, Task
<1>3. UNCHANGED <<row, request, pull, thread, linked, reviewed>>
  BY DEF ClaimFails, issueData, github
<1>6. WorkerHolds'
  BY <1>n, ActionRaisesHolds DEF ClaimFails
<1>. QED
  BY <1>1, <1>2, <1>3, <1>6, ModestStep

\* An answer completes the row of a request that is done.
LEMMA ActionReturnsStep ==
  ASSUME IInv, ActionReturns
  PROVE  FlowInv'
<1>1. TypeOK'
  BY ConstantsOK
     DEF IInv, TypeOK, ActionReturns, issueData, timeline, github, Write, Task, Commit,
         RowStatus, PC, Worker, WorkerHolds, IssuePC
<1>2. RowsAreAccounted'
  BY DEF IInv, RowsAreAccounted, ActionReturns, github
<1>3. GitHubFollows'
  BY DEF IInv, GitHubFollows, ActionReturns, github
<1>4. HeadsAreCreated'
  BY DEF IInv, HeadsAreCreated, HeadIsCreated, MergeRecorded, ActionReturns, issueData,
         github
<1>5. OffersAreReviewed'
  BY DEF IInv, OffersAreReviewed, Passed, MergeRecorded, ActionReturns, issueData,
         timeline, github
<1>6. WorkerHolds'
  BY DEF IInv, TypeOK, WorkerHolds, Passed, IssuePC, MergeRecorded, ActionReturns,
         timeline, github, Write
<1>7. ReportedMergesHappened'
  BY DEF IInv, ReportedMergesHappened, ActionReturns, github
<1>. QED
  BY <1>1, <1>2, <1>3, <1>4, <1>5, <1>6, <1>7 DEF FlowInv

\* Without an answer the row becomes unknown.
LEMMA ActionFailsStep ==
  ASSUME IInv, ActionFails
  PROVE  FlowInv'
<1>n. NoneExecutes'
  BY DEF IInv, TypeOK, WorkerHolds, NoneExecutes, ActionFails
<1>a. worker' \in Worker
  BY <1>n, ActionRaisesHolds DEF ActionFails
<1>b. status' \in [Task -> TaskStatus]
  BY DEF IInv, TypeOK, ActionFails, ActionRaises, Raises, Finish, TaskStatus
<1>1. TypeOK'
  BY <1>a, <1>b
     DEF IInv, TypeOK, ActionFails, issueData, timeline, github, Write, RowStatus,
         WorkerHolds
<1>2. RowsAreAccounted'
  BY DEF IInv, RowsAreAccounted, ActionFails, github, WorkerHolds
<1>3. GitHubFollows'
  BY DEF IInv, GitHubFollows, ActionFails, ActionRaises, Raises, github, WorkerHolds, Task
<1>4. HeadsAreCreated'
  BY DEF IInv, HeadsAreCreated, HeadIsCreated, MergeRecorded, ActionFails, issueData,
         github, WorkerHolds
<1>5. OffersAreReviewed'
  BY DEF IInv, OffersAreReviewed, Passed, HeadsAreCreated, HeadIsCreated, MergeRecorded,
         ActionFails, issueData, timeline, github, WorkerHolds
<1>6. WorkerHolds'
  BY <1>n, ActionRaisesHolds DEF ActionFails
<1>7. ReportedMergesHappened'
  BY DEF IInv, TypeOK, ReportedMergesHappened, ActionFails, ActionRaises, Raises, Finish,
         github
<1>. QED
  BY <1>1, <1>2, <1>3, <1>4, <1>5, <1>6, <1>7 DEF FlowInv

\* The issue task offers the head that was answered, for the patch that passed.
LEMMA RecordCreateStep ==
  ASSUME IInv, RecordCreate
  PROVE  FlowInv'
<1>a. worker' \in Worker
  BY ConstantsOK, IdleTyped
     DEF IInv, TypeOK, RecordCreate, Returns, Write, Task, Commit, PC, Worker, WorkerHolds,
         IssuePC, IdleWorker
<1>b. status' \in [Task -> TaskStatus]
  BY DEF IInv, TypeOK, RecordCreate, Returns, TaskStatus
<1>1. TypeOK'
  <2>1. request[Issue].head \in Commit \cup {None}
    BY DEF IInv, TypeOK, Request, Write
  <2>. QED
    BY <1>a, <1>b, <2>1 DEF IInv, TypeOK, RecordCreate, timeline, github
<1>2. RowsAreAccounted'
  BY DEF IInv, RowsAreAccounted, RecordCreate, github
<1>3. GitHubFollows'
  BY ConstantsOK DEF IInv, GitHubFollows, RecordCreate, Returns, github
<1>4. HeadsAreCreated'
  <2>1. request[Issue].state = "done"
    <3>1. worker.write = Issue /\ row[Issue].status = "completed"
      BY DEF IInv, WorkerHolds, RecordCreate
    <3>. QED
      BY <3>1 DEF IInv, RowsAreAccounted, Write
  <2>2. request[Issue].head # None
    BY <2>1, ConstantsOK DEF IInv, GitHubFollows, Commit
  <2>3. HeadIsCreated(linked, reviewed)'
    BY <2>1, <2>2 DEF HeadIsCreated, RecordCreate, github
  <2>. QED
    BY <2>3 DEF IInv, HeadsAreCreated, HeadIsCreated, MergeRecorded, RecordCreate, github
<1>5. OffersAreReviewed'
  BY DEF IInv, OffersAreReviewed, Passed, RecordCreate, timeline, github, WorkerHolds
<1>6. WorkerHolds'
  BY DEF IInv, WorkerHolds, RecordCreate, Returns
<1>7. ReportedMergesHappened'
  BY DEF IInv, ReportedMergesHappened, RecordCreate, Returns, github
<1>. QED
  BY <1>1, <1>2, <1>3, <1>4, <1>5, <1>6, <1>7 DEF FlowInv

\* The issue task is merged after its pull request is.
LEMMA RecordMergeStep ==
  ASSUME IInv, RecordMerge
  PROVE  FlowInv'
<1>1. TypeOK'
  BY ConstantsOK
     DEF IInv, TypeOK, RecordMerge, issueData, timeline, github, Write, Task, Commit,
         TaskStatus, RowStatus, PC, Worker, IdleWorker, WorkerHolds, IssuePC,
         GitHubFollows
<1>2. RowsAreAccounted'
  BY DEF IInv, RowsAreAccounted, RecordMerge, github
<1>3. GitHubFollows'
  BY DEF IInv, GitHubFollows, RecordMerge, github, WorkerHolds, Task
<1>a. MergeRecorded'
  <2>1. worker.write \in Commit /\ row[worker.write].status = "completed"
    BY DEF IInv, WorkerHolds, RecordMerge
  <2>2. pull.state = "merged" /\ pull.head = worker.write
    BY <2>1 DEF IInv, RowsAreAccounted, GitHubFollows, Write
  <2>. QED
    BY <2>1, <2>2 DEF MergeRecorded, RecordMerge, github
<1>4. HeadsAreCreated'
  BY <1>a DEF IInv, HeadsAreCreated, HeadIsCreated, RecordMerge, github
<1>5. OffersAreReviewed'
  BY <1>a DEF OffersAreReviewed
<1>6. WorkerHolds'
  BY DEF IInv, WorkerHolds, IssuePC, RowsAreAccounted, GitHubFollows, RecordMerge, github,
         Write, Task
<1>7. ReportedMergesHappened'
  BY DEF IInv, ReportedMergesHappened, RecordMerge, GitHubFollows, RowsAreAccounted,
         WorkerHolds, github, Write
<1>. QED
  BY <1>1, <1>2, <1>3, <1>4, <1>5, <1>6, <1>7 DEF FlowInv

\* The pull task is merged after its pull request is.
LEMMA RecordBotMergeStep ==
  ASSUME IInv, RecordBotMerge
  PROVE  FlowInv'
<1>n. NoneExecutes'
  BY OnlySendingExecutes DEF NoneExecutes, RecordBotMerge
<1>1. TypeOK'
  BY DEF IInv, TypeOK, RecordBotMerge, Finish, issueData, timeline, github, TaskStatus,
         PC, Worker, IdleWorker, WorkerHolds
<1>2. RowsAreAccounted'
  BY DEF IInv, RowsAreAccounted, RecordBotMerge, github
<1>3. GitHubFollows'
  BY DEF IInv, GitHubFollows, RecordBotMerge, github, WorkerHolds
<1>4. HeadsAreCreated'
  BY DEF IInv, HeadsAreCreated, HeadIsCreated, MergeRecorded, RecordBotMerge, issueData,
         github
<1>5. OffersAreReviewed'
  BY DEF IInv, OffersAreReviewed, Passed, MergeRecorded, RecordBotMerge, Finish,
         issueData, timeline, github
<1>6. WorkerHolds'
  BY <1>n, FinishHolds DEF RecordBotMerge
<1>7. ReportedMergesHappened'
  BY DEF IInv, ReportedMergesHappened, RecordBotMerge, WorkerHolds, github
<1>. QED
  BY <1>1, <1>2, <1>3, <1>4, <1>5, <1>6, <1>7 DEF FlowInv

\* A restart leaves no row executing and no task running.
LEMMA RestartStep ==
  ASSUME IInv, Restart
  PROVE  FlowInv'
<1>1. TypeOK'
  BY DEF IInv, TypeOK, Restart, NoThread, issueData, timeline, github, TaskStatus,
         RowStatus, PC, Worker, IdleWorker
<1>2. RowsAreAccounted'
  BY DEF IInv, RowsAreAccounted, Restart, github
<1>a. MergeRecorded => MergeRecorded'
  <2>1. pull' = pull
    BY DEF Restart, github
  <2>2. \A w \in Write : row[w].status = "completed" => row'[w].status = "completed"
    BY DEF IInv, TypeOK, Restart
  <2>. QED
    BY <2>1, <2>2, MergeStaysRecorded
<1>3. GitHubFollows'
  BY ConstantsOK DEF IInv, GitHubFollows, Restart, NoThread, github, Task
<1>4. HeadsAreCreated'
  BY <1>a DEF IInv, HeadsAreCreated, HeadIsCreated, Restart, NoThread, issueData, github
<1>5. OffersAreReviewed'
  BY <1>a DEF IInv, OffersAreReviewed, Passed, Restart, issueData, timeline, github, Task
<1>6. WorkerHolds'
  BY ConstantsOK DEF WorkerHolds, IssuePC, Restart, IdleWorker, Task
<1>7. ReportedMergesHappened'
  BY DEF IInv, ReportedMergesHappened, Restart, github
<1>. QED
  BY <1>1, <1>2, <1>3, <1>4, <1>5, <1>6, <1>7 DEF FlowInv

-----------------------------------------------------------------------------
\* Every initial state satisfies the invariant.
LEMMA InitInvariant == Init => IInv
<1> SUFFICES ASSUME Init PROVE IInv
  OBVIOUS
<1>1. TypeOK
  BY IdleTyped DEF Init, Request, TypeOK, TaskStatus, RowStatus, NoThread
<1>2. RowsAreAccounted /\ GitHubFollows
  BY ConstantsOK DEF Init, RowsAreAccounted, GitHubFollows, Write, Task, NoThread
<1>3. HeadsAreCreated /\ OffersAreReviewed
  BY DEF Init, HeadsAreCreated, HeadIsCreated, OffersAreReviewed, NoThread
<1>4. WorkerHolds
  BY ConstantsOK DEF Init, WorkerHolds, IdleWorker, IssuePC, Task
<1>5. ReportedMergesHappened
  BY DEF Init, ReportedMergesHappened
<1>6. MergesAreOurs
  BY DEF Init, MergesAreOurs, IdleWorker, Write
<1>. QED
  BY <1>1, <1>2, <1>3, <1>4, <1>5, <1>6 DEF IInv

\* The worker's steps preserve the invariant.
LEMMA WorkerStepInvariant ==
  ASSUME IInv, WorkerStep
  PROVE  FlowInv'
BY LeaveTriageStep, SandboxCreatedStep, WorkerCompletedStep, TestsCompletedStep,
   CodeReviewCompletedStep, FixFailsStep, SandboxDestroyedStep, SandboxDestroyFailsStep,
   PullContextStep, PullContextFailsStep, ReserveStep, RefuseActionStep, ReuseCreateStep,
   ReuseMergeStep, ClaimAndSendStep, ClaimFailsStep, PullFoundStep, BranchSentStep, PullSentStep,
   ActionReturnsStep, ActionFailsStep,
   RecordCreateStep, RecordMergeStep, RecordBotMergeStep
   DEF WorkerStep

\* A step that changes nothing preserves the invariant.
LEMMA StutterInvariant ==
  ASSUME IInv, UNCHANGED vars
  PROVE  FlowInv'
BY DEF IInv, FlowInv, TypeOK, RowsAreAccounted, GitHubFollows, HeadsAreCreated, HeadIsCreated,
       MergeRecorded, OffersAreReviewed, Passed, WorkerHolds, ReportedMergesHappened,
       vars, issueData, timeline, github

\* Rows and requests change in these steps only.
LEMMA OnlyWritesWrite ==
  ASSUME [Next]_vars
  PROVE  \/ UNCHANGED <<row, request>>
         \/ BranchLands \/ CreateLands \/ (\E g \in Commit : MergeLands(g))
         \/ (\E w \in Write : RequestLost(w))
         \/ Reserve \/ ClaimAndSend \/ PullFound \/ BranchSent \/ PullSent
         \/ ActionReturns \/ ActionFails \/ Restart
<1>1. CASE WorkerStep
  BY <1>1
     DEF WorkerStep, LeaveTriage, SandboxCreated, WorkerCompleted, TestsCompleted,
         CodeReviewCompleted, FixFails, SandboxDestroyed, SandboxDestroyFails, PullContext,
         PullContextFails, RefuseAction, ReuseCreate, ReuseMerge, ClaimFails, RecordCreate,
         RecordMerge, RecordBotMerge, github
<1>2. CASE \/ PullMoves \/ SetAutoMerge \/ Comment \/ UNCHANGED vars
           \/ \E t \in PullTask : Webhook(t)
           \/ \E x \in Thread, t \in Task : CheckRequeue(x, t)
           \/ \E x \in Thread : Requeue(x)
           \/ \E t \in Task : Process(t)
  BY <1>2 DEF PullMoves, SetAutoMerge, Comment, Webhook, CheckRequeue, Requeue, Process,
              vars, github
<1>. QED
  BY <1>1, <1>2 DEF Next

\* A step that sends a request is the claim of the row by the worker.
LEMMA OnlyClaimsSend ==
  ASSUME IInv, [Next]_vars, NEW h \in Commit, request'[h].sent > request[h].sent
  PROVE  ClaimAndSend /\ worker.write = h
<1>1. request \in [Write -> Request] /\ h \in Write /\ h # Issue /\ request[h].sent \in Nat
  BY ConstantsOK DEF IInv, TypeOK, Write, Request
<1>2. request'[h].sent # request[h].sent
  BY <1>1
<1>3. CASE UNCHANGED <<row, request>>
  BY <1>2, <1>3
<1>4. CASE \/ BranchLands \/ CreateLands \/ (\E g \in Commit : MergeLands(g))
           \/ (\E w \in Write : RequestLost(w)) \/ PullFound \/ BranchSent \/ PullSent
  <2>1. request'[h].sent = request[h].sent
    BY <1>1, <1>4
       DEF BranchLands, CreateLands, MergeLands, RequestLost, PullFound, BranchSent, PullSent,
           Request
  <2>. QED
    BY <1>2, <2>1
     DEF BranchLands, CreateLands, MergeLands, RequestLost, PullFound, BranchSent, PullSent
<1>5. CASE Reserve \/ ActionReturns \/ ActionFails \/ Restart
  BY <1>2, <1>5 DEF Reserve, ActionReturns, ActionFails, Restart, github
<1>6. CASE ClaimAndSend
  BY <1>1, <1>2, <1>6 DEF ClaimAndSend
<1>. QED
  BY <1>3, <1>4, <1>5, <1>6, OnlyWritesWrite

\* The worker's write is chosen when the merge is decided, and kept.
Merging == worker.pc \in Acting /\ worker.task # Issue
LEMMA MergingBegins ==
  ASSUME IInv, [Next]_vars, Merging'
  PROVE  \/ Merging /\ worker'.write = worker.write
         \/ /\ worker.pc = "context" /\ MayMerge(pull.head)
            /\ worker'.write = pull.head
<1>a. worker'.pc \in Acting /\ worker'.task # Issue
  BY DEF Merging
<1>0. worker \in Worker /\ TypeOK
  BY DEF IInv, TypeOK
<1>b. IdleWorker \in Worker /\ IdleWorker.pc = "idle"
  BY IdleTyped DEF IdleWorker
<1>1. CASE worker' = worker
  BY <1>1 DEF Merging
<1>2. CASE Restart \/ \E t \in Task : Process(t)
  <2>1. worker'.pc \in {"idle", "triage", "context"}
    BY <1>b, <1>2 DEF Restart, Process, Worker
  <2>. QED
    BY <1>a, <2>1
<1>3. CASE CodeReviewCompleted
  <2>1. worker.task = Issue
    BY <1>3 DEF IInv, WorkerHolds, IssuePC, CodeReviewCompleted
  <2>. QED
    BY <1>0, <1>a, <1>3, <2>1 DEF CodeReviewCompleted, NextRound, Returns, IdleWorker, Worker
<1>4. CASE \/ LeaveTriage \/ SandboxCreated \/ WorkerCompleted \/ TestsCompleted \/ FixFails
           \/ SandboxDestroyed \/ SandboxDestroyFails \/ PullContextFails
  <2>1. worker'.pc \in {"idle", "working", "testing", "reviewing", "destroying"}
    BY <1>0, <1>b, <1>4
       DEF LeaveTriage, SandboxCreated, WorkerCompleted, TestsCompleted, FixFails,
           SandboxDestroyed, SandboxDestroyFails, PullContextFails, Finish, Raises, Returns,
           NextRound, Worker
  <2>. QED
    BY <1>a, <2>1
<1>5. CASE PullContext
  <2>1. Finish("bot_merge_deferred") => worker'.pc = "idle"
    BY DEF Finish, IdleWorker
  <2>. QED
    BY <1>0, <1>a, <1>5, <2>1 DEF PullContext, Worker
<1>6. CASE RefuseAction \/ ReuseCreate \/ ClaimFails \/ ActionFails \/ RecordCreate
           \/ RecordMerge \/ RecordBotMerge
  <2>1. worker'.pc \in {"idle", "destroying", "closing"}
    BY <1>0, <1>b, <1>6
       DEF RefuseAction, ReuseCreate, ClaimFails, ActionFails, RecordCreate, RecordMerge,
           RecordBotMerge, ActionRaises, Finish, Raises, Returns, Worker
  <2>. QED
    BY <1>a, <2>1
<1>7. CASE Reserve \/ ReuseMerge \/ ClaimAndSend \/ ActionReturns
  BY <1>0, <1>a, <1>7 DEF Merging, Reserve, ReuseMerge, ClaimAndSend, ActionReturns, Worker
<1>9. CASE PullFound \/ BranchSent \/ PullSent
  <2>1. worker.task = Issue /\ worker'.task = worker.task
    BY <1>0, <1>9 DEF IInv, WorkerHolds, PullFound, BranchSent, PullSent, Worker
  <2>. QED
    BY <1>a, <2>1
<1>8. CASE \/ BranchLands \/ CreateLands \/ (\E h \in Commit : MergeLands(h))
           \/ PullMoves \/ SetAutoMerge
           \/ (\E w \in Write : RequestLost(w)) \/ (\E t \in PullTask : Webhook(t)) \/ Comment
           \/ (\E x \in Thread, t \in Task : CheckRequeue(x, t))
           \/ (\E x \in Thread : Requeue(x)) \/ UNCHANGED vars
  <2>1. worker' = worker
    BY <1>8 DEF BranchLands, CreateLands, MergeLands, PullMoves, SetAutoMerge, RequestLost, Webhook,
       Comment, CheckRequeue, Requeue, vars
  <2>. QED
    BY <1>1, <2>1
<1>. QED
  BY <1>2, <1>3, <1>4, <1>5, <1>6, <1>7, <1>8, <1>9 DEF Next, WorkerStep

\* A completed fix_pr row and the head that was answered under it never change.
LEMMA OursStays ==
  ASSUME IInv, [Next]_vars, NEW h, HeadIsOurs(h)
  PROVE  HeadIsOurs(h)'
<1>1. /\ row[Issue].status = "completed" /\ Issue \in Write
      /\ row \in [Write -> [status: RowStatus, patch: Patch \cup {None}]]
      /\ request \in [Write -> Request] /\ request[Issue].state = "done"
  BY DEF HeadIsOurs, Write, IInv, TypeOK, RowsAreAccounted
<1>2. CASE UNCHANGED <<row, request>>
  BY <1>2 DEF HeadIsOurs
<1>3. CASE BranchLands \/ CreateLands \/ (\E g \in Commit : MergeLands(g))
           \/ (\E w \in Write : RequestLost(w))
  <2>1. request'[Issue].head = request[Issue].head /\ row' = row
    BY <1>1, <1>3 DEF BranchLands, CreateLands, MergeLands, RequestLost
  <2>. QED
    BY <2>1 DEF HeadIsOurs
<1>4. CASE Reserve
  BY <1>1, <1>4 DEF HeadIsOurs, Reserve, github
<1>a. CASE PullFound \/ BranchSent \/ PullSent
  BY <1>1, <1>a DEF IInv, WorkerHolds, PullFound, BranchSent, PullSent
<1>5. CASE ClaimAndSend \/ ActionReturns \/ ActionFails
  <2>1. worker.write # Issue
    BY <1>1, <1>5 DEF IInv, WorkerHolds, ClaimAndSend, ActionReturns, ActionFails
  <2>2. row'[Issue] = row[Issue] /\ request'[Issue] = request[Issue]
    BY <1>1, <1>5, <2>1 DEF ClaimAndSend, ActionReturns, ActionFails, github
  <2>. QED
    BY <2>2 DEF HeadIsOurs
<1>6. CASE Restart
  BY <1>1, <1>6 DEF HeadIsOurs, Restart, github
<1>. QED
  BY <1>2, <1>3, <1>4, <1>5, <1>6, <1>a, OnlyWritesWrite

\* The decision to merge names the head answered, its row is completed, and the
\* row's patch is not sensitive.
LEMMA DecidedIsOurs ==
  ASSUME IInv, worker.pc = "context", MayMerge(pull.head)
  PROVE  HeadIsOurs(pull.head)
<1>1. CASE MergeRecorded
  <2>1. pull.head \in Commit
    BY <1>1 DEF IInv, TypeOK, GitHubFollows, MergeRecorded
  <2>2. request[pull.head].sent > 0
    BY <1>1, <2>1 DEF IInv, RowsAreAccounted, MergeRecorded, Write
  <2>. QED
    BY <2>1, <2>2 DEF IInv, MergesAreOurs
<1>2. CASE ~MergeRecorded
  <2>1. reviewed # None /\ reviewed = request[Issue].head
    BY <1>2 DEF IInv, MayMerge, HeadsAreCreated, HeadIsCreated
  <2>2. reviewed = pull.head
    BY <2>1 DEF MayMerge, HeadReviewed
  <2>. QED
    BY <2>1, <2>2 DEF MayMerge, HeadIsOurs
<1>. QED
  BY <1>1, <1>2

\* Every step keeps the requests to merge to the head that was answered.
LEMMA MergesStep ==
  ASSUME IInv, [Next]_vars
  PROVE  MergesAreOurs'
<1>1. ASSUME NEW h \in Commit, request'[h].sent > 0 PROVE HeadIsOurs(h)'
  <2>1. CASE request[h].sent > 0
    BY <2>1, OursStays DEF IInv, MergesAreOurs
  <2>2. CASE ~(request[h].sent > 0)
    <3>1. request'[h].sent > request[h].sent
      <4>1. TypeOK
        BY DEF IInv
      <4>2. request[h].sent \in Nat
        BY <4>1 DEF TypeOK, Write, Request
      <4>. QED
        BY <1>1, <2>2, <4>2
    <3>2. ClaimAndSend /\ worker.write = h
      BY <3>1, OnlyClaimsSend
    <3>3. worker.task # Issue
      BY <3>2, ConstantsOK DEF IInv, WorkerHolds, ClaimAndSend
    <3>4. HeadIsOurs(h)
      BY <3>2, <3>3 DEF IInv, MergesAreOurs, ClaimAndSend
    <3>. QED
      BY <3>4, OursStays
  <2>. QED
    BY <2>1, <2>2
<1>2. ASSUME Merging' PROVE HeadIsOurs(worker.write)'
  <2>1. CASE Merging /\ worker'.write = worker.write
    <3>1. HeadIsOurs(worker.write)
      BY <2>1 DEF IInv, MergesAreOurs, Merging
    <3>. QED
      BY <2>1, <3>1, OursStays DEF HeadIsOurs
  <2>2. CASE /\ worker.pc = "context" /\ MayMerge(pull.head)
             /\ worker'.write = pull.head
    <3>1. PICK h : h = pull.head
      OBVIOUS
    <3>2. HeadIsOurs(h)'
      BY <2>2, <3>1, DecidedIsOurs, OursStays
    <3>. QED
      BY <2>2, <3>1, <3>2 DEF HeadIsOurs
  <2>. QED
    BY <1>2, <2>1, <2>2, MergingBegins
<1>. QED
  BY <1>1, <1>2 DEF MergesAreOurs, Merging

\* Every step preserves the rest of the invariant.
LEMMA FlowStep ==
  ASSUME IInv, [Next]_vars
  PROVE  FlowInv'
<1>1. CASE BranchLands \/ CreateLands
  BY <1>1, BranchLandsStep, CreateLandsStep
<1>2. CASE \E h \in Commit : MergeLands(h)
  BY <1>2, MergeLandsStep
<1>3. CASE \E w \in Write : RequestLost(w)
  BY <1>3, RequestLostStep
<1>4. CASE PullMoves \/ SetAutoMerge
  BY <1>4, PullMovesStep, SetAutoMergeStep
<1>5. CASE \E t \in PullTask : Webhook(t)
  BY <1>5, WebhookStep
<1>6. CASE Comment
  BY <1>6, CommentStep
<1>7. CASE \E x \in Thread, t \in Task : CheckRequeue(x, t)
  BY <1>7, CheckRequeueStep
<1>8. CASE \E x \in Thread : Requeue(x)
  BY <1>8, RequeueStep
<1>9. CASE \E t \in Task : Process(t)
  BY <1>9, ProcessStep
<1>10. CASE WorkerStep
  BY <1>10, WorkerStepInvariant
<1>11. CASE Restart
  BY <1>11, RestartStep
<1>12. CASE UNCHANGED vars
  BY <1>12, StutterInvariant
<1>. QED
  BY <1>1, <1>2, <1>3, <1>4, <1>5, <1>6, <1>7, <1>8, <1>9, <1>10, <1>11, <1>12 DEF Next

\* Every step preserves the invariant.
LEMMA NextInvariant == IInv /\ [Next]_vars => IInv'
BY FlowStep, MergesStep DEF FlowInv, IInv

\* The inductive invariant holds in every reachable state.
THEOREM Invariance == Spec => []IInv
BY InitInvariant, NextInvariant, PTL DEF Spec

\* Tasks, rows, requests, worker and threads keep to the values the code gives
\* them, the two rounds of worker and reviewer included.
THEOREM TypeCorrect == Spec => []TypeOK
<1>1. IInv => TypeOK
  BY DEF IInv
<1>. QED
  BY <1>1, Invariance, PTL

\* One fix pull request per task and one merge per head leave the service at
\* most once, through every retry, decision and restart.
THEOREM WritesSentOnce == Spec => []SentOnce
<1>1. IInv => SentOnce
  BY DEF IInv, RowsAreAccounted, SentOnce
<1>. QED
  BY <1>1, Invariance, PTL

\* A task reports a merge only when GitHub made one on the service's request.
THEOREM MergesHappened == Spec => []ReportedMergesHappened
<1>1. IInv => ReportedMergesHappened
  BY DEF IInv
<1>. QED
  BY <1>1, Invariance, PTL

\* A reserved write that is not the issue's is a merge of the head answered, for
\* the patch that passed.
LEMMA HeldWritesPassed ==
  ASSUME IInv, worker.pc = "reserved", worker.write # Issue
  PROVE  /\ Passed(request[Issue].patch)
         /\ request[Issue].state = "done" /\ request[Issue].head = worker.write
BY DEF IInv, WorkerHolds, MergeRecorded

\* The service asks GitHub for no merge but that of the head it was answered with
\* when it created the pull request: what others push to the branch after the answer
\* is never merged by it.
THEOREM OwnMergesOnly == Spec => []OnlyCreatedMerged
<1>1. IInv => OnlyCreatedMerged
  BY DEF IInv, MergesAreOurs, HeadIsOurs, OnlyCreatedMerged
<1>. QED
  BY <1>1, Invariance, PTL

\* A sensitive commit is merged only past a fix_pr row that names the paths of
\* another commit: a pending row that reserve took over, or an answered head that is
\* not the worker's.
THEOREM SensitiveOnlyPastStaleRow == Spec => []SensitiveNeedsStaleRow
<1>1. IInv => SensitiveNeedsStaleRow
  BY ConstantsOK DEF IInv, MergesAreOurs, HeadIsOurs, SensitiveNeedsStaleRow, Commit
<1>. QED
  BY <1>1, Invariance, PTL

\* A merge is asked for only while tests and reviewer passed last the patch that the
\* pull request was created for, and only of the head the creation was answered with.
THEOREM OnlyReviewedMerged == Spec => MergedAsReviewed
<1>1. ASSUME IInv, [Next]_vars, NEW h \in Commit, request'[h].sent > request[h].sent
      PROVE  /\ Passed(request[Issue].patch) /\ h = request[Issue].head
             /\ h \in Pushed \cup {request[Issue].patch}
  <2>1. ClaimAndSend /\ worker.write = h
    BY <1>1, OnlyClaimsSend
  <2>2. worker.pc = "reserved" /\ h # Issue
    BY <2>1, ConstantsOK DEF ClaimAndSend
  <2>3. /\ Passed(request[Issue].patch)
        /\ request[Issue].state = "done" /\ request[Issue].head = h
    BY <1>1, <2>1, <2>2, HeldWritesPassed
  <2>. QED
    BY <1>1, <2>3 DEF IInv, GitHubFollows
<1>2. IInv /\ [Next]_vars =>
        [\A h \in Commit : request'[h].sent > request[h].sent =>
            /\ tests = "passed" /\ review.approved
            /\ review.patch = request[Issue].patch
            /\ h = request[Issue].head
            /\ h \in Pushed \cup {review.patch}]_vars
  BY <1>1 DEF Passed
<1>. QED
  BY <1>2, Invariance, PTL DEF Spec, MergedAsReviewed

(***************************************************************************)
(* The rank of an attempt.                                                 *)
(***************************************************************************)

\* The steps that are left, place by place.
LEMMA RankValues ==
  ASSUME worker.pc \in PC, worker.round \in 1..2
  PROVE  /\ Rank \in 0..14
         /\ Rank = 0 <=> worker.pc = "idle"
         /\ worker.pc = "destroying" => Rank = 1
         /\ worker.pc = "closing" => Rank = 1
         /\ worker.pc = "recording" => Rank = 2
         /\ worker.pc = "sending" => Rank = 3
         /\ worker.pc = "branching" => Rank = 4
         /\ worker.pc = "looking" => Rank = 5
         /\ worker.pc = "reserved" => Rank = 6
         /\ worker.pc = "acting" => Rank = 7
         /\ worker.pc = "context" => Rank = 8
         /\ worker.pc = "reviewing" => Rank = IF worker.round = 1 THEN 11 ELSE 8
         /\ worker.pc = "testing" => Rank = IF worker.round = 1 THEN 12 ELSE 9
         /\ worker.pc = "working" => Rank = IF worker.round = 1 THEN 13 ELSE 10
         /\ worker.pc = "triage" => Rank = 14
BY DEF Rank, PC

\* The same for the next state.
LEMMA RankValuesNext ==
  ASSUME worker'.pc \in PC, worker'.round \in 1..2
  PROVE  /\ Rank' \in 0..14
         /\ Rank' = 0 <=> worker'.pc = "idle"
         /\ worker'.pc = "destroying" => Rank' = 1
         /\ worker'.pc = "closing" => Rank' = 1
         /\ worker'.pc = "recording" => Rank' = 2
         /\ worker'.pc = "sending" => Rank' = 3
         /\ worker'.pc = "branching" => Rank' = 4
         /\ worker'.pc = "looking" => Rank' = 5
         /\ worker'.pc = "reserved" => Rank' = 6
         /\ worker'.pc = "acting" => Rank' = 7
         /\ worker'.pc = "context" => Rank' = 8
         /\ worker'.pc = "reviewing" => Rank' = IF worker'.round = 1 THEN 11 ELSE 8
         /\ worker'.pc = "testing" => Rank' = IF worker'.round = 1 THEN 12 ELSE 9
         /\ worker'.pc = "working" => Rank' = IF worker'.round = 1 THEN 13 ELSE 10
         /\ worker'.pc = "triage" => Rank' = 14
BY DEF Rank, PC

\* The worker's place and round are always among the known ones.
LEMMA PlaceTyped ==
  ASSUME IInv
  PROVE  worker \in Worker /\ worker.pc \in PC /\ worker.round \in 1..2
BY DEF IInv, TypeOK, Worker

\* Leaving the fix loop or ending the task is nearer to the end than any place
\* before it.
LEMMA LeavingDescends ==
  ASSUME IInv, IInv', worker.pc \notin {"idle", "destroying", "closing"},
         \/ \E s \in TaskStatus : Returns(s) \/ Finish(s)
         \/ Raises \/ ActionRaises
  PROVE  Rank' < Rank
<1>1. worker'.pc \in {"idle", "destroying"}
  <2>1. CASE Raises \/ \E s \in TaskStatus : Returns(s)
    BY <2>1 DEF Raises, Returns, IdleWorker
  <2>2. CASE \E s \in TaskStatus : Finish(s)
    BY <2>2 DEF Finish, IdleWorker
  <2>3. ActionRaises => Raises \/ \E s \in TaskStatus : Finish(s)
    BY DEF ActionRaises, TaskStatus
  <2>. QED
    BY <2>1, <2>2, <2>3
<1>2. /\ worker.pc \in PC /\ worker.round \in 1..2
      /\ worker'.pc \in PC /\ worker'.round \in 1..2
  BY PlaceTyped DEF IInv, TypeOK, Worker
<1>3. Rank' <= 1
  BY <1>1, <1>2, RankValuesNext
<1>4. Rank >= 2
  BY <1>2, RankValues DEF PC
<1>. QED
  BY <1>2, <1>3, <1>4, RankValues, RankValuesNext

\* Another round of the loop is the second one.
LEMMA RoundDescends ==
  ASSUME IInv, IInv', worker.pc \in {"testing", "reviewing"}, NextRound
  PROVE  Rank' < Rank
<1>1. /\ worker \in Worker /\ worker.pc \in PC /\ worker.round \in 1..2
      /\ worker'.pc \in PC /\ worker'.round \in 1..2
  BY PlaceTyped DEF IInv, TypeOK, Worker
<1>2. CASE worker.round = 1 /\ worker'.pc = "working" /\ worker'.round = 2
  BY <1>1, <1>2, RankValues, RankValuesNext
<1>3. CASE Returns("failed")
  BY <1>3, LeavingDescends DEF TaskStatus
<1>. QED
  BY <1>1, <1>2, <1>3 DEF NextRound, Worker

\* Every step of the worker brings its attempt nearer to its end.
LEMMA WorkerStepDescends ==
  ASSUME IInv, IInv', WorkerStep
  PROVE  Rank' < Rank
<1>1. /\ worker \in Worker /\ worker.pc \in PC /\ worker.round \in 1..2
      /\ worker'.pc \in PC /\ worker'.round \in 1..2
  BY PlaceTyped DEF IInv, TypeOK, Worker
<1>2. CASE LeaveTriage \/ PullContextFails \/ FixFails \/ RefuseAction \/ ClaimFails
           \/ ActionFails \/ ReuseCreate \/ RecordCreate
  BY <1>2, LeavingDescends
     DEF LeaveTriage, PullContextFails, FixFails, RefuseAction, ClaimFails, ActionFails,
         ReuseCreate, RecordCreate, TaskStatus
<1>3. CASE SandboxDestroyed \/ SandboxDestroyFails \/ RecordBotMerge
  <2>1. worker.pc # "idle" /\ worker'.pc = "idle"
    BY <1>3 DEF SandboxDestroyed, SandboxDestroyFails, RecordBotMerge, Finish, IdleWorker
  <2>. QED
    BY <1>1, <2>1, RankValues, RankValuesNext
<1>4. CASE SandboxCreated \/ WorkerCompleted
  <2>1. /\ worker'.round = worker.round
        /\ \/ worker.pc = "triage" /\ worker'.pc = "working"
           \/ worker.pc = "working" /\ worker'.pc = "testing"
    BY <1>1, <1>4 DEF SandboxCreated, WorkerCompleted, Worker
  <2>. QED
    BY <1>1, <2>1, RankValues, RankValuesNext
<1>5. CASE TestsCompleted
  <2>1. CASE worker'.pc = "reviewing" /\ worker'.round = worker.round
    BY <1>1, <1>5, <2>1, RankValues, RankValuesNext DEF TestsCompleted
  <2>2. CASE NextRound
    BY <1>5, <2>2, RoundDescends DEF TestsCompleted
  <2>3. CASE Raises \/ \E s \in {"stopped", "waiting_for_owner"} : Returns(s)
    BY <1>5, <2>3, LeavingDescends DEF TestsCompleted, TaskStatus
  <2>. QED
    BY <1>1, <1>5, <2>1, <2>2, <2>3 DEF TestsCompleted, Worker
<1>6. CASE CodeReviewCompleted
  <2>1. CASE worker'.pc = "acting"
    BY <1>1, <1>6, <2>1, RankValues, RankValuesNext DEF CodeReviewCompleted
  <2>2. CASE NextRound
    BY <1>6, <2>2, RoundDescends DEF CodeReviewCompleted
  <2>3. CASE Returns("waiting_for_owner")
    BY <1>6, <2>3, LeavingDescends DEF CodeReviewCompleted, TaskStatus
  <2>. QED
    BY <1>1, <1>6, <2>1, <2>2, <2>3 DEF CodeReviewCompleted, Worker
<1>7. CASE PullContext
  <2>1. CASE worker'.pc = "acting"
    BY <1>1, <1>7, <2>1, RankValues, RankValuesNext DEF PullContext
  <2>2. CASE Finish("bot_merge_deferred")
    BY <1>7, <2>2, LeavingDescends DEF PullContext, TaskStatus
  <2>. QED
    BY <1>1, <1>7, <2>1, <2>2 DEF PullContext, Worker
<1>8. CASE \/ Reserve \/ ReuseMerge \/ ClaimAndSend \/ PullFound \/ BranchSent \/ PullSent
           \/ ActionReturns \/ RecordMerge
  <2>1. \/ worker.pc = "acting" /\ worker'.pc \in {"reserved", "recording"}
        \/ worker.pc = "reserved" /\ worker'.pc \in {"looking", "sending"}
        \/ worker.pc = "looking" /\ worker'.pc \in {"branching", "sending"}
        \/ worker.pc = "branching" /\ worker'.pc = "sending"
        \/ worker.pc = "sending" /\ worker'.pc = "recording"
        \/ worker.pc = "recording" /\ worker'.pc = "closing"
    BY <1>1, <1>8 DEF Reserve, ReuseMerge, ClaimAndSend, PullFound, BranchSent, PullSent,
                      ActionReturns, RecordMerge, Worker
  <2>. QED
    BY <1>1, <2>1, RankValues, RankValuesNext
<1>. QED
  BY <1>2, <1>3, <1>4, <1>5, <1>6, <1>7, <1>8 DEF WorkerStep

\* An attempt runs down: the loop of worker, tests and reviewer goes round twice at
\* most (fix_issue), and no webhook, request or push sends it back.
THEOREM AttemptsEnd == Spec => AttemptsDescend
<1>1. ASSUME IInv, IInv', [Next]_vars, worker.pc # "idle"
      PROVE  Rank' <= Rank
  <2>1. /\ worker.pc \in PC /\ worker.round \in 1..2
        /\ worker'.pc \in PC /\ worker'.round \in 1..2
    BY <1>1, PlaceTyped DEF IInv, TypeOK, Worker
  <2>2. CASE WorkerStep
    BY <1>1, <2>1, <2>2, WorkerStepDescends, RankValues, RankValuesNext
  <2>3. CASE worker'.pc = "idle"
    BY <2>1, <2>3, RankValues, RankValuesNext
  <2>4. CASE worker' = worker
    BY <2>1, <2>4, RankValues DEF Rank
  <2>5. worker' = worker \/ WorkerStep \/ Restart
    BY <1>1
       DEF Next, BranchLands, CreateLands, MergeLands, RequestLost, PullMoves, SetAutoMerge, Webhook,
           Comment, CheckRequeue, Requeue, Process, vars
  <2>. QED
    BY <2>2, <2>3, <2>4, <2>5 DEF Restart, IdleWorker
<1>2. IInv /\ IInv' /\ [Next]_vars =>
        [/\ WorkerStep => Rank' < Rank
         /\ worker.pc # "idle" => Rank' <= Rank]_vars
  BY <1>1, WorkerStepDescends
<1>. QED
  BY <1>2, Invariance, PTL DEF Spec, AttemptsDescend

(***************************************************************************)
(* FixFlow implements GitHubWrite: one lemma per action that changes a row *)
(* or a request.  Every other action leaves the mapped variables alone.    *)
(***************************************************************************)
\* A step that changes no status of a row and no request is a stutter.
LEMMA SamePromise ==
  ASSUME request' = request, \A w \in Write : PhaseOf[row'[w].status] = PhaseOf[row[w].status]
  PROVE  UNCHANGED Promise!vars
BY DEF Promise!vars, phaseBar, sentBar, publishedBar

\* A step that gives one row a new status changes one abstract phase.
LEMMA OnePhase ==
  ASSUME IInv, NEW w \in Write, NEW status_ \in RowStatus,
         row' = [row EXCEPT ![w].status = status_]
  PROVE  phaseBar' = [phaseBar EXCEPT ![w] = PhaseOf[status_]]
<1>1. \A v \in Write : row'[v].status = IF v = w THEN status_ ELSE row[v].status
  BY DEF IInv, TypeOK
<1>2. \A v \in Write : phaseBar'[v] = IF v = w THEN PhaseOf[status_] ELSE phaseBar[v]
  BY <1>1 DEF phaseBar
<1>. QED
  BY <1>2 DEF phaseBar

\* The pull request is created, or a merge is made.
LEMMA LandsRefines ==
  ASSUME IInv, NEW w \in Write, request[w].state # "unsent", row' = row, NEW h,
         \/ request' = [request EXCEPT ![w].state = "done"]
         \/ request' = [request EXCEPT ![w].state = "done", ![w].head = h]
  PROVE  Promise!Publish(w)
<1>1. /\ \A v \in Write : /\ request'[v].sent = request[v].sent
                          /\ request'[v].state = IF v = w THEN "done" ELSE request[v].state
      /\ request[w].sent \in Nat
  BY DEF IInv, TypeOK, Request
<1>2. request[w].sent > 0
  BY <1>1 DEF IInv, RowsAreAccounted
<1>. QED
  BY <1>1, <1>2 DEF Promise!Publish, phaseBar, sentBar, publishedBar

\* A lost request is not seen by the abstraction, its outcome is in doubt anyway;
\* nor are the requests on the way to the pull request.
LEMMA OnTheWayRefines ==
  ASSUME IInv,
         (\E w \in Write : RequestLost(w)) \/ BranchLands \/ BranchSent \/ PullSent
  PROVE  UNCHANGED Promise!vars
<1>1. \A v \in Write : /\ request'[v].sent = request[v].sent
                       /\ request'[v].state = "done" <=> request[v].state = "done"
  <2>1. BranchSent => request[Issue].state = "lookup"
    BY DEF IInv, WorkerHolds, BranchSent
  <2>. QED
    BY <2>1 DEF IInv, TypeOK, Request, Write, RequestLost, BranchLands, BranchSent, PullSent
<1>. QED
  BY <1>1 DEF Promise!vars, phaseBar, sentBar, publishedBar, RequestLost, BranchLands,
              BranchSent, PullSent

\* A reservation leaves the write open.
LEMMA ReserveRefines ==
  ASSUME IInv, Reserve
  PROVE  UNCHANGED Promise!vars
<1>1. \A w \in Write : PhaseOf[row'[w].status] = PhaseOf[row[w].status]
  BY DEF IInv, TypeOK, Reserve, PhaseOf
<1>. QED
  BY <1>1, SamePromise DEF Reserve, github

\* The claim of a pending row is the write.
LEMMA ClaimAndSendRefines ==
  ASSUME IInv, ClaimAndSend
  PROVE  Promise!Write(worker.write)
<1>1. worker.write \in Write /\ row[worker.write].status = "pending"
  BY DEF IInv, WorkerHolds, ClaimAndSend, Write
<1>2. request[worker.write].sent = 0 /\ request[worker.write].state = "unsent"
  BY <1>1 DEF IInv, RowsAreAccounted
<1>3. \A v \in Write :
         /\ request'[v].sent = IF v = worker.write THEN request[v].sent + 1
                               ELSE request[v].sent
         /\ request'[v].state = "done" <=> request[v].state = "done"
  BY <1>2 DEF IInv, TypeOK, ClaimAndSend
<1>4. phaseBar' = [phaseBar EXCEPT ![worker.write] = "writing"]
  <2>1. "executing" \in RowStatus /\ PhaseOf["executing"] = "writing"
    BY DEF RowStatus, PhaseOf
  <2>. QED
    BY <1>1, <2>1, OnePhase DEF ClaimAndSend
<1>5. sentBar' = [sentBar EXCEPT ![worker.write] = @ + 1] /\ publishedBar' = publishedBar
  BY <1>1, <1>3 DEF sentBar, publishedBar
<1>6. phaseBar[worker.write] = "open" /\ sentBar[worker.write] = 0
  BY <1>1, <1>2 DEF phaseBar, sentBar, PhaseOf
<1>. QED
  BY <1>4, <1>5, <1>6 DEF Promise!Write

\* An answer is seen only after GitHub has carried the write out.
LEMMA ActionReturnsRefines ==
  ASSUME IInv, ActionReturns
  PROVE  Promise!Answer(worker.write)
<1>1. worker.write \in Write /\ row[worker.write].status = "executing"
  BY DEF IInv, WorkerHolds, ActionReturns, Write
<1>2. phaseBar' = [phaseBar EXCEPT ![worker.write] = "done"]
  <2>1. "completed" \in RowStatus /\ PhaseOf["completed"] = "done"
    BY DEF RowStatus, PhaseOf
  <2>. QED
    BY <1>1, <2>1, OnePhase DEF ActionReturns
<1>3. phaseBar[worker.write] = "writing" /\ worker.write \in publishedBar
  BY <1>1 DEF phaseBar, publishedBar, ActionReturns, PhaseOf
<1>. QED
  BY <1>2, <1>3 DEF Promise!Answer, ActionReturns, github, sentBar, publishedBar

\* Without an answer the write is in doubt.
LEMMA ActionFailsRefines ==
  ASSUME IInv, ActionFails
  PROVE  Promise!LoseTrack(worker.write)
<1>1. worker.write \in Write /\ row[worker.write].status = "executing"
  BY DEF IInv, WorkerHolds, ActionFails, Write
<1>2. phaseBar' = [phaseBar EXCEPT ![worker.write] = "doubt"]
  <2>1. "unknown" \in RowStatus /\ PhaseOf["unknown"] = "doubt"
    BY DEF RowStatus, PhaseOf
  <2>. QED
    BY <1>1, <2>1, OnePhase DEF ActionFails
<1>3. phaseBar[worker.write] = "writing"
  BY <1>1 DEF phaseBar, PhaseOf
<1>. QED
  BY <1>2, <1>3 DEF Promise!LoseTrack, ActionFails, github, sentBar, publishedBar

\* A restart puts the one write that was under way in doubt: no second row is
\* executing.
LEMMA RestartRefines ==
  ASSUME IInv, Restart
  PROVE  UNCHANGED Promise!vars \/ \E w \in Write : Promise!LoseTrack(w)
<1>1. CASE worker.pc \notin Sending
  <2>1. \A w \in Write : row'[w].status = row[w].status
    BY <1>1, OnlySendingExecutes DEF NoneExecutes, Restart
  <2>. QED
    BY <2>1, SamePromise DEF Restart, github
<1>2. CASE worker.pc \in Sending
  <2>1. /\ worker.write \in Write /\ row[worker.write].status = "executing"
        /\ \A w \in Write : row[w].status = "executing" => w = worker.write
    BY <1>2 DEF IInv, WorkerHolds, Write
  <2>2. /\ row \in [Write -> [status: RowStatus, patch: Patch \cup {None}]]
        /\ row' \in [Write -> [status: RowStatus, patch: Patch \cup {None}]]
    BY RestartStep DEF IInv, FlowInv, TypeOK
  <2>3. \A w \in Write : row'[w].status = IF w = worker.write THEN "unknown" ELSE row[w].status
    BY <2>1, <2>2 DEF Restart
  <2>4. phaseBar' = [phaseBar EXCEPT ![worker.write] = "doubt"]
    <3>1. \A w \in Write : phaseBar'[w] = IF w = worker.write THEN "doubt" ELSE phaseBar[w]
      BY <2>3 DEF phaseBar, PhaseOf
    <3>. QED
      BY <3>1 DEF phaseBar
  <2>5. phaseBar[worker.write] = "writing"
    BY <2>1 DEF phaseBar, PhaseOf
  <2>. QED
    BY <2>1, <2>4, <2>5 DEF Promise!LoseTrack, Restart, github, sentBar, publishedBar
<1>. QED
  BY <1>1, <1>2

\* No row, no request, no pull request yet: the promise's initial state.
LEMMA InitRefines == Init => Promise!Init
BY DEF Init, Promise!Init, phaseBar, sentBar, publishedBar, PhaseOf

\* Every step of the fix flow is a step of the promise or a stutter.
LEMMA NextRefines == IInv /\ [Next]_vars => [Promise!Next]_Promise!vars
<1>. SUFFICES ASSUME IInv, [Next]_vars PROVE [Promise!Next]_Promise!vars
  OBVIOUS
<1>1. CASE CreateLands \/ PullFound \/ \E h \in Commit : MergeLands(h)
  <2>1. Issue \in Write /\ Commit \subseteq Write
    BY DEF Write
  <2>2. PullFound => request[Issue].state # "unsent"
    BY DEF IInv, WorkerHolds, PullFound
  <2>3. CreateLands => Promise!Publish(Issue)
    BY <2>1, LandsRefines DEF CreateLands
  <2>4. PullFound => Promise!Publish(Issue)
    BY <2>1, <2>2, LandsRefines DEF PullFound
  <2>5. \A h \in Commit : MergeLands(h) => Promise!Publish(h)
    BY <2>1, LandsRefines DEF MergeLands
  <2>. QED
    BY <1>1, <2>1, <2>3, <2>4, <2>5 DEF Promise!Next
<1>2. CASE (\E w \in Write : RequestLost(w)) \/ BranchLands \/ BranchSent \/ PullSent
  BY <1>2, OnTheWayRefines
<1>3. CASE Reserve
  BY <1>3, ReserveRefines
<1>4. CASE ClaimAndSend \/ ActionReturns \/ ActionFails
  <2>1. worker.write \in Write
    BY <1>4 DEF IInv, WorkerHolds, Write, ClaimAndSend, ActionReturns, ActionFails
  <2>. QED
    BY <1>4, <2>1, ClaimAndSendRefines, ActionReturnsRefines, ActionFailsRefines
       DEF Promise!Next
<1>5. CASE Restart
  BY <1>5, RestartRefines DEF Promise!Next
<1>6. CASE UNCHANGED <<row, request>>
  BY <1>6, SamePromise
<1>. QED
  BY <1>1, <1>2, <1>3, <1>4, <1>5, <1>6, OnlyWritesWrite

\* The creation of the fix pull request and each merge are a write of GitHubWrite
\* without grants: once, not again in doubt, done only when GitHub has done it.
THEOREM Refinement == Spec => KeepsPromise
BY InitInvariant, NextInvariant, InitRefines, NextRefines, PTL
   DEF Spec, KeepsPromise, Promise!Spec

(***************************************************************************)
(* The step budget of the code worker.                                     *)
(***************************************************************************)

\* Recording a call appends it and changes none of the calls before it.
LEMMA RecordAppends ==
  ASSUME BudgetInv, NEW action \in Action, Record(action)
  PROVE  /\ Steps' = Steps + 1 /\ Steps \in Nat
         /\ history' \in Seq(Action)
         /\ history'[Steps + 1] = action
         /\ \A i \in 1..Steps : history'[i] = history[i]
         /\ limits' = limits /\ limits \in Limits
BY DEF BudgetInv, BudgetTypeOK, Record, Steps

\* What was progress stays progress when a call is recorded.
LEMMA ProgressStays ==
  ASSUME BudgetInv, NEW action \in Action, Record(action), NEW b \in Int, b <= Steps
  PROVE  Progressing(b)' <=> Progressing(b)
<1>1. Recent(b)' = Recent(b)
  BY RecordAppends DEF Recent
<1>2. \A i \in Recent(b) : history'[i] = history[i]
  BY RecordAppends DEF Recent
<1>3. {history'[i] : i \in Recent(b)} = {history[i] : i \in Recent(b)}
  BY <1>2
<1>. QED
  BY <1>1, <1>2, <1>3 DEF Progressing

\* A configuration is a record of positive numbers.
LEMMA LimitsTyped ==
  ASSUME BudgetInv
  PROVE  /\ limits.soft \in Nat \ {0} /\ limits.hard \in Nat \ {0}
         /\ limits.extension \in Nat \ {0} /\ limits.threshold \in Nat \ {0, 1}
BY LimitsOK DEF BudgetInv, BudgetTypeOK

\* A recorded call keeps the limit in force earned.
LEMMA RecordKeepsLimit ==
  ASSUME BudgetInv, NEW action \in Action, Record(action)
  PROVE  LimitIsEarned' /\ current' \in Nat
<1>1. current \in Nat /\ Steps \in Nat /\ Steps' = Steps + 1 /\ limits' = limits
  BY RecordAppends DEF BudgetInv, BudgetTypeOK
<1>2. Steps <= current /\ current >= limits.soft
  BY DEF BudgetInv, LimitIsEarned
<1>3. CASE Steps + 1 <= current /\ current' = current
  <2>1. current > limits.soft =>
          \E b \in limits.soft..Steps :
              current - b <= limits.extension /\ Progressing(b)'
    BY <1>1, LimitsTyped, ProgressStays DEF BudgetInv, LimitIsEarned
  <2>. QED
    BY <1>1, <1>2, <1>3, <2>1, LimitsTyped DEF LimitIsEarned
<1>4. CASE Steps + 1 > current /\ Progressing(Steps) /\ current < limits.hard
           /\ current' = Extended
  <2>1. /\ current' \in Nat /\ current' > current /\ current' - Steps <= limits.extension
    BY <1>1, <1>2, <1>4, LimitsTyped DEF Extended
  <2>2. PICK n \in Int : n = Steps
    BY <1>1
  <2>3. Progressing(n)'
    BY <1>4, <2>2, ProgressStays
  <2>4. n \in limits.soft..Steps'
    BY <1>1, <1>2, <1>4, <2>2, LimitsTyped
  <2>. QED
    BY <1>1, <1>2, <2>1, <2>2, <2>3, <2>4, LimitsTyped DEF LimitIsEarned
<1>. QED
  BY <1>3, <1>4 DEF Record

\* The new last call does not complete a run of threshold equal calls.
LEMMA RecordKeepsNoLoop ==
  ASSUME BudgetInv, NEW action \in Action, Record(action)
  PROVE  NoLoopRecorded'
<1>. DEFINE width == limits.threshold - 1
<1>1. /\ Steps' = Steps + 1 /\ Steps \in Nat /\ limits' = limits /\ width \in Nat \ {0}
  BY RecordAppends, LimitsTyped
<1>. SUFFICES ASSUME NEW i \in 1..(Steps + 1), i + width <= Steps + 1
              PROVE  \E j \in i..(i + width) : history'[j] # history'[i]
  BY <1>1 DEF NoLoopRecorded
<1>2. CASE i + width <= Steps
  <2>1. \E j \in i..(i + width) : history[j] # history[i]
    BY <1>1, <1>2 DEF BudgetInv, NoLoopRecorded
  <2>. QED
    BY <1>1, <1>2, <2>1, RecordAppends
<1>3. CASE i + width = Steps + 1
  <2>1. PICK k \in 1..Steps : k > Steps - width /\ history[k] # action
    BY <1>1, <1>3 DEF Record, Repeats
  <2>2. k \in i..(i + width) /\ history'[k] = history[k] /\ i \in 1..Steps
    BY <1>1, <1>3, <2>1, RecordAppends
  <2>3. Steps + 1 \in i..(i + width) /\ history'[Steps + 1] = action
    BY <1>1, <1>3, RecordAppends
  <2>. QED
    BY <2>1, <2>2, <2>3
<1>. QED
  BY <1>1, <1>2, <1>3

\* A call recorded beyond the soft limit is covered by an earned limit.
LEMMA RecordKeepsEarned ==
  ASSUME BudgetInv, NEW action \in Action, Record(action)
  PROVE  ExtraStepsAreEarned'
<1>1. Steps' = Steps + 1 /\ Steps \in Nat /\ limits' = limits
  BY RecordAppends
<1>. SUFFICES ASSUME NEW k \in 1..(Steps + 1), k > limits.soft
              PROVE  \E b \in limits.soft..(k - 1) :
                         k - b <= limits.extension /\ Progressing(b)'
  BY <1>1 DEF ExtraStepsAreEarned
<1>2. CASE k <= Steps
  <2>1. PICK b \in limits.soft..(k - 1) : k - b <= limits.extension /\ Progressing(b)
    BY <1>1, <1>2 DEF BudgetInv, ExtraStepsAreEarned
  <2>. QED
    BY <1>1, <1>2, <2>1, LimitsTyped, ProgressStays
<1>3. CASE k = Steps + 1
  <2>1. current' \in Nat /\ k <= current'
    BY <1>1, <1>3, RecordKeepsLimit DEF LimitIsEarned
  <2>2. CASE Steps + 1 > current
    <3>1. Progressing(Steps) /\ Steps = current
      BY <1>1, <2>2 DEF BudgetInv, BudgetTypeOK, LimitIsEarned, Record
    <3>2. PICK n \in Int : n = Steps
      BY <1>1
    <3>3. Progressing(n)' /\ n \in limits.soft..(k - 1) /\ k - n <= limits.extension
      BY <1>1, <1>3, <3>1, <3>2, LimitsTyped, ProgressStays DEF BudgetInv, LimitIsEarned
    <3>. QED
      BY <3>3
  <2>3. CASE Steps + 1 <= current
    <3>1. PICK b \in limits.soft..Steps : current - b <= limits.extension /\ Progressing(b)
      BY <1>1, <1>3, <2>3, LimitsTyped DEF BudgetInv, BudgetTypeOK, LimitIsEarned
    <3>. QED
      BY <1>1, <1>3, <2>3, <3>1, LimitsTyped, ProgressStays DEF BudgetInv, BudgetTypeOK
  <2>. QED
    BY <1>1, <2>2, <2>3 DEF BudgetInv, BudgetTypeOK
<1>. QED
  BY <1>1, <1>2, <1>3

\* What is said of the recorded calls alone does not depend on the answer.
LEMMA SameHistory ==
  ASSUME BudgetInv, UNCHANGED <<limits, current, history>>
  PROVE  LimitIsEarned' /\ HardLimitHolds' /\ NoLoopRecorded' /\ ExtraStepsAreEarned'
<1>1. Steps' = Steps
  BY DEF Steps
<1>2. \A b \in Int : Progressing(b)' <=> Progressing(b)
  BY DEF Progressing, Recent, Steps
<1>3. HardLimitHolds' /\ NoLoopRecorded'
  BY <1>1 DEF BudgetInv, HardLimitHolds, NoLoopRecorded
<1>4. limits.soft \in Nat /\ Steps \in Nat
  BY LimitsTyped DEF BudgetInv, BudgetTypeOK, Steps
<1>5. LimitIsEarned'
  BY <1>1, <1>2, <1>4 DEF BudgetInv, LimitIsEarned
<1>6. ExtraStepsAreEarned'
  BY <1>1, <1>2, <1>4 DEF BudgetInv, ExtraStepsAreEarned
<1>. QED
  BY <1>3, <1>5, <1>6

\* A refusal changes nothing but the answer.
LEMMA RefusalStep ==
  ASSUME BudgetInv, NEW action \in Action,
         StopLoop(action) \/ StopHard(action) \/ StopSoft(action)
  PROVE  BudgetInv'
<1>1. UNCHANGED <<limits, current, history>> /\ answer' \in Answer
  BY DEF StopLoop, StopHard, StopSoft, Refuse, Answer
<1>2. StopsAreJustified'
  <2>1. Steps \in Nat /\ Steps <= limits.hard /\ limits.hard \in Nat /\ current \in Nat
    BY LimitsTyped DEF BudgetInv, BudgetTypeOK, Steps, HardLimitHolds
  <2>2. answer' = "soft" => Steps < limits.hard /\ ~Progressing(Steps)
    BY <2>1 DEF StopLoop, StopHard, StopSoft, Refuse
  <2>3. answer' = "hard" => Steps = limits.hard
    BY <2>1 DEF StopLoop, StopHard, StopSoft, Refuse
  <2>. QED
    BY <1>1, <2>2, <2>3 DEF StopsAreJustified, Steps, Progressing, Recent
<1>. QED
  BY <1>1, <1>2, SameHistory DEF BudgetInv, BudgetTypeOK

\* The inductive invariant holds in every reachable state.
THEOREM BudgetInvariance == BudgetSpec => []BudgetInv
<1>1. BudgetInit => BudgetInv
  <2>. SUFFICES ASSUME BudgetInit PROVE BudgetInv
    OBVIOUS
  <2>1. BudgetTypeOK /\ Steps = 0
    BY LimitsOK DEF BudgetInit, BudgetTypeOK, Answer, Steps
  <2>. QED
    BY <2>1, LimitsOK
       DEF BudgetInit, BudgetInv, LimitIsEarned, HardLimitHolds, NoLoopRecorded, ExtraStepsAreEarned,
           StopsAreJustified
<1>2. BudgetInv /\ [BudgetNext]_budgetVars => BudgetInv'
  <2>. SUFFICES ASSUME BudgetInv, [BudgetNext]_budgetVars PROVE BudgetInv'
    OBVIOUS
  <2>1. ASSUME NEW action \in Action, Record(action)
        PROVE  BudgetInv'
    <3>1. BudgetTypeOK' /\ HardLimitHolds'
      BY <2>1, RecordAppends, RecordKeepsLimit, LimitsTyped
         DEF BudgetTypeOK, HardLimitHolds, Record, Answer
    <3>2. StopsAreJustified'
      BY <2>1 DEF StopsAreJustified, Record
    <3>. QED
      BY <2>1, <3>1, <3>2, RecordKeepsLimit, RecordKeepsNoLoop, RecordKeepsEarned DEF BudgetInv
  <2>2. CASE UNCHANGED budgetVars
    <3>1. StopsAreJustified'
      BY <2>2 DEF BudgetInv, StopsAreJustified, Progressing, Recent, Steps, budgetVars
    <3>. QED
      BY <2>2, <3>1, SameHistory DEF BudgetInv, BudgetTypeOK, budgetVars
  <2>. QED
    BY <2>1, <2>2, RefusalStep DEF BudgetNext
<1>. QED
  BY <1>1, <1>2, PTL DEF BudgetSpec

\* Limits, calls and answers keep their types.
THEOREM BudgetTyped == BudgetSpec => []BudgetTypeOK
<1>1. BudgetInv => BudgetTypeOK
  BY DEF BudgetInv
<1>. QED
  BY <1>1, BudgetInvariance, PTL

\* No call is recorded beyond the hard limit, by the agent or by a thread that
\* outlives its time (record).
THEOREM HardLimit == BudgetSpec => []HardLimitHolds
<1>1. BudgetInv => HardLimitHolds
  BY DEF BudgetInv
<1>. QED
  BY <1>1, BudgetInvariance, PTL

\* Every call beyond the soft limit was earned by progress (record's extension
\* of the soft limit).
THEOREM ExtraStepsEarned == BudgetSpec => []ExtraStepsAreEarned
<1>1. BudgetInv => ExtraStepsAreEarned
  BY DEF BudgetInv
<1>. QED
  BY <1>1, BudgetInvariance, PTL

\* No call is recorded loop_threshold times in a row.
THEOREM NoLoop == BudgetSpec => []NoLoopRecorded
<1>1. BudgetInv => NoLoopRecorded
  BY DEF BudgetInv
<1>. QED
  BY <1>1, BudgetInvariance, PTL

\* An agent is stopped only for want of progress or at its hard limit.
THEOREM Justified == BudgetSpec => []StopsAreJustified
<1>1. BudgetInv => StopsAreJustified
  BY DEF BudgetInv
<1>. QED
  BY <1>1, BudgetInvariance, PTL

=============================================================================
