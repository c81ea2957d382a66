------------------------------ MODULE PluginRpc ------------------------------
(***************************************************************************)
(* The JSON-RPC connection of one plugin process: PluginProcess in          *)
(* plugin_system.py on the host's side, and the runner of the SDK           *)
(* (runner.py) on the child's.  Coroutines of the host send requests        *)
(* through one pipe under one lock, a reader task gives the answers to the  *)
(* futures in pending, and stop() ends the child while requests are under   *)
(* way.  The handler of a request may call Core back, once here, to comment *)
(* on GitHub under the invocation_id of the request: _handle_call,          *)
(* _v2_core_call and _github_call answer through the same pipe and lock.    *)
(* The contents of messages are abstracted to the request they belong to    *)
(* and to whether an answer is a result or an error.                        *)
(***************************************************************************)
EXTENDS Naturals, Sequences

CONSTANTS
    Request,     \* requests, each with an identifier of its own
    StopRequest, \* the one that stop() makes
    Limited,     \* requests whose caller limits or cancels the whole call
    Invocation,  \* the invocation_id a request carries, named by its first request;
                 \* a retry repeats it
    PipeSize     \* messages that fit in the pipe before drain() blocks

ASSUME RequestsAssumption ==
    /\ StopRequest \in Limited
    /\ Limited \subseteq Request
    /\ Invocation \in [Request -> Request]
    /\ \A r \in Request \ {StopRequest} : Invocation[r] # Invocation[StopRequest]
    /\ PipeSize \in Nat \ {0}

VARIABLES
    call,     \* [Request -> where the coroutine of the request is]
    future,   \* [Request -> what its future holds]
    pending,  \* requests in PluginProcess.pending
    lock,     \* the message whose writer holds write_lock, if any
    stdin,    \* messages on their way to the child
    stdout,   \* answers and calls on their way to the host
    reading,  \* the reader task runs
    process,  \* self.process is set
    child,    \* the child process; "exited" while its returncode is not known
    hung,     \* the child has stopped running for good
    active,   \* invocations the child is working on
    finished, \* requests whose handler came to its end (history)
    stop,     \* where stop() is
    asked,    \* [Request -> how far the call of its handler is, for the handler]
    served,   \* [Request -> how far that call is, for the host]
    comment,  \* [Request -> status of the outbox row with this invocation_id]
    posted    \* calls for which GitHub has made a comment (history)

coreVars == <<served, comment, posted>>
vars == <<call, future, pending, lock, stdin, stdout, reading, process, child,
          hung, active, finished, stop, asked, coreVars>>

(* A result, or an exception of whatever kind.                              *)
Outcome == {"result", "error"}

(* A message: a request or a call, or the answer to one.                    *)
Message == [request : Request, outcome : {"none"} \cup Outcome]
Asking(r) == [request |-> r, outcome |-> "none"]

TypeOK ==
    /\ call \in [Request -> {"idle", "locking", "draining", "waiting"} \cup Outcome]
    /\ future \in [Request -> {"none"} \cup Outcome]
    /\ pending \subseteq Request
    /\ lock \subseteq Message /\ \A m, n \in lock : m = n
    /\ stdin \in Seq(Message)
    /\ stdout \in Seq(Message)
    /\ reading \in BOOLEAN /\ process \in BOOLEAN /\ hung \in BOOLEAN
    /\ child \in {"running", "exited", "dead"}
    /\ active \subseteq Request /\ finished \subseteq Request
    /\ stop \in {"no", "asking", "ending", "done"}
    /\ asked \in [Request -> {"no", "waiting", "result", "error"}]
    /\ served \in [Request -> [pc : {"none", "called", "posting", "writing", "draining"},
                               outcome : {"none"} \cup Outcome]]
    /\ comment \in [Request -> {"none", "executing", "completed", "unknown"}]
    /\ posted \subseteq Request

(* The child has started and has answered lifecycle.start.                  *)
Init ==
    /\ call = [r \in Request |-> "idle"]
    /\ future = [r \in Request |-> "none"]
    /\ pending = {} /\ lock = {}
    /\ stdin = <<>> /\ stdout = <<>>
    /\ reading = TRUE /\ process = TRUE
    /\ child = "running" /\ hung = FALSE
    /\ active = {} /\ finished = {} /\ stop = "no"
    /\ asked = [r \in Request |-> "no"]
    /\ served = [r \in Request |-> [pc |-> "none", outcome |-> "none"]]
    /\ comment = [r \in Request |-> "none"] /\ posted = {}

hostSide == <<call, future, pending, lock, reading, process, stop, coreVars>>
childSide == <<stdout, child, hung, active, finished, asked>>

Ended(r) == call[r] \in Outcome

(***************************************************************************)
(* The host: request() and _write().                                        *)
(***************************************************************************)
(* request() refuses when the child is known to have ended; otherwise the   *)
(* future is entered in pending and the message has to be written.          *)
Begin(r) ==
    /\ call[r] = "idle"
    /\ IF process /\ child # "dead"
       THEN /\ call' = [call EXCEPT ![r] = "locking"]
            /\ pending' = pending \cup {r}
       ELSE /\ call' = [call EXCEPT ![r] = "error"]
            /\ UNCHANGED pending
    /\ UNCHANGED <<future, lock, reading, process, stop, stdin, coreVars>>

(* A retry is sent when the first request of its invocation has ended.      *)
Send(r) ==
    /\ r # StopRequest
    /\ Invocation[r] = r \/ Ended(Invocation[r])
    /\ Begin(r)
    /\ UNCHANGED childSide

Put(message) ==
    /\ lock' = {message}
    /\ stdin' = IF child = "running" THEN Append(stdin, message) ELSE stdin

(* Under the lock the message is put in the buffer, then drain() waits.     *)
Write(r) ==
    /\ call[r] = "locking" /\ lock = {}
    /\ IF process
       THEN Put(Asking(r)) /\ call' = [call EXCEPT ![r] = "draining"]
       ELSE /\ call' = [call EXCEPT ![r] = "error"]
            /\ UNCHANGED <<lock, stdin>>
    /\ UNCHANGED <<future, pending, reading, process, stop, coreVars, childSide>>

Drained(r) ==
    /\ call[r] = "draining"
    /\ Len(stdin) <= PipeSize \/ child # "running"
    /\ lock' = {}
    /\ call' = [call EXCEPT ![r] = "waiting"]
    /\ UNCHANGED <<future, pending, reading, process, stop, stdin, coreVars, childSide>>

(* A future that nobody waits for any more holds nothing of interest.       *)
Forget(r) == future' = [future EXCEPT ![r] = "none"]

(* The pipe of a child that has ended may break.  The exception leaves      *)
(* request() before its try: the entry stays in pending.                    *)
PipeBreaks(r) ==
    /\ call[r] = "draining" /\ child # "running"
    /\ lock' = {}
    /\ call' = [call EXCEPT ![r] = "error"]
    /\ Forget(r)
    /\ UNCHANGED <<pending, reading, process, stop, stdin, coreVars, childSide>>

Return(r) ==
    /\ call[r] = "waiting" /\ future[r] # "none"
    /\ call' = [call EXCEPT ![r] = future[r]]
    /\ pending' = pending \ {r}
    /\ Forget(r)
    /\ UNCHANGED <<lock, reading, process, stop, stdin, coreVars, childSide>>

(* The time limit of request() is about the answer only.                    *)
TimeOut(r) ==
    /\ call[r] = "waiting" /\ future[r] = "none"
    /\ call' = [call EXCEPT ![r] = "error"]
    /\ pending' = pending \ {r}
    /\ UNCHANGED <<future, lock, reading, process, stop, stdin, coreVars, childSide>>

(* Mutant of Abandon: a call that is cancelled in drain() keeps the lock.   *)
AbandonWithLock(r) ==
    /\ r \in Limited
    /\ call[r] \in {"locking", "draining", "waiting"}
    /\ call' = [call EXCEPT ![r] = "error"]
    /\ pending' = pending \ {r}
    /\ Forget(r)
    /\ UNCHANGED <<lock, reading, process, stop, stdin, coreVars, childSide>>

(* The caller's own limit, or its cancellation, strikes at any await.       *)
Abandon(r) ==
    /\ r \in Limited
    /\ call[r] \in {"locking", "draining", "waiting"}
    /\ call' = [call EXCEPT ![r] = "error"]
    /\ pending' = IF call[r] = "waiting" THEN pending \ {r} ELSE pending
    /\ lock' = lock \ {Asking(r)}
    /\ Forget(r)
    /\ UNCHANGED <<reading, process, stop, stdin, coreVars, childSide>>

(***************************************************************************)
(* The host: the reader task.                                               *)
(***************************************************************************)
FailPending ==
    future' = [r \in Request |->
                  IF r \in pending /\ ~Ended(r) /\ future[r] = "none"
                  THEN "error" ELSE future[r]]

(* Mutant of ReadAnswer: an answer goes to some request that waits.         *)
ReadAnswerForAnother ==
    /\ reading /\ stdout # <<>> /\ Head(stdout).outcome # "none"
    /\ \E r \in pending :
         /\ ~Ended(r) /\ future[r] = "none"
         /\ future' = [future EXCEPT ![r] = Head(stdout).outcome]
    /\ stdout' = Tail(stdout)
    /\ UNCHANGED <<call, pending, lock, reading, process, stop, stdin, child, hung,
                   active, finished, asked, coreVars>>

ReadAnswer ==
    /\ reading /\ stdout # <<>> /\ Head(stdout).outcome # "none"
    /\ LET m == Head(stdout) IN
       future' = IF m.request \in pending /\ ~Ended(m.request) /\ future[m.request] = "none"
                 THEN [future EXCEPT ![m.request] = m.outcome]
                 ELSE future
    /\ stdout' = Tail(stdout)
    /\ UNCHANGED <<call, pending, lock, reading, process, stop, stdin, child, hung,
                   active, finished, asked, coreVars>>

Serve(r, pc, outcome) == served' = [served EXCEPT ![r] = [pc |-> pc, outcome |-> outcome]]

(* A call of the child is given to a task of its own, which nobody awaits.  *)
ReadCall ==
    /\ reading /\ stdout # <<>> /\ Head(stdout).outcome = "none"
    /\ Serve(Head(stdout).request, "called", "none")
    /\ stdout' = Tail(stdout)
    /\ UNCHANGED <<call, future, pending, lock, reading, process, stop, stdin, child, hung,
                   active, finished, asked, comment, posted>>

(* End of file, or a line that is too long, ends the reader and fails every *)
(* request that is pending at that moment, but none that comes later.       *)
ReaderEnds ==
    /\ reading /\ stdout = <<>>
    /\ child # "running" \/ ~hung
    /\ FailPending
    /\ reading' = FALSE
    /\ UNCHANGED <<call, pending, lock, process, stop, stdin, coreVars, childSide>>

(***************************************************************************)
(* The host: stop().                                                        *)
(***************************************************************************)
BeginStop ==
    /\ stop = "no"
    /\ IF child # "dead"
       THEN stop' = "asking" /\ call' = [call EXCEPT ![StopRequest] = "locking"]
                             /\ pending' = pending \cup {StopRequest}
       ELSE stop' = "ending" /\ UNCHANGED <<call, pending>>
    /\ UNCHANGED <<future, lock, reading, process, stdin, coreVars, childSide>>

ChildEnds(end) ==
    /\ child' = end /\ active' = {} /\ stdin' = <<>>
    /\ asked' = [r \in Request |-> "no"]

(* Whatever became of the request, a child that is left is terminated and,  *)
(* three seconds later, killed.                                             *)
Terminate ==
    /\ stop = "asking" /\ Ended(StopRequest)
    /\ ChildEnds("dead")
    /\ stop' = "ending"
    /\ UNCHANGED <<call, future, pending, lock, reading, process, stdout, hung, finished,
                   coreVars>>

StopEnds ==
    /\ stop = "ending"
    /\ IF reading THEN FailPending ELSE UNCHANGED future
    /\ reading' = FALSE /\ process' = FALSE
    /\ stop' = "done"
    /\ UNCHANGED <<call, pending, lock, stdin, coreVars, childSide>>

(***************************************************************************)
(* The host: _handle_call, for a call of the child.                         *)
(***************************************************************************)
Row(r) == comment[Invocation[r]]
SetRow(r, status) == comment' = [comment EXCEPT ![Invocation[r]] = status]

coreRest == <<call, future, pending, lock, reading, process, stop, stdin, childSide>>

(* The method, its parameters, the task or its owner's approval are refused. *)
RefuseCall(r) ==
    /\ served[r].pc = "called"
    /\ Serve(r, "writing", "error")
    /\ UNCHANGED <<coreRest, comment, posted>>

(* Mutant of Comment: a comment whose outcome is unknown is made again.     *)
CommentAgain(r) ==
    /\ served[r].pc = "called"
    /\ IF Row(r) = "completed"
       THEN Serve(r, "writing", "result") /\ UNCHANGED comment
       ELSE SetRow(r, "executing") /\ Serve(r, "posting", "none")
    /\ UNCHANGED <<coreRest, posted>>

(* github_action: a row that is completed is the answer, one that is under  *)
(* way or unknown an error; a new one is claimed for the comment.           *)
Comment(r) ==
    /\ served[r].pc = "called"
    /\ IF Row(r) = "none"
       THEN SetRow(r, "executing") /\ Serve(r, "posting", "none")
       ELSE /\ Serve(r, "writing", IF Row(r) = "completed" THEN "result" ELSE "error")
            /\ UNCHANGED comment
    /\ UNCHANGED <<coreRest, posted>>

(* GitHub answers, or the call fails before or after the comment was made.  *)
Commented(r) ==
    /\ served[r].pc = "posting"
    /\ \/ posted' = posted \cup {r} /\ SetRow(r, "completed") /\ Serve(r, "writing", "result")
       \/ /\ posted' \in {posted, posted \cup {r}}
          /\ SetRow(r, "unknown") /\ Serve(r, "writing", "error")
    /\ UNCHANGED coreRest

Told(r) == [request |-> r, outcome |-> served[r].outcome]

Reply(r) ==
    /\ served[r].pc = "writing" /\ lock = {}
    /\ IF process
       THEN Put(Told(r)) /\ Serve(r, "draining", served[r].outcome)
       ELSE Serve(r, "none", "none") /\ UNCHANGED <<lock, stdin>>
    /\ UNCHANGED <<call, future, pending, reading, process, stop, childSide, comment, posted>>

(* The answer is out, or the pipe is broken and the error cannot be told.   *)
Replied(r) ==
    /\ served[r].pc = "draining"
    /\ Len(stdin) <= PipeSize \/ child # "running"
    /\ lock' = {}
    /\ Serve(r, "none", "none")
    /\ UNCHANGED <<call, future, pending, reading, process, stop, stdin, childSide, comment,
                   posted>>

ServeStep(r) == RefuseCall(r) \/ Comment(r) \/ Commented(r) \/ Reply(r) \/ Replied(r)

(***************************************************************************)
(* The child: the serve loop and handle() of the SDK's runner.              *)
(***************************************************************************)
Runs == child = "running" /\ ~hung

Answer(r, outcome) == stdout' = Append(stdout, [request |-> r, outcome |-> outcome])

(* The next message is a request, or the answer to a call.                  *)
Incoming(outcomes) == Runs /\ stdin # <<>> /\ Head(stdin).outcome \in outcomes

(* Mutant of Handle: an invocation that is active is started again.         *)
HandleAgain ==
    /\ Incoming({"none"}) /\ Head(stdin).request # StopRequest
    /\ active' = active \cup {Head(stdin).request} /\ stdin' = Tail(stdin)
    /\ UNCHANGED <<hostSide, stdout, child, hung, finished, asked>>

(* An invocation that is still being worked on is refused.                  *)
Handle ==
    /\ Incoming({"none"}) /\ Head(stdin).request # StopRequest
    /\ LET r == Head(stdin).request IN
       IF \E other \in active : Invocation[other] = Invocation[r]
       THEN Answer(r, "error") /\ UNCHANGED active
       ELSE active' = active \cup {r} /\ UNCHANGED stdout
    /\ stdin' = Tail(stdin)
    /\ UNCHANGED <<hostSide, child, hung, finished, asked>>

(* call_core: the handler of r sends its call and waits for its answer.     *)
CallCore(r) ==
    /\ Runs /\ r \in active \ {StopRequest}
    /\ asked[r] = "no"
    /\ asked' = [asked EXCEPT ![r] = "waiting"]
    /\ Answer(r, "none")
    /\ UNCHANGED <<hostSide, stdin, child, hung, active, finished>>

(* accept_response: an answer that nobody waits for any more is ignored.    *)
AcceptResponse ==
    /\ Incoming({"result", "error"})
    /\ LET m == Head(stdin) IN
       asked' = IF asked[m.request] = "waiting"
                THEN [asked EXCEPT ![m.request] = m.outcome] ELSE asked
    /\ stdin' = Tail(stdin)
    /\ UNCHANGED <<hostSide, stdout, child, hung, active, finished>>

(* Thirty seconds have passed, for the handler; the host goes on.           *)
CallTimesOut(r) ==
    /\ Runs /\ asked[r] = "waiting"
    /\ asked' = [asked EXCEPT ![r] = "error"]
    /\ UNCHANGED <<hostSide, stdin, stdout, child, hung, active, finished>>

(* The handler ends once it has dealt with the call, if it has made one.    *)
Finish(r) ==
    /\ Runs /\ r \in active /\ asked[r] # "waiting"
    /\ active' = active \ {r}
    /\ finished' = finished \cup {r}
    /\ asked' = [asked EXCEPT ![r] = "no"]
    /\ \E outcome \in {"result", "error"} : Answer(r, outcome)
    /\ UNCHANGED <<hostSide, stdin, child, hung>>

(* lifecycle.stop is answered; the loop ends and cancels what is active.    *)
HandleStop ==
    /\ Incoming({"none"}) /\ Head(stdin).request = StopRequest
    /\ Answer(StopRequest, "result")
    /\ ChildEnds("exited")
    /\ UNCHANGED <<hostSide, hung, finished>>

Crash ==
    /\ child = "running"
    /\ ChildEnds("exited")
    /\ UNCHANGED <<hostSide, stdout, hung, finished>>

Reaped ==
    /\ child = "exited"
    /\ child' = "dead"
    /\ UNCHANGED <<hostSide, stdin, stdout, hung, active, finished, asked>>

Hang ==
    /\ Runs
    /\ hung' = TRUE
    /\ UNCHANGED <<hostSide, stdin, stdout, child, active, finished, asked>>

HostStep(r) == Write(r) \/ Drained(r) \/ PipeBreaks(r) \/ Return(r) \/ TimeOut(r)

(* Nothing is left to do once stop() has returned and no caller waits.       *)
Over ==
    /\ stop = "done"
    /\ \A r \in Request \ {StopRequest} : Ended(r) /\ served[r].pc = "none"
    /\ UNCHANGED vars

Next ==
    \/ \E r \in Request : Send(r) \/ HostStep(r) \/ Abandon(r) \/ ServeStep(r)
    \/ \E r \in Request : CallCore(r) \/ CallTimesOut(r) \/ Finish(r)
    \/ AcceptResponse \/ ReadAnswer \/ ReadCall \/ ReaderEnds \/ BeginStop \/ Terminate \/ StopEnds
    \/ Handle \/ HandleStop \/ Crash \/ Reaped \/ Hang \/ Over

Spec == Init /\ [][Next]_vars

(* The event loop of the host runs what is ready, time limits expire, and a *)
(* child that runs reads what it is sent.  Each request makes finitely many *)
(* steps, so the event loop need not be fair to each.  Handlers need not    *)
(* end, the reader need not be quick, and nobody needs to call stop().      *)
EventLoop ==
    \/ \E r \in Request : HostStep(r) \/ ServeStep(r)
    \/ \E r \in Limited : Abandon(r)
    \/ Terminate \/ StopEnds

Fairness ==
    /\ WF_vars(EventLoop)
    /\ WF_vars(Handle \/ HandleStop \/ AcceptResponse) /\ WF_vars(Reaped)

FairSpec == Spec /\ Fairness

(***************************************************************************)
(* Properties                                                               *)
(***************************************************************************)
(* An extension is invoked again under the same invocation_id when the      *)
(* host has given up on the first request.  The child may still be working  *)
(* on it; it must not start a second time beside it (runner.py, handle).    *)
OneHandlerPerInvocation ==
    \A r, other \in active : r # other => Invocation[r] # Invocation[other]

(* Who gets a result gets the one of its own request: with late answers,    *)
(* abandoned requests and a reader that fails, a caller in the host is told *)
(* of a result only if the child did carry this request out (_reader,       *)
(* request), and a handler in the child of a comment only if GitHub has     *)
(* made it (_handle_call, accept_response).                                 *)
ResultsAreEarned ==
    /\ \A r \in Request \ {StopRequest} : call[r] = "result" => r \in finished
    /\ \A r \in active : asked[r] = "result" =>
          \E other \in posted : Invocation[other] = Invocation[r]

(* A comment is made at most once under an invocation_id, however the       *)
(* invocation is retried and whatever times out, fails or stops while the   *)
(* comment is on its way.                                                   *)
OneCommentPerInvocation ==
    \A r, other \in posted : r # other => Invocation[r] # Invocation[other]

(* Every request comes to an end, and one whose caller limits the call as a *)
(* whole does so in any case.  The others may wait for as long as a child   *)
(* that hangs is left alone: request() puts its time limit on the answer    *)
(* and not on the write, which waits for the lock and for room in the pipe. *)
(* stop() ends whatever the child does, and also while another request, or  *)
(* the answer to a call of the child, holds the lock of a full pipe; and    *)
(* then so do they.                                                         *)
Blocked(r) ==
    /\ r \notin Limited /\ call[r] \in {"locking", "draining"}
    /\ hung /\ child = "running" /\ stop # "done"
RequestsEnd ==
    <>[](/\ \A r \in Request : call[r] = "idle" \/ Ended(r) \/ Blocked(r)
         /\ stop \in {"no", "done"})
=============================================================================
