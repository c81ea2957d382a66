----------------------------- MODULE IssueTask -----------------------------
(***************************************************************************)
(* An issue task before its fix loop and after it: triage, clarification,   *)
(* the owner's gate, the questions posted to the issue, the mail to the     *)
(* owner and the finalizers of plugins, with the contributors' replies, the *)
(* endpoints and the restarts that requeue it.  The fix loop itself is      *)
(* FixFlow; here it is one step with its outcomes.                          *)
(***************************************************************************)
EXTENDS Naturals, FiniteSets

CONSTANTS
    Question,    \* what the analyzer may want to know
    Plugin,      \* plugins with a task.finally hook, numbered in load order
    Thread,      \* threads that serve the endpoints for retries and decisions
    MaxRounds,   \* 3 rounds of clarification
    MaxComments, \* bound: replies of contributors
    MaxRequeues, \* bound: retries and decisions of the owner
    MaxFailures, \* bound: exceptions, and writes whose answer is lost
    MaxRestarts  \* bound: restarts of the service

ASSUME IssueAssumption ==
    /\ Plugin \subseteq Nat
    /\ {MaxRounds, MaxComments, MaxRequeues, MaxFailures, MaxRestarts} \subseteq Nat

VARIABLES
    status,    \* the task's status
    stage,     \* where process() is
    decision,  \* data["owner_decision_action"]
    heard,     \* this attempt: the decision that process_issue has read
    gated,     \* this attempt: the triage gate, or the analyzer, asks for the owner
    missing,   \* this attempt: what the analyzer asks for
    rounds,    \* clarification_requested entries in the timeline
    recorded,  \* questions in those entries
    row,       \* [questions -> outbox row issue-question:{task}:{hash}]
    asked,     \* [Question -> times it was posted to the issue (history)]
    comments,  \* replies of contributors on the issue
    onTheWay,  \* webhook deliveries of those replies
    known,     \* deliveries in the database
    mail,      \* [kind -> outbox row email:{task}:{kind}]
    sent,      \* [kind -> times the mail reached the owner (history)]
    finalizer, \* [Plugin -> record plugin-finalizer:{task}:{attempt}:{plugin}]
    thread,    \* requests of the endpoints: the decision they write back, and the
               \* number of such writes that they have seen
    raced,     \* a request wrote although another had written since it read (history)
    lapses,    \* exceptions that left a question perhaps asked, but not recorded
    requeues, failures, restarts

threadVars == <<thread, raced>>
askVars == <<missing, rounds, recorded, row, asked>>
replyVars == <<comments, onTheWay, known>>
endVars == <<mail, sent, finalizer>>
faultVars == <<failures, lapses, restarts>>
vars == <<status, stage, decision, heard, gated, askVars, replyVars, endVars, threadVars,
          requeues, faultVars>>

None == "none"
Word == {"implement", "reject", "defer"}
Mail == {"owner", "report"}
Waiting == {"waiting_for_owner", "waiting_for_contributor"}
Ended == {"closed_without_change", "non_actionable", "unsupported", "pr_created", "failed",
          "interrupted"}

Request == [busy: BOOLEAN, word: Word \cup {None}, seen: 0 .. requeues]
NoRequest == [busy |-> FALSE, word |-> None, seen |-> 0]

TypeOK ==
    /\ status \in {"queued", "running"} \cup Waiting \cup Ended
    /\ stage \in {None, "context", "close", "analyze", "ask", "posting", "record", "wait",
                  "fix", "mail_owner", "final", "finalize", "mail_report"}
    /\ {decision, heard} \subseteq Word \cup {None} /\ gated \in BOOLEAN
    /\ missing \subseteq Question /\ recorded \subseteq Question
    /\ rounds \in 0 .. MaxRounds
    /\ row \in [SUBSET Question -> {None, "executing", "unknown", "completed"}]
    /\ asked \in [Question -> Nat]
    /\ comments \in 0 .. MaxComments
    /\ onTheWay \subseteq 1 .. MaxComments /\ known \subseteq 1 .. MaxComments
    /\ mail \in [Mail -> {None, "pending", "failed", "completed"}]
    /\ sent \in [Mail -> Nat]
    /\ finalizer \in [Plugin -> {None, "incomplete", "completed"}]
    /\ thread \in [Thread -> Request] /\ raced \in BOOLEAN
    /\ requeues \in 0 .. MaxRequeues /\ failures \in 0 .. MaxFailures
    /\ lapses \in 0 .. failures /\ restarts \in 0 .. MaxRestarts

Init ==
    /\ status = "queued" /\ stage = None /\ decision = None /\ heard = None /\ gated = FALSE
    /\ missing = {} /\ rounds = 0 /\ recorded = {}
    /\ row = [Q \in SUBSET Question |-> None]
    /\ asked = [q \in Question |-> 0]
    /\ comments = 0 /\ onTheWay = {} /\ known = {}
    /\ mail = [k \in Mail |-> None] /\ sent = [k \in Mail |-> 0]
    /\ finalizer = [p \in Plugin |-> None]
    /\ thread = [x \in Thread |-> NoRequest] /\ raced = FALSE
    /\ requeues = 0 /\ failures = 0 /\ lapses = 0 /\ restarts = 0

Fails == failures < MaxFailures /\ failures' = failures + 1 /\ UNCHANGED restarts
Fault == Fails /\ UNCHANGED lapses
NoFault == UNCHANGED faultVars

(***************************************************************************)
(* process_issue.                                                           *)
(***************************************************************************)
Goto(s) == stage' = s /\ UNCHANGED status

(* change_status, and the return to process.                                *)
EndWith(s) == status' = s /\ stage' = "final"

outer == <<replyVars, endVars, threadVars, requeues>>
wordVars == <<decision, heard, gated>>

(* What process_issue has in its variables is lost at its end.              *)
locals == <<heard, gated, missing>>
EndAttempt == heard' = None /\ gated' = FALSE /\ missing' = {}

Start ==
    /\ status = "queued" /\ stage = None
    /\ status' = "running" /\ stage' = "context"
    /\ finalizer' = [p \in Plugin |-> None]
    /\ UNCHANGED <<wordVars, askVars, replyVars, mail, sent, threadVars, requeues, faultVars>>

(* The whole thread is read; the decision of the owner is read once, and     *)
(* comes first.                                                             *)
ReadContext ==
    /\ stage = "context"
    /\ gated' \in BOOLEAN
    /\ heard' = decision
    /\ CASE heard' = "reject" -> Goto("close")
         [] heard' = "defer" -> EndWith("waiting_for_owner")
         [] OTHER -> Goto("analyze") \/ EndWith("non_actionable")
    /\ UNCHANGED <<decision, askVars, outer, faultVars>>

(* close-issue:{task} is modelled as done or failed.                        *)
Close ==
    /\ stage = "close"
    /\ EndWith("closed_without_change")
    /\ UNCHANGED <<wordVars, askVars, outer, faultVars>>

(* Mutant of Wants: what was asked in earlier rounds is asked again.        *)
WantsAgain ==
    /\ stage = "analyze"
    /\ missing' \in SUBSET Question \ {{}}
    /\ IF rounds < MaxRounds THEN Goto("ask") ELSE EndWith("waiting_for_owner")
    /\ UNCHANGED <<wordVars, rounds, recorded, row, asked, outer, faultVars>>

(* The analyzer needs information; only what earlier rounds have not asked  *)
(* is posted, and after three rounds the owner decides.                     *)
Wants ==
    /\ stage = "analyze"
    /\ \E Q \in SUBSET Question \ {{}} :
         /\ missing' = Q \ recorded
         /\ IF rounds < MaxRounds
            THEN Goto(IF missing' = {} THEN "record" ELSE "ask")
            ELSE EndWith("waiting_for_owner")
    /\ UNCHANGED <<wordVars, rounds, recorded, row, asked, outer, faultVars>>

(* The gate of the owner stores the status before the mail is sent.         *)
Gate ==
    /\ stage = "analyze" /\ heard = None
    /\ gated' = TRUE
    /\ status' = "waiting_for_owner" /\ stage' = "mail_owner"
    /\ UNCHANGED <<decision, heard, askVars, outer, faultVars>>

Proceed ==
    /\ stage = "analyze" /\ (gated => heard # None)
    /\ Goto("fix") \/ EndWith("unsupported")
    /\ UNCHANGED <<wordVars, askVars, outer, faultVars>>

Fix ==
    /\ stage = "fix"
    /\ \E s \in {"pr_created", "waiting_for_owner"} : EndWith(s)
    /\ UNCHANGED <<wordVars, askVars, outer, faultVars>>

(* github_action of one question: a completed row is not posted again, and  *)
(* an unknown one raises.                                                   *)
Ask ==
    /\ stage = "ask"
    /\ CASE row[missing] = None -> Goto("posting") /\ row' = [row EXCEPT ![missing] = "executing"]
         [] row[missing] = "completed" -> Goto("record") /\ UNCHANGED row
         [] OTHER -> EndWith("failed") /\ UNCHANGED row
    /\ UNCHANGED <<wordVars, missing, rounds, recorded, asked, outer, faultVars>>

Posted == asked' = [q \in Question |-> asked[q] + IF q \in missing THEN 1 ELSE 0]

Post ==
    /\ stage = "posting"
    /\ Posted /\ Goto("record")
    /\ row' = [row EXCEPT ![missing] = "completed"]
    /\ UNCHANGED <<wordVars, missing, rounds, recorded, outer, faultVars>>

(* The request raises, or the database does when it is to keep the answer:   *)
(* the comment may be on the issue.                                         *)
PostRaises ==
    /\ stage = "posting" /\ Fails /\ lapses' = lapses + 1
    /\ Posted \/ UNCHANGED asked
    /\ \E s \in {"unknown", "executing"} : row' = [row EXCEPT ![missing] = s]
    /\ EndWith("failed")
    /\ UNCHANGED <<wordVars, missing, rounds, recorded, outer>>

Record ==
    /\ stage = "record"
    /\ rounds' = rounds + 1 /\ recorded' = recorded \cup missing
    /\ Goto("wait")
    /\ UNCHANGED <<wordVars, missing, row, asked, outer, faultVars>>

WaitForReply ==
    /\ stage = "wait"
    /\ EndWith("waiting_for_contributor")
    /\ UNCHANGED <<wordVars, askVars, outer, faultVars>>

(* Any exception ends the attempt: between the post and its record, a        *)
(* database error leaves a question of which the task knows nothing.        *)
Fail ==
    /\ stage \in {"context", "close", "analyze", "ask", "record", "wait", "fix"}
    /\ Fails /\ lapses' = lapses + IF stage = "record" THEN 1 ELSE 0
    /\ EndWith("failed")
    /\ UNCHANGED <<wordVars, askVars, outer>>

(***************************************************************************)
(* notify, and the finally of process.                                      *)
(***************************************************************************)
MailStage(k) == IF k = "owner" THEN "mail_owner" ELSE "mail_report"
NextStage(k) == IF k = "owner" THEN "final" ELSE None

mailRest == <<status, wordVars, askVars, replyVars, finalizer, threadVars, requeues>>

(* One row per task and kind: what is completed is never sent again.        *)
Notify(k) ==
    /\ stage = MailStage(k)
    /\ IF mail[k] = "completed" THEN UNCHANGED <<mail, sent>>
       ELSE /\ mail' = [mail EXCEPT ![k] = "completed"]
            /\ sent' = [sent EXCEPT ![k] = @ + 1]
    /\ stage' = NextStage(k)
    /\ UNCHANGED <<mailRest, faultVars>>

(* Mutant of NotifyFails: the failure is not recorded.                      *)
NotifyFailsSilently(k) ==
    /\ stage = MailStage(k) /\ mail[k] # "completed" /\ Fault
    /\ mail' = [mail EXCEPT ![k] = "pending"]
    /\ stage' = NextStage(k)
    /\ UNCHANGED <<mailRest, sent>>

(* SMTP fails, before or after the mail was taken: the task goes on.        *)
NotifyFails(k) ==
    /\ stage = MailStage(k) /\ mail[k] # "completed" /\ Fault
    /\ mail' = [mail EXCEPT ![k] = "failed"]
    /\ sent' = [sent EXCEPT ![k] = @ + 1] \/ UNCHANGED sent
    /\ stage' = NextStage(k)
    /\ UNCHANGED mailRest

(* The database fails before or after the mail to the owner: the attempt     *)
(* ends as failed, whatever the owner has decided meanwhile.                *)
NotifyRaises ==
    /\ stage = "mail_owner" /\ mail["owner"] # "completed" /\ Fault
    /\ mail' = [mail EXCEPT !["owner"] = "pending"]
    /\ sent' = [sent EXCEPT !["owner"] = @ + 1] \/ UNCHANGED sent
    /\ EndWith("failed")
    /\ UNCHANGED <<wordVars, askVars, replyVars, finalizer, threadVars, requeues>>

endRest == <<decision, rounds, recorded, row, asked, replyVars, mail, sent, threadVars,
             requeues>>

(* The status is read again; whatever waits or is queued has no finalizer,  *)
(* whatever is queued no report.                                            *)
Final ==
    /\ stage = "final"
    /\ Goto(CASE status = "queued" -> None
              [] status \in Waiting -> "mail_report"
              [] OTHER -> "finalize")
    /\ EndAttempt
    /\ UNCHANGED <<endRest, finalizer, faultVars>>

(* finalize_task: the plugins in load order, whatever the priorities of     *)
(* their hooks, each with a record of its own; an exception leaves the      *)
(* record incomplete.                                                       *)
Finalize(p) ==
    /\ stage = "finalize" /\ finalizer[p] = None
    /\ \A q \in Plugin : q < p => finalizer[q] # None
    /\ \/ /\ finalizer' = [finalizer EXCEPT ![p] = "completed"] /\ NoFault
       \/ /\ finalizer' = [finalizer EXCEPT ![p] = "incomplete"] /\ Fault
    /\ UNCHANGED <<endRest, locals, status, stage>>

Finalized ==
    /\ stage = "finalize" /\ \A p \in Plugin : finalizer[p] # None
    /\ Goto("mail_report")
    /\ UNCHANGED <<endRest, locals, finalizer, faultVars>>

(***************************************************************************)
(* Others.                                                                  *)
(***************************************************************************)
processVars == <<stage, heard, gated, askVars, endVars>>

(* A thread of an endpoint has read the task, found it fit, and holds the    *)
(* data that it will write back.                                            *)
Reads(x, word) ==
    /\ ~thread[x].busy
    /\ requeues + Cardinality({y \in Thread : thread[y].busy}) < MaxRequeues
    /\ thread' = [thread EXCEPT ![x] = [busy |-> TRUE, word |-> word, seen |-> requeues]]
    /\ UNCHANGED <<status, decision, processVars, replyVars, raced, requeues, faultVars>>

(* Mutant of CheckDecision: the endpoint does not look at the status.       *)
CheckDecisionAnyTime(x, d) == Reads(x, d)

(* owner_decision takes the new decision.                                   *)
CheckDecision(x, d) ==
    /\ status = "waiting_for_owner"
    /\ Reads(x, d)

(* Mutant of CheckRetry: the rows are not looked at.                        *)
CheckRetryUnchecked(x) ==
    /\ status \in {"failed", "interrupted"}
    /\ Reads(x, decision)

(* retry is refused while a row is not settled, and keeps the decision.     *)
CheckRetry(x) ==
    /\ status \in {"failed", "interrupted"}
    /\ \A Q \in SUBSET Question : row[Q] \notin {"executing", "unknown"}
    /\ Reads(x, decision)

(* The thread commits: the task is queued, whatever it has come to since,    *)
(* and its data are those that were read.                                   *)
Queue(x) ==
    /\ thread[x].busy /\ requeues < MaxRequeues
    /\ status' = "queued" /\ decision' = thread[x].word
    /\ requeues' = requeues + 1
    /\ raced' = (raced \/ thread[x].seen # requeues)
    /\ thread' = [thread EXCEPT ![x] = NoRequest]
    /\ UNCHANGED <<processVars, replyVars, faultVars>>

Comment ==
    /\ comments < MaxComments
    /\ comments' = comments + 1 /\ onTheWay' = onTheWay \cup {comments + 1}
    /\ UNCHANGED <<status, decision, processVars, known, threadVars, requeues, faultVars>>

(* Mutant of Deliver: a task is resumed only when the worker is through.    *)
DeliverIdle(c) ==
    /\ c \in onTheWay
    /\ onTheWay' = onTheWay \ {c} /\ known' = known \cup {c}
    /\ status' = IF c \notin known /\ status = "waiting_for_contributor" /\ stage = None
                 THEN "queued" ELSE status
    /\ UNCHANGED <<decision, processVars, comments, threadVars, requeues, faultVars>>

(* ingest_webhook: a delivery counts once, and resumes a task that waits.   *)
Deliver(c) ==
    /\ c \in onTheWay
    /\ onTheWay' = onTheWay \ {c} /\ known' = known \cup {c}
    /\ status' = IF c \notin known /\ status = "waiting_for_contributor"
                 THEN "queued" ELSE status
    /\ UNCHANGED <<decision, processVars, comments, threadVars, requeues, faultVars>>

(* GitHub delivers once more.                                               *)
Redeliver(c) ==
    /\ c \in known /\ onTheWay' = onTheWay \cup {c} /\ Fault
    /\ UNCHANGED <<status, decision, processVars, comments, known, threadVars, requeues>>

(* The service restarts, in the middle of a post or of a mail too.          *)
Restart ==
    /\ restarts < MaxRestarts /\ restarts' = restarts + 1
    /\ status' = IF status = "running" THEN "interrupted" ELSE status
    /\ stage' = None
    /\ row' = [Q \in SUBSET Question |-> IF row[Q] = "executing" THEN "unknown" ELSE row[Q]]
    /\ \/ stage = "posting" /\ Posted
       \/ UNCHANGED asked
    /\ \/ \E k \in Mail : /\ stage = MailStage(k) /\ mail[k] # "completed"
                          /\ mail' = [mail EXCEPT ![k] = "pending"]
                          /\ sent' = [sent EXCEPT ![k] = @ + 1]
       \/ UNCHANGED <<mail, sent>>
    /\ EndAttempt /\ thread' = [x \in Thread |-> NoRequest]
    /\ UNCHANGED <<decision, rounds, recorded, replyVars,
                   finalizer, raced, requeues, failures, lapses>>

Stopped == stage = None /\ status # "queued" /\ UNCHANGED vars

Work == \/ Start \/ ReadContext \/ Close \/ Wants \/ Gate \/ Proceed \/ Fix \/ Ask \/ Post
        \/ Record \/ WaitForReply \/ Final \/ Finalized
        \/ \E k \in Mail : Notify(k)
        \/ \E p \in Plugin : Finalize(p)

Next ==
    \/ Work \/ PostRaises \/ Fail \/ NotifyRaises \/ Comment \/ Restart \/ Stopped
    \/ \E k \in Mail : NotifyFails(k)
    \/ \E x \in Thread : CheckRetry(x) \/ Queue(x) \/ \E d \in Word : CheckDecision(x, d)
    \/ \E c \in 1 .. MaxComments : Deliver(c) \/ Redeliver(c)

Spec == Init /\ [][Next]_vars

(* The worker goes on, and GitHub delivers what it has sent.                *)
FairSpec == Spec /\ WF_vars(Work) /\ \A c \in 1 .. MaxComments : WF_vars(Deliver(c))

(***************************************************************************)
(* Properties.                                                              *)
(***************************************************************************)
(* A contributor is asked a question once, in all rounds, retries and       *)
(* resumptions, overlapping ones too; once more at most for every restart   *)
(* and for every exception between a post and its record.                   *)
QuestionsAreNew == \A q \in Question : asked[q] <= 1 + restarts + lapses

(* No attempt works on an issue that the owner has rejected or put off, and *)
(* none changes the repository past a gate the owner has not opened,        *)
(* although the owner may decide while process() is still in its mail.  An  *)
(* attempt goes by what it has read at its start; that is what the task     *)
(* says, too, unless one endpoint has overtaken another.                    *)
OwnerDecides ==
    /\ stage \in {"analyze", "ask", "posting", "record", "wait", "fix"} =>
           /\ heard \notin {"reject", "defer"}
           /\ raced \/ decision \notin {"reject", "defer"}
    /\ stage = "fix" /\ gated => heard = "implement" /\ (raced \/ decision = "implement")

(* A reply that is on its way to a task that waits for it resumes the task, *)
(* at whatever place of process() the delivery arrives.                     *)
RepliesResume ==
    \A c \in 1 .. MaxComments :
        (status = "waiting_for_contributor" /\ c \in onTheWay \ known)
            ~> (status # "waiting_for_contributor")

(* An attempt that has begun ends, and its end is mailed or the mail is     *)
(* recorded as failed, unless the service restarts or the task is queued    *)
(* again first.                                                             *)
EndsAreReported ==
    \A n \in 0 .. MaxRestarts :
        (status = "running" /\ restarts = n) ~>
            \/ mail["report"] \in {"completed", "failed"}
            \/ status = "queued" \/ restarts > n

(* The owner is written to once of each kind, through all retries and        *)
(* decisions; every failed mail and every restart may repeat it once.       *)
MailsAreFew == \A k \in Mail : sent[k] <= 1 + failures + restarts

(***************************************************************************)
(* The inductive invariant.                                                 *)
(***************************************************************************)
(* The task is running while process() is in its own work, unless an         *)
(* endpoint has written back over another's write.                          *)
Working == {"context", "close", "analyze", "ask", "posting", "record", "wait", "fix"}
WorkingRuns ==
    /\ status = "running" => stage \in Working
    /\ stage \in Working => status = "running" \/ (raced /\ status = "queued")

(* A task with a write in doubt is neither queued nor running again, unless  *)
(* a retry was overtaken by another.  A row in execution is in doubt when    *)
(* its request is not under way.                                            *)
InDoubt(Q) ==
    \/ row[Q] = "unknown"
    \/ row[Q] = "executing" /\ ~(stage = "posting" /\ missing = Q)
Doubt == \E Q \in SUBSET Question : InDoubt(Q)
DoubtStops == Doubt => raced \/ status \in {"failed", "interrupted"}

(* An endpoint that nobody has overtaken finds the task as it read it.      *)
Fresh(x) == thread[x].busy /\ thread[x].seen = requeues
FreshRequests ==
    \A x \in Thread : Fresh(x) =>
        /\ status \in {"waiting_for_owner", "failed", "interrupted"} /\ stage \notin Working
        /\ raced \/ ~Doubt

(* What an attempt has heard is what the task says.                         *)
HeardIsSaid == stage \in Working \ {"context"} => raced \/ heard = decision

(* What is about to be asked was in no earlier round, and there is a round. *)
Asks == {"ask", "posting", "record"}
NewRound == stage \in Asks => missing \cap recorded = {} /\ rounds < MaxRounds

(* A question that was asked once more than the service lost track of one is *)
(* one that will not be asked again.                                        *)
AskedIsKnown ==
    \A q \in Question :
        \/ asked[q] <= restarts + lapses
        \/ q \in recorded
        \/ stage = "record" /\ q \in missing

(* A mail leaves once; every failure and every restart may repeat it.        *)
MailsAreAccounted ==
    \A k \in Mail :
        sent[k] <= failures + restarts + IF mail[k] = "completed" THEN 1 ELSE 0

IInv == /\ TypeOK /\ WorkingRuns /\ DoubtStops /\ FreshRequests
        /\ HeardIsSaid /\ NewRound /\ AskedIsKnown /\ MailsAreAccounted
        /\ QuestionsAreNew /\ OwnerDecides
=============================================================================
