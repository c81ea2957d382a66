--------------------------- MODULE IssueTaskProofs ---------------------------
(***************************************************************************)
(* Proofs about IssueTask, for any questions, plugins and rounds, and any   *)
(* number of replies, requeues, failures and restarts: contributors are     *)
(* asked once, and the word of the owner is obeyed.                         *)
(***************************************************************************)
EXTENDS IssueTask, TLAPS

(***************************************************************************)
(* Types.                                                                   *)
(***************************************************************************)
(* Posting counts for the questions asked.                                  *)
LEMMA PostedTyped ==
    ASSUME TypeOK, Posted
    PROVE  asked' \in [Question -> Nat]
<1>1. \A q \in Question : asked[q] + (IF q \in missing THEN 1 ELSE 0) \in Nat
  BY DEF TypeOK
<1> QED
  BY <1>1 DEF Posted

(* The type invariant in parts, one per group of variables.                 *)
PlaceTyped ==
    /\ status \in {"queued", "running"} \cup Waiting \cup Ended
    /\ stage \in {None, "context", "close", "analyze", "ask", "posting", "record", "wait",
                  "fix", "mail_owner", "final", "finalize", "mail_report"}
    /\ {decision, heard} \subseteq Word \cup {None} /\ gated \in BOOLEAN
RowTyped == row \in [SUBSET Question -> {None, "executing", "unknown", "completed"}]
AskTyped ==
    /\ missing \subseteq Question /\ recorded \subseteq Question
    /\ rounds \in 0 .. MaxRounds
    /\ RowTyped /\ asked \in [Question -> Nat]
ReplyTyped ==
    /\ comments \in 0 .. MaxComments
    /\ onTheWay \subseteq 1 .. MaxComments /\ known \subseteq 1 .. MaxComments
MailTyped ==
    /\ mail \in [Mail -> {None, "pending", "failed", "completed"}]
    /\ sent \in [Mail -> Nat]
FinalTyped == finalizer \in [Plugin -> {None, "incomplete", "completed"}]
ThreadTyped ==
    /\ thread \in [Thread -> Request] /\ raced \in BOOLEAN
    /\ requeues \in 0 .. MaxRequeues
FaultTyped ==
    /\ failures \in 0 .. MaxFailures
    /\ lapses \in 0 .. failures /\ restarts \in 0 .. MaxRestarts
Typed == /\ PlaceTyped /\ AskTyped /\ ReplyTyped /\ MailTyped /\ FinalTyped
         /\ ThreadTyped /\ FaultTyped

(* The parts are the whole.                                                 *)
LEMMA TypedParts == (TypeOK => Typed) /\ (Typed' => TypeOK')
  BY DEF TypeOK, Typed, PlaceTyped, RowTyped, AskTyped, ReplyTyped, MailTyped, FinalTyped,
         ThreadTyped, FaultTyped

(* What a step leaves alone keeps its type.                                 *)
LEMMA Kept ==
    ASSUME TypeOK
    PROVE  /\ UNCHANGED row => RowTyped'
           /\ UNCHANGED askVars => AskTyped'
           /\ UNCHANGED replyVars => ReplyTyped'
           /\ UNCHANGED <<mail, sent>> => MailTyped'
           /\ UNCHANGED finalizer => FinalTyped'
           /\ UNCHANGED endVars => MailTyped' /\ FinalTyped'
           /\ UNCHANGED <<threadVars, requeues>> => ThreadTyped'
           /\ UNCHANGED faultVars => FaultTyped'
           /\ Fault => FaultTyped'
<1>1. UNCHANGED row => RowTyped'
  BY DEF TypeOK, RowTyped
<1>2. UNCHANGED askVars => AskTyped'
  BY DEF TypeOK, askVars, AskTyped, RowTyped
<1>3. UNCHANGED replyVars => ReplyTyped'
  BY DEF TypeOK, replyVars, ReplyTyped
<1>4. UNCHANGED <<mail, sent>> => MailTyped'
  BY DEF TypeOK, MailTyped
<1>5. UNCHANGED finalizer => FinalTyped'
  BY DEF TypeOK, FinalTyped
<1>6. UNCHANGED <<threadVars, requeues>> => ThreadTyped'
  BY DEF TypeOK, threadVars, ThreadTyped, Request
<1>7. UNCHANGED faultVars => FaultTyped'
  BY DEF TypeOK, faultVars, FaultTyped
<1>8. Fault => FaultTyped'
  BY IssueAssumption DEF TypeOK, Fault, Fails, FaultTyped
<1> QED
  BY <1>1, <1>2, <1>3, <1>4, <1>5, <1>6, <1>7, <1>8 DEF endVars

(* Type correctness is preserved.                                           *)
LEMMA TypeStep ==
    ASSUME TypeOK, NewRound, Next
    PROVE  TypeOK'
<1> USE DEF None, Waiting, Ended, Word, Typed
<1>0. Typed
  BY TypedParts
<1> SUFFICES Typed'
  BY TypedParts
<1>1. CASE Start
  <2>1. FinalTyped'
    BY <1>1 DEF Start, FinalTyped
  <2> QED
    BY <1>0, <1>1, <2>1, Kept DEF Start, PlaceTyped, wordVars
<1>2. CASE ReadContext
  BY <1>0, <1>2, Kept DEF ReadContext, Goto, EndWith, outer, wordVars, PlaceTyped
<1>3. CASE Close
  BY <1>0, <1>3, Kept DEF Close, EndWith, outer, wordVars, PlaceTyped
<1>4. CASE Wants
  <2>1. AskTyped'
    BY <1>0, <1>4 DEF Wants, AskTyped, RowTyped
  <2> QED
    BY <1>0, <1>4, <2>1, Kept DEF Wants, Goto, EndWith, outer, wordVars, PlaceTyped
<1>5. CASE Gate
  BY <1>0, <1>5, Kept DEF Gate, outer, wordVars, PlaceTyped
<1>6. CASE Proceed
  BY <1>0, <1>6, Kept DEF Proceed, Goto, EndWith, outer, wordVars, PlaceTyped
<1>7. CASE Fix
  BY <1>0, <1>7, Kept DEF Fix, EndWith, outer, wordVars, PlaceTyped
<1>8. CASE Ask
  <2>1. RowTyped'
    BY <1>0, <1>8 DEF Ask, AskTyped, RowTyped
  <2>2. AskTyped'
    BY <1>0, <1>8, <2>1 DEF Ask, AskTyped
  <2> QED
    BY <1>0, <1>8, <2>2, Kept DEF Ask, Goto, EndWith, outer, wordVars, PlaceTyped
<1>9. CASE Post
  <2>1. RowTyped'
    BY <1>0, <1>9 DEF Post, AskTyped, RowTyped
  <2>2. AskTyped'
    BY <1>0, <1>9, <2>1, PostedTyped DEF Post, AskTyped
  <2> QED
    BY <1>0, <1>9, <2>2, Kept DEF Post, Goto, outer, wordVars, PlaceTyped
<1>10. CASE PostRaises
  <2>1. RowTyped'
    BY <1>0, <1>10 DEF PostRaises, AskTyped, RowTyped
  <2>2. AskTyped'
    BY <1>0, <1>10, <2>1, PostedTyped DEF PostRaises, AskTyped
  <2>3. FaultTyped'
    BY <1>0, <1>10, IssueAssumption DEF PostRaises, Fails, FaultTyped
  <2> QED
    BY <1>0, <1>10, <2>2, <2>3, Kept DEF PostRaises, EndWith, outer, wordVars, PlaceTyped
<1>11. CASE Record
  <2>1. rounds' \in 0 .. MaxRounds
    BY <1>0, <1>11, IssueAssumption DEF Record, NewRound, Asks, AskTyped
  <2>2. AskTyped'
    BY <1>0, <1>11, <2>1 DEF Record, AskTyped, RowTyped
  <2> QED
    BY <1>0, <1>11, <2>2, Kept DEF Record, Goto, outer, wordVars, PlaceTyped
<1>12. CASE WaitForReply
  BY <1>0, <1>12, Kept DEF WaitForReply, EndWith, outer, wordVars, PlaceTyped
<1>13. CASE Fail
  <2>1. FaultTyped'
    BY <1>0, <1>13, IssueAssumption DEF Fail, Fails, FaultTyped
  <2> QED
    BY <1>0, <1>13, <2>1, Kept DEF Fail, EndWith, outer, wordVars, PlaceTyped
<1>14. ASSUME NEW k \in Mail, Notify(k) PROVE Typed'
  <2>1. mail' \in [Mail -> {None, "pending", "failed", "completed"}]
    BY <1>0, <1>14 DEF Notify, MailTyped
  <2>2. sent' \in [Mail -> Nat]
    <3>1. sent \in [Mail -> Nat] /\ sent[k] + 1 \in Nat
      BY <1>0, <1>14 DEF MailTyped
    <3>2. sent' = sent \/ sent' = [sent EXCEPT ![k] = sent[k] + 1]
      BY <1>14 DEF Notify
    <3> QED
      BY <1>14, <3>1, <3>2
  <2>3. stage' \in {None, "final"}
    BY <1>14 DEF Notify, NextStage
  <2>4. FaultTyped'
    BY <1>14, Kept DEF Notify
  <2>5. UNCHANGED mailRest
    BY <1>14 DEF Notify
  <2> QED
    BY <1>0, <2>1, <2>2, <2>3, <2>4, <2>5, Kept DEF mailRest, wordVars, MailTyped, PlaceTyped
<1>15. ASSUME NEW k \in Mail, NotifyFails(k) PROVE Typed'
  <2>1. mail' \in [Mail -> {None, "pending", "failed", "completed"}]
    BY <1>0, <1>15 DEF NotifyFails, MailTyped
  <2>2. sent' \in [Mail -> Nat]
    <3>1. sent \in [Mail -> Nat] /\ sent[k] + 1 \in Nat
      BY <1>0, <1>15 DEF MailTyped
    <3>2. sent' = sent \/ sent' = [sent EXCEPT ![k] = sent[k] + 1]
      BY <1>15 DEF NotifyFails
    <3> QED
      BY <1>15, <3>1, <3>2
  <2>3. stage' \in {None, "final"}
    BY <1>15 DEF NotifyFails, NextStage
  <2>4. FaultTyped'
    BY <1>15, Kept DEF NotifyFails
  <2>5. UNCHANGED mailRest
    BY <1>15 DEF NotifyFails
  <2> QED
    BY <1>0, <2>1, <2>2, <2>3, <2>4, <2>5, Kept DEF mailRest, wordVars, MailTyped, PlaceTyped
<1>16. CASE Final
  <2>1. AskTyped'
    BY <1>0, <1>16 DEF Final, EndAttempt, endRest, AskTyped, RowTyped
  <2> QED
    BY <1>0, <1>16, <2>1, Kept DEF Final, EndAttempt, Goto, endRest, PlaceTyped
<1>17. ASSUME NEW p \in Plugin, Finalize(p) PROVE Typed'
  <2>1. FinalTyped'
    BY <1>0, <1>17 DEF Finalize, FinalTyped
  <2>2. FaultTyped'
    BY <1>17, Kept DEF Finalize, NoFault
  <2>3. UNCHANGED askVars
    BY <1>17 DEF Finalize, endRest, locals, askVars
  <2> QED
    BY <1>0, <1>17, <2>1, <2>2, <2>3, Kept DEF Finalize, endRest, locals, PlaceTyped
<1>18. CASE Finalized
  <2>1. UNCHANGED askVars
    BY <1>18 DEF Finalized, endRest, locals, askVars
  <2> QED
    BY <1>0, <1>18, <2>1, Kept DEF Finalized, Goto, endRest, locals, PlaceTyped
<1>19. ASSUME NEW x \in Thread, NEW word \in Word \cup {None}, Reads(x, word) PROVE Typed'
  <2>1. [busy |-> TRUE, word |-> word, seen |-> requeues] \in Request
    BY <1>0, IssueAssumption DEF Request, ThreadTyped
  <2>2. ThreadTyped'
    BY <1>0, <1>19, <2>1 DEF Reads, Request, ThreadTyped
  <2> QED
    BY <1>0, <1>19, <2>2, Kept DEF Reads, processVars, PlaceTyped
<1>20. ASSUME NEW x \in Thread, Queue(x) PROVE Typed'
  <2>1. thread[x] \in Request
    BY <1>0, <1>20 DEF ThreadTyped
  <2>2. requeues \in Nat /\ requeues' = requeues + 1 /\ requeues' \in 0 .. MaxRequeues
    BY <1>0, <1>20, IssueAssumption DEF Queue, ThreadTyped
  <2>3. thread \in [Thread -> [busy: BOOLEAN, word: Word \cup {None}, seen: 0 .. requeues']]
    <3>1. 0 .. requeues \subseteq 0 .. requeues'
      BY <2>2
    <3> QED
      BY <1>0, <3>1 DEF ThreadTyped, Request
  <2>4. NoRequest \in [busy: BOOLEAN, word: Word \cup {None}, seen: 0 .. requeues']
    BY <2>2 DEF NoRequest
  <2>5. ThreadTyped'
    BY <1>20, <2>2, <2>3, <2>4 DEF Queue, Request, ThreadTyped
  <2>6. thread[x].word \in Word \cup {None}
    BY <2>1 DEF Request
  <2> QED
    BY <1>0, <1>20, <2>5, <2>6, Kept DEF Queue, processVars, PlaceTyped
<1>21. CASE Comment
  BY <1>0, <1>21, Kept, IssueAssumption DEF Comment, processVars, PlaceTyped, ReplyTyped
<1>22. ASSUME NEW c \in 1 .. MaxComments, Deliver(c) PROVE Typed'
  BY <1>0, <1>22, Kept, IssueAssumption
  DEF Deliver, processVars, PlaceTyped, ReplyTyped
<1>23. ASSUME NEW c \in 1 .. MaxComments, Redeliver(c) PROVE Typed'
  BY <1>0, <1>23, Kept, IssueAssumption
  DEF Redeliver, processVars, PlaceTyped, ReplyTyped
<1>24. CASE Restart
  <2>1. RowTyped'
    BY <1>0, <1>24 DEF Restart, AskTyped, RowTyped
  <2>2. AskTyped'
    BY <1>0, <1>24, <2>1, PostedTyped DEF Restart, EndAttempt, AskTyped
  <2>3. MailTyped'
    <3>1. CASE UNCHANGED <<mail, sent>>
      BY <3>1, Kept
    <3>2. ASSUME NEW k \in Mail, mail' = [mail EXCEPT ![k] = "pending"],
                 sent' = [sent EXCEPT ![k] = @ + 1]
          PROVE  MailTyped'
      BY <1>0, <3>2 DEF MailTyped
    <3> QED
      BY <1>24, <3>1, <3>2 DEF Restart
  <2>4. FaultTyped'
    BY <1>0, <1>24, IssueAssumption DEF Restart, FaultTyped
  <2>5. NoRequest \in Request
    BY <1>0, IssueAssumption DEF NoRequest, Request, ThreadTyped
  <2>6. ThreadTyped'
    BY <1>0, <1>24, <2>5 DEF Restart, ThreadTyped, Request
  <2> QED
    BY <1>0, <1>24, <2>2, <2>3, <2>4, <2>6, Kept DEF Restart, EndAttempt, PlaceTyped
<1>25. CASE Stopped
  BY <1>0, <1>25, Kept DEF Stopped, vars, PlaceTyped
<1>26. CASE NotifyRaises
  <2>1. mail' \in [Mail -> {None, "pending", "failed", "completed"}]
    BY <1>0, <1>26 DEF NotifyRaises, MailTyped
  <2>2. sent' \in [Mail -> Nat]
    BY <1>0, <1>26 DEF NotifyRaises, MailTyped
  <2> QED
    BY <1>0, <1>26, <2>1, <2>2, Kept
    DEF NotifyRaises, EndWith, wordVars, MailTyped, PlaceTyped
<1>27. decision \in Word \cup {None}
  BY <1>0 DEF PlaceTyped
<1>28. ASSUME NEW x \in Thread, CheckRetry(x) PROVE Typed'
  BY <1>19, <1>27, <1>28 DEF CheckRetry
<1>29. ASSUME NEW x \in Thread, NEW d \in Word, CheckDecision(x, d) PROVE Typed'
  BY <1>19, <1>29 DEF CheckDecision
<1> QED
  BY Next, <1>1, <1>2, <1>3, <1>4, <1>5, <1>6, <1>7, <1>8, <1>9, <1>10, <1>11, <1>12,
     <1>13, <1>14, <1>15, <1>16, <1>17, <1>18, <1>20, <1>21, <1>22, <1>23, <1>24,
     <1>25, <1>26, <1>28, <1>29
  DEF Next, Work

(***************************************************************************)
(* Where the task is.                                                       *)
(***************************************************************************)
(* A thread that writes while process() is at work has been overtaken.      *)
LEMMA LateQueue ==
    ASSUME IInv, NEW x \in Thread, Queue(x)
    PROVE  /\ stage \in Working => raced'
           /\ Doubt => raced'
<1>1. thread[x].busy /\ raced' = (raced \/ thread[x].seen # requeues)
  BY DEF Queue
<1> QED
  BY <1>1 DEF IInv, FreshRequests, Fresh

(* Every step keeps status and stage together, asks only what is new, and   *)
(* obeys the owner.                                                         *)
LEMMA StageStep ==
    ASSUME IInv, Next
    PROVE  WorkingRuns' /\ NewRound' /\ OwnerDecides' /\ HeardIsSaid'
<1> DEFINE Goal == WorkingRuns' /\ NewRound' /\ OwnerDecides' /\ HeardIsSaid'
<1> USE DEF None, IInv, WorkingRuns, Working, NewRound, Asks, OwnerDecides, HeardIsSaid,
            wordVars, outer, threadVars
<1>1. CASE Start
  BY <1>1 DEF Start
<1>2. CASE ReadContext
  BY <1>2 DEF ReadContext, Goto, EndWith, askVars
<1>3. CASE Close
  BY <1>3 DEF Close, EndWith
<1>4. CASE Wants
  BY <1>4 DEF Wants, Goto, EndWith
<1>5. CASE Gate
  BY <1>5 DEF Gate
<1>6. CASE Proceed
  BY <1>6 DEF Proceed, Goto, EndWith, TypeOK, Word
<1>7. CASE Fix
  BY <1>7 DEF Fix, EndWith
<1>8. CASE Ask
  BY <1>8 DEF Ask, Goto, EndWith
<1>9. CASE Post
  BY <1>9 DEF Post, Goto
<1>10. CASE PostRaises
  BY <1>10 DEF PostRaises, EndWith
<1>11. CASE Record
  BY <1>11 DEF Record, Goto
<1>12. CASE WaitForReply
  BY <1>12 DEF WaitForReply, EndWith
<1>13. CASE Fail
  BY <1>13 DEF Fail, EndWith
<1>14. ASSUME NEW k \in Mail, Notify(k) PROVE Goal
  BY <1>14 DEF Notify, MailStage, NextStage, mailRest
<1>15. ASSUME NEW k \in Mail, NotifyFails(k) PROVE Goal
  BY <1>15 DEF NotifyFails, MailStage, NextStage, mailRest
<1>16. CASE Final
  BY <1>16 DEF Final, Goto
<1>17. ASSUME NEW p \in Plugin, Finalize(p) PROVE Goal
  BY <1>17 DEF Finalize, endRest
<1>18. CASE Finalized
  BY <1>18 DEF Finalized, Goto
<1>19. ASSUME NEW x \in Thread, NEW word, Reads(x, word) PROVE Goal
  BY <1>19 DEF Reads, processVars, askVars
<1>20. ASSUME NEW x \in Thread, Queue(x) PROVE Goal
  <2>1. stage \in Working => raced'
    BY <1>20, LateQueue
  <2>2. status' = "queued" /\ UNCHANGED <<stage, heard, gated, missing, recorded, rounds>>
    BY <1>20 DEF Queue, processVars, askVars
  <2> QED
    BY <2>1, <2>2
<1>21. CASE Comment
  BY <1>21 DEF Comment, processVars, askVars
<1>22. ASSUME NEW c \in 1 .. MaxComments, Deliver(c) PROVE Goal
  BY <1>22 DEF Deliver, processVars, askVars
<1>23. ASSUME NEW c \in 1 .. MaxComments, Redeliver(c) PROVE Goal
  BY <1>23 DEF Redeliver, processVars, askVars
<1>24. CASE Restart
  BY <1>24 DEF Restart
<1>25. CASE Stopped
  BY <1>25 DEF Stopped, vars, askVars
<1>26. CASE NotifyRaises
  BY <1>26 DEF NotifyRaises, EndWith
<1> QED
  BY Next, <1>1, <1>2, <1>3, <1>4, <1>5, <1>6, <1>7, <1>8, <1>9, <1>10, <1>11, <1>12,
     <1>13, <1>14, <1>15, <1>16, <1>17, <1>18, <1>19, <1>20, <1>21, <1>22, <1>23, <1>24,
     <1>25, <1>26
  DEF Next, Work, CheckRetry, CheckDecision

(***************************************************************************)
(* Rows and questions.                                                      *)
(***************************************************************************)
(* Apart from the posting of questions, a restart and an exception, a step   *)
(* writes no row, asks nothing and loses track of nothing.                  *)
LEMMA OnlyPostsAsk ==
    ASSUME Next, ~Ask, ~Post, ~PostRaises, ~Restart
    PROVE  /\ row' = row /\ asked' = asked /\ restarts' = restarts
           /\ ~Fail => lapses' = lapses
<1> USE DEF askVars, faultVars, Fault, Fails, NoFault
<1>1. CASE Work
  BY <1>1 DEF Work, Start, ReadContext, Close, Wants, Gate, Proceed, Fix, Record,
         WaitForReply, Notify, mailRest, Final, Finalize, Finalized, endRest
<1>2. CASE Fail \/ NotifyRaises \/ Comment \/ Stopped
  BY <1>2 DEF Fail, NotifyRaises, Comment, Stopped, processVars, vars
<1>3. CASE \E k \in Mail : NotifyFails(k)
  BY <1>3 DEF NotifyFails, mailRest
<1>4. CASE \E x \in Thread : CheckRetry(x) \/ Queue(x) \/ \E d \in Word : CheckDecision(x, d)
  BY <1>4 DEF CheckRetry, Queue, CheckDecision, Reads, processVars
<1>5. CASE \E c \in 1 .. MaxComments : Deliver(c) \/ Redeliver(c)
  BY <1>5 DEF Deliver, Redeliver, processVars
<1> QED
  BY <1>1, <1>2, <1>3, <1>4, <1>5 DEF Next

(* A posting under way is left alone by every other step, and only Ask       *)
(* begins one.                                                              *)
LEMMA PostingStays ==
    ASSUME Next, ~Ask, ~Post, ~PostRaises, ~Restart
    PROVE  /\ stage = "posting" => stage' = "posting" /\ missing' = missing
           /\ stage' = "posting" => stage = "posting"
<1> USE DEF None, Goto, EndWith, askVars
<1>1. CASE Work
  BY <1>1 DEF Work, Start, ReadContext, Close, Wants, Gate, Proceed, Fix, Record,
         WaitForReply, Notify, MailStage, NextStage, Final, Finalize, Finalized, locals
<1>2. CASE Fail \/ NotifyRaises \/ Comment \/ Stopped
  BY <1>2 DEF Fail, NotifyRaises, Comment, Stopped, processVars, vars
<1>3. CASE \E k \in Mail : NotifyFails(k)
  BY <1>3 DEF NotifyFails, MailStage, NextStage
<1>4. CASE \E x \in Thread : CheckRetry(x) \/ Queue(x) \/ \E d \in Word : CheckDecision(x, d)
  BY <1>4 DEF CheckRetry, Queue, CheckDecision, Reads, processVars
<1>5. CASE \E c \in 1 .. MaxComments : Deliver(c) \/ Redeliver(c)
  BY <1>5 DEF Deliver, Redeliver, processVars
<1> QED
  BY <1>1, <1>2, <1>3, <1>4, <1>5 DEF Next

(* Doubt arises only where a posting raises, or the service restarts.       *)
LEMMA DoubtIsOld ==
    ASSUME IInv, Next, ~PostRaises, ~Restart, Doubt'
    PROVE  Doubt
<1> USE DEF Doubt, InDoubt, None
<1>0. /\ row \in [SUBSET Question -> {None, "executing", "unknown", "completed"}]
      /\ missing \in SUBSET Question
  BY DEF IInv, TypeOK
<1>1. CASE Ask
  <2>1. missing' = missing /\ stage = "ask"
    BY <1>1 DEF Ask
  <2>2. \/ row' = [row EXCEPT ![missing] = "executing"] /\ stage' = "posting"
        \/ row' = row
    BY <1>1 DEF Ask, Goto
  <2> QED
    BY <1>0, <2>1, <2>2
<1>2. CASE Post
  <2>1. row' = [row EXCEPT ![missing] = "completed"] /\ stage = "posting"
    BY <1>2 DEF Post
  <2> QED
    BY <1>0, <2>1
<1>3. CASE ~Ask /\ ~Post
  BY <1>3, OnlyPostsAsk, PostingStays
<1> QED
  BY <1>1, <1>2, <1>3

(* The worker and the deliveries pass by a task that waits for its owner or  *)
(* has failed.                                                              *)
Resting == status \in {"waiting_for_owner", "failed", "interrupted"} /\ stage \notin Working
LEMMA RestingStays ==
    ASSUME Next, Resting, ~Restart, \A x \in Thread : ~Queue(x)
    PROVE  /\ status' \in {status, "failed"} /\ stage' \notin Working
           /\ raced' = raced /\ requeues' = requeues /\ ~PostRaises
<1> DEFINE Goal == /\ status' \in {status, "failed"} /\ stage' \notin Working
                   /\ raced' = raced /\ requeues' = requeues
<1> USE DEF Resting, Working, None, Goto, EndWith, outer, threadVars
<1>0. ~PostRaises
  BY DEF PostRaises
<1>1. ASSUME Work PROVE Goal
  BY <1>1 DEF Work, Start, ReadContext, Close, Wants, Gate, Proceed, Fix, Ask, Post, Record,
         WaitForReply, Notify, MailStage, NextStage, mailRest, Final, Finalize, Finalized,
         endRest
<1>2. ASSUME Fail \/ NotifyRaises \/ Comment \/ Stopped PROVE Goal
  BY <1>2 DEF Fail, NotifyRaises, Comment, Stopped, processVars, vars
<1>3. ASSUME \E k \in Mail : NotifyFails(k) PROVE Goal
  BY <1>3 DEF NotifyFails, MailStage, NextStage, mailRest
<1>4. ASSUME \E x \in Thread : CheckRetry(x) \/ \E d \in Word : CheckDecision(x, d)
      PROVE  Goal
  BY <1>4 DEF CheckRetry, CheckDecision, Reads, processVars
<1>5. ASSUME \E c \in 1 .. MaxComments : Deliver(c) \/ Redeliver(c) PROVE Goal
  BY <1>5 DEF Deliver, Redeliver, processVars
<1> QED
  BY <1>0, <1>1, <1>2, <1>3, <1>4, <1>5 DEF Next

(* Nothing but the write of an overtaken request makes the requests race.   *)
LEMMA RacedStays ==
    ASSUME Next, raced
    PROVE  raced'
<1> USE DEF outer, threadVars
<1>1. CASE Work
  BY <1>1 DEF Work, Start, ReadContext, Close, Wants, Gate, Proceed, Fix, Ask, Post, Record,
         WaitForReply, Notify, mailRest, Final, Finalize, Finalized, endRest
<1>2. CASE PostRaises \/ Fail \/ NotifyRaises \/ Comment \/ Stopped \/ Restart
  BY <1>2 DEF PostRaises, Fail, NotifyRaises, Comment, Stopped, Restart, vars
<1>3. CASE \E k \in Mail : NotifyFails(k)
  BY <1>3 DEF NotifyFails, mailRest
<1>4. CASE \E x \in Thread : CheckRetry(x) \/ Queue(x) \/ \E d \in Word : CheckDecision(x, d)
  BY <1>4 DEF CheckRetry, Queue, CheckDecision, Reads
<1>5. CASE \E c \in 1 .. MaxComments : Deliver(c) \/ Redeliver(c)
  BY <1>5 DEF Deliver, Redeliver
<1> QED
  BY <1>1, <1>2, <1>3, <1>4, <1>5 DEF Next

(* A task with a write in doubt has stopped, unless requests race.          *)
LEMMA DoubtRests ==
    ASSUME IInv, Doubt, ~raced
    PROVE  status \in {"failed", "interrupted"} /\ Resting
  BY DEF IInv, DoubtStops, WorkingRuns, Resting

(* Doubt stops the task, and stops it still.                                *)
LEMMA DoubtStep ==
    ASSUME IInv, Next
    PROVE  DoubtStops'
<1> SUFFICES ASSUME Doubt', ~raced' PROVE status' \in {"failed", "interrupted"}
  BY DEF DoubtStops
<1>0. ~raced
  BY RacedStays
<1>1. CASE PostRaises
  BY <1>1 DEF PostRaises, EndWith
<1>2. CASE Restart
  <2>1. status' = IF status = "running" THEN "interrupted" ELSE status
    BY <1>2 DEF Restart
  <2>2. CASE Doubt
    BY <1>0, <2>1, <2>2, DoubtRests
  <2>3. CASE ~Doubt
    <3>1. PICK Q \in SUBSET Question : InDoubt(Q)'
      BY DEF Doubt
    <3>2. row[Q] \in {"unknown", "executing"}
      BY <1>2, <3>1 DEF Restart, InDoubt
    <3>3. stage = "posting"
      BY <2>3, <3>2 DEF Doubt, InDoubt
    <3> QED
      BY <1>0, <2>1, <3>3 DEF IInv, WorkingRuns, Working
  <2> QED
    BY <2>2, <2>3
<1>3. CASE ~PostRaises /\ ~Restart
  <2>1. Doubt
    BY <1>3, DoubtIsOld
  <2>2. \A x \in Thread : ~Queue(x)
    BY <2>1, LateQueue
  <2> QED
    BY <1>0, <1>3, <2>1, <2>2, DoubtRests, RestingStays
<1> QED
  BY <1>1, <1>2, <1>3

(* Only an endpoint reads, and only an endpoint or a restart lets it go.    *)
LEMMA ThreadsStay ==
    ASSUME Next, ~Restart, \A x \in Thread : ~Queue(x),
           \A x \in Thread : ~CheckRetry(x) /\ \A d \in Word : ~CheckDecision(x, d)
    PROVE  thread' = thread /\ requeues' = requeues
<1> USE DEF outer, threadVars
<1>1. CASE Work
  BY <1>1 DEF Work, Start, ReadContext, Close, Wants, Gate, Proceed, Fix, Ask, Post, Record,
         WaitForReply, Notify, mailRest, Final, Finalize, Finalized, endRest
<1>2. CASE PostRaises \/ Fail \/ NotifyRaises \/ Comment \/ Stopped
  BY <1>2 DEF PostRaises, Fail, NotifyRaises, Comment, Stopped, vars
<1>3. CASE \E k \in Mail : NotifyFails(k)
  BY <1>3 DEF NotifyFails, mailRest
<1>4. CASE \E c \in 1 .. MaxComments : Deliver(c) \/ Redeliver(c)
  BY <1>4 DEF Deliver, Redeliver
<1> QED
  BY <1>1, <1>2, <1>3, <1>4 DEF Next

(* A request that nobody has overtaken finds a task that it may queue.      *)
LEMMA FreshStep ==
    ASSUME IInv, Next
    PROVE  FreshRequests'
<1> DEFINE Fit == Resting /\ (raced \/ ~Doubt)
<1>0. /\ thread \in [Thread -> Request] /\ requeues \in Nat
      /\ \A x \in Thread : Fresh(x) => Fit
  BY IssueAssumption DEF IInv, TypeOK, FreshRequests, Resting
<1> SUFFICES ASSUME NEW x \in Thread, Fresh(x)' PROVE Fit'
  BY DEF FreshRequests, Resting
<1>1. ~Restart
  BY DEF Restart, Fresh, NoRequest
<1>2. ASSUME NEW y \in Thread, Queue(y) PROVE FALSE
  <2>1. requeues' = requeues + 1 /\ thread' = [thread EXCEPT ![y] = NoRequest]
    BY <1>2 DEF Queue
  <2>2. thread'[x] = IF x = y THEN NoRequest ELSE thread[x]
    BY <1>0, <2>1
  <2>3. thread[x].seen \in 0 .. requeues
    BY <1>0 DEF Request
  <2> QED
    BY <1>0, <2>1, <2>2, <2>3 DEF Fresh, NoRequest
<1>3. ASSUME NEW y \in Thread, NEW word, Reads(y, word), Fit PROVE Fit'
  BY <1>3 DEF Reads, processVars, askVars, Resting, Doubt, InDoubt
<1>4. ASSUME NEW y \in Thread, CheckRetry(y) PROVE Fit
  BY <1>4 DEF CheckRetry, IInv, WorkingRuns, Resting, Doubt, InDoubt
<1>5. ASSUME NEW y \in Thread, NEW d \in Word, CheckDecision(y, d) PROVE Fit
  BY <1>5 DEF CheckDecision, IInv, WorkingRuns, DoubtStops, Resting
<1>6. CASE \A y \in Thread : ~CheckRetry(y) /\ \A d \in Word : ~CheckDecision(y, d)
  <2>1. thread' = thread /\ requeues' = requeues
    BY <1>1, <1>2, <1>6, ThreadsStay
  <2>2. CASE Fit
    <3>1. /\ status' \in {status, "failed"} /\ stage' \notin Working
          /\ raced' = raced /\ ~PostRaises
      BY <1>1, <1>2, <2>2, RestingStays
    <3>2. Doubt' => Doubt
      BY <1>1, <3>1, DoubtIsOld
    <3> QED
      BY <2>2, <3>1, <3>2 DEF Resting
  <2>3. CASE ~Fit
    BY <1>0, <2>1, <2>3 DEF Fresh
  <2> QED
    BY <2>2, <2>3
<1> QED
  BY <1>3, <1>4, <1>5, <1>6 DEF CheckRetry, CheckDecision

(* What is about to be asked was not asked more often than the service lost  *)
(* track of a question.                                                     *)
LEMMA NotYetAsked ==
    ASSUME IInv, stage \in {"ask", "posting"}
    PROVE  \A q \in missing : asked[q] <= restarts + lapses
  BY DEF IInv, AskedIsKnown, NewRound, Asks, TypeOK

(* Every other step forgets nothing that was asked and recorded: only the    *)
(* step to the next wait, or an exception, leaves the recording of a round.  *)
LEMMA RecordsStay ==
    ASSUME Next, ~Ask, ~Post, ~PostRaises, ~Restart, ~Record, ~Fail
    PROVE  /\ recorded' = recorded
           /\ stage = "record" => stage' = "record" /\ missing' = missing
<1> USE DEF None, Goto, EndWith, askVars
<1>1. CASE Work
  BY <1>1 DEF Work, Start, ReadContext, Close, Wants, Gate, Proceed, Fix,
         WaitForReply, Notify, MailStage, NextStage, mailRest, Final, Finalize, Finalized,
         endRest, locals
<1>2. CASE NotifyRaises \/ Comment \/ Stopped
  BY <1>2 DEF NotifyRaises, Comment, Stopped, processVars, vars
<1>3. CASE \E k \in Mail : NotifyFails(k)
  BY <1>3 DEF NotifyFails, MailStage, NextStage, mailRest
<1>4. CASE \E x \in Thread : CheckRetry(x) \/ Queue(x) \/ \E d \in Word : CheckDecision(x, d)
  BY <1>4 DEF CheckRetry, Queue, CheckDecision, Reads, processVars
<1>5. CASE \E c \in 1 .. MaxComments : Deliver(c) \/ Redeliver(c)
  BY <1>5 DEF Deliver, Redeliver, processVars
<1> QED
  BY <1>1, <1>2, <1>3, <1>4, <1>5 DEF Next

(* What was asked stays known, and is not asked again.                      *)
LEMMA AskedStep ==
    ASSUME IInv, Next
    PROVE  AskedIsKnown' /\ QuestionsAreNew'
<1>0. /\ missing \in SUBSET Question /\ asked \in [Question -> Nat]
      /\ restarts \in Nat /\ lapses \in Nat /\ failures \in Nat
  BY IssueAssumption DEF IInv, TypeOK
<1>1. CASE Ask
  BY <1>1 DEF Ask, faultVars, IInv, AskedIsKnown, QuestionsAreNew
<1>2. CASE Post
  <2>1. \A q \in missing : asked[q] <= restarts + lapses
    BY <1>2, NotYetAsked DEF Post
  <2>2. /\ stage = "posting" /\ stage' = "record" /\ missing' = missing
        /\ recorded' = recorded /\ restarts' = restarts /\ lapses' = lapses
    BY <1>2 DEF Post, Goto, faultVars
  <2>3. ASSUME NEW q \in Question
        PROVE  asked'[q] = asked[q] + IF q \in missing THEN 1 ELSE 0
    BY <1>2, <2>3 DEF Post, Posted
  <2>4. ASSUME NEW q \in Question, q \in missing
        PROVE  asked'[q] <= 1 + restarts + lapses
    BY <1>0, <2>1, <2>3, <2>4
  <2>5. ASSUME NEW q \in Question, q \notin missing
        PROVE  asked'[q] = asked[q]
    BY <1>0, <2>3, <2>5
  <2> QED
    BY <2>2, <2>4, <2>5 DEF IInv, AskedIsKnown, QuestionsAreNew
<1>3. ASSUME restarts' \in Nat, lapses' \in Nat, restarts' + lapses' = restarts + lapses + 1,
             recorded' = recorded, asked' = asked \/ (stage = "posting" /\ Posted)
      PROVE  AskedIsKnown' /\ QuestionsAreNew'
  <2>1. ASSUME NEW q \in Question
        PROVE  \/ asked'[q] = asked[q]
               \/ stage = "posting" /\ q \in missing /\ asked'[q] = asked[q] + 1
    BY <1>0, <1>3, <2>1 DEF Posted
  <2>2. ASSUME NEW q \in Question
        PROVE  asked'[q] \in Nat /\ asked'[q] <= restarts + lapses + 1
    BY <1>0, <2>1, <2>2, NotYetAsked DEF IInv, QuestionsAreNew
  <2>3. \A q \in Question : asked'[q] <= restarts' + lapses'
    BY <1>3, <2>2
  <2> QED
    BY <1>3, <2>2, <2>3 DEF AskedIsKnown, QuestionsAreNew
<1>4. CASE PostRaises \/ (Fail /\ stage = "record")
  <2>1. lapses' = lapses + 1 /\ restarts' = restarts /\ recorded' = recorded
    BY <1>4 DEF PostRaises, Fail, Fails, askVars
  <2>2. asked' = asked \/ (stage = "posting" /\ Posted)
    BY <1>4 DEF PostRaises, Fail, askVars
  <2> QED
    BY <1>0, <1>3, <2>1, <2>2
<1>5. CASE Fail /\ stage # "record"
  <2>1. lapses' = lapses /\ restarts' = restarts /\ UNCHANGED <<recorded, asked>>
    BY <1>0, <1>5 DEF Fail, Fails, askVars
  <2> QED
    BY <1>5, <2>1 DEF IInv, AskedIsKnown, QuestionsAreNew
<1>6. CASE Restart
  <2>1. restarts' = restarts + 1 /\ lapses' = lapses /\ recorded' = recorded
    BY <1>6 DEF Restart
  <2>2. asked' = asked \/ (stage = "posting" /\ Posted)
    BY <1>6 DEF Restart
  <2> QED
    BY <1>0, <1>3, <2>1, <2>2
<1>7. CASE Record
  BY <1>7 DEF Record, faultVars, IInv, AskedIsKnown, QuestionsAreNew
<1>8. CASE ~Ask /\ ~Post /\ ~PostRaises /\ ~Restart /\ ~Record /\ ~Fail
  <2>1. asked' = asked /\ restarts' = restarts /\ lapses' = lapses
    BY <1>8, OnlyPostsAsk
  <2>2. /\ recorded' = recorded
        /\ stage = "record" => stage' = "record" /\ missing' = missing
    BY <1>8, RecordsStay
  <2> QED
    BY <2>1, <2>2 DEF IInv, AskedIsKnown, QuestionsAreNew
<1> QED
  BY <1>1, <1>2, <1>4, <1>5, <1>6, <1>7, <1>8

(***************************************************************************)
(* Mails.                                                                   *)
(***************************************************************************)
(* Only a mail, its failure and a restart touch the rows of the mails.      *)
LEMMA OnlyMailsMail ==
    ASSUME Next, ~Restart, ~NotifyRaises, \A k \in Mail : ~Notify(k) /\ ~NotifyFails(k)
    PROVE  /\ mail' = mail /\ sent' = sent /\ restarts' = restarts
           /\ failures' = failures \/ failures' = failures + 1
  BY DEF Next, Work, Start, ReadContext, Close, Wants, Gate, Proceed, Fix, Ask, Post, Record,
         WaitForReply, Final, Finalized, Finalize, PostRaises, Fail, Comment, Stopped,
         CheckDecision, CheckRetry, Reads, Queue, Deliver, Redeliver, Fault, Fails, NoFault,
         faultVars, outer, endVars, endRest, processVars, vars

(* Every mail is accounted for by a completed row, a failure or a restart.  *)
LEMMA MailStep ==
    ASSUME IInv, Next
    PROVE  MailsAreAccounted'
<1>0. /\ failures \in Nat /\ restarts \in Nat
      /\ mail \in [Mail -> {None, "pending", "failed", "completed"}]
      /\ sent \in [Mail -> Nat] /\ MailsAreAccounted
  BY IssueAssumption DEF IInv, TypeOK
<1>1. CASE \E k \in Mail : Notify(k)
  BY <1>0, <1>1 DEF Notify, faultVars, MailsAreAccounted
<1>2. CASE \E k \in Mail : NotifyFails(k)
  BY <1>0, <1>2 DEF NotifyFails, Fault, Fails, MailsAreAccounted
<1>3. CASE Restart
  <2>1. restarts' = restarts + 1 /\ failures' = failures
    BY <1>3 DEF Restart
  <2>2. CASE UNCHANGED <<mail, sent>>
    BY <1>0, <2>1, <2>2 DEF MailsAreAccounted
  <2>3. CASE \E k \in Mail : /\ mail[k] # "completed"
                             /\ mail' = [mail EXCEPT ![k] = "pending"]
                             /\ sent' = [sent EXCEPT ![k] = @ + 1]
    BY <1>0, <2>1, <2>3 DEF MailsAreAccounted
  <2> QED
    BY <1>3, <2>2, <2>3 DEF Restart
<1>4. CASE NotifyRaises
  BY <1>0, <1>4 DEF NotifyRaises, Fault, Fails, MailsAreAccounted
<1>5. CASE ~Restart /\ ~NotifyRaises /\ \A k \in Mail : ~Notify(k) /\ ~NotifyFails(k)
  BY <1>0, <1>5, OnlyMailsMail DEF MailsAreAccounted
<1> QED
  BY <1>1, <1>2, <1>3, <1>4, <1>5

(***************************************************************************)
(* The theorems.                                                            *)
(***************************************************************************)
(* The invariant holds initially: the task is queued and nothing was asked. *)
THEOREM Initially == Init => IInv
<1> SUFFICES ASSUME Init PROVE IInv
  OBVIOUS
<1> USE IssueAssumption DEF Init, None
<1>2. TypeOK
  <2>1. /\ row \in [SUBSET Question -> {None, "executing", "unknown", "completed"}]
        /\ asked \in [Question -> Nat]
    OBVIOUS
  <2>2. /\ mail \in [Mail -> {None, "pending", "failed", "completed"}]
        /\ sent \in [Mail -> Nat]
        /\ finalizer \in [Plugin -> {None, "incomplete", "completed"}]
    OBVIOUS
  <2>3. /\ {MaxRounds, MaxComments, MaxRequeues, MaxFailures, MaxRestarts} \subseteq Nat
        /\ \A n \in Nat : 0 \in 0 .. n
    OBVIOUS
  <2>4. thread \in [Thread -> Request]
    BY DEF NoRequest, Request
  <2> QED
    BY <2>1, <2>2, <2>3, <2>4 DEF TypeOK, Waiting, Ended
<1>3. WorkingRuns /\ NewRound /\ OwnerDecides /\ HeardIsSaid
  BY DEF WorkingRuns, Working, NewRound, Asks, OwnerDecides, HeardIsSaid
<1>4. DoubtStops /\ FreshRequests
  BY DEF DoubtStops, Doubt, InDoubt, FreshRequests, Fresh, NoRequest
<1>5. AskedIsKnown /\ MailsAreAccounted /\ QuestionsAreNew
  BY DEF AskedIsKnown, MailsAreAccounted, QuestionsAreNew
<1> QED
  BY <1>2, <1>3, <1>4, <1>5 DEF IInv

(* Every step of the worker, of a contributor, of the owner and of the       *)
(* service itself preserves the invariant.                                  *)
THEOREM Inductive == IInv /\ [Next]_vars => IInv'
<1>1. ASSUME IInv, Next PROVE IInv'
  BY <1>1, TypeStep, StageStep, DoubtStep, FreshStep, AskedStep, MailStep DEF IInv
<1>2. ASSUME IInv, UNCHANGED vars PROVE IInv'
  <2>1. /\ UNCHANGED <<status, stage, decision, heard, gated, missing, recorded, rounds, row,
                       asked, thread, raced, requeues, lapses, restarts>>
        /\ UNCHANGED <<replyVars, mail, sent, finalizer, failures>>
    BY <1>2 DEF vars, askVars, endVars, threadVars, faultVars
  <2>2. TypeOK'
    <3>1. TypeOK /\ PlaceTyped'
      BY <1>2, <2>1, TypedParts DEF IInv, Typed, PlaceTyped
    <3> QED
      BY <1>2, <3>1, Kept, TypedParts DEF vars, Typed
  <2>3. WorkingRuns' /\ NewRound' /\ OwnerDecides' /\ HeardIsSaid'
    BY <1>2, <2>1 DEF IInv, WorkingRuns, NewRound, OwnerDecides, HeardIsSaid
  <2>4. Doubt' = Doubt
    BY <2>1 DEF Doubt, InDoubt
  <2>5. DoubtStops' /\ FreshRequests'
    BY <1>2, <2>1, <2>4 DEF IInv, DoubtStops, FreshRequests, Fresh
  <2>6. AskedIsKnown' /\ QuestionsAreNew'
    BY <1>2, <2>1 DEF IInv, AskedIsKnown, QuestionsAreNew
  <2>7. MailsAreAccounted'
    BY <1>2, <2>1 DEF IInv, MailsAreAccounted
  <2> QED
    BY <2>2, <2>3, <2>5, <2>6, <2>7 DEF IInv
<1> QED
  BY <1>1, <1>2

(* The invariant holds in every state of every behaviour.                   *)
THEOREM Invariance == Spec => []IInv
  BY Initially, Inductive, PTL DEF Spec

(* Task, thread, rows, mails and finalizers stay in their types.            *)
THEOREM TypeCorrect == Spec => []TypeOK
<1>1. IInv => TypeOK
  BY DEF IInv
<1> QED
  BY <1>1, Invariance, PTL

(* github_action with its row per set of questions and the list of what      *)
(* earlier rounds asked: a contributor reads a question once, whatever      *)
(* fails, waits or is retried, once or by two requests at a time, and once   *)
(* more at most for each restart and for each exception between a post and  *)
(* its record.                                                              *)
THEOREM AskedOnce == Spec => []QuestionsAreNew
<1>1. IInv => QuestionsAreNew
  BY DEF IInv
<1> QED
  BY <1>1, Invariance, PTL

(* notify with its row per task and kind: whatever is retried, decided or    *)
(* resumed, the owner reads a mail of each kind once, and once more at most *)
(* for each failure and each restart.                                       *)
THEOREM MailedOnce == Spec => []MailsAreFew
<1>1. IInv => MailsAreFew
  BY IssueAssumption DEF IInv, TypeOK, MailsAreAccounted, MailsAreFew
<1> QED
  BY <1>1, Invariance, PTL

(* The worker never works past a rejection, a deferral or an unopened gate   *)
(* of the owner as it has read them, whenever the owner answers; and what it *)
(* has read is what the task says, unless one request has overtaken another. *)
THEOREM OwnerObeyed == Spec => []OwnerDecides
<1>1. IInv => OwnerDecides
  BY DEF IInv
<1> QED
  BY <1>1, Invariance, PTL
=============================================================================
