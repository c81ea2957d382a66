--------------------------- MODULE PluginRpcProofs ---------------------------
(***************************************************************************)
(* Proofs about PluginRpc, for any requests, retries and size of the pipe.  *)
(***************************************************************************)
EXTENDS PluginRpc, TLAPS

(* What is told was done: an outcome "result" that is under way in a        *)
(* message, a future or a task of the host has its cause.                   *)
HasComment(r) == \E other \in posted : Invocation[other] = Invocation[r]

AnswersAreEarned ==
    /\ \A i \in DOMAIN stdout :
          stdout[i].outcome = "result" /\ stdout[i].request # StopRequest
              => stdout[i].request \in finished
    /\ \A r \in Request \ {StopRequest} : future[r] = "result" => r \in finished

TellingIsEarned ==
    /\ \A r \in Request : served[r].outcome = "result" => HasComment(r)
    /\ \A i \in DOMAIN stdin : stdin[i].outcome = "result" => HasComment(stdin[i].request)
    /\ \A r \in Request : asked[r] = "result" => HasComment(r)

(* The row of the outbox knows of the comment that is made and was made.    *)
RowsKnow ==
    /\ \A r \in Request : served[r].pc = "posting" => Row(r) = "executing"
    /\ \A r, other \in Request :
          served[r].pc = "posting" /\ served[other].pc = "posting" /\ r # other
              => Invocation[r] # Invocation[other]
    /\ \A r \in posted : Row(r) \in {"completed", "unknown"}
    /\ \A r \in Request : Row(r) = "completed" => HasComment(r)

IInv == /\ TypeOK /\ OneHandlerPerInvocation /\ OneCommentPerInvocation
        /\ ResultsAreEarned /\ AnswersAreEarned /\ TellingIsEarned /\ RowsKnow


(***************************************************************************)
(* Types.                                                                   *)
(***************************************************************************)
(* The messages that are written are messages.                              *)
LEMMA Messages ==
  ASSUME TypeOK
  PROVE  /\ \A r \in Request : Asking(r) \in Message /\ Told(r) \in Message
         /\ stdin # <<>> => Head(stdin) \in Message /\ Tail(stdin) \in Seq(Message)
         /\ stdout # <<>> => Head(stdout) \in Message /\ Tail(stdout) \in Seq(Message)
         /\ \A m \in Message : Append(stdin, m) \in Seq(Message)
<1>1. \A r \in Request : Asking(r) \in Message /\ Told(r) \in Message
  BY DEF TypeOK, Message, Asking, Told
<1>2. stdin # <<>> => Head(stdin) \in Message /\ Tail(stdin) \in Seq(Message)
  BY DEF TypeOK
<1>3. stdout # <<>> => Head(stdout) \in Message /\ Tail(stdout) \in Seq(Message)
  BY DEF TypeOK
<1>4. \A m \in Message : Append(stdin, m) \in Seq(Message)
  BY DEF TypeOK
<1>. QED
  BY <1>1, <1>2, <1>3, <1>4

(* A message is put in a pipe that is read by the child or by nobody.       *)
LEMMA PutTypes ==
  ASSUME TypeOK, NEW m \in Message, Put(m)
  PROVE  /\ lock' \subseteq Message /\ \A n, o \in lock' : n = o
         /\ stdin' \in Seq(Message)
BY Messages DEF TypeOK, Put

(* Tasks of the host and rows of the outbox keep their types.               *)
LEMMA ServeTyped ==
  ASSUME TypeOK, NEW r \in Request,
         NEW pc \in {"none", "called", "posting", "writing", "draining"},
         NEW outcome \in {"none"} \cup Outcome
  PROVE  /\ Serve(r, pc, outcome) =>
               served' \in [Request -> [pc : {"none", "called", "posting", "writing", "draining"},
                                        outcome : {"none"} \cup Outcome]]
         /\ \A status \in {"none", "executing", "completed", "unknown"} :
               SetRow(r, status) =>
                   comment' \in [Request -> {"none", "executing", "completed", "unknown"}]
<1>1. Serve(r, pc, outcome) =>
          served' \in [Request -> [pc : {"none", "called", "posting", "writing", "draining"},
                                   outcome : {"none"} \cup Outcome]]
  BY DEF TypeOK, Serve
<1>2. \A status \in {"none", "executing", "completed", "unknown"} :
          SetRow(r, status) =>
              comment' \in [Request -> {"none", "executing", "completed", "unknown"}]
  BY RequestsAssumption DEF TypeOK, SetRow
<1>. QED
  BY <1>1, <1>2

(* The steps of request() and _write() keep the types.                      *)
LEMMA HostTypes ==
  ASSUME TypeOK, NEW r \in Request,
         Send(r) \/ HostStep(r) \/ Abandon(r)
  PROVE  TypeOK'
<1>1. CASE Send(r)
  BY <1>1 DEF TypeOK, Send, Begin, childSide, coreVars, Outcome
<1>2. CASE Write(r)
  BY <1>2, Messages, PutTypes DEF TypeOK, Write, childSide, coreVars, Outcome
<1>3. CASE Drained(r)
  BY <1>3 DEF TypeOK, Drained, childSide, coreVars
<1>4. CASE PipeBreaks(r)
  BY <1>4 DEF TypeOK, PipeBreaks, Forget, childSide, coreVars, Outcome
<1>5. CASE Return(r)
  BY <1>5 DEF TypeOK, Return, Forget, childSide, coreVars, Outcome
<1>6. CASE TimeOut(r)
  BY <1>6 DEF TypeOK, TimeOut, childSide, coreVars, Outcome
<1>7. CASE Abandon(r)
  BY <1>7 DEF TypeOK, Abandon, Forget, childSide, coreVars, Outcome
<1>. QED
  BY <1>1, <1>2, <1>3, <1>4, <1>5, <1>6, <1>7 DEF HostStep

(* The steps of the reader and of stop() keep the types.                    *)
LEMMA ReaderTypes ==
  ASSUME TypeOK,
         ReadAnswer \/ ReadCall \/ ReaderEnds \/ BeginStop \/ Terminate \/ StopEnds
  PROVE  TypeOK'
<1>1. CASE ReadAnswer
  BY <1>1, Messages DEF TypeOK, ReadAnswer, Message, Outcome, coreVars
<1>2. CASE ReadCall
  <2>1. Head(stdout).request \in Request
    BY <1>2, Messages DEF ReadCall, Message
  <2>. QED
    BY <1>2, <2>1, Messages DEF TypeOK, ReadCall, Serve
<1>3. CASE ReaderEnds
  BY <1>3 DEF TypeOK, ReaderEnds, FailPending, childSide, coreVars, Outcome
<1>4. CASE BeginStop
  BY <1>4, RequestsAssumption DEF TypeOK, BeginStop, childSide, coreVars, Outcome
<1>5. CASE Terminate
  BY <1>5 DEF TypeOK, Terminate, ChildEnds, coreVars
<1>6. CASE StopEnds
  BY <1>6 DEF TypeOK, StopEnds, FailPending, childSide, coreVars, Outcome
<1>. QED
  BY <1>1, <1>2, <1>3, <1>4, <1>5, <1>6

(* The steps of _handle_call keep the types.                                *)
LEMMA ServeTypes ==
  ASSUME TypeOK, NEW r \in Request, ServeStep(r)
  PROVE  TypeOK'
<1>. USE RequestsAssumption DEF coreRest, childSide
<1>1. CASE RefuseCall(r)
  BY <1>1 DEF TypeOK, RefuseCall, Serve, Outcome
<1>2. CASE Comment(r)
  BY <1>2, ServeTyped DEF TypeOK, Comment, Outcome
<1>3. CASE Commented(r)
  BY <1>3, ServeTyped DEF TypeOK, Commented, Outcome
<1>4. CASE Reply(r)
  BY <1>4, Messages, PutTypes, ServeTyped DEF TypeOK, Reply
<1>5. CASE Replied(r)
  BY <1>5 DEF TypeOK, Replied, Serve
<1>. QED
  BY <1>1, <1>2, <1>3, <1>4, <1>5 DEF ServeStep

(* The steps of the child keep the types.                                   *)
LEMMA ChildTypes ==
  ASSUME TypeOK, NEW r \in Request,
         \/ Handle \/ AcceptResponse \/ HandleStop \/ Crash \/ Reaped \/ Hang
         \/ CallCore(r) \/ CallTimesOut(r) \/ Finish(r)
  PROVE  TypeOK'
<1>. USE RequestsAssumption DEF hostSide, coreVars
<1>0. \A q \in Request, o \in {"none"} \cup Outcome : Answer(q, o) => stdout' \in Seq(Message)
  BY DEF TypeOK, Answer, Message
<1>1. CASE Handle
  <2>1. Head(stdin).request \in Request
    BY <1>1, Messages DEF Handle, Incoming, Message
  <2>. QED
    BY <1>0, <1>1, <2>1, Messages DEF TypeOK, Handle, Incoming, Outcome
<1>2. CASE AcceptResponse
  <2>1. Head(stdin).request \in Request /\ Head(stdin).outcome \in {"result", "error"}
    BY <1>2, Messages DEF AcceptResponse, Incoming, Message
  <2>. QED
    BY <1>2, <2>1, Messages DEF TypeOK, AcceptResponse, Incoming
<1>3. CASE HandleStop
  BY <1>0, <1>3 DEF TypeOK, HandleStop, ChildEnds, Outcome
<1>4. CASE Crash
  BY <1>4 DEF TypeOK, Crash, ChildEnds
<1>5. CASE Reaped
  BY <1>5 DEF TypeOK, Reaped
<1>6. CASE Hang
  BY <1>6 DEF TypeOK, Hang
<1>7. CASE CallCore(r)
  BY <1>0, <1>7 DEF TypeOK, CallCore
<1>8. CASE CallTimesOut(r)
  BY <1>8 DEF TypeOK, CallTimesOut
<1>9. CASE Finish(r)
  BY <1>0, <1>9 DEF TypeOK, Finish, Outcome
<1>. QED
  BY <1>1, <1>2, <1>3, <1>4, <1>5, <1>6, <1>7, <1>8, <1>9

(* Every step keeps the types.                                              *)
LEMMA TypeStep ==
  ASSUME TypeOK, [Next]_vars
  PROVE  TypeOK'
<1>1. CASE UNCHANGED vars
  BY <1>1 DEF vars, coreVars, TypeOK
<1>2. CASE Over
  BY <1>1, <1>2 DEF Over
<1>3. ASSUME NEW r \in Request, Send(r) \/ HostStep(r) \/ Abandon(r) \/ ServeStep(r)
      PROVE  TypeOK'
  BY <1>3, HostTypes, ServeTypes
<1>4. ASSUME NEW r \in Request, CallCore(r) \/ CallTimesOut(r) \/ Finish(r)
      PROVE  TypeOK'
  BY <1>4, ChildTypes
<1>5. CASE ReadAnswer \/ ReadCall \/ ReaderEnds \/ BeginStop \/ Terminate \/ StopEnds
  BY <1>5, ReaderTypes
<1>6. CASE Handle \/ AcceptResponse \/ HandleStop \/ Crash \/ Reaped \/ Hang
  BY <1>6, ChildTypes, RequestsAssumption
<1>. QED
  BY <1>1, <1>2, <1>3, <1>4, <1>5, <1>6 DEF Next

(***************************************************************************)
(* One handler for an invocation.                                           *)
(***************************************************************************)
(* Only a request that the child starts on becomes active.                  *)
LEMMA OneHandlerStep ==
  ASSUME TypeOK, OneHandlerPerInvocation, [Next]_vars
  PROVE  OneHandlerPerInvocation'
<1>1. CASE Handle
  BY <1>1, Messages DEF Handle, OneHandlerPerInvocation
<1>2. CASE active' \subseteq active
  BY <1>2 DEF OneHandlerPerInvocation
<1>3. CASE ~Handle
  <2>1. active' \subseteq active
    BY <1>3 DEF Next, vars, Send, Begin, HostStep, Write, Drained, PipeBreaks, Return, TimeOut,
       Abandon, ServeStep, RefuseCall, Comment, Commented, Reply, Replied, CallCore, CallTimesOut,
       Finish, AcceptResponse, ReadAnswer, ReadCall, ReaderEnds, BeginStop, Terminate, StopEnds,
       HandleStop, Crash, Reaped, Hang, Over, ChildEnds, childSide, hostSide, coreRest
  <2>. QED
    BY <1>2, <2>1
<1>. QED
  BY <1>1, <1>3

(***************************************************************************)
(* One comment for an invocation.                                           *)
(***************************************************************************)
(* Only the steps of _handle_call change tasks, rows and comments; a task   *)
(* that begins is not posting.                                              *)
LEMMA CoreUnchanged ==
  ASSUME TypeOK, [Next]_vars, ~\E r \in Request : ServeStep(r)
  PROVE  /\ UNCHANGED <<comment, posted>>
         /\ \/ UNCHANGED served
            \/ \E q \in Request : Serve(q, "called", "none")
<1>1. CASE ReadCall
  BY <1>1, Messages DEF ReadCall, Message
<1>2. CASE ~ReadCall
  BY <1>2 DEF Next, vars, Send, Begin, HostStep, Write, Drained, PipeBreaks, Return, TimeOut,
     Abandon, CallCore, CallTimesOut, Handle, coreVars,
     Finish, AcceptResponse, ReadAnswer, ReaderEnds, BeginStop, Terminate, StopEnds,
     HandleStop, Crash, Reaped, Hang, Over, childSide, hostSide
<1>. QED
  BY <1>1, <1>2

(* A row is claimed by one task, and knows of its comment when it is done.  *)
LEMMA RowsStep ==
  ASSUME TypeOK, OneCommentPerInvocation, RowsKnow, [Next]_vars
  PROVE  OneCommentPerInvocation' /\ RowsKnow'
<1>. USE RequestsAssumption DEF Row, HasComment
<1>1. CASE ~\E r \in Request : ServeStep(r)
  <2>1. UNCHANGED <<comment, posted>> /\ \A q \in Request : served'[q].pc = "posting" => served[q].pc = "posting"
    BY <1>1, CoreUnchanged DEF TypeOK, Serve
  <2>. QED
    BY <2>1 DEF TypeOK, RowsKnow, OneCommentPerInvocation
<1>2. ASSUME NEW r \in Request, RefuseCall(r) \/ Reply(r) \/ Replied(r)
      PROVE  OneCommentPerInvocation' /\ RowsKnow'
  <2>1. UNCHANGED <<comment, posted>> /\ \A q \in Request : served'[q].pc = "posting" => served[q].pc = "posting"
    BY <1>2 DEF TypeOK, RefuseCall, Reply, Replied, Serve
  <2>. QED
    BY <2>1 DEF TypeOK, RowsKnow, OneCommentPerInvocation
<1>3. ASSUME NEW r \in Request, Comment(r)
      PROVE  OneCommentPerInvocation' /\ RowsKnow'
  <2>1. CASE Row(r) = "none"
    <3>1. SetRow(r, "executing") /\ Serve(r, "posting", "none") /\ UNCHANGED posted
      BY <1>3, <2>1 DEF Comment
    <3>2. \A q \in posted : Invocation[q] # Invocation[r]
      BY <2>1 DEF TypeOK, RowsKnow
    <3>3. \A q \in Request : served[q].pc = "posting" => Invocation[q] # Invocation[r]
      BY <2>1 DEF RowsKnow
    <3>. QED
      BY <3>1, <3>2, <3>3 DEF TypeOK, RowsKnow, OneCommentPerInvocation, SetRow, Serve
  <2>2. CASE Row(r) # "none"
    <3>1. UNCHANGED <<comment, posted>> /\ \A q \in Request : served'[q].pc = "posting" => served[q].pc = "posting"
      BY <1>3, <2>2 DEF TypeOK, Comment, Serve
    <3>. QED
      BY <3>1 DEF TypeOK, RowsKnow, OneCommentPerInvocation
  <2>. QED
    BY <2>1, <2>2
<1>4. ASSUME NEW r \in Request, Commented(r)
      PROVE  OneCommentPerInvocation' /\ RowsKnow'
  <2>1. Row(r) = "executing"
    BY <1>4 DEF Commented, RowsKnow
  <2>2. \A q \in posted : Invocation[q] # Invocation[r]
    BY <2>1 DEF TypeOK, RowsKnow
  <2>3. \A q \in Request : served[q].pc = "posting" /\ q # r => Invocation[q] # Invocation[r]
    BY <1>4 DEF Commented, RowsKnow
  <2>4. posted' \in {posted, posted \cup {r}} /\ \A q \in Request : served'[q].pc = "posting" => served[q].pc = "posting" /\ q # r
    BY <1>4 DEF TypeOK, Commented, Serve
  <2>5. /\ \A q \in Request : Invocation[q] # Invocation[r] => comment'[Invocation[q]] = comment[Invocation[q]]
        /\ comment'[Invocation[r]] \in {"completed", "unknown"}
        /\ comment'[Invocation[r]] = "completed" => r \in posted'
    BY <1>4 DEF TypeOK, Commented, SetRow
  <2>6. OneCommentPerInvocation'
    BY <2>2, <2>4 DEF TypeOK, OneCommentPerInvocation
  <2>7. /\ \A q \in Request : served'[q].pc = "posting" => Row(q)' = "executing"
        /\ \A q, other \in Request :
              served'[q].pc = "posting" /\ served'[other].pc = "posting" /\ q # other
                  => Invocation[q] # Invocation[other]
    BY <2>3, <2>4, <2>5 DEF RowsKnow
  <2>8. \A q \in posted' : Row(q)' \in {"completed", "unknown"}
    BY <2>2, <2>4, <2>5 DEF TypeOK, RowsKnow
  <2>9. \A q \in Request : Row(q)' = "completed" => HasComment(q)'
    <3>. TAKE q \in Request
    <3>1. CASE Invocation[q] = Invocation[r]
      BY <2>5, <3>1
    <3>2. CASE Invocation[q] # Invocation[r]
      BY <2>4, <2>5, <3>2 DEF RowsKnow
    <3>. QED
      BY <3>1, <3>2
  <2>. QED
    BY <2>6, <2>7, <2>8, <2>9 DEF RowsKnow
<1>. QED
  BY <1>1, <1>2, <1>3, <1>4 DEF ServeStep

(***************************************************************************)
(* Results and what was done.                                               *)
(***************************************************************************)
(* What a pipe holds after a message is put in it or taken from it.         *)
LEMMA Pipes ==
  ASSUME NEW s \in Seq(Message)
  PROVE  /\ \A m \in Message : \A i \in DOMAIN Append(s, m) :
               Append(s, m)[i] = m \/ \E j \in DOMAIN s : Append(s, m)[i] = s[j]
         /\ s # <<>> => /\ \A i \in DOMAIN Tail(s) : \E j \in DOMAIN s : Tail(s)[i] = s[j]
                       /\ \E j \in DOMAIN s : Head(s) = s[j]
<1>1. \A m \in Message : \A i \in DOMAIN Append(s, m) :
          Append(s, m)[i] = m \/ \E j \in DOMAIN s : Append(s, m)[i] = s[j]
  <2>. TAKE m \in Message
  <2>. TAKE i \in DOMAIN Append(s, m)
  <2>1. CASE i = Len(s) + 1
    BY <2>1
  <2>2. CASE i # Len(s) + 1
    <3>1. i \in DOMAIN s /\ Append(s, m)[i] = s[i]
      BY <2>2
    <3>. QED
      BY <3>1
  <2>. QED
    BY <2>1, <2>2
<1>2. ASSUME s # <<>>
      PROVE  /\ \A i \in DOMAIN Tail(s) : \E j \in DOMAIN s : Tail(s)[i] = s[j]
             /\ \E j \in DOMAIN s : Head(s) = s[j]
  <2>1. \A i \in DOMAIN Tail(s) : i + 1 \in DOMAIN s /\ Tail(s)[i] = s[i + 1]
    BY <1>2
  <2>2. 1 \in DOMAIN s /\ Head(s) = s[1]
    BY <1>2
  <2>. QED
    BY <2>1, <2>2
<1>. QED
  BY <1>1, <1>2

(* An answer that is put on its way to the host as a result is that of a    *)
(* request the child has carried out.                                       *)
LEMMA StdoutSteps ==
  ASSUME TypeOK, [Next]_vars
  PROVE  /\ finished \subseteq finished'
         /\ \A i \in DOMAIN stdout' :
               \/ \E j \in DOMAIN stdout : stdout'[i] = stdout[j]
               \/ /\ stdout'[i].outcome = "result" /\ stdout'[i].request # StopRequest
                  => stdout'[i].request \in finished'
<1>. DEFINE Fresh(m) == m.outcome = "result" /\ m.request # StopRequest => m.request \in finished'
<1>1. CASE UNCHANGED <<stdout, finished>>
  BY <1>1
<1>2. ASSUME NEW q \in Request, NEW o \in {"none"} \cup Outcome, Answer(q, o),
             finished \subseteq finished', o = "result" => q \in finished' \cup {StopRequest}
      PROVE  \A i \in DOMAIN stdout' :
                (\E j \in DOMAIN stdout : stdout'[i] = stdout[j]) \/ Fresh(stdout'[i])
  <2>. DEFINE m == [request |-> q, outcome |-> o]
  <2>1. m \in Message /\ stdout' = Append(stdout, m) /\ Fresh(m)
    BY <1>2 DEF Answer, Message
  <2>2. stdout \in Seq(Message)
    BY DEF TypeOK
  <2>3. \A i \in DOMAIN Append(stdout, m) :
            Append(stdout, m)[i] = m \/ \E j \in DOMAIN stdout : Append(stdout, m)[i] = stdout[j]
    BY <2>1, <2>2, Pipes
  <2>. HIDE DEF m
  <2>4. \A i \in DOMAIN stdout' : stdout'[i] = m \/ \E j \in DOMAIN stdout : stdout'[i] = stdout[j]
    BY <2>1, <2>3
  <2>. QED
    BY <2>1, <2>4
<1>3. CASE ReadAnswer \/ ReadCall
  <2>1. stdout # <<>> /\ stdout' = Tail(stdout) /\ UNCHANGED finished
    BY <1>3 DEF ReadAnswer, ReadCall
  <2>2. stdout \in Seq(Message)
    BY DEF TypeOK
  <2>3. \A i \in DOMAIN Tail(stdout) : \E j \in DOMAIN stdout : Tail(stdout)[i] = stdout[j]
    BY <2>1, <2>2, Pipes
  <2>. QED
    BY <2>1, <2>3
<1>4. CASE Handle
  <2>1. CASE UNCHANGED stdout
    BY <1>4, <2>1 DEF Handle
  <2>2. CASE Answer(Head(stdin).request, "error")
    BY <1>2, <1>4, <2>2, Messages DEF Handle, Message, Incoming, Outcome
  <2>. QED
    BY <1>4, <2>1, <2>2 DEF Handle
<1>5. CASE HandleStop
  BY <1>2, <1>5, RequestsAssumption DEF HandleStop, Outcome
<1>6. ASSUME NEW q \in Request, CallCore(q)
      PROVE  /\ finished \subseteq finished'
             /\ \A i \in DOMAIN stdout' :
                   (\E j \in DOMAIN stdout : stdout'[i] = stdout[j]) \/ Fresh(stdout'[i])
  BY <1>2, <1>6 DEF CallCore
<1>7. ASSUME NEW q \in Request, Finish(q)
      PROVE  /\ finished \subseteq finished'
             /\ \A i \in DOMAIN stdout' :
                   (\E j \in DOMAIN stdout : stdout'[i] = stdout[j]) \/ Fresh(stdout'[i])
  BY <1>2, <1>7 DEF Finish, Outcome
<1>8. CASE ~(ReadAnswer \/ ReadCall \/ Handle \/ HandleStop) /\ ~\E q \in Request : CallCore(q) \/ Finish(q)
  BY <1>1, <1>8 DEF Next, vars, Send, Begin, HostStep, Write, Drained, PipeBreaks, Return, TimeOut,
     Abandon, ServeStep, RefuseCall, Comment, Commented, Reply, Replied, CallTimesOut,
     AcceptResponse, ReaderEnds, BeginStop, Terminate, StopEnds,
     Crash, Reaped, Hang, Over, childSide, hostSide, coreRest
<1>. QED
  BY <1>3, <1>4, <1>5, <1>6, <1>7, <1>8 DEF HandleStop, Handle, ReadAnswer, ReadCall

(* Results get to a future from the pipe, and to a caller from its future.  *)
LEMMA FutureSteps ==
  ASSUME TypeOK, [Next]_vars, NEW r \in Request
  PROVE  /\ future'[r] = "result" =>
               future[r] = "result" \/ (stdout # <<>> /\ Head(stdout) = [request |-> r, outcome |-> "result"])
         /\ call'[r] = "result" => call[r] = "result" \/ future[r] = "result"
<1>1. CASE UNCHANGED <<call, future>>
  BY <1>1
<1>2. ASSUME NEW q \in Request, Send(q) \/ HostStep(q) \/ Abandon(q)
      PROVE  /\ future'[r] = "result" => future[r] = "result"
             /\ call'[r] = "result" => call[r] = "result" \/ future[r] = "result"
  BY <1>2 DEF TypeOK, Send, Begin, HostStep, Write, Drained, PipeBreaks, Return, TimeOut, Abandon, Forget
<1>3. CASE ReadAnswer
  <2>1. Head(stdout) \in Message
    BY <1>3, Messages DEF ReadAnswer
  <2>. QED
    BY <1>3, <2>1 DEF TypeOK, ReadAnswer, Message
<1>4. CASE ReaderEnds \/ StopEnds
  BY <1>4 DEF TypeOK, ReaderEnds, StopEnds, FailPending
<1>5. CASE BeginStop
  BY <1>5 DEF TypeOK, BeginStop
<1>6. CASE ~(ReadAnswer \/ ReaderEnds \/ StopEnds \/ BeginStop)
           /\ ~\E q \in Request : Send(q) \/ HostStep(q) \/ Abandon(q)
  BY <1>1, <1>6 DEF Next, vars, ServeStep, RefuseCall, Comment, Commented, Reply, Replied, CallCore,
     CallTimesOut, Finish, Handle, AcceptResponse, ReadCall, Terminate, HandleStop,
     Crash, Reaped, Hang, Over, hostSide, coreRest
<1>. QED
  BY <1>2, <1>3, <1>4, <1>5, <1>6

(* Results of the child are earned, from its handler to the caller.         *)
LEMMA AnswersStep ==
  ASSUME TypeOK, AnswersAreEarned, [Next]_vars,
         \A r \in Request \ {StopRequest} : call[r] = "result" => r \in finished
  PROVE  /\ AnswersAreEarned'
         /\ \A r \in Request \ {StopRequest} : call'[r] = "result" => r \in finished'
<1>1. \A i \in DOMAIN stdout' :
          stdout'[i].outcome = "result" /\ stdout'[i].request # StopRequest
              => stdout'[i].request \in finished'
  BY StdoutSteps DEF AnswersAreEarned
<1>2. ASSUME NEW r \in Request \ {StopRequest}
      PROVE  /\ future'[r] = "result" => r \in finished'
             /\ call'[r] = "result" => r \in finished'
  <2>1. stdout # <<>> /\ Head(stdout) = [request |-> r, outcome |-> "result"] => r \in finished
    <3>1. ASSUME stdout # <<>>, Head(stdout) = [request |-> r, outcome |-> "result"]
          PROVE  r \in finished
      <4>1. stdout \in Seq(Message)
        BY DEF TypeOK
      <4>2. PICK j \in DOMAIN stdout : Head(stdout) = stdout[j]
        BY <3>1, <4>1, Pipes
      <4>3. stdout[j].outcome = "result" /\ stdout[j].request = r
        BY <3>1, <4>2
      <4> QED
        BY <1>2, <4>3 DEF AnswersAreEarned
    <3> QED
      BY <3>1
  <2>. QED
    BY <1>2, <2>1, StdoutSteps, FutureSteps DEF AnswersAreEarned
<1>. QED
  BY <1>1, <1>2 DEF AnswersAreEarned

(* A comment told of to the handler of a request was made.  Its row knows.  *)
LEMMA ServedSteps ==
  ASSUME TypeOK, RowsKnow, [Next]_vars, NEW r \in Request
  PROVE  /\ posted \subseteq posted'
         /\ served'[r].outcome = "result" =>
               served[r].outcome = "result" \/ HasComment(r)'
<1>. USE DEF HasComment
<1>0. ASSUME NEW q \in Request, NEW pc, NEW o, Serve(q, pc, o)
      PROVE  served'[r].outcome = IF q = r THEN o ELSE served[r].outcome
  <2>1. DOMAIN served = Request
    BY DEF TypeOK
  <2>. QED
    BY <1>0, <2>1 DEF Serve
<1>1. CASE ~\E q \in Request : ServeStep(q)
  BY <1>1, CoreUnchanged DEF TypeOK, Serve
<1>2. ASSUME NEW q \in Request, RefuseCall(q) \/ Reply(q) \/ Replied(q)
      PROVE  UNCHANGED posted /\ (served'[r].outcome = "result" => served[r].outcome = "result")
  <2>1. UNCHANGED posted
    BY <1>2 DEF RefuseCall, Reply, Replied
  <2>2. Serve(q, "writing", "error") \/ Serve(q, "draining", served[q].outcome) \/ Serve(q, "none", "none")
    BY <1>2 DEF RefuseCall, Reply, Replied
  <2>. QED
    BY <1>0, <2>1, <2>2
<1>3. ASSUME NEW q \in Request, Comment(q)
      PROVE  /\ UNCHANGED posted
             /\ served'[r].outcome = "result" => served[r].outcome = "result" \/ HasComment(r)'
  <2>1. UNCHANGED posted
    BY <1>3 DEF Comment
  <2>2. \/ Serve(q, "posting", "none") \/ Serve(q, "writing", "error")
        \/ Serve(q, "writing", "result") /\ Row(q) = "completed"
    BY <1>3 DEF Comment
  <2>3. Row(q) = "completed" => HasComment(q)'
    BY <2>1 DEF RowsKnow
  <2>. QED
    BY <1>0, <2>1, <2>2, <2>3
<1>4. ASSUME NEW q \in Request, Commented(q)
      PROVE  /\ posted \subseteq posted'
             /\ served'[r].outcome = "result" => served[r].outcome = "result" \/ HasComment(r)'
  <2>1. \/ Serve(q, "writing", "result") /\ posted' = posted \cup {q}
        \/ Serve(q, "writing", "error") /\ posted \subseteq posted'
    BY <1>4 DEF Commented
  <2>. QED
    BY <1>0, <2>1
<1>. QED
  BY <1>1, <1>2, <1>3, <1>4 DEF ServeStep

(* What is put on its way to the child is a request or what was told.       *)
LEMMA StdinSteps ==
  ASSUME TypeOK, [Next]_vars
  PROVE  \A i \in DOMAIN stdin' :
            \/ \E j \in DOMAIN stdin : stdin'[i] = stdin[j]
            \/ stdin'[i].outcome # "result"
            \/ served[stdin'[i].request].outcome = "result"
<1>. DEFINE Fresh(m) == m.outcome # "result" \/ served[m.request].outcome = "result"
<1>1. ASSUME NEW q \in Request, NEW m \in {Asking(q), Told(q)}, Put(m)
      PROVE  \A i \in DOMAIN stdin' : (\E j \in DOMAIN stdin : stdin'[i] = stdin[j]) \/ Fresh(stdin'[i])
  <2>1. m \in Message
    BY Messages
  <2>0. Fresh(m)
    BY DEF Asking, Told
  <2>2. CASE stdin' = Append(stdin, m)
    BY <2>0, <2>1, <2>2, Pipes DEF TypeOK
  <2>3. CASE stdin' = stdin
    BY <2>3
  <2>. QED
    BY <1>1, <2>2, <2>3 DEF Put
<1>2. CASE Handle \/ AcceptResponse
  <2>1. stdin # <<>> /\ stdin' = Tail(stdin)
    BY <1>2 DEF Handle, AcceptResponse, Incoming
  <2>0. stdin \in Seq(Message)
    BY DEF TypeOK
  <2>2. \A i \in DOMAIN stdin' : \E j \in DOMAIN stdin : stdin'[i] = stdin[j]
    BY <2>0, <2>1, Pipes
  <2>. QED
    BY <2>2
<1>3. CASE HandleStop \/ Crash \/ Terminate
  BY <1>3 DEF HandleStop, Crash, Terminate, ChildEnds
<1>4. ASSUME NEW q \in Request, Write(q) \/ Reply(q)
      PROVE  \A i \in DOMAIN stdin' : (\E j \in DOMAIN stdin : stdin'[i] = stdin[j]) \/ Fresh(stdin'[i])
  <2>1. CASE UNCHANGED stdin
    BY <2>1
  <2>2. CASE Put(Asking(q)) \/ Put(Told(q))
    BY <1>1, <2>2
  <2>. QED
    BY <1>4, <2>1, <2>2 DEF Write, Reply
<1>5. CASE ~(Handle \/ AcceptResponse \/ HandleStop \/ Crash \/ Terminate)
           /\ ~\E q \in Request : Write(q) \/ Reply(q)
  <2>1. UNCHANGED stdin
    BY <1>5 DEF Next, vars, Send, Begin, HostStep, Drained, PipeBreaks, Return, TimeOut, Abandon,
       ServeStep, RefuseCall, Comment, Commented, Replied, CallCore, CallTimesOut, Finish,
       ReadAnswer, ReadCall, ReaderEnds, BeginStop, StopEnds, Reaped, Hang, Over, coreRest
  <2>. QED
    BY <2>1
<1>. QED
  BY <1>2, <1>3, <1>4, <1>5

(* A handler gets what is in the pipe.                                      *)
LEMMA AskedSteps ==
  ASSUME TypeOK, [Next]_vars, NEW r \in Request
  PROVE  asked'[r] = "result" =>
            asked[r] = "result" \/ (stdin # <<>> /\ Head(stdin) = [request |-> r, outcome |-> "result"])
<1>1. CASE AcceptResponse
  <2>1. stdin # <<>> /\ Head(stdin) \in Message
    BY <1>1, Messages DEF AcceptResponse, Incoming
  <2>. QED
    BY <1>1, <2>1 DEF TypeOK, AcceptResponse, Message
<1>2. CASE HandleStop \/ Crash \/ Terminate
  BY <1>2 DEF HandleStop, Crash, Terminate, ChildEnds
<1>3. ASSUME NEW q \in Request, CallCore(q) \/ CallTimesOut(q) \/ Finish(q)
      PROVE  asked'[r] = "result" => asked[r] = "result"
  BY <1>3 DEF TypeOK, CallCore, CallTimesOut, Finish
<1>4. CASE ~(AcceptResponse \/ HandleStop \/ Crash \/ Terminate)
           /\ ~\E q \in Request : CallCore(q) \/ CallTimesOut(q) \/ Finish(q)
  <2>1. UNCHANGED asked
    BY <1>4 DEF Next, vars, Send, Begin, HostStep, Write, Drained, PipeBreaks, Return, TimeOut, Abandon,
       ServeStep, RefuseCall, Comment, Commented, Reply, Replied, childSide, coreRest, Handle,
       ReadAnswer, ReadCall, ReaderEnds, BeginStop, StopEnds, Reaped, Hang, Over
  <2>. QED
    BY <2>1
<1>. QED
  BY <1>1, <1>2, <1>3, <1>4

(* What is told to a handler is earned, from its task to the handler.       *)
LEMMA TellingStep ==
  ASSUME TypeOK, RowsKnow, TellingIsEarned, [Next]_vars
  PROVE  TellingIsEarned'
<1>1. \A r \in Request : HasComment(r) => HasComment(r)'
  BY ServedSteps DEF HasComment
<1>2. \A r \in Request : served'[r].outcome = "result" => HasComment(r)'
  BY <1>1, ServedSteps DEF TellingIsEarned
<1>3. (\A i \in DOMAIN stdin : stdin[i].outcome = "result" => HasComment(stdin[i].request))'
  <2>. SUFFICES ASSUME NEW i \in DOMAIN stdin', stdin'[i].outcome = "result"
                PROVE  HasComment(stdin[i].request)'
    OBVIOUS
  <2>0. stdin'[i].request \in Request
    <3>1. stdin' \in Seq(Message)
      BY TypeStep DEF TypeOK
    <3>2. stdin'[i] \in Message
      BY <3>1
    <3>. QED
      BY <3>2 DEF Message
  <2>. DEFINE r == stdin'[i].request
  <2>1. HasComment(r)
    BY <2>0, StdinSteps DEF TellingIsEarned
  <2>2. \E other \in posted' : Invocation[other] = Invocation[r]
    BY <1>1, <2>0, <2>1 DEF HasComment
  <2>. QED
    BY <2>2 DEF HasComment
<1>4. \A r \in Request : asked'[r] = "result" => HasComment(r)'
  <2>. SUFFICES ASSUME NEW r \in Request, asked'[r] = "result"
                PROVE  HasComment(r)'
    OBVIOUS
  <2>0. stdin \in Seq(Message)
    BY DEF TypeOK
  <2>1. stdin # <<>> => \E j \in DOMAIN stdin : Head(stdin) = stdin[j]
    BY <2>0, Pipes
  <2>2. \A j \in DOMAIN stdin : stdin[j] = [request |-> r, outcome |-> "result"] => HasComment(r)
    BY DEF TellingIsEarned
  <2>. QED
    BY <1>1, <2>1, <2>2, AskedSteps DEF TellingIsEarned
<1>. QED
  BY <1>2, <1>3, <1>4 DEF TellingIsEarned

(***************************************************************************)
(* The theorems.                                                            *)
(***************************************************************************)
(* The invariant of the proofs holds when the child has started ...         *)
THEOREM Initially == Init => IInv
<1>. SUFFICES ASSUME Init
              PROVE  IInv
  OBVIOUS
<1>. USE RequestsAssumption DEF Init
<1>1. TypeOK
  <2>1. stdin \in Seq(Message) /\ stdout \in Seq(Message)
    OBVIOUS
  <2>2. call \in [Request -> {"idle", "locking", "draining", "waiting"} \cup Outcome]
        /\ future \in [Request -> {"none"} \cup Outcome]
    OBVIOUS
  <2>3. served \in [Request -> [pc : {"none", "called", "posting", "writing", "draining"},
                               outcome : {"none"} \cup Outcome]]
    OBVIOUS
  <2>. QED
    BY <2>1, <2>2, <2>3 DEF TypeOK
<1>2. OneHandlerPerInvocation /\ OneCommentPerInvocation /\ ResultsAreEarned
  BY DEF OneHandlerPerInvocation, OneCommentPerInvocation, ResultsAreEarned
<1>3. AnswersAreEarned /\ TellingIsEarned
  BY DEF AnswersAreEarned, TellingIsEarned
<1>4. RowsKnow
  BY DEF RowsKnow, Row
<1>. QED
  BY <1>1, <1>2, <1>3, <1>4 DEF IInv

(* ... and is kept by every step of host and child ...                      *)
THEOREM Inductive == IInv /\ [Next]_vars => IInv'
<1>. SUFFICES ASSUME IInv, [Next]_vars
              PROVE  IInv'
  OBVIOUS
<1>. USE DEF IInv
<1>1. TypeOK' /\ OneHandlerPerInvocation' /\ OneCommentPerInvocation' /\ RowsKnow'
  BY TypeStep, OneHandlerStep, RowsStep
<1>2. AnswersAreEarned' /\ \A r \in Request \ {StopRequest} : call'[r] = "result" => r \in finished'
  BY AnswersStep DEF ResultsAreEarned
<1>3. TellingIsEarned'
  BY TellingStep
<1>4. ResultsAreEarned'
  BY <1>1, <1>2, <1>3 DEF ResultsAreEarned, TellingIsEarned, HasComment, TypeOK
<1>. QED
  BY <1>1, <1>2, <1>3, <1>4

(* ... so that it always holds.                                             *)
THEOREM Invariance == Spec => []IInv
<1>. QED
  BY Initially, Inductive, PTL DEF Spec

(* Type correctness of PluginRpc, with at most one writer under write_lock. *)
THEOREM TypeCorrect == Spec => []TypeOK
<1>1. IInv => TypeOK
  BY DEF IInv
<1>. QED
  BY <1>1, Invariance, PTL

(* The child never has two handlers of one invocation under way, whatever   *)
(* the host retries (handle in runner.py).                                  *)
THEOREM OneHandler == Spec => []OneHandlerPerInvocation
<1>1. IInv => OneHandlerPerInvocation
  BY DEF IInv
<1>. QED
  BY <1>1, Invariance, PTL

(* An invocation makes at most one comment (_github_call).                  *)
THEOREM OneComment == Spec => []OneCommentPerInvocation
<1>1. IInv => OneCommentPerInvocation
  BY DEF IInv
<1>. QED
  BY <1>1, Invariance, PTL

(* Nobody on either side is given a result of what was not done (_reader    *)
(* and request on the host, accept_response in the child).                  *)
THEOREM Earned == Spec => []ResultsAreEarned
<1>1. IInv => ResultsAreEarned
  BY DEF IInv
<1>. QED
  BY <1>1, Invariance, PTL

=============================================================================
