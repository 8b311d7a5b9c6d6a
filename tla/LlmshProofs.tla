----------------------------- MODULE LlmshProofs -----------------------------
(***************************************************************************)
(* The exchange of llmsh with a handler of the daemon, for every command,  *)
(* every size of request and response and every socket.                    *)
(*                                                                         *)
(* What the read loop guarantees is taken from RequestReadProofs; the      *)
(* invariant adds where the bytes of the request are, what the handler     *)
(* knows of the client by what it has done, and the converse.              *)
(***************************************************************************)
EXTENDS Llmsh, TLAPS

Loop == INSTANCE RequestReadProofs

\* Each byte written is in the socket or was read, until one is dropped.
Flow ==
  /\ taken + pending <= sent
  /\ ~exceeded => taken + pending = sent

\* The loop has ended with all the client had to say, on a pause of it, or on an
\* error.
HeardOut ==
  /\ phase = "timed_out" => idle
  /\ phase \notin {"reading", "failed"} /\ ~idle => closed /\ pending = 0
  /\ closed => sent = command.size

\* A client is past its decision before there is a connection.
Connected ==
  /\ closed => client \in {"awaiting", "failed", "printed"}
  /\ client \in {"writing", "awaiting", "printed"} => wire # "none"
  /\ client \in {"started", "ready"} /\ up => wire = "none"
  /\ client = "ready" \/ wire \in {"open", "shut"} \/ phase # "reading"
       => Decision(command) = "ready"

\* The handler writes after it has read, and hangs up after it has written.
InOrder ==
  /\ answer = {} => replied = 0
  /\ answer # {} => phase # "reading"
  /\ wire = "shut" \/ (wire = "dropped" /\ up /\ phase # "failed") =>
       answer # {} /\ replied = AnswerBytes

\* A client that has failed was late, or was not read, or the daemon is gone, or
\* there never was a connection.
OnlyLateFail ==
  client = "failed" /\ up /\ wire # "none" => idle \/ phase = "failed"

IInv == /\ TypeOK /\ Loop!IInv /\ Flow /\ HeardOut /\ Connected /\ InOrder
        /\ OnlyLateFail /\ SentIsAccepted /\ PrintedIsWhole
-----------------------------------------------------------------------------
\* A round of the handler's loop, its end, and the client's writing are steps of
\* the read loop's own specification.
LEMMA LoopStep ==
  ASSUME Loop!IInv,
         \/ Intake!ReadSome \/ Intake!EndOfInput \/ Intake!IdleTimeout
         \/ Intake!ReadFails
         \/ \E n \in 1..SocketBytes : Intake!Send(n)
  PROVE  Loop!IInv'
<1>1. Loop!Next
  BY DEF Loop!Next, Loop!ReadSome, Loop!Read, Loop!Take, Loop!Positions, Loop!Smaller,
         Loop!EndOfInput, Loop!IdleTimeout, Loop!ReadFails, Loop!Outcome, Loop!Send,
         Intake!ReadSome, Intake!Read, Intake!Take, Intake!Positions, Intake!Smaller,
         Intake!EndOfInput, Intake!IdleTimeout, Intake!ReadFails, Intake!Outcome,
         Intake!Send
<1> QED  BY <1>1, IntakeAssumption, Loop!IInvStep

\* A step that leaves the loop's variables alone.
LEMMA LoopStutter == Loop!IInv /\ UNCHANGED intakeVars => Loop!IInv'
BY IntakeAssumption, Loop!IInvStep DEF Loop!vars, intakeVars

LEMMA IntakeTypes == Loop!IInv => Intake!TypeOK
BY DEF Loop!IInv, Loop!CountsOK, Loop!FlagsOK, Loop!Outcomes,
       Intake!TypeOK, Intake!CountsOK, Intake!FlagsOK, Intake!Outcomes

\* What the types say in numbers.
LEMMA Numbers ==
  ASSUME TypeOK
  PROVE  /\ command.size \in Nat \ {0} /\ sent \in Nat /\ sent <= command.size
         /\ AnswerBytes \in Nat \ {0} /\ replied \in Nat /\ replied <= AnswerBytes
         /\ got \in Nat /\ got <= replied /\ replied - got <= SocketBytes
         /\ pending \in Nat /\ pending <= SocketBytes
         /\ taken \in Nat /\ taken <= MaxRequest + 1
         /\ MaxRequest \in Nat /\ SocketBytes \in Nat \ {0}
<1>1. AnswerBytes \in Nat \ {0}
  BY AnswersAssumption, IntakeAssumption DEF AnswerBytes
<1> QED
  BY <1>1, InvocationsAssumption, IntakeAssumption DEF TypeOK, Intake!TypeOK, Intake!CountsOK

LEMMA Initially == Init => IInv
<1> SUFFICES ASSUME Init PROVE IInv
  OBVIOUS
<1>1. Loop!IInv
  BY IntakeAssumption, Loop!IInvInit DEF Init, Intake!Init, Loop!Init
<1>2. TypeOK
  <2>1. AnswerBytes \in Nat
    BY AnswersAssumption, IntakeAssumption DEF AnswerBytes
  <2>2. Intake!TypeOK  BY <1>1, IntakeTypes
  <2>3. sent \in 0..command.size /\ replied \in 0..AnswerBytes /\ replied - got \in 0..SocketBytes
    BY <2>1, InvocationsAssumption, IntakeAssumption DEF Init
  <2> QED  BY <2>2, <2>3 DEF Init, TypeOK, Clients, Answers
<1>3. Flow /\ HeardOut /\ Connected /\ InOrder /\ OnlyLateFail
  BY DEF Init, Intake!Init, Flow, HeardOut, Connected, InOrder, OnlyLateFail
<1>4. SentIsAccepted /\ PrintedIsWhole
  BY DEF Init, SentIsAccepted, PrintedIsWhole
<1> QED  BY <1>1, <1>2, <1>3, <1>4 DEF IInv

\* What llmsh does on its own, and how it ends.
LEMMA ClientStep ==
  ASSUME IInv, Compose \/ Connect \/ WriteFails \/ Shutdown \/ ReadFails \/ PrintResponse
  PROVE  IInv'
<1> USE DEF Compose, Connect, WriteFails, Shutdown, ReadFails, PrintResponse, Goes
<1>0. TypeOK /\ Loop!IInv /\ Flow /\ HeardOut /\ Connected /\ InOrder /\ OnlyLateFail
  BY DEF IInv
<1>1. /\ UNCHANGED <<command, sent, got, pending, taken, input, exceeded, idle, phase>>
      /\ UNCHANGED <<up, answer, replied>>
  BY DEF intakeVars, serverVars
<1>2. closed' = closed \/ closed' = TRUE
  BY DEF intakeVars
<1>3. Loop!IInv'
  <2>1. CASE UNCHANGED closed
    BY <1>0, <1>1, <2>1, LoopStutter DEF intakeVars
  <2>2. CASE ~UNCHANGED closed
    <3>1. Shutdown  BY <2>2 DEF intakeVars
    <3> QED
      BY <1>0, <1>1, <1>2, <3>1
         DEF Loop!IInv, Loop!CountsOK, Loop!FlagsOK, Loop!Progress, Loop!InputIsAPrefix,
             Loop!ExceededSeparates, Loop!OutcomeFollows
  <2> QED  BY <2>1, <2>2
<1>a. Intake!TypeOK'
  <2> HIDE DEF Compose, Connect, WriteFails, Shutdown, ReadFails, PrintResponse, Goes
  <2> QED  BY <1>3, IntakeTypes, PTL
<1>4. TypeOK'
  <2>1. client' \in Clients
    BY DEF Decision, Clients, Ended
  <2>2. wire' \in {"none", "open", "shut", "dropped"}
    BY <1>0 DEF TypeOK, serverVars
  <2>3. AnswerBytes' = AnswerBytes  BY <1>1 DEF AnswerBytes
  <2> QED  BY <1>0, <1>1, <1>a, <2>1, <2>2, <2>3 DEF TypeOK
<1>5. Flow'  BY <1>0, <1>1 DEF Flow
<1>6. HeardOut'  BY <1>0, <1>1, <1>2 DEF HeardOut, intakeVars
<1>7. Connected'
  BY <1>0, <1>1 DEF Connected, Decision, intakeVars, serverVars
<1>8. InOrder'
  BY <1>0, <1>1 DEF InOrder, AnswerBytes, serverVars
<1>9. OnlyLateFail'
  <2>1. CASE WriteFails
    <3>1. /\ sent < command.size
          /\ up => phase = "failed" \/ answer # {}
      BY <1>0, <2>1 DEF InOrder
    <3>2. sent # command.size  BY <3>1, <1>0, Numbers
    <3> QED  BY <1>0, <1>1, <2>1, <3>1, <3>2 DEF OnlyLateFail, HeardOut, InOrder
  <2>2. CASE ReadFails
    <3>1. pending # 0  BY <2>2, <1>0, Numbers DEF Reset
    <3> QED  BY <1>0, <1>1, <2>2, <3>1 DEF OnlyLateFail, HeardOut, InOrder, Reset
  <2>3. CASE ~(WriteFails \/ ReadFails)
    BY <1>0, <1>1, <2>3 DEF OnlyLateFail, Connected, Decision, serverVars
  <2> QED  BY <2>1, <2>2, <2>3
<1>10. SentIsAccepted'
  BY <1>1 DEF IInv, SentIsAccepted
<1>11. PrintedIsWhole'
  <2>1. AnswerBytes' = AnswerBytes  BY <1>1 DEF AnswerBytes
  <2>2. CASE PrintResponse
    BY <1>0, <1>1, <2>1, <2>2 DEF PrintedIsWhole, InOrder, Connected, TypeOK, serverVars
  <2>3. CASE ~PrintResponse
    BY <1>0, <1>1, <2>1, <2>3 DEF IInv, PrintedIsWhole, Decision
  <2> QED  BY <2>2, <2>3
<1> HIDE DEF Compose, Connect, WriteFails, Shutdown, ReadFails, PrintResponse, Goes
<1> QED  BY <1>3, <1>4, <1>5, <1>6, <1>7, <1>8, <1>9, <1>10, <1>11 DEF IInv

\* A part of the request is written.
LEMMA WriteStep ==
  ASSUME IInv, NEW n \in 1..SocketBytes, Write(n)
  PROVE  IInv'
<1>0. TypeOK /\ Loop!IInv /\ Flow /\ HeardOut /\ Connected /\ InOrder /\ OnlyLateFail
  BY DEF IInv
<1>1. /\ UNCHANGED <<command, client, got, closed, taken, input, exceeded, idle, phase>>
      /\ UNCHANGED <<up, answer, replied, wire>>
      /\ pending' = pending + n /\ sent' = sent + n
  BY DEF Write, Intake!Send, SendUnread, serverVars
<1>2. client = "writing" /\ ~closed /\ sent + n <= command.size
  BY <1>0 DEF Write, Connected
<1>3. Loop!IInv'
  <2>1. CASE Intake!Send(n)  BY <1>0, <2>1, LoopStep
  <2>2. CASE SendUnread(n)
    <3>1. pending + n <= SocketBytes
      BY <2>2 DEF SendUnread
    <3>2. pending' \in 0..SocketBytes
      BY <1>0, <1>1, <3>1, Numbers
    <3> QED
      BY <1>0, <1>1, <3>1, <3>2
         DEF Loop!IInv, Loop!CountsOK, Loop!FlagsOK, Loop!Progress, Loop!InputIsAPrefix,
             Loop!ExceededSeparates, Loop!OutcomeFollows
  <2> QED  BY <2>1, <2>2 DEF Write
<1>4. TypeOK'
  <2>1. Intake!TypeOK'  BY <1>3, IntakeTypes, PTL
  <2>2. AnswerBytes' = AnswerBytes  BY <1>1 DEF AnswerBytes
  <2>3. sent' \in 0..command.size  BY <1>0, <1>1, <1>2, Numbers
  <2> QED  BY <1>0, <1>1, <2>1, <2>2, <2>3 DEF TypeOK
<1>5. Flow'  BY <1>0, <1>1, Numbers DEF Flow
<1>6. HeardOut' /\ Connected' /\ OnlyLateFail'
  BY <1>0, <1>1, <1>2 DEF HeardOut, Connected, OnlyLateFail
<1>7. InOrder'  BY <1>0, <1>1 DEF InOrder, AnswerBytes
<1>8. SentIsAccepted' /\ PrintedIsWhole'
  BY <1>1, <1>2 DEF IInv, SentIsAccepted, PrintedIsWhole
<1> QED  BY <1>3, <1>4, <1>5, <1>6, <1>7, <1>8 DEF IInv

\* A round of the handler's loop, or its end.
LEMMA ReadsStep ==
  ASSUME IInv, Reads
  PROVE  IInv'
<1>0. TypeOK /\ Loop!IInv /\ Flow /\ HeardOut /\ Connected /\ InOrder /\ OnlyLateFail
  BY DEF IInv
<1>1. /\ UNCHANGED <<command, client, sent, got, closed>>
      /\ UNCHANGED <<up, answer, replied, wire>>
      /\ wire = "open" /\ phase = "reading" /\ idle' \in {idle, TRUE}
  BY DEF Reads, Intake!ReadSome, Intake!Read, Intake!Take, Intake!EndOfInput,
         Intake!IdleTimeout, Intake!ReadFails, clientVars, serverVars
<1>2. answer = {}  BY <1>0, <1>1 DEF InOrder
<1>3. Loop!IInv'  BY <1>0, LoopStep DEF Reads
<1>4. TypeOK'
  <2>1. Intake!TypeOK'  BY <1>3, IntakeTypes, PTL
  <2>2. AnswerBytes' = AnswerBytes  BY <1>1 DEF AnswerBytes
  <2> QED  BY <1>0, <1>1, <2>1, <2>2 DEF TypeOK
<1>5. Flow'
  <2>1. ASSUME NEW n \in 1..Intake!Smaller(pending, BufBytes), Intake!Read(n)
        PROVE  Flow'
    <3>1. n \in Nat \ {0} /\ n <= pending
      BY <1>0, Numbers, IntakeAssumption DEF Intake!Smaller
    <3>2. /\ pending' = pending - n
          /\ taken' = Intake!Smaller(taken + n, MaxRequest + 1)
      BY <2>1 DEF Intake!Read, Intake!Take
    <3>3. taken' <= taken + n
      BY <1>0, <3>1, <3>2, Numbers DEF Intake!Smaller
    <3>4. taken' + pending' <= sent'
      BY <1>0, <1>1, <3>1, <3>2, <3>3, Numbers DEF Flow, Intake!Smaller
    <3>5. ASSUME ~exceeded' PROVE taken' + pending' = sent'
      <4>1. ~exceeded /\ Len(input) + n <= MaxRequest
        BY <2>1, <3>5 DEF Intake!Read
      <4>2. taken = Len(input) /\ taken + pending = sent
        BY <1>0, <4>1 DEF Loop!IInv, Loop!Progress, Loop!ExceededSeparates, Flow
      <4>3. taken' = taken + n
        BY <1>0, <3>1, <3>2, <4>1, <4>2, Numbers DEF Intake!Smaller
      <4> QED  BY <1>0, <1>1, <3>1, <3>2, <4>2, <4>3, Numbers
    <3> QED  BY <3>4, <3>5 DEF Flow
  <2>2. CASE Intake!EndOfInput \/ Intake!IdleTimeout \/ Intake!ReadFails
    BY <1>0, <1>1, <2>2 DEF Flow, Intake!EndOfInput, Intake!IdleTimeout, Intake!ReadFails
  <2> QED  BY <2>1, <2>2 DEF Reads, Intake!ReadSome
<1>6. HeardOut'
  BY <1>0, <1>1 DEF HeardOut, Reads, Intake!ReadSome, Intake!Read, Intake!Take,
                    Intake!EndOfInput, Intake!IdleTimeout, Intake!ReadFails,
                    Intake!Outcome
<1>7. Connected'  BY <1>0, <1>1 DEF Connected
<1>11. OnlyLateFail'
  <2>1. idle => idle'  BY <1>1
  <2> QED  BY <1>0, <1>1, <2>1 DEF OnlyLateFail
<1>8. InOrder'  BY <1>0, <1>1, <1>2 DEF InOrder, AnswerBytes
<1>9. SentIsAccepted'  BY <1>1, <1>2 DEF SentIsAccepted
<1>10. PrintedIsWhole'
  <2>1. AnswerBytes' = AnswerBytes  BY <1>1 DEF AnswerBytes
  <2> QED  BY <1>1, <2>1 DEF IInv, PrintedIsWhole
<1> QED  BY <1>3, <1>4, <1>5, <1>6, <1>7, <1>8, <1>9, <1>10, <1>11 DEF IInv

\* What send lets through, the daemon's validation lets through.
LEMMA SendAgrees ==
  ASSUME NEW c, SendAccepts(c)
  PROVE  ValidPlan(Overridden(c))
BY DEF SendAccepts, ForSend

\* Of what ping lets through, only the ids that it sets afterwards can be wrong.
LEMMA PingAgrees ==
  ASSUME NEW c \in Invocations, PingAccepts(c),
         \A id \in c.request_id \cup c.session_id : id.size <= MaxIdBytes
  PROVE  ValidPlan(Overridden(c))
<1> DEFINE plan == Overridden(c)
<1>1. DOMAIN c.plan = PlanFields  BY InvocationsAssumption
<1>2. /\ plan.actions = c.plan.actions
      /\ plan.confirmation = c.plan.confirmation
      /\ plan.version = c.plan.version
      /\ plan.request_id \in {c.plan.request_id} \cup c.request_id
      /\ plan.session_id \in {c.plan.session_id, c.session_id}
  BY <1>1 DEF Overridden, PlanFields
<1> HIDE DEF plan
<1>3. ValidPlan(c.plan) /\ OverridesOk(c)  BY DEF PingAccepts, ForSend
<1>4. Required(plan.request_id, MaxIdBytes)
  BY <1>2, <1>3 DEF ValidPlan, OverridesOk, Required
<1>5. \A id \in plan.session_id : Required(id, MaxIdBytes)
  BY <1>2, <1>3 DEF ValidPlan, OverridesOk, Required
<1>6. \A i \in DOMAIN plan.actions : ValidAction(plan.actions[i], plan)
  BY <1>2, <1>3
     DEF ValidPlan, ValidAction, ValidExec, ValidReadFile, ValidWriteFile,
         DangerConfirmed
<1> QED  BY <1>2, <1>3, <1>4, <1>5, <1>6 DEF ValidPlan, plan

\* The first word on a request is the handler's verdict.
LEMMA DecidesStep ==
  ASSUME IInv, Decides
  PROVE  IInv'
<1>0. TypeOK /\ Loop!IInv /\ Flow /\ HeardOut /\ Connected /\ InOrder /\ OnlyLateFail
  BY DEF IInv
<1>1. /\ UNCHANGED <<command, client, sent, got, intakeVars, up, replied, wire>>
      /\ answer = {} /\ answer' = {Verdict} /\ replied = 0
      /\ phase \in {"too_large", "timed_out", "parse"} /\ wire # "shut"
  BY <1>0 DEF Decides, clientVars, InOrder
<1>2. UNCHANGED <<pending, closed, taken, input, exceeded, idle, phase>>
  BY <1>1 DEF intakeVars
<1>3. Loop!IInv'  BY <1>0, <1>1, LoopStutter
<1>4. AnswerBytes' \in Nat \ {0}
  BY AnswersAssumption, IntakeAssumption DEF AnswerBytes
<1>5. TypeOK'
  <2>1. Intake!TypeOK'  BY <1>3, IntakeTypes, PTL
  <2>2. answer' \in SUBSET Answers  BY <1>1 DEF Verdict, Answers
  <2>3. replied' \in 0..AnswerBytes'  BY <1>1, <1>4
  <2> QED  BY <1>0, <1>1, <2>1, <2>2, <2>3 DEF TypeOK
<1>6. Flow' /\ HeardOut' /\ Connected' /\ OnlyLateFail'
  BY <1>0, <1>1, <1>2 DEF Flow, HeardOut, Connected, OnlyLateFail
<1>7. InOrder'  BY <1>0, <1>1, <1>2 DEF InOrder
<1>8. SentIsAccepted'
  <2>1. ASSUME Verdict = "validation_failed"
        PROVE  /\ command.command = "ping"
               /\ \E id \in command.request_id \cup command.session_id :
                    id.size > MaxIdBytes
    <3>1. ~ValidPlan(Overridden(command))  BY <2>1 DEF Verdict
    <3>2. Decision(command) = "ready"  BY <1>0, <1>1 DEF Connected
    <3>3. \/ command.command = "send" /\ SendAccepts(command)
          \/ command.command = "ping" /\ PingAccepts(command)
      BY <3>2 DEF Decision
    <3>4. /\ command \in Invocations
          /\ \A id \in command.request_id \cup command.session_id : id.size \in Nat
      BY <1>0, InvocationsAssumption DEF TypeOK
    <3>5. PICK id \in command.request_id \cup command.session_id :
            ~(id.size <= MaxIdBytes)
      BY <3>1, <3>3, <3>4, SendAgrees, PingAgrees
    <3>6. id.size > MaxIdBytes  BY <3>4, <3>5 DEF MaxIdBytes
    <3> QED  BY <3>1, <3>3, <3>5, <3>6, SendAgrees
  <2>2. ASSUME Verdict = "parse_failed" PROVE idle
    <3>1. CASE phase = "timed_out"  BY <1>0, <3>1 DEF HeardOut
    <3>2. CASE phase # "timed_out"
      <4>1. phase = "parse" /\ Len(input) < command.size
        BY <1>1, <2>2, <3>2 DEF Verdict
      <4>2. Len(input) = taken /\ taken + pending = sent
        BY <1>0, <4>1 DEF Loop!IInv, Loop!Progress, Loop!OutcomeFollows,
                          Loop!ExceededSeparates, Flow
      <4>3. SUFFICES ASSUME ~idle PROVE FALSE
        OBVIOUS
      <4>4. pending = 0 /\ sent = command.size
        BY <1>0, <4>1, <4>3 DEF HeardOut
      <4> QED  BY <1>0, <4>1, <4>2, <4>4, Numbers
    <3> QED  BY <3>1, <3>2
  <2>3. ASSUME Verdict = "request_too_large" PROVE command.size > MaxRequest
    <3>1. phase = "too_large"  BY <2>3 DEF Verdict
    <3>2. taken = MaxRequest + 1
      BY <1>0, <3>1 DEF Loop!IInv, Loop!Progress, Loop!OutcomeFollows,
                        Loop!ExceededSeparates
    <3> QED  BY <1>0, <3>2, Numbers DEF Flow
  <2> QED  BY <1>1, <1>2, <2>1, <2>2, <2>3 DEF SentIsAccepted
<1>9. PrintedIsWhole'
  BY <1>1 DEF IInv, PrintedIsWhole
<1> QED  BY <1>3, <1>5, <1>6, <1>7, <1>8, <1>9 DEF IInv

\* The response is written, and the handler goes or dies.
LEMMA AnswersStep ==
  ASSUME IInv,
         HangsUp \/ Drops \/ Dies \/ \E n \in 1..SocketBytes : Replies(n)
  PROVE  IInv'
<1>0. TypeOK /\ Loop!IInv /\ Flow /\ HeardOut /\ Connected /\ InOrder /\ OnlyLateFail
  BY DEF IInv
<1>1. /\ UNCHANGED <<command, client, sent, got, intakeVars, answer>>
      /\ up' \in {up, FALSE} /\ wire' \in {wire, "shut", "dropped"} /\ up
  BY DEF HangsUp, Drops, Dies, Replies, clientVars
<1>2. /\ UNCHANGED <<pending, closed, taken, input, exceeded, idle, phase>>
      /\ AnswerBytes' = AnswerBytes
  BY <1>1 DEF intakeVars, AnswerBytes
<1>3. Loop!IInv'  BY <1>0, <1>1, LoopStutter
<1>4. /\ replied' \in Nat /\ replied <= replied' /\ replied' <= AnswerBytes
      /\ replied' - got \in 0..SocketBytes
      /\ replied' # replied => answer # {} /\ wire = "open" /\ UNCHANGED wire /\ UNCHANGED up
  <2>1. CASE HangsUp \/ Drops \/ Dies
    BY <1>0, <2>1, Numbers DEF HangsUp, Drops, Dies
  <2>2. ASSUME NEW n \in 1..SocketBytes, Replies(n)
        PROVE  /\ replied' = replied + n /\ answer # {} /\ wire = "open"
               /\ replied + n <= AnswerBytes /\ replied + n - got <= SocketBytes
               /\ UNCHANGED wire /\ UNCHANGED up
    BY <2>2 DEF Replies
  <2> QED  BY <1>0, <2>1, <2>2, Numbers
<1>5. TypeOK'
  <2>1. Intake!TypeOK'  BY <1>3, IntakeTypes, PTL
  <2>2. replied' \in 0..AnswerBytes'  BY <1>0, <1>2, <1>4, Numbers
  <2> QED  BY <1>0, <1>1, <1>4, <2>1, <2>2 DEF TypeOK
<1>6. Flow' /\ HeardOut'
  BY <1>0, <1>1, <1>2 DEF Flow, HeardOut
<1>7. Connected'
  <2>1. wire' = "none" => wire = "none"
    BY DEF HangsUp, Drops, Dies, Replies
  <2>2. wire' \in {"open", "shut"} => wire \in {"open", "shut"}
    BY DEF HangsUp, Drops, Dies, Replies
  <2>3. wire = "none" /\ up' => wire' = "none"
    BY DEF HangsUp, Drops, Dies, Replies
  <2> QED  BY <1>0, <1>1, <1>2, <2>1, <2>2, <2>3 DEF Connected
<1>8. InOrder'
  <2>1. answer' = {} => replied' = 0  BY <1>0, <1>1, <1>4 DEF InOrder
  <2>2. CASE HangsUp
    <3>1. answer # {} /\ replied' = AnswerBytes' /\ answer' = answer
      BY <1>0, <1>1, <1>2, <2>2, Numbers DEF HangsUp, InOrder
    <3> QED  BY <1>0, <1>2, <3>1 DEF InOrder
  <2>3. CASE ~HangsUp
    BY <1>0, <1>1, <1>2, <2>1, <2>3 DEF InOrder, Drops, Dies, Replies
  <2> QED  BY <2>2, <2>3
<1>9. OnlyLateFail' /\ SentIsAccepted'
  <2>1. wire = "none" /\ up' => wire' = "none"
    BY DEF HangsUp, Drops, Dies, Replies
  <2> QED  BY <1>0, <1>1, <1>2, <2>1 DEF IInv, OnlyLateFail, SentIsAccepted
<1>10. PrintedIsWhole'
  BY <1>1, <1>2 DEF IInv, PrintedIsWhole
<1> QED  BY <1>3, <1>5, <1>6, <1>7, <1>8, <1>9, <1>10 DEF IInv

\* A part of the response is read.
LEMMA ReadSomeStep ==
  ASSUME IInv, NEW n \in 1..SocketBytes, ReadSome(n)
  PROVE  IInv'
<1>0. TypeOK /\ Loop!IInv /\ Flow /\ HeardOut /\ Connected /\ InOrder /\ OnlyLateFail
  BY DEF IInv
<1>1. /\ UNCHANGED <<command, client, sent, intakeVars, up, answer, replied, wire>>
      /\ client = "awaiting" /\ got' = got + n /\ got + n <= replied
  BY DEF ReadSome, serverVars
<1>2. /\ UNCHANGED <<pending, closed, taken, input, exceeded, idle, phase>>
      /\ AnswerBytes' = AnswerBytes
  BY <1>1 DEF intakeVars, AnswerBytes
<1>3. Loop!IInv'  BY <1>0, <1>1, LoopStutter
<1>4. TypeOK'
  <2>1. Intake!TypeOK'  BY <1>3, IntakeTypes, PTL
  <2>2. got' \in Nat /\ replied - got' \in 0..SocketBytes
    BY <1>0, <1>1, Numbers
  <2> QED  BY <1>0, <1>1, <1>2, <2>1, <2>2 DEF TypeOK
<1>5. Flow' /\ HeardOut' /\ Connected' /\ InOrder' /\ OnlyLateFail'
  BY <1>0, <1>1, <1>2 DEF Flow, HeardOut, Connected, InOrder, OnlyLateFail
<1>6. SentIsAccepted' /\ PrintedIsWhole'
  BY <1>1, <1>2 DEF IInv, SentIsAccepted, PrintedIsWhole
<1> QED  BY <1>3, <1>4, <1>5, <1>6 DEF IInv

LEMMA StutterStep == IInv /\ UNCHANGED vars => IInv'
<1> SUFFICES ASSUME IInv, UNCHANGED vars PROVE IInv'
  OBVIOUS
<1>1. /\ UNCHANGED <<command, client, sent, got, intakeVars, up, answer, replied, wire>>
      /\ UNCHANGED <<pending, closed, taken, input, exceeded, idle, phase>>
      /\ AnswerBytes' = AnswerBytes
  BY DEF vars, clientVars, intakeVars, serverVars, AnswerBytes
<1>2. Loop!IInv'  BY <1>1, LoopStutter DEF IInv
<1>3. Intake!TypeOK'  BY <1>2, IntakeTypes, PTL
<1>4. TypeOK'  BY <1>1, <1>3 DEF IInv, TypeOK
<1>5. Flow' /\ HeardOut' /\ Connected' /\ InOrder' /\ OnlyLateFail'
  BY <1>1 DEF IInv, Flow, HeardOut, Connected, InOrder, OnlyLateFail
<1>6. SentIsAccepted' /\ PrintedIsWhole'
  BY <1>1 DEF IInv, SentIsAccepted, PrintedIsWhole
<1> QED  BY <1>2, <1>4, <1>5, <1>6 DEF IInv
-----------------------------------------------------------------------------
THEOREM Invariance == Spec => []IInv
<1>1. IInv /\ [Next]_vars => IInv'
  <2> SUFFICES ASSUME IInv, [Next]_vars PROVE IInv'
    OBVIOUS
  <2>1. CASE Talks
    BY <2>1, ClientStep, WriteStep, ReadSomeStep DEF Talks
  <2>2. CASE Serves \/ Dies
    BY <2>2, ReadsStep, DecidesStep, AnswersStep DEF Serves
  <2>3. CASE Over \/ UNCHANGED vars
    BY <2>3, StutterStep DEF Over
  <2> QED  BY <2>1, <2>2, <2>3 DEF Next
<1> QED  BY <1>1, Initially, PTL DEF Spec

\* Types, and that neither side is ahead of the other by more than the socket.
THEOREM TypeCorrectness == Spec => []TypeOK
<1>1. IInv => TypeOK  BY DEF IInv
<1> QED  BY <1>1, Invariance, PTL

\* What llmsh's checks let through, the daemon's let through, but for the size
\* and the ids that ping sets after its validation.
THEOREM SentAccepted == Spec => []SentIsAccepted
<1>1. IInv => SentIsAccepted  BY DEF IInv
<1> QED  BY <1>1, Invariance, PTL

\* Success with less than the whole response means that the daemon has died, or
\* that it could not read.
THEOREM PrintedWhole == Spec => []PrintedIsWhole
<1>1. IInv => PrintedIsWhole  BY DEF IInv
<1> QED  BY <1>1, Invariance, PTL

\* A client that has connected and does not pause cannot lose its answer to
\* anything but the daemon's death and a read of it that fails.
THEOREM AnswerArriving == Spec => []AnswerArrives
<1>1. IInv => AnswerArrives
  BY DEF IInv, AnswerArrives, OnlyLateFail, PrintedIsWhole
<1> QED  BY <1>1, Invariance, PTL

\* In company, too, the loop gives the parser the bytes that were sent, and
\* rejects exactly above the limit.
THEOREM LoopKeepsItsWord == Spec => [](Intake!InputIsAPrefix /\ Intake!LimitIsExact)
<1>1. Loop!IInv => Intake!InputIsAPrefix /\ Intake!LimitIsExact
  BY IntakeAssumption
     DEF Loop!IInv, Loop!CountsOK, Loop!Progress, Loop!InputIsAPrefix,
         Loop!ExceededSeparates, Loop!OutcomeFollows,
         Intake!InputIsAPrefix, Intake!LimitIsExact
<1>2. IInv => Loop!IInv  BY DEF IInv
<1> QED  BY <1>1, <1>2, Invariance, PTL
=============================================================================
