------------------------------- MODULE Llmsh -------------------------------
(***************************************************************************)
(* The client (llmsh/src) and its exchange with one handler of the daemon: *)
(* what a command sends, after the overrides and the local validation, and *)
(* how request and answer cross a socket that holds a few bytes each way.  *)
(*                                                                         *)
(* The daemon's reading is RequestRead; its later steps are those of       *)
(* handle_client (llm-osd/src/server.rs).  Of a text that crosses the      *)
(* socket only the number of bytes is modelled.                            *)
(***************************************************************************)
EXTENDS ActionPlan

\* The fields of struct ActionPlan.
PlanFields ==
  {"request_id", "session_id", "version", "mode", "confirmation", "actions"}

CONSTANTS
  Invocations,   \* commands with their arguments, see InvocationsAssumption
  ResultBytes,   \* the size of a response with results
  ErrorBytes,    \* the size of a response that only reports a request error
  MaxRequest, BufBytes, SocketBytes   \* see RequestRead

\* plan is what the text that is parsed says, that of ping too; for a malformed
\* text nothing looks at it.  size is that of the canonical text llmsh makes of
\* the plan it sends.
ASSUME InvocationsAssumption ==
  \A i \in Invocations :
    /\ i.command \in {"send", "ping", "validate"}
    /\ i.form \in {"json", "malformed"}
    /\ DOMAIN i.plan = PlanFields
    /\ \A id \in i.request_id \cup i.session_id : id.size \in Nat
    /\ i.size \in Nat \ {0}

\* A request error fits into the socket's buffer.  Of a text that llmsh has
\* composed it echoes no more than the request_id: one of MaxIdBytes bytes, or
\* in a ping one that a command line argument can hold.  Were it longer than the
\* buffer, the handler of a client that paused and the client could each wait
\* for the other to read.
ASSUME AnswersAssumption ==
  ResultBytes \in Nat \ {0} /\ ErrorBytes \in 1..SocketBytes

ASSUME IntakeAssumption ==
  MaxRequest \in Nat /\ BufBytes \in Nat \ {0} /\ SocketBytes \in Nat \ {0}

VARIABLES
  command,    \* the invocation
  client,     \* where main of llmsh is, or how it ended
  sent, got,  \* bytes of the request written, and of the response read
  pending, closed, taken, input, exceeded, idle, phase,   \* see RequestRead
  up,         \* the daemon lives
  answer,     \* the response of the handler, as a set
  replied,    \* bytes of it written
  wire        \* the handler's end of the socket: none, open, shut down, dropped

clientVars == <<command, client, sent, got>>
intakeVars == <<pending, closed, taken, input, exceeded, idle, phase>>
serverVars == <<up, answer, replied, wire>>
vars       == <<clientVars, intakeVars, serverVars>>

Intake == INSTANCE RequestRead

Ended   == {"approved", "rejected", "refused", "failed", "printed"}
Clients == {"started", "ready", "writing", "awaiting"} \cup Ended
Answers == {"results", "parse_failed", "validation_failed", "request_too_large"}

Init ==
  /\ command \in Invocations
  /\ client = "started" /\ sent = 0 /\ got = 0
  /\ Intake!Init
  /\ up \in BOOLEAN /\ answer = {} /\ replied = 0 /\ wire = "none"
-----------------------------------------------------------------------------
\* What a command makes of its arguments.

\* apply_overrides accepts.
OverridesOk(c) == \A id \in c.request_id \cup c.session_id : NonBlank(id)

\* apply_overrides
Overridden(c) ==
  [c.plan EXCEPT
     !.request_id = IF c.request_id = {} THEN @ ELSE CHOOSE id \in c.request_id : TRUE,
     !.session_id = IF c.session_id = {} THEN @ ELSE c.session_id]

ForSend(plan) == ValidPlan(plan) /\ plan.mode = "execute"

\* A wrong SendAccepts, with the override after the validation as in ping.
SendAcceptsBeforeOverride(c) ==
  c.form = "json" /\ ForSend(c.plan) /\ OverridesOk(c)

\* parse_and_validate_for_send_with_overrides
SendAccepts(c) ==
  c.form = "json" /\ OverridesOk(c) /\ ForSend(Overridden(c))

\* ping: its own plan is validated, and then overridden.
PingAccepts(c) == c.form = "json" /\ ForSend(c.plan) /\ OverridesOk(c)

\* validate_verdict
Approves(c) == c.form = "json" /\ ValidPlan(c.plan)

\* What main decides on its own; only send and ping go on to the daemon.
Decision(c) ==
  IF c.command = "validate" THEN IF Approves(c) THEN "approved" ELSE "rejected"
  ELSE IF \/ c.command = "send" /\ SendAccepts(c)
          \/ c.command = "ping" /\ PingAccepts(c)
    THEN "ready" ELSE "refused"

Compose ==
  /\ client = "started"
  /\ client' = Decision(command)
  /\ UNCHANGED <<command, sent, got, intakeVars, serverVars>>
-----------------------------------------------------------------------------
\* send

Goes(from, to) == client = from /\ client' = to

\* UnixStream::connect; the system may refuse it although the daemon lives, for
\* want of a permission or of room in the backlog.
Connect ==
  /\ \/ up /\ Goes("ready", "writing") /\ wire' = "open"
     \/ Goes("ready", "failed") /\ UNCHANGED wire
  /\ UNCHANGED <<command, sent, got, intakeVars, up, answer, replied>>

\* Bytes the handler will not read any more.
SendUnread(n) ==
  /\ phase # "reading" /\ pending + n <= SocketBytes
  /\ pending' = pending + n
  /\ UNCHANGED <<closed, taken, input, exceeded, idle, phase>>

\* A wrong Write, which after a part begins again.
WriteAgain(n) ==
  /\ client = "writing" /\ wire # "dropped"
  /\ n <= command.size
  /\ Intake!Send(n) \/ SendUnread(n)
  /\ sent' = sent + n
  /\ UNCHANGED <<command, client, got, serverVars>>

\* write_all goes on as far as there is room.
Write(n) ==
  /\ client = "writing" /\ wire # "dropped"
  /\ sent + n <= command.size
  /\ Intake!Send(n) \/ SendUnread(n)
  /\ sent' = sent + n
  /\ UNCHANGED <<command, client, got, serverVars>>

\* EPIPE: write_all returns the error, and nothing is read.
WriteFails ==
  /\ wire = "dropped" /\ sent < command.size
  /\ Goes("writing", "failed")
  /\ UNCHANGED <<command, sent, got, intakeVars, serverVars>>

Shutdown ==
  /\ sent = command.size
  /\ Goes("writing", "awaiting")
  /\ closed' = TRUE
  /\ UNCHANGED <<command, sent, got, pending, taken, input, exceeded, idle, phase,
                 serverVars>>

\* read_to_string
ReadSome(n) ==
  /\ client = "awaiting" /\ got + n <= replied
  /\ got' = got + n
  /\ UNCHANGED <<command, client, sent, intakeVars, serverVars>>

\* What was never read of the request makes the socket return an error.
Reset == wire = "dropped" /\ pending > 0

ReadFails ==
  /\ got = replied /\ Reset
  /\ Goes("awaiting", "failed")
  /\ UNCHANGED <<command, sent, got, intakeVars, serverVars>>

\* The end of the response, or of the daemon: main prints what it has.
PrintResponse ==
  /\ got = replied /\ wire # "open" /\ ~Reset
  /\ Goes("awaiting", "printed")
  /\ UNCHANGED <<command, sent, got, intakeVars, serverVars>>
-----------------------------------------------------------------------------
\* The handler.

\* A round of its read loop, or the end of it: the client's, that of the timer,
\* or that of the ? on stream.read.
Reads ==
  /\ up /\ wire = "open"
  /\ \/ Intake!ReadSome \/ Intake!EndOfInput \/ Intake!IdleTimeout
     \/ Intake!ReadFails
  /\ UNCHANGED <<clientVars, serverVars>>

\* A cut text is no JSON; a whole one is the plan that was sent.
Verdict ==
  IF phase = "too_large" THEN "request_too_large"
  ELSE IF phase = "timed_out" \/ Len(input) < command.size THEN "parse_failed"
  ELSE IF ~ValidPlan(Overridden(command)) THEN "validation_failed"
  ELSE "results"

Decides ==
  /\ up /\ answer = {} /\ phase \in {"too_large", "timed_out", "parse"}
  /\ answer' = {Verdict}
  /\ UNCHANGED <<clientVars, intakeVars, up, replied, wire>>

AnswerBytes == IF answer = {"results"} THEN ResultBytes ELSE ErrorBytes

\* write_all of the response, as far as the client reads.
Replies(n) ==
  /\ up /\ answer # {} /\ wire = "open"
  /\ replied + n <= AnswerBytes /\ replied + n - got <= SocketBytes
  /\ replied' = replied + n
  /\ UNCHANGED <<clientVars, intakeVars, up, answer, wire>>

\* A wrong HangsUp, after a single write.
HangsUpEarly ==
  /\ up /\ wire = "open" /\ replied > 0
  /\ wire' = "shut"
  /\ UNCHANGED <<clientVars, intakeVars, up, answer, replied>>

\* Another, which leaves the end of the exchange to the client.
HangsUpAfterClient ==
  /\ up /\ wire = "open" /\ replied = AnswerBytes /\ client \in Ended
  /\ wire' = "shut"
  /\ UNCHANGED <<clientVars, intakeVars, up, answer, replied>>

\* stream.shutdown, when all is written.
HangsUp ==
  /\ up /\ wire = "open" /\ replied = AnswerBytes
  /\ wire' = "shut"
  /\ UNCHANGED <<clientVars, intakeVars, up, answer, replied>>

\* handle_client returns, after the audit record or with the error of a read;
\* then the client is told nothing.
Drops ==
  /\ up
  /\ wire = "shut" \/ (wire = "open" /\ phase = "failed")
  /\ wire' = "dropped"
  /\ UNCHANGED <<clientVars, intakeVars, up, answer, replied>>

Dies ==
  /\ up /\ up' = FALSE /\ wire' = "dropped"
  /\ UNCHANGED <<clientVars, intakeVars, answer, replied>>

\* llmsh has ended.
Over == client \in Ended /\ UNCHANGED vars

Talks ==
  \/ Compose \/ Connect \/ WriteFails \/ Shutdown \/ ReadFails \/ PrintResponse
  \/ \E n \in 1..SocketBytes : Write(n) \/ ReadSome(n)

Serves ==
  \/ Reads \/ Decides \/ HangsUp \/ Drops
  \/ \E n \in 1..SocketBytes : Replies(n)

Next == Talks \/ Serves \/ Dies \/ Over

\* Both runtimes go on with what can go on.
Fairness == WF_vars(Talks) /\ WF_vars(Serves)

Spec     == Init /\ [][Next]_vars
FairSpec == Spec /\ Fairness
-----------------------------------------------------------------------------
\* Types, and how far each side may be ahead of the other.
TypeOK ==
  /\ command \in Invocations /\ client \in Clients
  /\ Intake!TypeOK
  /\ up \in BOOLEAN /\ answer \in SUBSET Answers
  /\ wire \in {"none", "open", "shut", "dropped"}
  /\ sent \in 0..command.size
  /\ replied \in 0..AnswerBytes /\ got \in Nat /\ replied - got \in 0..SocketBytes

\* The daemon finds fault with nothing that send lets through, but for what
\* llmsh does not look at: the size of the whole, and an id that ping sets after
\* its validation.  Only a pause of the client cuts a request.
SentIsAccepted ==
  /\ answer = {"validation_failed"} =>
       /\ command.command = "ping"
       /\ \E id \in command.request_id \cup command.session_id :
            id.size > MaxIdBytes
  /\ answer = {"parse_failed"} => idle
  /\ answer = {"request_too_large"} => command.size > MaxRequest

\* A client that has connected and does not pause gets its answer whole, also
\* when the request is too large for the daemon and was never kept; unless the
\* daemon dies or cannot read from the socket.
AnswerArrives ==
  /\ client \in {"failed", "printed"} /\ wire # "none" /\ ~idle
  /\ up /\ phase # "failed"
  => client = "printed" /\ answer # {} /\ got = AnswerBytes

\* What main prints is the whole response; only the daemon's death, or a read
\* of its that fails, can make llmsh print less, or nothing, and still exit with
\* success.
PrintedIsWhole ==
  client = "printed" /\ up /\ phase # "failed" => answer # {} /\ got = AnswerBytes

\* No command hangs: client and handler never wait for each other for ever.
ExchangeEnds == client = "started" ~> client \in Ended
=============================================================================
