------------------------------- MODULE Daemon -------------------------------
(***************************************************************************)
(* llm-osd serving its clients: run, handle_client, execute_action and     *)
(* plan_action of llm-osd/src/server.rs, with exec::run, files::read,      *)
(* files::write and audit::append_record as the steps they call.           *)
(*                                                                         *)
(* Every accepted connection is a task of its own, so the handlers are     *)
(* interleaved at their await points: reading the request, each action,    *)
(* the wait for a child process, the reply and the audit append.  A child  *)
(* process outlives whoever waits for it.                                  *)
(*                                                                         *)
(* How the bytes of a request arrive is the subject of RequestRead; here a *)
(* request has a form that says what became of them.                       *)
(***************************************************************************)
EXTENDS Policy

CONSTANTS
  Conn,       \* connections, one request each, as handle_client has it
  Requests,   \* what a client may send: [form |-> ..., plan |-> ...]
  Faults      \* which faults the environment may produce

Forms      == {"json", "malformed", "oversized", "silent"}
FaultKinds == {"crash", "leave", "stall", "send_on", "read_error", "audit_error"}

ASSUME RequestsAssumption ==
  \A r \in Requests :
    /\ r.form \in Forms
    /\ r.form = "json" =>
         /\ r.plan.mode \in Modes
         /\ Len(r.plan.actions) \in Nat
         /\ DOMAIN r.plan.actions = 1..Len(r.plan.actions)
         /\ \A i \in DOMAIN r.plan.actions :
              LET action == r.plan.actions[i]
              IN  /\ action.kind = "write_file" => action.mode \in Seq(STRING)
                  /\ action.kind \in {"read_file", "write_file"} =>
                       action.path.parts \in Seq(STRING) /\ action.path.waits \in BOOLEAN

ASSUME FaultsAssumption == Faults \subseteq FaultKinds

VARIABLES
  up,         \* is the daemon process running
  phase,      \* phase[c]: where the handler of c is
  peer,       \* peer[c]: what the client of c does with its end
  req,        \* req[c]: the request the client of c sends
  results,    \* results[c]: the ActionResults so far
  answer,     \* answer[c]: the response written to the client, if any
  children,   \* child processes still running, as <<connection, action>>
  touched,    \* history: actions that have begun to have an effect on the system
  audit       \* the audit log

vars == <<up, phase, peer, req, results, answer, children, touched, audit>>

Phases == {"fresh", "reading", "acting", "waiting", "auditing", "done", "lost"}
Over   == {"done", "lost"}

\* A client sends its request and reads, or does not read, or sends on and on.
Peers  == {"reading", "stalled", "sending", "gone"}

Results == [kind : Kinds, ok : BOOLEAN, code : ActionErrors \cup {NoError}]
Answers == [executed : BOOLEAN, error : RequestErrors \cup {NoError},
            results : Seq(Results)]
Steps   == Conn \X (Nat \ {0})
Records == [conn : Conn, executed : BOOLEAN, results : Seq(Results)]
-----------------------------------------------------------------------------
Plan(c)    == req[c].plan
Executes(c) == Plan(c).mode = "execute"

\* The loop over plan.actions: the action whose turn it is.
NextIndex(c)  == Len(results[c]) + 1
Pending(c)    == phase[c] = "acting" /\ NextIndex(c) <= Len(Plan(c).actions)
NextAction(c) == Plan(c).actions[NextIndex(c)]

\* A wrong Failure, with one code for everything.
FailureUncoded(action, code) ==
  [kind |-> action.kind, ok |-> FALSE, code |-> "failed"]

Success(action)       == [kind |-> action.kind, ok |-> TRUE,  code |-> NoError]
Failure(action, code) == [kind |-> action.kind, ok |-> FALSE, code |-> code]

Push(c, result) == results' = [results EXCEPT ![c] = Append(@, result)]

Goto(c, to) == phase' = [phase EXCEPT ![c] = to]

Reply(c, response) ==
  answer' = [answer EXCEPT ![c] = IF peer[c] = "gone" THEN {} ELSE {response}]

ErrorAnswer(code) == [executed |-> FALSE, error |-> code, results |-> <<>>]

\* The actions of a request that the daemon may act on.
PermittedActions ==
  [r \in Requests |->
     IF r.form = "json" /\ ValidPlan(r.plan) /\ r.plan.mode = "execute"
       THEN {i \in DOMAIN r.plan.actions :
               /\ r.plan.actions[i].kind \in {"exec", "observe", "write_file"}
               /\ ExecuteRefusal(r.plan.actions[i], r.plan.confirmation) = NoError}
       ELSE {}]

Permitted(c, i) == i \in PermittedActions[req[c]]
-----------------------------------------------------------------------------
Init ==
  /\ up = TRUE
  /\ phase = [c \in Conn |-> "fresh"]
  /\ peer \in [Conn -> {"reading"}
                      \cup (IF "stall"   \in Faults THEN {"stalled"} ELSE {})
                      \cup (IF "send_on" \in Faults THEN {"sending"} ELSE {})]
  /\ req \in [Conn -> Requests]
  /\ \A c \in Conn : peer[c] = "sending" => req[c].form # "silent"
  /\ results = [c \in Conn |-> <<>>]
  /\ answer = [c \in Conn |-> {}]
  /\ children = {}
  /\ touched = {}
  /\ audit = <<>>

\* An accept loop that serves one client at a time: a wrong Accept.
AcceptOneAtATime(c) ==
  /\ up /\ phase[c] = "fresh"
  /\ \A d \in Conn : phase[d] \in {"fresh"} \cup Over
  /\ Goto(c, "reading")
  /\ UNCHANGED <<up, peer, req, results, answer, children, touched, audit>>

\* run: accept, then tokio::spawn(handle_client).
Accept(c) ==
  /\ up /\ phase[c] = "fresh"
  /\ Goto(c, "reading")
  /\ UNCHANGED <<up, peer, req, results, answer, children, touched, audit>>

\* The read loop has ended: the client has shut its sending half, has closed its
\* end, or has been quiet for READ_IDLE_TIMEOUT.  Only the wait for the next
\* byte is timed, so a client that sends on and on is read, or drained, for ever.
Heard(c) == phase[c] = "reading" /\ peer[c] # "sending"

\* write_request_error; a failure to write it is ignored.
Reject(c, code) ==
  /\ Goto(c, "done")
  /\ Reply(c, ErrorAnswer(code))
  /\ UNCHANGED <<up, peer, req, results, children, touched, audit>>

RejectOversized(c) ==
  /\ Heard(c) /\ req[c].form = "oversized"
  /\ Reject(c, "request_too_large")

\* "read timed out", or text that parse_action_plan cannot read.
RejectUnreadable(c) ==
  /\ Heard(c) /\ req[c].form \in {"silent", "malformed"}
  /\ Reject(c, "parse_failed")

RejectInvalid(c) ==
  /\ Heard(c) /\ req[c].form = "json"
  /\ ~ValidPlan(Plan(c))
  /\ Reject(c, "validation_failed")

\* The ? on stream.read: the handler ends without an answer.
ReadFails(c) ==
  /\ "read_error" \in Faults
  /\ phase[c] = "reading"
  /\ Goto(c, "done")
  /\ UNCHANGED <<up, peer, req, results, answer, children, touched, audit>>

Admit(c) ==
  /\ Heard(c) /\ req[c].form = "json"
  /\ ValidPlan(Plan(c))
  /\ Goto(c, "acting")
  /\ UNCHANGED <<up, peer, req, results, answer, children, touched, audit>>
-----------------------------------------------------------------------------
\* Mode::PlanOnly: plan_action answers without acting.
PlanStep(c) ==
  /\ Pending(c) /\ ~Executes(c)
  /\ LET action  == NextAction(c)
         refusal == PlanRefusal(action, Plan(c).confirmation)
     IN  Push(c, IF refusal = NoError THEN Success(action)
                                      ELSE Failure(action, refusal))
  /\ UNCHANGED <<up, phase, peer, req, answer, children, touched, audit>>

\* Mode::Execute, refused by policy or not supported.
RefuseStep(c) ==
  /\ Pending(c) /\ Executes(c)
  /\ LET action  == NextAction(c)
         refusal == ExecuteRefusal(action, Plan(c).confirmation)
     IN  /\ refusal # NoError
         /\ Push(c, Failure(action, refusal))
  /\ UNCHANGED <<up, phase, peer, req, answer, children, touched, audit>>

\* Two wrong MayActs: one forgets the gates, one the mode.
MayActUngated(c, kinds) ==
  /\ Pending(c) /\ Executes(c)
  /\ NextAction(c).kind \in kinds

MayActInDryRun(c, kinds) ==
  /\ Pending(c)
  /\ NextAction(c).kind \in kinds
  /\ ExecuteRefusal(NextAction(c), Plan(c).confirmation) = NoError

\* Mode::Execute, past the gates: the action at hand is one of these kinds.
MayAct(c, kinds) ==
  /\ Pending(c) /\ Executes(c)
  /\ NextAction(c).kind \in kinds
  /\ ExecuteRefusal(NextAction(c), Plan(c).confirmation) = NoError

Ping(c) ==
  /\ MayAct(c, {"ping"})
  /\ Push(c, Success(NextAction(c)))
  /\ UNCHANGED <<up, phase, peer, req, answer, children, touched, audit>>

ReadFile(c) ==
  /\ MayAct(c, {"read_file"})
  /\ \E result \in {Success(NextAction(c)), Failure(NextAction(c), "read_failed")} :
       Push(c, result)
  /\ UNCHANGED <<up, phase, peer, req, answer, children, touched, audit>>

\* tokio::fs::write in files::write, once the mode is parsed: the file is
\* created or truncated, and then written.
FileChanges(c) ==
  /\ MayAct(c, {"write_file"}) /\ ParseModeOk(NextAction(c).mode)
  /\ touched' = touched \cup {<<c, NextIndex(c)>>}
  /\ UNCHANGED <<up, phase, peer, req, results, answer, children, audit>>

\* How files::write ends; it can fail before the file has changed and after.
WriteFile(c) ==
  /\ MayAct(c, {"write_file"})
  /\ LET action == NextAction(c)
     IN  \/ /\ <<c, NextIndex(c)>> \in touched
            /\ Push(c, Success(action))
         \/ Push(c, Failure(action, IF ParseModeOk(action.mode)
                                      THEN "write_failed"
                                      ELSE "invalid_mode_string"))
  /\ UNCHANGED <<up, phase, peer, req, answer, children, touched, audit>>

\* A read or a write of something that may keep its caller waiting, a FIFO for
\* one: no timeout is set on a file call.
AtWaitingFile(c) ==
  MayAct(c, {"read_file", "write_file"}) /\ NextAction(c).path.waits

\* exec::run for exec and for observe: cmd.output() spawns, or cannot.
SpawnFails(c) ==
  /\ MayAct(c, {"exec", "observe"})
  /\ Push(c, Failure(NextAction(c), "exec_failed"))
  /\ UNCHANGED <<up, phase, peer, req, answer, children, touched, audit>>

\* A wrong Spawn, which starts every action that is left at once.
SpawnAll(c) ==
  /\ MayAct(c, {"exec", "observe"})
  /\ children' = children \cup {<<c, i>> : i \in NextIndex(c)..Len(Plan(c).actions)}
  /\ Goto(c, "waiting")
  /\ UNCHANGED <<up, peer, req, results, answer, touched, audit>>

Spawn(c) ==
  /\ MayAct(c, {"exec", "observe"})
  /\ children' = children \cup {<<c, NextIndex(c)>>}
  /\ Goto(c, "waiting")
  /\ UNCHANGED <<up, peer, req, results, answer, touched, audit>>

\* A wrong WaitEnds, which takes the child's first output for its exit.
WaitEndsEarly(c, result) ==
  /\ phase[c] = "waiting"
  /\ Push(c, result)
  /\ Goto(c, "acting")
  /\ UNCHANGED <<up, peer, req, answer, children, touched, audit>>

\* The three arms of the match on timeout(..., cmd.output()): the output of a
\* child that has exited, an error while waiting, and the timeout.  Dropping
\* the future does not kill the child: kill_on_drop is not set.
WaitEnds(c, result) ==
  /\ phase[c] = "waiting"
  /\ result.code = NoError => <<c, NextIndex(c)>> \notin children
  /\ Push(c, result)
  /\ Goto(c, "acting")
  /\ UNCHANGED <<up, peer, req, answer, children, touched, audit>>

ExecFinishes(c) ==
  \E success \in BOOLEAN :
    WaitEnds(c, [kind |-> NextAction(c).kind, ok |-> success, code |-> NoError])

ExecWaitFails(c) == WaitEnds(c, Failure(NextAction(c), "exec_failed"))

ExecTimesOut(c)  == WaitEnds(c, Failure(NextAction(c), "exec_timed_out"))

\* The child processes themselves.
ChildActs(child) ==
  /\ child \in children
  /\ touched' = touched \cup {child}
  /\ UNCHANGED <<up, phase, peer, req, results, answer, children, audit>>

ChildExits(child) ==
  /\ child \in children
  /\ children' = children \ {child}
  /\ UNCHANGED <<up, phase, peer, req, results, answer, touched, audit>>
-----------------------------------------------------------------------------
AllActed(c) == phase[c] = "acting" /\ NextIndex(c) > Len(Plan(c).actions)

PlanAnswer(c) == [executed |-> Executes(c), error |-> NoError,
                  results |-> results[c]]

\* A wrong Respond, which answers before the last action has been carried out.
RespondEarly(c) ==
  /\ phase[c] = "acting" /\ peer[c] # "gone"
  /\ Reply(c, PlanAnswer(c))
  /\ Goto(c, "auditing")
  /\ UNCHANGED <<up, peer, req, results, children, touched, audit>>

\* stream.write_all and stream.shutdown of the response.
Respond(c) ==
  /\ AllActed(c) /\ peer[c] # "gone"
  /\ Reply(c, PlanAnswer(c))
  /\ Goto(c, "auditing")
  /\ UNCHANGED <<up, peer, req, results, children, touched, audit>>

\* The ? on stream.write_all: the client has closed its end.
RespondFails(c) ==
  /\ AllActed(c) /\ peer[c] = "gone"
  /\ Goto(c, "done")
  /\ UNCHANGED <<up, peer, req, results, answer, children, touched, audit>>

AuditRecord(c) == [conn |-> c, executed |-> Executes(c), results |-> results[c]]

\* A wrong AppendRecord, whose handler stays where it was and appends again.
AppendRecordAgain(c) ==
  /\ phase[c] = "auditing" /\ Len(audit) < 3
  /\ audit' = Append(audit, AuditRecord(c))
  /\ UNCHANGED <<up, phase, peer, req, results, answer, children, touched>>

\* Another, which records only what succeeded.
AppendRecordWhenOk(c) ==
  /\ phase[c] = "auditing"
  /\ audit' = IF \A i \in DOMAIN results[c] : results[c][i].ok
                THEN Append(audit, AuditRecord(c)) ELSE audit
  /\ Goto(c, "done")
  /\ UNCHANGED <<up, peer, req, results, answer, children, touched>>

AppendRecord(c) ==
  /\ phase[c] = "auditing"
  /\ audit' = Append(audit, AuditRecord(c))
  /\ Goto(c, "done")
  /\ UNCHANGED <<up, peer, req, results, answer, children, touched>>

\* The ? on stream.shutdown, after the response, and in append_record those on
\* open, write_all and flush.
AuditFails(c) ==
  /\ "audit_error" \in Faults
  /\ phase[c] = "auditing"
  /\ Goto(c, "done")
  /\ UNCHANGED <<up, peer, req, results, answer, children, touched, audit>>
-----------------------------------------------------------------------------
\* A client that closes its end, or is killed.
ClientLeaves(c) ==
  /\ "leave" \in Faults
  /\ phase[c] \notin {"fresh"} \cup Over /\ peer[c] # "gone"
  /\ peer' = [peer EXCEPT ![c] = "gone"]
  /\ UNCHANGED <<up, phase, req, results, answer, children, touched, audit>>

\* A client that reads at last, or that stops sending.
ClientTurns(c) ==
  /\ peer[c] \in {"stalled", "sending"}
  /\ peer' = [peer EXCEPT ![c] = "reading"]
  /\ UNCHANGED <<up, phase, req, results, answer, children, touched, audit>>

\* A wrong Crash, after which the requests in progress are served again.
CrashRetries ==
  /\ "crash" \in Faults /\ up
  /\ phase' = [c \in Conn |-> IF phase[c] \in {"fresh"} \cup Over
                                THEN phase[c] ELSE "reading"]
  /\ results' = [c \in Conn |-> IF phase[c] \in Over THEN results[c] ELSE <<>>]
  /\ UNCHANGED <<up, peer, req, answer, children, touched, audit>>

\* The process dies, or run returns because accept failed and the runtime is
\* dropped with every handler in it.  Child processes and the log stay.
Crash ==
  /\ "crash" \in Faults /\ up
  /\ up' = FALSE
  /\ phase' = [c \in Conn |-> IF phase[c] \in {"fresh"} \cup Over
                                THEN phase[c] ELSE "lost"]
  /\ UNCHANGED <<peer, req, results, answer, children, touched, audit>>

Restart ==
  /\ ~up
  /\ up' = TRUE
  /\ UNCHANGED <<phase, peer, req, results, answer, children, touched, audit>>

\* Every client has been served: the daemon waits in accept.
Idle ==
  /\ up /\ children = {}
  /\ \A c \in Conn : phase[c] \in Over
  /\ UNCHANGED vars

Rejects(c) == RejectOversized(c) \/ RejectUnreadable(c) \/ RejectInvalid(c)

Serve(c) ==
  \/ Admit(c) \/ PlanStep(c) \/ RefuseStep(c) \/ Ping(c) \/ ReadFile(c)
  \/ FileChanges(c) \/ WriteFile(c) \/ SpawnFails(c) \/ Spawn(c)
  \/ ExecFinishes(c) \/ ExecWaitFails(c) \/ ExecTimesOut(c)
  \/ RespondFails(c) \/ AppendRecord(c) \/ AuditFails(c) \/ ReadFails(c)

Next ==
  \/ \E c \in Conn : \/ Accept(c) \/ Rejects(c) \/ Serve(c) \/ Respond(c)
                     \/ ClientLeaves(c) \/ ClientTurns(c)
  \/ \E child \in children : ChildActs(child) \/ ChildExits(child)
  \/ Crash \/ Restart \/ Idle

\* The runtime runs every task that can go on and fires its timers.  What is
\* written to a client goes through only if the client reads it, and a call on
\* a file that waits need not return.  Nothing is assumed of child processes,
\* of clients, nor of crashes and restarts.
Fairness ==
  \A c \in Conn : /\ WF_vars(Accept(c))
                  /\ WF_vars(~AtWaitingFile(c) /\ Serve(c))
                  /\ WF_vars(peer[c] # "stalled" /\ (Rejects(c) \/ Respond(c)))

Spec     == Init /\ [][Next]_vars
FairSpec == Spec /\ Fairness
-----------------------------------------------------------------------------
\* Every variable keeps its type, through crashes and failures of every kind.
TypeOK ==
  /\ up \in BOOLEAN
  /\ phase \in [Conn -> Phases]
  /\ peer \in [Conn -> Peers]
  /\ req \in [Conn -> Requests]
  /\ results \in [Conn -> Seq(Results)]
  /\ answer \in [Conn -> SUBSET Answers]
  /\ children \subseteq Steps
  /\ touched \subseteq Steps
  /\ audit \in Seq(Records)

\* Whatever has had an effect, or still runs as a child process, is an action
\* of a valid execute plan that no gate refuses: not denied, and confirmed
\* where policy asks for it.  Children that outlive their handler included.
OnlyPermittedEffects ==
  \A step \in touched \cup children : Permitted(step[1], step[2])

\* A plan's actions start in the plan's order, each only once the one before
\* it has its result.
ActionsStartInOrder ==
  \A step \in touched \cup children : step[2] <= NextIndex(step[1])

\* A response that says executed = false, an error response or the answer to a
\* plan_only plan, means that nothing was done and that nothing is running.
UnexecutedMeansUntouched ==
  \A c \in Conn : \A response \in answer[c] :
    ~response.executed => \A step \in touched \cup children : step[1] # c

\* A response without error has one result per action, of the action's kind
\* and in the plan's order.
OneResultPerAction ==
  \A c \in Conn : \A response \in answer[c] :
    response.error = NoError =>
      /\ Len(response.results) = Len(Plan(c).actions)
      /\ \A i \in DOMAIN response.results :
           response.results[i].kind = Plan(c).actions[i].kind

\* What the client is told was done has been done: a file written with
\* success has changed, and an exec or observe reported without error code has
\* no child process left.
ReportedMeansDone ==
  \A c \in Conn : \A response \in answer[c] :
    response.executed =>
      \A i \in DOMAIN response.results :
        LET result == response.results[i] IN
        /\ result.kind = "write_file" /\ result.ok => <<c, i>> \in touched
        /\ result.kind \in {"exec", "observe"} /\ result.code = NoError =>
             <<c, i>> \notin children

\* An audit record reports exactly what its client was answered, and no
\* connection has two records.
AuditMatchesAnswers ==
  /\ \A n \in DOMAIN audit :
       [executed |-> audit[n].executed, error |-> NoError,
        results |-> audit[n].results] \in answer[audit[n].conn]
  /\ \A m, n \in DOMAIN audit : audit[m].conn = audit[n].conn => m = n

\* Asking with plan_only first predicts the gates: where the same action with
\* the same token is planned and executed, and execute mode carries the kind
\* out at all, both modes refuse it with the same code or neither does.
DryRunPredictsRefusals ==
  \A c, d \in Conn : \A i \in DOMAIN results[c] \cap DOMAIN results[d] :
    LET planned  == results[c][i]
        executed == results[d][i]
        gates    == {"policy_denied", "confirmation_required"}
    IN  /\ ~Executes(c) /\ Executes(d)
        /\ Plan(c).actions = Plan(d).actions
        /\ Plan(c).confirmation = Plan(d).confirmation
        /\ planned.kind \in ExecutableKinds
        => /\ planned.code \in gates <=> executed.code \in gates
           /\ planned.code \in gates => planned.code = executed.code

\* A valid plan never meets a fallback behind validation: the mode string that
\* is_octal_mode let through is one that parse_mode can read, and the targets
\* that plan_action asks for are there.
NoFallbackReached ==
  \A c \in Conn : \A i \in DOMAIN results[c] :
    /\ results[c][i].code # "invalid_mode_string"
    /\ results[c][i].kind \in {"cgroup_apply", "firmware_op"} /\ ~Executes(c) =>
         results[c][i].ok

\* Depth[i]: how far below its start the path is after its first i parts,
\* resolved by name only: a name leads one down, ".." one up.
Depth(parts) ==
  [i \in 0..Len(parts) |->
     Cardinality({j \in 1..i : parts[j] \notin {"", ".", ".."}})
       - Cardinality({j \in 1..i : parts[j] = ".."})]

InScope(parts) ==
  IF StartsWith(parts, <<"">>)
    THEN parts[2] = "tmp" /\ \A i \in 2..Len(parts) : Depth(parts)[i] >= 1
    ELSE \A i \in DOMAIN parts : Depth(parts)[i] >= 0

\* Without the daemon's token no file is touched, and none is read, outside
\* /tmp and the daemon's working directory, by the names of the path's parts.
UnconfirmedFilesInScope ==
  \A c \in Conn : \A i \in DOMAIN results[c] :
    LET action == Plan(c).actions[i]
    IN  /\ Executes(c) /\ action.kind \in {"read_file", "write_file"}
        /\ ~ConfirmationIsValid(Plan(c).confirmation)
        /\ results[c][i].ok \/ <<c, i>> \in touched
        => InScope(action.path.parts)
-----------------------------------------------------------------------------
\* The daemon as an implementation of PlanService.
ActionCount ==
  [r \in Requests |-> IF r.form = "json" THEN Len(r.plan.actions) ELSE 0]

Audited(c) == \E n \in DOMAIN audit : audit[n].conn = c

Status(c) ==
  IF phase[c] \in {"fresh", "reading", "acting", "waiting"} THEN "open"
  ELSE IF phase[c] = "auditing" THEN "answered"
  ELSE IF Audited(c) THEN "recorded"
  ELSE IF \E response \in answer[c] : response.error # NoError THEN "refused"
  ELSE "ceased"

Service == INSTANCE PlanService WITH
  Request  <- Requests,
  Size     <- ActionCount,
  Allowed  <- PermittedActions,
  asked    <- req,
  reported <- [c \in Conn |-> Len(results[c])],
  effects  <- touched,
  status   <- [c \in Conn |-> Status(c)],
  log      <- [n \in DOMAIN audit |-> audit[n].conn]

\* Through faults of every kind the daemon keeps the promise of PlanService: no
\* action is attempted twice or out of turn, a rejected request does nothing,
\* every full report is answered before it is logged, and is logged once.
ServesPlans == Service!Spec
-----------------------------------------------------------------------------
Rejected(c) == Heard(c) /\ ~(req[c].form = "json" /\ ValidPlan(Plan(c)))

\* Where nothing in the code bounds the time a handler waits: its client sends
\* on and on, its client does not read what is written to it, or a call on a
\* file does not return.
Held(c) ==
  \/ phase[c] = "reading" /\ peer[c] = "sending"
  \/ peer[c] = "stalled" /\ (Rejected(c) \/ AllActed(c))
  \/ AtWaitingFile(c)

\* A client that connects is accepted, and its handler ends or is at one of the
\* three waits that only its own client or its own plan can bring about: no
\* child process, no other client and no other plan keeps it from going on.
HandlersEnd ==
  \A c \in Conn : []<>(phase[c] \in Over \/ Held(c) \/ ~up)

\* What a plan has done ends up in the audit log, whatever other clients and
\* child processes do, as long as its own client stays and the log can be
\* written, unless the daemon dies or its handler is held.
EffectsGetAudited ==
  \A c \in Conn :
    (\E step \in touched : step[1] = c)
      ~> Audited(c) \/ Held(c) \/ peer[c] = "gone" \/ phase[c] = "lost"
-----------------------------------------------------------------------------
\* What the documents say and the code does not do; each is refuted by a run.

\* main.rs, line 2: an audit record for each request; TASK_2025-12-27T21-26-33,
\* line 11: every privileged operation is logged.
\* Here: no handler that did something ends without its record.
EachOperationAudited ==
  \A step \in touched : phase[step[1]] \in Over => Audited(step[1])

\* exec.rs, line 1: a subprocess with bounded runtime.  Once a plan is
\* answered, none of its subprocesses is left running.
RuntimeBounded ==
  \A child \in children : answer[child[1]] = {}

\* IMPLEMENTATION_2025-12-26T21-28-33, line 190: no dangerous action without an
\* explicit confirmation token.
DangerNeedsToken ==
  \A step \in touched \cup children :
    LET plan == Plan(step[1])
    IN  plan.actions[step[2]].danger # {} => plan.confirmation # {}
=============================================================================
