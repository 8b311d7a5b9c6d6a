---------------------------- MODULE DaemonProofs ----------------------------
(***************************************************************************)
(* Proofs about Daemon, for every set of connections, of requests and of   *)
(* faults.                                                                 *)
(*                                                                         *)
(* The properties of Daemon are not inductive.  IInv adds what a handler   *)
(* has established by the phase it is in: past reading, its plan is valid; *)
(* waiting, the gates have let the action at hand through.  What the gates *)
(* say of a plan is in its results: GInv keeps the two together.           *)
(*                                                                         *)
(* First, of FileMode, that the two readings of a mode string agree: what  *)
(* llm-os-common accepts as an octal mode, llm-osd can convert.            *)
(***************************************************************************)
EXTENDS Daemon, FiniteSetTheorems, TLAPS

\* from_str_radix takes any run of at most ten octal digits.
LEMMA ShortOctalFits ==
  ASSUME NEW digits, Len(digits) \in 1..10, DOMAIN digits = 1..Len(digits)
  PROVE  FitsU32(digits)
BY DEF FitsU32, Place

\* An octal digit is not a sign, so that nothing is stripped.
LEMMA OctalHasNoSign ==
  ASSUME NEW digits, AllOctal(digits), Len(digits) \in Nat \ {0},
         DOMAIN digits = 1..Len(digits)
  PROVE  StripSign(digits) = digits
<1>1. digits[1] \in OctalDigits  BY DEF AllOctal
<1>2. digits[1] # "+"  BY <1>1 DEF OctalDigits
<1> QED  BY <1>2 DEF StripSign

\* Whatever the trimming and the prefix leave is a sequence.
LEMMA DigitsAreASequence ==
  ASSUME NEW S, NEW mode \in Seq(S)
  PROVE  StripOctalPrefix(Trim(mode)) \in Seq(S)
<1>1. ASSUME NEW places \in SUBSET (1..Len(mode))
      PROVE  Cardinality(places) \in Nat
  <2>1. Len(mode) \in Nat  OBVIOUS
  <2>2. IsFiniteSet(1..Len(mode))  BY <2>1, FS_Interval
  <2>3. IsFiniteSet(places)  BY <2>2, FS_Subset
  <2> QED  BY <2>3, FS_CardinalityType
<1> DEFINE leading  == {i \in DOMAIN mode : \A j \in 1..i : mode[j] = Blank}
           trailing == {i \in DOMAIN mode : \A j \in i..Len(mode) : mode[j] = Blank}
<1>2. Cardinality(leading) \in Nat /\ Cardinality(trailing) \in Nat
  <2>1. leading \in SUBSET (1..Len(mode)) /\ trailing \in SUBSET (1..Len(mode))
    OBVIOUS
  <2> QED  BY <1>1, <2>1
<1>3. SubSeq(mode, Cardinality(leading) + 1, Len(mode) - Cardinality(trailing)) \in Seq(S)
  <2> HIDE DEF leading, trailing
  <2> QED  BY <1>2
<1>4. Trim(mode) \in Seq(S)  BY <1>3 DEF Trim
<1> QED  BY <1>4 DEF StripOctalPrefix

\* A mode string that is_octal_mode accepts is one that parse_mode converts:
\* the invalid_mode_string answer is out of reach of a validated plan.
THEOREM OctalModesParse ==
  ASSUME NEW S, NEW mode \in Seq(S), IsOctalMode(mode)
  PROVE  ParseModeOk(mode)
<1> DEFINE digits == StripOctalPrefix(Trim(mode))
<1>1. Len(digits) \in {3, 4} /\ AllOctal(digits)  BY DEF IsOctalMode
<1>2. digits \in Seq(S)  BY DigitsAreASequence
<1> HIDE DEF digits
<1>3. DOMAIN digits = 1..Len(digits)  BY <1>2
<1>4. StripSign(digits) = digits  BY <1>1, <1>3, OctalHasNoSign
<1>5. FitsU32(digits)
  <2>1. Len(digits) \in 1..10  BY <1>1
  <2> QED  BY <1>3, <2>1, ShortOctalFits
<1>6. digits # <<>>  BY <1>1
<1> QED  BY <1>1, <1>4, <1>5, <1>6 DEF ParseModeOk, digits
-----------------------------------------------------------------------------
Serving == {"acting", "waiting", "auditing"}

AdmittedIsValid ==
  \A c \in Conn : phase[c] \in Serving =>
    req[c].form = "json" /\ ValidPlan(Plan(c))

WaitingIsPermitted ==
  \A c \in Conn : phase[c] = "waiting" => Permitted(c, NextIndex(c))

UnexecutedIsNoExecution ==
  \A c \in Conn : \A response \in answer[c] : ~response.executed =>
    ~(req[c].form = "json" /\ ValidPlan(Plan(c)) /\ Executes(c))

IInv == /\ TypeOK
        /\ AdmittedIsValid
        /\ WaitingIsPermitted
        /\ OnlyPermittedEffects
        /\ UnexecutedIsNoExecution
-----------------------------------------------------------------------------
\* A gate answers with one of the codes of ActionErrorCode.
LEMMA RefusalsAreCodes ==
  ASSUME NEW action, NEW confirmation
  PROVE  /\ ExecuteRefusal(action, confirmation) \in ActionErrors \cup {NoError}
         /\ PlanRefusal(action, confirmation) \in ActionErrors \cup {NoError}
BY DEF ExecuteRefusal, PlanRefusal, ExecRefusal, FileRefusal, ObserveRefusal,
       ActionErrors, NoError

\* A valid action is of one of the kinds of enum Action.
LEMMA ValidKinds ==
  ASSUME NEW action, NEW plan, ValidAction(action, plan)
  PROVE  action.kind \in Kinds
BY DEF ValidAction, Kinds

\* The turn of a pending action of a valid plan.
LEMMA PendingAction ==
  ASSUME TypeOK, AdmittedIsValid, NEW c \in Conn, Pending(c)
  PROVE  /\ NextIndex(c) \in DOMAIN Plan(c).actions
         /\ NextIndex(c) \in Nat \ {0}
         /\ NextAction(c).kind \in Kinds
<1>1. req[c].form = "json" /\ ValidPlan(Plan(c))
  BY DEF AdmittedIsValid, Pending, Serving
<1>2. req[c] \in Requests  BY DEF TypeOK
<1>3. /\ Len(Plan(c).actions) \in Nat
      /\ DOMAIN Plan(c).actions = 1..Len(Plan(c).actions)
  BY <1>1, <1>2, RequestsAssumption DEF Plan
<1>4. results[c] \in Seq(Results)  BY DEF TypeOK
<1>5. NextIndex(c) \in Nat \ {0}  BY <1>4 DEF NextIndex
<1>6. NextIndex(c) \in DOMAIN Plan(c).actions
  BY <1>3, <1>5 DEF Pending
<1>7. ValidAction(NextAction(c), Plan(c))
  BY <1>1, <1>6 DEF ValidPlan, NextAction
<1> QED  BY <1>5, <1>6, <1>7, ValidKinds

\* The permitted actions of a connection, spelled out.
LEMMA PermittedMeans ==
  ASSUME TypeOK, NEW c \in Conn, NEW i
  PROVE  Permitted(c, i) <=>
           /\ req[c].form = "json"
           /\ ValidPlan(Plan(c))
           /\ Executes(c)
           /\ i \in DOMAIN Plan(c).actions
           /\ Plan(c).actions[i].kind \in {"exec", "observe", "write_file"}
           /\ ExecuteRefusal(Plan(c).actions[i], Plan(c).confirmation) = NoError
<1>1. req[c] \in Requests  BY DEF TypeOK
<1> QED  BY <1>1 DEF Permitted, PermittedActions, Plan, Executes

\* No step changes what a client has sent.
LEMMA RequestsStay == [Next]_vars => req' = req
BY DEF Next, Serve, Accept, RejectOversized, RejectUnreadable, RejectInvalid,
       Rejects, Reject, ReadFails, Admit, PlanStep, RefuseStep, Ping, ReadFile, FileChanges,
       WriteFile, SpawnFails, Spawn, ExecFinishes, ExecWaitFails, ExecTimesOut, WaitEnds,
       ChildActs, ChildExits, Respond, RespondFails, AppendRecord, AuditFails,
       ClientLeaves, ClientTurns, Crash, Restart, Idle, vars

\* A result that is pushed keeps the results typed.
LEMMA PushTyped ==
  ASSUME TypeOK, NEW c \in Conn, NEW result \in Results, Push(c, result)
  PROVE  results' \in [Conn -> Seq(Results)]
<1>1. Append(results[c], result) \in Seq(Results)  BY DEF TypeOK
<1> QED  BY <1>1 DEF TypeOK, Push

\* So does an answer keep the answers typed.
LEMMA ReplyTyped ==
  ASSUME TypeOK, NEW c \in Conn, NEW response \in Answers, Reply(c, response)
  PROVE  answer' \in [Conn -> SUBSET Answers]
<1>1. answer \in [Conn -> SUBSET Answers]  BY DEF TypeOK
<1>2. (IF peer[c] = "gone" THEN {} ELSE {response}) \in SUBSET Answers
  OBVIOUS
<1> QED  BY <1>1, <1>2 DEF Reply

\* The results that the actions of a plan end in.
LEMMA ResultsTyped ==
  ASSUME TypeOK, AdmittedIsValid, NEW c \in Conn, NextAction(c).kind \in Kinds
  PROVE  /\ Success(NextAction(c)) \in Results
         /\ \A code \in ActionErrors : Failure(NextAction(c), code) \in Results
BY DEF Success, Failure, Results

LEMMA TypeStep == IInv /\ [Next]_vars => TypeOK'
<1> SUFFICES ASSUME IInv, [Next]_vars PROVE TypeOK'
  OBVIOUS
<1> USE DEF IInv
<1>0. /\ up \in BOOLEAN
      /\ phase \in [Conn -> Phases]
      /\ peer \in [Conn -> Peers]
      /\ req \in [Conn -> Requests]
      /\ results \in [Conn -> Seq(Results)]
      /\ answer \in [Conn -> SUBSET Answers]
      /\ children \subseteq Steps
      /\ touched \subseteq Steps
      /\ audit \in Seq(Records)
  BY DEF TypeOK
<1>1. ASSUME NEW c \in Conn, Accept(c) PROVE TypeOK'
  BY <1>0, <1>1 DEF TypeOK, Accept, Goto, Phases
<1>2. ASSUME NEW c \in Conn, NEW code \in RequestErrors, Reject(c, code) PROVE TypeOK'
  <2>1. ErrorAnswer(code) \in Answers  BY DEF ErrorAnswer, Answers
  <2>2. answer' \in [Conn -> SUBSET Answers]  BY <1>2, <2>1, ReplyTyped DEF Reject
  <2> QED  BY <1>0, <1>2, <2>2 DEF TypeOK, Reject, Goto, Phases
<1>3. ASSUME NEW c \in Conn, ReadFails(c) \/ Admit(c) PROVE TypeOK'
  BY <1>0, <1>3 DEF TypeOK, ReadFails, Admit, Goto, Phases
<1>4. ASSUME NEW c \in Conn,
             PlanStep(c) \/ RefuseStep(c) \/ Ping(c) \/ ReadFile(c) \/ SpawnFails(c)
      PROVE  TypeOK'
  <2>1. Pending(c)
    BY <1>4 DEF PlanStep, RefuseStep, Ping, ReadFile, SpawnFails, MayAct
  <2>2. NextAction(c).kind \in Kinds  BY <2>1, PendingAction
  <2>3. \E result \in Results : Push(c, result)
    BY <1>4, <2>2, ResultsTyped, RefusalsAreCodes
       DEF PlanStep, RefuseStep, Ping, ReadFile, SpawnFails, ActionErrors, NoError
  <2>4. results' \in [Conn -> Seq(Results)]  BY <2>3, PushTyped
  <2> QED  BY <1>0, <1>4, <2>4
           DEF TypeOK, PlanStep, RefuseStep, Ping, ReadFile, SpawnFails
<1>f. ASSUME NEW c \in Conn, FileChanges(c) PROVE TypeOK'
  <2>1. NextIndex(c) \in Nat \ {0}  BY <1>f, PendingAction DEF FileChanges, MayAct
  <2> QED  BY <1>0, <1>f, <2>1 DEF TypeOK, FileChanges, Steps
<1>5. ASSUME NEW c \in Conn, WriteFile(c) PROVE TypeOK'
  <2>1. Pending(c)  BY <1>5 DEF WriteFile, MayAct
  <2>2. NextAction(c).kind \in Kinds /\ NextIndex(c) \in Nat \ {0}
    BY <2>1, PendingAction
  <2>3. \E result \in Results : Push(c, result)
    BY <1>5, <2>2, ResultsTyped DEF WriteFile, ActionErrors
  <2>4. results' \in [Conn -> Seq(Results)]  BY <2>3, PushTyped
  <2> QED  BY <1>0, <1>5, <2>4 DEF TypeOK, WriteFile
<1>6. ASSUME NEW c \in Conn, Spawn(c) PROVE TypeOK'
  <2>1. NextIndex(c) \in Nat \ {0}  BY <1>6, PendingAction DEF Spawn, MayAct
  <2> QED  BY <1>0, <1>6, <2>1 DEF TypeOK, Spawn, Steps, Goto, Phases
<1>7. ASSUME NEW c \in Conn, NEW result \in Results, WaitEnds(c, result) PROVE TypeOK'
  <2>1. results' \in [Conn -> Seq(Results)]  BY <1>7, PushTyped DEF WaitEnds
  <2> QED  BY <1>0, <1>7, <2>1 DEF TypeOK, WaitEnds, Goto, Phases
<1>8. ASSUME NEW c \in Conn, ExecFinishes(c) \/ ExecWaitFails(c) \/ ExecTimesOut(c)
      PROVE  TypeOK'
  <2>1. phase[c] = "waiting"
    BY <1>8 DEF ExecFinishes, ExecWaitFails, ExecTimesOut, WaitEnds
  <2>2. NextAction(c).kind \in Kinds
    BY <2>1, PermittedMeans DEF WaitingIsPermitted, NextAction, Kinds
  <2>3. \A success \in BOOLEAN :
          [kind |-> NextAction(c).kind, ok |-> success, code |-> NoError] \in Results
    BY <2>2 DEF Results
  <2>4. /\ Failure(NextAction(c), "exec_failed") \in Results
        /\ Failure(NextAction(c), "exec_timed_out") \in Results
    BY <2>2, ResultsTyped DEF ActionErrors
  <2> QED  BY <1>7, <1>8, <2>3, <2>4 DEF ExecFinishes, ExecWaitFails, ExecTimesOut
<1>9. ASSUME NEW child \in children, ChildActs(child) \/ ChildExits(child)
      PROVE  TypeOK'
  BY <1>0, <1>9 DEF TypeOK, ChildActs, ChildExits
<1>10. ASSUME NEW c \in Conn, Respond(c) PROVE TypeOK'
  <2>1. PlanAnswer(c) \in Answers
    BY <1>0 DEF PlanAnswer, Answers, Executes
  <2>2. answer' \in [Conn -> SUBSET Answers]  BY <1>10, <2>1, ReplyTyped DEF Respond
  <2> QED  BY <1>0, <1>10, <2>2 DEF TypeOK, Respond, Goto, Phases
<1>11. ASSUME NEW c \in Conn, RespondFails(c) \/ AuditFails(c) PROVE TypeOK'
  BY <1>0, <1>11 DEF TypeOK, RespondFails, AuditFails, Goto, Phases
<1>12. ASSUME NEW c \in Conn, AppendRecord(c) PROVE TypeOK'
  <2>1. AuditRecord(c) \in Records  BY <1>0 DEF AuditRecord, Records, Executes
  <2>2. audit' \in Seq(Records)  BY <1>0, <1>12, <2>1 DEF AppendRecord
  <2> QED  BY <1>0, <1>12, <2>2 DEF TypeOK, AppendRecord, Goto, Phases
<1>13. ASSUME NEW c \in Conn, ClientLeaves(c) \/ ClientTurns(c) PROVE TypeOK'
  BY <1>0, <1>13 DEF TypeOK, ClientLeaves, ClientTurns, Peers
<1>14. CASE Crash \/ Restart
  BY <1>0, <1>14 DEF TypeOK, Crash, Restart, Phases
<1>15. CASE Idle \/ UNCHANGED vars
  BY <1>0, <1>15 DEF TypeOK, Idle, vars
<1>16. ASSUME NEW c \in Conn, Rejects(c) PROVE TypeOK'
  BY <1>2, <1>16
     DEF Rejects, RejectOversized, RejectUnreadable, RejectInvalid, RequestErrors
<1> QED
  BY <1>1, <1>3, <1>4, <1>f, <1>5, <1>6, <1>8, <1>9, <1>10, <1>11, <1>12, <1>13, <1>14,
     <1>15, <1>16 DEF Next, Serve
-----------------------------------------------------------------------------
\* Only Admit lets a handler into its serving phases.
LEMMA AdmittedStep == IInv /\ [Next]_vars => AdmittedIsValid'
<1> SUFFICES ASSUME IInv, [Next]_vars, NEW c \in Conn, phase'[c] \in Serving
             PROVE  req[c].form = "json" /\ ValidPlan(Plan(c))
  BY RequestsStay DEF AdmittedIsValid, Plan
<1>0. phase \in [Conn -> Phases]  BY DEF IInv, TypeOK
<1>1. CASE phase[c] \in Serving
  BY <1>1 DEF IInv, AdmittedIsValid
<1>2. CASE phase[c] \notin Serving
  <2>1. Admit(c)
    BY <1>0, <1>2
       DEF Next, Serve, Accept, RejectOversized, RejectUnreadable, RejectInvalid,
           Rejects, Reject, ReadFails, Admit, PlanStep, RefuseStep, Ping, ReadFile, FileChanges,
           WriteFile, SpawnFails, Spawn, ExecFinishes, ExecWaitFails, ExecTimesOut, WaitEnds,
           ChildActs, ChildExits, Respond, RespondFails, AppendRecord, AuditFails,
           ClientLeaves, ClientTurns, Crash, Restart, Idle, vars, Goto, Serving, MayAct, Pending,
           AllActed, Over
  <2> QED  BY <2>1 DEF Admit
<1> QED  BY <1>1, <1>2

\* What the daemon acts on has passed the gates.
LEMMA MayActIsPermitted ==
  ASSUME IInv, NEW c \in Conn,
         MayAct(c, {"exec", "observe"}) \/ MayAct(c, {"write_file"})
  PROVE  Permitted(c, NextIndex(c))
<1>1. Pending(c)  BY DEF MayAct
<1>2. NextIndex(c) \in DOMAIN Plan(c).actions
  BY <1>1, PendingAction DEF IInv
<1>3. req[c].form = "json" /\ ValidPlan(Plan(c))
  BY <1>1 DEF IInv, AdmittedIsValid, Pending, Serving
<1> QED  BY <1>2, <1>3, PermittedMeans DEF IInv, MayAct, NextAction

\* A handler enters its wait past the gates, and its action stays the same
\* until the wait ends.
LEMMA WaitingStep == IInv /\ [Next]_vars => WaitingIsPermitted'
<1> SUFFICES ASSUME IInv, [Next]_vars, NEW c \in Conn, phase'[c] = "waiting"
             PROVE  Permitted(c, NextIndex(c)')
  BY RequestsStay DEF WaitingIsPermitted, Permitted
<1>0. /\ phase \in [Conn -> Phases]
      /\ results \in [Conn -> Seq(Results)]
  BY DEF IInv, TypeOK
<1>1. CASE phase[c] = "waiting"
  <2>1. results'[c] = results[c]
    BY <1>0, <1>1
       DEF Next, Serve, Accept, RejectOversized, RejectUnreadable, RejectInvalid,
           Rejects, Reject, ReadFails, Admit, PlanStep, RefuseStep, Ping, ReadFile, FileChanges,
           WriteFile, SpawnFails, Spawn, ExecFinishes, ExecWaitFails, ExecTimesOut, WaitEnds,
           ChildActs, ChildExits, Respond, RespondFails, AppendRecord, AuditFails,
           ClientLeaves, ClientTurns, Crash, Restart, Idle, vars, Goto, Push, MayAct, Pending
  <2> QED  BY <1>1, <2>1 DEF IInv, WaitingIsPermitted, NextIndex
<1>2. CASE phase[c] # "waiting"
  <2>1. Spawn(c)
    BY <1>0, <1>2
       DEF Next, Serve, Accept, RejectOversized, RejectUnreadable, RejectInvalid,
           Rejects, Reject, ReadFails, Admit, PlanStep, RefuseStep, Ping, ReadFile, FileChanges,
           WriteFile, SpawnFails, Spawn, ExecFinishes, ExecWaitFails, ExecTimesOut, WaitEnds,
           ChildActs, ChildExits, Respond, RespondFails, AppendRecord, AuditFails,
           ClientLeaves, ClientTurns, Crash, Restart, Idle, vars, Goto, Over
  <2>2. Permitted(c, NextIndex(c))  BY <2>1, MayActIsPermitted DEF Spawn
  <2>3. results' = results  BY <2>1 DEF Spawn
  <2> QED  BY <2>2, <2>3 DEF NextIndex
<1> QED  BY <1>1, <1>2

\* Effects and child processes come from FileChanges, from Spawn, and from
\* children that were permitted when they were spawned.
LEMMA EffectsStep == IInv /\ [Next]_vars => OnlyPermittedEffects'
<1> SUFFICES ASSUME IInv, [Next]_vars, NEW step \in touched' \cup children'
             PROVE  Permitted(step[1], step[2])
  BY RequestsStay DEF OnlyPermittedEffects, Permitted
<1>1. CASE step \in touched \cup children
  BY <1>1 DEF IInv, OnlyPermittedEffects
<1>2. CASE step \notin touched \cup children
  <2>1. PICK c \in Conn : FileChanges(c) \/ Spawn(c)
    BY <1>2
       DEF Next, Serve, Accept, RejectOversized, RejectUnreadable, RejectInvalid,
           Rejects, Reject, ReadFails, Admit, PlanStep, RefuseStep, Ping, ReadFile,
           WriteFile, SpawnFails, ExecFinishes, ExecWaitFails, ExecTimesOut, WaitEnds,
           ChildActs, ChildExits, Respond, RespondFails, AppendRecord, AuditFails,
           ClientLeaves, ClientTurns, Crash, Restart, Idle, vars
  <2>2. step = <<c, NextIndex(c)>>
    BY <1>2, <2>1 DEF FileChanges, Spawn
  <2>3. Permitted(c, NextIndex(c))
    BY <2>1, MayActIsPermitted DEF FileChanges, Spawn
  <2> QED  BY <2>2, <2>3
<1> QED  BY <1>1, <1>2

\* Only a rejection and the response of a plan are answers.
LEMMA WhoAnswers ==
  ASSUME [Next]_vars, answer' # answer
  PROVE  \E c \in Conn : Rejects(c) \/ Respond(c)
BY DEF Next, Serve, Accept, ReadFails, Admit, PlanStep, RefuseStep, Ping,
       ReadFile, FileChanges, WriteFile, SpawnFails, Spawn, ExecFinishes, ExecWaitFails,
       ExecTimesOut, WaitEnds, ChildActs, ChildExits, RespondFails, AppendRecord,
       AuditFails, ClientLeaves, ClientTurns, Crash, Restart, Idle, vars

\* An answer without execution is an error response or that of a plan_only plan.
LEMMA UnexecutedStep == IInv /\ [Next]_vars => UnexecutedIsNoExecution'
<1> SUFFICES ASSUME IInv, [Next]_vars, NEW c \in Conn,
                    NEW response \in answer'[c], ~response.executed
             PROVE  ~(req[c].form = "json" /\ ValidPlan(Plan(c)) /\ Executes(c))
  BY RequestsStay DEF UnexecutedIsNoExecution, Plan, Executes
<1>0. answer \in [Conn -> SUBSET Answers]  BY DEF IInv, TypeOK
<1>1. CASE response \in answer[c]
  BY <1>1 DEF IInv, UnexecutedIsNoExecution
<1>2. CASE response \notin answer[c]
  <2>1. PICK d \in Conn : Rejects(d) \/ Respond(d)
    BY <1>2, WhoAnswers
  <2>2. d = c /\ response \in (answer')[d]
    BY <1>0, <1>2, <2>1
       DEF Rejects, RejectOversized, RejectUnreadable, RejectInvalid, Reject, Respond,
           Reply
  <2>3. CASE Rejects(c)
    BY <2>3 DEF Rejects, RejectOversized, RejectUnreadable, RejectInvalid, Heard
  <2>4. CASE Respond(c)
    <3>1. response = PlanAnswer(c)
      BY <1>0, <1>2, <2>4 DEF Respond, Reply
    <3> QED  BY <3>1 DEF PlanAnswer
  <2> QED  BY <2>1, <2>2, <2>3, <2>4
<1> QED  BY <1>1, <1>2
-----------------------------------------------------------------------------
\* The inductive invariant holds in every reachable state.
THEOREM Invariance == Spec => []IInv
<1>1. Init => IInv
  BY DEF Init, IInv, TypeOK, AdmittedIsValid, WaitingIsPermitted,
         OnlyPermittedEffects, UnexecutedIsNoExecution, Phases, Peers, Serving
<1>2. IInv /\ [Next]_vars => IInv'
  BY TypeStep, AdmittedStep, WaitingStep, EffectsStep, UnexecutedStep DEF IInv
<1> QED  BY <1>1, <1>2, PTL DEF Spec

\* Type correctness of the daemon, for any set of connections and requests.
THEOREM TypeCorrectness == Spec => []TypeOK
<1>1. IInv => TypeOK  BY DEF IInv
<1> QED  BY <1>1, Invariance, PTL

\* No effect and no child process without a valid execute plan that passed
\* every gate, with any number of clients and through crashes and faults.
THEOREM EffectsArePermitted == Spec => []OnlyPermittedEffects
<1>1. IInv => OnlyPermittedEffects  BY DEF IInv
<1> QED  BY <1>1, Invariance, PTL

\* A client told executed = false can rely on nothing having been done.
THEOREM UnexecutedIsUntouched == Spec => []UnexecutedMeansUntouched
<1>1. IInv => UnexecutedMeansUntouched
  BY PermittedMeans DEF IInv, UnexecutedMeansUntouched, OnlyPermittedEffects,
     UnexecutedIsNoExecution
<1> QED  BY <1>1, Invariance, PTL
-----------------------------------------------------------------------------
\* What execute_action and plan_action may push for an action: its refusal when
\* there is one, and otherwise none of the codes a refusal has.
Judged(c, action, result) ==
  /\ result.kind = action.kind
  /\ Executes(c) =>
       LET refusal == ExecuteRefusal(action, Plan(c).confirmation)
       IN  IF refusal # NoError
             THEN result.code = refusal /\ ~result.ok
             ELSE result.code \in {NoError, "exec_failed", "exec_timed_out",
                                   "read_failed", "write_failed"}
  /\ ~Executes(c) =>
       LET refusal == PlanRefusal(action, Plan(c).confirmation)
       IN  result.code = refusal /\ (refusal = NoError => result.ok)

Judgeable(c, i) ==
  req[c].form = "json" /\ ValidPlan(Plan(c)) /\ i \in DOMAIN Plan(c).actions

ResultsAreJudged ==
  \A c \in Conn : \A i \in DOMAIN results[c] :
    Judgeable(c, i) /\ Judged(c, Plan(c).actions[i], results[c][i])

GInv == IInv /\ ResultsAreJudged

\* A gate lets through, denies, or asks for the token.
LEMMA GatesAreTwo ==
  ASSUME NEW action, NEW confirmation
  PROVE  /\ ExecuteRefusal(action, confirmation)
              \in {NoError, "policy_denied", "confirmation_required"}
         /\ PlanRefusal(action, confirmation)
              \in {NoError, "policy_denied", "confirmation_required"}
BY DEF ExecuteRefusal, PlanRefusal, ExecRefusal, FileRefusal, ObserveRefusal

\* For what execute mode carries out, both modes have the same gates.
LEMMA SameGates ==
  ASSUME NEW action, NEW confirmation, action.kind \in ExecutableKinds
  PROVE  PlanRefusal(action, confirmation) = ExecuteRefusal(action, confirmation)
<1>1. CASE action.kind = "exec"
  BY <1>1 DEF PlanRefusal, ExecuteRefusal
<1>2. CASE action.kind \in {"read_file", "write_file"}
  BY <1>2 DEF PlanRefusal, ExecuteRefusal
<1>3. CASE action.kind = "observe"
  BY <1>3 DEF PlanRefusal, ExecuteRefusal
<1>4. CASE action.kind = "ping"
  BY <1>4 DEF PlanRefusal, ExecuteRefusal
<1> QED  BY <1>1, <1>2, <1>3, <1>4 DEF ExecutableKinds

\* The mode of a valid write_file is one that parse_mode can read.
LEMMA ValidModesParse ==
  ASSUME NEW c \in Conn, NEW i, req[c] \in Requests, Judgeable(c, i),
         Plan(c).actions[i].kind = "write_file"
  PROVE  ParseModeOk(Plan(c).actions[i].mode)
<1>1. Plan(c).actions[i].mode \in Seq(STRING)
  BY RequestsAssumption DEF Judgeable, Plan
<1>2. ValidAction(Plan(c).actions[i], Plan(c))
  BY DEF Judgeable, ValidPlan
<1>3. IsOctalMode(Plan(c).actions[i].mode)
  BY <1>2 DEF ValidAction, ValidWriteFile
<1> QED  BY <1>1, <1>3, OctalModesParse

\* Every action of the loop pushes what the gates say.
LEMMA ActingIsJudged ==
  ASSUME IInv, NEW c \in Conn,
         PlanStep(c) \/ RefuseStep(c) \/ Ping(c) \/ ReadFile(c) \/ WriteFile(c)
           \/ SpawnFails(c)
  PROVE  /\ Judgeable(c, NextIndex(c))
         /\ \E result : Push(c, result) /\ Judged(c, NextAction(c), result)
<1>1. Pending(c)
  BY DEF PlanStep, RefuseStep, Ping, ReadFile, WriteFile, SpawnFails, MayAct
<1>2. Judgeable(c, NextIndex(c))
  <2>1. NextIndex(c) \in DOMAIN Plan(c).actions
    BY <1>1, PendingAction DEF IInv
  <2> QED  BY <1>1, <2>1 DEF IInv, AdmittedIsValid, Pending, Serving, Judgeable
<1>3. CASE PlanStep(c)
  <2> DEFINE refusal == PlanRefusal(NextAction(c), Plan(c).confirmation)
             result == IF refusal = NoError THEN Success(NextAction(c))
                                            ELSE Failure(NextAction(c), refusal)
  <2>1. Push(c, result) /\ ~Executes(c)
    BY <1>3 DEF PlanStep
  <2>2. Judged(c, NextAction(c), result)
    BY <2>1 DEF Judged, Success, Failure
  <2> QED  BY <1>2, <2>1, <2>2
<1>4. CASE RefuseStep(c)
  <2> DEFINE refusal == ExecuteRefusal(NextAction(c), Plan(c).confirmation)
             result == Failure(NextAction(c), refusal)
  <2>1. Push(c, result) /\ Executes(c) /\ refusal # NoError
    BY <1>4 DEF RefuseStep, Pending
  <2>2. Judged(c, NextAction(c), result)
    BY <2>1 DEF Judged, Failure
  <2> QED  BY <1>2, <2>1, <2>2
<1>5. CASE Ping(c) \/ ReadFile(c) \/ SpawnFails(c)
  <2>1. PICK result \in {Success(NextAction(c)), Failure(NextAction(c), "read_failed"),
                         Failure(NextAction(c), "exec_failed")} : Push(c, result)
    BY <1>5 DEF Ping, ReadFile, SpawnFails
  <2>2. /\ Executes(c)
        /\ ExecuteRefusal(NextAction(c), Plan(c).confirmation) = NoError
    BY <1>5 DEF Ping, ReadFile, SpawnFails, MayAct
  <2>3. Judged(c, NextAction(c), result)
    BY <2>1, <2>2 DEF Judged, Success, Failure
  <2> QED  BY <1>2, <2>1, <2>3
<1>6. CASE WriteFile(c)
  <2>1. NextAction(c).kind = "write_file"
    BY <1>6 DEF WriteFile, MayAct
  <2>2. ParseModeOk(NextAction(c).mode)
    BY <1>2, <2>1, ValidModesParse DEF IInv, TypeOK, NextAction
  <2>3. PICK result \in {Success(NextAction(c)), Failure(NextAction(c), "write_failed")} :
          Push(c, result)
    BY <1>6, <2>2 DEF WriteFile
  <2>4. /\ Executes(c)
        /\ ExecuteRefusal(NextAction(c), Plan(c).confirmation) = NoError
    BY <1>6 DEF WriteFile, MayAct
  <2>5. Judged(c, NextAction(c), result)
    BY <2>3, <2>4 DEF Judged, Success, Failure
  <2> QED  BY <1>2, <2>3, <2>5
<1> QED  BY <1>2, <1>3, <1>4, <1>5, <1>6

\* So does every end of a wait, which began past the gates.
LEMMA WaitingIsJudged ==
  ASSUME IInv, NEW c \in Conn,
         ExecFinishes(c) \/ ExecWaitFails(c) \/ ExecTimesOut(c)
  PROVE  /\ Judgeable(c, NextIndex(c))
         /\ \E result : Push(c, result) /\ Judged(c, NextAction(c), result)
<1>1. phase[c] = "waiting"
  BY DEF ExecFinishes, ExecWaitFails, ExecTimesOut, WaitEnds
<1>2. /\ Judgeable(c, NextIndex(c)) /\ Executes(c)
      /\ ExecuteRefusal(NextAction(c), Plan(c).confirmation) = NoError
  BY <1>1, PermittedMeans DEF IInv, WaitingIsPermitted, Judgeable, NextAction
<1>3. PICK ok \in BOOLEAN, code \in {NoError, "exec_failed", "exec_timed_out"} :
        Push(c, [kind |-> NextAction(c).kind, ok |-> ok, code |-> code])
  BY DEF ExecFinishes, ExecWaitFails, ExecTimesOut, WaitEnds, Failure
<1>4. Judged(c, NextAction(c), [kind |-> NextAction(c).kind, ok |-> ok, code |-> code])
  BY <1>2, <1>3 DEF Judged
<1> QED  BY <1>2, <1>3, <1>4

\* The judgement of a result stays, because requests and results do.
LEMMA JudgedStep == GInv /\ [Next]_vars => ResultsAreJudged'
<1> SUFFICES ASSUME GInv, [Next]_vars, NEW c \in Conn, NEW i \in DOMAIN results'[c]
             PROVE  /\ Judgeable(c, i)
                    /\ Judged(c, Plan(c).actions[i], results'[c][i])
  BY RequestsStay DEF ResultsAreJudged, Judgeable, Judged, Plan, Executes
<1>0. results \in [Conn -> Seq(Results)]  BY DEF GInv, IInv, TypeOK
<1>1. CASE results' = results
  BY <1>1 DEF GInv, ResultsAreJudged
<1>2. CASE results' # results
  <2>1. PICK d \in Conn :
          \/ PlanStep(d) \/ RefuseStep(d) \/ Ping(d) \/ ReadFile(d) \/ WriteFile(d)
          \/ SpawnFails(d)
          \/ ExecFinishes(d) \/ ExecWaitFails(d) \/ ExecTimesOut(d)
    BY <1>2
       DEF Next, Serve, Accept, RejectOversized, RejectUnreadable, RejectInvalid,
           Rejects, Reject, ReadFails, Admit, FileChanges, Spawn, ChildActs, ChildExits,
           Respond,
           RespondFails, AppendRecord, AuditFails, ClientLeaves, ClientTurns, Crash, Restart,
           Idle, vars
  <2>2. Judgeable(d, NextIndex(d))
    BY <2>1, ActingIsJudged, WaitingIsJudged DEF GInv
  <2>3. PICK result : Push(d, result) /\ Judged(d, NextAction(d), result)
    BY <2>1, ActingIsJudged, WaitingIsJudged DEF GInv
  <2>4. results' = [results EXCEPT ![d] = Append(results[d], result)]
    BY <2>3 DEF Push
  <2>5. CASE c # d \/ i \in DOMAIN results[c]
    <3>1. i \in DOMAIN results[c] /\ results'[c][i] = results[c][i]
      BY <1>0, <2>4, <2>5
    <3> QED  BY <3>1 DEF GInv, ResultsAreJudged
  <2>6. CASE c = d /\ i \notin DOMAIN results[c]
    <3>1. i = NextIndex(c) /\ results'[c][i] = result
      BY <1>0, <2>4, <2>6 DEF NextIndex
    <3> QED  BY <2>2, <2>3, <2>6, <3>1 DEF NextAction
  <2> QED  BY <2>5, <2>6
<1> QED  BY <1>1, <1>2

\* Every result, of every mode, is what the gates say of its action.
THEOREM Judgement == Spec => []GInv
<1>1. Init => ResultsAreJudged  BY DEF Init, ResultsAreJudged
<1>2. GInv /\ [Next]_vars => ResultsAreJudged'  BY JudgedStep
<1>3. IInv /\ ResultsAreJudged <=> GInv  BY DEF GInv
<1> QED  BY <1>1, <1>2, <1>3, Invariance, PTL DEF Spec

\* A plan_only run refuses what execution would refuse, with the same code, for
\* the kinds that execution carries out.
THEOREM DryRunsPredict == Spec => []DryRunPredictsRefusals
<1>1. GInv => DryRunPredictsRefusals
  <2> SUFFICES ASSUME GInv, NEW c \in Conn, NEW d \in Conn,
                      NEW i \in DOMAIN results[c] \cap DOMAIN results[d],
                      ~Executes(c), Executes(d),
                      Plan(c).actions = Plan(d).actions,
                      Plan(c).confirmation = Plan(d).confirmation,
                      results[c][i].kind \in ExecutableKinds
               PROVE  LET gates == {"policy_denied", "confirmation_required"}
                      IN  /\ results[c][i].code \in gates <=> results[d][i].code \in gates
                          /\ results[c][i].code \in gates =>
                               results[c][i].code = results[d][i].code
    BY DEF DryRunPredictsRefusals
  <2> DEFINE action == Plan(c).actions[i]
             confirmation == Plan(c).confirmation
  <2>1. /\ Judged(c, action, results[c][i])
        /\ Judged(d, action, results[d][i])
    BY DEF GInv, ResultsAreJudged
  <2>2. PlanRefusal(action, confirmation) = ExecuteRefusal(action, confirmation)
    BY <2>1, SameGates DEF Judged
  <2>3. results[c][i].code = ExecuteRefusal(action, confirmation)
    BY <2>1, <2>2 DEF Judged
  <2>4. IF ExecuteRefusal(action, confirmation) # NoError
          THEN results[d][i].code = ExecuteRefusal(action, confirmation)
          ELSE results[d][i].code \in {NoError, "exec_failed", "exec_timed_out",
                                       "read_failed", "write_failed"}
    BY <2>1 DEF Judged
  <2>5. ExecuteRefusal(action, confirmation)
          \in {NoError, "policy_denied", "confirmation_required"}
    BY GatesAreTwo
  <2> HIDE DEF action, confirmation
  <2> QED  BY <2>3, <2>4, <2>5 DEF NoError
<1> QED  BY <1>1, Judgement, PTL

\* No valid plan, of any length and content, meets a fallback behind validation.
THEOREM FallbacksUnreached == Spec => []NoFallbackReached
<1>1. GInv => NoFallbackReached
  <2> SUFFICES ASSUME GInv, NEW c \in Conn, NEW i \in DOMAIN results[c]
               PROVE  /\ results[c][i].code # "invalid_mode_string"
                      /\ /\ results[c][i].kind \in {"cgroup_apply", "firmware_op"}
                         /\ ~Executes(c)
                         => results[c][i].ok
    BY DEF NoFallbackReached
  <2> DEFINE action == Plan(c).actions[i]
             confirmation == Plan(c).confirmation
  <2>1. Judgeable(c, i) /\ Judged(c, action, results[c][i])
    BY DEF GInv, ResultsAreJudged
  <2>2. results[c][i].code # "invalid_mode_string"
    BY <2>1, GatesAreTwo DEF Judged, NoError
  <2>3. ASSUME action.kind \in {"cgroup_apply", "firmware_op"}
        PROVE  PlanRefusal(action, confirmation) = NoError
    <3>1. ValidAction(action, Plan(c))
      BY <2>1 DEF Judgeable, ValidPlan
    <3>2. CASE action.kind = "cgroup_apply"
      <4>1. ~CgroupTargetMissing(action)
        BY <3>1, <3>2 DEF ValidAction, ValidCgroupApply, CgroupTargetMissing
      <4> QED  BY <3>2, <4>1 DEF PlanRefusal
    <3>3. CASE action.kind = "firmware_op"
      <4>1. ~FirmwareTargetMissing(action)
        BY <3>1, <3>3 DEF ValidAction, ValidFirmwareOp, FirmwareTargetMissing, Required
      <4> QED  BY <3>3, <4>1 DEF PlanRefusal
    <3> QED  BY <2>3, <3>2, <3>3
  <2>4. results[c][i].kind = action.kind
    BY <2>1 DEF Judged
  <2>5. ASSUME action.kind \in {"cgroup_apply", "firmware_op"}, ~Executes(c)
        PROVE  results[c][i].ok
    BY <2>1, <2>3, <2>5 DEF Judged
  <2> QED  BY <2>2, <2>4, <2>5
<1> QED  BY <1>1, Judgement, PTL
-----------------------------------------------------------------------------
\* Cardinalities of the positions of a path.
LEMMA PlacesCount ==
  ASSUME NEW i \in Nat, NEW places \in SUBSET (1..i)
  PROVE  /\ Cardinality(places) \in Nat
         /\ places # {} => Cardinality(places) >= 1
<1>1. IsFiniteSet(places)
  <2>1. IsFiniteSet(1..i)  BY FS_Interval
  <2> QED  BY <2>1, FS_Subset
<1>2. Cardinality(places) \in Nat  BY <1>1, FS_CardinalityType
<1>3. ASSUME places # {} PROVE Cardinality(places) >= 1
  <2>1. Cardinality(places) # 0  BY <1>1, <1>3, FS_EmptySet
  <2> QED  BY <1>2, <2>1
<1> QED  BY <1>2, <1>3

\* A path that needs no token leads nowhere above /tmp, or above the directory
\* it starts from, at any of its parts.
LEMMA FreePathsInScope ==
  ASSUME NEW path, path.parts \in Seq(STRING), ~PathRequiresConfirmation(path)
  PROVE  InScope(path.parts)
<1> DEFINE parts == path.parts
           names(i) == {j \in 1..i : parts[j] \notin {"", ".", ".."}}
           ups(i)   == {j \in 1..i : parts[j] = ".."}
<1>1. parts \in Seq(STRING) /\ Len(parts) \in Nat /\ DOMAIN parts = 1..Len(parts)
  OBVIOUS
<1>2. ~HasParentDir(parts)
      /\ (StartsWith(parts, <<"">>) => StartsWith(parts, <<"", "tmp">>))
  BY DEF PathRequiresConfirmation
<1>3. ASSUME NEW i \in 0..Len(parts)
      PROVE  /\ Depth(parts)[i] = Cardinality(names(i))
             /\ Cardinality(names(i)) \in Nat
             /\ names(i) # {} => Cardinality(names(i)) >= 1
  <2>1. \A j \in 1..i : parts[j] # ".."
    <3>1. 1..i \subseteq DOMAIN parts  BY <1>1
    <3> HIDE DEF parts
    <3> QED  BY <1>2, <3>1 DEF HasParentDir
  <2>2. Cardinality(ups(i)) = 0
    <3>1. ups(i) = {}  BY <2>1
    <3> QED  BY <3>1, FS_EmptySet
  <2>3. /\ Cardinality(names(i)) \in Nat
        /\ names(i) # {} => Cardinality(names(i)) >= 1
    <3>1. names(i) \in SUBSET (1..i)
      OBVIOUS
    <3>2. i \in Nat
      <4> HIDE DEF parts
      <4> QED  BY <1>1
    <3> HIDE DEF names
    <3> QED  BY <3>1, <3>2, PlacesCount
  <2>4. Depth(parts)[i] = Cardinality(names(i)) - Cardinality(ups(i))
    BY DEF Depth
  <2> HIDE DEF names, ups
  <2> QED  BY <2>2, <2>3, <2>4
<1>4. CASE StartsWith(parts, <<"">>)
  <2>1. StartsWith(parts, <<"", "tmp">>)  BY <1>2, <1>4
  <2>2. parts[2] = "tmp"
    <3>1. 2 \in DOMAIN <<"", "tmp">> /\ <<"", "tmp">>[2] = "tmp"
      OBVIOUS
    <3> QED  BY <2>1, <3>1 DEF StartsWith
  <2>3. ASSUME NEW i \in 2..Len(parts) PROVE Depth(parts)[i] >= 1
    <3>1. i \in 0..Len(parts) /\ 2 \in 1..i  BY <1>1
    <3>2. names(i) # {}  BY <2>2, <3>1
    <3> HIDE DEF names, parts
    <3> QED  BY <1>3, <3>1, <3>2
  <2> QED  BY <1>4, <2>2, <2>3 DEF InScope
<1>5. CASE ~StartsWith(parts, <<"">>)
  <2>1. ASSUME NEW i \in DOMAIN parts PROVE Depth(parts)[i] >= 0
    <3>1. i \in 0..Len(parts)  BY <1>1
    <3> HIDE DEF names, parts
    <3> QED  BY <1>3, <3>1
  <2> QED  BY <1>5, <2>1 DEF InScope
<1> QED  BY <1>4, <1>5

\* Without the token no plan reads or changes a file outside /tmp and the
\* daemon's working directory, whatever its paths are made of.
THEOREM UnconfirmedStayInScope == Spec => []UnconfirmedFilesInScope
<1>1. GInv => UnconfirmedFilesInScope
  <2> SUFFICES ASSUME GInv, NEW c \in Conn, NEW i \in DOMAIN results[c],
                      Executes(c),
                      Plan(c).actions[i].kind \in {"read_file", "write_file"},
                      ~ConfirmationIsValid(Plan(c).confirmation),
                      results[c][i].ok \/ <<c, i>> \in touched
               PROVE  InScope(Plan(c).actions[i].path.parts)
    BY DEF UnconfirmedFilesInScope
  <2> DEFINE action == Plan(c).actions[i]
  <2>1. Judgeable(c, i) /\ Judged(c, action, results[c][i])
    BY DEF GInv, ResultsAreJudged
  <2>2. ExecuteRefusal(action, Plan(c).confirmation) = NoError
    <3>1. CASE results[c][i].ok  BY <2>1, <3>1 DEF Judged
    <3>2. CASE <<c, i>> \in touched
      <4>1. Permitted(c, i)  BY <3>2 DEF GInv, IInv, OnlyPermittedEffects
      <4> QED  BY <4>1, PermittedMeans DEF GInv, IInv
    <3> QED  BY <3>1, <3>2
  <2>3. ~PathRequiresConfirmation(action.path)
    BY <2>2 DEF ExecuteRefusal, FileRefusal, NoError
  <2>4. action.path.parts \in Seq(STRING)
    BY <2>1, RequestsAssumption DEF Judgeable, Plan, GInv, IInv, TypeOK
  <2> QED  BY <2>3, <2>4, FreePathsInScope
<1> QED  BY <1>1, Judgement, PTL
=============================================================================
