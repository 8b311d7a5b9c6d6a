------------------------- MODULE DaemonServesProofs -------------------------
(***************************************************************************)
(* Daemon implements PlanService, and its answers, effects and audit       *)
(* records agree, for every set of connections, requests and faults.       *)
(*                                                                         *)
(* Most steps of a handler are of a few sorts, and Sorts says which; the   *)
(* invariants are then shown once for each sort and not for each action.   *)
(***************************************************************************)
EXTENDS DaemonProofs, SequenceTheorems

Open == {"fresh", "reading", "acting", "waiting"}

\* The action at hand of c gets its result.
Reports(c, result) ==
  /\ phase[c] \in {"acting", "waiting"}
  /\ NextIndex(c) \in DOMAIN Plan(c).actions
  /\ result \in Results
  /\ result.kind = NextAction(c).kind
  /\ Push(c, result)
  /\ phase' = [phase EXCEPT ![c] = "acting"]
  /\ Executes(c) /\ result.kind = "write_file" /\ result.ok =>
       <<c, NextIndex(c)>> \in touched
  /\ Executes(c) /\ result.kind \in {"exec", "observe"} /\ result.code = NoError =>
       <<c, NextIndex(c)>> \notin children
  /\ UNCHANGED <<req, answer, children, touched, audit>>

\* An action that passed the gates has an effect: its file changes, or its
\* child process acts.
Acts(c, i) ==
  /\ Permitted(c, i) /\ i <= NextIndex(c)
  /\ phase[c] \notin {"fresh", "reading"}
  /\ touched' = touched \cup {<<c, i>>}
  /\ UNCHANGED <<phase, req, results, answer, children, audit>>

Enters(c) == Accept(c) \/ Admit(c)

\* A handler ends without an answer, or without a record.
Stops(c) == ReadFails(c) \/ RespondFails(c) \/ AuditFails(c)

Bystands == UNCHANGED <<phase, req, results, answer, children, touched, audit>>
-----------------------------------------------------------------------------
\* Only exec and observe wait.
WaitsForChild ==
  \A c \in Conn : phase[c] = "waiting" => NextAction(c).kind \in {"exec", "observe"}

UnreadIsUntouched ==
  \A c \in Conn : phase[c] \in {"fresh", "reading"} =>
    results[c] = <<>> /\ \A step \in touched \cup children : step[1] # c

WithinPlan ==
  \A c \in Conn : phase[c] = "acting" => Len(results[c]) <= Len(Plan(c).actions)

\* A result is of its action's kind, and true of what has happened.
ResultIsTrue(c, i) ==
  LET result == results[c][i] IN
  /\ result.kind = Plan(c).actions[i].kind
  /\ Executes(c) =>
       /\ result.kind = "write_file" /\ result.ok => <<c, i>> \in touched
       /\ result.kind \in {"exec", "observe"} /\ result.code = NoError =>
            <<c, i>> \notin children

ResultsAreTrue == \A c \in Conn : \A i \in DOMAIN results[c] : ResultIsTrue(c, i)

\* An answer is an error without execution, or a full report.
AnswerFits(c, response) ==
  \/ /\ response.error # NoError /\ ~response.executed
     /\ phase[c] = "done" /\ ~Audited(c)
  \/ /\ response = PlanAnswer(c)
     /\ Len(results[c]) = Len(Plan(c).actions)
     /\ phase[c] \in {"auditing"} \cup Over

AnswersFit == \A c \in Conn : \A response \in answer[c] : AnswerFits(c, response)

RecordsFit ==
  /\ \A c \in Conn : phase[c] = "auditing" => PlanAnswer(c) \in answer[c]
  /\ \A n \in DOMAIN audit :
       /\ phase[audit[n].conn] = "done"
       /\ PlanAnswer(audit[n].conn) \in answer[audit[n].conn]
       /\ audit[n] = AuditRecord(audit[n].conn)
  /\ \A m, n \in DOMAIN audit : audit[m].conn = audit[n].conn => m = n

SInv == /\ IInv
        /\ ActionsStartInOrder
        /\ WaitsForChild
        /\ UnreadIsUntouched
        /\ WithinPlan
        /\ ResultsAreTrue
        /\ AnswersFit
        /\ RecordsFit
-----------------------------------------------------------------------------
\* Every step that gives an action its result is a report.
LEMMA ActingReports ==
  ASSUME IInv, NEW c \in Conn,
         PlanStep(c) \/ RefuseStep(c) \/ Ping(c) \/ ReadFile(c) \/ WriteFile(c)
           \/ SpawnFails(c)
  PROVE  \E result : Reports(c, result)
<1>1. phase[c] = "acting" /\ Pending(c)
  BY DEF PlanStep, RefuseStep, Ping, ReadFile, WriteFile, SpawnFails, MayAct, Pending
<1>b. phase' = [phase EXCEPT ![c] = "acting"]
  BY <1>1 DEF IInv, TypeOK, PlanStep, RefuseStep, Ping, ReadFile, WriteFile, SpawnFails
<1>2. NextIndex(c) \in DOMAIN Plan(c).actions /\ NextAction(c).kind \in Kinds
  BY <1>1, PendingAction DEF IInv
<1>3. /\ Success(NextAction(c)) \in Results
      /\ \A code \in ActionErrors : Failure(NextAction(c), code) \in Results
  BY <1>2, ResultsTyped DEF IInv
<1>a. /\ Success(NextAction(c)).kind = NextAction(c).kind
      /\ \A code : Failure(NextAction(c), code).kind = NextAction(c).kind
  BY DEF Success, Failure
<1>4. CASE PlanStep(c)
  <2>1. PICK result \in {Success(NextAction(c))} \cup
                        {Failure(NextAction(c), code) : code \in ActionErrors} :
          Push(c, result)
    BY <1>4, RefusalsAreCodes DEF PlanStep
  <2>2. result \in Results /\ result.kind = NextAction(c).kind
    BY <1>3, <1>a, <2>1
  <2> QED  BY <1>1, <1>b, <1>2, <1>4, <2>1, <2>2 DEF PlanStep, Reports
<1>5. CASE RefuseStep(c) \/ Ping(c) \/ ReadFile(c) \/ SpawnFails(c)
  <2>1. PICK result :
          /\ Push(c, result)
          /\ \/ \E code \in ActionErrors : result = Failure(NextAction(c), code)
             \/ /\ result = Success(NextAction(c))
                /\ NextAction(c).kind \in {"ping", "read_file"}
    BY <1>5, RefusalsAreCodes
       DEF RefuseStep, Ping, ReadFile, SpawnFails, MayAct, ActionErrors
  <2>2. result \in Results /\ result.kind = NextAction(c).kind
    BY <1>3, <1>a, <2>1
  <2>3. /\ ~(result.kind = "write_file" /\ result.ok)
        /\ ~(result.kind \in {"exec", "observe"} /\ result.code = NoError)
    BY <2>1 DEF Success, Failure, NoError, ActionErrors
  <2>4. UNCHANGED <<req, answer, children, touched, audit>>
    BY <1>5 DEF RefuseStep, Ping, ReadFile, SpawnFails
  <2> QED  BY <1>1, <1>b, <1>2, <2>1, <2>2, <2>3, <2>4 DEF Reports
<1>6. CASE WriteFile(c)
  <2>1. PICK result :
          /\ Push(c, result)
          /\ \/ \E code \in ActionErrors : result = Failure(NextAction(c), code)
             \/ /\ result = Success(NextAction(c))
                /\ <<c, NextIndex(c)>> \in touched
    BY <1>6 DEF WriteFile, ActionErrors
  <2>2. NextAction(c).kind = "write_file"
    BY <1>6 DEF WriteFile, MayAct
  <2>3. result \in Results /\ result.kind = NextAction(c).kind
    BY <1>3, <1>a, <2>1
  <2>4. result.ok => <<c, NextIndex(c)>> \in touched
    BY <2>1 DEF Failure
  <2>5. UNCHANGED <<req, answer, children, touched, audit>>
    BY <1>6 DEF WriteFile
  <2> QED  BY <1>1, <1>b, <1>2, <2>1, <2>2, <2>3, <2>4, <2>5 DEF Reports
<1> QED  BY <1>4, <1>5, <1>6

\* So is every way a wait ends.
LEMMA WaitingReports ==
  ASSUME IInv, WaitsForChild, NEW c \in Conn,
         ExecFinishes(c) \/ ExecWaitFails(c) \/ ExecTimesOut(c)
  PROVE  \E result : Reports(c, result)
<1>1. PICK ok \in BOOLEAN, code \in ActionErrors \cup {NoError} :
        WaitEnds(c, [kind |-> NextAction(c).kind, ok |-> ok, code |-> code])
  BY DEF ExecFinishes, ExecWaitFails, ExecTimesOut, Failure, ActionErrors
<1> DEFINE result == [kind |-> NextAction(c).kind, ok |-> ok, code |-> code]
<1>2. phase[c] = "waiting"  BY <1>1 DEF WaitEnds
<1>3. NextAction(c).kind \in {"exec", "observe"}  BY <1>2 DEF WaitsForChild
<1>4. Permitted(c, NextIndex(c))  BY <1>2 DEF IInv, WaitingIsPermitted
<1>5. NextIndex(c) \in DOMAIN Plan(c).actions  BY <1>4, PermittedMeans DEF IInv
<1>6. result \in Results  BY <1>3 DEF Results, Kinds
<1>7. /\ result.kind = NextAction(c).kind
      /\ result.code = NoError => <<c, NextIndex(c)>> \notin children
  BY <1>1 DEF WaitEnds
<1>8. /\ Push(c, result)
      /\ phase' = [phase EXCEPT ![c] = "acting"]
      /\ UNCHANGED <<req, answer, children, touched, audit>>
  BY <1>1 DEF WaitEnds, Goto
<1>9. result.kind # "write_file"  BY <1>3, <1>7
<1> HIDE DEF result
<1>10. Reports(c, result)
  BY <1>2, <1>5, <1>6, <1>7, <1>8, <1>9 DEF Reports
<1> QED  BY <1>10

\* So has every effect a permitted action of a plan that is being served, or
\* was when its child process was spawned.
LEMMA FilesAct ==
  ASSUME IInv, NEW c \in Conn, FileChanges(c)
  PROVE  NextIndex(c) \in Nat \ {0} /\ Acts(c, NextIndex(c))
<1>1. Permitted(c, NextIndex(c))  BY MayActIsPermitted DEF FileChanges
<1>2. NextIndex(c) \in Nat \ {0}
  BY PendingAction DEF FileChanges, MayAct, IInv
<1> QED  BY <1>1, <1>2 DEF FileChanges, MayAct, Pending, Acts

LEMMA ChildrenAct ==
  ASSUME SInv, NEW child \in children, ChildActs(child)
  PROVE  \E c \in Conn, i \in Nat \ {0} : Acts(c, i)
<1>1. PICK c \in Conn, i \in Nat \ {0} : child = <<c, i>>
  BY DEF SInv, IInv, TypeOK, Steps
<1>2. Permitted(c, i) /\ i <= NextIndex(c)
  BY <1>1 DEF SInv, IInv, OnlyPermittedEffects, ActionsStartInOrder
<1>3. phase[c] \notin {"fresh", "reading"}
  BY <1>1 DEF SInv, UnreadIsUntouched
<1> QED  BY <1>1, <1>2, <1>3 DEF ChildActs, Acts

\* The sorts of steps.
LEMMA Sorts ==
  ASSUME SInv, [Next]_vars
  PROVE  \/ \E c \in Conn : \E result : Reports(c, result)
         \/ \E c \in Conn, i \in Nat \ {0} : Acts(c, i)
         \/ \E c \in Conn : \/ Enters(c) \/ Stops(c) \/ Rejects(c) \/ Respond(c)
                           \/ Spawn(c) \/ AppendRecord(c)
         \/ \E child \in children : ChildExits(child)
         \/ Crash
         \/ Bystands
<1>1. CASE \E c \in Conn : \/ PlanStep(c) \/ RefuseStep(c) \/ Ping(c) \/ ReadFile(c)
                            \/ WriteFile(c) \/ SpawnFails(c) \/ ExecFinishes(c)
                            \/ ExecWaitFails(c) \/ ExecTimesOut(c)
  BY <1>1, ActingReports, WaitingReports DEF SInv
<1>2. CASE \/ \E c \in Conn : ClientLeaves(c) \/ ClientTurns(c)
           \/ Restart \/ Idle \/ UNCHANGED vars
  BY <1>2 DEF ClientLeaves, ClientTurns, Restart, Idle, vars, Bystands
<1>3. CASE (\E c \in Conn : FileChanges(c)) \/ \E child \in children : ChildActs(child)
  BY <1>3, FilesAct, ChildrenAct DEF SInv
<1> QED  BY <1>1, <1>2, <1>3 DEF Next, Serve, Enters, Stops
-----------------------------------------------------------------------------
\* Only Reports, Spawn and the children change what started.
LEMMA OrderStep == SInv /\ [Next]_vars => ActionsStartInOrder'
<1> SUFFICES ASSUME SInv, [Next]_vars PROVE ActionsStartInOrder'
  OBVIOUS
<1>0. /\ results \in [Conn -> Seq(Results)]
      /\ touched \subseteq Steps /\ children \subseteq Steps
  BY DEF SInv, IInv, TypeOK
<1>1. ASSUME NEW c \in Conn, NEW result, Reports(c, result)
      PROVE  ActionsStartInOrder'
  <2>1. \A d \in Conn : Len(results'[d]) >= Len(results[d])
    BY <1>0, <1>1 DEF Reports, Push
  <2>2. Len(results'[c]) = Len(results[c]) + 1
    BY <1>0, <1>1 DEF Reports, Push
  <2> QED  BY <1>0, <1>1, <2>1, <2>2
           DEF SInv, ActionsStartInOrder, NextIndex, Reports, Steps
<1>2. CASE UNCHANGED <<results, touched, children>>
  BY <1>2 DEF SInv, ActionsStartInOrder, NextIndex
<1>3. ASSUME NEW c \in Conn, Spawn(c) PROVE ActionsStartInOrder'
  BY <1>0, <1>3 DEF Spawn, SInv, ActionsStartInOrder, NextIndex, Steps
<1>4. ASSUME NEW c \in Conn, NEW i \in Nat \ {0}, Acts(c, i)
      PROVE  ActionsStartInOrder'
  BY <1>0, <1>4 DEF Acts, SInv, ActionsStartInOrder, NextIndex, Steps
<1>7. ASSUME NEW child \in children, ChildExits(child)
      PROVE  ActionsStartInOrder'
  BY <1>7 DEF ChildExits, SInv, ActionsStartInOrder, NextIndex
<1>5. \A c \in Conn : Enters(c) \/ Stops(c) \/ Rejects(c) \/ Respond(c) \/ AppendRecord(c)
        => UNCHANGED <<results, touched, children>>
  BY DEF Enters, Accept, Admit, Stops, ReadFails, RespondFails, AuditFails, Rejects,
         RejectOversized, RejectUnreadable, RejectInvalid, Reject, Respond, AppendRecord
<1>6. Crash \/ Bystands => UNCHANGED <<results, touched, children>>
  BY DEF Crash, Bystands
<1> QED  BY <1>1, <1>2, <1>3, <1>4, <1>5, <1>6, <1>7, Sorts

\* Spawn alone lets a handler wait, and a wait keeps its action.
LEMMA ChildStep == SInv /\ [Next]_vars => WaitsForChild'
<1> SUFFICES ASSUME SInv, [Next]_vars, NEW c \in Conn, phase'[c] = "waiting"
             PROVE  NextAction(c)'.kind \in {"exec", "observe"}
  BY DEF WaitsForChild
<1>0. phase \in [Conn -> Phases] /\ results \in [Conn -> Seq(Results)]
  BY DEF SInv, IInv, TypeOK
<1>1. req' = req  BY RequestsStay
<1>2. CASE Spawn(c)
  BY <1>1, <1>2 DEF Spawn, MayAct, NextAction, NextIndex, Plan
<1>3. CASE phase[c] = "waiting" /\ results'[c] = results[c]
  BY <1>1, <1>3 DEF SInv, WaitsForChild, NextAction, NextIndex, Plan
<1>4. ASSUME NEW d \in Conn, NEW result, Reports(d, result)
      PROVE  phase[c] = "waiting" /\ results'[c] = results[c]
  BY <1>0, <1>4 DEF Reports, Push
<1>5. ASSUME NEW d \in Conn,
             Enters(d) \/ Stops(d) \/ Rejects(d) \/ Respond(d) \/ AppendRecord(d)
      PROVE  phase[c] = "waiting" /\ results'[c] = results[c]
  BY <1>0, <1>5
     DEF Enters, Accept, Admit, Stops, ReadFails, RespondFails, AuditFails, Rejects,
         RejectOversized, RejectUnreadable, RejectInvalid, Reject, Respond, AppendRecord,
         Goto
<1>6. ASSUME NEW d \in Conn, Spawn(d), d # c
      PROVE  phase[c] = "waiting" /\ results'[c] = results[c]
  BY <1>0, <1>6 DEF Spawn, Goto
<1>7. CASE \/ Crash \/ Bystands
           \/ \E d \in Conn, i \in Nat \ {0} : Acts(d, i)
           \/ \E child \in children : ChildExits(child)
  BY <1>0, <1>3, <1>7 DEF Crash, Bystands, Acts, ChildExits, Over
<1> QED  BY <1>2, <1>3, <1>4, <1>5, <1>6, <1>7, Sorts

\* Nothing is started before the request has been read.
LEMMA UnreadStep == SInv /\ [Next]_vars => UnreadIsUntouched'
<1> SUFFICES ASSUME SInv, [Next]_vars, NEW c \in Conn, phase'[c] \in {"fresh", "reading"}
             PROVE  results'[c] = <<>> /\ \A step \in touched' \cup children' : step[1] # c
  BY DEF UnreadIsUntouched
<1>0. phase \in [Conn -> Phases] /\ results \in [Conn -> Seq(Results)]
  BY DEF SInv, IInv, TypeOK
<1>1. ASSUME phase[c] \in {"fresh", "reading"}, results'[c] = results[c],
             \A step \in touched' \cup children' :
               step \in touched \cup children \/ step[1] # c
      PROVE  results'[c] = <<>> /\ \A step \in touched' \cup children' : step[1] # c
  BY <1>1 DEF SInv, UnreadIsUntouched
<1>2. ASSUME NEW d \in Conn, NEW result, Reports(d, result)
      PROVE  /\ phase[c] \in {"fresh", "reading"} /\ results'[c] = results[c]
             /\ \A step \in touched' \cup children' :
                  step \in touched \cup children \/ step[1] # c
  <2>1. d # c  BY <1>0, <1>2 DEF Reports
  <2> QED  BY <1>0, <1>2, <2>1 DEF Reports, Push
<1>3. ASSUME NEW d \in Conn,
             Enters(d) \/ Stops(d) \/ Rejects(d) \/ Respond(d) \/ AppendRecord(d)
      PROVE  /\ phase[c] \in {"fresh", "reading"}
             /\ UNCHANGED <<results, touched, children>>
  BY <1>0, <1>3
     DEF Enters, Accept, Admit, Stops, ReadFails, RespondFails, AuditFails, Rejects,
         RejectOversized, RejectUnreadable, RejectInvalid, Reject, Respond, AppendRecord,
         Goto
<1>4. ASSUME NEW d \in Conn, Spawn(d)
      PROVE  /\ phase[c] \in {"fresh", "reading"} /\ results'[c] = results[c]
             /\ \A step \in touched' \cup children' :
                  step \in touched \cup children \/ step[1] # c
  <2>1. d # c  BY <1>0, <1>4 DEF Spawn, Goto
  <2> QED  BY <1>0, <1>4, <2>1 DEF Spawn, Goto
<1>5. CASE Crash \/ Bystands
  <2>1. phase[c] \in {"fresh", "reading"} /\ UNCHANGED <<results, touched, children>>
    BY <1>0, <1>5 DEF Crash, Bystands, Over
  <2> QED  BY <1>1, <2>1
<1>6. ASSUME NEW child \in children, ChildExits(child)
      PROVE  results'[c] = <<>> /\ \A step \in touched' \cup children' : step[1] # c
  BY <1>6 DEF ChildExits, SInv, UnreadIsUntouched
<1>7. ASSUME NEW d \in Conn, NEW i \in Nat \ {0}, Acts(d, i)
      PROVE  results'[c] = <<>> /\ \A step \in touched' \cup children' : step[1] # c
  <2>1. d # c  BY <1>7 DEF Acts
  <2>2. phase[c] \in {"fresh", "reading"} /\ results'[c] = results[c]
    BY <1>7 DEF Acts
  <2>3. \A step \in touched' \cup children' :
          step \in touched \cup children \/ step[1] # c
    BY <1>7, <2>1 DEF Acts
  <2> QED  BY <1>1, <2>2, <2>3
<1> QED  BY <1>1, <1>2, <1>3, <1>4, <1>5, <1>6, <1>7, Sorts

\* The actions of a plan that is being served are numbered from 1.
LEMMA ServedPlan ==
  ASSUME IInv, NEW c \in Conn, phase[c] \in Serving
  PROVE  /\ Len(Plan(c).actions) \in Nat
         /\ DOMAIN Plan(c).actions = 1..Len(Plan(c).actions)
<1>1. req[c] \in Requests /\ req[c].form = "json"
  BY DEF IInv, TypeOK, AdmittedIsValid
<1> QED  BY <1>1, RequestsAssumption DEF Plan

\* A report needs an action of the plan to report on.
LEMMA PlanStepLength == SInv /\ [Next]_vars => WithinPlan'
<1> SUFFICES ASSUME SInv, [Next]_vars, NEW c \in Conn, phase'[c] = "acting"
             PROVE  Len(results'[c]) <= Len(Plan(c).actions)
  BY RequestsStay DEF WithinPlan, Plan
<1>0. phase \in [Conn -> Phases] /\ results \in [Conn -> Seq(Results)]
  BY DEF SInv, IInv, TypeOK
<1>1. CASE phase[c] = "acting" /\ results'[c] = results[c]
  BY <1>1 DEF SInv, WithinPlan
<1>2. ASSUME NEW d \in Conn, NEW result, Reports(d, result)
      PROVE  Len(results'[c]) <= Len(Plan(c).actions)
  <2>1. CASE d = c
    <3>1. NextIndex(c) \in 1..Len(Plan(c).actions) /\ Len(Plan(c).actions) \in Nat
      BY <1>2, <2>1, ServedPlan DEF SInv, Reports, Serving
    <3>2. Len(results'[c]) = NextIndex(c)
      BY <1>0, <1>2, <2>1 DEF Reports, Push, NextIndex
    <3> QED  BY <3>1, <3>2
  <2>2. CASE d # c
    BY <1>0, <1>1, <1>2, <2>2 DEF Reports, Push
  <2> QED  BY <2>1, <2>2
<1>3. ASSUME NEW d \in Conn,
             \/ Accept(d) \/ Stops(d) \/ Rejects(d) \/ Respond(d) \/ AppendRecord(d)
             \/ Spawn(d)
      PROVE  phase[c] = "acting" /\ results'[c] = results[c]
  BY <1>0, <1>3
     DEF Accept, Stops, ReadFails, RespondFails, AuditFails, Rejects,
         RejectOversized, RejectUnreadable, RejectInvalid, Reject, Respond, AppendRecord,
         Spawn, Goto
<1>4. ASSUME NEW d \in Conn, Admit(d)
      PROVE  Len(results'[c]) <= Len(Plan(c).actions)
  <2>1. CASE d = c
    <3>1. req[c] \in Requests /\ req[c].form = "json"
      BY <1>4, <2>1 DEF Admit, SInv, IInv, TypeOK
    <3>2. Len(Plan(c).actions) \in Nat  BY <3>1, RequestsAssumption DEF Plan
    <3>3. results'[c] = <<>>
      BY <1>4, <2>1 DEF Admit, Heard, SInv, UnreadIsUntouched
    <3> QED  BY <3>2, <3>3
  <2>2. CASE d # c
    BY <1>0, <1>1, <1>4, <2>2 DEF Admit, Goto
  <2> QED  BY <2>1, <2>2
<1>5. CASE \/ Crash \/ Bystands
           \/ \E d \in Conn, i \in Nat \ {0} : Acts(d, i)
           \/ \E child \in children : ChildExits(child)
  BY <1>0, <1>1, <1>5 DEF Crash, Bystands, Acts, ChildExits, Over
<1> QED  BY <1>1, <1>2, <1>3, <1>4, <1>5, Sorts DEF Enters

\* A result is true when it is pushed, and effects and exits are not undone.
LEMMA ResultsStep == SInv /\ [Next]_vars => ResultsAreTrue'
<1> SUFFICES ASSUME SInv, [Next]_vars, NEW c \in Conn, NEW i \in DOMAIN results'[c]
             PROVE  ResultIsTrue(c, i)'
  BY DEF ResultsAreTrue
<1>0. /\ results \in [Conn -> Seq(Results)]
      /\ req' = req
  BY RequestsStay DEF SInv, IInv, TypeOK
<1>1. ASSUME i \in DOMAIN results[c], results'[c][i] = results[c][i],
             <<c, i>> \in touched => <<c, i>> \in touched',
             <<c, i>> \in children' => <<c, i>> \in children
      PROVE  ResultIsTrue(c, i)'
  <2>1. ResultIsTrue(c, i)  BY <1>1 DEF SInv, ResultsAreTrue
  <2> QED  BY <1>0, <1>1, <2>1 DEF ResultIsTrue, Plan, Executes
<1>2. ASSUME NEW d \in Conn, NEW result, Reports(d, result)
      PROVE  ResultIsTrue(c, i)'
  <2>1. touched' = touched /\ children' = children
    BY <1>2 DEF Reports
  <2>2. CASE d = c /\ i = NextIndex(c)
    <3>1. results'[c][i] = result
      BY <1>0, <1>2, <2>2 DEF Reports, Push, NextIndex
    <3> QED  BY <1>0, <1>2, <2>1, <2>2, <3>1
             DEF ResultIsTrue, Reports, Plan, Executes, NextAction
  <2>3. CASE ~(d = c /\ i = NextIndex(c))
    <3>1. i \in DOMAIN results[c] /\ results'[c][i] = results[c][i]
      BY <1>0, <1>2, <2>3 DEF Reports, Push, NextIndex
    <3> QED  BY <1>1, <2>1, <3>1
  <2> QED  BY <2>2, <2>3
<1>3. ASSUME NEW d \in Conn, Spawn(d) PROVE ResultIsTrue(c, i)'
  <2>1. i \in DOMAIN results[c] /\ results' = results /\ touched' = touched
    BY <1>3 DEF Spawn
  <2>2. i # NextIndex(c)  BY <1>0, <2>1 DEF NextIndex
  <2>3. <<c, i>> \in children' => <<c, i>> \in children
    BY <1>3, <2>2 DEF Spawn
  <2> QED  BY <1>1, <2>1, <2>3
<1>4. ASSUME NEW d \in Conn,
             Enters(d) \/ Stops(d) \/ Rejects(d) \/ Respond(d) \/ AppendRecord(d)
      PROVE  UNCHANGED <<results, touched, children>>
  BY <1>4
     DEF Enters, Accept, Admit, Stops, ReadFails, RespondFails, AuditFails, Rejects,
         RejectOversized, RejectUnreadable, RejectInvalid, Reject, Respond, AppendRecord
<1>5. CASE UNCHANGED <<results, touched, children>>
  BY <1>1, <1>5
<1>6. Crash \/ Bystands => UNCHANGED <<results, touched, children>>
  BY DEF Crash, Bystands
<1>7. ASSUME NEW child \in children, ChildExits(child)
      PROVE  ResultIsTrue(c, i)'
  BY <1>1, <1>7 DEF ChildExits
<1>8. ASSUME NEW d \in Conn, NEW j \in Nat \ {0}, Acts(d, j)
      PROVE  ResultIsTrue(c, i)'
  BY <1>1, <1>8 DEF Acts
<1> QED  BY <1>2, <1>3, <1>4, <1>5, <1>6, <1>7, <1>8, Sorts

\* Nobody is audited while the handler is still open.
LEMMA OpenUnaudited ==
  ASSUME RecordsFit, NEW c \in Conn, phase[c] # "done"
  PROVE  ~Audited(c)
BY DEF RecordsFit, Audited

\* An answer is written once, after the last result.
LEMMA AnswersStep == SInv /\ [Next]_vars => AnswersFit'
<1> SUFFICES ASSUME SInv, [Next]_vars, NEW c \in Conn, NEW response \in answer'[c]
             PROVE  AnswerFits(c, response)'
  BY DEF AnswersFit
<1>0. /\ phase \in [Conn -> Phases]
      /\ results \in [Conn -> Seq(Results)]
      /\ answer \in [Conn -> SUBSET Answers]
      /\ req' = req
  BY RequestsStay DEF SInv, IInv, TypeOK
<1>1. ASSUME response \in answer[c], results'[c] = results[c],
             \/ phase'[c] = phase[c] /\ (Audited(c)' => Audited(c))
             \/ phase[c] = "auditing" /\ phase'[c] \in Over
      PROVE  AnswerFits(c, response)'
  <2>1. AnswerFits(c, response)  BY <1>1 DEF SInv, AnswersFit
  <2>2. PlanAnswer(c)' = PlanAnswer(c)
    BY <1>0, <1>1 DEF PlanAnswer, Executes, Plan
  <2> QED  BY <1>0, <1>1, <2>1, <2>2 DEF AnswerFits, Plan, Over
<1>2. response \in answer[c] => phase[c] \in {"auditing"} \cup Over
  BY DEF SInv, AnswersFit, AnswerFits, Over
<1>3. audit' = audit => (Audited(c)' => Audited(c))  BY DEF Audited
<1>4. ASSUME NEW d \in Conn,
             (\E result : Reports(d, result)) \/ Enters(d) \/ ReadFails(d)
               \/ RespondFails(d) \/ Spawn(d)
      PROVE  AnswerFits(c, response)'
  <2>1. answer' = answer /\ audit' = audit
    BY <1>4 DEF Reports, Enters, Accept, Admit, ReadFails, RespondFails, Spawn
  <2>2. d # c
    BY <1>2, <1>4, <2>1
       DEF Reports, Enters, Accept, Admit, Heard, ReadFails, RespondFails, AllActed, Spawn,
           MayAct, Pending, Over
  <2>3. results'[c] = results[c] /\ phase'[c] = phase[c]
    BY <1>0, <1>4, <2>2
       DEF Reports, Push, Enters, Accept, Admit, ReadFails, RespondFails, Spawn, Goto
  <2> QED  BY <1>1, <1>3, <2>1, <2>3
<1>5. ASSUME NEW d \in Conn, NEW code \in RequestErrors,
             phase[d] = "reading", Reject(d, code)
      PROVE  AnswerFits(c, response)'
  <2>1. results' = results /\ audit' = audit  BY <1>5 DEF Reject
  <2>2. CASE d = c
    <3>1. response = ErrorAnswer(code)  BY <1>0, <1>5, <2>2 DEF Reject, Reply
    <3>2. response.error # NoError /\ ~response.executed
      BY <1>5, <3>1 DEF ErrorAnswer, RequestErrors, NoError
    <3>3. phase'[c] = "done"  BY <1>0, <1>5, <2>2 DEF Reject, Goto
    <3>4. ~Audited(c)'
      BY <1>3, <1>5, <2>1, <2>2, OpenUnaudited DEF SInv
    <3> QED  BY <3>2, <3>3, <3>4 DEF AnswerFits
  <2>3. CASE d # c
    <3>1. response \in answer[c] /\ phase'[c] = phase[c]
      BY <1>0, <1>5, <2>3 DEF Reject, Reply, Goto
    <3> QED  BY <1>1, <1>3, <2>1, <3>1
  <2> QED  BY <2>2, <2>3
<1>6. ASSUME NEW d \in Conn, Rejects(d) PROVE AnswerFits(c, response)'
  BY <1>5, <1>6 DEF Rejects, RejectOversized, RejectUnreadable, RejectInvalid,
                    Heard, RequestErrors
<1>7. ASSUME NEW d \in Conn, Respond(d) PROVE AnswerFits(c, response)'
  <2>1. results' = results /\ audit' = audit  BY <1>7 DEF Respond
  <2>2. CASE d = c
    <3>1. response = PlanAnswer(c)  BY <1>0, <1>7, <2>2 DEF Respond, Reply
    <3>2. PlanAnswer(c)' = PlanAnswer(c)
      BY <1>0, <2>1 DEF PlanAnswer, Executes, Plan
    <3>3. phase[c] = "acting" /\ phase'[c] = "auditing"
      BY <1>0, <1>7, <2>2 DEF Respond, AllActed, Goto
    <3>4. Len(results[c]) = Len(Plan(c).actions)
      <4>1. Len(Plan(c).actions) \in Nat  BY <3>3, ServedPlan DEF SInv, Serving
      <4>2. Len(results[c]) \in Nat  BY <1>0
      <4>3. Len(results[c]) + 1 > Len(Plan(c).actions)
        BY <1>7, <2>2 DEF Respond, AllActed, NextIndex
      <4>4. Len(results[c]) <= Len(Plan(c).actions)
        BY <3>3 DEF SInv, WithinPlan
      <4> QED  BY <4>1, <4>2, <4>3, <4>4
    <3> QED  BY <1>0, <2>1, <3>1, <3>2, <3>3, <3>4 DEF AnswerFits, Plan
  <2>3. CASE d # c
    <3>1. response \in answer[c] /\ phase'[c] = phase[c]
      BY <1>0, <1>7, <2>3 DEF Respond, Reply, Goto
    <3> QED  BY <1>1, <1>3, <2>1, <3>1
  <2> QED  BY <2>2, <2>3
<1>8. ASSUME NEW d \in Conn, AuditFails(d) PROVE AnswerFits(c, response)'
  BY <1>0, <1>1, <1>3, <1>8 DEF AuditFails, Goto, Over
<1>9. ASSUME NEW d \in Conn, AppendRecord(d) PROVE AnswerFits(c, response)'
  <2>1. answer' = answer /\ results' = results /\ phase[d] = "auditing"
    BY <1>9 DEF AppendRecord
  <2>2. CASE d = c
    BY <1>0, <1>1, <1>9, <2>1, <2>2 DEF AppendRecord, Goto, Over
  <2>3. CASE d # c
    <3>1. audit \in Seq(Records) /\ audit' = Append(audit, AuditRecord(d))
      BY <1>9 DEF AppendRecord, SInv, IInv, TypeOK
    <3>2. Audited(c)' => Audited(c)
      BY <2>3, <3>1 DEF Audited, AuditRecord
    <3>3. phase'[c] = phase[c]  BY <1>0, <1>9, <2>3 DEF AppendRecord, Goto
    <3> QED  BY <1>1, <2>1, <3>2, <3>3
  <2> QED  BY <2>2, <2>3
<1>10. CASE Crash
  <2>1. phase'[c] = phase[c] \/ (phase[c] = "auditing" /\ phase'[c] \in Over)
    BY <1>0, <1>2, <1>10 DEF Crash, Over
  <2> QED  BY <1>1, <1>3, <1>10, <2>1 DEF Crash
<1>11. CASE \/ Bystands
            \/ \E d \in Conn, i \in Nat \ {0} : Acts(d, i)
            \/ \E child \in children : ChildExits(child)
  BY <1>1, <1>3, <1>11 DEF Bystands, Acts, ChildExits
<1> QED  BY <1>4, <1>6, <1>7, <1>8, <1>9, <1>10, <1>11, Sorts DEF Stops

\* A record is made of the results that were answered, and ends its handler.
LEMMA RecordsStep == SInv /\ [Next]_vars => RecordsFit'
<1> SUFFICES ASSUME SInv, [Next]_vars PROVE RecordsFit'
  OBVIOUS
<1>0. /\ phase \in [Conn -> Phases]
      /\ results \in [Conn -> Seq(Results)]
      /\ answer \in [Conn -> SUBSET Answers]
      /\ audit \in Seq(Records)
      /\ req' = req
  BY RequestsStay DEF SInv, IInv, TypeOK
<1>1. \A n \in DOMAIN audit : audit[n].conn \in Conn
  <2>1. \A n \in DOMAIN audit : audit[n] \in Records  BY <1>0
  <2> QED  BY <2>1 DEF Records
<1>2. ASSUME audit' = audit,
             \A c \in Conn : phase[c] \in {"auditing", "done"} =>
               answer'[c] = answer[c] /\ results'[c] = results[c],
             \A c \in Conn : phase[c] = "done" => phase'[c] = "done",
             \A c \in Conn : phase'[c] = "auditing" =>
               \/ phase[c] = "auditing"
               \/ PlanAnswer(c) \in answer'[c] /\ results'[c] = results[c]
      PROVE  RecordsFit'
  <2>1. \A c \in Conn : results'[c] = results[c] =>
          PlanAnswer(c)' = PlanAnswer(c) /\ AuditRecord(c)' = AuditRecord(c)
    BY <1>0 DEF PlanAnswer, AuditRecord, Executes, Plan
  <2>2. RecordsFit  BY DEF SInv
  <2> QED  BY <1>1, <1>2, <2>1, <2>2 DEF RecordsFit
<1>3. ASSUME NEW c \in Conn, NEW result, Reports(c, result) PROVE RecordsFit'
  BY <1>0, <1>2, <1>3 DEF Reports, Push
<1>4. ASSUME NEW c \in Conn, Enters(c) \/ Stops(c) \/ Spawn(c) PROVE RecordsFit'
  BY <1>0, <1>2, <1>4
     DEF Enters, Accept, Admit, Heard, Stops, ReadFails, RespondFails, AuditFails, Spawn,
         AllActed, MayAct, Pending, Goto
<1>5. ASSUME NEW c \in Conn, Rejects(c) PROVE RecordsFit'
  BY <1>0, <1>2, <1>5
     DEF Rejects, RejectOversized, RejectUnreadable, RejectInvalid, Heard, Reject,
         Reply, Goto
<1>6. ASSUME NEW c \in Conn, Respond(c) PROVE RecordsFit'
  <2>1. PlanAnswer(c) \in answer'[c]  BY <1>0, <1>6 DEF Respond, Reply
  <2>2. phase[c] = "acting"  BY <1>6 DEF Respond, AllActed
  <2> QED  BY <1>0, <1>2, <1>6, <2>1, <2>2 DEF Respond, Reply, Goto
<1>7. ASSUME NEW c \in Conn, AppendRecord(c) PROVE RecordsFit'
  <2>1. /\ phase[c] = "auditing"
        /\ audit' = Append(audit, AuditRecord(c))
        /\ phase' = [phase EXCEPT ![c] = "done"]
        /\ UNCHANGED <<answer, results>>
    BY <1>7 DEF AppendRecord, Goto
  <2>2. \A d \in Conn : PlanAnswer(d)' = PlanAnswer(d) /\ AuditRecord(d)' = AuditRecord(d)
    BY <1>0, <2>1 DEF PlanAnswer, AuditRecord, Executes, Plan
  <2>3. \A n \in DOMAIN audit : audit[n].conn # c
    BY <2>1 DEF SInv, RecordsFit
  <2>4. AuditRecord(c).conn = c  BY DEF AuditRecord
  <2>5. /\ DOMAIN audit' = 1..Len(audit)+1 /\ DOMAIN audit = 1..Len(audit)
        /\ Len(audit) \in Nat
        /\ audit'[Len(audit)+1] = AuditRecord(c)
        /\ \A n \in 1..Len(audit) : audit'[n] = audit[n]
    BY <1>0, <2>1
  <2>6. \A n \in DOMAIN audit' :
          \/ n \in DOMAIN audit /\ audit'[n] = audit[n]
          \/ n = Len(audit) + 1 /\ audit'[n] = AuditRecord(c)
    BY <2>5
  <2>7. RecordsFit  BY DEF SInv
  <2>8. \A d \in Conn : phase'[d] = "auditing" => (PlanAnswer(d) \in answer[d])'
    BY <1>0, <2>1, <2>2, <2>7 DEF RecordsFit
  <2>9. \A n \in DOMAIN audit' :
          /\ phase'[audit'[n].conn] = "done"
          /\ (PlanAnswer(audit[n].conn) \in answer[audit[n].conn])'
          /\ audit'[n] = AuditRecord(audit[n].conn)'
    <3> SUFFICES ASSUME NEW n \in DOMAIN audit'
                 PROVE  /\ phase'[audit'[n].conn] = "done"
                        /\ (PlanAnswer(audit[n].conn) \in answer[audit[n].conn])'
                        /\ audit'[n] = AuditRecord(audit[n].conn)'
      OBVIOUS
    <3>1. CASE n \in DOMAIN audit /\ audit'[n] = audit[n]
      <4> DEFINE d == audit[n].conn
      <4>1. d \in Conn /\ d # c  BY <1>1, <2>3, <3>1
      <4>2. audit'[n].conn = d  BY <3>1
      <4>3. phase[d] = "done" /\ PlanAnswer(d) \in answer[d] /\ audit[n] = AuditRecord(d)
        BY <2>7, <3>1 DEF RecordsFit
      <4> QED  BY <1>0, <2>1, <2>2, <3>1, <4>1, <4>2, <4>3
    <3>2. CASE audit'[n] = AuditRecord(c)
      <4>1. audit'[n].conn = c  BY <2>4, <3>2
      <4>2. PlanAnswer(c) \in answer[c]  BY <2>1, <2>7 DEF RecordsFit
      <4> QED  BY <1>0, <2>1, <2>2, <3>2, <4>1, <4>2
    <3> QED  BY <2>6, <3>1, <3>2
  <2>10. \A m, n \in DOMAIN audit' : audit'[m].conn = audit'[n].conn => m = n
    BY <2>3, <2>4, <2>6, <2>7 DEF RecordsFit
  <2> QED  BY <2>8, <2>9, <2>10 DEF RecordsFit
<1>8. CASE \/ Crash \/ Bystands
           \/ \E c \in Conn, i \in Nat \ {0} : Acts(c, i)
           \/ \E child \in children : ChildExits(child)
  BY <1>0, <1>2, <1>8 DEF Crash, Bystands, Acts, ChildExits, Over
<1> QED  BY <1>3, <1>4, <1>5, <1>6, <1>7, <1>8, Sorts
-----------------------------------------------------------------------------
\* The strengthened invariant holds in every reachable state.
THEOREM ServingInvariance == Spec => []SInv
<1>1. Init => SInv
  <2>1. Init => IInv
    BY DEF Init, IInv, TypeOK, AdmittedIsValid, WaitingIsPermitted,
           OnlyPermittedEffects, UnexecutedIsNoExecution, Phases, Peers, Serving
  <2> QED  BY <2>1
           DEF Init, SInv, ActionsStartInOrder, WaitsForChild, UnreadIsUntouched,
               WithinPlan, ResultsAreTrue, AnswersFit, RecordsFit
<1>2. SInv /\ [Next]_vars => SInv'
  <2>1. IInv /\ [Next]_vars => IInv'
    BY TypeStep, AdmittedStep, WaitingStep, EffectsStep, UnexecutedStep DEF IInv
  <2> QED  BY <2>1, OrderStep, ChildStep, UnreadStep, PlanStepLength, ResultsStep,
              AnswersStep, RecordsStep DEF SInv
<1> QED  BY <1>1, <1>2, PTL DEF Spec

\* The actions of a plan start in its order, one at a time, whatever other
\* handlers, children and crashes do.
THEOREM InOrder == Spec => []ActionsStartInOrder
<1>1. SInv => ActionsStartInOrder  BY DEF SInv
<1> QED  BY <1>1, ServingInvariance, PTL

\* A response without error is a full report, one result per action in order.
THEOREM FullReports == Spec => []OneResultPerAction
<1>1. SInv => OneResultPerAction
  <2> SUFFICES ASSUME SInv, NEW c \in Conn, NEW response \in answer[c],
                      response.error = NoError
               PROVE  /\ Len(response.results) = Len(Plan(c).actions)
                      /\ \A i \in DOMAIN response.results :
                           response.results[i].kind = Plan(c).actions[i].kind
    BY DEF OneResultPerAction
  <2>1. AnswerFits(c, response)  BY DEF SInv, AnswersFit
  <2>2. response.results = results[c] /\ Len(results[c]) = Len(Plan(c).actions)
    BY <2>1 DEF AnswerFits, PlanAnswer
  <2> QED  BY <2>2 DEF SInv, ResultsAreTrue, ResultIsTrue
<1> QED  BY <1>1, ServingInvariance, PTL

\* What a client is told was done has been done.
THEOREM TruthfulReports == Spec => []ReportedMeansDone
<1>1. SInv => ReportedMeansDone
  <2> SUFFICES ASSUME SInv, NEW c \in Conn, NEW response \in answer[c],
                      response.executed, NEW i \in DOMAIN response.results
               PROVE  LET result == response.results[i] IN
                      /\ result.kind = "write_file" /\ result.ok => <<c, i>> \in touched
                      /\ result.kind \in {"exec", "observe"} /\ result.code = NoError =>
                           <<c, i>> \notin children
    BY DEF ReportedMeansDone
  <2>1. AnswerFits(c, response)  BY DEF SInv, AnswersFit
  <2>2. response = PlanAnswer(c)  BY <2>1 DEF AnswerFits
  <2>3. response.results = results[c] /\ response.executed = Executes(c)
    BY <2>2 DEF PlanAnswer
  <2> QED  BY <2>3 DEF SInv, ResultsAreTrue, ResultIsTrue
<1> QED  BY <1>1, ServingInvariance, PTL

\* What is logged is what the client was answered, once per connection.
THEOREM AuditedAsAnswered == Spec => []AuditMatchesAnswers
<1>1. SInv => AuditMatchesAnswers
  <2> SUFFICES ASSUME SInv, NEW n \in DOMAIN audit
               PROVE  [executed |-> audit[n].executed, error |-> NoError,
                       results |-> audit[n].results] \in answer[audit[n].conn]
    BY DEF AuditMatchesAnswers, SInv, RecordsFit
  <2>1. /\ PlanAnswer(audit[n].conn) \in answer[audit[n].conn]
        /\ audit[n] = AuditRecord(audit[n].conn)
    BY DEF SInv, RecordsFit
  <2> DEFINE c == audit[n].conn
  <2>2. audit[n].executed = Executes(c) /\ audit[n].results = results[c]
    BY <2>1 DEF AuditRecord
  <2> QED  BY <2>1, <2>2 DEF PlanAnswer
<1> QED  BY <1>1, ServingInvariance, PTL
-----------------------------------------------------------------------------
\* The refinement: every step of Daemon is one of PlanService or changes nothing
\* that PlanService speaks of.
LEMMA SameStatus ==
  ASSUME NEW c \in Conn, answer'[c] = answer[c], Audited(c)' <=> Audited(c),
         \/ phase'[c] = phase[c]
         \/ phase[c] \in Open /\ phase'[c] \in Open
  PROVE  Status(c)' = Status(c)
BY DEF Status, Open

\* The status of a handler that has not ended.
LEMMA OpenStatus ==
  ASSUME NEW c \in Conn
  PROVE  /\ phase[c] \in Open => Status(c) = "open"
         /\ phase[c] = "auditing" => Status(c) = "answered"
BY DEF Status, Open

\* A handler that ends where nothing tells of it has ceased.
LEMMA CeasedStatus ==
  ASSUME SInv, NEW c \in Conn, phase[c] \in Open \cup {"auditing"},
         phase'[c] \in Over, answer'[c] = answer[c], audit' = audit
  PROVE  Status(c)' = "ceased"
<1>1. ~Audited(c)'
  BY OpenUnaudited DEF SInv, Open, Audited
<1>2. \A response \in answer[c] : response.error = NoError
  BY DEF SInv, AnswersFit, AnswerFits, PlanAnswer, Open
<1> QED  BY <1>1, <1>2 DEF Status, Over

\* PlanService counts the actions that the loop goes through.
LEMMA CountedActions ==
  ASSUME IInv, NEW c \in Conn, phase[c] \in Serving
  PROVE  ActionCount[req[c]] = Len(Plan(c).actions)
BY DEF IInv, TypeOK, AdmittedIsValid, ActionCount, Plan

\* A result is a Report.
LEMMA ReportRefines ==
  ASSUME SInv, NEW c \in Conn, NEW result, Reports(c, result)
  PROVE  Service!Report(c)
<1>0. results \in [Conn -> Seq(Results)] /\ phase \in [Conn -> Phases]
  BY DEF SInv, IInv, TypeOK
<1>1. phase[c] \in Serving /\ phase[c] \in Open  BY DEF Reports, Serving, Open
<1>2. Status(c) = "open"  BY <1>1, OpenStatus
<1>3. Len(results[c]) < ActionCount[req[c]]
  <2>1. NextIndex(c) \in 1..Len(Plan(c).actions) /\ Len(Plan(c).actions) \in Nat
    BY <1>1, ServedPlan DEF SInv, Reports
  <2>2. Len(results[c]) \in Nat  BY <1>0
  <2> QED  BY <1>1, <2>1, <2>2, CountedActions DEF SInv, NextIndex
<1>4. [d \in Conn |-> Len(results'[d])] =
        [[d \in Conn |-> Len(results[d])] EXCEPT ![c] = @ + 1]
  <2>1. \A d \in Conn : Len(results'[d]) =
          IF d = c THEN Len(results[c]) + 1 ELSE Len(results[d])
    BY <1>0 DEF Reports, Push
  <2> QED  BY <2>1
<1>5. [d \in Conn |-> Status(d)'] = [d \in Conn |-> Status(d)]
  <2>1. ASSUME NEW d \in Conn PROVE Status(d)' = Status(d)
    <3>1. answer'[d] = answer[d] /\ (Audited(d)' <=> Audited(d))
      BY DEF Reports, Audited
    <3>2. phase'[d] = phase[d] \/ (phase[d] \in Open /\ phase'[d] \in Open)
      BY <1>0, <1>1 DEF Reports, Open
    <3> QED  BY <3>1, <3>2, SameStatus
  <2> QED  BY <2>1
<1>6. touched' = touched  BY DEF Reports
<1>7. req' = req /\ [n \in DOMAIN audit' |-> audit'[n].conn] =
                      [n \in DOMAIN audit |-> audit[n].conn]
  BY DEF Reports
<1> QED  BY <1>2, <1>3, <1>4, <1>5, <1>6, <1>7 DEF Service!Report

\* No status changes as long as no handler ends or answers.
LEMMA StatusStays ==
  ASSUME SInv, UNCHANGED <<answer, audit>>,
         \A c \in Conn : \/ phase'[c] = phase[c]
                         \/ phase[c] \in Open /\ phase'[c] \in Open
  PROVE  [c \in Conn |-> Status(c)'] = [c \in Conn |-> Status(c)]
<1>1. ASSUME NEW c \in Conn PROVE Status(c)' = Status(c)
  <2>1. answer'[c] = answer[c] /\ (Audited(c)' <=> Audited(c))
    BY DEF Audited
  <2> QED  BY <2>1, SameStatus
<1> QED  BY <1>1

\* A rejection refuses the request, unless nobody is there to be told.
LEMMA RejectRefines ==
  ASSUME SInv, NEW c \in Conn, Rejects(c)
  PROVE  Service!Refuse(c) \/ Service!Cease({c})
<1>0. /\ answer \in [Conn -> SUBSET Answers]
      /\ phase \in [Conn -> Phases]
  BY DEF SInv, IInv, TypeOK
<1>1. PICK code \in RequestErrors : phase[c] = "reading" /\ Reject(c, code)
  BY DEF Rejects, RejectOversized, RejectUnreadable, RejectInvalid, Heard, RequestErrors
<1>2. /\ phase' = [phase EXCEPT ![c] = "done"]
      /\ UNCHANGED <<req, results, touched, audit>>
  BY <1>1 DEF Reject, Goto
<1>3. Status(c) = "open"  BY <1>1, OpenStatus DEF Open
<1>4. ~Audited(c) /\ ~Audited(c)'
  BY <1>1, <1>2, OpenUnaudited DEF SInv, Audited
<1>5. Status(c)' = IF peer[c] = "gone" THEN "ceased" ELSE "refused"
  <2>1. phase'[c] = "done"  BY <1>0, <1>2
  <2>2. answer'[c] = IF peer[c] = "gone" THEN {} ELSE {ErrorAnswer(code)}
    BY <1>0, <1>1 DEF Reject, Reply
  <2>3. ErrorAnswer(code).error # NoError
    BY DEF ErrorAnswer, RequestErrors, NoError
  <2> QED  BY <1>4, <2>1, <2>2, <2>3 DEF Status
<1>6. \A d \in Conn : d # c => Status(d)' = Status(d)
  <2> SUFFICES ASSUME NEW d \in Conn, d # c PROVE Status(d)' = Status(d)
    OBVIOUS
  <2>1. answer'[d] = answer[d] /\ phase'[d] = phase[d]
    BY <1>0, <1>1, <1>2 DEF Reject, Reply
  <2>2. Audited(d)' <=> Audited(d)  BY <1>2 DEF Audited
  <2> QED  BY <2>1, <2>2, SameStatus
<1>7. /\ Len(results[c]) = 0
      /\ \A step \in touched : step[1] # c
  BY <1>1 DEF SInv, UnreadIsUntouched
<1>8. /\ req' = req /\ touched' = touched
      /\ [d \in Conn |-> Len(results'[d])] = [d \in Conn |-> Len(results[d])]
      /\ [n \in DOMAIN audit' |-> audit'[n].conn] = [n \in DOMAIN audit |-> audit[n].conn]
  BY <1>2
<1>9. CASE peer[c] = "gone"
  <2>1. [d \in Conn |-> Status(d)'] =
          [d \in Conn |-> IF d \in {c} THEN "ceased" ELSE [e \in Conn |-> Status(e)][d]]
    BY <1>5, <1>6, <1>9
  <2> QED  BY <1>3, <1>8, <2>1 DEF Service!Cease
<1>10. CASE peer[c] # "gone"
  <2>1. [d \in Conn |-> Status(d)'] = [[d \in Conn |-> Status(d)] EXCEPT ![c] = "refused"]
    BY <1>5, <1>6, <1>10
  <2> QED  BY <1>3, <1>7, <1>8, <2>1 DEF Service!Refuse, Service!Becomes
<1> QED  BY <1>9, <1>10

\* A response is an Answer: the loop has gone through every action.
LEMMA RespondRefines ==
  ASSUME SInv, NEW c \in Conn, Respond(c)
  PROVE  Service!Answer(c)
<1>0. /\ results \in [Conn -> Seq(Results)]
      /\ answer \in [Conn -> SUBSET Answers]
      /\ phase \in [Conn -> Phases]
  BY DEF SInv, IInv, TypeOK
<1>1. /\ phase[c] = "acting"
      /\ phase' = [phase EXCEPT ![c] = "auditing"]
      /\ UNCHANGED <<req, results, touched, audit>>
  BY DEF Respond, AllActed, Goto
<1>2. Status(c) = "open"  BY <1>1, OpenStatus DEF Open
<1>3. Status(c)' = "answered"  BY <1>0, <1>1 DEF Status
<1>4. \A d \in Conn : d # c => Status(d)' = Status(d)
  <2> SUFFICES ASSUME NEW d \in Conn, d # c PROVE Status(d)' = Status(d)
    OBVIOUS
  <2>1. answer'[d] = answer[d] /\ phase'[d] = phase[d]
    BY <1>0, <1>1 DEF Respond, Reply
  <2>2. Audited(d)' <=> Audited(d)  BY <1>1 DEF Audited
  <2> QED  BY <2>1, <2>2, SameStatus
<1>5. Len(results[c]) = ActionCount[req[c]]
  <2>1. Len(Plan(c).actions) \in Nat  BY <1>1, ServedPlan DEF SInv, Serving
  <2>2. Len(results[c]) \in Nat  BY <1>0
  <2>3. Len(results[c]) + 1 > Len(Plan(c).actions)  BY DEF Respond, AllActed, NextIndex
  <2>4. Len(results[c]) <= Len(Plan(c).actions)  BY <1>1 DEF SInv, WithinPlan
  <2>5. ActionCount[req[c]] = Len(Plan(c).actions)
    BY <1>1, CountedActions DEF SInv, Serving
  <2> QED  BY <2>1, <2>2, <2>3, <2>4, <2>5
<1>6. [d \in Conn |-> Status(d)'] = [[d \in Conn |-> Status(d)] EXCEPT ![c] = "answered"]
  BY <1>3, <1>4
<1>7. /\ [d \in Conn |-> Len(results'[d])] = [d \in Conn |-> Len(results[d])]
      /\ [n \in DOMAIN audit' |-> audit'[n].conn] = [n \in DOMAIN audit |-> audit[n].conn]
  BY <1>1
<1> QED  BY <1>1, <1>2, <1>5, <1>6, <1>7 DEF Service!Answer, Service!Becomes

\* An appended record is a Record of its connection.
LEMMA AppendRefines ==
  ASSUME SInv, NEW c \in Conn, AppendRecord(c)
  PROVE  Service!Record(c)
<1>0. phase \in [Conn -> Phases] /\ audit \in Seq(Records)
  BY DEF SInv, IInv, TypeOK
<1>1. /\ phase[c] = "auditing"
      /\ phase' = [phase EXCEPT ![c] = "done"]
      /\ audit' = Append(audit, AuditRecord(c))
      /\ UNCHANGED <<req, results, answer, touched>>
  BY DEF AppendRecord, Goto
<1>2. /\ Len(audit) \in Nat
      /\ DOMAIN audit = 1..Len(audit)
      /\ DOMAIN audit' = 1..Len(audit)+1
      /\ \A n \in 1..Len(audit) : audit'[n] = audit[n]
      /\ audit'[Len(audit)+1] = AuditRecord(c)
  BY <1>0, <1>1
<1>3. AuditRecord(c).conn = c  BY DEF AuditRecord
<1>4. Status(c) = "answered"  BY <1>1, OpenStatus
<1>5. Status(c)' = "recorded"
  <2>1. Audited(c)'  BY <1>2, <1>3 DEF Audited
  <2>2. phase'[c] = "done"  BY <1>0, <1>1
  <2> QED  BY <2>1, <2>2 DEF Status
<1>6. \A d \in Conn : d # c => Status(d)' = Status(d)
  <2> SUFFICES ASSUME NEW d \in Conn, d # c PROVE Status(d)' = Status(d)
    OBVIOUS
  <2>1. answer'[d] = answer[d] /\ phase'[d] = phase[d]  BY <1>0, <1>1
  <2>2. Audited(d)' <=> Audited(d)  BY <1>2, <1>3 DEF Audited
  <2> QED  BY <2>1, <2>2, SameStatus
<1>7. [d \in Conn |-> Status(d)'] = [[d \in Conn |-> Status(d)] EXCEPT ![c] = "recorded"]
  BY <1>5, <1>6
<1>8. [n \in DOMAIN audit' |-> audit'[n].conn] =
        Append([n \in DOMAIN audit |-> audit[n].conn], c)
  <2> DEFINE log == [n \in 1..Len(audit) |-> audit[n].conn]
             new == [n \in 1..Len(audit)+1 |-> audit'[n].conn]
  <2>1. \A n \in DOMAIN audit : audit[n].conn \in Conn
    <3>1. \A n \in DOMAIN audit : audit[n] \in Records  BY <1>0
    <3> QED  BY <3>1 DEF Records
  <2>2. log \in Seq(Conn) /\ Len(log) = Len(audit)  BY <1>2, <2>1
  <2>3. new \in Seq(Conn) /\ Len(new) = Len(audit) + 1
    BY <1>2, <1>3, <2>1
  <2>4. \A n \in 1..Len(audit)+1 : new[n] = IF n = Len(audit)+1 THEN c ELSE log[n]
    BY <1>2, <1>3
  <2> HIDE DEF log, new
  <2>5. /\ Append(log, c) \in Seq(Conn) /\ Len(Append(log, c)) = Len(audit) + 1
        /\ \A n \in 1..Len(audit)+1 : Append(log, c)[n] = new[n]
    BY <1>2, <2>2, <2>4
  <2>6. new = Append(log, c)  BY <2>3, <2>5, SeqEqual
  <2> QED  BY <1>2, <2>6 DEF log, new
<1>9. [d \in Conn |-> Len(results'[d])] = [d \in Conn |-> Len(results[d])]
  BY <1>1
<1> QED  BY <1>1, <1>4, <1>7, <1>8, <1>9 DEF Service!Record, Service!Becomes

\* Handlers that end without a word, one by ? or all in a crash, Cease.
LEMMA CeaseRefines ==
  ASSUME SInv, NEW group \in SUBSET Conn,
         \A c \in group : phase[c] \in Open \cup {"auditing"} /\ phase'[c] \in Over,
         \A c \in Conn \ group : phase'[c] = phase[c],
         UNCHANGED <<req, results, answer, touched, audit>>
  PROVE  Service!Cease(group)
<1>1. \A c \in group : Status(c) \in {"open", "answered"}  BY OpenStatus
<1>2. \A c \in group : Status(c)' = "ceased"
  <2> SUFFICES ASSUME NEW c \in group PROVE Status(c)' = "ceased"
    OBVIOUS
  <2> QED  BY CeasedStatus
<1>3. \A c \in Conn \ group : Status(c)' = Status(c)
  <2> SUFFICES ASSUME NEW c \in Conn \ group PROVE Status(c)' = Status(c)
    OBVIOUS
  <2>1. Audited(c)' <=> Audited(c)  BY DEF Audited
  <2> QED  BY <2>1, SameStatus
<1>4. [c \in Conn |-> Status(c)'] =
        [c \in Conn |-> IF c \in group THEN "ceased" ELSE [d \in Conn |-> Status(d)][c]]
  BY <1>2, <1>3
<1>5. \A c \in group : [d \in Conn |-> Status(d)][c] \in {"open", "answered"}
  BY <1>1
<1> QED  BY <1>4, <1>5 DEF Service!Cease

\* An effect, of a file or of a child process that may have outlived its
\* handler, is an Act.
LEMMA ActRefines ==
  ASSUME SInv, NEW c \in Conn, NEW i \in Nat \ {0}, Acts(c, i)
  PROVE  i \in PermittedActions[req[c]] /\ Service!Act(c, i)
<1>1. i \in PermittedActions[req[c]]  BY DEF Acts, Permitted
<1>2. i <= Len(results[c]) + 1  BY DEF Acts, NextIndex
<1>3. Status(c) # "refused"
  <2>1. \A response \in answer[c] : response.executed
    BY PermittedMeans DEF SInv, IInv, UnexecutedIsNoExecution, Acts
  <2>2. \A response \in answer[c] : response.error = NoError
    BY <2>1 DEF SInv, AnswersFit, AnswerFits, PlanAnswer
  <2> QED  BY <2>2 DEF Status
<1>4. [d \in Conn |-> Status(d)'] = [d \in Conn |-> Status(d)]
  BY StatusStays DEF Acts
<1>5. /\ touched' = touched \cup {<<c, i>>}
      /\ UNCHANGED <<req, results, audit>>
  BY DEF Acts
<1> QED  BY <1>1, <1>2, <1>3, <1>4, <1>5 DEF Service!Act

\* Accepting, admitting, spawning and exiting are not seen.
LEMMA StutterRefines ==
  ASSUME SInv, UNCHANGED <<req, results, answer, touched, audit>>,
         \A c \in Conn : \/ phase'[c] = phase[c]
                         \/ phase[c] \in Open /\ phase'[c] \in Open
  PROVE  UNCHANGED Service!vars
BY StatusStays DEF Service!vars

\* Each sort of step has its lemma.
LEMMA StepRefines == SInv /\ [Next]_vars => [Service!Next]_(Service!vars)
<1> SUFFICES ASSUME SInv, [Next]_vars PROVE [Service!Next]_(Service!vars)
  OBVIOUS
<1>0. phase \in [Conn -> Phases]  BY DEF SInv, IInv, TypeOK
<1>1. ASSUME NEW c \in Conn, NEW result, Reports(c, result) PROVE Service!Next
  BY <1>1, ReportRefines DEF Service!Next
<1>2. ASSUME NEW c \in Conn, Rejects(c) PROVE Service!Next
  BY <1>2, RejectRefines DEF Service!Next
<1>3. ASSUME NEW c \in Conn, Respond(c) PROVE Service!Next
  BY <1>3, RespondRefines DEF Service!Next
<1>4. ASSUME NEW c \in Conn, AppendRecord(c) PROVE Service!Next
  BY <1>4, AppendRefines DEF Service!Next
<1>5. ASSUME NEW c \in Conn, Stops(c) PROVE Service!Next
  <2>1. /\ phase[c] \in Open \cup {"auditing"}
        /\ phase' = [phase EXCEPT ![c] = "done"]
        /\ UNCHANGED <<req, results, answer, touched, audit>>
    BY <1>5 DEF Stops, ReadFails, RespondFails, AuditFails, AllActed, Goto, Open
  <2>2. Service!Cease({c})  BY <1>0, <2>1, CeaseRefines DEF Over
  <2> QED  BY <2>2 DEF Service!Next
<1>6. ASSUME Crash PROVE Service!Next
  <2> DEFINE group == {c \in Conn : phase[c] \notin {"fresh"} \cup Over}
  <2>1. \A c \in group : phase[c] \in Open \cup {"auditing"} /\ phase'[c] \in Over
    BY <1>0, <1>6 DEF Crash, Over, Open, Phases
  <2>2. \A c \in Conn \ group : phase'[c] = phase[c]
    BY <1>6 DEF Crash
  <2>3. UNCHANGED <<req, results, answer, touched, audit>>  BY <1>6 DEF Crash
  <2>4. group \in SUBSET Conn  OBVIOUS
  <2> HIDE DEF group
  <2>5. Service!Cease(group)  BY <2>1, <2>2, <2>3, <2>4, CeaseRefines
  <2> QED  BY <2>4, <2>5 DEF Service!Next
<1>7. ASSUME NEW c \in Conn, NEW i \in Nat \ {0}, Acts(c, i) PROVE Service!Next
  BY <1>7, ActRefines DEF Service!Next
<1>8. ASSUME NEW c \in Conn, Enters(c) \/ Spawn(c) PROVE UNCHANGED Service!vars
  <2>1. /\ UNCHANGED <<req, results, answer, touched, audit>>
        /\ \A d \in Conn : \/ phase'[d] = phase[d]
                           \/ phase[d] \in Open /\ phase'[d] \in Open
    BY <1>0, <1>8 DEF Enters, Accept, Admit, Heard, Spawn, MayAct, Pending, Goto, Open
  <2> QED  BY <2>1, StutterRefines
<1>9. ASSUME Bystands \/ \E child \in children : ChildExits(child)
      PROVE  UNCHANGED Service!vars
  <2>1. UNCHANGED <<phase, req, results, answer, touched, audit>>
    BY <1>9 DEF Bystands, ChildExits
  <2> QED  BY <2>1, StutterRefines
<1> QED  BY <1>1, <1>2, <1>3, <1>4, <1>5, <1>6, <1>7, <1>8, <1>9, Sorts

\* The daemon starts where PlanService starts.
LEMMA InitRefines == Init => Service!Init
<1> SUFFICES ASSUME Init PROVE Service!Init
  OBVIOUS
<1>1. \A c \in Conn : Len(results[c]) = 0 /\ Status(c) = "open"
  BY DEF Init, Status
<1>2. [n \in DOMAIN audit |-> audit[n].conn] = <<>>
  BY DEF Init
<1>3. req \in [Conn -> Requests] /\ touched = {}  BY DEF Init
<1> QED  BY <1>1, <1>2, <1>3 DEF Service!Init

\* The daemon keeps the promise of PlanService through faults of every kind,
\* with any number of clients and for any requests.
THEOREM Implementation == Spec => ServesPlans
<1> QED  BY InitRefines, StepRefines, ServingInvariance, PTL
         DEF Spec, ServesPlans, Service!Spec
=============================================================================
