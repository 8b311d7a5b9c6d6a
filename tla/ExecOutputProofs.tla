-------------------------- MODULE ExecOutputProofs --------------------------
(***************************************************************************)
(* Proofs about module ExecOutput, for any processes, pipes and limits.    *)
(*                                                                         *)
(* What an answer tells about the future rests on who can still write: a   *)
(* process writes only to a pipe it holds, and gets a pipe only from one   *)
(* that holds it.  Once nobody holds a pipe, nobody ever will.             *)
(***************************************************************************)
EXTENDS ExecOutput, TLAPS

\* A process without an end of a pipe is not writing to it, and one that does
\* not run writes to none.
WritersHoldTheirPipes ==
  \A p \in Processes :
    /\ writing[p] \subseteq holds[p]
    /\ writing[p] # {} => p \in running

\* cmd.output() has returned only when both pipes were read to their ends.
OutputIsComplete ==
  phase = "output" => AllIsSaid

\* An answer that is no error is the one for what was collected.
AnswerShowsCollected ==
  \A r \in result :
    /\ phase # "waiting"
    /\ r.error = "none" =>
         phase = "output" /\ r.shown = [s \in Streams |-> Shown(collected[s])]

OInv ==
  /\ TypeOK
  /\ WritersHoldTheirPipes
  /\ OutputIsComplete
  /\ AnswerShowsCollected
-----------------------------------------------------------------------------
\* What is shown has the type of an answer's output.
LEMMA ShownType ==
  ASSUME NEW n \in Nat
  PROVE  Shown(n) \in [bytes : 0..MaxStdio, truncated : BOOLEAN]
BY SizesAssumption DEF Shown

\* An error result is a result.
LEMMA ErrorResultType ==
  ASSUME NEW code \in {"exec_failed", "exec_timed_out"}
  PROVE  ErrorResult(code) \in Results
<1>1. [s \in Streams |-> Shown(0)]
        \in [Streams -> [bytes : 0..MaxStdio, truncated : BOOLEAN]]
  BY ShownType
<1>2. QED
  BY <1>1 DEF ErrorResult, Results

\* So is the answer with the output.
LEMMA OutputResultType ==
  ASSUME TypeOK
  PROVE  [ok        |-> status = {"zero"},
          exit_code |-> status \ {"signal"},
          error     |-> "none",
          shown     |-> [s \in Streams |-> Shown(collected[s])]] \in Results
<1>1. [s \in Streams |-> Shown(collected[s])]
        \in [Streams -> [bytes : 0..MaxStdio, truncated : BOOLEAN]]
  BY ShownType DEF TypeOK
<1>2. status \ {"signal"} \in SUBSET Statuses
  BY DEF TypeOK
<1>3. QED
  BY <1>1, <1>2 DEF Results

\* Every step keeps the types, and no pipe ever holds more than it can.
LEMMA TypeStep ==
  ASSUME TypeOK, [Next]_vars
  PROVE  TypeOK'
<1> USE DEF TypeOK
<1>1. ASSUME NEW p \in Processes, Forks(p)  PROVE TypeOK'
  BY <1>1 DEF Forks, Free
<1>2. ASSUME NEW p \in Processes, Prints(p)  PROVE TypeOK'
  <2>1. PICK s \in writing[p] : /\ phase = "waiting"
                                /\ printed[s] - collected[s] < PipeBytes
                                /\ printed' = [printed EXCEPT ![s] = @ + 1]
    BY <1>2 DEF Prints
  <2>2. s \in Streams /\ printed[s] \in Nat /\ collected[s] \in Nat
    BY <2>1
  <2>3. printed' \in [Streams -> Nat]
    BY <2>1, <2>2
  <2>4. \A t \in Streams : printed'[t] - collected[t] \in 0..PipeBytes
    BY <2>1, <2>2, SizesAssumption
  <2>5. QED
    BY <1>2, <2>3, <2>4 DEF Prints
<1>3. ASSUME NEW p \in Processes, BreaksOff(p)  PROVE TypeOK'
  BY <1>3 DEF BreaksOff
<1>4. ASSUME NEW p \in Processes, Exits(p)  PROVE TypeOK'
  <2>1. status' \in SUBSET Statuses
    BY <1>4 DEF Exits, Statuses
  <2>2. QED
    BY <1>4, <2>1 DEF Exits
<1>5. ASSUME NEW p \in Processes, NEW s \in Streams, Closes(p, s)  PROVE TypeOK'
  BY <1>5 DEF Closes
<1>6. ASSUME NEW p \in Processes, NEW s \in Streams, BeginsToWrite(p, s)
      PROVE TypeOK'
  BY <1>6 DEF BeginsToWrite
<1>7. ASSUME NEW s \in Streams, Collects(s)  PROVE TypeOK'
  <2>1. \A t \in Streams : printed[t] - collected'[t] \in 0..PipeBytes
    BY <1>7, SizesAssumption DEF Collects
  <2>2. QED
    BY <1>7, <2>1 DEF Collects
<1>8. CASE Returns
  BY <1>8, OutputResultType DEF Returns, Ends
<1>9. CASE WaitFails
  BY <1>9, ErrorResultType DEF WaitFails, Ends
<1>10. CASE TimesOut
  BY <1>10, ErrorResultType DEF TimesOut, Ends
<1>11. CASE UNCHANGED vars
  BY <1>11 DEF vars
<1>12. QED
  BY <1>1, <1>2, <1>3, <1>4, <1>5, <1>6, <1>7, <1>8, <1>9, <1>10, <1>11
     DEF Next, Over

\* Every step keeps who may write.
LEMMA WritersStep ==
  ASSUME TypeOK, WritersHoldTheirPipes, [Next]_vars
  PROVE  WritersHoldTheirPipes'
<1> USE DEF WritersHoldTheirPipes, TypeOK
<1>1. ASSUME NEW p \in Processes, Forks(p)  PROVE WritersHoldTheirPipes'
  BY <1>1 DEF Forks, Free
<1>2. ASSUME NEW p \in Processes, Prints(p)  PROVE WritersHoldTheirPipes'
  BY <1>2 DEF Prints
<1>3. ASSUME NEW p \in Processes, BreaksOff(p)  PROVE WritersHoldTheirPipes'
  BY <1>3 DEF BreaksOff
<1>4. ASSUME NEW p \in Processes, Exits(p)  PROVE WritersHoldTheirPipes'
  BY <1>4 DEF Exits, Free
<1>5. ASSUME NEW p \in Processes, NEW s \in Streams, Closes(p, s)
      PROVE WritersHoldTheirPipes'
  BY <1>5 DEF Closes, Free
<1>6. ASSUME NEW p \in Processes, NEW s \in Streams, BeginsToWrite(p, s)
      PROVE WritersHoldTheirPipes'
  BY <1>6 DEF BeginsToWrite, Free
<1>7. ASSUME NEW s \in Streams, Collects(s)  PROVE WritersHoldTheirPipes'
  BY <1>7 DEF Collects
<1>8. ASSUME NEW how, NEW r, Ends(how, r)  PROVE WritersHoldTheirPipes'
  BY <1>8 DEF Ends
<1>9. CASE UNCHANGED vars
  BY <1>9 DEF vars
<1>10. QED
  BY <1>1, <1>2, <1>3, <1>4, <1>5, <1>6, <1>7, <1>8, <1>9
     DEF Next, Over, Returns, WaitFails, TimesOut

\* Every step keeps that output is complete: after it nobody holds a pipe, and
\* only a holder passes one on or writes.
LEMMA CompleteStep ==
  ASSUME TypeOK, WritersHoldTheirPipes, OutputIsComplete, [Next]_vars
  PROVE  OutputIsComplete'
<1> USE DEF OutputIsComplete, AllIsSaid, Ended, TypeOK
<1>1. ASSUME NEW p \in Processes, Forks(p)  PROVE OutputIsComplete'
  BY <1>1 DEF Forks
<1>2. ASSUME NEW p \in Processes, Prints(p)  PROVE OutputIsComplete'
  BY <1>2 DEF Prints
<1>3. ASSUME NEW p \in Processes, BreaksOff(p)  PROVE OutputIsComplete'
  BY <1>3 DEF BreaksOff
<1>4. ASSUME NEW p \in Processes, Exits(p)  PROVE OutputIsComplete'
  <2>1. status # {} => status' # {}
    BY <1>4 DEF Exits
  <2>2. QED
    BY <1>4, <2>1 DEF Exits
<1>5. ASSUME NEW p \in Processes, NEW s \in Streams, Closes(p, s)
      PROVE OutputIsComplete'
  BY <1>5 DEF Closes
<1>6. ASSUME NEW p \in Processes, NEW s \in Streams, BeginsToWrite(p, s)
      PROVE OutputIsComplete'
  BY <1>6 DEF BeginsToWrite
<1>7. ASSUME NEW s \in Streams, Collects(s)  PROVE OutputIsComplete'
  BY <1>7 DEF Collects
<1>8. CASE Returns
  BY <1>8 DEF Returns, Ends
<1>9. ASSUME WaitFails \/ TimesOut  PROVE OutputIsComplete'
  BY <1>9 DEF WaitFails, TimesOut, Ends
<1>10. CASE UNCHANGED vars
  BY <1>10 DEF vars
<1>11. QED
  BY <1>1, <1>2, <1>3, <1>4, <1>5, <1>6, <1>7, <1>8, <1>9, <1>10
     DEF Next, Over

\* Every step keeps what the answer shows: after it nothing is collected.
LEMMA ShowsStep ==
  ASSUME TypeOK, AnswerShowsCollected, [Next]_vars
  PROVE  AnswerShowsCollected'
<1> USE DEF AnswerShowsCollected
<1>1. ASSUME NEW s \in Streams, Collects(s)  PROVE AnswerShowsCollected'
  BY <1>1 DEF Collects
<1>2. CASE Returns
  BY <1>2 DEF Returns, Ends
<1>3. CASE WaitFails
  BY <1>3 DEF WaitFails, Ends, ErrorResult
<1>4. CASE TimesOut
  BY <1>4 DEF TimesOut, Ends, ErrorResult
<1>5. ASSUME UNCHANGED <<collected, phase, result>>
      PROVE AnswerShowsCollected'
  BY <1>5
<1>6. QED
  BY <1>1, <1>2, <1>3, <1>4, <1>5
     DEF Next, Over, vars, Forks, Closes, BeginsToWrite, Prints, BreaksOff, Exits

\* The conjunction is inductive.
LEMMA OInvStep == OInv /\ [Next]_vars => OInv'
BY TypeStep, WritersStep, CompleteStep, ShowsStep DEF OInv

\* It holds when the program has been spawned.
LEMMA OInvInit == Init => OInv
<1>1. Init => TypeOK
  BY SizesAssumption DEF Init, TypeOK
<1>2. Init => WritersHoldTheirPipes /\ OutputIsComplete /\ AnswerShowsCollected
  BY DEF Init, WritersHoldTheirPipes, OutputIsComplete, AnswerShowsCollected
<1>3. QED
  BY <1>1, <1>2 DEF OInv
-----------------------------------------------------------------------------
\* Every variable keeps its type, and no pipe holds more than it can, for any
\* number of processes.
THEOREM TypeCorrectness == Spec => []TypeOK
<1>1. OInv => TypeOK
  BY DEF OInv
<1>2. QED
  BY <1>1, OInvInit, OInvStep, PTL DEF Spec

\* An answer with output tells all that is ever printed into the pipes, up to
\* the limit, with the right flag, whatever the limit and whoever prints.
THEOREM AnswersTellAll == Spec => []ResultTellsAll
<1>1. OInv => ResultTellsAll
  <2>1. SUFFICES ASSUME OInv, NEW r \in result, r.error = "none",
                        NEW s \in Streams
                 PROVE  /\ r.shown[s].truncated <=> printed[s] > MaxStdio
                        /\ r.shown[s].bytes = IF printed[s] > MaxStdio
                                              THEN MaxStdio ELSE printed[s]
    BY DEF ResultTellsAll
  <2>2. r.shown[s] = Shown(collected[s])
    BY <2>1 DEF OInv, AnswerShowsCollected
  <2>3. collected[s] = printed[s] /\ printed[s] \in Nat
    BY <2>1 DEF OInv, AnswerShowsCollected, OutputIsComplete, AllIsSaid, Ended,
                TypeOK
  <2>4. /\ r.shown[s].truncated = (printed[s] > MaxStdio)
        /\ r.shown[s].bytes = IF printed[s] <= MaxStdio THEN printed[s] ELSE MaxStdio
    BY <2>2, <2>3 DEF Shown
  <2>5. r.shown[s].truncated <=> printed[s] > MaxStdio
    BY <2>4, Zenon
  <2>6. QED
    BY <2>3, <2>4, <2>5, SizesAssumption
<1>2. QED
  BY <1>1, OInvInit, OInvStep, PTL DEF Spec

\* After an answer with output no process can write to a pipe of the child.
THEOREM NobodyCutOff == Spec => []NobodyIsCutOff
<1>1. OInv => NobodyIsCutOff
  BY DEF OInv, TypeOK, WritersHoldTheirPipes, OutputIsComplete, AllIsSaid, Ended,
         NobodyIsCutOff
<1>2. QED
  BY <1>1, OInvInit, OInvStep, PTL DEF Spec
=============================================================================
