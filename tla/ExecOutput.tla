----------------------------- MODULE ExecOutput -----------------------------
(***************************************************************************)
(* One subprocess and its output (llm-osd/src/actions/exec.rs): two pipes, *)
(* read to their ends concurrently while the daemon waits for the child,   *)
(* all of it under one timeout.                                            *)
(*                                                                         *)
(* A pipe ends when its last writer is gone, and the child passes its ends *)
(* on to every process it forks.  A process that writes into a full pipe   *)
(* is held until the daemon reads.  Bytes are counted: nothing the         *)
(* properties say depends on their values.                                 *)
(***************************************************************************)
EXTENDS Naturals, FiniteSets

CONSTANTS
  Processes,   \* the child and its descendants
  Child,       \* the process the daemon spawned
  PipeBytes,   \* what a pipe holds
  MaxStdio,    \* MAX_STDIO_BYTES
  MaxPrinted   \* bound: bytes all processes write to one pipe

ASSUME SizesAssumption ==
  /\ Child \in Processes
  /\ PipeBytes \in Nat \ {0} /\ MaxStdio \in Nat /\ MaxPrinted \in Nat

Streams == {"stdout", "stderr"}

VARIABLES
  running,    \* processes that run
  holds,      \* holds[p]: the pipes p has a writing end of
  writing,    \* writing[p]: the pipe p is in a write(2) to, as a set
  printed,    \* printed[s]: bytes that went into the pipe
  collected,  \* collected[s]: bytes the daemon has read of them
  status,     \* how the child exited, as a set
  phase,      \* "waiting" in cmd.output(), or what it came to
  result      \* the ExecResult, as a set

vars == <<running, holds, writing, printed, collected, status, phase, result>>

Statuses == {"zero", "nonzero", "signal"}

\* The program has been spawned with both pipes.
Init ==
  /\ running = {Child}
  /\ holds = [p \in Processes |-> IF p = Child THEN Streams ELSE {}]
  /\ writing = [p \in Processes |-> {}]
  /\ printed = [s \in Streams |-> 0] /\ collected = [s \in Streams |-> 0]
  /\ status = {} /\ phase = "waiting" /\ result = {}
-----------------------------------------------------------------------------
\* The processes.

Free(p) == p \in running /\ writing[p] = {}

Forks(p) ==
  /\ Free(p)
  /\ \E q \in Processes \ (running \cup {Child}) :
       /\ running' = running \cup {q}
       /\ holds' = [holds EXCEPT ![q] = holds[p]]
  /\ UNCHANGED <<writing, printed, collected, status, phase, result>>

\* It redirects its output elsewhere.
Closes(p, s) ==
  /\ Free(p) /\ s \in holds[p]
  /\ holds' = [holds EXCEPT ![p] = @ \ {s}]
  /\ UNCHANGED <<running, writing, printed, collected, status, phase, result>>

BeginsToWrite(p, s) ==
  /\ Free(p) /\ s \in holds[p]
  /\ printed[s] + Cardinality({q \in Processes : s \in writing[q]}) < MaxPrinted
  /\ writing' = [writing EXCEPT ![p] = {s}]
  /\ UNCHANGED <<running, holds, printed, collected, status, phase, result>>

\* A byte goes into the pipe when there is room for it.
Prints(p) ==
  /\ \E s \in writing[p] :
       /\ phase = "waiting" /\ printed[s] - collected[s] < PipeBytes
       /\ printed' = [printed EXCEPT ![s] = @ + 1]
  /\ writing' = [writing EXCEPT ![p] = {}]
  /\ UNCHANGED <<running, holds, collected, status, phase, result>>

\* The daemon has closed its ends: EPIPE, or SIGPIPE.
BreaksOff(p) ==
  /\ writing[p] # {} /\ phase # "waiting"
  /\ writing' = [writing EXCEPT ![p] = {}]
  /\ UNCHANGED <<running, holds, printed, collected, status, phase, result>>

\* It ends, or is killed, if need be in the middle of a write.
Exits(p) ==
  /\ p \in running
  /\ running' = running \ {p}
  /\ holds' = [holds EXCEPT ![p] = {}] /\ writing' = [writing EXCEPT ![p] = {}]
  /\ IF p = Child THEN \E how \in IF Free(p) THEN Statuses ELSE {"signal"} :
                         status' = {how}
                  ELSE status' = status
  /\ UNCHANGED <<printed, collected, phase, result>>
-----------------------------------------------------------------------------
\* The daemon in timeout(.., cmd.output()).

Ended(s) == collected[s] = printed[s] /\ \A p \in Processes : s \notin holds[p]

\* A wrong Collects, which reads stdout to its end and then stderr.
CollectsInTurn(s) ==
  /\ phase = "waiting" /\ collected[s] < printed[s]
  /\ s = "stderr" => Ended("stdout")
  /\ collected' = [collected EXCEPT ![s] = @ + 1]
  /\ UNCHANGED <<running, holds, writing, printed, status, phase, result>>

\* Another, which reads no further than is shown.
CollectsUpToLimit(s) ==
  /\ phase = "waiting" /\ collected[s] < printed[s] /\ collected[s] < MaxStdio
  /\ collected' = [collected EXCEPT ![s] = @ + 1]
  /\ UNCHANGED <<running, holds, writing, printed, status, phase, result>>

\* Both pipes are read as they fill.
Collects(s) ==
  /\ phase = "waiting" /\ collected[s] < printed[s]
  /\ collected' = [collected EXCEPT ![s] = @ + 1]
  /\ UNCHANGED <<running, holds, writing, printed, status, phase, result>>

\* A wrong Shown, whose flag is set by an output of exactly the limit.
ShownBelowLimit(n) ==
  [bytes |-> IF n < MaxStdio THEN n ELSE MaxStdio, truncated |-> n >= MaxStdio]

\* truncate_bytes
Shown(n) ==
  [bytes |-> IF n <= MaxStdio THEN n ELSE MaxStdio, truncated |-> n > MaxStdio]

\* A wrong AllIsSaid, which does not wait for the ends of the pipes.
AllIsSaidByChild == status # {}

\* The child has exited and both pipes have ended.
AllIsSaid == status # {} /\ \A s \in Streams : Ended(s)

\* An ExecResult with an error has no output, whatever was collected.
ErrorResult(code) ==
  [ok |-> FALSE, exit_code |-> {}, error |-> code,
   shown |-> [s \in Streams |-> Shown(0)]]

Ends(how, r) ==
  /\ phase = "waiting"
  /\ phase' = how /\ result' = {r}
  /\ UNCHANGED <<running, holds, writing, printed, collected, status>>

Returns ==
  /\ AllIsSaid
  /\ Ends("output",
          [ok        |-> status = {"zero"},
           exit_code |-> status \ {"signal"},
           error     |-> "none",
           shown     |-> [s \in Streams |-> Shown(collected[s])]])

\* The wait, or a read of a pipe, fails.
WaitFails == Ends("exec_failed", ErrorResult("exec_failed"))

\* The future is dropped: both pipes are closed, what they gave is dropped, and
\* no process is killed.
TimesOut == Ends("exec_timed_out", ErrorResult("exec_timed_out"))

\* The daemon is through, and what still runs may do so for ever.
Over == phase # "waiting" /\ UNCHANGED vars

Next ==
  \/ \E p \in Processes :
       \/ Forks(p) \/ Prints(p) \/ BreaksOff(p) \/ Exits(p)
       \/ \E s \in Streams : Closes(p, s) \/ BeginsToWrite(p, s)
  \/ \E s \in Streams : Collects(s)
  \/ Returns \/ WaitFails \/ TimesOut \/ Over

\* The runtime reads what a pipe has and ends when all is said, the kernel lets
\* a write go on; processes are bound to nothing else.  The timer is left out
\* here, so that what holds does not hold by waiting for it.
Fairness ==
  /\ \A s \in Streams : WF_vars(Collects(s))
  /\ \A p \in Processes : WF_vars(Prints(p)) /\ WF_vars(BreaksOff(p))
  /\ WF_vars(Returns)

Spec     == Init /\ [][Next]_vars
FairSpec == Spec /\ Fairness
-----------------------------------------------------------------------------
Results ==
  [ok : BOOLEAN, exit_code : SUBSET Statuses,
   error : {"none", "exec_failed", "exec_timed_out"},
   shown : [Streams -> [bytes : 0..MaxStdio, truncated : BOOLEAN]]]

\* Types; a pipe never holds more than it can.
TypeOK ==
  /\ running \subseteq Processes
  /\ holds \in [Processes -> SUBSET Streams]
  /\ writing \in [Processes -> SUBSET Streams]
  /\ printed \in [Streams -> Nat]
  /\ collected \in [Streams -> Nat]
  /\ \A s \in Streams : printed[s] - collected[s] \in 0..PipeBytes
  /\ status \in SUBSET Statuses
  /\ phase \in {"waiting", "output", "exec_failed", "exec_timed_out"}
  /\ result \in SUBSET Results

\* An answer with output tells everything that the child and all that inherited
\* its pipes have printed and will ever print, up to the limit, and says
\* truncated exactly when that is not all.
ResultTellsAll ==
  \A r \in result : r.error = "none" =>
    \A s \in Streams :
      /\ r.shown[s].truncated <=> printed[s] > MaxStdio
      /\ r.shown[s].bytes = IF printed[s] > MaxStdio THEN MaxStdio ELSE printed[s]

\* Only an error cuts off a process that is still writing: after an answer with
\* output nobody is left who could write to it.
NobodyIsCutOff ==
  phase = "output" => \A p \in Processes : holds[p] = {} /\ writing[p] = {}

\* Whatever the pipes hold and in whatever order they fill, a process that
\* writes gets on while the daemon waits, without the help of the timer.
WritersGetOn ==
  \A p \in Processes : writing[p] # {} ~> writing[p] = {}

\* Once the child is gone the daemon waits only for those that still have its
\* pipes: when nobody has, the wait ends without the help of the timer, however
\* much was printed before.
WaitsOnlyForHolders ==
  (status # {} /\ \A p \in Processes : holds[p] = {}) ~> phase # "waiting"
=============================================================================
