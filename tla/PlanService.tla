----------------------------- MODULE PlanService -----------------------------
(***************************************************************************)
(* What llm-osd promises a client, without handlers, processes or policy:  *)
(* a request is refused as a whole, or its actions are reported one by     *)
(* one, in order and never twice; only allowed actions have an effect, and *)
(* none before its turn; a full report is answered, and what is logged has *)
(* been answered.  Daemon implements this.                                 *)
(*                                                                         *)
(* An effect may come late: an action may outlive its report.              *)
(***************************************************************************)
EXTENDS Integers, Sequences

CONSTANTS
  Conn,
  Request,    \* what may be asked for
  Size,       \* Size[r]: how many actions r asks for
  Allowed     \* Allowed[r]: which of them may have an effect

VARIABLES
  asked,      \* asked[c]: the request of c
  reported,   \* reported[c]: how many of them have a result
  effects,    \* actions that have had an effect, as <<connection, action>>
  status,     \* status[c]: what became of the request
  log         \* whose reports have been logged

vars == <<asked, reported, effects, status, log>>

Init ==
  /\ asked \in [Conn -> Request]
  /\ reported = [c \in Conn |-> 0]
  /\ effects = {}
  /\ status = [c \in Conn |-> "open"]
  /\ log = <<>>

Becomes(c, new) == status' = [status EXCEPT ![c] = new]

\* The action at hand, or one that has been reported, has an effect.
Act(c, i) ==
  /\ status[c] # "refused"
  /\ i \in Allowed[asked[c]] /\ i <= reported[c] + 1
  /\ effects' = effects \cup {<<c, i>>}
  /\ UNCHANGED <<asked, reported, status, log>>

\* The action at hand gets its result.
Report(c) ==
  /\ status[c] = "open" /\ reported[c] < Size[asked[c]]
  /\ reported' = [reported EXCEPT ![c] = @ + 1]
  /\ UNCHANGED <<asked, effects, status, log>>

Refuse(c) ==
  /\ status[c] = "open" /\ reported[c] = 0
  /\ \A step \in effects : step[1] # c
  /\ Becomes(c, "refused")
  /\ UNCHANGED <<asked, reported, effects, log>>

Answer(c) ==
  /\ status[c] = "open" /\ reported[c] = Size[asked[c]]
  /\ Becomes(c, "answered")
  /\ UNCHANGED <<asked, reported, effects, log>>

Record(c) ==
  /\ status[c] = "answered"
  /\ Becomes(c, "recorded")
  /\ log' = Append(log, c)
  /\ UNCHANGED <<asked, reported, effects>>

\* Some requests, or all at once, get no further.
Cease(group) ==
  /\ \A c \in group : status[c] \in {"open", "answered"}
  /\ status' = [c \in Conn |-> IF c \in group THEN "ceased" ELSE status[c]]
  /\ UNCHANGED <<asked, reported, effects, log>>

Next ==
  \/ \E c \in Conn :
       \/ \E i \in Allowed[asked[c]] : Act(c, i)
       \/ Report(c) \/ Refuse(c) \/ Answer(c) \/ Record(c)
  \/ \E group \in SUBSET Conn : Cease(group)

Spec == Init /\ [][Next]_vars
=============================================================================
