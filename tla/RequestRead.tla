----------------------------- MODULE RequestRead -----------------------------
(***************************************************************************)
(* How handle_client (llm-osd/src/server.rs) collects the bytes of one     *)
(* request: a loop of reads into a fixed buffer, each under an idle        *)
(* timeout, into an input that may not exceed MAX_REQUEST_BYTES.           *)
(*                                                                         *)
(* A byte is known by its position in what the client sends, so that the   *)
(* input shows which bytes it was made of.                                 *)
(***************************************************************************)
EXTENDS Integers, Sequences

CONSTANTS
  MaxRequest,   \* MAX_REQUEST_BYTES
  BufBytes,     \* the size of buf
  SocketBytes   \* what the socket holds before the client's write blocks

ASSUME SizesAssumption ==
  MaxRequest \in Nat /\ BufBytes \in Nat \ {0} /\ SocketBytes \in Nat \ {0}

VARIABLES
  pending,    \* bytes sent and not read yet
  closed,     \* the client has shut down its sending side
  taken,      \* history: bytes read, counted up to one past the limit
  input, exceeded, idle,     \* the locals of handle_client
  phase       \* "reading", or what came of it

vars == <<pending, closed, taken, input, exceeded, idle, phase>>

Outcomes == {"too_large", "timed_out", "parse", "failed"}

Smaller(m, n) == IF m <= n THEN m ELSE n

Init ==
  /\ pending = 0 /\ taken = 0
  /\ closed = FALSE
  /\ input = <<>> /\ exceeded = FALSE /\ idle = FALSE
  /\ phase = "reading"

\* The client: it sends in pieces of any size, pauses, and closes or does not.
Send(n) ==
  /\ ~closed /\ phase = "reading"
  /\ pending + n <= SocketBytes
  /\ pending' = pending + n
  /\ UNCHANGED <<closed, taken, input, exceeded, idle, phase>>

Close ==
  /\ ~closed /\ phase = "reading"
  /\ closed' = TRUE
  /\ UNCHANGED <<pending, taken, input, exceeded, idle, phase>>
-----------------------------------------------------------------------------
\* n bytes come out of the socket.
Take(n) ==
  /\ phase = "reading"
  /\ pending' = pending - n
  /\ taken' = Smaller(taken + n, MaxRequest + 1)

\* A wrong Positions, which appends the chunk one byte too early.
PositionsOffByOne(n) == [i \in 1..n |-> taken + i - 1]

Positions(n) == [i \in 1..n |-> taken + i]

\* A wrong Read, which forgets that a chunk has already been dropped.
ReadOnlyFitting(n) ==
  /\ Take(n)
  /\ LET fits == Len(input) + n <= MaxRequest
     IN  /\ exceeded' = (exceeded \/ ~fits)
         /\ input' = IF fits THEN input \o Positions(n) ELSE input
  /\ UNCHANGED <<closed, idle, phase>>

\* A wrong Read, which does not allow a request of exactly the limit.
ReadBelowLimit(n) ==
  /\ Take(n)
  /\ LET fits == ~exceeded /\ Len(input) + n < MaxRequest
     IN  /\ exceeded' = ~fits
         /\ input' = IF fits THEN input \o Positions(n) ELSE input
  /\ UNCHANGED <<closed, idle, phase>>

\* Another, which stops reading at the limit.
ReadUpToLimit(n) ==
  /\ Take(n)
  /\ LET fits == Len(input) + n <= MaxRequest
     IN  /\ exceeded' = ~fits
         /\ input' = IF fits THEN input \o Positions(n) ELSE input
         /\ phase' = IF fits THEN phase ELSE "too_large"
  /\ UNCHANGED <<closed, idle>>

\* One round of the loop: once a chunk did not fit, the rest is drained.
Read(n) ==
  /\ Take(n)
  /\ LET fits == ~exceeded /\ Len(input) + n <= MaxRequest
     IN  /\ exceeded' = ~fits
         /\ input' = IF fits THEN input \o Positions(n) ELSE input
  /\ UNCHANGED <<closed, idle, phase>>

\* What follows the loop.
Outcome(timedOut) ==
  IF exceeded THEN "too_large"
  ELSE IF timedOut /\ input = <<>> THEN "timed_out"
  ELSE "parse"

\* n == 0
EndOfInput ==
  /\ phase = "reading" /\ closed /\ pending = 0
  /\ phase' = Outcome(FALSE)
  /\ UNCHANGED <<pending, closed, taken, input, exceeded, idle>>

\* A wrong IdleTimeout, which only guards the first read.
FirstReadTimeout ==
  /\ phase = "reading" /\ ~closed /\ pending = 0 /\ taken = 0
  /\ idle' = TRUE
  /\ phase' = Outcome(TRUE)
  /\ UNCHANGED <<pending, closed, taken, input, exceeded>>

\* The timeout elapses while stream.read has nothing to return.
IdleTimeout ==
  /\ phase = "reading" /\ ~closed /\ pending = 0
  /\ idle' = TRUE
  /\ phase' = Outcome(TRUE)
  /\ UNCHANGED <<pending, closed, taken, input, exceeded>>

ReadFails ==
  /\ phase = "reading"
  /\ phase' = "failed"
  /\ UNCHANGED <<pending, closed, taken, input, exceeded, idle>>

\* handle_client has moved on.
Over == phase \in Outcomes /\ UNCHANGED vars

ReadSome == \E n \in 1..Smaller(pending, BufBytes) : Read(n)

Next ==
  \/ \E n \in 1..SocketBytes : Send(n)
  \/ Close \/ ReadSome \/ EndOfInput \/ IdleTimeout \/ ReadFails \/ Over

\* The runtime polls a read that can go on, and its timer fires; the client is
\* bound to nothing.
Fairness == WF_vars(ReadSome) /\ WF_vars(EndOfInput) /\ WF_vars(IdleTimeout)

Spec     == Init /\ [][Next]_vars
FairSpec == Spec /\ Fairness
-----------------------------------------------------------------------------
CountsOK ==
  /\ pending \in 0..SocketBytes
  /\ taken \in 0..(MaxRequest + 1)
  /\ input \in Seq(1..MaxRequest)

FlagsOK ==
  /\ closed \in BOOLEAN /\ exceeded \in BOOLEAN /\ idle \in BOOLEAN
  /\ phase \in {"reading"} \cup Outcomes

TypeOK == CountsOK /\ FlagsOK

\* The input never has a hole: it is made of the first bytes the client sent,
\* in order, also after chunks have been dropped.
InputIsAPrefix ==
  \A i \in DOMAIN input : input[i] = i

\* Nothing is cut off silently: a request is rejected as too large exactly when
\* more than the limit was read, and otherwise the parser gets every byte read.
LimitIsExact ==
  /\ phase = "too_large" => taken > MaxRequest
  /\ phase \in {"parse", "timed_out"} => taken = Len(input)

\* The read loop ends without the client closing: unless the client sends
\* something again and again.
ReadingEnds ==
  \/ <>(phase # "reading")
  \/ []<><<\E n \in 1..SocketBytes : Send(n)>>_vars
=============================================================================
