------------------------------ MODULE AuditLog ------------------------------
(***************************************************************************)
(* How audit records get into the log file (llm-osd/src/audit.rs), byte by *)
(* byte.                                                                   *)
(*                                                                         *)
(* Each append_record opens the file for itself and in append mode.  Its   *)
(* write_all only hands the line to a thread of the runtime; that thread   *)
(* calls write(2) until all is written or a call fails, and flush waits    *)
(* for it.  Nothing orders the threads of several handlers.                *)
(*                                                                         *)
(* A byte of the log is <<handler, position>>; the last one of a line is   *)
(* its newline.  What the record says is left out.                         *)
(***************************************************************************)
EXTENDS Naturals, Sequences, FiniteSets

CONSTANTS
  Handlers,   \* calls of append_record
  Length      \* Length[h]: bytes in the line of h, its newline included

ASSUME LengthAssumption == Length \in [Handlers -> Nat \ {0}]

VARIABLES
  up,         \* the daemon's runtime is there
  stage,      \* stage[h]: where append_record of h is
  thread,     \* thread[h]: the background write of h
  put,        \* put[h]: bytes of h's line in the log
  log,        \* the file
  cuts        \* history: the last byte of each write(2) that took less than asked

vars == <<up, stage, thread, put, log, cuts>>

Stages  == {"new", "flushing", "ok", "failed", "gone"}
Threads == {"none", "writing", "done", "error", "killed"}

Init ==
  /\ up = TRUE
  /\ stage = [h \in Handlers |-> "new"]
  /\ thread = [h \in Handlers |-> "none"]
  /\ put = [h \in Handlers |-> 0]
  /\ log = <<>> /\ cuts = {}
-----------------------------------------------------------------------------
\* append_record

Goes(h, from, to) == stage[h] = from /\ stage' = [stage EXCEPT ![h] = to]

\* The file is open, write_all has handed the line over, flush begins to wait.
HandOver(h) ==
  /\ up /\ Goes(h, "new", "flushing")
  /\ thread' = [thread EXCEPT ![h] = "writing"]
  /\ UNCHANGED <<up, put, log, cuts>>

OpenFails(h) ==
  /\ up /\ Goes(h, "new", "failed")
  /\ UNCHANGED <<up, thread, put, log, cuts>>

\* A wrong Flushed, for a code that returns after write_all.
FlushedUnwaited(h) == up /\ Goes(h, "flushing", "ok")

\* flush returns what the background write came to.
Flushed(h) ==
  /\ up
  /\ \/ thread[h] = "done"  /\ Goes(h, "flushing", "ok")
     \/ thread[h] = "error" /\ Goes(h, "flushing", "failed")

Flush(h) == Flushed(h) /\ UNCHANGED <<up, thread, put, log, cuts>>
-----------------------------------------------------------------------------
\* The background write, which goes on without its handler.

\* A wrong Rest, for a code that writes the line and then its newline.
RestBeforeNewline(h) ==
  IF put[h] + 1 < Length[h] THEN Length[h] - put[h] - 1 ELSE 1

\* What the next write(2) is given.
Rest(h) == Length[h] - put[h]

\* A wrong Grown, for a thread that forgets how far it has come.
GrownFromStart(h, n) == log \o [i \in 1..n |-> <<h, i>>]

\* O_APPEND: the bytes go to the end, wherever that is by now.
Grown(h, n) == log \o [i \in 1..n |-> <<h, put[h] + i>>]

\* One write(2), which may take less than it is given.
Put(h, n) ==
  /\ thread[h] = "writing" /\ n <= Rest(h)
  /\ log' = Grown(h, n)
  /\ put' = [put EXCEPT ![h] = @ + n]
  /\ cuts' = IF n < Rest(h) THEN cuts \cup {<<h, put[h] + n>>} ELSE cuts
  /\ thread' = [thread EXCEPT ![h] =
                  IF put[h] + n = Length[h] THEN "done" ELSE @]
  /\ UNCHANGED <<up, stage>>

\* No space left: what was put stays.
PutFails(h) ==
  /\ thread[h] = "writing"
  /\ thread' = [thread EXCEPT ![h] = "error"]
  /\ UNCHANGED <<up, stage, put, log, cuts>>
-----------------------------------------------------------------------------
\* No handler survives the runtime.
HandlersGone ==
  stage' = [h \in Handlers |-> IF stage[h] = "flushing" THEN "gone" ELSE stage[h]]

\* accept returns an error: run ends, and dropping the runtime waits for the
\* background writes that have begun.
AcceptFails ==
  /\ up /\ up' = FALSE
  /\ HandlersGone
  /\ UNCHANGED <<thread, put, log, cuts>>

\* The process is killed, with its threads.
Kill ==
  /\ up \/ \E h \in Handlers : thread[h] = "writing"
  /\ up' = FALSE
  /\ HandlersGone
  /\ thread' = [h \in Handlers |->
                  IF thread[h] = "writing" THEN "killed" ELSE thread[h]]
  /\ UNCHANGED <<put, log, cuts>>

\* A new daemon on the same log.
Restart ==
  /\ ~up /\ \A h \in Handlers : thread[h] # "writing"
  /\ up' = TRUE
  /\ UNCHANGED <<stage, thread, put, log, cuts>>

Next ==
  \/ \E h \in Handlers :
       \/ HandOver(h) \/ OpenFails(h) \/ Flush(h) \/ PutFails(h)
       \/ \E n \in 1..Length[h] : Put(h, n)
  \/ AcceptFails \/ Kill \/ Restart

Spec == Init /\ [][Next]_vars
-----------------------------------------------------------------------------
\* Types, and never more of a line than it has.
TypeOK ==
  /\ up \in BOOLEAN
  /\ stage \in [Handlers -> Stages]
  /\ thread \in [Handlers -> Threads]
  /\ put \in [Handlers -> Nat] /\ \A h \in Handlers : put[h] <= Length[h]
  /\ log \in Seq(Handlers \X (Nat \ {0}))
  /\ cuts \in SUBSET (Handlers \X Nat)

\* append_record returns Ok only when every byte of its line is in the file,
\* whatever other handlers appended meanwhile.
AcknowledgedIsWhole ==
  \A h \in Handlers : stage[h] = "ok" =>
    \A i \in 1..Length[h] : \E n \in DOMAIN log : log[n] = <<h, i>>

\* Lines may be cut and mixed, but each keeps its own bytes in order and has
\* none of them twice.
BytesInOrder ==
  \A m, n \in DOMAIN log :
    m < n /\ log[m][1] = log[n][1] => log[m][2] < log[n][2]

\* A line can be read when it is in one piece and starts where a line starts.
Newline(byte) == byte[2] = Length[byte[1]]

Readable(h) ==
  \E n \in 0..Len(log) - Length[h] :
    /\ n = 0 \/ Newline(log[n])
    /\ \A i \in 1..Length[h] : log[n + i] = <<h, i>>

Written == {h \in Handlers : put[h] = Length[h]}

\* Whatever is cut off, mixed, killed or restarted, the damage does not
\* spread: each short write(2) costs at most its own record and the one glued
\* to it.  Without one, every record that was written is a line of the log.
DamageIsBounded ==
  Cardinality({h \in Written : ~Readable(h)})
    <= Cardinality(cuts) + Cardinality({cut \in cuts : cut[1] \in Written})
=============================================================================
