----------------------------- MODULE FileActions -----------------------------
(***************************************************************************)
(* read_file and write_file on one path, step by system call               *)
(* (llm-osd/src/actions/files.rs).                                         *)
(*                                                                         *)
(* Handlers run concurrently and nothing orders their file actions, so     *)
(* that reads and writes of the same path interleave: a write truncates    *)
(* the file, fills it from its own offset, and sets the mode afterwards.   *)
(*                                                                         *)
(* A byte is <<writer, position>>; what the file holds at first has the    *)
(* writer Default, and Zero is what the file system fills a gap with.      *)
(***************************************************************************)
EXTENDS Integers, Sequences

CONSTANTS
  Writers,    \* write_file actions, each with a content and a mode of its own
  Readers,    \* read_file actions
  Size,       \* Size[w]: the length of w's content
  MaxBytes,   \* max_bytes of the readers
  BufBytes    \* the size of buf in files::read

ASSUME SizesAssumption ==
  /\ Size \in [Writers -> Nat]
  /\ MaxBytes \in Nat \ {0} /\ BufBytes \in Nat \ {0}
  /\ Writers \cap Readers = {}

VARIABLES
  bytes,      \* what the file holds
  mode,       \* the writer whose mode it has, or Default
  write,      \* write[w]: where files::write of w is
  put,        \* put[w]: how much of its content w has written
  read,       \* read[r]: where files::read of r is
  data,       \* data[r]: what r has collected
  undisturbed,    \* history: who saw no other writer act since it opened the file
  lengths     \* history: lengths[r]: the file's lengths while r was reading

vars == <<bytes, mode, write, put, read, data, undisturbed, lengths>>

Default == "default"
Zero    == <<Default, 0>>
Stages  == {"start", "open", "ok", "failed"}

Content(w) == [i \in 1..Size[w] |-> <<w, i>>]

Smaller(m, n) == IF m <= n THEN m ELSE n
Larger(m, n)  == IF m <= n THEN n ELSE m

Init ==
  /\ \E n \in 0..MaxBytes+2 : bytes = [i \in 1..n |-> <<Default, i>>]
  /\ mode = Default
  /\ write = [w \in Writers |-> "start"] /\ put = [w \in Writers |-> 0]
  /\ read = [r \in Readers |-> "start"] /\ data = [r \in Readers |-> <<>>]
  /\ undisturbed = {}
  /\ lengths = [r \in Readers |-> {}]
-----------------------------------------------------------------------------
\* files::write

WriteGoes(w, from, to) ==
  write[w] = from /\ write' = [write EXCEPT ![w] = to]

\* A step of w that changes the file: every other writer and reader is
\* disturbed, and who is reading may notice the new length.
Changes(w, content) ==
  /\ bytes' = content
  /\ undisturbed' = undisturbed \cap {w}
  /\ lengths' = [r \in Readers |->
                   IF read[r] = "open" THEN lengths[r] \cup {Len(content)}
                                       ELSE lengths[r]]

\* tokio::fs::write opens the file, creating or truncating it.
OpenToWrite(w) ==
  /\ WriteGoes(w, "start", "open")
  /\ bytes' = <<>>
  /\ undisturbed' = {w}
  /\ lengths' = [r \in Readers |->
                   IF read[r] = "open" THEN lengths[r] \cup {0} ELSE lengths[r]]
  /\ UNCHANGED <<mode, put, read, data>>

\* What a write of w's next n bytes at w's offset makes of the file.
Overwritten(w, n) ==
  [i \in 1..Larger(Len(bytes), put[w] + n) |->
     IF i \in put[w]+1..put[w]+n THEN <<w, i>>
     ELSE IF i <= Len(bytes) THEN bytes[i] ELSE Zero]

\* One write(2) of write_all, which may put less than it was given.
Put(w, n) ==
  /\ write[w] = "open" /\ put[w] + n <= Size[w]
  /\ put' = [put EXCEPT ![w] = @ + n]
  /\ Changes(w, Overwritten(w, n))
  /\ UNCHANGED <<mode, write, read, data>>

\* A wrong SetPermissions, which trusts that one write(2) took everything.
SetPermissionsEarly(w) ==
  /\ WriteGoes(w, "open", "ok") /\ put[w] > 0
  /\ mode' = w
  /\ undisturbed' = undisturbed \ (Writers \ {w})
  /\ UNCHANGED <<bytes, put, read, data, lengths>>

\* All is written: set_permissions, on the path and not on the open file.
SetPermissions(w) ==
  /\ WriteGoes(w, "open", "ok") /\ put[w] = Size[w]
  /\ mode' = w
  /\ undisturbed' = undisturbed \ (Writers \ {w})
  /\ UNCHANGED <<bytes, put, read, data, lengths>>

\* Any of the three calls fails: what was done before it stays done.
WriteFails(w) ==
  /\ write[w] \in {"start", "open"}
  /\ write' = [write EXCEPT ![w] = "failed"]
  /\ UNCHANGED <<bytes, mode, put, read, data, undisturbed, lengths>>
-----------------------------------------------------------------------------
\* files::read

OpenToRead(r) ==
  /\ read[r] = "start"
  /\ read' = [read EXCEPT ![r] = "open"]
  /\ undisturbed' = undisturbed \cup {r}
  /\ lengths' = [lengths EXCEPT ![r] = {Len(bytes)}]
  /\ UNCHANGED <<bytes, mode, write, put, data>>

\* Collected up to one byte past the limit, which is how a longer file shows.
Reading(r) == read[r] = "open" /\ Len(data[r]) < MaxBytes + 1

\* A wrong Fetch, which keeps all of the last buffer.
FetchUncapped(r, n) ==
  /\ Reading(r) /\ Len(data[r]) + n <= Len(bytes)
  /\ data' = [data EXCEPT ![r] = @ \o SubSeq(bytes, Len(@) + 1, Len(@) + n)]
  /\ UNCHANGED <<bytes, mode, write, put, read, undisturbed, lengths>>

\* Another, which opens the file anew for every buffer.
FetchFromStart(r, n) ==
  /\ Reading(r) /\ n <= Len(bytes)
  /\ data' = [data EXCEPT ![r] =
               @ \o SubSeq(bytes, 1, Smaller(n, MaxBytes + 1 - Len(@)))]
  /\ UNCHANGED <<bytes, mode, write, put, read, undisturbed, lengths>>

\* One read of n bytes at the reader's offset, which is what it has so far.
Fetch(r, n) ==
  /\ Reading(r) /\ Len(data[r]) + n <= Len(bytes)
  /\ LET kept == Smaller(n, MaxBytes + 1 - Len(data[r]))
     IN  data' = [data EXCEPT ![r] =
                    @ \o SubSeq(bytes, Len(@) + 1, Len(@) + kept)]
  /\ UNCHANGED <<bytes, mode, write, put, read, undisturbed, lengths>>

\* The loop's condition, or a read that returns nothing.
ReadEnds(r) ==
  /\ read[r] = "open"
  /\ ~Reading(r) \/ Len(data[r]) >= Len(bytes)
  /\ read' = [read EXCEPT ![r] = "ok"]
  /\ UNCHANGED <<bytes, mode, write, put, data, undisturbed, lengths>>

ReadFails(r) ==
  /\ read[r] \in {"start", "open"}
  /\ read' = [read EXCEPT ![r] = "failed"]
  /\ UNCHANGED <<bytes, mode, write, put, data, undisturbed, lengths>>

\* A wrong Truncated, for which a file of exactly the limit is too long.
TruncatedAtLimit(r) == Len(data[r]) >= MaxBytes

\* What the client gets of a read that is ok.
Truncated(r) == Len(data[r]) > MaxBytes

\* A wrong Returned, with the byte that only shows that there is more.
ReturnedWithProbe(r) == data[r]

Returned(r) == SubSeq(data[r], 1, Smaller(MaxBytes, Len(data[r])))

\* Nobody uses the file any more.
Quiet ==
  /\ \A w \in Writers : write[w] \in {"ok", "failed"}
  /\ \A r \in Readers : read[r] \in {"ok", "failed"}
  /\ UNCHANGED vars

Next ==
  \/ \E w \in Writers :
       \/ OpenToWrite(w) \/ SetPermissions(w) \/ WriteFails(w)
       \/ \E n \in 1..Size[w] : Put(w, n)
  \/ \E r \in Readers :
       \/ OpenToRead(r) \/ ReadEnds(r) \/ ReadFails(r)
       \/ \E n \in 1..BufBytes : Fetch(r, n)
  \/ Quiet

Spec == Init /\ [][Next]_vars
-----------------------------------------------------------------------------
AnyByte == (Writers \cup {Default}) \X Nat

\* Types, and how much of a file a handler may hold.
TypeOK ==
  /\ bytes \in Seq(AnyByte)
  /\ mode \in Writers \cup {Default}
  /\ write \in [Writers -> Stages] /\ put \in [Writers -> Nat]
  /\ \A w \in Writers : put[w] <= Size[w]
  /\ read \in [Readers -> Stages] /\ data \in [Readers -> Seq(AnyByte)]
  /\ \A r \in Readers : Len(data[r]) <= MaxBytes + 1
  /\ undisturbed \subseteq Writers \cup Readers
  /\ lengths \in [Readers -> SUBSET Nat]

\* Writes that interleave may mix their contents and leave gaps, but a byte is
\* never found at another place than its own, in the file or in what was read.
BytesKeepTheirPlace ==
  LET InPlace(s) == \A i \in DOMAIN s : s[i] = Zero \/ s[i][2] = i
  IN  InPlace(bytes) /\ \A r \in Readers : InPlace(data[r])

\* A write that reports ok, and that no other writer came between, has left
\* exactly its content under its mode.
QuietWriteIsExact ==
  \A w \in Writers \cap undisturbed :
    write[w] = "ok" => bytes = Content(w) /\ mode = w

\* A read that no writer came between returns the beginning of the file, and
\* says truncated exactly when there is more.
QuietReadIsExact ==
  \A r \in Readers \cap undisturbed :
    read[r] = "ok" =>
      /\ Returned(r) = SubSeq(bytes, 1, Smaller(MaxBytes, Len(bytes)))
      /\ Truncated(r) <=> Len(bytes) > MaxBytes

\* However the file changes under a read, what it reports is backed by a length
\* the file has had meanwhile: truncated by one past the limit, a length by one
\* not beyond it and by one that reaches it.
ReportedLengthWasSeen ==
  \A r \in Readers :
    read[r] = "ok" =>
      IF Truncated(r)
        THEN \E l \in lengths[r] : l > MaxBytes
        ELSE /\ \E l \in lengths[r] : l <= Len(data[r])
             /\ \E l \in lengths[r] : l >= Len(data[r])
=============================================================================
