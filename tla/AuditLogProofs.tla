--------------------------- MODULE AuditLogProofs ---------------------------
(***************************************************************************)
(* Proofs about module AuditLog, for any handlers and any lines.           *)
(*                                                                         *)
(* The bytes of one line in the log are always a beginning of that line:   *)
(* put[h] says how long it is, and the thread that is done has put all.    *)
(* Where two lines meet other than at a newline, a write(2) was cut: that  *)
(* is what bounds the damage, and it needs the order of the bytes, too.    *)
(***************************************************************************)
EXTENDS AuditLog, FiniteSetTheorems, TLAPS

\* No byte of a line is in the log beyond those that were put.
NoByteAhead ==
  \A n \in DOMAIN log : log[n][2] <= put[log[n][1]]

\* Each of those is there.
PutBytesAreThere ==
  \A h \in Handlers : \A i \in 1..put[h] :
    \E n \in DOMAIN log : log[n] = <<h, i>>

\* append_record has returned Ok only after its thread has put the whole line.
OkAfterTheThread ==
  \A h \in Handlers :
    /\ stage[h] = "ok" => thread[h] = "done"
    /\ thread[h] = "done" => put[h] = Length[h]

LogInv ==
  /\ TypeOK
  /\ NoByteAhead
  /\ PutBytesAreThere
  /\ BytesInOrder
  /\ OkAfterTheThread
-----------------------------------------------------------------------------
\* What one write(2) makes of the log: the old bytes, and behind them the next
\* ones of the line.
LEMMA GrownLog ==
  ASSUME TypeOK, NEW h \in Handlers, NEW n \in 1..Length[h], Put(h, n)
  PROVE  /\ log' \in Seq(Handlers \X (Nat \ {0}))
         /\ Len(log') = Len(log) + n
         /\ \A m \in 1..Len(log) : log'[m] = log[m]
         /\ \A m \in (Len(log) + 1)..Len(log') :
              log'[m] = <<h, put[h] + (m - Len(log))>>
<1> DEFINE Line == [i \in 1..n |-> <<h, put[h] + i>>]
<1>1. n \in Nat /\ put[h] \in Nat
  BY LengthAssumption DEF TypeOK
<1>2. Line \in Seq(Handlers \X (Nat \ {0})) /\ Len(Line) = n
  <2>1. \A i \in 1..n : put[h] + i \in Nat \ {0}
    BY <1>1
  <2>2. \A i \in 1..n : <<h, put[h] + i>> \in Handlers \X (Nat \ {0})
    BY <2>1
  <2>3. QED
    BY <1>1, <2>2
<1>3. log' = log \o Line
  BY DEF Put, Grown
<1>4. log \in Seq(Handlers \X (Nat \ {0}))
  BY DEF TypeOK
<1>5. log' \in Seq(Handlers \X (Nat \ {0})) /\ Len(log') = Len(log) + n
  BY <1>2, <1>3, <1>4
<1> HIDE DEF Line
<1>6. \A m \in 1..Len(log) : log'[m] = log[m]
  BY <1>1, <1>2, <1>3, <1>4
<1>7. \A m \in (Len(log) + 1)..Len(log') : log'[m] = Line[m - Len(log)]
  BY <1>1, <1>2, <1>3, <1>4
<1>8. \A m \in (Len(log) + 1)..Len(log') : m - Len(log) \in 1..n
  BY <1>1, <1>4, <1>5
<1>9. QED
  BY <1>5, <1>6, <1>7, <1>8 DEF Line

\* Every step keeps the types, and no line gets longer than it is.
LEMMA TypeStep ==
  ASSUME TypeOK, [Next]_vars
  PROVE  TypeOK'
<1> USE DEF TypeOK, Stages, Threads
<1>1. ASSUME NEW h \in Handlers, HandOver(h)  PROVE TypeOK'
  BY <1>1 DEF HandOver, Goes
<1>2. ASSUME NEW h \in Handlers, OpenFails(h)  PROVE TypeOK'
  BY <1>2 DEF OpenFails, Goes
<1>3. ASSUME NEW h \in Handlers, Flush(h)  PROVE TypeOK'
  BY <1>3 DEF Flush, Flushed, Goes
<1>4. ASSUME NEW h \in Handlers, PutFails(h)  PROVE TypeOK'
  BY <1>4 DEF PutFails
<1>5. ASSUME NEW h \in Handlers, NEW n \in 1..Length[h], Put(h, n)
      PROVE TypeOK'
  <2>1. n \in Nat /\ Length[h] \in Nat /\ put[h] + n <= Length[h]
    <3>1. n <= Length[h] - put[h]
      BY <1>5 DEF Put, Rest
    <3>2. Length[h] \in Nat /\ put[h] \in Nat
      BY LengthAssumption
    <3>3. n \in Nat
      BY <3>2
    <3>4. QED
      BY <3>1, <3>2, <3>3
  <2>2. put' \in [Handlers -> Nat] /\ \A g \in Handlers : put'[g] <= Length[g]
    BY <1>5, <2>1 DEF Put
  <2>3. cuts' \in SUBSET (Handlers \X Nat)
    <3>1. <<h, put[h] + n>> \in Handlers \X Nat
      BY <2>1
    <3>2. QED
      BY <1>5, <3>1 DEF Put
  <2>4. thread' \in [Handlers -> Threads]
    BY <1>5 DEF Put
  <2>5. log' \in Seq(Handlers \X (Nat \ {0}))
    BY <1>5, GrownLog
  <2>6. QED
    BY <1>5, <2>2, <2>3, <2>4, <2>5 DEF Put
<1>6. CASE AcceptFails
  BY <1>6 DEF AcceptFails, HandlersGone
<1>7. CASE Kill
  BY <1>7 DEF Kill, HandlersGone
<1>8. CASE Restart
  BY <1>8 DEF Restart
<1>9. CASE UNCHANGED vars
  BY <1>9 DEF vars
<1>10. QED
  BY <1>1, <1>2, <1>3, <1>4, <1>5, <1>6, <1>7, <1>8, <1>9 DEF Next

\* A write(2) keeps the bytes of each line a beginning of it, in order.
LEMMA PutKeepsBytes ==
  ASSUME LogInv, NEW h \in Handlers, NEW n \in 1..Length[h], Put(h, n)
  PROVE  NoByteAhead' /\ PutBytesAreThere' /\ BytesInOrder'
<1> DEFINE L == Len(log)
<1>1. /\ Len(log') = L + n
      /\ \A m \in 1..L : log'[m] = log[m]
      /\ \A m \in (L + 1)..(L + n) : log'[m] = <<h, put[h] + (m - L)>>
  BY GrownLog DEF LogInv
<1>2. n \in Nat /\ put[h] \in Nat /\ L \in Nat
  BY LengthAssumption DEF LogInv, TypeOK
<1>3. DOMAIN log = 1..L /\ DOMAIN log' = 1..(L + n)
  <2>1. log' \in Seq(Handlers \X (Nat \ {0}))
    BY GrownLog DEF LogInv
  <2>2. QED
    BY <1>1, <2>1 DEF LogInv, TypeOK
<1>4. \A m \in 1..L : log[m][1] \in Handlers /\ log[m][2] \in Nat
  BY <1>3 DEF LogInv, TypeOK
<1>5. /\ put'[h] = put[h] + n
      /\ \A g \in Handlers : put[g] \in Nat /\ put'[g] \in Nat /\ put[g] <= put'[g]
      /\ \A g \in Handlers \ {h} : put'[g] = put[g]
  BY <1>2 DEF Put, LogInv, TypeOK
<1>6. \A m \in 1..L : log[m][2] <= put[log[m][1]]
  BY <1>3 DEF LogInv, NoByteAhead
<1> HIDE DEF L
<1>7. NoByteAhead'
  <2>1. ASSUME NEW m \in 1..L  PROVE log'[m][2] <= put'[log'[m][1]]
    <3>1. log'[m] = log[m]
      BY <1>1
    <3>2. log[m][1] \in Handlers /\ log[m][2] \in Nat /\ log[m][2] <= put[log[m][1]]
      BY <1>4, <1>6
    <3>3. /\ put[log[m][1]] \in Nat /\ put'[log[m][1]] \in Nat
          /\ put[log[m][1]] <= put'[log[m][1]]
      BY <1>5, <3>2
    <3>4. log[m][2] <= put'[log[m][1]]
      BY <3>2, <3>3
    <3>5. QED
      BY <3>1, <3>4
  <2>2. \A m \in (L + 1)..(L + n) : log'[m][2] <= put'[log'[m][1]]
    BY <1>1, <1>2, <1>5
  <2>3. \A m \in 1..(L + n) : m \in 1..L \/ m \in (L + 1)..(L + n)
    BY <1>2
  <2>4. QED
    BY <1>3, <2>1, <2>2, <2>3 DEF NoByteAhead
<1>8. PutBytesAreThere'
  <2>1. SUFFICES ASSUME NEW g \in Handlers, NEW i \in 1..put'[g]
                 PROVE  \E m \in 1..(L + n) : log'[m] = <<g, i>>
    BY <1>3 DEF PutBytesAreThere
  <2>2. CASE i \in 1..put[g]
    <3>1. PICK m \in 1..L : log[m] = <<g, i>>
      BY <1>3, <2>2 DEF LogInv, PutBytesAreThere
    <3>2. QED
      BY <1>1, <1>2, <3>1
  <2>3. CASE i \notin 1..put[g]
    <3>1. g = h /\ i > put[h] /\ i <= put[h] + n /\ i \in Nat
      BY <1>2, <1>5, <2>3
    <3>2. L + (i - put[h]) \in (L + 1)..(L + n)
      BY <1>2, <3>1
    <3>3. log'[L + (i - put[h])] = <<g, i>>
      <4>1. log'[L + (i - put[h])] = <<h, put[h] + ((L + (i - put[h])) - L)>>
        BY <1>1, <3>2
      <4>2. put[h] + ((L + (i - put[h])) - L) = i
        BY <1>2, <3>1
      <4>3. QED
        BY <3>1, <4>1, <4>2
    <3>4. L + (i - put[h]) \in 1..(L + n)
      BY <1>2, <3>2
    <3>5. QED
      BY <3>3, <3>4
  <2>4. QED
    BY <2>2, <2>3
<1>9. BytesInOrder'
  <2>1. SUFFICES ASSUME NEW m \in 1..(L + n), NEW k \in 1..(L + n), m < k,
                        log'[m][1] = log'[k][1]
                 PROVE  log'[m][2] < log'[k][2]
    BY <1>3 DEF BytesInOrder
  <2>2. CASE k \in 1..L
    <3>1. m \in 1..L
      BY <1>2, <2>1, <2>2
    <3>2. QED
      BY <1>1, <1>3, <2>1, <2>2, <3>1 DEF LogInv, BytesInOrder
  <2>3. CASE m \in 1..L /\ k \in (L + 1)..(L + n)
    <3>1. log'[k] = <<h, put[h] + (k - L)>> /\ log'[m] = log[m]
      BY <1>1, <2>3
    <3>2. log[m][2] <= put[h] /\ log[m][2] \in Nat
      BY <1>4, <1>6, <2>1, <2>3, <3>1
    <3>3. QED
      BY <1>2, <2>3, <3>1, <3>2
  <2>4. CASE m \in (L + 1)..(L + n) /\ k \in (L + 1)..(L + n)
    BY <1>1, <1>2, <2>1, <2>4
  <2>5. QED
    BY <1>2, <2>1, <2>2, <2>3, <2>4
<1>10. QED
  BY <1>7, <1>8, <1>9

\* Every step keeps who has returned Ok and which thread is done.
LEMMA OkStep ==
  ASSUME TypeOK, OkAfterTheThread, [Next]_vars
  PROVE  OkAfterTheThread'
<1> USE DEF TypeOK, OkAfterTheThread
<1>1. ASSUME NEW h \in Handlers, HandOver(h)  PROVE OkAfterTheThread'
  BY <1>1 DEF HandOver, Goes
<1>2. ASSUME NEW h \in Handlers, OpenFails(h)  PROVE OkAfterTheThread'
  BY <1>2 DEF OpenFails, Goes
<1>3. ASSUME NEW h \in Handlers, Flush(h)  PROVE OkAfterTheThread'
  BY <1>3 DEF Flush, Flushed, Goes
<1>4. ASSUME NEW h \in Handlers, PutFails(h)  PROVE OkAfterTheThread'
  BY <1>4 DEF PutFails
<1>5. ASSUME NEW h \in Handlers, NEW n \in 1..Length[h], Put(h, n)
      PROVE OkAfterTheThread'
  BY <1>5 DEF Put
<1>6. CASE AcceptFails
  BY <1>6 DEF AcceptFails, HandlersGone
<1>7. CASE Kill
  BY <1>7 DEF Kill, HandlersGone
<1>8. CASE Restart
  BY <1>8 DEF Restart
<1>9. CASE UNCHANGED vars
  BY <1>9 DEF vars
<1>10. QED
  BY <1>1, <1>2, <1>3, <1>4, <1>5, <1>6, <1>7, <1>8, <1>9 DEF Next

\* Only a write(2) touches the file.
LEMMA OnlyPutWrites ==
  ASSUME [Next]_vars
  PROVE  \/ \E h \in Handlers : \E n \in 1..Length[h] : Put(h, n)
         \/ UNCHANGED <<log, put, cuts>>
BY DEF Next, vars, HandOver, OpenFails, Flush, PutFails, AcceptFails, Kill, Restart

\* The invariant is inductive.
LEMMA LogInvStep == LogInv /\ [Next]_vars => LogInv'
<1> SUFFICES ASSUME LogInv, [Next]_vars PROVE LogInv'
  OBVIOUS
<1>1. TypeOK' /\ OkAfterTheThread'
  BY TypeStep, OkStep DEF LogInv
<1>2. ASSUME NEW h \in Handlers, NEW n \in 1..Length[h], Put(h, n)
      PROVE  LogInv'
  BY <1>1, <1>2, PutKeepsBytes DEF LogInv
<1>3. CASE UNCHANGED <<log, put, cuts>>
  <2>1. NoByteAhead' /\ PutBytesAreThere' /\ BytesInOrder'
    BY <1>3 DEF LogInv, NoByteAhead, PutBytesAreThere, BytesInOrder
  <2>2. QED
    BY <1>1, <2>1 DEF LogInv
<1>4. QED
  BY <1>2, <1>3, OnlyPutWrites

\* It holds of an empty log.
LEMMA LogInvInit == Init => LogInv
<1> SUFFICES ASSUME Init PROVE LogInv
  OBVIOUS
<1>1. TypeOK
  BY LengthAssumption DEF Init, TypeOK, Stages, Threads
<1>2. NoByteAhead /\ PutBytesAreThere /\ BytesInOrder /\ OkAfterTheThread
  BY DEF Init, NoByteAhead, PutBytesAreThere, BytesInOrder, OkAfterTheThread
<1>3. QED
  BY <1>1, <1>2 DEF LogInv
-----------------------------------------------------------------------------
\* Every variable keeps its type, and no line is put further than its end.
THEOREM TypeCorrectness == Spec => []TypeOK
<1>1. LogInv => TypeOK
  BY DEF LogInv
<1>2. QED
  BY <1>1, LogInvInit, LogInvStep, PTL DEF Spec

\* What append_record has acknowledged is in the file to the last byte, however
\* many handlers append, and through every fault and restart.
THEOREM AcknowledgedStays == Spec => []AcknowledgedIsWhole
<1>1. LogInv => AcknowledgedIsWhole
  <2>1. SUFFICES ASSUME LogInv, NEW h \in Handlers, stage[h] = "ok",
                        NEW i \in 1..Length[h]
                 PROVE  \E n \in DOMAIN log : log[n] = <<h, i>>
    BY DEF AcknowledgedIsWhole
  <2>2. put[h] = Length[h]
    BY <2>1 DEF LogInv, OkAfterTheThread
  <2>3. QED
    BY <2>1, <2>2 DEF LogInv, PutBytesAreThere
<1>2. QED
  BY <1>1, LogInvInit, LogInvStep, PTL DEF Spec

\* The bytes of each line are in the file in order, and none twice.
THEOREM LinesKeepOrder == Spec => []BytesInOrder
<1>1. LogInv => BytesInOrder
  BY DEF LogInv
<1>2. QED
  BY <1>1, LogInvInit, LogInvStep, PTL DEF Spec

-----------------------------------------------------------------------------
(***************************************************************************)
(* The damage.  Where the log passes from one line to another in mid-line, *)
(* a write(2) was cut; a line without a cut is in one piece.               *)
(***************************************************************************)
GoesOn(n) ==
  n + 1 \in DOMAIN log /\ log[n + 1] = <<log[n][1], log[n][2] + 1>>

BreaksAreCuts ==
  \A n \in DOMAIN log : Newline(log[n]) \/ log[n] \in cuts \/ GoesOn(n)

\* The line of h follows the first n bytes of the log.
Piece(h, n) ==
  n + Length[h] <= Len(log) /\ \A i \in 1..Length[h] : log[n + i] = <<h, i>>

UncutIsWhole ==
  \A h \in Handlers : put[h] # 0 /\ (\A cut \in cuts : cut[1] # h) =>
    put[h] = Length[h] /\ \E n \in Nat : Piece(h, n)

DamageInv == IsFiniteSet(cuts) /\ BreaksAreCuts /\ UncutIsWhole

\* A write(2) breaks a line off, or completes it.
LEMMA PutKeepsDamage ==
  ASSUME LogInv, DamageInv, NEW h \in Handlers, NEW n \in 1..Length[h], Put(h, n)
  PROVE  DamageInv'
<1> DEFINE L == Len(log)
<1>1. /\ Len(log') = L + n
      /\ \A m \in 1..L : log'[m] = log[m]
      /\ \A m \in (L + 1)..(L + n) : log'[m] = <<h, put[h] + (m - L)>>
  BY GrownLog DEF LogInv
<1>2. n \in Nat \ {0} /\ put[h] \in Nat /\ L \in Nat /\ Length[h] \in Nat \ {0}
  BY LengthAssumption DEF LogInv, TypeOK
<1>3. DOMAIN log = 1..L /\ DOMAIN log' = 1..(L + n)
  <2>1. log' \in Seq(Handlers \X (Nat \ {0}))
    BY GrownLog DEF LogInv
  <2>2. QED
    BY <1>1, <2>1 DEF LogInv, TypeOK
<1>4. /\ put' = [put EXCEPT ![h] = @ + n] /\ put'[h] = put[h] + n
      /\ put[h] + n <= Length[h]
      /\ cuts' = IF put[h] + n < Length[h] THEN cuts \cup {<<h, put[h] + n>>} ELSE cuts
  <2>1. n <= Length[h] - put[h]
    BY DEF Put, Rest
  <2>2. n < Length[h] - put[h] <=> put[h] + n < Length[h]
    BY <1>2
  <2>3. QED
    BY <1>2, <2>1, <2>2 DEF Put, Rest, LogInv, TypeOK
<1> HIDE DEF L
<1>5. IsFiniteSet(cuts')
  BY <1>4, FS_AddElement DEF DamageInv
<1>6. BreaksAreCuts'
  <2>1. SUFFICES ASSUME NEW m \in 1..(L + n)
                 PROVE  Newline(log'[m]) \/ log'[m] \in cuts' \/ GoesOn(m)'
    BY <1>3 DEF BreaksAreCuts, Newline
  <2>2. CASE m \in 1..L
    <3>1. log'[m] = log[m] /\ cuts \subseteq cuts'
      BY <1>1, <1>4, <2>2
    <3>2. GoesOn(m) => GoesOn(m)'
      BY <1>1, <1>2, <1>3, <2>2 DEF GoesOn
    <3>3. QED
      BY <1>3, <2>2, <3>1, <3>2 DEF DamageInv, BreaksAreCuts
  <2>3. CASE m \in (L + 1)..(L + n) /\ m # L + n
    <3>1. m + 1 \in (L + 1)..(L + n) /\ m + 1 \in 1..(L + n)
      BY <1>2, <2>3
    <3>2. log'[m] = <<h, put[h] + (m - L)>>
      BY <1>1, <2>3
    <3>3. log'[m + 1] = <<h, put[h] + ((m + 1) - L)>>
      BY <1>1, <3>1
    <3>4. put[h] + ((m + 1) - L) = put[h] + (m - L) + 1
      BY <1>2, <2>3
    <3>5. QED
      BY <1>3, <3>1, <3>2, <3>3, <3>4 DEF GoesOn
  <2>4. CASE m = L + n
    <3>1. log'[m] = <<h, put[h] + n>>
      <4>1. m \in (L + 1)..(L + n) /\ put[h] + (m - L) = put[h] + n
        BY <1>2, <2>4
      <4>2. QED
        BY <1>1, <4>1
    <3>2. CASE put[h] + n < Length[h]
      BY <1>4, <3>1, <3>2
    <3>3. CASE put[h] + n = Length[h]
      BY <3>1, <3>3 DEF Newline
    <3>4. QED
      BY <1>2, <1>4, <3>2, <3>3
  <2>5. QED
    BY <1>2, <2>1, <2>2, <2>3, <2>4
<1>7. UncutIsWhole'
  <2>1. SUFFICES ASSUME NEW g \in Handlers, put'[g] # 0, \A cut \in cuts' : cut[1] # g
                 PROVE  put'[g] = Length[g] /\ \E m \in Nat : Piece(g, m)'
    BY DEF UncutIsWhole
  <2>2. CASE g # h
    <3>1. put'[g] = put[g] /\ \A cut \in cuts : cut[1] # g
      BY <1>4, <2>1, <2>2 DEF LogInv, TypeOK
    <3>2. PICK m \in Nat : Piece(g, m) /\ put[g] = Length[g]
      BY <2>1, <3>1 DEF DamageInv, UncutIsWhole
    <3>3. m + Length[g] <= L /\ \A i \in 1..Length[g] : log[m + i] = <<g, i>>
      BY <3>2 DEF Piece, L
    <3>4. Length[g] \in Nat
      BY LengthAssumption
    <3>5. \A i \in 1..Length[g] : m + i \in 1..L
      BY <1>2, <3>3, <3>4
    <3>6. m + Length[g] <= L + n
      BY <1>2, <3>3, <3>4
    <3>7. Piece(g, m)'
      BY <1>1, <3>3, <3>5, <3>6 DEF Piece
    <3>8. QED
      BY <3>1, <3>2, <3>7
  <2>3. CASE g = h
    <3>1. put[h] + n = Length[h] /\ \A cut \in cuts : cut[1] # h
      <4>1. ~(put[h] + n < Length[h])
        <5>1. <<h, put[h] + n>>[1] = h
          OBVIOUS
        <5>2. QED
          BY <1>4, <2>1, <2>3, <5>1
      <4>2. QED
        BY <1>2, <1>4, <2>1, <2>3, <4>1
    <3>2. put[h] = 0
      BY <1>2, <3>1 DEF DamageInv, UncutIsWhole
    <3>3. PICK m \in Nat : m = L
      BY <1>2
    <3>4. ASSUME NEW i \in 1..n  PROVE log'[m + i] = <<h, i>>
      <4>1. m + i \in (L + 1)..(L + n) /\ put[h] + ((m + i) - L) = i
        BY <1>2, <3>2, <3>3
      <4>2. log'[m + i] = <<h, put[h] + ((m + i) - L)>>
        BY <1>1, <4>1
      <4>3. QED
        BY <4>1, <4>2
    <3>5. Length[h] = n /\ m + Length[h] <= Len(log')
      BY <1>1, <1>2, <3>1, <3>2, <3>3
    <3>6. Piece(h, m)'
      BY <3>4, <3>5 DEF Piece
    <3>7. QED
      BY <1>4, <2>3, <3>1, <3>6
  <2>4. QED
    BY <2>2, <2>3
<1>8. QED
  BY <1>5, <1>6, <1>7 DEF DamageInv

\* Nothing else has a part in the damage.
LEMMA DamageInvStep == LogInv /\ DamageInv /\ [Next]_vars => DamageInv'
<1> SUFFICES ASSUME LogInv, DamageInv, [Next]_vars PROVE DamageInv'
  OBVIOUS
<1>1. CASE UNCHANGED <<log, put, cuts>>
  BY <1>1 DEF DamageInv, BreaksAreCuts, GoesOn, Newline, UncutIsWhole, Piece
<1>2. QED
  BY <1>1, OnlyPutWrites, PutKeepsDamage

LEMMA DamageInvInit == Init => DamageInv
<1> SUFFICES ASSUME Init PROVE DamageInv
  OBVIOUS
<1>1. IsFiniteSet(cuts)
  BY FS_EmptySet DEF Init
<1>2. BreaksAreCuts /\ UncutIsWhole
  BY DEF Init, BreaksAreCuts, UncutIsWhole
<1>3. QED
  BY <1>1, <1>2 DEF DamageInv

\* Counting by a one-to-one map.
LEMMA NoMoreThan ==
  ASSUME NEW S, NEW T, IsFiniteSet(T), NEW f \in [S -> T],
         \A a, b \in S : f[a] = f[b] => a = b
  PROVE  IsFiniteSet(S) /\ Cardinality(S) <= Cardinality(T)
<1>1. f \in Injection(S, T)
  BY DEF Injection, IsInjective
<1>2. QED
  BY <1>1, FS_Injection

\* A whole line that cannot be read is behind the cut of another.
LEMMA GluedToACut ==
  ASSUME LogInv, DamageInv, NEW h \in Handlers, NEW n \in Nat, Piece(h, n), ~Readable(h)
  PROVE  n \in DOMAIN log /\ n + 1 \in DOMAIN log /\ log[n] \in cuts
         /\ log[n + 1] = <<h, 1>>
<1>1. Length[h] \in Nat \ {0} /\ Len(log) \in Nat /\ DOMAIN log = 1..Len(log)
  BY LengthAssumption DEF LogInv, TypeOK
<1>2. n \in 0..Len(log) - Length[h]
  BY <1>1 DEF Piece
<1>3. n # 0 /\ ~Newline(log[n])
  BY <1>2 DEF Piece, Readable
<1>4. n \in DOMAIN log /\ n + 1 \in DOMAIN log
  BY <1>1, <1>2, <1>3
<1>5. log[n + 1] = <<h, 1>>
  BY <1>1 DEF Piece
<1>6. ~GoesOn(n)
  <2>1. log[n] \in Handlers \X (Nat \ {0})
    BY <1>1, <1>4 DEF LogInv, TypeOK
  <2>2. log[n][2] + 1 # 1
    BY <2>1
  <2>3. QED
    BY <1>5, <2>2 DEF GoesOn
<1>7. QED
  BY <1>3, <1>4, <1>5, <1>6 DEF DamageInv, BreaksAreCuts

\* Each unreadable line has a cut of its own, or is glued to the cut of another.
LEMMA EachDamageHasACut ==
  ASSUME LogInv, DamageInv
  PROVE  DamageIsBounded
<1> DEFINE Damaged == {h \in Written : ~Readable(h)}
           OwnCuts(h) == {cut \in cuts : cut[1] = h}
           Cut   == {h \in Damaged : OwnCuts(h) # {}}
           Glued == {h \in Damaged : OwnCuts(h) = {}}
           CutsOfWritten == {cut \in cuts : cut[1] \in Written}
<1>1. IsFiniteSet(cuts) /\ IsFiniteSet(CutsOfWritten)
  BY FS_Subset DEF DamageInv
<1>2. IsFiniteSet(Cut) /\ Cardinality(Cut) <= Cardinality(CutsOfWritten)
  <2> DEFINE f == [h \in Cut |-> CHOOSE cut \in cuts : cut[1] = h]
  <2>1. \A h \in Cut : f[h] \in cuts /\ f[h][1] = h
    OBVIOUS
  <2> HIDE DEF f
  <2>2. f \in [Cut -> CutsOfWritten]
    <3>1. \A h \in Cut : f[h] \in CutsOfWritten
      BY <2>1
    <3>2. QED
      BY <3>1 DEF f
  <2>3. \A a, b \in Cut : f[a] = f[b] => a = b
    BY <2>1
  <2>4. QED
    BY <1>1, <2>2, <2>3, NoMoreThan
<1>3. IsFiniteSet(Glued) /\ Cardinality(Glued) <= Cardinality(cuts)
  <2> DEFINE At(h) == CHOOSE n \in Nat : Piece(h, n)
             f == [h \in Glued |-> log[At(h)]]
  <2>1. ASSUME NEW h \in Glued
        PROVE  /\ At(h) \in DOMAIN log /\ At(h) + 1 \in DOMAIN log
               /\ log[At(h)] \in cuts /\ log[At(h) + 1] = <<h, 1>>
    <3>1. h \in Handlers /\ put[h] = Length[h] /\ ~Readable(h)
      BY DEF Written
    <3>2. put[h] # 0
      BY <3>1, LengthAssumption
    <3>3. \A cut \in cuts : cut[1] # h
      OBVIOUS
    <3>4. At(h) \in Nat /\ Piece(h, At(h))
      BY <3>1, <3>2, <3>3 DEF DamageInv, UncutIsWhole
    <3> HIDE DEF At
    <3>5. QED
      BY <3>1, <3>4, GluedToACut
  <2> HIDE DEF At
  <2>2. f \in [Glued -> cuts]
    BY <2>1
  <2>3. \A a, b \in Glued : f[a] = f[b] => a = b
    <3>1. SUFFICES ASSUME NEW a \in Glued, NEW b \in Glued, log[At(a)] = log[At(b)]
                   PROVE  a = b
      OBVIOUS
    <3>2. At(a) \in DOMAIN log /\ At(b) \in DOMAIN log /\ log[At(a) + 1] = <<a, 1>>
          /\ log[At(b) + 1] = <<b, 1>>
      BY <2>1
    <3>3. At(a) \in Nat /\ At(b) \in Nat /\ log[At(a)][2] \in Nat
      <4>1. log \in Seq(Handlers \X (Nat \ {0}))
        BY DEF LogInv, TypeOK
      <4>2. DOMAIN log \subseteq Nat /\ \A n \in DOMAIN log : log[n][2] \in Nat
        <5> HIDE DEF Damaged, Cut, Glued, CutsOfWritten, f
        <5>1. QED
          BY <4>1
      <4>3. QED
        BY <3>2, <4>2
    <3>4. ~(At(a) < At(b)) /\ ~(At(b) < At(a))
      BY <3>1, <3>2, <3>3 DEF LogInv, BytesInOrder
    <3>5. At(a) = At(b)
      BY <3>3, <3>4
    <3>6. QED
      BY <3>2, <3>5
  <2>4. QED
    BY <1>1, <2>2, <2>3, NoMoreThan
<1>4. Damaged = Cut \cup Glued
  OBVIOUS
<1>5. Cardinality(Damaged) <= Cardinality(Cut) + Cardinality(Glued)
  <2> HIDE DEF Damaged, Cut, Glued
  <2>1. IsFiniteSet(Cut \cap Glued)
    BY <1>2, FS_Subset
  <2>2. /\ Cardinality(Cut) \in Nat /\ Cardinality(Glued) \in Nat
        /\ Cardinality(Cut \cap Glued) \in Nat
    BY <1>2, <1>3, <2>1, FS_CardinalityType
  <2>3. Cardinality(Cut \cup Glued)
          = Cardinality(Cut) + Cardinality(Glued) - Cardinality(Cut \cap Glued)
    BY <1>2, <1>3, FS_Union
  <2>4. QED
    BY <1>4, <2>2, <2>3
<1>6. /\ Cardinality(Cut) \in Nat /\ Cardinality(Glued) \in Nat
      /\ Cardinality(cuts) \in Nat /\ Cardinality(CutsOfWritten) \in Nat
      /\ Cardinality(Damaged) \in Nat
  <2> HIDE DEF Damaged, Cut, Glued, CutsOfWritten
  <2>1. IsFiniteSet(Damaged)
    BY <1>2, <1>3, <1>4, FS_Union
  <2>2. QED
    BY <1>1, <1>2, <1>3, <2>1, FS_CardinalityType
<1> HIDE DEF Cut, Glued
<1>7. Cardinality(Damaged) <= Cardinality(cuts) + Cardinality(CutsOfWritten)
  <2> HIDE DEF Damaged, CutsOfWritten
  <2>1. QED
    BY <1>2, <1>3, <1>5, <1>6
<1>8. QED
  BY <1>7 DEF DamageIsBounded

\* However records are cut off, mixed, or stopped half-way by a crash, the records
\* that were written but cannot be read are no more than the short writes there
\* were, counting twice those of a record that was written in the end.
THEOREM BoundedDamage == Spec => []DamageIsBounded
<1>1. LogInv /\ DamageInv => DamageIsBounded
  BY EachDamageHasACut
<1>2. QED
  BY <1>1, LogInvInit, LogInvStep, DamageInvInit, DamageInvStep, PTL DEF Spec
=============================================================================
