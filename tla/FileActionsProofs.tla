-------------------------- MODULE FileActionsProofs --------------------------
(***************************************************************************)
(* Proofs about module FileActions, for any number of readers and writers  *)
(* of one file, any contents and any limit.                                *)
(*                                                                         *)
(* The properties speak of handlers that have ended.  The invariant says   *)
(* what holds on the way there: what an undisturbed write has put so far   *)
(* is all the file has, and what a read has collected it was once long     *)
(* enough for.                                                             *)
(***************************************************************************)
EXTENDS FileActions, TLAPS

InPlace(s) == \A i \in DOMAIN s : s[i] = Zero \/ s[i][2] = i

\* An undisturbed write is on its way to its content, or there.
QuietWrite(w) ==
  /\ write[w] # "start"
  /\ write[w] \in {"open", "ok"} =>
       /\ Len(bytes) = put[w]
       /\ \A i \in 1..put[w] : bytes[i] = <<w, i>>
  /\ write[w] = "ok" => put[w] = Size[w] /\ mode = w

QuietWrites == \A w \in Writers \cap undisturbed : QuietWrite(w)

\* An undisturbed read has the beginning of the file, and has ended at one of
\* its two ends.
QuietRead(r) ==
  /\ read[r] # "start"
  /\ read[r] \in {"open", "ok"} =>
       /\ Len(data[r]) <= Len(bytes)
       /\ \A i \in 1..Len(data[r]) : data[r][i] = bytes[i]
  /\ read[r] = "ok" =>
       Len(data[r]) = MaxBytes + 1 \/ Len(data[r]) = Len(bytes)

QuietReads == \A r \in Readers \cap undisturbed : QuietRead(r)

\* The lengths seen reach as far as what was collected; the present one is
\* among them while the read is open.
LengthsSeen ==
  \A r \in Readers :
    /\ read[r] = "start" => data[r] = <<>>
    /\ read[r] = "open" => Len(bytes) \in lengths[r]
    /\ read[r] \in {"open", "ok"} => \E l \in lengths[r] : l >= Len(data[r])
    /\ read[r] = "ok" =>
         Len(data[r]) = MaxBytes + 1 \/ \E l \in lengths[r] : l <= Len(data[r])

\* Nobody has put anything before opening the file.
NothingPutYet == \A w \in Writers : write[w] = "start" => put[w] = 0

FInv ==
  /\ TypeOK
  /\ BytesKeepTheirPlace
  /\ NothingPutYet
  /\ QuietWrites
  /\ QuietReads
  /\ LengthsSeen
-----------------------------------------------------------------------------
\* What a write(2) makes of the file, place by place.
LEMMA OverwrittenFile ==
  ASSUME TypeOK, NEW w \in Writers, NEW n \in 1..Size[w], Put(w, n)
  PROVE  /\ n \in Nat \ {0} /\ put[w] \in Nat /\ Len(bytes) \in Nat
         /\ bytes' \in Seq(AnyByte)
         /\ Len(bytes') = Larger(Len(bytes), put[w] + n)
         /\ Len(bytes') \in Nat
         /\ \A i \in 1..Len(bytes') :
              bytes'[i] = IF i \in put[w]+1..put[w]+n THEN <<w, i>>
                          ELSE IF i <= Len(bytes) THEN bytes[i] ELSE Zero
<1>1. n \in Nat \ {0} /\ put[w] \in Nat /\ bytes \in Seq(AnyByte) /\ Len(bytes) \in Nat
  BY SizesAssumption DEF TypeOK
<1> DEFINE L == Larger(Len(bytes), put[w] + n)
           New(i) == IF i \in put[w]+1..put[w]+n THEN <<w, i>>
                     ELSE IF i <= Len(bytes) THEN bytes[i] ELSE Zero
<1>2. L \in Nat
  BY <1>1 DEF Larger
<1>3. bytes' = [i \in 1..L |-> New(i)]
  BY DEF Put, Changes, Overwritten
<1>4. \A i \in 1..L : New(i) \in AnyByte
  <2>1. SUFFICES ASSUME NEW i \in 1..L PROVE New(i) \in AnyByte
    OBVIOUS
  <2>2. i \in Nat \ {0}
    BY <1>2
  <2>3. <<w, i>> \in AnyByte /\ Zero \in AnyByte
    BY <2>2 DEF AnyByte, Zero
  <2>4. i <= Len(bytes) => bytes[i] \in AnyByte
    BY <1>1, <2>2
  <2>5. QED
    BY <2>3, <2>4
<1> HIDE DEF L, New
<1>5. bytes' \in Seq(AnyByte) /\ Len(bytes') = L
  BY <1>2, <1>3, <1>4
<1>6. \A i \in 1..L : bytes'[i] = New(i)
  BY <1>3
<1>7. QED
  BY <1>1, <1>2, <1>5, <1>6 DEF L, New

\* The smaller of two numbers.
LEMMA SmallerOfTwo ==
  ASSUME NEW m \in Nat, NEW n \in Nat
  PROVE  Smaller(m, n) \in Nat /\ Smaller(m, n) <= m /\ Smaller(m, n) <= n
BY DEF Smaller

\* A sequence with another behind it.
LEMMA Concatenated ==
  ASSUME NEW S, NEW s \in Seq(S), NEW t \in Seq(S)
  PROVE  /\ s \o t \in Seq(S)
         /\ Len(s \o t) = Len(s) + Len(t)
         /\ \A i \in 1..Len(s) : (s \o t)[i] = s[i]
         /\ \A i \in Len(s)+1..Len(s)+Len(t) : (s \o t)[i] = t[i - Len(s)]
OBVIOUS

\* What a read of n bytes makes of what was collected.
LEMMA FetchedData ==
  ASSUME TypeOK, NEW r \in Readers, NEW n \in 1..BufBytes, Fetch(r, n)
  PROVE  \E kept \in Nat :
           /\ Len(data[r]) + kept <= Len(bytes)
           /\ Len(data[r]) + kept <= MaxBytes + 1
           /\ data' = [data EXCEPT ![r] =
                         data[r] \o SubSeq(bytes, Len(data[r]) + 1, Len(data[r]) + kept)]
           /\ data'[r] \in Seq(AnyByte)
           /\ Len(data'[r]) = Len(data[r]) + kept
           /\ \A i \in 1..Len(data[r]) : data'[r][i] = data[r][i]
           /\ \A i \in Len(data[r])+1..Len(data[r])+kept : data'[r][i] = bytes[i]
<1> DEFINE old  == data[r]
           kept == Smaller(n, MaxBytes + 1 - Len(old))
           more == SubSeq(bytes, Len(old) + 1, Len(old) + kept)
<1>1. /\ n \in Nat \ {0} /\ MaxBytes \in Nat
      /\ bytes \in Seq(AnyByte) /\ old \in Seq(AnyByte)
      /\ Len(bytes) \in Nat /\ Len(old) \in Nat
  BY SizesAssumption DEF TypeOK
<1>2. Len(old) < MaxBytes + 1 /\ Len(old) + n <= Len(bytes)
  BY DEF Fetch, Reading
<1>3. kept \in Nat /\ kept <= n /\ kept <= MaxBytes + 1 - Len(old)
  <2>1. MaxBytes + 1 - Len(old) \in Nat
    BY <1>1, <1>2
  <2>2. QED
    BY <1>1, <2>1, SmallerOfTwo
<1>4. data' = [data EXCEPT ![r] = old \o more]
  BY DEF Fetch
<1> HIDE DEF kept
<1>5. /\ more \in Seq(AnyByte) /\ Len(more) = kept
      /\ \A i \in 1..kept : more[i] = bytes[Len(old) + i]
  BY <1>1, <1>2, <1>3
<1>6. data'[r] = old \o more
  BY <1>4 DEF TypeOK
<1> HIDE DEF old, more
<1>7. data'[r] \in Seq(AnyByte) /\ Len(data'[r]) = Len(old) + kept
  BY <1>1, <1>5, <1>6, Concatenated
<1>8. \A i \in 1..Len(old) : data'[r][i] = old[i]
  BY <1>1, <1>5, <1>6, Concatenated
<1>9. \A i \in Len(old)+1..Len(old)+kept : data'[r][i] = bytes[i]
  <2>1. SUFFICES ASSUME NEW i \in Len(old)+1..Len(old)+kept
                 PROVE  data'[r][i] = bytes[i]
    OBVIOUS
  <2>2. data'[r][i] = more[i - Len(old)]
    BY <1>1, <1>5, <1>6, Concatenated
  <2>3. i - Len(old) \in 1..kept
    BY <1>1, <1>3
  <2>4. more[i - Len(old)] = bytes[Len(old) + (i - Len(old))]
    BY <1>5, <2>3
  <2>5. Len(old) + (i - Len(old)) = i
    BY <1>1, <1>3
  <2>6. QED
    BY <2>2, <2>4, <2>5
<1>10. Len(old) + kept <= Len(bytes) /\ Len(old) + kept <= MaxBytes + 1
  BY <1>1, <1>2, <1>3
<1>11. QED
  BY <1>3, <1>4, <1>7, <1>8, <1>9, <1>10 DEF old, more

\* Every step keeps the types, and what a handler may hold of a file.
LEMMA TypeStep ==
  ASSUME TypeOK, [Next]_vars
  PROVE  TypeOK'
<1> USE DEF TypeOK, Stages
<1>1. ASSUME NEW w \in Writers, OpenToWrite(w)  PROVE TypeOK'
  <2>1. lengths' \in [Readers -> SUBSET Nat]
    BY <1>1 DEF OpenToWrite
  <2>2. QED
    BY <1>1, <2>1 DEF OpenToWrite, WriteGoes
<1>2. ASSUME NEW w \in Writers, NEW n \in 1..Size[w], Put(w, n)  PROVE TypeOK'
  <2>1. bytes' \in Seq(AnyByte) /\ Len(bytes') \in Nat /\ n \in Nat
    BY <1>2, OverwrittenFile
  <2>2. put' \in [Writers -> Nat] /\ \A v \in Writers : put'[v] <= Size[v]
    BY <1>2, <2>1 DEF Put
  <2>3. lengths' \in [Readers -> SUBSET Nat]
    <3>1. \A r \in Readers : lengths[r] \cup {Len(bytes')} \in SUBSET Nat
      BY <2>1
    <3>2. lengths' = [r \in Readers |->
                        IF read[r] = "open" THEN lengths[r] \cup {Len(bytes')}
                                            ELSE lengths[r]]
      BY <1>2 DEF Put, Changes
    <3>3. QED
      BY <3>1, <3>2
  <2>4. undisturbed' \subseteq Writers \cup Readers
    BY <1>2 DEF Put, Changes
  <2>5. QED
    BY <1>2, <2>1, <2>2, <2>3, <2>4 DEF Put
<1>3. ASSUME NEW w \in Writers, SetPermissions(w) \/ WriteFails(w)  PROVE TypeOK'
  BY <1>3 DEF SetPermissions, WriteFails, WriteGoes
<1>4. ASSUME NEW r \in Readers, OpenToRead(r)  PROVE TypeOK'
  <2>1. lengths' \in [Readers -> SUBSET Nat]
    BY <1>4 DEF OpenToRead
  <2>2. QED
    BY <1>4, <2>1 DEF OpenToRead
<1>5. ASSUME NEW r \in Readers, NEW n \in 1..BufBytes, Fetch(r, n)  PROVE TypeOK'
  <2>1. /\ data'[r] \in Seq(AnyByte) /\ Len(data'[r]) <= MaxBytes + 1
        /\ \E new : data' = [data EXCEPT ![r] = new]
    BY <1>5, FetchedData
  <2>2. /\ data' \in [Readers -> Seq(AnyByte)]
        /\ \A q \in Readers : Len(data'[q]) <= MaxBytes + 1
    BY <2>1
  <2>3. QED
    BY <1>5, <2>2 DEF Fetch
<1>6. ASSUME NEW r \in Readers, ReadEnds(r) \/ ReadFails(r)  PROVE TypeOK'
  BY <1>6 DEF ReadEnds, ReadFails
<1>7. CASE UNCHANGED vars
  BY <1>7 DEF vars
<1>8. QED
  BY <1>1, <1>2, <1>3, <1>4, <1>5, <1>6, <1>7 DEF Next, Quiet

\* A step either writes, opens or fetches, or leaves the file and what was read
\* of it alone.
LEMMA WhoMoves ==
  ASSUME [Next]_vars
  PROVE  \/ \E w \in Writers : OpenToWrite(w)
         \/ \E w \in Writers : \E n \in 1..Size[w] : Put(w, n)
         \/ \E w \in Writers : SetPermissions(w) \/ WriteFails(w)
         \/ \E r \in Readers : OpenToRead(r)
         \/ \E r \in Readers : \E n \in 1..BufBytes : Fetch(r, n)
         \/ \E r \in Readers : ReadEnds(r) \/ ReadFails(r)
         \/ UNCHANGED vars
BY DEF Next, Quiet

\* A byte that is overwritten gets its own place, a gap is zeroed, and a read
\* takes bytes from where the reader stands.
LEMMA PlaceStep ==
  ASSUME TypeOK, BytesKeepTheirPlace, [Next]_vars
  PROVE  BytesKeepTheirPlace'
<1>1. InPlace(bytes) /\ \A r \in Readers : InPlace(data[r])
  BY DEF BytesKeepTheirPlace, InPlace
<1>2. SUFFICES InPlace(bytes') /\ \A r \in Readers : InPlace(data'[r])
  BY DEF BytesKeepTheirPlace, InPlace
<1>3. ASSUME NEW w \in Writers, OpenToWrite(w)
      PROVE  InPlace(bytes') /\ \A r \in Readers : InPlace(data'[r])
  BY <1>1, <1>3 DEF OpenToWrite, InPlace
<1>4. ASSUME NEW w \in Writers, NEW n \in 1..Size[w], Put(w, n)
      PROVE  InPlace(bytes') /\ \A r \in Readers : InPlace(data'[r])
  <2>1. DOMAIN bytes' = 1..Len(bytes') /\ DOMAIN bytes = 1..Len(bytes)
    BY <1>4, OverwrittenFile DEF TypeOK
  <2>2. ASSUME NEW i \in 1..Len(bytes')
        PROVE  bytes'[i] = Zero \/ bytes'[i][2] = i
    <3>1. bytes'[i] = IF i \in put[w]+1..put[w]+n THEN <<w, i>>
                      ELSE IF i <= Len(bytes) THEN bytes[i] ELSE Zero
      BY <1>4, OverwrittenFile
    <3>2. i <= Len(bytes) => i \in DOMAIN bytes
      BY <1>4, <2>1, OverwrittenFile
    <3>3. QED
      BY <1>1, <3>1, <3>2 DEF InPlace
  <2>3. data' = data
    BY <1>4 DEF Put
  <2>4. QED
    BY <1>1, <2>1, <2>2, <2>3 DEF InPlace
<1>5. ASSUME NEW r \in Readers, NEW n \in 1..BufBytes, Fetch(r, n)
      PROVE  InPlace(bytes') /\ \A q \in Readers : InPlace(data'[q])
  <2>1. PICK kept \in Nat :
          /\ Len(data[r]) + kept <= Len(bytes)
          /\ \E new : data' = [data EXCEPT ![r] = new]
          /\ data'[r] \in Seq(AnyByte)
          /\ Len(data'[r]) = Len(data[r]) + kept
          /\ \A i \in 1..Len(data[r]) : data'[r][i] = data[r][i]
          /\ \A i \in Len(data[r])+1..Len(data[r])+kept : data'[r][i] = bytes[i]
    BY <1>5, FetchedData
  <2>2. /\ data[r] \in Seq(AnyByte) /\ bytes \in Seq(AnyByte)
        /\ \A q \in Readers \ {r} : data'[q] = data[q]
    BY <2>1 DEF TypeOK
  <2>3. ASSUME NEW i \in 1..Len(data'[r])
        PROVE  data'[r][i] = Zero \/ data'[r][i][2] = i
    <3>1. CASE i \in 1..Len(data[r])
      BY <1>1, <2>1, <2>2, <3>1 DEF InPlace
    <3>2. CASE i \in Len(data[r])+1..Len(data[r])+kept
      <4>1. i \in DOMAIN bytes
        BY <2>1, <2>2, <3>2
      <4>2. QED
        BY <1>1, <2>1, <3>2, <4>1 DEF InPlace
    <3>3. QED
      BY <2>1, <2>2, <3>1, <3>2
  <2>4. InPlace(data'[r])
    BY <2>1, <2>3 DEF InPlace
  <2>5. bytes' = bytes
    BY <1>5 DEF Fetch
  <2>6. QED
    BY <1>1, <2>2, <2>4, <2>5
<1>6. ASSUME UNCHANGED <<bytes, data>>
      PROVE  InPlace(bytes') /\ \A r \in Readers : InPlace(data'[r])
  BY <1>1, <1>6
<1>7. QED
  BY <1>3, <1>4, <1>5, <1>6, WhoMoves
     DEF SetPermissions, WriteFails, OpenToRead, ReadEnds, ReadFails, vars

\* A write puts only after it has opened.
LEMMA NothingStep ==
  ASSUME TypeOK, NothingPutYet, [Next]_vars
  PROVE  NothingPutYet'
<1> USE DEF TypeOK, NothingPutYet
<1>1. ASSUME NEW w \in Writers, OpenToWrite(w)  PROVE NothingPutYet'
  BY <1>1 DEF OpenToWrite, WriteGoes
<1>2. ASSUME NEW w \in Writers, NEW n \in 1..Size[w], Put(w, n)  PROVE NothingPutYet'
  BY <1>2 DEF Put
<1>3. ASSUME NEW w \in Writers, SetPermissions(w) \/ WriteFails(w)
      PROVE  NothingPutYet'
  BY <1>3 DEF SetPermissions, WriteFails, WriteGoes
<1>4. ASSUME UNCHANGED <<write, put>>  PROVE NothingPutYet'
  BY <1>4
<1>5. QED
  BY <1>1, <1>2, <1>3, <1>4, WhoMoves
     DEF OpenToRead, Fetch, ReadEnds, ReadFails, vars

\* A writer that changes the file or its mode is the only one undisturbed.
LEMMA QuietWriteStep ==
  ASSUME TypeOK, NothingPutYet, QuietWrites, [Next]_vars
  PROVE  QuietWrites'
<1> USE DEF QuietWrites, QuietWrite
<1>1. ASSUME NEW w \in Writers, OpenToWrite(w)  PROVE QuietWrites'
  <2>1. /\ undisturbed' = {w} /\ write'[w] = "open"
        /\ bytes' = <<>> /\ put'[w] = 0
    BY <1>1 DEF OpenToWrite, WriteGoes, TypeOK, NothingPutYet
  <2>2. QED
    BY <2>1
<1>2. ASSUME NEW w \in Writers, NEW n \in 1..Size[w], Put(w, n)  PROVE QuietWrites'
  <2>1. /\ undisturbed' = undisturbed \cap {w} /\ write' = write
        /\ write[w] = "open" /\ put'[w] = put[w] + n
    BY <1>2 DEF Put, Changes, TypeOK
  <2>2. ASSUME w \in undisturbed
        PROVE  Len(bytes') = put[w] + n /\ \A i \in 1..put[w]+n : bytes'[i] = <<w, i>>
    <3>1. Len(bytes) = put[w] /\ \A i \in 1..put[w] : bytes[i] = <<w, i>>
      BY <2>1, <2>2
    <3>2. n \in Nat \ {0} /\ put[w] \in Nat
      BY <1>2, OverwrittenFile
    <3>3. Len(bytes') = put[w] + n
      BY <1>2, <3>1, <3>2, OverwrittenFile DEF Larger
    <3>4. ASSUME NEW i \in 1..put[w]+n  PROVE bytes'[i] = <<w, i>>
      <4>1. bytes'[i] = IF i \in put[w]+1..put[w]+n THEN <<w, i>>
                        ELSE IF i <= Len(bytes) THEN bytes[i] ELSE Zero
        BY <1>2, <3>3, OverwrittenFile
      <4>2. i \in put[w]+1..put[w]+n \/ i \in 1..put[w]
        BY <3>2
      <4>3. CASE i \in put[w]+1..put[w]+n
        BY <4>1, <4>3
      <4>4. CASE i \in 1..put[w]
        BY <3>1, <3>2, <4>1, <4>4
      <4>5. QED
        BY <4>2, <4>3, <4>4
    <3>5. QED
      BY <3>3, <3>4
  <2>3. QED
    BY <2>1, <2>2
<1>3. ASSUME NEW w \in Writers, SetPermissions(w)  PROVE QuietWrites'
  <2>1. /\ Writers \cap undisturbed' \subseteq {w} \cap undisturbed
        /\ bytes' = bytes /\ put' = put /\ mode' = w /\ put[w] = Size[w]
        /\ write[w] = "open" /\ write'[w] = "ok"
    BY <1>3 DEF SetPermissions, WriteGoes, TypeOK
  <2>2. QED
    BY <2>1
<1>4. ASSUME NEW w \in Writers, WriteFails(w)  PROVE QuietWrites'
  BY <1>4 DEF WriteFails, TypeOK
<1>5. ASSUME UNCHANGED <<bytes, put, mode, write>>,
             Writers \cap undisturbed' \subseteq undisturbed
      PROVE  QuietWrites'
  BY <1>5
<1>6. ASSUME NEW r \in Readers, OpenToRead(r)  PROVE QuietWrites'
  <2>1. UNCHANGED <<bytes, put, mode, write>> /\ undisturbed' = undisturbed \cup {r}
    BY <1>6 DEF OpenToRead
  <2>2. QED
    BY <1>5, <2>1, SizesAssumption
<1>7. QED
  BY <1>1, <1>2, <1>3, <1>4, <1>5, <1>6, WhoMoves DEF Fetch, ReadEnds, ReadFails, vars

\* A write disturbs every read; between writes the file stays as it is.
LEMMA QuietReadStep ==
  ASSUME TypeOK, QuietReads, LengthsSeen, [Next]_vars
  PROVE  QuietReads'
<1> USE DEF QuietReads, QuietRead
<1>1. ASSUME NEW w \in Writers, OpenToWrite(w)  PROVE QuietReads'
  BY <1>1, SizesAssumption DEF OpenToWrite
<1>2. ASSUME NEW w \in Writers, NEW n \in 1..Size[w], Put(w, n)  PROVE QuietReads'
  BY <1>2, SizesAssumption DEF Put, Changes
<1>3. ASSUME UNCHANGED <<bytes, read, data>>,
             Readers \cap undisturbed' \subseteq undisturbed
      PROVE  QuietReads'
  BY <1>3
<1>4. ASSUME NEW r \in Readers, OpenToRead(r)  PROVE QuietReads'
  <2>1. /\ undisturbed' = undisturbed \cup {r} /\ bytes' = bytes /\ data' = data
        /\ read' = [read EXCEPT ![r] = "open"] /\ data[r] = <<>>
    BY <1>4 DEF OpenToRead, LengthsSeen
  <2>2. Len(bytes) \in Nat
    BY DEF TypeOK
  <2>3. QuietRead(r)'
    BY <2>1, <2>2 DEF TypeOK
  <2>4. \A q \in (Readers \cap undisturbed) \ {r} : QuietRead(q)'
    BY <2>1 DEF TypeOK
  <2>5. QED
    BY <2>1, <2>3, <2>4
<1>5. ASSUME NEW r \in Readers, NEW n \in 1..BufBytes, Fetch(r, n)  PROVE QuietReads'
  <2>1. PICK kept \in Nat :
          /\ Len(data[r]) + kept <= Len(bytes)
          /\ \E new : data' = [data EXCEPT ![r] = new]
          /\ Len(data'[r]) = Len(data[r]) + kept
          /\ \A i \in 1..Len(data[r]) : data'[r][i] = data[r][i]
          /\ \A i \in Len(data[r])+1..Len(data[r])+kept : data'[r][i] = bytes[i]
    BY <1>5, FetchedData
  <2>2. /\ UNCHANGED <<bytes, read, undisturbed>> /\ read[r] = "open"
        /\ \A q \in Readers \ {r} : data'[q] = data[q]
        /\ Len(data[r]) \in Nat
    BY <1>5, <2>1 DEF Fetch, Reading, TypeOK
  <2>3. ASSUME r \in undisturbed  PROVE QuietRead(r)'
    <3>1. \A i \in 1..Len(data[r]) : data[r][i] = bytes[i]
      BY <2>2, <2>3
    <3>2. \A i \in 1..Len(data'[r]) : data'[r][i] = bytes[i]
      BY <2>1, <2>2, <3>1
    <3>3. QED
      BY <2>1, <2>2, <3>2
  <2>4. QED
    BY <2>2, <2>3
<1>6. ASSUME NEW r \in Readers, ReadEnds(r)  PROVE QuietReads'
  <2>1. /\ UNCHANGED <<bytes, data, undisturbed>> /\ read[r] = "open"
        /\ read' = [read EXCEPT ![r] = "ok"]
        /\ Len(data[r]) = MaxBytes + 1 \/ Len(data[r]) >= Len(bytes)
    <3>1. Len(data[r]) \in Nat /\ Len(data[r]) <= MaxBytes + 1 /\ MaxBytes \in Nat
      BY SizesAssumption DEF TypeOK
    <3>2. QED
      BY <1>6, <3>1 DEF ReadEnds, Reading
  <2>2. Len(bytes) \in Nat /\ Len(data[r]) \in Nat
    BY DEF TypeOK
  <2>3. QED
    BY <2>1, <2>2 DEF TypeOK
<1>7. ASSUME NEW r \in Readers, ReadFails(r)  PROVE QuietReads'
  BY <1>7 DEF ReadFails, TypeOK
<1>8. QED
  BY <1>1, <1>2, <1>3, <1>4, <1>5, <1>6, <1>7, WhoMoves
     DEF SetPermissions, WriteFails, vars

\* A change of the file is seen by who is reading it, and what is fetched is
\* covered by the length of the moment.
LEMMA LengthsStep ==
  ASSUME TypeOK, LengthsSeen, [Next]_vars
  PROVE  LengthsSeen'
<1> USE DEF LengthsSeen
<1>1. ASSUME NEW w \in Writers, OpenToWrite(w)  PROVE LengthsSeen'
  <2>1. /\ UNCHANGED <<read, data>> /\ bytes' = <<>>
        /\ \A r \in Readers :
             lengths'[r] = IF read[r] = "open" THEN lengths[r] \cup {0} ELSE lengths[r]
    BY <1>1 DEF OpenToWrite
  <2>2. QED
    BY <2>1
<1>2. ASSUME NEW w \in Writers, NEW n \in 1..Size[w], Put(w, n)  PROVE LengthsSeen'
  <2>1. /\ UNCHANGED <<read, data>>
        /\ \A r \in Readers :
             lengths'[r] = IF read[r] = "open" THEN lengths[r] \cup {Len(bytes')}
                                               ELSE lengths[r]
    BY <1>2 DEF Put, Changes
  <2>2. QED
    BY <2>1
<1>3. ASSUME UNCHANGED <<bytes, read, data, lengths>>  PROVE LengthsSeen'
  BY <1>3
<1>4. ASSUME NEW r \in Readers, OpenToRead(r)  PROVE LengthsSeen'
  <2>1. /\ UNCHANGED <<bytes, data>> /\ data[r] = <<>>
        /\ read' = [read EXCEPT ![r] = "open"]
        /\ lengths' = [lengths EXCEPT ![r] = {Len(bytes)}]
    BY <1>4 DEF OpenToRead
  <2>2. Len(bytes) \in Nat /\ Len(data[r]) = 0
    BY <2>1 DEF TypeOK
  <2>3. \E l \in {Len(bytes)} : l >= Len(data[r])
    BY <2>2
  <2>4. QED
    BY <2>1, <2>3 DEF TypeOK
<1>5. ASSUME NEW r \in Readers, NEW n \in 1..BufBytes, Fetch(r, n)  PROVE LengthsSeen'
  <2>1. PICK kept \in Nat :
          /\ Len(data[r]) + kept <= Len(bytes)
          /\ \E new : data' = [data EXCEPT ![r] = new]
          /\ Len(data'[r]) = Len(data[r]) + kept
    BY <1>5, FetchedData
  <2>2. /\ UNCHANGED <<bytes, read, lengths>> /\ read[r] = "open"
        /\ \A q \in Readers \ {r} : data'[q] = data[q]
    BY <1>5, <2>1 DEF Fetch, Reading, TypeOK
  <2>3. \E l \in lengths[r] : l >= Len(data'[r])
    <3>1. Len(bytes) \in lengths[r] /\ Len(bytes) >= Len(data'[r])
      BY <2>1, <2>2
    <3>2. QED
      BY <3>1
  <2>4. QED
    BY <2>2, <2>3
<1>6. ASSUME NEW r \in Readers, ReadEnds(r)  PROVE LengthsSeen'
  <2>1. /\ UNCHANGED <<bytes, data, lengths>> /\ read[r] = "open"
        /\ read' = [read EXCEPT ![r] = "ok"]
        /\ Len(data[r]) = MaxBytes + 1 \/ Len(bytes) <= Len(data[r])
    <3>1. /\ Len(data[r]) \in Nat /\ Len(data[r]) <= MaxBytes + 1
          /\ MaxBytes \in Nat /\ Len(bytes) \in Nat
      BY SizesAssumption DEF TypeOK
    <3>2. QED
      BY <1>6, <3>1 DEF ReadEnds, Reading
  <2>2. QED
    BY <2>1 DEF TypeOK
<1>7. ASSUME NEW r \in Readers, ReadFails(r)  PROVE LengthsSeen'
  BY <1>7 DEF ReadFails, TypeOK
<1>8. QED
  BY <1>1, <1>2, <1>3, <1>4, <1>5, <1>6, <1>7, WhoMoves
     DEF SetPermissions, WriteFails, vars

\* The invariant is inductive.
LEMMA FInvStep == FInv /\ [Next]_vars => FInv'
BY TypeStep, PlaceStep, NothingStep, QuietWriteStep, QuietReadStep, LengthsStep
   DEF FInv

\* It holds of a file that nobody has opened.
LEMMA FInvInit == Init => FInv
<1> SUFFICES ASSUME Init PROVE FInv
  OBVIOUS
<1>1. PICK n \in 0..MaxBytes+2 : bytes = [i \in 1..n |-> <<Default, i>>]
  BY DEF Init
<1>2. n \in Nat
  BY SizesAssumption
<1>3. bytes \in Seq(AnyByte)
  <2>1. \A i \in 1..n : <<Default, i>> \in AnyByte
    BY <1>2 DEF AnyByte
  <2>2. QED
    BY <1>1, <1>2, <2>1
<1>4. TypeOK
  BY <1>3, SizesAssumption DEF Init, TypeOK, Stages
<1>5. BytesKeepTheirPlace
  BY <1>1, <1>2 DEF Init, BytesKeepTheirPlace
<1>6. NothingPutYet /\ QuietWrites /\ QuietReads /\ LengthsSeen
  BY DEF Init, NothingPutYet, QuietWrites, QuietReads, LengthsSeen
<1>7. QED
  BY <1>4, <1>5, <1>6 DEF FInv
-----------------------------------------------------------------------------
\* Type correctness, and no handler ever holds more of a file than it may.
THEOREM TypeCorrectness == Spec => []TypeOK
<1>1. FInv => TypeOK
  BY DEF FInv
<1>2. QED
  BY <1>1, FInvInit, FInvStep, PTL DEF Spec

\* However many writes and reads of one file interleave, no byte is found at
\* another place than its own.
THEOREM PlacesKept == Spec => []BytesKeepTheirPlace
<1>1. FInv => BytesKeepTheirPlace
  BY DEF FInv
<1>2. QED
  BY <1>1, FInvInit, FInvStep, PTL DEF Spec

\* A write that reports ok and was alone has left its content under its mode.
THEOREM QuietWritesExact == Spec => []QuietWriteIsExact
<1>1. FInv => QuietWriteIsExact
  <2>1. SUFFICES ASSUME FInv, NEW w \in Writers \cap undisturbed, write[w] = "ok"
                 PROVE  bytes = Content(w) /\ mode = w
    BY DEF QuietWriteIsExact
  <2>2. /\ Len(bytes) = Size[w] /\ mode = w
        /\ \A i \in 1..Size[w] : bytes[i] = <<w, i>>
    BY <2>1 DEF FInv, QuietWrites, QuietWrite
  <2>3. bytes \in Seq(AnyByte) /\ bytes = [i \in 1..Len(bytes) |-> bytes[i]]
    BY <2>1 DEF FInv, TypeOK
  <2>4. QED
    BY <2>2, <2>3 DEF Content
<1>2. QED
  BY <1>1, FInvInit, FInvStep, PTL DEF Spec

\* A read that was alone returns the beginning of the file with the right flag.
THEOREM QuietReadsExact == Spec => []QuietReadIsExact
<1>1. FInv => QuietReadIsExact
  <2>1. SUFFICES ASSUME FInv, NEW r \in Readers \cap undisturbed, read[r] = "ok"
                 PROVE  /\ Returned(r) = SubSeq(bytes, 1, Smaller(MaxBytes, Len(bytes)))
                        /\ Truncated(r) <=> Len(bytes) > MaxBytes
    BY DEF QuietReadIsExact
  <2>2. /\ Len(data[r]) <= Len(bytes)
        /\ \A i \in 1..Len(data[r]) : data[r][i] = bytes[i]
        /\ Len(data[r]) = MaxBytes + 1 \/ Len(data[r]) = Len(bytes)
    BY <2>1 DEF FInv, QuietReads, QuietRead
  <2>3. /\ bytes \in Seq(AnyByte) /\ data[r] \in Seq(AnyByte)
        /\ Len(bytes) \in Nat /\ Len(data[r]) \in Nat /\ MaxBytes \in Nat
        /\ Len(data[r]) <= MaxBytes + 1
    BY <2>1, SizesAssumption DEF FInv, TypeOK
  <2>4. Truncated(r) <=> Len(bytes) > MaxBytes
    BY <2>2, <2>3 DEF Truncated
  <2> DEFINE m == Smaller(MaxBytes, Len(data[r]))
  <2>5. m = Smaller(MaxBytes, Len(bytes)) /\ m \in Nat /\ m <= Len(data[r])
    BY <2>2, <2>3 DEF Smaller
  <2> HIDE DEF m
  <2>6. SubSeq(data[r], 1, m) = SubSeq(bytes, 1, m)
    <3>1. SubSeq(data[r], 1, m) = [i \in 1..m |-> data[r][i]]
      BY <2>3, <2>5
    <3>2. SubSeq(bytes, 1, m) = [i \in 1..m |-> bytes[i]]
      BY <2>2, <2>3, <2>5
    <3>3. \A i \in 1..m : data[r][i] = bytes[i]
      BY <2>2, <2>3, <2>5
    <3>4. QED
      BY <3>1, <3>2, <3>3
  <2>7. QED
    BY <2>4, <2>5, <2>6 DEF Returned, m
<1>2. QED
  BY <1>1, FInvInit, FInvStep, PTL DEF Spec

\* What a read reports is backed by lengths the file had while it was reading.
THEOREM ReportsWereTrue == Spec => []ReportedLengthWasSeen
<1>1. FInv => ReportedLengthWasSeen
  <2>1. SUFFICES ASSUME FInv, NEW r \in Readers, read[r] = "ok"
                 PROVE  IF Truncated(r)
                          THEN \E l \in lengths[r] : l > MaxBytes
                          ELSE /\ \E l \in lengths[r] : l <= Len(data[r])
                               /\ \E l \in lengths[r] : l >= Len(data[r])
    BY DEF ReportedLengthWasSeen
  <2>2. /\ MaxBytes \in Nat /\ Len(data[r]) \in Nat
        /\ \A l \in lengths[r] : l \in Nat
    BY <2>1, SizesAssumption DEF FInv, TypeOK
  <2>3. /\ \E l \in lengths[r] : l >= Len(data[r])
        /\ Len(data[r]) = MaxBytes + 1 \/ \E l \in lengths[r] : l <= Len(data[r])
    BY <2>1 DEF FInv, LengthsSeen
  <2>4. QED
    BY <2>2, <2>3 DEF Truncated
<1>2. QED
  BY <1>1, FInvInit, FInvStep, PTL DEF Spec
=============================================================================
