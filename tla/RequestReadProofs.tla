-------------------------- MODULE RequestReadProofs --------------------------
(***************************************************************************)
(* The read loop keeps its promises for every limit and every buffer size. *)
(*                                                                         *)
(* A reader of LimitIsExact sees only outcomes; what carries it through    *)
(* the loop is that exceeded separates an input that has every byte taken  *)
(* from a count that is past the limit.                                    *)
(***************************************************************************)
EXTENDS RequestRead, SequenceTheorems, TLAPS

ExceededSeparates == IF exceeded THEN taken = MaxRequest + 1
                                 ELSE taken = Len(input)

OutcomeFollows ==
  /\ phase = "too_large" => exceeded
  /\ phase \in {"parse", "timed_out"} => ~exceeded

Progress == InputIsAPrefix /\ ExceededSeparates /\ OutcomeFollows

IInv == CountsOK /\ FlagsOK /\ Progress
-----------------------------------------------------------------------------
\* The flags keep their types whatever the counts do.
LEMMA FlagsStep == FlagsOK /\ [Next]_vars => FlagsOK'
BY DEF FlagsOK, Next, Send, Close, ReadSome, Read, Take, EndOfInput, IdleTimeout,
       ReadFails, Over, Outcome, Outcomes, vars

\* A chunk that fits extends the prefix by its own positions.
LEMMA FittingRead ==
  ASSUME CountsOK, InputIsAPrefix, NEW n \in Nat, n <= pending,
         taken = Len(input), Len(input) + n <= MaxRequest
  PROVE  /\ input \o Positions(n) \in Seq(1..MaxRequest)
         /\ Len(input \o Positions(n)) = taken + n
         /\ \A i \in DOMAIN (input \o Positions(n)) : (input \o Positions(n))[i] = i
<1> USE SizesAssumption
<1>0. /\ input \in Seq(1..MaxRequest) /\ Len(input) \in Nat
      /\ taken \in Nat
      /\ \A i \in 1..Len(input) : input[i] = i
  BY DEF CountsOK, InputIsAPrefix
<1>1. \A i \in 1..n : taken + i \in 1..MaxRequest
  BY <1>0
<1>2. Positions(n) \in Seq(1..MaxRequest)
  BY <1>1 DEF Positions
<1>3. Len(Positions(n)) = n /\ \A i \in 1..n : Positions(n)[i] = taken + i
  BY DEF Positions
<1> DEFINE whole == input \o Positions(n)
<1>4. whole \in Seq(1..MaxRequest)
  BY <1>0, <1>2
<1>5. /\ Len(whole) = Len(input) + Len(Positions(n))
      /\ \A i \in 1..(Len(input) + Len(Positions(n))) :
           whole[i] = IF i <= Len(input) THEN input[i] ELSE Positions(n)[i - Len(input)]
  BY <1>0, <1>2, ConcatProperties
<1> HIDE DEF whole
<1>6. Len(whole) = taken + n /\ \A i \in 1..(taken + n) : whole[i] = i
  <2>1. ASSUME NEW i \in 1..(taken + n), i > Len(input)
        PROVE  i - Len(input) \in 1..n
    BY <1>0, <2>1
  <2> QED  BY <1>0, <1>3, <1>5, <2>1
<1>7. DOMAIN whole = 1..(taken + n)
  BY <1>4, <1>6
<1> QED  BY <1>4, <1>6, <1>7 DEF whole

\* One round of the loop.
LEMMA ReadStep ==
  ASSUME IInv, NEW n \in 1..Smaller(pending, BufBytes), Read(n)
  PROVE  CountsOK' /\ Progress'
<1> USE SizesAssumption
<1>0. /\ n \in Nat \ {0} /\ n <= pending
      /\ taken \in Nat /\ taken <= MaxRequest + 1
      /\ input \in Seq(1..MaxRequest) /\ Len(input) \in Nat
      /\ pending \in Nat /\ pending <= SocketBytes
  BY DEF IInv, CountsOK, Smaller
<1>1. phase = "reading" /\ phase' = phase
  BY DEF Read, Take
<1>2. /\ pending' = pending - n
      /\ taken' = Smaller(taken + n, MaxRequest + 1)
  BY DEF Read, Take
<1>3. CASE ~exceeded /\ Len(input) + n <= MaxRequest
  <2>1. taken = Len(input)
    BY <1>3 DEF IInv, Progress, ExceededSeparates
  <2>2. input' = input \o Positions(n) /\ ~exceeded'
    BY <1>3 DEF Read
  <2>3. taken' = taken + n
    BY <1>0, <1>2, <1>3, <2>1 DEF Smaller
  <2>4. /\ input' \in Seq(1..MaxRequest)
        /\ Len(input') = taken'
        /\ InputIsAPrefix'
    BY <1>0, <1>3, <2>1, <2>2, <2>3, FittingRead
       DEF IInv, Progress, InputIsAPrefix
  <2>5. CountsOK'
    BY <1>0, <1>2, <1>3, <2>1, <2>3, <2>4 DEF CountsOK
  <2>6. ExceededSeparates' /\ OutcomeFollows'
    BY <1>1, <2>2, <2>4 DEF ExceededSeparates, OutcomeFollows
  <2> QED  BY <2>4, <2>5, <2>6 DEF Progress
<1>4. CASE exceeded \/ Len(input) + n > MaxRequest
  <2>1. taken + n > MaxRequest
    <3>1. CASE exceeded
      BY <1>0, <3>1 DEF IInv, Progress, ExceededSeparates
    <3>2. CASE ~exceeded
      BY <1>0, <1>4, <3>2 DEF IInv, Progress, ExceededSeparates
    <3> QED  BY <3>1, <3>2
  <2>2. ~(~exceeded /\ Len(input) + n <= MaxRequest)
    BY <1>0, <1>4
  <2>3. input' = input /\ exceeded'
    BY <2>2 DEF Read
  <2>4. taken' = MaxRequest + 1
    BY <1>0, <1>2, <2>1 DEF Smaller
  <2>5. CountsOK'
    BY <1>0, <1>2, <2>3, <2>4 DEF CountsOK
  <2>6. Progress'
    BY <1>1, <2>3, <2>4
       DEF IInv, Progress, InputIsAPrefix, ExceededSeparates, OutcomeFollows
  <2> QED  BY <2>5, <2>6
<1> QED  BY <1>0, <1>3, <1>4

\* The end of the loop says which of the two it was.
LEMMA FinishStep ==
  ASSUME IInv, EndOfInput \/ IdleTimeout
  PROVE  CountsOK' /\ Progress'
<1>1. UNCHANGED <<pending, closed, taken, input, exceeded>>
  BY DEF EndOfInput, IdleTimeout
<1>2. CountsOK'  BY <1>1 DEF IInv, CountsOK
<1>3. InputIsAPrefix' /\ ExceededSeparates'
  BY <1>1 DEF IInv, Progress, InputIsAPrefix, ExceededSeparates
<1>4. OutcomeFollows'
  BY DEF IInv, Progress, OutcomeFollows, EndOfInput, IdleTimeout, Outcome, FlagsOK
<1> QED  BY <1>2, <1>3, <1>4 DEF Progress

LEMMA IInvInit == Init => IInv
<1> SUFFICES ASSUME Init PROVE IInv
  OBVIOUS
<1>1. CountsOK  BY SizesAssumption DEF Init, CountsOK
<1>2. FlagsOK  BY DEF Init, FlagsOK, Outcomes
<1>3. Progress
  BY DEF Init, Progress, InputIsAPrefix, ExceededSeparates, OutcomeFollows
<1> QED  BY <1>1, <1>2, <1>3 DEF IInv

LEMMA IInvStep == IInv /\ [Next]_vars => IInv'
<1> SUFFICES ASSUME IInv, [Next]_vars PROVE CountsOK' /\ Progress'
  BY FlagsStep DEF IInv
<1>1. ASSUME NEW n \in 1..SocketBytes, Send(n) PROVE CountsOK' /\ Progress'
  <2>1. CountsOK'  BY <1>1, SizesAssumption DEF IInv, CountsOK, Send
  <2>2. Progress'
    BY <1>1 DEF IInv, Progress, InputIsAPrefix, ExceededSeparates, OutcomeFollows, Send
  <2> QED  BY <2>1, <2>2
<1>2. CASE Close \/ ReadFails \/ Over \/ UNCHANGED vars
  <2>1. CountsOK'
    BY <1>2 DEF IInv, CountsOK, Close, ReadFails, Over, vars
  <2>2. InputIsAPrefix' /\ ExceededSeparates'
    BY <1>2 DEF IInv, Progress, InputIsAPrefix, ExceededSeparates, Close, ReadFails,
                Over, vars
  <2>3. OutcomeFollows'
    BY <1>2 DEF IInv, Progress, OutcomeFollows, Close, ReadFails, Over, vars
  <2> QED  BY <2>1, <2>2, <2>3 DEF Progress
<1>3. CASE ReadSome
  BY <1>3, ReadStep DEF ReadSome
<1>4. CASE EndOfInput \/ IdleTimeout
  BY <1>4, FinishStep
<1> QED  BY <1>1, <1>2, <1>3, <1>4 DEF Next

\* The loop and its environment keep the two apart.
THEOREM Invariance == Spec => []IInv
BY IInvInit, IInvStep, PTL DEF Spec

\* Type correctness of the read loop.
THEOREM TypeCorrectness == Spec => []TypeOK
<1>1. IInv => TypeOK  BY DEF IInv, TypeOK
<1> QED  BY <1>1, Invariance, PTL

\* The input is the beginning of what was sent, whatever sizes the pieces have.
THEOREM InputPrefix == Spec => []InputIsAPrefix
<1>1. IInv => InputIsAPrefix  BY DEF IInv, Progress
<1> QED  BY <1>1, Invariance, PTL

\* Rejected as too large exactly past the limit, and complete below it.
THEOREM ExactLimit == Spec => []LimitIsExact
<1>1. IInv => LimitIsExact
  BY SizesAssumption
     DEF IInv, CountsOK, Progress, LimitIsExact, ExceededSeparates, OutcomeFollows
<1> QED  BY <1>1, Invariance, PTL
=============================================================================
