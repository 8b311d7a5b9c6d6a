-------------------------- MODULE SocketPathProofs --------------------------
(***************************************************************************)
(* Proofs of the safety properties of SocketPath, for any number of        *)
(* daemons on the path.                                                    *)
(***************************************************************************)
EXTENDS SocketPath, TLAPS

\* Whoever starts while another does has been noted to race it.
MeetingIsNoted ==
  \A d, e \in Daemons :
    d # e /\ stage[d] \in Starting /\ stage[e] \in Starting => d \in raced

\* What a start finds otherwise than it left it was done by a start it met.
SurprisedByARace ==
  \A d \in Daemons :
    /\ stage[d] = "removing" /\ path = NoFile => d \in raced
    /\ stage[d] = "binding" /\ path # NoFile => d \in raced

\* As long as nobody fell out of the chain, the path leads to who serves it, or
\* who removed it is about to bind.
PathIsHandedOn ==
  ~vacant => \/ path \in Daemons /\ stage[path] = "serving"
             \/ path = NoFile /\ \E d \in Daemons : stage[d] = "binding"

RInv == TypeOK /\ MeetingIsNoted /\ SurprisedByARace /\ StartFailsOnlyInARace
PInv == TypeOK /\ PathIsHandedOn

\* Every step keeps the types.
LEMMA TypeStep == TypeOK /\ [Next]_vars => TypeOK'
<1> SUFFICES ASSUME TypeOK, [Next]_vars PROVE TypeOK'
  OBVIOUS
<1> USE DEF TypeOK, Stages, Starting, Failed
<1>1. ASSUME NEW d \in Daemons, Start(d) PROVE TypeOK'
  BY <1>1 DEF Start
<1>2. ASSUME NEW d \in Daemons, Run(d) PROVE TypeOK'
  BY <1>2 DEF Run, Look, Remove, RemoveFails, Bind, BindFails, Denied, Goes
<1>3. ASSUME NEW d \in Daemons, Die(d) PROVE TypeOK'
  BY <1>3 DEF Die, Reachable
<1>4. CASE UNCHANGED vars
  BY <1>4 DEF vars
<1> QED BY <1>1, <1>2, <1>3, <1>4 DEF Next

\* The histories and the path of what only one daemon does to its stage.
LEMMA RaceStep == RInv /\ [Next]_vars => RInv'
<1> SUFFICES ASSUME RInv, [Next]_vars PROVE RInv'
  OBVIOUS
<1>0. TypeOK'
  BY TypeStep DEF RInv
<1> USE NoFileAssumption DEF RInv, TypeOK, Stages, Starting, Failed,
                             MeetingIsNoted, SurprisedByARace, StartFailsOnlyInARace
<1>1. ASSUME NEW d \in Daemons, Start(d) PROVE RInv'
  <2> DEFINE others == {e \in Daemons \ {d} : stage[e] \in Starting}
  <2>1. CASE others = {}
    <3>1. raced' = raced \ {d} /\ path' = path /\ stage' = [stage EXCEPT ![d] = "looking"]
      BY <1>1, <2>1 DEF Start
    <3>2. \A e \in Daemons \ {d} : stage[e] \notin Starting
      BY <2>1
    <3>3. MeetingIsNoted'
      BY <3>1, <3>2
    <3>4. SurprisedByARace' /\ StartFailsOnlyInARace'
      BY <3>1, <3>2
    <3> QED BY <1>0, <3>3, <3>4
  <2>2. CASE others # {}
    <3>1. raced' = raced \cup others \cup {d} /\ path' = path /\ stage' = [stage EXCEPT ![d] = "looking"]
      BY <1>1, <2>2 DEF Start
    <3> QED BY <1>0, <3>1
  <2> QED BY <2>1, <2>2
<1>2. ASSUME NEW d \in Daemons, Look(d) PROVE RInv'
  BY <1>0, <1>2 DEF Look, Goes
<1>3. ASSUME NEW d \in Daemons, Remove(d) PROVE RInv'
  BY <1>0, <1>3 DEF Remove, Goes
<1>4. ASSUME NEW d \in Daemons, RemoveFails(d) PROVE RInv'
  BY <1>0, <1>4 DEF RemoveFails, Goes
<1>5. ASSUME NEW d \in Daemons, Bind(d) PROVE RInv'
  BY <1>0, <1>5 DEF Bind, Goes
<1>6. ASSUME NEW d \in Daemons, BindFails(d) PROVE RInv'
  BY <1>0, <1>6 DEF BindFails, Goes
<1>7. ASSUME NEW d \in Daemons, Die(d) PROVE RInv'
  BY <1>0, <1>7 DEF Die
<1>8. CASE UNCHANGED vars
  BY <1>8 DEF vars
<1>9. ASSUME NEW d \in Daemons, Denied(d) PROVE RInv'
  BY <1>0, <1>9 DEF Denied
<1> QED
  BY <1>1, <1>2, <1>3, <1>4, <1>5, <1>6, <1>7, <1>8, <1>9 DEF Next, Run

\* The path is handed on from start to start.
LEMMA PathStep == PInv /\ [Next]_vars => PInv'
<1> SUFFICES ASSUME PInv, [Next]_vars PROVE PInv'
  OBVIOUS
<1>0. TypeOK'
  BY TypeStep DEF PInv
<1> USE NoFileAssumption DEF PInv, TypeOK, Stages, Starting, Failed, PathIsHandedOn
<1>1. ASSUME NEW d \in Daemons, Start(d) PROVE PInv'
  BY <1>0, <1>1 DEF Start
<1>2. ASSUME NEW d \in Daemons, Look(d) PROVE PInv'
  BY <1>0, <1>2 DEF Look, Goes
<1>3. ASSUME NEW d \in Daemons, Remove(d) PROVE PInv'
  BY <1>0, <1>3 DEF Remove, Goes
<1>4. ASSUME NEW d \in Daemons, RemoveFails(d) PROVE PInv'
  BY <1>0, <1>4 DEF RemoveFails, Goes
<1>5. ASSUME NEW d \in Daemons, Bind(d) PROVE PInv'
  BY <1>0, <1>5 DEF Bind, Goes
<1>6. ASSUME NEW d \in Daemons, BindFails(d) PROVE PInv'
  BY <1>0, <1>6 DEF BindFails, Goes
<1>7. ASSUME NEW d \in Daemons, Die(d) PROVE PInv'
  BY <1>0, <1>7 DEF Die, Reachable
<1>8. CASE UNCHANGED vars
  BY <1>8 DEF vars
<1>9. ASSUME NEW d \in Daemons, Denied(d) PROVE PInv'
  BY <1>0, <1>9 DEF Denied
<1> QED
  BY <1>1, <1>2, <1>3, <1>4, <1>5, <1>6, <1>7, <1>8, <1>9 DEF Next, Run

\* Every variable keeps its type, for any daemons on the path.
THEOREM TypeCorrectness == Spec => []TypeOK
<1>1. Init => TypeOK
  BY DEF Init, TypeOK, Stages, Starting
<1> QED BY <1>1, TypeStep, PTL DEF Spec

\* A start that no other start overlaps, and that the system does not deny, gets
\* its socket, whatever dead and living daemons left at the path.
THEOREM OnlyRacesFail == Spec => []StartFailsOnlyInARace
<1>1. Init => RInv
  BY NoFileAssumption
  DEF Init, RInv, TypeOK, Stages, Starting, MeetingIsNoted, SurprisedByARace,
      StartFailsOnlyInARace
<1>2. RInv => StartFailsOnlyInARace
  BY DEF RInv
<1> QED BY <1>1, <1>2, RaceStep, PTL DEF Spec

\* When the starts are over the path leads to a daemon that serves it, unless
\* the one that had it has died, or one about to have it died or was denied.
THEOREM PathServed == Spec => []PathLeadsToAServer
<1>1. Init => PInv
  BY DEF Init, PInv, TypeOK, Stages, Starting, PathIsHandedOn
<1>2. PInv => PathLeadsToAServer
  BY DEF PInv, PathIsHandedOn, PathLeadsToAServer, Reachable, Starting
<1> QED BY <1>1, <1>2, PathStep, PTL DEF Spec
=============================================================================
