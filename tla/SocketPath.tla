----------------------------- MODULE SocketPath -----------------------------
(***************************************************************************)
(* How a daemon comes to its socket (the first lines of run in             *)
(* llm-osd/src/server.rs): it looks whether the path exists, removes what  *)
(* is there, and binds.  Three steps, and any number of daemons may be     *)
(* started on the same path, at any time and again after they died.        *)
(*                                                                         *)
(* The path holds the socket of the daemon that bound it last, also when   *)
(* that daemon is long dead: nothing removes it but the next start.        *)
(***************************************************************************)
EXTENDS Naturals, FiniteSets

CONSTANTS
  Daemons,    \* processes started on the path
  NoFile      \* the path does not exist

ASSUME NoFileAssumption == NoFile \notin Daemons

VARIABLES
  path,       \* whose socket is at the path
  stage,      \* stage[d]: where run of d is
  raced,      \* history: who met another start during its own
  vacant      \* history: who last had the path, or would have got it, is gone

vars == <<path, stage, raced, vacant>>

Starting == {"looking", "removing", "binding"}

\* How a start fails: what was to be removed is gone, another daemon has the
\* path, or the system says no for a reason of its own.
Failed   == {"vanished", "in_use", "denied"}
Stages   == Starting \cup Failed \cup {"down", "serving", "dead"}

\* The path may hold what a daemon of an earlier day has left.
Init ==
  /\ path \in Daemons \cup {NoFile}
  /\ stage = [d \in Daemons |-> "down"]
  /\ raced = {} /\ vacant = TRUE

\* A client that connects now gets to d.
Reachable(d) == path = d /\ stage[d] = "serving"
-----------------------------------------------------------------------------
Goes(d, from, to) == stage[d] = from /\ stage' = [stage EXCEPT ![d] = to]

\* A process is started; what it meets counts from here.
Start(d) ==
  /\ stage[d] \in Failed \cup {"down", "dead"}
  /\ stage' = [stage EXCEPT ![d] = "looking"]
  /\ LET others == {e \in Daemons \ {d} : stage[e] \in Starting}
     IN  raced' = IF others = {} THEN raced \ {d} ELSE raced \cup others \cup {d}
  /\ UNCHANGED <<path, vacant>>

\* A wrong Look, for a code that binds at once.
LookAway(d) ==
  /\ Goes(d, "looking", "binding")
  /\ UNCHANGED <<path, raced, vacant>>

\* Another, which takes a socket at the path for a daemon that serves it.
LookForADaemon(d) ==
  /\ Goes(d, "looking", IF path = NoFile THEN "binding" ELSE "in_use")
  /\ UNCHANGED <<path, raced, vacant>>

\* Path::new(socket_path).exists()
Look(d) ==
  /\ Goes(d, "looking", IF path = NoFile THEN "binding" ELSE "removing")
  /\ UNCHANGED <<path, raced, vacant>>

\* remove_file removes whatever is there by now.
Remove(d) ==
  /\ path # NoFile
  /\ Goes(d, "removing", "binding")
  /\ path' = NoFile
  /\ UNCHANGED <<raced, vacant>>

\* ENOENT, for it is gone already: run returns the error.
RemoveFails(d) ==
  /\ path = NoFile
  /\ Goes(d, "removing", "vanished")
  /\ UNCHANGED <<path, raced, vacant>>

Bind(d) ==
  /\ path = NoFile
  /\ Goes(d, "binding", "serving")
  /\ path' = d /\ vacant' = FALSE
  /\ UNCHANGED raced

\* A wrong BindFails, which tidies up behind itself.
BindFailsTidily(d) ==
  /\ path # NoFile
  /\ Goes(d, "binding", "in_use")
  /\ path' = NoFile
  /\ UNCHANGED <<raced, vacant>>

\* EADDRINUSE, for another daemon has bound the path meanwhile: run returns.
BindFails(d) ==
  /\ path # NoFile
  /\ Goes(d, "binding", "in_use")
  /\ UNCHANGED <<path, raced, vacant>>

\* Any other error of remove_file or of bind: the directory belongs to somebody
\* else, what is at the path is a directory, or a link that leads nowhere and
\* that exists() does not see, or descriptors have run out.  It may come after
\* the old socket has been removed.
Denied(d) ==
  /\ stage[d] \in {"removing", "binding"}
  /\ stage' = [stage EXCEPT ![d] = "denied"]
  /\ vacant' = (vacant \/ (stage[d] = "binding" /\ path = NoFile))
  /\ UNCHANGED <<path, raced>>

\* The process is killed, or accept returns an error; its socket stays.
Die(d) ==
  /\ stage[d] \in Starting \cup {"serving"}
  /\ stage' = [stage EXCEPT ![d] = "dead"]
  /\ vacant' = (vacant \/ Reachable(d) \/ (stage[d] = "binding" /\ path = NoFile))
  /\ UNCHANGED <<path, raced>>

Run(d) ==
  \/ Look(d) \/ Remove(d) \/ RemoveFails(d) \/ Bind(d) \/ BindFails(d)
  \/ Denied(d)

Next == \E d \in Daemons : Start(d) \/ Run(d) \/ Die(d)

\* The daemons' own steps; nothing is assumed of who starts them and when, nor
\* of deaths.
Fairness == \A d \in Daemons : WF_vars(Run(d))

Spec     == Init /\ [][Next]_vars
FairSpec == Spec /\ Fairness
-----------------------------------------------------------------------------
\* Types.
TypeOK ==
  /\ path \in Daemons \cup {NoFile}
  /\ stage \in [Daemons -> Stages]
  /\ raced \subseteq Daemons
  /\ vacant \in BOOLEAN

\* A start that the system does not deny succeeds, whatever a dead or a living
\* daemon has left at the path, unless another start meets it: only a race makes
\* what was seen vanish, or puts a socket where there was none.
StartFailsOnlyInARace ==
  \A d \in Daemons : stage[d] \in {"vanished", "in_use"} => d \in raced

\* However many starts meet, remove each other's sockets and fail: when they
\* are over, the path leads to a daemon that serves it, unless the one that had
\* it has died, or one that was about to have it has died or was denied its
\* bind when the old socket was gone.
PathLeadsToAServer ==
  \/ vacant
  \/ \E d \in Daemons : stage[d] \in Starting
  \/ \E d \in Daemons : Reachable(d)

\* One start is enough for clients to be served again, though it may be
\* another daemon that wins the path: unless one has died, or was denied the
\* path by the system, and is not started again.
StartsBringAServer ==
  \A d \in Daemons :
    stage[d] = "looking" ~>
      \/ \E e \in Daemons : Reachable(e)
      \/ \E e \in Daemons : stage[e] \in {"dead", "denied"}
=============================================================================
