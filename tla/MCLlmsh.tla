------------------------------ MODULE MCLlmsh ------------------------------
(***************************************************************************)
(* Values for the constants of Llmsh: commands that each check of the      *)
(* client, or only the daemon, tells apart, and requests from well below   *)
(* to well above the limit of 3 bytes.                                     *)
(***************************************************************************)
EXTENDS Llmsh

Text(word) == [value |-> word, trimmed |-> word, size |-> 8]
Empty      == [value |-> "  ", trimmed |-> "", size |-> 2]
LongId     == [value |-> "long", trimmed |-> "long", size |-> 129]

PlanOf(id, mode) ==
  [request_id |-> id, session_id |-> {}, version |-> Text("0.1"), mode |-> mode,
   confirmation |-> {}, actions |-> <<[kind |-> "ping"]>>]

Run(name, form, plan, request_id, session_id, size) ==
  [command |-> name, form |-> form, plan |-> plan,
   request_id |-> request_id, session_id |-> session_id, size |-> size]

Plain == PlanOf(Text("req-1"), "execute")

Sends ==
  {Run("send", "json", Plain, {}, {}, size) : size \in {1, 3, 4, 7}}
  \cup {Run("send", "json", plan, request_id, session_id, 2) :
          plan \in {PlanOf(Empty, "execute"), PlanOf(Text("req-1"), "plan_only")},
          request_id \in {{}, {Text("req-2")}, {LongId}},
          session_id \in {{}, {Empty}}}
  \cup {Run("send", "json", Plain, {id}, {}, 2) : id \in {LongId, Empty}}
  \cup {Run("send", "json", Plain, {}, {id}, 2) : id \in {LongId, Empty}}
  \cup {Run("send", "malformed", Plain, {}, {}, 2)}

\* The id of a ping is parsed from a text that quotes it, and then set as it
\* stands: one with JSON escapes is longer when it is sent than when validated.
Pings ==
  {Run("ping", "json", PlanOf(id, "execute"), {id}, session_id, 2) :
     id \in {Text("req-ping-cli-1"), LongId, Empty},
     session_id \in {{}, {Text("sess-1")}, {LongId}, {Empty}}}
  \cup {Run("ping", "json", Plain, {LongId}, {}, 2),
        Run("ping", "malformed", Plain, {Text("req-2")}, {}, 2)}

Validates ==
  {Run("validate", form, plan, {}, {}, 2) :
     form \in {"json", "malformed"}, plan \in {Plain, PlanOf(Empty, "plan_only")}}

Commands == Sends \cup Pings \cup Validates
=============================================================================
