------------------------------ MODULE MCDaemon ------------------------------
(***************************************************************************)
(* Values for the constants of Daemon: a few plans that between them reach *)
(* every gate, every result and every fallback.                            *)
(***************************************************************************)
EXTENDS Daemon, TLC

Text(word) == [value |-> word, trimmed |-> word, size |-> 8]

Token  == Text("i-understand")
Padded == [value |-> " i-understand ", trimmed |-> "i-understand", size |-> 14]
Wrong  == Text("guess")
Reason == Text("test")

Fifo == <<"", "tmp", "fifo">>

Exec(program) ==
  [kind |-> "exec", argv |-> <<Text(program)>>, cwd |-> {}, env |-> {},
   timeout_sec |-> 5, as_root |-> FALSE,
   reason |-> Reason, danger |-> {}, recovery |-> {}]

\* Fifo is the name of a FIFO with nobody at its other end.
Path(parts) == [value |-> "path", trimmed |-> "path", size |-> 9, parts |-> parts,
                waits |-> parts = Fifo]

Write(parts, mode) ==
  [kind |-> "write_file", path |-> Path(parts), content |-> Text("data"),
   mode |-> mode, reason |-> Reason, danger |-> {}, recovery |-> {}]

Read(parts) ==
  [kind |-> "read_file", path |-> Path(parts), max_bytes |-> 1,
   reason |-> Reason, danger |-> {}, recovery |-> {}]

Observe(tool, danger) ==
  [kind |-> "observe", tool |-> tool, args |-> <<Text("aux")>>,
   reason |-> Reason, danger |-> danger, recovery |-> {}]

Packages(kind, manager) ==
  [kind |-> kind, manager |-> manager, packages |-> <<Text("curl")>>,
   reason |-> Reason, danger |-> {}, recovery |-> {}]

Cgroup(unit) ==
  [kind |-> "cgroup_apply", pid |-> {}, unit |-> unit, cpu_weight |-> {100},
   mem_max_bytes |-> {}, reason |-> Reason, danger |-> {}, recovery |-> {}]

Firmware(name) ==
  [kind |-> "firmware_op", op |-> "uefi_var_read", uefi_var_name |-> name,
   reason |-> Reason, danger |-> {}, recovery |-> {}]

StatusOfUnit == [kind |-> "service_control", action |-> "status",
            unit |-> Text("ssh.service"), reason |-> Reason,
            danger |-> {}, recovery |-> {}]

PingAction == [kind |-> "ping"]

Request(mode, token, actions) ==
  [form |-> "json",
   plan |-> [request_id |-> Text("req-1"), session_id |-> {},
             version |-> Text("0.1"), mode |-> mode, confirmation |-> token,
             actions |-> actions]]

Broken(form) == [form |-> form, plan |-> {}]

Mode644  == <<"6", "4", "4">>
TmpFile  == <<"", "tmp", "f">>
UpFile   == <<"d", "..", "..", "f">>
EtcFile  == <<"", "etc", "f">>
ModeHex  == <<"0", "x", "f">>
ModeBare == <<"0", "o">>
Escape   == <<"", "tmp", "..", "etc">>
-----------------------------------------------------------------------------
\* Every gate and every fallback: one action per plan, in both modes, without
\* a token, with the right one in blanks, and with a wrong one.
GatedActions ==
  {Exec("echo"), Exec("rm"), Exec("dd"),
   Write(TmpFile, Mode644), Write(UpFile, Mode644), Read(Escape), Read(EtcFile),
   Observe("ps", {})}

OtherActions ==
  {Observe("other", {}), Packages("install_packages", "apt"),
   Packages("remove_packages", "other"), Cgroup({Text("a.slice")}),
   Firmware({Text("Boot") @@ [filename |-> TRUE]}), StatusOfUnit, PingAction,
   \* valid in no plan
   Write(TmpFile, ModeHex), Write(TmpFile, ModeBare), Cgroup({}), Firmware({})}

GateRequests ==
  {Request(mode, token, <<action>>) :
     mode \in Modes, token \in {{}, {Padded}, {Wrong}}, action \in GatedActions}
  \cup {Request(mode, {}, <<action>>) : mode \in Modes, action \in OtherActions}

\* Plans of two actions, among requests that never become a plan.
FaultRequests ==
  {Request("execute", {Token}, <<Exec("rm"), Write(UpFile, Mode644)>>),
   Request("execute", {}, <<Write(TmpFile, Mode644), Exec("echo")>>),
   Request("plan_only", {}, <<Exec("echo"), Exec("rm")>>),
   Broken("malformed"), Broken("oversized")}

\* A plan for each kind of effect, one that goes on to a file that waits, and a
\* request that is rejected.
LivenessRequests ==
  {Request("execute", {}, <<Write(TmpFile, Mode644), Read(Fifo)>>),
   Request("execute", {}, <<Exec("echo")>>), Broken("malformed")}

DangerRequests ==
  {Request(mode, token, <<Observe("ps", {Text("x")}), Write(TmpFile, Mode644)>>) :
     mode \in Modes, token \in {{}, {Token}}}

Symmetry == Permutations(Conn)
=============================================================================
