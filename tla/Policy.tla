------------------------------- MODULE Policy -------------------------------
(***************************************************************************)
(* What the daemon refuses to do: llm-osd/src/policy.rs and the gates that *)
(* execute_action and plan_action of llm-osd/src/server.rs build from it.  *)
(*                                                                         *)
(* A refusal is an ActionErrorCode, or NoError when the action may go on.  *)
(* The argument vectors that plan_action prints are left out: no property  *)
(* here looks at them.                                                     *)
(***************************************************************************)
EXTENDS ActionPlan

CONSTANT ConfirmToken      \* the text given to --confirm-token

NoError == "none"

DeniedPrograms ==
  {"/bin/dd", "dd", "/sbin/mkfs", "/sbin/mkfs.ext4", "mkfs", "mkfs.ext4",
   "/sbin/shutdown", "shutdown", "/sbin/reboot", "reboot"}

\* exec_allowed_without_confirmation; every other program, rm included, needs
\* the token.
FreePrograms == {"/bin/echo", "echo"}

IsExecDenied(action) ==
  \/ action.argv = <<>>
  \/ action.argv[1].value \in DeniedPrograms

ExecRequiresConfirmation(action) ==
  \/ action.argv = <<>>
  \/ action.argv[1].value \notin FreePrograms

\* path_requires_confirmation.  path.parts is the path split at every '/', so
\* that "/tmp/x" is <<"", "tmp", "x">> and "x" is <<"x">>.
StartsWith(parts, prefix) ==
  /\ Len(parts) > Len(prefix)
  /\ \A i \in DOMAIN prefix : parts[i] = prefix[i]

HasParentDir(parts) == \E i \in DOMAIN parts : parts[i] = ".."

\* A wrong PathRequiresConfirmation, which looks only at the first two parts.
PathRequiresConfirmationByPrefix(path) ==
  StartsWith(path.parts, <<"">>) /\ ~StartsWith(path.parts, <<"", "tmp">>)

PathRequiresConfirmation(path) ==
  \/ StartsWith(path.parts, <<"">>) /\ ~StartsWith(path.parts, <<"", "tmp">>)
  \/ HasParentDir(path.parts)

\* confirmation_is_valid: the plan's token is trimmed, the expected one is not.
ConfirmationIsValid(confirmation) ==
  \E token \in confirmation : token.trimmed = ConfirmToken.value
-----------------------------------------------------------------------------
\* The gates shared, branch by branch, by both functions.
ExecRefusal(action, confirmation) ==
  IF IsExecDenied(action) THEN "policy_denied"
  ELSE IF ExecRequiresConfirmation(action) /\ ~ConfirmationIsValid(confirmation)
         THEN "confirmation_required"
         ELSE NoError

FileRefusal(action, confirmation) ==
  IF PathRequiresConfirmation(action.path) /\ ~ConfirmationIsValid(confirmation)
    THEN "confirmation_required"
    ELSE NoError

ObserveRefusal(action) ==
  IF action.tool = "other" THEN "policy_denied" ELSE NoError

\* The kinds that execute mode really carries out.
ExecutableKinds == {"exec", "read_file", "write_file", "observe", "ping"}

\* execute_action, up to the point where it starts to act.
ExecuteRefusal(action, confirmation) ==
  CASE action.kind = "exec"                      -> ExecRefusal(action, confirmation)
    [] action.kind \in {"read_file", "write_file"} -> FileRefusal(action, confirmation)
    [] action.kind = "observe"                   -> ObserveRefusal(action)
    [] action.kind = "ping"                      -> NoError
    [] OTHER                                     -> "policy_denied"

\* plan_action: it never acts, and knows more kinds than execute_action.
UnplannableManager(action) ==
  \/ action.manager = "other"
  \/ action.kind = "update_system" /\ action.manager # "apt"

CgroupTargetMissing(action) == action.pid = {} /\ action.unit = {}

FirmwareTargetMissing(action) ==
  /\ action.op = "uefi_var_read"
  /\ \A name \in action.uefi_var_name : ~NonBlank(name)

\* A wrong PlanRefusal, which skips the confirmation check because nothing runs.
PlanRefusalUnconfirmed(action, confirmation) ==
  IF action.kind = "exec" /\ IsExecDenied(action) THEN "policy_denied" ELSE NoError

PlanRefusal(action, confirmation) ==
  CASE action.kind = "exec" -> ExecRefusal(action, confirmation)
    [] action.kind \in {"read_file", "write_file"} -> FileRefusal(action, confirmation)
    [] action.kind = "observe" -> ObserveRefusal(action)
    [] action.kind \in {"install_packages", "remove_packages", "update_system"} ->
         IF UnplannableManager(action) THEN "policy_denied" ELSE NoError
    [] action.kind = "cgroup_apply" ->
         IF CgroupTargetMissing(action) THEN "policy_denied" ELSE NoError
    [] action.kind = "firmware_op" ->
         IF FirmwareTargetMissing(action) THEN "policy_denied" ELSE NoError
    [] OTHER -> NoError
=============================================================================
