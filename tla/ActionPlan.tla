----------------------------- MODULE ActionPlan -----------------------------
(***************************************************************************)
(* The request contract shared by llmsh and llm-osd: the shape of an       *)
(* ActionPlan and validate_action_plan (llm-os-common/src/lib.rs).         *)
(*                                                                         *)
(* A text is a record: value is the exact string, trimmed what str::trim   *)
(* leaves of it, size its length in bytes.  An Option<T> is a set with at  *)
(* most one member, so "if let Some(x) = opt" reads \A x \in opt.          *)
(*                                                                         *)
(* Every check of validate_action_plan ends in the same error code, so the *)
(* order of the checks and the wording of the messages are left out.       *)
(***************************************************************************)
EXTENDS FileMode, FiniteSets

MaxActions         == 64
MaxReadFileBytes   == 64 * 1024
MaxWriteFileBytes  == 64 * 1024
MaxExecArgc        == 64
MaxArgBytes        == 2048      \* MAX_EXEC_ARG_BYTES, MAX_OBSERVE_ARG_BYTES
MaxExecEnvEntries  == 32
MaxExecEnvKeyBytes == 128
MaxExecEnvValBytes == 2048
MaxIdBytes         == 128       \* request_id, session_id and version
MaxTokenBytes      == 1024
MaxReasonBytes     == 2048
MaxPathBytes       == 4096
MaxModeBytes       == 128
MaxExecTimeoutSec  == 60
MaxUnitBytes       == 256       \* MAX_SYSTEMD_UNIT_BYTES
MaxPackageBytes    == 128
MaxPackages        == 128
MaxObserveArgs     == 64
MaxUefiNameBytes   == 256

Modes == {"plan_only", "execute"}

\* The variants of enum Action, by their serde tag.
Kinds == {"exec", "read_file", "write_file", "service_control",
          "install_packages", "remove_packages", "update_system",
          "observe", "cgroup_apply", "firmware_op", "ping"}

\* The variants of enum ErrorCode, and of enum ActionErrorCode.
RequestErrors == {"parse_failed", "validation_failed", "invalid_mode",
                  "request_too_large"}
ActionErrors  == {"policy_denied", "confirmation_required", "exec_failed",
                  "exec_timed_out", "read_failed", "write_failed",
                  "invalid_mode_string"}
-----------------------------------------------------------------------------
NonBlank(text) == text.trimmed # ""

Required(text, max) == NonBlank(text) /\ text.size <= max

\* reason, danger and recovery of exec, read_file and write_file.  The other
\* variants carry danger and recovery too, but only their reason is looked at.
ValidRemarks(action) ==
  /\ Required(action.reason, MaxReasonBytes)
  /\ \A remark \in action.danger \cup action.recovery :
       remark.size <= MaxReasonBytes

\* require_confirmation, called when danger is set: some token, any token.
DangerConfirmed(action, plan) ==
  action.danger # {} => \E token \in plan.confirmation : NonBlank(token)

ValidExec(action, plan) ==
  /\ Len(action.argv) \in 1..MaxExecArgc
  /\ ~action.as_root
  /\ \A i \in DOMAIN action.argv : action.argv[i].size <= MaxArgBytes
  /\ \A dir \in action.cwd : NonBlank(dir)
  /\ \A env \in action.env :
       /\ Len(env) <= MaxExecEnvEntries
       /\ \A i \in DOMAIN env :
            /\ env[i].key.size <= MaxExecEnvKeyBytes
            /\ env[i].val.size <= MaxExecEnvValBytes
  /\ action.timeout_sec \in 1..MaxExecTimeoutSec
  /\ ValidRemarks(action)
  /\ DangerConfirmed(action, plan)

ValidReadFile(action, plan) ==
  /\ Required(action.path, MaxPathBytes)
  /\ action.max_bytes \in 1..MaxReadFileBytes
  /\ ValidRemarks(action)
  /\ DangerConfirmed(action, plan)

ValidWriteFile(action, plan) ==
  /\ Required(action.path, MaxPathBytes)
  /\ action.content.size <= MaxWriteFileBytes
  /\ Trim(action.mode) # <<>>
  /\ Len(action.mode) <= MaxModeBytes
  /\ IsOctalMode(action.mode)
  /\ ValidRemarks(action)
  /\ DangerConfirmed(action, plan)

ValidServiceControl(action) ==
  /\ Required(action.unit, MaxUnitBytes)
  /\ Required(action.reason, MaxReasonBytes)

\* install_packages and remove_packages have the same fields and checks.
ValidPackages(action) ==
  /\ Len(action.packages) \in 1..MaxPackages
  /\ \A i \in DOMAIN action.packages :
       Required(action.packages[i], MaxPackageBytes)
  /\ Required(action.reason, MaxReasonBytes)

ValidUpdateSystem(action) == Required(action.reason, MaxReasonBytes)

ValidObserve(action) ==
  /\ Len(action.args) <= MaxObserveArgs
  /\ \A i \in DOMAIN action.args : Required(action.args[i], MaxArgBytes)
  /\ Required(action.reason, MaxReasonBytes)

\* Exactly one target, and at least one setting.
ValidCgroupApply(action) ==
  /\ (action.pid = {}) # (action.unit = {})
  /\ \A unit \in action.unit : Required(unit, MaxUnitBytes)
  /\ action.cpu_weight \cup action.mem_max_bytes # {}
  /\ Required(action.reason, MaxReasonBytes)

\* filename stands for the absence of '/', '\' and ".." in the name.
ValidFirmwareOp(action) ==
  /\ Required(action.reason, MaxReasonBytes)
  /\ action.op = "uefi_var_read" =>
       \E name \in action.uefi_var_name :
         Required(name, MaxUefiNameBytes) /\ name.filename

ValidAction(action, plan) ==
  \/ action.kind = "exec"             /\ ValidExec(action, plan)
  \/ action.kind = "read_file"        /\ ValidReadFile(action, plan)
  \/ action.kind = "write_file"       /\ ValidWriteFile(action, plan)
  \/ action.kind = "service_control"  /\ ValidServiceControl(action)
  \/ action.kind = "install_packages" /\ ValidPackages(action)
  \/ action.kind = "remove_packages"  /\ ValidPackages(action)
  \/ action.kind = "update_system"    /\ ValidUpdateSystem(action)
  \/ action.kind = "observe"          /\ ValidObserve(action)
  \/ action.kind = "cgroup_apply"     /\ ValidCgroupApply(action)
  \/ action.kind = "firmware_op"      /\ ValidFirmwareOp(action)
  \/ action.kind = "ping"

\* validate_action_plan
ValidPlan(plan) ==
  /\ Len(plan.actions) <= MaxActions
  /\ Required(plan.request_id, MaxIdBytes)
  /\ \A id \in plan.session_id : Required(id, MaxIdBytes)
  /\ \A token \in plan.confirmation : Required(token, MaxTokenBytes)
  /\ Required(plan.version, MaxIdBytes)
  /\ \A i \in DOMAIN plan.actions : ValidAction(plan.actions[i], plan)
=============================================================================
