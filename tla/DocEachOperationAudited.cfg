SPECIFICATION Spec
CONSTANTS
  Conn = {c1}
  ConfirmToken <- Token
  Requests <- FaultRequests
  Faults = {"leave"}
INVARIANT EachOperationAudited
