SPECIFICATION Spec
CONSTANTS
  Conn = {c1}
  ConfirmToken <- Token
  Requests <- DangerRequests
  Faults = {}
INVARIANT DangerNeedsToken
