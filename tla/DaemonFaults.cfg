SPECIFICATION Spec
CONSTANTS
  Conn = {c1, c2}
  ConfirmToken <- Token
  Requests <- FaultRequests
  Faults = {"crash", "leave", "read_error", "audit_error"}
SYMMETRY Symmetry
PROPERTY ServesPlans
INVARIANTS
  TypeOK
  ActionsStartInOrder
  UnexecutedMeansUntouched
  OneResultPerAction
  ReportedMeansDone
  AuditMatchesAnswers
