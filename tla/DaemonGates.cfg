SPECIFICATION Spec
CONSTANTS
  Conn = {c1, c2}
  ConfirmToken <- Token
  Requests <- GateRequests
  Faults = {}
SYMMETRY Symmetry
INVARIANTS
  OnlyPermittedEffects
  DryRunPredictsRefusals
  NoFallbackReached
  UnconfirmedFilesInScope
