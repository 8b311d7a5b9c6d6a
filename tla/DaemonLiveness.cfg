SPECIFICATION FairSpec
CONSTANTS
  Conn = {c1, c2}
  ConfirmToken <- Token
  Requests <- LivenessRequests
  Faults = {"crash", "leave", "stall", "send_on"}
PROPERTIES
  HandlersEnd
  EffectsGetAudited
