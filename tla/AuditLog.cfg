SPECIFICATION Spec
CONSTANTS
  Handlers = {"h1", "h2", "h3"}
  Length <- LineLength
INVARIANTS
  AcknowledgedIsWhole
  BytesInOrder
  DamageIsBounded
