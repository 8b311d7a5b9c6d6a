SPECIFICATION FairSpec
CONSTANTS
  Daemons = {d1, d2, d3}
  NoFile = NoFile
INVARIANTS StartFailsOnlyInARace PathLeadsToAServer
PROPERTY StartsBringAServer
