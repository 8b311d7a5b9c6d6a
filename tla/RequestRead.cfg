SPECIFICATION FairSpec
CONSTANTS
  MaxRequest = 5
  BufBytes = 3
  SocketBytes = 4
INVARIANTS TypeOK InputIsAPrefix LimitIsExact
PROPERTY ReadingEnds
