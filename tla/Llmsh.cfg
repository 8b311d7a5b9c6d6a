SPECIFICATION FairSpec
CONSTANTS
  Invocations <- Commands
  ResultBytes = 3
  ErrorBytes = 2
  MaxRequest = 3
  BufBytes = 2
  SocketBytes = 2
INVARIANTS TypeOK SentIsAccepted AnswerArrives PrintedIsWhole
PROPERTY ExchangeEnds
