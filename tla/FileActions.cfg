SPECIFICATION Spec
CONSTANTS
  short = short
  long = long
  Writers = {short, long}
  Readers = {r1}
  Size <- Sizes
  MaxBytes = 2
  BufBytes = 2
INVARIANTS TypeOK BytesKeepTheirPlace QuietWriteIsExact ReportedLengthWasSeen QuietReadIsExact
