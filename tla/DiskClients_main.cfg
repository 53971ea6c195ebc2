\* Two clients, two lines in all.
SPECIFICATION FairSpec
CONSTANTS
  Clients = {c1, c2}
  Cylinders = 2
  SectorsPerCyl = 1
  BlockSize = 2
  MaxTok = 2
  NoOne = NoOne
  Lines <- AllLines
  MaxLines = 2
CHECK_DEADLOCK FALSE
INVARIANTS
  TypeOK
  ExecutesStream
  InStep
PROPERTIES
  EachServed
