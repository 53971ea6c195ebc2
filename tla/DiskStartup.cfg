\* One file system server and one random client.
SPECIFICATION Spec
CONSTANTS
  Clients = {c1, c2}
  Cylinders = 2
  SectorsPerCyl = 1
  BlockSize = 2
  MaxTok = 63
  NoOne = NoOne
CHECK_DEADLOCK FALSE
PROPERTY SomeoneReady
