\* A crash between the steps of a delete.
SPECIFICATION Spec
CONSTANTS
  Sessions = {s1}
  Names = {a, b}
  LongNames = {}
  Texts = {x}
  Lens = {3}
  Commands <- FilesOnly
  NumBlocks = 5
  BlockSize = 2
  FatPerBlock = 8
  MaxPath = 4
  MaxCrashes = 1
  Zero = Zero
  FatBytes = FatBytes
  NoOne = NoOne
INVARIANT NoDanglingLink
