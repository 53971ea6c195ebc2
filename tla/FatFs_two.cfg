\* Two sessions at once, no command that removes a directory.
SPECIFICATION Spec
CONSTANTS
  Sessions = {s1, s2}
  Names = {a, b}
  LongNames = {}
  Texts = {x, y}
  Lens = {3}
  Commands <- NoDirRemoved
  NumBlocks = 5
  BlockSize = 2
  FatPerBlock = 8
  MaxPath = 1
  MaxCrashes = 0
  Zero = Zero
  FatBytes = FatBytes
  NoOne = NoOne
SYMMETRY Symmetry
INVARIANTS
  TypeOK
  NoDanglingLink
  NoSharedBlock
  FilesHoldText
