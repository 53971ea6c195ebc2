\* Two sessions, one of which may remove the other's directory.
SPECIFICATION Spec
CONSTANTS
  Sessions = {s1, s2}
  Names = {a, b}
  LongNames = {}
  Texts = {x}
  Lens = {3}
  Commands <- NoFormat
  NumBlocks = 5
  BlockSize = 2
  FatPerBlock = 8
  MaxPath = 4
  MaxCrashes = 0
  Zero = Zero
  FatBytes = FatBytes
  NoOne = NoOne
INVARIANT FilesHoldText
