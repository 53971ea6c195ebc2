\* Two sessions and a crash, no command that deletes.
SPECIFICATION FairSpec
CONSTANTS
  Sessions = {s1, s2}
  Names = {a, b}
  LongNames = {}
  Texts = {x}
  Lens = {3}
  Commands <- NothingDeleted
  NumBlocks = 5
  BlockSize = 2
  FatPerBlock = 8
  MaxPath = 2
  MaxCrashes = 1
  Zero = Zero
  FatBytes = FatBytes
  NoOne = NoOne
INVARIANTS
  NoDanglingLink
  NoSharedBlock
PROPERTIES
  HandlersEnd
