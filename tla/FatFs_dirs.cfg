\* One session, every command.
SPECIFICATION Spec
CONSTANTS
  Sessions = {s1}
  Names = {a, b, z}
  LongNames = {z}
  Texts = {x, y}
  Lens = {0, 3}
  Commands <- AllCommands
  NumBlocks = 5
  BlockSize = 2
  FatPerBlock = 8
  MaxPath = 4
  MaxCrashes = 0
  Zero = Zero
  FatBytes = FatBytes
  NoOne = NoOne
SYMMETRY Symmetry
INVARIANTS
  NoLostBlock
  NamesUnique
  PwdNamesCurrentDir
