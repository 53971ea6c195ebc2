\* Files of up to four blocks in one directory, a FAT of three blocks.
SPECIFICATION Spec
CONSTANTS
  Sessions = {s1}
  Names = {a, b}
  LongNames = {}
  Texts = {x, y}
  Lens = {0, 1, 4, 7}
  Commands <- FilesOnly
  NumBlocks = 8
  BlockSize = 2
  FatPerBlock = 3
  MaxPath = 4
  MaxCrashes = 0
  Zero = Zero
  FatBytes = FatBytes
  NoOne = NoOne
SYMMETRY Symmetry
INVARIANTS
  SizeMatchesChain
  FatSaved
  ReadsWholeFile
  ShortOnlyWhenFull
