----------------------------- MODULE FatFsProps -----------------------------
(***************************************************************************)
(* What makes the file system of FatFs correct.  A data block of the FAT   *)
(* is owned by the directory entry whose chain starts there, or by the     *)
(* block before it in its chain.  Most of these properties speak of the    *)
(* states in which fs_lock is free: under the lock a handler breaks them   *)
(* and must have repaired them when it unlocks.                            *)
(***************************************************************************)
EXTENDS FatFs, FiniteSets

Quiet == lock = NoOne

Allocated == {b \in DataBlocks : fat[b] # FAT_FREE}

\* The entries that count: those of the root directory and of allocated blocks.
Cells == {c \in DirBlocks \X (1 .. BlockSize) :
            c[1] \in Allocated \cup {Root} /\ blocks[c[1]][c[2]] \notin Pieces}
EntryAt(c) == blocks[c[1]][c[2]]

CellsOwning(b) == {c \in Cells : EntryAt(c).head = b}
BlocksOwning(b) == {a \in Allocated : fat[a] = b}

\* The chain of blocks that starts at b.
Chain(b) ==
  LET at[i \in 0 .. NumBlocks] ==
        IF i = 0 THEN b
        ELSE IF at[i - 1] \in DataBlocks THEN fat[at[i - 1]] ELSE FAT_EOF
  IN  {at[i] : i \in 0 .. NumBlocks} \cap DataBlocks

\* Where the components of a path lead, from the root directory.
Resolve(p) ==
  LET at[i \in 0 .. Len(p)] ==
        IF i = 0 THEN Root
        ELSE LET found == DirsNamed(blocks[at[i - 1]], p[i])
             IN  IF found = {} THEN Root
                 ELSE blocks[at[i - 1]][First(found)].head
  IN  at[Len(p)]

FileCells == {c \in Cells : EntryAt(c).type = "file"}
BlocksFor(size) == IF size = 0 THEN 1 ELSE (size + BlockSize - 1) \div BlockSize

-----------------------------------------------------------------------------
\* When the lock is free, no directory entry and no chain link leads to a free
\* block: every allocation is made before it is linked, and cmd_delete and
\* cmd_write unlink what they free.
NoDanglingLink ==
  Quiet => /\ \A c \in Cells : EntryAt(c).head \in Allocated
           /\ \A b \in Allocated : fat[b] \in DataBlocks => fat[b] \in Allocated

\* When the lock is free, no two files or directories share a block: a block
\* has one owner at most, so that no command frees or overwrites another
\* file's blocks.
NoSharedBlock ==
  Quiet => \A b \in Allocated :
             Cardinality(CellsOwning(b)) + Cardinality(BlocksOwning(b)) <= 1

\* When the lock is free, every allocated block has an owner: cmd_delete,
\* cmd_write and cmd_format give all the blocks they drop back.
NoLostBlock ==
  Quiet => \A b \in Allocated : CellsOwning(b) # {} \/ BlocksOwning(b) # {}

\* When the lock is free, a file has as many blocks as its size calls for (one
\* when it is empty), a truncated write included.
SizeMatchesChain ==
  Quiet => \A c \in FileCells :
             Cardinality(Chain(EntryAt(c).head)) = BlocksFor(EntryAt(c).size)

\* The FAT on the disk is the FAT in memory whenever the lock is free: each
\* command that changes the FAT has saved all of it before it unlocks.
FatSaved == Quiet => dfat = fat

\* No directory holds the same name twice.
NamesUnique ==
  Quiet => \A c1, c2 \in Cells :
             c1[1] = c2[1] /\ EntryAt(c1).name = EntryAt(c2).name => c1 = c2

\* A file's blocks hold text only: no command takes one of them for a
\* directory and stores an entry there.
FilesHoldText ==
  Quiet => \A c \in FileCells :
             \A b \in Chain(EntryAt(c).head) : \A i \in 1 .. BlockSize :
                blocks[b][i] \in Texts \cup {Zero}

\* The path that pwd prints leads to the session's current directory.
PwdNamesCurrentDir ==
  Quiet => \A s \in Sessions : Resolve(path[s]) = cwd[s]

\* A thread that is inside a handler holds fs_lock: two sessions never work on
\* the FAT or on a directory at once, across all the disk writes of a command.
LockHeld == \A s \in Sessions : pc[s] # "idle" => lock = s

\* A read sends the file whole, and what one write put there: as many units as
\* the header announced, all of one text.
ReadsWholeFile ==
  \A s \in Sessions :
    pc[s] = "R.data" /\ ReadOver(s) =>
      /\ Len(got[s]) = buf[s][slot[s]].size
      /\ \E t \in Texts : \A i \in 1 .. Len(got[s]) : got[s][i] = t

\* A write that is cut short has filled the disk.
ShortOnlyWhenFull ==
  \A s \in Sessions :
    pc[s] = "W.entry" /\ done[s] < len[s] => Allocated = DataBlocks

\* Every command that takes the lock comes to its end, a read if its client goes on
\* reading: the loops over a chain stop, also on the chains that a crash leaves.
\* A client that stops in the middle of a read keeps the lock from every session.
HandlersEnd ==
  \A s \in Sessions :
    /\ pc[s] \notin {"idle", "R.data"} ~> pc[s] = "idle"
    /\ WF_vars(ReadChunk(s) \/ ReadEnd(s)) => (pc[s] = "R.data" ~> pc[s] = "idle")
=============================================================================
