------------------------------ MODULE MCFatFs ------------------------------
(***************************************************************************)
(* Instances of FatFs for TLC.                                             *)
(***************************************************************************)
EXTENDS FatFsProps, TLC

\* Texts are interchangeable, so are the names that are not too long, and so
\* are sessions.
Symmetry == Permutations(Texts) \cup Permutations(Names \ LongNames)
              \cup Permutations(Sessions)

\* Files in the root directory only.
FilesOnly == {"C", "D", "R", "W"}
\* The commands that free no directory.
NoDirRemoved == {"L", "C", "mkdir", "D", "R", "W", "cd"}
\* All commands but the one that empties the disk.
NoFormat == AllCommands \ {"F"}
\* The commands that free no block that a directory entry names.
NothingDeleted == {"L", "C", "mkdir", "R", "W", "cd"}
=============================================================================
