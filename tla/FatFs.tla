------------------------------- MODULE FatFs -------------------------------
(***************************************************************************)
(* The filesystem server, project_3/fs_server.c: a FAT kept in memory and  *)
(* saved to the disk server, directories and files stored in blocks, one   *)
(* thread per client session, every metadata operation under fs_lock.      *)
(*                                                                         *)
(* A block is a row of BlockSize units of 32 bytes, the size of a DirEntry *)
(* (fs_defs.h): a unit is empty (Zero), a piece of a file's text, or a     *)
(* directory entry.  Lengths and sizes are counted in units.  A directory  *)
(* entry whose valid flag is 0 is Zero.                                    *)
(*                                                                         *)
(* Each write the server sends to the disk is a step of its own, so that a *)
(* crash may fall between any two of them.  The disk is the one fs_server  *)
(* is written for: it answers a read with a status byte '1' and the block, *)
(* and applies a write before it answers.                                  *)
(***************************************************************************)
EXTENDS Integers, Sequences

CONSTANTS
  Sessions,     \* the client connections, each served by a thread
  Names,        \* the file names clients use
  LongNames,    \* those of more than MAX_FILENAME characters
  Texts,        \* the pieces of text clients write
  Lens,         \* the lengths clients write, in units
  Commands,     \* the commands clients send
  NumBlocks,    \* total_blocks
  BlockSize,    \* units (directory entries) in a block: 4 in the code
  FatPerBlock,  \* FAT entries in a block: 64 in the code
  MaxPath,      \* path components that fit in Session.pwd
  MaxCrashes,   \* bound on the number of crashes explored
  Zero,         \* an empty unit
  FatBytes,     \* a unit of the FAT area, when it is read as file data
  NoOne         \* the owner of a free lock

AllCommands == {"F", "L", "C", "mkdir", "rmdir", "D", "R", "W", "cd"}

ASSUME ConstantsAssumption ==
  /\ LongNames \subseteq Names
  /\ Lens \subseteq Nat
  /\ Commands \subseteq AllCommands
  /\ BlockSize \in Nat \ {0}
  /\ FatPerBlock \in Nat \ {0}
  /\ MaxPath \in Nat \ {0}
  /\ MaxCrashes \in Nat
  /\ NoOne \notin Sessions

FAT_FREE == 0
FAT_EOF  == 65535

FatBlocks  == (NumBlocks + FatPerBlock - 1) \div FatPerBlock
Root       == FatBlocks
Blocks     == 0 .. NumBlocks - 1
DataBlocks == Root + 1 .. NumBlocks - 1
DirBlocks  == Root .. NumBlocks - 1

\* The FAT's 16-bit entries name every block, the root directory exists, and
\* a unit that is empty or of the FAT area is no text.
ASSUME LayoutAssumption ==
  /\ NumBlocks \in Nat /\ NumBlocks <= 65535
  /\ FatBlocks \in 1 .. NumBlocks - 1

Entry == [name : Names, type : {"file", "dir"}, head : DataBlocks, size : Nat]
Pieces == Texts \cup {Zero, FatBytes}

ASSUME UnitsAssumption ==
  /\ Pieces \cap Entry = {}
  /\ Zero \notin Texts
  /\ FatBytes \notin Texts \cup {Zero}

Unit == Pieces \cup Entry
Block == [1 .. BlockSize -> Unit]
ZeroBlock == [i \in 1 .. BlockSize |-> Zero]
FatVal == {FAT_FREE, FAT_EOF} \cup DataBlocks
\* The FAT block that holds the entry of block b.
FatBlockOf(b) == b \div FatPerBlock

VARIABLES
  fat,      \* FAT, in memory
  dfat,     \* the FAT blocks on the disk
  blocks,   \* the other blocks of the disk, from the root directory on
  lock,     \* fs_lock: the session that holds it, or NoOne
  cwd,      \* Session.current_dir
  path,     \* Session.pwd, as the sequence of its components
  reply,    \* the status digit of the last reply sent to the client
  pc,       \* where the session's handler is; "idle" when it waits in recv
  buf,      \* the handler's copy of its directory block
  slot,     \* the entry of buf it works on
  curr,     \* the block its loop has reached
  done,     \* units written or sent so far
  seg,      \* the FAT block save_fat writes next
  len, txt, \* the length and the text of a W command
  got,      \* what an R command has sent to the client so far
  crashes   \* how many times the server was killed and started again

memory  == <<fat, lock>>
disk    == <<dfat, blocks>>
dirs    == <<cwd, path>>
locals  == <<buf, slot, curr, done, seg, len, txt, got>>
vars    == <<memory, disk, dirs, reply, pc, locals, crashes>>

-----------------------------------------------------------------------------
\* Operators on directories and on the FAT.

Named(u, n) == u \notin Pieces /\ u.name = n
\* Mutant: the search starts at the second slot.
SlotsNamedFromSecond(d, n) == {i \in 2 .. BlockSize : Named(d[i], n)}

SlotsNamed(d, n) == {i \in 1 .. BlockSize : Named(d[i], n)}
SlotsFree(d) == {i \in 1 .. BlockSize : d[i] = Zero}

\* Mutants: the search starts at the root directory, stops a block early, or
\* does not look at the FAT.
FreeBlocksFromRoot(f) == {b \in DirBlocks : f[b] = FAT_FREE}
FreeBlocksButLast(f) == {b \in Root + 1 .. NumBlocks - 2 : f[b] = FAT_FREE}
FreeBlocksUnchecked(f) == DataBlocks

\* What find_free_block searches, from root_dir_block + 1 on.
FreeBlocks(f) == {b \in DataBlocks : f[b] = FAT_FREE}
First(S) == CHOOSE i \in S : \A j \in S : i <= j

\* find_free_block, when there is one.
FindFree(f) == First(FreeBlocks(f))

\* What a disk read of any block the FAT may name returns.
BlockAt(b) == IF b \in DirBlocks THEN blocks[b]
              ELSE [i \in 1 .. BlockSize |-> FatBytes]

\* A chunk of n units of text t, the rest zeroed.
Chunk(t, n) == [i \in 1 .. BlockSize |-> IF i <= n THEN t ELSE Zero]
AtMostBlock(n) == IF n > BlockSize THEN BlockSize ELSE n

-----------------------------------------------------------------------------
\* Control: a request is read when the handler is idle, fs_lock is taken and
\* given back; locals that are dead are put back to their initial value.

Request(s, c) == c \in Commands /\ pc[s] = "idle"
Lock(s) == lock = NoOne /\ lock' = s
LockedRequest(s, c) == Request(s, c) /\ lock = NoOne
Goto(s, to) == pc' = [pc EXCEPT ![s] = to]
Send(s, r) == reply' = [reply EXCEPT ![s] = r]

Each(v) == [s \in Sessions |-> v]

ClearLocals(s) ==
  /\ buf'  = [buf  EXCEPT ![s] = ZeroBlock]
  /\ slot' = [slot EXCEPT ![s] = 1]
  /\ curr' = [curr EXCEPT ![s] = Root]
  /\ done' = [done EXCEPT ![s] = 0]
  /\ seg'  = [seg  EXCEPT ![s] = 0]
  /\ len'  = [len  EXCEPT ![s] = 0]
  /\ txt'  = [txt  EXCEPT ![s] = Zero]
  /\ got'  = [got  EXCEPT ![s] = <<>>]

\* The end of a handler: unlock, then reply.
Finish(s, r) ==
  /\ Goto(s, "idle")
  /\ lock' = NoOne
  /\ Send(s, r)
  /\ ClearLocals(s)

\* A command that changes nothing but its session's reply.
Answer(s, r) ==
  /\ Send(s, r)
  /\ UNCHANGED <<memory, disk, dirs, pc, locals, crashes>>

\* Mutant: the loop of save_fat leaves out the last block.
SaveFatButLast(s, from, to) ==
  /\ pc[s] = from
  /\ dfat' = [b \in Blocks |->
                IF FatBlockOf(b) = seg[s] /\ seg[s] + 1 < FatBlocks
                THEN fat[b] ELSE dfat[b]]
  /\ IF seg[s] + 1 < FatBlocks
     THEN seg' = [seg EXCEPT ![s] = @ + 1] /\ UNCHANGED pc
     ELSE seg' = [seg EXCEPT ![s] = 0] /\ Goto(s, to)
  /\ UNCHANGED <<memory, blocks, dirs, reply, buf, slot, curr, done, len, txt,
                 got, crashes>>

\* save_fat: one disk write for each block of the FAT.
SaveFat(s, from, to) ==
  /\ pc[s] = from
  /\ dfat' = [b \in Blocks |->
                IF FatBlockOf(b) = seg[s] THEN fat[b] ELSE dfat[b]]
  /\ IF seg[s] + 1 < FatBlocks
     THEN seg' = [seg EXCEPT ![s] = @ + 1] /\ UNCHANGED pc
     ELSE seg' = [seg EXCEPT ![s] = 0] /\ Goto(s, to)
  /\ UNCHANGED <<memory, blocks, dirs, reply, buf, slot, curr, done, len, txt,
                 got, crashes>>

\* Mutants: the block is not marked free; curr = next is left out.
FreeStepKept(s) ==
  /\ curr[s] \notin {FAT_EOF, FAT_FREE}
  /\ curr' = [curr EXCEPT ![s] = fat[curr[s]]]
  /\ UNCHANGED <<memory, disk, dirs, reply, pc, buf, slot, done, seg, len, txt,
                 got, crashes>>
FreeStepStuck(s) ==
  /\ curr[s] \notin {FAT_EOF, FAT_FREE}
  /\ fat' = [fat EXCEPT ![curr[s]] = FAT_FREE]
  /\ UNCHANGED <<lock, disk, dirs, reply, pc, locals, crashes>>

\* One turn of the loop that frees a chain.
FreeStep(s) ==
  /\ curr[s] \notin {FAT_EOF, FAT_FREE}
  /\ fat' = [fat EXCEPT ![curr[s]] = FAT_FREE]
  /\ curr' = [curr EXCEPT ![s] = fat[curr[s]]]
  /\ UNCHANGED <<lock, disk, dirs, reply, pc, buf, slot, done, seg, len, txt,
                 got, crashes>>

-----------------------------------------------------------------------------
\* F: cmd_format, and the reset of the session's own directory that follows.

Format(s) ==
  /\ Request(s, "F") /\ Lock(s)
  /\ fat' = [b \in Blocks |-> IF b <= Root THEN FAT_EOF ELSE FAT_FREE]
  /\ Goto(s, "F.save")
  /\ UNCHANGED <<disk, dirs, reply, locals, crashes>>

\* Mutant: the session's directory is not reset after a format.
FormatRootOnly(s) ==
  /\ pc[s] = "F.root"
  /\ blocks' = [blocks EXCEPT ![Root] = ZeroBlock]
  /\ Finish(s, "0")
  /\ UNCHANGED <<fat, dfat, dirs, crashes>>

FormatRoot(s) ==
  /\ pc[s] = "F.root"
  /\ blocks' = [blocks EXCEPT ![Root] = ZeroBlock]
  /\ cwd' = [cwd EXCEPT ![s] = Root]
  /\ path' = [path EXCEPT ![s] = <<>>]
  /\ Finish(s, "0")
  /\ UNCHANGED <<fat, dfat, crashes>>

\* C and mkdir: cmd_create.

CreateRefused(s, n) ==
  LET d == blocks[cwd[s]]
  IN  /\ pc[s] = "idle"
      /\ \/ n \in LongNames /\ Answer(s, "2")
         \/ /\ n \notin LongNames /\ lock = NoOne
            /\ \/ SlotsNamed(d, n) # {} /\ Answer(s, "1")
               \/ /\ SlotsNamed(d, n) = {} /\ SlotsFree(d) = {}
                  /\ Answer(s, "2")
               \/ /\ SlotsNamed(d, n) = {} /\ SlotsFree(d) # {}
                  /\ FreeBlocks(fat) = {}
                  /\ Answer(s, "2")

CreateAlloc(s, n, t) ==
  LET d == blocks[cwd[s]]
      i == First(SlotsFree(d))
      b == FindFree(fat)
  IN  /\ pc[s] = "idle" /\ Lock(s)
      /\ n \notin LongNames
      /\ SlotsNamed(d, n) = {} /\ SlotsFree(d) # {} /\ FreeBlocks(fat) # {}
      /\ fat' = [fat EXCEPT ![b] = FAT_EOF]
      /\ buf' = [buf EXCEPT ![s] =
                   [d EXCEPT ![i] = [name |-> n, type |-> t, head |-> b, size |-> 0]]]
      /\ curr' = [curr EXCEPT ![s] = b]
      /\ Goto(s, "C.save")
      /\ UNCHANGED <<disk, dirs, reply, slot, done, seg, len, txt, got, crashes>>

Create(s, n) ==
  \/ "C" \in Commands /\ (CreateRefused(s, n) \/ CreateAlloc(s, n, "file"))
  \/ "mkdir" \in Commands /\ (CreateRefused(s, n) \/ CreateAlloc(s, n, "dir"))

CreateZero(s) ==
  /\ pc[s] = "C.zero"
  /\ blocks' = [blocks EXCEPT ![curr[s]] = ZeroBlock]
  /\ Goto(s, "C.entry")
  /\ UNCHANGED <<memory, dfat, dirs, reply, locals, crashes>>

CreateEntry(s) ==
  /\ pc[s] = "C.entry"
  /\ blocks' = [blocks EXCEPT ![cwd[s]] = buf[s]]
  /\ Finish(s, "0")
  /\ UNCHANGED <<fat, dfat, dirs, crashes>>

\* L: cmd_list; the listing itself is left out.

List(s) == LockedRequest(s, "L") /\ Answer(s, "0")

\* W: cmd_write.

WriteRefused(s, n) ==
  LET d == blocks[cwd[s]]
  IN  /\ LockedRequest(s, "W")
      /\ \/ SlotsNamed(d, n) = {} /\ Answer(s, "1")
         \/ /\ SlotsNamed(d, n) # {}
            /\ d[First(SlotsNamed(d, n))].type = "dir"
            /\ Answer(s, "2")

WriteFile(s, n, l, t) ==
  LET d == blocks[cwd[s]]
      i == First(SlotsNamed(d, n))
  IN  /\ Request(s, "W") /\ Lock(s)
      /\ SlotsNamed(d, n) # {} /\ d[i].type = "file"
      /\ buf' = [buf EXCEPT ![s] = d]
      /\ slot' = [slot EXCEPT ![s] = i]
      /\ curr' = [curr EXCEPT ![s] = fat[d[i].head]]
      /\ len' = [len EXCEPT ![s] = l]
      /\ txt' = [txt EXCEPT ![s] = t]
      /\ Goto(s, "W.free")
      /\ UNCHANGED <<fat, disk, dirs, reply, done, seg, got, crashes>>

WriteFree(s) == pc[s] = "W.free" /\ FreeStep(s)

WriteHead(s) ==
  LET head == buf[s][slot[s]].head
  IN  /\ pc[s] = "W.free" /\ curr[s] \in {FAT_EOF, FAT_FREE}
      /\ fat' = [fat EXCEPT ![head] = FAT_EOF]
      /\ curr' = [curr EXCEPT ![s] = head]
      /\ Goto(s, IF len[s] > 0 THEN "W.data" ELSE "W.save")
      /\ UNCHANGED <<lock, disk, dirs, reply, buf, slot, done, seg, len, txt,
                     got, crashes>>

WriteChunk(s) ==
  LET n == AtMostBlock(len[s] - done[s])
      more == done[s] + n < len[s]
      b == FindFree(fat)
  IN  /\ pc[s] = "W.data"
      /\ blocks' = [blocks EXCEPT ![curr[s]] = Chunk(txt[s], n)]
      /\ done' = [done EXCEPT ![s] = @ + n]
      /\ IF more /\ FreeBlocks(fat) # {}
         THEN /\ fat' = [fat EXCEPT ![curr[s]] = b, ![b] = FAT_EOF]
              /\ curr' = [curr EXCEPT ![s] = b]
              /\ UNCHANGED pc
         ELSE Goto(s, "W.save") /\ UNCHANGED <<fat, curr>>
      /\ UNCHANGED <<lock, dfat, dirs, reply, buf, slot, seg, len, txt, got,
                     crashes>>

\* Mutant: the size recorded is the length asked for.
WriteEntryAsked(s) ==
  /\ pc[s] = "W.entry"
  /\ blocks' = [blocks EXCEPT ![cwd[s]] =
                  [buf[s] EXCEPT ![slot[s]].size = len[s]]]
  /\ Finish(s, "0")
  /\ UNCHANGED <<fat, dfat, dirs, crashes>>

WriteEntry(s) ==
  /\ pc[s] = "W.entry"
  /\ blocks' = [blocks EXCEPT ![cwd[s]] =
                  [buf[s] EXCEPT ![slot[s]].size = done[s]]]
  /\ Finish(s, "0")
  /\ UNCHANGED <<fat, dfat, dirs, crashes>>

\* R: cmd_read, which sends under fs_lock.

ReadRefused(s, n) ==
  LET d == blocks[cwd[s]]
  IN  /\ LockedRequest(s, "R")
      /\ \/ SlotsNamed(d, n) = {}
         \/ SlotsNamed(d, n) # {} /\ d[First(SlotsNamed(d, n))].type = "dir"
      /\ Answer(s, "1")

ReadFile(s, n) ==
  LET d == blocks[cwd[s]]
      i == First(SlotsNamed(d, n))
  IN  /\ Request(s, "R") /\ Lock(s)
      /\ SlotsNamed(d, n) # {} /\ d[i].type = "file"
      /\ buf' = [buf EXCEPT ![s] = d]
      /\ slot' = [slot EXCEPT ![s] = i]
      /\ curr' = [curr EXCEPT ![s] = d[i].head]
      /\ Goto(s, "R.data")
      /\ UNCHANGED <<fat, disk, dirs, reply, done, seg, len, txt, got, crashes>>

\* Mutant: the loop stops when a whole block would reach the size.
ReadOverEarly(s) ==
  curr[s] = FAT_EOF \/ done[s] + BlockSize > buf[s][slot[s]].size
ReadOver(s) == curr[s] = FAT_EOF \/ done[s] >= buf[s][slot[s]].size

ReadChunk(s) ==
  LET n == AtMostBlock(buf[s][slot[s]].size - done[s])
  IN  /\ pc[s] = "R.data" /\ ~ReadOver(s)
      /\ got' = [got EXCEPT ![s] = @ \o SubSeq(BlockAt(curr[s]), 1, n)]
      /\ done' = [done EXCEPT ![s] = @ + n]
      /\ curr' = [curr EXCEPT ![s] = fat[curr[s]]]
      /\ UNCHANGED <<memory, disk, dirs, reply, pc, buf, slot, seg, len, txt,
                     crashes>>

ReadEnd(s) ==
  /\ pc[s] = "R.data" /\ ReadOver(s)
  /\ Finish(s, "0")
  /\ UNCHANGED <<fat, disk, dirs, crashes>>

\* D and rmdir: cmd_delete.

DeleteRefused(s, n, t) ==
  LET d == blocks[cwd[s]]
      e == d[First(SlotsNamed(d, n))]
  IN  /\ pc[s] = "idle" /\ lock = NoOne
      /\ \/ SlotsNamed(d, n) = {} /\ Answer(s, "1")
         \/ /\ SlotsNamed(d, n) # {} /\ e.type # t
            /\ Answer(s, "2")
         \/ /\ SlotsNamed(d, n) # {} /\ e.type = t /\ t = "dir"
            /\ blocks[e.head] # ZeroBlock
            /\ Answer(s, "2")

DeleteFile(s, n, t) ==
  LET d == blocks[cwd[s]]
      i == First(SlotsNamed(d, n))
  IN  /\ pc[s] = "idle" /\ Lock(s)
      /\ SlotsNamed(d, n) # {} /\ d[i].type = t
      /\ t = "dir" => blocks[d[i].head] = ZeroBlock
      /\ buf' = [buf EXCEPT ![s] = d]
      /\ slot' = [slot EXCEPT ![s] = i]
      /\ curr' = [curr EXCEPT ![s] = d[i].head]
      /\ Goto(s, "D.free")
      /\ UNCHANGED <<fat, disk, dirs, reply, done, seg, len, txt, got, crashes>>

Delete(s, n) ==
  \/ "D" \in Commands /\ (DeleteRefused(s, n, "file") \/ DeleteFile(s, n, "file"))
  \/ "rmdir" \in Commands /\ (DeleteRefused(s, n, "dir") \/ DeleteFile(s, n, "dir"))

DeleteFree(s) == pc[s] = "D.free" /\ FreeStep(s)

DeleteFreed(s) ==
  /\ pc[s] = "D.free" /\ curr[s] \in {FAT_EOF, FAT_FREE}
  /\ Goto(s, "D.save")
  /\ UNCHANGED <<memory, disk, dirs, reply, locals, crashes>>

\* Mutant: the entry is written back still valid.
DeleteEntryKept(s) ==
  /\ pc[s] = "D.entry"
  /\ blocks' = [blocks EXCEPT ![cwd[s]] = buf[s]]
  /\ Finish(s, "0")
  /\ UNCHANGED <<fat, dfat, dirs, crashes>>

DeleteEntry(s) ==
  /\ pc[s] = "D.entry"
  /\ blocks' = [blocks EXCEPT ![cwd[s]] = [buf[s] EXCEPT ![slot[s]] = Zero]]
  /\ Finish(s, "0")
  /\ UNCHANGED <<fat, dfat, dirs, crashes>>

\* cd: the branches of handle_client.  current_dir is set before the length
\* of the path is checked.

CdRoot(s) ==
  /\ Request(s, "cd")
  /\ cwd' = [cwd EXCEPT ![s] = Root]
  /\ path' = [path EXCEPT ![s] = <<>>]
  /\ Send(s, "0")
  /\ UNCHANGED <<memory, disk, pc, locals, crashes>>

\* Mutant: the type of the entry is not looked at.
DirsNamedAnyType(d, n) == SlotsNamed(d, n)
DirsNamed(d, n) == {i \in SlotsNamed(d, n) : d[i].type = "dir"}

CdRefused(s, n) ==
  /\ LockedRequest(s, "cd")
  /\ DirsNamed(blocks[cwd[s]], n) = {}
  /\ Answer(s, "1")

Cd(s, n) ==
  LET d == blocks[cwd[s]]
      fits == path[s] = <<>> \/ Len(path[s]) < MaxPath
  IN  /\ LockedRequest(s, "cd")
      /\ DirsNamed(d, n) # {}
      /\ cwd' = [cwd EXCEPT ![s] = d[First(DirsNamed(d, n))].head]
      /\ path' = IF fits THEN [path EXCEPT ![s] = Append(@, n)] ELSE path
      /\ Send(s, IF fits THEN "0" ELSE "2")
      /\ UNCHANGED <<memory, disk, pc, locals, crashes>>

\* A client closes its connection and another one connects: a new thread
\* starts in the root directory.
Reconnect(s) ==
  /\ pc[s] = "idle"
  /\ cwd' = [cwd EXCEPT ![s] = Root]
  /\ path' = [path EXCEPT ![s] = <<>>]
  /\ Send(s, "")
  /\ UNCHANGED <<memory, disk, pc, locals, crashes>>

\* The server is killed and started again: it loads the FAT from the disk
\* (init_fs_meta) and its clients connect anew.
Restart ==
  /\ crashes < MaxCrashes
  /\ crashes' = crashes + 1
  /\ fat' = dfat
  /\ lock' = NoOne
  /\ cwd' = Each(Root) /\ path' = Each(<<>>)
  /\ reply' = Each("") /\ pc' = Each("idle")
  /\ buf' = Each(ZeroBlock) /\ slot' = Each(1) /\ curr' = Each(Root)
  /\ done' = Each(0) /\ seg' = Each(0) /\ len' = Each(0)
  /\ txt' = Each(Zero) /\ got' = Each(<<>>)
  /\ UNCHANGED disk

-----------------------------------------------------------------------------
\* The disk starts as a file of zeros, not formatted.
Init ==
  /\ fat = [b \in Blocks |-> FAT_FREE]
  /\ dfat = [b \in Blocks |-> FAT_FREE]
  /\ blocks = [b \in DirBlocks |-> ZeroBlock]
  /\ lock = NoOne
  /\ cwd = Each(Root) /\ path = Each(<<>>)
  /\ reply = Each("") /\ pc = Each("idle")
  /\ buf = Each(ZeroBlock) /\ slot = Each(1) /\ curr = Each(Root)
  /\ done = Each(0) /\ seg = Each(0) /\ len = Each(0)
  /\ txt = Each(Zero) /\ got = Each(<<>>)
  /\ crashes = 0

\* What a client asks for.
ClientStep(s) ==
  \/ Format(s) \/ List(s) \/ CdRoot(s) \/ Reconnect(s)
  \/ \E n \in Names :
       \/ Create(s, n) \/ Delete(s, n)
       \/ ReadRefused(s, n) \/ ReadFile(s, n)
       \/ WriteRefused(s, n) \/ CdRefused(s, n) \/ Cd(s, n)
       \/ \E l \in Lens, t \in Texts : WriteFile(s, n, l, t)

\* What the thread does for it under fs_lock.
HandlerStep(s) ==
  \/ SaveFat(s, "F.save", "F.root") \/ FormatRoot(s)
  \/ SaveFat(s, "C.save", "C.zero") \/ CreateZero(s) \/ CreateEntry(s)
  \/ WriteFree(s) \/ WriteHead(s) \/ WriteChunk(s)
  \/ SaveFat(s, "W.save", "W.entry") \/ WriteEntry(s)
  \/ ReadChunk(s) \/ ReadEnd(s)
  \/ DeleteFree(s) \/ DeleteFreed(s)
  \/ SaveFat(s, "D.save", "D.entry") \/ DeleteEntry(s)

Next == Restart \/ \E s \in Sessions : ClientStep(s) \/ HandlerStep(s)

Spec == Init /\ [][Next]_vars

\* A thread that runs a handler keeps running it, but for the sends of a read: they
\* wait, with fs_lock held, for as long as the client does not read.  No client is
\* obliged to read or to send anything.
Fairness == \A s \in Sessions : WF_vars(HandlerStep(s) /\ pc[s] # "R.data")
FairSpec == Spec /\ Fairness

-----------------------------------------------------------------------------
Pcs == {"idle", "F.save", "F.root", "C.save", "C.zero", "C.entry", "W.free",
        "W.data", "W.save", "W.entry", "R.data", "D.free", "D.save", "D.entry"}

\* The status digit of a reply; "" when none was sent yet.
Replies == {"", "0", "1", "2"}

\* Every variable keeps its type: in particular the FAT only ever names data
\* blocks, and so do directory entries, whatever the sessions do.
TypeOK ==
  /\ fat \in [Blocks -> FatVal]
  /\ dfat \in [Blocks -> FatVal]
  /\ blocks \in [DirBlocks -> Block]
  /\ lock \in Sessions \cup {NoOne}
  /\ cwd \in [Sessions -> DirBlocks]
  /\ path \in [Sessions -> Seq(Names)]
  /\ reply \in [Sessions -> Replies]
  /\ pc \in [Sessions -> Pcs]
  /\ buf \in [Sessions -> Block]
  /\ slot \in [Sessions -> 1 .. BlockSize]
  /\ curr \in [Sessions -> FatVal \cup {Root}]
  /\ done \in [Sessions -> Nat]
  /\ seg \in [Sessions -> Nat]
  /\ len \in [Sessions -> Nat]
  /\ txt \in [Sessions -> Texts \cup {Zero}]
  /\ got \in [Sessions -> Seq(Unit)]
  /\ crashes \in 0 .. MaxCrashes
=============================================================================
