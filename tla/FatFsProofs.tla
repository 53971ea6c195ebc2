---------------------------- MODULE FatFsProofs ----------------------------
(***************************************************************************)
(* What TLAPS proves about FatFs, for every value of the constants.        *)
(***************************************************************************)
EXTENDS FatFsProps, Multiples, FiniteSetTheorems, WellFoundedInduction, TLAPS

-----------------------------------------------------------------------------
\* The layout of the disk, as the provers need it.
LEMMA Layout ==
  /\ NumBlocks \in Nat /\ FatBlocks \in Nat
  /\ Root = FatBlocks /\ 1 <= Root /\ Root < NumBlocks /\ NumBlocks <= 65535
  /\ FAT_FREE \notin DataBlocks /\ FAT_EOF \notin DataBlocks
  /\ DataBlocks \subseteq DirBlocks /\ DirBlocks \subseteq Blocks
  /\ Root \in DirBlocks
<1>1. /\ NumBlocks \in Nat /\ NumBlocks <= 65535
      /\ FatBlocks \in Nat /\ 1 <= FatBlocks /\ FatBlocks < NumBlocks
  BY LayoutAssumption
<1> QED
  BY <1>1 DEF Root, DataBlocks, DirBlocks, Blocks, FAT_FREE, FAT_EOF

\* A nonempty set of natural numbers has a least member, and First picks it.
LEMMA FirstIsLeast ==
  ASSUME NEW S \in SUBSET Nat, S # {}
  PROVE  First(S) \in S /\ \A j \in S : First(S) <= j
<1> DEFINE Below(a) == 0 .. (a - 1)
           T == {Below(a) : a \in S}
<1>1. T \subseteq FiniteSubsetsOf(Nat) /\ T # {}
  <2>1. ASSUME NEW a \in S
        PROVE  Below(a) \subseteq Nat /\ IsFiniteSet(Below(a))
    <3>1. a - 1 \in Int
      OBVIOUS
    <3> QED
      BY <3>1, FS_Interval
  <2> QED
    BY <2>1 DEF FiniteSubsetsOf
<1>2. PICK X \in T : \A Y \in T : <<Y, X>> \notin StrictSubsetOrdering(Nat)
  BY <1>1, WFMin, FS_StrictSubsetOrderingWellFounded
<1>3. PICK i \in S : X = Below(i)
  OBVIOUS
<1>4. ASSUME NEW j \in S, j < i
      PROVE  FALSE
  <2>1. Below(j) \subseteq Below(i) /\ j \in Below(i) /\ j \notin Below(j)
    BY <1>4
  <2>2. <<Below(j), Below(i)>> \in StrictSubsetOrdering(Nat)
    BY <2>1 DEF StrictSubsetOrdering
  <2> QED
    BY <1>2, <1>3, <2>2
<1>5. \A j \in S : i <= j
  BY <1>4
<1> QED
  BY <1>5 DEF First

LEMMA FindFreeIsFree ==
  ASSUME NEW f, FreeBlocks(f) # {}
  PROVE  FindFree(f) \in DataBlocks /\ f[FindFree(f)] = FAT_FREE
<1>1. FreeBlocks(f) \subseteq Nat
  BY Layout DEF FreeBlocks, DataBlocks
<1> QED
  BY <1>1, FirstIsLeast DEF FindFree, FreeBlocks

\* The first slot of a kind is a slot of that kind.
LEMMA FirstSlot ==
  ASSUME NEW S \in SUBSET (1 .. BlockSize), S # {}
  PROVE  First(S) \in S /\ First(S) \in 1 .. BlockSize
<1>1. S \in SUBSET Nat
  BY ConstantsAssumption
<1> QED
  BY <1>1, FirstIsLeast

\* A slot found by name holds an entry of that name.
LEMMA NamedIsEntry ==
  ASSUME NEW d \in Block, NEW n, NEW i \in SlotsNamed(d, n)
  PROVE  i \in 1 .. BlockSize /\ d[i] \in Entry /\ d[i].name = n
  BY DEF SlotsNamed, Named, Block, Unit

LEMMA DataIsBlock ==
  ASSUME NEW b \in DataBlocks
  PROVE  b \in Blocks /\ b \in DirBlocks /\ b \in FatVal
  BY Layout DEF FatVal

LEMMA EntryFields ==
  ASSUME NEW e \in Entry
  PROVE  /\ e.head \in DataBlocks /\ e.size \in Nat
         /\ e.name \in Names /\ e.type \in {"file", "dir"}
         /\ \A k \in Nat : [e EXCEPT !.size = k] \in Entry
  BY DEF Entry

LEMMA ZeroBlockIsBlock == ZeroBlock \in Block
  BY DEF ZeroBlock, Block, Unit, Pieces

\* What disk_read returns is a block, and what cmd_read takes of it is a
\* sequence of units.
LEMMA ReadIsUnits ==
  ASSUME NEW b, blocks \in [DirBlocks -> Block], NEW n \in 0 .. BlockSize
  PROVE  SubSeq(BlockAt(b), 1, n) \in Seq(Unit)
<1>1. BlockAt(b) \in [1 .. BlockSize -> Unit]
  BY DEF BlockAt, Block, Unit, Pieces
<1>2. BlockAt(b) \in Seq(Unit) /\ Len(BlockAt(b)) = BlockSize
  BY <1>1, ConstantsAssumption
<1> QED
  BY <1>2, ConstantsAssumption

\* The part of the invariant that speaks of the handlers' locals: a handler
\* that reads, writes or deletes works on an entry of its copy of the
\* directory, cmd_write's loop has something left to write, and starts with
\* nothing written.
AtWork == {"W.free", "W.data", "W.save", "W.entry", "R.data", "D.free", "D.save",
           "D.entry"}
LocalsOK ==
  \A s \in Sessions :
    /\ pc[s] \in AtWork => buf[s][slot[s]] \in Entry
    /\ pc[s] = "W.data" => done[s] < len[s]
    /\ pc[s] \in {"idle", "W.free"} => done[s] = 0

TypeInv == TypeOK /\ LocalsOK

\* The values that clear the locals have their types.
LEMMA ClearValues ==
  /\ 1 \in 1 .. BlockSize /\ Root \in FatVal \cup {Root} /\ 0 \in Nat
  /\ Zero \in Texts \cup {Zero} /\ <<>> \in Seq(Unit) /\ <<>> \in Seq(Names)
  /\ "idle" \in Pcs /\ "" \in Replies /\ 0 \in 0 .. MaxCrashes
  /\ FAT_FREE \in FatVal /\ FAT_EOF \in FatVal /\ NoOne \in Sessions \cup {NoOne}
  /\ Root \in DirBlocks
  BY ConstantsAssumption, Layout DEF Pcs, Replies, FatVal

LEMMA InitTypeInv == Init => TypeInv
<1> SUFFICES ASSUME Init PROVE TypeInv
  OBVIOUS
<1> USE DEF Init, Each
<1>1. TypeOK
  <2>1. fat \in [Blocks -> FatVal] /\ dfat \in [Blocks -> FatVal]
    BY ClearValues
  <2>5. blocks \in [DirBlocks -> Block]
    BY ZeroBlockIsBlock
  <2>6. lock \in Sessions \cup {NoOne} /\ crashes \in 0 .. MaxCrashes
    BY ClearValues
  <2>7. cwd \in [Sessions -> DirBlocks]
    BY ClearValues
  <2>2. /\ path \in [Sessions -> Seq(Names)] /\ reply \in [Sessions -> Replies]
        /\ pc \in [Sessions -> Pcs]
    BY ClearValues
  <2>3. /\ buf \in [Sessions -> Block] /\ slot \in [Sessions -> 1 .. BlockSize]
        /\ curr \in [Sessions -> FatVal \cup {Root}]
    BY ZeroBlockIsBlock, ClearValues
  <2>4. /\ done \in [Sessions -> Nat] /\ seg \in [Sessions -> Nat]
        /\ len \in [Sessions -> Nat]
        /\ txt \in [Sessions -> Texts \cup {Zero}] /\ got \in [Sessions -> Seq(Unit)]
    BY ClearValues
  <2> QED
    BY <2>1, <2>2, <2>3, <2>4, <2>5, <2>6, <2>7 DEF TypeOK
<1>2. LocalsOK
  BY DEF LocalsOK, AtWork
<1> QED
  BY <1>1, <1>2 DEF TypeInv

USE DEF memory, disk, dirs, locals

LEMMA AnswerTypeInv ==
  ASSUME TypeInv, NEW s \in Sessions, NEW r \in Replies, Answer(s, r)
  PROVE  TypeInv'
  BY DEF TypeInv, TypeOK, LocalsOK, Answer, Send

LEMMA FinishTypeInv ==
  ASSUME TypeInv, NEW s \in Sessions, NEW r \in Replies, Finish(s, r),
         (fat \in [Blocks -> FatVal] /\ dfat \in [Blocks -> FatVal]
          /\ blocks \in [DirBlocks -> Block] /\ cwd \in [Sessions -> DirBlocks]
          /\ path \in [Sessions -> Seq(Names)] /\ crashes \in 0 .. MaxCrashes)'
  PROVE  TypeInv'
<1> USE DEF TypeInv, TypeOK, Finish, ClearLocals, Goto, Send
<1>1. TypeOK'
  BY ZeroBlockIsBlock, ClearValues
<1>2. LocalsOK'
  BY DEF LocalsOK, AtWork
<1> QED
  BY <1>1, <1>2

LEMMA SaveFatTypeInv ==
  ASSUME TypeInv, NEW s \in Sessions, NEW from \in Pcs, NEW to \in Pcs,
         SaveFat(s, from, to), to \notin {"W.data", "idle", "W.free"},
         to \in AtWork => from \in AtWork
  PROVE  TypeInv'
<1>1. dfat' \in [Blocks -> FatVal]
  <2>1. dfat' = [b \in Blocks |->
                   IF FatBlockOf(b) = seg[s] THEN fat[b] ELSE dfat[b]]
    BY DEF SaveFat
  <2>2. fat \in [Blocks -> FatVal] /\ dfat \in [Blocks -> FatVal]
    BY DEF TypeInv, TypeOK
  <2> QED
    BY <2>1, <2>2
<1>2. pc' \in [Sessions -> Pcs] /\ seg' \in [Sessions -> Nat]
  <2>1. \/ seg' = [seg EXCEPT ![s] = @ + 1] /\ pc' = pc
        \/ seg' = [seg EXCEPT ![s] = 0] /\ pc' = [pc EXCEPT ![s] = to]
    BY DEF SaveFat, Goto
  <2>2. pc \in [Sessions -> Pcs] /\ seg \in [Sessions -> Nat]
    BY DEF TypeInv, TypeOK
  <2> QED
    BY <2>1, <2>2
<1>3. TypeOK'
  BY <1>1, <1>2 DEF TypeInv, TypeOK, SaveFat
<1>4. pc \in [Sessions -> Pcs] /\ pc[s] = from
  BY DEF TypeInv, TypeOK, SaveFat
<1>5. pc' = pc \/ pc' = [pc EXCEPT ![s] = to]
  BY DEF SaveFat, Goto
<1>6. UNCHANGED <<buf, slot, done, len>>
  BY DEF SaveFat
<1>7. ASSUME NEW q \in Sessions
      PROVE  /\ pc'[q] \in AtWork => buf'[q][slot'[q]] \in Entry
             /\ pc'[q] = "W.data" => done'[q] < len'[q]
             /\ pc'[q] \in {"idle", "W.free"} => done'[q] = 0
  BY <1>4, <1>5, <1>6 DEF TypeInv, LocalsOK
<1>8. LocalsOK'
  BY <1>7 DEF LocalsOK
<1> QED
  BY <1>3, <1>8 DEF TypeInv

\* What disk-block numbers a loop over a chain goes through.
LEMMA LinkIsBlock ==
  ASSUME NEW c \in FatVal \cup {Root}, c \notin {FAT_EOF, FAT_FREE}
  PROVE  c \in Blocks
<1>1. c \in DataBlocks \cup {Root}
  BY DEF FatVal
<1> QED
  BY <1>1, Layout

LEMMA FreeStepTypeInv ==
  ASSUME TypeInv, NEW s \in Sessions, FreeStep(s)
  PROVE  TypeInv'
<1>1. curr[s] \in Blocks
  BY LinkIsBlock DEF TypeInv, TypeOK, FreeStep
<1>2. fat' \in [Blocks -> FatVal]
  BY <1>1, ClearValues DEF TypeInv, TypeOK, FreeStep
<1>3. curr' \in [Sessions -> FatVal \cup {Root}]
  BY <1>1 DEF TypeInv, TypeOK, FreeStep
<1>4. TypeOK'
  BY <1>2, <1>3 DEF TypeInv, TypeOK, FreeStep
<1>5. LocalsOK'
  BY DEF TypeInv, LocalsOK, FreeStep
<1> QED
  BY <1>4, <1>5 DEF TypeInv

-----------------------------------------------------------------------------
\* What each command and each step of a handler does to the types.

LEMMA CreateTypeInv ==
  ASSUME TypeInv, NEW s \in Sessions, NEW n \in Names, Create(s, n)
  PROVE  TypeInv'
<1> DEFINE d == blocks[cwd[s]]
           i == First(SlotsFree(d))
           b == FindFree(fat)
<1>1. ASSUME CreateRefused(s, n)
      PROVE  TypeInv'
  <2>1. PICK r \in Replies : Answer(s, r)
    BY <1>1 DEF CreateRefused, Replies
  <2> QED
    BY <2>1, AnswerTypeInv
<1>2. ASSUME NEW t \in {"file", "dir"}, CreateAlloc(s, n, t)
      PROVE  TypeInv'
  <2>1. b \in DataBlocks
    BY <1>2, FindFreeIsFree DEF CreateAlloc
  <2>2. SlotsFree(d) \in SUBSET (1 .. BlockSize) /\ SlotsFree(d) # {}
    BY <1>2 DEF CreateAlloc, SlotsFree
  <2>3. i \in 1 .. BlockSize
    BY <2>2, FirstSlot
  <2>4. [name |-> n, type |-> t, head |-> b, size |-> 0] \in Unit
    BY <2>1 DEF Unit, Entry
  <2>5. d \in Block
    BY DEF TypeInv, TypeOK
  <2>6. [d EXCEPT ![i] = [name |-> n, type |-> t, head |-> b, size |-> 0]] \in Block
    BY <2>3, <2>4, <2>5 DEF Block
  <2>7. buf' \in [Sessions -> Block]
    <3>1. buf' = [buf EXCEPT ![s] = [d EXCEPT ![i] =
                    [name |-> n, type |-> t, head |-> b, size |-> 0]]]
      BY <1>2 DEF CreateAlloc
    <3>2. buf \in [Sessions -> Block]
      BY DEF TypeInv, TypeOK
    <3> HIDE DEF i, d, b
    <3> QED
      BY <2>6, <3>1, <3>2
  <2>8. fat' \in [Blocks -> FatVal]
    <3>1. fat' = [fat EXCEPT ![b] = FAT_EOF] /\ fat \in [Blocks -> FatVal]
      BY <1>2 DEF CreateAlloc, TypeInv, TypeOK
    <3> QED
      BY <3>1, ClearValues
  <2>9. curr' \in [Sessions -> FatVal \cup {Root}] /\ lock' \in Sessions \cup {NoOne}
    <3>1. curr' = [curr EXCEPT ![s] = b] /\ lock' = s
          /\ curr \in [Sessions -> FatVal \cup {Root}]
      BY <1>2 DEF CreateAlloc, TypeInv, TypeOK, Lock
    <3> QED
      BY <2>1, <3>1 DEF FatVal
  <2>10. pc' = [pc EXCEPT ![s] = "C.save"] /\ pc \in [Sessions -> Pcs]
    BY <1>2 DEF CreateAlloc, TypeInv, TypeOK, Goto
  <2>11. UNCHANGED <<disk, dirs, reply, slot, done, seg, len, txt, got, crashes>>
    BY <1>2 DEF CreateAlloc
  <2>12. TypeOK'
    BY <2>7, <2>8, <2>9, <2>10, <2>11 DEF TypeInv, TypeOK, Pcs
  <2>13. LocalsOK'
    <3>1. \A q \in Sessions : q # s => buf'[q] = buf[q] /\ pc'[q] = pc[q]
      BY <1>2 DEF CreateAlloc, TypeInv, TypeOK, Goto
    <3> QED
      BY <2>10, <2>11, <3>1 DEF TypeInv, LocalsOK, AtWork
  <2> QED
    BY <2>12, <2>13 DEF TypeInv
<1> QED
  BY <1>1, <1>2 DEF Create

\* cmd_read, cmd_write and cmd_delete begin alike: the handler copies its
\* directory block and works on an entry of it.
LEMMA OpenTypeInv ==
  ASSUME TypeInv, NEW s \in Sessions, NEW d \in Block, NEW i \in 1 .. BlockSize,
         d[i] \in Entry, NEW c \in FatVal, NEW to \in AtWork, to # "W.data", pc[s] = "idle",
         buf' = [buf EXCEPT ![s] = d], slot' = [slot EXCEPT ![s] = i],
         curr' = [curr EXCEPT ![s] = c], pc' = [pc EXCEPT ![s] = to], lock' = s,
         len' \in [Sessions -> Nat], txt' \in [Sessions -> Texts \cup {Zero}],
         \A q \in Sessions \ {s} : len'[q] = len[q],
         UNCHANGED <<fat, disk, dirs, reply, done, seg, got, crashes>>
  PROVE  TypeInv'
<1>1. pc' \in [Sessions -> Pcs]
  BY DEF TypeInv, TypeOK, AtWork, Pcs
<1>2. buf' \in [Sessions -> Block] /\ slot' \in [Sessions -> 1 .. BlockSize]
      /\ curr' \in [Sessions -> FatVal \cup {Root}]
  BY DEF TypeInv, TypeOK
<1>3. TypeOK'
  BY <1>1, <1>2 DEF TypeInv, TypeOK
<1>4. ASSUME NEW q \in Sessions
      PROVE  /\ pc'[q] \in AtWork => buf'[q][slot'[q]] \in Entry
             /\ pc'[q] = "W.data" => done'[q] < len'[q]
             /\ pc'[q] \in {"idle", "W.free"} => done'[q] = 0
  <2>1. CASE q = s
    <3>1. buf'[q] = d /\ slot'[q] = i /\ pc'[q] = to /\ done'[q] = 0
      BY <2>1 DEF TypeInv, TypeOK, LocalsOK
    <3> QED
      BY <3>1 DEF AtWork
  <2>2. CASE q # s
    <3>1. buf'[q] = buf[q] /\ slot'[q] = slot[q] /\ pc'[q] = pc[q]
          /\ len'[q] = len[q] /\ done'[q] = done[q]
      BY <2>2 DEF TypeInv, TypeOK
    <3> QED
      BY <3>1 DEF TypeInv, LocalsOK
  <2> QED
    BY <2>1, <2>2
<1>5. LocalsOK'
  BY <1>4 DEF LocalsOK
<1> QED
  BY <1>3, <1>5 DEF TypeInv

\* The entry such a command finds by name in its current directory.
LEMMA FoundEntry ==
  ASSUME TypeInv, NEW s \in Sessions, NEW n, SlotsNamed(blocks[cwd[s]], n) # {}
  PROVE  LET d == blocks[cwd[s]]
             i == First(SlotsNamed(d, n))
         IN  /\ d \in Block /\ i \in SlotsNamed(d, n) /\ i \in 1 .. BlockSize
             /\ d[i] \in Entry /\ d[i].head \in DataBlocks
<1> DEFINE d == blocks[cwd[s]]
           i == First(SlotsNamed(d, n))
<1>1. d \in Block
  BY DEF TypeInv, TypeOK
<1>2. SlotsNamed(d, n) \in SUBSET (1 .. BlockSize)
  BY DEF SlotsNamed
<1>3. i \in SlotsNamed(d, n)
  BY <1>2, FirstSlot
<1>4. d[i] \in Entry /\ i \in 1 .. BlockSize
  BY <1>1, <1>3, NamedIsEntry
<1> QED
  BY <1>1, <1>3, <1>4, EntryFields

LEMMA WriteFileTypeInv ==
  ASSUME TypeInv, NEW s \in Sessions, NEW n \in Names, NEW l \in Lens,
         NEW t \in Texts, WriteFile(s, n, l, t)
  PROVE  TypeInv'
<1> DEFINE d == blocks[cwd[s]]
           i == First(SlotsNamed(d, n))
<1>1. SlotsNamed(d, n) # {}
  BY DEF WriteFile
<1>2. d \in Block /\ i \in 1 .. BlockSize /\ d[i] \in Entry
      /\ d[i].head \in DataBlocks
  BY <1>1, FoundEntry
<1>8. fat \in [Blocks -> FatVal]
  BY DEF TypeInv, TypeOK
<1>9. d[i].head \in Blocks
  BY <1>2, DataIsBlock
<1>3. fat[d[i].head] \in FatVal
  BY <1>8, <1>9
<1>4. len' = [len EXCEPT ![s] = l] /\ txt' = [txt EXCEPT ![s] = t]
      /\ len \in [Sessions -> Nat] /\ txt \in [Sessions -> Texts \cup {Zero}]
      /\ l \in Nat
  BY ConstantsAssumption DEF WriteFile, TypeInv, TypeOK
<1>5. len' \in [Sessions -> Nat] /\ txt' \in [Sessions -> Texts \cup {Zero}]
      /\ \A q \in Sessions \ {s} : len'[q] = len[q]
  BY <1>4
<1>6. buf' = [buf EXCEPT ![s] = d] /\ slot' = [slot EXCEPT ![s] = i]
      /\ curr' = [curr EXCEPT ![s] = fat[d[i].head]]
      /\ pc' = [pc EXCEPT ![s] = "W.free"] /\ lock' = s /\ pc[s] = "idle"
      /\ UNCHANGED <<fat, disk, dirs, reply, done, seg, got, crashes>>
  BY DEF WriteFile, Goto, Lock, Request
<1>7. "W.free" \in AtWork /\ "W.free" # "W.data"
  BY DEF AtWork
<1> HIDE DEF d, i
<1> QED
  BY <1>2, <1>3, <1>5, <1>6, <1>7, OpenTypeInv

LEMMA ReadFileTypeInv ==
  ASSUME TypeInv, NEW s \in Sessions, NEW n \in Names, ReadFile(s, n)
  PROVE  TypeInv'
<1> DEFINE d == blocks[cwd[s]]
           i == First(SlotsNamed(d, n))
<1>1. SlotsNamed(d, n) # {}
  BY DEF ReadFile
<1>2. d \in Block /\ i \in 1 .. BlockSize /\ d[i] \in Entry
      /\ d[i].head \in FatVal
  BY <1>1, FoundEntry DEF FatVal
<1>3. buf' = [buf EXCEPT ![s] = d] /\ slot' = [slot EXCEPT ![s] = i]
      /\ curr' = [curr EXCEPT ![s] = d[i].head]
      /\ pc' = [pc EXCEPT ![s] = "R.data"] /\ lock' = s /\ pc[s] = "idle"
      /\ UNCHANGED <<fat, disk, dirs, reply, done, seg, got, crashes>>
      /\ UNCHANGED <<len, txt>>
  BY DEF ReadFile, Goto, Lock, Request
<1>4. len' \in [Sessions -> Nat] /\ txt' \in [Sessions -> Texts \cup {Zero}]
      /\ \A q \in Sessions \ {s} : len'[q] = len[q]
  BY <1>3 DEF TypeInv, TypeOK
<1>5. "R.data" \in AtWork /\ "R.data" # "W.data"
  BY DEF AtWork
<1> HIDE DEF d, i
<1> QED
  BY <1>2, <1>3, <1>4, <1>5, OpenTypeInv

LEMMA DeleteTypeInv ==
  ASSUME TypeInv, NEW s \in Sessions, NEW n \in Names, Delete(s, n)
  PROVE  TypeInv'
<1> DEFINE d == blocks[cwd[s]]
           i == First(SlotsNamed(d, n))
<1>1. ASSUME NEW t \in {"file", "dir"}, DeleteRefused(s, n, t)
      PROVE  TypeInv'
  <2>1. PICK r \in Replies : Answer(s, r)
    BY <1>1 DEF DeleteRefused, Replies
  <2> QED
    BY <2>1, AnswerTypeInv
<1>2. ASSUME NEW t \in {"file", "dir"}, DeleteFile(s, n, t)
      PROVE  TypeInv'
  <2>1. SlotsNamed(d, n) # {}
    BY <1>2 DEF DeleteFile
  <2>2. d \in Block /\ i \in 1 .. BlockSize /\ d[i] \in Entry
        /\ d[i].head \in FatVal
    BY <2>1, FoundEntry DEF FatVal
  <2>3. buf' = [buf EXCEPT ![s] = d] /\ slot' = [slot EXCEPT ![s] = i]
        /\ curr' = [curr EXCEPT ![s] = d[i].head]
        /\ pc' = [pc EXCEPT ![s] = "D.free"] /\ lock' = s /\ pc[s] = "idle"
        /\ UNCHANGED <<fat, disk, dirs, reply, done, seg, got, crashes>>
        /\ UNCHANGED <<len, txt>>
    BY <1>2 DEF DeleteFile, Goto, Lock
  <2>4. len' \in [Sessions -> Nat] /\ txt' \in [Sessions -> Texts \cup {Zero}]
        /\ \A q \in Sessions \ {s} : len'[q] = len[q]
    BY <2>3 DEF TypeInv, TypeOK
  <2>5. "D.free" \in AtWork /\ "D.free" # "W.data"
    BY DEF AtWork
  <2> HIDE DEF d, i
  <2> QED
    BY <2>2, <2>3, <2>4, <2>5, OpenTypeInv
<1> QED
  BY <1>1, <1>2 DEF Delete

\* The first block of the file a handler works on is one of the FAT's.
LEMMA HeadIsBlock ==
  ASSUME TypeInv, NEW s \in Sessions, pc[s] \in AtWork
  PROVE  buf[s][slot[s]].head \in DataBlocks
  BY EntryFields DEF TypeInv, LocalsOK

LEMMA WriteHeadTypeInv ==
  ASSUME TypeInv, NEW s \in Sessions, WriteHead(s)
  PROVE  TypeInv'
<1> DEFINE head == buf[s][slot[s]].head
<1>1. pc[s] = "W.free" /\ done[s] \in Nat /\ len[s] \in Nat
  BY DEF WriteHead, TypeInv, TypeOK
<1>2. head \in Blocks /\ head \in FatVal
  BY <1>1, HeadIsBlock, DataIsBlock DEF AtWork
<1>3. /\ fat' = [fat EXCEPT ![head] = FAT_EOF]
      /\ curr' = [curr EXCEPT ![s] = head]
      /\ \/ pc' = [pc EXCEPT ![s] = "W.data"] /\ len[s] > 0
         \/ pc' = [pc EXCEPT ![s] = "W.save"]
      /\ UNCHANGED <<lock, disk, dirs, reply, buf, slot, done, seg, len, txt,
                     got, crashes>>
  BY <1>1 DEF WriteHead, Goto
<1>4. TypeOK'
  <2>1. fat' \in [Blocks -> FatVal] /\ curr' \in [Sessions -> FatVal \cup {Root}]
    <3>1. fat \in [Blocks -> FatVal] /\ curr \in [Sessions -> FatVal \cup {Root}]
          /\ FAT_EOF \in FatVal
      BY ClearValues DEF TypeInv, TypeOK
    <3> HIDE DEF head
    <3> QED
      BY <1>2, <1>3, <3>1
  <2>2. pc' \in [Sessions -> Pcs]
    BY <1>3 DEF TypeInv, TypeOK, Pcs
  <2> QED
    BY <1>3, <2>1, <2>2 DEF TypeInv, TypeOK
<1>5. ASSUME NEW q \in Sessions
      PROVE  /\ pc'[q] \in AtWork => buf'[q][slot'[q]] \in Entry
             /\ pc'[q] = "W.data" => done'[q] < len'[q]
             /\ pc'[q] \in {"idle", "W.free"} => done'[q] = 0
  <2>1. CASE q = s
    <3>1. done[s] = 0 /\ buf[s][slot[s]] \in Entry
      BY <1>1 DEF TypeInv, LocalsOK, AtWork
    <3> QED
      BY <1>1, <1>3, <2>1, <3>1 DEF TypeInv, TypeOK
  <2>2. CASE q # s
    <3>1. pc'[q] = pc[q]
      BY <1>3, <2>2 DEF TypeInv, TypeOK
    <3> QED
      BY <1>3, <3>1 DEF TypeInv, LocalsOK
  <2> QED
    BY <2>1, <2>2
<1>6. LocalsOK'
  BY <1>5 DEF LocalsOK
<1> QED
  BY <1>4, <1>6 DEF TypeInv

LEMMA ChunkIsBlock ==
  ASSUME NEW t \in Texts, NEW n
  PROVE  Chunk(t, n) \in Block
  BY DEF Chunk, Block, Unit, Pieces

\* A chunk is at most a block, and at most what is left.
LEMMA ChunkSize ==
  ASSUME NEW n \in Nat
  PROVE  AtMostBlock(n) \in 0 .. BlockSize /\ AtMostBlock(n) <= n
  BY ConstantsAssumption DEF AtMostBlock

LEMMA WriteChunkTypeInv ==
  ASSUME TypeInv, NEW s \in Sessions, WriteChunk(s)
  PROVE  TypeInv'
<1> DEFINE n == AtMostBlock(len[s] - done[s])
           b == FindFree(fat)
<1>1. pc[s] = "W.data" /\ done[s] \in Nat /\ len[s] \in Nat /\ done[s] < len[s]
      /\ buf[s][slot[s]] \in Entry
  BY DEF WriteChunk, TypeInv, TypeOK, LocalsOK, AtWork
<1>2. n \in Nat /\ done[s] + n <= len[s]
  <2>1. len[s] - done[s] \in Nat
    BY <1>1
  <2>2. n \in 0 .. BlockSize /\ n <= len[s] - done[s]
    BY <2>1, ChunkSize
  <2> HIDE DEF n
  <2> QED
    BY <1>1, <2>2, ConstantsAssumption
<1>3. /\ blocks' = [blocks EXCEPT ![curr[s]] = Chunk(txt[s], n)]
      /\ done' = [done EXCEPT ![s] = @ + n]
      /\ UNCHANGED <<lock, dfat, dirs, reply, buf, slot, seg, len, txt, got,
                     crashes>>
  BY DEF WriteChunk
<1>4. \/ /\ done[s] + n < len[s] /\ FreeBlocks(fat) # {} /\ pc' = pc
         /\ fat' = [fat EXCEPT ![curr[s]] = b, ![b] = FAT_EOF]
         /\ curr' = [curr EXCEPT ![s] = b]
      \/ pc' = [pc EXCEPT ![s] = "W.save"] /\ fat' = fat /\ curr' = curr
  BY DEF WriteChunk, Goto
<1>5. blocks' \in [DirBlocks -> Block]
  <2>1. Chunk(txt[s], n) \in Block
    <3>1. CASE txt[s] \in Texts
      BY <3>1, ChunkIsBlock
    <3>2. CASE txt[s] = Zero
      BY <3>2 DEF Chunk, Block, Unit, Pieces
    <3> QED
      BY <3>1, <3>2 DEF TypeInv, TypeOK
  <2>2. blocks \in [DirBlocks -> Block]
    BY DEF TypeInv, TypeOK
  <2> HIDE DEF n
  <2> QED
    BY <1>3, <2>1, <2>2
<1>6. fat' \in [Blocks -> FatVal] /\ curr' \in [Sessions -> FatVal \cup {Root}]
  <2>1. fat \in [Blocks -> FatVal] /\ curr \in [Sessions -> FatVal \cup {Root}]
    BY DEF TypeInv, TypeOK
  <2>2. CASE fat' = fat /\ curr' = curr
    BY <2>1, <2>2
  <2>3. CASE /\ FreeBlocks(fat) # {}
             /\ fat' = [fat EXCEPT ![curr[s]] = b, ![b] = FAT_EOF]
             /\ curr' = [curr EXCEPT ![s] = b]
    <3>1. b \in FatVal /\ FAT_EOF \in FatVal
      BY <2>3, FindFreeIsFree, DataIsBlock, ClearValues
    <3> HIDE DEF b
    <3> QED
      BY <2>1, <2>3, <3>1
  <2> HIDE DEF b, n
  <2> QED
    BY <1>4, <2>2, <2>3
<1>7. done' \in [Sessions -> Nat] /\ pc' \in [Sessions -> Pcs]
  <2>1. done \in [Sessions -> Nat] /\ pc \in [Sessions -> Pcs] /\ "W.save" \in Pcs
    BY DEF TypeInv, TypeOK, Pcs
  <2>2. done[s] + n \in Nat
    BY <1>1, <1>2
  <2> HIDE DEF b, n
  <2> QED
    BY <1>3, <1>4, <2>1, <2>2
<1>8. TypeOK'
  BY <1>3, <1>5, <1>6, <1>7 DEF TypeInv, TypeOK
<1>9. ASSUME NEW q \in Sessions
      PROVE  /\ pc'[q] \in AtWork => buf'[q][slot'[q]] \in Entry
             /\ pc'[q] = "W.data" => done'[q] < len'[q]
             /\ pc'[q] \in {"idle", "W.free"} => done'[q] = 0
  <2> HIDE DEF b, n
  <2>1. CASE q = s
    <3>1. done'[q] = done[s] + n /\ len'[q] = len[s] /\ buf'[q] = buf[s]
          /\ slot'[q] = slot[s]
      BY <1>3, <2>1 DEF TypeInv, TypeOK
    <3>2. \/ done[s] + n < len[s] /\ pc'[q] = "W.data"
          \/ pc'[q] = "W.save"
      BY <1>1, <1>4, <2>1 DEF TypeInv, TypeOK
    <3> QED
      BY <1>1, <3>1, <3>2
  <2>2. CASE q # s
    <3>1. pc'[q] = pc[q] /\ done'[q] = done[q] /\ len'[q] = len[q]
          /\ buf'[q] = buf[q] /\ slot'[q] = slot[q]
      BY <1>3, <1>4, <2>2 DEF TypeInv, TypeOK
    <3> QED
      BY <3>1 DEF TypeInv, LocalsOK
  <2> QED
    BY <2>1, <2>2
<1>10. LocalsOK'
  BY <1>9 DEF LocalsOK
<1> QED
  BY <1>8, <1>10 DEF TypeInv

LEMMA ReadChunkTypeInv ==
  ASSUME TypeInv, NEW s \in Sessions, ReadChunk(s)
  PROVE  TypeInv'
<1> DEFINE size == buf[s][slot[s]].size
           n == AtMostBlock(size - done[s])
           part == SubSeq(BlockAt(curr[s]), 1, n)
<1>1. pc[s] = "R.data" /\ curr[s] # FAT_EOF /\ ~(done[s] >= size)
  BY DEF ReadChunk, ReadOver
<1>2. done[s] \in Nat /\ size \in Nat
  BY <1>1, EntryFields DEF TypeInv, TypeOK, LocalsOK, AtWork
<1>3. n \in 0 .. BlockSize
  <2>1. size - done[s] \in Nat
    BY <1>1, <1>2
  <2> QED
    BY <2>1, ChunkSize
<1>4. part \in Seq(Unit)
  BY <1>3, ReadIsUnits DEF TypeInv, TypeOK
<1>5. fat[curr[s]] \in FatVal
  <2>1. curr[s] \in FatVal \cup {Root} /\ fat \in [Blocks -> FatVal]
    BY DEF TypeInv, TypeOK
  <2>2. FAT_FREE \in Blocks
    BY Layout DEF FAT_FREE, Blocks
  <2>3. curr[s] \in Blocks
    BY <1>1, <2>1, <2>2, LinkIsBlock
  <2> QED
    BY <2>1, <2>3
<1>6. /\ got' = [got EXCEPT ![s] = @ \o part]
      /\ done' = [done EXCEPT ![s] = @ + n]
      /\ curr' = [curr EXCEPT ![s] = fat[curr[s]]]
      /\ UNCHANGED <<memory, disk, dirs, reply, pc, buf, slot, seg, len, txt,
                     crashes>>
  BY DEF ReadChunk
<1>7. got' \in [Sessions -> Seq(Unit)]
  <2>1. got \in [Sessions -> Seq(Unit)]
    BY DEF TypeInv, TypeOK
  <2>2. got[s] \o part \in Seq(Unit)
    BY <1>4, <2>1
  <2> HIDE DEF part
  <2> QED
    BY <1>6, <2>1, <2>2
<1>8. done' \in [Sessions -> Nat] /\ curr' \in [Sessions -> FatVal \cup {Root}]
  <2>1. done \in [Sessions -> Nat] /\ curr \in [Sessions -> FatVal \cup {Root}]
    BY DEF TypeInv, TypeOK
  <2>2. done[s] + n \in Nat
    BY <1>2, <1>3
  <2> HIDE DEF n
  <2> QED
    BY <1>5, <1>6, <2>1, <2>2
<1>9. TypeOK'
  BY <1>6, <1>7, <1>8 DEF TypeInv, TypeOK
<1>10. \A q \in Sessions : q # s => done'[q] = done[q]
  BY <1>6 DEF TypeInv, TypeOK
<1>11. LocalsOK'
  BY <1>1, <1>6, <1>10 DEF TypeInv, LocalsOK
<1> QED
  BY <1>9, <1>11 DEF TypeInv

\* The last step of a command that writes a directory block back.
LEMMA WriteBackTypeInv ==
  ASSUME TypeInv, NEW s \in Sessions, NEW a \in DirBlocks, NEW d \in Block,
         blocks' = [blocks EXCEPT ![a] = d], Finish(s, "0"),
         UNCHANGED <<fat, dfat, dirs, crashes>>
  PROVE  TypeInv'
<1>1. blocks' \in [DirBlocks -> Block]
  BY DEF TypeInv, TypeOK
<1>2. (fat \in [Blocks -> FatVal] /\ dfat \in [Blocks -> FatVal]
       /\ cwd \in [Sessions -> DirBlocks] /\ path \in [Sessions -> Seq(Names)]
       /\ crashes \in 0 .. MaxCrashes)'
  BY DEF TypeInv, TypeOK
<1>3. "0" \in Replies
  BY DEF Replies
<1> QED
  BY <1>1, <1>2, <1>3, FinishTypeInv

LEMMA EntryStepsTypeInv ==
  ASSUME TypeInv, NEW s \in Sessions,
         CreateEntry(s) \/ WriteEntry(s) \/ DeleteEntry(s)
  PROVE  TypeInv'
<1>1. cwd[s] \in DirBlocks /\ buf[s] \in Block /\ slot[s] \in 1 .. BlockSize
      /\ done[s] \in Nat
  BY DEF TypeInv, TypeOK
<1>2. CASE CreateEntry(s)
  BY <1>1, <1>2, WriteBackTypeInv DEF CreateEntry
<1>3. CASE WriteEntry(s)
  <2>1. [buf[s][slot[s]] EXCEPT !.size = done[s]] \in Entry
    BY <1>1, <1>3, EntryFields DEF WriteEntry, TypeInv, LocalsOK, AtWork
  <2>2. [buf[s] EXCEPT ![slot[s]].size = done[s]] \in Block
    BY <1>1, <2>1 DEF Block, Unit
  <2> QED
    BY <1>1, <1>3, <2>2, WriteBackTypeInv DEF WriteEntry
<1>4. CASE DeleteEntry(s)
  <2>1. [buf[s] EXCEPT ![slot[s]] = Zero] \in Block
    BY <1>1 DEF Block, Unit, Pieces
  <2> QED
    BY <1>1, <1>4, <2>1, WriteBackTypeInv DEF DeleteEntry
<1> QED
  BY <1>2, <1>3, <1>4

LEMMA ReadEndTypeInv ==
  ASSUME TypeInv, NEW s \in Sessions, ReadEnd(s)
  PROVE  TypeInv'
<1>1. (fat \in [Blocks -> FatVal] /\ dfat \in [Blocks -> FatVal]
       /\ blocks \in [DirBlocks -> Block] /\ cwd \in [Sessions -> DirBlocks]
       /\ path \in [Sessions -> Seq(Names)] /\ crashes \in 0 .. MaxCrashes)'
  BY DEF TypeInv, TypeOK, ReadEnd
<1>2. "0" \in Replies /\ Finish(s, "0")
  BY DEF Replies, ReadEnd
<1> QED
  BY <1>1, <1>2, FinishTypeInv

LEMMA FormatTypeInv ==
  ASSUME TypeInv, NEW s \in Sessions, Format(s) \/ FormatRoot(s)
  PROVE  TypeInv'
<1>1. CASE Format(s)
  <2>1. fat' = [b \in Blocks |-> IF b <= Root THEN FAT_EOF ELSE FAT_FREE]
        /\ lock' = s /\ pc' = [pc EXCEPT ![s] = "F.save"]
        /\ UNCHANGED <<disk, dirs, reply, locals, crashes>>
    BY <1>1 DEF Format, Goto, Lock
  <2>2. fat' \in [Blocks -> FatVal]
    BY <2>1, ClearValues
  <2>3. pc' \in [Sessions -> Pcs]
    BY <2>1 DEF TypeInv, TypeOK, Pcs
  <2>4. TypeOK'
    BY <2>1, <2>2, <2>3 DEF TypeInv, TypeOK
  <2>5. LocalsOK'
    BY <2>1 DEF TypeInv, TypeOK, LocalsOK, AtWork
  <2> QED
    BY <2>4, <2>5 DEF TypeInv
<1>2. CASE FormatRoot(s)
  <2>1. blocks' \in [DirBlocks -> Block]
    BY <1>2, ZeroBlockIsBlock DEF TypeInv, TypeOK, FormatRoot
  <2>2. cwd' \in [Sessions -> DirBlocks] /\ path' \in [Sessions -> Seq(Names)]
    BY <1>2, ClearValues DEF TypeInv, TypeOK, FormatRoot
  <2>3. (fat \in [Blocks -> FatVal] /\ dfat \in [Blocks -> FatVal]
         /\ crashes \in 0 .. MaxCrashes)'
    BY <1>2 DEF TypeInv, TypeOK, FormatRoot
  <2>4. "0" \in Replies /\ Finish(s, "0")
    BY <1>2 DEF Replies, FormatRoot
  <2> QED
    BY <2>1, <2>2, <2>3, <2>4, FinishTypeInv
<1> QED
  BY <1>1, <1>2

LEMMA GotoTypeInv ==
  ASSUME TypeInv, NEW s \in Sessions, CreateZero(s) \/ DeleteFreed(s)
  PROVE  TypeInv'
<1>1. CASE CreateZero(s)
  <2>1. blocks' \in [DirBlocks -> Block]
    BY <1>1, ZeroBlockIsBlock DEF TypeInv, TypeOK, CreateZero
  <2>2. pc' \in [Sessions -> Pcs]
    BY <1>1 DEF TypeInv, TypeOK, CreateZero, Goto, Pcs
  <2>3. TypeOK'
    BY <1>1, <2>1, <2>2 DEF TypeInv, TypeOK, CreateZero
  <2>4. LocalsOK'
    BY <1>1 DEF TypeInv, TypeOK, LocalsOK, AtWork, CreateZero, Goto
  <2> QED
    BY <2>3, <2>4 DEF TypeInv
<1>2. CASE DeleteFreed(s)
  <2>1. pc' \in [Sessions -> Pcs]
    BY <1>2 DEF TypeInv, TypeOK, DeleteFreed, Goto, Pcs
  <2>2. TypeOK'
    BY <1>2, <2>1 DEF TypeInv, TypeOK, DeleteFreed
  <2>3. LocalsOK'
    BY <1>2 DEF TypeInv, TypeOK, LocalsOK, AtWork, DeleteFreed, Goto
  <2> QED
    BY <2>2, <2>3 DEF TypeInv
<1> QED
  BY <1>1, <1>2

LEMMA DirTypeInv ==
  ASSUME TypeInv, NEW s \in Sessions, NEW a \in DirBlocks, NEW p \in Seq(Names),
         NEW r \in Replies, cwd' = [cwd EXCEPT ![s] = a],
         path' = [path EXCEPT ![s] = p], Send(s, r),
         UNCHANGED <<memory, disk, pc, locals, crashes>>
  PROVE  TypeInv'
<1>1. cwd' \in [Sessions -> DirBlocks] /\ path' \in [Sessions -> Seq(Names)]
  BY DEF TypeInv, TypeOK
<1>2. reply' \in [Sessions -> Replies]
  BY DEF TypeInv, TypeOK, Send
<1>3. TypeOK'
  BY <1>1, <1>2 DEF TypeInv, TypeOK
<1>4. LocalsOK'
  BY DEF TypeInv, LocalsOK
<1> QED
  BY <1>3, <1>4 DEF TypeInv

LEMMA CdTypeInv ==
  ASSUME TypeInv, NEW s \in Sessions, NEW n \in Names, Cd(s, n)
  PROVE  TypeInv'
<1> DEFINE d == blocks[cwd[s]]
           i == First(DirsNamed(d, n))
<1>1. path[s] \in Seq(Names) /\ path \in [Sessions -> Seq(Names)]
  BY DEF TypeInv, TypeOK
<1>2. d[i].head \in DirBlocks
  <2>1. DirsNamed(d, n) \in SUBSET (1 .. BlockSize) /\ DirsNamed(d, n) # {}
        /\ DirsNamed(d, n) \subseteq SlotsNamed(d, n)
    BY DEF Cd, DirsNamed, SlotsNamed
  <2>2. i \in SlotsNamed(d, n)
    BY <2>1, FirstSlot
  <2>3. d \in Block
    BY DEF TypeInv, TypeOK
  <2>4. d[i] \in Entry
    BY <2>2, <2>3, NamedIsEntry
  <2> QED
    BY <2>4, EntryFields, DataIsBlock
<1>3. cwd' = [cwd EXCEPT ![s] = d[i].head]
      /\ UNCHANGED <<memory, disk, pc, locals, crashes>>
  BY DEF Cd
<1>4. \/ path' = [path EXCEPT ![s] = Append(@, n)] /\ Send(s, "0")
      \/ path' = path /\ Send(s, "2")
  BY DEF Cd
<1>5. CASE path' = [path EXCEPT ![s] = Append(@, n)] /\ Send(s, "0")
  <2>1. Append(path[s], n) \in Seq(Names) /\ "0" \in Replies
    BY <1>1 DEF Replies
  <2> HIDE DEF d, i
  <2> QED
    BY <1>2, <1>3, <1>5, <2>1, DirTypeInv
<1>6. CASE path' = path /\ Send(s, "2")
  <2>1. path' = [path EXCEPT ![s] = path[s]] /\ "2" \in Replies
    BY <1>1, <1>6 DEF Replies
  <2> HIDE DEF d, i
  <2> QED
    BY <1>1, <1>2, <1>3, <1>6, <2>1, DirTypeInv
<1> QED
  BY <1>4, <1>5, <1>6

LEMMA ClientStepTypeInv ==
  ASSUME TypeInv, NEW s \in Sessions, ClientStep(s)
  PROVE  TypeInv'
<1> "0" \in Replies /\ "1" \in Replies /\ "2" \in Replies /\ "" \in Replies
  BY DEF Replies
<1>1. CASE CdRoot(s) \/ Reconnect(s)
  BY <1>1, ClearValues, DirTypeInv DEF CdRoot, Reconnect
<1>2. CASE List(s)
  BY <1>2, AnswerTypeInv DEF List
<1>3. ASSUME NEW n \in Names,
             ReadRefused(s, n) \/ WriteRefused(s, n) \/ CdRefused(s, n)
      PROVE  TypeInv'
  BY <1>3, AnswerTypeInv DEF ReadRefused, WriteRefused, CdRefused
<1> QED
  BY <1>1, <1>2, <1>3, FormatTypeInv, CreateTypeInv, DeleteTypeInv,
     ReadFileTypeInv, WriteFileTypeInv, CdTypeInv DEF ClientStep

LEMMA HandlerStepTypeInv ==
  ASSUME TypeInv, NEW s \in Sessions, HandlerStep(s)
  PROVE  TypeInv'
<1>1. ASSUME \/ SaveFat(s, "F.save", "F.root") \/ SaveFat(s, "C.save", "C.zero")
             \/ SaveFat(s, "W.save", "W.entry") \/ SaveFat(s, "D.save", "D.entry")
      PROVE  TypeInv'
  BY <1>1, SaveFatTypeInv DEF Pcs, AtWork
<1>2. CASE WriteFree(s) \/ DeleteFree(s)
  BY <1>2, FreeStepTypeInv DEF WriteFree, DeleteFree
<1> QED
  BY <1>1, <1>2, FormatTypeInv, GotoTypeInv, WriteHeadTypeInv,
     WriteChunkTypeInv, ReadChunkTypeInv, ReadEndTypeInv, EntryStepsTypeInv
  DEF HandlerStep

LEMMA RestartTypeInv ==
  ASSUME TypeInv, Restart
  PROVE  TypeInv'
<1>1. fat' \in [Blocks -> FatVal] /\ lock' \in Sessions \cup {NoOne}
  BY DEF TypeInv, TypeOK, Restart
<1>10. crashes' \in 0 .. MaxCrashes
  <2>1. crashes \in 0 .. MaxCrashes /\ crashes < MaxCrashes /\ crashes' = crashes + 1
    BY DEF TypeInv, TypeOK, Restart
  <2> QED
    BY <2>1, ConstantsAssumption
<1>2. dfat' \in [Blocks -> FatVal] /\ blocks' \in [DirBlocks -> Block]
  BY DEF TypeInv, TypeOK, Restart
<1>3. cwd' \in [Sessions -> DirBlocks]
  BY ClearValues DEF Restart, Each
<1>4. path' \in [Sessions -> Seq(Names)] /\ reply' \in [Sessions -> Replies]
      /\ pc' \in [Sessions -> Pcs]
  BY ClearValues DEF Restart, Each
<1>9. buf' \in [Sessions -> Block]
  BY ZeroBlockIsBlock DEF Restart, Each
<1>5. slot' \in [Sessions -> 1 .. BlockSize]
      /\ curr' \in [Sessions -> FatVal \cup {Root}]
  BY ClearValues DEF Restart, Each
<1>6. /\ done' \in [Sessions -> Nat] /\ seg' \in [Sessions -> Nat]
      /\ len' \in [Sessions -> Nat]
      /\ txt' \in [Sessions -> Texts \cup {Zero}] /\ got' \in [Sessions -> Seq(Unit)]
  BY ClearValues DEF Restart, Each
<1>7. TypeOK'
  BY <1>1, <1>2, <1>3, <1>4, <1>5, <1>6, <1>9, <1>10 DEF TypeOK
<1>8. LocalsOK'
  BY DEF LocalsOK, AtWork, Restart, Each
<1> QED
  BY <1>7, <1>8 DEF TypeInv

LEMMA NextTypeInv == TypeInv /\ [Next]_vars => TypeInv'
<1> SUFFICES ASSUME TypeInv, [Next]_vars PROVE TypeInv'
  OBVIOUS
<1>1. CASE UNCHANGED vars
  BY <1>1 DEF vars, TypeInv, TypeOK, LocalsOK
<1> QED
  BY <1>1, ClientStepTypeInv, HandlerStepTypeInv, RestartTypeInv DEF Next

\* Type correctness of the file system server, whatever its clients send and
\* whenever it is killed: in particular every number in the FAT and in the
\* directory entries that it reads back from the disk names a data block.
THEOREM TypeCorrect == Spec => []TypeOK
<1>1. Init => TypeInv
  BY InitTypeInv
<1>2. TypeInv /\ [Next]_vars => TypeInv'
  BY NextTypeInv
<1>3. TypeInv => TypeOK
  BY DEF TypeInv
<1> QED
  BY <1>1, <1>2, <1>3, PTL DEF Spec

-----------------------------------------------------------------------------
\* The lock.  A client's request leaves it alone or takes it when it is free;
\* a handler's step keeps it or gives it back as the handler ends.

LockTaken(s) ==
  /\ pc[s] = "idle" /\ lock = NoOne /\ lock' = s
  /\ \E to \in Pcs \ {"idle"} : pc' = [pc EXCEPT ![s] = to]

LockKept(s) ==
  /\ pc[s] # "idle" /\ lock' = lock
  /\ \E to \in Pcs \ {"idle"} : pc' = [pc EXCEPT ![s] = to]

LockReleased(s) ==
  pc[s] # "idle" /\ lock' = NoOne /\ pc' = [pc EXCEPT ![s] = "idle"]

LEMMA ClientStepLock ==
  ASSUME NEW s \in Sessions, ClientStep(s)
  PROVE  (lock' = lock /\ pc' = pc) \/ LockTaken(s)
<1>1. CASE Format(s)
  BY <1>1 DEF Format, Request, Lock, Goto, LockTaken, Pcs
<1>2. ASSUME NEW n \in Names, Create(s, n)
      PROVE  (lock' = lock /\ pc' = pc) \/ LockTaken(s)
  BY <1>2 DEF Create, CreateRefused, CreateAlloc, Answer, Lock, Goto, LockTaken, Pcs
<1>3. ASSUME NEW n \in Names, Delete(s, n)
      PROVE  (lock' = lock /\ pc' = pc) \/ LockTaken(s)
  BY <1>3 DEF Delete, DeleteRefused, DeleteFile, Answer, Lock, Goto, LockTaken, Pcs
<1>4. ASSUME NEW n \in Names, ReadRefused(s, n) \/ ReadFile(s, n)
      PROVE  (lock' = lock /\ pc' = pc) \/ LockTaken(s)
  BY <1>4 DEF ReadRefused, ReadFile, Request, Answer, Lock, Goto, LockTaken, Pcs
<1>5. ASSUME NEW n \in Names, NEW l, NEW t,
             WriteRefused(s, n) \/ WriteFile(s, n, l, t)
      PROVE  (lock' = lock /\ pc' = pc) \/ LockTaken(s)
  BY <1>5 DEF WriteRefused, WriteFile, Request, Answer, Lock, Goto, LockTaken, Pcs
<1>6. ASSUME NEW n \in Names, CdRefused(s, n) \/ Cd(s, n)
      PROVE  lock' = lock /\ pc' = pc
  BY <1>6 DEF CdRefused, Cd, Answer
<1>7. CASE List(s) \/ CdRoot(s) \/ Reconnect(s)
  BY <1>7 DEF List, CdRoot, Reconnect, Answer
<1> QED
  BY <1>1, <1>2, <1>3, <1>4, <1>5, <1>6, <1>7 DEF ClientStep

LEMMA SaveFatLock ==
  ASSUME TypeInv, NEW s \in Sessions, NEW from \in Pcs \ {"idle"},
         NEW to \in Pcs \ {"idle"}, SaveFat(s, from, to)
  PROVE  LockKept(s)
<1>1. pc[s] = from /\ lock' = lock
      /\ (pc' = pc \/ pc' = [pc EXCEPT ![s] = to])
  BY DEF SaveFat, Goto
<1>2. pc = [pc EXCEPT ![s] = from]
  BY <1>1 DEF TypeInv, TypeOK
<1> QED
  BY <1>1, <1>2 DEF LockKept

LEMMA HandlerStepLock ==
  ASSUME TypeInv, NEW s \in Sessions, HandlerStep(s)
  PROVE  LockKept(s) \/ LockReleased(s)
<1>1. pc[s] \in Pcs /\ pc = [pc EXCEPT ![s] = pc[s]]
  BY DEF TypeInv, TypeOK
<1>2. ASSUME \/ SaveFat(s, "F.save", "F.root") \/ SaveFat(s, "C.save", "C.zero")
             \/ SaveFat(s, "W.save", "W.entry") \/ SaveFat(s, "D.save", "D.entry")
      PROVE  LockKept(s)
  BY <1>2, SaveFatLock DEF Pcs
<1>3. CASE FormatRoot(s) \/ CreateEntry(s) \/ WriteEntry(s) \/ DeleteEntry(s)
           \/ ReadEnd(s)
  BY <1>3 DEF FormatRoot, CreateEntry, WriteEntry, DeleteEntry, ReadEnd, Finish,
              Goto, LockReleased
<1>4. CASE WriteFree(s) \/ DeleteFree(s) \/ ReadChunk(s)
  <2>1. pc[s] # "idle" /\ pc' = pc /\ lock' = lock
    BY <1>4 DEF WriteFree, DeleteFree, ReadChunk, FreeStep
  <2> QED
    BY <1>1, <2>1 DEF LockKept
<1>5. CASE CreateZero(s) \/ DeleteFreed(s) \/ WriteHead(s)
  BY <1>5 DEF CreateZero, DeleteFreed, WriteHead, Goto, LockKept, Pcs
<1>6. CASE WriteChunk(s)
  <2>1. pc[s] # "idle" /\ lock' = lock
        /\ (pc' = pc \/ pc' = [pc EXCEPT ![s] = "W.save"])
    BY <1>6 DEF WriteChunk, Goto
  <2> QED
    BY <1>1, <2>1 DEF LockKept, Pcs
<1> QED
  BY <1>2, <1>3, <1>4, <1>5, <1>6 DEF HandlerStep

LEMMA NextLock == TypeInv /\ LockHeld /\ [Next]_vars => LockHeld'
<1> SUFFICES ASSUME TypeInv, LockHeld, [Next]_vars PROVE LockHeld'
  OBVIOUS
<1>1. ASSUME NEW s \in Sessions, LockTaken(s) \/ LockKept(s) \/ LockReleased(s)
      PROVE  LockHeld'
  <2>1. pc \in [Sessions -> Pcs] /\ s # NoOne
    BY ConstantsAssumption DEF TypeInv, TypeOK
  <2>2. CASE LockTaken(s)
    BY <2>1, <2>2, ConstantsAssumption DEF LockHeld, LockTaken
  <2>3. CASE LockKept(s)
    BY <2>1, <2>3 DEF LockHeld, LockKept
  <2>4. CASE LockReleased(s)
    BY <2>1, <2>4 DEF LockHeld, LockReleased
  <2> QED
    BY <1>1, <2>2, <2>3, <2>4
<1>2. CASE UNCHANGED vars
  BY <1>2 DEF vars, LockHeld
<1>3. CASE Restart
  BY <1>3 DEF Restart, Each, LockHeld
<1>4. ASSUME lock' = lock /\ pc' = pc
      PROVE  LockHeld'
  BY <1>4 DEF LockHeld
<1> QED
  BY <1>1, <1>2, <1>3, <1>4, ClientStepLock, HandlerStepLock DEF Next

\* Whatever the clients do, a thread inside a handler is the one that holds
\* fs_lock, so at most one is: no return path of a command keeps the lock or
\* gives it back twice.
THEOREM LockExclusion == Spec => []LockHeld
<1>1. Init => TypeInv /\ LockHeld
  BY InitTypeInv DEF Init, Each, LockHeld
<1>2. TypeInv /\ LockHeld /\ [Next]_vars => TypeInv' /\ LockHeld'
  BY NextTypeInv, NextLock
<1> QED
  BY <1>1, <1>2, PTL DEF Spec

-----------------------------------------------------------------------------
\* save_fat writes FatBlocks blocks, and each FAT entry lies in one of them.

LEMMA QuotientBounds ==
  ASSUME NEW a \in Nat, NEW k \in Nat \ {0}
  PROVE  a \div k \in Nat /\ k * (a \div k) <= a /\ a < k * (a \div k) + k
  OBVIOUS

LEMMA QuotientMonotone ==
  ASSUME NEW a \in Nat, NEW b \in Nat, NEW k \in Nat \ {0}, a + k <= b
  PROVE  a \div k < b \div k
<1> DEFINE p == a \div k
           q == b \div k
<1>1. p \in Nat /\ q \in Nat /\ k * p <= a /\ b < k * q + k
  BY QuotientBounds
<1> HIDE DEF p, q
<1>2. k * p + k < k * q + k
  BY <1>1
<1>3. k * p < k * q
  BY <1>1, <1>2
<1>4. ASSUME q <= p
      PROVE  FALSE
  <2>1. k * q <= k * p
    BY <1>1, <1>4
  <2> QED
    BY <1>1, <1>3, <2>1
<1>5. p < q
  BY <1>1, <1>4
<1> QED
  BY <1>5 DEF p, q

LEMMA FatBlockRange ==
  ASSUME NEW b \in Blocks
  PROVE  FatBlockOf(b) \in Nat /\ FatBlockOf(b) < FatBlocks
<1>1. b \in Nat /\ NumBlocks \in Nat /\ b + 1 <= NumBlocks
  BY Layout DEF Blocks
<1>2. FatPerBlock \in Nat \ {0}
  BY ConstantsAssumption
<1>3. NumBlocks + FatPerBlock - 1 \in Nat
      /\ b + FatPerBlock <= NumBlocks + FatPerBlock - 1
  BY <1>1, <1>2
<1>4. b \div FatPerBlock < (NumBlocks + FatPerBlock - 1) \div FatPerBlock
  BY <1>1, <1>2, <1>3, QuotientMonotone
<1> QED
  BY <1>1, <1>2, <1>4, QuotientBounds DEF FatBlockOf, FatBlocks

-----------------------------------------------------------------------------
\* The inductive invariant: while save_fat runs, the blocks it has written are
\* up to date, and once it is over nothing changes the FAT until the unlock.

Saves == {"F.save", "C.save", "W.save", "D.save"}
Saved == {"F.root", "C.zero", "C.entry", "W.entry", "D.entry", "R.data"}
Changing == {"W.free", "W.data", "D.free"}

SavedBy(s) ==
  /\ pc[s] \in Saved => dfat = fat
  /\ pc[s] \in Saves =>
       \A b \in Blocks : FatBlockOf(b) < seg[s] => dfat[b] = fat[b]
  /\ pc[s] \notin Saves => seg[s] = 0

SavedInv == FatSaved /\ \A s \in Sessions : SavedBy(s)

Inv == TypeInv /\ LockHeld /\ SavedInv

\* The kinds of steps, by what they do to the two copies of the FAT.

Begin(s) ==
  /\ LockTaken(s) /\ UNCHANGED <<dfat, seg>>
  /\ \/ pc' = [pc EXCEPT ![s] = "R.data"] /\ fat' = fat
     \/ \E to \in Saves \cup Changing : pc' = [pc EXCEPT ![s] = to]

Change(s) ==
  /\ pc[s] \in Changing /\ UNCHANGED <<dfat, lock, seg>>
  /\ \E to \in Saves \cup Changing : pc' = [pc EXCEPT ![s] = to]

After(s) ==
  /\ pc[s] \in Saved /\ UNCHANGED <<fat, dfat>>
  /\ seg' = seg \/ seg' = [seg EXCEPT ![s] = 0]
  /\ \/ lock' = lock /\ \E to \in Saved : pc' = [pc EXCEPT ![s] = to]
     \/ lock' = NoOne /\ pc' = [pc EXCEPT ![s] = "idle"]

LEMMA ClientStepKind ==
  ASSUME NEW s \in Sessions, ClientStep(s)
  PROVE  Begin(s) \/ UNCHANGED <<fat, dfat, lock, pc, seg>>
<1> USE DEF Begin, LockTaken, Request, Lock, Goto, Answer, Saves, Changing, Pcs
<1>1. CASE Format(s)
  BY <1>1 DEF Format
<1>2. ASSUME NEW n \in Names, Create(s, n)
      PROVE  Begin(s) \/ UNCHANGED <<fat, dfat, lock, pc, seg>>
  BY <1>2 DEF Create, CreateRefused, CreateAlloc
<1>3. ASSUME NEW n \in Names, Delete(s, n)
      PROVE  Begin(s) \/ UNCHANGED <<fat, dfat, lock, pc, seg>>
  BY <1>3 DEF Delete, DeleteRefused, DeleteFile
<1>4. ASSUME NEW n \in Names, ReadRefused(s, n) \/ ReadFile(s, n)
      PROVE  Begin(s) \/ UNCHANGED <<fat, dfat, lock, pc, seg>>
  BY <1>4 DEF ReadRefused, ReadFile
<1>5. ASSUME NEW n \in Names, NEW l, NEW t,
             WriteRefused(s, n) \/ WriteFile(s, n, l, t)
      PROVE  Begin(s) \/ UNCHANGED <<fat, dfat, lock, pc, seg>>
  BY <1>5 DEF WriteRefused, WriteFile
<1>6. ASSUME NEW n \in Names, CdRefused(s, n) \/ Cd(s, n)
      PROVE  UNCHANGED <<fat, dfat, lock, pc, seg>>
  BY <1>6 DEF CdRefused, Cd
<1>7. CASE List(s) \/ CdRoot(s) \/ Reconnect(s)
  BY <1>7 DEF List, CdRoot, Reconnect
<1> QED
  BY <1>1, <1>2, <1>3, <1>4, <1>5, <1>6, <1>7 DEF ClientStep

LEMMA HandlerStepKind ==
  ASSUME TypeInv, NEW s \in Sessions, HandlerStep(s)
  PROVE  \/ Change(s) \/ After(s)
         \/ \E from \in Saves, to \in Saved : SaveFat(s, from, to)
<1>1. pc = [pc EXCEPT ![s] = pc[s]]
  BY DEF TypeInv, TypeOK
<1>2. CASE WriteFree(s) \/ DeleteFree(s)
  BY <1>1, <1>2 DEF WriteFree, DeleteFree, FreeStep, Change, Changing
<1>3. CASE WriteHead(s)
  BY <1>3 DEF WriteHead, Goto, Change, Changing, Saves
<1>4. CASE WriteChunk(s)
  <2>1. pc[s] = "W.data" /\ UNCHANGED <<dfat, lock, seg>>
        /\ (pc' = pc \/ pc' = [pc EXCEPT ![s] = "W.save"])
    BY <1>4 DEF WriteChunk, Goto
  <2> QED
    BY <1>1, <2>1 DEF Change, Changing, Saves
<1>5. CASE DeleteFreed(s)
  BY <1>5 DEF DeleteFreed, Goto, Change, Changing, Saves
<1>6. CASE CreateZero(s)
  BY <1>6 DEF CreateZero, Goto, After, Saved
<1>7. CASE ReadChunk(s)
  BY <1>1, <1>7 DEF ReadChunk, After, Saved
<1>8. CASE FormatRoot(s) \/ CreateEntry(s) \/ WriteEntry(s) \/ DeleteEntry(s)
           \/ ReadEnd(s)
  BY <1>8 DEF FormatRoot, CreateEntry, WriteEntry, DeleteEntry, ReadEnd, Finish,
              ClearLocals, Goto, After, Saved
<1>9. ASSUME \/ SaveFat(s, "F.save", "F.root") \/ SaveFat(s, "C.save", "C.zero")
             \/ SaveFat(s, "W.save", "W.entry") \/ SaveFat(s, "D.save", "D.entry")
      PROVE  \E from \in Saves, to \in Saved : SaveFat(s, from, to)
  BY <1>9 DEF Saves, Saved
<1> QED
  BY <1>2, <1>3, <1>4, <1>5, <1>6, <1>7, <1>8, <1>9 DEF HandlerStep

\* A session whose handler does not run has nothing to answer for.
LEMMA OthersIdle ==
  ASSUME LockHeld, NEW s \in Sessions, lock \in {NoOne, s},
         NEW q \in Sessions, q # s
  PROVE  pc[q] = "idle"
  BY ConstantsAssumption DEF LockHeld

LEMMA IdleSaved ==
  ASSUME NEW q \in Sessions, pc[q] = "idle", SavedBy(q), pc'[q] = pc[q],
         seg'[q] = seg[q]
  PROVE  SavedBy(q)'
  BY DEF SavedBy, Saved, Saves

LEMMA BeginSaved ==
  ASSUME Inv, NEW s \in Sessions, Begin(s)
  PROVE  SavedInv'
<1>1. pc \in [Sessions -> Pcs] /\ s # NoOne /\ lock = NoOne /\ lock' = s
      /\ pc[s] = "idle"
  BY ConstantsAssumption DEF Inv, TypeInv, TypeOK, Begin, LockTaken
<1>2. seg[s] = 0 /\ dfat = fat
  BY <1>1 DEF Inv, SavedInv, SavedBy, FatSaved, Quiet, Saves
<1>3. SavedBy(s)'
  <2>1. CASE pc' = [pc EXCEPT ![s] = "R.data"] /\ fat' = fat
    BY <1>1, <1>2, <2>1 DEF Begin, SavedBy, Saved, Saves
  <2>2. ASSUME NEW to \in Saves \cup Changing, pc' = [pc EXCEPT ![s] = to]
        PROVE  SavedBy(s)'
    <3>1. pc'[s] = to /\ seg'[s] = 0 /\ to \notin Saved
      BY <1>1, <1>2, <2>2 DEF Begin, Saves, Changing, Saved
    <3>2. \A b \in Blocks : ~(FatBlockOf(b) < 0)
      BY FatBlockRange
    <3> QED
      BY <3>1, <3>2 DEF SavedBy
  <2> QED
    BY <2>1, <2>2 DEF Begin
<1>4. ASSUME NEW q \in Sessions, q # s
      PROVE  SavedBy(q)'
  <2>1. pc[q] = "idle" /\ SavedBy(q)
    BY <1>1, <1>4, OthersIdle DEF Inv, SavedInv
  <2>2. pc'[q] = pc[q] /\ seg'[q] = seg[q]
    BY <1>1, <1>4 DEF Begin, LockTaken
  <2> QED
    BY <2>1, <2>2, IdleSaved
<1> QED
  BY <1>1, <1>3, <1>4 DEF SavedInv, FatSaved, Quiet

LEMMA ChangeSaved ==
  ASSUME Inv, NEW s \in Sessions, Change(s)
  PROVE  SavedInv'
<1>1. pc \in [Sessions -> Pcs] /\ s # NoOne /\ lock = s /\ lock' = s
  BY ConstantsAssumption DEF Inv, TypeInv, TypeOK, LockHeld, Change, Changing
<1>2. seg[s] = 0
  BY DEF Inv, SavedInv, SavedBy, Change, Changing, Saves
<1>3. SavedBy(s)'
  <2>1. PICK to \in Saves \cup Changing : pc' = [pc EXCEPT ![s] = to]
    BY DEF Change
  <2>2. pc'[s] = to /\ seg'[s] = 0 /\ to \notin Saved
    BY <1>1, <1>2, <2>1 DEF Change, Saves, Changing, Saved
  <2>3. \A b \in Blocks : ~(FatBlockOf(b) < 0)
    BY FatBlockRange
  <2> QED
    BY <2>2, <2>3 DEF SavedBy
<1>4. ASSUME NEW q \in Sessions, q # s
      PROVE  SavedBy(q)'
  <2>1. pc[q] = "idle" /\ SavedBy(q)
    BY <1>1, <1>4, OthersIdle DEF Inv, SavedInv
  <2>2. pc'[q] = pc[q] /\ seg'[q] = seg[q]
    BY <1>1, <1>4 DEF Change
  <2> QED
    BY <2>1, <2>2, IdleSaved
<1> QED
  BY <1>1, <1>3, <1>4 DEF SavedInv, FatSaved, Quiet

LEMMA AfterSaved ==
  ASSUME Inv, NEW s \in Sessions, After(s)
  PROVE  SavedInv'
<1>1. pc \in [Sessions -> Pcs] /\ seg \in [Sessions -> Nat] /\ lock = s
  BY DEF Inv, TypeInv, TypeOK, LockHeld, After, Saved
<1>2. seg[s] = 0 /\ dfat = fat /\ dfat' = fat'
  BY DEF Inv, SavedInv, SavedBy, After, Saved, Saves
<1>3. pc'[s] \in Saved \cup {"idle"} /\ seg'[s] = 0
  BY <1>1, <1>2 DEF After
<1>4. SavedBy(s)'
  BY <1>2, <1>3 DEF SavedBy, Saved, Saves
<1>5. ASSUME NEW q \in Sessions, q # s
      PROVE  SavedBy(q)'
  <2>1. pc[q] = "idle" /\ SavedBy(q)
    BY <1>1, <1>5, OthersIdle DEF Inv, SavedInv
  <2>2. pc'[q] = pc[q] /\ seg'[q] = seg[q]
    BY <1>1, <1>5 DEF After
  <2> QED
    BY <2>1, <2>2, IdleSaved
<1> QED
  BY <1>2, <1>4, <1>5 DEF SavedInv, FatSaved

LEMMA SaveFatSaved ==
  ASSUME Inv, NEW s \in Sessions, NEW from \in Saves, NEW to \in Saved,
         SaveFat(s, from, to)
  PROVE  SavedInv'
<1>1. pc \in [Sessions -> Pcs] /\ seg \in [Sessions -> Nat] /\ pc[s] = from
      /\ fat \in [Blocks -> FatVal] /\ FatBlocks \in Nat
  BY Layout DEF Inv, TypeInv, TypeOK, SaveFat
<1>2. lock = s /\ lock' = s /\ s # NoOne /\ fat' = fat
  BY <1>1, ConstantsAssumption DEF Inv, LockHeld, SaveFat, Saves
<1>3. dfat' = [b \in Blocks |->
                 IF FatBlockOf(b) = seg[s] THEN fat[b] ELSE dfat[b]]
  BY DEF SaveFat
<1>4. \A b \in Blocks : FatBlockOf(b) < seg[s] => dfat[b] = fat[b]
  BY <1>1 DEF Inv, SavedInv, SavedBy
<1>5. \A b \in Blocks : FatBlockOf(b) < seg[s] + 1 => dfat'[b] = fat[b]
  <2>1. ASSUME NEW b \in Blocks, FatBlockOf(b) < seg[s] + 1
        PROVE  dfat'[b] = fat[b]
    <3>1. FatBlockOf(b) \in Nat /\ seg[s] \in Nat
      BY <1>1, FatBlockRange
    <3>2. FatBlockOf(b) = seg[s] \/ FatBlockOf(b) < seg[s]
      BY <2>1, <3>1
    <3> QED
      BY <1>3, <1>4, <3>2
  <2> QED
    BY <2>1
<1>6. CASE seg[s] + 1 < FatBlocks
  <2>1. seg' = [seg EXCEPT ![s] = @ + 1] /\ pc' = pc
    BY <1>6 DEF SaveFat
  <2>2. SavedBy(s)'
    BY <1>1, <1>2, <1>5, <2>1 DEF SavedBy, Saves, Saved
  <2>3. ASSUME NEW q \in Sessions, q # s
        PROVE  SavedBy(q)'
    <3>1. pc[q] = "idle" /\ SavedBy(q)
      BY <1>2, <2>3, OthersIdle DEF Inv, SavedInv
    <3>2. pc'[q] = pc[q] /\ seg'[q] = seg[q]
      BY <1>1, <2>1, <2>3
    <3> QED
      BY <3>1, <3>2, IdleSaved
  <2> QED
    BY <1>2, <2>2, <2>3 DEF SavedInv, FatSaved, Quiet
<1>7. CASE ~(seg[s] + 1 < FatBlocks)
  <2>1. seg' = [seg EXCEPT ![s] = 0] /\ pc' = [pc EXCEPT ![s] = to]
    BY <1>7 DEF SaveFat, Goto
  <2>2. dfat' = fat
    <3>1. ASSUME NEW b \in Blocks
          PROVE  dfat'[b] = fat[b]
      <4>1. FatBlockOf(b) \in Nat /\ FatBlockOf(b) < FatBlocks
        BY FatBlockRange
      <4>2. FatBlockOf(b) < seg[s] + 1
        BY <1>1, <1>7, <4>1
      <4> QED
        BY <1>5, <4>2
    <3> QED
      BY <1>1, <1>3, <3>1
  <2>3. SavedBy(s)'
    BY <1>1, <1>2, <2>1, <2>2 DEF SavedBy, Saves, Saved
  <2>4. ASSUME NEW q \in Sessions, q # s
        PROVE  SavedBy(q)'
    <3>1. pc[q] = "idle" /\ SavedBy(q)
      BY <1>2, <2>4, OthersIdle DEF Inv, SavedInv
    <3>2. pc'[q] = pc[q] /\ seg'[q] = seg[q]
      BY <1>1, <2>1, <2>4
    <3> QED
      BY <3>1, <3>2, IdleSaved
  <2> QED
    BY <1>2, <2>3, <2>4 DEF SavedInv, FatSaved, Quiet
<1> QED
  BY <1>6, <1>7

LEMMA NextSaved == Inv /\ [Next]_vars => SavedInv'
<1> SUFFICES ASSUME Inv, [Next]_vars PROVE SavedInv'
  OBVIOUS
<1>1. ASSUME UNCHANGED <<fat, dfat, lock, pc, seg>>
      PROVE  SavedInv'
  BY <1>1 DEF Inv, SavedInv, SavedBy, FatSaved, Quiet
<1>2. CASE UNCHANGED vars
  BY <1>1, <1>2 DEF vars
<1>3. CASE Restart
  <2>1. dfat' = fat' /\ \A s \in Sessions : pc'[s] = "idle" /\ seg'[s] = 0
    BY <1>3 DEF Restart, Each
  <2> QED
    BY <2>1 DEF SavedInv, SavedBy, FatSaved, Saves, Saved
<1>4. ASSUME NEW s \in Sessions, ClientStep(s)
      PROVE  SavedInv'
  BY <1>1, <1>4, ClientStepKind, BeginSaved
<1>5. ASSUME NEW s \in Sessions, HandlerStep(s)
      PROVE  SavedInv'
  BY <1>5, HandlerStepKind, ChangeSaved, AfterSaved, SaveFatSaved DEF Inv
<1> QED
  BY <1>2, <1>3, <1>4, <1>5 DEF Next

\* Whenever fs_lock is free the FAT on the disk is the FAT in memory, whatever
\* the number of blocks save_fat writes and wherever the server was killed
\* before: a server that starts again then reads back what the last command
\* left.
THEOREM FatSavedAtUnlock == Spec => []FatSaved
<1>1. Init => Inv
  <2>1. Init => TypeInv /\ LockHeld
    BY InitTypeInv DEF Init, Each, LockHeld
  <2>2. Init => SavedInv
    BY DEF Init, Each, SavedInv, SavedBy, FatSaved, Saves, Saved
  <2> QED
    BY <2>1, <2>2 DEF Inv
<1>2. Inv /\ [Next]_vars => Inv'
  BY NextTypeInv, NextLock, NextSaved DEF Inv
<1>3. Inv => FatSaved
  BY DEF Inv, SavedInv
<1> QED
  BY <1>1, <1>2, <1>3, PTL DEF Spec

-----------------------------------------------------------------------------
\* The tree of directories and the chains, at every step of a handler, when
\* nothing leaves a session in a directory that is gone: the server is not
\* killed and, with several sessions, no directory is removed.

NothingStale ==
  /\ MaxCrashes = 0
  /\ \/ Commands \cap {"F", "rmdir"} = {}
     \/ \A s, q \in Sessions : s = q

Slots == 1 .. BlockSize
Alloc(b) == b \in DataBlocks /\ fat[b] # FAT_FREE

\* Where the handler that holds fs_lock is, and the head of the file it works on.
Place == IF lock = NoOne THEN "idle" ELSE pc[lock]
OpenHead == buf[lock][slot[lock]].head

\* A block the handler has allocated and not written yet holds what an earlier
\* owner left in it, and so does the root directory until cmd_format zeroes it.
Stale(b) ==
  \/ Place \in {"C.save", "C.zero", "W.data"} /\ b = curr[lock]
  \/ Place \in {"F.save", "F.root"} /\ b = Root
Counts(b) == (Alloc(b) \/ b = Root) /\ ~Stale(b)

\* The entries of the file system, and those cmd_delete is not removing.
EntryIn(b, i) == Counts(b) /\ blocks[b][i] \notin Pieces
Dropped(b, i) ==
  Place \in {"D.free", "D.save", "D.entry"} /\ b = cwd[lock] /\ i = slot[lock]
Kept(b, i) == EntryIn(b, i) /\ ~Dropped(b, i)
IsDir(h) ==
  \E b \in DirBlocks, i \in Slots :
    Kept(b, i) /\ blocks[b][i].type = "dir" /\ blocks[b][i].head = h

\* The block the handler has in hand, that nothing names yet or any more.
InHand(b) ==
  Place \in {"C.save", "C.zero", "C.entry", "W.free", "D.free"} /\ b = curr[lock]
Owned(h) ==
  \/ InHand(h)
  \/ \E b \in DirBlocks, i \in Slots : Kept(b, i) /\ blocks[b][i].head = h
  \/ \E a \in DataBlocks : Alloc(a) /\ fat[a] = h

Heads ==
  \A b \in DirBlocks, i \in Slots : Kept(b, i) => Alloc(blocks[b][i].head)
Links ==
  \A a \in DataBlocks :
    Alloc(a) /\ fat[a] \in DataBlocks =>
      Alloc(fat[a]) \/ (Place = "W.free" /\ a = OpenHead)
OneHead ==
  \A b, c \in DirBlocks, i, j \in Slots :
    EntryIn(b, i) /\ EntryIn(c, j) /\ blocks[b][i].head = blocks[c][j].head
      => b = c /\ i = j
OneLink ==
  \A a, b \in DataBlocks :
    Alloc(a) /\ Alloc(b) /\ fat[a] = fat[b] /\ fat[a] \in DataBlocks => a = b
HeadNoLink ==
  \A b \in DirBlocks, i \in Slots, a \in DataBlocks :
    EntryIn(b, i) /\ Alloc(a) => fat[a] # blocks[b][i].head
OneName ==
  \A b \in DirBlocks, i, j \in Slots :
    EntryIn(b, i) /\ EntryIn(b, j) /\ blocks[b][i].name = blocks[b][j].name => i = j
TextOnly ==
  \A b \in DataBlocks :
    Alloc(b) /\ ~Stale(b) /\ ~IsDir(b) =>
      \A i \in Slots : blocks[b][i] \in Texts \cup {Zero}
AllOwned == \A b \in DataBlocks : Alloc(b) => Owned(b)
InDirs ==
  \A s \in Sessions :
    Place \notin {"F.save", "F.root"} => cwd[s] = Root \/ IsDir(cwd[s])

Formatting ==
  Place \in {"F.save", "F.root"} =>
    /\ \A b \in DataBlocks : ~Alloc(b)
    /\ \A s, q \in Sessions : s = q
\* Directory block e is d and a new entry, whose head is h.
Adds(d, e, h) ==
  \E i \in Slots, n \in Names, t \in {"file", "dir"} :
    /\ d[i] = Zero /\ SlotsNamed(d, n) = {}
    /\ e = [d EXCEPT ![i] = [name |-> n, type |-> t, head |-> h, size |-> 0]]
Creating ==
  Place \in {"C.save", "C.zero", "C.entry"} =>
    /\ Alloc(curr[lock]) /\ fat[curr[lock]] = FAT_EOF
    /\ \A b \in DirBlocks, i \in Slots :
         EntryIn(b, i) => blocks[b][i].head # curr[lock]
    /\ \A a \in DataBlocks : Alloc(a) => fat[a] # curr[lock]
    /\ Adds(blocks[cwd[lock]], buf[lock], curr[lock])
Opened ==
  /\ Place \in AtWork => buf[lock] = blocks[cwd[lock]]
  /\ Place \in {"W.free", "W.data", "W.save", "W.entry", "R.data"} =>
       buf[lock][slot[lock]].type = "file"
Freeing ==
  Place \in {"W.free", "D.free"} =>
    /\ curr[lock] \in FatVal
    /\ curr[lock] \in DataBlocks =>
         /\ Alloc(curr[lock])
         /\ \A b \in DirBlocks, i \in Slots :
              Kept(b, i) => blocks[b][i].head # curr[lock]
         /\ \A a \in DataBlocks :
              Alloc(a) /\ fat[a] = curr[lock] => Place = "W.free" /\ a = OpenHead
    /\ Place = "W.free" /\ Alloc(fat[OpenHead]) => fat[OpenHead] = curr[lock]
Extending ==
  Place = "W.data" =>
    Alloc(curr[lock]) /\ fat[curr[lock]] = FAT_EOF /\ ~IsDir(curr[lock])

Hand == Formatting /\ Creating /\ Opened /\ Freeing /\ Extending
Shape == /\ Heads /\ Links /\ OneHead /\ OneLink /\ HeadNoLink
         /\ OneName /\ TextOnly /\ AllOwned
Tree == Shape /\ InDirs /\ Hand

TreeInv == NothingStale /\ TypeInv /\ LockHeld /\ Tree

-----------------------------------------------------------------------------
\* What the invariant gives a step.

LEMMA HolderPlace ==
  ASSUME TypeInv, LockHeld, NEW s \in Sessions, pc[s] # "idle"
  PROVE  lock = s /\ lock # NoOne /\ Place = pc[s]
  BY ConstantsAssumption DEF LockHeld, Place

\* A handler is at work only when a session holds the lock.
LEMMA PlaceHeld ==
  ASSUME TypeInv, Place # "idle"
  PROVE  lock \in Sessions /\ lock # NoOne /\ Place = pc[lock]
  BY DEF Place, TypeInv, TypeOK

LEMMA DataLayout ==
  /\ Root \notin DataBlocks /\ Root \in DirBlocks
  /\ DataBlocks \subseteq DirBlocks
  /\ FAT_EOF \notin DataBlocks /\ FAT_FREE \notin DataBlocks /\ FAT_EOF # FAT_FREE
  /\ DataBlocks \subseteq Blocks
  BY Layout DEF Root, DataBlocks, FAT_EOF, FAT_FREE

\* A block that holds text holds no entry.
LEMMA TextNoEntry ==
  ASSUME TextOnly, NEW b \in DataBlocks, Alloc(b), ~Stale(b), ~IsDir(b), NEW i \in Slots
  PROVE  ~EntryIn(b, i)
  BY DEF TextOnly, EntryIn, Pieces

LEMMA DirIsAlloc ==
  ASSUME Heads, NEW h, IsDir(h)
  PROVE  Alloc(h) /\ h \in DataBlocks
  BY DEF Heads, IsDir, Alloc

\* A session's current directory holds entries, unless a format is under way.
LEMMA CwdCounts ==
  ASSUME TypeInv, Tree, NEW s \in Sessions, Place \notin {"F.save", "F.root"}
  PROVE  Counts(cwd[s]) /\ cwd[s] \in DirBlocks
<1>1. cwd[s] \in DirBlocks
  BY DEF TypeInv, TypeOK
<1>2. cwd[s] = Root \/ (IsDir(cwd[s]) /\ Alloc(cwd[s]))
  BY DirIsAlloc DEF Tree, Shape, InDirs
<1>3. ASSUME Stale(cwd[s])
      PROVE  FALSE
  <2>1. Place \in {"C.save", "C.zero", "W.data"} /\ cwd[s] = curr[lock]
    BY <1>3 DEF Stale
  <2>2. Alloc(curr[lock]) /\ curr[lock] # Root
    BY <2>1, DataLayout DEF Tree, Hand, Creating, Extending, Alloc
  <2>3. IsDir(curr[lock])
    BY <1>2, <2>1, <2>2
  <2>4. CASE Place = "W.data"
    BY <2>3, <2>4 DEF Tree, Hand, Extending
  <2>5. CASE Place \in {"C.save", "C.zero"}
    BY <2>3, <2>5 DEF Tree, Hand, Creating, IsDir, Kept
  <2> QED
    BY <2>1, <2>4, <2>5
<1> QED
  BY <1>1, <1>2, <1>3 DEF Counts

\* The entry a handler works on is one of its session's directory.
LEMMA OpenIsEntry ==
  ASSUME TypeInv, Tree, Place \in AtWork
  PROVE  /\ lock \in Sessions /\ cwd[lock] \in DirBlocks /\ slot[lock] \in Slots
         /\ EntryIn(cwd[lock], slot[lock])
         /\ blocks[cwd[lock]][slot[lock]] = buf[lock][slot[lock]]
         /\ OpenHead \in DataBlocks /\ OpenHead = blocks[cwd[lock]][slot[lock]].head
<1>1. Place # "idle" /\ Place \notin {"F.save", "F.root"}
  BY DEF AtWork
<1>2. lock \in Sessions /\ Place = pc[lock]
  BY <1>1, PlaceHeld
<1>3. Counts(cwd[lock]) /\ cwd[lock] \in DirBlocks
  BY <1>1, <1>2, CwdCounts
<1>4. slot[lock] \in Slots
  BY <1>2 DEF TypeInv, TypeOK, Slots
<1>5. buf[lock] = blocks[cwd[lock]]
  BY DEF Tree, Hand, Opened
<1>6. buf[lock][slot[lock]] \in Entry
  BY <1>2 DEF TypeInv, LocalsOK
<1>7. OpenHead \in DataBlocks
  BY <1>6, EntryFields DEF OpenHead
<1>8. buf[lock][slot[lock]] \notin Pieces
  BY <1>6, UnitsAssumption
<1> QED
  BY <1>2, <1>3, <1>4, <1>5, <1>7, <1>8 DEF EntryIn, OpenHead

\* A step that leaves the entries as they are, but for the sizes of the files.
SameEntries ==
  \A b \in DirBlocks, i \in Slots :
    /\ EntryIn(b, i)' <=> EntryIn(b, i)
    /\ Kept(b, i)' <=> Kept(b, i)
    /\ EntryIn(b, i) => /\ blocks'[b][i].head = blocks[b][i].head
                        /\ blocks'[b][i].type = blocks[b][i].type
                        /\ blocks'[b][i].name = blocks[b][i].name

\* A step that adds no entry and changes none, though one may go.
KeepsKept ==
  \A b \in DirBlocks, i \in Slots :
    Kept(b, i)' => Kept(b, i) /\ blocks'[b][i] = blocks[b][i]

LEMMA SameDirs ==
  ASSUME SameEntries, NEW h
  PROVE  IsDir(h)' <=> IsDir(h)
  BY DEF SameEntries, IsDir, Kept

LEMMA SameUnique ==
  ASSUME SameEntries, OneHead, OneName
  PROVE  OneHead' /\ OneName'
<1>1. OneHead'
  BY DEF SameEntries, OneHead
<1>2. OneName'
  BY DEF SameEntries, OneName
<1> QED
  BY <1>1, <1>2

\* A step that leaves the FAT and the directories alone.
QuietShape ==
  /\ fat' = fat /\ blocks' = blocks
  /\ \A b : Stale(b)' <=> Stale(b)
  /\ \A b, i : Dropped(b, i)' <=> Dropped(b, i)
  /\ \A b : InHand(b) /\ b \in DataBlocks => InHand(b)'
  /\ Place = "W.free" => Place' = "W.free" /\ OpenHead' = OpenHead

LEMMA QuietKeepsShape ==
  ASSUME Shape, QuietShape
  PROVE  Shape' /\ SameEntries /\ \A h : IsDir(h)' <=> IsDir(h)
<1>1. \A b : (Alloc(b)' <=> Alloc(b)) /\ (Counts(b)' <=> Counts(b))
  BY DEF QuietShape, Alloc, Counts
<1>2. SameEntries
  BY <1>1 DEF QuietShape, SameEntries, EntryIn, Kept
<1>3. \A h : IsDir(h)' <=> IsDir(h)
  BY <1>2, SameDirs
<1>4. Heads'
  BY <1>1, <1>2 DEF Shape, Heads, SameEntries, Kept
<1>5. Links'
  BY <1>1 DEF Shape, Links, QuietShape
<1>6. OneHead' /\ OneName'
  BY <1>2, SameUnique DEF Shape
<1>7. OneLink'
  BY <1>1 DEF Shape, OneLink, QuietShape
<1>8. HeadNoLink'
  BY <1>1, <1>2 DEF Shape, HeadNoLink, QuietShape, SameEntries
<1>9. TextOnly'
  BY <1>1, <1>3 DEF Shape, TextOnly, QuietShape
<1>10. AllOwned'
  BY <1>1, <1>2 DEF Shape, AllOwned, Owned, QuietShape, SameEntries, Kept
<1> QED
  BY <1>2, <1>3, <1>4, <1>5, <1>6, <1>7, <1>8, <1>9, <1>10 DEF Shape

\* A step that keeps the handler where it is.
SameHand ==
  /\ fat' = fat /\ blocks' = blocks /\ Place' = Place
  /\ Place # "idle" =>
       /\ lock' = lock /\ curr'[lock] = curr[lock] /\ buf'[lock] = buf[lock]
       /\ slot'[lock] = slot[lock] /\ cwd'[lock] = cwd[lock]

LEMMA SameHandKeeps ==
  ASSUME Tree, SameHand,
         \A s \in Sessions : cwd'[s] = cwd[s] \/ cwd'[s] = Root \/ IsDir(cwd'[s])
  PROVE  Tree' /\ KeepsKept
<1>1. QuietShape
  <2>1. \A b : (Stale(b)' <=> Stale(b)) /\ (InHand(b)' <=> InHand(b))
    BY DEF SameHand, Stale, InHand
  <2>2. \A b, i : Dropped(b, i)' <=> Dropped(b, i)
    BY DEF SameHand, Dropped
  <2>3. Place = "W.free" => Place' = "W.free" /\ OpenHead' = OpenHead
    BY DEF SameHand, OpenHead
  <2> QED
    BY <2>1, <2>2, <2>3 DEF QuietShape, SameHand
<1>2. Shape' /\ SameEntries /\ \A h : IsDir(h)' <=> IsDir(h)
  BY <1>1, QuietKeepsShape DEF Tree
<1>3. \A b : Alloc(b)' <=> Alloc(b)
  BY DEF Alloc, SameHand
<1>4. InDirs'
  BY <1>2 DEF Tree, InDirs, SameHand
<1>5. Formatting'
  BY <1>3 DEF Tree, Hand, Formatting, SameHand
<1>9. Opened'
  <2>1. CASE Place \notin AtWork
    BY <2>1 DEF Opened, SameHand, AtWork
  <2>2. CASE Place \in AtWork
    <3>1. /\ lock' = lock /\ buf'[lock] = buf[lock] /\ slot'[lock] = slot[lock]
          /\ cwd'[lock] = cwd[lock] /\ Place' = Place /\ blocks' = blocks
      BY <2>2 DEF SameHand, AtWork
    <3> QED
      BY <3>1 DEF Tree, Hand, Opened
  <2> QED
    BY <2>1, <2>2
<1>6. Creating'
  <2>1. SUFFICES ASSUME Place' \in {"C.save", "C.zero", "C.entry"}
                 PROVE  Creating'
    BY DEF Creating
  <2>2. Creating /\ Place \in {"C.save", "C.zero", "C.entry"}
    BY <2>1 DEF SameHand, Tree, Hand
  <2>3. lock' = lock /\ curr'[lock] = curr[lock] /\ buf'[lock] = buf[lock]
        /\ cwd'[lock] = cwd[lock]
    BY <2>2 DEF SameHand
  <2> QED
    BY <1>2, <1>3, <2>2, <2>3 DEF Creating, SameHand, SameEntries
<1>7. Freeing'
  <2>1. SUFFICES ASSUME Place' \in {"W.free", "D.free"}
                 PROVE  Freeing'
    BY DEF Freeing
  <2>2. Freeing /\ Place \in {"W.free", "D.free"}
    BY <2>1 DEF SameHand, Tree, Hand
  <2>3. lock' = lock /\ curr'[lock] = curr[lock] /\ OpenHead' = OpenHead
    BY <2>2 DEF SameHand, OpenHead
  <2> QED
    BY <1>2, <1>3, <2>2, <2>3 DEF Freeing, SameHand, SameEntries, Kept
<1>8. Extending'
  BY <1>2, <1>3 DEF Tree, Hand, Extending, SameHand
<1>50. KeepsKept
  BY <1>2 DEF SameHand, KeepsKept, SameEntries, Kept
<1> QED
  BY <1>50, <1>2, <1>4, <1>5, <1>6, <1>7, <1>8, <1>9 DEF Tree, Hand

\* A step that moves the handler and changes neither the FAT nor a directory.
LEMMA QuietTree ==
  ASSUME Tree, QuietShape, cwd' = cwd, Hand',
         Place' \notin {"F.save", "F.root"} => Place \notin {"F.save", "F.root"}
  PROVE  Tree' /\ KeepsKept
<1>1. Shape' /\ \A h : IsDir(h)' <=> IsDir(h)
  BY QuietKeepsShape DEF Tree
<1>2. InDirs'
  BY <1>1 DEF Tree, InDirs
<1>50. KeepsKept
  BY QuietKeepsShape DEF Tree, QuietShape, KeepsKept, SameEntries, Kept
<1> QED
  BY <1>50, <1>1, <1>2 DEF Tree

\* Nothing to say of a handler that is in none of these places.
LEMMA HandAway ==
  ASSUME Place' \notin {"F.save", "F.root", "C.save", "C.zero", "C.entry"} \cup AtWork
  PROVE  Hand'
<1>1. Formatting' /\ Creating'
  BY DEF Formatting, Creating
<1>2. Opened' /\ Freeing' /\ Extending'
  BY DEF Opened, Freeing, Extending, AtWork
<1> QED
  BY <1>1, <1>2 DEF Hand

LEMMA AnswerTree ==
  ASSUME TreeInv, NEW s \in Sessions, NEW r, Answer(s, r)
  PROVE  Tree' /\ KeepsKept
<1>1. SameHand /\ cwd' = cwd
  BY DEF Answer, SameHand, Place
<1> QED
  BY <1>1, SameHandKeeps DEF TreeInv

LEMMA StutterTree ==
  ASSUME TreeInv, UNCHANGED vars
  PROVE  Tree' /\ KeepsKept
<1>1. SameHand /\ cwd' = cwd
  BY DEF vars, SameHand, Place
<1> QED
  BY <1>1, SameHandKeeps DEF TreeInv

\* cd and a new connection: a session goes to the root or to a directory.
LEMMA CdTree ==
  ASSUME TreeInv, NEW s \in Sessions, pc[s] = "idle",
         NEW d, d = Root \/ IsDir(d), cwd' = [cwd EXCEPT ![s] = d],
         UNCHANGED <<memory, disk, pc, locals>>
  PROVE  Tree' /\ KeepsKept
<1>1. Place' = Place
  BY DEF Place
<1>2. ASSUME Place # "idle"
      PROVE  cwd'[lock] = cwd[lock]
  <2>1. lock # s
    BY <1>2 DEF Place
  <2> QED
    BY <2>1 DEF TreeInv, TypeInv, TypeOK
<1>3. SameHand
  BY <1>1, <1>2 DEF SameHand
<1>4. \A q \in Sessions : cwd'[q] = cwd[q] \/ cwd'[q] = d
  BY DEF TreeInv, TypeInv, TypeOK
<1>5. \A q \in Sessions : cwd'[q] = cwd[q] \/ cwd'[q] = Root \/ IsDir(cwd'[q])
  BY <1>4
<1> QED
  BY <1>3, <1>5, SameHandKeeps DEF TreeInv

LEMMA CdIsDir ==
  ASSUME TreeInv, NEW s \in Sessions, NEW n \in Names, Cd(s, n)
  PROVE  Tree' /\ KeepsKept
<1> DEFINE d == blocks[cwd[s]]
           i == First(DirsNamed(d, n))
<1>1. lock = NoOne /\ pc[s] = "idle" /\ Place = "idle" /\ DirsNamed(d, n) # {}
      /\ cwd' = [cwd EXCEPT ![s] = d[i].head] /\ UNCHANGED <<memory, disk, pc, locals>>
  BY DEF Cd, LockedRequest, Request, Place
<1>2. DirsNamed(d, n) \in SUBSET (1 .. BlockSize)
  BY DEF DirsNamed, SlotsNamed
<1>3. i \in DirsNamed(d, n) /\ i \in Slots
  BY <1>1, <1>2, FirstSlot DEF Slots
<1>4. d[i] \notin Pieces /\ d[i].type = "dir"
  BY <1>3 DEF DirsNamed, SlotsNamed, Named
<1>5. Counts(cwd[s]) /\ cwd[s] \in DirBlocks
  BY <1>1, CwdCounts DEF TreeInv
<1>6. Kept(cwd[s], i)
  BY <1>1, <1>4, <1>5 DEF Kept, EntryIn, Dropped
<1>7. IsDir(d[i].head)
  BY <1>3, <1>4, <1>5, <1>6 DEF IsDir
<1> HIDE DEF i, d
<1> QED
  BY <1>1, <1>7, CdTree

-----------------------------------------------------------------------------
\* The steps that change neither the FAT nor a directory.

LEMMA SaveTree ==
  ASSUME TreeInv, NEW s \in Sessions, NEW from, NEW to,
         <<from, to>> \in {<<"F.save", "F.root">>, <<"C.save", "C.zero">>,
                           <<"W.save", "W.entry">>, <<"D.save", "D.entry">>},
         SaveFat(s, from, to)
  PROVE  Tree' /\ KeepsKept
<1>1. pc[s] = from /\ from # "idle"
  BY DEF SaveFat
<1>2. lock = s /\ lock # NoOne /\ Place = from
  BY <1>1, HolderPlace DEF TreeInv
<1>3. /\ fat' = fat /\ blocks' = blocks /\ lock' = lock /\ cwd' = cwd /\ buf' = buf
      /\ slot' = slot /\ curr' = curr
      /\ pc' = pc \/ pc' = [pc EXCEPT ![s] = to]
  BY DEF SaveFat, Goto
<1>4. Place' \in {from, to}
  BY <1>2, <1>3 DEF Place, TreeInv, TypeInv, TypeOK
<1>5. QuietShape
  <2>1. \A b : (Stale(b)' <=> Stale(b)) /\ (InHand(b)' <=> InHand(b))
    BY <1>2, <1>3, <1>4 DEF Stale, InHand
  <2>2. \A b, i : Dropped(b, i)' <=> Dropped(b, i)
    BY <1>2, <1>3, <1>4 DEF Dropped
  <2> QED
    BY <1>2, <1>3, <2>1, <2>2 DEF QuietShape
<1>6. \A b : Alloc(b)' <=> Alloc(b)
  BY <1>3 DEF Alloc
<1>7. SameEntries
  BY <1>5, QuietKeepsShape DEF TreeInv, Tree
<1>8. Formatting'
  BY <1>2, <1>4, <1>6 DEF TreeInv, Tree, Hand, Formatting
<1>9. Creating'
  BY <1>2, <1>3, <1>4, <1>6, <1>7 DEF TreeInv, Tree, Hand, Creating, SameEntries
<1>10. Opened'
  BY <1>2, <1>3, <1>4 DEF TreeInv, Tree, Hand, Opened, AtWork
<1>11. Freeing' /\ Extending'
  BY <1>2, <1>4 DEF Freeing, Extending
<1>12. Hand'
  BY <1>8, <1>9, <1>10, <1>11 DEF Hand
<1>13. Place' \notin {"F.save", "F.root"} => Place \notin {"F.save", "F.root"}
  BY <1>2, <1>4
<1> QED
  BY <1>3, <1>5, <1>12, <1>13, QuietTree DEF TreeInv

\* Opening a file: the handler copies its directory, and the entry counts.
LEMMA FirstIsKept ==
  ASSUME TreeInv, NEW s \in Sessions, NEW n \in Names, Place = "idle",
         SlotsNamed(blocks[cwd[s]], n) # {}
  PROVE  LET i == First(SlotsNamed(blocks[cwd[s]], n))
         IN  /\ cwd[s] \in DirBlocks /\ i \in Slots /\ Kept(cwd[s], i) /\ EntryIn(cwd[s], i)
             /\ blocks[cwd[s]] \in Block /\ blocks[cwd[s]][i] \in Entry
             /\ Alloc(blocks[cwd[s]][i].head)
<1> DEFINE d == blocks[cwd[s]]
           i == First(SlotsNamed(d, n))
<1>1. Counts(cwd[s]) /\ cwd[s] \in DirBlocks
  BY CwdCounts DEF TreeInv
<1>2. i \in SlotsNamed(d, n) /\ i \in Slots
  BY FirstSlot DEF SlotsNamed, Slots
<1>3. d \in Block
  BY <1>1 DEF TreeInv, TypeInv, TypeOK
<1>4. d[i] \in Entry
  BY <1>2, <1>3, NamedIsEntry
<1>5. Kept(cwd[s], i) /\ EntryIn(cwd[s], i)
  BY <1>1, <1>4, UnitsAssumption DEF Kept, EntryIn, Dropped
<1>6. Alloc(blocks[cwd[s]][i].head)
  BY <1>1, <1>2, <1>5 DEF TreeInv, Tree, Shape, Heads
<1> QED
  BY <1>1, <1>2, <1>3, <1>4, <1>5, <1>6

LEMMA ReadFileTree ==
  ASSUME TreeInv, NEW s \in Sessions, NEW n \in Names, ReadFile(s, n)
  PROVE  Tree' /\ KeepsKept
<1> DEFINE d == blocks[cwd[s]]
           i == First(SlotsNamed(d, n))
<1>1. /\ lock = NoOne /\ lock' = s /\ d[i].type = "file" /\ fat' = fat
      /\ blocks' = blocks /\ cwd' = cwd
      /\ buf' = [buf EXCEPT ![s] = d] /\ slot' = [slot EXCEPT ![s] = i]
      /\ pc' = [pc EXCEPT ![s] = "R.data"]
  BY DEF ReadFile, Lock, Goto
<1> HIDE DEF i, d
<1>2. Place = "idle" /\ Place' = "R.data"
  BY <1>1, ConstantsAssumption DEF Place, TreeInv, TypeInv, TypeOK
<1>3. QuietShape
  BY <1>1, <1>2 DEF QuietShape, Stale, Dropped, InHand
<1>4. buf'[s] = d /\ slot'[s] = i
  BY <1>1 DEF TreeInv, TypeInv, TypeOK
<1>5. Opened'
  BY <1>1, <1>2, <1>4 DEF Opened, d
<1>6. Formatting' /\ Creating' /\ Freeing' /\ Extending'
  BY <1>2 DEF Formatting, Creating, Freeing, Extending
<1> QED
  BY <1>1, <1>2, <1>3, <1>5, <1>6, QuietTree DEF TreeInv, Hand

LEMMA WriteFileTree ==
  ASSUME TreeInv, NEW s \in Sessions, NEW n \in Names, NEW l \in Lens, NEW t \in Texts,
         WriteFile(s, n, l, t)
  PROVE  Tree' /\ KeepsKept
<1> DEFINE d == blocks[cwd[s]]
           i == First(SlotsNamed(d, n))
           h == d[i].head
<1>1. /\ lock = NoOne /\ lock' = s /\ d[i].type = "file" /\ fat' = fat
      /\ blocks' = blocks /\ cwd' = cwd /\ SlotsNamed(d, n) # {}
      /\ buf' = [buf EXCEPT ![s] = d] /\ slot' = [slot EXCEPT ![s] = i]
      /\ curr' = [curr EXCEPT ![s] = fat[h]]
      /\ pc' = [pc EXCEPT ![s] = "W.free"]
  BY DEF WriteFile, Lock, Goto
<1>2. Place = "idle" /\ Place' = "W.free"
  BY <1>1, ConstantsAssumption DEF Place, TreeInv, TypeInv, TypeOK
<1>3. /\ cwd[s] \in DirBlocks /\ i \in Slots /\ Kept(cwd[s], i) /\ EntryIn(cwd[s], i)
      /\ Alloc(h)
  BY <1>1, <1>2, FirstIsKept
<1>4. h = blocks[cwd[s]][i].head
  OBVIOUS
<1> HIDE DEF i, h
<1>5. QuietShape
  BY <1>1, <1>2 DEF QuietShape, Stale, Dropped, InHand
<1>6. buf'[s] = d /\ slot'[s] = i /\ curr'[s] = fat[h]
  BY <1>1 DEF TreeInv, TypeInv, TypeOK
<1>7. OpenHead' = h
  BY <1>1, <1>6 DEF OpenHead, h
<1>8. Opened'
  BY <1>1, <1>2, <1>6 DEF Opened
<1>9. \A a : Alloc(a)' <=> Alloc(a)
  BY <1>1 DEF Alloc
<1>10. SameEntries
  BY <1>5, QuietKeepsShape DEF TreeInv, Tree
<1>11. h \in DataBlocks /\ h \in Blocks
  BY <1>3, DataLayout DEF Alloc
<1>12. fat[h] \in FatVal
  BY <1>11 DEF TreeInv, TypeInv, TypeOK
<1>13. ASSUME fat[h] \in DataBlocks
       PROVE  /\ Alloc(fat[h])
              /\ \A b \in DirBlocks, j \in Slots :
                   Kept(b, j) => blocks[b][j].head # fat[h]
              /\ \A a \in DataBlocks : Alloc(a) /\ fat[a] = fat[h] => a = h
  <2>1. Alloc(fat[h])
    BY <1>2, <1>3, <1>11, <1>13 DEF TreeInv, Tree, Shape, Links
  <2>2. \A b \in DirBlocks, j \in Slots : Kept(b, j) => blocks[b][j].head # fat[h]
    BY <1>3, <1>11 DEF TreeInv, Tree, Shape, HeadNoLink, Kept
  <2>3. \A a \in DataBlocks : Alloc(a) /\ fat[a] = fat[h] => a = h
    BY <1>3, <1>11, <1>13 DEF TreeInv, Tree, Shape, OneLink
  <2> QED
    BY <2>1, <2>2, <2>3
<1>14. Freeing'
  BY <1>1, <1>2, <1>6, <1>7, <1>9, <1>10, <1>12, <1>13 DEF Freeing, SameEntries
<1>15. Formatting' /\ Creating' /\ Extending'
  BY <1>2 DEF Formatting, Creating, Extending
<1> QED
  BY <1>1, <1>2, <1>5, <1>8, <1>14, <1>15, QuietTree DEF TreeInv, Hand

LEMMA ReadChunkTree ==
  ASSUME TreeInv, NEW s \in Sessions, ReadChunk(s)
  PROVE  Tree' /\ KeepsKept
<1>1. /\ pc[s] = "R.data" /\ fat' = fat /\ blocks' = blocks /\ lock' = lock
      /\ cwd' = cwd /\ buf' = buf /\ slot' = slot /\ pc' = pc
  BY DEF ReadChunk
<1>2. lock = s /\ lock # NoOne /\ Place = "R.data" /\ Place' = "R.data"
  BY <1>1, HolderPlace DEF TreeInv, Place
<1>3. QuietShape
  BY <1>2, <1>1 DEF QuietShape, Stale, Dropped, InHand
<1>4. Opened'
  BY <1>1, <1>2 DEF TreeInv, Tree, Hand, Opened
<1>5. Formatting' /\ Creating' /\ Freeing' /\ Extending'
  BY <1>2 DEF Formatting, Creating, Freeing, Extending
<1> QED
  BY <1>1, <1>2, <1>3, <1>4, <1>5, QuietTree DEF TreeInv, Hand

LEMMA ReadEndTree ==
  ASSUME TreeInv, NEW s \in Sessions, ReadEnd(s)
  PROVE  Tree' /\ KeepsKept
<1>1. /\ pc[s] = "R.data" /\ fat' = fat /\ blocks' = blocks /\ lock' = NoOne
      /\ cwd' = cwd
  BY DEF ReadEnd, Finish
<1>2. Place = "R.data" /\ Place' = "idle"
  BY <1>1, HolderPlace DEF TreeInv, Place
<1>3. QuietShape
  BY <1>2, <1>1 DEF QuietShape, Stale, Dropped, InHand
<1>4. Hand'
  BY <1>2, HandAway DEF AtWork
<1> QED
  BY <1>1, <1>2, <1>3, <1>4, QuietTree DEF TreeInv

LEMMA DeleteFreedTree ==
  ASSUME TreeInv, NEW s \in Sessions, DeleteFreed(s)
  PROVE  Tree' /\ KeepsKept
<1>1. /\ pc[s] = "D.free" /\ fat' = fat /\ blocks' = blocks /\ lock' = lock
      /\ cwd' = cwd /\ buf' = buf /\ slot' = slot /\ pc' = [pc EXCEPT ![s] = "D.save"]
      /\ curr[s] \in {FAT_EOF, FAT_FREE}
  BY DEF DeleteFreed, Goto
<1>2. lock = s /\ lock # NoOne /\ Place = "D.free"
  BY <1>1, HolderPlace DEF TreeInv
<1>3. Place' = "D.save"
  BY <1>1, <1>2 DEF Place, TreeInv, TypeInv, TypeOK
<1>4. QuietShape
  BY <1>1, <1>2, <1>3, DataLayout DEF QuietShape, Stale, Dropped, InHand
<1>5. Opened'
  BY <1>1, <1>2, <1>3 DEF TreeInv, Tree, Hand, Opened, AtWork
<1>6. Formatting' /\ Creating' /\ Freeing' /\ Extending'
  BY <1>3 DEF Formatting, Creating, Freeing, Extending
<1> QED
  BY <1>1, <1>2, <1>3, <1>4, <1>5, <1>6, QuietTree DEF TreeInv, Hand

-----------------------------------------------------------------------------
\* The steps that change the FAT.

\* Freeing the block in hand: no entry names it, and no link that counts.
LEMMA FreeTree ==
  ASSUME TreeInv, NEW s \in Sessions, pc[s] \in {"W.free", "D.free"}, FreeStep(s)
  PROVE  Tree' /\ KeepsKept
<1> DEFINE c == curr[s]
<1>1. /\ c \notin {FAT_EOF, FAT_FREE} /\ fat' = [fat EXCEPT ![c] = FAT_FREE]
      /\ curr' = [curr EXCEPT ![s] = fat[c]] /\ lock' = lock /\ blocks' = blocks
      /\ cwd' = cwd /\ pc' = pc /\ buf' = buf /\ slot' = slot
  BY DEF FreeStep
<1>2. lock = s /\ lock # NoOne /\ Place = pc[s] /\ Place' = Place
  BY <1>1, HolderPlace DEF TreeInv, Place
<1>3. Place \in {"W.free", "D.free"}
  BY <1>2
<1>4. c \in DataBlocks /\ Alloc(c)
      /\ (\A b \in DirBlocks, i \in Slots : Kept(b, i) => blocks[b][i].head # c)
      /\ \A a \in DataBlocks :
           Alloc(a) /\ fat[a] = c => Place = "W.free" /\ a = OpenHead
  BY <1>1, <1>2, <1>3 DEF TreeInv, Tree, Hand, Freeing, FatVal
<1>5. curr'[s] = fat[c] /\ OpenHead' = OpenHead
  BY <1>1, <1>2 DEF TreeInv, TypeInv, TypeOK, OpenHead
<1> HIDE DEF c
<1>6. c \in Blocks /\ fat \in [Blocks -> FatVal] /\ c # Root
  BY <1>4, DataLayout DEF TreeInv, TypeInv, TypeOK
<1>7. /\ fat'[c] = FAT_FREE /\ \A b \in DataBlocks : b # c => fat'[b] = fat[b]
      /\ fat[c] \in FatVal
  BY <1>1, <1>6, DataLayout
<1>8. \A b : Alloc(b)' <=> (Alloc(b) /\ b # c)
  BY <1>7 DEF Alloc
<1>9. \A b : ~Stale(b) /\ ~Stale(b)'
  BY <1>2, <1>3 DEF Stale
<1>10. \A b, i : Dropped(b, i)' <=> Dropped(b, i)
  BY <1>1, <1>2 DEF Dropped
<1>11. ~IsDir(c)
  BY <1>4 DEF IsDir
<1>12. \A i \in Slots : ~EntryIn(c, i)
  BY <1>4, <1>9, <1>11, TextNoEntry DEF TreeInv, Tree, Shape
<1>13. SameEntries
  BY <1>1, <1>8, <1>9, <1>10, <1>12 DEF SameEntries, EntryIn, Kept, Counts
<1>14. \A h : IsDir(h)' <=> IsDir(h)
  BY <1>13, SameDirs
<1>15. Heads'
  BY <1>4, <1>8, <1>13 DEF TreeInv, Tree, Shape, Heads, SameEntries, Kept
<1>16. Links'
  <2> SUFFICES ASSUME NEW a \in DataBlocks, NEW n \in DataBlocks, n = fat'[a], Alloc(a)'
               PROVE  Alloc(n)' \/ (Place' = "W.free" /\ a = OpenHead')
    BY DEF Links, Alloc
  <2>1. Alloc(a) /\ n = fat[a]
    BY <1>7, <1>8
  <2>2. Alloc(n) \/ (Place = "W.free" /\ a = OpenHead)
    BY <2>1 DEF TreeInv, Tree, Shape, Links
  <2> QED
    BY <1>2, <1>4, <1>5, <1>8, <2>1, <2>2
<1>17. OneHead' /\ OneName'
  BY <1>13, SameUnique DEF TreeInv, Tree, Shape
<1>18. OneLink'
  BY <1>7, <1>8 DEF TreeInv, Tree, Shape, OneLink
<1>19. HeadNoLink'
  BY <1>7, <1>8, <1>13 DEF TreeInv, Tree, Shape, HeadNoLink, SameEntries
<1>20. TextOnly'
  BY <1>1, <1>8, <1>9, <1>14 DEF TreeInv, Tree, Shape, TextOnly
<1>21. AllOwned'
  <2> SUFFICES ASSUME NEW b \in DataBlocks, Alloc(b)'
               PROVE  Owned(b)'
    BY DEF AllOwned
  <2>1. Alloc(b) /\ b # c /\ Owned(b)
    BY <1>8 DEF TreeInv, Tree, Shape, AllOwned
  <2>2. ~InHand(b)
    BY <1>2, <2>1 DEF InHand, c
  <2>3. CASE \E a \in DirBlocks, i \in Slots : Kept(a, i) /\ blocks[a][i].head = b
    <3>1. PICK a \in DirBlocks, i \in Slots : Kept(a, i) /\ blocks[a][i].head = b
      BY <2>3
    <3>2. Kept(a, i)' /\ blocks'[a][i].head = b
      BY <1>13, <3>1 DEF SameEntries, Kept
    <3> QED
      BY <3>2 DEF Owned
  <2>4. CASE \E a \in DataBlocks : Alloc(a) /\ fat[a] = b
    <3>1. PICK a \in DataBlocks : Alloc(a) /\ fat[a] = b
      BY <2>4
    <3>2. CASE a = c
      <4>1. InHand(b)'
        BY <1>1, <1>2, <1>3, <1>5, <3>1, <3>2 DEF InHand
      <4> QED
        BY <4>1 DEF Owned
    <3>3. CASE a # c
      <4>1. Alloc(a)' /\ fat'[a] = b
        BY <1>7, <1>8, <3>1, <3>3
      <4> QED
        BY <4>1 DEF Owned
    <3> QED
      BY <3>2, <3>3
  <2> QED
    BY <2>1, <2>2, <2>3, <2>4 DEF Owned
<1>22. Shape'
  BY <1>15, <1>16, <1>17, <1>18, <1>19, <1>20, <1>21 DEF Shape
<1>23. InDirs'
  BY <1>1, <1>2, <1>14 DEF TreeInv, Tree, InDirs
<1>24. ~(Place = "W.free" /\ c = OpenHead)
  <2> SUFFICES ASSUME Place = "W.free", c = OpenHead
               PROVE  FALSE
    OBVIOUS
  <2>1. /\ cwd[lock] \in DirBlocks /\ slot[lock] \in Slots
        /\ EntryIn(cwd[lock], slot[lock])
        /\ OpenHead = blocks[cwd[lock]][slot[lock]].head
    BY OpenIsEntry DEF TreeInv, AtWork
  <2>2. Kept(cwd[lock], slot[lock])
    BY <2>1 DEF Kept, Dropped
  <2> QED
    BY <1>4, <2>1, <2>2
<1>27. ASSUME NEW n \in DataBlocks, n = fat[c]
       PROVE  /\ Alloc(n)'
              /\ \A b \in DirBlocks, i \in Slots : Kept(b, i)' => blocks'[b][i].head # n
              /\ \A a \in DataBlocks : Alloc(a)' => fat'[a] # n
  <2>1. \A a \in DataBlocks : Alloc(a) /\ fat[a] = n => a = c
    BY <1>4, <1>27 DEF TreeInv, Tree, Shape, OneLink
  <2>2. \A a \in DataBlocks : Alloc(a)' => fat'[a] # n
    BY <1>7, <1>8, <2>1
  <2>3. \A b \in DirBlocks, i \in Slots : EntryIn(b, i) => n # blocks[b][i].head
    BY <1>4, <1>27 DEF TreeInv, Tree, Shape, HeadNoLink
  <2>4. \A b \in DirBlocks, i \in Slots : Kept(b, i)' => blocks'[b][i].head # n
    BY <1>13, <2>3 DEF SameEntries, Kept
  <2>5. Alloc(n)
    BY <1>4, <1>24, <1>27 DEF TreeInv, Tree, Shape, Links
  <2>6. n # c
    BY <1>4, <1>24, <1>27
  <2> QED
    BY <1>8, <2>2, <2>4, <2>5, <2>6
<1>28. ASSUME NEW m, Place = "W.free", m = fat'[OpenHead], Alloc(m)'
       PROVE  FALSE
  <2>1. OpenHead \in DataBlocks /\ OpenHead # c
    BY <1>24, <1>28, OpenIsEntry DEF TreeInv, AtWork
  <2>2. m = fat[OpenHead] /\ Alloc(m) /\ m # c
    BY <1>7, <1>8, <1>28, <2>1
  <2> QED
    BY <1>2, <1>28, <2>2 DEF TreeInv, Tree, Hand, Freeing, c
<1>29. Freeing'
  <2>1. curr'[s] \in FatVal
    BY <1>5, <1>7
  <2>2. ASSUME curr'[s] \in DataBlocks
        PROVE  /\ Alloc(curr[s])'
               /\ \A b \in DirBlocks, i \in Slots :
                    Kept(b, i)' => blocks'[b][i].head # curr'[s]
               /\ \A a \in DataBlocks : Alloc(a)' => fat'[a] # curr'[s]
    BY <1>5, <1>27, <2>2 DEF Alloc
  <2>3. ~(Place' = "W.free" /\ Alloc(fat[OpenHead])')
    BY <1>2, <1>5, <1>28 DEF Alloc
  <2> QED
    BY <1>1, <1>2, <2>1, <2>2, <2>3 DEF Freeing
<1>25. Opened'
  BY <1>1, <1>2, <1>3 DEF TreeInv, Tree, Hand, Opened, AtWork
<1>26. Formatting' /\ Creating' /\ Extending'
  BY <1>2, <1>3 DEF Formatting, Creating, Extending
<1>50. KeepsKept
  BY <1>1, <1>13 DEF KeepsKept, SameEntries, Kept
<1> QED
  BY <1>50, <1>22, <1>23, <1>25, <1>26, <1>29 DEF Tree, Hand

\* The loop is over: the file keeps its head block, alone.
LEMMA WriteHeadTree ==
  ASSUME TreeInv, NEW s \in Sessions, WriteHead(s)
  PROVE  Tree' /\ KeepsKept
<1> DEFINE h == buf[s][slot[s]].head
<1>1. /\ pc[s] = "W.free" /\ curr[s] \in {FAT_EOF, FAT_FREE}
      /\ fat' = [fat EXCEPT ![h] = FAT_EOF] /\ curr' = [curr EXCEPT ![s] = h]
      /\ pc' = [pc EXCEPT ![s] = IF len[s] > 0 THEN "W.data" ELSE "W.save"]
      /\ lock' = lock /\ blocks' = blocks /\ cwd' = cwd /\ buf' = buf /\ slot' = slot
  BY DEF WriteHead, Goto
<1>2. lock = s /\ lock # NoOne /\ Place = "W.free" /\ h = OpenHead
  BY <1>1, HolderPlace DEF TreeInv, OpenHead
<1>3. /\ cwd[s] \in DirBlocks /\ slot[s] \in Slots /\ EntryIn(cwd[s], slot[s])
      /\ blocks[cwd[s]][slot[s]] = buf[s][slot[s]] /\ h \in DataBlocks
      /\ h = blocks[cwd[s]][slot[s]].head /\ buf[s][slot[s]].type = "file"
  BY <1>2, OpenIsEntry DEF TreeInv, AtWork, Tree, Hand, Opened
<1>4. Place' \in {"W.data", "W.save"} /\ curr'[s] = h
  BY <1>1, <1>2 DEF Place, TreeInv, TypeInv, TypeOK
<1> HIDE DEF h
<1>5. h \in Blocks /\ fat \in [Blocks -> FatVal] /\ h # Root
  BY <1>3, DataLayout DEF TreeInv, TypeInv, TypeOK
<1>6. /\ fat'[h] = FAT_EOF /\ \A b \in DataBlocks : b # h => fat'[b] = fat[b]
  BY <1>1, <1>5, DataLayout
<1>7. Kept(cwd[s], slot[s])
  BY <1>2, <1>3 DEF Kept, Dropped
<1>8. Alloc(h)
  BY <1>3, <1>7 DEF TreeInv, Tree, Shape, Heads
<1>9. \A b : Alloc(b)' <=> Alloc(b)
  BY <1>6, <1>8, DataLayout DEF Alloc
<1>10. ~IsDir(h)
  <2>1. ASSUME NEW b \in DirBlocks, NEW i \in Slots, Kept(b, i),
               blocks[b][i].type = "dir", blocks[b][i].head = h
        PROVE  FALSE
    <3>1. b = cwd[s] /\ i = slot[s]
      BY <1>3, <2>1 DEF TreeInv, Tree, Shape, OneHead, Kept
    <3> QED
      BY <1>3, <2>1, <3>1
  <2> QED
    BY <2>1 DEF IsDir
<1>11. \A b : ~Stale(b) /\ (Stale(b)' => b = h)
  BY <1>1, <1>2, <1>4 DEF Stale
<1>12. \A b, i : ~Dropped(b, i) /\ ~Dropped(b, i)'
  BY <1>2, <1>4 DEF Dropped
<1>13. \A i \in Slots : ~EntryIn(h, i)
  BY <1>3, <1>8, <1>10, <1>11, TextNoEntry DEF TreeInv, Tree, Shape
<1>14. SameEntries
  BY <1>1, <1>9, <1>11, <1>12, <1>13 DEF SameEntries, EntryIn, Kept, Counts
<1>15. \A b : IsDir(b)' <=> IsDir(b)
  BY <1>14, SameDirs
<1>16. Heads'
  BY <1>9, <1>14 DEF TreeInv, Tree, Shape, Heads, SameEntries, Kept
<1>17. Links'
  BY <1>2, <1>6, <1>9, DataLayout DEF TreeInv, Tree, Shape, Links
<1>18. OneHead' /\ OneName'
  BY <1>14, SameUnique DEF TreeInv, Tree, Shape
<1>19. OneLink'
  BY <1>6, <1>9, DataLayout DEF TreeInv, Tree, Shape, OneLink
<1>20. HeadNoLink'
  <2> SUFFICES ASSUME NEW b \in DirBlocks, NEW i \in Slots, NEW a \in DataBlocks,
                      EntryIn(b, i)', Alloc(a)'
               PROVE  fat'[a] # blocks'[b][i].head
    BY DEF HeadNoLink
  <2>1. EntryIn(b, i) /\ Alloc(a) /\ blocks'[b][i].head = blocks[b][i].head
    BY <1>9, <1>14 DEF SameEntries
  <2>2. fat[a] # blocks[b][i].head
    BY <2>1 DEF TreeInv, Tree, Shape, HeadNoLink
  <2>3. blocks[b][i].head \in DataBlocks
    <3>1. Kept(b, i)
      BY <1>12, <2>1 DEF Kept
    <3> QED
      BY <3>1 DEF TreeInv, Tree, Shape, Heads, Alloc
  <2> QED
    BY <1>6, <2>1, <2>2, <2>3, DataLayout
<1>21. TextOnly'
  BY <1>1, <1>9, <1>11, <1>15 DEF TreeInv, Tree, Shape, TextOnly
<1>22. AllOwned'
  <2> SUFFICES ASSUME NEW b \in DataBlocks, Alloc(b)'
               PROVE  Owned(b)'
    BY DEF AllOwned
  <2>1. Alloc(b) /\ Owned(b)
    BY <1>9 DEF TreeInv, Tree, Shape, AllOwned
  <2>2. ~InHand(b)
    BY <1>1, <1>2, <2>1, DataLayout DEF InHand
  <2>3. CASE \E a \in DirBlocks, i \in Slots : Kept(a, i) /\ blocks[a][i].head = b
    <3>1. PICK a \in DirBlocks, i \in Slots : Kept(a, i) /\ blocks[a][i].head = b
      BY <2>3
    <3>2. Kept(a, i)' /\ blocks'[a][i].head = b
      BY <1>14, <3>1 DEF SameEntries, Kept
    <3> QED
      BY <3>2 DEF Owned
  <2>4. CASE \E a \in DataBlocks : Alloc(a) /\ fat[a] = b
    <3>1. PICK a \in DataBlocks : Alloc(a) /\ fat[a] = b
      BY <2>4
    <3>2. CASE a = h
      <4>1. b = curr[s]
        BY <1>2, <2>1, <3>1, <3>2 DEF TreeInv, Tree, Hand, Freeing
      <4> QED
        BY <1>1, <4>1, DataLayout
    <3>3. CASE a # h
      <4>1. Alloc(a)' /\ fat'[a] = b
        BY <1>6, <1>9, <3>1, <3>3
      <4> QED
        BY <4>1 DEF Owned
    <3> QED
      BY <3>2, <3>3
  <2> QED
    BY <2>1, <2>2, <2>3, <2>4 DEF Owned
<1>23. Shape'
  BY <1>16, <1>17, <1>18, <1>19, <1>20, <1>21, <1>22 DEF Shape
<1>24. InDirs'
  BY <1>1, <1>2, <1>15 DEF TreeInv, Tree, InDirs
<1>25. Extending'
  BY <1>1, <1>2, <1>4, <1>6, <1>8, <1>9, <1>10, <1>15 DEF Extending
<1>26. Opened'
  BY <1>1, <1>2, <1>4 DEF TreeInv, Tree, Hand, Opened, AtWork
<1>27. Formatting' /\ Creating' /\ Freeing'
  BY <1>4 DEF Formatting, Creating, Freeing
<1>50. KeepsKept
  BY <1>1, <1>14 DEF KeepsKept, SameEntries, Kept
<1> QED
  BY <1>50, <1>23, <1>24, <1>25, <1>26, <1>27 DEF Tree, Hand

\* An owner stays an owner when its link does.
LEMMA StaysOwned ==
  ASSUME SameEntries, NEW b, Owned(b), ~InHand(b),
         \A a \in DataBlocks : Alloc(a) /\ fat[a] = b => Alloc(a)' /\ fat'[a] = b
  PROVE  Owned(b)'
<1>1. CASE \E a \in DirBlocks, i \in Slots : Kept(a, i) /\ blocks[a][i].head = b
  <2>1. PICK a \in DirBlocks, i \in Slots : Kept(a, i) /\ blocks[a][i].head = b
    BY <1>1
  <2>2. Kept(a, i)' /\ blocks'[a][i].head = b
    BY <2>1 DEF SameEntries, Kept
  <2> QED
    BY <2>2 DEF Owned
<1>2. CASE \E a \in DataBlocks : Alloc(a) /\ fat[a] = b
  BY <1>2 DEF Owned
<1> QED
  BY <1>1, <1>2 DEF Owned

\* A free block is named by no entry and no link.
LEMMA FreeUnnamed ==
  ASSUME Shape, Place \notin {"W.free", "D.free", "D.save", "D.entry"},
         NEW h \in DataBlocks, ~Alloc(h)
  PROVE  /\ \A b \in DirBlocks, i \in Slots : EntryIn(b, i) => blocks[b][i].head # h
         /\ \A a \in DataBlocks : Alloc(a) => fat[a] # h
<1>1. \A b, i : ~Dropped(b, i)
  BY DEF Dropped
<1>2. \A b \in DirBlocks, i \in Slots : EntryIn(b, i) => blocks[b][i].head # h
  BY <1>1 DEF Shape, Heads, Kept
<1>3. \A a \in DataBlocks : Alloc(a) => fat[a] # h
  BY DEF Shape, Links
<1> QED
  BY <1>2, <1>3

\* cmd_create takes a free block: nothing names it before or after.
LEMMA CreateAllocTree ==
  ASSUME TreeInv, NEW s \in Sessions, NEW n \in Names, NEW t \in {"file", "dir"},
         CreateAlloc(s, n, t)
  PROVE  Tree' /\ KeepsKept
<1> DEFINE d == blocks[cwd[s]]
           i == First(SlotsFree(d))
           h == FindFree(fat)
           e == [d EXCEPT ![i] = [name |-> n, type |-> t, head |-> h, size |-> 0]]
<1>1. /\ lock = NoOne /\ lock' = s /\ SlotsNamed(d, n) = {} /\ SlotsFree(d) # {}
      /\ FreeBlocks(fat) # {}
      /\ fat' = [fat EXCEPT ![h] = FAT_EOF] /\ buf' = [buf EXCEPT ![s] = e]
      /\ curr' = [curr EXCEPT ![s] = h] /\ pc' = [pc EXCEPT ![s] = "C.save"]
      /\ blocks' = blocks /\ cwd' = cwd /\ slot' = slot
  BY DEF CreateAlloc, Lock, Goto
<1>2. i \in SlotsFree(d) /\ i \in Slots
  BY <1>1, FirstSlot DEF SlotsFree, Slots
<1>3. Adds(d, e, h)
  BY <1>1, <1>2 DEF Adds, SlotsFree
<1>4. h \in DataBlocks /\ fat[h] = FAT_FREE
  BY <1>1, FindFreeIsFree
<1>5. Place = "idle" /\ Place' = "C.save" /\ curr'[s] = h /\ buf'[s] = e
  BY <1>1, ConstantsAssumption DEF Place, TreeInv, TypeInv, TypeOK
<1> HIDE DEF h, e, i
<1>6. h \in Blocks /\ fat \in [Blocks -> FatVal] /\ h # Root /\ ~Alloc(h)
  BY <1>4, DataLayout DEF TreeInv, TypeInv, TypeOK, Alloc
<1>7. fat'[h] = FAT_EOF /\ \A b \in DataBlocks : b # h => fat'[b] = fat[b]
  BY <1>1, <1>6, DataLayout
<1>8. \A b : Alloc(b)' <=> (Alloc(b) \/ b = h)
  BY <1>4, <1>7, DataLayout DEF Alloc
<1>9. \A b : ~Stale(b) /\ (Stale(b)' <=> b = h) /\ ~InHand(b) /\ (InHand(b)' <=> b = h)
  BY <1>1, <1>5 DEF Stale, InHand
<1>10. \A b, j : ~Dropped(b, j) /\ ~Dropped(b, j)'
  BY <1>5 DEF Dropped
<1>11. \A b : Counts(b)' <=> Counts(b)
  BY <1>6, <1>8, <1>9 DEF Counts
<1>12. SameEntries
  BY <1>1, <1>10, <1>11 DEF SameEntries, EntryIn, Kept
<1>13. \A b : IsDir(b)' <=> IsDir(b)
  BY <1>12, SameDirs
<1>14. /\ \A b \in DirBlocks, j \in Slots : EntryIn(b, j) => blocks[b][j].head # h
       /\ \A a \in DataBlocks : Alloc(a) => fat[a] # h
  BY <1>4, <1>5, <1>6, FreeUnnamed DEF TreeInv, Tree
<1>15. Heads'
  BY <1>8, <1>12 DEF TreeInv, Tree, Shape, Heads, SameEntries, Kept
<1>16. Links'
  <2> SUFFICES ASSUME NEW a \in DataBlocks, NEW m \in DataBlocks, m = fat'[a], Alloc(a)'
               PROVE  Alloc(m)'
    BY DEF Links, Alloc
  <2>1. a # h /\ Alloc(a) /\ m = fat[a]
    BY <1>7, <1>8, DataLayout
  <2>2. Alloc(m)
    BY <1>5, <2>1 DEF TreeInv, Tree, Shape, Links
  <2> QED
    BY <1>8, <2>2
<1>17. OneHead' /\ OneName'
  BY <1>12, SameUnique DEF TreeInv, Tree, Shape
<1>18. OneLink'
  BY <1>7, <1>8, DataLayout DEF TreeInv, Tree, Shape, OneLink
<1>19. HeadNoLink'
  <2> SUFFICES ASSUME NEW b \in DirBlocks, NEW j \in Slots, NEW a \in DataBlocks,
                      EntryIn(b, j)', Alloc(a)'
               PROVE  fat'[a] # blocks'[b][j].head
    BY DEF HeadNoLink
  <2>1. EntryIn(b, j) /\ Kept(b, j) /\ blocks' = blocks
    BY <1>1, <1>10, <1>12 DEF SameEntries, Kept
  <2>2. blocks[b][j].head \in DataBlocks
    BY <2>1 DEF TreeInv, Tree, Shape, Heads, Alloc
  <2>3. CASE a = h
    BY <1>7, <2>1, <2>2, <2>3, DataLayout
  <2>4. CASE a # h
    BY <1>7, <1>8, <2>1, <2>4 DEF TreeInv, Tree, Shape, HeadNoLink
  <2> QED
    BY <2>3, <2>4
<1>20. TextOnly'
  BY <1>1, <1>8, <1>9, <1>13 DEF TreeInv, Tree, Shape, TextOnly
<1>21. AllOwned'
  <2> SUFFICES ASSUME NEW b \in DataBlocks, Alloc(b)'
               PROVE  Owned(b)'
    BY DEF AllOwned
  <2>1. CASE b = h
    BY <1>9, <2>1 DEF Owned
  <2>2. CASE b # h
    <3>1. Owned(b)
      BY <1>8, <2>2 DEF TreeInv, Tree, Shape, AllOwned
    <3>2. \A a \in DataBlocks : Alloc(a) /\ fat[a] = b => Alloc(a)' /\ fat'[a] = b
      BY <1>6, <1>7, <1>8
    <3> QED
      BY <1>9, <1>12, <3>1, <3>2, StaysOwned
  <2> QED
    BY <2>1, <2>2
<1>22. Shape'
  BY <1>15, <1>16, <1>17, <1>18, <1>19, <1>20, <1>21 DEF Shape
<1>23. InDirs'
  BY <1>1, <1>5, <1>13 DEF TreeInv, Tree, InDirs
<1>24. Creating'
  <2>1. Alloc(curr[s])' /\ fat'[curr'[s]] = FAT_EOF
    BY <1>4, <1>5, <1>7, DataLayout DEF Alloc
  <2>2. \A b \in DirBlocks, j \in Slots : EntryIn(b, j)' => blocks'[b][j].head # curr'[s]
    BY <1>1, <1>5, <1>12, <1>14 DEF SameEntries
  <2>3. \A a \in DataBlocks : Alloc(a)' => fat'[a] # curr'[s]
    BY <1>4, <1>5, <1>7, <1>8, <1>14, DataLayout
  <2>4. Adds(blocks'[cwd'[s]], buf'[s], curr'[s])
    BY <1>1, <1>3, <1>5
  <2> QED
    BY <1>1, <2>1, <2>2, <2>3, <2>4 DEF Creating
<1>25. Formatting' /\ Opened' /\ Freeing' /\ Extending'
  BY <1>5 DEF Formatting, Opened, Freeing, Extending, AtWork
<1>50. KeepsKept
  BY <1>1, <1>12 DEF KeepsKept, SameEntries, Kept
<1> QED
  BY <1>50, <1>22, <1>23, <1>24, <1>25 DEF Tree, Hand

\* cmd_write writes text into the last block of its chain, which is no
\* directory, and may add a free block to the chain.
LEMMA WriteChunkTree ==
  ASSUME TreeInv, NEW s \in Sessions, WriteChunk(s)
  PROVE  Tree' /\ KeepsKept
<1> DEFINE c == curr[s]
           h == FindFree(fat)
           n == AtMostBlock(len[s] - done[s])
           text == Chunk(txt[s], n)
           Extends == done[s] + n < len[s] /\ FreeBlocks(fat) # {}
<1>1. /\ pc[s] = "W.data" /\ blocks' = [blocks EXCEPT ![c] = text]
      /\ lock' = lock /\ cwd' = cwd /\ buf' = buf /\ slot' = slot
      /\ Extends => /\ fat' = [fat EXCEPT ![c] = h, ![h] = FAT_EOF]
                    /\ curr' = [curr EXCEPT ![s] = h] /\ pc' = pc
      /\ ~Extends => /\ fat' = fat /\ curr' = curr
                     /\ pc' = [pc EXCEPT ![s] = "W.save"]
  BY DEF WriteChunk, Goto
<1>2. lock = s /\ lock # NoOne /\ Place = "W.data"
  BY <1>1, HolderPlace DEF TreeInv
<1>3. Alloc(c) /\ fat[c] = FAT_EOF /\ ~IsDir(c) /\ c \in DataBlocks /\ c # Root
  BY <1>2, DataLayout DEF TreeInv, Tree, Hand, Extending, Alloc
<1>4. Extends => h \in DataBlocks /\ fat[h] = FAT_FREE /\ ~Alloc(h) /\ h # c
  BY <1>3, FindFreeIsFree DEF Alloc
<1>5. \A i \in Slots : text[i] \in Texts \cup {Zero}
  BY DEF TreeInv, TypeInv, TypeOK, Chunk, Slots
<1> HIDE DEF c, h, text, Extends
<1>6. /\ fat \in [Blocks -> FatVal] /\ blocks \in [DirBlocks -> Block]
      /\ curr \in [Sessions -> FatVal \cup {Root}] /\ pc \in [Sessions -> Pcs]
  BY DEF TreeInv, TypeInv, TypeOK
<1>7. Place' = IF Extends THEN "W.data" ELSE "W.save"
  BY <1>1, <1>2, <1>6 DEF Place
<1>8. Extends => curr'[s] = h
  BY <1>1, <1>6
<1>9. /\ blocks'[c] = text /\ \A b \in DirBlocks : b # c => blocks'[b] = blocks[b]
  BY <1>1, <1>3, <1>6, DataLayout
<1>10. /\ \A b \in DataBlocks : b # c /\ b # h => fat'[b] = fat[b]
       /\ Extends => fat'[c] = h /\ fat'[h] = FAT_EOF
       /\ ~Extends => fat' = fat
  <2>1. CASE Extends
    BY <1>1, <1>3, <1>4, <1>6, <2>1, DataLayout
  <2>2. CASE ~Extends
    BY <1>1, <2>2
  <2> QED
    BY <2>1, <2>2
<1>11. \A b : Alloc(b)' <=> (Alloc(b) \/ (Extends /\ b = h))
  <2>1. CASE Extends
    <3>1. \A b \in DataBlocks :
            fat'[b] # FAT_FREE <=> (fat[b] # FAT_FREE \/ b = h)
      BY <1>3, <1>4, <1>10, <2>1, DataLayout
    <3> QED
      BY <1>4, <2>1, <3>1 DEF Alloc
  <2>2. CASE ~Extends
    BY <1>10, <2>2 DEF Alloc
  <2> QED
    BY <2>1, <2>2
<1>12. \A b : (Stale(b) <=> b = c) /\ (Stale(b)' <=> Extends /\ b = h)
  BY <1>1, <1>2, <1>7, <1>8 DEF Stale, c
<1>13. \A b, i : ~Dropped(b, i) /\ ~Dropped(b, i)' /\ ~InHand(b)
  BY <1>2, <1>7 DEF Dropped, InHand
<1>14. SameEntries /\ KeepsKept
  <2> SUFFICES ASSUME NEW b \in DirBlocks, NEW i \in Slots
               PROVE  /\ EntryIn(b, i)' <=> EntryIn(b, i)
                      /\ EntryIn(b, i) => blocks'[b][i] = blocks[b][i]
    BY <1>13 DEF SameEntries, KeepsKept, Kept
  <2>1. CASE b = c
    <3>1. ~EntryIn(b, i)
      BY <1>12, <2>1 DEF EntryIn, Counts
    <3>2. ~EntryIn(b, i)'
      BY <1>5, <1>9, <2>1 DEF EntryIn, Pieces
    <3> QED
      BY <3>1, <3>2
  <2>2. CASE b # c
    <3>1. Counts(b)' <=> Counts(b)
      BY <1>4, <1>11, <1>12, <2>2, DataLayout DEF Counts
    <3> QED
      BY <1>9, <2>2, <3>1 DEF EntryIn
  <2> QED
    BY <2>1, <2>2
<1>15. \A b : IsDir(b)' <=> IsDir(b)
  BY <1>14, SameDirs
<1>16. ASSUME Extends
       PROVE  /\ \A b \in DirBlocks, j \in Slots : EntryIn(b, j) => blocks[b][j].head # h
              /\ \A a \in DataBlocks : Alloc(a) => fat[a] # h
  BY <1>2, <1>4, <1>16, FreeUnnamed DEF TreeInv, Tree
<1>17. \A a \in DataBlocks :
         Alloc(a)' => \/ Alloc(a) /\ a # c /\ fat'[a] = fat[a]
                      \/ a = c /\ Extends /\ fat'[a] = h
                      \/ fat'[a] = FAT_EOF
  BY <1>3, <1>4, <1>10, <1>11
<1>18. Heads'
  BY <1>11, <1>14 DEF TreeInv, Tree, Shape, Heads, SameEntries, Kept
<1>19. Links'
  <2> SUFFICES ASSUME NEW a \in DataBlocks, NEW m \in DataBlocks, m = fat'[a], Alloc(a)'
               PROVE  Alloc(m)'
    BY DEF Links, Alloc
  <2>1. CASE Alloc(a) /\ m = fat[a]
    BY <1>2, <1>11, <2>1 DEF TreeInv, Tree, Shape, Links
  <2>2. CASE Extends /\ m = h
    BY <1>11, <2>2
  <2> QED
    BY <1>17, <2>1, <2>2, DataLayout
<1>20. OneHead' /\ OneName'
  BY <1>14, SameUnique DEF TreeInv, Tree, Shape
<1>21. OneLink'
  <2> SUFFICES ASSUME NEW a \in DataBlocks, NEW b \in DataBlocks, Alloc(a)', Alloc(b)',
                      fat'[a] = fat'[b], fat'[a] \in DataBlocks
               PROVE  a = b
    BY DEF OneLink
  <2>1. CASE Alloc(a) /\ Alloc(b) /\ fat[a] = fat'[a] /\ fat[b] = fat'[b]
    BY <2>1 DEF TreeInv, Tree, Shape, OneLink
  <2> QED
    BY <1>16, <1>17, <2>1, DataLayout
<1>22. HeadNoLink'
  <2> SUFFICES ASSUME NEW b \in DirBlocks, NEW j \in Slots, NEW a \in DataBlocks,
                      EntryIn(b, j)', Alloc(a)'
               PROVE  fat'[a] # blocks'[b][j].head
    BY DEF HeadNoLink
  <2>1. EntryIn(b, j) /\ Kept(b, j) /\ blocks'[b][j].head = blocks[b][j].head
    BY <1>13, <1>14 DEF SameEntries, Kept
  <2>2. blocks[b][j].head \in DataBlocks
    BY <2>1 DEF TreeInv, Tree, Shape, Heads, Alloc
  <2>3. CASE Alloc(a) /\ fat'[a] = fat[a]
    BY <2>1, <2>3 DEF TreeInv, Tree, Shape, HeadNoLink
  <2> QED
    BY <1>16, <1>17, <2>1, <2>2, <2>3, DataLayout
<1>23. TextOnly'
  <2> SUFFICES ASSUME NEW b \in DataBlocks, Alloc(b)', ~Stale(b)', ~IsDir(b)',
                      NEW i \in Slots
               PROVE  blocks'[b][i] \in Texts \cup {Zero}
    BY DEF TextOnly
  <2>1. CASE b = c
    BY <1>5, <1>9, <2>1
  <2>2. CASE b # c
    <3>1. Alloc(b) /\ ~Stale(b) /\ ~IsDir(b)
      BY <1>11, <1>12, <1>15, <2>2
    <3>2. blocks'[b] = blocks[b]
      BY <1>9, <2>2, DataLayout
    <3> QED
      BY <3>1, <3>2 DEF TreeInv, Tree, Shape, TextOnly
  <2> QED
    BY <2>1, <2>2
<1>24. AllOwned'
  <2> SUFFICES ASSUME NEW b \in DataBlocks, Alloc(b)'
               PROVE  Owned(b)'
    BY DEF AllOwned
  <2>1. CASE Alloc(b)
    <3>1. Owned(b)
      BY <2>1 DEF TreeInv, Tree, Shape, AllOwned
    <3>2. \A a \in DataBlocks : Alloc(a) /\ fat[a] = b => Alloc(a)' /\ fat'[a] = b
      <4> SUFFICES ASSUME NEW a \in DataBlocks, Alloc(a), fat[a] = b
                   PROVE  Alloc(a)' /\ fat'[a] = b
        OBVIOUS
      <4>1. a # c
        BY <1>3, DataLayout
      <4>2. CASE Extends
        BY <1>4, <1>10, <1>11, <4>1, <4>2
      <4>3. CASE ~Extends
        BY <1>10, <1>11, <4>3
      <4> QED
        BY <4>2, <4>3
    <3> QED
      BY <1>13, <1>14, <3>1, <3>2, StaysOwned
  <2>2. CASE Extends /\ b = h
    <3>1. PICK a \in DataBlocks : a = c
      BY <1>3
    <3>2. Alloc(a)' /\ fat'[a] = b
      BY <1>3, <1>10, <1>11, <2>2, <3>1
    <3> QED
      BY <3>2 DEF Owned
  <2> QED
    BY <1>11, <2>1, <2>2
<1>25. Shape'
  BY <1>18, <1>19, <1>20, <1>21, <1>22, <1>23, <1>24 DEF Shape
<1>26. InDirs'
  BY <1>1, <1>2, <1>15 DEF TreeInv, Tree, InDirs
<1>27. Extending'
  <2>1. CASE Extends
    <3>1. ~IsDir(h)
      BY <1>16, <2>1 DEF IsDir, Kept
    <3> QED
      BY <1>1, <1>2, <1>4, <1>8, <1>10, <1>15, <2>1, <3>1, DataLayout DEF Extending, Alloc
  <2>2. CASE ~Extends
    BY <1>7, <2>2 DEF Extending
  <2> QED
    BY <2>1, <2>2
<1>28. Opened'
  <2>1. /\ lock \in Sessions /\ cwd[s] \in DirBlocks /\ buf[s] = blocks[cwd[s]]
        /\ buf[s][slot[s]].type = "file"
    BY <1>2, OpenIsEntry DEF TreeInv, Tree, Hand, Opened, AtWork
  <2>2. cwd[s] # c
    BY <1>2, <1>3 DEF TreeInv, Tree, InDirs
  <2>3. blocks'[cwd[s]] = blocks[cwd[s]]
    BY <1>9, <2>1, <2>2
  <2> QED
    BY <1>1, <1>2, <2>1, <2>3 DEF Opened
<1>29. Formatting' /\ Creating' /\ Freeing'
  BY <1>7 DEF Formatting, Creating, Freeing
<1> QED
  BY <1>14, <1>25, <1>26, <1>27, <1>28, <1>29 DEF Tree, Hand

\* cmd_format frees every block; the root directory is not zeroed yet.
LEMMA FormatTree ==
  ASSUME TreeInv, NEW s \in Sessions, Format(s)
  PROVE  Tree' /\ KeepsKept
<1>1. /\ "F" \in Commands /\ lock = NoOne /\ lock' = s
      /\ fat' = [b \in Blocks |-> IF b <= Root THEN FAT_EOF ELSE FAT_FREE]
      /\ pc' = [pc EXCEPT ![s] = "F.save"]
  BY DEF Format, Request, Lock, Goto
<1>2. Place' = "F.save"
  BY <1>1, ConstantsAssumption DEF Place, TreeInv, TypeInv, TypeOK
<1>3. \A b \in DataBlocks : fat'[b] = FAT_FREE
  <2> SUFFICES ASSUME NEW b \in DataBlocks
               PROVE  fat'[b] = FAT_FREE
    OBVIOUS
  <2>1. b \in Blocks /\ ~(b <= Root)
    BY Layout DEF DataBlocks, Blocks
  <2> QED
    BY <1>1, <2>1
<1>4. \A b : ~Alloc(b)'
  BY <1>3 DEF Alloc
<1>5. \A b, i : ~EntryIn(b, i)' /\ ~Kept(b, i)'
  BY <1>2, <1>4 DEF EntryIn, Kept, Counts, Stale
<1>6. \A q, r \in Sessions : q = r
  BY <1>1 DEF TreeInv, NothingStale
<1>7. Heads' /\ Links' /\ OneHead' /\ OneLink'
  BY <1>4, <1>5 DEF Heads, Links, OneHead, OneLink
<1>8. HeadNoLink' /\ OneName' /\ TextOnly' /\ AllOwned'
  BY <1>4, <1>5 DEF HeadNoLink, OneName, TextOnly, AllOwned
<1>9. Formatting'
  BY <1>4, <1>6 DEF Formatting
<1>10. InDirs' /\ Creating' /\ Opened' /\ Freeing' /\ Extending'
  BY <1>2 DEF InDirs, Creating, Opened, Freeing, Extending, AtWork
<1>50. KeepsKept
  BY <1>5 DEF KeepsKept
<1> QED
  BY <1>50, <1>7, <1>8, <1>9, <1>10 DEF Tree, Shape, Hand

-----------------------------------------------------------------------------
\* The steps that write directories.

LEMMA FormatRootTree ==
  ASSUME TreeInv, NEW s \in Sessions, FormatRoot(s)
  PROVE  Tree' /\ KeepsKept
<1>1. /\ pc[s] = "F.root" /\ blocks' = [blocks EXCEPT ![Root] = ZeroBlock]
      /\ cwd' = [cwd EXCEPT ![s] = Root] /\ lock' = NoOne /\ fat' = fat
  BY DEF FormatRoot, Finish
<1>2. Place = "F.root" /\ Place' = "idle"
  BY <1>1, HolderPlace DEF TreeInv, Place
<1>3. (\A b \in DataBlocks : ~Alloc(b)) /\ \A q, r \in Sessions : q = r
  BY <1>2 DEF TreeInv, Tree, Hand, Formatting
<1>4. \A b : ~Alloc(b)'
  BY <1>1, <1>3 DEF Alloc
<1>5. \A i \in Slots : blocks'[Root][i] = Zero
  BY <1>1, DataLayout DEF TreeInv, TypeInv, TypeOK, ZeroBlock, Slots
<1>6. \A b : \A i \in Slots : ~EntryIn(b, i)' /\ ~Kept(b, i)'
  BY <1>4, <1>5 DEF EntryIn, Kept, Counts, Pieces
<1>7. Heads' /\ Links' /\ OneHead' /\ OneLink'
  BY <1>4, <1>6 DEF Heads, Links, OneHead, OneLink
<1>8. HeadNoLink' /\ OneName' /\ TextOnly' /\ AllOwned'
  BY <1>4, <1>6 DEF HeadNoLink, OneName, TextOnly, AllOwned
<1>9. \A q \in Sessions : cwd'[q] = Root
  BY <1>1, <1>3 DEF TreeInv, TypeInv, TypeOK
<1>10. InDirs'
  BY <1>9 DEF InDirs
<1>11. Hand'
  BY <1>2, HandAway DEF AtWork
<1>50. KeepsKept
  BY <1>6 DEF KeepsKept
<1> QED
  BY <1>50, <1>7, <1>8, <1>10, <1>11 DEF Tree, Shape

\* cmd_delete takes an entry out of its directory: it drops it and frees its
\* chain.  An empty directory it removes is not the current one of the session,
\* which holds at least that entry.
LEMMA DeleteFileTree ==
  ASSUME TreeInv, NEW s \in Sessions, NEW n \in Names, NEW t \in {"file", "dir"},
         DeleteFile(s, n, t), t = "dir" => "rmdir" \in Commands
  PROVE  Tree' /\ KeepsKept
<1> DEFINE d == blocks[cwd[s]]
           i == First(SlotsNamed(d, n))
           h == d[i].head
<1>1. /\ lock = NoOne /\ lock' = s /\ SlotsNamed(d, n) # {} /\ d[i].type = t
      /\ t = "dir" => blocks[h] = ZeroBlock
      /\ buf' = [buf EXCEPT ![s] = d] /\ slot' = [slot EXCEPT ![s] = i]
      /\ curr' = [curr EXCEPT ![s] = h] /\ pc' = [pc EXCEPT ![s] = "D.free"]
      /\ fat' = fat /\ blocks' = blocks /\ cwd' = cwd
  BY DEF DeleteFile, Lock, Goto
<1>2. Place = "idle" /\ Place' = "D.free"
  BY <1>1, ConstantsAssumption DEF Place, TreeInv, TypeInv, TypeOK
<1>3. /\ cwd[s] \in DirBlocks /\ i \in Slots /\ Kept(cwd[s], i) /\ EntryIn(cwd[s], i)
      /\ d[i] \in Entry /\ Alloc(h)
  BY <1>1, <1>2, FirstIsKept
<1>4. h = blocks[cwd[s]][i].head /\ d[i] = blocks[cwd[s]][i]
  OBVIOUS
<1> HIDE DEF i, h
<1>5. buf'[s] = d /\ slot'[s] = i /\ curr'[s] = h
  BY <1>1 DEF TreeInv, TypeInv, TypeOK
<1>6. \A b : Alloc(b)' <=> Alloc(b)
  BY <1>1 DEF Alloc
<1>7. \A b : ~Stale(b) /\ ~Stale(b)' /\ ~InHand(b) /\ (InHand(b)' <=> b = h)
  BY <1>1, <1>2, <1>5 DEF Stale, InHand
<1>8. \A b, j : ~Dropped(b, j) /\ (Dropped(b, j)' <=> b = cwd[s] /\ j = i)
  BY <1>1, <1>2, <1>5 DEF Dropped
<1>9. \A b, j : EntryIn(b, j)' <=> EntryIn(b, j)
  BY <1>1, <1>6, <1>7 DEF EntryIn, Counts
<1>10. \A b, j : Kept(b, j)' <=> Kept(b, j) /\ ~(b = cwd[s] /\ j = i)
  BY <1>8, <1>9 DEF Kept
<1>11. \A b \in DirBlocks, j \in Slots :
         EntryIn(b, j) /\ blocks[b][j].head = h => b = cwd[s] /\ j = i
  BY <1>3, <1>4 DEF TreeInv, Tree, Shape, OneHead
<1>12. \A x : x # h \/ t = "file" => (IsDir(x)' <=> IsDir(x))
  <2>1. \A x : IsDir(x)' => IsDir(x)
    BY <1>1, <1>10 DEF IsDir
  <2>2. ASSUME NEW x, x # h \/ t = "file", IsDir(x)
        PROVE  IsDir(x)'
    <3>1. PICK b \in DirBlocks, j \in Slots :
            Kept(b, j) /\ blocks[b][j].type = "dir" /\ blocks[b][j].head = x
      BY <2>2 DEF IsDir
    <3>2. ~(b = cwd[s] /\ j = i)
      BY <1>1, <1>4, <2>2, <3>1
    <3> QED
      BY <1>1, <1>10, <3>1, <3>2 DEF IsDir
  <2> QED
    BY <2>1, <2>2
<1>13. Heads'
  BY <1>1, <1>6, <1>10 DEF TreeInv, Tree, Shape, Heads
<1>14. Links' /\ OneLink'
  BY <1>1, <1>2, <1>6 DEF TreeInv, Tree, Shape, Links, OneLink
<1>15. OneHead' /\ OneName' /\ HeadNoLink'
  BY <1>1, <1>6, <1>9 DEF TreeInv, Tree, Shape, OneHead, OneName, HeadNoLink
<1>16. TextOnly'
  <2> SUFFICES ASSUME NEW b \in DataBlocks, Alloc(b)', ~IsDir(b)', NEW j \in Slots
               PROVE  blocks'[b][j] \in Texts \cup {Zero}
    BY DEF TextOnly
  <2>1. CASE b # h \/ t = "file"
    BY <1>1, <1>6, <1>7, <1>12, <2>1 DEF TreeInv, Tree, Shape, TextOnly
  <2>2. CASE b = h /\ t = "dir"
    BY <1>1, <2>2 DEF ZeroBlock, Slots
  <2> QED
    BY <2>1, <2>2
<1>17. AllOwned'
  <2> SUFFICES ASSUME NEW b \in DataBlocks, Alloc(b)'
               PROVE  Owned(b)'
    BY DEF AllOwned
  <2>1. CASE b = h
    BY <1>7, <2>1 DEF Owned
  <2>2. CASE b # h
    <3>1. Owned(b) /\ ~InHand(b)
      BY <1>6, <1>7 DEF TreeInv, Tree, Shape, AllOwned
    <3>2. CASE \E a \in DataBlocks : Alloc(a) /\ fat[a] = b
      BY <1>1, <1>6, <3>2 DEF Owned
    <3>3. CASE \E a \in DirBlocks, j \in Slots : Kept(a, j) /\ blocks[a][j].head = b
      <4>1. PICK a \in DirBlocks, j \in Slots : Kept(a, j) /\ blocks[a][j].head = b
        BY <3>3
      <4>2. Kept(a, j)' /\ blocks'[a][j].head = b
        BY <1>1, <1>4, <1>10, <2>2, <4>1
      <4> QED
        BY <4>2 DEF Owned
    <3> QED
      BY <3>1, <3>2, <3>3 DEF Owned
  <2> QED
    BY <2>1, <2>2
<1>18. Shape'
  BY <1>13, <1>14, <1>15, <1>16, <1>17 DEF Shape
<1>19. InDirs'
  <2> SUFFICES ASSUME NEW q \in Sessions
               PROVE  cwd[q] = Root \/ cwd[q] # h \/ t = "file"
    <3>1. \A q \in Sessions : cwd[q] = Root \/ IsDir(cwd[q])
      BY <1>2 DEF TreeInv, Tree, InDirs
    <3> QED
      BY <1>1, <1>3, <1>12, <3>1, DataLayout DEF InDirs, Alloc
  <2> SUFFICES ASSUME t = "dir", cwd[q] = h
               PROVE  FALSE
    OBVIOUS
  <2>1. q = s
    BY DEF TreeInv, NothingStale
  <2>2. d[i] = Zero
    BY <1>1, <1>3, <2>1 DEF ZeroBlock, Slots
  <2> QED
    BY <1>3, <2>2, UnitsAssumption DEF Pieces
<1>20. Freeing'
  <2>1. h \in FatVal
    BY <1>3 DEF Alloc, FatVal
  <2>2. \A b \in DirBlocks, j \in Slots : Kept(b, j)' => blocks'[b][j].head # h
    BY <1>1, <1>10, <1>11 DEF Kept
  <2>3. \A a \in DataBlocks : Alloc(a)' => fat'[a] # h
    BY <1>1, <1>3, <1>4, <1>6 DEF TreeInv, Tree, Shape, HeadNoLink
  <2>4. Alloc(curr[s])'
    BY <1>1, <1>3, <1>5 DEF Alloc
  <2> QED
    BY <1>1, <1>2, <1>5, <2>1, <2>2, <2>3, <2>4 DEF Freeing
<1>21. Opened'
  BY <1>1, <1>2, <1>5 DEF Opened
<1>22. Formatting' /\ Creating' /\ Extending'
  BY <1>2 DEF Formatting, Creating, Extending
<1>50. KeepsKept
  BY <1>1, <1>10 DEF KeepsKept
<1> QED
  BY <1>50, <1>18, <1>19, <1>20, <1>21, <1>22 DEF Tree, Hand

\* The block of a new file or directory is zeroed before anything names it.
LEMMA CreateZeroTree ==
  ASSUME TreeInv, NEW s \in Sessions, CreateZero(s)
  PROVE  Tree' /\ KeepsKept
<1> DEFINE c == curr[s]
<1>1. /\ pc[s] = "C.zero" /\ blocks' = [blocks EXCEPT ![c] = ZeroBlock]
      /\ pc' = [pc EXCEPT ![s] = "C.entry"]
      /\ lock' = lock /\ fat' = fat /\ cwd' = cwd /\ buf' = buf /\ slot' = slot
      /\ curr' = curr
  BY DEF CreateZero, Goto
<1>2. lock = s /\ lock # NoOne /\ Place = "C.zero" /\ Place' = "C.entry"
  BY <1>1, HolderPlace DEF TreeInv, Place, TypeInv, TypeOK
<1>3. /\ Alloc(c) /\ fat[c] = FAT_EOF
      /\ \A b \in DirBlocks, i \in Slots : EntryIn(b, i) => blocks[b][i].head # c
      /\ \A a \in DataBlocks : Alloc(a) => fat[a] # c
      /\ Adds(blocks[cwd[s]], buf[s], c)
  BY <1>2 DEF TreeInv, Tree, Hand, Creating
<1>4. c \in DataBlocks /\ c # Root /\ ~IsDir(c)
  BY <1>3, DataLayout DEF Alloc, IsDir, Kept
<1>5. cwd[s] # c /\ cwd[s] \in DirBlocks
  BY <1>2, <1>4 DEF TreeInv, Tree, InDirs, TypeInv, TypeOK
<1>6. blocks'[c] = ZeroBlock /\ \A b \in DirBlocks : b # c => blocks'[b] = blocks[b]
  BY <1>1, <1>4, DataLayout DEF TreeInv, TypeInv, TypeOK
<1>7. \A b : Alloc(b)' <=> Alloc(b)
  BY <1>1 DEF Alloc
<1>8. \A b : (Stale(b) <=> b = c) /\ ~Stale(b)' /\ (InHand(b)' <=> InHand(b))
  BY <1>1, <1>2 DEF Stale, InHand
<1>9. \A b, i : ~Dropped(b, i) /\ ~Dropped(b, i)'
  BY <1>2 DEF Dropped
<1>10. \A i \in Slots : blocks'[c][i] = Zero
  BY <1>6 DEF ZeroBlock, Slots
<1> HIDE DEF c
<1>11. SameEntries /\ KeepsKept
  <2> SUFFICES ASSUME NEW b \in DirBlocks, NEW i \in Slots
               PROVE  /\ EntryIn(b, i)' <=> EntryIn(b, i)
                      /\ EntryIn(b, i) => blocks'[b][i] = blocks[b][i]
    BY <1>9 DEF SameEntries, KeepsKept, Kept
  <2>1. CASE b = c
    BY <1>8, <1>10, <2>1 DEF EntryIn, Counts, Pieces
  <2>2. CASE b # c
    BY <1>6, <1>7, <1>8, <2>2 DEF EntryIn, Counts
  <2> QED
    BY <2>1, <2>2
<1>12. \A b : IsDir(b)' <=> IsDir(b)
  BY <1>11, SameDirs
<1>13. Heads'
  BY <1>7, <1>11 DEF TreeInv, Tree, Shape, Heads, SameEntries, Kept
<1>14. Links' /\ OneLink'
  BY <1>1, <1>2, <1>7 DEF TreeInv, Tree, Shape, Links, OneLink
<1>15. OneHead' /\ OneName'
  BY <1>11, SameUnique DEF TreeInv, Tree, Shape
<1>16. HeadNoLink'
  BY <1>1, <1>7, <1>11 DEF TreeInv, Tree, Shape, HeadNoLink, SameEntries
<1>17. TextOnly'
  <2> SUFFICES ASSUME NEW b \in DataBlocks, Alloc(b)', ~IsDir(b)', NEW i \in Slots
               PROVE  blocks'[b][i] \in Texts \cup {Zero}
    BY DEF TextOnly
  <2>1. CASE b = c
    BY <1>10, <2>1
  <2>2. CASE b # c
    BY <1>6, <1>7, <1>8, <1>12, <2>2, DataLayout DEF TreeInv, Tree, Shape, TextOnly
  <2> QED
    BY <2>1, <2>2
<1>18. AllOwned'
  <2> SUFFICES ASSUME NEW b \in DataBlocks, Alloc(b)'
               PROVE  Owned(b)'
    BY DEF AllOwned
  <2>1. Owned(b)
    BY <1>7 DEF TreeInv, Tree, Shape, AllOwned
  <2>2. CASE InHand(b)
    BY <1>8, <2>2 DEF Owned
  <2>3. CASE ~InHand(b)
    BY <1>1, <1>7, <1>11, <2>1, <2>3, StaysOwned
  <2> QED
    BY <2>2, <2>3
<1>19. Shape'
  BY <1>13, <1>14, <1>15, <1>16, <1>17, <1>18 DEF Shape
<1>20. InDirs'
  BY <1>1, <1>2, <1>12 DEF TreeInv, Tree, InDirs
<1>21. Creating'
  <2>1. blocks'[cwd[s]] = blocks[cwd[s]] /\ curr'[s] = c /\ fat'[c] = FAT_EOF
    BY <1>1, <1>3, <1>5, <1>6 DEF c
  <2>2. \A b \in DirBlocks, i \in Slots : EntryIn(b, i)' => blocks'[b][i].head # c
    BY <1>3, <1>11 DEF SameEntries
  <2>3. Alloc(curr[s])'
    BY <1>3, <2>1, <1>1 DEF Alloc
  <2> QED
    BY <1>1, <1>2, <1>3, <1>7, <2>1, <2>2, <2>3 DEF Creating
<1>22. Formatting' /\ Opened' /\ Freeing' /\ Extending'
  BY <1>2 DEF Formatting, Opened, Freeing, Extending, AtWork
<1> QED
  BY <1>11, <1>19, <1>20, <1>21, <1>22 DEF Tree, Hand

\* The entry of the new file or directory is written: it names the block.
LEMMA CreateEntryTree ==
  ASSUME TreeInv, NEW s \in Sessions, CreateEntry(s)
  PROVE  Tree' /\ \A b \in DirBlocks, j \in Slots :
           Kept(b, j)' => \/ Kept(b, j) /\ blocks'[b][j] = blocks[b][j]
                          \/ blocks'[b][j].head = curr[s] /\ blocks'[b][j].size = 0
<1>0. PICK c, w : c = curr[s] /\ w = cwd[s]
  OBVIOUS
<1>1. /\ pc[s] = "C.entry" /\ blocks' = [blocks EXCEPT ![w] = buf[s]]
      /\ lock' = NoOne /\ fat' = fat /\ cwd' = cwd
  BY <1>0 DEF CreateEntry, Finish
<1>2. lock = s /\ lock # NoOne /\ Place = "C.entry" /\ Place' = "idle"
  BY <1>1, HolderPlace DEF TreeInv, Place
<1>3. /\ Alloc(c) /\ fat[c] = FAT_EOF
      /\ \A b \in DirBlocks, j \in Slots : EntryIn(b, j) => blocks[b][j].head # c
      /\ \A a \in DataBlocks : Alloc(a) => fat[a] # c
      /\ Adds(blocks[w], buf[s], c)
  BY <1>0, <1>2 DEF TreeInv, Tree, Hand, Creating
<1>4. PICK i \in Slots, n \in Names, t \in {"file", "dir"} :
        /\ blocks[w][i] = Zero /\ SlotsNamed(blocks[w], n) = {}
        /\ buf[s] = [blocks[w] EXCEPT ![i] =
             [name |-> n, type |-> t, head |-> c, size |-> 0]]
  BY <1>3 DEF Adds
<1> DEFINE e == [name |-> n, type |-> t, head |-> c, size |-> 0]
<1>5. c \in DataBlocks /\ c # Root /\ ~IsDir(c)
  BY <1>3, DataLayout DEF Alloc, IsDir, Kept
<1>6. w # c /\ w \in DirBlocks /\ (w = Root \/ IsDir(w)) /\ Counts(w)
  BY <1>0, <1>2, <1>5, CwdCounts DEF TreeInv, Tree, InDirs
<1>7. e.head = c /\ e.type = t /\ e.name = n /\ e \in Entry
  BY <1>5, <1>4 DEF Entry
<1>8. e \notin Pieces
  BY <1>7, UnitsAssumption
<1> HIDE DEF e
<1>9. blocks[w] \in [Slots -> Unit] /\ blocks \in [DirBlocks -> Block]
  BY <1>6 DEF TreeInv, TypeInv, TypeOK, Block, Slots
<1>10. /\ \A b \in DirBlocks : b # w => blocks'[b] = blocks[b]
       /\ blocks'[w][i] = e /\ \A j \in Slots : j # i => blocks'[w][j] = blocks[w][j]
  BY <1>1, <1>4, <1>6, <1>9 DEF e
<1>11. \A b : Alloc(b)' <=> Alloc(b)
  BY <1>1 DEF Alloc
<1>12. \A b : ~Stale(b) /\ ~Stale(b)' /\ (InHand(b) <=> b = c)
  BY <1>0, <1>2 DEF Stale, InHand
<1>13. \A b, j : ~Dropped(b, j) /\ ~Dropped(b, j)'
  BY <1>2 DEF Dropped
<1>14. \A b : Counts(b)' <=> Counts(b)
  BY <1>11, <1>12 DEF Counts
<1>15. ASSUME NEW b \in DirBlocks, NEW j \in Slots
       PROVE  /\ EntryIn(b, j)' <=> EntryIn(b, j) \/ (b = w /\ j = i)
              /\ Kept(b, j) <=> EntryIn(b, j)
              /\ Kept(b, j)' <=> EntryIn(b, j)'
              /\ EntryIn(b, j) => blocks'[b][j] = blocks[b][j] /\ ~(b = w /\ j = i)
  <2>1. (Kept(b, j) <=> EntryIn(b, j)) /\ (Kept(b, j)' <=> EntryIn(b, j)')
    BY <1>13 DEF Kept
  <2>2. CASE b = w /\ j = i
    BY <1>4, <1>6, <1>8, <1>10, <1>14, <2>1, <2>2 DEF EntryIn, Pieces
  <2>3. CASE ~(b = w /\ j = i)
    <3>1. blocks'[b][j] = blocks[b][j]
      BY <1>10, <2>3
    <3> QED
      BY <1>14, <2>1, <2>3, <3>1 DEF EntryIn
  <2> QED
    BY <2>2, <2>3
<1>16. \A b \in DirBlocks, j \in Slots :
         EntryIn(b, j)' => \/ EntryIn(b, j) /\ blocks'[b][j] = blocks[b][j]
                           \/ b = w /\ j = i /\ blocks'[b][j] = e
  BY <1>10, <1>15
<1>17. \A x : IsDir(x) => IsDir(x)'
  BY <1>15 DEF IsDir
<1>19. Heads'
  <2> SUFFICES ASSUME NEW b \in DirBlocks, NEW j \in Slots, NEW x,
                      x = blocks'[b][j].head, EntryIn(b, j)'
               PROVE  Alloc(x)
    BY <1>1 DEF Heads, Kept, Alloc
  <2>1. CASE EntryIn(b, j) /\ blocks'[b][j] = blocks[b][j]
    BY <1>15, <2>1 DEF TreeInv, Tree, Shape, Heads
  <2>2. CASE blocks'[b][j] = e
    BY <1>3, <1>7, <2>2
  <2> QED
    BY <1>16, <2>1, <2>2
<1>20. Links' /\ OneLink'
  BY <1>1, <1>2, <1>11 DEF TreeInv, Tree, Shape, Links, OneLink
<1>21. OneHead'
  <2> SUFFICES ASSUME NEW a \in DirBlocks, NEW b \in DirBlocks, NEW j \in Slots,
                      NEW k \in Slots, EntryIn(a, j)', EntryIn(b, k)',
                      blocks'[a][j].head = blocks'[b][k].head
               PROVE  a = b /\ j = k
    BY DEF OneHead
  <2>1. CASE /\ EntryIn(a, j) /\ blocks'[a][j] = blocks[a][j]
             /\ EntryIn(b, k) /\ blocks'[b][k] = blocks[b][k]
    BY <2>1 DEF TreeInv, Tree, Shape, OneHead
  <2> QED
    BY <1>3, <1>7, <1>16, <2>1
<1>22. OneName'
  <2> SUFFICES ASSUME NEW b \in DirBlocks, NEW j \in Slots, NEW k \in Slots,
                      EntryIn(b, j)', EntryIn(b, k)',
                      blocks'[b][j].name = blocks'[b][k].name
               PROVE  j = k
    BY DEF OneName
  <2>1. CASE EntryIn(b, j) /\ EntryIn(b, k)
    BY <1>15, <2>1 DEF TreeInv, Tree, Shape, OneName
  <2>2. \A m \in Slots : EntryIn(w, m) => blocks[w][m].name # n
    BY <1>4 DEF SlotsNamed, Named, EntryIn, Slots
  <2> QED
    BY <1>7, <1>15, <1>16, <2>1, <2>2
<1>23. HeadNoLink'
  <2> SUFFICES ASSUME NEW b \in DirBlocks, NEW j \in Slots, NEW a \in DataBlocks,
                      EntryIn(b, j)', Alloc(a)'
               PROVE  fat'[a] # blocks'[b][j].head
    BY DEF HeadNoLink
  <2>1. Alloc(a) /\ fat'[a] = fat[a]
    BY <1>1, <1>11
  <2>2. CASE EntryIn(b, j) /\ blocks'[b][j] = blocks[b][j]
    BY <2>1, <2>2 DEF TreeInv, Tree, Shape, HeadNoLink
  <2>3. CASE blocks'[b][j] = e
    BY <1>3, <1>7, <2>1, <2>3
  <2> QED
    BY <1>16, <2>2, <2>3
<1>24. TextOnly'
  <2> SUFFICES ASSUME NEW b \in DataBlocks, Alloc(b)', ~IsDir(b)', NEW j \in Slots
               PROVE  blocks'[b][j] \in Texts \cup {Zero}
    BY DEF TextOnly
  <2>1. b # w
    BY <1>6, <1>17, DataLayout
  <2>2. blocks'[b] = blocks[b] /\ Alloc(b) /\ ~IsDir(b) /\ ~Stale(b)
    BY <1>10, <1>11, <1>12, <1>17, <2>1, DataLayout
  <2> QED
    BY <2>2 DEF TreeInv, Tree, Shape, TextOnly
<1>25. AllOwned'
  <2> SUFFICES ASSUME NEW b \in DataBlocks, Alloc(b)'
               PROVE  Owned(b)'
    BY DEF AllOwned
  <2>1. CASE b = c
    <3>1. Kept(w, i)' /\ blocks'[w][i].head = b
      BY <1>6, <1>7, <1>10, <1>15, <2>1
    <3> QED
      BY <1>6, <3>1 DEF Owned
  <2>2. CASE b # c
    <3>1. Owned(b) /\ ~InHand(b)
      BY <1>11, <1>12, <2>2 DEF TreeInv, Tree, Shape, AllOwned
    <3>2. CASE \E a \in DataBlocks : Alloc(a) /\ fat[a] = b
      BY <1>1, <1>11, <3>2 DEF Owned
    <3>3. CASE \E a \in DirBlocks, j \in Slots : Kept(a, j) /\ blocks[a][j].head = b
      <4>1. PICK a \in DirBlocks, j \in Slots : Kept(a, j) /\ blocks[a][j].head = b
        BY <3>3
      <4>2. Kept(a, j)' /\ blocks'[a][j].head = b
        BY <1>15, <4>1
      <4> QED
        BY <4>2 DEF Owned
    <3> QED
      BY <3>1, <3>2, <3>3 DEF Owned
  <2> QED
    BY <2>1, <2>2
<1>26. Shape'
  BY <1>19, <1>20, <1>21, <1>22, <1>23, <1>24, <1>25 DEF Shape
<1>27. InDirs'
  BY <1>1, <1>2, <1>17 DEF TreeInv, Tree, InDirs
<1>28. Hand'
  BY <1>2, HandAway DEF AtWork
<1>50. \A b \in DirBlocks, j \in Slots :
           Kept(b, j)' => \/ Kept(b, j) /\ blocks'[b][j] = blocks[b][j]
                          \/ blocks'[b][j].head = curr[s] /\ blocks'[b][j].size = 0
  BY <1>0, <1>7, <1>10, <1>15, <1>16 DEF e
<1> QED
  BY <1>50, <1>26, <1>27, <1>28 DEF Tree

\* cmd_write records the size: the entry keeps its name, type and head.
LEMMA WriteEntryTree ==
  ASSUME TreeInv, NEW s \in Sessions, WriteEntry(s)
  PROVE  Tree' /\ \A b \in DirBlocks, j \in Slots :
           Kept(b, j)' => \/ /\ Kept(b, j) /\ blocks'[b][j] = blocks[b][j]
                             /\ ~(b = cwd[s] /\ j = slot[s])
                          \/ /\ blocks'[b][j].head = OpenHead
                             /\ blocks'[b][j].size = done[s]
<1>0. PICK w, i : w = cwd[s] /\ i = slot[s]
  OBVIOUS
<1>1. /\ pc[s] = "W.entry" /\ lock' = NoOne /\ fat' = fat /\ cwd' = cwd
      /\ blocks' = [blocks EXCEPT ![w] = [buf[s] EXCEPT ![i].size = done[s]]]
  BY <1>0 DEF WriteEntry, Finish
<1>2. lock = s /\ lock # NoOne /\ Place = "W.entry" /\ Place' = "idle"
  BY <1>1, HolderPlace DEF TreeInv, Place
<1>3. /\ w \in DirBlocks /\ i \in Slots /\ EntryIn(w, i)
      /\ buf[s] = blocks[w]
  BY <1>0, <1>2, OpenIsEntry DEF TreeInv, AtWork, Tree, Hand, Opened
<1>4. w = Root \/ IsDir(w)
  BY <1>0, <1>2 DEF TreeInv, Tree, InDirs
<1>5. /\ blocks \in [DirBlocks -> Block] /\ blocks[w] \in [Slots -> Unit]
      /\ done[s] \in Nat
  BY <1>3 DEF TreeInv, TypeInv, TypeOK, Block, Slots
<1>6. blocks[w][i] \in Entry
  BY <1>3, <1>5 DEF EntryIn, Unit
<1>7. PICK e : e = [blocks[w][i] EXCEPT !.size = done[s]]
  OBVIOUS
<1>8. /\ e \in Entry /\ e \notin Pieces /\ e.head = blocks[w][i].head
      /\ e.type = blocks[w][i].type /\ e.name = blocks[w][i].name
  <2>1. e \in Entry
    BY <1>5, <1>6, <1>7, EntryFields
  <2>2. e \notin Pieces
    BY <2>1, UnitsAssumption
  <2> QED
    BY <1>6, <1>7, <2>1, <2>2 DEF Entry
<1>9. /\ \A b \in DirBlocks : b # w => blocks'[b] = blocks[b]
      /\ blocks'[w][i] = e /\ \A j \in Slots : j # i => blocks'[w][j] = blocks[w][j]
  BY <1>1, <1>3, <1>5, <1>7
<1>10. \A b : Alloc(b)' <=> Alloc(b)
  BY <1>1 DEF Alloc
<1>11. \A b : ~Stale(b) /\ ~Stale(b)' /\ ~InHand(b)
  BY <1>2 DEF Stale, InHand
<1>12. \A b, j : ~Dropped(b, j) /\ ~Dropped(b, j)'
  BY <1>2 DEF Dropped
<1>13. \A b : Counts(b)' <=> Counts(b)
  BY <1>10, <1>11 DEF Counts
<1>14. SameEntries
  <2> SUFFICES ASSUME NEW b \in DirBlocks, NEW j \in Slots
               PROVE  /\ EntryIn(b, j)' <=> EntryIn(b, j)
                      /\ EntryIn(b, j) =>
                           /\ blocks'[b][j].head = blocks[b][j].head
                           /\ blocks'[b][j].type = blocks[b][j].type
                           /\ blocks'[b][j].name = blocks[b][j].name
    BY <1>12 DEF SameEntries, Kept
  <2>1. CASE b = w /\ j = i
    BY <1>3, <1>8, <1>9, <1>13, <2>1 DEF EntryIn
  <2>2. CASE ~(b = w /\ j = i)
    <3>1. blocks'[b][j] = blocks[b][j]
      BY <1>9, <2>2
    <3> QED
      BY <1>13, <3>1 DEF EntryIn
  <2> QED
    BY <2>1, <2>2
<1>15. \A b : IsDir(b)' <=> IsDir(b)
  BY <1>14, SameDirs
<1>16. Heads'
  BY <1>10, <1>14 DEF TreeInv, Tree, Shape, Heads, SameEntries, Kept
<1>17. Links' /\ OneLink'
  BY <1>1, <1>2, <1>10 DEF TreeInv, Tree, Shape, Links, OneLink
<1>18. OneHead' /\ OneName'
  BY <1>14, SameUnique DEF TreeInv, Tree, Shape
<1>19. HeadNoLink'
  BY <1>1, <1>10, <1>14 DEF TreeInv, Tree, Shape, HeadNoLink, SameEntries
<1>20. TextOnly'
  <2> SUFFICES ASSUME NEW b \in DataBlocks, Alloc(b)', ~IsDir(b)', NEW j \in Slots
               PROVE  blocks'[b][j] \in Texts \cup {Zero}
    BY DEF TextOnly
  <2>1. b # w
    BY <1>4, <1>15, DataLayout
  <2>2. blocks'[b] = blocks[b] /\ Alloc(b) /\ ~IsDir(b) /\ ~Stale(b)
    BY <1>9, <1>10, <1>11, <1>15, <2>1, DataLayout
  <2> QED
    BY <2>2 DEF TreeInv, Tree, Shape, TextOnly
<1>21. AllOwned'
  <2> SUFFICES ASSUME NEW b \in DataBlocks, Alloc(b)'
               PROVE  Owned(b)'
    BY DEF AllOwned
  <2>1. Owned(b)
    BY <1>10 DEF TreeInv, Tree, Shape, AllOwned
  <2> QED
    BY <1>1, <1>10, <1>11, <1>14, <2>1, StaysOwned
<1>22. Shape'
  BY <1>16, <1>17, <1>18, <1>19, <1>20, <1>21 DEF Shape
<1>23. InDirs'
  BY <1>1, <1>2, <1>15 DEF TreeInv, Tree, InDirs
<1>24. Hand'
  BY <1>2, HandAway DEF AtWork
<1>29. e.head = OpenHead /\ e.size = done[s]
  BY <1>0, <1>2, <1>3, <1>6, <1>7, <1>8 DEF OpenHead, Entry
<1>50. \A b \in DirBlocks, j \in Slots :
           Kept(b, j)' => \/ /\ Kept(b, j) /\ blocks'[b][j] = blocks[b][j]
                             /\ ~(b = cwd[s] /\ j = slot[s])
                          \/ /\ blocks'[b][j].head = OpenHead
                             /\ blocks'[b][j].size = done[s]
  BY <1>0, <1>2, <1>3, <1>9, <1>14, <1>29 DEF SameEntries, OpenHead, Kept
<1> QED
  BY <1>50, <1>22, <1>23, <1>24 DEF Tree

\* The dropped entry goes out of the directory.
LEMMA DeleteEntryTree ==
  ASSUME TreeInv, NEW s \in Sessions, DeleteEntry(s)
  PROVE  Tree' /\ KeepsKept
<1>0. PICK w, i : w = cwd[s] /\ i = slot[s]
  OBVIOUS
<1>1. /\ pc[s] = "D.entry" /\ lock' = NoOne /\ fat' = fat /\ cwd' = cwd
      /\ blocks' = [blocks EXCEPT ![w] = [buf[s] EXCEPT ![i] = Zero]]
  BY <1>0 DEF DeleteEntry, Finish
<1>2. lock = s /\ lock # NoOne /\ Place = "D.entry" /\ Place' = "idle"
  BY <1>1, HolderPlace DEF TreeInv, Place
<1>3. /\ w \in DirBlocks /\ i \in Slots /\ EntryIn(w, i)
      /\ buf[s] = blocks[w]
  BY <1>0, <1>2, OpenIsEntry DEF TreeInv, AtWork, Tree, Hand, Opened
<1>4. w = Root \/ IsDir(w)
  BY <1>0, <1>2 DEF TreeInv, Tree, InDirs
<1>5. blocks \in [DirBlocks -> Block] /\ blocks[w] \in [Slots -> Unit]
  BY <1>3 DEF TreeInv, TypeInv, TypeOK, Block, Slots
<1>6. /\ \A b \in DirBlocks : b # w => blocks'[b] = blocks[b]
      /\ blocks'[w][i] = Zero /\ \A j \in Slots : j # i => blocks'[w][j] = blocks[w][j]
  BY <1>1, <1>3, <1>5
<1>7. \A b : Alloc(b)' <=> Alloc(b)
  BY <1>1 DEF Alloc
<1>8. \A b : ~Stale(b) /\ ~Stale(b)' /\ ~InHand(b)
  BY <1>2 DEF Stale, InHand
<1>9. \A b, j : (Dropped(b, j) <=> b = w /\ j = i) /\ ~Dropped(b, j)'
  BY <1>0, <1>2 DEF Dropped
<1>10. \A b : Counts(b)' <=> Counts(b)
  BY <1>7, <1>8 DEF Counts
<1>11. \A b \in DirBlocks, j \in Slots :
         /\ EntryIn(b, j)' <=> Kept(b, j)
         /\ Kept(b, j)' <=> Kept(b, j)
         /\ Kept(b, j) => EntryIn(b, j) /\ blocks'[b][j] = blocks[b][j]
  <2> SUFFICES ASSUME NEW b \in DirBlocks, NEW j \in Slots
               PROVE  /\ EntryIn(b, j)' <=> Kept(b, j)
                      /\ Kept(b, j) => EntryIn(b, j) /\ blocks'[b][j] = blocks[b][j]
    BY <1>9 DEF Kept
  <2>1. CASE b = w /\ j = i
    BY <1>6, <1>9, <2>1 DEF EntryIn, Kept, Pieces
  <2>2. CASE ~(b = w /\ j = i)
    <3>1. blocks'[b][j] = blocks[b][j]
      BY <1>6, <2>2
    <3> QED
      BY <1>9, <1>10, <2>2, <3>1 DEF EntryIn, Kept
  <2> QED
    BY <2>1, <2>2
<1>12. \A x : IsDir(x)' <=> IsDir(x)
  BY <1>11 DEF IsDir
<1>13. Heads'
  BY <1>7, <1>11 DEF TreeInv, Tree, Shape, Heads
<1>14. Links' /\ OneLink'
  BY <1>1, <1>2, <1>7 DEF TreeInv, Tree, Shape, Links, OneLink
<1>15. OneHead'
  BY <1>11 DEF TreeInv, Tree, Shape, OneHead
<1>16. OneName'
  BY <1>11 DEF TreeInv, Tree, Shape, OneName
<1>17. HeadNoLink'
  BY <1>1, <1>7, <1>11 DEF TreeInv, Tree, Shape, HeadNoLink
<1>18. TextOnly'
  <2> SUFFICES ASSUME NEW b \in DataBlocks, Alloc(b)', ~IsDir(b)', NEW j \in Slots
               PROVE  blocks'[b][j] \in Texts \cup {Zero}
    BY DEF TextOnly
  <2>1. b # w
    BY <1>4, <1>12, DataLayout
  <2>2. blocks'[b] = blocks[b] /\ Alloc(b) /\ ~IsDir(b) /\ ~Stale(b)
    BY <1>6, <1>7, <1>8, <1>12, <2>1, DataLayout
  <2> QED
    BY <2>2 DEF TreeInv, Tree, Shape, TextOnly
<1>19. AllOwned'
  <2> SUFFICES ASSUME NEW b \in DataBlocks, Alloc(b)'
               PROVE  Owned(b)'
    BY DEF AllOwned
  <2>1. Owned(b) /\ ~InHand(b)
    BY <1>7, <1>8 DEF TreeInv, Tree, Shape, AllOwned
  <2>2. CASE \E a \in DataBlocks : Alloc(a) /\ fat[a] = b
    BY <1>1, <1>7, <2>2 DEF Owned
  <2>3. CASE \E a \in DirBlocks, j \in Slots : Kept(a, j) /\ blocks[a][j].head = b
    <3>1. PICK a \in DirBlocks, j \in Slots : Kept(a, j) /\ blocks[a][j].head = b
      BY <2>3
    <3>2. Kept(a, j)' /\ blocks'[a][j].head = b
      BY <1>11, <3>1
    <3> QED
      BY <3>2 DEF Owned
  <2> QED
    BY <2>1, <2>2, <2>3 DEF Owned
<1>20. Shape'
  BY <1>13, <1>14, <1>15, <1>16, <1>17, <1>18, <1>19 DEF Shape
<1>21. InDirs'
  BY <1>1, <1>2, <1>12 DEF TreeInv, Tree, InDirs
<1>22. Hand'
  BY <1>2, HandAway DEF AtWork
<1>50. KeepsKept
  BY <1>11 DEF KeepsKept
<1> QED
  BY <1>50, <1>20, <1>21, <1>22 DEF Tree

-----------------------------------------------------------------------------
\* The invariant, and the properties that follow whenever fs_lock is free.

LEMMA InitTree == NothingStale /\ Init => TreeInv
<1> SUFFICES ASSUME NothingStale, Init
             PROVE  TreeInv
  OBVIOUS
<1>1. TypeInv /\ LockHeld
  BY InitTypeInv DEF Init, Each, LockHeld
<1>2. lock = NoOne /\ Place = "idle"
  BY DEF Init, Place
<1>3. \A b : ~Alloc(b)
  BY DataLayout DEF Init, Alloc
<1>4. \A b \in DirBlocks, i \in Slots : ~EntryIn(b, i) /\ ~Kept(b, i)
  BY DEF Init, EntryIn, Kept, ZeroBlock, Slots, Pieces
<1>5. Heads /\ Links /\ OneHead /\ OneLink
  BY <1>3, <1>4 DEF Heads, Links, OneHead, OneLink
<1>6. HeadNoLink /\ OneName /\ TextOnly /\ AllOwned
  BY <1>3, <1>4 DEF HeadNoLink, OneName, TextOnly, AllOwned
<1>7. InDirs
  BY DEF Init, Each, InDirs
<1>8. Hand
  BY <1>2 DEF Hand, Formatting, Creating, Opened, Freeing, Extending, AtWork
<1> QED
  BY <1>1, <1>5, <1>6, <1>7, <1>8 DEF TreeInv, Tree, Shape

LEMMA ClientTree ==
  ASSUME TreeInv, NEW s \in Sessions, ClientStep(s)
  PROVE  Tree'
<1>1. CASE Format(s)
  BY <1>1, FormatTree
<1>2. CASE List(s)
  BY <1>2, AnswerTree DEF List
<1>3. CASE CdRoot(s) \/ Reconnect(s)
  BY <1>3, CdTree DEF CdRoot, Reconnect, Request
<1>4. ASSUME NEW n \in Names,
             \/ CreateRefused(s, n) \/ ReadRefused(s, n) \/ WriteRefused(s, n)
             \/ CdRefused(s, n) \/ DeleteRefused(s, n, "file")
             \/ DeleteRefused(s, n, "dir")
      PROVE  Tree'
  <2>1. \E r : Answer(s, r)
    BY <1>4 DEF CreateRefused, ReadRefused, WriteRefused, CdRefused, DeleteRefused
  <2> QED
    BY <2>1, AnswerTree
<1>5. ASSUME NEW n \in Names, Create(s, n)
      PROVE  Tree'
  BY <1>4, <1>5, CreateAllocTree DEF Create
<1>6. ASSUME NEW n \in Names, Delete(s, n)
      PROVE  Tree'
  BY <1>4, <1>6, DeleteFileTree DEF Delete
<1>7. ASSUME NEW n \in Names,
             ReadFile(s, n) \/ Cd(s, n) \/ \E l \in Lens, t \in Texts : WriteFile(s, n, l, t)
      PROVE  Tree'
  BY <1>7, ReadFileTree, CdIsDir, WriteFileTree
<1> QED
  BY <1>1, <1>2, <1>3, <1>4, <1>5, <1>6, <1>7 DEF ClientStep

LEMMA HandlerTree ==
  ASSUME TreeInv, NEW s \in Sessions, HandlerStep(s)
  PROVE  Tree'
<1>1. CASE \/ SaveFat(s, "F.save", "F.root") \/ SaveFat(s, "C.save", "C.zero")
           \/ SaveFat(s, "W.save", "W.entry") \/ SaveFat(s, "D.save", "D.entry")
  BY <1>1, SaveTree
<1>2. CASE FormatRoot(s) \/ CreateZero(s) \/ CreateEntry(s) \/ WriteEntry(s)
           \/ DeleteEntry(s)
  BY <1>2, FormatRootTree, CreateZeroTree, CreateEntryTree, WriteEntryTree,
     DeleteEntryTree
<1>3. CASE WriteFree(s) \/ DeleteFree(s)
  BY <1>3, FreeTree DEF WriteFree, DeleteFree
<1>4. CASE WriteHead(s) \/ WriteChunk(s)
  BY <1>4, WriteHeadTree, WriteChunkTree
<1>5. CASE ReadChunk(s) \/ ReadEnd(s) \/ DeleteFreed(s)
  BY <1>5, ReadChunkTree, ReadEndTree, DeleteFreedTree
<1> QED
  BY <1>1, <1>2, <1>3, <1>4, <1>5 DEF HandlerStep

LEMMA NextTree == TreeInv /\ [Next]_vars => TreeInv'
<1> SUFFICES ASSUME TreeInv, [Next]_vars
             PROVE  TreeInv'
  OBVIOUS
<1>1. TypeInv' /\ LockHeld' /\ NothingStale'
  BY NextTypeInv, NextLock DEF TreeInv, NothingStale
<1>2. ~Restart
  BY ConstantsAssumption DEF TreeInv, NothingStale, TypeInv, TypeOK, Restart
<1>3. Tree'
  BY <1>2, StutterTree, ClientTree, HandlerTree DEF Next
<1> QED
  BY <1>1, <1>3 DEF TreeInv

\* The cells of the properties are the entries of the invariant.
LEMMA CellIsKept ==
  ASSUME Quiet, NEW c \in Cells
  PROVE  /\ c = <<c[1], c[2]>> /\ c[1] \in DirBlocks /\ c[2] \in Slots
         /\ EntryIn(c[1], c[2]) /\ Kept(c[1], c[2]) /\ EntryAt(c) = blocks[c[1]][c[2]]
<1>1. c \in DirBlocks \X (1 .. BlockSize) /\ c[1] \in Allocated \cup {Root}
      /\ blocks[c[1]][c[2]] \notin Pieces
  BY DEF Cells
<1>2. Place = "idle"
  BY DEF Quiet, Place
<1>3. EntryIn(c[1], c[2]) /\ Kept(c[1], c[2])
  BY <1>1, <1>2 DEF EntryIn, Kept, Counts, Stale, Dropped, Allocated, Alloc
<1> QED
  BY <1>1, <1>3 DEF Slots, EntryAt

LEMMA KeptIsCell ==
  ASSUME NEW b \in DirBlocks, NEW i \in Slots, Kept(b, i)
  PROVE  <<b, i>> \in Cells /\ EntryAt(<<b, i>>) = blocks[b][i]
  BY DEF Kept, EntryIn, Counts, Alloc, Allocated, Cells, EntryAt, Slots

LEMMA TreeDangling == TreeInv => NoDanglingLink
<1> SUFFICES ASSUME TreeInv, Quiet
             PROVE  /\ \A c \in Cells : EntryAt(c).head \in Allocated
                    /\ \A b \in Allocated : fat[b] \in DataBlocks => fat[b] \in Allocated
  BY DEF NoDanglingLink
<1>1. \A c \in Cells : EntryAt(c).head \in Allocated
  BY CellIsKept DEF TreeInv, Tree, Shape, Heads, Alloc, Allocated
<1>2. Place = "idle"
  BY DEF Quiet, Place
<1>3. \A b \in Allocated : fat[b] \in DataBlocks => fat[b] \in Allocated
  BY <1>2 DEF TreeInv, Tree, Shape, Links, Alloc, Allocated
<1> QED
  BY <1>1, <1>3

\* Two sets of owners, each of one member at most, of which one is empty.
LEMMA OneOwner ==
  ASSUME NEW S, NEW T, \A x, y \in S : x = y, \A x, y \in T : x = y, S = {} \/ T = {}
  PROVE  Cardinality(S) + Cardinality(T) <= 1
<1>1. ASSUME NEW U, \A x, y \in U : x = y
      PROVE  Cardinality(U) \in {0, 1}
  <2>1. CASE U = {}
    BY <2>1, FS_EmptySet
  <2>2. CASE U # {}
    <3>1. PICK x : U = {x}
      BY <1>1, <2>2
    <3> QED
      BY <3>1, FS_Singleton
  <2> QED
    BY <2>1, <2>2
<1>2. Cardinality(S) \in {0, 1} /\ Cardinality(T) \in {0, 1}
  BY <1>1
<1>3. Cardinality(S) = 0 \/ Cardinality(T) = 0
  BY FS_EmptySet
<1> QED
  BY <1>2, <1>3

-----------------------------------------------------------------------------

LEMMA TreeShared == TreeInv => NoSharedBlock
<1> SUFFICES ASSUME TreeInv, Quiet, NEW b \in Allocated
             PROVE  Cardinality(CellsOwning(b)) + Cardinality(BlocksOwning(b)) <= 1
  BY DEF NoSharedBlock
<1>1. b \in DataBlocks
  BY DEF Allocated
<1>2. \A c, d \in CellsOwning(b) : c = d
  <2> SUFFICES ASSUME NEW c \in CellsOwning(b), NEW d \in CellsOwning(b)
               PROVE  c = d
    OBVIOUS
  <2>1. c \in Cells /\ d \in Cells /\ EntryAt(c).head = EntryAt(d).head
    BY DEF CellsOwning
  <2>2. c[1] = d[1] /\ c[2] = d[2]
    BY <2>1, CellIsKept DEF TreeInv, Tree, Shape, OneHead
  <2>3. c = <<c[1], c[2]>> /\ d = <<d[1], d[2]>>
    BY <2>1, CellIsKept
  <2> QED
    BY <2>2, <2>3
<1>3. \A x, y \in BlocksOwning(b) : x = y
  BY <1>1 DEF BlocksOwning, Allocated, TreeInv, Tree, Shape, OneLink, Alloc
<1>4. CellsOwning(b) = {} \/ BlocksOwning(b) = {}
  <2> SUFFICES ASSUME NEW c \in CellsOwning(b), NEW a \in BlocksOwning(b)
               PROVE  FALSE
    OBVIOUS
  <2>1. c \in Cells /\ EntryAt(c).head = b /\ Alloc(a) /\ a \in DataBlocks /\ fat[a] = b
    BY DEF CellsOwning, BlocksOwning, Allocated, Alloc
  <2> QED
    BY <2>1, CellIsKept DEF TreeInv, Tree, Shape, HeadNoLink
<1> QED
  BY <1>2, <1>3, <1>4, OneOwner

LEMMA TreeLost == TreeInv => NoLostBlock
<1> SUFFICES ASSUME TreeInv, Quiet, NEW b \in Allocated
             PROVE  CellsOwning(b) # {} \/ BlocksOwning(b) # {}
  BY DEF NoLostBlock
<1>1. Place = "idle"
  BY DEF Quiet, Place
<1>2. Owned(b) /\ ~InHand(b)
  BY <1>1 DEF TreeInv, Tree, Shape, AllOwned, Allocated, Alloc, InHand
<1>3. CASE \E a \in DirBlocks, i \in Slots : Kept(a, i) /\ blocks[a][i].head = b
  <2>1. PICK a \in DirBlocks, i \in Slots : Kept(a, i) /\ blocks[a][i].head = b
    BY <1>3
  <2>2. <<a, i>> \in CellsOwning(b)
    BY <2>1, KeptIsCell DEF CellsOwning
  <2> QED
    BY <2>2
<1>4. CASE \E a \in DataBlocks : Alloc(a) /\ fat[a] = b
  BY <1>4 DEF BlocksOwning, Allocated, Alloc
<1> QED
  BY <1>2, <1>3, <1>4 DEF Owned

LEMMA TreeNames == TreeInv => NamesUnique
<1> SUFFICES ASSUME TreeInv, Quiet, NEW c \in Cells, NEW d \in Cells, c[1] = d[1],
                    EntryAt(c).name = EntryAt(d).name
             PROVE  c = d
  BY DEF NamesUnique
<1>1. c = <<c[1], c[2]>> /\ d = <<d[1], d[2]>>
  BY CellIsKept
<1>2. c[2] = d[2]
  BY CellIsKept DEF TreeInv, Tree, Shape, OneName
<1> QED
  BY <1>1, <1>2

\* The function that walks a chain exists.
IsWalk(f, g, b, n) ==
  f = [i \in 0 .. n |-> IF i = 0 THEN b
                        ELSE IF f[i - 1] \in DataBlocks THEN g[f[i - 1]] ELSE FAT_EOF]

LEMMA WalkExists ==
  ASSUME NEW g, NEW b, NEW n \in Nat
  PROVE  \E f : IsWalk(f, g, b, n)
<1> DEFINE S == {k \in Nat : ~\E f : IsWalk(f, g, b, k)}
<1> SUFFICES ASSUME S # {}
             PROVE  FALSE
  OBVIOUS
<1>1. PICK k \in S : \A j \in S : k <= j
  BY FirstIsLeast
<1>2. CASE k = 0
  <2>1. IsWalk([i \in 0 .. 0 |-> b], g, b, 0)
    BY DEF IsWalk
  <2> QED
    BY <1>1, <1>2, <2>1
<1>3. CASE k # 0
  <2>1. k - 1 \in Nat /\ k - 1 \notin S
    BY <1>1, <1>3
  <2>2. PICK f : IsWalk(f, g, b, k - 1)
    BY <2>1
  <2> DEFINE last == IF f[k - 1] \in DataBlocks THEN g[f[k - 1]] ELSE FAT_EOF
             h == [i \in 0 .. k |-> IF i = k THEN last ELSE f[i]]
  <2>3. \A i \in 0 .. k - 1 :
          f[i] = IF i = 0 THEN b
                 ELSE IF f[i - 1] \in DataBlocks THEN g[f[i - 1]] ELSE FAT_EOF
    BY <2>2 DEF IsWalk
  <2>4. \A i \in 0 .. k - 1 : h[i] = f[i]
    BY <2>1
  <2>5. h[k] = last
    BY <2>1
  <2>6. \A i \in 0 .. k :
          h[i] = IF i = 0 THEN b
                 ELSE IF h[i - 1] \in DataBlocks THEN g[h[i - 1]] ELSE FAT_EOF
    <3> SUFFICES ASSUME NEW i \in 0 .. k
                 PROVE  h[i] = IF i = 0 THEN b
                               ELSE IF h[i - 1] \in DataBlocks THEN g[h[i - 1]]
                               ELSE FAT_EOF
      OBVIOUS
    <3> HIDE DEF h
    <3>1. CASE i = k
      <4>1. h[i - 1] = f[i - 1] /\ i # 0
        BY <1>3, <2>1, <2>4, <3>1
      <4> QED
        BY <2>5, <3>1, <4>1
    <3>2. CASE i # k
      <4>1. i \in 0 .. k - 1 /\ (i # 0 => i - 1 \in 0 .. k - 1)
        BY <2>1, <3>2
      <4> QED
        BY <2>3, <2>4, <4>1
    <3> QED
      BY <3>1, <3>2
  <2>7. h = [i \in 0 .. k |-> h[i]]
    OBVIOUS
  <2> HIDE DEF h
  <2>8. IsWalk(h, g, b, k)
    BY <2>6, <2>7 DEF IsWalk
  <2> QED
    BY <1>1, <2>8
<1> QED
  BY <1>2, <1>3

\* The blocks of a chain: its head, and what the links of its blocks name.
LEMMA ChainIsWalk ==
  ASSUME NEW b
  PROVE  \E f : IsWalk(f, fat, b, NumBlocks)
                /\ Chain(b) = {f[i] : i \in 0 .. NumBlocks} \cap DataBlocks
<1> DEFINE w == CHOOSE f : IsWalk(f, fat, b, NumBlocks)
<1>1. IsWalk(w, fat, b, NumBlocks)
  BY Layout, WalkExists
<1>2. Chain(b) = {w[i] : i \in 0 .. NumBlocks} \cap DataBlocks
  BY DEF Chain, IsWalk
<1> QED
  BY <1>1, <1>2

\* Every data block of a file's chain is allocated and no directory.
LEMMA WalkInFile ==
  ASSUME TreeInv, Quiet, NEW c \in FileCells, NEW f,
         IsWalk(f, fat, EntryAt(c).head, NumBlocks)
  PROVE  \A i \in 0 .. NumBlocks :
           f[i] \in DataBlocks => Alloc(f[i]) /\ ~IsDir(f[i])
<1> DEFINE Good(i) == f[i] \in DataBlocks => Alloc(f[i]) /\ ~IsDir(f[i])
           S == {i \in Nat : i \in 0 .. NumBlocks /\ ~Good(i)}
<1> SUFFICES ASSUME S # {}
             PROVE  FALSE
  BY Layout
<1>1. PICK k \in S : \A j \in S : k <= j
  BY FirstIsLeast
<1>2. Place = "idle"
  BY DEF Quiet, Place
<1>3. c \in Cells /\ EntryAt(c).type = "file"
  BY DEF FileCells
<1>4. /\ c[1] \in DirBlocks /\ c[2] \in Slots /\ EntryIn(c[1], c[2])
      /\ Kept(c[1], c[2]) /\ EntryAt(c) = blocks[c[1]][c[2]]
  BY <1>3, CellIsKept
<1>5. CASE k = 0
  <2>1. PICK h : h = EntryAt(c).head
    OBVIOUS
  <2>2. f[0] = h
    BY <2>1, Layout DEF IsWalk
  <2>3. Alloc(h)
    BY <1>4, <2>1 DEF TreeInv, Tree, Shape, Heads
  <2>4. ~IsDir(h)
    <3> SUFFICES ASSUME NEW b \in DirBlocks, NEW i \in Slots, Kept(b, i),
                        blocks[b][i].type = "dir", blocks[b][i].head = h
                 PROVE  FALSE
      BY DEF IsDir
    <3>1. b = c[1] /\ i = c[2]
      BY <1>4, <2>1 DEF TreeInv, Tree, Shape, OneHead, Kept
    <3> QED
      BY <1>3, <1>4, <3>1
  <2> QED
    BY <1>1, <1>5, <2>2, <2>3, <2>4
<1>6. CASE k # 0
  <2>1. k - 1 \in 0 .. NumBlocks /\ k - 1 \in Nat /\ k - 1 \notin S /\ k \in 0 .. NumBlocks
    BY <1>1, <1>6, Layout
  <2>2. PICK a, d : a = f[k - 1] /\ d = f[k]
    OBVIOUS
  <2>3. d = IF a \in DataBlocks THEN fat[a] ELSE FAT_EOF
    BY <1>6, <2>1, <2>2 DEF IsWalk
  <2>4. a \in DataBlocks => Alloc(a) /\ ~IsDir(a)
    BY <2>1, <2>2
  <2>5. d \in DataBlocks /\ ~(Alloc(d) /\ ~IsDir(d))
    BY <1>1, <2>2
  <2>6. a \in DataBlocks /\ d = fat[a]
    BY <2>3, <2>5, DataLayout
  <2>7. Alloc(d)
    BY <1>2, <2>4, <2>5, <2>6 DEF TreeInv, Tree, Shape, Links
  <2>8. ~IsDir(d)
    BY <2>4, <2>6 DEF TreeInv, Tree, Shape, HeadNoLink, IsDir, Kept
  <2> QED
    BY <2>5, <2>7, <2>8
<1> QED
  BY <1>5, <1>6

LEMMA TreeText == TreeInv => FilesHoldText
<1> SUFFICES ASSUME TreeInv, Quiet, NEW c \in FileCells,
                    NEW b \in Chain(EntryAt(c).head), NEW i \in 1 .. BlockSize
             PROVE  blocks[b][i] \in Texts \cup {Zero}
  BY DEF FilesHoldText
<1>1. PICK f : /\ IsWalk(f, fat, EntryAt(c).head, NumBlocks)
               /\ Chain(EntryAt(c).head) = {f[j] : j \in 0 .. NumBlocks} \cap DataBlocks
  BY ChainIsWalk
<1>2. PICK j \in 0 .. NumBlocks : b = f[j]
  BY <1>1
<1>3. b \in DataBlocks /\ Alloc(b) /\ ~IsDir(b)
  BY <1>1, <1>2, WalkInFile
<1>4. ~Stale(b)
  BY DEF Stale, Place, Quiet
<1> QED
  BY <1>3, <1>4 DEF TreeInv, Tree, Shape, TextOnly, Slots

\* The invariant holds from the first state on, and gives the properties.
LEMMA TreeProperties ==
  TreeInv => NoDanglingLink /\ NoSharedBlock /\ NoLostBlock /\ NamesUnique /\ FilesHoldText
  BY TreeDangling, TreeShared, TreeLost, TreeNames, TreeText

LEMMA TreeHolds == NothingStale /\ Spec => []TreeInv
  BY InitTree, NextTree, PTL DEF Spec

\* When fs_lock is free no directory entry and no chain link leads to a free
\* block, whatever the sessions created, wrote and deleted, in any number.
THEOREM NoLinkDangles == NothingStale /\ Spec => []NoDanglingLink
  BY TreeHolds, TreeProperties, PTL

\* When fs_lock is free a block belongs to one file or directory at most:
\* find_free_block never gives out a block that another one still names.
THEOREM NoBlockShared == NothingStale /\ Spec => []NoSharedBlock
  BY TreeHolds, TreeProperties, PTL

\* When fs_lock is free every allocated block belongs to a file or a
\* directory: the loops of cmd_write and cmd_delete free whole chains.
THEOREM NoBlockLost == NothingStale /\ Spec => []NoLostBlock
  BY TreeHolds, TreeProperties, PTL

\* No directory ever holds a name twice, whichever sessions create it.
THEOREM NamesStayUnique == NothingStale /\ Spec => []NamesUnique
  BY TreeHolds, TreeProperties, PTL

\* No directory entry is ever stored in a block of a file, and no file's chain
\* runs into a directory.
THEOREM FilesStayText == NothingStale /\ Spec => []FilesHoldText
  BY TreeHolds, TreeProperties, PTL

-----------------------------------------------------------------------------
\* The path of each session is a walk down the tree of directories.

\* A subdirectory named n of directory b has its block at h.
Leads(b, n, h) ==
  \E i \in Slots :
    Kept(b, i) /\ blocks[b][i].type = "dir" /\ blocks[b][i].name = n /\ blocks[b][i].head = h
\* The directories w that the components of path p go through.
Trail(p, w) ==
  /\ p \in Seq(Names) /\ w \in [0 .. Len(p) -> DirBlocks] /\ w[0] = Root
  /\ \A k \in 1 .. Len(p) : Leads(w[k - 1], p[k], w[k])
PathOf(s) == \E w : Trail(path[s], w) /\ w[Len(path[s])] = cwd[s]
PathOK == Place \notin {"F.save", "F.root"} => \A s \in Sessions : PathOf(s)

\* A step that removes no directory from the tree.
DirsStay ==
  \A b \in DirBlocks, i \in Slots :
    (b = Root \/ IsDir(b)) /\ Kept(b, i) /\ blocks[b][i].type = "dir" =>
      Kept(b, i)' /\ blocks'[b][i] = blocks[b][i]

LEMMA DirsStayIf ==
  ASSUME \A b \in DirBlocks :
           b = Root \/ IsDir(b) =>
             /\ Counts(b) => Counts(b)'
             /\ \A i \in Slots :
                  Kept(b, i) /\ blocks[b][i].type = "dir" =>
                    blocks'[b][i] = blocks[b][i] /\ ~Dropped(b, i)'
  PROVE  DirsStay
  BY DEF DirsStay, Kept, EntryIn

\* A trail goes through directories.
LEMMA TrailDirs ==
  ASSUME TypeInv, NEW p, NEW w, Trail(p, w), NEW k \in 0 .. Len(p)
  PROVE  /\ w[k] \in DirBlocks
         /\ k = 0 => w[k] = Root
         /\ k # 0 => IsDir(w[k])
<1>1. w[k] \in DirBlocks /\ w[0] = Root /\ Len(p) \in Nat
  BY DEF Trail
<1>2. ASSUME k # 0
      PROVE  IsDir(w[k])
  <2>1. k \in 1 .. Len(p) /\ k - 1 \in 0 .. Len(p)
    BY <1>1, <1>2
  <2>2. Leads(w[k - 1], p[k], w[k]) /\ w[k - 1] \in DirBlocks
    BY <2>1 DEF Trail
  <2> QED
    BY <2>2 DEF Leads, IsDir
<1> QED
  BY <1>1, <1>2

\* It stays one when no directory goes.
LEMMA TrailStays ==
  ASSUME TypeInv, DirsStay, NEW p, NEW w, Trail(p, w)
  PROVE  Trail(p, w)'
<1>1. Len(p) \in Nat
  BY DEF Trail
<1>2. ASSUME NEW k \in 1 .. Len(p)
      PROVE  Leads(w[k - 1], p[k], w[k])'
  <2>1. k - 1 \in 0 .. Len(p)
    BY <1>1
  <2>2. PICK b, n, h : b = w[k - 1] /\ n = p[k] /\ h = w[k]
    OBVIOUS
  <2>3. b \in DirBlocks /\ (b = Root \/ IsDir(b))
    BY <2>1, <2>2, TrailDirs
  <2>4. Leads(b, n, h)
    BY <2>2 DEF Trail
  <2>5. Leads(b, n, h)'
    BY <2>3, <2>4 DEF Leads, DirsStay
  <2> QED
    BY <2>2, <2>5
<1> QED
  BY <1>2 DEF Trail

\* It goes through no directory twice: each has one parent.
LEMMA TrailOnce ==
  ASSUME TreeInv, NEW p, NEW w, Trail(p, w)
  PROVE  \A j, k \in 0 .. Len(p) : j < k => w[j] # w[k]
<1> DEFINE S == {j \in 0 .. Len(p) : \E k \in 0 .. Len(p) : j < k /\ w[j] = w[k]}
<1> SUFFICES ASSUME S # {}
             PROVE  FALSE
  OBVIOUS
<1>0. Len(p) \in Nat /\ S \in SUBSET Nat
  BY DEF Trail
<1>1. PICK j \in S : \A i \in S : j <= i
  BY <1>0, FirstIsLeast
<1>2. PICK k \in 0 .. Len(p) : j < k /\ w[j] = w[k]
  BY <1>1
<1>3. j \in 0 .. Len(p) /\ k # 0 /\ k - 1 \in 0 .. Len(p) /\ k \in 1 .. Len(p)
  BY <1>0, <1>1, <1>2
<1>4. IsDir(w[k]) /\ w[k] # Root
  <2>1. IsDir(w[k])
    BY <1>3, TrailDirs DEF TreeInv
  <2>2. w[k] \in DataBlocks
    BY <2>1, DirIsAlloc DEF TreeInv, Tree, Shape
  <2> QED
    BY <2>1, <2>2, DataLayout
<1>5. j # 0
  BY <1>2, <1>4 DEF Trail
<1>6. j \in 1 .. Len(p) /\ j - 1 \in 0 .. Len(p) /\ j - 1 < k - 1
  BY <1>2, <1>3, <1>5
<1>7. PICK a, b : a = w[j - 1] /\ b = w[k - 1]
  OBVIOUS
<1>8. a \in DirBlocks /\ b \in DirBlocks
  BY <1>3, <1>6, <1>7, TrailDirs DEF TreeInv
<1>9. PICK x \in Slots, y \in Slots :
        /\ EntryIn(a, x) /\ blocks[a][x].head = w[j]
        /\ EntryIn(b, y) /\ blocks[b][y].head = w[k]
  BY <1>3, <1>6, <1>7 DEF Trail, Leads, Kept
<1>10. a = b
  BY <1>2, <1>8, <1>9 DEF TreeInv, Tree, Shape, OneHead
<1>11. j - 1 \in S
  BY <1>3, <1>6, <1>7, <1>10
<1> QED
  BY <1>1, <1>3, <1>11

\* So a path is no longer than the disk has data blocks.
LEMMA TrailBound ==
  ASSUME TreeInv, NEW p, NEW w, Trail(p, w)
  PROVE  Len(p) <= NumBlocks - 1 - Root
<1>1. Len(p) \in Nat
  BY DEF Trail
<1>2. \A k \in 1 .. Len(p) : w[k] \in DataBlocks
  <2> SUFFICES ASSUME NEW k \in 1 .. Len(p)
               PROVE  w[k] \in DataBlocks
    OBVIOUS
  <2>1. k \in 0 .. Len(p) /\ k # 0
    BY <1>1
  <2>2. IsDir(w[k])
    BY <2>1, TrailDirs DEF TreeInv
  <2> QED
    BY <2>2, DirIsAlloc DEF TreeInv, Tree, Shape
<1>3. \A j, k \in 1 .. Len(p) : w[j] = w[k] => j = k
  <2> SUFFICES ASSUME NEW j \in 1 .. Len(p), NEW k \in 1 .. Len(p), j # k
               PROVE  w[j] # w[k]
    OBVIOUS
  <2>1. j \in 0 .. Len(p) /\ k \in 0 .. Len(p) /\ (j < k \/ k < j)
    BY <1>1
  <2> QED
    BY <2>1, TrailOnce
<1>4. IsFiniteSet(DataBlocks) /\ Cardinality(DataBlocks) = NumBlocks - 1 - Root
  <2>1. Root + 1 \in Int /\ NumBlocks - 1 \in Int /\ Root + 1 <= NumBlocks
    BY Layout
  <2>2. PICK a \in Int, b \in Int : a = Root + 1 /\ b = NumBlocks - 1
    BY <2>1
  <2>3. IsFiniteSet(a .. b) /\ Cardinality(a .. b) = IF a > b THEN 0 ELSE b - a + 1
    BY FS_Interval
  <2>4. (IF a > b THEN 0 ELSE b - a + 1) = NumBlocks - 1 - Root
    BY <2>1, <2>2, Layout
  <2> QED
    BY <2>2, <2>3, <2>4 DEF DataBlocks
<1>5. PICK m \in Nat : m = Len(p)
  BY <1>1
<1>6. IsFiniteSet(1 .. m) /\ Cardinality(1 .. m) = m
  <2>1. 1 \in Int /\ m \in Int
    OBVIOUS
  <2>2. IsFiniteSet(1 .. m) /\ Cardinality(1 .. m) = IF 1 > m THEN 0 ELSE m - 1 + 1
    BY <2>1, FS_Interval
  <2>3. (IF 1 > m THEN 0 ELSE m - 1 + 1) = m
    OBVIOUS
  <2> QED
    BY <2>2, <2>3
<1>7. PICK f : f = [k \in 1 .. m |-> w[k]]
  OBVIOUS
<1>8. f \in [1 .. m -> DataBlocks] /\ \A j, k \in 1 .. m : f[j] = f[k] => j = k
  BY <1>2, <1>3, <1>5, <1>7
<1>9. ~(Cardinality(DataBlocks) < Cardinality(1 .. m))
  BY <1>4, <1>6, <1>8, FS_PigeonHole
<1>10. NumBlocks - 1 - Root \in Int
  BY Layout
<1> QED
  BY <1>4, <1>5, <1>6, <1>9, <1>10

\* A handler that removes no directory leaves every path a trail.
LEMMA PathStays ==
  ASSUME TypeInv, PathOK, DirsStay, cwd' = cwd, path' = path,
         Place \in {"F.save", "F.root"} => Place' \in {"F.save", "F.root"}
  PROVE  PathOK'
<1> SUFFICES ASSUME Place' \notin {"F.save", "F.root"}, NEW s \in Sessions
             PROVE  PathOf(s)'
  BY DEF PathOK
<1>1. PICK p, w : p = path[s] /\ Trail(p, w) /\ w[Len(p)] = cwd[s]
  BY DEF PathOK, PathOf
<1>2. Trail(p, w)'
  BY <1>1, TrailStays
<1> QED
  BY <1>1, <1>2 DEF PathOf

\* A directory is an allocated block, and one that the handler has not in hand.
LEMMA DirCounts ==
  ASSUME TreeInv, NEW b, b = Root \/ IsDir(b)
  PROVE  /\ b \in DirBlocks
         /\ b = Root \/ (Alloc(b) /\ fat[b] # FAT_FREE /\ b \in DataBlocks)
         /\ Place \in {"C.save", "C.zero", "C.entry", "W.data"} => b # curr[lock]
         /\ Place \in {"W.free", "D.free"} => b # curr[lock]
<1>1. b = Root \/ (Alloc(b) /\ fat[b] # FAT_FREE /\ b \in DataBlocks)
  BY DirIsAlloc DEF Alloc, TreeInv, Tree, Shape
<1>2. b \in DirBlocks
  BY <1>1, DataLayout
<1>3. ASSUME Place \in {"C.save", "C.zero", "C.entry"}
      PROVE  b # curr[lock]
  <2>1. curr[lock] \in DataBlocks
        /\ \A c \in DirBlocks, i \in Slots : EntryIn(c, i) => blocks[c][i].head # curr[lock]
    BY <1>3 DEF TreeInv, Tree, Hand, Creating, Alloc
  <2> QED
    BY <2>1, DataLayout DEF IsDir, Kept
<1>4. ASSUME Place = "W.data"
      PROVE  b # curr[lock]
  BY <1>4, DataLayout DEF TreeInv, Tree, Hand, Extending, Alloc
<1>5. ASSUME Place \in {"W.free", "D.free"}
      PROVE  b # curr[lock]
  <2>1. curr[lock] \in DataBlocks =>
          \A c \in DirBlocks, i \in Slots : Kept(c, i) => blocks[c][i].head # curr[lock]
    BY <1>5 DEF TreeInv, Tree, Hand, Freeing
  <2>2. curr[lock] \in FatVal
    BY <1>5 DEF TreeInv, Tree, Hand, Freeing
  <2>3. curr[lock] # Root
    BY <2>2, Layout, DataLayout DEF FatVal, FAT_FREE, FAT_EOF
  <2> QED
    BY <1>1, <2>1, <2>3, DataLayout DEF IsDir
<1> QED
  BY <1>1, <1>2, <1>3, <1>4, <1>5

\* A step that changes no directory and frees none.
LEMMA SameStay ==
  ASSUME TreeInv, \A b \in DirBlocks :
           b = Root \/ IsDir(b) =>
             /\ fat'[b] # FAT_FREE \/ fat'[b] = fat[b]
             /\ blocks'[b] = blocks[b]
             /\ Stale(b)' => Stale(b)
             /\ \A i \in Slots : Dropped(b, i)' => Dropped(b, i)
  PROVE  DirsStay
<1>1. ASSUME NEW b \in DirBlocks, b = Root \/ IsDir(b)
      PROVE  /\ Counts(b) => Counts(b)'
             /\ \A i \in Slots :
                  Kept(b, i) /\ blocks[b][i].type = "dir" =>
                    blocks'[b][i] = blocks[b][i] /\ ~Dropped(b, i)'
  BY <1>1 DEF Counts, Alloc, Kept
<1> QED
  BY <1>1, DirsStayIf

LEMMA AnswerStay ==
  ASSUME TreeInv, UNCHANGED <<memory, blocks, cwd, pc, locals>>
  PROVE  DirsStay
<1>1. Place' = Place
  BY DEF Place
<1> QED
  BY <1>1, SameStay DEF Stale, Dropped

\* cd and a new connection move the one session's directory only.
LEMMA CdStay ==
  ASSUME TreeInv, NEW s \in Sessions, pc[s] = "idle", NEW d,
         cwd' = [cwd EXCEPT ![s] = d], UNCHANGED <<memory, disk, pc, locals>>
  PROVE  DirsStay
<1>1. Place' = Place
  BY DEF Place
<1>2. ASSUME Place # "idle"
      PROVE  cwd'[lock] = cwd[lock]
  <2>1. lock # s
    BY <1>2 DEF Place
  <2> QED
    BY <2>1 DEF TreeInv, TypeInv, TypeOK
<1> QED
  BY <1>1, <1>2, SameStay DEF Stale, Dropped

\* Opening a file, save_fat, reading and the end of a read.
LEMMA OpenStay ==
  ASSUME TreeInv, NEW s \in Sessions, Place = "idle", lock' = s,
         pc' = [pc EXCEPT ![s] = "W.free"] \/ pc' = [pc EXCEPT ![s] = "R.data"],
         UNCHANGED <<fat, blocks>>
  PROVE  DirsStay
<1>1. Place' \in {"W.free", "R.data"}
  BY ConstantsAssumption DEF Place, TreeInv, TypeInv, TypeOK
<1> QED
  BY <1>1, SameStay DEF Stale, Dropped

LEMMA SaveStay ==
  ASSUME TreeInv, NEW s \in Sessions, NEW from, NEW to,
         <<from, to>> \in {<<"F.save", "F.root">>, <<"C.save", "C.zero">>,
                           <<"W.save", "W.entry">>, <<"D.save", "D.entry">>},
         SaveFat(s, from, to)
  PROVE  DirsStay /\ cwd' = cwd /\ path' = path
         /\ (Place \in {"F.save", "F.root"} => Place' \in {"F.save", "F.root"})
<1>1. pc[s] = from /\ from # "idle"
  BY DEF SaveFat
<1>2. lock = s /\ lock # NoOne /\ Place = from
  BY <1>1, HolderPlace DEF TreeInv
<1>3. /\ fat' = fat /\ blocks' = blocks /\ lock' = lock /\ cwd' = cwd /\ path' = path
      /\ slot' = slot /\ curr' = curr
      /\ pc' = pc \/ pc' = [pc EXCEPT ![s] = to]
  BY DEF SaveFat, Goto
<1>4. Place' \in {from, to}
  BY <1>2, <1>3 DEF Place, TreeInv, TypeInv, TypeOK
<1>5. \A b : Stale(b)' => Stale(b)
  BY <1>2, <1>3, <1>4 DEF Stale
<1>6. \A b, i : Dropped(b, i)' => Dropped(b, i)
  BY <1>2, <1>3, <1>4 DEF Dropped
<1>7. DirsStay
  BY <1>3, <1>5, <1>6, SameStay
<1> QED
  BY <1>2, <1>3, <1>4, <1>7

LEMMA CreateAllocStay ==
  ASSUME TreeInv, NEW s \in Sessions, NEW n \in Names, NEW t, CreateAlloc(s, n, t)
  PROVE  DirsStay
<1>0. PICK h : h = FindFree(fat)
  OBVIOUS
<1>1. /\ lock = NoOne /\ lock' = s /\ FreeBlocks(fat) # {}
      /\ fat' = [fat EXCEPT ![h] = FAT_EOF] /\ curr' = [curr EXCEPT ![s] = h]
      /\ pc' = [pc EXCEPT ![s] = "C.save"] /\ blocks' = blocks
  BY <1>0 DEF CreateAlloc, Lock, Goto
<1>2. h \in DataBlocks /\ fat[h] = FAT_FREE
  BY <1>0, <1>1, FindFreeIsFree
<1>3. Place' = "C.save" /\ curr'[s] = h
  BY <1>1, ConstantsAssumption DEF Place, TreeInv, TypeInv, TypeOK
<1>4. \A b \in DirBlocks : b # h => fat'[b] = fat[b]
  BY <1>1, <1>2, Layout, DataLayout DEF TreeInv, TypeInv, TypeOK
<1>5. ASSUME NEW b \in DirBlocks, b = Root \/ IsDir(b)
      PROVE  b # h
  BY <1>2, <1>5, DirCounts, DataLayout
<1>6. ASSUME NEW b \in DirBlocks, b = Root \/ IsDir(b)
      PROVE  fat'[b] = fat[b] /\ ~Stale(b)' /\ \A i \in Slots : ~Dropped(b, i)'
  BY <1>1, <1>3, <1>4, <1>5, <1>6 DEF Stale, Dropped
<1> QED
  BY <1>1, <1>6, SameStay

LEMMA CreateZeroStay ==
  ASSUME TreeInv, NEW s \in Sessions, CreateZero(s)
  PROVE  DirsStay /\ Place # "F.save" /\ Place # "F.root"
<1>1. pc[s] = "C.zero" /\ blocks' = [blocks EXCEPT ![curr[s]] = ZeroBlock]
      /\ UNCHANGED <<memory, cwd, locals>> /\ pc' = [pc EXCEPT ![s] = "C.entry"]
  BY DEF CreateZero, Goto
<1>2. lock = s /\ lock # NoOne /\ Place = "C.zero"
  BY <1>1, HolderPlace DEF TreeInv
<1>3. Place' = "C.entry"
  BY <1>1, <1>2 DEF Place, TreeInv, TypeInv, TypeOK
<1>4. ASSUME NEW b \in DirBlocks, b = Root \/ IsDir(b)
      PROVE  blocks'[b] = blocks[b] /\ ~Stale(b)' /\ \A i \in Slots : ~Dropped(b, i)'
  <2>1. b # curr[s]
    BY <1>2, <1>4, DirCounts
  <2>2. blocks'[b] = blocks[b]
    BY <1>1, <2>1 DEF TreeInv, TypeInv, TypeOK
  <2> QED
    BY <1>3, <2>2 DEF Stale, Dropped
<1> QED
  BY <1>1, <1>2, <1>4, SameStay

LEMMA FreeStay ==
  ASSUME TreeInv, NEW s \in Sessions, pc[s] \in {"W.free", "D.free"}, FreeStep(s)
  PROVE  DirsStay /\ Place # "F.save" /\ Place # "F.root"
<1>1. fat' = [fat EXCEPT ![curr[s]] = FAT_FREE] /\ UNCHANGED <<lock, blocks, cwd, pc, slot>>
  BY DEF FreeStep
<1>2. lock = s /\ lock # NoOne /\ Place \in {"W.free", "D.free"} /\ Place' = Place
  BY <1>1, HolderPlace DEF TreeInv, Place
<1>3. ASSUME NEW b \in DirBlocks, b = Root \/ IsDir(b)
      PROVE  fat'[b] = fat[b]
  <2>1. b # curr[s]
    BY <1>2, <1>3, DirCounts
  <2> QED
    BY <1>1, <2>1, Layout DEF TreeInv, TypeInv, TypeOK
<1>4. \A b : Stale(b)' => Stale(b)
  BY <1>2 DEF Stale
<1>5. \A b, i : Dropped(b, i)' => Dropped(b, i)
  BY <1>1, <1>2 DEF Dropped
<1> QED
  BY <1>1, <1>2, <1>3, <1>4, <1>5, SameStay

LEMMA WriteHeadStay ==
  ASSUME TreeInv, NEW s \in Sessions, WriteHead(s)
  PROVE  DirsStay /\ Place # "F.save" /\ Place # "F.root"
<1>0. PICK h : h = buf[s][slot[s]].head
  OBVIOUS
<1>1. /\ pc[s] = "W.free" /\ fat' = [fat EXCEPT ![h] = FAT_EOF]
      /\ curr' = [curr EXCEPT ![s] = h] /\ UNCHANGED <<lock, blocks, cwd>>
      /\ pc' = [pc EXCEPT ![s] = "W.data"] \/ pc' = [pc EXCEPT ![s] = "W.save"]
  BY <1>0 DEF WriteHead, Goto
<1>2. lock = s /\ lock # NoOne /\ Place = "W.free"
  BY <1>1, HolderPlace DEF TreeInv
<1>3. Place' \in {"W.data", "W.save"} /\ curr'[s] = h
  BY <1>1, <1>2 DEF Place, TreeInv, TypeInv, TypeOK
<1>4. h \in DataBlocks /\ ~IsDir(h)
  <2>1. /\ cwd[s] \in DirBlocks /\ slot[s] \in Slots /\ h \in DataBlocks
        /\ EntryIn(cwd[s], slot[s]) /\ blocks[cwd[s]][slot[s]].head = h
        /\ blocks[cwd[s]][slot[s]] = buf[s][slot[s]]
    BY <1>0, <1>2, OpenIsEntry DEF TreeInv, AtWork, OpenHead
  <2>2. buf[s][slot[s]].type = "file"
    BY <1>2 DEF TreeInv, Tree, Hand, Opened
  <2>3. OneHead
    BY DEF TreeInv, Tree, Shape
  <2> QED
    BY <2>1, <2>2, <2>3 DEF OneHead, IsDir, Kept
<1>5. ASSUME NEW b \in DirBlocks, b = Root \/ IsDir(b)
      PROVE  fat'[b] = fat[b] /\ ~Stale(b)' /\ \A i \in Slots : ~Dropped(b, i)'
  <2>1. b # h
    BY <1>4, <1>5, DataLayout
  <2>2. fat'[b] = fat[b]
    BY <1>1, <2>1, Layout DEF TreeInv, TypeInv, TypeOK
  <2>3. lock' = s
    BY <1>1, <1>2
  <2> QED
    BY <1>3, <2>1, <2>2, <2>3 DEF Stale, Dropped
<1> QED
  BY <1>1, <1>2, <1>5, SameStay

LEMMA WriteChunkStay ==
  ASSUME TreeInv, NEW s \in Sessions, WriteChunk(s)
  PROVE  DirsStay /\ Place # "F.save" /\ Place # "F.root"
<1>0. PICK c, h : c = curr[s] /\ h = FindFree(fat)
  OBVIOUS
<1>1. /\ pc[s] = "W.data" /\ UNCHANGED <<lock, cwd>>
      /\ \E u : blocks' = [blocks EXCEPT ![c] = u]
      /\ \/ /\ FreeBlocks(fat) # {} /\ fat' = [fat EXCEPT ![c] = h, ![h] = FAT_EOF]
            /\ curr' = [curr EXCEPT ![s] = h] /\ pc' = pc
         \/ fat' = fat /\ curr' = curr /\ pc' = [pc EXCEPT ![s] = "W.save"]
  BY <1>0 DEF WriteChunk, Goto
<1>2. lock = s /\ lock # NoOne /\ Place = "W.data"
  BY <1>1, HolderPlace DEF TreeInv
<1>3. Place' \in {"W.data", "W.save"} /\ lock' = s
  BY <1>1, <1>2 DEF Place, TreeInv, TypeInv, TypeOK
<1>4. ASSUME NEW b \in DirBlocks, b = Root \/ IsDir(b)
      PROVE  fat'[b] = fat[b] /\ blocks'[b] = blocks[b] /\ ~Stale(b)'
             /\ \A i \in Slots : ~Dropped(b, i)'
  <2>1. b # c
    BY <1>0, <1>2, <1>4, DirCounts
  <2>2. blocks'[b] = blocks[b]
    BY <1>1, <2>1 DEF TreeInv, TypeInv, TypeOK
  <2>3. b = Root \/ fat[b] # FAT_FREE
    BY <1>4, DirCounts
  <2>4. CASE FreeBlocks(fat) # {} /\ fat' = [fat EXCEPT ![c] = h, ![h] = FAT_EOF]
             /\ curr' = [curr EXCEPT ![s] = h] /\ pc' = pc
    <3>1. h \in DataBlocks /\ fat[h] = FAT_FREE
      BY <1>0, <2>4, FindFreeIsFree
    <3>2. b # h
      BY <2>3, <3>1, DataLayout
    <3>3. fat'[b] = fat[b] /\ curr'[s] = h
      BY <2>1, <2>4, <3>2, Layout DEF TreeInv, TypeInv, TypeOK
    <3> QED
      BY <1>3, <2>2, <3>2, <3>3 DEF Stale, Dropped
  <2>5. CASE fat' = fat /\ curr' = curr /\ pc' = [pc EXCEPT ![s] = "W.save"]
    BY <1>0, <1>3, <2>1, <2>2, <2>5 DEF Stale, Dropped
  <2> QED
    BY <1>1, <2>4, <2>5
<1> QED
  BY <1>2, <1>4, SameStay

LEMMA ReadStay ==
  ASSUME TreeInv, NEW s \in Sessions, ReadChunk(s) \/ ReadEnd(s) \/ DeleteFreed(s)
  PROVE  DirsStay /\ Place # "F.save" /\ Place # "F.root"
<1>1. /\ pc[s] \in {"R.data", "D.free"} /\ fat' = fat /\ blocks' = blocks /\ cwd' = cwd
      /\ lock' \in {lock, NoOne}
      /\ \/ pc' = pc /\ slot' = slot /\ lock' = lock
         \/ pc' = [pc EXCEPT ![s] = "idle"]
         \/ pc' = [pc EXCEPT ![s] = "D.save"] /\ slot' = slot /\ pc[s] = "D.free"
  BY DEF ReadChunk, ReadEnd, DeleteFreed, Finish, Goto, ClearLocals
<1>2. lock = s /\ lock # NoOne /\ Place = pc[s]
  BY <1>1, HolderPlace DEF TreeInv
<1>3. Place' \in {"idle", "R.data", "D.free", "D.save"}
  BY <1>1, <1>2 DEF Place, TreeInv, TypeInv, TypeOK
<1>4. \A b : ~Stale(b)'
  BY <1>3 DEF Stale
<1>5. ASSUME NEW b, NEW i, Dropped(b, i)'
      PROVE  Dropped(b, i)
  <2>1. CASE pc' = [pc EXCEPT ![s] = "idle"]
    BY <1>1, <1>2, <1>5, <2>1 DEF Dropped, Place, TreeInv, TypeInv, TypeOK
  <2>2. CASE pc' = pc /\ slot' = slot /\ lock' = lock
    BY <1>1, <1>5, <2>2 DEF Dropped, Place
  <2>3. CASE pc' = [pc EXCEPT ![s] = "D.save"] /\ slot' = slot /\ pc[s] = "D.free"
    <3>1. lock' = s
      BY <1>2, <1>1, <1>5 DEF Dropped, Place
    <3> QED
      BY <1>1, <1>2, <1>5, <2>3, <3>1 DEF Dropped
  <2> QED
    BY <1>1, <2>1, <2>2, <2>3
<1> QED
  BY <1>1, <1>2, <1>4, <1>5, SameStay

\* A handler writes its directory back: what was in it and is no file that is
\* being written or removed stays.
LEMMA EntryStay ==
  ASSUME TreeInv, NEW s \in Sessions, CreateEntry(s) \/ WriteEntry(s) \/ DeleteEntry(s)
  PROVE  DirsStay /\ Place # "F.save" /\ Place # "F.root"
<1>0. PICK w, d : /\ w = cwd[s]
                  /\ d = IF CreateEntry(s) THEN buf[s]
                         ELSE IF WriteEntry(s) THEN [buf[s] EXCEPT ![slot[s]].size = done[s]]
                         ELSE [buf[s] EXCEPT ![slot[s]] = Zero]
  OBVIOUS
<1>1. /\ pc[s] \in {"C.entry", "W.entry", "D.entry"} /\ fat' = fat
      /\ CreateEntry(s) <=> pc[s] = "C.entry"
      /\ WriteEntry(s) <=> pc[s] = "W.entry"
      /\ blocks' = [blocks EXCEPT ![w] = d]
      /\ pc' = [pc EXCEPT ![s] = "idle"] /\ lock' = NoOne
  BY <1>0 DEF CreateEntry, WriteEntry, DeleteEntry, Finish, Goto
<1>2. lock = s /\ lock # NoOne /\ Place = pc[s]
  BY <1>1, HolderPlace DEF TreeInv
<1>3. Place' = "idle"
  BY <1>1 DEF Place
<1>4. /\ blocks[w] \in Block /\ w \in DirBlocks
      /\ \A b \in DirBlocks : b # w => blocks'[b] = blocks[b]
      /\ blocks'[w] = d
  BY <1>0, <1>1 DEF TreeInv, TypeInv, TypeOK
<1>5. ASSUME NEW i \in Slots, Kept(w, i), blocks[w][i].type = "dir"
      PROVE  d[i] = blocks[w][i]
  <2>0. blocks[w][i] # Zero
    BY <1>5 DEF Kept, EntryIn, Pieces
  <2>1. CASE pc[s] = "C.entry"
    <3>1. Adds(blocks[w], buf[s], curr[s])
      BY <1>0, <1>2, <2>1 DEF TreeInv, Tree, Hand, Creating
    <3>2. PICK j \in Slots : /\ blocks[w][j] = Zero
                            /\ \E e : buf[s] = [blocks[w] EXCEPT ![j] = e]
      BY <3>1 DEF Adds
    <3>3. d = buf[s] /\ i # j
      BY <1>0, <1>1, <2>0, <2>1, <3>2
    <3> QED
      BY <1>4, <3>2, <3>3 DEF Block, Slots
  <2>2. CASE pc[s] \in {"W.entry", "D.entry"}
    <3>1. buf[s] = blocks[w]
      BY <1>0, <1>2, <2>2 DEF TreeInv, Tree, Hand, Opened, AtWork
    <3>2. i # slot[s]
      <4>1. CASE pc[s] = "W.entry"
        <5>1. buf[s][slot[s]].type = "file"
          BY <1>2, <4>1 DEF TreeInv, Tree, Hand, Opened
        <5> QED
          BY <1>5, <3>1, <5>1
      <4>2. CASE pc[s] = "D.entry"
        BY <1>0, <1>2, <1>5, <4>2 DEF Kept, Dropped
      <4> QED
        BY <2>2, <4>1, <4>2
    <3>3. d[i] = buf[s][i]
      <4>1. buf[s] \in Block
        BY <1>4, <3>1
      <4> QED
        BY <1>0, <1>1, <2>2, <3>2, <4>1 DEF Block, Slots
    <3> QED
      BY <3>1, <3>3
  <2> QED
    BY <1>1, <2>1, <2>2
<1>6. ASSUME NEW b \in DirBlocks, b = Root \/ IsDir(b)
      PROVE  /\ Counts(b) => Counts(b)'
             /\ \A i \in Slots :
                  Kept(b, i) /\ blocks[b][i].type = "dir" =>
                    blocks'[b][i] = blocks[b][i] /\ ~Dropped(b, i)'
  <2>1. ~Stale(b)' /\ \A i : ~Dropped(b, i)'
    BY <1>3 DEF Stale, Dropped
  <2>2. Counts(b) => Counts(b)'
    BY <1>1, <2>1 DEF Counts, Alloc
  <2> QED
    BY <1>4, <1>5, <2>1, <2>2
<1> QED
  BY <1>1, <1>2, <1>6, DirsStayIf

\* cmd_delete starts: it removes a file, or a directory that no path goes
\* through but the one session's, which ends above it.
LEMMA DeletePath ==
  ASSUME TreeInv, PathOK, NEW s \in Sessions, NEW n \in Names, NEW t \in {"file", "dir"},
         DeleteFile(s, n, t), t = "dir" => "rmdir" \in Commands
  PROVE  PathOK'
<1>0. PICK d, i : d = blocks[cwd[s]] /\ i = First(SlotsNamed(d, n))
  OBVIOUS
<1>1. /\ lock = NoOne /\ lock' = s /\ fat' = fat /\ blocks' = blocks /\ cwd' = cwd
      /\ path' = path /\ d[i].type = t /\ SlotsNamed(d, n) # {}
      /\ slot' = [slot EXCEPT ![s] = i] /\ pc' = [pc EXCEPT ![s] = "D.free"]
  BY <1>0 DEF DeleteFile, Lock, Goto
<1>2. Place = "idle" /\ Place' = "D.free" /\ slot'[s] = i
  BY <1>1, ConstantsAssumption DEF Place, TreeInv, TypeInv, TypeOK
<1>3. \A b : ~Stale(b)'
  BY <1>2 DEF Stale
<1>4. \A b, j : Dropped(b, j)' <=> b = cwd[s] /\ j = i
  BY <1>1, <1>2 DEF Dropped
<1>5. \A b : Counts(b) => Counts(b)'
  BY <1>1, <1>3 DEF Counts, Alloc
<1>6. CASE t = "file"
  <2>1. DirsStay
    BY <1>0, <1>1, <1>4, <1>5, <1>6, DirsStayIf
  <2> QED
    BY <1>1, <1>2, <2>1, PathStays DEF TreeInv
<1>7. CASE t = "dir"
  <2>1. \A q \in Sessions : q = s
    BY <1>7 DEF TreeInv, NothingStale
  <2>2. PICK p, w : p = path[s] /\ Trail(p, w) /\ w[Len(p)] = cwd[s]
    BY <1>2 DEF PathOK, PathOf
  <2>3. Len(p) \in Nat
    BY <2>2 DEF Trail
  <2>4. ASSUME NEW k \in 1 .. Len(p)
        PROVE  Leads(w[k - 1], p[k], w[k])'
    <3>1. k - 1 \in 0 .. Len(p) /\ Len(p) \in 0 .. Len(p) /\ k - 1 < Len(p)
      BY <2>3
    <3>2. PICK b, m, h : b = w[k - 1] /\ m = p[k] /\ h = w[k]
      OBVIOUS
    <3>3. b # cwd[s]
      BY <2>2, <3>1, <3>2, TrailOnce
    <3>4. b \in DirBlocks
      BY <2>2, <3>1, <3>2, TrailDirs DEF TreeInv
    <3>5. Leads(b, m, h)
      BY <2>2, <3>2 DEF Trail
    <3>6. \A j \in Slots : Kept(b, j) => Kept(b, j)'
      BY <1>1, <1>4, <1>5, <3>3 DEF Kept, EntryIn
    <3>7. Leads(b, m, h)'
      BY <1>1, <3>5, <3>6 DEF Leads
    <3> QED
      BY <3>2, <3>7
  <2>5. Trail(p, w)'
    BY <2>2, <2>4 DEF Trail
  <2> QED
    BY <1>1, <2>1, <2>2, <2>5 DEF PathOK, PathOf
<1> QED
  BY <1>6, <1>7

\* The root directory is where the empty path leads.
LEMMA RootPath == Trail(<<>>, [k \in 0 .. 0 |-> Root])
<1>1. Len(<<>>) = 0 /\ <<>> \in Seq(Names)
  OBVIOUS
<1>2. 1 .. 0 = {} /\ 0 \in 0 .. 0 /\ Root \in DirBlocks
  BY DataLayout
<1> QED
  BY <1>1, <1>2 DEF Trail

\* A format: the one session goes to the root directory.
LEMMA FormatPath ==
  ASSUME TreeInv, NEW s \in Sessions, Format(s) \/ FormatRoot(s)
  PROVE  PathOK'
<1>1. CASE Format(s)
  <2>1. lock' = s /\ pc' = [pc EXCEPT ![s] = "F.save"]
    BY <1>1 DEF Format, Lock, Goto
  <2>2. Place' = "F.save"
    BY <2>1, ConstantsAssumption DEF Place, TreeInv, TypeInv, TypeOK
  <2> QED
    BY <2>2 DEF PathOK
<1>2. CASE FormatRoot(s)
  <2>1. /\ pc[s] = "F.root" /\ cwd' = [cwd EXCEPT ![s] = Root]
        /\ path' = [path EXCEPT ![s] = <<>>]
    BY <1>2 DEF FormatRoot
  <2>2. Place = "F.root"
    BY <2>1, HolderPlace DEF TreeInv
  <2>3. \A q \in Sessions : q = s
    BY <2>2 DEF TreeInv, Tree, Hand, Formatting
  <2>4. path'[s] = <<>> /\ cwd'[s] = Root
    BY <2>1 DEF TreeInv, TypeInv, TypeOK
  <2>5. PICK w : w = [k \in 0 .. 0 |-> Root]
    OBVIOUS
  <2>6. Trail(<<>>, w)' /\ w[Len(<<>>)] = Root
    BY <2>5, RootPath, <1>2 DEF Trail
  <2> QED
    BY <2>3, <2>4, <2>6 DEF PathOK, PathOf
<1> QED
  BY <1>1, <1>2

\* No path fills Session.pwd.
PathsFit == \A s \in Sessions : Len(path[s]) < MaxPath
Fits == Place \notin {"F.save", "F.root"} => PathsFit

\* A session goes to the directory w leads to, and prints the path p of it.
LEMMA GoTo ==
  ASSUME TreeInv, PathOK, NEW s \in Sessions, pc[s] = "idle", NEW p, NEW d, NEW w,
         UNCHANGED <<memory, disk, pc, locals>>,
         cwd' = [cwd EXCEPT ![s] = d], path' = [path EXCEPT ![s] = p],
         Place \notin {"F.save", "F.root"} => Trail(p, w) /\ w[Len(p)] = d
  PROVE  PathOK'
<1>1. Place' = Place
  BY DEF Place
<1>2. DirsStay
  BY CdStay
<1> SUFFICES ASSUME Place \notin {"F.save", "F.root"}, NEW q \in Sessions
             PROVE  PathOf(q)'
  BY <1>1 DEF PathOK
<1>3. CASE q = s
  <2>1. path'[s] = p /\ cwd'[s] = d
    BY DEF TreeInv, TypeInv, TypeOK
  <2>2. Trail(p, w)'
    BY <1>2, TrailStays DEF TreeInv
  <2> QED
    BY <1>3, <2>1, <2>2 DEF PathOf
<1>4. CASE q # s
  <2>1. path'[q] = path[q] /\ cwd'[q] = cwd[q]
    BY <1>4 DEF TreeInv, TypeInv, TypeOK
  <2>2. PICK r, v : r = path[q] /\ Trail(r, v) /\ v[Len(r)] = cwd[q]
    BY DEF PathOK, PathOf
  <2>3. Trail(r, v)'
    BY <1>2, <2>2, TrailStays DEF TreeInv
  <2> QED
    BY <2>1, <2>2, <2>3 DEF PathOf
<1> QED
  BY <1>3, <1>4

LEMMA RootWalk ==
  ASSUME TreeInv, PathOK, NEW s \in Sessions, CdRoot(s) \/ Reconnect(s)
  PROVE  PathOK'
<1>1. PICK w : w = [k \in 0 .. 0 |-> Root]
  OBVIOUS
<1>2. Trail(<<>>, w) /\ w[Len(<<>>)] = Root
  BY <1>1, RootPath
<1> QED
  BY <1>2, GoTo DEF CdRoot, Reconnect, Request

\* cd into a subdirectory: the trail grows by it.
LEMMA CdWalk ==
  ASSUME TreeInv, PathOK, Fits, NEW s \in Sessions, NEW n \in Names, Cd(s, n)
  PROVE  PathOK'
<1>0. PICK c, d, i, h : /\ c = cwd[s] /\ d = blocks[c] /\ i = First(DirsNamed(d, n))
                        /\ h = d[i].head
  OBVIOUS
<1>1. lock = NoOne /\ pc[s] = "idle" /\ Place = "idle" /\ DirsNamed(d, n) # {}
      /\ cwd' = [cwd EXCEPT ![s] = h] /\ UNCHANGED <<memory, disk, pc, locals>>
  BY <1>0 DEF Cd, LockedRequest, Request, Place
<1>2. DirsNamed(d, n) \in SUBSET (1 .. BlockSize)
  BY DEF DirsNamed, SlotsNamed
<1>3. i \in DirsNamed(d, n) /\ i \in Slots
  BY <1>0, <1>1, <1>2, FirstSlot DEF Slots
<1>4. d[i] \notin Pieces /\ d[i].type = "dir" /\ d[i].name = n
  BY <1>3 DEF DirsNamed, SlotsNamed, Named
<1>5. Counts(c) /\ c \in DirBlocks
  BY <1>0, <1>1, CwdCounts DEF TreeInv
<1>6. Kept(c, i)
  BY <1>0, <1>1, <1>4, <1>5 DEF Kept, EntryIn, Dropped
<1>7. Leads(c, n, h) /\ IsDir(h)
  BY <1>0, <1>3, <1>4, <1>5, <1>6 DEF Leads, IsDir
<1>8. PICK p, w : p = path[s] /\ Trail(p, w) /\ w[Len(p)] = c
  BY <1>0, <1>1 DEF PathOK, PathOf
<1>9. PICK m \in Nat : m = Len(p) /\ p \in Seq(Names)
  BY <1>8 DEF Trail
<1>10. PICK r, v : r = Append(p, n) /\ v = [k \in 0 .. m + 1 |-> IF k = m + 1 THEN h ELSE w[k]]
  OBVIOUS
<1>11. r \in Seq(Names) /\ Len(r) = m + 1 /\ r[m + 1] = n /\ \A k \in 1 .. m : r[k] = p[k]
  BY <1>9, <1>10
<1>12. h \in DirBlocks
  BY <1>7, DirCounts
<1>13. w \in [0 .. m -> DirBlocks] /\ w[0] = Root /\ \A k \in 1 .. m : Leads(w[k - 1], p[k], w[k])
  BY <1>8, <1>9 DEF Trail
<1>14. v[m + 1] = h /\ \A k \in 0 .. m : v[k] = w[k] /\ k \in 0 .. m + 1 /\ k # m + 1
  BY <1>9, <1>10
<1>15. v \in [0 .. m + 1 -> DirBlocks]
  BY <1>9, <1>10, <1>12, <1>13
<1>16. ASSUME NEW k \in 1 .. m + 1
       PROVE  Leads(v[k - 1], r[k], v[k])
  <2>1. CASE k = m + 1
    <3>1. k - 1 = m /\ m \in 0 .. m
      BY <2>1, <1>9
    <3>2. v[k - 1] = c /\ r[k] = n /\ v[k] = h
      BY <1>8, <1>9, <1>11, <1>14, <2>1, <3>1
    <3> QED
      BY <1>7, <3>2
  <2>2. CASE k # m + 1
    <3>1. k \in 1 .. m /\ k - 1 \in 0 .. m /\ k \in 0 .. m
      BY <2>2, <1>9
    <3>2. v[k - 1] = w[k - 1] /\ r[k] = p[k] /\ v[k] = w[k]
      BY <1>11, <1>14, <3>1
    <3> QED
      BY <1>13, <3>1, <3>2
  <2> QED
    BY <2>1, <2>2
<1>17. Trail(r, v) /\ v[Len(r)] = h
  <2>1. v[0] = Root
    BY <1>9, <1>13, <1>14
  <2> QED
    BY <1>11, <1>14, <1>15, <1>16, <2>1 DEF Trail
<1>18. path' = [path EXCEPT ![s] = r]
  <2>1. Len(path[s]) < MaxPath
    BY <1>1 DEF Fits, PathsFit
  <2> QED
    BY <1>8, <1>10, <2>1 DEF Cd
<1> QED
  BY <1>1, <1>17, <1>18, GoTo

-----------------------------------------------------------------------------
LEMMA ClientPath ==
  ASSUME TreeInv, PathOK, Fits, NEW s \in Sessions, ClientStep(s)
  PROVE  PathOK'
<1>1. CASE Format(s)
  BY <1>1, FormatPath
<1>2. CASE CdRoot(s) \/ Reconnect(s)
  BY <1>2, RootWalk
<1>3. ASSUME NEW r, Answer(s, r)
      PROVE  PathOK'
  <2>1. DirsStay /\ Place' = Place /\ cwd' = cwd /\ path' = path
    BY <1>3, AnswerStay DEF Answer, Place
  <2> QED
    BY <2>1, PathStays DEF TreeInv
<1>4. ASSUME NEW n \in Names,
             \/ CreateRefused(s, n) \/ ReadRefused(s, n) \/ WriteRefused(s, n)
             \/ CdRefused(s, n) \/ DeleteRefused(s, n, "file")
             \/ DeleteRefused(s, n, "dir") \/ List(s)
      PROVE  PathOK'
  <2>1. \E r : Answer(s, r)
    BY <1>4 DEF CreateRefused, ReadRefused, WriteRefused, CdRefused, DeleteRefused, List
  <2> QED
    BY <2>1, <1>3
<1>5. ASSUME NEW n \in Names, NEW t \in {"file", "dir"}, CreateAlloc(s, n, t)
      PROVE  PathOK'
  <2>1. DirsStay
    BY <1>5, CreateAllocStay
  <2>2. lock = NoOne /\ cwd' = cwd /\ path' = path
    BY <1>5 DEF CreateAlloc, Lock
  <2>3. Place = "idle"
    BY <2>2 DEF Place
  <2> QED
    BY <2>1, <2>2, <2>3, PathStays DEF TreeInv
<1>6. ASSUME NEW n \in Names, Create(s, n)
      PROVE  PathOK'
  BY <1>4, <1>5, <1>6 DEF Create
<1>7. ASSUME NEW n \in Names, Delete(s, n)
      PROVE  PathOK'
  BY <1>4, <1>7, DeletePath DEF Delete
<1>8. ASSUME NEW n \in Names, ReadFile(s, n) \/ \E l \in Lens, t \in Texts : WriteFile(s, n, l, t)
      PROVE  PathOK'
  <2>1. /\ lock = NoOne /\ lock' = s /\ fat' = fat /\ blocks' = blocks /\ cwd' = cwd
        /\ path' = path
        /\ pc' = [pc EXCEPT ![s] = "W.free"] \/ pc' = [pc EXCEPT ![s] = "R.data"]
    BY <1>8 DEF ReadFile, WriteFile, Lock, Goto
  <2>2. Place = "idle"
    BY <2>1 DEF Place
  <2> QED
    BY <2>1, <2>2, OpenStay, PathStays DEF TreeInv
<1>9. CASE List(s)
  BY <1>3, <1>9 DEF List
<1>10. ASSUME NEW n \in Names, Cd(s, n)
       PROVE  PathOK'
  BY <1>10, CdWalk
<1> QED
  BY <1>1, <1>2, <1>4, <1>6, <1>7, <1>8, <1>9, <1>10 DEF ClientStep

LEMMA HandlerPath ==
  ASSUME TreeInv, PathOK, NEW s \in Sessions, HandlerStep(s)
  PROVE  PathOK'
<1>1. CASE \/ SaveFat(s, "F.save", "F.root") \/ SaveFat(s, "C.save", "C.zero")
           \/ SaveFat(s, "W.save", "W.entry") \/ SaveFat(s, "D.save", "D.entry")
  <2>1. /\ DirsStay /\ cwd' = cwd /\ path' = path
        /\ (Place \in {"F.save", "F.root"} => Place' \in {"F.save", "F.root"})
    BY <1>1, SaveStay
  <2> QED
    BY <2>1, PathStays DEF TreeInv
<1>2. CASE FormatRoot(s)
  BY <1>2, FormatPath
<1>3. CASE \/ CreateZero(s) \/ CreateEntry(s) \/ WriteEntry(s) \/ DeleteEntry(s)
           \/ WriteFree(s) \/ DeleteFree(s) \/ WriteHead(s) \/ WriteChunk(s)
           \/ ReadChunk(s) \/ ReadEnd(s) \/ DeleteFreed(s)
  <2>1. DirsStay /\ Place # "F.save" /\ Place # "F.root"
    BY <1>3, CreateZeroStay, EntryStay, FreeStay, WriteHeadStay, WriteChunkStay, ReadStay
       DEF WriteFree, DeleteFree
  <2>2. cwd' = cwd /\ path' = path
    BY <1>3 DEF CreateZero, CreateEntry, WriteEntry, DeleteEntry, WriteFree, DeleteFree,
       FreeStep, WriteHead, WriteChunk, ReadChunk, ReadEnd, DeleteFreed
  <2> QED
    BY <2>1, <2>2, PathStays DEF TreeInv
<1> QED
  BY <1>1, <1>2, <1>3 DEF HandlerStep

LEMMA NextPath == TreeInv /\ PathOK /\ Fits /\ [Next]_vars => PathOK'
<1> SUFFICES ASSUME TreeInv, PathOK, Fits, [Next]_vars
             PROVE  PathOK'
  OBVIOUS
<1>1. ~Restart
  BY ConstantsAssumption DEF TreeInv, NothingStale, TypeInv, TypeOK, Restart
<1>2. CASE UNCHANGED vars
  <2>1. DirsStay /\ Place' = Place /\ cwd' = cwd /\ path' = path
    BY <1>2, AnswerStay DEF Place, vars
  <2> QED
    BY <2>1, PathStays DEF TreeInv
<1> QED
  BY <1>1, <1>2, ClientPath, HandlerPath DEF Next

LEMMA InitPath == Init => PathOK
<1> SUFFICES ASSUME Init, NEW s \in Sessions
             PROVE  PathOf(s)
  BY DEF PathOK
<1>1. PICK w : w = [k \in 0 .. 0 |-> Root]
  OBVIOUS
<1>2. Trail(<<>>, w) /\ w[Len(<<>>)] = Root
  BY <1>1, RootPath
<1> QED
  BY <1>2 DEF Init, Each, PathOf

-----------------------------------------------------------------------------
\* What Resolve computes along a trail.
IsRoute(f, p) ==
  f = [i \in 0 .. Len(p) |->
         IF i = 0 THEN Root
         ELSE LET found == DirsNamed(blocks[f[i - 1]], p[i])
              IN  IF found = {} THEN Root
                  ELSE blocks[f[i - 1]][First(found)].head]

LEMMA ResolveIsRoute ==
  ASSUME NEW p, NEW f, IsRoute(f, p)
  PROVE  \E g : IsRoute(g, p) /\ Resolve(p) = g[Len(p)]
<1> DEFINE g == CHOOSE h : IsRoute(h, p)
<1>1. IsRoute(g, p)
  OBVIOUS
<1>2. Resolve(p) = g[Len(p)]
  BY DEF Resolve, IsRoute
<1> QED
  BY <1>1, <1>2

\* When fs_lock is free the search finds the one subdirectory of the name.
LEMMA LeadsTo ==
  ASSUME TreeInv, Quiet, NEW b \in DirBlocks, NEW n, NEW h, Leads(b, n, h)
  PROVE  /\ DirsNamed(blocks[b], n) # {}
         /\ blocks[b][First(DirsNamed(blocks[b], n))].head = h
<1>1. PICK i \in Slots :
        /\ Kept(b, i) /\ blocks[b][i].type = "dir" /\ blocks[b][i].name = n
        /\ blocks[b][i].head = h
  BY DEF Leads
<1>2. i \in DirsNamed(blocks[b], n)
  BY <1>1 DEF DirsNamed, SlotsNamed, Named, Slots, Kept, EntryIn
<1>3. DirsNamed(blocks[b], n) \in SUBSET (1 .. BlockSize)
  BY DEF DirsNamed, SlotsNamed
<1>4. PICK j : j = First(DirsNamed(blocks[b], n)) /\ j \in DirsNamed(blocks[b], n) /\ j \in Slots
  BY <1>2, <1>3, FirstSlot DEF Slots
<1>5. blocks[b][j] \notin Pieces /\ blocks[b][j].name = n
  BY <1>4 DEF DirsNamed, SlotsNamed, Named
<1>6. EntryIn(b, i) /\ EntryIn(b, j)
  BY <1>1, <1>5 DEF Kept, EntryIn
<1>7. i = j
  BY <1>1, <1>4, <1>5, <1>6 DEF TreeInv, Tree, Shape, OneName
<1> QED
  BY <1>1, <1>2, <1>4, <1>7

LEMMA TrailIsRoute ==
  ASSUME TreeInv, Quiet, NEW p, NEW w, Trail(p, w)
  PROVE  IsRoute(w, p)
<1>1. Len(p) \in Nat /\ w \in [0 .. Len(p) -> DirBlocks] /\ w[0] = Root
  BY DEF Trail
<1>2. ASSUME NEW i \in 0 .. Len(p), i # 0
      PROVE  /\ DirsNamed(blocks[w[i - 1]], p[i]) # {}
             /\ w[i] = blocks[w[i - 1]][First(DirsNamed(blocks[w[i - 1]], p[i]))].head
  <2>1. i \in 1 .. Len(p) /\ i - 1 \in 0 .. Len(p)
    BY <1>1, <1>2
  <2>2. PICK b, n, h : b = w[i - 1] /\ n = p[i] /\ h = w[i]
    OBVIOUS
  <2>3. b \in DirBlocks /\ Leads(b, n, h)
    BY <1>1, <2>1, <2>2 DEF Trail
  <2>4. DirsNamed(blocks[b], n) # {} /\ blocks[b][First(DirsNamed(blocks[b], n))].head = h
    BY <2>3, LeadsTo
  <2> QED
    BY <2>2, <2>4
<1>3. w = [i \in 0 .. Len(p) |-> w[i]]
  BY <1>1
<1> QED
  BY <1>1, <1>2, <1>3 DEF IsRoute

\* The search has one outcome.
LEMMA RouteUnique ==
  ASSUME NEW p \in Seq(Names), NEW f, NEW g, IsRoute(f, p), IsRoute(g, p)
  PROVE  f[Len(p)] = g[Len(p)]
<1> DEFINE S == {i \in 0 .. Len(p) : f[i] # g[i]}
<1>0. Len(p) \in Nat /\ S \in SUBSET Nat
  OBVIOUS
<1> DEFINE Next1(x, n) == LET found == DirsNamed(blocks[x], n)
                         IN  IF found = {} THEN Root ELSE blocks[x][First(found)].head
<1>1. \A i \in 0 .. Len(p) : /\ f[i] = IF i = 0 THEN Root ELSE Next1(f[i - 1], p[i])
                             /\ g[i] = IF i = 0 THEN Root ELSE Next1(g[i - 1], p[i])
  BY DEF IsRoute
<1> HIDE DEF Next1
<1>2. ASSUME S # {}
      PROVE  FALSE
  <2>1. PICK i \in S : \A j \in S : i <= j
    BY <1>0, <1>2, FirstIsLeast
  <2>2. i \in 0 .. Len(p) /\ i # 0
    BY <1>1, <2>1
  <2>3. i - 1 \in 0 .. Len(p) /\ ~(i <= i - 1)
    BY <1>0, <2>2
  <2>4. f[i - 1] = g[i - 1]
    BY <2>1, <2>3
  <2> QED
    BY <1>1, <2>1, <2>2, <2>4
<1> QED
  BY <1>0, <1>2

LEMMA PathPwd == TreeInv /\ PathOK => PwdNamesCurrentDir
<1> SUFFICES ASSUME TreeInv, PathOK, Quiet, NEW s \in Sessions
             PROVE  Resolve(path[s]) = cwd[s]
  BY DEF PwdNamesCurrentDir
<1>1. Place = "idle"
  BY DEF Quiet, Place
<1>2. PICK p, w : p = path[s] /\ Trail(p, w) /\ w[Len(p)] = cwd[s]
  BY <1>1 DEF PathOK, PathOf
<1>3. IsRoute(w, p)
  BY <1>2, TrailIsRoute
<1>4. PICK g : IsRoute(g, p) /\ Resolve(p) = g[Len(p)]
  BY <1>3, ResolveIsRoute
<1>5. p \in Seq(Names)
  BY <1>2 DEF Trail
<1> QED
  BY <1>2, <1>3, <1>4, <1>5, RouteUnique

\* A disk with fewer data blocks than Session.pwd has room for components: no
\* path fills it.
LEMMA FewDirs == TreeInv /\ PathOK /\ NumBlocks - 1 - Root < MaxPath => Fits
<1> SUFFICES ASSUME TreeInv, PathOK, NumBlocks - 1 - Root < MaxPath,
                    Place \notin {"F.save", "F.root"}, NEW s \in Sessions
             PROVE  Len(path[s]) < MaxPath
  BY DEF Fits, PathsFit
<1>1. PICK p, w : p = path[s] /\ Trail(p, w)
  BY DEF PathOK, PathOf
<1>2. Len(p) <= NumBlocks - 1 - Root /\ Len(p) \in Nat
  BY <1>1, TrailBound DEF Trail
<1>3. NumBlocks - 1 - Root \in Int /\ MaxPath \in Int
  BY Layout, ConstantsAssumption
<1> QED
  BY <1>1, <1>2, <1>3

LEMMA PathHolds == NothingStale /\ Spec /\ []PathsFit => []PathOK
<1>1. Init => PathOK
  BY InitPath
<1>2. PathsFit => Fits
  BY DEF Fits
<1>3. TreeInv /\ PathOK /\ Fits /\ [Next]_vars => PathOK'
  BY NextPath
<1> QED
  BY <1>1, <1>2, <1>3, TreeHolds, PTL DEF Spec

\* The path that pwd prints leads to the session's current directory, in any
\* tree of directories that the sessions make, as long as no path fills
\* Session.pwd: a cd that finds it full changes the directory all the same.
THEOREM PwdIsRight == NothingStale /\ Spec /\ []PathsFit => []PwdNamesCurrentDir
  BY TreeHolds, PathHolds, PathPwd, PTL

\* On a disk with fewer data blocks than Session.pwd has room for components no
\* path can fill it, however the directories are nested.
THEOREM PwdOnSmallDisk ==
  ASSUME NumBlocks - 1 - Root < MaxPath
  PROVE  NothingStale /\ Spec => []PwdNamesCurrentDir
<1>1. TreeInv /\ PathOK => Fits
  BY FewDirs
<1>2. Init => PathOK
  BY InitPath
<1>3. TreeInv /\ PathOK /\ Fits /\ [Next]_vars => PathOK'
  BY NextPath
<1>4. TreeInv /\ PathOK => PwdNamesCurrentDir
  BY PathPwd
<1> QED
  BY <1>1, <1>2, <1>3, <1>4, TreeHolds, PTL DEF Spec

-----------------------------------------------------------------------------
\* A write that stops short leaves no free block, and none comes back before
\* its entry is written: fs_lock is held in between.

ShortInv ==
  \A s \in Sessions :
    pc[s] \in {"W.save", "W.entry"} /\ done[s] < len[s] => FreeBlocks(fat) = {}

LEMMA ShortKept ==
  ASSUME TypeInv, LockHeld, ShortInv, NEW s \in Sessions, lock \in {NoOne, s},
         NEW to, pc' = [pc EXCEPT ![s] = to],
         to \in {"W.save", "W.entry"} /\ done'[s] < len'[s] => FreeBlocks(fat') = {}
  PROVE  ShortInv'
<1> SUFFICES ASSUME NEW q \in Sessions, pc'[q] \in {"W.save", "W.entry"},
                    done'[q] < len'[q]
             PROVE  FreeBlocks(fat') = {}
  BY DEF ShortInv
<1>1. CASE q = s
  BY <1>1 DEF TypeInv, TypeOK
<1>2. CASE q # s
  <2>1. pc'[q] = "idle"
    BY <1>2, OthersIdle DEF TypeInv, TypeOK
  <2> QED
    BY <2>1
<1> QED
  BY <1>1, <1>2

LEMMA ClientShort ==
  ASSUME TypeInv, LockHeld, ShortInv, NEW s \in Sessions, ClientStep(s)
  PROVE  ShortInv'
<1>1. ASSUME UNCHANGED <<fat, pc, done, len>>
      PROVE  ShortInv'
  BY <1>1 DEF ShortInv
<1>2. ASSUME NEW to \in Pcs \ {"W.save", "W.entry"}, lock = NoOne,
             pc' = [pc EXCEPT ![s] = to]
      PROVE  ShortInv'
  BY <1>2, ShortKept
<1> USE DEF Request, LockedRequest, Lock, Goto, Answer, Pcs
<1>3. CASE Format(s)
  BY <1>2, <1>3 DEF Format
<1>4. ASSUME NEW n \in Names, Create(s, n)
      PROVE  ShortInv'
  BY <1>1, <1>2, <1>4 DEF Create, CreateRefused, CreateAlloc
<1>5. ASSUME NEW n \in Names, Delete(s, n)
      PROVE  ShortInv'
  BY <1>1, <1>2, <1>5 DEF Delete, DeleteRefused, DeleteFile
<1>6. ASSUME NEW n \in Names, ReadRefused(s, n) \/ ReadFile(s, n)
      PROVE  ShortInv'
  BY <1>1, <1>2, <1>6 DEF ReadRefused, ReadFile
<1>7. ASSUME NEW n \in Names, NEW l, NEW t,
             WriteRefused(s, n) \/ WriteFile(s, n, l, t)
      PROVE  ShortInv'
  BY <1>1, <1>2, <1>7 DEF WriteRefused, WriteFile
<1>8. ASSUME NEW n \in Names, CdRefused(s, n) \/ Cd(s, n)
      PROVE  ShortInv'
  BY <1>1, <1>8 DEF CdRefused, Cd
<1>9. CASE List(s) \/ CdRoot(s) \/ Reconnect(s)
  BY <1>1, <1>9 DEF List, CdRoot, Reconnect
<1> QED
  BY <1>3, <1>4, <1>5, <1>6, <1>7, <1>8, <1>9 DEF ClientStep

LEMMA HandlerShort ==
  ASSUME TypeInv, LockHeld, ShortInv, NEW s \in Sessions, HandlerStep(s)
  PROVE  ShortInv'
<1>1. lock = s /\ pc = [pc EXCEPT ![s] = pc[s]]
  <2>1. pc[s] # "idle"
    BY DEF HandlerStep, SaveFat, FormatRoot, CreateZero, CreateEntry, WriteFree,
       WriteHead, WriteChunk, WriteEntry, ReadChunk, ReadEnd, DeleteFree,
       DeleteFreed, DeleteEntry
  <2> QED
    BY <2>1 DEF LockHeld, TypeInv, TypeOK
<1>2. ASSUME NEW to \in Pcs \ {"W.save", "W.entry"}, pc' = [pc EXCEPT ![s] = to]
      PROVE  ShortInv'
  BY <1>1, <1>2, ShortKept
<1>3. ASSUME NEW from, NEW to, SaveFat(s, from, to),
             to # "W.entry" => from # "W.save",
             from \in Pcs, to \in Pcs \ {"W.save"},
             to = "W.entry" => from = "W.save"
      PROVE  ShortInv'
  <2>1. pc[s] = from /\ UNCHANGED <<fat, done, len>>
        /\ (pc' = pc \/ pc' = [pc EXCEPT ![s] = to])
    BY <1>3 DEF SaveFat, Goto
  <2> QED
    BY <1>1, <1>3, <2>1, ShortKept DEF ShortInv
<1>4. CASE WriteHead(s)
  <2>1. /\ done[s] = 0 /\ len[s] \in Nat /\ UNCHANGED <<done, len>>
        /\ pc' = [pc EXCEPT ![s] = IF len[s] > 0 THEN "W.data" ELSE "W.save"]
    BY <1>4 DEF WriteHead, Goto, TypeInv, TypeOK, LocalsOK
  <2> QED
    BY <1>1, <1>2, <2>1, ShortKept DEF Pcs
<1>5. CASE WriteChunk(s)
  <2>1. PICK n : n = AtMostBlock(len[s] - done[s])
    OBVIOUS
  <2>2. done[s] \in Nat /\ len[s] \in Nat /\ n \in Nat
    <3>1. pc[s] = "W.data" /\ done[s] \in Nat /\ len[s] \in Nat /\ done[s] < len[s]
      BY <1>5 DEF WriteChunk, TypeInv, TypeOK, LocalsOK
    <3> QED
      BY <2>1, <3>1, ChunkSize, ConstantsAssumption
  <2>3. done' = [done EXCEPT ![s] = @ + n] /\ len' = len
        /\ \/ pc' = pc /\ pc[s] = "W.data"
           \/ /\ pc' = [pc EXCEPT ![s] = "W.save"] /\ fat' = fat
              /\ ~(done[s] + n < len[s] /\ FreeBlocks(fat) # {})
    BY <1>5, <2>1 DEF WriteChunk, Goto
  <2>4. done'[s] = done[s] + n
    BY <2>3 DEF TypeInv, TypeOK
  <2> QED
    BY <1>1, <1>2, <2>2, <2>3, <2>4, ShortKept DEF Pcs
<1>6. CASE WriteFree(s) \/ DeleteFree(s)
  BY <1>1, <1>2, <1>6 DEF WriteFree, DeleteFree, FreeStep, Pcs
<1>7. CASE CreateZero(s) \/ DeleteFreed(s) \/ ReadChunk(s)
  BY <1>1, <1>2, <1>7 DEF CreateZero, DeleteFreed, ReadChunk, Goto, Pcs
<1>8. CASE FormatRoot(s) \/ CreateEntry(s) \/ WriteEntry(s) \/ DeleteEntry(s)
           \/ ReadEnd(s)
  BY <1>2, <1>8 DEF FormatRoot, CreateEntry, WriteEntry, DeleteEntry, ReadEnd,
                    Finish, Goto, Pcs
<1>9. CASE \/ SaveFat(s, "F.save", "F.root") \/ SaveFat(s, "C.save", "C.zero")
           \/ SaveFat(s, "W.save", "W.entry") \/ SaveFat(s, "D.save", "D.entry")
  BY <1>3, <1>9 DEF Pcs
<1> QED
  BY <1>4, <1>5, <1>6, <1>7, <1>8, <1>9 DEF HandlerStep

\* A write that is cut short has filled the disk: until its entry is written
\* no data block is free, whatever the layout and the number of sessions, and
\* also after a crash.
THEOREM ShortWriteFillsDisk == Spec => []ShortOnlyWhenFull
<1> DEFINE Short == TypeInv /\ LockHeld /\ ShortInv
<1>1. Init => Short
  <2>1. Init => TypeInv /\ LockHeld
    BY InitTypeInv DEF Init, Each, LockHeld
  <2>2. Init => ShortInv
    BY DEF Init, Each, ShortInv
  <2> QED
    BY <2>1, <2>2
<1>2. Short /\ [Next]_vars => Short'
  <2> SUFFICES ASSUME Short, [Next]_vars PROVE ShortInv'
    BY NextTypeInv, NextLock
  <2>1. CASE UNCHANGED vars
    BY <2>1 DEF ShortInv, vars
  <2>2. CASE Restart
    BY <2>2 DEF Restart, Each, ShortInv
  <2> QED
    BY <2>1, <2>2, ClientShort, HandlerShort DEF Next
<1>3. Short => ShortOnlyWhenFull
  BY DEF ShortInv, ShortOnlyWhenFull, FreeBlocks, Allocated
<1> QED
  BY <1>1, <1>2, <1>3, PTL DEF Spec

-----------------------------------------------------------------------------
\* What the files hold: the chain of each is as long as its size calls for and
\* its blocks hold one text, but for the file that is being written.

\* The units in the blocks before the k-th of a chain.
Before(k) == (k - 1) * BlockSize
\* A file of size z has n blocks.
Sized(n, z) ==
  IF z = 0 THEN n = 1 ELSE Before(n) < z /\ z <= Before(n) + BlockSize

\* w is the chain of n blocks from h in FAT f.
IsChain(f, w, n, h) ==
  /\ n \in Nat \ {0} /\ w \in [1 .. n -> DataBlocks] /\ w[1] = h
  /\ \A k \in 1 .. n : k # n => f[w[k]] = w[k + 1]
  /\ f[w[n]] = FAT_EOF
  /\ \A j, k \in 1 .. n : w[j] = w[k] => j = k
\* Its first z units, in the blocks d, are all t.
HoldsText(d, w, n, z, t) ==
  \A k \in 1 .. n, i \in Slots : Before(k) + i <= z => d[w[k]][i] = t

FileIs(f, d, w, n, h, z, t) ==
  IsChain(f, w, n, h) /\ Sized(n, z) /\ t \in Texts /\ HoldsText(d, w, n, z, t)
IsStored(f, d, h, z) == \E w, n, t : FileIs(f, d, w, n, h, z, t)

Writes == {"W.free", "W.data", "W.save", "W.entry"}
Writing(b, i) == Place \in Writes /\ b = cwd[lock] /\ i = slot[lock]
StoredAt(b, i) == Kept(b, i) /\ blocks[b][i].type = "file" /\ ~Writing(b, i)

Stored ==
  \A b \in DirBlocks, i \in Slots :
    StoredAt(b, i) => IsStored(fat, blocks, blocks[b][i].head, blocks[b][i].size)

\* cmd_write: the chain it has built so far ends in the block it writes next.
Filled(w, n) ==
  /\ IsChain(fat, w, n, OpenHead) /\ HoldsText(blocks, w, n, done[lock], txt[lock])
  /\ w[n] = curr[lock] /\ done[lock] = Before(n)
Written ==
  /\ Place \in Writes => txt[lock] \in Texts
  /\ Place = "W.data" => \E w, n : Filled(w, n)
  /\ Place \in {"W.save", "W.entry"} =>
       \E w, n : FileIs(fat, blocks, w, n, OpenHead, done[lock], txt[lock])

\* cmd_read: what it has sent, and the block of the chain that comes next.
Sent(w, n, t, z) ==
  /\ FileIs(fat, blocks, w, n, OpenHead, z, t)
  /\ Len(got[lock]) = done[lock] /\ done[lock] <= z
  /\ \A i \in 1 .. done[lock] : got[lock][i] = t
  /\ \/ \E k \in 1 .. n : curr[lock] = w[k] /\ done[lock] = Before(k)
     \/ curr[lock] = FAT_EOF /\ done[lock] = z
Reading ==
  Place = "R.data" => \E w, n, t : Sent(w, n, t, buf[lock][slot[lock]].size)

NothingSent == \A s \in Sessions : pc[s] = "idle" => got[s] = <<>>
Files == Stored /\ Written /\ Reading /\ NothingSent

FilesInv == Texts # {} /\ TreeInv /\ Files

-----------------------------------------------------------------------------
\* Chains.

LEMMA BeforeNext ==
  /\ Before(1) = 0
  /\ \A k \in Nat \ {0} : Before(k) \in Nat /\ Before(k + 1) = Before(k) + BlockSize
<1>1. BlockSize \in Nat
  BY ConstantsAssumption
<1>2. Before(1) = 0
  BY <1>1 DEF Before
<1>3. ASSUME NEW k \in Nat \ {0}
      PROVE  Before(k) \in Nat /\ Before(k + 1) = Before(k) + BlockSize
  BY <1>1, SMTT(30) DEF Before
<1> QED
  BY <1>2, <1>3

LEMMA BeforeGrows ==
  ASSUME NEW j \in Nat \ {0}, NEW k \in Nat \ {0}, j < k
  PROVE  Before(j) + BlockSize <= Before(k)
<1>1. BlockSize \in Nat
  BY ConstantsAssumption
<1>2. PICK m \in Nat : k = j + 1 + m
  <2>1. k - j - 1 \in Nat /\ k = j + 1 + (k - j - 1)
    OBVIOUS
  <2> QED
    BY <2>1
<1>3. m * BlockSize \in Nat /\ (j - 1) * BlockSize \in Nat
  BY <1>1, SMTT(30)
<1>4. (k - 1) * BlockSize = (j - 1) * BlockSize + BlockSize + m * BlockSize
  BY <1>1, <1>2, SMTT(30)
<1> QED
  BY <1>1, <1>3, <1>4 DEF Before

\* A chain goes on where the FAT and the blocks keep what it goes through.
LEMMA ChainStays ==
  ASSUME NEW f, NEW g, NEW w, NEW n, NEW h, IsChain(f, w, n, h),
         \A k \in 1 .. n : g[w[k]] = f[w[k]]
  PROVE  IsChain(g, w, n, h)
  BY DEF IsChain

LEMMA TextStays ==
  ASSUME NEW d, NEW e, NEW w, NEW n, NEW z, NEW t, HoldsText(d, w, n, z, t),
         \A k \in 1 .. n : e[w[k]] = d[w[k]]
  PROVE  HoldsText(e, w, n, z, t)
  BY DEF HoldsText

LEMMA FileStays ==
  ASSUME NEW f, NEW g, NEW d, NEW e, NEW w, NEW n, NEW h, NEW z, NEW t,
         FileIs(f, d, w, n, h, z, t),
         \A k \in 1 .. n : g[w[k]] = f[w[k]] /\ e[w[k]] = d[w[k]]
  PROVE  FileIs(g, e, w, n, h, z, t)
  BY ChainStays, TextStays DEF FileIs

\* Each block of a chain is the head or what the one before it links to.
LEMMA ChainStep ==
  ASSUME NEW f, NEW w, NEW n, NEW h, IsChain(f, w, n, h), NEW k \in 1 .. n
  PROVE  \/ k = 1 /\ w[k] = h
         \/ k - 1 \in 1 .. n /\ w[k] = f[w[k - 1]]
<1>1. n \in Nat /\ w[1] = h
  BY DEF IsChain
<1>2. CASE k # 1
  <2>1. k - 1 \in 1 .. n /\ k - 1 # n /\ (k - 1) + 1 = k
    BY <1>1, <1>2
  <2>2. f[w[k - 1]] = w[(k - 1) + 1]
    BY <2>1 DEF IsChain
  <2> QED
    BY <2>1, <2>2
<1> QED
  BY <1>1, <1>2

LEMMA ChainAlloc ==
  ASSUME NEW w, NEW n, NEW h, IsChain(fat, w, n, h), NEW k \in 1 .. n
  PROVE  w[k] \in DataBlocks /\ Alloc(w[k])
<1>1. n \in Nat \ {0} /\ \A j \in 1 .. n : w[j] \in DataBlocks
  BY DEF IsChain
<1>2. fat[w[k]] \in DataBlocks \/ fat[w[k]] = FAT_EOF
  <2>1. CASE k = n
    BY <2>1 DEF IsChain
  <2>2. CASE k # n
    <3>1. k + 1 \in 1 .. n
      BY <1>1, <2>2
    <3> QED
      BY <1>1, <2>2, <3>1 DEF IsChain
  <2> QED
    BY <2>1, <2>2
<1> QED
  BY <1>1, <1>2, DataLayout DEF Alloc

\* A block that is no head and that no block of the chain links to is not in it.
LEMMA UnlinkedAway ==
  ASSUME NEW f, NEW w, NEW n, NEW h, IsChain(f, w, n, h), NEW x, x # h,
         \A k \in 1 .. n : f[w[k]] # x
  PROVE  \A k \in 1 .. n : w[k] # x
  BY ChainStep

\* The chain of a file goes through no directory.
LEMMA FileNoDir ==
  ASSUME TreeInv, NEW b \in DirBlocks, NEW i \in Slots, Kept(b, i),
         blocks[b][i].type = "file", NEW w, NEW n,
         IsChain(fat, w, n, blocks[b][i].head)
  PROVE  \A k \in 1 .. n : w[k] # Root /\ ~IsDir(w[k])
<1> SUFFICES ASSUME NEW k \in 1 .. n, NEW x, x = w[k]
             PROVE  x # Root /\ ~IsDir(x)
  OBVIOUS
<1>1. x # Root
  BY ChainAlloc, DataLayout
<1>2. CASE x = blocks[b][i].head
  <2> SUFFICES ASSUME NEW c \in DirBlocks, NEW j \in Slots, Kept(c, j),
                      blocks[c][j].type = "dir", blocks[c][j].head = x
               PROVE  FALSE
    BY <1>1 DEF IsDir
  <2>1. b = c /\ i = j
    BY <1>2 DEF TreeInv, Tree, Shape, OneHead, Kept
  <2> QED
    BY <2>1
<1>3. CASE k - 1 \in 1 .. n /\ x = fat[w[k - 1]]
  <2>1. PICK a : a = w[k - 1]
    OBVIOUS
  <2>2. a \in DataBlocks /\ Alloc(a) /\ x = fat[a]
    BY <1>3, <2>1, ChainAlloc
  <2> QED
    BY <1>1, <2>2 DEF TreeInv, Tree, Shape, HeadNoLink, IsDir, Kept
<1> QED
  BY <1>2, <1>3, ChainStep

\* The chains of two entries have no block in common.
LEMMA ChainsApart ==
  ASSUME TreeInv, NEW b \in DirBlocks, NEW i \in Slots, EntryIn(b, i),
         NEW c \in DirBlocks, NEW j \in Slots, EntryIn(c, j), b # c \/ i # j,
         NEW w, NEW n, IsChain(fat, w, n, blocks[b][i].head),
         NEW v, NEW m, IsChain(fat, v, m, blocks[c][j].head)
  PROVE  \A k \in 1 .. n, l \in 1 .. m : w[k] # v[l]
<1> DEFINE S == {k \in Nat : k \in 1 .. n /\ \E l \in 1 .. m : w[k] = v[l]}
<1> SUFFICES ASSUME S # {}
             PROVE  FALSE
  BY DEF IsChain
<1>1. PICK k \in S : \A x \in S : k <= x
  BY FirstIsLeast
<1>2. PICK l \in 1 .. m : w[k] = v[l]
  BY <1>1
<1>3. PICK g, h : g = blocks[b][i].head /\ h = blocks[c][j].head
  OBVIOUS
<1>4. g # h
  BY <1>3 DEF TreeInv, Tree, Shape, OneHead
<1>5. \A a \in DataBlocks : Alloc(a) => fat[a] # g /\ fat[a] # h
  BY <1>3 DEF TreeInv, Tree, Shape, HeadNoLink
<1>6. (k = 1 /\ w[k] = g) \/ (k - 1 \in 1 .. n /\ w[k] = fat[w[k - 1]])
  BY <1>1, <1>3, ChainStep
<1>7. (l = 1 /\ v[l] = h) \/ (l - 1 \in 1 .. m /\ v[l] = fat[v[l - 1]])
  BY <1>3, ChainStep
<1>8. k - 1 \in 1 .. n => w[k - 1] \in DataBlocks /\ Alloc(w[k - 1])
  BY <1>3, ChainAlloc
<1>9. l - 1 \in 1 .. m => v[l - 1] \in DataBlocks /\ Alloc(v[l - 1])
  BY <1>3, ChainAlloc
<1>10. k - 1 \in 1 .. n /\ l - 1 \in 1 .. m /\ fat[w[k - 1]] = fat[v[l - 1]]
  BY <1>2, <1>4, <1>5, <1>6, <1>7, <1>8, <1>9
<1>11. w[k] \in DataBlocks
  BY <1>1, ChainAlloc
<1>12. w[k - 1] = v[l - 1]
  <2>1. PICK x, y : x = w[k - 1] /\ y = v[l - 1]
    OBVIOUS
  <2>2. x \in DataBlocks /\ y \in DataBlocks /\ Alloc(x) /\ Alloc(y)
        /\ fat[x] = fat[y] /\ fat[x] \in DataBlocks
    BY <1>6, <1>8, <1>9, <1>10, <1>11, <2>1, <1>5, ChainStep
  <2>3. x = y
    BY <2>2 DEF TreeInv, Tree, Shape, OneLink
  <2> QED
    BY <2>1, <2>3
<1>13. k - 1 \in S /\ k \in Nat
  BY <1>1, <1>10, <1>12
<1> QED
  BY <1>1, <1>13

-----------------------------------------------------------------------------
\* What is stored stays stored where the chains of the stored files are left
\* alone.

Avoided(x) ==
  \A b \in DirBlocks, i \in Slots :
    StoredAt(b, i) =>
      \A w, n : IsChain(fat, w, n, blocks[b][i].head) => \A k \in 1 .. n : w[k] # x

LEMMA StoredStays ==
  ASSUME Stored,
         \A b \in DirBlocks, i \in Slots :
           StoredAt(b, i)' =>
             \/ StoredAt(b, i) /\ blocks'[b][i] = blocks[b][i]
             \/ IsStored(fat', blocks', blocks'[b][i].head, blocks'[b][i].size),
         \A x \in DataBlocks : fat'[x] # fat[x] \/ blocks'[x] # blocks[x] => Avoided(x)
  PROVE  Stored'
<1> SUFFICES ASSUME NEW b \in DirBlocks, NEW i \in Slots, StoredAt(b, i)'
             PROVE  IsStored(fat', blocks', blocks'[b][i].head, blocks'[b][i].size)
  BY DEF Stored
<1>1. CASE StoredAt(b, i) /\ blocks'[b][i] = blocks[b][i]
  <2>1. PICK w, n, t :
          FileIs(fat, blocks, w, n, blocks[b][i].head, blocks[b][i].size, t)
    BY <1>1 DEF Stored, IsStored
  <2>2. IsChain(fat, w, n, blocks[b][i].head)
    BY <2>1 DEF FileIs
  <2>3. ASSUME NEW k \in 1 .. n
        PROVE  fat'[w[k]] = fat[w[k]] /\ blocks'[w[k]] = blocks[w[k]]
    <3>1. PICK x : x = w[k]
      OBVIOUS
    <3>2. x \in DataBlocks
      BY <2>2, <3>1, ChainAlloc
    <3>3. ~Avoided(x)
      BY <1>1, <2>2, <3>1 DEF Avoided
    <3> QED
      BY <3>1, <3>2, <3>3
  <2>4. FileIs(fat', blocks', w, n, blocks[b][i].head, blocks[b][i].size, t)
    BY <2>1, <2>3, FileStays
  <2> QED
    BY <1>1, <2>4 DEF IsStored
<1> QED
  BY <1>1

\* A free block is in no chain.
LEMMA FreeAvoided ==
  ASSUME NEW x, ~Alloc(x)
  PROVE  Avoided(x)
  BY ChainAlloc DEF Avoided

\* Neither is a block that no entry and no link names.
LEMMA UnnamedAvoided ==
  ASSUME NEW x, \A b \in DirBlocks, i \in Slots : StoredAt(b, i) => blocks[b][i].head # x,
         \A a \in DataBlocks : (Alloc(a) /\ Avoided(a)) \/ ~Alloc(a) \/ fat[a] # x
  PROVE  Avoided(x)
<1> SUFFICES ASSUME NEW b \in DirBlocks, NEW i \in Slots, StoredAt(b, i), NEW w, NEW n,
                    IsChain(fat, w, n, blocks[b][i].head)
             PROVE  \A k \in 1 .. n : w[k] # x
  BY DEF Avoided
<1>1. ASSUME NEW k \in 1 .. n
      PROVE  fat[w[k]] # x
  <2>1. PICK a : a = w[k]
    OBVIOUS
  <2>2. a \in DataBlocks /\ Alloc(a) /\ ~Avoided(a)
    BY <2>1, ChainAlloc DEF Avoided
  <2> QED
    BY <2>1, <2>2
<1> QED
  BY <1>1, UnlinkedAway

\* Nor a directory.
LEMMA DirAvoided ==
  ASSUME TreeInv, NEW x, x = Root \/ IsDir(x)
  PROVE  Avoided(x)
  BY FileNoDir DEF Avoided, StoredAt

\* Nor the chain of the file that is being written.
LEMMA OpenAvoided ==
  ASSUME TreeInv, Place \in Writes, NEW v, NEW m, IsChain(fat, v, m, OpenHead),
         NEW l \in 1 .. m
  PROVE  Avoided(v[l])
<1> SUFFICES ASSUME NEW b \in DirBlocks, NEW i \in Slots, StoredAt(b, i), NEW w, NEW n,
                    IsChain(fat, w, n, blocks[b][i].head)
             PROVE  \A k \in 1 .. n : w[k] # v[l]
  BY DEF Avoided
<1>1. /\ cwd[lock] \in DirBlocks /\ slot[lock] \in Slots
      /\ EntryIn(cwd[lock], slot[lock])
      /\ OpenHead = blocks[cwd[lock]][slot[lock]].head
  BY OpenIsEntry DEF TreeInv, AtWork, Writes
<1>2. EntryIn(b, i) /\ (b # cwd[lock] \/ i # slot[lock])
  BY DEF StoredAt, Kept, Writing
<1> QED
  BY <1>1, <1>2, ChainsApart

LEMMA OpenHeadAvoided ==
  ASSUME TreeInv, Place \in Writes
  PROVE  Avoided(OpenHead)
<1>1. /\ cwd[lock] \in DirBlocks /\ slot[lock] \in Slots
      /\ EntryIn(cwd[lock], slot[lock])
      /\ OpenHead = blocks[cwd[lock]][slot[lock]].head
  BY OpenIsEntry DEF TreeInv, AtWork, Writes
<1>2. \A a \in DataBlocks : Alloc(a) => fat[a] # OpenHead
  BY <1>1 DEF TreeInv, Tree, Shape, HeadNoLink
<1>3. ASSUME NEW b \in DirBlocks, NEW i \in Slots, StoredAt(b, i)
      PROVE  blocks[b][i].head # OpenHead
  <2>1. EntryIn(b, i) /\ (b # cwd[lock] \/ i # slot[lock])
    BY <1>3 DEF StoredAt, Kept, Writing
  <2> QED
    BY <1>1, <2>1 DEF TreeInv, Tree, Shape, OneHead
<1> QED
  BY <1>2, <1>3, UnnamedAvoided

\* A step that writes no file: the entries that stay are stored as they were.
LEMMA KeptStays ==
  ASSUME Stored, KeepsKept,
         \A b \in DirBlocks, i \in Slots : Writing(b, i) => Writing(b, i)',
         \A x \in DataBlocks : fat'[x] # fat[x] \/ blocks'[x] # blocks[x] => Avoided(x)
  PROVE  Stored'
<1>1. \A b \in DirBlocks, i \in Slots :
        StoredAt(b, i)' => StoredAt(b, i) /\ blocks'[b][i] = blocks[b][i]
  BY DEF StoredAt, KeepsKept
<1> QED
  BY <1>1, StoredStays

-----------------------------------------------------------------------------
\* The steps that write no file and no entry.

\* Nothing is being written or read after a step to another place.
LEMMA AwayFiles ==
  ASSUME Place' \notin Writes, Place' # "R.data"
  PROVE  Written' /\ Reading'
  BY DEF Written, Reading, Writes

LEMMA SentNothing ==
  ASSUME TypeInv, NothingSent, NEW s \in Sessions, NEW to,
         pc' = [pc EXCEPT ![s] = to] \/ pc' = pc,
         got' = [got EXCEPT ![s] = <<>>] \/ (got' = got /\ to # "idle")
  PROVE  NothingSent'
<1> SUFFICES ASSUME NEW q \in Sessions, pc'[q] = "idle"
             PROVE  got'[q] = <<>>
  BY DEF NothingSent
<1>1. pc \in [Sessions -> Pcs] /\ got \in [Sessions -> Seq(Unit)]
  BY DEF TypeInv, TypeOK
<1>2. CASE q # s
  BY <1>1, <1>2 DEF NothingSent
<1>3. CASE q = s
  BY <1>1, <1>3 DEF NothingSent
<1> QED
  BY <1>2, <1>3

LEMMA SameFiles ==
  ASSUME Files, KeepsKept, UNCHANGED <<fat, blocks, lock, pc, locals>>,
         Place # "idle" => cwd'[lock] = cwd[lock]
  PROVE  Files'
<1>1. Place' = Place /\ OpenHead' = OpenHead
  BY DEF Place, OpenHead
<1>2. \A b, i : Writing(b, i) => Writing(b, i)'
  BY <1>1 DEF Writing, Writes
<1>3. Stored'
  BY <1>2, KeptStays DEF Files
<1>4. Written'
  <2>1. \A w, n : Filled(w, n)' <=> Filled(w, n)
    BY <1>1 DEF Filled
  <2> QED
    BY <1>1, <2>1 DEF Files, Written
<1>5. Reading'
  <2>1. \A w, n, t, z : Sent(w, n, t, z)' <=> Sent(w, n, t, z)
    BY <1>1 DEF Sent
  <2> QED
    BY <1>1, <2>1 DEF Files, Reading
<1>6. NothingSent'
  BY DEF Files, NothingSent
<1> QED
  BY <1>3, <1>4, <1>5, <1>6 DEF Files

LEMMA AnswerFiles ==
  ASSUME FilesInv, NEW s \in Sessions, NEW r, Answer(s, r)
  PROVE  Files'
  BY AnswerTree, SameFiles DEF FilesInv, Answer

LEMMA StutterFiles ==
  ASSUME FilesInv, UNCHANGED vars
  PROVE  Files'
  BY StutterTree, SameFiles DEF FilesInv, vars

LEMMA CdFiles ==
  ASSUME FilesInv, NEW s \in Sessions, pc[s] = "idle",
         NEW d, cwd' = [cwd EXCEPT ![s] = d], UNCHANGED <<memory, disk, pc, locals>>,
         KeepsKept
  PROVE  Files'
<1>1. ASSUME Place # "idle"
      PROVE  cwd'[lock] = cwd[lock]
  <2>1. lock # s
    BY <1>1 DEF Place
  <2> QED
    BY <2>1 DEF FilesInv, TreeInv, TypeInv, TypeOK
<1> QED
  BY <1>1, SameFiles DEF FilesInv

\* save_fat: the handler stays with its file.
LEMMA SaveFiles ==
  ASSUME FilesInv, NEW s \in Sessions, NEW from, NEW to,
         <<from, to>> \in {<<"F.save", "F.root">>, <<"C.save", "C.zero">>,
                           <<"W.save", "W.entry">>, <<"D.save", "D.entry">>},
         SaveFat(s, from, to)
  PROVE  Files'
<1>1. pc[s] = from /\ from # "idle" /\ to # "idle"
  BY DEF SaveFat
<1>2. lock = s /\ lock # NoOne /\ Place = from
  BY <1>1, HolderPlace DEF FilesInv, TreeInv
<1>3. /\ fat' = fat /\ blocks' = blocks /\ lock' = lock /\ cwd' = cwd /\ buf' = buf
      /\ slot' = slot /\ done' = done /\ txt' = txt /\ got' = got
      /\ pc' = pc \/ pc' = [pc EXCEPT ![s] = to]
  BY DEF SaveFat, Goto
<1>4. Place' \in {from, to} /\ OpenHead' = OpenHead
  BY <1>2, <1>3 DEF Place, OpenHead, FilesInv, TreeInv, TypeInv, TypeOK
<1>5. \A b, i : Writing(b, i) => Writing(b, i)'
  BY <1>2, <1>3, <1>4 DEF Writing, Writes
<1>6. Stored'
  BY <1>3, <1>5, SaveTree, KeptStays DEF FilesInv, Files
<1>7. Written'
  BY <1>2, <1>3, <1>4 DEF FilesInv, Files, Written, Writes
<1>8. Reading'
  BY <1>4 DEF Reading
<1>9. NothingSent'
  BY <1>1, <1>3, SentNothing DEF FilesInv, Files, TreeInv
<1> QED
  BY <1>6, <1>7, <1>8, <1>9 DEF Files

\* A command that frees or creates takes the lock.
LEMMA TakeFiles ==
  ASSUME FilesInv, NEW s \in Sessions, lock = NoOne, lock' = s,
         NEW to \in {"F.save", "C.save", "D.free"}, pc' = [pc EXCEPT ![s] = to],
         got' = got, blocks' = blocks, KeepsKept,
         \A x \in DataBlocks : fat'[x] # fat[x] => Avoided(x)
  PROVE  Files'
<1>1. Place = "idle" /\ Place' = to
  BY ConstantsAssumption DEF Place, FilesInv, TreeInv, TypeInv, TypeOK
<1>2. \A b, i : ~Writing(b, i)
  BY <1>1 DEF Writing, Writes
<1>3. Stored'
  BY <1>2, KeptStays DEF FilesInv, Files
<1>4. Written' /\ Reading'
  BY <1>1, AwayFiles DEF Writes
<1>5. NothingSent'
  BY SentNothing DEF FilesInv, Files, TreeInv
<1> QED
  BY <1>3, <1>4, <1>5 DEF Files

LEMMA CreateAllocFiles ==
  ASSUME FilesInv, NEW s \in Sessions, NEW n \in Names, NEW t \in {"file", "dir"},
         CreateAlloc(s, n, t)
  PROVE  Files'
<1>0. PICK h : h = FindFree(fat)
  OBVIOUS
<1>1. /\ lock = NoOne /\ lock' = s /\ FreeBlocks(fat) # {} /\ got' = got
      /\ fat' = [fat EXCEPT ![h] = FAT_EOF]
      /\ pc' = [pc EXCEPT ![s] = "C.save"] /\ blocks' = blocks
  BY <1>0 DEF CreateAlloc, Lock, Goto
<1>2. h \in DataBlocks /\ fat[h] = FAT_FREE
  BY <1>0, <1>1, FindFreeIsFree
<1>3. \A x \in DataBlocks : fat'[x] # fat[x] => x = h
  BY <1>1, DataLayout DEF FilesInv, TreeInv, TypeInv, TypeOK
<1>4. Avoided(h)
  BY <1>2, FreeAvoided DEF Alloc
<1>5. KeepsKept
  BY CreateAllocTree DEF FilesInv
<1> QED
  BY <1>1, <1>3, <1>4, <1>5, TakeFiles

LEMMA DeleteFileFiles ==
  ASSUME FilesInv, NEW s \in Sessions, NEW n \in Names, NEW t \in {"file", "dir"},
         DeleteFile(s, n, t), t = "dir" => "rmdir" \in Commands
  PROVE  Files'
<1>1. /\ lock = NoOne /\ lock' = s /\ got' = got /\ fat' = fat
      /\ pc' = [pc EXCEPT ![s] = "D.free"] /\ blocks' = blocks
  BY DEF DeleteFile, Lock, Goto
<1>2. KeepsKept
  BY DeleteFileTree DEF FilesInv
<1> QED
  BY <1>1, <1>2, TakeFiles

LEMMA FormatFiles ==
  ASSUME FilesInv, NEW s \in Sessions, Format(s)
  PROVE  Files'
<1>1. /\ lock = NoOne /\ lock' = s /\ got' = got
      /\ fat' = [b \in Blocks |-> IF b <= Root THEN FAT_EOF ELSE FAT_FREE]
      /\ pc' = [pc EXCEPT ![s] = "F.save"]
  BY DEF Format, Lock, Goto
<1>2. Place' = "F.save"
  BY <1>1, ConstantsAssumption DEF Place, FilesInv, TreeInv, TypeInv, TypeOK
<1>3. \A b \in DataBlocks : fat'[b] = FAT_FREE
  <2> SUFFICES ASSUME NEW b \in DataBlocks
               PROVE  fat'[b] = FAT_FREE
    OBVIOUS
  <2>1. b \in Blocks /\ ~(b <= Root)
    BY Layout DEF DataBlocks, Blocks
  <2> QED
    BY <1>1, <2>1
<1>4. \A b, i : ~StoredAt(b, i)'
  BY <1>2, <1>3 DEF StoredAt, EntryIn, Kept, Counts, Stale, Alloc
<1>5. Stored'
  BY <1>4 DEF Stored
<1>6. Written' /\ Reading'
  BY <1>2, AwayFiles DEF Writes
<1>7. NothingSent'
  BY <1>1, SentNothing DEF FilesInv, Files, TreeInv
<1> QED
  BY <1>5, <1>6, <1>7 DEF Files

-----------------------------------------------------------------------------
\* The steps that free blocks or write entries.

\* A step of a command that writes no file, from one place to another.
LEMMA PassFiles ==
  ASSUME FilesInv, NEW s \in Sessions, lock = s, Place \notin Writes,
         NEW to \in {"C.entry", "D.save", "idle"}, Goto(s, to),
         lock' = s \/ (lock' = NoOne /\ to = "idle"),
         got' = [got EXCEPT ![s] = <<>>] \/ (got' = got /\ to # "idle"),
         \A b \in DirBlocks, i \in Slots :
           StoredAt(b, i)' =>
             \/ StoredAt(b, i) /\ blocks'[b][i] = blocks[b][i]
             \/ IsStored(fat', blocks', blocks'[b][i].head, blocks'[b][i].size),
         \A x \in DataBlocks : fat'[x] # fat[x] \/ blocks'[x] # blocks[x] => Avoided(x)
  PROVE  Files'
<1>0. pc' = [pc EXCEPT ![s] = to]
  BY DEF Goto
<1>1. Place' = to
  BY <1>0, ConstantsAssumption DEF Place, FilesInv, TreeInv, TypeInv, TypeOK
<1>2. Stored'
  BY StoredStays DEF FilesInv, Files
<1>3. Written' /\ Reading'
  BY <1>1, AwayFiles DEF Writes
<1>4. NothingSent'
  BY <1>0, SentNothing DEF FilesInv, Files, TreeInv
<1> QED
  BY <1>2, <1>3, <1>4 DEF Files

\* The same, when the entries stay as they are.
LEMMA PassKept ==
  ASSUME FilesInv, KeepsKept, NEW s \in Sessions, lock = s, Place \notin Writes,
         NEW to \in {"C.entry", "D.save", "idle"}, Goto(s, to),
         lock' = s \/ (lock' = NoOne /\ to = "idle"),
         got' = [got EXCEPT ![s] = <<>>] \/ (got' = got /\ to # "idle"),
         \A x \in DataBlocks : fat'[x] # fat[x] \/ blocks'[x] # blocks[x] => Avoided(x)
  PROVE  Files'
<1>1. \A b \in DirBlocks, i \in Slots :
        StoredAt(b, i)' => StoredAt(b, i) /\ blocks'[b][i] = blocks[b][i]
  BY DEF StoredAt, KeepsKept, Writing
<1> QED
  BY <1>1, PassFiles

LEMMA FormatRootFiles ==
  ASSUME FilesInv, NEW s \in Sessions, FormatRoot(s)
  PROVE  Files'
<1>1. /\ pc[s] = "F.root" /\ lock' = NoOne /\ fat' = fat
      /\ blocks' = [blocks EXCEPT ![Root] = ZeroBlock]
      /\ Goto(s, "idle") /\ got' = [got EXCEPT ![s] = <<>>]
  BY DEF FormatRoot, Finish, ClearLocals
<1>2. lock = s /\ Place = "F.root"
  BY <1>1, HolderPlace DEF FilesInv, TreeInv
<1>3. \A x \in DataBlocks : blocks'[x] = blocks[x]
  BY <1>1, DataLayout DEF FilesInv, TreeInv, TypeInv, TypeOK
<1>4. KeepsKept
  BY FormatRootTree DEF FilesInv
<1> QED
  BY <1>1, <1>2, <1>3, <1>4, PassKept DEF Writes

LEMMA CreateZeroFiles ==
  ASSUME FilesInv, NEW s \in Sessions, CreateZero(s)
  PROVE  Files'
<1>0. PICK c : c = curr[s]
  OBVIOUS
<1>1. /\ pc[s] = "C.zero" /\ lock' = lock /\ fat' = fat /\ got' = got
      /\ blocks' = [blocks EXCEPT ![c] = ZeroBlock]
      /\ Goto(s, "C.entry")
  BY <1>0 DEF CreateZero
<1>2. lock = s /\ Place = "C.zero"
  BY <1>1, HolderPlace DEF FilesInv, TreeInv
<1>3. /\ \A b \in DirBlocks, i \in Slots : EntryIn(b, i) => blocks[b][i].head # c
      /\ \A a \in DataBlocks : Alloc(a) => fat[a] # c
  BY <1>0, <1>2 DEF FilesInv, TreeInv, Tree, Hand, Creating
<1>4. Avoided(c)
  BY <1>3, UnnamedAvoided DEF StoredAt, Kept
<1>5. \A x \in DataBlocks : blocks'[x] # blocks[x] => x = c
  BY <1>1, DataLayout DEF FilesInv, TreeInv, TypeInv, TypeOK
<1>6. KeepsKept
  BY CreateZeroTree DEF FilesInv
<1> QED
  BY <1>1, <1>2, <1>4, <1>5, <1>6, PassKept DEF Writes

\* A block of its own is the chain of a new file.
LEMMA OneBlock ==
  ASSUME NEW f, NEW h \in DataBlocks, f[h] = FAT_EOF
  PROVE  IsChain(f, [k \in 1 .. 1 |-> h], 1, h)
  BY DEF IsChain

LEMMA EmptyFile ==
  ASSUME Texts # {}, NEW f, NEW d, NEW h \in DataBlocks, f[h] = FAT_EOF
  PROVE  IsStored(f, d, h, 0)
<1>1. PICK t : t \in Texts
  OBVIOUS
<1>2. PICK w : w = [k \in 1 .. 1 |-> h]
  OBVIOUS
<1>3. IsChain(f, w, 1, h)
  BY <1>2, OneBlock
<1>4. HoldsText(d, w, 1, 0, t)
  BY BeforeNext DEF HoldsText, Slots
<1> QED
  BY <1>1, <1>3, <1>4 DEF IsStored, FileIs, Sized

\* The entries are in a directory, which no file's chain goes through.
LEMMA DirWritten ==
  ASSUME TreeInv, NEW s \in Sessions, lock = s, Place \notin {"F.save", "F.root", "idle"},
         NEW d, blocks' = [blocks EXCEPT ![cwd[s]] = d]
  PROVE  \A x \in DataBlocks : blocks'[x] # blocks[x] => Avoided(x)
<1>1. PICK w : w = cwd[s]
  OBVIOUS
<1>2. Avoided(w)
  BY <1>1, DirAvoided DEF TreeInv, Tree, InDirs
<1>3. \A x \in DataBlocks : blocks'[x] # blocks[x] => x = w
  BY <1>1, DataLayout DEF TreeInv, TypeInv, TypeOK
<1> QED
  BY <1>2, <1>3

LEMMA CreateEntryFiles ==
  ASSUME FilesInv, NEW s \in Sessions, CreateEntry(s)
  PROVE  Files'
<1>0. PICK c : c = curr[s]
  OBVIOUS
<1>1. /\ pc[s] = "C.entry" /\ lock' = NoOne /\ fat' = fat
      /\ blocks' = [blocks EXCEPT ![cwd[s]] = buf[s]]
      /\ Goto(s, "idle") /\ got' = [got EXCEPT ![s] = <<>>]
  BY DEF CreateEntry, Finish, ClearLocals
<1>2. lock = s /\ Place = "C.entry"
  BY <1>1, HolderPlace DEF FilesInv, TreeInv
<1>3. c \in DataBlocks /\ fat'[c] = FAT_EOF
  BY <1>0, <1>1, <1>2 DEF FilesInv, TreeInv, Tree, Hand, Creating, Alloc
<1>4. IsStored(fat', blocks', c, 0)
  BY <1>3, EmptyFile DEF FilesInv
<1>5. \A b \in DirBlocks, i \in Slots :
        Kept(b, i)' => \/ Kept(b, i) /\ blocks'[b][i] = blocks[b][i]
                       \/ blocks'[b][i].head = c /\ blocks'[b][i].size = 0
  BY <1>0, CreateEntryTree DEF FilesInv
<1>6. ASSUME NEW b \in DirBlocks, NEW i \in Slots, StoredAt(b, i)'
      PROVE  \/ StoredAt(b, i) /\ blocks'[b][i] = blocks[b][i]
             \/ IsStored(fat', blocks', blocks'[b][i].head, blocks'[b][i].size)
  <2>1. ~Writing(b, i)
    BY <1>2 DEF Writing, Writes
  <2> QED
    BY <1>4, <1>5, <1>6, <2>1 DEF StoredAt
<1>7. \A x \in DataBlocks : fat'[x] # fat[x] \/ blocks'[x] # blocks[x] => Avoided(x)
  BY <1>1, <1>2, DirWritten DEF FilesInv
<1> QED
  BY <1>1, <1>2, <1>6, <1>7, PassFiles DEF Writes

LEMMA DeleteEntryFiles ==
  ASSUME FilesInv, NEW s \in Sessions, DeleteEntry(s)
  PROVE  Files'
<1>1. /\ pc[s] = "D.entry" /\ lock' = NoOne /\ fat' = fat
      /\ blocks' = [blocks EXCEPT ![cwd[s]] = [buf[s] EXCEPT ![slot[s]] = Zero]]
      /\ Goto(s, "idle") /\ got' = [got EXCEPT ![s] = <<>>]
  BY DEF DeleteEntry, Finish, ClearLocals
<1>2. lock = s /\ Place = "D.entry"
  BY <1>1, HolderPlace DEF FilesInv, TreeInv
<1>3. \A x \in DataBlocks : fat'[x] # fat[x] \/ blocks'[x] # blocks[x] => Avoided(x)
  BY <1>1, <1>2, DirWritten DEF FilesInv
<1>4. KeepsKept
  BY DeleteEntryTree DEF FilesInv
<1> QED
  BY <1>1, <1>2, <1>3, <1>4, PassKept DEF Writes

LEMMA DeleteFreedFiles ==
  ASSUME FilesInv, NEW s \in Sessions, DeleteFreed(s)
  PROVE  Files'
<1>1. /\ pc[s] = "D.free" /\ lock' = lock /\ fat' = fat /\ blocks' = blocks
      /\ Goto(s, "D.save") /\ got' = got
  BY DEF DeleteFreed
<1>2. lock = s /\ Place = "D.free"
  BY <1>1, HolderPlace DEF FilesInv, TreeInv
<1>3. KeepsKept
  BY DeleteFreedTree DEF FilesInv
<1> QED
  BY <1>1, <1>2, <1>3, PassKept DEF Writes

\* What the loop frees is in no other file's chain.
LEMMA FreeFiles ==
  ASSUME FilesInv, NEW s \in Sessions, pc[s] \in {"W.free", "D.free"}, FreeStep(s)
  PROVE  Files'
<1>0. PICK c : c = curr[s]
  OBVIOUS
<1>1. /\ c \notin {FAT_EOF, FAT_FREE} /\ fat' = [fat EXCEPT ![c] = FAT_FREE]
      /\ lock' = lock /\ blocks' = blocks /\ cwd' = cwd /\ pc' = pc /\ buf' = buf
      /\ slot' = slot /\ got' = got /\ txt' = txt
  BY <1>0 DEF FreeStep
<1>2. lock = s /\ Place \in {"W.free", "D.free"} /\ Place' = Place
  BY <1>1, HolderPlace DEF FilesInv, TreeInv, Place
<1>3. /\ c \in DataBlocks
      /\ \A b \in DirBlocks, i \in Slots : Kept(b, i) => blocks[b][i].head # c
      /\ \A a \in DataBlocks :
           Alloc(a) /\ fat[a] = c => Place = "W.free" /\ a = OpenHead
  BY <1>0, <1>1, <1>2 DEF FilesInv, TreeInv, Tree, Hand, Freeing, FatVal
<1>4. Place = "W.free" => Avoided(OpenHead)
  BY OpenHeadAvoided DEF FilesInv, Writes
<1>5. Avoided(c)
  BY <1>3, <1>4, UnnamedAvoided DEF StoredAt
<1>6. \A x \in DataBlocks : fat'[x] # fat[x] => x = c
  BY <1>1, DataLayout DEF FilesInv, TreeInv, TypeInv, TypeOK
<1>7. KeepsKept
  BY FreeTree DEF FilesInv
<1>8. \A b, i : Writing(b, i) => Writing(b, i)'
  BY <1>1, <1>2 DEF Writing
<1>9. Stored'
  BY <1>1, <1>5, <1>6, <1>7, <1>8, KeptStays DEF FilesInv, Files
<1>10. Written' /\ Reading'
  BY <1>1, <1>2 DEF FilesInv, Files, Written, Reading
<1>11. NothingSent'
  BY <1>1 DEF FilesInv, Files, NothingSent
<1> QED
  BY <1>9, <1>10, <1>11 DEF Files

-----------------------------------------------------------------------------
\* cmd_write and cmd_read: the chain that is built, and the one that is read.

LEMMA WriteFileFiles ==
  ASSUME FilesInv, NEW s \in Sessions, NEW n \in Names, NEW l \in Lens, NEW t \in Texts,
         WriteFile(s, n, l, t)
  PROVE  Files'
<1>1. /\ lock = NoOne /\ lock' = s /\ fat' = fat /\ blocks' = blocks
      /\ pc' = [pc EXCEPT ![s] = "W.free"] /\ txt' = [txt EXCEPT ![s] = t]
      /\ got' = got
  BY DEF WriteFile, Lock, Goto
<1>2. Place = "idle" /\ Place' = "W.free" /\ txt'[s] = t
  BY <1>1, ConstantsAssumption DEF Place, FilesInv, TreeInv, TypeInv, TypeOK
<1>3. \A b, i : ~Writing(b, i)
  BY <1>2 DEF Writing, Writes
<1>4. KeepsKept
  BY WriteFileTree DEF FilesInv
<1>5. Stored'
  BY <1>1, <1>3, <1>4, KeptStays DEF FilesInv, Files
<1>6. Written' /\ Reading'
  BY <1>1, <1>2 DEF Written, Reading
<1>7. NothingSent'
  BY <1>1, SentNothing DEF FilesInv, Files, TreeInv
<1> QED
  BY <1>5, <1>6, <1>7 DEF Files

LEMMA ReadFileFiles ==
  ASSUME FilesInv, NEW s \in Sessions, NEW n \in Names, ReadFile(s, n)
  PROVE  Files'
<1>0. PICK d, i : d = blocks[cwd[s]] /\ i = First(SlotsNamed(d, n))
  OBVIOUS
<1>1. /\ lock = NoOne /\ lock' = s /\ fat' = fat /\ blocks' = blocks
      /\ SlotsNamed(d, n) # {} /\ d[i].type = "file"
      /\ buf' = [buf EXCEPT ![s] = d] /\ slot' = [slot EXCEPT ![s] = i]
      /\ curr' = [curr EXCEPT ![s] = d[i].head]
      /\ pc' = [pc EXCEPT ![s] = "R.data"] /\ got' = got /\ done' = done
      /\ pc[s] = "idle"
  BY <1>0 DEF ReadFile, Lock, Goto, Request
<1>2. Place = "idle" /\ Place' = "R.data"
  BY <1>1, ConstantsAssumption DEF Place, FilesInv, TreeInv, TypeInv, TypeOK
<1>3. \A b, j : ~Writing(b, j)
  BY <1>2 DEF Writing, Writes
<1>4. KeepsKept
  BY ReadFileTree DEF FilesInv
<1>5. Stored'
  BY <1>1, <1>3, <1>4, KeptStays DEF FilesInv, Files
<1>6. cwd[s] \in DirBlocks /\ i \in Slots /\ Kept(cwd[s], i) /\ d[i] \in Entry
  BY <1>0, <1>1, <1>2, FirstIsKept DEF FilesInv
<1>7. StoredAt(cwd[s], i)
  BY <1>0, <1>1, <1>3, <1>6 DEF StoredAt
<1>8. PICK h, z : h = d[i].head /\ z = d[i].size
  OBVIOUS
<1>9. PICK w, m, t : FileIs(fat, blocks, w, m, h, z, t)
  BY <1>0, <1>6, <1>7, <1>8 DEF FilesInv, Files, Stored, IsStored
<1>10. z \in Nat
  BY <1>6, <1>8, EntryFields
<1>11. m \in Nat \ {0} /\ w[1] = h
  BY <1>9 DEF FileIs, IsChain
<1>12. buf'[s] = d /\ slot'[s] = i /\ curr'[s] = h
  BY <1>1, <1>8 DEF FilesInv, TreeInv, TypeInv, TypeOK
<1>13. got'[s] = <<>> /\ done'[s] = 0
  BY <1>1 DEF FilesInv, TreeInv, TypeInv, LocalsOK, Files, NothingSent
<1>14. OpenHead' = h /\ buf'[lock'][slot'[lock']].size = z
  BY <1>1, <1>8, <1>12 DEF OpenHead
<1>15. 1 \in 1 .. m /\ done'[s] = Before(1)
  BY <1>11, <1>13, BeforeNext
<1>16. Sent(w, m, t, z)'
  BY <1>1, <1>9, <1>10, <1>11, <1>12, <1>13, <1>14, <1>15 DEF Sent
<1>17. Written' /\ Reading'
  BY <1>2, <1>14, <1>16 DEF Written, Reading, Writes
<1>18. NothingSent'
  BY <1>1, SentNothing DEF FilesInv, Files, TreeInv
<1> QED
  BY <1>5, <1>17, <1>18 DEF Files

LEMMA WriteHeadFiles ==
  ASSUME FilesInv, NEW s \in Sessions, WriteHead(s)
  PROVE  Files'
<1>0. PICK h, to : h = OpenHead /\ to = IF len[s] > 0 THEN "W.data" ELSE "W.save"
  OBVIOUS
<1>1. pc[s] = "W.free"
  BY DEF WriteHead
<1>2. lock = s /\ lock # NoOne /\ Place = "W.free" /\ h = buf[s][slot[s]].head
  BY <1>0, <1>1, HolderPlace DEF FilesInv, TreeInv, OpenHead
<1>3. /\ fat' = [fat EXCEPT ![h] = FAT_EOF] /\ curr' = [curr EXCEPT ![s] = h]
      /\ pc' = [pc EXCEPT ![s] = to] /\ lock' = lock /\ blocks' = blocks /\ cwd' = cwd
      /\ buf' = buf /\ slot' = slot /\ done' = done /\ txt' = txt /\ got' = got
  BY <1>0, <1>2 DEF WriteHead, Goto
<1>4. /\ Place' = to /\ to \in {"W.data", "W.save"} /\ OpenHead' = h /\ curr'[s] = h
      /\ done[s] = 0 /\ txt[s] \in Texts
  BY <1>0, <1>1, <1>2, <1>3 DEF Place, OpenHead, FilesInv, TreeInv, TypeInv, TypeOK,
     LocalsOK, Files, Written, Writes
<1>5. h \in DataBlocks
  BY <1>0, <1>2, OpenIsEntry DEF FilesInv, TreeInv, AtWork
<1>6. fat'[h] = FAT_EOF /\ \A x \in DataBlocks : fat'[x] # fat[x] => x = h
  BY <1>3, <1>5, DataLayout DEF FilesInv, TreeInv, TypeInv, TypeOK
<1>7. Avoided(h)
  BY <1>0, <1>2, OpenHeadAvoided DEF FilesInv, Writes
<1>8. \A b, i : Writing(b, i) => Writing(b, i)'
  BY <1>2, <1>3, <1>4 DEF Writing, Writes
<1>9. KeepsKept
  BY WriteHeadTree DEF FilesInv
<1>10. Stored'
  BY <1>3, <1>6, <1>7, <1>8, <1>9, KeptStays DEF FilesInv, Files
<1>11. PICK w : w = [k \in 1 .. 1 |-> h]
  OBVIOUS
<1>12. IsChain(fat', w, 1, h)
  BY <1>5, <1>6, <1>11, OneBlock
<1>13. HoldsText(blocks', w, 1, 0, txt[s])
  BY BeforeNext DEF HoldsText, Slots
<1>14. Written'
  <2>1. w[1] = h /\ Before(1) = 0
    BY <1>11, BeforeNext
  <2>2. lock' = s /\ done'[s] = 0 /\ txt'[s] = txt[s]
    BY <1>2, <1>3, <1>4
  <2>3. Filled(w, 1)'
    BY <1>4, <1>12, <1>13, <2>1, <2>2 DEF Filled
  <2>4. FileIs(fat', blocks', w, 1, h, 0, txt[s])
    BY <1>4, <1>12, <1>13 DEF FileIs, Sized
  <2> QED
    BY <1>4, <2>2, <2>3, <2>4 DEF Written
<1>15. Reading'
  BY <1>4 DEF Reading
<1>16. NothingSent'
  BY <1>3, <1>4, SentNothing DEF FilesInv, Files, TreeInv
<1> QED
  BY <1>10, <1>14, <1>15, <1>16 DEF Files

\* A chunk of text in the last block of a chain whose other blocks are full.
LEMMA ChunkText ==
  ASSUME NEW f, NEW v, NEW m, NEW h, IsChain(f, v, m, h),
         NEW d, NEW t, HoldsText(d, v, m, Before(m), t),
         NEW e, NEW u \in 0 .. BlockSize, e[v[m]] = Chunk(t, u),
         \A x \in DataBlocks : x # v[m] => e[x] = d[x]
  PROVE  HoldsText(e, v, m, Before(m) + u, t)
<1> SUFFICES ASSUME NEW k \in 1 .. m, NEW i \in Slots, Before(k) + i <= Before(m) + u
             PROVE  e[v[k]][i] = t
  BY DEF HoldsText
<1>1. m \in Nat \ {0} /\ v[k] \in DataBlocks
  BY DEF IsChain
<1>2. k \in Nat \ {0} /\ i \in Nat /\ i <= BlockSize /\ BlockSize \in Nat
  BY <1>1, ConstantsAssumption DEF Slots
<1>3. Before(k) \in Nat /\ Before(m) \in Nat
  BY <1>1, <1>2, BeforeNext
<1>4. CASE k = m
  <2>1. i <= u
    BY <1>2, <1>3, <1>4
  <2> QED
    BY <1>4, <2>1 DEF Chunk, Slots
<1>5. CASE k # m
  <2>1. k < m
    BY <1>1, <1>2, <1>5
  <2>2. Before(k) + BlockSize <= Before(m)
    BY <1>1, <1>2, <2>1, BeforeGrows
  <2>3. Before(k) + i <= Before(m)
    BY <1>2, <1>3, <2>2
  <2>4. m \in 1 .. m
    BY <1>1
  <2>5. v[k] # v[m]
    BY <1>5, <2>4 DEF IsChain
  <2> QED
    BY <1>1, <2>3, <2>5 DEF HoldsText
<1> QED
  BY <1>4, <1>5

\* A free block put at the end of a chain makes it one block longer.
LEMMA ChainLonger ==
  ASSUME NEW f, NEW v, NEW m, NEW g, IsChain(f, v, m, g),
         NEW h \in DataBlocks, \A k \in 1 .. m : v[k] # h,
         NEW e, NEW t, HoldsText(e, v, m, Before(m) + BlockSize, t),
         NEW ff, ff[v[m]] = h, ff[h] = FAT_EOF,
         \A x \in DataBlocks : x # v[m] /\ x # h => ff[x] = f[x]
  PROVE  \E w : /\ IsChain(ff, w, m + 1, g) /\ w[m + 1] = h
                /\ HoldsText(e, w, m + 1, Before(m + 1), t)
<1>1. PICK w : w = [k \in 1 .. m + 1 |-> IF k = m + 1 THEN h ELSE v[k]]
  OBVIOUS
<1>2. /\ m \in Nat \ {0} /\ v \in [1 .. m -> DataBlocks] /\ v[1] = g
      /\ \A k \in 1 .. m : k # m => f[v[k]] = v[k + 1]
      /\ \A j, k \in 1 .. m : v[j] = v[k] => j = k
  BY DEF IsChain
<1>3. /\ w[m + 1] = h /\ \A k \in 1 .. m : w[k] = v[k]
      /\ \A k \in 1 .. m + 1 : k # m + 1 => k \in 1 .. m
      /\ m + 1 \in 1 .. m + 1
  BY <1>1, <1>2
<1>4. w \in [1 .. m + 1 -> DataBlocks] /\ w[1] = g
  BY <1>1, <1>2, <1>3
<1>5. ASSUME NEW k \in 1 .. m
      PROVE  ff[w[k]] = w[k + 1]
  <2>1. CASE k = m
    BY <1>3, <2>1
  <2>2. CASE k # m
    <3>1. k + 1 \in 1 .. m /\ m \in 1 .. m
      BY <1>2, <2>2
    <3>2. v[k] \in DataBlocks /\ v[k] # v[m] /\ v[k] # h
      BY <1>2, <2>2, <3>1
    <3>3. ff[v[k]] = v[k + 1]
      BY <1>2, <2>2, <3>2
    <3> QED
      BY <1>3, <3>1, <3>3
  <2> QED
    BY <2>1, <2>2
<1>6. ASSUME NEW j \in 1 .. m + 1, NEW k \in 1 .. m + 1, w[j] = w[k]
      PROVE  j = k
  BY <1>2, <1>3, <1>6
<1>7. IsChain(ff, w, m + 1, g)
  BY <1>2, <1>3, <1>4, <1>5, <1>6 DEF IsChain
<1>8. HoldsText(e, w, m + 1, Before(m + 1), t)
  <2> SUFFICES ASSUME NEW k \in 1 .. m + 1, NEW i \in Slots,
                      Before(k) + i <= Before(m + 1)
               PROVE  e[w[k]][i] = t
    BY DEF HoldsText
  <2>1. Before(m + 1) \in Nat /\ Before(m + 1) = Before(m) + BlockSize
    BY <1>2, BeforeNext
  <2>2. i \in Nat /\ i >= 1
    BY ConstantsAssumption DEF Slots
  <2>3. k # m + 1
    BY <2>1, <2>2
  <2> QED
    BY <1>3, <2>1, <2>3 DEF HoldsText
<1> QED
  BY <1>3, <1>7, <1>8

LEMMA WriteChunkFiles ==
  ASSUME FilesInv, NEW s \in Sessions, WriteChunk(s)
  PROVE  Files'
<1>0. PICK c, h, u, t : /\ c = curr[s] /\ h = FindFree(fat) /\ t = txt[s]
                        /\ u = AtMostBlock(len[s] - done[s])
  OBVIOUS
<1> DEFINE Extends == done[s] + u < len[s] /\ FreeBlocks(fat) # {}
<1>1. /\ pc[s] = "W.data" /\ blocks' = [blocks EXCEPT ![c] = Chunk(t, u)]
      /\ done' = [done EXCEPT ![s] = @ + u]
      /\ lock' = lock /\ cwd' = cwd /\ buf' = buf /\ slot' = slot /\ txt' = txt
      /\ got' = got
      /\ Extends => /\ fat' = [fat EXCEPT ![c] = h, ![h] = FAT_EOF]
                    /\ curr' = [curr EXCEPT ![s] = h] /\ pc' = pc
      /\ ~Extends => /\ fat' = fat /\ curr' = curr
                     /\ pc' = [pc EXCEPT ![s] = "W.save"]
  BY <1>0 DEF WriteChunk, Goto
<1>2. lock = s /\ lock # NoOne /\ Place = "W.data" /\ OpenHead' = OpenHead
  BY <1>1, HolderPlace DEF FilesInv, TreeInv, OpenHead
<1>3. PICK g : g = OpenHead
  OBVIOUS
<1>4. t \in Texts /\ \E v, m : Filled(v, m)
  BY <1>0, <1>2 DEF FilesInv, Files, Written, Writes
<1>5. PICK v, m : Filled(v, m)
  BY <1>4
<1>6. /\ IsChain(fat, v, m, g) /\ HoldsText(blocks, v, m, Before(m), t)
      /\ v[m] = c /\ done[s] = Before(m)
  BY <1>0, <1>2, <1>3, <1>5 DEF Filled
<1>7. m \in Nat \ {0} /\ m \in 1 .. m /\ Before(m) \in Nat
  <2>1. m \in Nat \ {0}
    BY <1>6 DEF IsChain
  <2> QED
    BY <2>1, BeforeNext
<1>8. c \in DataBlocks /\ Alloc(c)
  BY <1>6, <1>7, ChainAlloc
<1>9. /\ u \in 1 .. BlockSize /\ BlockSize \in Nat
      /\ done[s] + u < len[s] => u = BlockSize
  <2>1. done[s] \in Nat /\ len[s] \in Nat /\ done[s] < len[s] /\ BlockSize \in Nat \ {0}
    BY <1>1, ConstantsAssumption DEF FilesInv, TreeInv, TypeInv, TypeOK, LocalsOK
  <2> QED
    BY <1>0, <2>1 DEF AtMostBlock
<1>10. Extends => h \in DataBlocks /\ fat[h] = FAT_FREE /\ ~Alloc(h) /\ h # c
  BY <1>0, <1>8, FindFreeIsFree DEF Alloc
<1>11. /\ fat \in [Blocks -> FatVal] /\ blocks \in [DirBlocks -> Block]
       /\ curr \in [Sessions -> FatVal \cup {Root}] /\ pc \in [Sessions -> Pcs]
       /\ done \in [Sessions -> Nat]
  BY DEF FilesInv, TreeInv, TypeInv, TypeOK
<1>12. done'[s] = Before(m) + u
  BY <1>1, <1>6, <1>11
<1>13. Place' = IF Extends THEN "W.data" ELSE "W.save"
  BY <1>1, <1>2, <1>11 DEF Place
<1>14. blocks'[c] = Chunk(t, u) /\ \A x \in DataBlocks : x # c => blocks'[x] = blocks[x]
  BY <1>1, <1>8, <1>11, DataLayout
<1>15. HoldsText(blocks', v, m, Before(m) + u, t)
  <2>1. u \in 0 .. BlockSize
    BY <1>9
  <2> QED
    BY <1>6, <1>14, <2>1, ChunkText
<1> HIDE DEF Extends
<1>16. Extends => /\ fat'[c] = h /\ fat'[h] = FAT_EOF /\ curr'[s] = h
                  /\ \A x \in DataBlocks : x # c /\ x # h => fat'[x] = fat[x]
  BY <1>1, <1>8, <1>10, <1>11, DataLayout
<1>17. Stored'
  <2>1. Avoided(c)
    BY <1>2, <1>3, <1>6, <1>7, OpenAvoided DEF FilesInv, Writes
  <2>2. Extends => Avoided(h)
    BY <1>10, FreeAvoided
  <2>3. \A x \in DataBlocks : fat'[x] # fat[x] \/ blocks'[x] # blocks[x] => Avoided(x)
    BY <1>1, <1>14, <1>16, <2>1, <2>2
  <2>4. \A b, i : Writing(b, i) => Writing(b, i)'
    BY <1>1, <1>2, <1>13 DEF Writing, Writes
  <2>5. KeepsKept
    BY WriteChunkTree DEF FilesInv
  <2> QED
    BY <2>3, <2>4, <2>5, KeptStays DEF FilesInv, Files
<1>18. Written'
  <2>1. CASE Extends
    <3>1. \A k \in 1 .. m : v[k] # h
      BY <1>6, <1>10, <2>1, ChainAlloc
    <3>2. HoldsText(blocks', v, m, Before(m) + BlockSize, t)
      BY <1>9, <1>15, <2>1 DEF Extends
    <3>3. PICK w : /\ IsChain(fat', w, m + 1, g) /\ w[m + 1] = h
                   /\ HoldsText(blocks', w, m + 1, Before(m + 1), t)
      BY <1>6, <1>10, <1>16, <2>1, <3>1, <3>2, ChainLonger
    <3>4. done'[s] = Before(m + 1)
      BY <1>7, <1>9, <1>12, <2>1, BeforeNext DEF Extends
    <3>5. Filled(w, m + 1)'
      BY <1>0, <1>1, <1>2, <1>3, <1>16, <2>1, <3>3, <3>4 DEF Filled
    <3> QED
      BY <1>0, <1>1, <1>2, <1>4, <1>13, <2>1, <3>5 DEF Written
  <2>2. CASE ~Extends
    <3>1. Sized(m, Before(m) + u)
      BY <1>7, <1>9 DEF Sized
    <3>2. FileIs(fat', blocks', v, m, g, Before(m) + u, t)
      BY <1>1, <1>4, <1>6, <1>15, <2>2, <3>1 DEF FileIs
    <3> QED
      BY <1>0, <1>1, <1>2, <1>3, <1>4, <1>12, <1>13, <2>2, <3>2 DEF Written
  <2> QED
    BY <2>1, <2>2
<1>19. Reading'
  BY <1>13 DEF Reading
<1>20. NothingSent'
  <2>1. pc' = [pc EXCEPT ![s] = "W.save"] \/ pc' = pc
    BY <1>1
  <2> QED
    BY <1>1, <2>1, SentNothing DEF FilesInv, Files, TreeInv
<1> QED
  BY <1>17, <1>18, <1>19, <1>20 DEF Files

\* The entry that is written back names the chain that was built.
LEMMA WriteEntryFiles ==
  ASSUME FilesInv, NEW s \in Sessions, WriteEntry(s)
  PROVE  Files'
<1>0. PICK b0, i0, h, z : b0 = cwd[s] /\ i0 = slot[s] /\ h = OpenHead /\ z = done[s]
  OBVIOUS
<1>1. /\ pc[s] = "W.entry" /\ lock' = NoOne /\ fat' = fat
      /\ blocks' = [blocks EXCEPT ![cwd[s]] = [buf[s] EXCEPT ![slot[s]].size = done[s]]]
      /\ pc' = [pc EXCEPT ![s] = "idle"] /\ got' = [got EXCEPT ![s] = <<>>]
  BY DEF WriteEntry, Finish, ClearLocals, Goto
<1>2. lock = s /\ lock # NoOne /\ Place = "W.entry" /\ Place' = "idle"
  BY <1>1, HolderPlace DEF FilesInv, TreeInv, Place
<1>3. /\ b0 \in DirBlocks /\ i0 \in Slots /\ EntryIn(b0, i0) /\ Kept(b0, i0)
      /\ h = blocks[b0][i0].head /\ blocks[b0][i0].type = "file"
      /\ b0 = Root \/ IsDir(b0)
  BY <1>0, <1>2, OpenIsEntry DEF FilesInv, TreeInv, AtWork, Tree, Hand, Opened, InDirs,
     Kept, Dropped
<1>4. PICK w, n : FileIs(fat, blocks, w, n, h, z, txt[s])
  BY <1>0, <1>2 DEF FilesInv, Files, Written
<1>5. IsChain(fat, w, n, h)
  BY <1>4 DEF FileIs
<1>6. ASSUME NEW k \in 1 .. n
      PROVE  fat'[w[k]] = fat[w[k]] /\ blocks'[w[k]] = blocks[w[k]]
  <2>1. w[k] # Root /\ ~IsDir(w[k])
    BY <1>3, <1>5, FileNoDir DEF FilesInv
  <2>2. w[k] \in DirBlocks /\ w[k] # b0
    BY <1>3, <1>5, <2>1, ChainAlloc, DataLayout
  <2> QED
    BY <1>0, <1>1, <2>2 DEF FilesInv, TreeInv, TypeInv, TypeOK
<1>7. IsStored(fat', blocks', h, z)
  <2>1. FileIs(fat', blocks', w, n, h, z, txt[s])
    BY <1>4, <1>6, FileStays
  <2> QED
    BY <2>1 DEF IsStored
<1>8. ASSUME NEW b \in DirBlocks, NEW i \in Slots, StoredAt(b, i)'
      PROVE  \/ StoredAt(b, i) /\ blocks'[b][i] = blocks[b][i]
             \/ IsStored(fat', blocks', blocks'[b][i].head, blocks'[b][i].size)
  <2>1. \/ /\ Kept(b, i) /\ blocks'[b][i] = blocks[b][i]
           /\ ~(b = b0 /\ i = i0)
        \/ blocks'[b][i].head = h /\ blocks'[b][i].size = z
    BY <1>0, <1>8, WriteEntryTree DEF FilesInv, StoredAt
  <2>2. Writing(b, i) => b = b0 /\ i = i0
    BY <1>0, <1>2 DEF Writing
  <2> QED
    BY <1>7, <1>8, <2>1, <2>2 DEF StoredAt
<1>9. \A x \in DataBlocks : fat'[x] # fat[x] \/ blocks'[x] # blocks[x] => Avoided(x)
  BY <1>1, <1>2, DirWritten DEF FilesInv
<1>10. Stored'
  BY <1>8, <1>9, StoredStays DEF FilesInv, Files
<1>11. Written' /\ Reading'
  BY <1>2, AwayFiles DEF Writes
<1>12. NothingSent'
  BY <1>1, SentNothing DEF FilesInv, Files, TreeInv
<1> QED
  BY <1>10, <1>11, <1>12 DEF Files

\* What is read of a block that holds a text follows what was read of it before.
LEMMA SendText ==
  ASSUME NEW q \in Seq(Unit), NEW d \in Block, NEW u \in 1 .. BlockSize, NEW t,
         \A i \in 1 .. Len(q) : q[i] = t, \A i \in 1 .. u : d[i] = t,
         NEW r, r = SubSeq(d, 1, u)
  PROVE  Len(q \o r) = Len(q) + u /\ \A i \in 1 .. Len(q) + u : (q \o r)[i] = t
<1>1. BlockSize \in Nat /\ u \in Nat
  BY ConstantsAssumption
<1>2. d \in Seq(Unit) /\ Len(d) = BlockSize
  BY <1>1 DEF Block
<1>3. r \in Seq(Unit) /\ Len(r) = u /\ \A i \in 1 .. u : r[i] = d[i]
  BY <1>1, <1>2
<1>4. Len(q \o r) = Len(q) + u
  BY <1>3
<1>5. ASSUME NEW i \in 1 .. Len(q) + u
      PROVE  (q \o r)[i] = t
  <2>1. CASE i <= Len(q)
    BY <1>1, <1>3, <2>1
  <2>2. CASE i > Len(q)
    <3>1. i - Len(q) \in 1 .. u /\ (q \o r)[i] = r[i - Len(q)]
      BY <1>1, <1>3, <2>2
    <3> QED
      BY <1>3, <3>1
  <2> QED
    BY <1>1, <2>1, <2>2
<1> QED
  BY <1>4, <1>5

LEMMA ReadChunkFiles ==
  ASSUME FilesInv, NEW s \in Sessions, ReadChunk(s)
  PROVE  Files'
<1>0. PICK c, z, q, g, u : /\ c = curr[s] /\ z = buf[s][slot[s]].size /\ q = got[s]
                           /\ g = OpenHead /\ u = AtMostBlock(z - done[s])
  OBVIOUS
<1>1. PICK r : r = SubSeq(BlockAt(c), 1, u)
  OBVIOUS
<1>2. /\ pc[s] = "R.data" /\ ~ReadOver(s)
      /\ got' = [got EXCEPT ![s] = q \o r] /\ done' = [done EXCEPT ![s] = @ + u]
      /\ curr' = [curr EXCEPT ![s] = fat[c]]
      /\ fat' = fat /\ blocks' = blocks /\ lock' = lock /\ pc' = pc /\ buf' = buf
      /\ slot' = slot /\ cwd' = cwd
  BY <1>0, <1>1 DEF ReadChunk
<1>3. lock = s /\ Place = "R.data" /\ Place' = "R.data" /\ OpenHead' = g
  BY <1>0, <1>2, HolderPlace DEF FilesInv, TreeInv, Place, OpenHead
<1>4. /\ curr \in [Sessions -> FatVal \cup {Root}] /\ done \in [Sessions -> Nat]
      /\ got \in [Sessions -> Seq(Unit)] /\ blocks \in [DirBlocks -> Block]
      /\ z \in Nat /\ BlockSize \in Nat \ {0}
  BY <1>0, <1>2, EntryFields, ConstantsAssumption DEF FilesInv, TreeInv, TypeInv, TypeOK,
     LocalsOK, AtWork
<1>5. PICK w, n, t : Sent(w, n, t, z)
  BY <1>0, <1>3 DEF FilesInv, Files, Reading
<1>6. /\ FileIs(fat, blocks, w, n, g, z, t) /\ Len(q) = done[s] /\ done[s] < z
      /\ c # FAT_EOF /\ \A i \in 1 .. done[s] : q[i] = t
      /\ \E k \in 1 .. n : c = w[k] /\ done[s] = Before(k)
  BY <1>0, <1>2, <1>3, <1>4, <1>5 DEF Sent, ReadOver
<1>7. PICK k \in 1 .. n : c = w[k] /\ done[s] = Before(k)
  BY <1>6
<1>8. /\ IsChain(fat, w, n, g) /\ Sized(n, z) /\ HoldsText(blocks, w, n, z, t)
      /\ n \in Nat \ {0} /\ c \in DataBlocks /\ c \in DirBlocks
  BY <1>6, <1>7, DataLayout DEF FileIs, IsChain
<1>9. /\ u \in 1 .. BlockSize /\ done[s] + u <= z
      /\ z <= done[s] + BlockSize => done[s] + u = z
      /\ z > done[s] + BlockSize => u = BlockSize
  BY <1>0, <1>4, <1>6 DEF AtMostBlock
<1>10. PICK d : d = blocks[c]
  OBVIOUS
<1>11. d \in Block /\ r = SubSeq(d, 1, u) /\ q \in Seq(Unit)
  BY <1>0, <1>1, <1>4, <1>8, <1>10 DEF BlockAt
<1>12. \A i \in 1 .. u : d[i] = t
  <2> SUFFICES ASSUME NEW i \in 1 .. u
               PROVE  d[i] = t
    OBVIOUS
  <2>1. i \in Slots /\ Before(k) + i <= z
    BY <1>4, <1>7, <1>9 DEF Slots
  <2> QED
    BY <1>7, <1>8, <1>10, <2>1 DEF HoldsText
<1>13. Len(q \o r) = Len(q) + u /\ \A i \in 1 .. Len(q) + u : (q \o r)[i] = t
  BY <1>6, <1>9, <1>11, <1>12, SendText
<1>14. got'[s] = q \o r /\ done'[s] = done[s] + u /\ curr'[s] = fat[c]
  BY <1>2, <1>4
<1>15. \/ \E j \in 1 .. n : fat[c] = w[j] /\ done[s] + u = Before(j)
       \/ fat[c] = FAT_EOF /\ done[s] + u = z
  <2>1. CASE k = n
    <3>1. z <= done[s] + BlockSize
      BY <1>4, <1>6, <1>7, <1>8, <2>1 DEF Sized
    <3>2. fat[c] = FAT_EOF
      BY <1>7, <1>8, <2>1 DEF IsChain
    <3> QED
      BY <1>9, <3>1, <3>2
  <2>2. CASE k # n
    <3>1. k + 1 \in 1 .. n /\ k \in Nat \ {0} /\ k < n
      BY <1>8, <2>2
    <3>2. fat[c] = w[k + 1]
      BY <1>7, <1>8, <2>2 DEF IsChain
    <3>3. Before(k) + BlockSize <= Before(n) /\ Before(n) \in Nat
      BY <1>8, <3>1, BeforeGrows, BeforeNext
    <3>4. Before(n) < z
      BY <1>4, <1>6, <1>8 DEF Sized
    <3>5. u = BlockSize
      BY <1>4, <1>7, <1>9, <3>3, <3>4
    <3>6. done[s] + u = Before(k + 1)
      BY <1>7, <3>1, <3>5, BeforeNext
    <3> QED
      BY <3>1, <3>2, <3>6
  <2> QED
    BY <2>1, <2>2
<1>16. Reading'
  <2>1. buf'[lock'][slot'[lock']].size = z
    BY <1>0, <1>2, <1>3
  <2>2. Sent(w, n, t, z)'
    BY <1>2, <1>3, <1>6, <1>9, <1>13, <1>14, <1>15 DEF Sent
  <2> QED
    BY <2>1, <2>2 DEF Reading
<1>17. Written'
  BY <1>3 DEF Written, Writes
<1>18. Stored'
  <2>1. \A b, i : ~Writing(b, i)
    BY <1>3 DEF Writing, Writes
  <2>2. KeepsKept
    BY ReadChunkTree DEF FilesInv
  <2> QED
    BY <1>2, <2>1, <2>2, KeptStays DEF FilesInv, Files
<1>19. NothingSent'
  BY <1>2, <1>4 DEF FilesInv, Files, NothingSent
<1> QED
  BY <1>16, <1>17, <1>18, <1>19 DEF Files

LEMMA ReadEndFiles ==
  ASSUME FilesInv, NEW s \in Sessions, ReadEnd(s)
  PROVE  Files'
<1>1. /\ pc[s] = "R.data" /\ lock' = NoOne /\ fat' = fat /\ blocks' = blocks
      /\ pc' = [pc EXCEPT ![s] = "idle"] /\ got' = [got EXCEPT ![s] = <<>>]
  BY DEF ReadEnd, Finish, ClearLocals, Goto
<1>2. Place = "R.data" /\ Place' = "idle"
  BY <1>1, HolderPlace DEF FilesInv, TreeInv, Place
<1>3. \A b, i : ~Writing(b, i)
  BY <1>2 DEF Writing, Writes
<1>4. KeepsKept
  BY ReadEndTree DEF FilesInv
<1>5. Stored'
  BY <1>1, <1>3, <1>4, KeptStays DEF FilesInv, Files
<1>6. Written' /\ Reading'
  BY <1>2, AwayFiles DEF Writes
<1>7. NothingSent'
  BY <1>1, SentNothing DEF FilesInv, Files, TreeInv
<1> QED
  BY <1>5, <1>6, <1>7 DEF Files

-----------------------------------------------------------------------------
\* The invariant holds at every step.

LEMMA InitFiles == Texts # {} /\ NothingStale /\ Init => FilesInv
<1> SUFFICES ASSUME Texts # {}, NothingStale, Init
             PROVE  FilesInv
  OBVIOUS
<1>1. TreeInv
  BY InitTree
<1>2. Place = "idle"
  BY DEF Init, Place
<1>3. \A b \in DirBlocks, i \in Slots : ~StoredAt(b, i)
  BY DEF Init, StoredAt, Kept, EntryIn, ZeroBlock, Slots, Pieces
<1>4. Stored
  BY <1>3 DEF Stored
<1>5. Written /\ Reading
  BY <1>2 DEF Written, Reading, Writes
<1>6. NothingSent
  BY DEF Init, NothingSent, Each
<1> QED
  BY <1>1, <1>4, <1>5, <1>6 DEF FilesInv, Files

LEMMA ClientFiles ==
  ASSUME FilesInv, NEW s \in Sessions, ClientStep(s)
  PROVE  Files'
<1>1. CASE Format(s)
  BY <1>1, FormatFiles
<1>2. CASE List(s)
  BY <1>2, AnswerFiles DEF List
<1>3. CASE CdRoot(s) \/ Reconnect(s)
  <2>1. /\ pc[s] = "idle" /\ cwd' = [cwd EXCEPT ![s] = Root]
        /\ UNCHANGED <<memory, disk, pc, locals>>
    BY <1>3 DEF CdRoot, Reconnect, Request
  <2>2. KeepsKept
    BY <2>1, CdTree DEF FilesInv
  <2> QED
    BY <2>1, <2>2, CdFiles
<1>4. ASSUME NEW n \in Names,
             \/ CreateRefused(s, n) \/ ReadRefused(s, n) \/ WriteRefused(s, n)
             \/ CdRefused(s, n) \/ DeleteRefused(s, n, "file")
             \/ DeleteRefused(s, n, "dir")
      PROVE  Files'
  <2>1. \E r : Answer(s, r)
    BY <1>4 DEF CreateRefused, ReadRefused, WriteRefused, CdRefused, DeleteRefused
  <2> QED
    BY <2>1, AnswerFiles
<1>5. ASSUME NEW n \in Names, Create(s, n)
      PROVE  Files'
  BY <1>4, <1>5, CreateAllocFiles DEF Create
<1>6. ASSUME NEW n \in Names, Delete(s, n)
      PROVE  Files'
  BY <1>4, <1>6, DeleteFileFiles DEF Delete
<1>7. ASSUME NEW n \in Names, Cd(s, n)
      PROVE  Files'
  <2>1. PICK d : /\ pc[s] = "idle" /\ cwd' = [cwd EXCEPT ![s] = d]
                 /\ UNCHANGED <<memory, disk, pc, locals>>
    BY <1>7 DEF Cd, LockedRequest, Request
  <2>2. KeepsKept
    BY <1>7, CdIsDir DEF FilesInv
  <2> QED
    BY <2>1, <2>2, CdFiles
<1>8. ASSUME NEW n \in Names,
             ReadFile(s, n) \/ \E l \in Lens, t \in Texts : WriteFile(s, n, l, t)
      PROVE  Files'
  BY <1>8, ReadFileFiles, WriteFileFiles
<1> QED
  BY <1>1, <1>2, <1>3, <1>4, <1>5, <1>6, <1>7, <1>8 DEF ClientStep

LEMMA HandlerFiles ==
  ASSUME FilesInv, NEW s \in Sessions, HandlerStep(s)
  PROVE  Files'
<1>1. CASE \/ SaveFat(s, "F.save", "F.root") \/ SaveFat(s, "C.save", "C.zero")
           \/ SaveFat(s, "W.save", "W.entry") \/ SaveFat(s, "D.save", "D.entry")
  BY <1>1, SaveFiles
<1>2. CASE FormatRoot(s) \/ CreateZero(s) \/ CreateEntry(s) \/ WriteEntry(s)
           \/ DeleteEntry(s)
  BY <1>2, FormatRootFiles, CreateZeroFiles, CreateEntryFiles, WriteEntryFiles,
     DeleteEntryFiles
<1>3. CASE WriteFree(s) \/ DeleteFree(s)
  BY <1>3, FreeFiles DEF WriteFree, DeleteFree
<1>4. CASE WriteHead(s) \/ WriteChunk(s)
  BY <1>4, WriteHeadFiles, WriteChunkFiles
<1>5. CASE ReadChunk(s) \/ ReadEnd(s) \/ DeleteFreed(s)
  BY <1>5, ReadChunkFiles, ReadEndFiles, DeleteFreedFiles
<1> QED
  BY <1>1, <1>2, <1>3, <1>4, <1>5 DEF HandlerStep

LEMMA NextFiles == FilesInv /\ [Next]_vars => FilesInv'
<1> SUFFICES ASSUME FilesInv, [Next]_vars
             PROVE  FilesInv'
  OBVIOUS
<1>1. TreeInv'
  BY NextTree DEF FilesInv
<1>2. ~Restart
  BY ConstantsAssumption DEF FilesInv, TreeInv, NothingStale, TypeInv, TypeOK, Restart
<1>3. Files'
  BY <1>2, StutterFiles, ClientFiles, HandlerFiles DEF Next
<1> QED
  BY <1>1, <1>3 DEF FilesInv

-----------------------------------------------------------------------------
\* What the invariant gives the properties.

LEMMA FilesRead == FilesInv => ReadsWholeFile
<1> SUFFICES ASSUME FilesInv, NEW s \in Sessions, pc[s] = "R.data", ReadOver(s)
             PROVE  /\ Len(got[s]) = buf[s][slot[s]].size
                    /\ \E t \in Texts : \A i \in 1 .. Len(got[s]) : got[s][i] = t
  BY DEF ReadsWholeFile
<1>1. lock = s /\ Place = "R.data"
  BY HolderPlace DEF FilesInv, TreeInv
<1>2. PICK z : z = buf[s][slot[s]].size
  OBVIOUS
<1>3. PICK w, n, t : Sent(w, n, t, z)
  BY <1>1, <1>2 DEF FilesInv, Files, Reading
<1>4. /\ FileIs(fat, blocks, w, n, OpenHead, z, t) /\ Len(got[s]) = done[s]
      /\ done[s] <= z /\ \A i \in 1 .. done[s] : got[s][i] = t
      /\ (\E k \in 1 .. n : curr[s] = w[k]) \/ done[s] = z
  BY <1>1, <1>3 DEF Sent
<1>5. t \in Texts /\ \A k \in 1 .. n : w[k] # FAT_EOF
  BY <1>4, DataLayout DEF FileIs, IsChain
<1>6. z \in Nat /\ done[s] \in Nat
  BY <1>2, EntryFields DEF FilesInv, TreeInv, TypeInv, TypeOK, LocalsOK, AtWork
<1>7. done[s] = z
  BY <1>2, <1>4, <1>5, <1>6 DEF ReadOver
<1> QED
  BY <1>2, <1>4, <1>5, <1>7

\* A chain has no more blocks than the disk.
LEMMA ChainFits ==
  ASSUME NEW f, NEW w, NEW n, NEW h, IsChain(f, w, n, h)
  PROVE  n <= NumBlocks
<1>1. n \in Nat \ {0} /\ w \in [1 .. n -> DataBlocks]
      /\ \A j, k \in 1 .. n : w[j] = w[k] => j = k
  BY DEF IsChain
<1>2. NumBlocks \in Nat /\ DataBlocks \subseteq 0 .. NumBlocks - 1
  BY Layout DEF DataBlocks
<1>3. w \in Injection(1 .. n, 0 .. NumBlocks - 1)
  BY <1>1, <1>2 DEF Injection, IsInjective
<1>4. Cardinality(1 .. n) <= Cardinality(0 .. NumBlocks - 1)
  <2>1. IsFiniteSet(0 .. NumBlocks - 1)
    BY <1>2, FS_Interval
  <2> QED
    BY <1>3, <2>1, FS_Injection
<1>5. Cardinality(1 .. n) = n
  BY <1>1, FS_Interval
<1>6. Cardinality(0 .. NumBlocks - 1) = NumBlocks
  BY <1>2, FS_Interval
<1> QED
  BY <1>4, <1>5, <1>6

\* Walking from the head of a chain visits its blocks, then stops.
LEMMA WalkIsChain ==
  ASSUME NEW w, NEW n, NEW h, IsChain(fat, w, n, h), NEW f, NEW m \in Nat,
         IsWalk(f, fat, h, m)
  PROVE  \A i \in 0 .. m : f[i] = IF i < n THEN w[i + 1] ELSE FAT_EOF
<1> DEFINE S == {i \in Nat : i \in 0 .. m /\ f[i] # IF i < n THEN w[i + 1] ELSE FAT_EOF}
<1> SUFFICES ASSUME S # {}
             PROVE  FALSE
  OBVIOUS
<1>1. PICK k \in S : \A j \in S : k <= j
  BY FirstIsLeast
<1>2. /\ n \in Nat \ {0} /\ w[1] = h /\ w \in [1 .. n -> DataBlocks]
      /\ \A j \in 1 .. n : j # n => fat[w[j]] = w[j + 1]
      /\ fat[w[n]] = FAT_EOF
  BY DEF IsChain
<1>3. k \in 0 .. m /\ k \in Nat /\ f[k] # IF k < n THEN w[k + 1] ELSE FAT_EOF
  BY <1>1
<1>4. CASE k = 0
  <2>1. f[0] = h
    BY <1>3, <1>4 DEF IsWalk
  <2> QED
    BY <1>2, <1>3, <1>4, <2>1
<1>5. CASE k # 0
  <2>1. k - 1 \in 0 .. m /\ k - 1 \in Nat /\ k - 1 \notin S
    BY <1>1, <1>3, <1>5
  <2>2. f[k - 1] = IF k - 1 < n THEN w[k] ELSE FAT_EOF
    BY <1>3, <2>1
  <2>3. f[k] = IF f[k - 1] \in DataBlocks THEN fat[f[k - 1]] ELSE FAT_EOF
    BY <1>3, <1>5 DEF IsWalk
  <2>4. CASE k - 1 < n
    <3>1. k \in 1 .. n /\ w[k] \in DataBlocks
      BY <1>2, <1>3, <1>5, <2>4
    <3>2. f[k] = fat[w[k]]
      BY <2>2, <2>3, <2>4, <3>1
    <3>3. CASE k = n
      BY <1>2, <1>3, <3>2, <3>3
    <3>4. CASE k # n
      BY <1>2, <1>3, <3>1, <3>2, <3>4
    <3> QED
      BY <3>3, <3>4
  <2>5. CASE ~(k - 1 < n)
    <3>1. f[k] = FAT_EOF
      BY <2>2, <2>3, <2>5, DataLayout
    <3> QED
      BY <1>2, <1>3, <2>5, <3>1
  <2> QED
    BY <2>4, <2>5
<1> QED
  BY <1>4, <1>5

\* A file has the blocks its size calls for.
LEMMA SizedBlocks ==
  ASSUME NEW n \in Nat \ {0}, NEW z \in Nat, Sized(n, z)
  PROVE  BlocksFor(z) = n
<1>1. CASE z = 0
  BY <1>1 DEF Sized, BlocksFor
<1>2. CASE z # 0
  <2>1. BlockSize \in Nat \ {0}
    BY ConstantsAssumption
  <2>2. Before(n) < z /\ z <= Before(n) + BlockSize
    BY <1>2 DEF Sized
  <2>3. Before(n) = BlockSize * (n - 1) /\ Before(n) + BlockSize = BlockSize * n
    BY <2>1, SMTT(30) DEF Before
  <2>4. (z + BlockSize - 1) \div BlockSize = n
    BY <2>1, <2>2, <2>3, RoundedUp
  <2> QED
    BY <1>2, <2>4 DEF BlocksFor
<1> QED
  BY <1>1, <1>2

LEMMA FilesSize == FilesInv => SizeMatchesChain
<1> SUFFICES ASSUME FilesInv, Quiet, NEW c \in FileCells
             PROVE  Cardinality(Chain(EntryAt(c).head)) = BlocksFor(EntryAt(c).size)
  BY DEF SizeMatchesChain
<1>1. PICK b, i, h, z : b = c[1] /\ i = c[2] /\ h = EntryAt(c).head /\ z = EntryAt(c).size
  OBVIOUS
<1>2. /\ b \in DirBlocks /\ i \in Slots /\ EntryIn(b, i) /\ Kept(b, i)
      /\ EntryAt(c) = blocks[b][i] /\ blocks[b][i].type = "file"
  BY <1>1, CellIsKept DEF FileCells
<1>3. StoredAt(b, i)
  BY <1>2 DEF StoredAt, Writing, Writes, Place, Quiet
<1>4. PICK w, n, t : FileIs(fat, blocks, w, n, h, z, t)
  BY <1>1, <1>2, <1>3 DEF FilesInv, Files, Stored, IsStored
<1>5. /\ IsChain(fat, w, n, h) /\ Sized(n, z) /\ n \in Nat \ {0}
      /\ w \in [1 .. n -> DataBlocks] /\ \A j, k \in 1 .. n : w[j] = w[k] => j = k
  BY <1>4 DEF FileIs, IsChain
<1>6. z \in Nat
  <2>1. blocks[b] \in Block
    BY <1>2 DEF FilesInv, TreeInv, TypeInv, TypeOK
  <2>2. blocks[b][i] \in Entry
    BY <1>2, <2>1 DEF EntryIn, Block, Unit, Slots
  <2> QED
    BY <1>1, <1>2, <2>2, EntryFields
<1>7. PICK f : /\ IsWalk(f, fat, h, NumBlocks)
               /\ Chain(h) = {f[k] : k \in 0 .. NumBlocks} \cap DataBlocks
  BY ChainIsWalk
<1>8. NumBlocks \in Nat /\ n <= NumBlocks
  BY <1>5, ChainFits, Layout
<1>9. \A k \in 0 .. NumBlocks : f[k] = IF k < n THEN w[k + 1] ELSE FAT_EOF
  BY <1>5, <1>7, <1>8, WalkIsChain
<1>10. \A k \in 1 .. n : w[k] \in Chain(h)
  <2> SUFFICES ASSUME NEW k \in 1 .. n
               PROVE  w[k] \in Chain(h)
    OBVIOUS
  <2>1. k - 1 \in 0 .. NumBlocks /\ k - 1 < n /\ (k - 1) + 1 = k
    BY <1>5, <1>8
  <2>2. f[k - 1] = w[k]
    BY <1>9, <2>1
  <2> QED
    BY <1>5, <1>7, <2>1, <2>2
<1>11. \A x \in Chain(h) : \E k \in 1 .. n : w[k] = x
  <2> SUFFICES ASSUME NEW x \in Chain(h)
               PROVE  \E k \in 1 .. n : w[k] = x
    OBVIOUS
  <2>1. PICK k \in 0 .. NumBlocks : x = f[k] /\ x \in DataBlocks
    BY <1>7
  <2>2. k < n /\ x = w[k + 1]
    BY <1>9, <2>1, DataLayout
  <2>3. k + 1 \in 1 .. n
    BY <1>5, <1>8, <2>2
  <2> QED
    BY <2>2, <2>3
<1>12. w \in Injection(1 .. n, Chain(h)) /\ w \in Surjection(1 .. n, Chain(h))
  BY <1>5, <1>10, <1>11 DEF Injection, IsInjective, Surjection
<1>13. IsFiniteSet(1 .. n) /\ Cardinality(1 .. n) = n
  BY <1>5, FS_Interval
<1>14. Cardinality(Chain(h)) = n
  BY <1>12, <1>13, FS_Surjection
<1>15. BlocksFor(z) = n
  BY <1>5, <1>6, SizedBlocks
<1> QED
  BY <1>1, <1>14, <1>15

LEMMA FilesHold == Texts # {} /\ NothingStale /\ Spec => []FilesInv
  BY InitFiles, NextFiles, PTL DEF Spec

LEMMA FilesProperties == FilesInv => SizeMatchesChain /\ ReadsWholeFile
  BY FilesSize, FilesRead

\* A file has as many blocks as its size calls for, also after a write that
\* the disk cut short and after a create, whatever the sizes of the blocks and
\* of the disk.
THEOREM SizesMatch == Texts # {} /\ NothingStale /\ Spec => []SizeMatchesChain
  BY FilesHold, FilesProperties, PTL

\* A read sends as many units as the header announced, and all of the text one
\* write put there, whatever the other sessions do between the two.
THEOREM ReadsAreWhole == Texts # {} /\ NothingStale /\ Spec => []ReadsWholeFile
  BY FilesHold, FilesProperties, PTL
-----------------------------------------------------------------------------
\* What a crash leaves.  The server may be killed at any step of a handler; with
\* commands that remove nothing, and a FAT that save_fat writes in one piece, the
\* disk is always one on which every block is led to once at most.

NothingRemoved == Commands \cap {"F", "D", "rmdir"} = {} /\ FatBlocks = 1

IsEntry(d, b, i) == b \in DirBlocks /\ i \in Slots /\ d[b][i] \notin Pieces
Link(f, a, x) == a \in DataBlocks /\ a # x /\ f[a] \in DataBlocks
Unnamed(d, c) == \A b, i : IsEntry(d, b, i) => d[b][i].head # c
Unlinked(f, c, x) == \A a : Link(f, a, x) => f[a] # c

\* FAT f and directories d go together, but for what f says of block x: what leads
\* to a block finds it in use, and one thing only leads to it.
HeadsUsed(f, d) == \A b, i : IsEntry(d, b, i) => f[d[b][i].head] # FAT_FREE
LinksUsed(f, x) == \A a : Link(f, a, x) => f[f[a]] # FAT_FREE
HeadOnce(d) ==
  \A b, c, i, j : IsEntry(d, b, i) /\ IsEntry(d, c, j) /\ d[b][i].head = d[c][j].head
                     => b = c /\ i = j
LinkOnce(f, x) == \A a, c : Link(f, a, x) /\ Link(f, c, x) /\ f[a] = f[c] => a = c
HeadsFirst(f, d, x) == \A b, i : IsEntry(d, b, i) => Unlinked(f, d[b][i].head, x)
Sound(f, d, x) == HeadsUsed(f, d) /\ LinksUsed(f, x) /\ HeadOnce(d) /\ LinkOnce(f, x)
                    /\ HeadsFirst(f, d, x)

\* Removing entries, or changing what else they say, leaves the rest sound.
LEMMA SoundFewer ==
  ASSUME NEW f, NEW d, NEW e, NEW x, Sound(f, d, x),
         \A b, i : IsEntry(e, b, i) => IsEntry(d, b, i) /\ e[b][i].head = d[b][i].head
  PROVE  Sound(f, e, x)
<1>1. HeadsUsed(f, e) /\ HeadsFirst(f, e, x)
  BY DEF Sound, HeadsUsed, HeadsFirst
<1>2. HeadOnce(e)
  BY DEF Sound, HeadOnce
<1> QED
  BY <1>1, <1>2 DEF Sound

LEMMA SoundBut ==
  ASSUME NEW f, NEW d, NEW x, Sound(f, d, Root)
  PROVE  Sound(f, d, x)
<1>1. \A a : Link(f, a, x) => Link(f, a, Root)
  BY Layout DEF Link, DataBlocks
<1> QED
  BY <1>1 DEF Sound, LinksUsed, LinkOnce, HeadsFirst, Unlinked

\* The head an entry names is a data block.
LEMMA HeadIsData ==
  ASSUME NEW d \in [DirBlocks -> Block], NEW b, NEW i, IsEntry(d, b, i)
  PROVE  d[b][i].head \in DataBlocks /\ d[b][i].head \in Blocks
<1>1. d[b][i] \in Entry
  BY DEF IsEntry, Slots, Block, Unit
<1> QED
  BY <1>1, EntryFields, DataIsBlock

\* A block that nothing leads to can be freed, and then nothing leads to the next one.
LEMMA SoundFreed ==
  ASSUME NEW f \in [Blocks -> FatVal], NEW d \in [DirBlocks -> Block], NEW x,
         NEW c \in DataBlocks, c # x,
         Sound(f, d, x), Unnamed(d, c), Unlinked(f, c, x),
         NEW g, g = [f EXCEPT ![c] = FAT_FREE]
  PROVE  /\ Sound(g, d, x)
         /\ f[c] \in DataBlocks => Unnamed(d, f[c]) /\ Unlinked(g, f[c], x)
<1>1. /\ g[c] = FAT_FREE
      /\ \A a \in DataBlocks : a # c => g[a] = f[a]
  BY DataIsBlock
<1>2. \A a : Link(g, a, x) => a # c /\ Link(f, a, x) /\ g[a] = f[a] /\ f[a] # c
                              /\ g[g[a]] = f[f[a]]
  BY <1>1, Layout DEF Link, Unlinked
<1>3. \A b, i : IsEntry(d, b, i) => g[d[b][i].head] = f[d[b][i].head]
  BY <1>1, HeadIsData DEF Unnamed
<1>4. HeadsUsed(g, d) /\ LinksUsed(g, x)
  <2>1. HeadsUsed(g, d)
    BY <1>3 DEF Sound, HeadsUsed
  <2>2. ASSUME NEW a, Link(g, a, x)
        PROVE  g[g[a]] # FAT_FREE
    <3>1. f[f[a]] # FAT_FREE
      BY <1>2, <2>2 DEF Sound, LinksUsed
    <3> QED
      BY <1>2, <2>2, <3>1
  <2> QED
    BY <2>1, <2>2 DEF LinksUsed
<1>5. LinkOnce(g, x)
  BY <1>2 DEF Sound, LinkOnce
<1>6. HeadsFirst(g, d, x)
  BY <1>2 DEF Sound, HeadsFirst, Unlinked
<1>7. Sound(g, d, x)
  BY <1>4, <1>5, <1>6 DEF Sound
<1>8. ASSUME f[c] \in DataBlocks
      PROVE  Unnamed(d, f[c]) /\ Unlinked(g, f[c], x)
  <2>1. Link(f, c, x)
    BY <1>8 DEF Link
  <2>2. Unnamed(d, f[c])
    BY <2>1 DEF Sound, HeadsFirst, Unnamed, Unlinked
  <2>3. Unlinked(g, f[c], x)
    BY <1>2, <2>1 DEF Sound, LinkOnce, Unlinked
  <2> QED
    BY <2>2, <2>3
<1> QED
  BY <1>7, <1>8

\* Where f is left out, it may end the chain.
LEMMA SoundCut ==
  ASSUME NEW f \in [Blocks -> FatVal], NEW d \in [DirBlocks -> Block],
         NEW x \in DataBlocks, Sound(f, d, x),
         NEW g, g = [f EXCEPT ![x] = FAT_EOF]
  PROVE  Sound(g, d, Root)
<1>1. /\ g[x] = FAT_EOF /\ FAT_EOF # FAT_FREE
      /\ \A a \in DataBlocks : a # x => g[a] = f[a]
  BY DataIsBlock DEF FAT_EOF, FAT_FREE
<1>2. \A a : Link(g, a, Root) => Link(f, a, x) /\ g[a] = f[a]
                              /\ (g[g[a]] = f[f[a]] \/ g[g[a]] # FAT_FREE)
  BY <1>1, Layout DEF Link
<1>3. \A b, i : IsEntry(d, b, i) =>
         g[d[b][i].head] = f[d[b][i].head] \/ g[d[b][i].head] # FAT_FREE
  BY <1>1, HeadIsData
<1>4. HeadsUsed(g, d) /\ LinksUsed(g, Root)
  <2>1. HeadsUsed(g, d)
    BY <1>3 DEF Sound, HeadsUsed
  <2>2. ASSUME NEW a, Link(g, a, Root)
        PROVE  g[g[a]] # FAT_FREE
    <3>1. f[f[a]] # FAT_FREE
      BY <1>2, <2>2 DEF Sound, LinksUsed
    <3> QED
      BY <1>2, <2>2, <3>1
  <2> QED
    BY <2>1, <2>2 DEF LinksUsed
<1>5. LinkOnce(g, Root)
  BY <1>2 DEF Sound, LinkOnce
<1>6. HeadsFirst(g, d, Root)
  BY <1>2 DEF Sound, HeadsFirst, Unlinked
<1> QED
  BY <1>4, <1>5, <1>6 DEF Sound

\* A free block, to which nothing leads, can be taken, as the end of a chain that
\* starts at c, or goes on from c.
LEMMA FreeIsUnnamed ==
  ASSUME NEW f, NEW d, NEW b, f[b] = FAT_FREE, Sound(f, d, Root)
  PROVE  Unnamed(d, b) /\ Unlinked(f, b, Root)
  BY DEF Sound, HeadsUsed, LinksUsed, Unnamed, Unlinked

LEMMA SoundTaken ==
  ASSUME NEW f \in [Blocks -> FatVal], NEW d \in [DirBlocks -> Block],
         NEW b \in DataBlocks, f[b] = FAT_FREE, Sound(f, d, Root),
         NEW g, g = [f EXCEPT ![b] = FAT_EOF]
  PROVE  Sound(g, d, Root) /\ Unnamed(d, b) /\ Unlinked(g, b, Root)
<1>1. Unnamed(d, b) /\ Unlinked(f, b, Root)
  BY FreeIsUnnamed
<1>2. Sound(g, d, Root)
  BY SoundBut, SoundCut
<1>3. Unlinked(g, b, Root)
  BY <1>1, DataIsBlock, Layout DEF Unlinked, Link
<1> QED
  BY <1>1, <1>2, <1>3

LEMMA SoundLinked ==
  ASSUME NEW f \in [Blocks -> FatVal], NEW d \in [DirBlocks -> Block],
         NEW b \in DataBlocks, NEW c \in DataBlocks,
         f[b] = FAT_FREE, Sound(f, d, Root),
         NEW g, g = [f EXCEPT ![c] = b, ![b] = FAT_EOF]
  PROVE  Sound(g, d, Root)
<1>1. Unnamed(d, b) /\ Unlinked(f, b, Root)
  BY FreeIsUnnamed
<1>2. /\ g[b] = FAT_EOF /\ FAT_EOF # FAT_FREE
      /\ c # b => g[c] = b
      /\ b # FAT_FREE
      /\ \A a \in DataBlocks : a # c /\ a # b => g[a] = f[a]
  BY DataIsBlock, Layout DEF FAT_EOF, FAT_FREE
<1>3. \A a : Link(g, a, Root) =>
         \/ a = c /\ g[a] = b
         \/ a # c /\ Link(f, a, Root) /\ g[a] = f[a] /\ f[a] # b
  BY <1>1, <1>2, Layout DEF Link, Unlinked
<1>4. \A a \in DataBlocks : g[a] = f[a] \/ g[a] # FAT_FREE
  BY <1>2
<1>5. HeadsUsed(g, d)
  BY <1>4, HeadIsData DEF Sound, HeadsUsed
<1>6. LinksUsed(g, Root)
  <2> SUFFICES ASSUME NEW a, Link(g, a, Root)
               PROVE  g[g[a]] # FAT_FREE
    BY DEF LinksUsed
  <2>1. CASE g[a] = b
    BY <1>2, <2>1
  <2>2. CASE g[a] # b
    <3>1. Link(f, a, Root) /\ g[a] = f[a] /\ g[a] \in DataBlocks
      BY <1>3, <2>2 DEF Link
    <3> QED
      BY <1>4, <3>1 DEF Sound, LinksUsed
  <2> QED
    BY <2>1, <2>2
<1>7. LinkOnce(g, Root)
  BY <1>3 DEF Sound, LinkOnce
<1>8. HeadsFirst(g, d, Root)
  <2> SUFFICES ASSUME NEW e, NEW i, IsEntry(d, e, i), NEW a, Link(g, a, Root)
               PROVE  g[a] # d[e][i].head
    BY DEF HeadsFirst, Unlinked
  <2>1. d[e][i].head # b
    BY <1>1 DEF Unnamed
  <2>2. Unlinked(f, d[e][i].head, Root)
    BY DEF Sound, HeadsFirst
  <2> QED
    BY <1>3, <2>1, <2>2 DEF Unlinked
<1> QED
  BY <1>5, <1>6, <1>7, <1>8 DEF Sound

\* An entry can be added whose block is in use and nothing leads to.
LEMMA SoundNamed ==
  ASSUME NEW f, NEW d, NEW e, NEW b, NEW i, Sound(f, d, Root),
         f[e[b][i].head] # FAT_FREE, Unnamed(d, e[b][i].head),
         Unlinked(f, e[b][i].head, Root),
         \A c, j : IsEntry(e, c, j) =>
           \/ c = b /\ j = i
           \/ IsEntry(d, c, j) /\ e[c][j].head = d[c][j].head
  PROVE  Sound(f, e, Root)
<1> DEFINE h == e[b][i].head
<1>1. \A c, j : IsEntry(e, c, j) =>
         \/ c = b /\ j = i /\ e[c][j].head = h
         \/ IsEntry(d, c, j) /\ e[c][j].head = d[c][j].head /\ e[c][j].head # h
  BY DEF Unnamed
<1> HIDE DEF h
<1>2. HeadOnce(e)
  BY <1>1 DEF Sound, HeadOnce
<1>3. HeadsUsed(f, e)
  <2>1. f[h] # FAT_FREE
    BY DEF h
  <2> QED
    BY <1>1, <2>1 DEF Sound, HeadsUsed
<1>4. HeadsFirst(f, e, Root)
  <2>1. Unlinked(f, h, Root)
    BY DEF h
  <2> QED
    BY <1>1, <2>1 DEF Sound, HeadsFirst
<1> QED
  BY <1>2, <1>3, <1>4 DEF Sound

-----------------------------------------------------------------------------
\* What the handler is about to leave on the disk: the FAT in memory goes together
\* with the directories as they will be when its own is written back.

View(s) == [blocks EXCEPT ![cwd[s]] = buf[s]]
FileHead(s) == buf[s][slot[s]].head

Adding == {"C.save", "C.zero", "C.entry", "W.data", "W.save", "W.entry"}
Removing == {"F.save", "F.root", "D.free", "D.save", "D.entry"}

Covers(s) == \A i : IsEntry(blocks, cwd[s], i) => buf[s][i] = blocks[cwd[s]][i]
\* While cmd_write frees the old chain its first block leads to freed ones.
Truncating(s) ==
  /\ Sound(fat, View(s), FileHead(s))
  /\ curr[s] \in FatVal
  /\ curr[s] \in DataBlocks =>
       Unnamed(View(s), curr[s]) /\ Unlinked(fat, curr[s], FileHead(s))
Ahead(s) ==
  /\ pc[s] \notin Removing
  /\ pc[s] \in Adding => Sound(fat, View(s), Root)
  /\ pc[s] = "W.free" => Truncating(s)
  /\ pc[s] = "W.data" => curr[s] \in DataBlocks
  /\ pc[s] \in Adding \cup {"W.free"} => Covers(s)

CrashInv == /\ NothingRemoved /\ Inv
            /\ Sound(dfat, blocks, Root) /\ \A s \in Sessions : Ahead(s)

LEMMA OthersAhead ==
  ASSUME TypeInv, LockHeld, NEW s \in Sessions, lock \in {NoOne, s},
         NEW to, pc' = [pc EXCEPT ![s] = to], Ahead(s)'
  PROVE  \A q \in Sessions : Ahead(q)'
<1> SUFFICES ASSUME NEW q \in Sessions, q # s
             PROVE  Ahead(q)'
  OBVIOUS
<1>1. pc[q] = "idle" /\ pc'[q] = pc[q]
  BY OthersIdle DEF TypeInv, TypeOK
<1> QED
  BY <1>1 DEF Ahead, Adding, Removing

LEMMA SameAhead ==
  ASSUME NEW s \in Sessions, Ahead(s), UNCHANGED <<fat, blocks>>,
         pc'[s] = pc[s], buf'[s] = buf[s], slot'[s] = slot[s], curr'[s] = curr[s],
         cwd'[s] = cwd[s] \/ pc[s] = "idle"
  PROVE  Ahead(s)'
<1>1. CASE pc[s] = "idle"
  BY <1>1 DEF Ahead, Adding, Removing
<1>2. CASE cwd'[s] = cwd[s]
  <2>1. View(s)' = View(s) /\ FileHead(s)' = FileHead(s)
    BY <1>2 DEF View, FileHead
  <2>2. Truncating(s) => Truncating(s)'
    BY <2>1 DEF Truncating
  <2>3. Covers(s) => Covers(s)'
    BY <1>2 DEF Covers
  <2> QED
    BY <2>1, <2>2, <2>3 DEF Ahead
<1> QED
  BY <1>1, <1>2

\* Steps after which the session's handler stores nothing.
LEMMA NothingAhead ==
  ASSUME NEW s \in Sessions, pc'[s] \in {"idle", "R.data"}
  PROVE  Ahead(s)'
  BY DEF Ahead, Adding, Removing

LEMMA IsView ==
  ASSUME TypeInv, NEW s \in Sessions
  PROVE  /\ View(s) \in [DirBlocks -> Block] /\ blocks \in [DirBlocks -> Block]
         /\ cwd[s] \in DirBlocks /\ buf[s] \in Block
         /\ fat \in [Blocks -> FatVal] /\ dfat \in [Blocks -> FatVal]
         /\ View(s)[cwd[s]] = buf[s]
         /\ \A b \in DirBlocks : b # cwd[s] => View(s)[b] = blocks[b]
  BY DEF View, TypeInv, TypeOK

\* The entry a handler works on is an entry of its view.
LEMMA HeadNamed ==
  ASSUME TypeInv, NEW s \in Sessions, pc[s] \in AtWork
  PROVE  /\ IsEntry(View(s), cwd[s], slot[s]) /\ View(s)[cwd[s]][slot[s]].head = FileHead(s)
         /\ FileHead(s) \in DataBlocks
<1>1. buf[s][slot[s]] \in Entry /\ slot[s] \in Slots
  BY DEF TypeInv, TypeOK, LocalsOK, Slots
<1>2. buf[s][slot[s]] \notin Pieces
  BY <1>1, UnitsAssumption
<1> QED
  BY <1>1, <1>2, IsView, EntryFields DEF IsEntry, FileHead

-----------------------------------------------------------------------------
LEMMA CreateAhead ==
  ASSUME CrashInv, NEW s \in Sessions, NEW n \in Names, NEW t \in {"file", "dir"},
         CreateAlloc(s, n, t)
  PROVE  Ahead(s)'
<1> DEFINE k == cwd[s]
           i == First(SlotsFree(blocks[k]))
           b == FindFree(fat)
           e == [name |-> n, type |-> t, head |-> b, size |-> 0]
<1>0. TypeInv /\ lock = NoOne /\ fat = dfat
  BY DEF CrashInv, Inv, SavedInv, FatSaved, Quiet, CreateAlloc, Lock
<1>1. /\ pc' = [pc EXCEPT ![s] = "C.save"] /\ UNCHANGED <<blocks, cwd>>
      /\ SlotsFree(blocks[k]) # {} /\ FreeBlocks(fat) # {}
      /\ fat' = [fat EXCEPT ![b] = FAT_EOF]
      /\ buf' = [buf EXCEPT ![s] = [blocks[k] EXCEPT ![i] = e]]
  BY DEF CreateAlloc, Goto, dirs, disk
<1>2. b \in DataBlocks /\ fat[b] = FAT_FREE
  BY <1>1, FindFreeIsFree
<1>3. i \in SlotsFree(blocks[k]) /\ i \in Slots /\ blocks[k][i] = Zero
  BY <1>1, FirstSlot DEF SlotsFree, Slots
<1>4. pc'[s] = "C.save" /\ buf'[s] = [blocks[k] EXCEPT ![i] = e] /\ e.head = b
  BY <1>0, <1>1 DEF TypeInv, TypeOK
<1> HIDE DEF i, b, e
<1>5. blocks \in [DirBlocks -> Block] /\ k \in DirBlocks /\ fat \in [Blocks -> FatVal]
      /\ blocks[k] \in Block
  BY <1>0, IsView
<1>6. /\ Sound(fat', blocks, Root) /\ Unnamed(blocks, b) /\ Unlinked(fat', b, Root)
      /\ fat'[b] # FAT_FREE
  <2>1. PICK g : g = fat'
    OBVIOUS
  <2>2. Sound(fat, blocks, Root) /\ g = [fat EXCEPT ![b] = FAT_EOF]
    BY <1>0, <1>1, <2>1 DEF CrashInv
  <2>3. Sound(g, blocks, Root) /\ Unnamed(blocks, b) /\ Unlinked(g, b, Root)
    BY <1>2, <1>5, <2>2, SoundTaken
  <2>4. g[b] = FAT_EOF /\ FAT_EOF # FAT_FREE
    BY <1>2, <1>5, <2>2, DataIsBlock DEF FAT_EOF, FAT_FREE
  <2> QED
    BY <2>1, <2>3, <2>4
<1>7. PICK v : v = View(s)'
  OBVIOUS
<1>8. /\ v[k] = buf'[s] /\ v[k][i] = e /\ \A c \in DirBlocks : c # k => v[c] = blocks[c]
      /\ \A j \in Slots : j # i => v[k][j] = blocks[k][j]
  BY <1>1, <1>3, <1>4, <1>5, <1>7 DEF View, Block, Slots
<1>9. \A c, j : IsEntry(v, c, j) =>
         \/ c = k /\ j = i
         \/ IsEntry(blocks, c, j) /\ v[c][j].head = blocks[c][j].head
  BY <1>8 DEF IsEntry
<1>10. Sound(fat', v, Root)
  <2>1. v[k][i].head = b
    BY <1>4, <1>8
  <2> QED
    BY <1>6, <1>9, <2>1, SoundNamed
<1>11. Covers(s)'
  <2>1. Zero \in Pieces
    BY DEF Pieces
  <2> QED
    BY <1>1, <1>3, <1>8, <2>1 DEF Covers, IsEntry
<1> QED
  BY <1>4, <1>7, <1>10, <1>11 DEF Ahead, Adding, Removing

LEMMA WriteFileAhead ==
  ASSUME CrashInv, NEW s \in Sessions, NEW n \in Names, NEW l, NEW t,
         WriteFile(s, n, l, t)
  PROVE  Ahead(s)'
<1> DEFINE k == cwd[s]
           i == First(SlotsNamed(blocks[k], n))
<1>0. TypeInv /\ lock = NoOne /\ fat = dfat
  BY DEF CrashInv, Inv, SavedInv, FatSaved, Quiet, WriteFile, Lock
<1>1. /\ pc' = [pc EXCEPT ![s] = "W.free"] /\ UNCHANGED <<fat, blocks, cwd>>
      /\ SlotsNamed(blocks[k], n) # {}
      /\ buf' = [buf EXCEPT ![s] = blocks[k]]
      /\ slot' = [slot EXCEPT ![s] = i]
      /\ curr' = [curr EXCEPT ![s] = fat[blocks[k][i].head]]
  BY DEF WriteFile, Goto, dirs, disk
<1>2. blocks \in [DirBlocks -> Block] /\ k \in DirBlocks /\ fat \in [Blocks -> FatVal]
      /\ blocks[k] \in Block
  BY <1>0, IsView
<1>3. i \in SlotsNamed(blocks[k], n) /\ i \in Slots /\ blocks[k][i] \in Entry
  BY <1>1, <1>2, FirstSlot, NamedIsEntry DEF SlotsNamed, Slots
<1>4. PICK h : h = blocks[k][i].head
  OBVIOUS
<1>5. pc'[s] = "W.free" /\ buf'[s] = blocks[k] /\ slot'[s] = i /\ curr'[s] = fat[h]
  BY <1>0, <1>1, <1>4 DEF TypeInv, TypeOK
<1> HIDE DEF i
<1>6. h \in DataBlocks /\ h \in Blocks /\ FileHead(s)' = h /\ View(s)' = blocks
  <2>1. h \in DataBlocks /\ h \in Blocks
    BY <1>3, <1>4, EntryFields, DataIsBlock
  <2>2. FileHead(s)' = h
    BY <1>4, <1>5 DEF FileHead
  <2>3. View(s)' = blocks
    BY <1>1, <1>2, <1>5 DEF View
  <2> QED
    BY <2>1, <2>2, <2>3
<1>7. Sound(fat, blocks, Root) /\ Sound(fat, blocks, h)
  BY <1>0, SoundBut DEF CrashInv
<1>8. IsEntry(blocks, k, i)
  BY <1>2, <1>3, UnitsAssumption DEF IsEntry
<1>9. ASSUME fat[h] \in DataBlocks
      PROVE  Unnamed(blocks, fat[h]) /\ Unlinked(fat, fat[h], h)
  <2>1. Link(fat, h, Root)
    BY <1>6, <1>9, Layout DEF Link, DataBlocks
  <2>2. Unnamed(blocks, fat[h])
    BY <1>7, <2>1 DEF Sound, HeadsFirst, Unnamed, Unlinked
  <2>3. \A a : Link(fat, a, h) => Link(fat, a, Root) /\ a # h
    BY Layout DEF Link, DataBlocks
  <2>4. Unlinked(fat, fat[h], h)
    BY <1>7, <2>1, <2>3 DEF Sound, LinkOnce, Unlinked
  <2> QED
    BY <2>2, <2>4
<1>10. Truncating(s)'
  <2>1. fat' = fat /\ fat[h] \in FatVal
    BY <1>1, <1>2, <1>6
  <2> QED
    BY <1>5, <1>6, <1>7, <1>9, <2>1 DEF Truncating
<1>11. Covers(s)'
  BY <1>1, <1>5 DEF Covers
<1> QED
  BY <1>5, <1>10, <1>11 DEF Ahead, Adding, Removing

LEMMA SaveAhead ==
  ASSUME CrashInv, NEW s \in Sessions, NEW from \in {"C.save", "W.save"},
         NEW to \in {"C.zero", "W.entry"}, SaveFat(s, from, to)
  PROVE  Ahead(s)' /\ Sound(dfat', blocks', Root)
<1>0. TypeInv /\ LockHeld /\ pc[s] = from /\ pc[s] \in Saves /\ pc[s] \in Adding
      /\ Ahead(s) /\ FatBlocks = 1
  BY DEF CrashInv, NothingRemoved, Inv, SaveFat, Saves, Adding
<1>1. UNCHANGED <<fat, blocks, cwd, buf>>
  BY DEF SaveFat, memory, dirs
<1>2. dfat' = [b \in Blocks |-> IF FatBlockOf(b) = seg[s] THEN fat[b] ELSE dfat[b]]
  BY DEF SaveFat
<1>3. dfat' = fat /\ pc' = [pc EXCEPT ![s] = to]
  <2>1. seg[s] \in Nat /\ fat \in [Blocks -> FatVal]
    BY <1>0 DEF TypeInv, TypeOK
  <2>2. \A b \in Blocks : FatBlockOf(b) = 0
    BY <1>0, FatBlockRange
  <2>3. ~(seg[s] + 1 < FatBlocks)
    BY <1>0, <2>1
  <2>4. pc' = [pc EXCEPT ![s] = to]
    BY <2>3 DEF SaveFat, Goto
  <2>5. \A b \in Blocks : dfat'[b] = fat[b]
    <3> SUFFICES ASSUME NEW b \in Blocks
                 PROVE  dfat'[b] = fat[b]
      OBVIOUS
    <3>1. CASE seg[s] = 0
      BY <1>2, <2>2, <3>1
    <3>2. CASE seg[s] # 0
      <4>1. FatBlockOf(b) < seg[s]
        BY <2>1, <2>2, <3>2
      <4>2. dfat[b] = fat[b]
        BY <1>0, <4>1 DEF CrashInv, Inv, SavedInv, SavedBy
      <4> QED
        BY <1>2, <4>2
    <3> QED
      BY <3>1, <3>2
  <2> QED
    BY <1>2, <2>1, <2>4, <2>5
<1>4. pc'[s] = to /\ pc'[s] \in Adding
  BY <1>0, <1>3 DEF TypeInv, TypeOK, Adding
<1>5. View(s)' = View(s) /\ (Covers(s) => Covers(s)')
  BY <1>1 DEF View, Covers
<1>6. Ahead(s)'
  BY <1>0, <1>1, <1>4, <1>5 DEF Ahead, Removing
<1>7. Sound(fat, blocks, Root)
  <2>1. Sound(fat, View(s), Root) /\ Covers(s)
    BY <1>0 DEF Ahead
  <2>2. \A b, i : IsEntry(blocks, b, i) =>
           IsEntry(View(s), b, i) /\ blocks[b][i].head = View(s)[b][i].head
    <3> SUFFICES ASSUME NEW b, NEW i, IsEntry(blocks, b, i)
                 PROVE  IsEntry(View(s), b, i) /\ View(s)[b][i] = blocks[b][i]
      OBVIOUS
    <3>1. View(s)[b][i] = blocks[b][i]
      BY <1>0, <2>1, IsView DEF IsEntry, Covers
    <3> QED
      BY <3>1 DEF IsEntry
  <2> QED
    BY <2>1, <2>2, SoundFewer
<1> QED
  BY <1>1, <1>3, <1>6, <1>7

\* A block that is overwritten with what is no entry.
LEMMA BlankAhead ==
  ASSUME CrashInv, NEW s \in Sessions, NEW c \in DirBlocks, NEW u \in [Slots -> Pieces],
         blocks' = [blocks EXCEPT ![c] = u], UNCHANGED <<dfat, cwd, buf>>
  PROVE  /\ Sound(dfat', blocks', Root)
         /\ \A f, x : Sound(f, View(s), x) => Sound(f, View(s)', x)
         /\ Covers(s) => Covers(s)'
<1>1. blocks \in [DirBlocks -> Block] /\ cwd[s] \in DirBlocks
  BY IsView DEF CrashInv, Inv
<1>2. PICK d : d = blocks'
  OBVIOUS
<1>3. \A b, i : IsEntry(d, b, i) => b # c /\ IsEntry(blocks, b, i) /\ d[b] = blocks[b]
  BY <1>1, <1>2 DEF IsEntry
<1>4. Sound(dfat', blocks', Root)
  <2>1. Sound(dfat, blocks, Root)
    BY DEF CrashInv
  <2> QED
    BY <1>2, <1>3, <2>1, SoundFewer
<1>5. PICK v : v = View(s)'
  OBVIOUS
<1>6. v = [d EXCEPT ![cwd[s]] = buf[s]]
  BY <1>2, <1>5 DEF View
<1>7. \A b, i : IsEntry(v, b, i) => IsEntry(View(s), b, i) /\ v[b][i] = View(s)[b][i]
  <2> SUFFICES ASSUME NEW b, NEW i, IsEntry(v, b, i)
               PROVE  IsEntry(View(s), b, i) /\ v[b][i] = View(s)[b][i]
    OBVIOUS
  <2>1. DOMAIN d = DirBlocks /\ b \in DirBlocks
    BY <1>1, <1>2 DEF IsEntry
  <2>2. CASE b = cwd[s]
    BY <1>1, <1>6, <2>1, <2>2 DEF View, IsEntry
  <2>3. CASE b # cwd[s]
    <3>1. v[b] = d[b]
      BY <1>6, <2>1, <2>3
    <3>2. v[b] = blocks[b]
      BY <1>3, <3>1 DEF IsEntry
    <3>3. View(s)[b] = blocks[b]
      BY <1>1, <2>1, <2>3 DEF View
    <3> QED
      BY <3>2, <3>3 DEF IsEntry
  <2> QED
    BY <2>2, <2>3
<1>8. ASSUME NEW f, NEW x, Sound(f, View(s), x)
      PROVE  Sound(f, View(s)', x)
  BY <1>5, <1>7, <1>8, SoundFewer
<1>9. Covers(s) => Covers(s)'
  BY <1>2, <1>3 DEF Covers
<1> QED
  BY <1>4, <1>8, <1>9

LEMMA CreateZeroAhead ==
  ASSUME CrashInv, NEW s \in Sessions, CreateZero(s)
  PROVE  Ahead(s)' /\ Sound(dfat', blocks', Root)
<1>0. TypeInv /\ LockHeld /\ pc[s] = "C.zero" /\ Ahead(s)
  BY DEF CrashInv, Inv, CreateZero
<1>1. /\ blocks' = [blocks EXCEPT ![curr[s]] = ZeroBlock] /\ UNCHANGED <<fat, dfat, cwd, buf>>
      /\ pc' = [pc EXCEPT ![s] = "C.entry"]
  BY DEF CreateZero, Goto, memory, dirs, locals
<1>2. pc'[s] = "C.entry"
  BY <1>0, <1>1 DEF TypeInv, TypeOK
<1>3. ZeroBlock \in [Slots -> Pieces]
  BY DEF ZeroBlock, Slots, Pieces
<1>4. /\ Sound(dfat', blocks', Root)
      /\ \A f, x : Sound(f, View(s), x) => Sound(f, View(s)', x)
      /\ Covers(s) => Covers(s)'
  <2>1. CASE curr[s] \in DirBlocks
    BY <1>1, <1>3, <2>1, BlankAhead
  <2>2. CASE curr[s] \notin DirBlocks
    <3>1. blocks' = blocks
      BY <1>0, <1>1, <2>2, IsView
    <3>2. View(s)' = View(s) /\ (Covers(s) => Covers(s)')
      BY <1>1, <3>1 DEF View, Covers
    <3> QED
      BY <1>1, <3>1, <3>2 DEF CrashInv
  <2> QED
    BY <2>1, <2>2
<1>5. Ahead(s)'
  <2>1. Sound(fat, View(s), Root) /\ Covers(s)
    BY <1>0 DEF Ahead, Adding
  <2>2. Sound(fat', View(s)', Root)
    BY <1>1, <1>4, <2>1
  <2> QED
    BY <1>2, <1>4, <2>1, <2>2 DEF Ahead, Adding, Removing
<1> QED
  BY <1>4, <1>5

LEMMA WriteChunkAhead ==
  ASSUME CrashInv, NEW s \in Sessions, WriteChunk(s)
  PROVE  Ahead(s)' /\ Sound(dfat', blocks', Root)
<1> DEFINE n == AtMostBlock(len[s] - done[s])
           b == FindFree(fat)
<1>0. TypeInv /\ LockHeld /\ pc[s] = "W.data" /\ Ahead(s)
  BY DEF CrashInv, Inv, WriteChunk
<1>1. /\ blocks' = [blocks EXCEPT ![curr[s]] = Chunk(txt[s], n)]
      /\ UNCHANGED <<dfat, cwd, buf>>
      /\ \/ /\ FreeBlocks(fat) # {} /\ pc' = pc
            /\ fat' = [fat EXCEPT ![curr[s]] = b, ![b] = FAT_EOF]
            /\ curr' = [curr EXCEPT ![s] = b]
         \/ pc' = [pc EXCEPT ![s] = "W.save"] /\ fat' = fat /\ curr' = curr
  BY DEF WriteChunk, Goto, dirs
<1>2. curr[s] \in DataBlocks /\ curr[s] \in DirBlocks /\ Sound(fat, View(s), Root) /\ Covers(s)
  BY <1>0, DataIsBlock DEF Ahead, Adding
<1>3. Chunk(txt[s], n) \in [Slots -> Pieces]
  <2>1. txt[s] \in Pieces /\ Zero \in Pieces
    BY <1>0 DEF TypeInv, TypeOK, Pieces
  <2> QED
    BY <2>1 DEF Chunk, Slots
<1> HIDE DEF n, b
<1>4. /\ Sound(dfat', blocks', Root)
      /\ \A f, x : Sound(f, View(s), x) => Sound(f, View(s)', x)
      /\ Covers(s)'
  <2>1. PICK u : u = Chunk(txt[s], n)
    OBVIOUS
  <2> QED
    BY <1>1, <1>2, <1>3, <2>1, BlankAhead
<1>5. CASE pc' = [pc EXCEPT ![s] = "W.save"] /\ fat' = fat /\ curr' = curr
  <2>1. pc'[s] = "W.save"
    BY <1>0, <1>5 DEF TypeInv, TypeOK
  <2>2. Sound(fat', View(s)', Root)
    BY <1>2, <1>4, <1>5
  <2> QED
    BY <1>4, <2>1, <2>2 DEF Ahead, Adding, Removing
<1>6. CASE /\ FreeBlocks(fat) # {} /\ pc' = pc
           /\ fat' = [fat EXCEPT ![curr[s]] = b, ![b] = FAT_EOF]
           /\ curr' = [curr EXCEPT ![s] = b]
  <2>1. b \in DataBlocks /\ fat[b] = FAT_FREE
    BY <1>6, FindFreeIsFree DEF b
  <2>2. pc'[s] = "W.data" /\ curr'[s] = b
    BY <1>0, <1>6 DEF TypeInv, TypeOK
  <2>3. PICK c, g : c = curr[s] /\ g = fat'
    OBVIOUS
  <2>4. Sound(g, View(s), Root)
    <3>1. g = [fat EXCEPT ![c] = b, ![b] = FAT_EOF]
      BY <1>6, <2>3
    <3>2. fat \in [Blocks -> FatVal] /\ View(s) \in [DirBlocks -> Block]
      BY <1>0, IsView
    <3> QED
      BY <1>2, <2>1, <2>3, <3>1, <3>2, SoundLinked
  <2>5. Sound(fat', View(s)', Root)
    BY <1>4, <2>3, <2>4
  <2> QED
    BY <1>4, <2>1, <2>2, <2>5 DEF Ahead, Adding, Removing
<1> QED
  BY <1>1, <1>4, <1>5, <1>6

LEMMA WriteFreeAhead ==
  ASSUME CrashInv, NEW s \in Sessions, WriteFree(s)
  PROVE  Ahead(s)'
<1>0. TypeInv /\ LockHeld /\ pc[s] = "W.free" /\ Truncating(s) /\ Covers(s)
  BY DEF CrashInv, Inv, WriteFree, Ahead
<1>1. PICK c, h, g, v : c = curr[s] /\ h = FileHead(s) /\ g = fat' /\ v = View(s)
  OBVIOUS
<1>2. /\ c \notin {FAT_EOF, FAT_FREE} /\ g = [fat EXCEPT ![c] = FAT_FREE]
      /\ curr' = [curr EXCEPT ![s] = fat[c]]
      /\ UNCHANGED <<blocks, cwd, buf, slot, pc>>
  BY <1>1 DEF WriteFree, FreeStep, disk, dirs
<1>3. c \in DataBlocks
  BY <1>0, <1>1, <1>2 DEF Truncating, FatVal
<1>4. fat \in [Blocks -> FatVal] /\ v \in [DirBlocks -> Block] /\ fat[c] \in FatVal
  BY <1>0, <1>1, <1>3, IsView, DataIsBlock
<1>5. Sound(fat, v, h) /\ Unnamed(v, c) /\ Unlinked(fat, c, h)
  BY <1>0, <1>1, <1>3 DEF Truncating
<1>6. c # h
  <2>1. IsEntry(v, cwd[s], slot[s]) /\ v[cwd[s]][slot[s]].head = h
    BY <1>0, <1>1, HeadNamed DEF AtWork
  <2> QED
    BY <1>5, <2>1 DEF Unnamed
<1>7. /\ Sound(g, v, h)
      /\ fat[c] \in DataBlocks => Unnamed(v, fat[c]) /\ Unlinked(g, fat[c], h)
  BY <1>2, <1>3, <1>4, <1>5, <1>6, SoundFreed
<1>8. View(s)' = v /\ FileHead(s)' = h /\ curr'[s] = fat[c]
  BY <1>0, <1>1, <1>2 DEF View, FileHead, TypeInv, TypeOK
<1>9. Truncating(s)'
  BY <1>1, <1>4, <1>7, <1>8 DEF Truncating
<1>10. Covers(s)'
  BY <1>0, <1>2 DEF Covers
<1> QED
  BY <1>0, <1>2, <1>9, <1>10 DEF Ahead, Adding, Removing

LEMMA WriteHeadAhead ==
  ASSUME CrashInv, NEW s \in Sessions, WriteHead(s)
  PROVE  Ahead(s)'
<1>0. TypeInv /\ LockHeld /\ pc[s] = "W.free" /\ Truncating(s) /\ Covers(s)
  BY DEF CrashInv, Inv, WriteHead, Ahead
<1>1. PICK h, g, v : h = FileHead(s) /\ g = fat' /\ v = View(s)
  OBVIOUS
<1>2. /\ g = [fat EXCEPT ![h] = FAT_EOF]
      /\ curr' = [curr EXCEPT ![s] = h]
      /\ UNCHANGED <<blocks, cwd, buf>>
      /\ \E to \in {"W.data", "W.save"} : pc' = [pc EXCEPT ![s] = to]
  BY <1>1 DEF WriteHead, Goto, disk, dirs, FileHead
<1>3. h \in DataBlocks
  BY <1>0, <1>1, HeadNamed DEF AtWork
<1>4. fat \in [Blocks -> FatVal] /\ v \in [DirBlocks -> Block]
  BY <1>0, <1>1, IsView
<1>5. Sound(g, v, Root)
  BY <1>0, <1>1, <1>2, <1>3, <1>4, SoundCut DEF Truncating
<1>6. View(s)' = v /\ Covers(s)'
  BY <1>0, <1>1, <1>2 DEF View, Covers
<1>7. pc'[s] \in {"W.data", "W.save"} /\ curr'[s] = h
  BY <1>0, <1>2 DEF TypeInv, TypeOK
<1> QED
  BY <1>1, <1>3, <1>5, <1>6, <1>7 DEF Ahead, Adding, Removing

\* A directory block is written back: the disk is as the handler saw it.
LEMMA EntryAhead ==
  ASSUME CrashInv, NEW s \in Sessions, CreateEntry(s) \/ WriteEntry(s)
  PROVE  Ahead(s)' /\ Sound(dfat', blocks', Root)
<1>0. TypeInv /\ pc[s] \in {"C.entry", "W.entry"} /\ Ahead(s)
  BY DEF CrashInv, Inv, CreateEntry, WriteEntry
<1>1. Sound(fat, View(s), Root) /\ dfat = fat
  BY <1>0 DEF Ahead, Adding, CrashInv, Inv, SavedInv, SavedBy, Saved
<1>2. dfat' = dfat /\ pc' = [pc EXCEPT ![s] = "idle"]
  BY DEF CreateEntry, WriteEntry, Finish, Goto
<1>3. Ahead(s)'
  BY <1>0, <1>2, NothingAhead DEF TypeInv, TypeOK
<1>4. CASE CreateEntry(s)
  <2>1. blocks' = View(s)
    BY <1>4 DEF CreateEntry, View
  <2> QED
    BY <1>1, <1>2, <1>3, <2>1
<1>5. CASE WriteEntry(s)
  <2>1. PICK k, i, z, v : k = cwd[s] /\ i = slot[s] /\ z = done[s] /\ v = View(s)
    OBVIOUS
  <2>2. blocks' = [blocks EXCEPT ![k] = [v[k] EXCEPT ![i].size = z]]
    BY <1>0, <1>5, <2>1, IsView DEF WriteEntry
  <2>3. PICK d : d = blocks'
    OBVIOUS
  <2>4. /\ IsEntry(v, k, i) /\ v \in [DirBlocks -> Block] /\ k \in DirBlocks
        /\ blocks \in [DirBlocks -> Block]
        /\ \A b \in DirBlocks : b # k => v[b] = blocks[b]
    BY <1>0, <1>5, <2>1, IsView, HeadNamed DEF WriteEntry, AtWork
  <2>5. v[k][i] \in Entry /\ i \in Slots
    BY <2>4 DEF IsEntry, Block, Unit, Slots
  <2>6. [v[k][i] EXCEPT !.size = z].head = v[k][i].head
    BY <2>5 DEF Entry
  <2>7. d[k] = [v[k] EXCEPT ![i] = [v[k][i] EXCEPT !.size = z]]
        /\ \A b \in DirBlocks : b # k => d[b] = v[b]
    BY <2>2, <2>3, <2>4
  <2>8. d[k][i] = [v[k][i] EXCEPT !.size = z]
        /\ \A j \in Slots : j # i => d[k][j] = v[k][j]
    BY <2>4, <2>5, <2>7 DEF Block, Slots
  <2>9. \A b, j : IsEntry(d, b, j) => IsEntry(v, b, j) /\ d[b][j].head = v[b][j].head
    <3> SUFFICES ASSUME NEW b, NEW j, IsEntry(d, b, j)
                 PROVE  IsEntry(v, b, j) /\ d[b][j].head = v[b][j].head
      OBVIOUS
    <3>1. CASE b = k /\ j = i
      BY <2>4, <2>6, <2>8, <3>1
    <3>2. CASE ~(b = k /\ j = i)
      <4>1. d[b][j] = v[b][j]
        BY <2>7, <2>8, <3>2 DEF IsEntry
      <4> QED
        BY <4>1 DEF IsEntry
    <3> QED
      BY <3>1, <3>2
  <2>10. Sound(dfat, d, Root)
    BY <1>1, <2>1, <2>9, SoundFewer
  <2> QED
    BY <1>2, <1>3, <2>3, <2>10
<1> QED
  BY <1>4, <1>5

-----------------------------------------------------------------------------
LEMMA InitCrash == NothingRemoved /\ Init => CrashInv
<1> SUFFICES ASSUME NothingRemoved, Init PROVE CrashInv
  OBVIOUS
<1>1. Inv
  <2>1. TypeInv /\ LockHeld
    BY InitTypeInv DEF Init, Each, LockHeld
  <2>2. SavedInv
    BY DEF Init, Each, SavedInv, SavedBy, FatSaved, Saves, Saved
  <2> QED
    BY <2>1, <2>2 DEF Inv
<1>2. Sound(dfat, blocks, Root)
  <2>1. \A b, i : ~IsEntry(blocks, b, i)
    BY DEF Init, IsEntry, ZeroBlock, Slots, Pieces
  <2>2. \A a : ~Link(dfat, a, Root)
    <3>1. dfat = [b \in Blocks |-> FAT_FREE]
      BY DEF Init
    <3>2. ASSUME NEW a, Link(dfat, a, Root)
          PROVE  FALSE
      <4>1. a \in Blocks /\ dfat[a] \in DataBlocks
        BY <3>2, DataIsBlock DEF Link
      <4>2. dfat[a] = FAT_FREE
        BY <3>1, <4>1
      <4>3. FAT_FREE \notin DataBlocks
        BY Layout
      <4> QED
        BY <4>1, <4>2, <4>3
    <3> QED
      BY <3>2
  <2> QED
    BY <2>1, <2>2 DEF Sound, HeadsUsed, LinksUsed, HeadOnce, LinkOnce, HeadsFirst
<1>3. \A s \in Sessions : Ahead(s)
  BY DEF Init, Each, Ahead, Adding, Removing
<1> QED
  BY <1>1, <1>2, <1>3 DEF CrashInv

\* A client's request leaves what is stored alone, and takes the lock or does not
\* touch what other sessions work on.
LEMMA ClientCrash ==
  ASSUME CrashInv, NEW s \in Sessions, ClientStep(s)
  PROVE  /\ UNCHANGED <<dfat, blocks>>
         /\ \A q \in Sessions : Ahead(q)'
<1>0. TypeInv /\ LockHeld /\ \A q \in Sessions : Ahead(q)
  BY DEF CrashInv, Inv
<1>1. ASSUME UNCHANGED <<fat, blocks, pc, buf, slot, curr>>,
             \E d : cwd' = [cwd EXCEPT ![s] = d], pc[s] = "idle" \/ cwd' = cwd
      PROVE  \A q \in Sessions : Ahead(q)'
  <2> SUFFICES ASSUME NEW q \in Sessions
               PROVE  Ahead(q)'
    OBVIOUS
  <2>1. cwd'[q] = cwd[q] \/ pc[q] = "idle"
    BY <1>0, <1>1 DEF TypeInv, TypeOK
  <2> QED
    BY <1>0, <1>1, <2>1, SameAhead
<1>2. ASSUME NEW r, Answer(s, r)
      PROVE  /\ UNCHANGED <<dfat, blocks>>
             /\ \A q \in Sessions : Ahead(q)'
  <2>1. UNCHANGED <<fat, dfat, blocks, pc, buf, slot, curr, cwd>>
    BY <1>2 DEF Answer, memory, disk, dirs, locals
  <2>2. cwd' = [cwd EXCEPT ![s] = cwd[s]]
    BY <1>0, <2>1 DEF TypeInv, TypeOK
  <2> QED
    BY <1>1, <2>1, <2>2
<1>3. ASSUME CdRoot(s) \/ Reconnect(s) \/ \E n \in Names : Cd(s, n)
      PROVE  /\ UNCHANGED <<dfat, blocks>>
             /\ \A q \in Sessions : Ahead(q)'
  <2>1. UNCHANGED <<fat, dfat, blocks, pc, buf, slot, curr>> /\ pc[s] = "idle"
    BY <1>3 DEF CdRoot, Reconnect, Cd, LockedRequest, Request, memory, disk, locals
  <2>2. \E d : cwd' = [cwd EXCEPT ![s] = d]
    BY <1>3 DEF CdRoot, Reconnect, Cd
  <2> QED
    BY <1>1, <2>1, <2>2
<1>4. ASSUME lock = NoOne, UNCHANGED <<dfat, blocks>>, Ahead(s)',
             \E to : pc' = [pc EXCEPT ![s] = to]
      PROVE  /\ UNCHANGED <<dfat, blocks>>
             /\ \A q \in Sessions : Ahead(q)'
  BY <1>0, <1>4, OthersAhead
<1>5. ASSUME NEW n \in Names, NEW t \in {"file", "dir"}, CreateAlloc(s, n, t)
      PROVE  /\ UNCHANGED <<dfat, blocks>>
             /\ \A q \in Sessions : Ahead(q)'
  <2>1. lock = NoOne /\ UNCHANGED <<dfat, blocks>> /\ pc' = [pc EXCEPT ![s] = "C.save"]
    BY <1>5 DEF CreateAlloc, Lock, Goto, disk
  <2> QED
    BY <1>4, <1>5, <2>1, CreateAhead
<1>6. ASSUME NEW n \in Names, NEW l, NEW t, WriteFile(s, n, l, t)
      PROVE  /\ UNCHANGED <<dfat, blocks>>
             /\ \A q \in Sessions : Ahead(q)'
  <2>1. lock = NoOne /\ UNCHANGED <<dfat, blocks>> /\ pc' = [pc EXCEPT ![s] = "W.free"]
    BY <1>6 DEF WriteFile, Lock, Goto, disk
  <2> QED
    BY <1>4, <1>6, <2>1, WriteFileAhead
<1>7. ASSUME NEW n \in Names, ReadFile(s, n)
      PROVE  /\ UNCHANGED <<dfat, blocks>>
             /\ \A q \in Sessions : Ahead(q)'
  <2>1. lock = NoOne /\ UNCHANGED <<dfat, blocks>> /\ pc' = [pc EXCEPT ![s] = "R.data"]
    BY <1>7 DEF ReadFile, Lock, Goto, disk
  <2>2. pc'[s] = "R.data"
    BY <1>0, <2>1 DEF TypeInv, TypeOK
  <2> QED
    BY <1>4, <2>1, <2>2, NothingAhead
<1>8. ~Format(s) /\ \A n \in Names : ~Delete(s, n)
  BY DEF CrashInv, NothingRemoved, Format, Request, Delete
<1>9. ASSUME \/ List(s)
             \/ \E n \in Names : \/ CreateRefused(s, n) \/ ReadRefused(s, n)
                                 \/ WriteRefused(s, n) \/ CdRefused(s, n)
      PROVE  \E r : Answer(s, r)
  BY <1>9 DEF List, CreateRefused, ReadRefused, WriteRefused, CdRefused
<1> QED
  BY <1>2, <1>3, <1>5, <1>6, <1>7, <1>8, <1>9 DEF ClientStep, Create

LEMMA HandlerCrash ==
  ASSUME CrashInv, NEW s \in Sessions, HandlerStep(s)
  PROVE  /\ Sound(dfat', blocks', Root)
         /\ \A q \in Sessions : Ahead(q)'
<1>0. TypeInv /\ LockHeld /\ Ahead(s) /\ Sound(dfat, blocks, Root)
  BY DEF CrashInv, Inv
<1>1. pc[s] # "idle" /\ \E to : pc' = [pc EXCEPT ![s] = to]
  BY <1>0, HandlerStepLock DEF LockKept, LockReleased
<1>2. pc[s] \notin Removing
  BY <1>0 DEF Ahead
<1>3. Ahead(s)' /\ Sound(dfat', blocks', Root)
  <2>1. CASE CreateZero(s) \/ WriteChunk(s) \/ CreateEntry(s) \/ WriteEntry(s)
    BY <2>1, CreateZeroAhead, WriteChunkAhead, EntryAhead
  <2>2. CASE SaveFat(s, "C.save", "C.zero") \/ SaveFat(s, "W.save", "W.entry")
    BY <2>2, SaveAhead
  <2>3. CASE WriteFree(s) \/ WriteHead(s)
    <3>1. Ahead(s)'
      BY <2>3, WriteFreeAhead, WriteHeadAhead
    <3>2. dfat' = dfat /\ blocks' = blocks
      BY <2>3 DEF WriteFree, FreeStep, WriteHead, disk
    <3> QED
      BY <1>0, <3>1, <3>2
  <2>4. CASE ReadChunk(s) \/ ReadEnd(s)
    <3>1. pc'[s] \in {"idle", "R.data"} /\ dfat' = dfat /\ blocks' = blocks
      BY <1>0, <2>4 DEF ReadChunk, ReadEnd, Finish, Goto, disk, TypeInv, TypeOK
    <3> QED
      BY <1>0, <3>1, NothingAhead
  <2>5. ~(\/ SaveFat(s, "F.save", "F.root") \/ FormatRoot(s) \/ DeleteFree(s)
          \/ DeleteFreed(s) \/ SaveFat(s, "D.save", "D.entry") \/ DeleteEntry(s))
    BY <1>2 DEF SaveFat, FormatRoot, DeleteFree, DeleteFreed, DeleteEntry, Removing
  <2> QED
    BY <2>1, <2>2, <2>3, <2>4, <2>5 DEF HandlerStep
<1>4. lock = s
  BY <1>0, <1>1 DEF LockHeld
<1> QED
  BY <1>0, <1>1, <1>3, <1>4, OthersAhead

LEMMA NextCrash == CrashInv /\ [Next]_vars => CrashInv'
<1> SUFFICES ASSUME CrashInv, [Next]_vars PROVE CrashInv'
  OBVIOUS
<1>1. Inv' /\ NothingRemoved'
  BY NextTypeInv, NextLock, NextSaved DEF CrashInv, NothingRemoved, Inv, FatBlocks
<1>2. Sound(dfat', blocks', Root) /\ \A s \in Sessions : Ahead(s)'
  <2>1. CASE UNCHANGED vars
    BY <2>1, SameAhead DEF CrashInv, vars, memory, disk, dirs, locals
  <2>2. CASE Restart
    <3>1. dfat' = dfat /\ blocks' = blocks /\ \A s \in Sessions : pc'[s] = "idle"
      BY <2>2 DEF Restart, Each, disk
    <3> QED
      BY <3>1, NothingAhead DEF CrashInv
  <2>3. ASSUME NEW s \in Sessions, ClientStep(s)
        PROVE  Sound(dfat', blocks', Root) /\ \A q \in Sessions : Ahead(q)'
    <3>1. dfat' = dfat /\ blocks' = blocks
      BY <2>3, ClientCrash
    <3> QED
      BY <2>3, <3>1, ClientCrash DEF CrashInv
  <2>4. ASSUME NEW s \in Sessions, HandlerStep(s)
        PROVE  Sound(dfat', blocks', Root) /\ \A q \in Sessions : Ahead(q)'
    BY <2>4, HandlerCrash
  <2> QED
    BY <2>1, <2>2, <2>3, <2>4 DEF Next
<1> QED
  BY <1>1, <1>2, Layout DEF CrashInv

LEMMA CrashHolds == NothingRemoved /\ Spec => []CrashInv
  BY InitCrash, NextCrash, PTL DEF Spec

\* Between two commands the FAT in memory is the one on the disk.
LEMMA QuietSound ==
  ASSUME CrashInv, Quiet
  PROVE  /\ Sound(fat, blocks, Root)
         /\ \A c \in Cells : /\ c = <<c[1], c[2]>> /\ IsEntry(blocks, c[1], c[2])
                             /\ EntryAt(c) = blocks[c[1]][c[2]]
                             /\ EntryAt(c).head \in DataBlocks
<1>1. fat = dfat /\ TypeInv
  BY DEF CrashInv, Inv, SavedInv, FatSaved
<1>2. Sound(fat, blocks, Root)
  BY <1>1 DEF CrashInv
<1>3. ASSUME NEW c \in Cells
      PROVE  /\ c = <<c[1], c[2]>> /\ IsEntry(blocks, c[1], c[2])
             /\ EntryAt(c) = blocks[c[1]][c[2]]
             /\ EntryAt(c).head \in DataBlocks
  <2>1. c \in DirBlocks \X (1 .. BlockSize) /\ blocks[c[1]][c[2]] \notin Pieces
    BY DEF Cells
  <2>2. c = <<c[1], c[2]>> /\ IsEntry(blocks, c[1], c[2])
    BY <2>1 DEF IsEntry, Slots
  <2>3. blocks \in [DirBlocks -> Block]
    BY <1>1 DEF TypeInv, TypeOK
  <2> QED
    BY <2>2, <2>3, HeadIsData DEF EntryAt
<1> QED
  BY <1>2, <1>3

LEMMA CrashDangling == CrashInv => NoDanglingLink
<1> SUFFICES ASSUME CrashInv, Quiet
             PROVE  /\ \A c \in Cells : EntryAt(c).head \in Allocated
                    /\ \A b \in Allocated : fat[b] \in DataBlocks => fat[b] \in Allocated
  BY DEF NoDanglingLink
<1>1. \A c \in Cells : EntryAt(c).head \in Allocated
  BY QuietSound DEF Sound, HeadsUsed, Allocated
<1>2. \A b \in Allocated : fat[b] \in DataBlocks => Link(fat, b, Root)
  BY Layout DEF Allocated, Link, DataBlocks
<1>3. \A b \in Allocated : fat[b] \in DataBlocks => fat[b] \in Allocated
  BY <1>2, QuietSound DEF Sound, LinksUsed, Allocated
<1> QED
  BY <1>1, <1>3

LEMMA CrashShared == CrashInv => NoSharedBlock
<1> SUFFICES ASSUME CrashInv, Quiet, NEW b \in Allocated
             PROVE  Cardinality(CellsOwning(b)) + Cardinality(BlocksOwning(b)) <= 1
  BY DEF NoSharedBlock
<1>1. b \in DataBlocks
  BY DEF Allocated
<1>2. \A c, d \in CellsOwning(b) : c = d
  <2> SUFFICES ASSUME NEW c \in CellsOwning(b), NEW d \in CellsOwning(b)
               PROVE  c = d
    OBVIOUS
  <2>1. c \in Cells /\ d \in Cells /\ EntryAt(c).head = EntryAt(d).head
    BY DEF CellsOwning
  <2>2. c[1] = d[1] /\ c[2] = d[2]
    BY <2>1, QuietSound DEF Sound, HeadOnce
  <2>3. c = <<c[1], c[2]>> /\ d = <<d[1], d[2]>>
    BY <2>1, QuietSound
  <2> QED
    BY <2>2, <2>3
<1>3. \A a \in BlocksOwning(b) : Link(fat, a, Root) /\ fat[a] = b
  BY <1>1, Layout DEF BlocksOwning, Allocated, Link, DataBlocks
<1>4. \A x, y \in BlocksOwning(b) : x = y
  BY <1>3, QuietSound DEF Sound, LinkOnce
<1>5. CellsOwning(b) = {} \/ BlocksOwning(b) = {}
  <2> SUFFICES ASSUME NEW c \in CellsOwning(b), NEW a \in BlocksOwning(b)
               PROVE  FALSE
    OBVIOUS
  <2>1. c \in Cells /\ EntryAt(c).head = b
    BY DEF CellsOwning
  <2>2. IsEntry(blocks, c[1], c[2]) /\ blocks[c[1]][c[2]].head = b
    BY <2>1, QuietSound
  <2> QED
    BY <1>3, <2>2, QuietSound DEF Sound, HeadsFirst, Unlinked
<1> QED
  BY <1>2, <1>4, <1>5, OneOwner

\* Whatever command the server is killed in, and how often, nothing that it finds
\* when it starts again leads to a free block, as long as nothing is removed and
\* save_fat is one write: save_fat comes before the directory that names its blocks.
THEOREM CrashDanglesNothing == NothingRemoved /\ Spec => []NoDanglingLink
  BY CrashHolds, CrashDangling, PTL

\* And no two files share a block after it.
THEOREM CrashSharesNothing == NothingRemoved /\ Spec => []NoSharedBlock
  BY CrashHolds, CrashShared, PTL
=============================================================================
