--------------------------- MODULE ThreadsProofs ---------------------------
(***************************************************************************)
(* What TLAPS proves about the small programs of threads, for every value  *)
(* of the constants: the asynchronous copy (CopyExact), the pipeline of    *)
(* the GPU fallback and the demonstrations (QueuesDeliver, FarmInStep),    *)
(* mh.c and the bounded buffer (CountExact, NoOverrun, IsFifo); and that   *)
(* what MotherHubbardQueueProofs proves holds of the program as it is run  *)
(* here.                                                                   *)
(***************************************************************************)
EXTENDS MCThreads, Multiples, FiniteSetTheorems, SequenceTheorems, TLAPS

USE DEF counters, copyPlace, table, mother, father

-----------------------------------------------------------------------------
\* The asynchronous copy: its inductive invariant.

Units == [unit : Nat, xored : BOOLEAN]
Datas == UNION {[1 .. n -> Units] : n \in Nat}
Buffers == [st : {"free", "read", "write"}, off : Nat, size : Nat, data : Datas,
            io : {"none", "pending", "ok", "error"}, result : Nat]

Copied(k) == transform(Raw(k))

CopyTypes ==
  /\ total \in Nat /\ next_off \in 0 .. total /\ completed_writes \in Nat
  /\ bufs \in [DOMAIN bufs -> Buffers]
  /\ \E d \in Nat \ {0} : DOMAIN bufs = 1 .. d
  /\ dest \in [1 .. total -> Units]
  /\ at \in {"prime", "loop", "scan", "end", "died"} /\ scan \in Nat \ {0}

\* A buffer holds a chunk of the file, as it is or transformed.
BufferRight(b) ==
  /\ bufs[b].st # "free" => bufs[b].off + bufs[b].size <= total
  /\ bufs[b].st = "read" /\ bufs[b].io = "ok" =>
       /\ bufs[b].result <= bufs[b].size
       /\ bufs[b].data = [j \in 1 .. bufs[b].result |-> Raw(bufs[b].off + j)]
  /\ bufs[b].st = "write" =>
       bufs[b].data = [j \in 1 .. bufs[b].size |-> Copied(bufs[b].off + j)]

DataRight ==
  /\ \A b \in DOMAIN bufs : BufferRight(b)
  /\ \A k \in 1 .. total : dest[k] \in {Hole, Copied(k)}

\* Chunks that have been started: those written and those in a buffer.
Started == completed_writes + Cardinality(InFlight)

Counted ==
  /\ IsFiniteSet(InFlight)
  /\ next_off < total => next_off = Started * CopyBlock
  /\ next_off = total => Started = total_chunks

\* No buffer is idle while there is something to read.
Busy ==
  /\ at = "prime" => \A b \in DOMAIN bufs : bufs[b].st # "free" <=> b < scan
  /\ at \in {"loop", "scan"} =>
       next_off = total \/ \A b \in DOMAIN bufs : bufs[b].st # "free"
  /\ at = "end" => InFlight = {} /\ next_off = total

\* Without faults, what has been started is written or will be.
Carries(b, k) ==
  /\ bufs[b].st = "read" \/ (bufs[b].st = "write" /\ bufs[b].io = "pending")
  /\ bufs[b].off < k /\ k <= bufs[b].off + bufs[b].size

Whole ==
  faults = {} =>
    /\ \A b \in DOMAIN bufs :
         bufs[b].st = "read" /\ bufs[b].io = "ok" => bufs[b].result = bufs[b].size
    /\ \A k \in 1 .. next_off : dest[k] # Hole \/ \E b \in DOMAIN bufs : Carries(b, k)

CopyInv == CopyTypes /\ DataRight /\ Counted /\ Busy /\ Whole

-----------------------------------------------------------------------------
\* The units of a file, and the chunk that is read next.

LEMMA UnitsOf ==
  ASSUME NEW k \in Nat
  PROVE  /\ Raw(k) \in Units /\ Copied(k) \in Units /\ Hole \in Units
         /\ Copied(k) = transform(Raw(k))
         /\ k > 0 => Copied(k) # Hole
BY DEF Raw, Copied, transform, Hole, Units

LEMMA InDatas ==
  ASSUME NEW n \in Nat, NEW f \in [1 .. n -> Units]
  PROVE  f \in Datas
BY DEF Datas

\* The length of the chunk that starts at offset o, and the chunk after s others.
Chunk(o, b, t) == IF o + b <= t THEN b ELSE t - o

FitsAfter(n, o, s, b, t) ==
  /\ n \in 1 .. b /\ o + n <= t
  /\ o + n < t => o + n = (s + 1) * b
  /\ o + n = t => (t + b - 1) \div b = s + 1

LEMMA NextChunk ==
  ASSUME NEW b \in Nat \ {0}, NEW t \in Nat, NEW s \in Nat, NEW o \in Nat, o = s * b, o < t
  PROVE  FitsAfter(Chunk(o, b, t), o, s, b, t)
<1> DEFINE n == Chunk(o, b, t)
<1>0. n = IF o + b <= t THEN b ELSE t - o
  BY DEF Chunk
<1> HIDE DEF n
<1> DEFINE p == b * s
           pe == b * (s + 1)
<1>1. /\ p \in Nat /\ pe = p + b /\ o = p /\ (s + 1) * b = pe
      /\ s + 1 \in Nat \ {0} /\ s + 1 - 1 = s
  OBVIOUS
<1>2. /\ n \in 1 .. b /\ o + n <= t /\ o + n <= pe
      /\ o + n < t => o + n = pe
  <2> HIDE DEF p, pe
  <2> QED
    BY <1>0, <1>1
<1>3. ASSUME o + n = t
      PROVE  (t + b - 1) \div b = s + 1
  <2>1. b * (s + 1 - 1) = p
    BY <1>1
  <2>2. b * (s + 1 - 1) < t /\ t <= b * (s + 1)
    BY <1>1, <1>2, <1>3, <2>1
  <2> QED
    BY <1>1, <2>2, RoundedUp
<1> HIDE DEF p, pe
<1>4. FitsAfter(n, o, s, b, t)
  BY <1>1, <1>2, <1>3 DEF FitsAfter
<1> QED
  BY <1>4 DEF n

LEMMA TypesInit == CopyInit => CopyTypes
<1>1. <<>> \in Datas
  <2>1. <<>> \in [1 .. 0 -> Units]
    OBVIOUS
  <2> QED
    BY <2>1, InDatas
<1>2. Unused \in Buffers
  BY <1>1 DEF Unused, Buffers
<1>3. \A d \in Depths : Depth(d) \in Nat \ {0}
  BY CopyAssumption DEF Depth
<1>4. Hole \in Units
  BY UnitsOf
<1> QED
  BY <1>2, <1>3, <1>4, CopyAssumption DEF CopyInit, CopyTypes

LEMMA InitInv == CopyInit => CopyInv
<1> SUFFICES ASSUME CopyInit
             PROVE  CopyInv
  OBVIOUS
<1>1. CopyTypes
  BY TypesInit
<1>2. \A b \in DOMAIN bufs : bufs[b] = Unused /\ bufs[b].st = "free"
  BY DEF CopyInit, Unused
<1>3. DataRight
  BY <1>2 DEF DataRight, BufferRight, CopyInit
<1>4. InFlight = {}
  BY <1>2 DEF InFlight
<1>5. Counted
  <2>1. Started = 0 /\ IsFiniteSet(InFlight)
    BY <1>4, FS_EmptySet DEF Started, CopyInit
  <2>2. next_off = 0 * CopyBlock
    BY CopyAssumption DEF CopyInit
  <2>3. total = 0 => total_chunks = 0
    <3>1. CopyBlock * 0 + (CopyBlock - 1) = 0 + CopyBlock - 1 /\ CopyBlock - 1 \in 0 .. CopyBlock - 1
      BY CopyAssumption
    <3>2. (CopyBlock * 0 + (CopyBlock - 1)) \div CopyBlock = 0
      BY <3>1, Quotient, CopyAssumption
    <3> QED
      BY <3>1, <3>2 DEF total_chunks
  <2> QED
    BY <1>1, <2>1, <2>2, <2>3 DEF Counted, CopyTypes, CopyInit
<1>6. Busy
  BY <1>1, <1>2 DEF Busy, CopyInit, CopyTypes
<1>7. Whole
  BY <1>2 DEF Whole, CopyInit
<1> QED
  BY <1>1, <1>3, <1>5, <1>6, <1>7 DEF CopyInv

-----------------------------------------------------------------------------
\* Steps that change one buffer.

OthersStay(b) ==
  /\ DOMAIN bufs' = DOMAIN bufs
  /\ \A x \in DOMAIN bufs : x # b => bufs'[x] = bufs[x]

LEMMA OneBuffer ==
  ASSUME CopyTypes, NEW b \in DOMAIN bufs, OthersStay(b), bufs'[b] \in Buffers,
         bufs' = [x \in DOMAIN bufs |-> bufs'[x]]
  PROVE  /\ bufs' \in [DOMAIN bufs' -> Buffers]
         /\ \E d \in Nat \ {0} : DOMAIN bufs' = 1 .. d
BY DEF CopyTypes, OthersStay

LEMMA SameFlight ==
  ASSUME NEW b \in DOMAIN bufs, OthersStay(b), bufs'[b].st # "free", bufs[b].st # "free"
  PROVE  InFlight' = InFlight
BY DEF InFlight, OthersStay

\* A request ends: main's counters, and what is in flight, stay.
LEMMA SameCounts ==
  ASSUME CopyInv, NEW b \in DOMAIN bufs, OthersStay(b), bufs[b].st # "free",
         bufs'[b].st = bufs[b].st, UNCHANGED <<total, counters, copyPlace>>
  PROVE  Counted' /\ Busy'
<1>1. InFlight' = InFlight
  BY SameFlight
<1>2. Counted'
  BY <1>1 DEF CopyInv, Counted, Started, total_chunks
<1>3. \A x \in DOMAIN bufs : bufs'[x].st = bufs[x].st
  BY DEF OthersStay
<1> QED
  BY <1>1, <1>2, <1>3 DEF CopyInv, Busy, OthersStay

LEMMA BufferTypes ==
  ASSUME CopyTypes, NEW b \in DOMAIN bufs
  PROVE  /\ bufs[b] \in Buffers /\ bufs[b].off \in Nat /\ bufs[b].size \in Nat
         /\ bufs[b].result \in Nat /\ bufs[b].data \in Datas
BY DEF CopyTypes, Buffers

LEMMA ReadEndsKeeps ==
  ASSUME CopyInv, NEW b \in DOMAIN bufs, ReadEnds(b)
  PROVE  CopyInv'
<1>t. CopyTypes
  BY DEF CopyInv
<1>p. PICK n \in 0 .. bufs[b].size :
        /\ Result(b, n, "short_read")
        /\ Ended(b, n, [j \in 1 .. n |-> Raw(bufs[b].off + j)])
  BY DEF ReadEnds
<1> DEFINE data == [j \in 1 .. n |-> Raw(bufs[b].off + j)]
           new == [bufs[b] EXCEPT !.io = "ok", !.result = n, !.data = data]
<1>1. /\ bufs[b] \in Buffers /\ bufs[b].off \in Nat /\ bufs[b].size \in Nat
      /\ n \in Nat /\ n <= bufs[b].size /\ bufs[b].st = "read" /\ bufs[b].io = "pending"
      /\ UNCHANGED <<total, counters, dest, copyPlace>>
  BY <1>t, BufferTypes DEF ReadEnds, Pending
<1>2. data \in Datas
  <2>1. \A j \in 1 .. n : Raw(bufs[b].off + j) \in Units
    BY <1>1, UnitsOf
  <2> QED
    BY <1>1, <2>1, InDatas
<1>3. bufs' = [bufs EXCEPT ![b] = new]
  BY <1>p DEF Ended
<1>4. /\ new \in Buffers /\ new.st = "read" /\ new.off = bufs[b].off
      /\ new.size = bufs[b].size /\ new.io = "ok" /\ new.result = n /\ new.data = data
  <2> HIDE DEF data
  <2> QED
    BY <1>1, <1>2 DEF Buffers
<1> HIDE DEF new
<1>5. OthersStay(b) /\ bufs'[b] = new /\ bufs' = [x \in DOMAIN bufs |-> bufs'[x]]
  BY <1>t, <1>3 DEF OthersStay, CopyTypes
<1>6. CopyTypes'
  BY <1>t, <1>1, <1>4, <1>5, OneBuffer DEF CopyTypes
<1>7. DataRight'
  <2>1. \A x \in DOMAIN bufs : BufferRight(x)'
    <3>1. ASSUME NEW x \in DOMAIN bufs, x # b PROVE BufferRight(x)'
      BY <1>1, <1>5, <3>1 DEF CopyInv, DataRight, BufferRight, OthersStay
    <3>2. BufferRight(b)'
      BY <1>1, <1>4, <1>5 DEF CopyInv, DataRight, BufferRight
    <3> QED
      BY <3>1, <3>2
  <2> QED
    BY <1>1, <1>5, <2>1 DEF CopyInv, DataRight, OthersStay
<1>8. Counted' /\ Busy'
  BY <1>1, <1>4, <1>5, SameCounts
<1>9. Whole'
  <2>1. SUFFICES ASSUME faults' = {}
                 PROVE  /\ \A x \in DOMAIN bufs' : bufs'[x].st = "read" /\ bufs'[x].io = "ok"
                                                    => bufs'[x].result = bufs'[x].size
                        /\ \A k \in 1 .. next_off' :
                             dest'[k] # Hole \/ \E x \in DOMAIN bufs' : Carries(x, k)'
    BY DEF Whole
  <2>2. faults = {} /\ n = bufs[b].size
    BY <1>p, <2>1 DEF Result, Fault
  <2>3. \A x \in DOMAIN bufs : \A k \in 1 .. next_off : Carries(x, k) => Carries(x, k)'
    BY <1>1, <1>4, <1>5 DEF Carries, OthersStay
  <2> QED
    BY <1>1, <1>4, <1>5, <2>2, <2>3 DEF CopyInv, Whole, OthersStay
<1> QED
  BY <1>6, <1>7, <1>8, <1>9 DEF CopyInv

LEMMA WriteEndsKeeps ==
  ASSUME CopyInv, NEW b \in DOMAIN bufs, WriteEnds(b)
  PROVE  CopyInv'
<1>t. CopyTypes
  BY DEF CopyInv
<1>p. PICK n \in 0 .. bufs[b].size :
        /\ Result(b, n, "short_write")
        /\ Ended(b, n, bufs[b].data)
        /\ dest' = [k \in 1 .. total |->
                      IF k - bufs[b].off \in 1 .. n THEN bufs[b].data[k - bufs[b].off]
                      ELSE dest[k]]
  BY DEF WriteEnds
<1> DEFINE new == [bufs[b] EXCEPT !.io = "ok", !.result = n, !.data = bufs[b].data]
<1>1. /\ bufs[b] \in Buffers /\ bufs[b].off \in Nat /\ bufs[b].size \in Nat
      /\ bufs[b].data \in Datas /\ total \in Nat
      /\ n \in Nat /\ n <= bufs[b].size /\ bufs[b].st = "write" /\ bufs[b].io = "pending"
      /\ UNCHANGED <<total, counters, copyPlace>>
  BY <1>t, BufferTypes DEF WriteEnds, Pending, CopyTypes
<1>3. bufs' = [bufs EXCEPT ![b] = new]
  BY <1>p DEF Ended
<1>4. /\ new \in Buffers /\ new.st = "write" /\ new.off = bufs[b].off
      /\ new.size = bufs[b].size /\ new.io = "ok" /\ new.data = bufs[b].data
  BY <1>1 DEF Buffers
<1> HIDE DEF new
<1>5. OthersStay(b) /\ bufs'[b] = new /\ bufs' = [x \in DOMAIN bufs |-> bufs'[x]]
  BY <1>t, <1>3 DEF OthersStay, CopyTypes
<1>a. ASSUME NEW k \in 1 .. total
      PROVE  dest'[k] = (IF bufs[b].off < k /\ k <= bufs[b].off + n THEN Copied(k)
                         ELSE dest[k])
  <2>1. bufs[b].data = [j \in 1 .. bufs[b].size |-> Copied(bufs[b].off + j)]
    BY <1>1 DEF CopyInv, DataRight, BufferRight
  <2>2. k - bufs[b].off \in 1 .. n <=> bufs[b].off < k /\ k <= bufs[b].off + n
    BY <1>1
  <2>3. ASSUME k - bufs[b].off \in 1 .. n
        PROVE  bufs[b].data[k - bufs[b].off] = Copied(k)
    <3>1. k - bufs[b].off \in 1 .. bufs[b].size /\ bufs[b].off + (k - bufs[b].off) = k
      BY <1>1, <2>3
    <3> QED
      BY <2>1, <3>1
  <2> QED
    BY <1>p, <2>2, <2>3
<1>b. \A k \in 1 .. total : dest'[k] \in Units /\ dest'[k] \in {Hole, Copied(k)}
  BY <1>t, <1>a, <1>1, UnitsOf DEF CopyInv, DataRight, CopyTypes
<1>6. CopyTypes'
  <2>1. dest' \in [1 .. total -> Units]
    <3> DEFINE d(k) == IF k - bufs[b].off \in 1 .. n THEN bufs[b].data[k - bufs[b].off]
                       ELSE dest[k]
    <3>1. dest' = [k \in 1 .. total |-> d(k)]
      BY <1>p
    <3> HIDE DEF d
    <3>2. \A k \in 1 .. total : d(k) = dest'[k]
      BY <3>1
    <3> QED
      BY <1>b, <3>1, <3>2
  <2> QED
    BY <1>t, <1>1, <1>4, <1>5, <2>1, OneBuffer DEF CopyTypes
<1>7. DataRight'
  <2>1. \A x \in DOMAIN bufs : BufferRight(x)'
    <3>1. ASSUME NEW x \in DOMAIN bufs, x # b PROVE BufferRight(x)'
      BY <1>1, <1>5, <3>1 DEF CopyInv, DataRight, BufferRight, OthersStay
    <3>2. BufferRight(b)'
      BY <1>1, <1>4, <1>5 DEF CopyInv, DataRight, BufferRight
    <3> QED
      BY <3>1, <3>2
  <2> QED
    BY <1>1, <1>5, <1>b, <2>1 DEF DataRight, OthersStay
<1>8. Counted' /\ Busy'
  BY <1>1, <1>4, <1>5, SameCounts
<1>9. Whole'
  <2>1. SUFFICES ASSUME faults' = {}
                 PROVE  /\ \A x \in DOMAIN bufs' : bufs'[x].st = "read" /\ bufs'[x].io = "ok"
                                                    => bufs'[x].result = bufs'[x].size
                        /\ \A k \in 1 .. next_off' :
                             dest'[k] # Hole \/ \E x \in DOMAIN bufs' : Carries(x, k)'
    BY DEF Whole
  <2>2. faults = {} /\ n = bufs[b].size
    BY <1>p, <2>1 DEF Result, Fault
  <2>3. ASSUME NEW k \in 1 .. next_off
        PROVE  dest'[k] # Hole \/ \E x \in DOMAIN bufs : Carries(x, k)'
    <3>1. k \in 1 .. total /\ k \in Nat /\ k > 0
      BY <1>t DEF CopyTypes
    <3>2. dest[k] # Hole => dest'[k] # Hole
      BY <1>a, <3>1, UnitsOf
    <3>3. Carries(b, k) => dest'[k] # Hole
      BY <1>a, <2>2, <3>1, UnitsOf DEF Carries
    <3>4. \A x \in DOMAIN bufs : x # b /\ Carries(x, k) => Carries(x, k)'
      BY <1>5 DEF Carries, OthersStay
    <3>5. dest[k] # Hole \/ \E x \in DOMAIN bufs : Carries(x, k)
      BY <2>2 DEF CopyInv, Whole
    <3> QED
      BY <3>2, <3>3, <3>4, <3>5
  <2>4. \A x \in DOMAIN bufs : bufs'[x].st = "read" /\ bufs'[x].io = "ok"
                                 => bufs'[x].result = bufs'[x].size
    BY <1>4, <1>5, <2>2 DEF CopyInv, Whole, OthersStay
  <2> QED
    BY <1>1, <1>5, <2>3, <2>4 DEF OthersStay
<1> QED
  BY <1>6, <1>7, <1>8, <1>9 DEF CopyInv

LEMMA RequestFailsKeeps ==
  ASSUME CopyInv, NEW b \in DOMAIN bufs, RequestFails(b)
  PROVE  CopyInv'
<1>t. CopyTypes
  BY DEF CopyInv
<1> DEFINE new == [bufs[b] EXCEPT !.io = "error"]
<1>1. /\ bufs[b] \in Buffers /\ bufs[b].st # "free" /\ faults' # {}
      /\ UNCHANGED <<total, counters, dest, copyPlace>>
  BY <1>t, BufferTypes DEF RequestFails, Pending, Fault
<1>3. bufs' = [bufs EXCEPT ![b] = new]
  BY DEF RequestFails
<1>4. /\ new \in Buffers /\ new.st = bufs[b].st /\ new.off = bufs[b].off
      /\ new.size = bufs[b].size /\ new.io = "error" /\ new.data = bufs[b].data
  BY <1>1 DEF Buffers
<1> HIDE DEF new
<1>5. OthersStay(b) /\ bufs'[b] = new /\ bufs' = [x \in DOMAIN bufs |-> bufs'[x]]
  BY <1>t, <1>3 DEF OthersStay, CopyTypes
<1>6. CopyTypes'
  BY <1>t, <1>1, <1>4, <1>5, OneBuffer DEF CopyTypes
<1>7. DataRight'
  <2>1. \A x \in DOMAIN bufs : BufferRight(x)'
    <3>1. ASSUME NEW x \in DOMAIN bufs, x # b PROVE BufferRight(x)'
      BY <1>1, <1>5, <3>1 DEF CopyInv, DataRight, BufferRight, OthersStay
    <3>2. BufferRight(b)'
      BY <1>1, <1>4, <1>5 DEF CopyInv, DataRight, BufferRight
    <3> QED
      BY <3>1, <3>2
  <2> QED
    BY <1>1, <1>5, <2>1 DEF CopyInv, DataRight, OthersStay
<1>8. Counted' /\ Busy'
  BY <1>1, <1>4, <1>5, SameCounts
<1>9. Whole'
  BY <1>1 DEF Whole
<1> QED
  BY <1>6, <1>7, <1>8, <1>9 DEF CopyInv

-----------------------------------------------------------------------------
\* main's steps.

LEMMA RefusedKeeps ==
  ASSUME CopyInv, Refused
  PROVE  CopyInv'
<1>1. /\ UNCHANGED <<total, bufs, counters, dest, scan>> /\ at' = "died" /\ faults' # {}
  BY DEF Refused, Fault
<1> QED
  BY <1>1 DEF CopyInv, CopyTypes, DataRight, BufferRight, Counted, Started, InFlight, total_chunks, Busy,
     Whole

\* submit_read touches one buffer, which is then read into.
LEMMA SubmitTouches ==
  ASSUME CopyTypes, NEW b \in DOMAIN bufs, submit_read(b)
  PROVE  OthersStay(b) /\ DOMAIN bufs' = DOMAIN bufs /\ bufs'[b].st = "read"
<1> DEFINE n == IF next_off + CopyBlock <= total THEN CopyBlock ELSE total - next_off
           new == [bufs[b] EXCEPT !.st = "read", !.off = next_off, !.size = n,
                                  !.io = "pending"]
<1>1. bufs[b] \in Buffers
  BY BufferTypes
<1>2. bufs' = [bufs EXCEPT ![b] = new]
  BY DEF submit_read, ReadOff
<1> HIDE DEF n
<1>3. new.st = "read"
  BY <1>1 DEF Buffers
<1> HIDE DEF new
<1> QED
  BY <1>2, <1>3 DEF OthersStay, CopyTypes

\* The next chunk goes into a buffer whose own chunk is written, or that had none.
LEMMA SubmitKeeps ==
  ASSUME CopyInv, NEW b \in DOMAIN bufs, next_off < total, submit_read(b),
         UNCHANGED <<total, dest, faults>>, completed_writes' \in Nat,
         at' \in {"prime", "scan"}, scan' \in Nat \ {0},
         Started' = Started + 1, IsFiniteSet(InFlight)', Started \in Nat,
         bufs[b].st = "free" \/ (bufs[b].st = "write" /\ bufs[b].io = "ok")
  PROVE  /\ CopyTypes' /\ DataRight' /\ Counted' /\ Whole'
         /\ OthersStay(b) /\ bufs'[b].st = "read"
<1>t. CopyTypes
  BY DEF CopyInv
<1> DEFINE n == IF next_off + CopyBlock <= total THEN CopyBlock ELSE total - next_off
           new == [bufs[b] EXCEPT !.st = "read", !.off = next_off, !.size = n,
                                  !.io = "pending"]
<1>1. /\ bufs[b] \in Buffers /\ total \in Nat /\ next_off \in Nat /\ CopyBlock \in Nat \ {0}
      /\ next_off = Started * CopyBlock
  BY <1>t, BufferTypes, CopyAssumption DEF CopyTypes, CopyInv, Counted
<1>2. /\ n \in Nat /\ n \in 1 .. CopyBlock /\ next_off + n <= total
      /\ next_off + n < total => next_off + n = (Started + 1) * CopyBlock
      /\ next_off + n = total => total_chunks = Started + 1
  <2>1. n = Chunk(next_off, CopyBlock, total)
    BY DEF Chunk
  <2> HIDE DEF n
  <2>2. FitsAfter(n, next_off, Started, CopyBlock, total)
    BY <1>1, <2>1, NextChunk
  <2>3. n \in 1 .. CopyBlock /\ next_off + n <= total
    BY <2>2 DEF FitsAfter
  <2> QED
    BY <1>1, <2>2, <2>3 DEF FitsAfter, total_chunks
<1>3. bufs' = [bufs EXCEPT ![b] = new] /\ next_off' = next_off + n
  BY DEF submit_read, ReadOff
<1> HIDE DEF n
<1>4. /\ new \in Buffers /\ new.st = "read" /\ new.off = next_off /\ new.size = n
      /\ new.io = "pending"
  BY <1>1, <1>2 DEF Buffers
<1> HIDE DEF new
<1>5. OthersStay(b) /\ bufs'[b] = new /\ bufs' = [x \in DOMAIN bufs |-> bufs'[x]]
  BY <1>t, <1>3 DEF OthersStay, CopyTypes
<1>6. CopyTypes'
  <2>1. /\ bufs' \in [DOMAIN bufs' -> Buffers]
        /\ \E d \in Nat \ {0} : DOMAIN bufs' = 1 .. d
    BY <1>t, <1>4, <1>5, OneBuffer
  <2>2. next_off' \in 0 .. total
    BY <1>1, <1>2, <1>3
  <2> QED
    BY <1>t, <2>1, <2>2 DEF CopyTypes
<1>7. DataRight'
  <2>1. \A x \in DOMAIN bufs : BufferRight(x)'
    <3>1. ASSUME NEW x \in DOMAIN bufs, x # b PROVE BufferRight(x)'
      BY <1>1, <1>5, <3>1 DEF CopyInv, DataRight, BufferRight, OthersStay
    <3>2. BufferRight(b)'
      BY <1>1, <1>2, <1>4, <1>5 DEF BufferRight
    <3> QED
      BY <3>1, <3>2
  <2> QED
    BY <1>1, <1>5, <2>1 DEF CopyInv, DataRight, OthersStay
<1>8. Counted'
  BY <1>1, <1>2, <1>3 DEF Counted, total_chunks
<1>9. Whole'
  <2>1. SUFFICES ASSUME faults' = {}
                 PROVE  /\ \A x \in DOMAIN bufs' : bufs'[x].st = "read" /\ bufs'[x].io = "ok"
                                                    => bufs'[x].result = bufs'[x].size
                        /\ \A k \in 1 .. next_off' :
                             dest'[k] # Hole \/ \E x \in DOMAIN bufs' : Carries(x, k)'
    BY DEF Whole
  <2>2. faults = {}
    BY <2>1
  <2>3. ASSUME NEW k \in 1 .. next_off'
        PROVE  dest'[k] # Hole \/ \E x \in DOMAIN bufs : Carries(x, k)'
    <3>1. CASE k \in 1 .. next_off
      <4>1. \A x \in DOMAIN bufs : Carries(x, k) => x # b /\ Carries(x, k)'
        BY <1>5 DEF Carries, OthersStay
      <4>2. dest[k] # Hole \/ \E x \in DOMAIN bufs : Carries(x, k)
        BY <2>2, <3>1 DEF CopyInv, Whole
      <4> QED
        BY <4>1, <4>2
    <3>2. CASE ~(k \in 1 .. next_off)
      <4>1. next_off < k /\ k <= next_off + n
        BY <1>1, <1>2, <1>3, <3>2
      <4>2. Carries(b, k)'
        BY <1>4, <1>5, <4>1 DEF Carries
      <4> QED
        BY <4>2
    <3> QED
      BY <3>1, <3>2
  <2>4. \A x \in DOMAIN bufs : bufs'[x].st = "read" /\ bufs'[x].io = "ok"
                                 => bufs'[x].result = bufs'[x].size
    BY <1>4, <1>5, <2>2 DEF CopyInv, Whole, OthersStay
  <2> QED
    BY <1>5, <2>3, <2>4 DEF OthersStay
<1> QED
  BY <1>4, <1>5, <1>6, <1>7, <1>8, <1>9

LEMMA StartedIsNat ==
  ASSUME CopyInv
  PROVE  Started \in Nat /\ Cardinality(InFlight) \in Nat
BY FS_CardinalityType DEF CopyInv, CopyTypes, Counted, Started

LEMMA PrimeKeeps ==
  ASSUME CopyInv, Prime
  PROVE  CopyInv'
<1>t. CopyTypes /\ Counted /\ Busy
  BY DEF CopyInv
<1>1. at = "prime" /\ scan \in Nat \ {0}
  BY <1>t DEF Prime, CopyTypes
<1>2. CASE Refused
  BY <1>2, RefusedKeeps
<1>3. CASE /\ scan \in DOMAIN bufs /\ next_off < total
           /\ submit_read(scan) /\ NextBuffer
           /\ UNCHANGED <<total, completed_writes, dest, faults>>
  <2>1. bufs[scan].st = "free" /\ scan \notin InFlight
    BY <1>t, <1>1, <1>3 DEF Busy, InFlight
  <2>2. /\ DOMAIN bufs' = DOMAIN bufs /\ bufs'[scan].st = "read"
        /\ \A x \in DOMAIN bufs : x # scan => bufs'[x] = bufs[x]
    BY <1>t, <1>3, SubmitTouches DEF OthersStay
  <2>3. InFlight' = InFlight \cup {scan}
    BY <1>3, <2>2 DEF InFlight
  <2>4. IsFiniteSet(InFlight') /\ Cardinality(InFlight') = Cardinality(InFlight) + 1
    BY <1>t, <2>1, <2>3, FS_AddElement DEF Counted
  <2>5. Started' = Started + 1 /\ Started \in Nat /\ completed_writes' \in Nat
    BY <1>t, <1>3, <2>4, StartedIsNat DEF Started, CopyTypes
  <2>6. at' = "prime" /\ scan' = scan + 1
    BY <1>1, <1>3 DEF NextBuffer
  <2>7. CopyTypes' /\ DataRight' /\ Counted' /\ Whole'
    BY <1>1, <1>3, <2>1, <2>4, <2>5, <2>6, SubmitKeeps
  <2>8. Busy'
    <3>1. \A x \in DOMAIN bufs : bufs'[x].st # "free" <=> x < scan + 1
      <4>1. \A x \in DOMAIN bufs : x \in Nat
        BY <1>t DEF CopyTypes
      <4> QED
        BY <1>t, <1>1, <2>2, <4>1 DEF Busy
    <3> QED
      BY <2>2, <2>6, <3>1 DEF Busy
  <2> QED
    BY <2>7, <2>8 DEF CopyInv
<1>4. CASE /\ ~(scan \in DOMAIN bufs /\ next_off < total) /\ at' = "loop"
           /\ UNCHANGED <<total, bufs, counters, dest, scan, faults>>
  <2>1. next_off = total \/ \A b \in DOMAIN bufs : bufs[b].st # "free"
    <3>1. CASE next_off >= total
      BY <1>t, <3>1 DEF CopyTypes
    <3>2. CASE scan \notin DOMAIN bufs
      <4>1. \A b \in DOMAIN bufs : b < scan
        BY <1>t, <1>1, <3>2 DEF CopyTypes
      <4> QED
        BY <1>t, <1>1, <4>1 DEF Busy
    <3> QED
      BY <1>t, <1>4, <3>1, <3>2 DEF CopyTypes
  <2>2. Busy'
    BY <1>4, <2>1 DEF Busy
  <2>3. CopyTypes' /\ DataRight' /\ Counted' /\ Whole'
    BY <1>4 DEF CopyInv, CopyTypes, DataRight, BufferRight, Counted, Started, InFlight, total_chunks,
       Whole, Carries
  <2> QED
    BY <2>2, <2>3 DEF CopyInv
<1> QED
  BY <1>2, <1>3, <1>4 DEF Prime

\* The loop ends only when nothing is in flight.
LEMMA SuspendKeeps ==
  ASSUME CopyInv, Suspend
  PROVE  CopyInv'
<1>t. CopyTypes /\ Counted /\ Busy
  BY DEF CopyInv
<1>1. at = "loop" /\ UNCHANGED <<total, bufs, counters, dest, faults>>
  BY DEF Suspend
<1>2. /\ CopyTypes /\ scan' \in Nat \ {0} /\ at' \in {"scan", "end"} =>
         CopyTypes' /\ DataRight' /\ Counted' /\ Whole'
  BY <1>1 DEF CopyInv, CopyTypes, DataRight, BufferRight, Counted, Started, InFlight, total_chunks,
     Whole, Carries
<1>3. CASE completed_writes < total_chunks /\ InFlight # {}
  <2>1. at' = "scan" /\ scan' = 1
    BY <1>3 DEF Suspend
  <2>2. Busy'
    BY <1>t, <1>1, <2>1 DEF Busy
  <2> QED
    BY <1>2, <1>t, <2>1, <2>2 DEF CopyInv
<1>4. CASE ~(completed_writes < total_chunks /\ InFlight # {})
  <2>1. at' = "end" /\ scan' = scan
    BY <1>4 DEF Suspend
  <2>0. /\ total \in Nat /\ next_off \in 0 .. total /\ CopyBlock \in Nat \ {0}
        /\ completed_writes \in Nat /\ total_chunks \in Int
    BY <1>t, CopyAssumption DEF CopyTypes, total_chunks
  <2>2. Started \in Nat /\ Cardinality(InFlight) \in Nat
        /\ Started = completed_writes + Cardinality(InFlight)
    BY StartedIsNat DEF Started
  <2>3. ASSUME next_off < total
        PROVE  FALSE
    <3>1. \A b \in DOMAIN bufs : bufs[b].st # "free"
      BY <1>t, <1>1, <2>0, <2>3 DEF Busy
    <3>2. InFlight # {}
      <4>1. 1 \in DOMAIN bufs
        BY <1>t DEF CopyTypes
      <4> QED
        BY <3>1, <4>1 DEF InFlight
    <3>3. completed_writes >= total_chunks
      BY <1>4, <2>0, <3>2
    <3>4. next_off = CopyBlock * Started
      BY <1>t, <2>0, <2>2, <2>3 DEF Counted
    <3>5. total_chunks > Started
      BY <2>0, <2>2, <2>3, <3>4, MoreThan DEF total_chunks
    <3> QED
      BY <2>0, <2>2, <3>3, <3>5
  <2>4. next_off = total
    BY <2>0, <2>3
  <2>5. InFlight = {}
    <3>1. CASE completed_writes >= total_chunks
      <4>1. Started = total_chunks
        BY <1>t, <2>4 DEF Counted
      <4>2. Cardinality(InFlight) = 0
        BY <2>0, <2>2, <3>1, <4>1
      <4> QED
        BY <1>t, <4>2, FS_EmptySet DEF Counted
    <3> QED
      BY <1>4, <2>0, <3>1
  <2>6. Busy'
    BY <1>1, <2>1, <2>4, <2>5 DEF Busy, InFlight
  <2> QED
    BY <1>2, <1>t, <2>1, <2>6 DEF CopyInv, CopyTypes
<1> QED
  BY <1>3, <1>4

LEMMA ReadDoneKeeps ==
  ASSUME CopyInv, NEW b \in DOMAIN bufs, at = "scan", ReadDone(b)
  PROVE  CopyInv'
<1>t. CopyTypes /\ Counted /\ Busy
  BY DEF CopyInv
<1> DEFINE n == bufs[b].result
           data == [j \in 1 .. n |-> transform(bufs[b].data[j])]
           new == [bufs[b] EXCEPT !.st = "write", !.size = n, !.data = data,
                                  !.io = "pending"]
<1>0. CASE Refused
  BY <1>0, RefusedKeeps
<1>9. CASE /\ bufs' = [bufs EXCEPT ![b] = new] /\ NextBuffer
           /\ UNCHANGED <<total, counters, dest, faults>>
  <2>1. /\ bufs[b] \in Buffers /\ bufs[b].off \in Nat /\ bufs[b].size \in Nat
        /\ n \in Nat /\ n <= bufs[b].size /\ bufs[b].st = "read" /\ bufs[b].io = "ok"
        /\ bufs[b].off + bufs[b].size <= total /\ total \in Nat
        /\ bufs[b].data = [j \in 1 .. n |-> Raw(bufs[b].off + j)]
    BY <1>t, BufferTypes DEF ReadDone, Has, CopyInv, DataRight, BufferRight, CopyTypes
  <2>2. data = [j \in 1 .. n |-> Copied(bufs[b].off + j)]
    <3>1. \A j \in 1 .. n : transform(bufs[b].data[j]) = Copied(bufs[b].off + j)
      BY <2>1 DEF Copied
    <3> QED
      BY <3>1
  <2>3. data \in Datas
    <3>1. \A j \in 1 .. n : Copied(bufs[b].off + j) \in Units
      BY <2>1, UnitsOf
    <3> QED
      BY <2>1, <2>2, <3>1, InDatas
  <2> HIDE DEF data
  <2>4. /\ new \in Buffers /\ new.st = "write" /\ new.off = bufs[b].off /\ new.size = n
        /\ new.io = "pending" /\ new.data = data
    <3> HIDE DEF n
    <3> QED
      BY <2>1, <2>3 DEF Buffers
  <2>5. OthersStay(b) /\ bufs'[b] = new /\ bufs' = [x \in DOMAIN bufs |-> bufs'[x]]
    BY <1>t, <1>9 DEF OthersStay, CopyTypes
  <2> HIDE DEF new
  <2>6. at' = "scan" /\ scan' \in Nat \ {0}
    BY <1>t, <1>9 DEF NextBuffer, CopyTypes
  <2>7. CopyTypes'
    BY <1>t, <1>9, <2>4, <2>5, <2>6, OneBuffer DEF CopyTypes
  <2>8. DataRight'
    <3>1. ASSUME NEW x \in DOMAIN bufs, x # b PROVE BufferRight(x)'
      BY <1>9, <2>5, <3>1 DEF CopyInv, DataRight, BufferRight, OthersStay
    <3>2. BufferRight(b)'
      <4>1. bufs[b].off + n <= total
        BY <2>1
      <4> HIDE DEF n
      <4> QED
        BY <1>9, <2>2, <2>4, <2>5, <4>1 DEF BufferRight
    <3> QED
      BY <1>9, <2>5, <3>1, <3>2 DEF CopyInv, DataRight, OthersStay
  <2>9. InFlight' = InFlight
    BY <2>1, <2>4, <2>5, SameFlight
  <2>10. Counted'
    BY <1>t, <1>9, <2>9 DEF Counted, Started, total_chunks
  <2>11. Busy'
    BY <1>t, <1>9, <2>4, <2>5, <2>6 DEF Busy, OthersStay
  <2>12. Whole'
    <3>1. ASSUME faults = {}
          PROVE  /\ \A x \in DOMAIN bufs : bufs'[x].st = "read" /\ bufs'[x].io = "ok"
                                              => bufs'[x].result = bufs'[x].size
                 /\ \A x \in DOMAIN bufs : \A k \in 1 .. next_off :
                      Carries(x, k) => Carries(x, k)'
      <4>1. n = bufs[b].size
        BY <2>1, <3>1 DEF CopyInv, Whole
      <4>2. bufs'[b].size = bufs[b].size
        BY <2>4, <2>5, <4>1
      <4> HIDE DEF n
      <4> QED
        BY <2>4, <2>5, <3>1, <4>2 DEF CopyInv, Whole, Carries, OthersStay
    <3> QED
      BY <1>9, <2>5, <3>1 DEF CopyInv, Whole, OthersStay
  <2> QED
    BY <2>7, <2>8, <2>10, <2>11, <2>12 DEF CopyInv
<1> QED
  BY <1>0, <1>9 DEF ReadDone

LEMMA WriteDoneKeeps ==
  ASSUME CopyInv, NEW b \in DOMAIN bufs, at = "scan", WriteDone(b)
  PROVE  CopyInv'
<1>t. CopyTypes /\ Counted /\ Busy
  BY DEF CopyInv
<1>1. /\ bufs[b].st = "write" /\ bufs[b].io = "ok" /\ b \in InFlight
      /\ total \in Nat /\ next_off \in 0 .. total /\ completed_writes \in Nat
      /\ scan \in Nat \ {0}
  BY <1>t DEF WriteDone, Has, InFlight, CopyTypes
<1>2. Started \in Nat /\ Cardinality(InFlight) \in Nat
      /\ Started = completed_writes + Cardinality(InFlight)
  BY StartedIsNat DEF Started
<1>3. CASE Refused
  BY <1>3, RefusedKeeps
<1>4. CASE /\ next_off < total /\ submit_read(b)
           /\ completed_writes' = completed_writes + 1 /\ NextBuffer
           /\ UNCHANGED <<total, dest, faults>>
  <2>1. at' = "scan" /\ scan' = scan + 1
    BY <1>4 DEF NextBuffer
  <2>2. OthersStay(b) /\ bufs'[b].st = "read"
    BY <1>t, <1>4, SubmitTouches
  <2>3. InFlight' = InFlight
    BY <1>1, <2>2, SameFlight
  <2>4. Started' = Started + 1 /\ IsFiniteSet(InFlight)' /\ completed_writes' \in Nat
    BY <1>t, <1>1, <1>2, <1>4, <2>3 DEF Started, Counted
  <2>5. CopyTypes' /\ DataRight' /\ Counted' /\ Whole'
    BY <1>1, <1>2, <1>4, <2>1, <2>4, SubmitKeeps
  <2>6. Busy'
    <3>1. \A x \in DOMAIN bufs : bufs[x].st # "free"
      BY <1>t, <1>1, <1>4 DEF Busy
    <3>2. DOMAIN bufs' = DOMAIN bufs /\ \A x \in DOMAIN bufs' : bufs'[x].st # "free"
      BY <2>2, <3>1 DEF OthersStay
    <3> QED
      BY <2>1, <3>2 DEF Busy
  <2> QED
    BY <2>5, <2>6 DEF CopyInv
<1>5. CASE /\ ~(next_off < total)
           /\ bufs' = [bufs EXCEPT ![b].st = "free"]
           /\ completed_writes' = completed_writes + 1 /\ NextBuffer
           /\ UNCHANGED <<total, next_off, dest, faults>>
  <2> DEFINE new == [bufs[b] EXCEPT !.st = "free"]
  <2>1. at' = "scan" /\ scan' = scan + 1
    BY <1>5 DEF NextBuffer
  <2>2. bufs[b] \in Buffers
    BY <1>t, BufferTypes
  <2>3. new \in Buffers /\ new.st = "free"
    BY <2>2 DEF Buffers
  <2>4. OthersStay(b) /\ bufs'[b] = new /\ bufs' = [x \in DOMAIN bufs |-> bufs'[x]]
    BY <1>t, <1>5 DEF OthersStay, CopyTypes
  <2> HIDE DEF new
  <2>5. CopyTypes'
    <3>1. /\ bufs' \in [DOMAIN bufs' -> Buffers]
          /\ \E d \in Nat \ {0} : DOMAIN bufs' = 1 .. d
      BY <1>t, <2>3, <2>4, OneBuffer
    <3> QED
      BY <1>t, <1>1, <1>5, <2>1, <3>1 DEF CopyTypes
  <2>6. DataRight'
    <3>1. ASSUME NEW x \in DOMAIN bufs, x # b PROVE BufferRight(x)'
      BY <1>5, <2>4, <3>1 DEF CopyInv, DataRight, BufferRight, OthersStay
    <3>2. BufferRight(b)'
      BY <2>3, <2>4 DEF BufferRight
    <3> QED
      BY <1>5, <2>4, <3>1, <3>2 DEF CopyInv, DataRight, OthersStay
  <2>7. InFlight' = InFlight \ {b}
    BY <2>3, <2>4 DEF InFlight, OthersStay
  <2>8. IsFiniteSet(InFlight') /\ Cardinality(InFlight') = Cardinality(InFlight) - 1
    BY <1>t, <1>1, <2>7, FS_RemoveElement DEF Counted
  <2>9. Started' = Started
    BY <1>1, <1>2, <1>5, <2>8 DEF Started
  <2>10. Counted'
    BY <1>t, <1>5, <2>8, <2>9 DEF Counted, total_chunks
  <2>11. Busy'
    BY <1>1, <1>5, <2>1 DEF Busy
  <2>12. Whole'
    <3>1. \A x \in DOMAIN bufs : \A k \in 1 .. next_off : Carries(x, k) => Carries(x, k)'
      BY <1>1, <2>4 DEF Carries, OthersStay
    <3>2. \A x \in DOMAIN bufs : bufs'[x].st = "read" => bufs'[x] = bufs[x]
      BY <2>3, <2>4 DEF OthersStay
    <3> QED
      BY <1>5, <2>4, <3>1, <3>2 DEF CopyInv, Whole, OthersStay
  <2> QED
    BY <2>5, <2>6, <2>10, <2>11, <2>12 DEF CopyInv
<1> QED
  BY <1>3, <1>4, <1>5 DEF WriteDone

LEMMA ScanKeeps ==
  ASSUME CopyInv, Scan
  PROVE  CopyInv'
<1>1. at = "scan"
  BY DEF Scan
<1>2. CASE scan \in DOMAIN bufs /\ (ReadDone(scan) \/ WriteDone(scan))
  BY <1>1, <1>2, ReadDoneKeeps, WriteDoneKeeps
<1>3. CASE /\ at' \in {"loop", "scan"} /\ scan' \in {scan, scan + 1}
           /\ UNCHANGED <<total, bufs, counters, dest, faults>>
  <2>1. CopyTypes'
    BY <1>3 DEF CopyInv, CopyTypes
  <2>2. DataRight'
    BY <1>3 DEF CopyInv, DataRight, BufferRight
  <2>3. Counted'
    BY <1>3 DEF CopyInv, Counted, Started, InFlight, total_chunks
  <2>4. Busy'
    BY <1>1, <1>3 DEF CopyInv, Busy
  <2>5. Whole'
    BY <1>3 DEF CopyInv, Whole, Carries
  <2> QED
    BY <2>1, <2>2, <2>3, <2>4, <2>5 DEF CopyInv
<1> QED
  BY <1>1, <1>2, <1>3 DEF Scan, NotDone, NextBuffer

LEMMA StepInv ==
  ASSUME CopyInv, [CopyNext]_copyVars
  PROVE  CopyInv'
<1>1. CASE CopyNext
  BY <1>1, PrimeKeeps, SuspendKeeps, ScanKeeps, ReadEndsKeeps, WriteEndsKeeps,
     RequestFailsKeeps DEF CopyNext, CopyMain, Kernel
<1>2. CASE UNCHANGED copyVars
  BY <1>2 DEF copyVars, CopyInv, CopyTypes, DataRight, BufferRight, Counted, Started, InFlight,
     total_chunks, Busy, Whole, Carries
<1> QED
  BY <1>1, <1>2

LEMMA Invariant == CopySpec => []CopyInv
<1>1. CopyInv /\ [CopyNext]_copyVars => CopyInv'
  BY StepInv
<1> QED
  BY <1>1, InitInv, PTL DEF CopySpec

-----------------------------------------------------------------------------
\* Whatever the length of the file, the chunk and the depth, and in whatever order
\* requests end, in part or not at all: what is written is the transformed input in
\* its place, and when main ends and nothing has failed the output is whole.
THEOREM CopyIsExact == CopySpec => []CopyExact
<1>1. ASSUME CopyInv
      PROVE  CopyExact
  <2>1. \A k \in 1 .. total : dest[k] \in {Hole, transform(Raw(k))}
    BY <1>1 DEF CopyInv, DataRight, Copied
  <2>2. ASSUME at = "end", faults = {}, NEW k \in 1 .. total
        PROVE  dest[k] # Hole
    <3>1. next_off = total /\ InFlight = {}
      BY <1>1, <2>2 DEF CopyInv, Busy
    <3>2. dest[k] # Hole \/ \E b \in DOMAIN bufs : Carries(b, k)
      BY <1>1, <2>2, <3>1 DEF CopyInv, Whole
    <3>3. \A b \in DOMAIN bufs : ~Carries(b, k)
      BY <3>1 DEF InFlight, Carries
    <3> QED
      BY <3>2, <3>3
  <2> QED
    BY <2>1, <2>2 DEF CopyExact
<1> QED
  BY <1>1, Invariant, PTL

-----------------------------------------------------------------------------
\* The demonstrations of semaphores.

DemoNext == JoinAll \/ (\E t \in DOMAIN tpc : DemoThread(t)) \/ Race

\* Whether a thread is at one of these labels, as a number.
Count(t, labels) == IF tpc[t] \in labels THEN 1 ELSE 0

-----------------------------------------------------------------------------
\* LCM_Farming.

AHole == [no : Nat, seeds : Nat]
FarmSems == [shovel : Nat, dig_hole : Nat, curley : Nat, moe : Nat]

FarmTypes ==
  /\ DOMAIN tpc = 1 .. 3 /\ has \in [1 .. 3 -> AHole]
  /\ tpc[1] \in {"ask", "shovel", "dig", "return", "end"}
  /\ tpc[2] \in {"wait", "take", "put", "end"}
  /\ tpc[3] \in {"wait", "take", "shovel", "fill", "end"}
  /\ sem \in FarmSems
  /\ line \in Seq(AHole) /\ taken = <<>>

\* The shovel lies there or is in somebody's hands.
ShovelKept == sem.shovel + Count(1, {"dig", "return"}) + Count(3, {"fill"}) = 1

\* For each hole in the queue Curley or Moe has been called, or will be by Larry.
HolesCalled ==
  Len(line) = sem.curley + Count(2, {"take"}) + Count(1, {"return"})
                + sem.moe + Count(3, {"take"})

Permits == sem.dig_hole
Queued == Len(line)
Digging == Count(1, {"shovel", "dig"})
Putting == Count(2, {"put"})
Filling == Count(3, {"shovel", "fill"})

\* The holes Larry may still dig, and those on their way from him to Moe.
HolesAhead ==
  Ahead = Permits + Digging + Queued + Putting + Filling

FarmInv == FarmTypes /\ ShovelKept /\ HolesCalled /\ HolesAhead

LEMMA FarmCounts ==
  ASSUME FarmInv
  PROVE  /\ Count(2, {"take"}) \in {0, 1} /\ Count(3, {"take"}) \in {0, 1}
         /\ Len(line) \in Nat /\ Permits \in Nat /\ Queued \in Nat
         /\ Digging \in {0, 1} /\ Putting \in {0, 1} /\ Filling \in {0, 1}
  BY DEF FarmInv, FarmTypes, FarmSems, Permits, Queued, Digging, Putting, Filling, Count

LEMMA FarmGood == FarmInv => FarmInStep
<1> SUFFICES ASSUME FarmInv
             PROVE  FarmInStep
  OBVIOUS
<1> DEFINE takers == {t \in {Curley, Moe} : IsAt(t, "take")}
<1>1. /\ Count(2, {"take"}) \in {0, 1} /\ Count(3, {"take"}) \in {0, 1}
      /\ Len(line) \in Nat
  BY FarmCounts
<1>2. ~(tpc[Larry] \in {"dig", "return"} /\ IsAt(Moe, "fill"))
  BY DEF FarmInv, FarmTypes, FarmSems, ShovelKept, Count, IsAt, Larry, Moe
<1>3. Len(line) <= Ahead
  <2>1. Queued <= Ahead
    BY FarmCounts, DemoAssumption DEF FarmInv, HolesAhead
  <2> QED
    BY <2>1 DEF Queued
<1>4. Cardinality(takers) <= Count(2, {"take"}) + Count(3, {"take"})
  <2>1. takers = (IF tpc[2] = "take" THEN {2} ELSE {}) \cup (IF tpc[3] = "take" THEN {3} ELSE {})
    BY DEF IsAt, Curley, Moe
  <2>2. Cardinality({2}) = 1 /\ Cardinality({3}) = 1 /\ Cardinality({}) = 0
    BY FS_EmptySet, FS_Singleton
  <2>3. Cardinality({2, 3}) = 2
    <3>1. {2, 3} = {2} \cup {3} /\ 3 \notin {2}
      OBVIOUS
    <3>2. IsFiniteSet({2})
      BY FS_Singleton
    <3>3. Cardinality({2} \cup {3}) = Cardinality({2}) + 1
      BY <3>1, <3>2, FS_AddElement
    <3> QED
      BY <2>2, <3>1, <3>3
  <2>4. CASE tpc[2] = "take" /\ tpc[3] = "take"
    BY <2>1, <2>3, <2>4 DEF Count
  <2>5. CASE tpc[2] = "take" /\ tpc[3] # "take"
    <3>1. takers = {2}
      BY <2>1, <2>5
    <3> QED
      BY <2>2, <2>5, <3>1 DEF Count
  <2>6. CASE tpc[2] # "take" /\ tpc[3] = "take"
    <3>1. takers = {3}
      BY <2>1, <2>6
    <3> QED
      BY <2>2, <2>6, <3>1 DEF Count
  <2>7. CASE tpc[2] # "take" /\ tpc[3] # "take"
    <3>1. takers = {}
      BY <2>1, <2>7
    <3> QED
      BY <2>2, <2>7, <3>1 DEF Count
  <2> QED
    BY <2>4, <2>5, <2>6, <2>7
<1>5. Len(line) >= Count(2, {"take"}) + Count(3, {"take"})
  BY DEF FarmInv, FarmTypes, FarmSems, HolesCalled, Count
<1>6. Cardinality(takers) \in Nat
  <2>1. takers \subseteq {2} \cup {3}
    BY DEF Curley, Moe
  <2>5. IsFiniteSet({2})
    BY FS_Singleton
  <2>2. IsFiniteSet({2} \cup {3})
    BY <2>5, FS_AddElement
  <2>4. \A T : T \subseteq {2} \cup {3} => IsFiniteSet(T)
    BY <2>2, FS_Subset
  <2>3. IsFiniteSet(takers)
    BY <2>1, <2>4
  <2> QED
    BY <2>3, FS_CardinalityType
<1>7. Len(line) >= Cardinality(takers)
  BY <1>1, <1>4, <1>5, <1>6
<1> QED
  BY <1>2, <1>3, <1>7 DEF FarmInStep

-----------------------------------------------------------------------------
\* Larry digs; Curley plants; Moe fills.

LEMMA LarryKeeps ==
  ASSUME FarmInv, LarryAsks \/ LarryTakesShovel \/ LarryDigs \/ LarryReturnsShovel
  PROVE  FarmInv'
<1> USE DEF IsAt, Move, Acquire, Larry
<1>1. CASE LarryAsks
  <2>1. /\ tpc[1] = "ask" /\ tpc'[1] = "shovel" /\ tpc'[2] = tpc[2] /\ tpc'[3] = tpc[3]
        /\ sem' \in FarmSems
        /\ sem'.shovel = sem.shovel /\ sem'.dig_hole = sem.dig_hole - 1
        /\ sem'.curley = sem.curley /\ sem'.moe = sem.moe /\ sem.dig_hole > 0
        /\ UNCHANGED <<has, line, taken>>
    BY <1>1 DEF LarryAsks, FarmInv, FarmTypes, FarmSems
  <2>2. FarmTypes'
    BY <1>1, <2>1 DEF LarryAsks, FarmInv, FarmTypes
  <2>3. ShovelKept'
    BY <2>1 DEF FarmInv, FarmTypes, FarmSems, ShovelKept, Count
  <2>4. HolesCalled'
    BY <2>1 DEF FarmInv, FarmTypes, FarmSems, HolesCalled, Count
  <2>5. HolesAhead'
    <3>1. /\ Permits' = Permits - 1 /\ Digging' = Digging + 1 /\ Queued' = Queued
          /\ Putting' = Putting /\ Filling' = Filling
      BY <2>1 DEF FarmInv, FarmTypes, FarmSems, Permits, Digging, Queued, Putting, Filling, Count
    <3> QED
      BY <3>1, FarmCounts DEF FarmInv, HolesAhead
  <2> QED
    BY <2>2, <2>3, <2>4, <2>5 DEF FarmInv
<1>2. CASE LarryTakesShovel
  <2>1. /\ tpc[1] = "shovel" /\ tpc'[1] = "dig" /\ tpc'[2] = tpc[2] /\ tpc'[3] = tpc[3]
        /\ sem' \in FarmSems
        /\ sem'.shovel = sem.shovel - 1 /\ sem'.dig_hole = sem.dig_hole
        /\ sem'.curley = sem.curley /\ sem'.moe = sem.moe /\ sem.shovel > 0
        /\ UNCHANGED <<has, line, taken>>
    BY <1>2 DEF LarryTakesShovel, FarmInv, FarmTypes, FarmSems
  <2>2. FarmTypes'
    BY <1>2, <2>1 DEF LarryTakesShovel, FarmInv, FarmTypes
  <2>3. ShovelKept'
    BY <2>1 DEF FarmInv, FarmTypes, FarmSems, ShovelKept, Count
  <2>4. HolesCalled'
    BY <2>1 DEF FarmInv, FarmTypes, FarmSems, HolesCalled, Count
  <2>5. HolesAhead'
    <3>1. UNCHANGED <<Permits, Digging, Queued, Putting, Filling>>
      BY <2>1 DEF Permits, Digging, Queued, Putting, Filling, Count
    <3> QED
      BY <3>1 DEF FarmInv, HolesAhead
  <2> QED
    BY <2>2, <2>3, <2>4, <2>5 DEF FarmInv
<1>3. CASE LarryDigs
  <2>1. /\ tpc[1] = "dig" /\ tpc'[1] = "return" /\ tpc'[2] = tpc[2] /\ tpc'[3] = tpc[3]
        /\ line' = Append(line, Dug(has[1].no)) /\ UNCHANGED <<has, sem, taken>>
    BY <1>3 DEF LarryDigs, FarmInv, FarmTypes
  <2>6. Dug(has[1].no) \in AHole
    BY DEF FarmInv, FarmTypes, Dug, AHole
  <2>7. line' \in Seq(AHole) /\ Len(line') = Len(line) + 1
    BY <2>1, <2>6 DEF FarmInv, FarmTypes
  <2>2. FarmTypes'
    BY <1>3, <2>1, <2>7 DEF LarryDigs, FarmInv, FarmTypes
  <2>3. ShovelKept'
    BY <2>1 DEF FarmInv, FarmTypes, FarmSems, ShovelKept, Count
  <2>4. HolesCalled'
    BY <2>1, <2>7 DEF FarmInv, FarmTypes, FarmSems, HolesCalled, Count
  <2>5. HolesAhead'
    <3>1. /\ Permits' = Permits /\ Digging' = Digging - 1 /\ Queued' = Queued + 1
          /\ Putting' = Putting /\ Filling' = Filling
      BY <2>1, <2>7 DEF FarmInv, FarmTypes, FarmSems, Permits, Digging, Queued, Putting, Filling, Count
    <3>2. \A a, b, c, d, e \in Int : a + (b - 1) + (c + 1) + d + e = a + b + c + d + e
      OBVIOUS
    <3>3. /\ Permits \in Int /\ Digging \in Int /\ Queued \in Int
          /\ Putting \in Int /\ Filling \in Int
      BY FarmCounts
    <3> QED
      BY <3>1, <3>2, <3>3 DEF FarmInv, HolesAhead
  <2> QED
    BY <2>2, <2>3, <2>4, <2>5 DEF FarmInv
<1>4. CASE LarryReturnsShovel
  <2>0. /\ tpc[1] = "return" /\ tpc'[1] \in {"ask", "end"}
        /\ tpc'[2] = tpc[2] /\ tpc'[3] = tpc[3] /\ DOMAIN tpc' = 1 .. 3
    BY <1>4 DEF LarryReturnsShovel, FarmInv, FarmTypes
  <2>9. /\ sem' = [sem EXCEPT !.shovel = @ + 1, !.curley = @ + 1] /\ sem \in FarmSems
        /\ has' = [has EXCEPT ![1].no = @ + 1] /\ UNCHANGED <<line, taken>>
    BY <1>4 DEF LarryReturnsShovel, FarmInv, FarmTypes
  <2>1. /\ tpc[1] = "return" /\ tpc'[1] \in {"ask", "end"}
        /\ tpc'[2] = tpc[2] /\ tpc'[3] = tpc[3] /\ sem' \in FarmSems
        /\ sem'.shovel = sem.shovel + 1 /\ sem'.dig_hole = sem.dig_hole
        /\ sem'.curley = sem.curley + 1 /\ sem'.moe = sem.moe
        /\ has' = [has EXCEPT ![1].no = @ + 1] /\ UNCHANGED <<line, taken>>
    <3>1. /\ sem.shovel \in Nat /\ sem.dig_hole \in Nat /\ sem.curley \in Nat
          /\ sem.moe \in Nat /\ DOMAIN sem = {"shovel", "dig_hole", "curley", "moe"}
      BY <2>9 DEF FarmSems
    <3>2. sem' = [shovel |-> sem.shovel + 1, dig_hole |-> sem.dig_hole,
                  curley |-> sem.curley + 1, moe |-> sem.moe]
      BY <2>9 DEF FarmSems
    <3>3. sem' \in FarmSems
      BY <3>1, <3>2 DEF FarmSems
    <3> QED
      BY <2>0, <2>9, <3>2, <3>3
  <2>6. has' \in [1 .. 3 -> AHole]
    <3>1. has \in [1 .. 3 -> AHole] /\ has[1].no \in Nat
      BY DEF FarmInv, FarmTypes, AHole
    <3>2. [has[1] EXCEPT !.no = @ + 1] \in AHole
      BY <3>1 DEF AHole
    <3>3. has' = [has EXCEPT ![1] = [has[1] EXCEPT !.no = @ + 1]]
      BY <2>1, <3>1
    <3> QED
      BY <3>1, <3>2, <3>3
  <2>2. FarmTypes'
    BY <2>0, <2>1, <2>6 DEF FarmInv, FarmTypes
  <2>3. ShovelKept'
    BY <2>1 DEF FarmInv, FarmTypes, FarmSems, ShovelKept, Count
  <2>4. HolesCalled'
    BY <2>1 DEF FarmInv, FarmTypes, FarmSems, HolesCalled, Count
  <2>5. HolesAhead'
    <3>1. UNCHANGED <<Permits, Digging, Queued, Putting, Filling>>
      BY <2>1 DEF Permits, Digging, Queued, Putting, Filling, Count
    <3> QED
      BY <3>1 DEF FarmInv, HolesAhead
  <2> QED
    BY <2>2, <2>3, <2>4, <2>5 DEF FarmInv
<1> QED
  BY <1>1, <1>2, <1>3, <1>4

LEMMA CurleyKeeps ==
  ASSUME FarmInv, CurleyWaits \/ CurleyTakes \/ CurleyPuts
  PROVE  FarmInv'
<1> USE DEF IsAt, Move, Acquire, Release, Curley
<1>1. CASE CurleyWaits
  <2>1. /\ tpc[2] = "wait" /\ tpc'[2] = "take" /\ tpc'[1] = tpc[1] /\ tpc'[3] = tpc[3]
        /\ sem' \in FarmSems
        /\ sem'.shovel = sem.shovel /\ sem'.dig_hole = sem.dig_hole
        /\ sem'.curley = sem.curley - 1 /\ sem'.moe = sem.moe /\ sem.curley > 0
        /\ UNCHANGED <<has, line, taken>>
    BY <1>1 DEF CurleyWaits, FarmInv, FarmTypes, FarmSems
  <2>2. FarmTypes'
    BY <1>1, <2>1 DEF CurleyWaits, FarmInv, FarmTypes
  <2>3. ShovelKept'
    BY <2>1 DEF FarmInv, FarmTypes, FarmSems, ShovelKept, Count
  <2>4. HolesCalled'
    BY <2>1 DEF FarmInv, FarmTypes, FarmSems, HolesCalled, Count
  <2>5. HolesAhead'
    <3>1. UNCHANGED <<Permits, Digging, Queued, Putting, Filling>>
      BY <2>1 DEF Permits, Digging, Queued, Putting, Filling, Count
    <3> QED
      BY <3>1 DEF FarmInv, HolesAhead
  <2> QED
    BY <2>2, <2>3, <2>4, <2>5 DEF FarmInv
<1>2. CASE CurleyTakes
  <2>1. /\ tpc[2] = "take" /\ tpc'[2] = "put" /\ tpc'[1] = tpc[1] /\ tpc'[3] = tpc[3]
        /\ line # <<>> /\ line' = Tail(line) /\ has' = [has EXCEPT ![2] = Head(line)]
        /\ UNCHANGED <<sem, taken>>
    BY <1>2 DEF CurleyTakes, FrontInto, FarmInv, FarmTypes
  <2>6. line' \in Seq(AHole) /\ Len(line') = Len(line) - 1 /\ Head(line) \in AHole
    BY <2>1 DEF FarmInv, FarmTypes
  <2>2. FarmTypes'
    BY <1>2, <2>1, <2>6 DEF CurleyTakes, FarmInv, FarmTypes
  <2>3. ShovelKept'
    BY <2>1 DEF FarmInv, FarmTypes, FarmSems, ShovelKept, Count
  <2>4. HolesCalled'
    BY <2>1, <2>6 DEF FarmInv, FarmTypes, FarmSems, HolesCalled, Count
  <2>5. HolesAhead'
    <3>1. /\ Permits' = Permits /\ Digging' = Digging /\ Queued' = Queued - 1
          /\ Putting' = Putting + 1 /\ Filling' = Filling
      BY <2>1, <2>6 DEF FarmInv, FarmTypes, FarmSems, Permits, Digging, Queued, Putting, Filling, Count
    <3>2. \A a, b, c, d, e \in Int : a + b + (c - 1) + (d + 1) + e = a + b + c + d + e
      OBVIOUS
    <3>3. /\ Permits \in Int /\ Digging \in Int /\ Queued \in Int
          /\ Putting \in Int /\ Filling \in Int
      BY FarmCounts
    <3> QED
      BY <3>1, <3>2, <3>3 DEF FarmInv, HolesAhead
  <2> QED
    BY <2>2, <2>3, <2>4, <2>5 DEF FarmInv
<1>3. CASE CurleyPuts
  <2>1. /\ tpc[2] = "put" /\ tpc'[2] \in {"wait", "end"} /\ tpc'[1] = tpc[1] /\ tpc'[3] = tpc[3]
        /\ sem' \in FarmSems
        /\ sem'.shovel = sem.shovel /\ sem'.dig_hole = sem.dig_hole
        /\ sem'.curley = sem.curley /\ sem'.moe = sem.moe + 1
        /\ line' = Append(line, [has[2] EXCEPT !.seeds = @ + 1]) /\ UNCHANGED <<has, taken>>
    <3>1. /\ tpc[2] = "put" /\ tpc'[2] \in {"wait", "end"} /\ tpc'[1] = tpc[1] /\ tpc'[3] = tpc[3]
          /\ line' = Append(line, [has[2] EXCEPT !.seeds = @ + 1]) /\ UNCHANGED <<has, taken>>
          /\ sem' = [sem EXCEPT !["moe"] = @ + 1] /\ sem \in FarmSems
      BY <1>3 DEF CurleyPuts, FarmInv, FarmTypes
    <3> QED
      BY <3>1 DEF FarmSems
  <2>6. has[2] \in AHole /\ [has[2] EXCEPT !.seeds = @ + 1] \in AHole
    <3>1. has[2] \in AHole
      BY DEF FarmInv, FarmTypes
    <3> QED
      BY <3>1 DEF AHole
  <2>7. line' \in Seq(AHole) /\ Len(line') = Len(line) + 1
    BY <2>1, <2>6 DEF FarmInv, FarmTypes
  <2>2. FarmTypes'
    BY <1>3, <2>1, <2>7 DEF CurleyPuts, FarmInv, FarmTypes
  <2>3. ShovelKept'
    BY <2>1 DEF FarmInv, FarmTypes, FarmSems, ShovelKept, Count
  <2>4. HolesCalled'
    <3>1. UNCHANGED <<Count(2, {"take"}), Count(1, {"return"}), Count(3, {"take"})>>
      BY <2>1 DEF Count
    <3>2. sem'.curley = sem.curley /\ sem'.moe = sem.moe + 1 /\ Len(line') = Len(line) + 1
      BY <2>1, <2>7
    <3>3. PICK n, a, b, c, d, e : /\ n = Len(line) /\ a = sem.curley /\ b = Count(2, {"take"})
                                  /\ c = Count(1, {"return"}) /\ d = sem.moe /\ e = Count(3, {"take"})
      OBVIOUS
    <3>4. n \in Nat /\ a \in Nat /\ b \in Nat /\ c \in Nat /\ d \in Nat /\ e \in Nat
      BY <3>3 DEF FarmInv, FarmTypes, FarmSems, Count
    <3>5. n = a + b + c + d + e
      BY <3>3 DEF FarmInv, HolesCalled
    <3>6. n + 1 = a + b + c + (d + 1) + e
      BY <3>4, <3>5
    <3> QED
      BY <3>1, <3>2, <3>3, <3>6 DEF HolesCalled
  <2>5. HolesAhead'
    <3>1. /\ Permits' = Permits /\ Digging' = Digging /\ Queued' = Queued + 1
          /\ Putting' = Putting - 1 /\ Filling' = Filling
      BY <2>1, <2>7 DEF FarmInv, FarmTypes, FarmSems, Permits, Digging, Queued, Putting, Filling, Count
    <3> QED
      BY <3>1, FarmCounts DEF FarmInv, HolesAhead
  <2> QED
    BY <2>2, <2>3, <2>4, <2>5 DEF FarmInv
<1> QED
  BY <1>1, <1>2, <1>3

LEMMA MoeKeeps ==
  ASSUME FarmInv, MoeWaits \/ MoeTakes \/ MoeTakesShovel \/ MoeFills
  PROVE  FarmInv'
<1> USE DEF IsAt, Move, Acquire, Moe
<1>1. CASE MoeWaits
  <2>1. /\ tpc[3] = "wait" /\ tpc'[3] = "take" /\ tpc'[1] = tpc[1] /\ tpc'[2] = tpc[2]
        /\ sem' \in FarmSems
        /\ sem'.shovel = sem.shovel /\ sem'.dig_hole = sem.dig_hole
        /\ sem'.curley = sem.curley /\ sem'.moe = sem.moe - 1 /\ sem.moe > 0
        /\ UNCHANGED <<has, line, taken>>
    BY <1>1 DEF MoeWaits, FarmInv, FarmTypes, FarmSems
  <2>2. FarmTypes'
    BY <1>1, <2>1 DEF MoeWaits, FarmInv, FarmTypes
  <2>3. ShovelKept'
    BY <2>1 DEF FarmInv, FarmTypes, FarmSems, ShovelKept, Count
  <2>4. HolesCalled'
    BY <2>1 DEF FarmInv, FarmTypes, FarmSems, HolesCalled, Count
  <2>5. HolesAhead'
    <3>1. UNCHANGED <<Permits, Digging, Queued, Putting, Filling>>
      BY <2>1 DEF Permits, Digging, Queued, Putting, Filling, Count
    <3> QED
      BY <3>1 DEF FarmInv, HolesAhead
  <2> QED
    BY <2>2, <2>3, <2>4, <2>5 DEF FarmInv
<1>2. CASE MoeTakes
  <2>1. /\ tpc[3] = "take" /\ tpc'[3] = "shovel" /\ tpc'[1] = tpc[1] /\ tpc'[2] = tpc[2]
        /\ line # <<>> /\ line' = Tail(line) /\ has' = [has EXCEPT ![3] = Head(line)]
        /\ UNCHANGED <<sem, taken>>
    BY <1>2 DEF MoeTakes, FrontInto, FarmInv, FarmTypes
  <2>6. line' \in Seq(AHole) /\ Len(line') = Len(line) - 1 /\ Head(line) \in AHole
    BY <2>1 DEF FarmInv, FarmTypes
  <2>2. FarmTypes'
    BY <1>2, <2>1, <2>6 DEF MoeTakes, FarmInv, FarmTypes
  <2>3. ShovelKept'
    BY <2>1 DEF FarmInv, FarmTypes, FarmSems, ShovelKept, Count
  <2>4. HolesCalled'
    BY <2>1, <2>6 DEF FarmInv, FarmTypes, FarmSems, HolesCalled, Count
  <2>5. HolesAhead'
    <3>1. /\ Permits' = Permits /\ Digging' = Digging /\ Queued' = Queued - 1
          /\ Putting' = Putting /\ Filling' = Filling + 1
      BY <2>1, <2>6 DEF FarmInv, FarmTypes, FarmSems, Permits, Digging, Queued, Putting, Filling, Count
    <3> QED
      BY <3>1, FarmCounts DEF FarmInv, HolesAhead
  <2> QED
    BY <2>2, <2>3, <2>4, <2>5 DEF FarmInv
<1>3. CASE MoeTakesShovel
  <2>1. /\ tpc[3] = "shovel" /\ tpc'[3] = "fill" /\ tpc'[1] = tpc[1] /\ tpc'[2] = tpc[2]
        /\ sem' \in FarmSems
        /\ sem'.shovel = sem.shovel - 1 /\ sem'.dig_hole = sem.dig_hole
        /\ sem'.curley = sem.curley /\ sem'.moe = sem.moe /\ sem.shovel > 0
        /\ UNCHANGED <<has, line, taken>>
    BY <1>3 DEF MoeTakesShovel, FarmInv, FarmTypes, FarmSems
  <2>2. FarmTypes'
    BY <1>3, <2>1 DEF MoeTakesShovel, FarmInv, FarmTypes
  <2>3. ShovelKept'
    BY <2>1 DEF FarmInv, FarmTypes, FarmSems, ShovelKept, Count
  <2>4. HolesCalled'
    BY <2>1 DEF FarmInv, FarmTypes, FarmSems, HolesCalled, Count
  <2>5. HolesAhead'
    <3>1. UNCHANGED <<Permits, Digging, Queued, Putting, Filling>>
      BY <2>1 DEF Permits, Digging, Queued, Putting, Filling, Count
    <3> QED
      BY <3>1 DEF FarmInv, HolesAhead
  <2> QED
    BY <2>2, <2>3, <2>4, <2>5 DEF FarmInv
<1>4. CASE MoeFills
  <2>0. /\ tpc[3] = "fill" /\ tpc'[3] \in {"wait", "end"}
        /\ tpc'[1] = tpc[1] /\ tpc'[2] = tpc[2] /\ DOMAIN tpc' = 1 .. 3
        /\ UNCHANGED <<has, line, taken>>
    BY <1>4 DEF MoeFills, FarmInv, FarmTypes
  <2>1. /\ sem' \in FarmSems
        /\ sem'.shovel = sem.shovel + 1 /\ sem'.dig_hole = sem.dig_hole + 1
        /\ sem'.curley = sem.curley /\ sem'.moe = sem.moe
    <3>1. /\ sem' = [sem EXCEPT !.shovel = @ + 1, !.dig_hole = @ + 1] /\ sem \in FarmSems
      BY <1>4 DEF MoeFills, FarmInv, FarmTypes
    <3>2. /\ sem.shovel \in Nat /\ sem.dig_hole \in Nat /\ sem.curley \in Nat
          /\ sem.moe \in Nat
      BY <3>1 DEF FarmSems
    <3>3. sem' = [shovel |-> sem.shovel + 1, dig_hole |-> sem.dig_hole + 1,
                  curley |-> sem.curley, moe |-> sem.moe]
      BY <3>1 DEF FarmSems
    <3>4. sem' \in FarmSems
      BY <3>2, <3>3 DEF FarmSems
    <3> QED
      BY <3>3, <3>4
  <2>2. FarmTypes'
    BY <2>0, <2>1 DEF FarmInv, FarmTypes
  <2>3. ShovelKept'
    BY <2>0, <2>1 DEF FarmInv, FarmTypes, FarmSems, ShovelKept, Count
  <2>4. HolesCalled'
    BY <2>0, <2>1 DEF FarmInv, FarmTypes, FarmSems, HolesCalled, Count
  <2>5. HolesAhead'
    <3>1. /\ Permits' = Permits + 1 /\ Digging' = Digging /\ Queued' = Queued
          /\ Putting' = Putting /\ Filling' = Filling - 1
      BY <2>0, <2>1 DEF FarmInv, FarmTypes, FarmSems, Permits, Digging, Queued, Putting, Filling, Count
    <3> QED
      BY <3>1, FarmCounts DEF FarmInv, HolesAhead
  <2> QED
    BY <2>2, <2>3, <2>4, <2>5 DEF FarmInv
<1> QED
  BY <1>1, <1>2, <1>3, <1>4

-----------------------------------------------------------------------------
\* ProducerConsumer.

Item == Producers \X Nat
ItemSems == [empty : Nat, full : Nat]

\* Threads past their semaphore, of either kind.
Placing == Count(1, {"lock"}) + Count(2, {"lock"})
Taking == Count(3, {"lock"}) + Count(4, {"lock"})

ItemTypes ==
  /\ tpc \in [1 .. 4 -> {"wait", "lock", "end"}] /\ has \in [1 .. 4 -> 0 .. PerThread]
  /\ \A t \in 1 .. 4 : tpc[t] = "end" <=> has[t] = PerThread
  /\ sem \in ItemSems /\ line \in Seq(Item) /\ taken \in Seq(Item)

ItemCounts ==
  /\ Len(line) = sem.full + Taking
  /\ Room = sem.empty + Placing + Len(line)
  /\ Len(taken) = has[3] + has[4]
  /\ Len(taken) + Len(line) = has[1] + has[2]

ItemInv == ItemTypes /\ ItemCounts /\ InTurn(taken \o line, has)

LEMMA ItemNumbers ==
  ASSUME ItemTypes
  PROVE  /\ Placing \in Nat /\ Taking \in Nat /\ sem.full \in Nat /\ sem.empty \in Nat
         /\ Len(line) \in Nat /\ Len(taken) \in Nat
         /\ \A t \in 1 .. 4 : has[t] \in 0 .. PerThread /\ has[t] \in Nat
  BY DemoAssumption DEF ItemTypes, ItemSems, Placing, Taking, Count

LEMMA ItemsGood == ItemInv => ItemsInOrder
<1> SUFFICES ASSUME ItemInv
             PROVE  ItemsInOrder
  OBVIOUS
<1>1. Len(line) <= Room
  <2>1. PICK e \in Nat, p \in Nat, l \in Nat : e = sem.empty /\ p = Placing /\ l = Len(line)
    BY ItemNumbers DEF ItemInv
  <2>2. Room = e + p + l
    BY <2>1 DEF ItemInv, ItemCounts
  <2>3. l <= Room
    BY <2>2
  <2> QED
    BY <2>1, <2>3
<1>2. Len(taken \o line) = Len(taken) + Len(line)
  BY ConcatProperties DEF ItemInv, ItemTypes
<1>3. ASSUME \A t \in Consumers : IsAt(t, "end")
      PROVE  line = <<>>
  <2>1. tpc[3] = "end" /\ tpc[4] = "end"
    BY <1>3 DEF Consumers, IsAt
  <2>2. has[3] = PerThread /\ has[4] = PerThread
    BY <2>1 DEF ItemInv, ItemTypes
  <2>3. has[1] \in 0 .. PerThread /\ has[2] \in 0 .. PerThread
    BY ItemNumbers DEF ItemInv
  <2>4. Len(line) = 0
    <3>1. PICK a \in Nat, l \in Nat : a = Len(taken) /\ l = Len(line)
      BY ItemNumbers DEF ItemInv
    <3>2. a = PerThread + PerThread /\ a + l = has[1] + has[2]
      BY <2>2, <3>1 DEF ItemInv, ItemCounts
    <3>3. l = 0
      BY <2>3, <3>2, DemoAssumption
    <3> QED
      BY <3>1, <3>3
  <2> QED
    BY <2>4 DEF ItemInv, ItemTypes
<1> QED
  BY <1>1, <1>2, <1>3 DEF ItemsInOrder, ItemInv, ItemCounts

\* A producer adds its next item at the end; a consumer's number does not matter.
LEMMA AddedInTurn ==
  ASSUME NEW s \in Seq(Item), NEW n \in [1 .. 4 -> Nat], InTurn(s, n), NEW t \in Producers
  PROVE  InTurn(Append(s, <<t, n[t]>>), [n EXCEPT ![t] = @ + 1])
<1> DEFINE x == <<t, n[t]>>
           m == [n EXCEPT ![t] = @ + 1]
           r == Append(s, x)
<1>1. x \in Item /\ x[1] = t /\ x[2] = n[t] /\ n[t] \in Nat
  BY DEF Item, Producers
<1>2. /\ Len(r) = Len(s) + 1 /\ r[Len(s) + 1] = x
      /\ \A k \in 1 .. Len(s) : r[k] = s[k]
      /\ DOMAIN r = 1 .. Len(s) + 1 /\ DOMAIN s = 1 .. Len(s) /\ Len(s) \in Nat
  BY <1>1, AppendProperties
<1>3. m[t] = n[t] + 1 /\ \A u \in Producers : u # t => m[u] = n[u]
  BY DEF Producers
<1> HIDE DEF x, m, r
<1>4. ASSUME NEW k \in 1 .. Len(s) + 1
      PROVE  \E u \in Producers : r[k][1] = u /\ r[k][2] \in 0 .. m[u] - 1
  <2>1. CASE k = Len(s) + 1
    BY <1>1, <1>2, <1>3, <2>1
  <2>2. CASE k # Len(s) + 1
    <3>1. k \in 1 .. Len(s)
      BY <1>2, <2>2
    <3>2. PICK u \in Producers : s[k][1] = u /\ s[k][2] \in 0 .. n[u] - 1
      BY <1>2, <3>1 DEF InTurn
    <3>3. n[u] \in Nat
      BY DEF Producers
    <3>4. s[k][2] \in 0 .. m[u] - 1
      <4>1. m[u] \in Nat /\ n[u] <= m[u]
        <5>1. CASE u = t
          BY <1>3, <3>3, <5>1
        <5>2. CASE u # t
          BY <1>3, <3>3, <5>2
        <5> QED
          BY <5>1, <5>2
      <4>2. PICK a, y, z : a = s[k][2] /\ y = n[u] /\ z = m[u]
        OBVIOUS
      <4>3. a \in 0 .. y - 1 /\ y \in Nat /\ z \in Nat /\ y <= z
        BY <3>2, <3>3, <4>1, <4>2
      <4>4. a \in 0 .. z - 1
        BY <4>3
      <4> QED
        BY <4>2, <4>4
    <3> QED
      BY <1>2, <3>1, <3>2, <3>4
  <2> QED
    BY <2>1, <2>2
<1>5. ASSUME NEW j \in 1 .. Len(s) + 1, NEW k \in 1 .. Len(s) + 1,
             j < k, r[j][1] = r[k][1]
      PROVE  r[j][2] < r[k][2]
  <2>1. j \in 1 .. Len(s) /\ r[j] = s[j]
    BY <1>2, <1>5
  <2>2. CASE k = Len(s) + 1
    <3>1. PICK u \in Producers : s[j][1] = u /\ s[j][2] \in 0 .. n[u] - 1
      BY <1>2, <2>1 DEF InTurn
    <3>2. u = t
      BY <1>1, <1>2, <1>5, <2>1, <2>2, <3>1
    <3> QED
      BY <1>1, <1>2, <2>1, <2>2, <3>1, <3>2
  <2>3. CASE k # Len(s) + 1
    <3>1. k \in 1 .. Len(s) /\ r[k] = s[k]
      BY <1>2, <2>3
    <3> QED
      BY <1>2, <1>5, <2>1, <3>1 DEF InTurn
  <2> QED
    BY <2>2, <2>3
<1>6. InTurn(r, m)
  BY <1>2, <1>4, <1>5 DEF InTurn
<1> QED
  BY <1>6 DEF r, m, x

LEMMA SameInTurn ==
  ASSUME NEW s, NEW n, NEW m, InTurn(s, n), \A t \in Producers : m[t] = n[t]
  PROVE  InTurn(s, m)
  BY DEF InTurn

\* What a consumer takes from the queue goes to the end of what was taken.
LEMMA HandedOver ==
  ASSUME NEW s \in Seq(Item), NEW l \in Seq(Item)
  PROVE  /\ \A x \in Item : s \o Append(l, x) = Append(s \o l, x)
         /\ l # <<>> => Append(s, Head(l)) \o Tail(l) = s \o l
<1>1. ASSUME NEW x \in Item
      PROVE  s \o Append(l, x) = Append(s \o l, x)
  <2>1. Append(l, x) = l \o <<x>> /\ <<x>> \in Seq(Item) /\ s \o l \in Seq(Item)
    BY AppendIsConcat, ConcatProperties
  <2>2. Append(s \o l, x) = (s \o l) \o <<x>>
    BY <2>1, AppendIsConcat
  <2> QED
    BY <2>1, <2>2, ConcatAssociative
<1>2. ASSUME l # <<>>
      PROVE  Append(s, Head(l)) \o Tail(l) = s \o l
  <2>1. /\ Head(l) \in Item /\ Tail(l) \in Seq(Item) /\ <<Head(l)>> \in Seq(Item)
        /\ Len(Tail(l)) = Len(l) - 1 /\ \A n \in 1 .. Len(Tail(l)) : Tail(l)[n] = l[n + 1]
        /\ Len(l) \in Nat \ {0} /\ l[1] = Head(l)
    BY <1>2, HeadTailProperties
  <2>2. Append(s, Head(l)) = s \o <<Head(l)>>
    BY <2>1, AppendIsConcat
  <2>3. l = <<Head(l)>> \o Tail(l)
    <3> DEFINE c == <<Head(l)>> \o Tail(l)
    <3>1. /\ c \in Seq(Item) /\ Len(c) = 1 + Len(Tail(l))
          /\ \A n \in 1 .. 1 + Len(Tail(l)) :
               c[n] = IF n <= 1 THEN <<Head(l)>>[n] ELSE Tail(l)[n - 1]
      BY <2>1, ConcatProperties
    <3>2. Len(c) = Len(l)
      BY <2>1, <3>1
    <3>3. \A n \in 1 .. Len(l) : c[n] = l[n]
      BY <2>1, <3>1, <3>2
    <3> HIDE DEF c
    <3>4. c = l
      BY <3>1, <3>2, <3>3, SeqEqual
    <3> QED
      BY <3>4 DEF c
  <2> QED
    BY <2>1, <2>2, <2>3, ConcatAssociative
<1> QED
  BY <1>1, <1>2

LEMMA WaitKeeps ==
  ASSUME ItemInv, NEW t \in 1 .. 4, WaitItem(t)
  PROVE  ItemInv'
<1>1. /\ tpc[t] = "wait" /\ tpc' = [tpc EXCEPT ![t] = "lock"]
      /\ sem[WaitsFor(t)] > 0 /\ sem' = [sem EXCEPT ![WaitsFor(t)] = @ - 1]
      /\ UNCHANGED <<has, line, taken>>
  BY DEF WaitItem, IsAt, Move, Acquire
<1>2. /\ tpc \in [1 .. 4 -> {"wait", "lock", "end"}] /\ sem \in ItemSems
      /\ line \in Seq(Item) /\ taken \in Seq(Item) /\ has \in [1 .. 4 -> 0 .. PerThread]
      /\ \A u \in 1 .. 4 : tpc[u] = "end" <=> has[u] = PerThread
  BY DEF ItemInv, ItemTypes
<1>3. /\ WaitsFor(t) = "empty" => t \in {1, 2}
      /\ WaitsFor(t) = "full" => t \in {3, 4}
      /\ WaitsFor(t) \in {"empty", "full"}
  BY DEF WaitsFor, Producers
<1>4. ItemTypes'
  <2>1. sem' \in ItemSems
    BY <1>1, <1>2, <1>3 DEF ItemSems
  <2>2. tpc' \in [1 .. 4 -> {"wait", "lock", "end"}]
    BY <1>1, <1>2
  <2>3. \A u \in 1 .. 4 : tpc'[u] = "end" <=> has'[u] = PerThread
    BY <1>1, <1>2
  <2> QED
    BY <1>1, <1>2, <2>1, <2>2, <2>3 DEF ItemTypes
<1>5. ItemCounts'
  <2>1. PICK e \in Nat, f \in Nat, p \in Nat, k \in Nat :
          e = sem.empty /\ f = sem.full /\ p = Placing /\ k = Taking
    BY ItemNumbers DEF ItemInv
  <2>2. /\ Len(line) = f + k /\ Room = e + p + Len(line)
        /\ Len(taken) = has[3] + has[4] /\ Len(taken) + Len(line) = has[1] + has[2]
        /\ Len(line) \in Nat
    BY <2>1, ItemNumbers DEF ItemInv, ItemCounts
  <2>3. CASE WaitsFor(t) = "empty"
    <3>1. sem'.empty = e - 1 /\ sem'.full = f
      BY <1>1, <1>2, <2>1, <2>3 DEF ItemSems
    <3>2. Placing' = p + 1 /\ Taking' = k
      BY <1>1, <1>2, <1>3, <2>1, <2>3 DEF Placing, Taking, Count
    <3>3. Room = (e - 1) + (p + 1) + Len(line)
      BY <2>2
    <3> QED
      BY <1>1, <2>2, <3>1, <3>2, <3>3 DEF ItemCounts
  <2>4. CASE WaitsFor(t) = "full"
    <3>1. sem'.full = f - 1 /\ sem'.empty = e
      BY <1>1, <1>2, <2>1, <2>4 DEF ItemSems
    <3>2. Placing' = p /\ Taking' = k + 1
      BY <1>1, <1>2, <1>3, <2>1, <2>4 DEF Placing, Taking, Count
    <3>3. Len(line) = (f - 1) + (k + 1)
      BY <2>2
    <3> QED
      BY <1>1, <2>2, <3>1, <3>2, <3>3 DEF ItemCounts
  <2> QED
    BY <1>3, <2>3, <2>4
<1>6. InTurn(taken' \o line', has')
  BY <1>1 DEF ItemInv
<1> QED
  BY <1>4, <1>5, <1>6 DEF ItemInv

LEMMA HandleKeeps ==
  ASSUME ItemInv, NEW t \in 1 .. 4, HandleItem(t)
  PROVE  ItemInv'
<1>1. /\ tpc[t] = "lock" /\ sem' = [sem EXCEPT ![Posts(t)] = @ + 1]
      /\ has' = [has EXCEPT ![t] = @ + 1]
      /\ tpc' = [tpc EXCEPT ![t] = IF has'[t] >= PerThread THEN "end" ELSE "wait"]
  BY DEF HandleItem, IsAt, Move, Release
<1>2. /\ tpc \in [1 .. 4 -> {"wait", "lock", "end"}] /\ sem \in ItemSems
      /\ line \in Seq(Item) /\ taken \in Seq(Item) /\ has \in [1 .. 4 -> 0 .. PerThread]
      /\ \A u \in 1 .. 4 : tpc[u] = "end" <=> has[u] = PerThread
  BY DEF ItemInv, ItemTypes
<1>3. /\ has[t] \in Nat /\ has[t] < PerThread /\ has'[t] = has[t] + 1
      /\ \A u \in 1 .. 4 : u # t => has'[u] = has[u]
      /\ \A u \in 1 .. 4 : has[u] \in 0 .. PerThread /\ has[u] \in Nat
  <2>1. \A u \in 1 .. 4 : has[u] \in 0 .. PerThread
    BY <1>2
  <2>2. has[t] # PerThread
    BY <1>1, <1>2
  <2> QED
    BY <1>1, <1>2, <2>1, <2>2, DemoAssumption
<1>4. /\ has' \in [1 .. 4 -> 0 .. PerThread] /\ tpc' \in [1 .. 4 -> {"wait", "lock", "end"}]
      /\ tpc'[t] # "lock" /\ \A u \in 1 .. 4 : u # t => tpc'[u] = tpc[u]
      /\ \A u \in 1 .. 4 : tpc'[u] = "end" <=> has'[u] = PerThread
  <2>1. has[t] + 1 \in 0 .. PerThread
    BY <1>3, DemoAssumption
  <2>2. has' \in [1 .. 4 -> 0 .. PerThread]
    BY <1>1, <1>2, <2>1
  <2>3. tpc'[t] = (IF has'[t] >= PerThread THEN "end" ELSE "wait")
    BY <1>1, <1>2
  <2>4. tpc' \in [1 .. 4 -> {"wait", "lock", "end"}]
    BY <1>1, <1>2
  <2>5. tpc'[t] = "end" <=> has'[t] = PerThread
    BY <1>3, <2>1, <2>3, DemoAssumption
  <2>6. \A u \in 1 .. 4 : u # t => tpc'[u] = tpc[u]
    BY <1>1, <1>2
  <2> QED
    BY <1>2, <1>3, <2>2, <2>3, <2>4, <2>5, <2>6
<1>5. PICK e \in Nat, f \in Nat, p \in Nat, k \in Nat, l \in Nat, a \in Nat :
        /\ e = sem.empty /\ f = sem.full /\ p = Placing /\ k = Taking
        /\ l = Len(line) /\ a = Len(taken)
  BY ItemNumbers DEF ItemInv
<1>6. /\ l = f + k /\ Room = e + p + l
      /\ a = has[3] + has[4] /\ a + l = has[1] + has[2]
  BY <1>5 DEF ItemInv, ItemCounts
<1>7. InTurn(taken \o line, has) /\ taken \o line \in Seq(Item)
  BY <1>2, ConcatProperties DEF ItemInv
<1>8. has \in [1 .. 4 -> Nat]
  BY <1>2, <1>3
<1>9. CASE t \in Producers
  <2>1. /\ line' = Append(line, <<t, has[t]>>) /\ taken' = taken /\ t \in {1, 2}
        /\ Posts(t) = "full" /\ <<t, has[t]>> \in Item
    BY <1>3, <1>9 DEF HandleItem, Posts, Item, Producers
  <2>2. line' \in Seq(Item) /\ Len(line') = l + 1 /\ Len(taken') = a
    BY <1>2, <1>5, <2>1
  <2>3. sem' \in ItemSems /\ sem'.full = f + 1 /\ sem'.empty = e
    <3>1. sem' = [sem EXCEPT !["full"] = @ + 1]
      BY <1>1, <2>1
    <3>2. sem \in ItemSems /\ e = sem.empty /\ f = sem.full
      BY <1>2, <1>5
    <3> QED
      BY <3>1, <3>2 DEF ItemSems
  <2>4. ItemTypes'
    BY <1>2, <1>4, <2>1, <2>2, <2>3 DEF ItemTypes
  <2>5. Placing' = p - 1 /\ Taking' = k
    <3>1. CASE t = 1
      <4>1. /\ tpc[1] = "lock" /\ tpc'[1] # "lock"
            /\ tpc'[2] = tpc[2] /\ tpc'[3] = tpc[3] /\ tpc'[4] = tpc[4]
        BY <1>1, <1>4, <3>1
      <4> QED
        BY <1>5, <4>1 DEF Placing, Taking, Count
    <3>2. CASE t = 2
      <4>1. /\ tpc[2] = "lock" /\ tpc'[2] # "lock"
            /\ tpc'[1] = tpc[1] /\ tpc'[3] = tpc[3] /\ tpc'[4] = tpc[4]
        BY <1>1, <1>4, <3>2
      <4> QED
        BY <1>5, <4>1 DEF Placing, Taking, Count
    <3> QED
      BY <2>1, <3>1, <3>2
  <2>6. has'[3] = has[3] /\ has'[4] = has[4] /\ has'[1] + has'[2] = has[1] + has[2] + 1
    <3>1. has[1] \in Nat /\ has[2] \in Nat
      BY <1>3
    <3>2. CASE t = 1
      <4>1. has'[1] = has[1] + 1 /\ has'[2] = has[2] /\ has'[3] = has[3] /\ has'[4] = has[4]
        BY <1>3, <3>2
      <4> QED
        BY <3>1, <4>1
    <3>3. CASE t = 2
      <4>1. has'[2] = has[2] + 1 /\ has'[1] = has[1] /\ has'[3] = has[3] /\ has'[4] = has[4]
        BY <1>3, <3>3
      <4> QED
        BY <3>1, <4>1
    <3> QED
      BY <2>1, <3>2, <3>3
  <2>7. ItemCounts'
    <3>1. Room = e + (p - 1) + (l + 1)
      BY <1>6
    <3>2. l + 1 = (f + 1) + k
      BY <1>6
    <3>3. a + (l + 1) = has'[1] + has'[2]
      BY <1>3, <1>6, <2>6
    <3> QED
      BY <1>6, <2>2, <2>3, <2>5, <2>6, <3>1, <3>2, <3>3 DEF ItemCounts
  <2>8. taken' \o line' = Append(taken \o line, <<t, has[t]>>)
    BY <1>2, <2>1, HandedOver
  <2>9. InTurn(taken' \o line', has')
    BY <1>1, <1>7, <1>8, <1>9, <2>8, AddedInTurn
  <2> QED
    BY <2>4, <2>7, <2>9 DEF ItemInv
<1>10. CASE t \notin Producers
  <2>1. /\ line # <<>> /\ line' = Tail(line) /\ taken' = Append(taken, Head(line))
        /\ Posts(t) = "empty" /\ t \in {3, 4}
    BY <1>10 DEF HandleItem, Posts, Producers
  <2>2. /\ line' \in Seq(Item) /\ taken' \in Seq(Item)
        /\ Len(line') = l - 1 /\ Len(taken') = a + 1
    <3>1. /\ Head(line) \in Item /\ Tail(line) \in Seq(Item)
          /\ Len(Tail(line)) = Len(line) - 1
      BY <1>2, <2>1, HeadTailProperties
    <3> QED
      BY <1>2, <1>5, <2>1, <3>1, AppendProperties
  <2>3. sem' \in ItemSems /\ sem'.empty = e + 1 /\ sem'.full = f
    <3>1. sem' = [sem EXCEPT !["empty"] = @ + 1]
      BY <1>1, <2>1
    <3>2. sem \in ItemSems /\ e = sem.empty /\ f = sem.full
      BY <1>2, <1>5
    <3> QED
      BY <3>1, <3>2 DEF ItemSems
  <2>4. ItemTypes'
    BY <1>4, <2>2, <2>3 DEF ItemTypes
  <2>5. Placing' = p /\ Taking' = k - 1
    <3>1. CASE t = 3
      <4>1. /\ tpc[3] = "lock" /\ tpc'[3] # "lock"
            /\ tpc'[1] = tpc[1] /\ tpc'[2] = tpc[2] /\ tpc'[4] = tpc[4]
        BY <1>1, <1>4, <3>1
      <4> QED
        BY <1>5, <4>1 DEF Placing, Taking, Count
    <3>2. CASE t = 4
      <4>1. /\ tpc[4] = "lock" /\ tpc'[4] # "lock"
            /\ tpc'[1] = tpc[1] /\ tpc'[2] = tpc[2] /\ tpc'[3] = tpc[3]
        BY <1>1, <1>4, <3>2
      <4> QED
        BY <1>5, <4>1 DEF Placing, Taking, Count
    <3> QED
      BY <2>1, <3>1, <3>2
  <2>6. has'[1] = has[1] /\ has'[2] = has[2] /\ has'[3] + has'[4] = has[3] + has[4] + 1
    <3>1. has[3] \in Nat /\ has[4] \in Nat
      BY <1>3
    <3>2. CASE t = 3
      <4>1. has'[3] = has[3] + 1 /\ has'[4] = has[4] /\ has'[1] = has[1] /\ has'[2] = has[2]
        BY <1>3, <3>2
      <4> QED
        BY <3>1, <4>1
    <3>3. CASE t = 4
      <4>1. has'[4] = has[4] + 1 /\ has'[3] = has[3] /\ has'[1] = has[1] /\ has'[2] = has[2]
        BY <1>3, <3>3
      <4> QED
        BY <3>1, <4>1
    <3> QED
      BY <2>1, <3>2, <3>3
  <2>7. ItemCounts'
    <3>1. Room = (e + 1) + p + (l - 1)
      BY <1>6
    <3>2. l - 1 = f + (k - 1)
      BY <1>6
    <3>3. (a + 1) + (l - 1) = has'[1] + has'[2] /\ a + 1 = has'[3] + has'[4]
      BY <1>3, <1>6, <2>6
    <3> QED
      BY <2>2, <2>3, <2>5, <2>6, <3>1, <3>2, <3>3 DEF ItemCounts
  <2>8. taken' \o line' = taken \o line
    BY <1>2, <2>1, HandedOver
  <2>9. \A u \in Producers : has'[u] = has[u]
    BY <1>3, <1>10 DEF Producers
  <2>10. InTurn(taken' \o line', has')
    BY <1>7, <2>8, <2>9, SameInTurn
  <2> QED
    BY <2>4, <2>7, <2>10 DEF ItemInv
<1> QED
  BY <1>9, <1>10

-----------------------------------------------------------------------------
\* One demonstration after the other.

DemoInv ==
  /\ demo \in {"farm", "items", "table", "end", "crashed"}
  /\ demo = "farm" => FarmInv
  /\ demo = "items" => ItemInv

LEMMA FarmStarts == DemoInit => FarmInv
<1> SUFFICES ASSUME DemoInit
             PROVE  FarmInv
  OBVIOUS
<1>1. /\ DOMAIN tpc = 1 .. 3 /\ tpc[1] = "ask" /\ tpc[2] = "wait" /\ tpc[3] = "wait"
      /\ sem = [shovel |-> 1, dig_hole |-> Ahead, curley |-> 0, moe |-> 0]
      /\ line = <<>> /\ taken = <<>> /\ has = [t \in 1 .. 3 |-> Dug(0)]
  BY DEF DemoInit, Larry
<1>2. FarmTypes
  <2>1. sem \in FarmSems
    BY <1>1, DemoAssumption DEF FarmSems
  <2>2. has \in [1 .. 3 -> AHole]
    BY <1>1 DEF Dug, AHole
  <2> QED
    BY <1>1, <2>1, <2>2 DEF FarmTypes
<1>3. Len(line) = 0
  BY <1>1
<1>4. ShovelKept /\ HolesCalled
  BY <1>1, <1>3 DEF ShovelKept, HolesCalled, Count
<1>5. Permits = Ahead /\ Digging = 0 /\ Queued = 0 /\ Putting = 0 /\ Filling = 0
  BY <1>1, <1>3 DEF Permits, Digging, Queued, Putting, Filling, Count
<1>6. HolesAhead
  BY <1>5, DemoAssumption DEF HolesAhead
<1> QED
  BY <1>2, <1>4, <1>6 DEF FarmInv

LEMMA ItemsStart ==
  ASSUME StartItems, taken = <<>>
  PROVE  ItemInv'
<1>1. /\ tpc' = [t \in 1 .. 4 |-> "wait"] /\ has' = [t \in 1 .. 4 |-> 0]
      /\ sem' = [empty |-> Room, full |-> 0] /\ line' = <<>> /\ taken' = <<>>
  <2>1. Producers \cup Consumers = 1 .. 4
    BY DEF Producers, Consumers
  <2> QED
    BY <2>1 DEF StartItems
<1>2. ItemTypes'
  <2>1. sem' \in ItemSems
    BY <1>1, DemoAssumption DEF ItemSems
  <2> QED
    BY <1>1, <2>1, DemoAssumption DEF ItemTypes
<1>3. /\ Len(line') = 0 /\ Len(taken') = 0 /\ sem'.full = 0 /\ sem'.empty = Room
      /\ Placing' = 0 /\ Taking' = 0
      /\ has'[1] = 0 /\ has'[2] = 0 /\ has'[3] = 0 /\ has'[4] = 0
  BY <1>1 DEF Placing, Taking, Count
<1>4. ItemCounts'
  BY <1>3, DemoAssumption DEF ItemCounts
<1>5. InTurn(taken' \o line', has')
  <2>1. taken' \o line' = <<>>
    BY <1>1
  <2> QED
    BY <2>1 DEF InTurn
<1> QED
  BY <1>2, <1>4, <1>5 DEF ItemInv

LEMMA DemoKeeps == DemoInv /\ [DemoNext]_demoVars => DemoInv'
<1> SUFFICES ASSUME DemoInv, [DemoNext]_demoVars
             PROVE  DemoInv'
  OBVIOUS
<1>1. CASE UNCHANGED demoVars
  <2>1. UNCHANGED <<demo, tpc, has, sem, line, taken>>
    BY <1>1 DEF demoVars
  <2>2. demo = "farm" => FarmInv'
    BY <2>1 DEF DemoInv, FarmInv, FarmTypes, ShovelKept, HolesCalled, HolesAhead, Permits,
       Digging, Queued, Putting, Filling, Count
  <2>3. demo = "items" => ItemInv'
    BY <2>1 DEF DemoInv, ItemInv, ItemTypes, ItemCounts, Placing, Taking, Count
  <2> QED
    BY <2>1, <2>2, <2>3 DEF DemoInv
<1>2. CASE JoinAll
  <2>1. CASE demo = "farm"
    <3>1. StartItems /\ taken = <<>> /\ demo' = "items"
      BY <1>2, <2>1 DEF JoinAll, DemoInv, FarmInv, FarmTypes, StartItems
    <3> QED
      BY <3>1, ItemsStart DEF DemoInv
  <2>2. CASE demo # "farm"
    <3>1. demo' \in {"table", "end"}
      BY <1>2, <2>2 DEF JoinAll, StartTable
    <3> QED
      BY <3>1 DEF DemoInv
  <2> QED
    BY <2>1, <2>2
<1>3. ASSUME NEW t \in DOMAIN tpc, DemoThread(t)
      PROVE  DemoInv'
  <2>1. CASE Farmer(t)
    <3>1. demo = "farm" /\ FarmInv
      BY <2>1 DEF Farmer, DemoInv
    <3>2. FarmInv'
      BY <2>1, <3>1, LarryKeeps, CurleyKeeps, MoeKeeps DEF Farmer
    <3>3. demo' = "farm"
      BY <2>1, <3>1 DEF Farmer, LarryAsks, LarryTakesShovel, LarryDigs, LarryReturnsShovel,
         CurleyWaits, CurleyTakes, CurleyPuts, MoeWaits, MoeTakes, MoeTakesShovel, MoeFills
    <3> QED
      BY <3>2, <3>3 DEF DemoInv
  <2>2. CASE ItemThread(t)
    <3>1. demo = "items" /\ ItemInv /\ t \in 1 .. 4 /\ demo' = "items"
      BY <2>2 DEF ItemThread, DemoInv, ItemInv, ItemTypes, WaitItem, HandleItem
    <3>2. ItemInv'
      BY <2>2, <3>1, WaitKeeps, HandleKeeps DEF ItemThread
    <3> QED
      BY <3>1, <3>2 DEF DemoInv
  <2>3. CASE Philosopher(t)
    <3>1. demo' = "table"
      BY <2>3 DEF Philosopher, PickUp, Eat
    <3> QED
      BY <3>1 DEF DemoInv
  <2> QED
    BY <1>3, <2>1, <2>2, <2>3 DEF DemoThread
<1>4. CASE Race
  BY <1>4 DEF Race, DemoInv
<1> QED
  BY <1>1, <1>2, <1>3, <1>4 DEF DemoNext

LEMMA DemoHolds == DemoInit /\ [][DemoNext]_demoVars => []DemoInv
<1>1. DemoInit => DemoInv
  BY FarmStarts DEF DemoInv, DemoInit
<1> QED
  BY <1>1, DemoKeeps, PTL

-----------------------------------------------------------------------------
\* The pipeline of the GPU fallback.

GpuNext == \E s \in Stages : Stage(s)

GpuTypes ==
  /\ q \in [Queues -> Seq(Nat)] /\ stopped \in [Queues -> BOOLEAN]
  /\ gpc \in [Stages -> {"push", "pushed", "pop", "popped", "stop", "end"}]
  /\ chunk \in [Stages -> Nat] /\ consumed \in Seq(Nat)

\* Ids that have left a stage for good: seen by the consumer, popped by it, pushed
\* by the worker, popped by it, pushed by the producer.
Seen == Len(consumed)
Taken3 == Seen + (IF gpc[3] = "popped" THEN 1 ELSE 0)
Pushed2 == Taken3 + Len(q[2])
Taken2 == Pushed2 + (IF gpc[2] \in {"popped", "push"} THEN 1 ELSE 0)
Pushed1 == Taken2 + Len(q[1])

\* The ids in a place are those from n on.
Follow(place, n) == \A k \in 1 .. Len(place) : place[k] = n + k - 1

\* Each place holds the ids that follow those of the next one.
InLine ==
  /\ Follow(consumed, 0)
  /\ gpc[3] = "popped" => chunk[3] = Seen
  /\ Follow(q[2], Taken3)
  /\ gpc[2] \in {"popped", "push"} => chunk[2] = Pushed2
  /\ Follow(q[1], Taken2)
  /\ Pushed1 = chunk[1] + (IF gpc[1] = "pushed" THEN 1 ELSE 0)

\* A thread ends when the one before it has, and has left nothing in its queue.
EndsInTurn ==
  /\ gpc[1] \in {"push", "pushed", "end"}
  /\ gpc[2] \in {"pop", "popped", "push", "pushed", "stop", "end"}
  /\ gpc[3] \in {"pop", "popped", "end"}
  /\ chunk[1] <= Chunks /\ (gpc[1] = "pushed" => chunk[1] < Chunks)
  /\ stopped[1] = (gpc[1] = "end") /\ (gpc[1] = "end" => chunk[1] = Chunks)
  /\ gpc[2] \in {"stop", "end"} => gpc[1] = "end" /\ q[1] = <<>>
  /\ stopped[2] = (gpc[2] = "end")
  /\ gpc[3] = "end" => gpc[2] = "end" /\ q[2] = <<>>

GpuInv == GpuTypes /\ InLine /\ EndsInTurn

LEMMA NextFollows ==
  ASSUME NEW place \in Seq(Nat), NEW n \in Nat, NEW id \in Nat, Follow(place, n)
  PROVE  /\ id = n + Len(place) => Follow(Append(place, id), n)
         /\ Len(Append(place, id)) = Len(place) + 1
         /\ Append(place, id) \in Seq(Nat)
  BY DEF Follow

LEMMA RestFollows ==
  ASSUME NEW place \in Seq(Nat), NEW n \in Nat, Follow(place, n), place # <<>>
  PROVE  /\ Head(place) = n /\ Follow(Tail(place), n + 1)
         /\ Len(Tail(place)) = Len(place) - 1 /\ Len(place) > 0
         /\ Tail(place) \in Seq(Nat)
<1>1. /\ Len(place) \in Nat \ {0} /\ Head(place) = place[1]
      /\ Tail(place) \in Seq(Nat) /\ Len(Tail(place)) = Len(place) - 1
      /\ \A k \in 1 .. Len(place) - 1 : Tail(place)[k] = place[k + 1]
  OBVIOUS
<1>2. Head(place) = n
  BY <1>1 DEF Follow
<1>3. ASSUME NEW k \in 1 .. Len(Tail(place))
      PROVE  Tail(place)[k] = n + 1 + k - 1
  <2>1. k + 1 \in 1 .. Len(place) /\ Tail(place)[k] = place[k + 1]
    BY <1>1
  <2> QED
    BY <2>1 DEF Follow
<1> QED
  BY <1>1, <1>2, <1>3 DEF Follow

LEMMA GpuCounts ==
  ASSUME GpuTypes
  PROVE  /\ Seen \in Nat /\ Taken3 \in Nat /\ Pushed2 \in Nat /\ Taken2 \in Nat
         /\ Pushed1 \in Nat /\ q[1] \in Seq(Nat) /\ q[2] \in Seq(Nat)
         /\ Len(q[1]) \in Nat /\ Len(q[2]) \in Nat /\ Len(consumed) \in Nat
<1>1. /\ q[1] \in Seq(Nat) /\ q[2] \in Seq(Nat) /\ consumed \in Seq(Nat)
  BY DEF GpuTypes, Queues
<1>2. Len(q[1]) \in Nat /\ Len(q[2]) \in Nat /\ Len(consumed) \in Nat
  BY <1>1
<1>3. Seen \in Nat /\ Taken3 \in Nat
  BY <1>2 DEF Seen, Taken3
<1>6. Pushed2 \in Nat
  BY <1>2, <1>3 DEF Pushed2
<1>4. Taken2 \in Nat
  BY <1>6 DEF Taken2
<1>5. Pushed1 \in Nat
  BY <1>2, <1>4 DEF Pushed1
<1> QED
  BY <1>1, <1>2, <1>3, <1>4, <1>5, <1>6

LEMMA GpuStart == GpuInit => GpuInv
<1> SUFFICES ASSUME GpuInit
             PROVE  GpuInv
  OBVIOUS
<1>1. /\ q[1] = <<>> /\ q[2] = <<>> /\ ~stopped[1] /\ ~stopped[2] /\ consumed = <<>>
      /\ gpc[1] = "push" /\ gpc[2] = "pop" /\ gpc[3] = "pop" /\ chunk[1] = 0
  BY DEF GpuInit, Stages, Queues
<1>2. GpuTypes
  BY DEF GpuInit, GpuTypes, Stages, Queues
<1>3. Len(q[1]) = 0 /\ Len(q[2]) = 0 /\ Len(consumed) = 0
  BY <1>1
<1>4. InLine
  BY <1>1, <1>3 DEF InLine, Follow, Seen, Taken3, Pushed2, Taken2, Pushed1
<1>5. EndsInTurn
  BY <1>1, <1>2, GpuAssumption DEF EndsInTurn, GpuTypes, Queues
<1> QED
  BY <1>2, <1>4, <1>5 DEF GpuInv

LEMMA GpuDelivers == GpuInv => ChunksInOrder
<1> SUFFICES ASSUME GpuInv
             PROVE  ChunksInOrder
  OBVIOUS
<1>1. DOMAIN consumed = 1 .. Len(consumed) /\ Len(consumed) \in Nat
  BY DEF GpuInv, GpuTypes
<1>2. \A k \in DOMAIN consumed : consumed[k] = k - 1
  BY <1>1 DEF GpuInv, InLine, Follow
<1>3. ASSUME gpc[3] = "end"
      PROVE  Len(consumed) = Chunks
  <2>1. /\ gpc[2] = "end" /\ gpc[1] = "end" /\ q[2] = <<>> /\ q[1] = <<>> /\ chunk[1] = Chunks
    BY <1>3 DEF GpuInv, EndsInTurn
  <2>2. Len(q[1]) = 0 /\ Len(q[2]) = 0
    BY <2>1
  <2>3. Pushed1 = Len(consumed)
    BY <1>1, <1>3, <2>1, <2>2 DEF Seen, Taken3, Pushed2, Taken2, Pushed1
  <2> QED
    BY <2>1, <2>3, GpuAssumption DEF GpuInv, InLine
<1> QED
  BY <1>2, <1>3 DEF ChunksInOrder

LEMMA GpuSleeps ==
  ASSUME GpuInv, UNCHANGED <<q, stopped, gpc, chunk, consumed>>
  PROVE  GpuInv'
  BY DEF GpuInv, GpuTypes, InLine, EndsInTurn, Seen, Taken3, Pushed2, Taken2, Pushed1

LEMMA PushInLine ==
  ASSUME GpuInv, NEW s \in Stages, Push(s)
  PROVE  GpuInv'
<1>1. CASE Sleep(s)
  BY <1>1, GpuSleeps DEF Sleep
<1>2. CASE s = 1 /\ ~Sleep(s)
  <2>1. /\ gpc[1] = "push" /\ chunk[1] # Chunks
        /\ q' = [q EXCEPT ![1] = Append(@, chunk[1])]
        /\ gpc' = [gpc EXCEPT ![1] = "pushed"]
        /\ UNCHANGED <<stopped, chunk, asleep, consumed>>
    BY <1>2 DEF Push, Turn
  <2>2. /\ q[1] \in Seq(Nat) /\ chunk[1] \in Nat /\ q'[1] = Append(q[1], chunk[1])
        /\ q'[2] = q[2] /\ gpc'[1] = "pushed" /\ gpc'[2] = gpc[2] /\ gpc'[3] = gpc[3]
    BY <2>1 DEF GpuInv, GpuTypes, Stages, Queues
  <2>3. Taken2 \in Nat /\ Len(q[1]) \in Nat /\ Len(q[2]) \in Nat /\ Len(consumed) \in Nat
    BY GpuCounts DEF GpuInv
  <2>4. chunk[1] = Taken2 + Len(q[1]) /\ Follow(q[1], Taken2)
    BY <2>1, <2>2, <2>3, GpuCounts DEF GpuInv, InLine, Pushed1, Pushed2
  <2>5. Follow(q'[1], Taken2) /\ Len(q'[1]) = Len(q[1]) + 1 /\ GpuTypes'
    <3>1. /\ Follow(Append(q[1], chunk[1]), Taken2)
          /\ Len(Append(q[1], chunk[1])) = Len(q[1]) + 1
          /\ Append(q[1], chunk[1]) \in Seq(Nat)
      BY <2>2, <2>3, <2>4, NextFollows
    <3> QED
      BY <2>1, <2>2, <3>1 DEF GpuInv, GpuTypes, Stages, Queues
  <2>7. InLine'
    <3>1. Seen \in Nat /\ Taken3 \in Nat /\ Pushed2 \in Nat /\ Taken2 \in Nat /\ Pushed1 \in Nat
      BY GpuCounts DEF GpuInv
    <3>2. Seen' = Seen
      BY <2>1, <2>2, <2>3, <2>4, <2>5, <3>1 DEF Seen
    <3>3. Taken3' = Taken3
      BY <2>1, <2>2, <2>3, <2>4, <2>5, <3>1, <3>2 DEF Taken3
    <3>4. Pushed2' = Pushed2
      BY <2>1, <2>2, <2>3, <2>4, <2>5, <3>1, <3>3 DEF Pushed2
    <3>5. Taken2' = Taken2
      BY <2>1, <2>2, <2>3, <2>4, <2>5, <3>1, <3>4 DEF Taken2
    <3>6. Pushed1' = Pushed1 + 1
      BY <2>1, <2>2, <2>3, <2>4, <2>5, <3>1, <3>5 DEF Pushed1
    <3> QED
      BY <2>1, <2>2, <2>3, <2>4, <2>5, <3>1, <3>2, <3>3, <3>4, <3>5, <3>6 DEF GpuInv, InLine
  <2>6. EndsInTurn'
    BY <2>1, <2>2, GpuAssumption DEF GpuInv, EndsInTurn
  <2> QED
    BY <2>5, <2>6, <2>7 DEF GpuInv
<1>3. CASE s = 2 /\ ~Sleep(s)
  <2>1. /\ gpc[2] = "push"
        /\ q' = [q EXCEPT ![2] = Append(@, chunk[2])]
        /\ gpc' = [gpc EXCEPT ![2] = "pushed"]
        /\ UNCHANGED <<stopped, chunk, asleep, consumed>>
    BY <1>3 DEF Push, Turn
  <2>2. /\ q[2] \in Seq(Nat) /\ chunk[2] \in Nat /\ q'[2] = Append(q[2], chunk[2])
        /\ q'[1] = q[1] /\ gpc'[2] = "pushed" /\ gpc'[1] = gpc[1] /\ gpc'[3] = gpc[3]
    BY <2>1 DEF GpuInv, GpuTypes, Stages, Queues
  <2>3. Taken3 \in Nat /\ Len(q[1]) \in Nat /\ Len(q[2]) \in Nat /\ Len(consumed) \in Nat
    BY GpuCounts DEF GpuInv
  <2>4. chunk[2] = Taken3 + Len(q[2]) /\ Follow(q[2], Taken3)
    BY <2>1, <2>2, <2>3, GpuCounts DEF GpuInv, InLine, Pushed1, Pushed2
  <2>5. Follow(q'[2], Taken3) /\ Len(q'[2]) = Len(q[2]) + 1 /\ GpuTypes'
    <3>1. /\ Follow(Append(q[2], chunk[2]), Taken3)
          /\ Len(Append(q[2], chunk[2])) = Len(q[2]) + 1
          /\ Append(q[2], chunk[2]) \in Seq(Nat)
      BY <2>2, <2>3, <2>4, NextFollows
    <3> QED
      BY <2>1, <2>2, <3>1 DEF GpuInv, GpuTypes, Stages, Queues
  <2>7. InLine'
    <3>1. Seen \in Nat /\ Taken3 \in Nat /\ Pushed2 \in Nat /\ Taken2 \in Nat /\ Pushed1 \in Nat
      BY GpuCounts DEF GpuInv
    <3>2. Seen' = Seen
      BY <2>1, <2>2, <2>3, <2>4, <2>5, <3>1 DEF Seen
    <3>3. Taken3' = Taken3
      BY <2>1, <2>2, <2>3, <2>4, <2>5, <3>1, <3>2 DEF Taken3
    <3>4. Pushed2' = Pushed2 + 1
      BY <2>1, <2>2, <2>3, <2>4, <2>5, <3>1, <3>3 DEF Pushed2
    <3>5. Taken2' = Taken2
      BY <2>1, <2>2, <2>3, <2>4, <2>5, <3>1, <3>4 DEF Taken2
    <3>6. Pushed1' = Pushed1
      BY <2>1, <2>2, <2>3, <2>4, <2>5, <3>1, <3>5 DEF Pushed1
    <3> QED
      BY <2>1, <2>2, <2>3, <2>4, <2>5, <3>1, <3>2, <3>3, <3>4, <3>5, <3>6 DEF GpuInv, InLine
  <2>6. EndsInTurn'
    BY <2>1, <2>2 DEF GpuInv, EndsInTurn
  <2> QED
    BY <2>5, <2>6, <2>7 DEF GpuInv
<1> QED
  BY <1>1, <1>2, <1>3 DEF Push, Stages

LEMMA PopInLine ==
  ASSUME GpuInv, NEW s \in Stages, Pop(s)
  PROVE  GpuInv'
<1>1. CASE Sleep(s)
  BY <1>1, GpuSleeps DEF Sleep
<1>2. CASE s = 2 /\ ~Sleep(s)
  <2>1. gpc[2] = "pop" /\ q[1] \in Seq(Nat)
    BY <1>2 DEF Pop, GpuInv, GpuTypes, Queues
  <2>2. CASE q[1] = <<>>
    <3>1. /\ stopped[1] /\ gpc' = [gpc EXCEPT ![2] = "stop"]
          /\ UNCHANGED <<q, stopped, chunk, consumed>>
      BY <1>2, <2>2 DEF Pop, NothingLeft, Turn
    <3>2. gpc'[2] = "stop" /\ gpc'[1] = gpc[1] /\ gpc'[3] = gpc[3] /\ GpuTypes'
      BY <3>1 DEF GpuInv, GpuTypes, Stages
    <3>3. InLine'
      BY <2>1, <3>1, <3>2 DEF GpuInv, InLine, Seen, Taken3, Pushed2, Taken2, Pushed1
    <3>4. EndsInTurn'
      BY <2>1, <2>2, <3>1, <3>2 DEF GpuInv, EndsInTurn
    <3> QED
      BY <3>2, <3>3, <3>4 DEF GpuInv
  <2>3. CASE q[1] # <<>>
    <3>1. /\ chunk' = [chunk EXCEPT ![2] = Head(q[1])]
          /\ q' = [q EXCEPT ![1] = Tail(@)]
          /\ gpc' = [gpc EXCEPT ![2] = "popped"]
          /\ UNCHANGED <<stopped, consumed>>
      BY <1>2, <2>3 DEF Pop, NothingLeft, Turn
    <3>2. /\ q'[1] = Tail(q[1]) /\ q'[2] = q[2] /\ chunk'[2] = Head(q[1])
          /\ chunk'[1] = chunk[1] /\ chunk'[3] = chunk[3]
          /\ gpc'[2] = "popped" /\ gpc'[1] = gpc[1] /\ gpc'[3] = gpc[3] /\ GpuTypes'
      BY <2>1, <2>3, <3>1 DEF GpuInv, GpuTypes, Stages, Queues
    <3>3. /\ Len(q[1]) \in Nat /\ Len(q[2]) \in Nat /\ Len(consumed) \in Nat
          /\ Taken2 \in Nat /\ Follow(q[1], Taken2)
      BY GpuCounts DEF GpuInv, InLine
    <3>6. /\ chunk'[2] = Taken2 /\ Follow(q'[1], Taken2 + 1) /\ Len(q'[1]) = Len(q[1]) - 1
      BY <2>1, <2>3, <3>2, <3>3, RestFollows
    <3>4. InLine'
      <4>1. Seen \in Nat /\ Taken3 \in Nat /\ Pushed2 \in Nat /\ Taken2 \in Nat /\ Pushed1 \in Nat
        BY GpuCounts DEF GpuInv
      <4>2. Seen' = Seen
        BY <2>1, <3>1, <3>2, <3>3, <3>6, <4>1 DEF Seen
      <4>3. Taken3' = Taken3
        BY <2>1, <3>1, <3>2, <3>3, <3>6, <4>1, <4>2 DEF Taken3
      <4>4. Pushed2' = Pushed2
        BY <2>1, <3>1, <3>2, <3>3, <3>6, <4>1, <4>3 DEF Pushed2
      <4>5. Taken2' = Taken2 + 1
        BY <2>1, <3>1, <3>2, <3>3, <3>6, <4>1, <4>4 DEF Taken2
      <4>6. Pushed1' = Pushed1
        <5>1. Pushed1' = Taken2' + Len(q'[1]) /\ Pushed1 = Taken2 + Len(q[1])
          BY DEF Pushed1
        <5>2. Pushed1' = (Taken2 + 1) + (Len(q[1]) - 1)
          BY <3>6, <4>5, <5>1
        <5>3. \A a, b \in Nat : (a + 1) + (b - 1) = a + b
          OBVIOUS
        <5> QED
          BY <3>3, <5>1, <5>2, <5>3
      <4>7. Taken2 = Pushed2
        BY <2>1, <4>1 DEF Taken2
      <4> QED
        BY <3>1, <3>2, <3>3, <3>6, <4>1, <4>2, <4>3, <4>4, <4>5, <4>6, <4>7 DEF GpuInv, InLine
    <3>5. EndsInTurn'
      BY <2>1, <3>1, <3>2 DEF GpuInv, EndsInTurn
    <3> QED
      BY <3>2, <3>4, <3>5 DEF GpuInv
  <2> QED
    BY <2>2, <2>3
<1>3. CASE s = 3 /\ ~Sleep(s)
  <2>1. gpc[3] = "pop" /\ q[2] \in Seq(Nat)
    BY <1>3 DEF Pop, GpuInv, GpuTypes, Queues
  <2>2. CASE q[2] = <<>>
    <3>1. /\ stopped[2] /\ gpc' = [gpc EXCEPT ![3] = "end"]
          /\ UNCHANGED <<q, stopped, chunk, consumed>>
      BY <1>3, <2>2 DEF Pop, NothingLeft, Turn
    <3>2. gpc'[3] = "end" /\ gpc'[1] = gpc[1] /\ gpc'[2] = gpc[2] /\ GpuTypes'
      BY <3>1 DEF GpuInv, GpuTypes, Stages
    <3>3. InLine'
      BY <2>1, <3>1, <3>2 DEF GpuInv, InLine, Seen, Taken3, Pushed2, Taken2, Pushed1
    <3>4. EndsInTurn'
      BY <2>1, <2>2, <3>1, <3>2 DEF GpuInv, EndsInTurn
    <3> QED
      BY <3>2, <3>3, <3>4 DEF GpuInv
  <2>3. CASE q[2] # <<>>
    <3>1. /\ chunk' = [chunk EXCEPT ![3] = Head(q[2])]
          /\ q' = [q EXCEPT ![2] = Tail(@)]
          /\ gpc' = [gpc EXCEPT ![3] = "popped"]
          /\ UNCHANGED <<stopped, consumed>>
      BY <1>3, <2>3 DEF Pop, NothingLeft, Turn
    <3>2. /\ q'[2] = Tail(q[2]) /\ q'[1] = q[1] /\ chunk'[3] = Head(q[2])
          /\ chunk'[1] = chunk[1] /\ chunk'[2] = chunk[2]
          /\ gpc'[3] = "popped" /\ gpc'[1] = gpc[1] /\ gpc'[2] = gpc[2] /\ GpuTypes'
      BY <2>1, <2>3, <3>1 DEF GpuInv, GpuTypes, Stages, Queues
    <3>3. /\ Len(q[1]) \in Nat /\ Len(q[2]) \in Nat /\ Len(consumed) \in Nat
          /\ Taken3 \in Nat /\ Follow(q[2], Taken3)
      BY GpuCounts DEF GpuInv, InLine
    <3>6. /\ chunk'[3] = Taken3 /\ Follow(q'[2], Taken3 + 1) /\ Len(q'[2]) = Len(q[2]) - 1
      BY <2>1, <2>3, <3>2, <3>3, RestFollows
    <3>4. InLine'
      <4>1. Seen \in Nat /\ Taken3 \in Nat /\ Pushed2 \in Nat /\ Taken2 \in Nat /\ Pushed1 \in Nat
        BY GpuCounts DEF GpuInv
      <4>2. Seen' = Seen
        BY <2>1, <3>1, <3>2, <3>3, <3>6, <4>1 DEF Seen
      <4>3. Taken3' = Taken3 + 1
        BY <2>1, <3>1, <3>2, <3>3, <3>6, <4>1, <4>2 DEF Taken3
      <4>4. Pushed2' = Pushed2
        <5>1. Pushed2' = Taken3' + Len(q'[2]) /\ Pushed2 = Taken3 + Len(q[2])
          BY DEF Pushed2
        <5>2. Pushed2' = (Taken3 + 1) + (Len(q[2]) - 1)
          BY <3>6, <4>3, <5>1
        <5>3. \A a, b \in Nat : (a + 1) + (b - 1) = a + b
          OBVIOUS
        <5> QED
          BY <3>3, <5>1, <5>2, <5>3
      <4>5. Taken2' = Taken2
        BY <2>1, <3>1, <3>2, <3>3, <3>6, <4>1, <4>4 DEF Taken2
      <4>6. Pushed1' = Pushed1
        BY <2>1, <3>1, <3>2, <3>3, <3>6, <4>1, <4>5 DEF Pushed1
      <4>7. Taken3 = Seen
        BY <2>1, <4>1 DEF Taken3
      <4> QED
        BY <3>1, <3>2, <3>3, <3>6, <4>1, <4>2, <4>3, <4>4, <4>5, <4>6, <4>7 DEF GpuInv, InLine
    <3>5. EndsInTurn'
      BY <2>1, <3>1, <3>2 DEF GpuInv, EndsInTurn
    <3> QED
      BY <3>2, <3>4, <3>5 DEF GpuInv
  <2> QED
    BY <2>2, <2>3
<1> QED
  BY <1>1, <1>2, <1>3 DEF Pop, Stages

LEMMA PushedInLine ==
  ASSUME GpuInv, NEW s \in Stages, Pushed(s)
  PROVE  GpuInv'
<1>1. s \in {1, 2}
  BY DEF Pushed, GpuInv, EndsInTurn, Stages
<1>2. CASE s = 1
  <2>1. /\ gpc[1] = "pushed" /\ gpc' = [gpc EXCEPT ![1] = "push"]
        /\ chunk' = [chunk EXCEPT ![1] = @ + 1] /\ UNCHANGED <<q, stopped, consumed>>
    BY <1>2 DEF Pushed, Turn
  <2>2. /\ chunk[1] \in Nat /\ chunk'[1] = chunk[1] + 1 /\ chunk'[2] = chunk[2]
        /\ chunk'[3] = chunk[3] /\ GpuTypes'
        /\ gpc'[1] = "push" /\ gpc'[2] = gpc[2] /\ gpc'[3] = gpc[3]
    BY <2>1 DEF GpuInv, GpuTypes, Stages
  <2>3. InLine'
    <3>1. Pushed1' = Pushed1 /\ Taken2' = Taken2 /\ Pushed2' = Pushed2 /\ Taken3' = Taken3
      BY <2>1, <2>2 DEF Seen, Taken3, Pushed2, Taken2, Pushed1
    <3> QED
      BY <2>1, <2>2, <3>1 DEF GpuInv, InLine, Seen
  <2>4. EndsInTurn'
    BY <2>1, <2>2, GpuAssumption DEF GpuInv, EndsInTurn
  <2> QED
    BY <2>2, <2>3, <2>4 DEF GpuInv
<1>3. CASE s = 2
  <2>1. /\ gpc[2] = "pushed" /\ gpc' = [gpc EXCEPT ![2] = "pop"]
        /\ UNCHANGED <<q, stopped, chunk, consumed>>
    BY <1>3 DEF Pushed, Turn
  <2>2. GpuTypes' /\ gpc'[2] = "pop" /\ gpc'[1] = gpc[1] /\ gpc'[3] = gpc[3]
    BY <2>1 DEF GpuInv, GpuTypes, Stages
  <2>3. InLine'
    BY <2>1, <2>2 DEF GpuInv, InLine, Seen, Taken3, Pushed2, Taken2, Pushed1
  <2>4. EndsInTurn'
    BY <2>1, <2>2 DEF GpuInv, EndsInTurn
  <2> QED
    BY <2>2, <2>3, <2>4 DEF GpuInv
<1> QED
  BY <1>1, <1>2, <1>3

LEMMA StopInLine ==
  ASSUME GpuInv, NEW s \in Stages, Stop(s)
  PROVE  GpuInv'
<1>1. s \in {1, 2}
  BY DEF Stop, GpuInv, EndsInTurn, Stages
<1>2. /\ gpc' = [gpc EXCEPT ![s] = "end"] /\ stopped' = [stopped EXCEPT ![s] = TRUE]
      /\ UNCHANGED <<q, chunk, consumed>>
  BY DEF Stop, Turn
<1>3. CASE s = 1
  <2>1. gpc[1] = "push" /\ chunk[1] = Chunks
    BY <1>3 DEF Stop, GpuInv, EndsInTurn
  <2>2. /\ GpuTypes' /\ gpc'[1] = "end" /\ gpc'[2] = gpc[2] /\ gpc'[3] = gpc[3]
        /\ stopped'[1] = TRUE /\ stopped'[2] = stopped[2]
    BY <1>2, <1>3 DEF GpuInv, GpuTypes, Stages, Queues
  <2>3. InLine'
    BY <1>2, <2>1, <2>2 DEF GpuInv, InLine, Seen, Taken3, Pushed2, Taken2, Pushed1
  <2>4. EndsInTurn'
    BY <1>2, <2>1, <2>2 DEF GpuInv, EndsInTurn
  <2> QED
    BY <2>2, <2>3, <2>4 DEF GpuInv
<1>4. CASE s = 2
  <2>1. gpc[2] = "stop"
    BY <1>4 DEF Stop
  <2>2. /\ GpuTypes' /\ gpc'[2] = "end" /\ gpc'[1] = gpc[1] /\ gpc'[3] = gpc[3]
        /\ stopped'[2] = TRUE /\ stopped'[1] = stopped[1]
    BY <1>2, <1>4 DEF GpuInv, GpuTypes, Stages, Queues
  <2>3. InLine'
    BY <1>2, <2>1, <2>2 DEF GpuInv, InLine, Seen, Taken3, Pushed2, Taken2, Pushed1
  <2>4. EndsInTurn'
    BY <1>2, <2>1, <2>2 DEF GpuInv, EndsInTurn
  <2> QED
    BY <2>2, <2>3, <2>4 DEF GpuInv
<1> QED
  BY <1>1, <1>3, <1>4

LEMMA PoppedInLine ==
  ASSUME GpuInv, NEW s \in Stages, Popped(s)
  PROVE  GpuInv'
<1>1. s \in {2, 3}
  BY DEF Popped, GpuInv, EndsInTurn, Stages
<1>2. CASE s = 2
  <2>1. /\ gpc[2] = "popped" /\ gpc' = [gpc EXCEPT ![2] = "push"]
        /\ UNCHANGED <<q, stopped, chunk, consumed>>
    BY <1>2 DEF Popped, Turn
  <2>2. GpuTypes' /\ gpc'[2] = "push" /\ gpc'[1] = gpc[1] /\ gpc'[3] = gpc[3]
    BY <2>1 DEF GpuInv, GpuTypes, Stages
  <2>3. InLine'
    BY <2>1, <2>2 DEF GpuInv, InLine, Seen, Taken3, Pushed2, Taken2, Pushed1
  <2>4. EndsInTurn'
    BY <2>1, <2>2 DEF GpuInv, EndsInTurn
  <2> QED
    BY <2>2, <2>3, <2>4 DEF GpuInv
<1>3. CASE s = 3
  <2>1. /\ gpc[3] = "popped" /\ gpc' = [gpc EXCEPT ![3] = "pop"]
        /\ consumed' = Append(consumed, chunk[3]) /\ UNCHANGED <<q, stopped, chunk>>
    BY <1>3 DEF Popped, Turn
  <2>2. /\ GpuTypes' /\ gpc'[3] = "pop" /\ gpc'[1] = gpc[1] /\ gpc'[2] = gpc[2]
        /\ consumed \in Seq(Nat) /\ chunk[3] \in Nat
    BY <2>1 DEF GpuInv, GpuTypes, Stages
  <2>3. /\ Len(q[1]) \in Nat /\ Len(q[2]) \in Nat /\ Len(consumed) \in Nat
        /\ chunk[3] = Len(consumed) /\ Follow(consumed, 0)
    BY <2>1, GpuCounts DEF GpuInv, InLine, Seen
  <2>6. Follow(consumed', 0) /\ Len(consumed') = Len(consumed) + 1
    BY <2>1, <2>2, <2>3, NextFollows
  <2>4. InLine'
    <3>1. Seen \in Nat /\ Taken3 \in Nat /\ Pushed2 \in Nat /\ Taken2 \in Nat /\ Pushed1 \in Nat
      BY GpuCounts DEF GpuInv
    <3>2. Seen' = Seen + 1
      BY <2>1, <2>2, <2>3, <2>6, <3>1 DEF Seen
    <3>3. Taken3' = Taken3
      BY <2>1, <2>2, <2>3, <2>6, <3>1, <3>2 DEF Taken3
    <3>4. Pushed2' = Pushed2
      BY <2>1, <2>2, <2>3, <2>6, <3>1, <3>3 DEF Pushed2
    <3>5. Taken2' = Taken2
      BY <2>1, <2>2, <2>3, <2>6, <3>1, <3>4 DEF Taken2
    <3>6. Pushed1' = Pushed1
      BY <2>1, <2>2, <2>3, <2>6, <3>1, <3>5 DEF Pushed1
    <3> QED
      BY <2>1, <2>2, <2>3, <2>6, <3>1, <3>2, <3>3, <3>4, <3>5, <3>6 DEF GpuInv, InLine
  <2>5. EndsInTurn'
    BY <2>1, <2>2 DEF GpuInv, EndsInTurn
  <2> QED
    BY <2>2, <2>4, <2>5 DEF GpuInv
<1> QED
  BY <1>1, <1>2, <1>3

LEMMA GpuHolds == GpuInit /\ [][GpuNext]_gpuVars => []GpuInv
<1>1. GpuInv /\ [GpuNext]_gpuVars => GpuInv'
  BY GpuSleeps, PushInLine, PopInLine, PushedInLine, StopInLine, PoppedInLine
     DEF GpuNext, Stage, gpuVars
<1> QED
  BY <1>1, GpuStart, PTL

-----------------------------------------------------------------------------
\* Mother Hubbard in mh.c: the semaphores alone keep the two threads apart and in
\* order, for any number of children and days.  The inductive invariant.

\* Mother is up, or Father has children of her day left.
MotherUp == mpc \in {"task", "post"}
FatherUp == fday < mday

\* Children of the day that Mother has handed over, and that Father has taken.
Given == IF mtask = Bath THEN mchild - 1 ELSE 0
Taken == CASE fpc \in {"wait", "end"} -> fchild - 1
           [] fpc \in {"read", "tuck"} -> fchild
           [] fpc = "post" -> NUM_CHILDREN

Places ==
  /\ mpc = "post" => mtask = Bath
  /\ mpc \in {"wait", "end"} => mtask = 1 /\ mchild = 1
  /\ mpc = "end" <=> mday = Days
  /\ fpc = "end" <=> fday = Days
  /\ fpc \in {"post", "end"} => fchild = 1

\* What the two semaphores say of the two threads.
Turns ==
  /\ MotherUp => mother_sem = 0 /\ fday = mday
  /\ ~MotherUp => IF FatherUp THEN mother_sem = 0 /\ fday = mday - 1
                  ELSE mother_sem = 1 /\ fday = mday
  /\ father_sem = (IF FatherUp THEN NUM_CHILDREN ELSE Given) - Taken

\* The task of each child, from where the two threads are.
ByMother(c) ==
  IF FatherUp THEN Bath
  ELSE IF ~MotherUp THEN 0
  ELSE IF c < mchild \/ (c = mchild /\ mpc = "post") THEN mtask ELSE mtask - 1
InBed(c) == fpc = "post" \/ c < fchild
Reading(c) == fpc = "tuck" /\ c = fchild

Tasks ==
  \A c \in Children :
    IF InBed(c) THEN task[c] = Tucked
    ELSE IF Reading(c) THEN task[c] = Book
    ELSE task[c] = ByMother(c) \/ (ByMother(c) = 0 /\ task[c] = Tucked)

HubbardInv == HubbardTypeOK /\ Places /\ Turns /\ Tasks

LEMMA HubbardStart == HubbardInit => HubbardInv
BY HubbardAssumption
   DEF HubbardInit, HubbardInv, HubbardTypeOK, Places, Turns, Tasks, MotherUp, FatherUp, Given,
       Taken, ByMother, InBed, Reading, Children, Bath, Book, Tucked

\* Facts of the invariant that every step needs: Father only takes children that
\* Mother has handed over.
LEMMA FatherAhead ==
  ASSUME HubbardInv
  PROVE  /\ Taken <= NUM_CHILDREN /\ (~FatherUp => Taken <= Given)
         /\ Given < NUM_CHILDREN /\ (~MotherUp => Given = 0)
         /\ fday <= mday
BY HubbardAssumption
   DEF HubbardInv, HubbardTypeOK, Places, Turns, MotherUp, FatherUp, Given, Taken, Children,
       Bath, Book, Tucked

LEMMA WakeUpKeeps ==
  ASSUME HubbardInv, WakeUp
  PROVE  HubbardInv'
<1> USE HubbardAssumption DEF HubbardInv, Children, Bath, Book, Tucked
<1>1. HubbardTypeOK'
  BY FatherAhead DEF WakeUp, HubbardTypeOK, Places, Turns, MotherUp, FatherUp, Given, Taken
<1>2. Places'
  BY FatherAhead DEF WakeUp, HubbardTypeOK, Places, Turns, MotherUp, FatherUp, Given, Taken
<1>3. Turns'
  BY FatherAhead DEF WakeUp, HubbardTypeOK, Places, Turns, MotherUp, FatherUp, Given, Taken
<1>4. Tasks'
  <2>1. SUFFICES ASSUME NEW c \in Children
                 PROVE  (IF InBed(c) THEN task[c] = Tucked
                         ELSE IF Reading(c) THEN task[c] = Book
                         ELSE task[c] = ByMother(c) \/ (ByMother(c) = 0 /\ task[c] = Tucked))'
    BY DEF Tasks
  <2>2. IF InBed(c) THEN task[c] = Tucked
        ELSE IF Reading(c) THEN task[c] = Book
        ELSE task[c] = ByMother(c) \/ (ByMother(c) = 0 /\ task[c] = Tucked)
    BY DEF Tasks
  <2> QED
    BY <2>2, FatherAhead DEF WakeUp, HubbardTypeOK, Places, Turns, MotherUp, FatherUp, Given, Taken,
       ByMother, InBed, Reading
<1> QED
  BY <1>1, <1>2, <1>3, <1>4

LEMMA CareKeeps ==
  ASSUME HubbardInv, Care
  PROVE  HubbardInv'
<1> USE HubbardAssumption DEF HubbardInv, Children, Bath, Book, Tucked
<1>1. HubbardTypeOK'
  BY FatherAhead DEF Care, HubbardTypeOK, Places, Turns, MotherUp, FatherUp, Given, Taken, NextChild
<1>2. Places'
  BY FatherAhead DEF Care, HubbardTypeOK, Places, Turns, MotherUp, FatherUp, Given, Taken, NextChild
<1>3. Turns'
  BY FatherAhead DEF Care, HubbardTypeOK, Places, Turns, MotherUp, FatherUp, Given, Taken, NextChild
<1>4. Tasks'
  <2>1. SUFFICES ASSUME NEW c \in Children
                 PROVE  (IF InBed(c) THEN task[c] = Tucked
                         ELSE IF Reading(c) THEN task[c] = Book
                         ELSE task[c] = ByMother(c) \/ (ByMother(c) = 0 /\ task[c] = Tucked))'
    BY DEF Tasks
  <2>2. IF InBed(c) THEN task[c] = Tucked
        ELSE IF Reading(c) THEN task[c] = Book
        ELSE task[c] = ByMother(c) \/ (ByMother(c) = 0 /\ task[c] = Tucked)
    BY DEF Tasks
  <2> QED
    BY <2>2, FatherAhead DEF Care, HubbardTypeOK, Places, Turns, MotherUp, FatherUp, Given, Taken,
       ByMother, InBed, Reading, NextChild
<1> QED
  BY <1>1, <1>2, <1>3, <1>4

LEMMA GiveBathKeeps ==
  ASSUME HubbardInv, GiveBath
  PROVE  HubbardInv'
<1> USE HubbardAssumption DEF HubbardInv, Children, Bath, Book, Tucked
<1>1. HubbardTypeOK'
  BY FatherAhead DEF GiveBath, HubbardTypeOK, Places, Turns, MotherUp, FatherUp, Given, Taken
<1>2. Places'
  BY FatherAhead DEF GiveBath, HubbardTypeOK, Places, Turns, MotherUp, FatherUp, Given, Taken
<1>3. Turns'
  BY FatherAhead DEF GiveBath, HubbardTypeOK, Places, Turns, MotherUp, FatherUp, Given, Taken
<1>4. Tasks'
  <2>1. SUFFICES ASSUME NEW c \in Children
                 PROVE  (IF InBed(c) THEN task[c] = Tucked
                         ELSE IF Reading(c) THEN task[c] = Book
                         ELSE task[c] = ByMother(c) \/ (ByMother(c) = 0 /\ task[c] = Tucked))'
    BY DEF Tasks
  <2>2. IF InBed(c) THEN task[c] = Tucked
        ELSE IF Reading(c) THEN task[c] = Book
        ELSE task[c] = ByMother(c) \/ (ByMother(c) = 0 /\ task[c] = Tucked)
    BY DEF Tasks
  <2> QED
    BY <2>2, FatherAhead DEF GiveBath, HubbardTypeOK, Places, Turns, MotherUp, FatherUp, Given, Taken,
       ByMother, InBed, Reading
<1> QED
  BY <1>1, <1>2, <1>3, <1>4

LEMMA HandOverKeeps ==
  ASSUME HubbardInv, HandOver
  PROVE  HubbardInv'
<1> USE HubbardAssumption DEF HubbardInv, Children, Bath, Book, Tucked
<1>a. /\ mpc = "post" /\ mtask = Bath /\ mchild \in 1 .. NUM_CHILDREN
      /\ mday \in Nat /\ mday < Days /\ fday = mday
      /\ mother_sem = 0 /\ father_sem = mchild - 1 - Taken
  BY DEF HandOver, HubbardTypeOK, Places, Turns, MotherUp, FatherUp, Given
<1>b. /\ fpc \in {"wait", "read", "tuck"} /\ fchild \in 1 .. NUM_CHILDREN
      /\ Taken \in Nat /\ Taken <= mchild - 1 /\ Taken' = Taken
  <2>1. ~FatherUp /\ Given = mchild - 1
    BY <1>a DEF FatherUp, Given
  <2>2. Taken <= mchild - 1
    BY <2>1, FatherAhead
  <2>3. fpc \in {"wait", "read", "tuck", "post", "end"} /\ fchild \in 1 .. NUM_CHILDREN
    BY DEF HubbardTypeOK
  <2>4. fpc # "post" /\ fpc # "end"
    BY <1>a, <2>2 DEF Taken, Places
  <2> QED
    BY <2>2, <2>3, <2>4 DEF HandOver, Taken
<1>e. HubbardTypeOK' /\ Places' /\ Turns'
  <2>c. CASE mchild < NUM_CHILDREN
    <3>1. /\ mpc' = "task" /\ mchild' = mchild + 1 /\ mday' = mday /\ mtask' = Bath
          /\ father_sem' = father_sem + 1
      BY <1>a, <2>c DEF HandOver
    <3>2. HubbardTypeOK'
      BY <1>a, <1>b, <2>c, <3>1 DEF HandOver, HubbardTypeOK
    <3>3. Places'
      BY <1>a, <1>b, <2>c, <3>1 DEF HandOver, Places
    <3>4. Turns'
      BY <1>a, <1>b, <2>c, <3>1 DEF HandOver, Turns, MotherUp, FatherUp, Given
    <3> QED
      BY <3>2, <3>3, <3>4
  <2>d. CASE mchild = NUM_CHILDREN
    <3>1. /\ mchild' = 1 /\ mday' = mday + 1 /\ mtask' = 1
          /\ mpc' = (IF mday + 1 < Days THEN "wait" ELSE "end")
          /\ father_sem' = father_sem + 1
      BY <1>a, <2>d DEF HandOver
    <3>2. HubbardTypeOK'
      BY <1>a, <1>b, <2>d, <3>1 DEF HandOver, HubbardTypeOK
    <3>3. Places'
      BY <1>a, <1>b, <2>d, <3>1 DEF HandOver, Places
    <3>4. Turns'
      BY <1>a, <1>b, <2>d, <3>1 DEF HandOver, Turns, MotherUp, FatherUp
    <3> QED
      BY <3>2, <3>3, <3>4
  <2> QED
    BY <1>a, <2>c, <2>d
<1>4. Tasks'
  <2>1. SUFFICES ASSUME NEW c \in Children
                 PROVE  (IF InBed(c) THEN task[c] = Tucked
                         ELSE IF Reading(c) THEN task[c] = Book
                         ELSE task[c] = ByMother(c) \/ (ByMother(c) = 0 /\ task[c] = Tucked))'
    BY DEF Tasks
  <2>2. IF InBed(c) THEN task[c] = Tucked
        ELSE IF Reading(c) THEN task[c] = Book
        ELSE task[c] = ByMother(c) \/ (ByMother(c) = 0 /\ task[c] = Tucked)
    BY DEF Tasks
  <2>3. UNCHANGED <<task, father>>
    BY DEF HandOver
  <2>4. (InBed(c) <=> InBed(c)') /\ (Reading(c) <=> Reading(c)')
    BY <2>3 DEF InBed, Reading
  <2>5. ByMother(c) = IF c <= mchild THEN Bath ELSE Bath - 1
    BY <1>a DEF ByMother, MotherUp, FatherUp
  <2>6. ByMother(c)' = ByMother(c)
    <3>1. CASE mchild < NUM_CHILDREN
      <4>1. /\ mpc' = "task" /\ mchild' = mchild + 1 /\ mday' = mday /\ mtask' = Bath
            /\ fday' = mday
        BY <1>a, <2>3, <3>1 DEF HandOver
      <4> QED
        BY <1>a, <2>5, <4>1 DEF ByMother, MotherUp, FatherUp
    <3>2. CASE mchild = NUM_CHILDREN
      <4>1. mday' = mday + 1 /\ fday' = mday
        BY <1>a, <2>3, <3>2 DEF HandOver
      <4> QED
        BY <1>a, <2>5, <3>2, <4>1 DEF ByMother, FatherUp
    <3> QED
      BY <1>a, <3>1, <3>2
  <2> QED
    BY <2>2, <2>3, <2>4, <2>6
<1> QED
  BY <1>e, <1>4

LEMMA TakeChildKeeps ==
  ASSUME HubbardInv, TakeChild
  PROVE  HubbardInv'
<1> USE HubbardAssumption DEF HubbardInv, Children, Bath, Book, Tucked
<1>1. HubbardTypeOK'
  BY DEF TakeChild, HubbardTypeOK
<1>2. Places'
  BY DEF TakeChild, Places
<1>3. Turns'
  BY FatherAhead DEF TakeChild, HubbardTypeOK, Places, Turns, MotherUp, FatherUp, Given, Taken
<1>4. Tasks'
  <2>1. SUFFICES ASSUME NEW c \in Children
                 PROVE  (IF InBed(c) THEN task[c] = Tucked
                         ELSE IF Reading(c) THEN task[c] = Book
                         ELSE task[c] = ByMother(c) \/ (ByMother(c) = 0 /\ task[c] = Tucked))'
    BY DEF Tasks
  <2>2. IF InBed(c) THEN task[c] = Tucked
        ELSE IF Reading(c) THEN task[c] = Book
        ELSE task[c] = ByMother(c) \/ (ByMother(c) = 0 /\ task[c] = Tucked)
    BY DEF Tasks
  <2> QED
    BY <2>2, FatherAhead DEF TakeChild, HubbardTypeOK, Places, Turns, MotherUp, FatherUp, Given, Taken,
       ByMother, InBed, Reading
<1> QED
  BY <1>1, <1>2, <1>3, <1>4

LEMMA ReadBookKeeps ==
  ASSUME HubbardInv, ReadBook
  PROVE  HubbardInv'
<1> USE HubbardAssumption DEF HubbardInv, Children, Bath, Book, Tucked
<1>1. HubbardTypeOK'
  BY DEF ReadBook, HubbardTypeOK
<1>2. Places'
  BY DEF ReadBook, Places
<1>3. Turns'
  BY FatherAhead DEF ReadBook, HubbardTypeOK, Places, Turns, MotherUp, FatherUp, Given, Taken
<1>4. Tasks'
  <2>1. SUFFICES ASSUME NEW c \in Children
                 PROVE  (IF InBed(c) THEN task[c] = Tucked
                         ELSE IF Reading(c) THEN task[c] = Book
                         ELSE task[c] = ByMother(c) \/ (ByMother(c) = 0 /\ task[c] = Tucked))'
    BY DEF Tasks
  <2>2. IF InBed(c) THEN task[c] = Tucked
        ELSE IF Reading(c) THEN task[c] = Book
        ELSE task[c] = ByMother(c) \/ (ByMother(c) = 0 /\ task[c] = Tucked)
    BY DEF Tasks
  <2> QED
    BY <2>2, FatherAhead DEF ReadBook, HubbardTypeOK, Places, Turns, MotherUp, FatherUp, Given, Taken,
       ByMother, InBed, Reading
<1> QED
  BY <1>1, <1>2, <1>3, <1>4

LEMMA TuckInKeeps ==
  ASSUME HubbardInv, TuckIn
  PROVE  HubbardInv'
<1> USE HubbardAssumption DEF HubbardInv, Children, Bath, Book, Tucked
<1>a. /\ fpc = "tuck" /\ fchild \in 1 .. NUM_CHILDREN /\ NUM_CHILDREN \in Nat
      /\ fpc' = (IF fchild < NUM_CHILDREN THEN "wait" ELSE "post")
      /\ fchild' = (IF fchild < NUM_CHILDREN THEN fchild + 1 ELSE 1)
      /\ UNCHANGED <<mother_sem, father_sem, mother, fday>>
  BY DEF TuckIn, HubbardTypeOK
<1>b. Taken' = Taken /\ FatherUp' = FatherUp /\ Given' = Given /\ MotherUp' = MotherUp
  BY <1>a DEF Taken, FatherUp, Given, MotherUp
<1>1. HubbardTypeOK'
  BY <1>a DEF TuckIn, HubbardTypeOK
<1>2. Places'
  BY <1>a DEF Places
<1>3. Turns'
  BY <1>a, <1>b DEF Turns
<1>4. Tasks'
  <2>1. SUFFICES ASSUME NEW c \in Children
                 PROVE  (IF InBed(c) THEN task[c] = Tucked
                         ELSE IF Reading(c) THEN task[c] = Book
                         ELSE task[c] = ByMother(c) \/ (ByMother(c) = 0 /\ task[c] = Tucked))'
    BY DEF Tasks
  <2>2. IF InBed(c) THEN task[c] = Tucked
        ELSE IF Reading(c) THEN task[c] = Book
        ELSE task[c] = ByMother(c) \/ (ByMother(c) = 0 /\ task[c] = Tucked)
    BY DEF Tasks
  <2>3. task' = [task EXCEPT ![fchild] = Tucked] /\ task \in [Children -> 0 .. Tucked]
    BY DEF TuckIn, HubbardTypeOK
  <2>4. CASE c = fchild
    <3>1. task'[c] = Tucked
      BY <2>3, <2>4
    <3>2. InBed(c)'
      BY <1>a, <2>4 DEF InBed
    <3> QED
      BY <3>1, <3>2
  <2>5. CASE c # fchild
    <3>1. task'[c] = task[c]
      BY <2>3, <2>5
    <3>2. (InBed(c)' <=> InBed(c)) /\ ~Reading(c) /\ ~Reading(c)'
      BY <1>a, <2>5 DEF InBed, Reading
    <3>3. ByMother(c)' = ByMother(c)
      BY <1>a, <1>b DEF ByMother
    <3> QED
      BY <2>2, <3>1, <3>2, <3>3
  <2> QED
    BY <2>4, <2>5
<1> QED
  BY <1>1, <1>2, <1>3, <1>4

LEMMA WakeMotherKeeps ==
  ASSUME HubbardInv, WakeMother
  PROVE  HubbardInv'
<1> USE HubbardAssumption DEF HubbardInv, Children, Bath, Book, Tucked
<1>a. fpc = "post" /\ Taken = NUM_CHILDREN /\ FatherUp
  <2>1. fpc = "post"
    BY DEF WakeMother
  <2>2. Taken = NUM_CHILDREN
    BY <2>1 DEF Taken
  <2>3. Given \in Int
    BY DEF Given, HubbardTypeOK
  <2>4. ~(Taken <= Given)
    <3> HIDE DEF HubbardInv
    <3> QED
      BY <2>2, <2>3, FatherAhead
  <2> QED
    BY <2>1, <2>2, <2>4, FatherAhead
<1>b. ~MotherUp /\ mother_sem = 0 /\ fday \in 0 .. Days - 1 /\ mday = fday + 1
  BY <1>a DEF HubbardTypeOK, Turns, FatherUp
<1>1. HubbardTypeOK'
  BY <1>b DEF WakeMother, HubbardTypeOK
<1>2. Places'
  BY FatherAhead DEF WakeMother, HubbardTypeOK, Places, Turns, MotherUp, FatherUp, Given, Taken
<1>c. /\ fpc' \in {"wait", "end"} /\ fday' = mday /\ mother_sem' = 1
      /\ UNCHANGED <<father_sem, mother, fchild>>
  BY <1>b DEF WakeMother
<1>d. Given = 0 /\ fchild = 1 /\ father_sem = 0
  <2>1. Given = 0 /\ fchild = 1
    BY <1>a, <1>b, FatherAhead DEF Places
  <2> QED
    BY <1>a, <2>1 DEF Turns
<1>e. Given' = 0 /\ Taken' = 0 /\ ~FatherUp' /\ ~MotherUp'
  BY <1>b, <1>c, <1>d DEF Given, Taken, FatherUp, MotherUp
<1>3. Turns'
  <2>1. father_sem' = Given' - Taken'
    BY <1>c, <1>d, <1>e
  <2> QED
    BY <1>b, <1>c, <1>e, <2>1 DEF Turns
<1>4. Tasks'
  <2>1. SUFFICES ASSUME NEW c \in Children
                 PROVE  (IF InBed(c) THEN task[c] = Tucked
                         ELSE IF Reading(c) THEN task[c] = Book
                         ELSE task[c] = ByMother(c) \/ (ByMother(c) = 0 /\ task[c] = Tucked))'
    BY DEF Tasks
  <2>2. IF InBed(c) THEN task[c] = Tucked
        ELSE IF Reading(c) THEN task[c] = Book
        ELSE task[c] = ByMother(c) \/ (ByMother(c) = 0 /\ task[c] = Tucked)
    BY DEF Tasks
  <2> QED
    BY <2>2, FatherAhead DEF WakeMother, HubbardTypeOK, Places, Turns, MotherUp, FatherUp, Given, Taken,
       ByMother, InBed, Reading
<1> QED
  BY <1>1, <1>2, <1>3, <1>4

LEMMA HubbardStep ==
  ASSUME HubbardInv, [HubbardNext]_hubbard
  PROVE  HubbardInv'
<1>1. CASE HubbardNext
  BY <1>1, WakeUpKeeps, CareKeeps, GiveBathKeeps, HandOverKeeps, TakeChildKeeps,
     ReadBookKeeps, TuckInKeeps, WakeMotherKeeps DEF HubbardNext, Mother, Father
<1>2. CASE UNCHANGED hubbard
  BY <1>2 DEF hubbard, HubbardInv, HubbardTypeOK, Places, Turns, Tasks, MotherUp, FatherUp,
     Given, Taken, ByMother, InBed, Reading
<1> QED
  BY <1>1, <1>2

LEMMA HubbardHolds == HubbardSpec => []HubbardInv
<1>1. HubbardInv /\ [HubbardNext]_hubbard => HubbardInv'
  BY HubbardStep
<1> QED
  BY <1>1, HubbardStart, PTL DEF HubbardSpec

-----------------------------------------------------------------------------
\* Both threads' places and semaphores keep their ranges: mother_sem is 0 or 1 and
\* father_sem never counts more than the children of a day.
THEOREM HubbardTyped == HubbardSpec => []HubbardTypeOK
<1>1. HubbardInv => HubbardTypeOK
  BY DEF HubbardInv
<1> QED
  BY <1>1, HubbardHolds, PTL

\* Mother and Father never have the same child in hand, although no mutex is taken.
THEOREM HubbardOneWriter == HubbardSpec => []OneWriter
<1>1. HubbardInv => OneWriter
  BY FatherAhead, HubbardAssumption
     DEF HubbardInv, HubbardTypeOK, Places, Turns, MotherUp, FatherUp, Given, Taken, OneWriter,
         Children, Bath
<1> QED
  BY <1>1, HubbardHolds, PTL

LEMMA After ==
  ASSUME NEW x \in 0 .. Tucked
  PROVE  (x % Tucked) + 1 = (IF x = Tucked THEN 1 ELSE x + 1)
BY DEF Tucked

\* Every child goes through its six tasks in order, day after day.
THEOREM HubbardInOrder == HubbardSpec => TasksInOrder
<1>1. ASSUME HubbardInv, [HubbardNext]_hubbard, NEW c \in Children
      PROVE  task'[c] \in {task[c], (task[c] % Tucked) + 1}
  <2> USE HubbardAssumption DEF HubbardInv, Children, Bath, Book, Tucked
  <2>a. task[c] \in 0 .. 6 /\ task \in [1 .. NUM_CHILDREN -> 0 .. 6]
    BY <1>1 DEF HubbardTypeOK
  <2>b. (task[c] % 6) + 1 = (IF task[c] = 6 THEN 1 ELSE task[c] + 1)
    BY <2>a, After
  <2>c. IF InBed(c) THEN task[c] = Tucked
        ELSE IF Reading(c) THEN task[c] = Book
        ELSE task[c] = ByMother(c) \/ (ByMother(c) = 0 /\ task[c] = Tucked)
    BY <1>1 DEF Tasks
  <2>d. CASE UNCHANGED task
    BY <2>d
  <2>1. CASE Care /\ c = mchild
    <3>1. task'[c] = mtask
      BY <1>1, <2>1, <2>a DEF Care, HubbardTypeOK
    <3>2. task[c] = mtask - 1 \/ (mtask = 1 /\ task[c] = 6)
      BY <1>1, <2>1, <2>c, FatherAhead DEF Care, HubbardTypeOK, Places, Turns, MotherUp, FatherUp,
         Given, Taken, ByMother, InBed, Reading
    <3> QED
      BY <1>1, <3>1, <3>2, <2>a, <2>b DEF HubbardTypeOK
  <2>2. CASE GiveBath /\ c = mchild
    <3>1. task'[c] = 4
      BY <1>1, <2>2, <2>a DEF GiveBath, HubbardTypeOK
    <3>2. task[c] = 3
      BY <1>1, <2>2, <2>c, FatherAhead DEF GiveBath, HubbardTypeOK, Places, Turns, MotherUp,
         FatherUp, Given, Taken, ByMother, InBed, Reading
    <3> QED
      BY <3>1, <3>2, <2>b
  <2>3. CASE ReadBook /\ c = fchild
    <3>1. task'[c] = 5
      BY <1>1, <2>3, <2>a DEF ReadBook, HubbardTypeOK
    <3>2. task[c] = 4
      BY <1>1, <2>3, <2>c, FatherAhead DEF ReadBook, HubbardTypeOK, Places, Turns, MotherUp,
         FatherUp, Given, Taken, ByMother, InBed, Reading
    <3> QED
      BY <3>1, <3>2, <2>b
  <2>4. CASE TuckIn /\ c = fchild
    <3>1. task'[c] = 6
      BY <1>1, <2>4, <2>a DEF TuckIn, HubbardTypeOK
    <3>2. task[c] = 5
      BY <1>1, <2>4, <2>c DEF TuckIn, HubbardTypeOK, InBed, Reading
    <3> QED
      BY <3>1, <3>2, <2>b
  <2>5. CASE (Care \/ GiveBath) /\ c # mchild
    BY <1>1, <2>5, <2>a DEF Care, GiveBath, HubbardTypeOK
  <2>6. CASE (ReadBook \/ TuckIn) /\ c # fchild
    BY <1>1, <2>6, <2>a DEF ReadBook, TuckIn, HubbardTypeOK
  <2>7. CASE WakeUp \/ HandOver \/ TakeChild \/ WakeMother \/ UNCHANGED hubbard
    BY <2>7, <2>d DEF WakeUp, HandOver, TakeChild, WakeMother, hubbard
  <2> QED
    BY <1>1, <2>1, <2>2, <2>3, <2>4, <2>5, <2>6, <2>7 DEF HubbardNext, Mother, Father
<1>2. HubbardInv /\ [HubbardNext]_hubbard =>
        [\A c \in Children : task'[c] \in {task[c], (task[c] % Tucked) + 1}]_task
  BY <1>1
<1> QED
  BY <1>2, HubbardHolds, PTL DEF HubbardSpec, TasksInOrder

-----------------------------------------------------------------------------
\* The program implements Household.

\* Steps that change neither count.
LEMMA NothingCounted ==
  ASSUME HubbardInv, WakeUp \/ Care \/ HandOver \/ TakeChild \/ ReadBook \/ WakeMother
              \/ UNCHANGED hubbard
  PROVE  UNCHANGED <<Baths, Tuckings>>
<1> USE HubbardAssumption DEF Children, Bath, Book, Tucked
<1> DEFINE n == NUM_CHILDREN
<1>1. /\ mday \in Nat /\ fday \in Nat /\ mtask \in 1 .. 4 /\ mchild \in 1 .. n
      /\ fchild \in 1 .. n
  BY DEF HubbardInv, HubbardTypeOK
<1>2. /\ n * mday \in Nat /\ n * (mday + 1) = n * mday + n
      /\ n * fday \in Nat /\ n * (fday + 1) = n * fday + n
  BY <1>1, OneMore
<1>3. ASSUME mday' = mday + 1 PROVE n * mday' = n * mday + n
  BY <1>2, <1>3
<1>4. ASSUME fday' = fday + 1 PROVE n * fday' = n * fday + n
  BY <1>2, <1>4
<1>5. CASE WakeUp
  BY <1>5 DEF WakeUp, Baths, Tuckings, HubbardInv, Places
<1>6. CASE Care
  BY <1>1, <1>2, <1>6 DEF Care, NextChild, Baths, Tuckings
<1>7. CASE HandOver /\ mchild < n
  BY <1>1, <1>2, <1>7 DEF HandOver, Baths, Tuckings, HubbardInv, Places
<1>8. CASE HandOver /\ mchild = n
  <2>1. /\ mtask = 4 /\ mpc = "post" /\ mtask' = 1 /\ mday' = mday + 1
        /\ UNCHANGED father
    BY <1>8 DEF HandOver, HubbardInv, Places
  <2>2. Baths = n * mday + n
    BY <1>1, <1>2, <1>8, <2>1 DEF Baths
  <2>3. Baths' = n * mday + n
    BY <1>2, <1>3, <2>1 DEF Baths
  <2> QED
    BY <2>1, <2>2, <2>3 DEF Tuckings
<1>9. CASE TakeChild \/ ReadBook
  BY <1>9 DEF TakeChild, ReadBook, Baths, Tuckings
<1>10. CASE WakeMother
  <2>1. /\ fpc = "post" /\ fpc' # "post" /\ fday' = fday + 1 /\ fchild' = 1
        /\ UNCHANGED mother
    BY <1>10 DEF WakeMother, HubbardInv, Places
  <2>2. Tuckings = n * fday + n
    BY <2>1 DEF Tuckings
  <2>3. Tuckings' = n * fday + n
    BY <1>2, <1>4, <2>1 DEF Tuckings
  <2> QED
    BY <2>1, <2>2, <2>3 DEF Baths
<1>11. CASE UNCHANGED hubbard
  BY <1>11 DEF hubbard, Baths, Tuckings
<1> QED
  BY <1>1, <1>5, <1>6, <1>7, <1>8, <1>9, <1>10, <1>11 DEF HandOver

LEMMA BathCounted ==
  ASSUME HubbardInv, GiveBath
  PROVE  House!Bathe
<1> USE HubbardAssumption DEF Children, Bath, Book, Tucked
<1> DEFINE n == NUM_CHILDREN
<1>1. /\ mday \in Nat /\ fday = mday /\ mtask = 4 /\ mchild \in 1 .. n
      /\ fchild \in 1 .. n /\ mday < Days /\ mpc = "task" /\ fpc # "post"
  BY FatherAhead DEF GiveBath, HubbardInv, HubbardTypeOK, Places, Turns, MotherUp, FatherUp, Given, Taken
<1>2. n * mday \in Nat /\ n * mday + n <= n * Days /\ n * (mday + 1) = n * mday + n
  BY <1>1, OneMore, NotBeyond
<1>3. Tuckings \div n = mday
  <2>1. Tuckings = n * mday + (fchild - 1) /\ fchild - 1 \in 0 .. n - 1
    BY <1>1 DEF Tuckings
  <2> QED
    BY <1>1, <2>1, Quotient
<1>4. Baths = n * mday + mchild - 1 /\ Baths' = n * mday + mchild
  BY <1>1, <1>2 DEF Baths, GiveBath
<1>5. n * (Tuckings \div n + 1) = n * mday + n
  BY <1>2, <1>3
<1>6. Tuckings' = Tuckings
  BY DEF GiveBath, Tuckings
<1>7. Baths < n * Days /\ Baths < n * (Tuckings \div n + 1) /\ Baths' = Baths + 1
  <2> HIDE DEF n
  <2> DEFINE m == n * mday
             e == n * Days
             z == n * (Tuckings \div n + 1)
  <2>1. m \in Nat /\ m + n <= e /\ z = m + n /\ Baths = m + mchild - 1 /\ Baths' = m + mchild
    BY <1>2, <1>4, <1>5
  <2>2. n \in Nat /\ mchild \in 1 .. n /\ e \in Int
    BY <1>1 DEF n
  <2> HIDE DEF m, e, z
  <2>3. Baths < e /\ Baths < z /\ Baths' = Baths + 1
    BY <2>1, <2>2
  <2> QED
    BY <2>3 DEF e, z
<1> QED
  BY <1>6, <1>7 DEF House!Bathe

LEMMA TuckingCounted ==
  ASSUME HubbardInv, TuckIn
  PROVE  House!Tuck
<1> USE HubbardAssumption DEF Children, Bath, Book, Tucked
<1> DEFINE n == NUM_CHILDREN
<1>1. /\ mday \in Nat /\ fday \in Nat /\ fchild \in 1 .. n /\ mchild \in 1 .. n
      /\ fpc = "tuck" /\ fchild <= (IF fday < mday THEN n ELSE Given)
      /\ fday = mday \/ (fday < mday /\ mtask = 1)
  BY FatherAhead DEF TuckIn, HubbardInv, HubbardTypeOK, Places, Turns, MotherUp, FatherUp, Given, Taken
<1>2. /\ n * mday \in Nat /\ n * fday \in Nat
      /\ fday < mday => n * fday + n <= n * mday
  BY <1>1, OneMore, NotBeyond
<1>3. Tuckings = n * fday + fchild - 1
  BY <1>1, <1>2 DEF Tuckings
<1>4. Tuckings' = n * fday + fchild
  BY <1>1, <1>2 DEF Tuckings, TuckIn
<1>5. Baths >= n * fday + fchild
  <2>1. CASE fday < mday
    BY <1>1, <1>2, <2>1 DEF Baths
  <2>2. CASE fday = mday
    BY <1>1, <1>2, <2>2 DEF Baths, Given
  <2> QED
    BY <1>1, <2>1, <2>2
<1>6. UNCHANGED Baths
  BY DEF TuckIn, Baths
<1>7. Baths \in Int
  BY <1>1, <1>2 DEF Baths
<1> QED
  BY <1>1, <1>2, <1>3, <1>4, <1>5, <1>6, <1>7 DEF House!Tuck

LEMMA NothingYet ==
  ASSUME HubbardInit
  PROVE  House!Init
<1>1. NUM_CHILDREN * 0 = 0
  BY HubbardAssumption
<1> QED
  BY <1>1 DEF HubbardInit, House!Init, Baths, Tuckings, Bath

\* mh.c keeps what the household promises: baths and tuckings in order, and no day
\* before the last one is over.
THEOREM HubbardIsHousehold == HubbardSpec => IsHousehold
<1>1. HubbardInit => House!Init
  BY NothingYet
<1>2. HubbardInv /\ [HubbardNext]_hubbard => [House!Next]_<<Baths, Tuckings>>
  BY NothingCounted, BathCounted, TuckingCounted DEF HubbardNext, Mother, Father, House!Next
<1> QED
  BY <1>1, <1>2, HubbardHolds, PTL DEF HubbardSpec, IsHousehold, House!Spec

-----------------------------------------------------------------------------
\* The thread programs together: whichever was started, each program's variables
\* change by that program's steps only.

QueueProofs == INSTANCE MotherHubbardQueueProofs WITH
  mpc <- motherPc, mday <- motherDay, c <- motherC,
  fpc <- fatherPc, fday <- fatherDay, tucked <- fatherTucked, childId <- fatherChild

QueueSteps == Queue!Mother \/ Queue!Father

LEMMA EachRuns ==
  ASSUME [ThreadsNext]_threadVars
  PROVE  /\ [HubbardNext]_hubbard /\ [QueueSteps]_queueVars
         /\ [DemoNext]_demoVars /\ [GpuNext]_gpuVars
<1>1. CASE UNCHANGED threadVars
  BY <1>1 DEF threadVars
<1>2. ASSUME NEW t \in 0 .. MaxThreads, Step(t)
      PROVE  /\ [HubbardNext]_hubbard /\ [QueueSteps]_queueVars
             /\ [DemoNext]_demoVars /\ [GpuNext]_gpuVars
  <2>1. ASSUME NEW p \in Programs, Runs(p)
        PROVE  /\ p # "hubbard" => UNCHANGED hubbard
               /\ p # "queue" => UNCHANGED queueVars
               /\ p # "demos" => UNCHANGED demoVars
               /\ p # "gpu" => UNCHANGED gpuVars
    BY <2>1 DEF Runs
  <2>2. CASE Runs("buffer")
    BY <2>1, <2>2 DEF Programs
  <2>3. CASE Runs("copy")
    BY <2>1, <2>3 DEF Programs
  <2>4. CASE Runs("hubbard") /\ (Mother \/ Father)
    BY <2>1, <2>4 DEF Programs, HubbardNext
  <2>5. CASE Runs("queue") /\ (Queue!Mother \/ Queue!Father)
    BY <2>1, <2>5 DEF Programs, QueueSteps
  <2>6. CASE Runs("demos") /\ (JoinAll \/ DemoThread(t))
    <3>1. DemoNext
      BY <2>6 DEF DemoNext, DemoThread
    <3> QED
      BY <2>1, <2>6, <3>1 DEF Programs
  <2>7. CASE Runs("gpu") /\ t \in Stages /\ Stage(t)
    BY <2>1, <2>7 DEF Programs, GpuNext
  <2> QED
    BY <1>2, <2>2, <2>3, <2>4, <2>5, <2>6, <2>7 DEF Step
<1>3. CASE Runs("demos") /\ Race
  BY <1>3 DEF Runs, DemoNext
<1> QED
  BY <1>1, <1>2, <1>3 DEF ThreadsNext

LEMMA QueueRuns == ThreadsSpec => QueueProofs!Spec
<1>1. ThreadsInit => QueueProofs!Init
  BY DEF ThreadsInit, QueueProofs!Init, Queue!Init
<1>2. [QueueSteps]_queueVars => [QueueProofs!Next]_(QueueProofs!vars)
  BY DEF QueueSteps, queueVars, QueueProofs!Next, QueueProofs!vars, QueueProofs!Mother,
     QueueProofs!Father, Queue!Mother, Queue!Father, QueueProofs!queue, QueueProofs!days,
     QueueProofs!mother, QueueProofs!father, Queue!queue, Queue!days, Queue!mother,
     Queue!father, Queue!WakeUp, Queue!ResetQueue, Queue!GiveBath, Queue!WaitSpace,
     Queue!Push, Queue!Nap, Queue!WaitItem, Queue!Pop, Queue!TuckIn, Queue!Signal,
     QueueProofs!WakeUp, QueueProofs!ResetQueue, QueueProofs!GiveBath,
     QueueProofs!WaitSpace, QueueProofs!Push, QueueProofs!Nap, QueueProofs!WaitItem,
     QueueProofs!Pop, QueueProofs!TuckIn, QueueProofs!Signal
<1>3. [ThreadsNext]_threadVars => [QueueProofs!Next]_(QueueProofs!vars)
  BY <1>2, EachRuns
<1> QED
  BY <1>1, <1>3, PTL DEF ThreadsSpec, QueueProofs!Spec

LEMMA HubbardRuns == ThreadsSpec => HubbardSpec
<1>1. ThreadsInit => HubbardInit
  BY DEF ThreadsInit
<1>2. [ThreadsNext]_threadVars => [HubbardNext]_hubbard
  BY EachRuns
<1> QED
  BY <1>1, <1>2, PTL DEF ThreadsSpec, HubbardSpec

\* The queue of Project-2-Question-2's mh.c always holds the children Father has yet to
\* tuck in, in order, although Mother resets qhead and qtail every morning.
THEOREM ThreadsKeepQueue == ThreadsSpec => []QueueInOrder
<1>1. QueueProofs!QueueInOrder <=> QueueInOrder
  BY DEF QueueInOrder, Queue!QueueInOrder, QueueProofs!QueueInOrder, Queue!Waiting,
     QueueProofs!Waiting
<1>2. QueueProofs!Spec => []QueueProofs!QueueInOrder
  BY QueueProofs!QueueKeepsOrder, QueueAssumption DEF Queue!SizesOK, QueueProofs!SizesOK
<1> QED
  BY <1>1, <1>2, QueueRuns, PTL

\* When Mother resets qhead and qtail the queue is empty and Father is outside it.
THEOREM ThreadsResetEmpty == ThreadsSpec => []ResetFindsEmpty
<1>1. QueueProofs!ResetFindsEmpty <=> ResetFindsEmpty
  BY DEF ResetFindsEmpty, Queue!ResetFindsEmpty, QueueProofs!ResetFindsEmpty
<1>2. QueueProofs!Spec => []QueueProofs!ResetFindsEmpty
  BY QueueProofs!QueueEmptyAtReset, QueueAssumption DEF Queue!SizesOK, QueueProofs!SizesOK
<1> QED
  BY <1>1, <1>2, QueueRuns, PTL

\* Both Mother Hubbard programs implement the household: no child is tucked in before
\* its bath and no day starts before the last one is over.
THEOREM ThreadsAreHouseholds == ThreadsSpec => BothHouseholds
<1>1. QueueProofs!Spec => QueueProofs!IsHousehold
  BY QueueProofs!QueueIsHousehold, QueueAssumption DEF Queue!SizesOK, QueueProofs!SizesOK
<1>2. QueueProofs!Baths = Queue!Baths /\ QueueProofs!Tuckings = Queue!Tuckings
  BY DEF QueueProofs!Baths, Queue!Baths, QueueProofs!Tuckings, Queue!Tuckings
<1>3. QueueProofs!Baths' = Queue!Baths' /\ QueueProofs!Tuckings' = Queue!Tuckings'
  BY DEF QueueProofs!Baths, Queue!Baths, QueueProofs!Tuckings, Queue!Tuckings
<1>4. QueueProofs!House!Init => Queue!House!Init
  BY <1>2 DEF QueueProofs!House!Init, Queue!House!Init
<1>5. [QueueProofs!House!Next]_<<QueueProofs!Baths, QueueProofs!Tuckings>>
        => [Queue!House!Next]_<<Queue!Baths, Queue!Tuckings>>
  BY <1>2, <1>3 DEF QueueProofs!House!Next, Queue!House!Next, QueueProofs!House!Bathe,
     Queue!House!Bathe, QueueProofs!House!Tuck, Queue!House!Tuck
<1>6. ThreadsSpec => Queue!IsHousehold
  BY <1>1, <1>4, <1>5, QueueRuns, PTL
     DEF QueueProofs!IsHousehold, QueueProofs!House!Spec, Queue!IsHousehold, Queue!House!Spec
<1>7. ThreadsSpec => IsHousehold
  BY HubbardIsHousehold, HubbardRuns
<1> QED
  BY <1>6, <1>7 DEF BothHouseholds

\* Whatever hole each farmer takes from the shared std::queue, one of them has the
\* shovel, nobody takes from an empty queue and Larry is at most Ahead holes ahead.
THEOREM FarmersKeepStep == ThreadsSpec => []FarmInStep
<1>1. ThreadsInit => DemoInit
  BY DEF ThreadsInit
<1>2. [ThreadsNext]_threadVars => [DemoNext]_demoVars
  BY EachRuns
<1>3. DemoInv => FarmInStep
  BY FarmGood DEF DemoInv, FarmInStep
<1> QED
  BY <1>1, <1>2, <1>3, DemoHolds, PTL DEF ThreadsSpec

\* The buffer of the demonstration and the two BoundedQueues of the fallback deliver
\* what is put in them once and in order, all of it, whatever their sizes.
THEOREM QueuesKeepOrder == ThreadsSpec => []QueuesDeliver
<1>1. ThreadsInit => DemoInit /\ GpuInit
  BY DEF ThreadsInit
<1>2. [ThreadsNext]_threadVars => [DemoNext]_demoVars /\ [GpuNext]_gpuVars
  BY EachRuns
<1>3. DemoInv /\ GpuInv => QueuesDeliver
  BY ItemsGood, GpuDelivers DEF DemoInv, ItemsInOrder, QueuesDeliver
<1> QED
  BY <1>1, <1>2, <1>3, DemoHolds, GpuHolds, PTL DEF ThreadsSpec

USE DEF shared, sems

-----------------------------------------------------------------------------
\* The bounded buffer: its inductive invariant.

\* The producer has filled a slot and not posted it; the consumer has claimed
\* a full slot and not emptied it, has emptied it and not posted it.
Filled == One(P, {"count", "unlock", "post"})
Claimed == One(C, {"lock", "take"})
Emptied == One(C, {"count", "unlock", "post"})

BoundedTypes ==
  /\ buffer \in [Slots -> Chars \cup {NoChar}]
  /\ in \in Slots /\ out \in Slots /\ count \in Int
  /\ mutex \in Threads \cup {Free}
  /\ empty \in Nat /\ full \in Nat
  /\ pc \in [Threads -> Pcs]
  /\ i \in [Threads -> Nat]
  /\ item \in [Threads -> Chars \cup {NoChar}]
  /\ reg \in [Threads -> 0 .. BUFFER_SIZE]
  /\ main \in MainPcs

\* The two threads have their own places, in and outside the mutex.
BufferPlaces ==
  /\ pc[P] # "take" /\ pc[C] # "put"
  /\ \A t \in Threads : pc[t] \in Inside <=> mutex = t

\* What the semaphores, count and the loop counters say of each other.
ItemsAccounted == Items = full + Filled + Claimed
TurnsAccounted == i[P] + Filled = i[C] + Emptied + Items

BufferLocals ==
  /\ \A t \in Threads :
       /\ pc[t] = "count" => reg[t] = count
       /\ pc[t] \in {"wait"} \cup Holding => i[t] < NUM_ITEMS
       /\ i[t] <= NUM_ITEMS
       /\ pc[t] = "done" => i[t] = NUM_ITEMS
  /\ pc[P] \in {"wait", "lock", "put"} => item[P] \in Chars

MainWaits ==
  /\ main \in {"join_consumer", "destroy"} => pc[P] = "done"
  /\ main = "destroy" => pc[C] = "done"

\* The indices are as far apart as there are characters in the buffer.
Apart == in = (out + Items) % BUFFER_SIZE

BufferCounts == SlotsConserved /\ ItemsAccounted /\ TurnsAccounted
BufferInv == BoundedTypes /\ BufferPlaces /\ BufferCounts /\ BufferLocals /\ MainWaits /\ Apart

-----------------------------------------------------------------------------
\* Arithmetic of the indices.

LEMMA Remainder ==
  ASSUME NEW a \in Nat, NEW n \in Nat \ {0}
  PROVE  /\ a % n \in 0 .. n - 1
         /\ a % n = a - n * (a \div n) /\ a \div n \in Nat
  OBVIOUS

\* Two numbers less than n apart and congruent modulo n are equal.
LEMMA MultipleBelow ==
  ASSUME NEW n \in Nat \ {0}, NEW k \in Int, NEW m \in Int,
         n * k - n * m < n, n * m - n * k < n
  PROVE  k = m
<1>1. ASSUME k >= m + 1
      PROVE  FALSE
  <2>1. n * k >= n * (m + 1)
    BY <1>1
  <2>2. n * (m + 1) = n * m + n
    OBVIOUS
  <2> QED
    BY <2>1, <2>2
<1>2. ASSUME m >= k + 1
      PROVE  FALSE
  <2>1. n * m >= n * (k + 1)
    BY <1>2
  <2>2. n * (k + 1) = n * k + n
    OBVIOUS
  <2> QED
    BY <2>1, <2>2
<1> QED
  BY <1>1, <1>2

LEMMA RemainderUnique ==
  ASSUME NEW a \in Nat, NEW n \in Nat \ {0}, NEW r \in 0 .. n - 1, NEW k \in Int,
         a = n * k + r
  PROVE  a % n = r
<1> DEFINE m == a \div n
<1>1. m \in Nat /\ a % n = a - n * m /\ a % n \in 0 .. n - 1
  BY Remainder
<1>2. n * k \in Int /\ n * m \in Int
  BY <1>1
<1> HIDE DEF m
<1>3. n * k - n * m < n /\ n * m - n * k < n
  BY <1>1, <1>2
<1>4. k = m
  BY <1>1, <1>3, MultipleBelow
<1> QED
  BY <1>1, <1>4

\* Advancing an index, and advancing it after it was wrapped, are the same.
LEMMA AdvanceWrapped ==
  ASSUME NEW a \in Nat, NEW n \in Nat \ {0}, NEW r, r = a % n
  PROVE  (r + 1) % n = (a + 1) % n
<1> DEFINE m == a \div n
<1>1. r \in 0 .. n - 1 /\ m \in Nat /\ r = a - n * m
  BY Remainder
<1>2. n * m \in Int /\ a + 1 = n * m + (r + 1)
  BY <1>1
<1> HIDE DEF m
<1>3. CASE r + 1 < n
  <2>1. r + 1 \in 0 .. n - 1 /\ r + 1 \in Nat /\ r + 1 = n * 0 + (r + 1)
    BY <1>1, <1>3
  <2>2. (r + 1) % n = r + 1
    BY <2>1, RemainderUnique
  <2>3. (a + 1) % n = r + 1
    <3> DEFINE b == a + 1
               e == r + 1
    <3>1. b \in Nat /\ m \in Int /\ e \in 0 .. n - 1 /\ b = n * m + e
      BY <1>1, <1>2, <2>1
    <3> HIDE DEF b, e
    <3>2. b % n = e
      BY <3>1, RemainderUnique
    <3> QED
      BY <3>2 DEF b, e
  <2> QED
    BY <2>2, <2>3
<1>4. CASE r + 1 = n
  <2>1. 0 \in 0 .. n - 1 /\ n = n * 1 + 0 /\ n \in Nat
    OBVIOUS
  <2>2. n % n = 0
    BY <2>1, RemainderUnique
  <2>3. n * (m + 1) = n * m + n /\ m + 1 \in Int
    BY <1>1
  <2>4. a + 1 = n * (m + 1) + 0 /\ a + 1 \in Nat
    BY <1>2, <1>4, <2>3
  <2>5. (a + 1) % n = 0
    BY <2>1, <2>3, <2>4, RemainderUnique
  <2> QED
    BY <1>4, <2>2, <2>5
<1> QED
  BY <1>1, <1>3, <1>4

\* The same for any number of slots.
LEMMA AddWrapped ==
  ASSUME NEW a \in Nat, NEW b \in Nat, NEW n \in Nat \ {0}
  PROVE  ((a % n) + b) % n = (a + b) % n
<1> DEFINE r == a % n
           m == a \div n
           s == (r + b) % n
           e == (r + b) \div n
<1>1. r \in 0 .. n - 1 /\ m \in Nat /\ r = a - n * m
  BY Remainder
<1>2. s \in 0 .. n - 1 /\ e \in Nat /\ s = (r + b) - n * e
  <2>1. r + b \in Nat
    BY <1>1
  <2> HIDE DEF r
  <2> QED
    BY <2>1, Remainder
<1> HIDE DEF r, m, s, e
<1>3. n * m \in Int /\ n * e \in Int /\ n * (m + e) = n * m + n * e
      /\ m + e \in Int /\ a + b \in Nat
  BY <1>1, <1>2
<1>4. a + b = n * (m + e) + s
  BY <1>1, <1>2, <1>3
<1>5. (a + b) % n = s
  <2> DEFINE d == a + b
             k == m + e
  <2>1. d \in Nat /\ k \in Int /\ s \in 0 .. n - 1 /\ d = n * k + s
    BY <1>2, <1>3, <1>4
  <2> HIDE DEF d, k
  <2>2. d % n = s
    BY <2>1, RemainderUnique
  <2> QED
    BY <2>2 DEF d
<1> QED
  BY <1>5 DEF s, r

\* Fewer than n slots from an index, each slot is met once.
LEMMA SlotsDiffer ==
  ASSUME NEW n \in Nat \ {0}, NEW o \in Nat, NEW x \in Nat, NEW y \in Nat,
         x < y, y - x < n
  PROVE  (o + x) % n # (o + y) % n
<1> DEFINE k == (o + x) \div n
           m == (o + y) \div n
<1>7. o + x \in Nat /\ o + y \in Nat
  OBVIOUS
<1>8. k \in Nat /\ (o + x) % n = (o + x) - n * k
  BY <1>7, Remainder
<1>9. m \in Nat /\ (o + y) % n = (o + y) - n * m
  BY <1>7, Remainder
<1>1. /\ k \in Nat /\ (o + x) % n = (o + x) - n * k
      /\ m \in Nat /\ (o + y) % n = (o + y) - n * m
  BY <1>8, <1>9
<1>2. n * k \in Int /\ n * m \in Int
  BY <1>1
<1> HIDE DEF k, m
<1>3. SUFFICES ASSUME (o + x) % n = (o + y) % n
               PROVE  FALSE
  OBVIOUS
<1>4. n * m - n * k = y - x
  BY <1>1, <1>2, <1>3
<1>5. n * k - n * m < n /\ n * m - n * k < n
  BY <1>2, <1>4
<1>6. k = m
  BY <1>1, <1>5, MultipleBelow
<1> QED
  BY <1>2, <1>4, <1>6

-----------------------------------------------------------------------------
LEMMA BufferInit == Init => BufferInv
<1> SUFFICES ASSUME Init PROVE BufferInv
  OBVIOUS
<1> USE DEF Init
<1>1. BoundedTypes
  <2>1. in \in Slots /\ out \in Slots /\ count \in Int /\ empty \in Nat /\ full \in Nat
    BY SizesAssumption DEF Slots
  <2>2. buffer \in [Slots -> Chars \cup {NoChar}] /\ pc \in [Threads -> Pcs]
        /\ mutex \in Threads \cup {Free} /\ main \in MainPcs
    BY DEF Pcs, MainPcs
  <2>3. i \in [Threads -> Nat] /\ item \in [Threads -> Chars \cup {NoChar}]
        /\ reg \in [Threads -> 0 .. BUFFER_SIZE]
    BY SizesAssumption
  <2> QED
    BY <2>1, <2>2, <2>3 DEF BoundedTypes
<1>2. pc[P] = "unborn" /\ pc[C] = "unborn" /\ i[P] = 0 /\ i[C] = 0
      /\ \A t \in Threads : pc[t] = "unborn" /\ i[t] = 0 /\ mutex # t
  BY DEF Threads, P, C, Free
<1>3. BufferPlaces /\ BufferLocals /\ MainWaits
  BY <1>2, SizesAssumption DEF BufferPlaces, BufferLocals, MainWaits, Inside, Holding
<1>4. One(P, Holding) = 0 /\ One(C, Holding) = 0 /\ Filled = 0 /\ Claimed = 0
      /\ Emptied = 0 /\ Items = 0
  BY <1>2 DEF One, Holding, Inside, Filled, Claimed, Emptied, Items
<1>5. BufferCounts
  BY <1>2, <1>4, SizesAssumption
  DEF BufferCounts, SlotsConserved, ItemsAccounted, TurnsAccounted
<1>6. Apart
  <2>1. 0 = BUFFER_SIZE * 0 + 0 /\ 0 \in 0 .. BUFFER_SIZE - 1
    BY SizesAssumption
  <2>2. 0 % BUFFER_SIZE = 0
    BY <2>1, SizesAssumption, RemainderUnique
  <2> QED
    BY <1>4, <2>2 DEF Apart
<1> QED
  BY <1>1, <1>3, <1>5, <1>6 DEF BufferInv

\* What a step does to the numbers: every step but Put, Take and main's has one
\* of the effects below, and leaves the buffer and its indices alone.

LEMMA ProducerCounts ==
  ASSUME BufferInv, Producer
  PROVE  BufferPlaces' /\ BufferCounts' /\ BufferLocals' /\ MainWaits'
<1> USE SizesAssumption
    DEF BufferInv, BoundedTypes, BufferPlaces, BufferCounts, BufferLocals, MainWaits, SlotsConserved,
        ItemsAccounted, TurnsAccounted, Filled, Claimed, Emptied, Holding, Inside,
        Items, One, P, C, Threads, Free, At, Goto, Pcs
<1>1. CASE Produce
  BY <1>1 DEF Produce
<1>2. CASE WaitEmpty
  BY <1>2 DEF WaitEmpty
<1>3. CASE Lock(P, "put")
  BY <1>3 DEF Lock
<1>4. CASE Put
  BY <1>4 DEF Put
<1>5. CASE CountUp
  BY <1>5 DEF CountUp
<1>6. CASE Unlock(P)
  BY <1>6 DEF Unlock
<1>7. CASE PostFull
  BY <1>7 DEF PostFull
<1>8. CASE LoopEnd(P)
  BY <1>8 DEF LoopEnd
<1> QED
  BY <1>1, <1>2, <1>3, <1>4, <1>5, <1>6, <1>7, <1>8 DEF Producer

LEMMA ConsumerCounts ==
  ASSUME BufferInv, Consumer
  PROVE  BufferPlaces' /\ BufferCounts' /\ BufferLocals' /\ MainWaits'
<1> USE SizesAssumption
    DEF BufferInv, BoundedTypes, BufferPlaces, BufferCounts, BufferLocals, MainWaits, SlotsConserved,
        ItemsAccounted, TurnsAccounted, Filled, Claimed, Emptied, Holding, Inside,
        Items, One, P, C, Threads, Free, At, Goto, Pcs
<1>1. CASE Consume
  BY <1>1 DEF Consume
<1>2. CASE WaitFull
  BY <1>2 DEF WaitFull
<1>3. CASE Lock(C, "take")
  BY <1>3 DEF Lock
<1>4. CASE Take
  BY <1>4 DEF Take
<1>5. CASE CountDown
  BY <1>5 DEF CountDown
<1>6. CASE Unlock(C)
  BY <1>6 DEF Unlock
<1>7. CASE PostEmpty
  BY <1>7 DEF PostEmpty
<1>8. CASE LoopEnd(C)
  BY <1>8 DEF LoopEnd
<1> QED
  BY <1>1, <1>2, <1>3, <1>4, <1>5, <1>6, <1>7, <1>8 DEF Consumer

LEMMA MainCounts ==
  ASSUME BufferInv, Main
  PROVE  BufferInv'
<1> USE DEF BufferInv, BoundedTypes, BufferPlaces, BufferCounts, BufferLocals,
        MainWaits, SlotsConserved,
        ItemsAccounted, TurnsAccounted, Filled, Claimed, Emptied, Holding, Inside,
        Items, One, P, C, Threads, Free, At, Goto, Pcs, MainPcs, Apart
<1>1. CASE Create(P, "create_producer", "create_consumer")
  BY <1>1, SizesAssumption DEF Create
<1>2. CASE Create(C, "create_consumer", "join_producer")
  BY <1>2, SizesAssumption DEF Create
<1>3. CASE \/ Join(P, "join_producer", "join_consumer")
           \/ Join(C, "join_consumer", "destroy")
  BY <1>3 DEF Join
<1> QED
  BY <1>1, <1>2, <1>3 DEF Main

\* The semaphores bound the characters in the buffer, and leave the producer a
\* free slot and the consumer a full one.
LEMMA BufferBounds ==
  ASSUME BufferInv
  PROVE  /\ Items \in 0 .. BUFFER_SIZE /\ count \in 0 .. BUFFER_SIZE
         /\ empty \in 0 .. BUFFER_SIZE /\ full \in 0 .. BUFFER_SIZE
         /\ NoOverrun
  BY SizesAssumption
  DEF BufferInv, BoundedTypes, BufferPlaces, BufferCounts, SlotsConserved, ItemsAccounted, Filled, Claimed,
      Holding, Inside, Items, One, NoOverrun, P, C, Threads

LEMMA NextSlotIsSlot ==
  ASSUME NEW k \in Slots
  PROVE  NextSlot(k) \in Slots
<1>1. k + 1 \in Nat
  BY DEF Slots
<1> QED
  BY <1>1, SizesAssumption, Remainder DEF NextSlot, Slots

LEMMA BoundedTypesKept ==
  ASSUME BufferInv, Producer \/ Consumer
  PROVE  BoundedTypes'
<1> USE DEF BufferInv, BoundedTypes, At, Goto, Pcs, Inside, Threads, P, C
<1>1. CASE Produce \/ Lock(P, "put") \/ CountUp \/ Unlock(P) \/ LoopEnd(P)
  BY <1>1 DEF Produce, Lock, CountUp, Unlock, LoopEnd
<1>2. CASE WaitEmpty \/ WaitFull
  BY <1>2 DEF WaitEmpty, WaitFull
<1>3. CASE PostFull \/ PostEmpty
  BY <1>3 DEF PostFull, PostEmpty
<1>4. CASE Consume \/ Lock(C, "take") \/ CountDown \/ Unlock(C) \/ LoopEnd(C)
  BY <1>4 DEF Consume, Lock, CountDown, Unlock, LoopEnd
<1>5. CASE Put
  BY <1>5, NextSlotIsSlot, BufferBounds DEF Put
<1>6. CASE Take
  BY <1>6, NextSlotIsSlot, BufferBounds DEF Take
<1> QED
  BY <1>1, <1>2, <1>3, <1>4, <1>5, <1>6 DEF Producer, Consumer

\* Put and Take move their index and the number of characters together; the
\* other steps of the threads move neither.
LEMMA BufferOtherSteps ==
  ASSUME BufferInv, Producer \/ Consumer, ~Put, ~Take
  PROVE  UNCHANGED <<buffer, in, out, item[C], Items>>
<1> USE DEF BufferInv, BoundedTypes, BufferLocals, At, Goto, Threads, P, C, Items, One
<1>1. CASE CountUp
  BY <1>1 DEF CountUp
<1>2. CASE CountDown
  BY <1>2 DEF CountDown
<1>3. CASE Produce \/ Lock(P, "put") \/ Unlock(P) \/ LoopEnd(P)
  BY <1>3 DEF Produce, Lock, Unlock, LoopEnd
<1>4. CASE WaitEmpty \/ WaitFull \/ PostFull \/ PostEmpty
  BY <1>4 DEF WaitEmpty, WaitFull, PostFull, PostEmpty
<1>5. CASE Consume \/ Lock(C, "take") \/ Unlock(C) \/ LoopEnd(C)
  BY <1>5 DEF Consume, Lock, Unlock, LoopEnd
<1> QED
  BY <1>1, <1>2, <1>3, <1>4, <1>5 DEF Producer, Consumer

LEMMA PutAdds ==
  ASSUME BufferInv, Put
  PROVE  Items' = Items + 1 /\ out' = out /\ in' = NextSlot(in)
  BY DEF BufferInv, BoundedTypes, BufferPlaces, Put, At, Goto, Threads, P, C, Items, One

LEMMA TakeRemoves ==
  ASSUME BufferInv, Take
  PROVE  Items' = Items - 1 /\ in' = in /\ out' = NextSlot(out) /\ Items > 0
<1>1. Items' = Items - 1 /\ in' = in /\ out' = NextSlot(out)
  BY DEF BufferInv, BoundedTypes, BufferPlaces, Take, At, Goto, Threads, P, C, Items, One
<1>2. pc[C] = "take"
  BY DEF Take, At
<1> QED
  BY <1>1, <1>2, BufferBounds DEF NoOverrun

LEMMA ApartKept ==
  ASSUME BufferInv, Producer \/ Consumer
  PROVE  Apart'
<1> DEFINE n == BUFFER_SIZE
<1>1. n \in Nat \ {0} /\ out \in Nat /\ Items \in Nat /\ in = (out + Items) % n
  BY SizesAssumption, BufferBounds DEF BufferInv, BoundedTypes, Apart, Slots
<1>2. CASE Put
  <2>1. (in + 1) % n = (out + Items + 1) % n
    <3>1. out + Items \in Nat
      BY <1>1
    <3> QED
      BY <1>1, <3>1, AdvanceWrapped
  <2>2. out + Items + 1 = out' + Items'
    BY <1>1, <1>2, PutAdds
  <2>3. in' = (in + 1) % n
    BY <1>2, PutAdds DEF NextSlot
  <2> QED
    BY <2>1, <2>2, <2>3 DEF Apart
<1>3. CASE Take
  <2>1. out' = (out + 1) % n /\ Items' = Items - 1 /\ in' = in /\ Items > 0
    BY <1>3, TakeRemoves DEF NextSlot
  <2>2. out + 1 \in Nat /\ Items - 1 \in Nat /\ out + Items = (out + 1) + (Items - 1)
    BY <1>1, <2>1
  <2>3. (((out + 1) % n) + (Items - 1)) % n = (out + Items) % n
    <3> DEFINE o == out + 1
               k == Items - 1
    <3>1. o \in Nat /\ k \in Nat /\ out + Items = o + k
      BY <1>1, <2>2
    <3> HIDE DEF o, k
    <3>2. ((o % n) + k) % n = (o + k) % n
      BY <1>1, <3>1, AddWrapped
    <3>3. ((o % n) + k) % n = (out + Items) % n
      BY <3>1, <3>2
    <3> QED
      BY <3>3 DEF o, k
  <2>4. in' = (out' + Items') % n
    BY <1>1, <2>1, <2>2, <2>3
  <2> QED
    BY <2>4 DEF Apart
<1>4. CASE ~Put /\ ~Take
  <2>1. UNCHANGED <<in, out, Items>>
    BY <1>4, BufferOtherSteps
  <2> QED
    BY <1>1, <2>1 DEF Apart
<1> QED
  BY <1>2, <1>3, <1>4

LEMMA BufferNext == BufferInv /\ [Next]_vars => BufferInv'
<1> SUFFICES ASSUME BufferInv, [Next]_vars PROVE BufferInv'
  OBVIOUS
<1>1. CASE Producer \/ Consumer
  BY <1>1, BoundedTypesKept, ProducerCounts, ConsumerCounts, ApartKept DEF BufferInv
<1>2. CASE Main
  BY <1>2, MainCounts
<1>3. CASE UNCHANGED vars
  BY <1>3 DEF vars, BufferInv, BoundedTypes, BufferPlaces, BufferCounts, BufferLocals, MainWaits, SlotsConserved,
     ItemsAccounted, TurnsAccounted, Filled, Claimed, Emptied, Items, One, Apart
<1> QED
  BY <1>1, <1>2, <1>3 DEF Next

LEMMA BufferImplies ==
  ASSUME BufferInv
  PROVE  /\ TypeOK /\ MutualExclusion /\ SlotsConserved /\ CountExact
         /\ NoOverrun /\ EndsEmpty
<1>1. TypeOK
  <2>1. \A t \in Threads : i[t] \in 0 .. NUM_ITEMS
    BY SizesAssumption DEF BufferInv, BoundedTypes, BufferLocals
  <2>2. i \in [Threads -> 0 .. NUM_ITEMS]
    BY <2>1 DEF BufferInv, BoundedTypes
  <2> QED
    BY <2>2, BufferBounds DEF BufferInv, BoundedTypes, TypeOK
<1>2. MutualExclusion
  BY DEF BufferInv, BufferPlaces, MutualExclusion, P, C, Threads
<1>3. SlotsConserved /\ NoOverrun
  BY BufferBounds DEF BufferInv, BufferCounts
<1>4. CountExact
  BY DEF BufferInv, BoundedTypes, BufferPlaces, BufferCounts, ItemsAccounted, Filled, Claimed, CountExact,
     Items, One, Inside, P, C, Threads, Free
<1>5. EndsEmpty
  <2>1. SUFFICES ASSUME main = "destroy" PROVE EndsEmpty
    BY DEF EndsEmpty
  <2>2. pc[P] = "done" /\ pc[C] = "done" /\ i[P] = NUM_ITEMS /\ i[C] = NUM_ITEMS
    BY <2>1 DEF BufferInv, MainWaits, BufferLocals, P, C, Threads
  <2>3. Items = 0 /\ count = 0 /\ full = 0 /\ empty = BUFFER_SIZE
    BY <2>2, SizesAssumption
    DEF BufferInv, BoundedTypes, BufferCounts, SlotsConserved, ItemsAccounted, TurnsAccounted, Filled,
        Claimed, Emptied, Items, One, Holding, Inside
  <2>4. mutex = Free
    BY <2>2 DEF BufferInv, BoundedTypes, BufferPlaces, Inside, Threads
  <2>5. in = out % BUFFER_SIZE /\ out \in 0 .. BUFFER_SIZE - 1
    BY <2>3 DEF BufferInv, BoundedTypes, Apart, Slots
  <2>6. in = out
    <3>1. out = BUFFER_SIZE * 0 + out /\ out \in Nat
      BY <2>5, SizesAssumption
    <3>2. out % BUFFER_SIZE = out
      BY <2>5, <3>1, SizesAssumption, RemainderUnique
    <3> QED
      BY <2>5, <3>2
  <2> QED
    BY <2>3, <2>4, <2>6 DEF EndsEmpty
<1> QED
  BY <1>1, <1>2, <1>3, <1>4, <1>5

-----------------------------------------------------------------------------
\* The refinement: Put appends to the queue of BoundedFifo, Take gets from it,
\* and every other step leaves it alone.

Held == [k \in 1 .. Items |-> buffer[(out + k - 1) % BUFFER_SIZE]]

LEMMA HeldLength ==
  ASSUME BufferInv
  PROVE  Held \in Seq(Chars \cup {NoChar}) /\ Len(Held) = Items
<1>1. Items \in Nat /\ out \in Nat
  BY BufferBounds DEF BufferInv, BoundedTypes, Slots
<1>2. ASSUME NEW k \in 1 .. Items
      PROVE  buffer[(out + k - 1) % BUFFER_SIZE] \in Chars \cup {NoChar}
  <2>1. out + k - 1 \in Nat
    BY <1>1
  <2>2. (out + k - 1) % BUFFER_SIZE \in Slots
    BY <2>1, SizesAssumption, Remainder DEF Slots
  <2> QED
    BY <2>2 DEF BufferInv, BoundedTypes
<1> QED
  BY <1>1, <1>2 DEF Held

LEMMA PutRefines ==
  ASSUME BufferInv, Put
  PROVE  /\ Items < BUFFER_SIZE /\ item[P] \in Chars
         /\ Held' = Append(Held, item[P]) /\ item'[C] = item[C]
<1> DEFINE n == BUFFER_SIZE
<1>1. n \in Nat \ {0} /\ out \in Nat /\ Items \in Nat /\ in \in Slots
      /\ in = (out + Items) % n /\ Items < n
  BY SizesAssumption, BufferBounds DEF BufferInv, BoundedTypes, Apart, Slots, NoOverrun, Put, At
<1>2. Items' = Items + 1 /\ out' = out
      /\ buffer' = [buffer EXCEPT ![in] = item[P]] /\ item' = item
  BY PutAdds DEF Put
<1>3. item[P] \in Chars
  BY DEF BufferInv, BufferLocals, Put, At
<1>4. buffer \in [Slots -> Chars \cup {NoChar}]
  BY DEF BufferInv, BoundedTypes
<1>5. ASSUME NEW k \in 1 .. Items
      PROVE  buffer'[(out + k - 1) % n] = buffer[(out + k - 1) % n]
  <2>1. k - 1 \in Nat /\ k - 1 < Items /\ Items - (k - 1) < n
    BY <1>1
  <2>2. (out + (k - 1)) % n # (out + Items) % n
    BY <1>1, <2>1, SlotsDiffer
  <2>3. out + (k - 1) = out + k - 1
    BY <1>1
  <2>4. (out + k - 1) % n # in
    BY <1>1, <2>2, <2>3
  <2> QED
    BY <1>2, <1>4, <2>4
<1>6. buffer'[(out + (Items + 1) - 1) % n] = item[P]
  <2>1. out + (Items + 1) - 1 = out + Items
    BY <1>1
  <2> QED
    BY <1>1, <1>2, <1>4, <2>1
<1>7. Held' = Append(Held, item[P])
  <2>1. Len(Held) = Items /\ Held \in Seq(Chars \cup {NoChar})
    BY HeldLength
  <2>2. Held' = [k \in 1 .. Items + 1 |-> buffer'[(out + k - 1) % n]]
    BY <1>2 DEF Held
  <2>3. Append(Held, item[P])
          = [k \in 1 .. Items + 1 |-> IF k = Items + 1 THEN item[P] ELSE Held[k]]
    BY <1>1, <2>1
  <2>4. ASSUME NEW k \in 1 .. Items + 1
        PROVE  buffer'[(out + k - 1) % n]
                 = IF k = Items + 1 THEN item[P] ELSE Held[k]
    <3>1. CASE k = Items + 1
      BY <1>6, <3>1
    <3>2. CASE k # Items + 1
      <4>1. k \in 1 .. Items
        BY <1>1, <3>2
      <4>2. Held[k] = buffer[(out + k - 1) % n]
        BY <4>1 DEF Held
      <4> QED
        BY <1>5, <3>2, <4>1, <4>2
    <3> QED
      BY <3>1, <3>2
  <2> QED
    BY <2>2, <2>3, <2>4
<1> QED
  BY <1>1, <1>2, <1>3, <1>7

LEMMA TailShifts ==
  ASSUME NEW S, NEW e \in Seq(S), NEW m \in Nat, Len(e) = m, m > 0
  PROVE  Tail(e) = [k \in 1 .. m - 1 |-> e[k + 1]]
<1> DEFINE r == Tail(e)
<1>1. e # <<>>
  OBVIOUS
<1>2. r \in Seq(S) /\ Len(r) = m - 1 /\ \A k \in 1 .. Len(e) - 1 : r[k] = e[k + 1]
  BY <1>1, HeadTailProperties
<1> HIDE DEF r
<1>3. r = [k \in 1 .. m - 1 |-> r[k]]
  BY <1>2
<1>4. r = [k \in 1 .. m - 1 |-> e[k + 1]]
  BY <1>2, <1>3
<1> QED
  BY <1>4 DEF r

LEMMA TakeRefines ==
  ASSUME BufferInv, Take
  PROVE  Held # <<>> /\ item'[C] = Head(Held) /\ Held' = Tail(Held)
<1> DEFINE n == BUFFER_SIZE
<1>1. n \in Nat \ {0} /\ out \in Slots /\ out \in Nat /\ Items \in Nat /\ Items > 0
  BY SizesAssumption, BufferBounds, TakeRemoves DEF BufferInv, BoundedTypes, Slots
<1>2. Items' = Items - 1 /\ out' = (out + 1) % n /\ buffer' = buffer
      /\ item' = [item EXCEPT ![C] = buffer[out]]
  BY TakeRemoves DEF Take, NextSlot
<1>3. Len(Held) = Items /\ Held \in Seq(Chars \cup {NoChar})
  BY HeldLength
<1>4. Held[1] = buffer[out]
  <2>1. out + 1 - 1 = out /\ out = n * 0 + out /\ out \in 0 .. n - 1
    BY <1>1 DEF Slots
  <2>2. out % n = out
    BY <1>1, <2>1, RemainderUnique
  <2>3. Held[1] = buffer[(out + 1 - 1) % n]
    BY <1>1 DEF Held
  <2> QED
    BY <2>1, <2>2, <2>3
<1>5. item'[C] = Head(Held)
  BY <1>1, <1>2, <1>3, <1>4 DEF BufferInv, BoundedTypes, C, Threads
<1>6. Held' = Tail(Held)
  <2>1. Held' = [k \in 1 .. Items - 1 |-> buffer[(((out + 1) % n) + k - 1) % n]]
    BY <1>2 DEF Held
  <2>2. Tail(Held) = [k \in 1 .. Items - 1 |-> Held[k + 1]]
    BY <1>1, <1>3, TailShifts
  <2>3. ASSUME NEW k \in 1 .. Items - 1
        PROVE  buffer[(((out + 1) % n) + k - 1) % n] = Held[k + 1]
    <3>1. Held[k + 1] = buffer[(out + (k + 1) - 1) % n]
      BY <1>1 DEF Held
    <3> DEFINE o == out + 1
               j == k - 1
    <3>2. o \in Nat /\ j \in Nat /\ out + (k + 1) - 1 = o + j
      BY <1>1
    <3>3. ((out + 1) % n) + k - 1 = (o % n) + j
      <4>1. (out + 1) % n \in Nat
        BY <1>1, <3>2, Remainder
      <4> QED
        BY <4>1
    <3> HIDE DEF o, j
    <3>4. ((o % n) + j) % n = (o + j) % n
      BY <1>1, <3>2, AddWrapped
    <3> QED
      BY <3>1, <3>2, <3>3, <3>4
  <2> QED
    BY <2>1, <2>2, <2>3
<1> QED
  BY <1>1, <1>3, <1>5, <1>6

\* Put appends to the queue, Take gets from it, every other step stutters.
LEMMA BufferFifo == Spec => IsFifo
<1>1. Init => Fifo!Init
  <2> SUFFICES ASSUME Init PROVE Fifo!Init
    OBVIOUS
  <2>1. Items = 0
    BY DEF Init, Items, One, P, C, Threads
  <2>2. Held = <<>>
    BY <2>1 DEF Held
  <2> QED
    BY <2>2 DEF Init, Fifo!Init, Held, C, Threads
<1>2. BufferInv /\ [Next]_vars => [Fifo!Next]_<<Held, item[C]>>
  <2> SUFFICES ASSUME BufferInv, [Next]_vars
               PROVE  Fifo!Next \/ UNCHANGED <<Held, item[C]>>
    BY DEF Held
  <2>1. CASE Put
    <3>1. Items < BUFFER_SIZE /\ item[P] \in Chars
          /\ Held' = Append(Held, item[P]) /\ item'[C] = item[C]
      BY <2>1, PutRefines
    <3>3. Len(Held) < BUFFER_SIZE
      BY <3>1, HeldLength
    <3>2. \E c \in Chars : Fifo!Put(c)
      BY <3>1, <3>3, Zenon DEF Fifo!Put, Held
    <3> QED
      BY <3>2 DEF Fifo!Next
  <2>2. CASE Take
    BY <2>2, TakeRefines DEF Fifo!Next, Fifo!Get, Held
  <2>3. CASE (Producer \/ Consumer) /\ ~Put /\ ~Take
    BY <2>3, BufferOtherSteps DEF Held
  <2>4. CASE Main
    <3>1. UNCHANGED <<buffer, out, count, item>>
      BY <2>4 DEF Main, Create, Join
    <3>2. Items' = Items
      BY <2>4 DEF BufferInv, BoundedTypes, Main, Create, Join, At, Goto, Items, One, P, C, Threads
    <3> QED
      BY <3>1, <3>2 DEF Held
  <2>5. CASE UNCHANGED vars
    BY <2>5 DEF vars, Held, Items, One
  <2> QED
    BY <2>1, <2>2, <2>3, <2>4, <2>5 DEF Next
<1>3. BufferInv /\ [Next]_vars => [Fifo!Next]_<<[k \in 1 .. Items |->
                buffer[(out + k - 1) % BUFFER_SIZE]], item[C]>>
  BY <1>2 DEF Held
<1> QED
  BY <1>1, <1>3, BufferInit, BufferNext, PTL DEF Spec, Fifo!Spec, IsFifo

-----------------------------------------------------------------------------
\* What is proved of the program alone holds of it as it is run here.
LEMMA BufferRuns == ThreadsSpec => Spec
<1>1. ThreadsInit => Init
  BY DEF ThreadsInit
<1>2. ASSUME [ThreadsNext]_threadVars
      PROVE  [Next]_vars
  <2>1. CASE UNCHANGED threadVars
    BY <2>1 DEF threadVars
  <2>2. ASSUME NEW t \in 0 .. MaxThreads, Step(t)
        PROVE  [Next]_vars
    <3>1. CASE Runs("buffer")
      <4>1. Main \/ Producer \/ Consumer
        <5>1. ~Runs("hubbard") /\ ~Runs("queue") /\ ~Runs("demos")
              /\ ~Runs("copy") /\ ~Runs("gpu")
          BY <3>1 DEF Runs
        <5> QED
          BY <2>2, <5>1 DEF Step
      <4> QED
        BY <4>1 DEF Next
    <3>2. CASE \E p \in Programs \ {"buffer"} : Runs(p)
      BY <3>2 DEF Runs
    <3> QED
      BY <2>2, <3>1, <3>2 DEF Step, Programs
  <2>3. CASE Runs("demos") /\ Race
    BY <2>3 DEF Runs
  <2> QED
    BY <1>2, <2>1, <2>2, <2>3 DEF ThreadsNext
<1> QED
  BY <1>1, <1>2, PTL DEF ThreadsSpec, Spec

\* When the mutex is free, count is the number of full slots, one more while
\* the producer has yet to post its character or the consumer has yet to take
\* the one it has claimed, for every size of the buffer.
THEOREM CountIsExact == ThreadsSpec => []CountExact
  BY BufferImplies, BufferInit, BufferNext, BufferRuns, PTL DEF Spec

\* The safety of the program, for every size of the buffer and number of items:
\* types and ranges, mutual exclusion, semaphores and count that agree with the
\* buffer, no overrun, and an empty buffer when main has joined both threads.
THEOREM BufferSafe ==
  ThreadsSpec => [](/\ TypeOK /\ MutualExclusion /\ SlotsConserved /\ CountExact
                    /\ NoOverrun /\ EndsEmpty)
<1>1. BufferInv => /\ TypeOK /\ MutualExclusion /\ SlotsConserved /\ CountExact
                   /\ NoOverrun /\ EndsEmpty
  BY BufferImplies
<1> QED
  BY <1>1, BufferInit, BufferNext, BufferRuns, PTL DEF Spec

\* The buffer, its two indices, its count and its semaphores implement a queue
\* of at most BUFFER_SIZE characters, first in first out, for every size.
THEOREM BufferIsFifo == ThreadsSpec => IsFifo
  BY BufferFifo, BufferRuns
=============================================================================
