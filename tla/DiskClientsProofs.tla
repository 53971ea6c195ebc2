------------------------- MODULE DiskClientsProofs -------------------------
(***************************************************************************)
(* The disk server stores within the block that a command addresses, does  *)
(* what the bytes of a connection mean as a list of commands, and is in    *)
(* step with a client that is at its prompt, for every geometry, every     *)
(* stream of bytes and every client.                                       *)
(***************************************************************************)
EXTENDS DiskClients, FiniteSetTheorems, SequenceTheorems, WellFoundedInduction, TLAPS

\* The disk keeps its blocks, and each block its size.
DiskOK == DOMAIN disk = Blocks /\ \A b \in Blocks : DOMAIN disk[b] = 1 .. BlockSize

\* What is on its way to the server, and who waits for it.
LinkOK ==
  /\ peer \in [Clients -> PeerStates]
  /\ in \in [Clients -> Seq(Byte)]
  /\ backlog \in Seq(Clients)

\* What a client does, and the line it typed.
ClientOK ==
  /\ cli \in [Clients -> {"new", "prompt", "data", "answer", "block", "left"}]
  /\ line \in [Clients -> Lines \cup {NoLine}]

\* The server has a client except while it accepts, or is dead.
ServingOK ==
  /\ serving \in Clients \cup {NoOne}
  /\ pc \in {"accept", "token", "word", "execute", "block", "data", "close", "dead"}
  /\ (serving = NoOne) <=> (pc \in {"accept", "dead"})

\* While a command is read its words are fewer than it needs; when it has them
\* all there are at most four.
CommandOK ==
  /\ tok \in Seq(Byte) /\ Len(tok) <= MaxTok
  /\ words \in Seq(Seq(Byte)) /\ Len(words) <= 4
  /\ pc \in {"token", "word"} => words = <<>> \/ Len(words) < WordsOf(words[1])

\* The state of a write was checked when it began, and its words are the same.
StoreOK ==
  /\ done \in Nat /\ done <= BlockSize
  /\ pc \in {"block", "data"} => InRange(words)
  /\ pc = "data" => LengthOK(words) /\ done <= DataLen(words)

\* The inductive invariant behind TypeOK: the bytes of a connection fit.
TypeInv == DiskOK /\ LinkOK /\ ClientOK /\ ServingOK /\ CommandOK /\ StoreOK

\* The type invariant that the runs check follows.
LEMMA TypeInvImpliesTypeOK == TypeInv => TypeOK
  BY DEF TypeInv, DiskOK, LinkOK, ClientOK, ServingOK, CommandOK, StoreOK, TypeOK

\* A cylinder and a sector within the geometry are a block of the disk.
LEMMA InRangeIsBlock ==
  ASSUME NEW w, InRange(w)
  PROVE  BlockIdx(w) \in Blocks
<1> DEFINE c == Cyl(w)
           s == Sec(w)
<1>1. /\ c \in 0 .. Cylinders - 1 /\ s \in 0 .. SectorsPerCyl - 1
      /\ Cylinders \in Nat \ {0} /\ SectorsPerCyl \in Nat \ {0}
  BY GeometryAssumption DEF InRange
<1> SUFFICES c * SectorsPerCyl + s \in 0 .. Cylinders * SectorsPerCyl - 1
  BY DEF BlockIdx, Blocks
<1> HIDE DEF c, s
<1>2. (c + 1) * SectorsPerCyl <= Cylinders * SectorsPerCyl
  BY <1>1
<1>3. (c + 1) * SectorsPerCyl = c * SectorsPerCyl + SectorsPerCyl
  BY <1>1
<1>4. c * SectorsPerCyl \in Nat /\ Cylinders * SectorsPerCyl \in Nat
  BY <1>1
<1> QED
  BY <1>1, <1>2, <1>3, <1>4

\* It holds when the server has started.
LEMMA InitTypeInv == Init => TypeInv
<1> SUFFICES ASSUME Init PROVE TypeInv
  OBVIOUS
<1> USE GeometryAssumption DEF Init, ServerInit
<1>1. DiskOK
  BY DEF DiskOK
<1>2. LinkOK
  BY DEF LinkOK, PeerStates
<1>3. ClientOK
  BY DEF ClientOK
<1>4. ServingOK
  BY DEF ServingOK
<1>5. CommandOK
  BY DEF CommandOK
<1>6. StoreOK
  BY DEF StoreOK
<1> QED
  BY <1>1, <1>2, <1>3, <1>4, <1>5, <1>6 DEF TypeInv

-----------------------------------------------------------------------------
\* The steps of the server, one per action.

USE DEF link, history, client, serverVars

\* What holds of the connection that is being served.
LEMMA ServingIsClient ==
  ASSUME TypeInv, pc \notin {"accept", "dead"}
  PROVE  serving \in Clients /\ in[serving] \in Seq(Byte)
  BY DEF TypeInv, ServingOK, LinkOK

\* A command has one to four words.
LEMMA WordsOfBounds == \A w : WordsOf(w) \in 1 .. 4
  BY DEF WordsOf

\* A byte is received: the stream loses its head.
LEMMA ConsumeOK ==
  ASSUME TypeInv, pc \notin {"accept", "dead"}, Received, Consume
  PROVE  NextByte \in Byte /\ in' \in [Clients -> Seq(Byte)]
<1>1. serving \in Clients /\ in[serving] \in Seq(Byte) /\ in[serving] # <<>>
  BY ServingIsClient DEF Received
<1>2. Head(in[serving]) \in Byte /\ Tail(in[serving]) \in Seq(Byte)
  BY <1>1
<1> QED
  BY <1>1, <1>2 DEF Consume, NextByte, TypeInv, LinkOK

\* An answer is sent: the server is with the same client.
LEMMA SendOK ==
  ASSUME TypeInv, pc \notin {"accept", "dead"}, NEW symbols, Send(symbols)
  PROVE  LinkOK' /\ serving' = serving
<1>1. serving \in Clients
  BY ServingIsClient
<1>2. peer' \in [Clients -> PeerStates]
  BY <1>1 DEF Send, TypeInv, LinkOK, PeerStates
<1>3. UNCHANGED <<in, backlog, serving>>
  BY DEF Send
<1> QED
  BY <1>2, <1>3 DEF TypeInv, LinkOK

\* The server goes back to the head of its loop.
LEMMA NextCommandOK ==
  ASSUME TypeInv, pc \notin {"accept", "dead"}, NEW symbols, Send(symbols),
         NextCommand, UNCHANGED client, DiskOK'
  PROVE  TypeInv'
<1>1. LinkOK' /\ serving' = serving
  BY SendOK
<1>2. ClientOK'
  BY DEF TypeInv, ClientOK
<1>3. ServingOK'
  BY <1>1, ServingIsClient DEF NextCommand, TypeInv, ServingOK
<1>4. CommandOK'
  BY DEF NextCommand, TypeInv, CommandOK
<1>5. StoreOK'
  BY DEF NextCommand, TypeInv, StoreOK
<1> QED
  BY <1>1, <1>2, <1>3, <1>4, <1>5 DEF TypeInv

\* Zeros in the rest of a block leave the disk its shape.
LEMMA ZeroedOK ==
  ASSUME TypeInv
  PROVE  DOMAIN Zeroed = Blocks /\ \A b \in Blocks : DOMAIN Zeroed[b] = 1 .. BlockSize
  BY DEF Zeroed, TypeInv, DiskOK

\* A step of the server keeps it.
LEMMA ServerTypeInv ==
  ASSUME TypeInv, ServerStep, UNCHANGED client
  PROVE  TypeInv'
<1> USE GeometryAssumption
<1>0. ClientOK'
  BY DEF TypeInv, ClientOK
<1>1. CASE Accept
  <2>1. DiskOK'
    BY <1>1 DEF Accept, TypeInv, DiskOK
  <2>2. Head(backlog) \in Clients /\ Tail(backlog) \in Seq(Clients)
    BY <1>1 DEF Accept, TypeInv, LinkOK
  <2>3. LinkOK'
    BY <1>1, <2>2 DEF Accept, TypeInv, LinkOK
  <2>4. ServingOK'
    BY <1>1, <2>2 DEF Accept, ServingOK
  <2>5. CommandOK'
    BY <1>1 DEF Accept, CommandOK
  <2>6. StoreOK'
    BY <1>1 DEF Accept, TypeInv, StoreOK
  <2> QED
    BY <1>0, <2>1, <2>3, <2>4, <2>5, <2>6 DEF TypeInv
<1>2. CASE Close
  <2>1. DiskOK' /\ CommandOK' /\ StoreOK'
    BY <1>2 DEF Close, TypeInv, DiskOK, CommandOK, StoreOK
  <2>2. LinkOK'
    BY <1>2 DEF Close, TypeInv, LinkOK, PeerStates
  <2>3. ServingOK'
    BY <1>2 DEF Close, ServingOK
  <2> QED
    BY <1>0, <2>1, <2>2, <2>3 DEF TypeInv
<1>3. CASE SkipSpace
  <2>1. DiskOK' /\ CommandOK' /\ StoreOK' /\ ServingOK'
    BY <1>3 DEF SkipSpace, TypeInv, DiskOK, CommandOK, StoreOK, ServingOK
  <2>2. LinkOK'
    BY <1>3, ConsumeOK DEF SkipSpace, TypeInv, LinkOK
  <2> QED
    BY <1>0, <2>1, <2>2 DEF TypeInv
<1>4. CASE TakeChar
  <2>1. DiskOK' /\ StoreOK' /\ ServingOK'
    BY <1>4 DEF TakeChar, TypeInv, DiskOK, StoreOK, ServingOK
  <2>2. NextByte \in Byte /\ LinkOK'
    BY <1>4, ConsumeOK DEF TakeChar, TypeInv, LinkOK
  <2>3. tok' \in Seq(Byte) /\ Len(tok') <= MaxTok
    <3>1. tok \in Seq(Byte) /\ Len(tok) <= MaxTok
      BY DEF TypeInv, CommandOK
    <3>2. Append(tok, NextByte) \in Seq(Byte) /\ Len(Append(tok, NextByte)) = Len(tok) + 1
      BY <2>2, <3>1
    <3>3. tok' = IF Len(tok) < MaxTok THEN Append(tok, NextByte) ELSE tok
      BY <1>4 DEF TakeChar
    <3> HIDE DEF NextByte
    <3> QED
      BY <3>1, <3>2, <3>3
  <2>4. CommandOK'
    BY <1>4, <2>3 DEF TakeChar, TypeInv, CommandOK
  <2> QED
    BY <1>0, <2>1, <2>2, <2>4 DEF TypeInv
<1>5. CASE EndWord
  <2>1. DiskOK' /\ CommandOK' /\ StoreOK' /\ ServingOK'
    BY <1>5 DEF EndWord, TypeInv, DiskOK, CommandOK, StoreOK, ServingOK
  <2>2. LinkOK'
    BY <1>5, ConsumeOK DEF EndWord, TypeInv, LinkOK
  <2> QED
    BY <1>0, <2>1, <2>2 DEF TypeInv
<1>6. CASE NoWord
  BY <1>0, <1>6 DEF NoWord, TypeInv, DiskOK, LinkOK, CommandOK, StoreOK, ServingOK
<1>7. CASE AddWord
  <2>1. DiskOK' /\ LinkOK' /\ ServingOK'
    BY <1>7 DEF AddWord, TypeInv, DiskOK, LinkOK, ServingOK
  <2>2. StoreOK'
    <3>1. pc' \notin {"block", "data"} /\ done' = done
      BY <1>7 DEF AddWord
    <3> QED
      BY <3>1 DEF TypeInv, StoreOK
  <2>3. /\ words' \in Seq(Seq(Byte)) /\ Len(words') = Len(words) + 1
        /\ words # <<>> => words'[1] = words[1]
    BY <1>7 DEF AddWord, TypeInv, CommandOK
  <2>4. Len(words') <= 4
    <3>1. Len(words) \in Nat /\ (words = <<>> => Len(words) = 0)
      BY DEF TypeInv, CommandOK
    <3>2. words = <<>> \/ Len(words) < WordsOf(words[1])
      BY <1>7 DEF AddWord, TypeInv, CommandOK
    <3>3. WordsOf(words[1]) \in 1 .. 4
      BY WordsOfBounds
    <3> QED
      BY <2>3, <3>1, <3>2, <3>3
  <2>5. CommandOK'
    BY <1>7, <2>3, <2>4 DEF AddWord, CommandOK
  <2> QED
    BY <1>0, <2>1, <2>2, <2>5 DEF TypeInv
<1>8. CASE Info \/ Unknown \/ ReadRefused \/ ReadBlock \/ WriteRefused
  <2>1. DiskOK'
    BY <1>8 DEF Info, Unknown, ReadRefused, ReadBlock, WriteRefused, TypeInv, DiskOK
  <2>2. pc \notin {"accept", "dead"} /\ NextCommand /\ \E symbols : Send(symbols)
    BY <1>8 DEF Info, Unknown, ReadRefused, ReadBlock, WriteRefused
  <2> QED
    BY <2>1, <2>2, NextCommandOK
<1>9. CASE ReadLine
  <2>1. LinkOK' /\ serving' = serving
    BY <1>9, SendOK DEF ReadLine
  <2>2. DiskOK' /\ CommandOK'
    BY <1>9 DEF ReadLine, TypeInv, DiskOK, CommandOK
  <2>3. ServingOK'
    BY <1>9, <2>1 DEF ReadLine, TypeInv, ServingOK
  <2>4. InRange(words)'
    BY <1>9 DEF ReadLine, InRange, Cyl, Sec
  <2>5. StoreOK'
    BY <1>9, <2>4 DEF ReadLine, TypeInv, StoreOK
  <2> QED
    BY <1>0, <2>1, <2>2, <2>3, <2>5 DEF TypeInv
<1>10. CASE WriteStart
  <2>1. DiskOK' /\ LinkOK' /\ CommandOK' /\ ServingOK'
    BY <1>10 DEF WriteStart, TypeInv, DiskOK, LinkOK, CommandOK, ServingOK
  <2>2. InRange(words)' /\ LengthOK(words)' /\ 0 <= DataLen(words)'
    BY <1>10 DEF WriteStart, InRange, Cyl, Sec, LengthOK, DataLen
  <2>3. StoreOK'
    BY <1>10, <2>2 DEF WriteStart, TypeInv, StoreOK
  <2> QED
    BY <1>0, <2>1, <2>3 DEF TypeInv
<1>11. CASE WriteByte
  <2>1. LinkOK'
    BY <1>11, ConsumeOK DEF WriteByte, TypeInv, LinkOK
  <2>2. CommandOK' /\ ServingOK'
    BY <1>11 DEF WriteByte, TypeInv, CommandOK, ServingOK
  <2>3. InRange(words) /\ LengthOK(words) /\ done < DataLen(words) /\ done \in Nat
    BY <1>11 DEF WriteByte, TypeInv, StoreOK
  <2>4. InRange(words)' /\ LengthOK(words)' /\ DataLen(words)' = DataLen(words)
    BY <1>11, <2>3 DEF WriteByte, InRange, Cyl, Sec, LengthOK, DataLen
  <2>5. StoreOK'
    BY <1>11, <2>3, <2>4 DEF WriteByte, StoreOK, LengthOK
  <2>6. DiskOK'
    BY <1>11, <2>3, InRangeIsBlock DEF WriteByte, TypeInv, DiskOK
  <2> QED
    BY <1>0, <2>1, <2>2, <2>5, <2>6 DEF TypeInv
<1>12. CASE WriteFailed
  BY <1>0, <1>12 DEF WriteFailed, TypeInv, DiskOK, LinkOK, CommandOK, StoreOK, ServingOK
<1>13. CASE WriteEnd
  <2>1. DiskOK'
    BY <1>13, ZeroedOK DEF WriteEnd, DiskOK
  <2>2. pc \notin {"accept", "dead"} /\ NextCommand /\ Send(<<"write_ok">>)
    BY <1>13 DEF WriteEnd
  <2> QED
    BY <2>1, <2>2, NextCommandOK
<1>14. CASE BrokenPipe
  <2>1. CommandOK' /\ StoreOK'
    BY <1>14 DEF BrokenPipe, TypeInv, CommandOK, StoreOK
  <2>2. DiskOK'
    <3>1. disk' \in {disk, Zeroed}
      BY <1>14 DEF BrokenPipe
    <3> QED
      BY <3>1, ZeroedOK DEF TypeInv, DiskOK
  <2>3. LinkOK'
    BY <1>14 DEF BrokenPipe, TypeInv, LinkOK, PeerStates
  <2>4. ServingOK'
    BY <1>14 DEF BrokenPipe, ServingOK
  <2> QED
    BY <1>0, <2>1, <2>2, <2>3, <2>4 DEF TypeInv
<1> QED
  BY <1>1, <1>2, <1>3, <1>4, <1>5, <1>6, <1>7, <1>8, <1>9, <1>10, <1>11, <1>12,
     <1>13, <1>14 DEF ServerStep

\* A restart of the server keeps it.
LEMMA RestartTypeInv ==
  ASSUME TypeInv, Restart, UNCHANGED client
  PROVE  TypeInv'
<1>1. DiskOK' /\ LinkOK' /\ ClientOK'
  BY DEF Restart, TypeInv, DiskOK, LinkOK, ClientOK
<1>2. ServingOK'
  BY DEF Restart, TypeInv, ServingOK
<1>3. CommandOK' /\ StoreOK'
  BY GeometryAssumption DEF Restart, CommandOK, StoreOK
<1> QED
  BY <1>1, <1>2, <1>3 DEF TypeInv

-----------------------------------------------------------------------------
\* The steps of the clients change neither the disk nor the server.

LEMMA ClientTypeInv ==
  ASSUME TypeInv, NEW c \in Clients, ClientStep(c)
  PROVE  TypeInv'
<1>1. UNCHANGED <<disk, serving, pc, tok, words, done>>
  BY DEF ClientStep, Connect, Type, SendData, Answer, ShowBlock, Leave
<1>2. DiskOK' /\ ServingOK' /\ CommandOK'
  BY <1>1 DEF TypeInv, DiskOK, ServingOK, CommandOK
<1>3. StoreOK'
  BY <1>1 DEF TypeInv, StoreOK, InRange, Cyl, Sec, LengthOK, DataLen
<1>4. LinkOK' /\ ClientOK'
  <2>1. CASE Connect(c)
    <3>1. backlog' \in Seq(Clients)
      BY <2>1 DEF Connect, TypeInv, LinkOK
    <3> QED
      BY <2>1, <3>1 DEF Connect, TypeInv, LinkOK, ClientOK, PeerStates
  <2>2. CASE Type(c)
    <3>1. PICK l \in Lines :
            /\ line' = [line EXCEPT ![c] = l]
            /\ in' = [in EXCEPT ![c] = @ \o Header(l)]
            /\ cli' = [cli EXCEPT ![c] = IF l.data = <<>> THEN "answer" ELSE "data"]
      BY <2>2 DEF Type, Deliver
    <3>2. in[c] \o Header(l) \in Seq(Byte)
      BY LinesAssumption DEF TypeInv, LinkOK
    <3>3. in' \in [Clients -> Seq(Byte)]
      BY <3>1, <3>2 DEF TypeInv, LinkOK
    <3>4. LinkOK'
      BY <2>2, <3>3 DEF Type, TypeInv, LinkOK
    <3>5. cli' \in [Clients -> {"new", "prompt", "data", "answer", "block", "left"}]
      BY <3>1 DEF TypeInv, ClientOK
    <3>6. line' \in [Clients -> Lines \cup {NoLine}]
      BY <3>1 DEF TypeInv, ClientOK
    <3> QED
      BY <3>4, <3>5, <3>6 DEF ClientOK
  <2>3. CASE SendData(c)
    <3>1. line[c].data \in Seq(Byte)
      <4>1. line[c] \in Lines \cup {NoLine}
        BY DEF TypeInv, ClientOK
      <4>2. NoLine.data = <<>>
        BY DEF NoLine, Line
      <4>3. <<>> \in Seq(Byte)
        OBVIOUS
      <4> QED
        BY <4>1, <4>2, <4>3, LinesAssumption
    <3>2. in' \in [Clients -> Seq(Byte)]
      BY <2>3, <3>1 DEF SendData, Deliver, TypeInv, LinkOK
    <3> QED
      BY <2>3, <3>2 DEF SendData, TypeInv, LinkOK, ClientOK
  <2>4. CASE Answer(c)
    BY <2>4 DEF Answer, TypeInv, LinkOK, ClientOK
  <2>5. CASE ShowBlock(c)
    BY <2>5 DEF ShowBlock, TypeInv, LinkOK, ClientOK
  <2>6. CASE Leave(c)
    BY <2>6 DEF Leave, TypeInv, LinkOK, ClientOK, PeerStates
  <2> QED
    BY <2>1, <2>2, <2>3, <2>4, <2>5, <2>6 DEF ClientStep
<1> QED
  BY <1>2, <1>3, <1>4 DEF TypeInv

\* Every step keeps it.
LEMMA StepTypeInv == TypeInv /\ [Next]_vars => TypeInv'
<1> SUFFICES ASSUME TypeInv, [Next]_vars
             PROVE  TypeInv'
  OBVIOUS
<1>1. CASE Server
  BY <1>1, ServerTypeInv DEF Server
<1>2. CASE Start
  BY <1>2, RestartTypeInv DEF Start
<1>3. CASE \E c \in Clients : ClientStep(c)
  BY <1>3, ClientTypeInv
<1>4. CASE UNCHANGED vars
  BY <1>4 DEF vars, TypeInv, DiskOK, LinkOK, ClientOK, ServingOK, CommandOK, StoreOK,
              InRange, Cyl, Sec, LengthOK, DataLen
<1> QED
  BY <1>1, <1>2, <1>3, <1>4 DEF Next

-----------------------------------------------------------------------------
\* A byte of a write that is about to be stored goes into a block of the disk,
\* and within it: what the client sent as cylinder, sector and length cannot
\* lead past the mapped file, however the bytes arrive and whoever leaves.
StoresInBounds ==
  pc = "data" /\ done < DataLen(words) =>
    BlockIdx(words) \in Blocks /\ done + 1 \in 1 .. BlockSize

\* The types, with all indices of the disk in bounds, are invariant.
THEOREM StoreSafe == Spec => [](TypeOK /\ StoresInBounds)
<1>1. TypeInv => StoresInBounds
  BY InRangeIsBlock, GeometryAssumption
  DEF TypeInv, StoreOK, StoresInBounds, LengthOK
<1> QED
  BY <1>1, InitTypeInv, StepTypeInv, TypeInvImpliesTypeOK, PTL DEF Spec

-----------------------------------------------------------------------------
\* The stream of a connection as a list of commands.  The invariant names the
\* commands that are done, a run of Executed from the beginning of the stream, and
\* where in the next one the server is.  What it has read of that one, up to the
\* last space, no later byte can change: that is what makes the run stable.

\* A nonempty set of natural numbers has a least member.
LEMMA LeastElement ==
  ASSUME NEW S \in SUBSET Nat, S # {}
  PROVE  \E i \in S : \A j \in S : i <= j
<1> DEFINE Below(a) == 0 .. (a - 1)
           T == {Below(a) : a \in S}
<1>1. T \subseteq FiniteSubsetsOf(Nat) /\ T # {}
  <2>1. ASSUME NEW a \in S
        PROVE  Below(a) \subseteq Nat /\ IsFiniteSet(Below(a))
    <3>1. a - 1 \in Int
      OBVIOUS
    <3> QED
      BY <3>1, FS_Interval
  <2> QED
    BY <2>1 DEF FiniteSubsetsOf
<1>2. PICK X \in T : \A Y \in T : <<Y, X>> \notin StrictSubsetOrdering(Nat)
  BY <1>1, WFMin, FS_StrictSubsetOrderingWellFounded
<1>3. PICK i \in S : X = Below(i)
  OBVIOUS
<1>4. ASSUME NEW j \in S, j < i
      PROVE  FALSE
  <2>1. Below(j) \subseteq Below(i) /\ j \in Below(i) /\ j \notin Below(j)
    BY <1>4
  <2>2. <<Below(j), Below(i)>> \in StrictSubsetOrdering(Nat)
    BY <2>1 DEF StrictSubsetOrdering
  <2> QED
    BY <1>2, <1>3, <2>2
<1> QED
  BY <1>4

-----------------------------------------------------------------------------
\* Words of the stream.  From p on there are spaces and then the word a .. z; when
\* it is not at the end of what was received, a space follows.
WordIn(p, a, z) ==
  /\ a \in Nat /\ z \in Nat /\ p <= a /\ a <= z /\ z <= Len(seen)
  /\ \A i \in p .. a - 1 : seen[i] = Space
  /\ \A i \in a .. z : seen[i] # Space
  /\ z < Len(seen) => seen[z + 1] = Space
\* Nothing but spaces from p on.
Blank(p) == \A i \in p .. Len(seen) : seen[i] = Space

\* The stream has the word at p that is there.
LEMMA WordAtIs ==
  ASSUME seen \in Seq(Byte), NEW p \in Nat, NEW a, NEW z, WordIn(p, a, z)
  PROVE  WordAt(p) = <<a, z>>
<1> DEFINE from == {i \in p .. Len(seen) : seen[i] # Space}
           x == CHOOSE i \in from : \A j \in from : i <= j
           ends == {j \in x .. Len(seen) : seen[j] = Space} \cup {Len(seen) + 1}
           y == CHOOSE j \in ends : \A k \in ends : j <= k
<1>1. /\ a \in Nat /\ z \in Nat /\ p <= a /\ a <= z /\ z <= Len(seen) /\ Len(seen) \in Nat
      /\ \A i \in p .. a - 1 : seen[i] = Space
      /\ \A i \in a .. z : seen[i] # Space
      /\ z < Len(seen) => seen[z + 1] = Space
  BY DEF WordIn
<1>2. a \in from /\ \A j \in from : a <= j
  <2>1. a \in from
    BY <1>1
  <2>2. ASSUME NEW j \in from, j < a PROVE FALSE
    BY <1>1, <2>2
  <2> QED
    BY <1>1, <2>1, <2>2
<1>3. x \in from /\ \A j \in from : x <= j
  BY <1>2
<1>4. x = a
  <2>1. x \in Int /\ x <= a /\ a <= x
    BY <1>2, <1>3
  <2> HIDE DEF x
  <2> QED
    BY <2>1, <1>1
<1>5. ends = {j \in a .. Len(seen) : seen[j] = Space} \cup {Len(seen) + 1}
  BY <1>4
<1> HIDE DEF x, ends
<1>6. z + 1 \in ends /\ \A j \in ends : z + 1 <= j
  <2>1. z + 1 \in ends
    BY <1>1, <1>5
  <2>2. ASSUME NEW j \in ends, j < z + 1 PROVE FALSE
    BY <1>1, <1>5, <2>2
  <2>3. \A j \in ends : j \in Int
    BY <1>1, <1>5
  <2> QED
    BY <1>1, <2>1, <2>2, <2>3
<1>7. y \in ends /\ \A j \in ends : y <= j
  BY <1>6
<1>8. y = z + 1
  <2>1. y \in Int /\ y <= z + 1 /\ z + 1 <= y
    BY <1>1, <1>5, <1>6, <1>7
  <2> HIDE DEF y
  <2> QED
    BY <2>1, <1>1
<1>9. WordAt(p) = IF from = {} THEN <<>> ELSE <<x, y - 1>>
  BY DEF WordAt, x, ends
<1> HIDE DEF from, y
<1>10. y - 1 = z
  BY <1>8, <1>1
<1> QED
  BY <1>2, <1>4, <1>9, <1>10

\* There is no word where everything is blank.
LEMMA WordAtIsNot ==
  ASSUME NEW p, Blank(p)
  PROVE  WordAt(p) = <<>>
<1> DEFINE from == {i \in p .. Len(seen) : seen[i] # Space}
           x == CHOOSE i \in from : \A j \in from : i <= j
           ends == {j \in x .. Len(seen) : seen[j] = Space} \cup {Len(seen) + 1}
           y == CHOOSE j \in ends : \A k \in ends : j <= k
<1>1. from = {}
  BY DEF Blank
<1>2. WordAt(p) = IF from = {} THEN <<>> ELSE <<x, y - 1>>
  BY DEF WordAt
<1> HIDE DEF from, x, y
<1> QED
  BY <1>1, <1>2

\* The n words of a command from p on: the word i is in q[i], and a space that was
\* received follows all but the last.
From(p, q, i) == IF i = 1 THEN p ELSE q[i - 1][2] + 2
Spans(p, q, n) ==
  /\ q \in [1 .. n -> Nat \X Nat]
  /\ \A i \in 1 .. n : WordIn(From(p, q, i), q[i][1], q[i][2])
  /\ \A i \in 1 .. n : i < n => q[i][2] < Len(seen)

\* A word begins at a position of the stream.
LEMMA FromIsNat ==
  ASSUME NEW p \in Nat \ {0}, NEW n \in Nat, NEW q \in [1 .. n -> Nat \X Nat], NEW i \in 1 .. n + 1
  PROVE  From(p, q, i) \in Nat \ {0}
<1>1. CASE i = 1
  BY <1>1 DEF From
<1>2. CASE i # 1
  <2>1. i - 1 \in 1 .. n
    BY <1>2
  <2>2. q[i - 1][2] \in Nat
    BY <2>1
  <2>3. From(p, q, i) = q[i - 1][2] + 2
    BY <1>2 DEF From
  <2> QED
    BY <2>2, <2>3
<1> QED
  BY <1>1, <1>2

\* The words of a command are where the spans say.
LEMMA SpansAre ==
  ASSUME seen \in Seq(Byte), NEW p \in Nat \ {0}, NEW n \in 1 .. 4, NEW q, Spans(p, q, n),
         NEW i \in 1 .. n
  PROVE  WordsFrom(p)[i] = q[i] /\ q[i] # <<>>
<1> DEFINE After(span) == IF span = <<>> THEN <<>> ELSE WordAt(span[2] + 2)
           W == WordsFrom(p)
<1>1. q \in [1 .. n -> Nat \X Nat]
  BY DEF Spans
<1>2. ASSUME NEW j \in 1 .. n
      PROVE  WordAt(From(p, q, j)) = q[j] /\ q[j] # <<>>
  <2>1. From(p, q, j) \in Nat
    <3>1. n \in Nat /\ j \in 1 .. n + 1
      OBVIOUS
    <3> QED
      BY <1>1, <3>1, FromIsNat
  <2>2. WordIn(From(p, q, j), q[j][1], q[j][2])
    BY DEF Spans
  <2>3. WordAt(From(p, q, j)) = <<q[j][1], q[j][2]>>
    BY <2>1, <2>2, WordAtIs
  <2>4. q[j] \in Nat \X Nat
    BY <1>1
  <2>5. q[j] = <<q[j][1], q[j][2]>> /\ q[j] # <<>>
    BY <2>4
  <2> QED
    BY <2>3, <2>5
<1>3. W[1] = WordAt(p) /\ W[2] = After(W[1]) /\ W[3] = After(W[2]) /\ W[4] = After(W[3])
  BY DEF WordsFrom
<1> HIDE DEF W
<1>4. W[1] = q[1]
  BY <1>2, <1>3 DEF From
<1>5. n >= 2 => W[2] = q[2]
  BY <1>2, <1>3, <1>4 DEF From
<1>6. n >= 3 => W[3] = q[3]
  BY <1>2, <1>3, <1>5 DEF From
<1>7. n >= 4 => W[4] = q[4]
  BY <1>2, <1>3, <1>6 DEF From
<1>8. i \in {1, 2, 3, 4}
  OBVIOUS
<1>9. W[i] = q[i]
  BY <1>4, <1>5, <1>6, <1>7, <1>8
<1> QED
  BY <1>2, <1>9 DEF W

\* The words in the spans q, each cut to a token.
Words(q, n) == [i \in 1 .. n |-> Kept(q[i])]
\* A whole command is at m.next, and m2 is what it does.
Command(m, q, n, m2) ==
  /\ n \in 1 .. 4 /\ Spans(m.next, q, n) /\ n = WordsOf(Kept(q[1]))
  /\ m2 = Effect(m, Words(q, n), q[n][2] + 2)
\* Some whole command at m.next takes m to m2.
Completes(m, m2) == \E q, n : Command(m, q, n, m2)

\* The meaning of the stream executes a whole command.
LEMMA CommandIsExecuted ==
  ASSUME seen \in Seq(Byte), NEW m, m.next \in Nat \ {0}, NEW m2, Completes(m, m2)
  PROVE  Executed(m) = m2
<1> DEFINE W == WordsFrom(m.next)
           k == WordsOf(Kept(W[1]))
<1>1. PICK q, n : Command(m, q, n, m2)
  BY DEF Completes
<1>2. /\ n \in 1 .. 4 /\ Spans(m.next, q, n) /\ n = WordsOf(Kept(q[1]))
      /\ m2 = Effect(m, Words(q, n), q[n][2] + 2)
  BY <1>1 DEF Command
<1>3. \A i \in 1 .. n : W[i] = q[i] /\ q[i] # <<>>
  BY <1>2, SpansAre
<1>4. 1 \in 1 .. n /\ n \in 1 .. n
  BY <1>2
<1>5. Executed(m) = IF W[1] = <<>> \/ W[k] = <<>> THEN m
                    ELSE Effect(m, [i \in 1 .. k |-> Kept(W[i])], W[k][2] + 2)
  BY DEF Executed
<1> HIDE DEF W
<1>6. k = n
  BY <1>2, <1>3, <1>4
<1> HIDE DEF k
<1>7. [i \in 1 .. k |-> Kept(W[i])] = Words(q, n)
  BY <1>3, <1>6 DEF Words
<1> QED
  BY <1>2, <1>3, <1>4, <1>5, <1>6, <1>7

\* It executes nothing where there is no whole command.
LEMMA NoCommand ==
  ASSUME NEW m, Blank(m.next)
  PROVE  Executed(m) = m
<1> DEFINE W == WordsFrom(m.next)
<1>1. W[1] = WordAt(m.next)
  BY DEF WordsFrom
<1>2. W[1] = <<>>
  BY <1>1, WordAtIsNot
<1> QED
  BY <1>2 DEF Executed

-----------------------------------------------------------------------------
\* What each command does.

LEMMA EffectNext ==
  ASSUME NEW m, NEW w, NEW after \in Nat
  PROVE  Effect(m, w, after).next \in Nat /\ after <= Effect(m, w, after).next
<1>1. LengthOK(w) => DataLen(w) \in Nat
  BY GeometryAssumption DEF LengthOK
<1>2. \/ w[1] = <<"I">>
      \/ w[1] \notin {<<"I">>, <<"R">>, <<"W">>}
      \/ w[1] = <<"R">> /\ InRange(w)
      \/ w[1] = <<"R">> /\ ~InRange(w)
      \/ w[1] = <<"W">> /\ ~LengthOK(w)
      \/ w[1] = <<"W">> /\ LengthOK(w) /\ ~InRange(w)
      \/ w[1] = <<"W">> /\ LengthOK(w) /\ InRange(w)
  OBVIOUS
<1>3. CASE w[1] = <<"W">> /\ LengthOK(w) /\ InRange(w)
  <2>1. Effect(m, w, after).next = after + DataLen(w)
    BY <1>3 DEF Effect
  <2>2. PICK k \in Nat : k = DataLen(w)
    BY <1>1, <1>3
  <2> QED
    BY <2>1, <2>2
<1>4. CASE ~(w[1] = <<"W">> /\ LengthOK(w) /\ InRange(w))
  <2>1. Effect(m, w, after).next = after
    BY <1>2, <1>4 DEF Effect
  <2> QED
    BY <2>1
<1> QED
  BY <1>3, <1>4

-----------------------------------------------------------------------------
\* What is complete stays as it is when more bytes arrive.

LEMMA SeenGrows ==
  ASSUME seen \in Seq(Byte), NEW b \in Byte, seen' = Append(seen, b)
  PROVE  /\ seen' \in Seq(Byte) /\ Len(seen') = Len(seen) + 1 /\ Len(seen) \in Nat
         /\ \A i \in 1 .. Len(seen) : seen'[i] = seen[i]
         /\ seen'[Len(seen) + 1] = b
  BY AppendProperties

\* A byte more moves no word that a space closes.
LEMMA WordStays ==
  ASSUME seen \in Seq(Byte), NEW b \in Byte, seen' = Append(seen, b),
         NEW p \in Nat \ {0}, NEW a, NEW z, WordIn(p, a, z), z < Len(seen)
  PROVE  WordIn(p, a, z)'
<1>1. /\ Len(seen') = Len(seen) + 1 /\ Len(seen) \in Nat
      /\ \A i \in 1 .. Len(seen) : seen'[i] = seen[i]
  BY SeenGrows
<1>2. /\ a \in Nat /\ z \in Nat /\ p <= a /\ a <= z /\ z <= Len(seen)
      /\ \A i \in p .. a - 1 : seen[i] = Space
      /\ \A i \in a .. z : seen[i] # Space
      /\ seen[z + 1] = Space
  BY DEF WordIn
<1>3. \A i \in p .. z + 1 : seen'[i] = seen[i]
  BY <1>1, <1>2
<1>4. seen'[z + 1] = Space
  BY <1>2, <1>3
<1>5. \A i \in p .. a - 1 : seen'[i] = Space
  BY <1>2, <1>3
<1>6. \A i \in a .. z : seen'[i] # Space
  BY <1>2, <1>3
<1> QED
  BY <1>1, <1>2, <1>4, <1>5, <1>6 DEF WordIn

\* It does not change what is kept of a word that ended.
LEMMA KeptStays ==
  ASSUME seen \in Seq(Byte), NEW b \in Byte, seen' = Append(seen, b),
         NEW s \in Nat \X Nat, 1 <= s[1], s[1] <= s[2], s[2] <= Len(seen)
  PROVE  Kept(s)' = Kept(s)
<1>1. /\ Len(seen') = Len(seen) + 1 /\ Len(seen) \in Nat /\ seen' \in Seq(Byte)
      /\ \A i \in 1 .. Len(seen) : seen'[i] = seen[i]
  BY SeenGrows
<1> DEFINE e == IF s[2] - s[1] < MaxTok THEN s[2] ELSE s[1] + MaxTok - 1
<1>2. s[1] \in Nat /\ e \in Nat /\ e <= Len(seen)
  BY <1>1, GeometryAssumption
<1>3. Kept(s) = SubSeq(seen, s[1], e)
  BY DEF Kept
<1>4. Kept(s)' = SubSeq(seen', s[1], e)
  BY DEF Kept
<1> HIDE DEF e
<1>5. PICK f \in Nat : f = s[1]
  BY <1>2
<1>6. SubSeq(seen', f, e) = SubSeq(seen, f, e)
  <2>1. \A i \in 1 .. e - f + 1 : seen'[i + f - 1] = seen[i + f - 1]
    <3>1. ASSUME NEW i \in 1 .. e - f + 1
          PROVE  i + f - 1 \in 1 .. Len(seen)
      BY <1>1, <1>2, <1>5
    <3> QED
      BY <1>1, <3>1
  <2>2. SubSeq(seen', f, e) = [i \in 1 .. e - f + 1 |-> seen'[i + f - 1]]
    BY <1>1, <1>2, <1>5, SubSeqProperties
  <2>3. SubSeq(seen, f, e) = [i \in 1 .. e - f + 1 |-> seen[i + f - 1]]
    BY <1>1, <1>2, <1>5, SubSeqProperties
  <2> QED
    BY <2>1, <2>2, <2>3
<1> QED
  BY <1>3, <1>4, <1>5, <1>6

\* It does not change the effect of a command whose bytes are there.
LEMMA EffectStays ==
  ASSUME seen \in Seq(Byte), NEW b \in Byte, seen' = Append(seen, b),
         NEW m, NEW w, NEW after \in Nat \ {0}, Effect(m, w, after).next <= Len(seen) + 1
  PROVE  Effect(m, w, after)' = Effect(m, w, after)
<1>1. CASE w[1] = <<"W">> /\ LengthOK(w) /\ InRange(w)
  <2>1. Effect(m, w, after).next = after + DataLen(w)
    BY <1>1 DEF Effect
  <2>2. PICK k \in Nat : k = DataLen(w)
    BY <1>1, GeometryAssumption DEF LengthOK
  <2>3. /\ Len(seen') = Len(seen) + 1 /\ Len(seen) \in Nat
        /\ \A i \in 1 .. Len(seen) : seen'[i] = seen[i]
    BY SeenGrows
  <2>4. ASSUME NEW block
        PROVE  Stored(block, after, k)' = Stored(block, after, k)
    <3>1. ASSUME NEW i \in 1 .. BlockSize, ~(i > k)
          PROVE  after + i - 1 \in 1 .. Len(seen) /\ after + i - 1 <= Len(seen')
      BY <2>1, <2>2, <2>3, <3>1, GeometryAssumption
    <3> QED
      BY <2>3, <3>1 DEF Stored
  <2>5. Stored(m.disk[BlockIdx(w)], after, DataLen(w))'
          = Stored(m.disk[BlockIdx(w)], after, DataLen(w))
    BY <2>2, <2>4
  <2> QED
    BY <1>1, <2>5 DEF Effect
<1>2. CASE ~(w[1] = <<"W">> /\ LengthOK(w) /\ InRange(w))
  BY <1>2 DEF Effect
<1> QED
  BY <1>1, <1>2

\* The words of a command are within what was received.
LEMMA SpanBounds ==
  ASSUME seen \in Seq(Byte), NEW p \in Nat \ {0}, NEW n \in Nat, NEW q, Spans(p, q, n),
         NEW i \in 1 .. n
  PROVE  /\ From(p, q, i) \in Nat \ {0} /\ q[i] \in Nat \X Nat
         /\ From(p, q, i) <= q[i][1] /\ 1 <= q[i][1] /\ q[i][1] <= q[i][2]
         /\ q[i][2] <= Len(seen)
         /\ WordIn(From(p, q, i), q[i][1], q[i][2])
<1>1. q \in [1 .. n -> Nat \X Nat] /\ WordIn(From(p, q, i), q[i][1], q[i][2])
  BY DEF Spans
<1>2. i \in 1 .. n + 1 /\ n \in Nat
  OBVIOUS
<1>3. From(p, q, i) \in Nat \ {0}
  BY <1>1, <1>2, FromIsNat
<1> QED
  BY <1>1, <1>3 DEF WordIn

\* It does not move the words of a command that was read.
LEMMA SpansStay ==
  ASSUME seen \in Seq(Byte), NEW b \in Byte, seen' = Append(seen, b),
         NEW p \in Nat \ {0}, NEW n \in Nat, NEW q, Spans(p, q, n),
         n # 0 => q[n][2] < Len(seen)
  PROVE  /\ Spans(p, q, n)'
         /\ \A i \in 1 .. n : Kept(q[i])' = Kept(q[i])
<1>1. Len(seen') = Len(seen) + 1 /\ Len(seen) \in Nat
  BY SeenGrows
<1>2. ASSUME NEW i \in 1 .. n
      PROVE  q[i][2] < Len(seen) /\ q[i][2] \in Nat
  <2>1. i < n => q[i][2] < Len(seen)
    BY DEF Spans
  <2>2. q[i] \in Nat \X Nat
    BY SpanBounds
  <2> QED
    BY <2>1, <2>2
<1>3. ASSUME NEW i \in 1 .. n
      PROVE  WordIn(From(p, q, i), q[i][1], q[i][2])' /\ Kept(q[i])' = Kept(q[i])
  <2>1. /\ From(p, q, i) \in Nat \ {0} /\ q[i] \in Nat \X Nat
        /\ 1 <= q[i][1] /\ q[i][1] <= q[i][2] /\ q[i][2] <= Len(seen)
        /\ WordIn(From(p, q, i), q[i][1], q[i][2])
    BY SpanBounds
  <2>2. WordIn(From(p, q, i), q[i][1], q[i][2])'
    <3>1. PICK f, a, z : f \in Nat \ {0} /\ f = From(p, q, i) /\ a = q[i][1] /\ z = q[i][2]
      BY <2>1
    <3>2. WordIn(f, a, z)'
      BY <1>2, <2>1, <3>1, WordStays
    <3> QED
      BY <3>1, <3>2
  <2>3. Kept(q[i])' = Kept(q[i])
    BY <2>1, KeptStays
  <2> QED
    BY <2>2, <2>3
<1>4. \A i \in 1 .. n : i < n => q[i][2] < Len(seen')
  BY <1>1, <1>2
<1>5. q \in [1 .. n -> Nat \X Nat]
  BY DEF Spans
<1> QED
  BY <1>3, <1>4, <1>5 DEF Spans

\* A whole command stays one when a byte more arrives.
LEMMA CompletesStays ==
  ASSUME seen \in Seq(Byte), NEW b \in Byte, seen' = Append(seen, b),
         NEW m, m.next \in Nat \ {0}, NEW m2, Completes(m, m2), m2.next <= Len(seen) + 1
  PROVE  Completes(m, m2)'
<1>1. PICK q, n : Command(m, q, n, m2)
  BY DEF Completes
<1>2. /\ n \in 1 .. 4 /\ Spans(m.next, q, n) /\ n = WordsOf(Kept(q[1]))
      /\ m2 = Effect(m, Words(q, n), q[n][2] + 2)
  BY <1>1 DEF Command
<1>3. n \in Nat /\ n \in 1 .. n /\ 1 \in 1 .. n
  BY <1>2
<1>4. q[n] \in Nat \X Nat
  BY <1>2, <1>3, SpanBounds
<1>5. PICK z \in Nat : z = q[n][2]
  BY <1>4
<1>6. z + 2 <= m2.next /\ m2.next \in Nat
  BY <1>2, <1>5, EffectNext
<1>7. z < Len(seen)
  BY <1>6
<1>8. Spans(m.next, q, n)' /\ \A i \in 1 .. n : Kept(q[i])' = Kept(q[i])
  BY <1>2, <1>3, <1>5, <1>7, SpansStay
<1>9. PICK w : w = Words(q, n)
  OBVIOUS
<1>10. Words(q, n)' = w
  BY <1>8, <1>9 DEF Words
<1>11. Effect(m, w, z + 2)' = Effect(m, w, z + 2)
  BY <1>2, <1>5, <1>6, <1>9, EffectStays
<1>12. Command(m, q, n, m2)'
  <2>1. m2 = Effect(m, w, z + 2)'
    BY <1>2, <1>5, <1>9, <1>11
  <2>2. m2 = Effect(m, Words(q, n), q[n][2] + 2)'
    BY <1>5, <1>10, <2>1
  <2>3. n = WordsOf(Kept(q[1]))'
    BY <1>2, <1>3, <1>8
  <2> QED
    BY <1>2, <1>8, <2>2, <2>3 DEF Command
<1> QED
  BY <1>12 DEF Completes

-----------------------------------------------------------------------------
\* A run of k commands from the beginning of the connection.

Ended == in[serving] = <<>> /\ peer[serving] \in {"fin", "rst"}
Within(p) == p <= Len(seen) + 1 \/ Ended

\* M[i] is the disk and the log after the first i commands.
Chain(M, k) ==
  /\ k \in Nat /\ k <= Len(seen)
  /\ M[0] = [next |-> 1, disk |-> base, log |-> <<>>]
  /\ \A i \in 0 .. k : M[i].next \in Nat /\ i < M[i].next /\ Within(M[i].next)
  /\ \A i \in 1 .. k : Completes(M[i - 1], M[i])

\* When nothing but spaces follow the last command, its result is the meaning of
\* the stream.
LEMMA ChainIsMeaning ==
  ASSUME seen \in Seq(Byte), NEW M, NEW k, Chain(M, k), Blank(M[k].next)
  PROVE  Meaning = M[k]
<1> DEFINE L == Len(seen)
           F == [i \in 0 .. L |-> IF i <= k THEN M[i] ELSE M[k]]
           start == [next |-> 1, disk |-> base, log |-> <<>>]
           Runs(f) == f = [i \in 0 .. L |-> IF i = 0 THEN start ELSE Executed(f[i - 1])]
           R == CHOOSE f : Runs(f)
<1>1. k \in 0 .. L /\ L \in Nat
  BY DEF Chain
<1>2. Meaning = R[L]
  BY DEF Meaning
<1>3. M[0] = start /\ \A i \in 1 .. k : Executed(M[i - 1]) = M[i]
  <2>1. ASSUME NEW i \in 1 .. k
        PROVE  Executed(M[i - 1]) = M[i]
    <3>1. i - 1 \in 0 .. k /\ k \in Nat
      BY DEF Chain
    <3>2. M[i - 1].next \in Nat \ {0}
      BY <3>1 DEF Chain
    <3>3. Completes(M[i - 1], M[i])
      BY DEF Chain
    <3> QED
      BY <3>2, <3>3, CommandIsExecuted
  <2> QED
    BY <2>1 DEF Chain
<1>4. Executed(M[k]) = M[k]
  BY NoCommand
<1> HIDE DEF L, start
<1>5. F[0] = start /\ \A i \in 1 .. L : F[i] = Executed(F[i - 1])
  <2>1. F[0] = start
    BY <1>1, <1>3
  <2>2. ASSUME NEW i \in 1 .. L
        PROVE  F[i] = Executed(F[i - 1])
    <3>1. i \in 0 .. L /\ i - 1 \in 0 .. L
      BY <1>1
    <3>2. CASE i <= k
      BY <1>1, <1>3, <3>1, <3>2
    <3>3. CASE i > k
      <4>1. F[i] = M[k]
        BY <1>1, <3>1, <3>3
      <4>2. F[i - 1] = M[k]
        BY <1>1, <3>1, <3>3
      <4> QED
        BY <1>4, <4>1, <4>2
    <3> QED
      BY <1>1, <3>2, <3>3
  <2> QED
    BY <2>1, <2>2
<1>6. Runs(F)
  <2>1. F = [i \in 0 .. L |-> F[i]]
    OBVIOUS
  <2> HIDE DEF F
  <2>2. \A i \in 0 .. L : F[i] = IF i = 0 THEN start ELSE Executed(F[i - 1])
    BY <1>1, <1>5
  <2> QED
    BY <2>1, <2>2
<1> HIDE DEF F
<1>7. Runs(R)
  BY <1>6
<1> HIDE DEF R
<1>8. \A i \in 0 .. L : R[i] = F[i]
  <2> DEFINE Wrong == {i \in 0 .. L : R[i] # F[i]}
  <2>1. SUFFICES ASSUME Wrong # {} PROVE FALSE
    OBVIOUS
  <2>2. Wrong \in SUBSET Nat
    BY <1>1
  <2>3. PICK i \in Wrong : \A j \in Wrong : i <= j
    BY <2>1, <2>2, LeastElement
  <2>4. i # 0
    BY <1>1, <1>5, <1>7
  <2>5. i \in 1 .. L /\ i - 1 \in 0 .. L /\ i - 1 < i
    BY <1>1, <2>4
  <2>6. R[i - 1] = F[i - 1]
    BY <2>3, <2>5
  <2>7. R[i] = Executed(R[i - 1])
    BY <1>7, <2>5
  <2> QED
    BY <1>5, <2>5, <2>6, <2>7
<1>9. F[L] = M[k]
  <2>1. F[L] = IF L <= k THEN M[L] ELSE M[k]
    BY <1>1 DEF F
  <2> QED
    BY <1>1, <2>1
<1> QED
  BY <1>1, <1>2, <1>8, <1>9

-----------------------------------------------------------------------------
\* The types of what is remembered of a connection, and who is in it.

Symbol == Byte \cup Answers \cup {Nul}
\* The disks of this geometry.
Disks == [Blocks -> [1 .. BlockSize -> Symbol]]
\* The disk before and after, the bytes received and the answers.
HistoryOK ==
  /\ disk \in Disks /\ base \in Disks
  /\ seen \in Seq(Byte) /\ log \in Seq(Symbol)

\* A client is connected once: a connection that waits or is served is not new.
JoinedOK ==
  /\ \A i \in 1 .. Len(backlog) : cli[backlog[i]] # "new"
  /\ serving # NoOne => cli[serving] # "new"

\* Nothing is remembered when the server starts.
LEMMA InitHistory == Init => HistoryOK /\ JoinedOK
<1> SUFFICES ASSUME Init PROVE HistoryOK /\ JoinedOK
  OBVIOUS
<1>1. HistoryOK
  BY DEF Init, ServerInit, HistoryOK, Disks, Symbol
<1>2. JoinedOK
  BY DEF Init, ServerInit, JoinedOK
<1> QED
  BY <1>1, <1>2

\* An answer can be sent.
LEMMA AnswersAreSymbols ==
  \A s \in Answers : <<s>> \in Seq(Symbol)
  BY DEF Symbol

\* What a command sends back.
LEMMA ServerHistory ==
  ASSUME TypeInv, HistoryOK, ServerStep
  PROVE  HistoryOK'
<1>0. /\ disk \in Disks /\ base \in Disks /\ seen \in Seq(Byte) /\ log \in Seq(Symbol)
      /\ BlockSize \in Nat
  BY GeometryAssumption DEF HistoryOK
<1>1. CASE Accept
  BY <1>0, <1>1 DEF Accept, HistoryOK
<1>2. CASE Close \/ NoWord \/ AddWord \/ WriteStart \/ WriteFailed
  BY <1>0, <1>2 DEF Close, NoWord, AddWord, WriteStart, WriteFailed, HistoryOK
<1>3. ASSUME Received, Consume, pc \notin {"accept", "dead"}
      PROVE  seen' \in Seq(Byte) /\ NextByte \in Byte
  <2>1. NextByte \in Byte
    BY <1>3, ConsumeOK
  <2>2. seen' = Append(seen, NextByte)
    BY <1>3 DEF Consume
  <2> QED
    BY <1>0, <2>1, <2>2
<1>4. CASE SkipSpace \/ TakeChar \/ EndWord
  <2>1. UNCHANGED <<disk, base, log>>
    BY <1>4 DEF SkipSpace, TakeChar, EndWord
  <2>2. seen' \in Seq(Byte)
    BY <1>0, <1>3, <1>4 DEF SkipSpace, TakeChar, EndWord
  <2> QED
    BY <1>0, <2>1, <2>2 DEF HistoryOK
<1>5. ASSUME NEW symbols \in Seq(Symbol), Send(symbols), disk' \in Disks
      PROVE  HistoryOK'
  BY <1>0, <1>5 DEF Send, HistoryOK
<1>6. CASE Info \/ Unknown \/ ReadRefused \/ ReadLine \/ WriteRefused
  <2>1. disk' = disk /\ \E s \in Answers : Send(<<s>>)
    BY <1>6 DEF Info, Unknown, ReadRefused, ReadLine, WriteRefused, Answers
  <2> QED
    BY <1>0, <1>5, <2>1, AnswersAreSymbols
<1>7. CASE ReadBlock
  <2>1. disk' = disk /\ Send(disk[BlockIdx(words)])
    BY <1>7 DEF ReadBlock
  <2>2. InRange(words)
    BY <1>7 DEF ReadBlock, TypeInv, StoreOK
  <2>3. disk[BlockIdx(words)] \in [1 .. BlockSize -> Symbol]
    BY <1>0, <2>2, InRangeIsBlock DEF Disks
  <2>4. PICK s \in Seq(Symbol) : s = disk[BlockIdx(words)]
    BY <1>0, <2>3
  <2>5. Send(s) /\ disk' \in Disks
    BY <1>0, <2>1, <2>4
  <2> QED
    BY <1>5, <2>5
<1>8. CASE WriteByte
  <2>1. seen' \in Seq(Byte) /\ NextByte \in Byte /\ UNCHANGED <<base, log>>
    BY <1>3, <1>8 DEF WriteByte
  <2>2. disk' = [disk EXCEPT ![BlockIdx(words)][done + 1] = NextByte]
    BY <1>8 DEF WriteByte
  <2>3. disk' \in Disks
    <3> HIDE DEF NextByte
    <3> QED
      BY <1>0, <2>1, <2>2 DEF Disks, Symbol
  <2> QED
    BY <1>0, <2>1, <2>3 DEF HistoryOK
<1>9. Zeroed \in Disks
  BY <1>0 DEF Zeroed, Disks, Symbol
<1>10. CASE WriteEnd
  <2>1. Send(<<"write_ok">>) /\ <<"write_ok">> \in Seq(Symbol)
    BY <1>10, AnswersAreSymbols DEF WriteEnd, Answers
  <2>2. disk' \in Disks
    BY <1>9, <1>10 DEF WriteEnd
  <2> QED
    BY <1>0, <1>5, <2>1, <2>2
<1>11. CASE BrokenPipe
  <2>1. disk' \in {disk, Zeroed} /\ UNCHANGED <<base, seen, log>>
    BY <1>11 DEF BrokenPipe
  <2> QED
    BY <1>0, <1>9, <2>1 DEF HistoryOK
<1> QED
  BY <1>1, <1>2, <1>4, <1>6, <1>7, <1>8, <1>10, <1>11 DEF ServerStep

\* Every step keeps the types of the history.
LEMMA StepHistory ==
  ASSUME TypeInv, HistoryOK, [Next]_vars
  PROVE  HistoryOK'
<1>1. CASE Server
  BY <1>1, ServerHistory DEF Server
<1>2. CASE Start
  BY <1>2 DEF Start, Restart, HistoryOK
<1>3. CASE \E c \in Clients : ClientStep(c)
  BY <1>3 DEF ClientStep, Connect, Type, SendData, Answer, ShowBlock, Leave, HistoryOK
<1>4. CASE UNCHANGED vars
  BY <1>4 DEF vars, HistoryOK
<1> QED
  BY <1>1, <1>2, <1>3, <1>4 DEF Next

\* Every step keeps a client from joining twice.
LEMMA StepJoined ==
  ASSUME TypeInv, JoinedOK, [Next]_vars
  PROVE  JoinedOK'
<1> USE GeometryAssumption
<1>0. cli \in [Clients -> {"new", "prompt", "data", "answer", "block", "left"}]
      /\ backlog \in Seq(Clients)
  BY DEF TypeInv, ClientOK, LinkOK
<1>1. ASSUME UNCHANGED <<cli, serving, backlog>>
      PROVE  JoinedOK'
  BY <1>1 DEF JoinedOK
<1>2. CASE Server
  <2>1. cli' = cli
    BY <1>2 DEF Server
  <2>2. CASE Accept
    <3>1. /\ serving' = Head(backlog) /\ backlog' = Tail(backlog)
          /\ Head(backlog) = backlog[1] /\ 1 \in 1 .. Len(backlog)
          /\ \A i \in 1 .. Len(Tail(backlog)) :
               Tail(backlog)[i] = backlog[i + 1] /\ i + 1 \in 1 .. Len(backlog)
      BY <1>0, <2>2 DEF Accept
    <3> QED
      BY <2>1, <3>1 DEF JoinedOK
  <2>3. CASE Close
    BY <2>1, <2>3 DEF Close, JoinedOK
  <2>4. CASE BrokenPipe
    BY <2>1, <2>4 DEF BrokenPipe, JoinedOK
  <2>5. CASE SkipSpace \/ TakeChar \/ EndWord \/ NoWord \/ AddWord \/ WriteStart \/ WriteByte
             \/ WriteFailed
    BY <1>1, <2>1, <2>5
    DEF SkipSpace, TakeChar, EndWord, NoWord, AddWord, WriteStart, WriteByte, WriteFailed
  <2>6. CASE Info \/ Unknown \/ ReadRefused \/ ReadLine \/ ReadBlock \/ WriteRefused \/ WriteEnd
    BY <1>1, <2>1, <2>6
    DEF Info, Unknown, ReadRefused, ReadLine, ReadBlock, WriteRefused, WriteEnd, Send
  <2> QED
    BY <1>2, <2>2, <2>3, <2>4, <2>5, <2>6 DEF Server, ServerStep
<1>3. CASE Start
  BY <1>1, <1>3 DEF Start, Restart
<1>4. ASSUME NEW c \in Clients, ClientStep(c)
      PROVE  JoinedOK'
  <2>1. CASE Connect(c)
    <3>1. cli' = [cli EXCEPT ![c] = "prompt"] /\ backlog' = Append(backlog, c)
          /\ serving' = serving
      BY <2>1 DEF Connect
    <3>2. \A d \in Clients : cli[d] # "new" => cli'[d] # "new"
      BY <1>0, <3>1
    <3>3. cli'[c] # "new"
      BY <1>0, <3>1
    <3>4. \A i \in 1 .. Len(backlog') :
            backlog'[i] = c \/ (i \in 1 .. Len(backlog) /\ backlog'[i] = backlog[i])
      BY <1>0, <3>1, AppendProperties
    <3>5. \A i \in 1 .. Len(backlog) : backlog[i] \in Clients
      BY <1>0
    <3>6. serving # NoOne => serving \in Clients
      BY DEF TypeInv, ServingOK
    <3> QED
      BY <3>1, <3>2, <3>3, <3>4, <3>5, <3>6 DEF JoinedOK
  <2>2. CASE ~Connect(c)
    <3>1. cli' \in [Clients -> {"prompt", "data", "answer", "block", "left", "new"}]
          /\ (\A d \in Clients : cli[d] # "new" => cli'[d] # "new")
          /\ UNCHANGED <<serving, backlog>>
      BY <1>0, <1>4, <2>2 DEF ClientStep, Type, SendData, Answer, ShowBlock, Leave
    <3>2. \A i \in 1 .. Len(backlog) : backlog[i] \in Clients
      BY <1>0
    <3>3. serving # NoOne => serving \in Clients
      BY DEF TypeInv, ServingOK
    <3> QED
      BY <3>1, <3>2, <3>3 DEF JoinedOK
  <2> QED
    BY <2>1, <2>2
<1>5. CASE UNCHANGED vars
  BY <1>1, <1>5 DEF vars
<1> QED
  BY <1>2, <1>3, <1>4, <1>5 DEF Next

\* No byte comes after the end of a stream.
LEMMA EndedStays ==
  ASSUME TypeInv, JoinedOK, [Next]_vars, pc \notin {"accept", "dead"}, serving' = serving, Ended
  PROVE  Ended'
<1>0. /\ serving \in Clients /\ serving # NoOne /\ cli[serving] # "new"
      /\ peer \in [Clients -> PeerStates] /\ in \in [Clients -> Seq(Byte)]
      /\ in[serving] = <<>> /\ peer[serving] \in {"fin", "rst"}
  BY ServingIsClient, GeometryAssumption DEF JoinedOK, TypeInv, LinkOK, Ended
<1>1. SUFFICES in'[serving] = <<>> /\ peer'[serving] \in {"fin", "rst"}
  BY DEF Ended
<1>2. CASE Server
  <2>1. ~Received
    BY <1>0 DEF Received
  <2>2. CASE SkipSpace \/ TakeChar \/ WriteByte
    BY <2>1, <2>2 DEF SkipSpace, TakeChar, WriteByte
  <2>3. CASE EndWord \/ NoWord \/ AddWord \/ WriteStart \/ WriteFailed
    BY <1>0, <2>1, <2>3 DEF EndWord, NoWord, AddWord, WriteStart, WriteFailed
  <2>4. CASE Info \/ Unknown \/ ReadRefused \/ ReadLine \/ ReadBlock \/ WriteRefused \/ WriteEnd
    BY <1>0, <2>4
    DEF Info, Unknown, ReadRefused, ReadLine, ReadBlock, WriteRefused, WriteEnd, Send
  <2>5. CASE Accept
    BY <2>5 DEF Accept
  <2>6. CASE Close \/ BrokenPipe
    BY <1>0, <2>6, GeometryAssumption DEF Close, BrokenPipe
  <2> QED
    BY <1>2, <2>2, <2>3, <2>4, <2>5, <2>6 DEF Server, ServerStep
<1>3. CASE Start
  BY <1>3 DEF Start, Restart
<1>4. ASSUME NEW c \in Clients, ClientStep(c)
      PROVE  in'[serving] = <<>> /\ peer'[serving] \in {"fin", "rst"}
  <2>1. CASE Connect(c)
    BY <1>0, <2>1 DEF Connect
  <2>2. CASE Type(c)
    BY <1>0, <2>2 DEF Type, Deliver
  <2>3. CASE SendData(c)
    BY <1>0, <2>3 DEF SendData, Deliver
  <2>4. CASE Answer(c) \/ ShowBlock(c)
    BY <1>0, <2>4 DEF Answer, ShowBlock
  <2>5. CASE Leave(c)
    BY <1>0, <2>5 DEF Leave
  <2> QED
    BY <1>4, <2>1, <2>2, <2>3, <2>4, <2>5 DEF ClientStep
<1>5. CASE UNCHANGED vars
  BY <1>0, <1>5 DEF vars
<1> QED
  BY <1>2, <1>3, <1>4, <1>5 DEF Next

-----------------------------------------------------------------------------
\* The run of commands stays, whether or not a byte arrives.

LEMMA CompletesKept ==
  ASSUME seen' = seen, NEW m, NEW m2, Completes(m, m2)
  PROVE  Completes(m, m2)'
<1>1. \A s : Kept(s)' = Kept(s)
  BY DEF Kept
<1>2. PICK q, n : Command(m, q, n, m2)
  BY DEF Completes
<1>3. Spans(m.next, q, n)'
  BY <1>2 DEF Command, Spans, WordIn
<1>4. PICK w, p : w = Words(q, n) /\ p = q[n][2] + 2
  OBVIOUS
<1>5. Words(q, n)' = w
  BY <1>1, <1>4 DEF Words
<1>6. Effect(m, w, p)' = Effect(m, w, p)
  <2>1. \A block, size : Stored(block, p, size)' = Stored(block, p, size)
    BY DEF Stored
  <2> QED
    BY <2>1 DEF Effect
<1>7. Command(m, q, n, m2)'
  BY <1>1, <1>2, <1>3, <1>4, <1>5, <1>6 DEF Command
<1> QED
  BY <1>7 DEF Completes

\* The commands executed stay so while no byte arrives.
LEMMA ChainKept ==
  ASSUME UNCHANGED <<seen, base>>, Ended => Ended', NEW M, NEW k, Chain(M, k)
  PROVE  Chain(M, k)'
<1>1. ASSUME NEW i \in 1 .. k
      PROVE  Completes(M[i - 1], M[i])'
  <2>1. Completes(M[i - 1], M[i])
    BY DEF Chain
  <2>2. PICK x, y : x = M[i - 1] /\ y = M[i]
    OBVIOUS
  <2>3. Completes(x, y)'
    BY <2>1, <2>2, CompletesKept
  <2> QED
    BY <2>2, <2>3
<1>2. \A i \in 0 .. k : M[i].next \in Nat /\ i < M[i].next /\ Within(M[i].next)'
  BY DEF Chain, Within
<1> QED
  BY <1>1, <1>2 DEF Chain

\* They stay so when a byte more arrives.
LEMMA ChainStays ==
  ASSUME seen \in Seq(Byte), NEW b \in Byte, seen' = Append(seen, b), base' = base, ~Ended,
         NEW M, NEW k, Chain(M, k)
  PROVE  Chain(M, k)'
<1>1. Len(seen') = Len(seen) + 1 /\ Len(seen) \in Nat
  BY SeenGrows
<1>2. \A i \in 0 .. k : M[i].next \in Nat \ {0} /\ i < M[i].next /\ M[i].next <= Len(seen) + 1
  BY DEF Chain, Within
<1>3. ASSUME NEW i \in 1 .. k
      PROVE  Completes(M[i - 1], M[i])'
  <2>1. k \in Nat /\ Completes(M[i - 1], M[i])
    BY DEF Chain
  <2>2. i - 1 \in 0 .. k /\ i \in 0 .. k
    BY <2>1
  <2>3. PICK x, y : x = M[i - 1] /\ y = M[i]
    OBVIOUS
  <2>4. x.next \in Nat \ {0} /\ y.next <= Len(seen) + 1 /\ Completes(x, y)
    BY <1>2, <2>1, <2>2, <2>3
  <2>5. Completes(x, y)'
    BY <2>4, CompletesStays
  <2> QED
    BY <2>3, <2>5
<1>4. \A i \in 0 .. k : Within(M[i].next)'
  BY <1>1, <1>2 DEF Within
<1> QED
  BY <1>1, <1>2, <1>3, <1>4 DEF Chain

\* One command more.
RunsTo(j, m) == \E M : Chain(M, j) /\ M[j] = m
LEMMA ChainExtends ==
  ASSUME seen \in Seq(Byte), NEW M, NEW k, Chain(M, k),
         NEW q, NEW n, NEW m, m = M[k], NEW m2, Command(m, q, n, m2), Within(m2.next),
         NEW j, j = k + 1
  PROVE  RunsTo(j, m2)
<1> DEFINE N == [i \in 0 .. k + 1 |-> IF i <= k THEN M[i] ELSE m2]
<1>1. /\ k \in Nat /\ k <= Len(seen)
      /\ M[0] = [next |-> 1, disk |-> base, log |-> <<>>]
      /\ \A i \in 0 .. k : M[i].next \in Nat /\ i < M[i].next /\ Within(M[i].next)
      /\ \A i \in 1 .. k : Completes(M[i - 1], M[i])
  BY DEF Chain
<1>0. Command(M[k], q, n, m2)
  OBVIOUS
<1>2. /\ n \in 1 .. 4 /\ Spans(M[k].next, q, n)
      /\ m2 = Effect(M[k], Words(q, n), q[n][2] + 2)
  BY <1>0 DEF Command
<1>3. n \in Nat /\ n \in 1 .. n /\ 1 \in 1 .. n /\ k \in 0 .. k
  BY <1>1, <1>2
<1>4. M[k].next \in Nat \ {0} /\ k < M[k].next
  BY <1>1, <1>3
<1>5. /\ q[1] \in Nat \X Nat /\ q[n] \in Nat \X Nat
      /\ M[k].next <= q[1][1] /\ q[1][1] <= q[1][2] /\ q[1][2] <= Len(seen)
  BY <1>2, <1>3, <1>4, SpanBounds DEF From
<1>6. M[k].next <= q[n][2]
  <2>1. PICK p \in Nat : p = M[k].next
    BY <1>4
  <2>2. PICK z : z = [i \in 1 .. n |-> q[i][2]]
    OBVIOUS
  <2>3. /\ \A i \in 1 .. n : z[i] \in Nat
        /\ \A i \in 1 .. n : i # 1 => z[i - 1] + 2 <= z[i]
        /\ p <= z[1]
    <3>1. ASSUME NEW i \in 1 .. n
          PROVE  z[i] \in Nat /\ (i # 1 => z[i - 1] + 2 <= z[i])
      <4>1. /\ q[i] \in Nat \X Nat /\ From(M[k].next, q, i) <= q[i][1]
            /\ q[i][1] <= q[i][2] /\ From(M[k].next, q, i) \in Nat
        BY <1>2, <1>3, <1>4, SpanBounds
      <4>2. i # 1 => i - 1 \in 1 .. n /\ From(M[k].next, q, i) = z[i - 1] + 2
        BY <1>3, <2>2 DEF From
      <4>3. z[i] = q[i][2] /\ q[i][1] \in Nat /\ q[i][2] \in Nat
        BY <2>2, <4>1
      <4>4. PICK f \in Nat, a \in Nat : f = From(M[k].next, q, i) /\ a = q[i][1]
        BY <4>1, <4>3
      <4>5. f <= a /\ a <= z[i] /\ z[i] \in Nat
        BY <4>1, <4>3, <4>4
      <4> QED
        BY <4>2, <4>4, <4>5
    <3>2. p <= z[1]
      <4>1. PICK a \in Nat : a = q[1][1]
        BY <1>5
      <4>2. p <= a /\ a <= z[1] /\ z[1] \in Nat
        BY <1>3, <1>5, <2>1, <2>2, <4>1
      <4> QED
        BY <4>2
    <3> QED
      BY <3>1, <3>2
  <2>4. p <= z[n]
    <3>1. n \in {1, 2, 3, 4}
      BY <1>2
    <3>2. n >= 2 => z[1] + 2 <= z[2] /\ z[1] \in Nat /\ z[2] \in Nat
      <4>1. ASSUME n >= 2
            PROVE  1 \in 1 .. n /\ 2 \in 1 .. n /\ 2 - 1 = 1
        BY <1>3, <4>1
      <4> QED
        BY <2>3, <4>1
    <3>3. n >= 3 => z[2] + 2 <= z[3] /\ z[3] \in Nat
      <4>1. ASSUME n >= 3
            PROVE  3 \in 1 .. n /\ 3 - 1 = 2
        BY <1>3, <4>1
      <4> QED
        BY <2>3, <4>1
    <3>4. n >= 4 => z[3] + 2 <= z[4] /\ z[4] \in Nat
      <4>1. ASSUME n >= 4
            PROVE  4 \in 1 .. n /\ 4 - 1 = 3
        BY <1>3, <4>1
      <4> QED
        BY <2>3, <4>1
    <3>5. z[1] \in Nat
      BY <1>3, <2>3
    <3>6. p <= z[1]
      BY <2>3
    <3>7. CASE n = 1
      BY <3>6, <3>7
    <3>8. CASE n = 2
      BY <3>2, <3>5, <3>6, <3>8
    <3>9. CASE n = 3
      BY <3>2, <3>3, <3>5, <3>6, <3>9
    <3>10. CASE n = 4
      BY <3>2, <3>3, <3>4, <3>5, <3>6, <3>10
    <3> QED
      BY <3>1, <3>7, <3>8, <3>9, <3>10
  <2> QED
    BY <1>3, <2>1, <2>2, <2>4
<1>7. k + 1 <= Len(seen)
  BY <1>1, <1>4, <1>5
<1>8. m2.next \in Nat /\ k + 1 < m2.next
  <2>1. PICK z \in Nat : z = q[n][2]
    BY <1>5
  <2>2. m2.next \in Nat /\ z + 2 <= m2.next
    BY <1>2, <2>1, EffectNext
  <2> QED
    BY <1>1, <1>4, <1>6, <2>1, <2>2
<1>9. Completes(M[k], m2)
  BY <1>0 DEF Completes
<1>10. \A i \in 0 .. k + 1 : N[i].next \in Nat /\ i < N[i].next /\ Within(N[i].next)
  BY <1>1, <1>8
<1>11. \A i \in 1 .. k + 1 : Completes(N[i - 1], N[i])
  <2>1. ASSUME NEW i \in 1 .. k + 1
        PROVE  Completes(N[i - 1], N[i])
    <3>1. CASE i \in 1 .. k
      <4>1. N[i] = M[i] /\ N[i - 1] = M[i - 1]
        BY <1>1, <3>1
      <4> QED
        BY <1>1, <3>1, <4>1
    <3>2. CASE i = k + 1
      <4>1. N[i] = m2 /\ N[i - 1] = M[k]
        BY <1>1, <3>2
      <4> QED
        BY <1>9, <4>1
    <3> QED
      BY <1>1, <3>1, <3>2
  <2> QED
    BY <2>1
<1>12. N[0] = M[0] /\ N[k + 1] = m2
  BY <1>1
<1> HIDE DEF N
<1>13. Chain(N, k + 1)
  <2>1. k + 1 \in Nat
    BY <1>1
  <2> QED
    BY <1>1, <1>7, <1>10, <1>11, <1>12, <2>1 DEF Chain
<1> QED
  BY <1>12, <1>13 DEF RunsTo

\* Pieces of a sequence that takes one element more.
LEMMA PieceStays ==
  ASSUME NEW S, NEW s \in Seq(S), NEW b \in S, NEW a \in 1 .. Len(s), NEW e \in 1 .. Len(s)
  PROVE  SubSeq(Append(s, b), a, e) = SubSeq(s, a, e)
<1>1. <<b>> \in Seq(S) /\ Append(s, b) = s \o <<b>>
  BY AppendIsConcat
<1> QED
  BY <1>1, SubSeqOfConcat1

\* A piece that reaches the end grows with the sequence.
LEMMA PieceGrows ==
  ASSUME NEW S, NEW s \in Seq(S), NEW b \in S, NEW a \in 1 .. Len(s)
  PROVE  SubSeq(Append(s, b), a, Len(s) + 1) = Append(SubSeq(s, a, Len(s)), b)
<1>1. PICK n \in Nat : n = Len(s)
  OBVIOUS
<1>2. PICK t : t = Append(s, b)
  OBVIOUS
<1>3. t \in Seq(S) /\ Len(t) = n + 1 /\ t[n + 1] = b
  BY <1>1, <1>2, AppendProperties
<1>4. a \in 1 .. Len(t) /\ n + 1 \in a .. Len(t) /\ (n + 1) - 1 = n
  BY <1>1, <1>3
<1>5. SubSeq(t, a, n + 1) = SubSeq(t, a, n) \o <<b>>
  BY <1>3, <1>4, SubSeqRecursiveSecond
<1>6. SubSeq(t, a, n) = SubSeq(s, a, n)
  <2>1. n \in 1 .. Len(s)
    BY <1>1
  <2> QED
    BY <1>2, <2>1, PieceStays
<1>7. SubSeq(s, a, n) \in Seq(S)
  <2>1. \A i \in a .. n : s[i] \in S
    BY <1>1
  <2> QED
    BY <1>1, <2>1, SubSeqProperties
<1>8. Append(SubSeq(s, a, n), b) = SubSeq(s, a, n) \o <<b>>
  BY <1>7, AppendIsConcat
<1> QED
  BY <1>1, <1>2, <1>5, <1>6, <1>8

\* The piece that is only the new element.
LEMMA PieceOfOne ==
  ASSUME NEW S, NEW s \in Seq(S), NEW b \in S
  PROVE  SubSeq(Append(s, b), Len(s) + 1, Len(s) + 1) = <<b>>
<1>1. PICK n \in Nat : n = Len(s)
  OBVIOUS
<1>2. PICK t : t = Append(s, b)
  OBVIOUS
<1>3. t \in Seq(S) /\ Len(t) = n + 1 /\ t[n + 1] = b
  BY <1>1, <1>2, AppendProperties
<1>4. PICK L \in Nat : L = n + 1
  OBVIOUS
<1>5. L \in 1 .. Len(t) /\ L \in L .. Len(t) /\ L - 1 < L /\ L - 1 \in Int
  BY <1>3, <1>4
<1>6. SubSeq(t, L, L) = SubSeq(t, L, L - 1) \o <<t[L]>>
  BY <1>3, <1>5, SubSeqRecursiveSecond
<1>7. SubSeq(t, L, L - 1) = <<>>
  BY <1>5, SubSeqEmpty
<1>8. <<>> \o <<b>> = <<b>>
  OBVIOUS
<1> QED
  BY <1>1, <1>2, <1>3, <1>4, <1>6, <1>7, <1>8

\* The length of a piece.
LEMMA PieceLen ==
  ASSUME NEW S, NEW s \in Seq(S), NEW a \in 1 .. Len(s), NEW e \in a .. Len(s)
  PROVE  SubSeq(s, a, e) \in Seq(S) /\ Len(SubSeq(s, a, e)) = e - a + 1
<1>1. \A i \in a .. e : s[i] \in S
  OBVIOUS
<1>2. a \in Int /\ e \in Int /\ a <= e
  OBVIOUS
<1> QED
  BY <1>1, <1>2, SubSeqProperties

\* What is kept of a word, in this state and in the next.
KeptTo(a, z) == IF z - a < MaxTok THEN z ELSE a + MaxTok - 1
\* Kept is a piece of the stream that begins at a.
LEMMA KeptIs ==
  ASSUME NEW a, NEW z
  PROVE  /\ Kept(<<a, z>>) = SubSeq(seen, a, KeptTo(a, z))
         /\ Kept(<<a, z>>)' = SubSeq(seen', a, KeptTo(a, z))
<1>1. PICK s : s = <<a, z>>
  OBVIOUS
<1>2. Kept(s) = SubSeq(seen, s[1], KeptTo(s[1], s[2]))
  BY DEF Kept, KeptTo
<1>3. Kept(s)' = SubSeq(seen', s[1], KeptTo(s[1], s[2]))
  BY DEF Kept, KeptTo
<1>4. s[1] = a /\ s[2] = z
  BY <1>1
<1> QED
  BY <1>1, <1>2, <1>3, <1>4

\* The piece that is kept grows with the word until the token is full.
LEMMA KeptToIs ==
  ASSUME NEW a \in Nat \ {0}, NEW L \in Nat, a <= L
  PROVE  /\ KeptTo(a, L) \in a .. L /\ KeptTo(a, L + 1) \in a .. L + 1
         /\ \/ /\ KeptTo(a, L) = L /\ KeptTo(a, L + 1) = L + 1
               /\ L - a + 1 < MaxTok
            \/ /\ KeptTo(a, L + 1) = KeptTo(a, L)
               /\ KeptTo(a, L) - a + 1 = MaxTok
         /\ KeptTo(L + 1, L + 1) = L + 1
<1>1. PICK T \in Nat \ {0} : T = MaxTok
  BY GeometryAssumption
<1>2. \A x, z : KeptTo(x, z) = IF z - x < T THEN z ELSE x + T - 1
  BY <1>1 DEF KeptTo
<1>3. KeptTo(L + 1, L + 1) = L + 1
  <2>1. (L + 1) - (L + 1) < T
    OBVIOUS
  <2> QED
    BY <1>2, <2>1
<1>4. CASE L - a + 1 < T
  <2>1. L - a < T /\ (L + 1) - a < T
    BY <1>4
  <2>2. KeptTo(a, L) = L /\ KeptTo(a, L + 1) = L + 1
    BY <1>2, <2>1
  <2>3. L \in a .. L /\ L + 1 \in a .. L + 1
    OBVIOUS
  <2> QED
    BY <1>1, <1>3, <1>4, <2>2, <2>3
<1>5. CASE ~(L - a + 1 < T)
  <2>1. ~((L + 1) - a < T)
    BY <1>5
  <2>2. KeptTo(a, L + 1) = a + T - 1
    BY <1>2, <2>1
  <2>3. KeptTo(a, L) = a + T - 1
    <3>1. CASE L - a < T
      <4>1. KeptTo(a, L) = L
        BY <1>2, <3>1
      <4>2. L = a + T - 1
        BY <1>5, <3>1
      <4> QED
        BY <4>1, <4>2
    <3>2. CASE ~(L - a < T)
      BY <1>2, <3>2
    <3> QED
      BY <3>1, <3>2
  <2>4. a + T - 1 \in a .. L /\ a + T - 1 \in a .. L + 1 /\ (a + T - 1) - a + 1 = T
    BY <1>5
  <2> QED
    BY <1>1, <1>3, <2>2, <2>3, <2>4
<1> QED
  BY <1>4, <1>5

\* A word that may go on takes a byte more, of which no more than MaxTok are kept.
LEMMA KeptGrows ==
  ASSUME seen \in Seq(Byte), NEW b \in Byte, seen' = Append(seen, b),
         NEW L \in Nat, L = Len(seen), NEW a \in Nat \ {0}, a <= L,
         NEW t, t = Kept(<<a, L>>)
  PROVE  Kept(<<a, L + 1>>)' = IF Len(t) < MaxTok THEN Append(t, b) ELSE t
<1>1. L = Len(seen)
  OBVIOUS
<1>2. a \in 1 .. L /\ a <= L
  BY <1>1
<1>3. PICK e \in a .. L : e = KeptTo(a, L)
  BY <1>2, KeptToIs
<1>4. t = SubSeq(seen, a, e)
  BY <1>1, <1>3, KeptIs
<1>5. Len(t) = e - a + 1
  BY <1>1, <1>2, <1>4, PieceLen
<1>6. Kept(<<a, L + 1>>)' = SubSeq(seen', a, KeptTo(a, L + 1))
  BY KeptIs
<1>7. CASE e = L /\ KeptTo(a, L + 1) = L + 1 /\ L - a + 1 < MaxTok
  <2>1. SubSeq(seen', a, L + 1) = Append(t, b)
    <3>1. a \in 1 .. Len(seen)
      BY <1>1, <1>2
    <3>2. SubSeq(Append(seen, b), a, Len(seen) + 1) = Append(SubSeq(seen, a, Len(seen)), b)
      BY <3>1, PieceGrows
    <3> QED
      BY <1>1, <1>4, <1>7, <3>2
  <2>2. Len(t) < MaxTok
    <3>1. Len(t) = L - a + 1
      BY <1>5, <1>7
    <3> QED
      BY <1>7, <3>1
  <2> QED
    BY <1>1, <1>6, <1>7, <2>1, <2>2
<1>8. CASE KeptTo(a, L + 1) = e /\ e - a + 1 = MaxTok
  <2>1. e \in 1 .. Len(seen)
    BY <1>1, <1>2
  <2>2. SubSeq(seen', a, e) = t
    BY <1>1, <1>2, <1>4, <2>1, PieceStays
  <2>3. ~(Len(t) < MaxTok)
    BY <1>5, <1>8, GeometryAssumption
  <2> QED
    BY <1>1, <1>6, <1>8, <2>2, <2>3
<1> QED
  BY <1>2, <1>3, <1>7, <1>8, KeptToIs

\* The first byte of a word.
LEMMA KeptBegins ==
  ASSUME seen \in Seq(Byte), NEW b \in Byte, seen' = Append(seen, b),
         NEW L \in Nat, L = Len(seen)
  PROVE  Kept(<<L + 1, L + 1>>)' = <<b>>
<1>1. L = Len(seen)
  OBVIOUS
<1>2. 1 \in Nat \ {0} /\ L + 1 \in Nat \ {0} /\ L + 1 <= L + 1
  OBVIOUS
<1>3. KeptTo(L + 1, L + 1) = L + 1
  <2>1. L + 1 - (L + 1) < MaxTok
    BY GeometryAssumption
  <2> QED
    BY <2>1 DEF KeptTo
<1>4. Kept(<<L + 1, L + 1>>)' = SubSeq(seen', L + 1, L + 1)
  <2>1. PICK x : x = L + 1
    OBVIOUS
  <2>2. Kept(<<x, x>>)' = SubSeq(seen', x, KeptTo(x, x))
    BY KeptIs
  <2> QED
    BY <1>3, <2>1, <2>2
<1>5. SubSeq(Append(seen, b), Len(seen) + 1, Len(seen) + 1) = <<b>>
  BY PieceOfOne
<1> QED
  BY <1>1, <1>4, <1>5

-----------------------------------------------------------------------------
\* Where the server is in the stream.  After the commands whose result is m it
\* has read the words of the command at m.next, and it reads on at Pos.

Reading(m, q) ==
  /\ Spans(m.next, q, Len(words))
  /\ \A i \in 1 .. Len(words) : words[i] = Kept(q[i])
\* Where the next word is looked for.
Pos(m, q) == From(m.next, q, Len(words) + 1)

\* Where the server can be after the command m: looking for a word, or in one,
InToken(m, q) ==
  /\ disk = m.disk /\ log = m.log /\ Within(Pos(m, q))
  /\ tok = <<>> => Blank(Pos(m, q))
  /\ tok # <<>> => \E a, z : /\ z = Len(seen) /\ WordIn(Pos(m, q), a, z)
                             /\ tok = Kept(<<a, z>>)
\* with a word and the space that closed it,
InWord(m, q) ==
  /\ disk = m.disk /\ log = m.log
  /\ \E a, z : /\ WordIn(Pos(m, q), a, z) /\ tok = Kept(<<a, z>>)
               /\ Len(seen) <= z + 1 /\ Within(z + 2)
\* with all the words of a command,
InExecute(m, q) ==
  /\ disk = m.disk /\ log = m.log
  /\ tok = <<>> /\ words # <<>> /\ Len(words) = WordsOf(words[1])
  /\ Len(seen) < Pos(m, q) /\ Within(Pos(m, q))
\* between the two sends of a read,
InBlock(m, q) ==
  /\ disk = m.disk /\ m.log \in Seq(Symbol) /\ log = m.log \o <<"read_ok">>
  /\ tok = <<>> /\ words[1] = <<"R">> /\ Len(words) = 3
  /\ Len(seen) < Pos(m, q) /\ Within(Pos(m, q))
\* The first d bytes of a write that begins at position p are in the block.
Filled(m, w, p, d) ==
  [m.disk EXCEPT ![BlockIdx(w)] =
     [i \in 1 .. BlockSize |-> IF i <= d THEN seen[p + i - 1] ELSE @[i]]]
\* or in the data of a write.
InData(m, q) ==
  /\ log = m.log /\ m.disk \in Disks
  /\ tok = <<>> /\ words[1] = <<"W">> /\ Len(words) = 4
  /\ Len(seen) < Pos(m, q) + done /\ Within(Pos(m, q) + done)
  /\ done # 0 => Pos(m, q) + done = Len(seen) + 1
  /\ disk = Filled(m, words, Pos(m, q), done)

\* The states of the server that handles a connection.
Executing == {"token", "word", "execute", "block", "data"}
\* The server has executed k commands, and is in the next one.
StreamAt(M, k, q) ==
  /\ Chain(M, k) /\ Reading(M[k], q)
  /\ pc = "token" => InToken(M[k], q)
  /\ pc = "word" => InWord(M[k], q)
  /\ pc = "execute" => InExecute(M[k], q)
  /\ pc = "block" => InBlock(M[k], q)
  /\ pc = "data" => InData(M[k], q)
\* The inductive invariant behind ExecutesStream.
StreamInv == pc \in Executing => \E M, k, q : StreamAt(M, k, q)

\* The commands that were executed end at a position of the stream.
LEMMA ChainEnd ==
  ASSUME NEW M, NEW k, Chain(M, k)
  PROVE  M[k].next \in Nat \ {0}
<1>1. k \in 0 .. k
  BY DEF Chain
<1> QED
  BY <1>1 DEF Chain

\* The words of a command are a sequence of tokens.
LEMMA WordsIsSeq ==
  ASSUME TypeInv
  PROVE  Len(words) \in Nat /\ words \in Seq(Seq(Byte))
  BY DEF TypeInv, CommandOK

\* The next word is looked for at a position of the stream.
LEMMA PosIsNat ==
  ASSUME TypeInv, NEW m, m.next \in Nat \ {0}, NEW q, Reading(m, q)
  PROVE  Pos(m, q) \in Nat \ {0}
<1>1. Len(words) \in Nat /\ Len(words) + 1 \in 1 .. Len(words) + 1
  BY WordsIsSeq
<1>2. q \in [1 .. Len(words) -> Nat \X Nat]
  BY DEF Reading, Spans
<1> QED
  BY <1>1, <1>2, FromIsNat DEF Pos

\* What was read stays, when no byte arrives and when one does.
LEMMA ReadingKept ==
  ASSUME UNCHANGED <<seen, words>>, NEW m, NEW q, Reading(m, q)
  PROVE  Reading(m, q)' /\ Pos(m, q)' = Pos(m, q)
<1>1. Pos(m, q)' = Pos(m, q)
  BY DEF Pos, From
<1>2. Spans(m.next, q, Len(words))'
  BY DEF Reading, Spans, WordIn
<1>3. \A i \in 1 .. Len(words) : Kept(q[i])' = Kept(q[i])
  BY DEF Kept
<1> QED
  BY <1>1, <1>2, <1>3 DEF Reading

\* The same, when a byte more arrives.
LEMMA ReadingStays ==
  ASSUME TypeInv, seen \in Seq(Byte), NEW b \in Byte, seen' = Append(seen, b), words' = words,
         NEW m, m.next \in Nat \ {0}, NEW q, Reading(m, q), Pos(m, q) <= Len(seen) + 1
  PROVE  Reading(m, q)' /\ Pos(m, q)' = Pos(m, q)
<1>1. PICK n \in Nat : n = Len(words)
  BY WordsIsSeq
<1>2. Spans(m.next, q, n) /\ \A i \in 1 .. n : words[i] = Kept(q[i])
  BY <1>1 DEF Reading
<1>3. n # 0 => q[n][2] < Len(seen)
  <2>1. SUFFICES ASSUME n # 0 PROVE q[n][2] < Len(seen)
    OBVIOUS
  <2>2. n \in 1 .. n /\ n + 1 # 1 /\ (n + 1) - 1 = n
    BY <2>1
  <2>3. Pos(m, q) = q[n][2] + 2
    BY <1>1, <2>2 DEF Pos, From
  <2>4. q[n] \in Nat \X Nat
    BY <1>2, <2>2, SpanBounds
  <2>5. PICK z \in Nat : z = q[n][2]
    BY <2>4
  <2>6. z + 2 <= Len(seen) + 1 /\ Len(seen) \in Nat
    BY <2>3, <2>5
  <2> QED
    BY <2>5, <2>6
<1>4. Spans(m.next, q, n)' /\ \A i \in 1 .. n : Kept(q[i])' = Kept(q[i])
  BY <1>2, <1>3, SpansStay
<1>5. Pos(m, q)' = Pos(m, q)
  BY DEF Pos, From
<1> QED
  BY <1>1, <1>2, <1>4, <1>5 DEF Reading

\* A byte that is received is the next of the stream, and it had not ended.
LEMMA ByteComes ==
  ASSUME TypeInv, HistoryOK, pc \notin {"accept", "dead"}, Received, Consume
  PROVE  /\ NextByte \in Byte /\ seen' = Append(seen, NextByte) /\ ~Ended
         /\ seen \in Seq(Byte) /\ Len(seen) \in Nat
         /\ Len(seen') = Len(seen) + 1 /\ seen'[Len(seen) + 1] = NextByte
         /\ \A i \in 1 .. Len(seen) : seen'[i] = seen[i]
<1>1. NextByte \in Byte
  BY ConsumeOK
<1>2. seen' = Append(seen, NextByte)
  BY DEF Consume
<1>3. ~Ended
  BY DEF Received, Ended
<1>4. seen \in Seq(Byte)
  BY DEF HistoryOK
<1> HIDE DEF NextByte
<1> QED
  BY <1>1, <1>2, <1>3, <1>4, SeenGrows

-----------------------------------------------------------------------------
\* The steps of the server.

LEMMA AcceptStream ==
  ASSUME Accept
  PROVE  StreamInv'
<1>1. PICK d : d = disk
  OBVIOUS
<1> DEFINE m == [next |-> 1, disk |-> d, log |-> <<>>]
           M == [i \in {0} |-> m]
<1>2. /\ pc' = "token" /\ tok' = <<>> /\ words' = <<>> /\ Len(words') = 0
      /\ seen' = <<>> /\ Len(seen') = 0 /\ log' = <<>> /\ base' = d /\ disk' = d
  BY <1>1 DEF Accept
<1>3. M[0] = m /\ m.next = 1 /\ m.disk = d /\ m.log = <<>>
  OBVIOUS
<1> HIDE DEF M, m
<1>4. Within(1)'
  BY <1>2 DEF Within
<1>5. Chain(M, 0)'
  BY <1>2, <1>3, <1>4 DEF Chain, m
<1>6. Reading(m, <<>>)'
  <2>1. <<>> \in [1 .. 0 -> Nat \X Nat]
    OBVIOUS
  <2> QED
    BY <1>2, <2>1 DEF Reading, Spans
<1>7. Pos(m, <<>>)' = 1
  BY <1>2, <1>3 DEF Pos, From
<1>8. Blank(1)'
  BY <1>2 DEF Blank
<1>9. InToken(m, <<>>)'
  BY <1>2, <1>3, <1>4, <1>7, <1>8 DEF InToken, Blank, Within
<1>10. StreamAt(M, 0, <<>>)'
  BY <1>2, <1>3, <1>5, <1>6, <1>9 DEF StreamAt
<1> QED
  BY <1>10 DEF StreamInv

\* A space before a word is skipped.
LEMMA SkipSpaceStream ==
  ASSUME TypeInv, HistoryOK, SkipSpace, NEW M, NEW k, NEW q, StreamAt(M, k, q)
  PROVE  StreamInv'
<1>1. PICK m : m = M[k]
  OBVIOUS
<1>2. /\ pc = "token" /\ tok = <<>> /\ Received /\ Consume /\ NextByte = Space
      /\ UNCHANGED <<disk, pc, tok, words, log, base>>
  BY DEF SkipSpace
<1>3. Chain(M, k) /\ Reading(m, q) /\ InToken(m, q) /\ m.next \in Nat \ {0}
  BY <1>1, <1>2, ChainEnd DEF StreamAt
<1>4. PICK b : b = NextByte
  OBVIOUS
<1>5. /\ b \in Byte /\ b = Space /\ seen' = Append(seen, b) /\ ~Ended
      /\ seen \in Seq(Byte) /\ Len(seen) \in Nat
      /\ Len(seen') = Len(seen) + 1 /\ seen'[Len(seen) + 1] = b
      /\ \A i \in 1 .. Len(seen) : seen'[i] = seen[i]
  BY <1>2, <1>4, ByteComes
<1>6. PICK p \in Nat \ {0} : p = Pos(m, q)
  BY <1>3, PosIsNat
<1>7. p <= Len(seen) + 1 /\ Blank(p) /\ disk = m.disk /\ log = m.log
  BY <1>2, <1>3, <1>5, <1>6 DEF InToken, Within
<1>8. Chain(M, k)'
  BY <1>2, <1>3, <1>5, ChainStays
<1>9. Reading(m, q)' /\ Pos(m, q)' = p
  BY <1>2, <1>3, <1>5, <1>6, <1>7, ReadingStays
<1>10. Blank(p)' /\ Within(p)'
  <2>1. ASSUME NEW i \in p .. Len(seen')
        PROVE  seen'[i] = Space
    <3>1. CASE i = Len(seen) + 1
      BY <1>5, <3>1
    <3>2. CASE i # Len(seen) + 1
      <4>1. i \in p .. Len(seen) /\ i \in 1 .. Len(seen)
        BY <1>5, <3>2
      <4> QED
        BY <1>5, <1>7, <4>1 DEF Blank
    <3> QED
      BY <3>1, <3>2
  <2>2. p <= Len(seen') + 1
    BY <1>5, <1>7
  <2> QED
    BY <2>1, <2>2 DEF Blank, Within
<1>11. InToken(m, q)'
  BY <1>2, <1>7, <1>9, <1>10 DEF InToken, Blank, Within
<1>12. StreamAt(M, k, q)'
  BY <1>1, <1>2, <1>8, <1>9, <1>11 DEF StreamAt
<1> QED
  BY <1>12 DEF StreamInv

\* A character is a word's next, and is kept while it fits.
LEMMA TakeCharStream ==
  ASSUME TypeInv, HistoryOK, TakeChar, NEW M, NEW k, NEW q, StreamAt(M, k, q)
  PROVE  StreamInv'
<1>1. PICK m : m = M[k]
  OBVIOUS
<1>2. /\ pc = "token" /\ Received /\ Consume /\ NextByte # Space
      /\ UNCHANGED <<disk, pc, words, log, base>>
  BY DEF TakeChar
<1>3. Chain(M, k) /\ Reading(m, q) /\ InToken(m, q) /\ m.next \in Nat \ {0}
  BY <1>1, <1>2, ChainEnd DEF StreamAt
<1>4. PICK b : b = NextByte
  OBVIOUS
<1>5. /\ b \in Byte /\ b # Space /\ seen' = Append(seen, b) /\ ~Ended
      /\ seen \in Seq(Byte) /\ Len(seen) \in Nat
      /\ Len(seen') = Len(seen) + 1 /\ seen'[Len(seen) + 1] = b
      /\ \A i \in 1 .. Len(seen) : seen'[i] = seen[i]
  BY <1>2, <1>4, ByteComes
<1>6. PICK p \in Nat \ {0} : p = Pos(m, q)
  BY <1>3, PosIsNat
<1>7. PICK L \in Nat : L = Len(seen)
  BY <1>5
<1>8. /\ p <= L + 1 /\ disk = m.disk /\ log = m.log
      /\ tok = <<>> => Blank(p)
      /\ tok # <<>> => \E a, z : z = L /\ WordIn(p, a, z) /\ tok = Kept(<<a, z>>)
  BY <1>3, <1>5, <1>6, <1>7 DEF InToken, Within
<1>9. Chain(M, k)'
  BY <1>2, <1>3, <1>5, ChainStays
<1>10. Reading(m, q)' /\ Pos(m, q)' = p
  BY <1>2, <1>3, <1>5, <1>6, <1>7, <1>8, ReadingStays
<1>11. tok' = IF Len(tok) < MaxTok THEN Append(tok, b) ELSE tok
  BY <1>4 DEF TakeChar
<1>12. tok \in Seq(Byte) /\ MaxTok \in Nat \ {0}
  BY GeometryAssumption DEF TypeInv, CommandOK
<1>13. tok' # <<>> /\ \E a : WordIn(p, a, L + 1)' /\ tok' = Kept(<<a, L + 1>>)'
  <2>1. CASE tok = <<>>
    <3>1. Len(tok) = 0 /\ tok' = <<b>>
      BY <1>11, <1>12, <2>1
    <3>2. Kept(<<L + 1, L + 1>>)' = <<b>>
      BY <1>5, <1>7, KeptBegins
    <3>3. WordIn(p, L + 1, L + 1)'
      <4>1. \A i \in p .. (L + 1) - 1 : seen'[i] = Space
        <5>1. ASSUME NEW i \in p .. (L + 1) - 1
              PROVE  seen'[i] = Space
          <6>1. i \in p .. Len(seen) /\ i \in 1 .. Len(seen)
            BY <1>7
          <6>2. seen[i] = Space
            BY <1>8, <2>1, <6>1 DEF Blank
          <6> QED
            BY <1>5, <6>1, <6>2
        <5> QED
          BY <5>1
      <4>2. \A i \in L + 1 .. L + 1 : seen'[i] # Space
        BY <1>5, <1>7
      <4>3. L + 1 \in Nat /\ p <= L + 1 /\ ~(L + 1 < Len(seen')) /\ L + 1 <= Len(seen')
        BY <1>5, <1>7, <1>8
      <4> QED
        BY <4>1, <4>2, <4>3 DEF WordIn
    <3> QED
      BY <3>1, <3>2, <3>3
  <2>2. CASE tok # <<>>
    <3>1. PICK a : WordIn(p, a, L) /\ tok = Kept(<<a, L>>)
      BY <1>8, <2>2
    <3>2. /\ a \in Nat /\ p <= a /\ a <= L
          /\ \A i \in p .. a - 1 : seen[i] = Space
          /\ \A i \in a .. L : seen[i] # Space
      BY <3>1 DEF WordIn
    <3>3. Kept(<<a, L + 1>>)' = IF Len(tok) < MaxTok THEN Append(tok, b) ELSE tok
      <4>1. a \in Nat \ {0}
        BY <3>2
      <4> QED
        BY <1>5, <1>7, <3>1, <3>2, <4>1, KeptGrows
    <3>4. WordIn(p, a, L + 1)'
      <4>1. \A i \in p .. a - 1 : seen'[i] = Space
        BY <1>5, <1>7, <3>2
      <4>2. \A i \in a .. L + 1 : seen'[i] # Space
        BY <1>5, <1>7, <3>2
      <4>3. L + 1 \in Nat /\ a <= L + 1 /\ ~(L + 1 < Len(seen')) /\ L + 1 <= Len(seen')
        BY <1>5, <1>7, <3>2
      <4> QED
        BY <3>2, <4>1, <4>2, <4>3 DEF WordIn
    <3>5. Append(tok, b) # <<>>
      BY <1>5, <1>12, AppendProperties
    <3>6. tok' # <<>>
      BY <1>11, <2>2, <3>5
    <3> QED
      BY <1>11, <3>3, <3>4, <3>6
  <2> QED
    BY <2>1, <2>2
<1>14. PICK a, z : z = Len(seen') /\ WordIn(p, a, z)' /\ tok' = Kept(<<a, z>>)'
  <2>1. PICK a : WordIn(p, a, L + 1)' /\ tok' = Kept(<<a, L + 1>>)'
    BY <1>13
  <2>2. PICK z : z = L + 1
    OBVIOUS
  <2> QED
    BY <1>5, <1>7, <2>1, <2>2
<1>15. InToken(m, q)'
  <2>1. Within(p)'
    BY <1>5, <1>7, <1>8 DEF Within
  <2>2. WordIn(Pos(m, q), a, z)'
    BY <1>10, <1>14 DEF WordIn
  <2>3. Within(Pos(m, q))'
    BY <1>10, <2>1 DEF Within
  <2> QED
    BY <1>2, <1>8, <1>13, <1>14, <2>2, <2>3 DEF InToken
<1>16. StreamAt(M, k, q)'
  BY <1>1, <1>2, <1>9, <1>10, <1>15 DEF StreamAt
<1> QED
  BY <1>16 DEF StreamInv

\* A space, or the end of the stream, closes a word.
LEMMA EndWordStream ==
  ASSUME TypeInv, HistoryOK, EndWord, Ended => Ended', NEW M, NEW k, NEW q, StreamAt(M, k, q)
  PROVE  StreamInv'
<1>1. PICK m : m = M[k]
  OBVIOUS
<1>2. /\ pc = "token" /\ pc' = "word" /\ tok # <<>>
      /\ UNCHANGED <<disk, tok, words, log, base>>
      /\ \/ Received /\ NextByte = Space /\ Consume
         \/ EndOfStream /\ UNCHANGED <<in, seen>>
  BY DEF EndWord
<1>3. Chain(M, k) /\ Reading(m, q) /\ InToken(m, q) /\ m.next \in Nat \ {0}
  BY <1>1, <1>2, ChainEnd DEF StreamAt
<1>4. PICK p \in Nat \ {0} : p = Pos(m, q)
  BY <1>3, PosIsNat
<1>5. PICK L \in Nat : L = Len(seen)
  BY DEF HistoryOK
<1>6. /\ Within(p) /\ disk = m.disk /\ log = m.log
      /\ \E a, z : z = L /\ WordIn(p, a, z) /\ tok = Kept(<<a, z>>)
  BY <1>2, <1>3, <1>4, <1>5 DEF InToken
<1>7. PICK a : WordIn(p, a, L) /\ tok = Kept(<<a, L>>)
  BY <1>6
<1>8. /\ a \in Nat /\ p <= a /\ a <= L
      /\ \A i \in p .. a - 1 : seen[i] = Space
      /\ \A i \in a .. L : seen[i] # Space
  BY <1>7 DEF WordIn
<1>9. SUFFICES /\ Chain(M, k)' /\ Reading(m, q)' /\ Pos(m, q)' = p
               /\ WordIn(p, a, L)' /\ Kept(<<a, L>>)' = tok
               /\ Len(seen') <= L + 1 /\ Within(L + 2)'
  <2>1. WordIn(Pos(m, q), a, L)'
    BY <1>9 DEF WordIn
  <2>2. InWord(m, q)'
    BY <1>2, <1>6, <1>9, <2>1 DEF InWord
  <2>3. StreamAt(M, k, q)'
    BY <1>1, <1>2, <1>9, <2>2 DEF StreamAt
  <2> QED
    BY <2>3 DEF StreamInv
<1>10. CASE Received /\ NextByte = Space /\ Consume
  <2>1. PICK b : b = NextByte
    OBVIOUS
  <2>2. /\ b \in Byte /\ b = Space /\ seen' = Append(seen, b) /\ ~Ended
        /\ seen \in Seq(Byte)
        /\ Len(seen') = L + 1 /\ seen'[L + 1] = b
        /\ \A i \in 1 .. L : seen'[i] = seen[i]
    BY <1>2, <1>5, <1>10, <2>1, ByteComes
  <2>3. p <= Len(seen) + 1
    BY <1>6, <2>2 DEF Within
  <2>4. Chain(M, k)'
    BY <1>2, <1>3, <2>2, ChainStays
  <2>5. Reading(m, q)' /\ Pos(m, q)' = p
    BY <1>2, <1>3, <1>4, <2>2, <2>3, ReadingStays
  <2>6. WordIn(p, a, L)'
    <3>1. \A i \in p .. a - 1 : seen'[i] = Space
      BY <1>8, <2>2
    <3>2. \A i \in a .. L : seen'[i] # Space
      BY <1>8, <2>2
    <3>3. L < Len(seen') /\ seen'[L + 1] = Space
      BY <2>2
    <3>4. L <= Len(seen')
      BY <2>2
    <3> QED
      BY <1>8, <3>1, <3>2, <3>3, <3>4 DEF WordIn
  <2>7. Kept(<<a, L>>)' = tok
    <3>1. PICK s : s = <<a, L>>
      OBVIOUS
    <3>2. s \in Nat \X Nat /\ 1 <= s[1] /\ s[1] <= s[2] /\ s[2] <= Len(seen)
      BY <1>5, <1>8, <3>1
    <3>3. Kept(s)' = Kept(s)
      BY <2>2, <3>2, KeptStays
    <3> QED
      BY <1>7, <3>1, <3>3
  <2>8. Within(L + 2)'
    <3>1. L + 2 <= Len(seen') + 1
      BY <2>2
    <3> QED
      BY <3>1 DEF Within
  <2> QED
    BY <2>2, <2>4, <2>5, <2>6, <2>7, <2>8
<1>11. CASE EndOfStream /\ UNCHANGED <<in, seen>>
  <2>1. Ended /\ Ended'
    BY <1>11 DEF EndOfStream, Received, Ended
  <2>2. Chain(M, k)'
    BY <1>2, <1>3, <1>11, <2>1, ChainKept
  <2>3. Reading(m, q)' /\ Pos(m, q)' = p
    BY <1>2, <1>3, <1>4, <1>11, ReadingKept
  <2>4. WordIn(p, a, L)'
    BY <1>7, <1>11 DEF WordIn
  <2>5. Kept(<<a, L>>)' = tok
    BY <1>7, <1>11, KeptIs
  <2>6. Within(L + 2)'
    BY <2>1 DEF Within
  <2> QED
    BY <1>5, <1>11, <2>2, <2>3, <2>4, <2>5, <2>6
<1> QED
  BY <1>2, <1>10, <1>11

\* A word more, and perhaps the last of a command.
LEMMA AddWordStream ==
  ASSUME TypeInv, HistoryOK, AddWord, Ended => Ended', NEW M, NEW k, NEW q, StreamAt(M, k, q)
  PROVE  StreamInv'
<1>1. PICK m : m = M[k]
  OBVIOUS
<1>2. /\ pc = "word" /\ words' = Append(words, tok) /\ tok' = <<>>
      /\ pc' = IF Len(words') < WordsOf(words'[1]) THEN "token" ELSE "execute"
      /\ UNCHANGED <<disk, seen, log, base>>
  BY DEF AddWord
<1>3. Chain(M, k) /\ Reading(m, q) /\ InWord(m, q) /\ m.next \in Nat \ {0}
  BY <1>1, <1>2, ChainEnd DEF StreamAt
<1>4. PICK n \in Nat : n = Len(words)
  BY WordsIsSeq
<1>5. PICK p \in Nat \ {0} : p = Pos(m, q)
  BY <1>3, PosIsNat
<1>6. disk = m.disk /\ log = m.log
  BY <1>3 DEF InWord
<1>7. PICK a, z : /\ WordIn(p, a, z) /\ tok = Kept(<<a, z>>)
                  /\ Len(seen) <= z + 1 /\ Within(z + 2)
  BY <1>3, <1>5 DEF InWord
<1>8. a \in Nat /\ z \in Nat /\ p <= a /\ a <= z /\ z <= Len(seen) /\ Len(seen) \in Nat
  BY <1>7 DEF WordIn, HistoryOK
<1>9. Spans(m.next, q, n) /\ (\A i \in 1 .. n : words[i] = Kept(q[i])) /\ p = From(m.next, q, n + 1)
  BY <1>3, <1>4, <1>5 DEF Reading, Pos
<1>10. /\ Len(words') = n + 1 /\ words'[n + 1] = tok
       /\ \A i \in 1 .. n : words'[i] = words[i]
  <2>1. words \in Seq(Seq(Byte)) /\ tok \in Seq(Byte)
    BY WordsIsSeq DEF TypeInv, CommandOK
  <2> QED
    BY <1>2, <1>4, <2>1, AppendProperties
<1> DEFINE r == [i \in 1 .. n + 1 |-> IF i = n + 1 THEN <<a, z>> ELSE q[i]]
<1>11. q \in [1 .. n -> Nat \X Nat]
  BY <1>9 DEF Spans
<1>12. /\ r \in [1 .. n + 1 -> Nat \X Nat]
       /\ r[n + 1] = <<a, z>> /\ \A i \in 1 .. n : r[i] = q[i]
  BY <1>8, <1>11
<1> HIDE DEF r
<1>13. PICK s : s = r
  OBVIOUS
<1>14. \A i \in 1 .. n + 1 : From(m.next, s, i) = From(m.next, q, i)
  <2>1. ASSUME NEW i \in 1 .. n + 1
        PROVE  From(m.next, s, i) = From(m.next, q, i)
    <3>1. CASE i = 1
      BY <3>1 DEF From
    <3>2. CASE i # 1
      <4>1. i - 1 \in 1 .. n
        BY <3>2
      <4> QED
        BY <1>12, <1>13, <3>2, <4>1 DEF From
    <3> QED
      BY <3>1, <3>2
  <2> QED
    BY <2>1
<1>15. \A i \in 1 .. n : q[i][2] < Len(seen)
  <2>1. ASSUME NEW i \in 1 .. n
        PROVE  q[i][2] < Len(seen)
    <3>1. CASE i < n
      BY <1>9, <3>1 DEF Spans
    <3>2. CASE i = n
      <4>1. n + 1 # 1 /\ (n + 1) - 1 = n
        BY <3>2
      <4>2. p = q[n][2] + 2
        BY <1>9, <4>1 DEF From
      <4>3. PICK y \in Nat : y = q[n][2]
        BY <1>11, <3>2
      <4>4. y + 2 <= Len(seen)
        BY <1>8, <4>2, <4>3
      <4> QED
        BY <1>8, <3>2, <4>3, <4>4
    <3> QED
      BY <3>1, <3>2
  <2> QED
    BY <2>1
<1>16. Spans(m.next, s, n + 1)
  <2>1. ASSUME NEW i \in 1 .. n + 1
        PROVE  WordIn(From(m.next, s, i), s[i][1], s[i][2]) /\ (i < n + 1 => s[i][2] < Len(seen))
    <3>1. From(m.next, s, i) = From(m.next, q, i)
      BY <1>14
    <3>2. CASE i = n + 1
      <4>1. s[i][1] = a /\ s[i][2] = z /\ From(m.next, s, i) = p
        BY <1>9, <1>12, <1>13, <3>1, <3>2
      <4> QED
        BY <1>7, <3>2, <4>1
    <3>3. CASE i \in 1 .. n
      <4>1. s[i] = q[i]
        BY <1>12, <1>13, <3>3
      <4>2. WordIn(From(m.next, q, i), q[i][1], q[i][2])
        BY <1>9, <3>3 DEF Spans
      <4> QED
        BY <1>15, <3>1, <3>3, <4>1, <4>2
    <3> QED
      BY <3>2, <3>3
  <2> QED
    BY <1>12, <1>13, <2>1 DEF Spans
<1>17. Reading(m, s)'
  <2>1. Spans(m.next, s, n + 1)'
    BY <1>2, <1>16 DEF Spans, WordIn
  <2>2. ASSUME NEW i \in 1 .. n + 1
        PROVE  words'[i] = Kept(s[i])'
    <3>1. Kept(s[i])' = Kept(s[i])
      BY <1>2 DEF Kept
    <3>2. CASE i = n + 1
      BY <1>7, <1>10, <1>12, <1>13, <3>1, <3>2
    <3>3. CASE i \in 1 .. n
      BY <1>9, <1>10, <1>12, <1>13, <3>1, <3>3
    <3> QED
      BY <3>2, <3>3
  <2> QED
    BY <1>10, <2>1, <2>2 DEF Reading
<1>18. Pos(m, s)' = z + 2
  <2>1. Pos(m, s)' = From(m.next, s, n + 2)
    <3>1. (n + 1) + 1 = n + 2
      OBVIOUS
    <3> QED
      BY <1>10, <3>1 DEF Pos, From
  <2>2. n + 2 # 1 /\ (n + 2) - 1 = n + 1
    OBVIOUS
  <2>3. From(m.next, s, n + 2) = s[n + 1][2] + 2
    BY <2>2 DEF From
  <2> QED
    BY <1>12, <1>13, <2>1, <2>3
<1>19. Within(z + 2)' /\ Blank(z + 2)' /\ Len(seen') < z + 2
  <2>1. Within(z + 2)'
    BY <1>2, <1>7 DEF Within
  <2>2. Len(seen') < z + 2
    BY <1>2, <1>7, <1>8
  <2>3. Blank(z + 2)'
    BY <1>2, <1>8, <2>2 DEF Blank
  <2> QED
    BY <2>1, <2>2, <2>3
<1>20. Chain(M, k)'
  BY <1>2, <1>3, ChainKept
<1>21. Within(Pos(m, s))' /\ Blank(Pos(m, s))'
  BY <1>18, <1>19 DEF Within, Blank
<1>22. pc' = "token" => InToken(m, s)'
  BY <1>2, <1>6, <1>21 DEF InToken
<1>23. pc' = "execute" => InExecute(m, s)'
  <2>1. SUFFICES ASSUME pc' = "execute"
                 PROVE  words' # <<>> /\ Len(words') = WordsOf(words'[1])
    BY <1>2, <1>6, <1>18, <1>19, <1>21, <2>1 DEF InExecute
  <2>2. ~(Len(words') < WordsOf(words'[1]))
    BY <1>2, <2>1
  <2>3. WordsOf(words'[1]) \in 1 .. 4
    BY WordsOfBounds
  <2>4. n + 1 <= WordsOf(words'[1])
    <3>1. words = <<>> \/ Len(words) < WordsOf(words[1])
      BY <1>2 DEF TypeInv, CommandOK
    <3>2. CASE n = 0
      BY <2>3, <3>2
    <3>3. CASE n # 0
      <4>1. words # <<>> /\ words'[1] = words[1]
        BY <1>4, <1>10, <3>3
      <4> QED
        BY <1>4, <2>3, <3>1, <4>1
    <3> QED
      BY <3>2, <3>3
  <2>5. words' # <<>>
    BY <1>10
  <2> QED
    BY <1>10, <2>2, <2>3, <2>4, <2>5
<1>24. StreamAt(M, k, s)'
  BY <1>1, <1>2, <1>17, <1>20, <1>22, <1>23 DEF StreamAt
<1> QED
  BY <1>24 DEF StreamInv

\* One command more has been executed when its answer is given.
LEMMA CommandRuns ==
  ASSUME TypeInv, HistoryOK,
         NEW M, NEW k, NEW q, Chain(M, k), Reading(M[k], q),
         words # <<>>, Len(words) = WordsOf(words[1]),
         NEW m2, m2 = Effect(M[k], words, Pos(M[k], q)), Within(m2.next),
         NEW j, j = k + 1
  PROVE  RunsTo(j, m2)
<1>1. PICK n \in 1 .. 4 : n = Len(words)
  BY WordsOfBounds
<1>2. PICK m : m = M[k]
  OBVIOUS
<1>3. Spans(m.next, q, n) /\ \A i \in 1 .. n : words[i] = Kept(q[i])
  BY <1>1, <1>2 DEF Reading
<1>4. words = Words(q, n)
  <2>1. words = [i \in 1 .. n |-> words[i]]
    BY <1>1, WordsIsSeq
  <2> QED
    BY <1>3, <2>1 DEF Words
<1>5. Pos(m, q) = q[n][2] + 2
  <2>1. n + 1 # 1 /\ (n + 1) - 1 = n
    OBVIOUS
  <2> QED
    BY <1>1, <2>1 DEF Pos, From
<1>6. n = WordsOf(Kept(q[1]))
  BY <1>1, <1>3
<1>7. Command(m, q, n, m2)
  BY <1>2, <1>3, <1>4, <1>5, <1>6 DEF Command
<1>8. seen \in Seq(Byte) /\ Len(seen) \in Nat
  BY DEF HistoryOK
<1> QED
  BY <1>2, <1>7, <1>8, ChainExtends

\* A command is done, and the server is at the head of its loop.
LEMMA CommandDone ==
  ASSUME TypeInv, HistoryOK, Ended => Ended',
         NEW M, NEW k, NEW q, Chain(M, k), Reading(M[k], q),
         words # <<>>, Len(words) = WordsOf(words[1]),
         NEW m2, m2 = Effect(M[k], words, Pos(M[k], q)),
         Len(seen) < m2.next, Within(m2.next),
         UNCHANGED <<seen, base>>, pc' = "token", words' = <<>>, tok' = <<>>,
         disk' = m2.disk, log' = m2.log
  PROVE  StreamInv'
<1>8. seen \in Seq(Byte) /\ Len(seen) \in Nat
  BY DEF HistoryOK
<1>9. PICK j : j = k + 1
  OBVIOUS
<1>10. PICK N : Chain(N, j) /\ N[j] = m2
  <2>1. RunsTo(j, m2)
    BY <1>9, CommandRuns
  <2> QED
    BY <2>1 DEF RunsTo
<1>11. Chain(N, j)' /\ N[j] = m2
  BY <1>10, ChainKept
<1>12. PICK p \in Nat \ {0} : p = m2.next
  BY <1>10, ChainEnd
<1>13. Within(p)' /\ Blank(p)'
  <2>1. Within(p)'
    BY <1>12 DEF Within
  <2>2. Blank(p)'
    BY <1>8, <1>12 DEF Blank
  <2> QED
    BY <2>1, <2>2
<1>14. Len(words') = 0
  OBVIOUS
<1>15. Reading(m2, <<>>)'
  <2>1. <<>> \in [1 .. 0 -> Nat \X Nat]
    OBVIOUS
  <2> QED
    BY <1>14, <2>1 DEF Reading, Spans
<1>16. Pos(m2, <<>>)' = p
  BY <1>12, <1>14 DEF Pos, From
<1>17. InToken(m2, <<>>)'
  BY <1>13, <1>16 DEF InToken, Within, Blank
<1>18. StreamAt(N, j, <<>>)'
  BY <1>11, <1>15, <1>17 DEF StreamAt
<1> QED
  BY <1>18 DEF StreamInv

\* A command that only answers.
LEMMA AnsweredStream ==
  ASSUME TypeInv, HistoryOK, Ended => Ended', pc = "execute",
         NEW M, NEW k, NEW q, StreamAt(M, k, q),
         NEW symbols, Send(symbols), NextCommand, UNCHANGED disk,
         \A m, after : Effect(m, words, after) =
                         [next |-> after, disk |-> m.disk, log |-> m.log \o symbols]
  PROVE  StreamInv'
<1>1. /\ Chain(M, k) /\ Reading(M[k], q) /\ disk = M[k].disk /\ log = M[k].log
      /\ tok = <<>> /\ words # <<>> /\ Len(words) = WordsOf(words[1])
      /\ Len(seen) < Pos(M[k], q) /\ Within(Pos(M[k], q))
  BY DEF StreamAt, InExecute
<1>2. PICK p : p = Pos(M[k], q)
  OBVIOUS
<1>3. PICK m2 : m2 = Effect(M[k], words, p)
  OBVIOUS
<1>4. m2 = [next |-> p, disk |-> M[k].disk, log |-> M[k].log \o symbols]
  BY <1>3
<1>5. m2.next = p /\ m2.disk = disk /\ m2.log = log \o symbols
  BY <1>1, <1>4
<1>6. /\ UNCHANGED <<seen, base>> /\ pc' = "token" /\ words' = <<>> /\ tok' = <<>>
      /\ disk' = m2.disk /\ log' = m2.log
  BY <1>1, <1>5 DEF Send, NextCommand
<1>7. m2 = Effect(M[k], words, Pos(M[k], q)) /\ Len(seen) < m2.next /\ Within(m2.next)
  BY <1>1, <1>2, <1>3, <1>5
<1> QED
  BY <1>1, <1>6, <1>7, CommandDone

\* A command without data is executed when its answer is sent.
LEMMA AnswerStream ==
  ASSUME TypeInv, HistoryOK, Ended => Ended',
         Info \/ Unknown \/ ReadRefused \/ WriteRefused,
         NEW M, NEW k, NEW q, StreamAt(M, k, q)
  PROVE  StreamInv'
<1>1. CASE Info
  <2>1. \A m, after : Effect(m, words, after) =
                        [next |-> after, disk |-> m.disk, log |-> m.log \o <<"geometry">>]
    BY <1>1 DEF Info, Effect
  <2> QED
    BY <1>1, <2>1, AnsweredStream DEF Info
<1>2. CASE Unknown
  <2>1. \A m, after : Effect(m, words, after) =
                        [next |-> after, disk |-> m.disk, log |-> m.log \o <<"unknown_command">>]
    BY <1>2 DEF Unknown, Effect
  <2> QED
    BY <1>2, <2>1, AnsweredStream DEF Unknown
<1>3. CASE ReadRefused
  <2>1. \A m, after : Effect(m, words, after) =
                        [next |-> after, disk |-> m.disk, log |-> m.log \o <<"invalid_read">>]
    BY <1>3 DEF ReadRefused, Effect
  <2> QED
    BY <1>3, <2>1, AnsweredStream DEF ReadRefused
<1>4. CASE WriteRefused
  <2>1. CASE ~LengthOK(words) /\ Send(<<"bad_length">>)
    <3>1. \A m, after : Effect(m, words, after) =
                          [next |-> after, disk |-> m.disk, log |-> m.log \o <<"bad_length">>]
      BY <1>4, <2>1 DEF WriteRefused, Effect
    <3> QED
      BY <1>4, <2>1, <3>1, AnsweredStream DEF WriteRefused
  <2>2. CASE LengthOK(words) /\ ~InRange(words) /\ Send(<<"invalid_write">>)
    <3>1. \A m, after : Effect(m, words, after) =
                          [next |-> after, disk |-> m.disk, log |-> m.log \o <<"invalid_write">>]
      BY <1>4, <2>2 DEF WriteRefused, Effect
    <3> QED
      BY <1>4, <2>2, <3>1, AnsweredStream DEF WriteRefused
  <2> QED
    BY <1>4, <2>1, <2>2 DEF WriteRefused
<1> QED
  BY <1>1, <1>2, <1>3, <1>4

\* A read sends its line of text first,
LEMMA ReadLineStream ==
  ASSUME TypeInv, HistoryOK, Ended => Ended', ReadLine,
         NEW M, NEW k, NEW q, StreamAt(M, k, q)
  PROVE  StreamInv'
<1>1. PICK m : m = M[k]
  OBVIOUS
<1>2. /\ pc = "execute" /\ pc' = "block" /\ words[1] = <<"R">> /\ log' = log \o <<"read_ok">>
      /\ UNCHANGED <<disk, tok, words, seen, base>>
  BY DEF ReadLine, Send
<1>3. /\ Chain(M, k) /\ Reading(m, q) /\ disk = m.disk /\ log = m.log
      /\ tok = <<>> /\ Len(words) = WordsOf(words[1])
      /\ Len(seen) < Pos(m, q) /\ Within(Pos(m, q))
  BY <1>1, <1>2 DEF StreamAt, InExecute
<1>4. PICK p : p = Pos(m, q)
  OBVIOUS
<1>5. Chain(M, k)'
  BY <1>2, <1>3, ChainKept
<1>6. Reading(m, q)' /\ Pos(m, q)' = p
  BY <1>2, <1>3, <1>4, ReadingKept
<1>7. Within(Pos(m, q))'
  BY <1>2, <1>3, <1>4, <1>6 DEF Within
<1>8. Len(words) = 3
  <2>1. WordsOf(<<"R">>) = 3
    BY DEF WordsOf
  <2> QED
    BY <1>2, <1>3, <2>1
<1>9. InBlock(m, q)'
  <2>1. m.log \in Seq(Symbol)
    BY <1>3 DEF HistoryOK
  <2>2. Len(seen') < Pos(m, q)'
    BY <1>2, <1>3, <1>4, <1>6
  <2> QED
    BY <1>2, <1>3, <1>7, <1>8, <2>1, <2>2 DEF InBlock
<1>10. StreamAt(M, k, q)'
  BY <1>1, <1>2, <1>5, <1>6, <1>9 DEF StreamAt
<1> QED
  BY <1>10 DEF StreamInv

\* and is executed when it has sent the block.
LEMMA ReadBlockStream ==
  ASSUME TypeInv, HistoryOK, Ended => Ended', ReadBlock,
         NEW M, NEW k, NEW q, StreamAt(M, k, q)
  PROVE  StreamInv'
<1>1. PICK m : m = M[k]
  OBVIOUS
<1>2. /\ pc = "block" /\ pc' = "token" /\ words' = <<>>
      /\ log' = log \o disk[BlockIdx(words)]
      /\ UNCHANGED <<disk, tok, seen, base>>
  BY DEF ReadBlock, Send, NextCommand
<1>3. /\ Chain(M, k) /\ Reading(m, q) /\ disk = m.disk
      /\ m.log \in Seq(Symbol) /\ log = m.log \o <<"read_ok">>
      /\ tok = <<>> /\ words[1] = <<"R">> /\ Len(words) = 3
      /\ Len(seen) < Pos(m, q) /\ Within(Pos(m, q))
  BY <1>1, <1>2 DEF StreamAt, InBlock
<1>4. InRange(words)
  BY <1>2 DEF TypeInv, StoreOK
<1>5. PICK p : p = Pos(m, q)
  OBVIOUS
<1>6. PICK block : block = disk[BlockIdx(words)]
  OBVIOUS
<1>7. block \in Seq(Symbol)
  <2>1. block \in [1 .. BlockSize -> Symbol]
    BY <1>4, <1>6, InRangeIsBlock DEF HistoryOK, Disks
  <2> QED
    BY <2>1, GeometryAssumption
<1>8. PICK m2 : m2 = Effect(m, words, p)
  OBVIOUS
<1>9. m2 = [next |-> p, disk |-> m.disk, log |-> m.log \o (<<"read_ok">> \o block)]
  BY <1>3, <1>4, <1>6, <1>8 DEF Effect
<1>10. m2.next = p /\ m2.disk = disk' /\ m2.log = log'
  <2>1. <<"read_ok">> \in Seq(Symbol)
    BY AnswersAreSymbols DEF Answers
  <2>2. PICK s \in Seq(Symbol), t \in Seq(Symbol) : s = m.log /\ t = <<"read_ok">>
    BY <1>3, <2>1
  <2>3. (s \o t) \o block = s \o (t \o block)
    BY <1>7, ConcatAssociative
  <2> QED
    BY <1>2, <1>3, <1>6, <1>9, <2>2, <2>3
<1>11. words # <<>> /\ Len(words) = WordsOf(words[1])
  <2>1. WordsOf(<<"R">>) = 3
    BY DEF WordsOf
  <2>2. words = <<>> => Len(words) = 0
    OBVIOUS
  <2>3. words # <<>>
    BY <1>3, <2>2
  <2> QED
    BY <1>3, <2>1, <2>3
<1> QED
  BY <1>1, <1>2, <1>3, <1>5, <1>8, <1>10, <1>11, CommandDone

\* A write begins at the byte after its header.
LEMMA WriteStartStream ==
  ASSUME TypeInv, HistoryOK, Ended => Ended', WriteStart,
         NEW M, NEW k, NEW q, StreamAt(M, k, q)
  PROVE  StreamInv'
<1>1. PICK m : m = M[k]
  OBVIOUS
<1>2. /\ pc = "execute" /\ pc' = "data" /\ words[1] = <<"W">> /\ done' = 0
      /\ InRange(words) /\ UNCHANGED <<disk, tok, words, seen, log, base>>
  BY DEF WriteStart
<1>3. /\ Chain(M, k) /\ Reading(m, q) /\ disk = m.disk /\ log = m.log
      /\ tok = <<>> /\ Len(words) = WordsOf(words[1]) /\ m.next \in Nat \ {0}
      /\ Len(seen) < Pos(m, q) /\ Within(Pos(m, q))
  BY <1>1, <1>2, ChainEnd DEF StreamAt, InExecute
<1>4. PICK p \in Nat \ {0} : p = Pos(m, q)
  BY <1>3, PosIsNat
<1>5. Chain(M, k)'
  BY <1>2, <1>3, ChainKept
<1>6. Reading(m, q)' /\ Pos(m, q)' = p
  BY <1>2, <1>3, <1>4, ReadingKept
<1>7. Len(words) = 4
  <2>1. WordsOf(<<"W">>) = 4
    BY DEF WordsOf
  <2> QED
    BY <1>2, <1>3, <2>1
<1>8. m.disk \in Disks
  BY <1>3 DEF HistoryOK
<1>9. PICK w : w = words
  OBVIOUS
<1>10. m.disk = Filled(m, w, p, 0)'
  <2>1. BlockIdx(w) \in Blocks
    BY <1>2, <1>9, InRangeIsBlock
  <2>2. PICK b \in Blocks : b = BlockIdx(w)
    BY <2>1
  <2>3. PICK f \in [Blocks -> [1 .. BlockSize -> Symbol]] : f = m.disk
    BY <1>8 DEF Disks
  <2>4. \A i \in 1 .. BlockSize : ~(i <= 0)
    BY GeometryAssumption
  <2>5. [i \in 1 .. BlockSize |-> IF i <= 0 THEN seen'[p + i - 1] ELSE f[b][i]] = f[b]
    BY <2>3, <2>4
  <2>6. [f EXCEPT ![b] =
           [i \in 1 .. BlockSize |-> IF i <= 0 THEN seen'[p + i - 1] ELSE f[b][i]]] = f
    BY <2>3, <2>5
  <2> QED
    BY <2>2, <2>3, <2>6 DEF Filled
<1>11. InData(m, q)'
  <2>1. Within(Pos(m, q) + done)'
    <3>1. p + done' = p
      BY <1>2
    <3> QED
      BY <1>2, <1>3, <1>4, <1>6, <3>1 DEF Within
  <2>2. Len(seen') < Pos(m, q)' + done'
    BY <1>2, <1>3, <1>4, <1>6
  <2>3. disk' = Filled(m, words, Pos(m, q), done)'
    BY <1>2, <1>3, <1>6, <1>9, <1>10 DEF Filled
  <2> QED
    BY <1>2, <1>3, <1>7, <1>8, <2>1, <2>2, <2>3 DEF InData
<1>12. StreamAt(M, k, q)'
  BY <1>1, <1>2, <1>5, <1>6, <1>11 DEF StreamAt
<1> QED
  BY <1>12 DEF StreamInv

\* A byte of the data is stored where its position says.
LEMMA WriteByteStream ==
  ASSUME TypeInv, HistoryOK, WriteByte, NEW M, NEW k, NEW q, StreamAt(M, k, q)
  PROVE  StreamInv'
<1>1. PICK m : m = M[k]
  OBVIOUS
<1>2. /\ pc = "data" /\ Received /\ Consume /\ done' = done + 1 /\ done < DataLen(words)
      /\ disk' = [disk EXCEPT ![BlockIdx(words)][done + 1] = NextByte]
      /\ UNCHANGED <<pc, tok, words, log, base>>
  BY DEF WriteByte
<1>3. /\ Chain(M, k) /\ Reading(m, q) /\ InData(m, q) /\ m.next \in Nat \ {0}
  BY <1>1, <1>2, ChainEnd DEF StreamAt
<1>4. PICK p \in Nat \ {0} : p = Pos(m, q)
  BY <1>3, PosIsNat
<1>5. PICK b : b = NextByte
  OBVIOUS
<1>6. PICK L \in Nat : L = Len(seen)
  BY DEF HistoryOK
<1>7. /\ b \in Byte /\ seen' = Append(seen, b) /\ ~Ended /\ seen \in Seq(Byte)
      /\ Len(seen') = L + 1 /\ seen'[L + 1] = b
      /\ \A i \in 1 .. L : seen'[i] = seen[i]
  BY <1>2, <1>5, <1>6, ByteComes
<1>8. PICK d \in Nat : d = done
  BY DEF TypeInv, StoreOK
<1>9. PICK w : w = words
  OBVIOUS
<1>10. /\ log = m.log /\ m.disk \in Disks /\ tok = <<>>
       /\ words[1] = <<"W">> /\ Len(words) = 4
       /\ p + d = L + 1 /\ disk = Filled(m, w, p, d)
  <2>1. /\ log = m.log /\ m.disk \in Disks /\ tok = <<>>
        /\ words[1] = <<"W">> /\ Len(words) = 4
        /\ L < p + d /\ Within(p + d) /\ disk = Filled(m, w, p, d)
    BY <1>3, <1>4, <1>6, <1>8, <1>9 DEF InData
  <2>2. p + d <= L + 1
    BY <1>6, <1>7, <2>1 DEF Within
  <2> QED
    BY <2>1, <2>2
<1>11. InRange(w) /\ d + 1 \in 1 .. BlockSize
  <2>1. InRange(w) /\ LengthOK(w) /\ d < DataLen(w)
    BY <1>2, <1>8, <1>9 DEF TypeInv, StoreOK
  <2>2. PICK n \in 0 .. BlockSize : n = DataLen(w)
    BY <2>1 DEF LengthOK
  <2> QED
    BY <2>1, <2>2, GeometryAssumption
<1>12. Chain(M, k)'
  BY <1>2, <1>3, <1>7, ChainStays
<1>13. Reading(m, q)' /\ Pos(m, q)' = p
  <2>1. Pos(m, q) <= Len(seen) + 1
    BY <1>4, <1>6, <1>10
  <2> QED
    BY <1>2, <1>3, <1>4, <1>7, <2>1, ReadingStays
<1>14. disk' = Filled(m, w, p, d + 1)'
  <2>1. PICK g \in Blocks : g = BlockIdx(w)
    BY <1>11, InRangeIsBlock
  <2>2. PICK f \in [Blocks -> [1 .. BlockSize -> Symbol]] : f = m.disk
    BY <1>10 DEF Disks
  <2> DEFINE old == [i \in 1 .. BlockSize |-> IF i <= d THEN seen[p + i - 1] ELSE f[g][i]]
             new == [i \in 1 .. BlockSize |-> IF i <= d + 1 THEN seen'[p + i - 1] ELSE f[g][i]]
  <2>3. disk = [f EXCEPT ![g] = old]
    BY <1>10, <2>1, <2>2 DEF Filled
  <2>4. Filled(m, w, p, d + 1)' = [f EXCEPT ![g] = new]
    BY <2>1, <2>2 DEF Filled
  <2>5. [old EXCEPT ![d + 1] = b] = new
    <3>1. ASSUME NEW i \in 1 .. BlockSize
          PROVE  [old EXCEPT ![d + 1] = b][i] = new[i]
      <4>1. CASE i = d + 1
        <5>1. p + i - 1 = L + 1 /\ i <= d + 1
          BY <1>10, <4>1
        <5> QED
          BY <1>7, <4>1, <5>1
      <4>2. CASE i <= d
        <5>1. p + i - 1 \in 1 .. L /\ i <= d + 1 /\ i # d + 1
          BY <1>10, <4>2
        <5>2. new[i] = seen'[p + i - 1] /\ old[i] = seen[p + i - 1]
          BY <4>2, <5>1
        <5> QED
          BY <1>7, <5>1, <5>2
      <4>3. CASE i > d + 1
        <5>1. ~(i <= d) /\ ~(i <= d + 1) /\ i # d + 1
          BY <4>3
        <5> QED
          BY <5>1
      <4> QED
        BY <4>1, <4>2, <4>3
    <3> HIDE DEF old, new
    <3>2. new = [i \in 1 .. BlockSize |-> new[i]]
      BY DEF new
    <3>3. [old EXCEPT ![d + 1] = b] = [i \in 1 .. BlockSize |-> [old EXCEPT ![d + 1] = b][i]]
      BY DEF old
    <3> QED
      BY <3>1, <3>2, <3>3
  <2> HIDE DEF old, new
  <2>6. disk' = [disk EXCEPT ![g][d + 1] = b]
    BY <1>2, <1>5, <1>8, <1>9, <2>1
  <2>7. disk[g] = old /\ disk' = [disk EXCEPT ![g] = [old EXCEPT ![d + 1] = b]]
    BY <2>2, <2>3, <2>6
  <2>8. disk' = [disk EXCEPT ![g] = new]
    BY <2>5, <2>7
  <2> QED
    BY <2>2, <2>3, <2>4, <2>8
<1>15. InData(m, q)'
  <2>1. p + (d + 1) = (L + 1) + 1
    BY <1>10
  <2>2. done' = d + 1
    BY <1>2, <1>8
  <2>3. Len(seen') < Pos(m, q)' + done' /\ Pos(m, q)' + done' = Len(seen') + 1
    BY <1>7, <1>13, <2>1, <2>2
  <2>4. Within(Pos(m, q) + done)'
    BY <1>7, <1>13, <2>1, <2>2 DEF Within
  <2>5. disk' = Filled(m, words, Pos(m, q), done)'
    <3>1. PICK e : e = d + 1
      OBVIOUS
    <3>2. disk' = Filled(m, w, p, e)'
      BY <1>14, <3>1 DEF Filled
    <3>3. words' = w /\ done' = e
      BY <1>2, <1>9, <2>2, <3>1
    <3> QED
      BY <1>13, <3>2, <3>3 DEF Filled
  <2> QED
    BY <1>2, <1>10, <2>3, <2>4, <2>5 DEF InData
<1>16. StreamAt(M, k, q)'
  BY <1>1, <1>2, <1>12, <1>13, <1>15 DEF StreamAt
<1> QED
  BY <1>16 DEF StreamInv

\* The command that was read can be answered, and m2 is what it does.
Ready(M, k, q, m2) ==
  /\ Chain(M, k) /\ Reading(M[k], q) /\ tok = <<>>
  /\ words # <<>> /\ Len(words) = WordsOf(words[1])
  /\ m2 = Effect(M[k], words, Pos(M[k], q)) /\ Len(seen) < m2.next /\ Within(m2.next)

\* What a write does, when all its data was received or the stream has ended.
LEMMA WriteMeans ==
  ASSUME TypeInv, HistoryOK, pc = "data", done = DataLen(words) \/ EndOfStream,
         NEW M, NEW k, NEW q, StreamAt(M, k, q)
  PROVE  \E m2 : Ready(M, k, q, m2) /\ m2.disk = Zeroed /\ m2.log = log \o <<"write_ok">>
<1>1. PICK m : m = M[k]
  OBVIOUS
<1>3. /\ Chain(M, k) /\ Reading(m, q) /\ InData(m, q) /\ m.next \in Nat \ {0}
  BY <1>1, ChainEnd DEF StreamAt
<1>4. PICK p \in Nat \ {0} : p = Pos(m, q)
  BY <1>3, PosIsNat
<1>5. PICK L \in Nat : L = Len(seen)
  BY DEF HistoryOK
<1>6. PICK d \in Nat : d = done
  BY DEF TypeInv, StoreOK
<1>7. InRange(words) /\ LengthOK(words) /\ done <= DataLen(words)
  BY DEF TypeInv, StoreOK
<1>8. PICK n \in 0 .. BlockSize : n = DataLen(words)
  BY <1>7 DEF LengthOK
<1>9. n \in Nat /\ d <= n
  BY <1>6, <1>7, <1>8, GeometryAssumption
<1>10. /\ log = m.log /\ m.disk \in Disks /\ tok = <<>>
       /\ words[1] = <<"W">> /\ Len(words) = 4
       /\ L < p + d /\ Within(p + d) /\ (d # 0 => p + d = L + 1)
       /\ disk = Filled(m, words, p, d)
  BY <1>3, <1>4, <1>5, <1>6 DEF InData
<1>11. PICK m2 : m2 = Effect(m, words, p)
  OBVIOUS
<1>12. m2 = [next |-> p + n, log |-> m.log \o <<"write_ok">>,
             disk |-> [m.disk EXCEPT ![BlockIdx(words)] =
                         Stored(m.disk[BlockIdx(words)], p, n)]]
  BY <1>7, <1>8, <1>10, <1>11 DEF Effect
<1>13. m2.next = p + n /\ m2.log = log \o <<"write_ok">>
  BY <1>10, <1>12
<1>14. L < p + n
  BY <1>9, <1>10
<1>15. n = d \/ Ended
  BY <1>6, <1>8 DEF EndOfStream, Received, Ended
<1>16. Within(p + n)
  <2>1. CASE n = d
    BY <1>10, <2>1
  <2>2. CASE Ended
    BY <2>2 DEF Within
  <2> QED
    BY <1>15, <2>1, <2>2
<1>17. m2.disk = Zeroed
  <2>1. PICK g \in Blocks : g = BlockIdx(words)
    BY <1>7, InRangeIsBlock
  <2>2. PICK f \in [Blocks -> [1 .. BlockSize -> Symbol]] : f = m.disk
    BY <1>10 DEF Disks
  <2> DEFINE old == [i \in 1 .. BlockSize |-> IF i <= d THEN seen[p + i - 1] ELSE f[g][i]]
             new == [i \in 1 .. BlockSize |-> IF i > n THEN Nul ELSE old[i]]
             goal == Stored(f[g], p, n)
  <2>3. disk = [f EXCEPT ![g] = old]
    BY <1>10, <2>1, <2>2 DEF Filled
  <2>4. m2.disk = [f EXCEPT ![g] = goal]
    BY <1>12, <2>1, <2>2
  <2>5. \A i \in 1 .. BlockSize : i <= n => ((i <= d) <=> (p + i - 1 <= L))
    <3>1. ASSUME NEW i \in 1 .. BlockSize, i <= n
          PROVE  (i <= d) <=> (p + i - 1 <= L)
      <4>1. CASE d # 0
        BY <1>10, <4>1
      <4>2. CASE d = 0
        BY <1>10, <4>2
      <4> QED
        BY <4>1, <4>2
    <3> QED
      BY <3>1
  <2>6. goal = new
    <3>1. ASSUME NEW i \in 1 .. BlockSize
          PROVE  goal[i] = new[i]
      <4>1. goal[i] = IF i > n THEN Nul
                      ELSE IF p + i - 1 <= L THEN seen[p + i - 1] ELSE f[g][i]
        BY <1>5 DEF Stored
      <4>2. new[i] = IF i > n THEN Nul
                     ELSE IF i <= d THEN seen[p + i - 1] ELSE f[g][i]
        OBVIOUS
      <4>3. CASE i > n
        BY <4>1, <4>2, <4>3
      <4>4. CASE i <= n
        <5>1. ~(i > n) /\ ((i <= d) <=> (p + i - 1 <= L))
          BY <1>9, <2>5, <4>4
        <5> HIDE DEF goal, new
        <5> QED
          BY <4>1, <4>2, <5>1
      <4> QED
        BY <1>9, <4>3, <4>4
    <3>2. goal = [i \in 1 .. BlockSize |-> goal[i]]
      BY DEF Stored
    <3>3. new = [i \in 1 .. BlockSize |-> new[i]]
      OBVIOUS
    <3> HIDE DEF goal, new
    <3> QED
      BY <3>1, <3>2, <3>3
  <2>7. disk[g] = old
    <3> HIDE DEF old
    <3> QED
      BY <2>2, <2>3
  <2>8. Zeroed = [disk EXCEPT ![g] = new]
    <3> HIDE DEF old
    <3> QED
      BY <1>8, <2>1, <2>7 DEF Zeroed
  <2> HIDE DEF old, new, goal
  <2> QED
    BY <2>2, <2>3, <2>4, <2>6, <2>8
<1>18. words # <<>> /\ Len(words) = WordsOf(words[1])
  <2>1. WordsOf(<<"W">>) = 4
    BY DEF WordsOf
  <2>2. words = <<>> => Len(words) = 0
    OBVIOUS
  <2>3. words # <<>>
    BY <1>10, <2>2
  <2> QED
    BY <1>10, <2>1, <2>3
<1>19. Ready(M, k, q, m2) /\ m2.disk = Zeroed /\ m2.log = log \o <<"write_ok">>
  BY <1>1, <1>3, <1>4, <1>5, <1>10, <1>11, <1>13, <1>14, <1>16, <1>17, <1>18 DEF Ready
<1> QED
  BY <1>19

\* The write is executed when its answer is sent.
LEMMA WriteEndStream ==
  ASSUME TypeInv, HistoryOK, Ended => Ended', WriteEnd,
         NEW M, NEW k, NEW q, StreamAt(M, k, q)
  PROVE  StreamInv'
<1>1. /\ pc = "data" /\ pc' = "token" /\ words' = <<>> /\ log' = log \o <<"write_ok">>
      /\ done = DataLen(words) \/ EndOfStream
      /\ disk' = Zeroed
      /\ UNCHANGED <<tok, seen, base>>
  BY DEF WriteEnd, Send, NextCommand
<1>2. PICK m2 : Ready(M, k, q, m2) /\ m2.disk = Zeroed /\ m2.log = log \o <<"write_ok">>
  BY <1>1, WriteMeans
<1>3. /\ Chain(M, k) /\ Reading(M[k], q) /\ tok = <<>>
      /\ words # <<>> /\ Len(words) = WordsOf(words[1])
      /\ m2 = Effect(M[k], words, Pos(M[k], q)) /\ Len(seen) < m2.next /\ Within(m2.next)
  BY <1>2 DEF Ready
<1>4. disk' = m2.disk /\ log' = m2.log /\ tok' = <<>>
  BY <1>1, <1>2, <1>3
<1> QED
  BY <1>1, <1>3, <1>4, CommandDone

\* Two commands with the same word are the same.
LEMMA OneWord == \A op, p : <<op>> = <<p>> => op = p
<1> TAKE op, p
<1> SUFFICES ASSUME <<op>> = <<p>> PROVE op = p
  OBVIOUS
<1>1. <<op>>[1] = <<p>>[1]
  OBVIOUS
<1> QED
  BY <1>1

\* When SIGPIPE ends the server, the command that it answered is executed.
LEMMA BrokenPipeMeans ==
  ASSUME TypeInv, HistoryOK, BrokenPipe, NEW M, NEW k, NEW q, StreamAt(M, k, q)
  PROVE  Meaning.disk = disk'
<1>1. ASSUME NEW m2, Ready(M, k, q, m2)
      PROVE  Meaning = m2
  <2>1. /\ Chain(M, k) /\ Reading(M[k], q)
        /\ words # <<>> /\ Len(words) = WordsOf(words[1])
        /\ m2 = Effect(M[k], words, Pos(M[k], q)) /\ Len(seen) < m2.next /\ Within(m2.next)
    BY <1>1 DEF Ready
  <2>2. PICK j : j = k + 1
    OBVIOUS
  <2>3. RunsTo(j, m2)
    BY <2>1, <2>2, CommandRuns
  <2>4. PICK N : Chain(N, j) /\ N[j] = m2
    BY <2>3 DEF RunsTo
  <2>5. m2.next \in Nat /\ Len(seen) \in Nat /\ seen \in Seq(Byte)
    BY <2>4, ChainEnd DEF HistoryOK
  <2>6. Blank(m2.next)
    BY <2>1, <2>5 DEF Blank
  <2>7. Blank(N[j].next)
    BY <2>4, <2>6
  <2> QED
    BY <2>4, <2>5, <2>7, ChainIsMeaning
<1>2. PICK m : m = M[k]
  OBVIOUS
<1>3. PICK p : p = Pos(m, q)
  OBVIOUS
<1>4. Sending /\ disk' = (IF pc = "data" THEN Zeroed ELSE disk)
  BY DEF BrokenPipe
<1>5. CASE pc = "data"
  <2>1. done = DataLen(words)
    BY <1>4, <1>5 DEF Sending
  <2>2. PICK m2 : Ready(M, k, q, m2) /\ m2.disk = Zeroed
    BY <1>5, <2>1, WriteMeans
  <2> QED
    BY <1>1, <1>4, <1>5, <2>2
<1>6. ASSUME /\ pc \in {"execute", "block"} /\ disk = m.disk /\ tok = <<>>
             /\ words # <<>> /\ Len(words) = WordsOf(words[1])
             /\ Len(seen) < p /\ Within(p)
             /\ ~(words[1] = <<"W">> /\ LengthOK(words) /\ InRange(words))
      PROVE  Meaning.disk = disk'
  <2>1. PICK m2 : m2 = Effect(m, words, p)
    OBVIOUS
  <2>2. m2.next = p /\ m2.disk = m.disk
    BY <1>6, <2>1 DEF Effect
  <2>3. Chain(M, k) /\ Reading(M[k], q)
    BY DEF StreamAt
  <2>4. Ready(M, k, q, m2)
    BY <1>2, <1>3, <1>6, <2>1, <2>2, <2>3 DEF Ready
  <2> QED
    BY <1>1, <1>4, <1>6, <2>2, <2>4
<1>7. CASE pc = "execute"
  <2>1. InExecute(m, q)
    BY <1>2, <1>7 DEF StreamAt
  <2>2. /\ disk = m.disk /\ tok = <<>> /\ words # <<>> /\ Len(words) = WordsOf(words[1])
        /\ Len(seen) < p /\ Within(p)
    BY <1>3, <2>1 DEF InExecute
  <2>3. ~(words[1] = <<"W">> /\ LengthOK(words) /\ InRange(words))
    BY <1>4, <1>7 DEF Sending
  <2> QED
    BY <1>6, <1>7, <2>2, <2>3
<1>8. CASE pc = "block"
  <2>1. InBlock(m, q)
    BY <1>2, <1>8 DEF StreamAt
  <2>2. /\ disk = m.disk /\ tok = <<>> /\ words[1] = <<"R">> /\ Len(words) = 3
        /\ Len(seen) < p /\ Within(p)
    BY <1>3, <2>1 DEF InBlock
  <2>3. WordsOf(<<"R">>) = 3
    BY DEF WordsOf
  <2>4. words = <<>> => Len(words) = 0
    OBVIOUS
  <2>5. words # <<>> /\ Len(words) = WordsOf(words[1])
    BY <2>2, <2>3, <2>4
  <2>6. words[1] # <<"W">>
    BY <2>2, OneWord
  <2> QED
    BY <1>6, <1>8, <2>2, <2>5, <2>6
<1> QED
  BY <1>4, <1>5, <1>7, <1>8 DEF Sending

\* A step that leaves the server where it is.
LEMMA StreamKept ==
  ASSUME TypeInv, UNCHANGED <<disk, pc, tok, words, done, seen, log, base>>, Ended => Ended',
         NEW M, NEW k, NEW q, StreamAt(M, k, q)
  PROVE  StreamInv'
<1>1. PICK m : m = M[k]
  OBVIOUS
<1>2. Chain(M, k) /\ Reading(m, q) /\ m.next \in Nat \ {0}
  BY <1>1, ChainEnd DEF StreamAt
<1>3. PICK p : p = Pos(m, q)
  OBVIOUS
<1>4. Chain(M, k)'
  BY <1>2, ChainKept
<1>5. Reading(m, q)' /\ Pos(m, q)' = p
  BY <1>2, <1>3, ReadingKept
<1>6. \A x : Within(x) => Within(x)'
  BY DEF Within
<1>7. \A x : Blank(x) => Blank(x)'
  BY DEF Blank
<1>8. \A a, z : /\ WordIn(p, a, z) => WordIn(p, a, z)'
                /\ Kept(<<a, z>>)' = Kept(<<a, z>>)
  BY DEF WordIn, Kept
<1>9. Within(Pos(m, q)) => Within(Pos(m, q))'
  BY <1>3, <1>5, <1>6 DEF Within
<1>10. pc = "token" => InToken(m, q)'
  <2>1. SUFFICES ASSUME InToken(m, q) PROVE InToken(m, q)'
    BY <1>1 DEF StreamAt
  <2>2. tok = <<>> => Blank(Pos(m, q))'
    BY <1>3, <1>5, <1>7, <2>1 DEF InToken, Blank
  <2>3. ASSUME tok # <<>>
        PROVE  \E a, z : z = Len(seen') /\ WordIn(Pos(m, q), a, z)' /\ tok' = Kept(<<a, z>>)'
    <3>1. PICK a, z : z = Len(seen) /\ WordIn(p, a, z) /\ tok = Kept(<<a, z>>)
      BY <1>3, <2>1, <2>3 DEF InToken
    <3>2. z = Len(seen') /\ WordIn(p, a, z)' /\ tok' = Kept(<<a, z>>)'
      BY <1>8, <3>1
    <3>3. WordIn(Pos(m, q), a, z)'
      BY <1>5, <3>2 DEF WordIn
    <3> QED
      BY <3>2, <3>3
  <2> QED
    BY <1>9, <2>1, <2>2, <2>3 DEF InToken
<1>11. pc = "word" => InWord(m, q)'
  <2>1. SUFFICES ASSUME InWord(m, q) PROVE InWord(m, q)'
    BY <1>1 DEF StreamAt
  <2>2. PICK a, z : /\ WordIn(p, a, z) /\ tok = Kept(<<a, z>>)
                    /\ Len(seen) <= z + 1 /\ Within(z + 2)
    BY <1>3, <2>1 DEF InWord
  <2>3. WordIn(p, a, z)' /\ tok' = Kept(<<a, z>>)' /\ Len(seen') <= z + 1 /\ Within(z + 2)'
    BY <1>6, <1>8, <2>2
  <2>4. WordIn(Pos(m, q), a, z)'
    BY <1>5, <2>3 DEF WordIn
  <2> QED
    BY <2>1, <2>3, <2>4 DEF InWord
<1>12. pc = "execute" => InExecute(m, q)'
  BY <1>1, <1>3, <1>5, <1>9 DEF StreamAt, InExecute
<1>13. pc = "block" => InBlock(m, q)'
  BY <1>1, <1>3, <1>5, <1>9 DEF StreamAt, InBlock
<1>14. pc = "data" => InData(m, q)'
  <2>1. SUFFICES ASSUME InData(m, q) PROVE InData(m, q)'
    BY <1>1 DEF StreamAt
  <2>2. Within(Pos(m, q) + done)'
    BY <1>3, <1>5, <2>1 DEF InData, Within
  <2>3. disk' = Filled(m, words, Pos(m, q), done)'
    BY <1>3, <1>5, <2>1 DEF InData, Filled
  <2> QED
    BY <1>3, <1>5, <2>1, <2>2, <2>3 DEF InData
<1>15. StreamAt(M, k, q)'
  BY <1>1, <1>4, <1>5, <1>10, <1>11, <1>12, <1>13, <1>14 DEF StreamAt
<1> QED
  BY <1>15 DEF StreamInv

\* What a server that was killed in a send left on the disk.
LeftOnDisk == pc = "dead" => Meaning.disk = disk
\* The invariant of a connection.
ConnInv == TypeInv /\ HistoryOK /\ JoinedOK /\ StreamInv /\ LeftOnDisk

\* The bytes received and the disk at first determine the meaning of the stream.
LEMMA MeaningKept ==
  ASSUME UNCHANGED <<seen, base>>
  PROVE  Meaning' = Meaning
<1>1. \A p : WordAt(p)' = WordAt(p)
  BY DEF WordAt
<1>2. \A p : WordsFrom(p)' = WordsFrom(p)
  BY <1>1 DEF WordsFrom
<1>3. \A w : Kept(w)' = Kept(w)
  BY DEF Kept
<1>4. \A m, w, after : Effect(m, w, after)' = Effect(m, w, after)
  <2>1. \A block, after, size : Stored(block, after, size)' = Stored(block, after, size)
    BY DEF Stored
  <2> QED
    BY <2>1 DEF Effect
<1>5. \A m : Executed(m)' = Executed(m)
  BY <1>2, <1>3, <1>4 DEF Executed
<1> QED
  BY <1>5 DEF Meaning

\* Every step keeps what the server left on the disk.
LEMMA StepLeft == ConnInv /\ [Next]_vars => LeftOnDisk'
<1> SUFFICES ASSUME ConnInv, [Next]_vars, pc' = "dead"
             PROVE  (Meaning.disk = disk)'
  BY DEF LeftOnDisk
<1>1. TypeInv /\ HistoryOK /\ StreamInv /\ LeftOnDisk
  BY DEF ConnInv
<1>2. CASE BrokenPipe
  <2>1. pc \in Executing
    BY <1>2 DEF BrokenPipe, Sending, Executing
  <2>2. PICK M, k, q : StreamAt(M, k, q)
    BY <1>1, <2>1 DEF StreamInv
  <2>3. Meaning.disk = disk'
    BY <1>1, <1>2, <2>2, BrokenPipeMeans
  <2>4. Meaning' = Meaning
    BY <1>2, MeaningKept DEF BrokenPipe, history
  <2> QED
    BY <2>3, <2>4
<1>3. CASE ~BrokenPipe
  <2>1. pc = "dead" /\ UNCHANGED <<disk, seen, base>>
    <3>1. CASE Server
      BY <1>3, <3>1 DEF Server, ServerStep, Accept, Close, SkipSpace, TakeChar, EndWord,
         NoWord, AddWord, Info, Unknown, ReadRefused, ReadLine, ReadBlock, WriteRefused,
         WriteStart, WriteByte, WriteFailed, WriteEnd, NextCommand
    <3>2. CASE Start
      BY <3>2 DEF Start, Restart
    <3>3. CASE (\E c \in Clients : ClientStep(c)) \/ UNCHANGED vars
      BY <3>3 DEF ClientStep, Connect, Type, SendData, Answer, ShowBlock, Leave, vars
    <3> QED
      BY <3>1, <3>2, <3>3 DEF Next
  <2>2. Meaning' = Meaning
    BY <2>1, MeaningKept
  <2> QED
    BY <1>1, <2>1, <2>2 DEF LeftOnDisk
<1> QED
  BY <1>2, <1>3

\* Every step keeps what the server has executed.
LEMMA StepStream == ConnInv /\ [Next]_vars => StreamInv'
<1> SUFFICES ASSUME TypeInv, HistoryOK, JoinedOK, StreamInv, [Next]_vars
             PROVE  StreamInv'
  BY DEF ConnInv
<1>1. CASE Accept
  BY <1>1, AcceptStream
<1>2. CASE pc' \notin Executing
  BY <1>2 DEF StreamInv
<1>3. CASE pc \in Executing /\ pc' \in Executing
  <2>1. PICK M, k, q : StreamAt(M, k, q)
    BY <1>3 DEF StreamInv
  <2>2. pc \notin {"accept", "dead"}
    BY <1>3 DEF Executing
  <2>3. serving' = serving => (Ended => Ended')
    BY <2>2, EndedStays
  <2>4. CASE Server
    <3>1. ServerStep
      BY <2>4 DEF Server
    <3>2. ~(Accept \/ Close \/ NoWord \/ WriteFailed \/ BrokenPipe)
      BY <1>3 DEF Executing, Accept, Close, NoWord, WriteFailed, BrokenPipe
    <3>3. serving' = serving
      BY <3>1, <3>2 DEF ServerStep, SkipSpace, TakeChar, EndWord, AddWord, Info, Unknown,
                        ReadRefused, ReadLine, ReadBlock, WriteRefused, WriteStart,
                        WriteByte, WriteEnd, Send
    <3>4. Ended => Ended'
      BY <2>3, <3>3
    <3> QED
      BY <2>1, <3>1, <3>2, <3>4, SkipSpaceStream, TakeCharStream, EndWordStream,
         AddWordStream, AnswerStream, ReadLineStream, ReadBlockStream, WriteStartStream,
         WriteByteStream, WriteEndStream DEF ServerStep
  <2>5. CASE Start
    BY <1>3, <2>5 DEF Start, Restart, Executing
  <2>6. CASE (\E c \in Clients : ClientStep(c)) \/ UNCHANGED vars
    <3>1. UNCHANGED <<disk, serving, pc, tok, words, done, seen, log, base>>
      BY <2>6 DEF ClientStep, Connect, Type, SendData, Answer, ShowBlock, Leave, vars
    <3>2. Ended => Ended'
      BY <2>3, <3>1
    <3> QED
      BY <2>1, <3>1, <3>2, StreamKept
  <2> QED
    BY <2>4, <2>5, <2>6 DEF Next
<1>4. ASSUME ~Accept
      PROVE  pc \in Executing \/ pc' \notin Executing
  <2>1. CASE Server
    BY <1>4, <2>1 DEF Server, ServerStep, Executing, Close, SkipSpace, TakeChar, EndWord,
       NoWord, AddWord, Info, Unknown, ReadRefused, ReadLine, ReadBlock, WriteRefused,
       WriteStart, WriteByte, WriteFailed, WriteEnd, BrokenPipe, Sending
  <2>2. CASE Start
    BY <2>2 DEF Start, Restart, Executing
  <2>3. CASE (\E c \in Clients : ClientStep(c)) \/ UNCHANGED vars
    BY <2>3 DEF ClientStep, Connect, Type, SendData, Answer, ShowBlock, Leave, vars
  <2> QED
    BY <2>1, <2>2, <2>3 DEF Next
<1> QED
  BY <1>1, <1>2, <1>3, <1>4

\* The invariant of a connection holds at first.
LEMMA InitConn == Init => ConnInv
<1>1. Init => StreamInv /\ LeftOnDisk
  BY DEF Init, ServerInit, StreamInv, Executing, LeftOnDisk
<1> QED
  BY <1>1, InitTypeInv, InitHistory DEF ConnInv

\* Every step keeps the invariant of a connection.
LEMMA StepConn == ConnInv /\ [Next]_vars => ConnInv'
<1> SUFFICES ASSUME ConnInv, [Next]_vars
             PROVE  ConnInv'
  OBVIOUS
<1>1. TypeInv'
  BY StepTypeInv DEF ConnInv
<1>2. HistoryOK'
  BY StepHistory DEF ConnInv
<1>3. JoinedOK'
  BY StepJoined DEF ConnInv
<1>4. StreamInv'
  BY StepStream
<1>5. LeftOnDisk'
  BY StepLeft
<1> QED
  BY <1>1, <1>2, <1>3, <1>4, <1>5 DEF ConnInv

\* Between two commands the result of the last one is the meaning of the stream.
LEMMA ConnMeans == ConnInv => ExecutesStream
<1> SUFFICES ASSUME ConnInv, pc = "token", words = <<>>, tok = <<>>
             PROVE  Meaning.disk = disk /\ Meaning.log = log
  BY DEF ExecutesStream, ConnInv, LeftOnDisk
<1>1. PICK M, k, q : StreamAt(M, k, q)
  BY DEF ConnInv, StreamInv, Executing
<1>2. PICK m : m = M[k]
  OBVIOUS
<1>3. Chain(M, k) /\ InToken(m, q)
  BY <1>1, <1>2 DEF StreamAt
<1>4. Pos(m, q) = m.next
  <2>1. Len(words) + 1 = 1
    OBVIOUS
  <2> QED
    BY <2>1 DEF Pos, From
<1>5. disk = m.disk /\ log = m.log /\ Blank(m.next)
  BY <1>3, <1>4 DEF InToken
<1>6. Meaning = M[k]
  BY <1>2, <1>3, <1>5, ChainIsMeaning DEF ConnInv, HistoryOK
<1> QED
  BY <1>2, <1>5, <1>6

\* Whatever the pieces in which the bytes of a connection arrive, and whoever
\* leaves in the middle of a word, a header or the data of a write: the server has
\* answered, and its disk holds, what the bytes mean; and when SIGPIPE ends it in the
\* middle of an answer, the disk file that is left holds what they mean.
THEOREM StreamMeaning == Spec => []ExecutesStream
<1> QED
  BY InitConn, StepConn, ConnMeans, PTL DEF Spec

-----------------------------------------------------------------------------
\* What a client that is at its prompt can rely on.  First the numbers: a word that
\* printf wrote is read by atoi as the number that was written.

\* A digit is read for what it is, and anything else as nothing.
Value(ch) == IF IsDigit(ch) THEN DigitOf(ch) ELSE 0

\* A character is worth a digit.
LEMMA ValueIsDigit == \A ch : Value(ch) \in 0 .. 9
<1> SUFFICES ASSUME NEW ch, IsDigit(ch) PROVE DigitOf(ch) \in 0 .. 9
  BY DEF Value
<1>1. PICK n \in 1 .. 10 : Digits[n] = ch
  BY DEF IsDigit
<1>2. n - 1 \in 0 .. 9 /\ Digits[(n - 1) + 1] = ch
  BY <1>1
<1> QED
  BY <1>2 DEF DigitOf

\* A digit is read back as the number it spells.
LEMMA DigitsAreSpelled ==
  \A n \in 0 .. 9 : /\ Value(Digits[n + 1]) = n
                    /\ Digits[n + 1] \notin {Space, "-"}
<1> TAKE n \in 0 .. 9
<1>1. DigitOf(Digits[n + 1]) = n
  BY DEF DigitOf, Digits
<1>2. IsDigit(Digits[n + 1])
  <2>1. n + 1 \in 1 .. 10
    OBVIOUS
  <2> QED
    BY <2>1 DEF IsDigit
<1>3. Digits[n + 1] \in {"0", "1", "2", "3", "4", "5", "6", "7", "8", "9"}
  BY DEF Digits
<1> QED
  BY <1>1, <1>2, <1>3 DEF Space, Value

\* atoi of a word of one character.
LEMMA AtoiOne ==
  ASSUME NEW ch
  PROVE  Atoi(<<ch>>) \in 0 .. 9 /\ (ch # "-" => Atoi(<<ch>>) = Value(ch))
<1> DEFINE w == <<ch>>
           first == IF w # <<>> /\ w[1] = "-" THEN 2 ELSE 1
           Runs(f) ==
             f = [i \in first - 1 .. Len(w) |->
                    IF i < first THEN 0
                    ELSE IF \A j \in first .. i : IsDigit(w[j])
                         THEN 10 * f[i - 1] + DigitOf(w[i]) ELSE f[i - 1]]
           v == CHOOSE f : Runs(f)
<1>1. Atoi(w) = IF w # <<>> /\ w[1] = "-" THEN -v[Len(w)] ELSE v[Len(w)]
  BY DEF Atoi
<1>2. w # <<>> /\ w[1] = ch /\ Len(w) = 1
  OBVIOUS
<1>3. CASE ch = "-"
  <2>1. first = 2
    BY <1>2, <1>3
  <2> DEFINE F == [i \in 1 .. 1 |-> 0]
  <2>2. Runs(F)
    BY <1>2, <2>1
  <2>3. Runs(v)
    BY <2>2
  <2>4. v[1] = 0
    <3> HIDE DEF v
    <3> QED
      BY <1>2, <2>1, <2>3
  <2>5. Atoi(w) = 0
    <3>1. v[Len(w)] = 0
      BY <1>2, <2>4
    <3> HIDE DEF v
    <3>2. Atoi(w) = -v[Len(w)]
      BY <1>1, <1>2, <1>3
    <3>3. PICK x : x = v[Len(w)]
      OBVIOUS
    <3> HIDE DEF w
    <3>4. x = 0 /\ Atoi(w) = -x
      BY <3>1, <3>2, <3>3
    <3>5. \A y, z \in Int : z = -y /\ y <= 0 /\ y >= 0 => z = 0
      OBVIOUS
    <3>6. x \in Int /\ Atoi(w) \in Int /\ x <= 0 /\ x >= 0
      BY <3>4
    <3> QED
      BY <3>4, <3>5, <3>6
  <2> QED
    BY <1>3, <2>5
<1>4. CASE ch # "-"
  <2>1. first = 1
    BY <1>2, <1>4
  <2> DEFINE F == [i \in 0 .. 1 |-> IF i = 0 THEN 0 ELSE Value(ch)]
  <2>2. F[0] = 0 /\ F[1] = Value(ch) /\ Value(ch) \in 0 .. 9
    BY ValueIsDigit
  <2>3. Runs(F)
    <3> HIDE DEF F
    <3>1. \A i \in 0 .. 1 :
            F[i] = IF i < 1 THEN 0
                   ELSE IF \A j \in 1 .. i : IsDigit(w[j])
                        THEN 10 * F[i - 1] + DigitOf(w[i]) ELSE F[i - 1]
      <4>1. \A j : j \in 1 .. 1 <=> j = 1
        OBVIOUS
      <4>2. CASE IsDigit(ch)
        <5>1. F[1] = DigitOf(ch) /\ DigitOf(ch) \in 0 .. 9
          BY <2>2, <4>2 DEF Value
        <5>2. F[1] = 10 * F[0] + DigitOf(ch)
          BY <2>2, <5>1
        <5> HIDE DEF w
        <5> QED
          BY <1>2, <2>2, <4>1, <4>2, <5>2
      <4>3. CASE ~IsDigit(ch)
        <5>1. F[1] = 0
          BY <2>2, <4>3 DEF Value
        <5> HIDE DEF w
        <5> QED
          BY <1>2, <2>2, <4>1, <4>3, <5>1
      <4> QED
        BY <4>2, <4>3
    <3>2. F = [i \in 0 .. 1 |-> F[i]]
      BY DEF F
    <3> HIDE DEF w
    <3> QED
      BY <1>2, <2>1, <3>1, <3>2
  <2>4. Runs(v)
    BY <2>3
  <2>5. v[0] = 0 /\ v[1] = Value(ch)
    <3> HIDE DEF v
    <3>1. \A j : j \in 1 .. 1 <=> j = 1
      OBVIOUS
    <3>2. v[0] = 0
      <4> HIDE DEF w
      <4> QED
      BY <1>2, <2>1, <2>4
    <3>3. v[1] = IF \A j \in 1 .. 1 : IsDigit(w[j]) THEN 10 * v[0] + DigitOf(w[1]) ELSE v[0]
      <4> HIDE DEF w
      <4> QED
      BY <1>2, <2>1, <2>4
    <3> HIDE DEF w
    <3>4. CASE IsDigit(ch)
      <4>1. v[1] = 10 * v[0] + DigitOf(ch) /\ Value(ch) = DigitOf(ch)
        BY <1>2, <3>1, <3>3, <3>4 DEF Value
      <4> QED
        BY <2>2, <3>2, <4>1
    <3>5. CASE ~IsDigit(ch)
      BY <1>2, <3>1, <3>2, <3>3, <3>5 DEF Value
    <3> QED
      BY <3>2, <3>4, <3>5
  <2>6. Atoi(w) = Value(ch)
    <3> HIDE DEF v, w
    <3> QED
      BY <1>1, <1>2, <1>4, <2>5
  <2> HIDE DEF F
  <2> QED
    BY <2>2, <2>6
<1> QED
  BY <1>3, <1>4

\* atoi of a digit with a sign.
LEMMA AtoiTwo ==
  ASSUME NEW ch
  PROVE  Atoi(<<"-", ch>>) = -Value(ch)
<1> DEFINE w == <<"-", ch>>
           first == IF w # <<>> /\ w[1] = "-" THEN 2 ELSE 1
           Runs(f) ==
             f = [i \in first - 1 .. Len(w) |->
                    IF i < first THEN 0
                    ELSE IF \A j \in first .. i : IsDigit(w[j])
                         THEN 10 * f[i - 1] + DigitOf(w[i]) ELSE f[i - 1]]
           v == CHOOSE f : Runs(f)
           F == [i \in 1 .. 2 |-> IF i = 1 THEN 0 ELSE Value(ch)]
<1>1. Atoi(w) = IF w # <<>> /\ w[1] = "-" THEN -v[Len(w)] ELSE v[Len(w)]
  BY DEF Atoi
<1>2. w # <<>> /\ w[1] = "-" /\ w[2] = ch /\ Len(w) = 2
  OBVIOUS
<1>3. first = 2
  BY <1>2
<1>4. F[1] = 0 /\ F[2] = Value(ch) /\ Value(ch) \in 0 .. 9
  BY ValueIsDigit
<1>5. \A j : j \in 2 .. 2 <=> j = 2
  OBVIOUS
<1>6. Runs(F)
  <2>1. F = [i \in 1 .. 2 |-> F[i]]
    OBVIOUS
  <2> HIDE DEF F
  <2>2. \A i \in 1 .. 2 :
          F[i] = IF i < 2 THEN 0
                 ELSE IF \A j \in 2 .. i : IsDigit(w[j])
                      THEN 10 * F[i - 1] + DigitOf(w[i]) ELSE F[i - 1]
    <3>1. CASE IsDigit(ch)
      <4>1. F[2] = DigitOf(ch) /\ DigitOf(ch) \in 0 .. 9
        BY <1>4, <3>1 DEF Value
      <4>2. F[2] = 10 * F[1] + DigitOf(ch)
        BY <1>4, <4>1
      <4> HIDE DEF w
      <4> QED
        BY <1>2, <1>4, <1>5, <3>1, <4>2
    <3>2. CASE ~IsDigit(ch)
      <4>1. F[2] = 0
        BY <1>4, <3>2 DEF Value
      <4> HIDE DEF w
      <4> QED
        BY <1>2, <1>4, <1>5, <3>2, <4>1
    <3> QED
      BY <3>1, <3>2
  <2> HIDE DEF w
  <2> QED
    BY <1>2, <1>3, <2>1, <2>2
<1>7. Runs(v)
  BY <1>6
<1>8. v[2] = Value(ch)
  <2> HIDE DEF v, F
  <2>1. v[1] = 0
    <3> HIDE DEF w
    <3> QED
      BY <1>2, <1>3, <1>7
  <2>2. v[2] = IF \A j \in 2 .. 2 : IsDigit(w[j]) THEN 10 * v[1] + DigitOf(w[2]) ELSE v[1]
    <3> HIDE DEF w
    <3> QED
      BY <1>2, <1>3, <1>7
  <2>3. CASE IsDigit(ch)
    <3>1. v[2] = 10 * v[1] + DigitOf(ch) /\ Value(ch) = DigitOf(ch)
      BY <1>2, <1>5, <2>2, <2>3 DEF Value
    <3> QED
      BY <1>4, <2>1, <3>1
  <2>4. CASE ~IsDigit(ch)
    BY <1>2, <1>5, <2>1, <2>2, <2>4 DEF Value
  <2> QED
    BY <2>3, <2>4
<1>9. Atoi(w) = -Value(ch)
  <2> HIDE DEF v, w
  <2> QED
    BY <1>1, <1>2, <1>8
<1> QED
  BY <1>9

\* A number that is written is read back, and it is a word that a token holds.
LEMMA NumbersAreRead ==
  ASSUME NEW n \in -9 .. 9
  PROVE  /\ Atoi(Decimal(n)) = n
         /\ Len(Decimal(n)) \in 1 .. 2
         /\ \A i \in 1 .. Len(Decimal(n)) : Decimal(n)[i] # Space
<1>1. CASE n < 0
  <2>1. -n \in 0 .. 9 /\ 1 - n = (-n) + 1
    BY <1>1
  <2>2. PICK d : d = Digits[1 - n]
    OBVIOUS
  <2>3. Value(d) = -n /\ d # Space
    BY <2>1, <2>2, DigitsAreSpelled
  <2>4. Decimal(n) = <<"-", d>>
    BY <1>1, <2>2 DEF Decimal
  <2>5. Atoi(Decimal(n)) = n
    BY <2>3, <2>4, AtoiTwo
  <2>6. "-" # Space
    BY DEF Space
  <2> QED
    BY <2>3, <2>4, <2>5, <2>6
<1>2. CASE ~(n < 0)
  <2>1. n \in 0 .. 9
    BY <1>2
  <2>2. PICK d : d = Digits[n + 1]
    OBVIOUS
  <2>3. Value(d) = n /\ d \notin {Space, "-"}
    BY <2>1, <2>2, DigitsAreSpelled
  <2>4. Decimal(n) = <<d>>
    BY <1>2, <2>2 DEF Decimal
  <2>5. Atoi(Decimal(n)) = n
    BY <2>3, <2>4, AtoiOne
  <2> QED
    BY <2>3, <2>4, <2>5
<1> QED
  BY <1>1, <1>2

-----------------------------------------------------------------------------
\* The header of a line, as words and as what is left of its bytes.

\* The words of the header of a line, and its bytes from word j on.
HeaderWords(l) ==
  CASE l.op = "I" -> <<<<"I">>>>
    [] l.op = "R" -> <<<<"R">>, Decimal(l.cyl), Decimal(l.sec)>>
    [] OTHER -> <<<<"W">>, Decimal(WriteCyl(l)), Decimal(WriteSec(l)), Decimal(Len(l.data))>>
\* A word of the header and the space after it.
Part(l, j) ==
  IF j <= Len(HeaderWords(l)) THEN HeaderWords(l)[j] \o <<Space>> ELSE <<>>
\* The header from its word j on.
Rest(l, j) ==
  CASE j = 1 -> Part(l, 1) \o (Part(l, 2) \o (Part(l, 3) \o Part(l, 4)))
    [] j = 2 -> Part(l, 2) \o (Part(l, 3) \o Part(l, 4))
    [] j = 3 -> Part(l, 3) \o Part(l, 4)
    [] j = 4 -> Part(l, 4)
    [] OTHER -> <<>>

\* The characters of headers.
Char == Byte \cup {"I", "R", "W", "-", Space} \cup {Digits[n] : n \in 1 .. 10}

\* Concatenation, over the characters of headers: it is closed,
LEMMA ConcatSeq == \A s, t \in Seq(Char) : s \o t \in Seq(Char)
  BY ConcatProperties
\* it is associative,
LEMMA ConcatAssoc == \A s, t, u \in Seq(Char) : (s \o t) \o u = s \o (t \o u)
  BY ConcatAssociative
\* and the empty sequence is its unit.
LEMMA ConcatNil == \A s \in Seq(Char) : s \o <<>> = s /\ <<>> \o s = s
  BY ConcatEmptySeq

\* Spaces, commands and data are sequences of characters.
LEMMA CharSequences ==
  /\ <<Space>> \in Seq(Char) /\ <<>> \in Seq(Char)
  /\ \A ch \in {"I", "R", "W"} : <<ch>> \in Seq(Char)
  /\ Seq(Byte) \subseteq Seq(Char)
<1>1. \A ch \in {"I", "R", "W", Space} : ch \in Char
  BY DEF Char
<1>2. Byte \subseteq Char
  BY DEF Char
<1>3. \A ch \in Char : <<ch>> \in Seq(Char)
  OBVIOUS
<1>4. ASSUME NEW s \in Seq(Byte) PROVE s \in Seq(Char)
  BY <1>2
<1>5. Seq(Byte) \subseteq Seq(Char)
  BY <1>4
<1>6. <<>> \in Seq(Char)
  OBVIOUS
<1> QED
  BY <1>1, <1>3, <1>5, <1>6

\* A word of a header fits in a token and contains no space.
IsWord(w) ==
  /\ w \in Seq(Char) /\ Len(w) \in 1 .. MaxTok
  /\ \A i \in 1 .. Len(w) : w[i] # Space

\* The name of a command is a word.
LEMMA CommandIsWord == \A ch \in {"I", "R", "W"} : IsWord(<<ch>>)
<1> TAKE ch \in {"I", "R", "W"}
<1>1. ch # Space
  BY DEF Space
<1>2. <<ch>> \in Seq(Char)
  BY CharSequences
<1>3. MaxTok \in Nat /\ 1 <= MaxTok
  BY GeometryAssumption
<1>4. Len(<<ch>>) \in 1 .. MaxTok
  BY <1>3
<1> QED
  BY <1>1, <1>2, <1>4 DEF IsWord

\* A number is a word.
LEMMA NumberIsWord == \A n \in -9 .. 9 : IsWord(Decimal(n))
<1> TAKE n \in -9 .. 9
<1>1. Decimal(n) \in Seq(Char)
  <2>1. CASE n < 0
    <3>1. 1 - n \in 1 .. 10
      BY <2>1
    <3>2. Digits[1 - n] \in Char /\ "-" \in Char
      BY <3>1 DEF Char
    <3> QED
      BY <2>1, <3>2 DEF Decimal
  <2>2. CASE ~(n < 0)
    <3>1. n + 1 \in 1 .. 10
      BY <2>2
    <3>2. Digits[n + 1] \in Char
      BY <3>1 DEF Char
    <3> QED
      BY <2>2, <3>2 DEF Decimal
  <2> QED
    BY <2>1, <2>2
<1>2. Len(Decimal(n)) \in 1 .. 2 /\ \A i \in 1 .. Len(Decimal(n)) : Decimal(n)[i] # Space
  BY NumbersAreRead
<1>3. 2 <= MaxTok /\ MaxTok \in Nat
  BY LinesAssumption, HeadersAssumption, GeometryAssumption
<1> QED
  BY <1>1, <1>2, <1>3 DEF IsWord

\* The numbers of a header.
LEMMA LineNumbers ==
  ASSUME NEW l \in Lines
  PROVE  /\ l.op \in {"I", "R", "W"}
         /\ l.cyl \in -9 .. 9 /\ l.sec \in -9 .. 9
         /\ WriteCyl(l) \in -9 .. 9 /\ WriteSec(l) \in -9 .. 9
         /\ l.data \in Seq(Byte) /\ Len(l.data) \in -9 .. 9
         /\ l.op # "W" => l.data = <<>>
<1>1. WriteSec(l) \in 0 .. 9
  BY AtoiOne DEF WriteSec
<1>2. Len(l.data) \in Nat /\ Len(l.data) <= 9
  BY LinesAssumption, HeadersAssumption
<1>3. Len(l.data) \in -9 .. 9 /\ WriteSec(l) \in -9 .. 9
  <2>1. \A n \in Nat : n <= 9 => n \in -9 .. 9
    OBVIOUS
  <2>2. WriteSec(l) \in Nat /\ WriteSec(l) <= 9
    BY <1>1
  <2> QED
    BY <1>2, <2>1, <2>2
<1>4. /\ l.op \in {"I", "R", "W"} /\ l.cyl \in -9 .. 9 /\ l.sec \in -9 .. 9
      /\ l.data \in Seq(Byte) /\ (l.op # "W" => l.data = <<>>)
  BY LinesAssumption, HeadersAssumption
<1>5. WriteCyl(l) \in -9 .. 9
  BY <1>4 DEF WriteCyl
<1> QED
  BY <1>3, <1>4, <1>5

\* The words of a header are as many as its command needs.
LEMMA HeaderWordsAre ==
  ASSUME NEW l \in Lines
  PROVE  /\ HeaderWords(l) \in Seq(Seq(Char)) /\ Len(HeaderWords(l)) \in 1 .. 4
         /\ Len(HeaderWords(l)) = WordsOf(HeaderWords(l)[1])
         /\ \A j \in 1 .. Len(HeaderWords(l)) : IsWord(HeaderWords(l)[j])
         /\ HeaderWords(l)[1] = <<l.op>>
<1> PICK W : W = HeaderWords(l)
  OBVIOUS
<1>0. l.op \in {"I", "R", "W"}
  BY LineNumbers
<1>1. CASE l.op = "I"
  <2>1. W = <<<<"I">>>>
    BY <1>1 DEF HeaderWords
  <2>2. IsWord(<<"I">>)
    BY CommandIsWord
  <2>3. WordsOf(<<"I">>) = 1
    BY DEF WordsOf
  <2>4. Len(W) = 1 /\ W[1] = <<"I">> /\ W \in Seq(Seq(Char))
    BY <2>1, <2>2 DEF IsWord
  <2> QED
    BY <1>1, <2>2, <2>3, <2>4
<1>2. CASE l.op = "R"
  <2> DEFINE c == Decimal(l.cyl)
             s == Decimal(l.sec)
  <2>1. W = <<<<"R">>, c, s>>
    BY <1>2 DEF HeaderWords
  <2>2. IsWord(<<"R">>) /\ IsWord(c) /\ IsWord(s)
    BY CommandIsWord, NumberIsWord, LineNumbers
  <2>3. WordsOf(<<"R">>) = 3
    BY DEF WordsOf
  <2> HIDE DEF c, s
  <2>4. Len(W) = 3 /\ W[1] = <<"R">> /\ W[2] = c /\ W[3] = s /\ W \in Seq(Seq(Char))
    BY <2>1, <2>2 DEF IsWord
  <2>5. \A j \in 1 .. 3 : j = 1 \/ j = 2 \/ j = 3
    OBVIOUS
  <2> QED
    BY <1>2, <2>2, <2>3, <2>4, <2>5
<1>3. CASE l.op = "W"
  <2> DEFINE c == Decimal(WriteCyl(l))
             s == Decimal(WriteSec(l))
             n == Decimal(Len(l.data))
  <2>1. W = <<<<"W">>, c, s, n>>
    BY <1>3 DEF HeaderWords
  <2>2. IsWord(<<"W">>) /\ IsWord(c) /\ IsWord(s) /\ IsWord(n)
    BY CommandIsWord, NumberIsWord, LineNumbers
  <2>3. WordsOf(<<"W">>) = 4
    BY DEF WordsOf
  <2> HIDE DEF c, s, n
  <2>4. /\ Len(W) = 4 /\ W[1] = <<"W">> /\ W[2] = c /\ W[3] = s /\ W[4] = n
        /\ W \in Seq(Seq(Char))
    BY <2>1, <2>2 DEF IsWord
  <2>5. \A j \in 1 .. 4 : j = 1 \/ j = 2 \/ j = 3 \/ j = 4
    OBVIOUS
  <2> QED
    BY <1>3, <2>2, <2>3, <2>4, <2>5
<1> QED
  BY <1>0, <1>1, <1>2, <1>3

\* What the words of a header are taken for.
LEMMA HeaderMeans ==
  ASSUME NEW l \in Lines
  PROVE  /\ l.op = "R" => /\ Cyl(HeaderWords(l)) = l.cyl
                          /\ Sec(HeaderWords(l)) = l.sec
         /\ l.op = "W" => DataLen(HeaderWords(l)) = Len(l.data)
<1>1. CASE l.op = "R"
  <2>1. HeaderWords(l)[2] = Decimal(l.cyl) /\ HeaderWords(l)[3] = Decimal(l.sec)
    BY <1>1 DEF HeaderWords
  <2> QED
    BY <1>1, <2>1, LineNumbers, NumbersAreRead DEF Cyl, Sec
<1>2. CASE l.op = "W"
  <2>1. HeaderWords(l)[4] = Decimal(Len(l.data))
    BY <1>2 DEF HeaderWords
  <2> QED
    BY <1>2, <2>1, LineNumbers, NumbersAreRead DEF DataLen
<1> QED
  BY <1>1, <1>2

\* The rest of a header is its next word, a space and the rest.
LEMMA RestIs ==
  ASSUME NEW l \in Lines
  PROVE  /\ \A j \in 1 .. 5 : Rest(l, j) \in Seq(Char)
         /\ \A j \in 1 .. Len(HeaderWords(l)) :
              Rest(l, j) = HeaderWords(l)[j] \o (<<Space>> \o Rest(l, j + 1))
         /\ Rest(l, Len(HeaderWords(l)) + 1) = <<>>
<1> PICK W : W = HeaderWords(l)
  OBVIOUS
<1>1. Len(W) \in 1 .. 4 /\ \A j \in 1 .. Len(W) : W[j] \in Seq(Char)
  BY HeaderWordsAre DEF IsWord
<1>2. \A j : Part(l, j) = IF j <= Len(W) THEN W[j] \o <<Space>> ELSE <<>>
  BY DEF Part
<1>3. \A j \in 1 .. 4 : Part(l, j) \in Seq(Char)
  <2> TAKE j \in 1 .. 4
  <2>1. CASE j <= Len(W)
    <3>1. W[j] \in Seq(Char) /\ <<Space>> \in Seq(Char)
      BY <1>1, <2>1, CharSequences
    <3>2. W[j] \o <<Space>> \in Seq(Char)
      BY <3>1, ConcatSeq
    <3> QED
      BY <1>2, <2>1, <3>2
  <2>2. CASE ~(j <= Len(W))
    BY <1>2, <2>2, CharSequences
  <2> QED
    BY <2>1, <2>2
<1>4. /\ Rest(l, 5) = <<>> /\ Rest(l, 4) = Part(l, 4)
      /\ Rest(l, 3) = Part(l, 3) \o Rest(l, 4)
      /\ Rest(l, 2) = Part(l, 2) \o Rest(l, 3)
      /\ Rest(l, 1) = Part(l, 1) \o Rest(l, 2)
  BY DEF Rest
<1>5. Rest(l, 5) \in Seq(Char) /\ Rest(l, 4) \in Seq(Char)
  <2>1. <<>> \in Seq(Char)
    BY CharSequences
  <2>2. Part(l, 4) \in Seq(Char)
    BY <1>3
  <2> QED
    BY <1>4, <2>1, <2>2
<1>6. Rest(l, 3) \in Seq(Char)
  <2>1. Part(l, 3) \in Seq(Char) /\ Rest(l, 4) \in Seq(Char)
    BY <1>3, <1>5
  <2> QED
    BY <1>4, <2>1, ConcatSeq
<1>7. Rest(l, 2) \in Seq(Char)
  <2>1. Part(l, 2) \in Seq(Char) /\ Rest(l, 3) \in Seq(Char)
    BY <1>3, <1>6
  <2> QED
    BY <1>4, <2>1, ConcatSeq
<1>8. Rest(l, 1) \in Seq(Char)
  <2>1. Part(l, 1) \in Seq(Char) /\ Rest(l, 2) \in Seq(Char)
    BY <1>3, <1>7
  <2> QED
    BY <1>4, <2>1, ConcatSeq
<1>9. \A j \in 1 .. 5 : Rest(l, j) \in Seq(Char)
  <2>1. \A j \in 1 .. 5 : j = 1 \/ j = 2 \/ j = 3 \/ j = 4 \/ j = 5
    OBVIOUS
  <2> QED
    BY <1>5, <1>6, <1>7, <1>8, <2>1
<1>10. \A j \in 1 .. 4 : Rest(l, j) = Part(l, j) \o Rest(l, j + 1)
  <2>1. Rest(l, 4) = Part(l, 4) \o Rest(l, 5)
    <3>1. Part(l, 4) \in Seq(Char)
      BY <1>3
    <3> QED
      BY <1>4, <3>1, ConcatNil
  <2> TAKE j \in 1 .. 4
  <2>2. (j = 1 /\ j + 1 = 2) \/ (j = 2 /\ j + 1 = 3) \/ (j = 3 /\ j + 1 = 4) \/ (j = 4 /\ j + 1 = 5)
    OBVIOUS
  <2> QED
    BY <1>4, <2>1, <2>2
<1>11. ASSUME NEW j \in 1 .. Len(W)
       PROVE  Rest(l, j) = W[j] \o (<<Space>> \o Rest(l, j + 1))
  <2>1. j \in 1 .. 4 /\ j + 1 \in 1 .. 5 /\ j <= Len(W)
    BY <1>1
  <2>2. Rest(l, j) = (W[j] \o <<Space>>) \o Rest(l, j + 1)
    BY <1>2, <1>10, <2>1
  <2>3. W[j] \in Seq(Char) /\ <<Space>> \in Seq(Char) /\ Rest(l, j + 1) \in Seq(Char)
    BY <1>1, <1>9, <2>1, CharSequences
  <2> QED
    BY <2>2, <2>3, ConcatAssoc
<1>12. Rest(l, Len(W) + 1) = <<>>
  <2>1. \A j \in 1 .. 4 : j > Len(W) => Part(l, j) = <<>>
    BY <1>1, <1>2
  <2>2. <<>> \o <<>> = <<>>
    BY CharSequences, ConcatNil
  <2>3. CASE Len(W) = 1
    <3>1. Part(l, 2) = <<>> /\ Part(l, 3) = <<>> /\ Part(l, 4) = <<>> /\ Len(W) + 1 = 2
      BY <2>1, <2>3
    <3> QED
      BY <1>4, <2>2, <3>1
  <2>4. CASE Len(W) = 2
    <3>1. Part(l, 3) = <<>> /\ Part(l, 4) = <<>> /\ Len(W) + 1 = 3
      BY <2>1, <2>4
    <3> QED
      BY <1>4, <2>2, <3>1
  <2>5. CASE Len(W) = 3
    <3>1. Part(l, 4) = <<>> /\ Len(W) + 1 = 4
      BY <2>1, <2>5
    <3> QED
      BY <1>4, <3>1
  <2>6. CASE Len(W) = 4
    BY <1>4, <2>6
  <2>7. Len(W) = 1 \/ Len(W) = 2 \/ Len(W) = 3 \/ Len(W) = 4
    BY <1>1
  <2> QED
    BY <2>3, <2>4, <2>5, <2>6, <2>7
<1> QED
  BY <1>9, <1>11, <1>12

\* The client sends the words of the header with a space after each.
LEMMA HeaderIsRest ==
  ASSUME NEW l \in Lines
  PROVE  Header(l) = Rest(l, 1)
<1> PICK p1, p2, p3, p4 : /\ p1 = Part(l, 1) /\ p2 = Part(l, 2)
                          /\ p3 = Part(l, 3) /\ p4 = Part(l, 4)
  OBVIOUS
<1>1. Rest(l, 1) = p1 \o (p2 \o (p3 \o p4))
  BY DEF Rest
<1>2. ASSUME NEW w, IsWord(w)
      PROVE  w \o <<Space>> \in Seq(Char) /\ (w \o <<Space>>) \o <<>> = w \o <<Space>>
  BY <1>2, CharSequences, ConcatSeq, ConcatNil DEF IsWord
<1>3. <<>> \o <<>> = <<>>
  BY CharSequences, ConcatNil
<1>4. CASE l.op = "I"
  <2>1. HeaderWords(l) = <<<<"I">>>> /\ Header(l) = <<"I">> \o <<Space>>
    BY <1>4 DEF HeaderWords, Header, Word
  <2>2. p1 = <<"I">> \o <<Space>> /\ p2 = <<>> /\ p3 = <<>> /\ p4 = <<>>
    BY <2>1 DEF Part
  <2>3. IsWord(<<"I">>)
    BY CommandIsWord
  <2> QED
    BY <1>1, <1>2, <1>3, <2>1, <2>2, <2>3
<1>5. CASE l.op = "R"
  <2>1. /\ HeaderWords(l) = <<<<"R">>, Decimal(l.cyl), Decimal(l.sec)>>
        /\ Header(l) = (<<"R">> \o <<Space>>) \o
              ((Decimal(l.cyl) \o <<Space>>) \o (Decimal(l.sec) \o <<Space>>))
    BY <1>5 DEF HeaderWords, Header, Number, Word
  <2>2. /\ p1 = <<"R">> \o <<Space>> /\ p2 = Decimal(l.cyl) \o <<Space>>
        /\ p3 = Decimal(l.sec) \o <<Space>> /\ p4 = <<>>
    BY <2>1 DEF Part
  <2>3. IsWord(Decimal(l.sec))
    BY LineNumbers, NumberIsWord
  <2>4. p3 \o p4 = p3
    BY <1>2, <2>2, <2>3
  <2> QED
    BY <1>1, <2>1, <2>2, <2>4
<1>6. CASE l.op = "W"
  <2>1. /\ HeaderWords(l) = <<<<"W">>, Decimal(WriteCyl(l)), Decimal(WriteSec(l)),
                              Decimal(Len(l.data))>>
        /\ Header(l) = (<<"W">> \o <<Space>>) \o ((Decimal(WriteCyl(l)) \o <<Space>>) \o
              ((Decimal(WriteSec(l)) \o <<Space>>) \o (Decimal(Len(l.data)) \o <<Space>>)))
    BY <1>6 DEF HeaderWords, Header, Number, Word
  <2>2. /\ p1 = <<"W">> \o <<Space>> /\ p2 = Decimal(WriteCyl(l)) \o <<Space>>
        /\ p3 = Decimal(WriteSec(l)) \o <<Space>> /\ p4 = Decimal(Len(l.data)) \o <<Space>>
    <3>1. PICK c, s, n : /\ c = Decimal(WriteCyl(l)) /\ s = Decimal(WriteSec(l))
                         /\ n = Decimal(Len(l.data))
      OBVIOUS
    <3>2. PICK W : W = HeaderWords(l)
      OBVIOUS
    <3>3. W = <<<<"W">>, c, s, n>>
      BY <2>1, <3>1, <3>2
    <3>4. Len(W) = 4 /\ W[1] = <<"W">> /\ W[2] = c /\ W[3] = s /\ W[4] = n
      BY <3>3
    <3>5. /\ Part(l, 1) = W[1] \o <<Space>> /\ Part(l, 2) = W[2] \o <<Space>>
          /\ Part(l, 3) = W[3] \o <<Space>> /\ Part(l, 4) = W[4] \o <<Space>>
      <4>1. 1 <= Len(W) /\ 2 <= Len(W) /\ 3 <= Len(W) /\ 4 <= Len(W)
        BY <3>4
      <4> QED
        BY <3>2, <4>1 DEF Part
    <3>6. /\ Part(l, 1) = <<"W">> \o <<Space>> /\ Part(l, 2) = c \o <<Space>>
          /\ Part(l, 3) = s \o <<Space>> /\ Part(l, 4) = n \o <<Space>>
      BY <3>4, <3>5
    <3> QED
      BY <3>1, <3>6
  <2> QED
    BY <1>1, <2>1, <2>2
<1> QED
  BY <1>4, <1>5, <1>6, LineNumbers

-----------------------------------------------------------------------------
\* The stream that the server reads a header from: what is left of a word, a space,
\* the rest of the header, the data that was sent behind it.

\* The first byte of a stream in pieces comes from the first piece that is not empty.
LEMMA HeadOfConcat ==
  ASSUME NEW s \in Seq(Char), NEW t \in Seq(Char), s # <<>>
  PROVE  s \o t # <<>> /\ Head(s \o t) = s[1] /\ Tail(s \o t) = Tail(s) \o t
<1>1. PICK m, n, y : m = Len(s) /\ n = Len(t) /\ y = s \o t
  OBVIOUS
<1>2. m \in Nat \ {0} /\ n \in Nat
  BY <1>1, EmptySeq, LenProperties
<1>3. PICK q \in Nat : m = q + 1
  <2>1. m - 1 \in Nat /\ m = (m - 1) + 1
    BY <1>2
  <2> QED
    BY <2>1
<1>4. /\ y \in Seq(Char) /\ Len(y) = m + n
      /\ \A i \in 1 .. m + n : y[i] = IF i <= m THEN s[i] ELSE t[i - m]
  BY <1>1, ConcatProperties
<1>5. y # <<>> /\ y[1] = s[1] /\ Len(y) = q + n + 1
  BY <1>2, <1>3, <1>4
<1>6. Head(y) = s[1]
  BY <1>4, <1>5
<1>7. PICK a, b : a = Tail(s) /\ b = Tail(y)
  OBVIOUS
<1>8. a \in Seq(Char) /\ Len(a) = q /\ \A i \in 1 .. q : a[i] = s[i + 1]
  <2>1. a \in Seq(Char) /\ Len(a) = Len(s) - 1 /\ \A i \in 1 .. Len(a) : a[i] = s[i + 1]
    BY <1>7, HeadTailProperties
  <2>2. Len(a) = m - 1
    BY <1>1, <2>1
  <2>3. Len(a) = q
    BY <1>2, <1>3, <2>2
  <2> QED
    BY <2>1, <2>3
<1>9. b \in Seq(Char) /\ Len(b) = q + n /\ \A i \in 1 .. q + n : b[i] = y[i + 1]
  <2>1. b \in Seq(Char) /\ Len(b) = Len(y) - 1 /\ \A i \in 1 .. Len(b) : b[i] = y[i + 1]
    BY <1>4, <1>5, <1>7, HeadTailProperties
  <2>2. Len(b) = q + n
    BY <1>2, <1>3, <1>5, <2>1
  <2> QED
    BY <2>1, <2>2
<1>10. PICK z : z = a \o t
  OBVIOUS
<1>11. /\ z \in Seq(Char) /\ Len(z) = q + n
       /\ \A i \in 1 .. q + n : z[i] = IF i <= q THEN a[i] ELSE t[i - q]
  <2>1. /\ z \in Seq(Char) /\ Len(z) = Len(a) + Len(t)
        /\ \A i \in 1 .. Len(a) + Len(t) : z[i] = IF i <= Len(a) THEN a[i] ELSE t[i - Len(a)]
    BY <1>8, <1>10, ConcatProperties
  <2> QED
    BY <1>1, <1>8, <2>1
<1>12. ASSUME NEW i \in 1 .. q + n
       PROVE  b[i] = z[i]
  <2>1. i + 1 \in 1 .. m + n /\ b[i] = y[i + 1]
    BY <1>2, <1>3, <1>9
  <2>2. CASE i <= q
    <3>1. i \in 1 .. q /\ i + 1 <= m
      BY <1>2, <1>3, <2>2
    <3>2. y[i + 1] = s[i + 1]
      BY <1>4, <2>1, <3>1
    <3>3. z[i] = a[i] /\ a[i] = s[i + 1]
      BY <1>8, <1>11, <2>2, <3>1
    <3> QED
      BY <2>1, <3>2, <3>3
  <2>3. CASE ~(i <= q)
    <3>1. ~(i + 1 <= m) /\ (i + 1) - m = i - q
      BY <1>2, <1>3, <2>3
    <3>2. y[i + 1] = t[(i + 1) - m]
      BY <1>4, <2>1, <3>1
    <3>3. z[i] = t[i - q]
      BY <1>11, <2>3
    <3> QED
      BY <2>1, <3>1, <3>2, <3>3
  <2> QED
    BY <2>2, <2>3
<1>13. b = z
  <2>1. Len(b) = Len(z) /\ \A i \in 1 .. Len(b) : b[i] = z[i]
    BY <1>9, <1>11, <1>12
  <2> QED
    BY <1>9, <1>11, <2>1, SeqEqual
<1> QED
  BY <1>1, <1>5, <1>6, <1>7, <1>10, <1>13

\* A character goes from the stream to the word.
LEMMA MoveChar ==
  ASSUME NEW t \in Seq(Char), NEW u \in Seq(Char), u # <<>>
  PROVE  Append(t, u[1]) \o Tail(u) = t \o u /\ Append(t, u[1]) \in Seq(Char) /\ Tail(u) \in Seq(Char)
<1>1. u[1] \in Char /\ Tail(u) \in Seq(Char) /\ Len(u) >= 1 /\ Len(u) \in Nat
  BY EmptySeq, HeadTailProperties
<1>2. PICK f : f = <<u[1]>>
  OBVIOUS
<1>3. f \in Seq(Char) /\ f # <<>> /\ f[1] = u[1]
  BY <1>1, <1>2
<1>4. Append(t, u[1]) = t \o f /\ Append(t, u[1]) \in Seq(Char)
  BY <1>1, <1>2, AppendIsConcat, AppendProperties
<1>5. f \o Tail(u) = u
  <2>1. u = SubSeq(u, 1, Len(u))
    BY SubSeqFull
  <2>2. SubSeq(u, 1, Len(u)) = f \o SubSeq(u, 2, Len(u))
    <3>1. 1 \in 1 .. Len(u) /\ Len(u) \in 1 .. Len(u)
      BY <1>1
    <3>2. SubSeq(u, 1, Len(u)) = << u[1] >> \o SubSeq(u, 1 + 1, Len(u))
      BY <3>1, SubSeqRecursiveFirst
    <3> QED
      BY <1>2, <3>2
  <2>3. Tail(u) = SubSeq(u, 2, Len(u))
    BY TailIsSubSeq
  <2> QED
    BY <2>1, <2>2, <2>3
<1>6. PICK r : r = Tail(u)
  OBVIOUS
<1>7. r \in Seq(Char)
  BY <1>1, <1>6
<1>8. (t \o f) \o r = t \o (f \o r)
  BY <1>3, <1>7, ConcatAssoc, Zenon
<1> QED
  BY <1>1, <1>4, <1>5, <1>6, <1>8

\* What the first byte of a stream is that begins with the rest of a word.
IsStream(y, u, r, d) == y = (u \o (<<Space>> \o r)) \o d
Begins(y, u, r, d) ==
  /\ y # <<>>
  /\ u = <<>> => Head(y) = Space /\ Tail(y) = r \o d
  /\ u # <<>> => Head(y) = u[1] /\ Tail(y) = (Tail(u) \o (<<Space>> \o r)) \o d

\* The stream of a header begins with what is left of the word, or the space.
LEMMA FirstByte ==
  ASSUME NEW u \in Seq(Char), NEW r \in Seq(Char), NEW d \in Seq(Char), NEW y,
         IsStream(y, u, r, d)
  PROVE  Begins(y, u, r, d)
<1> USE DEF IsStream, Begins
<1>1. PICK sp : sp = <<Space>>
  OBVIOUS
<1>2. sp \in Seq(Char) /\ sp # <<>> /\ sp[1] = Space /\ Tail(sp) = <<>>
  BY <1>1, CharSequences
<1>3. PICK x : x = sp \o r
  OBVIOUS
<1>4. x \in Seq(Char) /\ x # <<>> /\ x[1] = Space /\ Tail(x) = <<>> \o r
  <2>1. x # <<>> /\ Head(x) = Space /\ Tail(x) = <<>> \o r
    <3>1. sp \o r # <<>> /\ Head(sp \o r) = sp[1] /\ Tail(sp \o r) = Tail(sp) \o r
      BY <1>2, HeadOfConcat
    <3> QED
      BY <1>2, <1>3, <3>1
  <2>2. x \in Seq(Char)
    BY <1>2, <1>3, ConcatSeq
  <2> QED
    BY <2>1, <2>2
<1>5. <<>> \o r = r /\ <<>> \o x = x
  BY <1>4, ConcatNil
<1>6. CASE u = <<>>
  <2>1. y = x \o d
    BY <1>1, <1>3, <1>5, <1>6
  <2>2. y # <<>> /\ Head(y) = Space /\ Tail(y) = Tail(x) \o d
    <3>1. x \o d # <<>> /\ Head(x \o d) = x[1] /\ Tail(x \o d) = Tail(x) \o d
      BY <1>4, HeadOfConcat
    <3> QED
      BY <1>4, <2>1, <3>1
  <2> QED
    BY <1>4, <1>5, <1>6, <2>2
<1>7. CASE u # <<>>
  <2>1. PICK z : z = u \o x
    OBVIOUS
  <2>2. z # <<>> /\ Head(z) = u[1] /\ Tail(z) = Tail(u) \o x
    BY <1>4, <1>7, <2>1, HeadOfConcat
  <2>3. z \in Seq(Char)
    BY <1>4, <2>1, ConcatSeq
  <2>4. z[1] = u[1]
    BY <2>2, <2>3
  <2>5. y # <<>> /\ Head(y) = z[1] /\ Tail(y) = Tail(z) \o d
    BY <1>1, <1>3, <2>1, <2>2, <2>3, HeadOfConcat
  <2> QED
    BY <1>1, <1>3, <1>7, <2>2, <2>4, <2>5
<1> QED
  BY <1>6, <1>7

-----------------------------------------------------------------------------
\* The invariant: where a client that is served, and the server, can be in the
\* exchange over one line, and what is on its way between them.

\* The bytes of the data that a client has sent after the header.
Sent(c) == IF cli[c] = "data" THEN <<>> ELSE line[c].data
\* The client typed a line, and has displayed nothing for it yet.
Pending(c) ==
  /\ line[c] \in Lines /\ shown[c] = <<>>
  /\ cli[c] = "data" => line[c].data # <<>>

\* Nothing refused a write on this connection: otherwise its data is taken for
\* commands.
Clean == \A i \in 1 .. Len(log) : log[i] \notin {"bad_length", "invalid_write"}
\* The server is between two commands.
Idle == pc = "token" /\ words = <<>> /\ tok = <<>>

\* The exchange is over: what was displayed for a read is the block.
AtPrompt(c) ==
  /\ cli[c] = "prompt" /\ Idle /\ in[c] = <<>> /\ out[c] = <<>>
  /\ shown[c] # <<>> => shown[c] = disk[line[c].cyl * SectorsPerCyl + line[c].sec]

\* The server has the words of the header up to here.
ReadingWord(l, stream) ==
  /\ pc = "token"
  /\ \E u \in Seq(Char) :
       /\ HeaderWords(l)[Len(words) + 1] = tok \o u
       /\ stream = u \o (<<Space>> \o Rest(l, Len(words) + 2))
\* The server has a word of the header, and the rest is to come.
HasWord(l, stream) ==
  /\ pc = "word"
  /\ HeaderWords(l)[Len(words) + 1] = tok
  /\ stream = Rest(l, Len(words) + 2)
\* The server is somewhere in the header,
InHeader(c) ==
  /\ Len(words) < Len(HeaderWords(line[c]))
  /\ \A i \in 1 .. Len(words) : words[i] = HeaderWords(line[c])[i]
  /\ \E stream \in Seq(Char) :
       /\ ReadingWord(line[c], stream) \/ HasWord(line[c], stream)
       /\ in[c] = stream \o Sent(c)
\* or has all of it, and perhaps a part of the data.
HasHeader(c) ==
  /\ words = HeaderWords(line[c]) /\ tok = <<>>
  /\ \/ pc = "execute" /\ in[c] = Sent(c)
     \/ /\ pc = "data" /\ line[c].op = "W" /\ done <= Len(Sent(c))
        /\ in[c] = SubSeq(Sent(c), done + 1, Len(Sent(c)))
\* The server has not answered yet.
Asking(c) ==
  /\ cli[c] \in {"data", "answer"} /\ Pending(c) /\ out[c] = <<>>
  /\ InHeader(c) \/ HasHeader(c)

\* A read that the server grants.
Readable(l) == l.op = "R" /\ InRange(HeaderWords(l))
\* The block that a line addresses.
BlockOf(l) == disk[BlockIdx(HeaderWords(l))]
\* The server has sent the line of a read, and not its block.
BetweenSends(l) == pc = "block" /\ words = HeaderWords(l) /\ tok = <<>> /\ Readable(l)
\* The answer is on its way: of a read that is granted, its line first.
Answered(c) ==
  /\ cli[c] = "answer" /\ Pending(c) /\ in[c] = <<>>
  /\ \/ BetweenSends(line[c]) /\ out[c] = <<"read_ok">>
     \/ Idle /\ Readable(line[c]) /\ out[c] = <<"read_ok">> \o BlockOf(line[c])
     \/ Idle /\ Len(out[c]) = 1 /\ (line[c].op = "R" => out[c] = <<"invalid_read">>)
\* The client has the line of a read, and its block is on its way.
Showing(c) ==
  /\ cli[c] = "block" /\ Pending(c) /\ in[c] = <<>>
  /\ \/ BetweenSends(line[c]) /\ out[c] = <<>>
     \/ Idle /\ Readable(line[c]) /\ out[c] = BlockOf(line[c]) 
     \/ Idle /\ Len(out[c]) < BlockSize
\* A client that is served, and that no write was refused, is in one of these.
InServed ==
  serving # NoOne /\ Clean =>
    \/ cli[serving] = "left" \/ AtPrompt(serving) \/ Asking(serving)
    \/ Answered(serving) \/ Showing(serving)

\* A client that waits for accept, or has not connected.
Waiting(c) ==
  /\ out[c] = <<>> /\ shown[c] = <<>>
  /\ \/ cli[c] \in {"new", "prompt"} /\ in[c] = <<>>
     \/ cli[c] \in {"data", "answer"} /\ Pending(c) /\ in[c] = Rest(line[c], 1) \o Sent(c)
\* So is every client that is connected and not served.
WaitingOK ==
  \A c \in Clients : c # serving /\ (cli[c] = "new" \/ peer[c] = "up") => Waiting(c)

\* A connection ends only when its client leaves.
Present(c) == cli[c] = "left" \/ peer[c] = "up"
\* The clients that wait and the one that is served are connected, or left.
PresentOK ==
  /\ \A i \in 1 .. Len(backlog) : Present(backlog[i])
  /\ serving # NoOne => Present(serving) /\ (pc = "close" => cli[serving] = "left")

\* Where a served client can be.
Phase(c) == AtPrompt(c) \/ Asking(c) \/ Answered(c) \/ Showing(c)

\* The byte that the server waits for is in the word w of line l, of which u is
\* still to come, and r is the rest of the header.
Reads(c, l, w, u, r, d) ==
  /\ cli[c] \in {"data", "answer"} /\ Pending(c) /\ out[c] = <<>> /\ pc = "token"
  /\ l = line[c] /\ Len(words) + 1 \in 1 .. Len(HeaderWords(l))
  /\ \A i \in 1 .. Len(words) : words[i] = HeaderWords(l)[i]
  /\ w = HeaderWords(l)[Len(words) + 1] /\ w = tok \o u /\ IsWord(w)
  /\ u \in Seq(Char) /\ r = Rest(l, Len(words) + 2) /\ r \in Seq(Char)
  /\ d = Sent(c) /\ d \in Seq(Char)
  /\ in[c] = (u \o (<<Space>> \o r)) \o d

\* The data of a line is bytes.
LEMMA SentIsSeq ==
  ASSUME NEW c, Pending(c)
  PROVE  Sent(c) \in Seq(Byte) /\ Sent(c) \in Seq(Char)
<1>1. line[c].data \in Seq(Byte)
  BY LinesAssumption, HeadersAssumption DEF Pending
<1>2. Sent(c) \in Seq(Byte)
  <2>1. <<>> \in Seq(Byte)
    OBVIOUS
  <2> QED
    BY <1>1, <2>1 DEF Sent
<1> QED
  BY <1>2, CharSequences

\* A server that waits for bytes of a header waits for those of a word.
LEMMA ReadsWord ==
  ASSUME TypeInv, NEW c \in Clients, Phase(c), pc = "token", in[c] # <<>>
  PROVE  \E l, w, u, r, d : Reads(c, l, w, u, r, d)
<1>1. cli[c] \in {"data", "answer"} /\ Pending(c) /\ out[c] = <<>> /\ InHeader(c)
  BY DEF Phase, AtPrompt, Asking, Answered, Showing, HasHeader
<1>2. PICK l : l = line[c]
  OBVIOUS
<1>3. l \in Lines
  BY <1>1, <1>2 DEF Pending
<1>4. PICK n, k : n = Len(words) /\ k = Len(HeaderWords(l))
  OBVIOUS
<1>5. n \in Nat /\ k \in 1 .. 4 /\ n < k
  BY <1>1, <1>2, <1>3, <1>4, HeaderWordsAre DEF InHeader, TypeInv, CommandOK
<1>6. n + 1 \in 1 .. k /\ n + 2 \in 1 .. 5
  BY <1>5
<1>7. PICK stream \in Seq(Char) : ReadingWord(l, stream) /\ in[c] = stream \o Sent(c)
  BY <1>1, <1>2 DEF InHeader, HasWord
<1>8. PICK u \in Seq(Char) : /\ HeaderWords(l)[Len(words) + 1] = tok \o u
                             /\ stream = u \o (<<Space>> \o Rest(l, Len(words) + 2))
  BY <1>7 DEF ReadingWord
<1>9. Rest(l, n + 2) \in Seq(Char) /\ IsWord(HeaderWords(l)[n + 1])
  BY <1>3, <1>4, <1>6, RestIs, HeaderWordsAre
<1>10. Sent(c) \in Seq(Char)
  BY <1>1, SentIsSeq
<1>11. \A i \in 1 .. Len(words) : words[i] = HeaderWords(l)[i]
  BY <1>1, <1>2 DEF InHeader
<1>12. Reads(c, l, HeaderWords(l)[Len(words) + 1], u, Rest(l, Len(words) + 2), Sent(c))
  BY <1>1, <1>2, <1>4, <1>6, <1>7, <1>8, <1>9, <1>10, <1>11 DEF Reads
<1> QED
  BY <1>12

-----------------------------------------------------------------------------
\* The steps of the server with the client that it serves.

\* What a server step finds of a client that has not left, and does to it.
LEMMA UpServed ==
  ASSUME TypeInv, NEW c \in Clients, serving = c, peer[c] = "up"
  PROVE  /\ ~EndOfStream /\ ~RecvError /\ pc \notin {"accept", "dead"}
         /\ Received <=> in[c] # <<>>
         /\ NextByte = Head(in[c])
         /\ Consume => in'[c] = Tail(in[c])
<1>1. in \in [Clients -> Seq(Byte)]
  BY DEF TypeInv, LinkOK
<1>2. c # NoOne
  BY GeometryAssumption
<1>3. pc \notin {"accept", "dead"}
  BY <1>2 DEF TypeInv, ServingOK
<1>4. Consume => in'[c] = Tail(in[c])
  BY <1>1 DEF Consume
<1> QED
  BY <1>3, <1>4 DEF EndOfStream, RecvError, Received, NextByte

\* It has the words before.
LEMMA ReadsBefore ==
  ASSUME TypeInv, NEW c, NEW l, NEW w, NEW u, NEW r, NEW d, Reads(c, l, w, u, r, d)
  PROVE  /\ Len(words) < Len(HeaderWords(l))
         /\ \A i \in 1 .. Len(words) : words[i] = HeaderWords(l)[i]
<1>1. PICK n, k : n = Len(words) /\ k = Len(HeaderWords(l))
  OBVIOUS
<1>2. n \in Nat /\ n + 1 \in 1 .. k /\ \A i \in 1 .. Len(words) : words[i] = HeaderWords(l)[i]
  BY <1>1 DEF Reads, TypeInv, CommandOK
<1>3. l \in Lines
  BY DEF Reads, Pending
<1>4. k \in Nat
  BY <1>1, <1>3, HeaderWordsAre
<1>5. n < k
  BY <1>2, <1>4
<1> QED
  BY <1>1, <1>2, <1>5

\* The next byte of the stream, when the server reads a word.
Moves(w, u, x, d, y) ==
  /\ u # <<>> /\ NextByte = u[1] /\ NextByte # Space /\ Len(tok) < MaxTok
  /\ Append(tok, u[1]) \o Tail(u) = w /\ Tail(u) \in Seq(Char)
  /\ y = (Tail(u) \o x) \o d
\* The space after a word, when the server has the whole word.
Ends(w, u, r, d, y) ==
  u = <<>> /\ NextByte = Space /\ tok = w /\ tok # <<>> /\ y = r \o d

\* The next byte is one of these.
LEMMA ByteOfWord ==
  ASSUME TypeInv, NEW c \in Clients, serving = c, peer[c] = "up",
         NEW l, NEW w, NEW u, NEW r, NEW d, Reads(c, l, w, u, r, d)
  PROVE  \/ Ends(w, u, r, d, Tail(in[c]))
         \/ Moves(w, u, <<Space>> \o r, d, Tail(in[c]))
<1>1. NextByte = Head(in[c])
  BY UpServed
<1>2. /\ u \in Seq(Char) /\ r \in Seq(Char) /\ d \in Seq(Char) /\ IsWord(w)
      /\ w = tok \o u /\ in[c] = (u \o (<<Space>> \o r)) \o d
  BY DEF Reads
<1>3. /\ u = <<>> => Head(in[c]) = Space /\ Tail(in[c]) = r \o d
      /\ u # <<>> => /\ Head(in[c]) = u[1]
                     /\ Tail(in[c]) = (Tail(u) \o (<<Space>> \o r)) \o d
  <2>1. PICK y : y = in[c]
    OBVIOUS
  <2>2. IsStream(y, u, r, d)
    BY <1>2, <2>1 DEF IsStream
  <2>3. Begins(y, u, r, d)
    BY <1>2, <2>2, FirstByte
  <2> QED
    BY <2>1, <2>3 DEF Begins
<1>4. tok \in Seq(Char)
  BY CharSequences DEF TypeInv, CommandOK
<1>5. tok = <<>> => u # <<>>
  BY <1>2, ConcatNil DEF IsWord
<1>6. u = <<>> => tok = w
  BY <1>2, <1>4, ConcatNil
<1>7. ASSUME u # <<>>
      PROVE  /\ u[1] # Space /\ Len(tok) < MaxTok
             /\ Append(tok, u[1]) \o Tail(u) = w /\ Tail(u) \in Seq(Char)
  <2>1. Append(tok, u[1]) \o Tail(u) = w /\ Tail(u) \in Seq(Char)
    BY <1>2, <1>4, <1>7, MoveChar
  <2>2. PICK m, n, k : m = Len(tok) /\ n = Len(u) /\ k = Len(w)
    OBVIOUS
  <2>3. m \in Nat /\ n \in Nat \ {0} /\ k = m + n /\ k \in 1 .. MaxTok /\ MaxTok \in Nat
    BY <1>2, <1>4, <1>7, <2>2, EmptySeq, LenProperties, ConcatProperties, GeometryAssumption
    DEF IsWord
  <2>4. m < MaxTok /\ m + 1 \in 1 .. k
    BY <2>3
  <2>5. w[m + 1] = u[1]
    <3>1. \A i \in 1 .. Len(tok) + Len(u) :
            (tok \o u)[i] = IF i <= Len(tok) THEN tok[i] ELSE u[i - Len(tok)]
      BY <1>2, <1>4, ConcatProperties
    <3>2. w[m + 1] = IF m + 1 <= m THEN tok[m + 1] ELSE u[(m + 1) - m]
      BY <1>2, <2>2, <2>3, <2>4, <3>1
    <3>3. ~(m + 1 <= m) /\ (m + 1) - m = 1
      BY <2>3
    <3> QED
      BY <3>2, <3>3
  <2>6. w[m + 1] # Space
    BY <1>2, <2>2, <2>4 DEF IsWord
  <2> QED
    BY <2>1, <2>2, <2>4, <2>5, <2>6
<1>8. CASE u = <<>>
  BY <1>1, <1>3, <1>5, <1>6, <1>8 DEF Ends
<1>9. CASE u # <<>>
  BY <1>1, <1>3, <1>7, <1>9 DEF Moves
<1> QED
  BY <1>8, <1>9

\* No space comes before a word of a header.
LEMMA SkipSpaceStep ==
  ASSUME TypeInv, NEW c \in Clients, serving = c, peer[c] = "up", Phase(c), SkipSpace
  PROVE  FALSE
<1>1. in[c] # <<>> /\ pc = "token" /\ NextByte = Space /\ tok = <<>>
  BY UpServed DEF SkipSpace
<1>2. PICK l, w, u, r, d : Reads(c, l, w, u, r, d)
  BY <1>1, ReadsWord
<1>3. Ends(w, u, r, d, Tail(in[c])) \/ Moves(w, u, <<Space>> \o r, d, Tail(in[c]))
  BY <1>2, ByteOfWord
<1> QED
  BY <1>1, <1>3 DEF Ends, Moves

\* A character of a word of the header is read.
LEMMA TakeCharStep ==
  ASSUME TypeInv, NEW c \in Clients, serving = c, peer[c] = "up", Phase(c), TakeChar,
         UNCHANGED client
  PROVE  Phase(c)'
<1>1. in[c] # <<>> /\ pc = "token" /\ NextByte # Space
  BY UpServed DEF TakeChar
<1>2. PICK l, w, u, r, d : Reads(c, l, w, u, r, d)
  BY <1>1, ReadsWord
<1>3. /\ NextByte = u[1] /\ Len(tok) < MaxTok
      /\ Append(tok, u[1]) \o Tail(u) = w /\ Tail(u) \in Seq(Char)
      /\ Tail(in[c]) = (Tail(u) \o (<<Space>> \o r)) \o d
  <2>1. Ends(w, u, r, d, Tail(in[c])) \/ Moves(w, u, <<Space>> \o r, d, Tail(in[c]))
    BY <1>2, ByteOfWord
  <2> QED
    BY <1>1, <2>1 DEF Ends, Moves
<1>4. /\ tok' = Append(tok, u[1]) /\ in'[c] = Tail(in[c])
      /\ pc' = "token" /\ words' = words /\ out' = out
  BY <1>1, <1>3, UpServed DEF TakeChar
<1>5. PICK z, y : z = Tail(u) /\ y = z \o (<<Space>> \o r)
  OBVIOUS
<1>6. z \in Seq(Char) /\ y \in Seq(Char)
  <2>1. <<Space>> \in Seq(Char) /\ r \in Seq(Char)
    BY <1>2, CharSequences DEF Reads
  <2>2. <<Space>> \o r \in Seq(Char)
    BY <2>1, ConcatSeq
  <2> QED
    BY <1>3, <1>5, <2>2, ConcatSeq
<1>7. w = HeaderWords(l)[Len(words) + 1] /\ r = Rest(l, Len(words) + 2)
  BY <1>2 DEF Reads
<1>8. HeaderWords(l)[Len(words') + 1] = tok' \o z /\ r = Rest(l, Len(words') + 2)
  BY <1>3, <1>4, <1>5, <1>7
<1>9. ReadingWord(l, y)'
  BY <1>4, <1>5, <1>6, <1>8 DEF ReadingWord
<1>10. d = Sent(c)' /\ l = line'[c] /\ Pending(c)' /\ cli'[c] \in {"data", "answer"}
       /\ out'[c] = <<>>
  BY <1>2, <1>4 DEF Reads, Sent, Pending
<1>11. in'[c] = y \o Sent(c)'
  BY <1>3, <1>4, <1>5, <1>10
<1>12. /\ Len(words) < Len(HeaderWords(l))
       /\ \A i \in 1 .. Len(words) : words[i] = HeaderWords(l)[i]
  BY <1>2, ReadsBefore
<1>13. InHeader(c)'
  BY <1>4, <1>6, <1>9, <1>10, <1>11, <1>12 DEF InHeader
<1> QED
  BY <1>10, <1>13 DEF Phase, Asking

\* A space ends a word of the header.
LEMMA EndWordStep ==
  ASSUME TypeInv, NEW c \in Clients, serving = c, peer[c] = "up", Phase(c), EndWord,
         UNCHANGED client
  PROVE  Phase(c)'
<1>1. in[c] # <<>> /\ pc = "token" /\ NextByte = Space /\ Consume
  BY UpServed DEF EndWord
<1>2. PICK l, w, u, r, d : Reads(c, l, w, u, r, d)
  BY <1>1, ReadsWord
<1>3. Ends(w, u, r, d, Tail(in[c])) \/ Moves(w, u, <<Space>> \o r, d, Tail(in[c]))
  BY <1>2, ByteOfWord
<1>4. tok = w /\ Tail(in[c]) = r \o d
  BY <1>1, <1>3 DEF Ends, Moves
<1>5. /\ tok' = tok /\ in'[c] = Tail(in[c])
      /\ pc' = "word" /\ words' = words /\ out' = out
  BY <1>1, UpServed DEF EndWord
<1>6. w = HeaderWords(l)[Len(words) + 1] /\ r = Rest(l, Len(words) + 2) /\ r \in Seq(Char)
  BY <1>2 DEF Reads
<1>7. HasWord(l, r)'
  BY <1>4, <1>5, <1>6 DEF HasWord
<1>8. d = Sent(c)' /\ l = line'[c] /\ Pending(c)' /\ cli'[c] \in {"data", "answer"}
       /\ out'[c] = <<>>
  BY <1>2, <1>5 DEF Reads, Sent, Pending
<1>9. in'[c] = r \o Sent(c)'
  BY <1>4, <1>5, <1>8
<1>10. /\ Len(words) < Len(HeaderWords(l))
       /\ \A i \in 1 .. Len(words) : words[i] = HeaderWords(l)[i]
  BY <1>2, ReadsBefore
<1>11. InHeader(c)'
  BY <1>5, <1>6, <1>7, <1>8, <1>9, <1>10 DEF InHeader
<1> QED
  BY <1>8, <1>11 DEF Phase, Asking

\* A word is complete: the next one begins, or the command is executed.
LEMMA AddWordStep ==
  ASSUME TypeInv, NEW c \in Clients, serving = c, peer[c] = "up", Phase(c), AddWord,
         UNCHANGED client
  PROVE  Phase(c)'
<1>1. pc = "word"
  BY DEF AddWord
<1>2. /\ cli[c] \in {"data", "answer"} /\ Pending(c) /\ out[c] = <<>> /\ InHeader(c)
  BY <1>1 DEF Phase, AtPrompt, Asking, Answered, Showing, HasHeader, Idle, BetweenSends
<1>3. PICK l, d : l = line[c] /\ d = Sent(c)
  OBVIOUS
<1>4. l \in Lines
  BY <1>2, <1>3 DEF Pending
<1>5. PICK n, k, W : n = Len(words) /\ k = Len(W) /\ W = HeaderWords(l)
  OBVIOUS
<1>6. /\ W \in Seq(Seq(Char)) /\ k \in 1 .. 4 /\ WordsOf(W[1]) = k
      /\ \A j \in 1 .. k : IsWord(W[j])
  BY <1>4, <1>5, HeaderWordsAre
<1>7. n \in Nat /\ n < k /\ \A i \in 1 .. n : words[i] = W[i]
  BY <1>2, <1>3, <1>5, <1>6 DEF InHeader, TypeInv, CommandOK
<1>8. PICK stream \in Seq(Char) : HasWord(l, stream) /\ in[c] = stream \o d
  BY <1>1, <1>2, <1>3 DEF InHeader, ReadingWord
<1>9. W[n + 1] = tok /\ stream = Rest(l, n + 2)
  BY <1>5, <1>8 DEF HasWord
<1>10. words' = Append(words, tok) /\ words \in Seq(Seq(Char)) /\ tok \in Seq(Char)
  <2>1. tok \in Seq(Byte) /\ words \in Seq(Seq(Byte))
    BY DEF TypeInv, CommandOK
  <2>2. Seq(Byte) \subseteq Seq(Char)
    BY CharSequences
  <2> HIDE DEF Char, Byte
  <2>3. words \in Seq(Seq(Char)) /\ tok \in Seq(Char)
    BY <2>1, <2>2
  <2> QED
    BY <2>3 DEF AddWord
<1>11. /\ words' \in Seq(Seq(Char)) /\ Len(words') = n + 1
       /\ \A i \in 1 .. n + 1 : words'[i] = W[i]
  <2>1. /\ Append(words, tok) \in Seq(Seq(Char)) /\ Len(Append(words, tok)) = Len(words) + 1
        /\ \A i \in 1 .. Len(words) : Append(words, tok)[i] = words[i]
        /\ Append(words, tok)[Len(words) + 1] = tok
    BY <1>10, AppendProperties
  <2>2. /\ words' \in Seq(Seq(Char)) /\ Len(words') = n + 1
        /\ \A i \in 1 .. n : words'[i] = words[i]
        /\ words'[n + 1] = tok
    BY <1>5, <1>10, <2>1
  <2>3. ASSUME NEW i \in 1 .. n + 1
        PROVE  words'[i] = W[i]
    <3>1. i \in 1 .. n \/ i = n + 1
      BY <1>7
    <3> QED
      BY <1>7, <1>9, <2>2, <3>1
  <2> QED
    BY <2>2, <2>3
<1>12. words'[1] = W[1] /\ tok' = <<>> /\ pc' = IF n + 1 < k THEN "token" ELSE "execute"
  <2>1. 1 \in 1 .. n + 1
    BY <1>7
  <2>2. words'[1] = W[1]
    BY <1>11, <2>1
  <2> QED
    BY <1>6, <1>11, <2>2 DEF AddWord
<1>13. /\ in' = in /\ out' = out /\ d = Sent(c)' /\ l = line'[c] /\ Pending(c)'
       /\ cli'[c] \in {"data", "answer"} /\ out'[c] = <<>> /\ in'[c] = stream \o Sent(c)'
  <2>1. in' = in /\ out' = out
    BY DEF AddWord
  <2> QED
    BY <1>2, <1>3, <1>8, <2>1 DEF Sent, Pending
<1>14. CASE n + 1 < k
  <2>1. PICK u, r : u = W[n + 2] /\ r = Rest(l, n + 3)
    OBVIOUS
  <2>2. n + 2 \in 1 .. k /\ (n + 2) + 1 = n + 3
    BY <1>6, <1>7, <1>14
  <2>3. stream = u \o (<<Space>> \o r)
    <3>1. PICK m : m = n + 2
      OBVIOUS
    <3>2. m \in 1 .. Len(HeaderWords(l)) /\ m + 1 = n + 3
      BY <1>5, <2>2, <3>1
    <3>3. \A j \in 1 .. Len(HeaderWords(l)) :
            Rest(l, j) = HeaderWords(l)[j] \o (<<Space>> \o Rest(l, j + 1))
      BY <1>4, RestIs
    <3>4. Rest(l, m) = HeaderWords(l)[m] \o (<<Space>> \o Rest(l, m + 1))
      BY <3>2, <3>3
    <3> QED
      BY <1>5, <1>9, <2>1, <3>1, <3>2, <3>4
  <2>4. u \in Seq(Char)
    BY <1>6, <2>1, <2>2 DEF IsWord
  <2>5. <<>> \o u = u
    BY <2>4, ConcatNil
  <2>6. Len(words') + 1 = n + 2 /\ Len(words') + 2 = n + 3
    BY <1>7, <1>11
  <2>7. HeaderWords(l)[Len(words') + 1] = tok' \o u /\ r = Rest(l, Len(words') + 2)
    BY <1>5, <1>12, <2>1, <2>5, <2>6
  <2>8. ReadingWord(l, stream)'
    BY <1>12, <1>14, <2>3, <2>4, <2>7 DEF ReadingWord
  <2>9. /\ Len(words') < Len(HeaderWords(l))
        /\ \A i \in 1 .. Len(words') : words'[i] = HeaderWords(l)[i]
    BY <1>5, <1>11, <1>14
  <2>10. InHeader(c)'
    BY <1>8, <1>13, <2>8, <2>9 DEF InHeader
  <2> QED
    BY <1>13, <2>10 DEF Phase, Asking
<1>15. CASE ~(n + 1 < k)
  <2>1. n + 1 = k /\ n + 2 = k + 1
    <3>1. n \in Nat /\ k \in Nat /\ n < k /\ ~(n + 1 < k)
      BY <1>6, <1>7, <1>15
    <3> QED
      BY <3>1
  <2>2. words' = W
    <3>1. Len(words') = Len(W) /\ \A i \in 1 .. Len(words') : words'[i] = W[i]
      BY <1>5, <1>11, <2>1
    <3> QED
      BY <1>6, <1>11, <3>1, SeqEqual
  <2>3. stream = <<>>
    BY <1>4, <1>5, <1>9, <2>1, RestIs
  <2>4. d \in Seq(Char)
    BY <1>2, <1>3, SentIsSeq
  <2>5. in'[c] = Sent(c)'
    BY <1>13, <2>3, <2>4, ConcatNil
  <2>6. HasHeader(c)'
    BY <1>5, <1>12, <1>13, <1>15, <2>2, <2>5 DEF HasHeader
  <2> QED
    BY <1>13, <2>6 DEF Phase, Asking
<1> QED
  BY <1>14, <1>15

\* What is on its way to the clients, and what they displayed.
OutOK == out \in [Clients -> Seq(Symbol)] /\ DOMAIN shown = Clients

\* What the server sends reaches a client that is connected.
LEMMA SendUp ==
  ASSUME TypeInv, OutOK, NEW c \in Clients, serving = c, peer[c] = "up",
         NEW symbols, Send(symbols)
  PROVE  out'[c] = out[c] \o symbols /\ in' = in /\ peer' = peer
<1>1. out'[c] = out[c] \o symbols /\ peer' = peer
  BY DEF Send, OutOK
<1>2. in' = in
  BY DEF Send
<1> QED
  BY <1>1, <1>2

\* The state in which a command is executed.
AtCommand(c, l, d) ==
  /\ cli[c] \in {"data", "answer"} /\ Pending(c) /\ out[c] = <<>>
  /\ l = line[c] /\ d = Sent(c) /\ words = HeaderWords(l) /\ tok = <<>>
  /\ l \in Lines /\ words[1] = <<l.op>>

\* The server executes the command that the client sent.
LEMMA ExecutesHeader ==
  ASSUME TypeInv, NEW c \in Clients, Phase(c), pc \in {"execute", "data"}
  PROVE  \E l, d : /\ AtCommand(c, l, d)
                   /\ pc = "execute" => in[c] = d
                   /\ pc = "data" => /\ l.op = "W" /\ done <= Len(d)
                                     /\ in[c] = SubSeq(d, done + 1, Len(d))
<1>1. cli[c] \in {"data", "answer"} /\ Pending(c) /\ out[c] = <<>> /\ HasHeader(c)
  BY DEF Phase, AtPrompt, Asking, Answered, Showing, InHeader, ReadingWord, HasWord, Idle,
         BetweenSends
<1>2. PICK l, d : l = line[c] /\ d = Sent(c)
  OBVIOUS
<1>3. l \in Lines
  BY <1>1, <1>2 DEF Pending
<1>4. words = HeaderWords(l) /\ tok = <<>>
  BY <1>1, <1>2 DEF HasHeader
<1>5. words[1] = <<l.op>>
  BY <1>3, <1>4, HeaderWordsAre
<1>6. AtCommand(c, l, d)
  BY <1>1, <1>2, <1>3, <1>4, <1>5 DEF AtCommand
<1>7. /\ pc = "execute" => in[c] = d
      /\ pc = "data" => /\ l.op = "W" /\ done <= Len(d)
                        /\ in[c] = SubSeq(d, done + 1, Len(d))
  BY <1>1, <1>2 DEF HasHeader
<1> QED
  BY <1>6, <1>7

\* A command that is not a write has no data.
LEMMA NoData ==
  ASSUME NEW c \in Clients, NEW l, NEW d, AtCommand(c, l, d), l.op # "W"
  PROVE  cli[c] = "answer" /\ d = <<>>
<1>1. l.data = <<>>
  BY LinesAssumption, HeadersAssumption DEF AtCommand
<1> QED
  BY <1>1 DEF AtCommand, Pending, Sent

\* An answer is one line.
LEMMA AnswerOne ==
  ASSUME NEW s
  PROVE  <<>> \o <<s>> = <<s>> /\ Len(<<s>>) = 1
<1>1. <<s>> \in Seq({s})
  OBVIOUS
<1> QED
  BY <1>1, ConcatEmptySeq

\* What is answered without a write.
LEMMA AnswerStep ==
  ASSUME TypeInv, OutOK, NEW c \in Clients, serving = c, peer[c] = "up", Phase(c),
         Info \/ Unknown \/ ReadRefused \/ ReadLine, UNCHANGED client
  PROVE  Phase(c)'
<1>1. pc = "execute"
  BY DEF Info, Unknown, ReadRefused, ReadLine
<1>2. PICK l, d : AtCommand(c, l, d) /\ in[c] = d
  BY <1>1, ExecutesHeader
<1>3. l.op \in {"I", "R", "W"} /\ words[1] = <<l.op>>
  BY <1>2, LineNumbers DEF AtCommand
<1>4. l.op \in {"I", "R"}
  BY <1>3, OneWord DEF Info, Unknown, ReadRefused, ReadLine
<1>5. cli[c] = "answer" /\ d = <<>>
  BY <1>2, <1>4, NoData
<1>6. /\ cli'[c] = "answer" /\ Pending(c)' /\ l = line'[c]
  BY <1>2, <1>5 DEF AtCommand, Pending
<1>7. ASSUME NEW s, Send(<<s>>)
      PROVE  in'[c] = <<>> /\ out'[c] = <<s>>
  <2>1. out'[c] = out[c] \o <<s>> /\ in' = in
    BY <1>7, SendUp
  <2> QED
    BY <1>2, <1>5, <2>1, AnswerOne DEF AtCommand
<1>8. CASE Info \/ ReadRefused
  <2>1. NextCommand
    BY <1>8 DEF Info, ReadRefused
  <2>2. Idle'
    BY <1>2, <2>1 DEF NextCommand, Idle, AtCommand
  <2>3. PICK s : Send(<<s>>) /\ (l.op = "R" => s = "invalid_read")
    <3>1. CASE Info
      BY <1>3, <3>1, OneWord DEF Info
    <3>2. CASE ReadRefused
      BY <3>2 DEF ReadRefused
    <3> QED
      BY <1>8, <3>1, <3>2
  <2>4. in'[c] = <<>> /\ out'[c] = <<s>> /\ Len(<<s>>) = 1
    BY <1>7, <2>3, AnswerOne
  <2>5. Answered(c)'
    BY <1>6, <2>2, <2>3, <2>4 DEF Answered
  <2> QED
    BY <2>5 DEF Phase
<1>9. CASE ReadLine
  <2>1. /\ Send(<<"read_ok">>) /\ pc' = "block" /\ UNCHANGED <<tok, words>>
        /\ words[1] = <<"R">> /\ InRange(words)
    BY <1>9 DEF ReadLine
  <2>2. in'[c] = <<>> /\ out'[c] = <<"read_ok">>
    BY <1>7, <2>1
  <2>3. Readable(l)
    BY <1>2, <1>3, <2>1, OneWord DEF Readable, AtCommand
  <2>4. BetweenSends(l)'
    BY <1>2, <2>1, <2>3 DEF BetweenSends, AtCommand
  <2>5. Answered(c)'
    BY <1>6, <2>2, <2>4 DEF Answered
  <2> QED
    BY <2>5 DEF Phase
<1>10. CASE Unknown
  BY <1>3, <1>10 DEF Unknown
<1> QED
  BY <1>8, <1>9, <1>10

\* A write that is refused leaves its data to be taken for commands.
LEMMA RefusedStep ==
  ASSUME HistoryOK, WriteRefused
  PROVE  ~Clean'
<1>1. PICK s \in {"bad_length", "invalid_write"} : log' = log \o <<s>>
  BY DEF WriteRefused, Send
<1>2. log \in Seq(Symbol) /\ <<s>> \in Seq(Symbol)
  BY AnswersAreSymbols DEF HistoryOK, Answers
<1>3. PICK n : n = Len(log)
  OBVIOUS
<1>4. n \in Nat /\ Len(<<s>>) = 1
  BY <1>2, <1>3
<1>5. Len(log') = n + 1 /\ log'[n + 1] = IF n + 1 <= n THEN log[n + 1] ELSE <<s>>[(n + 1) - n]
  <2>1. n + 1 \in 1 .. n + 1
    BY <1>4
  <2>2. /\ Len(log \o <<s>>) = Len(log) + Len(<<s>>)
        /\ \A i \in 1 .. Len(log) + Len(<<s>>) : (log \o <<s>>)[i] =
                     IF i <= Len(log) THEN log[i] ELSE <<s>>[i - Len(log)]
    BY <1>2, ConcatProperties
  <2> QED
    BY <1>1, <1>3, <1>4, <2>1, <2>2
<1>6. ~(n + 1 <= n) /\ (n + 1) - n = 1 /\ n + 1 \in 1 .. n + 1
  BY <1>4
<1>7. n + 1 \in 1 .. Len(log') /\ log'[n + 1] = s
  BY <1>5, <1>6
<1> QED
  BY <1>7 DEF Clean

\* A write that is granted begins.
LEMMA WriteStartStep ==
  ASSUME TypeInv, OutOK, NEW c \in Clients, serving = c, peer[c] = "up", Phase(c), WriteStart,
         UNCHANGED client
  PROVE  Phase(c)'
<1>1. pc = "execute"
  BY DEF WriteStart
<1>2. PICK l, d : AtCommand(c, l, d) /\ in[c] = d
  BY <1>1, ExecutesHeader
<1>3. words[1] = <<l.op>> /\ words[1] = <<"W">>
  BY <1>2 DEF WriteStart, AtCommand
<1>4. l.op = "W"
  BY <1>3, OneWord
<1>5. d \in Seq(Char)
  BY <1>2, SentIsSeq DEF AtCommand
<1>6. /\ pc' = "data" /\ done' = 0 /\ in' = in /\ out' = out /\ words' = words /\ tok' = tok
  BY DEF WriteStart
<1>7. /\ cli'[c] \in {"data", "answer"} /\ Pending(c)' /\ out'[c] = <<>> /\ l = line'[c]
      /\ d = Sent(c)' /\ words' = HeaderWords(l) /\ tok' = <<>>
  BY <1>2, <1>6 DEF AtCommand, Pending, Sent
<1>8. 0 <= Len(d) /\ d = SubSeq(d, 0 + 1, Len(d))
  BY <1>5, SubSeqFull
<1>9. HasHeader(c)'
  BY <1>2, <1>4, <1>6, <1>7, <1>8 DEF HasHeader
<1> QED
  BY <1>7, <1>9 DEF Phase, Asking

\* A byte of its data is stored.
LEMMA WriteByteStep ==
  ASSUME TypeInv, OutOK, NEW c \in Clients, serving = c, peer[c] = "up", Phase(c), WriteByte,
         UNCHANGED client
  PROVE  Phase(c)'
<1>1. pc = "data" /\ in[c] # <<>> /\ in'[c] = Tail(in[c])
  BY UpServed DEF WriteByte
<1>2. PICK l, d : /\ AtCommand(c, l, d) /\ l.op = "W" /\ done <= Len(d)
                  /\ in[c] = SubSeq(d, done + 1, Len(d))
  BY <1>1, ExecutesHeader
<1>3. d \in Seq(Char)
  BY <1>2, SentIsSeq DEF AtCommand
<1>4. PICK n, q : n = Len(d) /\ q = done
  OBVIOUS
<1>5. n \in Nat /\ q \in Nat /\ q <= n /\ in[c] = SubSeq(d, q + 1, n)
  BY <1>2, <1>3, <1>4 DEF TypeInv, StoreOK
<1>6. q + 1 \in 1 .. n /\ n \in q + 1 .. n
  <2>1. CASE q = n
    <3>1. SubSeq(d, q + 1, n) = <<>>
      BY <1>3, <1>5, <2>1, SubSeqEmpty
    <3> QED
      BY <1>1, <1>5, <3>1
  <2>2. CASE q # n
    BY <1>5, <2>2
  <2> QED
    BY <2>1, <2>2
<1>7. in'[c] = SubSeq(d, (q + 1) + 1, n)
  <2>1. Tail(SubSeq(d, q + 1, n)) = SubSeq(d, (q + 1) + 1, n)
    BY <1>3, <1>4, <1>6, HeadTailOfSubSeq
  <2> QED
    BY <1>1, <1>5, <2>1
<1>8. /\ pc' = "data" /\ done' = q + 1 /\ out' = out /\ words' = words /\ tok' = tok
  BY <1>1, <1>4 DEF WriteByte
<1>9. /\ cli'[c] \in {"data", "answer"} /\ Pending(c)' /\ out'[c] = <<>> /\ l = line'[c]
      /\ d = Sent(c)' /\ words' = HeaderWords(l) /\ tok' = <<>>
  BY <1>2, <1>8 DEF AtCommand, Pending, Sent
<1>10. done' <= Len(d) /\ in'[c] = SubSeq(d, done' + 1, Len(d))
  BY <1>4, <1>6, <1>7, <1>8
<1>11. HasHeader(c)'
  BY <1>2, <1>8, <1>9, <1>10 DEF HasHeader
<1> QED
  BY <1>9, <1>11 DEF Phase, Asking

\* It is answered when all its data is stored.
LEMMA WriteEndStep ==
  ASSUME TypeInv, OutOK, NEW c \in Clients, serving = c, peer[c] = "up", Phase(c), WriteEnd,
         UNCHANGED client
  PROVE  Phase(c)'
<1>1. pc = "data" /\ done = DataLen(words) /\ Send(<<"write_ok">>) /\ NextCommand
  BY UpServed DEF WriteEnd
<1>2. PICK l, d : /\ AtCommand(c, l, d) /\ l.op = "W" /\ done <= Len(d)
                  /\ in[c] = SubSeq(d, done + 1, Len(d))
  BY <1>1, ExecutesHeader
<1>3. l \in Lines /\ l.data \in Seq(Byte) /\ d \in Seq(Byte)
  BY <1>2, LinesAssumption, HeadersAssumption, SentIsSeq DEF AtCommand
<1>4. done = Len(l.data)
  BY <1>1, <1>2, <1>3, HeaderMeans DEF AtCommand
<1>5. cli[c] = "answer"
  <2>1. SUFFICES ASSUME cli[c] = "data" PROVE FALSE
    BY <1>2 DEF AtCommand
  <2>2. d = <<>> /\ l.data # <<>>
    BY <1>2, <2>1 DEF AtCommand, Sent, Pending
  <2>3. Len(d) = 0 /\ Len(l.data) # 0 /\ Len(l.data) \in Nat
    BY <1>3, <2>2, EmptySeq, LenProperties
  <2> QED
    BY <1>2, <1>4, <2>3
<1>6. d = l.data
  BY <1>2, <1>5 DEF AtCommand, Sent
<1>7. in[c] = <<>>
  BY <1>2, <1>3, <1>4, <1>6, SubSeqEmpty
<1>8. out'[c] = out[c] \o <<"write_ok">> /\ in' = in
  BY <1>1, SendUp
<1>9. out'[c] = <<"write_ok">> /\ Len(<<"write_ok">>) = 1 /\ in'[c] = <<>>
  BY <1>2, <1>7, <1>8, AnswerOne DEF AtCommand
<1>10. cli'[c] = "answer" /\ Pending(c)' /\ l = line'[c] /\ Idle'
  BY <1>1, <1>2, <1>5 DEF AtCommand, Pending, Idle, NextCommand
<1>11. Answered(c)'
  BY <1>2, <1>9, <1>10 DEF Answered
<1> QED
  BY <1>11 DEF Phase

\* The block is sent behind the line, before or after the client has received that.
LEMMA ReadBlockStep ==
  ASSUME TypeInv, HistoryOK, OutOK, NEW c \in Clients, serving = c, peer[c] = "up",
         Phase(c), ReadBlock, UNCHANGED client
  PROVE  Phase(c)'
<1>1. pc = "block" /\ Send(disk[BlockIdx(words)]) /\ NextCommand /\ disk' = disk
  BY DEF ReadBlock
<1>2. PICK l, b : l = line[c] /\ b = disk[BlockIdx(HeaderWords(l))]
  OBVIOUS
<1>3. /\ BetweenSends(l) /\ Pending(c) /\ in[c] = <<>>
      /\ \/ cli[c] = "answer" /\ out[c] = <<"read_ok">>
         \/ cli[c] = "block" /\ out[c] = <<>>
  BY <1>1, <1>2
  DEF Phase, AtPrompt, Asking, InHeader, ReadingWord, HasWord, HasHeader, Idle, Answered, Showing
<1>4. Readable(l) /\ words = HeaderWords(l) /\ tok = <<>>
  BY <1>3 DEF BetweenSends
<1>5. b \in Seq(Symbol)
  <2>1. BlockIdx(HeaderWords(l)) \in Blocks
    BY <1>4, InRangeIsBlock DEF Readable
  <2>2. b \in [1 .. BlockSize -> Symbol] /\ BlockSize \in Nat
    BY <1>2, <2>1, GeometryAssumption DEF HistoryOK, Disks
  <2> QED
    BY <2>2
<1>6. out'[c] = out[c] \o b /\ in' = in
  BY <1>1, <1>2, <1>4, SendUp
<1>7. Idle' /\ Pending(c)' /\ l = line'[c] /\ in'[c] = <<>> /\ BlockOf(l)' = b /\ cli' = cli
  BY <1>1, <1>2, <1>3, <1>4, <1>6 DEF Idle, Pending, NextCommand, BlockOf
<1>8. CASE cli[c] = "answer" /\ out[c] = <<"read_ok">>
  <2>1. Answered(c)'
    BY <1>4, <1>6, <1>7, <1>8 DEF Answered
  <2> QED
    BY <2>1 DEF Phase
<1>9. CASE cli[c] = "block" /\ out[c] = <<>>
  <2>1. <<>> \o b = b
    BY <1>5, ConcatEmptySeq
  <2>2. Showing(c)'
    BY <1>4, <1>6, <1>7, <1>9, <2>1 DEF Showing
  <2> QED
    BY <2>2 DEF Phase
<1> QED
  BY <1>3, <1>8, <1>9

-----------------------------------------------------------------------------
\* The rest of the invariant.

LEMMA StepOut ==
  ASSUME TypeInv, HistoryOK, OutOK, [Next]_vars
  PROVE  OutOK'
<1>0. out \in [Clients -> Seq(Symbol)] /\ DOMAIN shown = Clients
  BY DEF OutOK
<1>1. ASSUME NEW s \in Seq(Symbol), Send(s), pc \notin {"accept", "dead"}, UNCHANGED client
      PROVE  OutOK'
  <2>1. serving \in Clients
    BY <1>1, ServingIsClient
  <2>2. out[serving] \o s \in Seq(Symbol)
    BY <1>0, <1>1, <2>1, ConcatProperties
  <2>3. out' \in {out, [out EXCEPT ![serving] = @ \o s]}
    BY <1>1 DEF Send
  <2> QED
    BY <1>0, <1>1, <2>1, <2>2, <2>3 DEF OutOK
<1>2. CASE Server
  <2>1. UNCHANGED client
    BY <1>2 DEF Server
  <2>2. CASE Info \/ Unknown \/ ReadRefused \/ ReadLine \/ WriteRefused \/ WriteEnd
    <3>1. \E s \in Answers : Send(<<s>>)
      BY <2>2 DEF Info, Unknown, ReadRefused, ReadLine, WriteRefused, WriteEnd, Answers
    <3>2. pc \notin {"accept", "dead"}
      BY <2>2 DEF Info, Unknown, ReadRefused, ReadLine, WriteRefused, WriteEnd
    <3> QED
      BY <1>1, <2>1, <3>1, <3>2, AnswersAreSymbols
  <2>3. CASE ReadBlock
    <3>1. InRange(words) /\ Send(disk[BlockIdx(words)]) /\ pc \notin {"accept", "dead"}
      BY <2>3 DEF ReadBlock, TypeInv, StoreOK
    <3>2. disk[BlockIdx(words)] \in [1 .. BlockSize -> Symbol] /\ BlockSize \in Nat
      BY <3>1, InRangeIsBlock, GeometryAssumption DEF HistoryOK, Disks
    <3>3. disk[BlockIdx(words)] \in Seq(Symbol)
      BY <3>2
    <3> QED
      BY <1>1, <2>1, <3>1, <3>3
  <2>4. CASE Accept \/ Close \/ SkipSpace \/ TakeChar \/ EndWord \/ NoWord \/ AddWord
             \/ WriteStart \/ WriteByte \/ WriteFailed \/ BrokenPipe
    <3>1. out' = out
      BY <2>4 DEF Accept, Close, SkipSpace, TakeChar, EndWord, NoWord, AddWord,
                  WriteStart, WriteByte, WriteFailed, BrokenPipe
    <3> QED
      BY <1>0, <2>1, <3>1 DEF OutOK
  <2> QED
    BY <1>2, <2>2, <2>3, <2>4 DEF Server, ServerStep
<1>3. CASE Start \/ UNCHANGED vars
  <2>1. out' = out /\ shown' = shown
    BY <1>3 DEF Start, Restart, vars
  <2> QED
    BY <1>0, <2>1 DEF OutOK
<1>4. ASSUME NEW c \in Clients, ClientStep(c)
      PROVE  OutOK'
  <2>1. DOMAIN shown' = Clients
    BY <1>0, <1>4 DEF ClientStep, Connect, Type, SendData, Answer, ShowBlock, Leave
  <2>2. CASE Connect(c) \/ Type(c) \/ SendData(c) \/ Leave(c)
    BY <1>0, <2>1, <2>2 DEF Connect, Type, SendData, Leave, OutOK
  <2>3. out[c] \in Seq(Symbol) /\ Len(out[c]) \in Nat /\ BlockSize \in Nat
    BY <1>0, GeometryAssumption
  <2>4. ASSUME NEW k \in Nat
        PROVE  SubSeq(out[c], k + 1, Len(out[c])) \in Seq(Symbol)
    <3>1. \A i \in k + 1 .. Len(out[c]) : out[c][i] \in Symbol
      BY <2>3
    <3>2. k + 1 \in Int /\ Len(out[c]) \in Int
      BY <2>3
    <3> HIDE DEF Symbol
    <3> QED
      BY <3>1, <3>2, SubSeqProperties
  <2>5. CASE Answer(c)
    <3>1. PICK k \in 1 .. Len(out[c]) :
            out' = [out EXCEPT ![c] = SubSeq(@, k + 1, Len(@))]
      BY <2>5 DEF Answer
    <3>2. k \in Nat
      BY <2>3
    <3> QED
      BY <1>0, <2>1, <2>4, <3>1, <3>2 DEF OutOK
  <2>6. CASE ShowBlock(c)
    BY <1>0, <2>1, <2>3, <2>4, <2>6 DEF ShowBlock, OutOK
  <2> QED
    BY <1>4, <2>2, <2>5, <2>6 DEF ClientStep
<1> QED
  BY <1>2, <1>3, <1>4 DEF Next

\* A client that its connection does not reach any more has left.
LEMMA StepPresent ==
  ASSUME TypeInv, JoinedOK, PresentOK, [Next]_vars
  PROVE  PresentOK'
<1>0. /\ cli \in [Clients -> {"new", "prompt", "data", "answer", "block", "left"}]
      /\ peer \in [Clients -> PeerStates]
      /\ backlog \in Seq(Clients) /\ (serving # NoOne => serving \in Clients)
      /\ (serving = NoOne) <=> (pc \in {"accept", "dead"})
  BY DEF TypeInv, ClientOK, LinkOK, ServingOK
<1>1. ASSUME backlog' = backlog, serving' = serving, pc' # "close" \/ pc = "close",
             \A d \in Clients : Present(d) => Present(d)', 
             \A d \in Clients : cli[d] = "left" => cli'[d] = "left"
      PROVE  PresentOK'
  <2>1. \A i \in 1 .. Len(backlog) : backlog[i] \in Clients /\ Present(backlog[i])
    BY <1>0 DEF PresentOK
  <2>2. \A d \in Clients : Present(d) => cli'[d] = "left" \/ peer'[d] = "up"
    BY <1>1 DEF Present
  <2>3. \A i \in 1 .. Len(backlog') : cli'[backlog'[i]] = "left" \/ peer'[backlog'[i]] = "up"
    BY <1>1, <2>1, <2>2
  <2>4. serving # NoOne => Present(serving) /\ (pc = "close" => cli[serving] = "left")
    BY DEF PresentOK
  <2>5. serving' # NoOne => /\ cli'[serving'] = "left" \/ peer'[serving'] = "up"
                            /\ pc' = "close" => cli'[serving'] = "left"
    BY <1>0, <1>1, <2>2, <2>4
  <2> QED
    BY <1>0, <1>1, <2>3, <2>5 DEF PresentOK, Present
<1>2. CASE Server
  <2>1. cli' = cli
    BY <1>2 DEF Server
  <2>2. ASSUME NEW symbols, Send(symbols), serving # NoOne, pc' # "close"
        PROVE  PresentOK'
    <3>1. backlog' = backlog /\ serving' = serving /\ serving \in Clients
      BY <1>0, <2>2 DEF Send
    <3>2. /\ peer' \in {peer, [peer EXCEPT ![serving] = "rst"]}
          /\ peer[serving] = "up" => peer' = peer
      BY <2>2 DEF Send
    <3>3. \A d \in Clients : Present(d) => Present(d)'
      BY <1>0, <2>1, <2>2, <3>2 DEF Present, PresentOK
    <3> QED
      BY <1>1, <2>1, <2>2, <3>1, <3>3
  <2>3. CASE Info \/ Unknown \/ ReadRefused \/ ReadLine \/ ReadBlock \/ WriteRefused \/ WriteEnd
    <3>1. \E symbols : Send(symbols)
      BY <2>3 DEF Info, Unknown, ReadRefused, ReadLine, ReadBlock, WriteRefused, WriteEnd
    <3>2. serving # NoOne /\ pc' # "close"
      BY <1>0, <2>3 DEF Info, Unknown, ReadRefused, ReadLine, ReadBlock, WriteRefused,
                        WriteEnd, NextCommand
    <3> QED
      BY <2>2, <3>1, <3>2
  <2>4. CASE SkipSpace \/ TakeChar \/ EndWord \/ AddWord \/ WriteStart \/ WriteByte
    <3>1. UNCHANGED <<peer, backlog, serving>> /\ (pc' # "close" \/ pc = "close")
      BY <2>4 DEF SkipSpace, TakeChar, EndWord, AddWord, WriteStart, WriteByte
    <3>2. \A d \in Clients : Present(d) => Present(d)'
      BY <2>1, <3>1 DEF Present
    <3> QED
      BY <1>1, <2>1, <3>1, <3>2
  <2>5. CASE NoWord \/ WriteFailed
    <3>1. /\ UNCHANGED <<peer, backlog, serving>> /\ serving # NoOne
          /\ RecvError \/ EndOfStream
      BY <1>0, <2>5 DEF NoWord, WriteFailed
    <3>2. cli[serving] = "left"
      BY <3>1 DEF RecvError, EndOfStream, PresentOK, Present
    <3> QED
      BY <2>1, <3>1, <3>2 DEF PresentOK, Present
  <2>6. CASE Accept
    <3>1. /\ serving' = Head(backlog) /\ backlog' = Tail(backlog) /\ peer' = peer
          /\ pc' = "token" /\ backlog # <<>>
      BY <2>6 DEF Accept
    <3>2. /\ Head(backlog) = backlog[1] /\ 1 \in 1 .. Len(backlog)
          /\ \A i \in 1 .. Len(Tail(backlog)) :
               Tail(backlog)[i] = backlog[i + 1] /\ i + 1 \in 1 .. Len(backlog)
      BY <1>0, <3>1
    <3>3. \A i \in 1 .. Len(backlog) : Present(backlog[i])
      BY DEF PresentOK
    <3> QED
      BY <2>1, <3>1, <3>2, <3>3 DEF PresentOK, Present
  <2>7. CASE Close
    <3>1. /\ serving' = NoOne /\ backlog' = backlog /\ pc = "close"
          /\ peer' = [peer EXCEPT ![serving] = "gone"]
      BY <2>7 DEF Close
    <3>2. serving \in Clients /\ cli[serving] = "left"
      BY <1>0, <3>1 DEF PresentOK
    <3>3. \A d \in Clients : Present(d) => Present(d)'
      BY <1>0, <2>1, <3>1, <3>2 DEF Present
    <3>4. \A i \in 1 .. Len(backlog) : backlog[i] \in Clients /\ Present(backlog[i])
      BY <1>0 DEF PresentOK
    <3> QED
      BY <3>1, <3>3, <3>4 DEF PresentOK, Present
  <2>8. CASE BrokenPipe
    BY <2>8 DEF BrokenPipe, PresentOK
  <2> QED
    BY <1>2, <2>3, <2>4, <2>5, <2>6, <2>7, <2>8 DEF Server, ServerStep
<1>3. CASE Start \/ UNCHANGED vars
  <2>1. UNCHANGED <<cli, peer, backlog, serving>> /\ (pc' # "close" \/ pc = "close")
    BY <1>3 DEF Start, Restart, vars
  <2>2. \A d \in Clients : Present(d) => Present(d)'
    BY <2>1 DEF Present
  <2> QED
    BY <1>1, <2>1, <2>2
<1>4. ASSUME NEW c \in Clients, ClientStep(c)
      PROVE  PresentOK'
  <2>1. UNCHANGED <<serving, pc>>
    BY <1>4 DEF ClientStep, Connect, Type, SendData, Answer, ShowBlock, Leave
  <2>2. ASSUME NEW d \in Clients, Present(d)
        PROVE  Present(d)'
    BY <1>0, <1>4, <2>2
    DEF ClientStep, Connect, Type, SendData, Answer, ShowBlock, Leave, Present
  <2>3. \A d \in Clients : cli[d] = "left" => cli'[d] = "left"
    BY <1>0, <1>4 DEF ClientStep, Connect, Type, SendData, Answer, ShowBlock, Leave
  <2>4. CASE Connect(c)
    <3>1. backlog' = Append(backlog, c) /\ peer' = [peer EXCEPT ![c] = "up"]
      BY <2>4 DEF Connect
    <3>2. \A i \in 1 .. Len(backlog') :
            backlog'[i] = c \/ (i \in 1 .. Len(backlog) /\ backlog'[i] = backlog[i])
      BY <1>0, <3>1, AppendProperties
    <3>3. Present(c)'
      BY <1>0, <3>1 DEF Present
    <3>4. \A i \in 1 .. Len(backlog) : backlog[i] \in Clients /\ Present(backlog[i])
      BY <1>0 DEF PresentOK
    <3>6. \A i \in 1 .. Len(backlog') : cli'[backlog'[i]] = "left" \/ peer'[backlog'[i]] = "up"
      <4> TAKE i \in 1 .. Len(backlog')
      <4>1. ASSUME NEW d \in Clients, Present(d)
            PROVE  cli'[d] = "left" \/ peer'[d] = "up"
        BY <2>2, <4>1 DEF Present
      <4>2. cli'[c] = "left" \/ peer'[c] = "up"
        BY <3>3 DEF Present
      <4> QED
        BY <3>2, <3>4, <4>1, <4>2
    <3>7. serving # NoOne => /\ cli'[serving] = "left" \/ peer'[serving] = "up"
                             /\ pc = "close" => cli'[serving] = "left"
      <4>1. ASSUME serving # NoOne
            PROVE  cli'[serving] = "left" \/ peer'[serving] = "up"
        <5>1. PICK d : d = serving
          OBVIOUS
        <5>2. d \in Clients /\ Present(d)
          BY <1>0, <4>1, <5>1 DEF PresentOK, Present
        <5> QED
          BY <2>2, <5>1, <5>2 DEF Present
      <4> QED
        BY <1>0, <2>1, <2>3, <4>1 DEF PresentOK, Present
    <3> QED
      BY <2>1, <3>6, <3>7 DEF PresentOK, Present
  <2>5. CASE ~Connect(c)
    <3>1. backlog' = backlog
      BY <1>4, <2>5 DEF ClientStep, Type, SendData, Answer, ShowBlock, Leave
    <3> QED
      BY <1>1, <2>1, <2>2, <2>3, <3>1
  <2> QED
    BY <2>4, <2>5
<1> QED
  BY <1>2, <1>3, <1>4 DEF Next

\* A client waits while nothing of its connection changes.
LEMMA WaitingKept ==
  ASSUME NEW c, Waiting(c), UNCHANGED <<in[c], out[c], cli[c], line[c], shown[c]>>
  PROVE  Waiting(c)'
  BY DEF Waiting, Pending, Sent

\* A client that takes a step itself waits as before.
LEMMA ClientWaiting ==
  ASSUME TypeInv, OutOK, NEW c \in Clients, ClientStep(c), cli'[c] = "new" \/ peer'[c] = "up",
         cli[c] = "new" \/ peer[c] = "up" => Waiting(c)
  PROVE  Waiting(c)'
<1>0. /\ cli \in [Clients -> {"new", "prompt", "data", "answer", "block", "left"}]
      /\ peer \in [Clients -> PeerStates] /\ in \in [Clients -> Seq(Byte)]
      /\ line \in [Clients -> Lines \cup {NoLine}]
      /\ out \in [Clients -> Seq(Symbol)] /\ DOMAIN shown = Clients
  BY DEF TypeInv, ClientOK, LinkOK, OutOK
<1>1. Waiting(c)
  BY <1>0 DEF ClientStep, Connect, Type, SendData, Answer, ShowBlock, Leave
<1>2. out[c] = <<>> /\ shown[c] = <<>>
  BY <1>1 DEF Waiting
<1>3. CASE Connect(c)
  <2>1. /\ cli'[c] = "prompt" /\ UNCHANGED <<in, out, shown>> /\ in[c] = <<>>
    BY <1>0, <1>1, <1>3 DEF Connect, Waiting
  <2> QED
    BY <1>2, <2>1 DEF Waiting
<1>4. CASE Type(c)
  <2>1. cli[c] = "prompt" /\ in[c] = <<>>
    BY <1>1, <1>4 DEF Type, Waiting
  <2>2. PICK l \in Lines :
          /\ line' = [line EXCEPT ![c] = l]
          /\ in' = [in EXCEPT ![c] = @ \o Header(l)]
          /\ cli' = [cli EXCEPT ![c] = IF l.data = <<>> THEN "answer" ELSE "data"]
    BY <1>4 DEF Type, Deliver
  <2>3. PICK h : h = Rest(l, 1)
    OBVIOUS
  <2>4. h \in Seq(Char) /\ Header(l) = h
    <3>1. 1 \in 1 .. 5
      OBVIOUS
    <3> QED
      BY <2>3, <3>1, RestIs, HeaderIsRest
  <2>5. in'[c] = h
    <3>1. in'[c] = in[c] \o h
      BY <1>0, <2>2, <2>4
    <3> QED
      BY <2>1, <2>4, <3>1, ConcatNil
  <2>6. line'[c] = l /\ cli'[c] = (IF l.data = <<>> THEN "answer" ELSE "data")
    BY <1>0, <2>2
  <2>7. shown'[c] = <<>> /\ out'[c] = <<>>
    BY <1>0, <1>2, <1>4 DEF Type
  <2>8. Sent(c)' = <<>> /\ Pending(c)' /\ cli'[c] \in {"data", "answer"}
    BY <2>2, <2>6, <2>7 DEF Sent, Pending
  <2>9. in'[c] = Rest(line'[c], 1) \o Sent(c)'
    <3>1. h \o <<>> = h
      BY <2>4, ConcatNil
    <3> QED
      BY <2>3, <2>5, <2>6, <2>8, <3>1
  <2> QED
    BY <2>7, <2>8, <2>9 DEF Waiting
<1>5. CASE SendData(c)
  <2>1. /\ cli[c] = "data" /\ Pending(c) /\ in[c] = Rest(line[c], 1) \o Sent(c)
    BY <1>1, <1>5 DEF SendData, Waiting
  <2>2. PICK l, h, d : l = line[c] /\ h = Rest(l, 1) /\ d = line[c].data
    OBVIOUS
  <2>3. l \in Lines /\ d \in Seq(Char) /\ h \in Seq(Char)
    <3>1. l \in Lines
      BY <2>1, <2>2 DEF Pending
    <3>2. d \in Seq(Byte)
      BY <2>2, <3>1, LinesAssumption, HeadersAssumption
    <3>3. 1 \in 1 .. 5
      OBVIOUS
    <3> QED
      BY <2>2, <3>1, <3>2, <3>3, RestIs, CharSequences
  <2>4. in[c] = h
    <3>1. Sent(c) = <<>>
      BY <2>1 DEF Sent
    <3> QED
      BY <2>1, <2>2, <2>3, <3>1, ConcatNil
  <2>5. /\ in'[c] = h \o d /\ cli'[c] = "answer"
        /\ UNCHANGED <<out, line, shown>>
    BY <1>0, <1>5, <2>2, <2>4 DEF SendData, Deliver
  <2>6. Sent(c)' = d /\ Pending(c)'
    BY <2>1, <2>2, <2>5 DEF Sent, Pending
  <2> QED
    BY <1>2, <2>2, <2>5, <2>6 DEF Waiting
<1>6. CASE Answer(c)
  BY <1>2, <1>6 DEF Answer
<1>7. CASE ShowBlock(c)
  <2>1. Len(out[c]) = 0
    BY <1>2
  <2> QED
    BY <1>7, <2>1, GeometryAssumption DEF ShowBlock
<1>8. CASE Leave(c)
  BY <1>0, <1>8 DEF Leave
<1> QED
  BY <1>3, <1>4, <1>5, <1>6, <1>7, <1>8 DEF ClientStep

\* A step leaves the link to another connection as it is.
LEMMA OtherKept ==
  ASSUME TypeInv, OutOK, NEW d \in Clients, ClientStep(d), NEW c \in Clients, c # d
  PROVE  UNCHANGED <<in[c], out[c], peer[c], cli[c], line[c], shown[c]>>
<1>0. /\ cli \in [Clients -> {"new", "prompt", "data", "answer", "block", "left"}]
      /\ peer \in [Clients -> PeerStates] /\ in \in [Clients -> Seq(Byte)]
      /\ line \in [Clients -> Lines \cup {NoLine}]
      /\ out \in [Clients -> Seq(Symbol)] /\ DOMAIN shown = Clients
  BY DEF TypeInv, ClientOK, LinkOK, OutOK
<1>1. CASE Connect(d)
  BY <1>0, <1>1 DEF Connect
<1>2. CASE Type(d)
  BY <1>0, <1>2 DEF Type, Deliver
<1>3. CASE SendData(d)
  BY <1>0, <1>3 DEF SendData, Deliver
<1>4. CASE Answer(d)
  BY <1>0, <1>4 DEF Answer
<1>5. CASE ShowBlock(d)
  BY <1>0, <1>5 DEF ShowBlock
<1>6. CASE Leave(d)
  BY <1>0, <1>6 DEF Leave
<1> QED
  BY <1>1, <1>2, <1>3, <1>4, <1>5, <1>6 DEF ClientStep

\* Every step keeps the clients that wait.
LEMMA StepWaiting ==
  ASSUME TypeInv, JoinedOK, OutOK, WaitingOK, [Next]_vars
  PROVE  WaitingOK'
<1>0. /\ peer \in [Clients -> PeerStates] /\ in \in [Clients -> Seq(Byte)]
      /\ out \in [Clients -> Seq(Symbol)] /\ backlog \in Seq(Clients)
      /\ (serving = NoOne) <=> (pc \in {"accept", "dead"}) /\ serving \in Clients \cup {NoOne}
      /\ NoOne \notin Clients
  BY GeometryAssumption DEF TypeInv, ClientOK, LinkOK, OutOK, ServingOK
<1> SUFFICES ASSUME NEW c \in Clients, c # serving', cli'[c] = "new" \/ peer'[c] = "up"
             PROVE  Waiting(c)'
  BY DEF WaitingOK
<1>1. ASSUME UNCHANGED <<in[c], out[c], cli[c], line[c], shown[c]>>, c # serving, peer[c] = peer'[c]
      PROVE  Waiting(c)'
  BY <1>1, WaitingKept DEF WaitingOK
<1>2. CASE Server
  <2>1. UNCHANGED client
    BY <1>2 DEF Server
  <2>2. CASE Accept
    BY <1>0, <1>1, <2>1, <2>2 DEF Accept
  <2>3. CASE Close
    <3>1. c # serving
      <4>1. SUFFICES ASSUME c = serving PROVE FALSE
        OBVIOUS
      <4>2. cli[c] # "new"
        BY <1>0, <4>1 DEF JoinedOK
      <4>3. peer' = [peer EXCEPT ![c] = "gone"]
        BY <2>3, <4>1 DEF Close
      <4>4. peer'[c] = "gone"
        BY <1>0, <4>3
      <4> QED
        BY <2>1, <4>2, <4>4
    <3>2. peer' = [peer EXCEPT ![serving] = "gone"] /\ UNCHANGED <<in, out>>
      BY <2>3 DEF Close
    <3>3. peer'[c] = peer[c]
      BY <1>0, <3>1, <3>2
    <3> QED
      BY <1>1, <2>1, <3>1, <3>2, <3>3
  <2>4. CASE BrokenPipe
    <3>1. peer'[c] # "up" /\ UNCHANGED <<in, out>>
      BY <1>0, <2>4 DEF BrokenPipe
    <3>2. cli[c] = "new" /\ c # serving
      BY <1>0, <2>1, <3>1 DEF JoinedOK
    <3>3. Waiting(c)
      BY <3>2 DEF WaitingOK
    <3> QED
      BY <2>1, <3>1, <3>3, WaitingKept
  <2>5. CASE Info \/ Unknown \/ ReadRefused \/ ReadLine \/ ReadBlock \/ WriteRefused \/ WriteEnd
    <3>1. PICK symbols : Send(symbols)
      BY <2>5 DEF Info, Unknown, ReadRefused, ReadLine, ReadBlock, WriteRefused, WriteEnd
    <3>2. serving' = serving /\ in' = in
      BY <3>1 DEF Send
    <3>3. peer'[c] = peer[c] /\ out'[c] = out[c]
      BY <1>0, <3>1, <3>2 DEF Send
    <3> QED
      BY <1>1, <2>1, <3>2, <3>3
  <2>6. CASE SkipSpace \/ TakeChar \/ EndWord \/ WriteByte
    <3>1. /\ UNCHANGED <<serving, peer, out>>
          /\ in' \in {in, [in EXCEPT ![serving] = Tail(@)]}
      BY <2>6 DEF SkipSpace, TakeChar, EndWord, WriteByte, Consume
    <3>2. in'[c] = in[c]
      BY <1>0, <3>1
    <3> QED
      BY <1>1, <2>1, <3>1, <3>2
  <2>7. CASE NoWord \/ AddWord \/ WriteStart \/ WriteFailed
    <3>1. UNCHANGED <<serving, peer, out, in>>
      BY <2>7 DEF NoWord, AddWord, WriteStart, WriteFailed
    <3> QED
      BY <1>1, <2>1, <3>1
  <2> QED
    BY <1>2, <2>2, <2>3, <2>4, <2>5, <2>6, <2>7 DEF Server, ServerStep
<1>3. CASE Start \/ UNCHANGED vars
  <2>1. UNCHANGED <<serving, peer, out, in, client>>
    BY <1>3 DEF Start, Restart, vars
  <2> QED
    BY <1>1, <2>1
<1>4. ASSUME NEW d \in Clients, ClientStep(d)
      PROVE  Waiting(c)'
  <2>1. serving' = serving
    BY <1>4 DEF ClientStep, Connect, Type, SendData, Answer, ShowBlock, Leave
  <2>2. CASE d = c
    <3>1. cli[c] = "new" \/ peer[c] = "up" => Waiting(c)
      BY <2>1 DEF WaitingOK
    <3>2. ClientStep(c)
      BY <1>4, <2>2
    <3> QED
      BY <3>1, <3>2, ClientWaiting
  <2>3. CASE d # c
    <3>1. UNCHANGED <<in[c], out[c], peer[c], cli[c], line[c], shown[c]>>
      BY <1>4, <2>3, OtherKept
    <3> QED
      BY <1>1, <2>1, <3>1
  <2> QED
    BY <2>2, <2>3
<1> QED
  BY <1>2, <1>3, <1>4 DEF Next

\* One symbol is a sequence of symbols.
LEMMA SymbolSeq == \A s \in Symbol : <<s>> \in Seq(Symbol) /\ Len(<<s>>) = 1 /\ <<s>>[1] = s
<1> HIDE DEF Symbol
<1> QED
  OBVIOUS

\* What is left of an answer when its line, or more, has been received.
LEMMA AfterLine ==
  ASSUME NEW s \in Symbol, NEW b \in Seq(Symbol), NEW y, y = <<s>> \o b
  PROVE  /\ y \in Seq(Symbol) /\ Len(y) = Len(b) + 1 /\ y[1] = s
         /\ SubSeq(y, 2, Len(y)) = b
<1>1. PICK n, t : n = Len(b) /\ t = <<s>>
  OBVIOUS
<1>2. n \in Nat /\ t \in Seq(Symbol) /\ Len(t) = 1 /\ t[1] = s
  BY <1>1, SymbolSeq
<1>3. /\ y \in Seq(Symbol) /\ Len(y) = 1 + n
      /\ \A i \in 1 .. 1 + n : y[i] = IF i <= 1 THEN t[i] ELSE b[i - 1]
  <2> HIDE DEF Symbol
  <2>1. /\ t \o b \in Seq(Symbol) /\ Len(t \o b) = Len(t) + Len(b)
        /\ \A i \in 1 .. Len(t) + Len(b) : (t \o b)[i] = IF i <= Len(t) THEN t[i] ELSE b[i - Len(t)]
    BY <1>2, ConcatProperties
  <2> QED
    BY <1>1, <1>2, <2>1
<1>4. y[1] = s
  <2>1. 1 \in 1 .. 1 + n
    BY <1>2
  <2> QED
    BY <1>2, <1>3, <2>1
<1>5. SubSeq(y, 2, 1 + n) = b
  <2>1. CASE n = 0
    <3>1. b = <<>>
      BY <1>1, <2>1, EmptySeq
    <3>2. 2 \in Int /\ 1 + n \in Int /\ 1 + n < 2
      BY <2>1
    <3> QED
      BY <3>1, <3>2, SubSeqEmpty
  <2>2. CASE n # 0
    <3>1. PICK p, a, e : p = 1 + n /\ a = 2 /\ e = Len(t)
      OBVIOUS
    <3>2. /\ a \in e + 1 .. e + n /\ p \in e + 1 .. e + n
          /\ a - e = 1 /\ p - e = n
      <4>1. n \in Nat /\ e = 1
        BY <1>2, <3>1
      <4> QED
        BY <2>2, <3>1, <4>1
    <3>3. SubSeq(t \o b, a, p) = SubSeq(b, a - Len(t), p - Len(t))
      <4>1. a \in Len(t) + 1 .. Len(t) + Len(b) /\ p \in Len(t) + 1 .. Len(t) + Len(b)
        BY <1>1, <3>1, <3>2
      <4> HIDE DEF Symbol
      <4> QED
        BY <1>2, <4>1, SubSeqOfConcat2
    <3>4. SubSeq(b, 1, n) = b
      BY <1>1, SubSeqFull
    <3> QED
      BY <1>1, <3>1, <3>2, <3>3, <3>4
  <2> QED
    BY <2>1, <2>2
<1>9. Len(y) = Len(b) + 1
  BY <1>1, <1>2, <1>3
<1> QED
  BY <1>1, <1>2, <1>3, <1>4, <1>5, <1>9

\* Nothing of the header has been read: its first word is next.
Ahead(c) ==
  /\ cli[c] \in {"data", "answer"} /\ Pending(c) /\ out[c] = <<>> /\ Idle
  /\ in[c] = Rest(line[c], 1) \o Sent(c)

\* With the whole header on its way, the server has it to read.
LEMMA HeaderAhead ==
  ASSUME NEW c, Ahead(c)'
  PROVE  Phase(c)'
<1> USE DEF Ahead
<1>1. PICK l, h, u, r : l = line'[c] /\ h = Rest(l, 1) /\ u = HeaderWords(l)[1] /\ r = Rest(l, 2)
  OBVIOUS
<1>2. l \in Lines
  BY <1>1 DEF Pending
<1>3. PICK k : k = Len(HeaderWords(l))
  OBVIOUS
<1>4. k \in 1 .. 4 /\ 1 \in 1 .. k
  <2>1. k \in 1 .. 4
    BY <1>2, <1>3, HeaderWordsAre
  <2> QED
    BY <2>1
<1>5. h = u \o (<<Space>> \o r)
  <2>1. PICK m : m = 1
    OBVIOUS
  <2>2. m \in 1 .. Len(HeaderWords(l)) /\ m + 1 = 2
    BY <1>3, <1>4, <2>1
  <2>3. \A j \in 1 .. Len(HeaderWords(l)) :
          Rest(l, j) = HeaderWords(l)[j] \o (<<Space>> \o Rest(l, j + 1))
    BY <1>2, RestIs
  <2>4. Rest(l, m) = HeaderWords(l)[m] \o (<<Space>> \o Rest(l, m + 1))
    BY <2>2, <2>3
  <2> QED
    BY <1>1, <2>1, <2>2, <2>4
<1>6. u \in Seq(Char) /\ h \in Seq(Char)
  <2>1. u \in Seq(Char)
    BY <1>1, <1>2, <1>3, <1>4, HeaderWordsAre DEF IsWord
  <2>2. 1 \in 1 .. 5
    OBVIOUS
  <2> QED
    BY <1>1, <1>2, <2>1, <2>2, RestIs
<1>7. <<>> \o u = u
  BY <1>6, ConcatNil
<1>8. Len(words') = 0 /\ Len(words') + 1 = 1 /\ Len(words') + 2 = 2 /\ tok' = <<>> /\ pc' = "token"
  BY DEF Idle
<1>9. HeaderWords(l)[Len(words') + 1] = tok' \o u /\ r = Rest(l, Len(words') + 2)
  BY <1>1, <1>7, <1>8
<1>10. ReadingWord(l, h)'
  BY <1>5, <1>6, <1>8, <1>9 DEF ReadingWord
<1>11. /\ Len(words') < Len(HeaderWords(l))
       /\ \A i \in 1 .. Len(words') : words'[i] = HeaderWords(l)[i]
  BY <1>3, <1>4, <1>8
<1>12. InHeader(c)'
  BY <1>1, <1>6, <1>10, <1>11 DEF InHeader
<1> QED
  BY <1>12 DEF Phase, Asking

\* A client that is accepted was waiting, or left.
LEMMA AcceptStep ==
  ASSUME TypeInv, JoinedOK, WaitingOK, PresentOK, Accept, UNCHANGED client
  PROVE  cli'[serving'] = "left" \/ Phase(serving)'
<1>1. PICK c : c = serving'
  OBVIOUS
<1>2. /\ c = backlog[1] /\ 1 \in 1 .. Len(backlog) /\ c \in Clients
  BY <1>1 DEF Accept, TypeInv, LinkOK
<1>3. serving = NoOne /\ c # serving
  BY <1>2, GeometryAssumption DEF Accept, TypeInv, ServingOK
<1>4. cli[c] # "new"
  BY <1>2 DEF JoinedOK
<1>5. SUFFICES ASSUME cli[c] # "left" PROVE Phase(c)'
  BY <1>1 DEF Phase, AtPrompt, Asking, InHeader, HasHeader, Sent, Pending, Answered, Showing
<1>6. peer[c] = "up"
  BY <1>2, <1>5 DEF PresentOK, Present
<1>7. Waiting(c)
  BY <1>2, <1>3, <1>6 DEF WaitingOK
<1>8. /\ Idle' /\ UNCHANGED <<in, out, disk>>
  BY DEF Accept, Idle
<1>9. CASE cli[c] \in {"new", "prompt"} /\ in[c] = <<>>
  <2>1. AtPrompt(c)'
    BY <1>4, <1>7, <1>8, <1>9 DEF AtPrompt, Waiting
  <2> QED
    BY <2>1 DEF Phase
<1>10. CASE cli[c] \in {"data", "answer"} /\ Pending(c) /\ in[c] = Rest(line[c], 1) \o Sent(c)
  <2>1. /\ cli'[c] \in {"data", "answer"} /\ Pending(c)' /\ out'[c] = <<>>
        /\ in'[c] = Rest(line'[c], 1) \o Sent(c)'
    BY <1>7, <1>8, <1>10 DEF Waiting, Pending, Sent
  <2>2. Ahead(c)'
    BY <1>8, <2>1 DEF Ahead
  <2> QED
    BY <2>2, HeaderAhead
<1> QED
  BY <1>7, <1>9, <1>10 DEF Waiting

\* The steps of the client that is served.

LEMMA TypePhase ==
  ASSUME TypeInv, OutOK, NEW c \in Clients, Phase(c), Type(c)
  PROVE  Phase(c)'
<1>0. /\ cli \in [Clients -> {"new", "prompt", "data", "answer", "block", "left"}]
      /\ in \in [Clients -> Seq(Byte)] /\ line \in [Clients -> Lines \cup {NoLine}]
      /\ DOMAIN shown = Clients
  BY DEF TypeInv, ClientOK, LinkOK, OutOK
<1>1. AtPrompt(c)
  BY DEF Type, Phase, Asking, Answered, Showing
<1>2. Idle /\ in[c] = <<>> /\ out[c] = <<>>
  BY <1>1 DEF AtPrompt
<1>3. PICK l \in Lines :
        /\ line' = [line EXCEPT ![c] = l]
        /\ in' = [in EXCEPT ![c] = @ \o Header(l)]
        /\ cli' = [cli EXCEPT ![c] = IF l.data = <<>> THEN "answer" ELSE "data"]
  BY DEF Type, Deliver
<1>4. shown'[c] = <<>> /\ out'[c] = <<>> /\ Idle'
  BY <1>0, <1>2 DEF Type, Idle
<1>5. line'[c] = l /\ cli'[c] = (IF l.data = <<>> THEN "answer" ELSE "data")
  BY <1>0, <1>3
<1>6. Sent(c)' = <<>> /\ Pending(c)' /\ cli'[c] \in {"data", "answer"}
  BY <1>3, <1>4, <1>5 DEF Sent, Pending
<1>7. PICK h : h = Rest(l, 1)
  OBVIOUS
<1>8. h \in Seq(Char) /\ Header(l) = h
  <2>1. 1 \in 1 .. 5
    OBVIOUS
  <2> QED
    BY <1>7, <2>1, RestIs, HeaderIsRest
<1>9. in'[c] = h
  <2>1. in'[c] = in[c] \o h
    BY <1>0, <1>3, <1>8
  <2> QED
    BY <1>2, <1>8, <2>1, ConcatNil
<1>10. h \o <<>> = h
  BY <1>8, ConcatNil
<1>11. PICK g, d : g = Rest(line'[c], 1) /\ d = Sent(c)'
  OBVIOUS
<1>12. g = h /\ d = <<>>
  BY <1>5, <1>6, <1>7, <1>11
<1>13. in'[c] = g \o d
  BY <1>9, <1>10, <1>12
<1>14. in'[c] = Rest(line'[c], 1) \o Sent(c)'
  BY <1>11, <1>13
<1>15. Ahead(c)'
  BY <1>4, <1>6, <1>14 DEF Ahead
<1> QED
  BY <1>15, HeaderAhead

\* The client sends the data of a write.
LEMMA SendDataPhase ==
  ASSUME TypeInv, OutOK, NEW c \in Clients, Phase(c), SendData(c)
  PROVE  Phase(c)'
<1>0. /\ cli \in [Clients -> {"new", "prompt", "data", "answer", "block", "left"}]
      /\ in \in [Clients -> Seq(Byte)]
  BY DEF TypeInv, ClientOK, LinkOK
<1>1. cli[c] = "data" /\ Pending(c) /\ out[c] = <<>> /\ (InHeader(c) \/ HasHeader(c))
  BY DEF SendData, Phase, AtPrompt, Asking, Answered, Showing
<1>2. PICK l, d : l = line[c] /\ d = l.data
  OBVIOUS
<1>3. l \in Lines /\ Sent(c) = <<>>
  BY <1>1, <1>2 DEF Pending, Sent
<1>4. d \in Seq(Byte) /\ d \in Seq(Char) /\ Len(d) \in Nat
  <2>1. d \in Seq(Byte)
    BY <1>2, <1>3, LinesAssumption, HeadersAssumption
  <2> QED
    BY <2>1, CharSequences
<1>5. /\ in'[c] = in[c] \o d /\ cli'[c] = "answer"
      /\ UNCHANGED <<disk, out, line, shown, pc, tok, words, done>>
  BY <1>0, <1>2 DEF SendData, Deliver
<1>6. Sent(c)' = d /\ Pending(c)' /\ out'[c] = <<>>
  BY <1>1, <1>2, <1>5 DEF Sent, Pending
<1>7. CASE InHeader(c)
  <2>1. PICK stream \in Seq(Char) : /\ ReadingWord(l, stream) \/ HasWord(l, stream)
                                    /\ in[c] = stream \o <<>>
    BY <1>2, <1>3, <1>7 DEF InHeader
  <2>2. in'[c] = stream \o Sent(c)'
    BY <1>5, <1>6, <2>1, ConcatNil
  <2>3. ReadingWord(l, stream)' \/ HasWord(l, stream)'
    BY <1>5, <2>1 DEF ReadingWord, HasWord
  <2>4. InHeader(c)'
    BY <1>2, <1>5, <1>7, <2>2, <2>3 DEF InHeader
  <2> QED
    BY <1>5, <1>6, <2>4 DEF Phase, Asking
<1>8. CASE HasHeader(c)
  <2>1. <<>> \o d = d /\ d = SubSeq(d, 1, Len(d)) /\ Len(<<>>) = 0
    BY <1>4, ConcatNil, SubSeqFull
  <2>2. in[c] = <<>> /\ (pc = "data" => done = 0)
    <3>1. CASE pc = "execute"
      BY <1>3, <1>8, <3>1 DEF HasHeader
    <3>2. CASE pc # "execute"
      <4>1. done <= 0 /\ in[c] = SubSeq(<<>>, done + 1, 0)
        BY <1>3, <1>8, <2>1, <3>2 DEF HasHeader
      <4>2. done = 0 /\ done \in Nat
        BY <4>1 DEF TypeInv, StoreOK
      <4>3. SubSeq(<<>>, 1, 0) = <<>>
        BY SubSeqEmpty
      <4> QED
        BY <4>1, <4>2, <4>3
    <3> QED
      BY <3>1, <3>2
  <2>3. in'[c] = d
    BY <1>5, <2>1, <2>2
  <2>4. pc = "data" => done' <= Len(d) /\ in'[c] = SubSeq(d, done' + 1, Len(d))
    BY <1>4, <1>5, <2>1, <2>2, <2>3
  <2>5. HasHeader(c)'
    BY <1>2, <1>5, <1>6, <1>8, <2>3, <2>4 DEF HasHeader
  <2> QED
    BY <1>5, <1>6, <2>5 DEF Phase, Asking
<1> QED
  BY <1>1, <1>7, <1>8

\* The client reads the answer.
LEMMA AnswerPhase ==
  ASSUME TypeInv, HistoryOK, OutOK, NEW c \in Clients, Phase(c), Answer(c)
  PROVE  Phase(c)'
<1>0. /\ cli \in [Clients -> {"new", "prompt", "data", "answer", "block", "left"}]
      /\ out \in [Clients -> Seq(Symbol)]
  BY DEF TypeInv, ClientOK, OutOK
<1>1. PICK l, y : l = line[c] /\ y = out[c]
  OBVIOUS
<1>2. /\ Answered(c) /\ cli[c] = "answer" /\ y # <<>>
  BY <1>1 DEF Answer, Phase, AtPrompt, Asking, Showing
<1>3. y \in Seq(Symbol)
  BY <1>0, <1>1
<1>4. PICK k \in 1 .. Len(y) : out' = [out EXCEPT ![c] = SubSeq(@, k + 1, Len(@))]
  BY <1>1 DEF Answer
<1>5. out'[c] = SubSeq(y, k + 1, Len(y))
  BY <1>0, <1>1, <1>4
<1>6. /\ cli'[c] = (IF l.op = "R" /\ StartsWithZero(y) THEN "block" ELSE "prompt")
      /\ UNCHANGED <<disk, in, line, shown, pc, tok, words, done>>
  BY <1>0, <1>1 DEF Answer
<1>7. /\ Pending(c) /\ in[c] = <<>> /\ shown[c] = <<>> /\ l \in Lines
  BY <1>1, <1>2 DEF Answered, Pending
<1>8. /\ shown'[c] = <<>> /\ in'[c] = <<>> /\ l = line'[c]
  BY <1>1, <1>6, <1>7
<1>9. "read_ok" \in Symbol
  BY DEF Symbol, Answers
<1>10. ASSUME Len(y) = 1
       PROVE  out'[c] = <<>>
  <2>1. k = 1
    BY <1>10
  <2>2. SubSeq(y, 2, 1) = <<>>
    BY SubSeqEmpty
  <2> QED
    BY <1>5, <1>10, <2>1, <2>2
<1>11. CASE BetweenSends(l) /\ y = <<"read_ok">>
  <2>1. Len(y) = 1 /\ y[1] = "read_ok"
    BY <1>11
  <2>2. cli'[c] = "block" /\ out'[c] = <<>>
    BY <1>6, <1>10, <1>11, <2>1 DEF BetweenSends, Readable, StartsWithZero
  <2>3. Pending(c)' /\ BetweenSends(l)'
    BY <1>6, <1>7, <1>8, <1>11, <2>2 DEF Pending, BetweenSends
  <2>4. Showing(c)'
    BY <1>8, <2>2, <2>3 DEF Showing
  <2> QED
    BY <2>4 DEF Phase
<1>12. CASE Idle /\ Readable(l) /\ y = <<"read_ok">> \o BlockOf(l)
  <2>1. PICK b : b = BlockOf(l)
    OBVIOUS
  <2>2. b \in Seq(Symbol) /\ Len(b) = BlockSize /\ BlockSize \in Nat
    <3>1. BlockIdx(HeaderWords(l)) \in Blocks
      BY <1>12, InRangeIsBlock DEF Readable
    <3>2. b \in [1 .. BlockSize -> Symbol] /\ BlockSize \in Nat
      BY <2>1, <3>1, GeometryAssumption DEF HistoryOK, Disks, BlockOf
    <3> HIDE DEF Symbol
    <3> QED
      BY <3>2
  <2>3. Len(y) = Len(b) + 1 /\ y[1] = "read_ok" /\ SubSeq(y, 2, Len(y)) = b
    BY <1>9, <1>12, <2>1, <2>2, AfterLine
  <2>4. cli'[c] = "block"
    BY <1>6, <1>12, <2>3 DEF Readable, StartsWithZero
  <2>5. Pending(c)' /\ Idle' /\ BlockOf(l)' = b
    BY <1>6, <1>7, <1>8, <1>12, <2>1, <2>4 DEF Pending, Idle, BlockOf
  <2>6. CASE k = 1
    <3>1. out'[c] = b
      BY <1>5, <2>3, <2>6
    <3>2. Showing(c)'
      BY <1>8, <1>12, <2>4, <2>5, <3>1 DEF Showing
    <3> QED
      BY <3>2 DEF Phase
  <2>7. CASE k # 1
    <3>1. PICK n, a : n = Len(y) /\ a = k + 1
      OBVIOUS
    <3>2. n = BlockSize + 1 /\ a \in Int /\ n \in Int /\ a > 2 /\ a >= 1
      BY <2>2, <2>3, <2>7, <3>1
    <3>3. ASSUME a <= n
          PROVE  Len(out'[c]) < BlockSize
      <4>1. a \in 1 .. Len(y) /\ n \in a .. Len(y)
        BY <3>1, <3>2, <3>3
      <4>2. Len(SubSeq(y, a, n)) = n - a + 1
        BY <1>3, <4>1, PieceLen
      <4> QED
        <5>1. Len(out'[c]) = n - a + 1
          BY <1>5, <3>1, <4>2
        <5> QED
          BY <2>2, <3>2, <5>1
    <3>6. ASSUME ~(a <= n)
          PROVE  Len(out'[c]) < BlockSize
      <4>1. SubSeq(y, a, n) = <<>>
        BY <3>2, <3>6, SubSeqEmpty
      <4>2. out'[c] = <<>>
        BY <1>5, <3>1, <4>1
      <4>3. Len(out'[c]) = 0
        BY <4>2
      <4>4. BlockSize > 0
        BY GeometryAssumption
      <4> QED
        BY <4>3, <4>4
    <3>4. Len(out'[c]) < BlockSize
      BY <3>3, <3>6
    <3>5. Showing(c)'
      BY <1>8, <2>4, <2>5, <3>4 DEF Showing
    <3> QED
      BY <3>5 DEF Phase
  <2> QED
    BY <2>6, <2>7
<1>13. CASE Idle /\ Len(y) = 1 /\ (l.op = "R" => y = <<"invalid_read">>)
  <2>1. cli'[c] = "prompt"
    <3>1. l.op = "R" => y[1] = "invalid_read"
      BY <1>13
    <3> QED
      BY <1>6, <3>1 DEF StartsWithZero
  <2>2. out'[c] = <<>> /\ Idle'
    BY <1>6, <1>10, <1>13 DEF Idle
  <2>3. AtPrompt(c)'
    BY <1>8, <2>1, <2>2 DEF AtPrompt
  <2> QED
    BY <2>3 DEF Phase
<1> QED
  BY <1>1, <1>2, <1>11, <1>12, <1>13 DEF Answered

\* The client reads the block, and displays it.
LEMMA ShowBlockPhase ==
  ASSUME TypeInv, HistoryOK, OutOK, NEW c \in Clients, Phase(c), ShowBlock(c)
  PROVE  Phase(c)'
<1>0. /\ cli \in [Clients -> {"new", "prompt", "data", "answer", "block", "left"}]
      /\ out \in [Clients -> Seq(Symbol)] /\ DOMAIN shown = Clients
      /\ BlockSize \in Nat /\ BlockSize > 0
  BY GeometryAssumption DEF TypeInv, ClientOK, OutOK
<1>1. PICK l, b : l = line[c] /\ b = BlockOf(l)
  OBVIOUS
<1>2. Showing(c) /\ Len(out[c]) >= BlockSize
  BY DEF ShowBlock, Phase, AtPrompt, Asking, Answered
<1>3. Idle /\ Readable(l) /\ out[c] = b /\ Pending(c) /\ in[c] = <<>>
  <2>1. Len(<<>>) = 0
    OBVIOUS
  <2>2. out[c] # <<>> /\ ~(Len(out[c]) < BlockSize)
    BY <1>0, <1>2, <2>1
  <2> QED
    BY <1>1, <1>2, <2>2 DEF Showing
<1>4. l \in Lines /\ l.op = "R" /\ BlockIdx(HeaderWords(l)) \in Blocks
  BY <1>1, <1>3, InRangeIsBlock DEF Pending, Readable
<1>5. b \in Seq(Symbol) /\ Len(b) = BlockSize
  <2>1. b \in [1 .. BlockSize -> Symbol]
    BY <1>1, <1>4 DEF HistoryOK, Disks, BlockOf
  <2> HIDE DEF Symbol
  <2> QED
    BY <1>0, <2>1
<1>6. shown'[c] = b /\ out'[c] = <<>>
  <2>1. SubSeq(b, 1, BlockSize) = b
    BY <1>5, SubSeqFull
  <2>2. SubSeq(b, BlockSize + 1, BlockSize) = <<>>
    BY <1>0, SubSeqEmpty
  <2>3. shown'[c] = SubSeq(out[c], 1, BlockSize)
    BY <1>0 DEF ShowBlock
  <2>4. out'[c] = SubSeq(out[c], BlockSize + 1, Len(out[c]))
    BY <1>0 DEF ShowBlock
  <2> QED
    BY <1>3, <1>5, <2>1, <2>2, <2>3, <2>4
<1>7. b = disk[l.cyl * SectorsPerCyl + l.sec]
  BY <1>1, <1>4, HeaderMeans DEF BlockOf, BlockIdx
<1>8. /\ cli'[c] = "prompt" /\ Idle' /\ in'[c] = <<>> /\ line'[c] = l /\ disk' = disk
  BY <1>0, <1>1, <1>3 DEF ShowBlock, Idle
<1>9. AtPrompt(c)'
  BY <1>6, <1>7, <1>8 DEF AtPrompt
<1> QED
  BY <1>9 DEF Phase

\* The exchange stands still while nothing of it changes.
LEMMA PhaseKept ==
  ASSUME NEW c, Phase(c), UNCHANGED <<disk, pc, tok, words, done>>,
         UNCHANGED <<in[c], out[c], cli[c], line[c], shown[c]>>
  PROVE  Phase(c)'
<1>1. Pending(c) => Pending(c)'
  BY DEF Pending
<1>2. Sent(c)' = Sent(c) /\ (Idle => Idle')
  BY DEF Sent, Idle
<1>3. CASE AtPrompt(c)
  <2>1. AtPrompt(c)'
    BY <1>2, <1>3 DEF AtPrompt
  <2> QED
    BY <2>1 DEF Phase
<1>4. CASE Asking(c)
  <2>1. CASE InHeader(c)
    <3>1. PICK stream \in Seq(Char) :
            /\ ReadingWord(line[c], stream) \/ HasWord(line[c], stream)
            /\ in[c] = stream \o Sent(c)
      BY <2>1 DEF InHeader
    <3>2. ReadingWord(line[c], stream)' \/ HasWord(line[c], stream)'
      BY <3>1 DEF ReadingWord, HasWord
    <3>3. InHeader(c)'
      BY <1>2, <2>1, <3>1, <3>2 DEF InHeader
    <3> QED
      BY <1>1, <1>4, <3>3 DEF Phase, Asking
  <2>2. CASE HasHeader(c)
    <3>1. HasHeader(c)'
      BY <1>2, <2>2 DEF HasHeader
    <3> QED
      BY <1>1, <1>4, <3>1 DEF Phase, Asking
  <2> QED
    BY <1>4, <2>1, <2>2 DEF Asking
<1>5. BetweenSends(line[c]) => BetweenSends(line[c])'
  BY DEF BetweenSends, Readable
<1>6. CASE Answered(c)
  <2>1. Answered(c)'
    BY <1>1, <1>2, <1>5, <1>6 DEF Answered, Readable, BlockOf
  <2> QED
    BY <2>1 DEF Phase
<1>7. CASE Showing(c)
  <2>1. Showing(c)'
    BY <1>1, <1>2, <1>5, <1>7 DEF Showing, Readable, BlockOf
  <2> QED
    BY <2>1 DEF Phase
<1> QED
  BY <1>3, <1>4, <1>6, <1>7 DEF Phase

-----------------------------------------------------------------------------
\* The invariant is inductive.

ServedInv == TypeInv /\ HistoryOK /\ JoinedOK /\ OutOK /\ InServed /\ WaitingOK /\ PresentOK

\* Answers are only added to those of the connection.
LEMMA CleanBefore ==
  ASSUME HistoryOK, NEW s, s \in Seq(Symbol), log' = log \o s, Clean'
  PROVE  Clean
<1>1. PICK m, n : m = Len(log) /\ n = Len(s)
  OBVIOUS
<1>2. log \in Seq(Symbol) /\ m \in Nat /\ n \in Nat
  BY <1>1 DEF HistoryOK
<1>3. Len(log') = m + n /\ \A i \in 1 .. m : log'[i] = log[i]
  <2> HIDE DEF Symbol
  <2>1. /\ Len(log \o s) = Len(log) + Len(s)
        /\ \A i \in 1 .. Len(log) + Len(s) :
             (log \o s)[i] = IF i <= Len(log) THEN log[i] ELSE s[i - Len(log)]
    BY <1>2, ConcatProperties
  <2>2. ASSUME NEW i \in 1 .. m
        PROVE  log'[i] = log[i]
    <3>1. i \in 1 .. m + n /\ i <= m
      BY <1>2
    <3> QED
      BY <1>1, <2>1, <3>1
  <2> QED
    BY <1>1, <2>1, <2>2
<1>4. ASSUME NEW i \in 1 .. m
      PROVE  log[i] \notin {"bad_length", "invalid_write"}
  <2>1. i \in 1 .. Len(log')
    BY <1>2, <1>3
  <2> QED
    BY <1>3, <2>1 DEF Clean
<1> QED
  BY <1>1, <1>4 DEF Clean

\* A refused write is not taken back.
LEMMA ServerClean ==
  ASSUME TypeInv, HistoryOK, ServerStep, ~Accept, Clean'
  PROVE  Clean
<1>1. CASE Info \/ Unknown \/ ReadRefused \/ ReadLine \/ WriteRefused \/ WriteEnd
  <2>1. \E s \in Answers : Send(<<s>>)
    BY <1>1 DEF Info, Unknown, ReadRefused, ReadLine, WriteRefused, WriteEnd, Answers
  <2>2. \E s \in Seq(Symbol) : log' = log \o s
    BY <2>1, AnswersAreSymbols DEF Send
  <2> QED
    BY <2>2, CleanBefore
<1>2. CASE ReadBlock
  <2>1. InRange(words) /\ Send(disk[BlockIdx(words)])
    BY <1>2 DEF ReadBlock, TypeInv, StoreOK
  <2>2. disk[BlockIdx(words)] \in [1 .. BlockSize -> Symbol] /\ BlockSize \in Nat
    BY <2>1, InRangeIsBlock, GeometryAssumption DEF HistoryOK, Disks
  <2>3. disk[BlockIdx(words)] \in Seq(Symbol)
    BY <2>2
  <2>4. \E s \in Seq(Symbol) : log' = log \o s
    BY <2>1, <2>3 DEF Send
  <2> QED
    BY <2>4, CleanBefore
<1>3. CASE ~(Info \/ Unknown \/ ReadRefused \/ ReadLine \/ WriteRefused \/ WriteEnd \/ ReadBlock)
  <2>1. log' = log
    BY <1>3 DEF ServerStep, Close, SkipSpace, TakeChar, EndWord, NoWord, AddWord, WriteStart,
                WriteByte, WriteFailed, BrokenPipe, Consume
  <2> QED
    BY <2>1 DEF Clean
<1> QED
  BY <1>1, <1>2, <1>3

\* The steps of the server with a client that has not left.
LEMMA ServerPhase ==
  ASSUME TypeInv, HistoryOK, OutOK, NEW c \in Clients, serving = c, peer[c] = "up", Phase(c),
         ServerStep, UNCHANGED client, serving' # NoOne, Clean'
  PROVE  Phase(c)'
<1>1. pc # "accept" /\ ~RecvError /\ ~EndOfStream
  BY UpServed
<1>2. ~Accept /\ ~NoWord /\ ~WriteFailed
  BY <1>1 DEF Accept, NoWord, WriteFailed
<1>3. ~Close /\ ~BrokenPipe
  BY DEF Close, BrokenPipe
<1>4. ~WriteRefused
  BY RefusedStep
<1>5. ~SkipSpace
  BY SkipSpaceStep
<1>6. CASE TakeChar \/ EndWord \/ AddWord
  BY <1>6, TakeCharStep, EndWordStep, AddWordStep
<1>7. CASE Info \/ Unknown \/ ReadRefused \/ ReadLine
  BY <1>7, AnswerStep
<1>8. CASE ReadBlock \/ WriteStart \/ WriteByte \/ WriteEnd
  BY <1>8, ReadBlockStep, WriteStartStep, WriteByteStep, WriteEndStep
<1> QED
  BY <1>2, <1>3, <1>4, <1>5, <1>6, <1>7, <1>8 DEF ServerStep

\* The steps of the client that is served.
LEMMA ClientPhase ==
  ASSUME TypeInv, HistoryOK, OutOK, NEW c \in Clients, Phase(c), ClientStep(c),
         cli'[c] # "left"
  PROVE  Phase(c)'
<1>1. ~Connect(c)
  BY DEF Connect, Phase, AtPrompt, Asking, Answered, Showing
<1>2. ~Leave(c)
  BY DEF Leave, TypeInv, ClientOK
<1> QED
  BY <1>1, <1>2, TypePhase, SendDataPhase, AnswerPhase, ShowBlockPhase DEF ClientStep

\* Every step keeps the client that is served in one of the phases.
LEMMA StepServed ==
  ASSUME ServedInv, [Next]_vars
  PROVE  InServed'
<1> USE DEF ServedInv
<1>0. PICK c : c = serving'
  OBVIOUS
<1>1. SUFFICES ASSUME c # NoOne, Clean', cli'[c] # "left"
               PROVE  Phase(c)'
  <2>1. c # NoOne /\ Clean' => cli'[c] = "left" \/ Phase(c)'
    BY <1>1
  <2>2. Phase(c)' => AtPrompt(c)' \/ Asking(c)' \/ Answered(c)' \/ Showing(c)'
    BY DEF Phase
  <2> QED
    BY <1>0, <2>1, <2>2
    DEF InServed, AtPrompt, Asking, InHeader, HasHeader, Sent, Pending, Answered, Showing
<1>2. CASE Server /\ Accept
  <2>1. cli'[serving'] = "left" \/ Phase(serving)'
    BY <1>2, AcceptStep DEF Server
  <2>2. Phase(serving)' => Phase(c)'
    BY <1>0 DEF Phase, AtPrompt, Asking, InHeader, HasHeader, Sent, Pending, Answered, Showing
  <2> QED
    BY <1>0, <1>1, <2>1, <2>2
<1>3. ASSUME serving' = serving, Clean, cli[c] # "left"
      PROVE  Phase(c) /\ peer[c] = "up" /\ c \in Clients /\ serving = c
  BY <1>0, <1>1, <1>3
  DEF InServed, Phase, PresentOK, Present, TypeInv, ServingOK
<1>4. CASE Server /\ ~Accept
  <2>1. ServerStep /\ UNCHANGED client
    BY <1>4 DEF Server
  <2>2. ~Close /\ ~BrokenPipe
    BY <1>0, <1>1 DEF Close, BrokenPipe
  <2>3. serving' = serving
    BY <1>4, <2>1, <2>2 DEF ServerStep, SkipSpace, TakeChar, EndWord, AddWord, Info, Unknown,
         ReadRefused, ReadLine, ReadBlock, WriteRefused, WriteStart, WriteByte, WriteEnd, Send,
         NoWord, WriteFailed
  <2>4. Clean
    BY <1>1, <1>4, <2>1, ServerClean
  <2>5. Phase(c) /\ peer[c] = "up" /\ c \in Clients /\ serving = c
    BY <1>1, <1>3, <2>1, <2>3, <2>4
  <2>6. serving' # NoOne
    BY <1>0, <1>1
  <2> QED
    BY <1>1, <2>1, <2>5, <2>6, ServerPhase
<1>5. CASE Start
  <2>1. serving' = NoOne
    BY <1>5 DEF Start, Restart, TypeInv, ServingOK
  <2> QED
    BY <1>0, <1>1, <2>1
<1>6. ASSUME NEW d \in Clients, ClientStep(d)
      PROVE  Phase(c)'
  <2>1. UNCHANGED <<disk, serving, pc, tok, words, done, log>>
    BY <1>6 DEF ClientStep, Connect, Type, SendData, Answer, ShowBlock, Leave
  <2>2. Clean
    BY <1>1, <2>1 DEF Clean
  <2>3. cli[c] # "left"
    <3>1. c \in Clients
      BY <1>0, <1>1, <2>1 DEF TypeInv, ServingOK
    <3> QED
      BY <1>1, <1>6, <3>1
      DEF ClientStep, Connect, Type, SendData, Answer, ShowBlock, Leave, TypeInv, ClientOK
  <2>4. Phase(c) /\ c \in Clients
    BY <1>3, <2>1, <2>2, <2>3
  <2>5. CASE d = c
    BY <1>1, <1>6, <2>4, <2>5, ClientPhase
  <2>6. CASE d # c
    <3>1. UNCHANGED <<in[c], out[c], peer[c], cli[c], line[c], shown[c]>>
      BY <1>6, <2>4, <2>6, OtherKept
    <3> QED
      BY <2>1, <2>4, <3>1, PhaseKept
  <2> QED
    BY <2>5, <2>6
<1>7. CASE UNCHANGED vars
  <2>1. UNCHANGED <<disk, serving, pc, tok, words, done, log, in, out, cli, line, shown>>
    BY <1>7 DEF vars
  <2>2. Phase(c)
    BY <1>1, <1>3, <2>1 DEF Clean
  <2> QED
    BY <2>1, <2>2, PhaseKept
<1> QED
  BY <1>2, <1>4, <1>5, <1>6, <1>7 DEF Next

\* The invariant of the exchange holds at first.
LEMMA InitServed == Init => ServedInv
<1> SUFFICES ASSUME Init PROVE ServedInv
  OBVIOUS
<1>1. TypeInv /\ HistoryOK /\ JoinedOK
  BY InitTypeInv, InitHistory
<1>2. OutOK
  BY DEF Init, ServerInit, OutOK
<1>3. InServed /\ WaitingOK /\ PresentOK
  BY DEF Init, ServerInit, InServed, WaitingOK, Waiting, PresentOK
<1> QED
  BY <1>1, <1>2, <1>3 DEF ServedInv

\* Every step keeps it.
LEMMA StepServedInv == ServedInv /\ [Next]_vars => ServedInv'
<1> SUFFICES ASSUME ServedInv, [Next]_vars PROVE ServedInv'
  OBVIOUS
<1>1. TypeInv' /\ HistoryOK' /\ JoinedOK'
  BY StepTypeInv, StepHistory, StepJoined DEF ServedInv
<1>2. OutOK' /\ WaitingOK' /\ PresentOK'
  BY StepOut, StepWaiting, StepPresent DEF ServedInv
<1>3. InServed'
  BY StepServed
<1> QED
  BY <1>1, <1>2, <1>3 DEF ServedInv

\* A served client at its prompt is in step.
LEMMA ServedInStep == ServedInv => InStep
<1> SUFFICES ASSUME ServedInv, NEW c \in Clients, serving = c, cli[c] = "prompt", Clean
             PROVE  /\ in[c] = <<>> /\ out[c] = <<>>
                    /\ shown[c] # <<>> => shown[c] = disk[line[c].cyl * SectorsPerCyl + line[c].sec]
  BY DEF InStep, Clean
<1>1. AtPrompt(c)
  BY GeometryAssumption DEF ServedInv, InServed, Asking, Answered, Showing
<1> QED
  BY <1>1 DEF AtPrompt

\* A client at its prompt is in step with the server: it has read the whole answer
\* and nothing else, the server all that it sent, and what it displayed for a read
\* is the block; the exception is a connection on which a write was refused.
THEOREM ClientsInStep == Spec => []InStep
<1> QED
  BY InitServed, StepServedInv, ServedInStep, PTL DEF Spec
=============================================================================
