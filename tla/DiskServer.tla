----------------------------- MODULE DiskServer -----------------------------
(***************************************************************************)
(* disk_server.c: one process that serves one connection at a time.  It    *)
(* reads a stream of bytes in which words are separated by white space and *)
(* the data of a write follows its header, and writes to a disk file that  *)
(* outlives it.  The clients are in DiskClients and DiskStartup.           *)
(*                                                                         *)
(* A byte is a string of one character; every white space is Space.  An    *)
(* answer that is a line of text is one symbol of the stream that goes     *)
(* back, a block is as many symbols as it has bytes.  Seek times are left  *)
(* out.                                                                    *)
(***************************************************************************)
EXTENDS Integers, Sequences

CONSTANTS Clients,      \* connections, each used once
          Cylinders, SectorsPerCyl,
          BlockSize,
          MaxTok,       \* characters of a word that are kept
          NoOne

ASSUME GeometryAssumption ==
  /\ Cylinders \in Nat \ {0} /\ SectorsPerCyl \in Nat \ {0}
  /\ BlockSize \in Nat \ {0} /\ MaxTok \in Nat \ {0}
  /\ NoOne \notin Clients

Byte == STRING
Space == " "
Nul == "\\0"
Digits == <<"0", "1", "2", "3", "4", "5", "6", "7", "8", "9">>
Answers == {"geometry", "read_ok", "write_ok", "invalid_read", "invalid_write",
            "bad_length", "unknown_command"}

VARIABLES
  disk,      \* the mapped file: a block per index
  peer,      \* peer[c]: what the server's side knows of the client of c
  in, out,   \* bytes sent to the server, and by the server, not yet received
  backlog,   \* connections that wait for accept
  serving,   \* the connection in handle_connection
  pc,
  tok,       \* the word that read_token has read so far
  words,     \* the words of the command so far
  done,      \* bytes of a write received so far
  seen, log, base  \* history of this connection: bytes received, answers
                   \* given, the disk when it was accepted

link == <<peer, in, out, backlog>>
history == <<seen, log, base>>
serverVars == <<disk, link, serving, pc, tok, words, done, history>>

Blocks == 0 .. Cylinders * SectorsPerCyl - 1

\* "up": connected; "fin": the client has closed, the server finds the end of
\* the stream after the last byte; "rst": the same, but recv finds an error and
\* send may raise SIGPIPE; "lost": the server has died.
PeerStates == {"new", "up", "fin", "rst", "lost", "gone"}

ServerInit ==
  /\ disk = [b \in Blocks |-> [i \in 1 .. BlockSize |-> Nul]]
  /\ peer = [c \in Clients |-> "new"]
  /\ in = [c \in Clients |-> <<>>] /\ out = [c \in Clients |-> <<>>]
  /\ backlog = <<>> /\ serving = NoOne /\ pc = "accept"
  /\ tok = <<>> /\ words = <<>> /\ done = 0
  /\ seen = <<>> /\ log = <<>> /\ base = disk

-----------------------------------------------------------------------------
\* Numbers, as atoi reads them and printf writes them: numbers of one digit are
\* written, of any length read.

DigitOf(ch) == CHOOSE n \in 0 .. 9 : Digits[n + 1] = ch
IsDigit(ch) == \E n \in 1 .. 10 : Digits[n] = ch

Atoi(w) ==
  LET negative == w # <<>> /\ w[1] = "-"
      first == IF negative THEN 2 ELSE 1
      value[i \in first - 1 .. Len(w)] ==
        IF i < first THEN 0
        ELSE IF \A j \in first .. i : IsDigit(w[j])
             THEN 10 * value[i - 1] + DigitOf(w[i]) ELSE value[i - 1]
  IN  IF negative THEN -value[Len(w)] ELSE value[Len(w)]

Decimal(n) == IF n < 0 THEN <<"-", Digits[1 - n]>> ELSE <<Digits[n + 1]>>

-----------------------------------------------------------------------------
\* main: accept, handle_connection, accept, ...

Accept ==
  /\ pc = "accept" /\ backlog # <<>>
  /\ serving' = Head(backlog) /\ backlog' = Tail(backlog)
  /\ pc' = "token" /\ tok' = <<>> /\ words' = <<>>
  /\ seen' = <<>> /\ log' = <<>> /\ base' = disk
  /\ UNCHANGED <<disk, peer, in, out, done>>

Close ==
  /\ pc = "close" /\ pc' = "accept"
  /\ peer' = [peer EXCEPT ![serving] = "gone"] /\ serving' = NoOne
  /\ UNCHANGED <<disk, in, out, backlog, tok, words, done, history>>

-----------------------------------------------------------------------------
\* read_token

Received == in[serving] # <<>>
EndOfStream == ~Received /\ peer[serving] = "fin"
RecvError == ~Received /\ peer[serving] = "rst"

NextByte == Head(in[serving])
Consume ==
  /\ in' = [in EXCEPT ![serving] = Tail(@)]
  /\ seen' = Append(seen, NextByte)

SkipSpace ==
  /\ pc = "token" /\ Received /\ NextByte = Space /\ tok = <<>>
  /\ Consume
  /\ UNCHANGED <<disk, peer, out, backlog, serving, pc, tok, words, done, log, base>>

\* Mutant: a word that fills the buffer is taken for complete.
TakeCharCut ==
  /\ pc = "token" /\ Received /\ NextByte # Space
  /\ Consume
  /\ tok' = Append(tok, NextByte)
  /\ pc' = IF Len(tok') = MaxTok THEN "word" ELSE "token"
  /\ UNCHANGED <<disk, peer, out, backlog, serving, words, done, log, base>>
TakeChar ==
  /\ pc = "token" /\ Received /\ NextByte # Space
  /\ Consume
  /\ tok' = IF Len(tok) < MaxTok THEN Append(tok, NextByte) ELSE tok
  /\ UNCHANGED <<disk, peer, out, backlog, serving, pc, words, done, log, base>>

EndWord ==
  /\ pc = "token" /\ pc' = "word" /\ tok # <<>>
  /\ \/ Received /\ NextByte = Space /\ Consume
     \/ EndOfStream /\ UNCHANGED <<in, seen>>
  /\ UNCHANGED <<disk, peer, out, backlog, serving, tok, words, done, log, base>>

\* Mutant: only an error ends the connection, not the end of the stream.
NoWordAtError ==
  /\ pc = "token" /\ pc' = "close" /\ RecvError
  /\ UNCHANGED <<disk, link, serving, tok, words, done, history>>
NoWord ==
  /\ pc = "token" /\ pc' = "close"
  /\ RecvError \/ (EndOfStream /\ tok = <<>>)
  /\ UNCHANGED <<disk, link, serving, tok, words, done, history>>

-----------------------------------------------------------------------------
\* The loop of handle_connection

WordsOf(command) ==
  CASE command = <<"R">> -> 3 [] command = <<"W">> -> 4 [] OTHER -> 1

AddWord ==
  /\ pc = "word"
  /\ words' = Append(words, tok) /\ tok' = <<>>
  /\ pc' = IF Len(words') < WordsOf(words'[1]) THEN "token" ELSE "execute"
  /\ UNCHANGED <<disk, link, serving, done, history>>

Cyl(w) == Atoi(w[2])
Sec(w) == Atoi(w[3])
DataLen(w) == Atoi(w[4])
InRange(w) == Cyl(w) \in 0 .. Cylinders - 1 /\ Sec(w) \in 0 .. SectorsPerCyl - 1
\* Mutant: one byte more than the block holds.
LengthOKMore(w) == DataLen(w) \in 0 .. BlockSize + 1
LengthOK(w) == DataLen(w) \in 0 .. BlockSize
BlockIdx(w) == Cyl(w) * SectorsPerCyl + Sec(w)

\* send: to a client that has closed, the bytes are dropped and the connection
\* may be reset; the result of send is not looked at.
Send(symbols) ==
  /\ log' = log \o symbols
  /\ \/ /\ peer[serving] = "up"
        /\ out' = [out EXCEPT ![serving] = @ \o symbols] /\ UNCHANGED peer
     \/ /\ peer[serving] = "fin" /\ UNCHANGED out
        /\ peer' \in {peer, [peer EXCEPT ![serving] = "rst"]}
     \/ peer[serving] = "rst" /\ UNCHANGED <<out, peer>>
  /\ UNCHANGED <<in, backlog, serving, seen, base>>

NextCommand == pc' = "token" /\ words' = <<>> /\ UNCHANGED <<tok, done>>

Info ==
  /\ pc = "execute" /\ words[1] = <<"I">>
  /\ Send(<<"geometry">>) /\ NextCommand /\ UNCHANGED disk

Unknown ==
  /\ pc = "execute" /\ words[1] \notin {<<"I">>, <<"R">>, <<"W">>}
  /\ Send(<<"unknown_command">>) /\ NextCommand /\ UNCHANGED disk

ReadRefused ==
  /\ pc = "execute" /\ words[1] = <<"R">> /\ ~InRange(words)
  /\ Send(<<"invalid_read">>) /\ NextCommand /\ UNCHANGED disk

\* Two calls of send: the client may have received the line and not the block.
ReadLine ==
  /\ pc = "execute" /\ words[1] = <<"R">> /\ InRange(words)
  /\ Send(<<"read_ok">>) /\ pc' = "block" /\ UNCHANGED <<disk, tok, words, done>>
ReadBlock ==
  /\ pc = "block"
  /\ Send(disk[BlockIdx(words)]) /\ NextCommand /\ UNCHANGED disk

WriteRefused ==
  /\ pc = "execute" /\ words[1] = <<"W">>
  /\ \/ ~LengthOK(words) /\ Send(<<"bad_length">>)
     \/ LengthOK(words) /\ ~InRange(words) /\ Send(<<"invalid_write">>)
  /\ NextCommand /\ UNCHANGED disk

WriteStart ==
  /\ pc = "execute" /\ words[1] = <<"W">> /\ LengthOK(words) /\ InRange(words)
  /\ pc' = "data" /\ done' = 0
  /\ UNCHANGED <<disk, link, serving, tok, words, history>>

\* recv_all stores into the mapped block.
WriteByte ==
  /\ pc = "data" /\ done < DataLen(words) /\ Received
  /\ disk' = [disk EXCEPT ![BlockIdx(words)][done + 1] = NextByte]
  /\ done' = done + 1 /\ Consume
  /\ UNCHANGED <<peer, out, backlog, serving, pc, tok, words, log, base>>

WriteFailed ==
  /\ pc = "data" /\ done < DataLen(words) /\ RecvError
  /\ pc' = "close"
  /\ UNCHANGED <<disk, link, serving, tok, words, done, history>>

\* The block of the write, with zeros after the bytes of the write.
Zeroed ==
  [disk EXCEPT ![BlockIdx(words)] =
     [i \in 1 .. BlockSize |-> IF i > DataLen(words) THEN Nul ELSE @[i]]]

\* Mutant: the rest of the block keeps what it held.
WriteEndKept ==
  /\ pc = "data"
  /\ done = DataLen(words) \/ EndOfStream
  /\ Send(<<"write_ok">>) /\ NextCommand /\ UNCHANGED disk
\* A stream that ends early counts as a write of the whole length.
WriteEnd ==
  /\ pc = "data"
  /\ done = DataLen(words) \/ EndOfStream
  /\ disk' = Zeroed
  /\ Send(<<"write_ok">>) /\ NextCommand

-----------------------------------------------------------------------------
\* SIGPIPE, which ends the process in the middle of a send: what the command did to
\* the disk file before it stays, every connection is lost.
Sending ==
  \/ pc = "execute" /\ ~(words[1] = <<"W">> /\ LengthOK(words) /\ InRange(words))
  \/ pc = "block"
  \/ pc = "data" /\ done = DataLen(words)
BrokenPipe ==
  /\ Sending /\ peer[serving] = "rst"
  /\ pc' = "dead" /\ serving' = NoOne /\ backlog' = <<>>
  /\ peer' = [c \in Clients |-> IF peer[c] = "up" THEN "lost"
                                ELSE IF peer[c] = "new" THEN "new" ELSE "gone"]
  /\ disk' = IF pc = "data" THEN Zeroed ELSE disk
  /\ UNCHANGED <<in, out, tok, words, done, history>>

Restart ==
  /\ pc = "dead" /\ pc' = "accept"
  /\ tok' = <<>> /\ words' = <<>> /\ done' = 0
  /\ UNCHANGED <<disk, link, serving, history>>

ServerStep ==
  \/ Accept \/ Close \/ SkipSpace \/ TakeChar \/ EndWord \/ NoWord \/ AddWord
  \/ Info \/ Unknown \/ ReadRefused \/ ReadLine \/ ReadBlock
  \/ WriteRefused \/ WriteStart \/ WriteByte \/ WriteFailed \/ WriteEnd
  \/ BrokenPipe
=============================================================================
