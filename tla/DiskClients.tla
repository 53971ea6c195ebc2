---------------------------- MODULE DiskClients ----------------------------
(***************************************************************************)
(* disk_server with clients that run disk_client_cli.c: each sends the     *)
(* lines its user types, one at a time, and may leave at any moment (q,    *)
(* end of input, or a kill).                                               *)
(***************************************************************************)
EXTENDS DiskServer

CONSTANTS Lines,      \* what a user may type: see Line
          MaxLines    \* bound: lines typed, over all clients

VARIABLES
  cli,      \* cli[c]: where the client of c is
  typed,    \* lines typed so far
  line,     \* the line it works on
  shown     \* the block it displayed for the last line, or <<>>

client == <<cli, typed, line, shown>>
vars == <<serverVars, client>>

\* A line is a record: op; cyl and sec, numbers; first, the first word of the
\* data, of one character; and data, the bytes after that word.
Line(op, cyl, sec, first, data) ==
  [op |-> op, cyl |-> cyl, sec |-> sec, first |-> first, data |-> data]
NoLine == Line("none", 0, 0, "0", <<>>)

Init ==
  /\ ServerInit
  /\ cli = [c \in Clients |-> "new"] /\ typed = 0
  /\ line = [c \in Clients |-> NoLine] /\ shown = [c \in Clients |-> <<>>]

-----------------------------------------------------------------------------
\* What is sent for a line

\* A word, with the white space that ends it.
Word(w) == w \o <<Space>>
Number(n) == Word(Decimal(n))

\* The search for the first space starts at the cylinder, not before it: what is
\* sent as cylinder is the sector the user typed, what is sent as sector is the
\* first word of the data.
WriteCyl(l) == l.sec
WriteSec(l) == Atoi(<<l.first>>)

\* Mutant: the length sent is one short of the data.
HeaderShort(l) ==
  CASE l.op = "I" -> Word(<<"I">>)
    [] l.op = "R" -> Word(<<"R">>) \o (Number(l.cyl) \o Number(l.sec))
    [] l.op = "W" -> Word(<<"W">>) \o (Number(WriteCyl(l)) \o (Number(WriteSec(l))
                       \o Number(Len(l.data) - 1)))
Header(l) ==
  CASE l.op = "I" -> Word(<<"I">>)
    [] l.op = "R" -> Word(<<"R">>) \o (Number(l.cyl) \o Number(l.sec))
    [] l.op = "W" -> Word(<<"W">>) \o (Number(WriteCyl(l)) \o (Number(WriteSec(l))
                       \o Number(Len(l.data))))

\* What a user may type makes the client send bytes.
ASSUME LinesAssumption ==
  \A l \in Lines : Header(l) \in Seq(Byte) /\ l.data \in Seq(Byte)

\* Bounds on it: numbers of one digit, which fits with its sign in a word.  A line
\* has data only when it is a write.
ASSUME HeadersAssumption ==
  /\ MaxTok >= 2
  /\ \A l \in Lines :
       /\ l.op \in {"I", "R", "W"} /\ l.cyl \in -9 .. 9 /\ l.sec \in -9 .. 9
       /\ l.first \in Byte /\ Len(l.data) <= 9 /\ (l.op # "W" => l.data = <<>>)

-----------------------------------------------------------------------------
\* main of the client

Deliver(c, bytes) == in' = [in EXCEPT ![c] = @ \o bytes]

Connect(c) ==
  /\ cli[c] = "new" /\ pc # "dead"
  /\ cli' = [cli EXCEPT ![c] = "prompt"]
  /\ peer' = [peer EXCEPT ![c] = "up"] /\ backlog' = Append(backlog, c)
  /\ UNCHANGED <<disk, in, out, serving, pc, tok, words, done, history,
                 typed, line, shown>>

Type(c) ==
  /\ cli[c] = "prompt" /\ peer[c] = "up" /\ typed < MaxLines
  /\ typed' = typed + 1
  /\ \E l \in Lines :
       /\ line' = [line EXCEPT ![c] = l]
       /\ Deliver(c, Header(l))
       /\ cli' = [cli EXCEPT ![c] = IF l.data = <<>> THEN "answer" ELSE "data"]
  /\ shown' = [shown EXCEPT ![c] = <<>>]
  /\ UNCHANGED <<disk, peer, out, backlog, serving, pc, tok, words, done, history>>

SendData(c) ==
  /\ cli[c] = "data" /\ peer[c] = "up"
  /\ Deliver(c, line[c].data)
  /\ cli' = [cli EXCEPT ![c] = "answer"]
  /\ UNCHANGED <<disk, peer, out, backlog, serving, pc, tok, words, done, history,
                 typed, line, shown>>

\* recv gives what has arrived, at least one symbol; what comes with the line of
\* the answer is printed and gone.
StartsWithZero(text) == text[1] \in {"read_ok", "write_ok", "0"}
Answer(c) ==
  /\ cli[c] = "answer" /\ out[c] # <<>>
  /\ \E k \in 1 .. Len(out[c]) :
       out' = [out EXCEPT ![c] = SubSeq(@, k + 1, Len(@))]
  /\ cli' = [cli EXCEPT ![c] =
               IF line[c].op = "R" /\ StartsWithZero(out[c]) THEN "block" ELSE "prompt"]
  /\ UNCHANGED <<disk, peer, in, backlog, serving, pc, tok, words, done, history,
                 typed, line, shown>>

ShowBlock(c) ==
  /\ cli[c] = "block" /\ Len(out[c]) >= BlockSize
  /\ shown' = [shown EXCEPT ![c] = SubSeq(out[c], 1, BlockSize)]
  /\ out' = [out EXCEPT ![c] = SubSeq(@, BlockSize + 1, Len(@))]
  /\ cli' = [cli EXCEPT ![c] = "prompt"]
  /\ UNCHANGED <<disk, peer, in, backlog, serving, pc, tok, words, done, history,
                 typed, line>>

\* A close with bytes still unread resets the connection.
Leave(c) ==
  /\ cli[c] \notin {"new", "left"} /\ cli' = [cli EXCEPT ![c] = "left"]
  /\ peer' = [peer EXCEPT ![c] =
                IF @ # "up" THEN @ ELSE IF out[c] = <<>> THEN "fin" ELSE "rst"]
  /\ UNCHANGED <<disk, in, out, backlog, serving, pc, tok, words, done, history,
                 typed, line, shown>>

ClientStep(c) ==
  Connect(c) \/ Type(c) \/ SendData(c) \/ Answer(c) \/ ShowBlock(c) \/ Leave(c)

Server == ServerStep /\ UNCHANGED client
Start == Restart /\ UNCHANGED client

Next == Server \/ Start \/ \E c \in Clients : ClientStep(c)

Spec == Init /\ [][Next]_vars
\* The server runs whenever it can; no user is obliged to do anything.
FairSpec == Spec /\ WF_vars(Server)

-----------------------------------------------------------------------------
\* Types of the variables.
TypeOK ==
  /\ \A b \in Blocks : DOMAIN disk[b] = 1 .. BlockSize
  /\ peer \in [Clients -> PeerStates]
  /\ serving \in Clients \cup {NoOne}
  /\ pc \in {"accept", "token", "word", "execute", "block", "data", "close", "dead"}
  /\ (serving = NoOne) = (pc \in {"accept", "dead"})
  /\ Len(tok) <= MaxTok /\ Len(words) <= 4 /\ done <= BlockSize
  /\ (pc \in {"block", "data"} => InRange(words))
  /\ cli \in [Clients -> {"new", "prompt", "data", "answer", "block", "left"}]

\* The grammar of a connection, read off the bytes as a whole: what is left of
\* the stream after position p is a list of commands.
WordAt(p) ==      \* first and last position of the word at or after p
  LET from == {i \in p .. Len(seen) : seen[i] # Space}
      a == CHOOSE i \in from : \A j \in from : i <= j
      ends == {j \in a .. Len(seen) : seen[j] = Space} \cup {Len(seen) + 1}
  IN  IF from = {} THEN <<>>
      ELSE <<a, (CHOOSE j \in ends : \A k \in ends : j <= k) - 1>>
WordsFrom(p) ==   \* the four words from p on, as far as there are any
  LET after(span) == IF span = <<>> THEN <<>> ELSE WordAt(span[2] + 2)
      first == WordAt(p)
      second == after(first)
      third == after(second)
  IN  <<first, second, third, after(third)>>
Kept(w) == SubSeq(seen, w[1], IF w[2] - w[1] < MaxTok THEN w[2] ELSE w[1] + MaxTok - 1)

\* The block when the size bytes from position after on, as far as they were
\* received, are stored in it.
Stored(block, after, size) ==
  [i \in 1 .. BlockSize |->
     IF i > size THEN Nul
     ELSE IF after + i - 1 <= Len(seen) THEN seen[after + i - 1] ELSE block[i]]

\* What the command of words w, with its data from position after on, does to
\* the disk and answers.
Effect(m, w, after) ==
  LET size == DataLen(w)
      answer(symbols) == [next |-> after, disk |-> m.disk, log |-> m.log \o symbols]
      refused == IF w[1] = <<"R">> THEN "invalid_read"
                 ELSE IF LengthOK(w) THEN "invalid_write" ELSE "bad_length"
  IN  CASE w[1] = <<"I">> -> answer(<<"geometry">>)
        [] w[1] \notin {<<"I">>, <<"R">>, <<"W">>} -> answer(<<"unknown_command">>)
        [] w[1] = <<"R">> /\ InRange(w) -> answer(<<"read_ok">> \o m.disk[BlockIdx(w)])
        [] w[1] = <<"W">> /\ InRange(w) /\ LengthOK(w) ->
             [next |-> after + size,
              log |-> m.log \o <<"write_ok">>,
              disk |-> [m.disk EXCEPT ![BlockIdx(w)] = Stored(@, after, size)]]
        [] OTHER -> answer(<<refused>>)

\* The command at m.next: m as it is when there is none.
Executed(m) ==
  LET spans == WordsFrom(m.next)
      n == WordsOf(Kept(spans[1]))
  IN  IF spans[1] = <<>> \/ spans[n] = <<>> THEN m
      ELSE Effect(m, [i \in 1 .. n |-> Kept(spans[i])], spans[n][2] + 2)
Meaning ==
  LET m[n \in 0 .. Len(seen)] ==
        IF n = 0 THEN [next |-> 1, disk |-> base, log |-> <<>>] ELSE Executed(m[n - 1])
  IN  m[Len(seen)]

\* Whatever the boundaries at which the bytes arrive, and whoever leaves in the
\* middle: between two commands the server has answered, and stored in the disk,
\* what the bytes it took from this connection mean as a list of commands.  When
\* SIGPIPE ends it in the middle of an answer, the disk file that it leaves holds
\* what they mean, the command that was answered included.
ExecutesStream ==
  /\ pc = "token" /\ words = <<>> /\ tok = <<>> =>
       Meaning.disk = disk /\ Meaning.log = log
  /\ pc = "dead" => Meaning.disk = disk

\* A client at its prompt is in step with the server: nothing it sent is
\* unread, no answer is left over, and what its read showed is what the disk
\* holds.  Refused writes are the exception: their data stays in the stream.
InStep ==
  \A c \in Clients :
    serving = c /\ cli[c] = "prompt"
      /\ (\A i \in 1 .. Len(log) : log[i] \notin {"bad_length", "invalid_write"}) =>
    /\ in[c] = <<>> /\ out[c] = <<>>
    /\ shown[c] # <<>> => shown[c] = disk[line[c].cyl * SectorsPerCyl + line[c].sec]

\* The server is with one client at a time, and each one gets its turn if those
\* before it leave at last, however they leave.
EachServed ==
  (\A d \in Clients : [](serving = d => <>(cli[d] = "left"))) =>
    \A c \in Clients : peer[c] = "up" ~> serving = c \/ peer[c] # "up"
=============================================================================
