------------------------------ MODULE FsClient ------------------------------
(***************************************************************************)
(* fs_client.c of project_3: a command is sent, and its reply is shown     *)
(* before the next one.  The reply to R begins with a status and a length  *)
(* and is read to its end; any other reply is what one recv() gives.  Of   *)
(* the server, which FatFs models, only the form of its replies matters.   *)
(***************************************************************************)
EXTENDS Unix

Space == " "

CONSTANT Texts   \* what the first, second, ... reply says, as many as there are

ASSUME TextsAssumption ==
  /\ Texts \in Seq(STRING)
  /\ \A k \in DOMAIN Texts :
       Texts[k] \notin {"0", "1", "2", Space, "\n", "Not", "Found", "R", "L"}

MaxCommands == Len(Texts)   \* how many commands the user types

\* R of a file, and any other command.
FsCommands == {"R", "L"}

\* Numbers, as they are sent; every other piece of text is no number.
Numbers == 0 .. 2
Numeral(n) == <<"0", "1", "2">>[n + 1]

FsServer == Root
FsUser == 2

FsInit ==
  /\ Processes >= 2 /\ Pipes >= 2
  /\ program = "fs_client"
  /\ proc = Connect([p \in Pids |->
       CASE p = FsServer -> [Free EXCEPT !.pc = "fss.recv",
                                         !.mem = [todo |-> <<>>, said |-> <<>>, k |-> 0]]
         [] p = FsUser -> [Free EXCEPT !.pc = "fsc.prompt",
                                       !.mem = [k |-> 0, shown |-> <<>>]]
         [] OTHER -> Free], FsServer, FsUser, 1, 2)
  /\ pipe = [k \in 1 .. Pipes |-> <<>>]
  /\ failed = {}

-----------------------------------------------------------------------------
\* The server takes a command; its k-th reply says Texts[k].  cmd_read
\* sends status and length, then the text, then a newline; an error, or the answer
\* to another command, is a line.
FsRecv(p) ==
  /\ AtLabel(p, "fss.recv")
  /\ LET up == PipeOf(p, R(0))
         k == proc[p].mem.k + 1
         Say(todo, said) ==
           proc' = Goto(Set(proc, p, [todo |-> todo, said |-> said, k |-> k]), p, "fss.send")
         line == <<Texts[k], "\n">>
     IN \/ /\ pipe[up] # <<>> /\ pipe' = Taken(up, 1)
           /\ IF Head(pipe[up]) = "R"
              THEN \/ \E n \in Numbers :
                        LET data == [i \in 1 .. n |-> Texts[k]]
                        IN Say(<<<<"0", Space, Numeral(n), Space>>, data, <<"\n">>>>, data)
                   \/ Say(<<<<"1", Space, "Not", Space, "Found", "\n">>>>, <<>>)
              ELSE Say(<<line>>, line)
        \/ AtEnd(p, R(0)) /\ proc' = Exited(proc, p, 0) /\ UNCHANGED pipe
  /\ UNCHANGED <<program, failed>>

FsSend(p) ==
  /\ AtLabel(p, "fss.send")
  /\ LET todo == proc[p].mem.todo
         down == PipeOf(p, W(0))
     IN IF todo = <<>> THEN proc' = Goto(proc, p, "fss.recv") /\ UNCHANGED pipe
        ELSE /\ Room(down) >= Len(Head(todo))
             /\ pipe' = Sent(down, Head(todo))
             /\ proc' = Set(proc, p, [proc[p].mem EXCEPT !.todo = Tail(@)])
  /\ UNCHANGED <<program, failed>>

-----------------------------------------------------------------------------
\* The user types a command, q, or nothing more.
FsCommand(p) ==
  /\ AtLabel(p, "fsc.prompt")
  /\ \/ proc' = Exited(proc, p, 0) /\ UNCHANGED pipe
     \/ /\ proc[p].mem.k < MaxCommands /\ NoReader(p, W(0))
        /\ proc' = Killed(proc, p, 13) /\ UNCHANGED pipe
     \/ /\ proc[p].mem.k < MaxCommands /\ ~NoReader(p, W(0))
        /\ \E cmd \in FsCommands :
             /\ pipe' = Sent(PipeOf(p, W(0)), <<cmd>>)
             /\ proc' = Goto(Set(proc, p, [k |-> proc[p].mem.k + 1, shown |-> <<>>,
                                           header |-> <<>>, length |-> 0]),
                             p, IF cmd = "R" THEN "fsc.header" ELSE "fsc.recv")
  /\ UNCHANGED <<program, failed>>

Shown(t, p, s) ==
  Goto(Set(t, p, [k |-> t[p].mem.k, shown |-> s]), p, "fsc.prompt")

\* The reply to any other command; the connection's end ends the client.
FsGeneric(p) ==
  /\ AtLabel(p, "fsc.recv")
  /\ LET k == PipeOf(p, R(0))
     IN \/ \E n \in 1 .. Len(pipe[k]) :
             /\ Received(k, n)
             /\ proc' = Shown(proc, p, SubSeq(pipe[k], 1, n))
             /\ pipe' = Taken(k, n)
        \/ AtEnd(p, R(0)) /\ proc' = Exited(proc, p, 0) /\ UNCHANGED <<pipe, failed>>
  /\ UNCHANGED program

\* handle_read_command reads one byte at a time.
Byte1(p, k) ==
  /\ pipe[k] # <<>>
  /\ pipe' = Taken(k, 1)
  /\ UNCHANGED <<program, failed>>

\* sscanf(header, "%d %d") takes a and b, blanks before each of them or not.
TwoSpaces(header) == \E i, j \in DOMAIN header : i < j /\ header[i] = Space /\ header[j] = Space
Scans(header, a, b) ==
  \E i, j \in DOMAIN header :
    /\ i < j /\ header[i] = Numeral(a) /\ header[j] = Numeral(b)
    /\ \A m \in 1 .. j - 1 : m # i => header[m] \in {Space, "\n"}

\* Up to the second space, then by status and length: the text, or, after an error,
\* what is left of the line.
FsHeader(p) ==
  /\ AtLabel(p, "fsc.header")
  /\ LET k == PipeOf(p, R(0))
         mem == proc[p].mem
         header == Append(mem.header, Head(pipe[k]))
     IN /\ Byte1(p, k)
        /\ \/ /\ ~TwoSpaces(header)
              /\ proc' = Set(proc, p, [mem EXCEPT !.header = header])
           \/ /\ TwoSpaces(header)
              /\ \E n \in Numbers :
                   /\ Scans(header, 0, n)
                   /\ proc' = Goto(Set(proc, p, [mem EXCEPT !.length = n]), p, "fsc.data")
           \/ /\ TwoSpaces(header) /\ \A n \in Numbers : ~Scans(header, 0, n)
              /\ proc' = Goto(proc, p, "fsc.line")

FsLine(p) ==
  /\ AtLabel(p, "fsc.line")
  /\ LET k == PipeOf(p, R(0))
     IN /\ Byte1(p, k)
        /\ proc' = IF Head(pipe[k]) = "\n" THEN Shown(proc, p, <<>>) ELSE proc

\* Mutant: the newline after the text is left in the stream.
FsDataOnly(p) ==
  /\ AtLabel(p, "fsc.data")
  /\ LET k == PipeOf(p, R(0))
         mem == proc[p].mem
     IN IF Len(mem.shown) < mem.length
        THEN Byte1(p, k) /\ proc' = Set(proc, p, [mem EXCEPT !.shown = Append(@, Head(pipe[k]))])
        ELSE proc' = Shown(proc, p, mem.shown) /\ UNCHANGED <<program, pipe, failed>>

\* recv_all of the length, then the newline.
FsData(p) ==
  /\ AtLabel(p, "fsc.data")
  /\ LET k == PipeOf(p, R(0))
         mem == proc[p].mem
     IN /\ Byte1(p, k)
        /\ proc' = IF Len(mem.shown) < mem.length
                   THEN Set(proc, p, [mem EXCEPT !.shown = Append(@, Head(pipe[k]))])
                   ELSE Shown(proc, p, mem.shown)

\* The connection ends while the reply to R is read: the text is shown if only the
\* newline is missing.
FsReadEnds(p) ==
  /\ proc[p].pc \in {"fsc.header", "fsc.line", "fsc.data"}
  /\ AtEnd(p, R(0))
  /\ LET mem == proc[p].mem
         whole == AtLabel(p, "fsc.data") /\ Len(mem.shown) = mem.length
     IN proc' = Shown(proc, p, IF whole THEN mem.shown ELSE <<>>)
  /\ UNCHANGED <<program, pipe, failed>>

\* Somebody kills the server.
FsKill(p) ==
  /\ proc[p].pc \in {"fss.recv", "fss.send"}
  /\ Fails("kill")
  /\ proc' = Killed(proc, p, 9)
  /\ UNCHANGED <<program, pipe>>

FsProgram(p) ==
  \/ FsRecv(p) \/ FsSend(p)
  \/ FsGeneric(p) \/ FsHeader(p) \/ FsLine(p) \/ FsData(p) \/ FsReadEnds(p)
=============================================================================
