--------------------------- MODULE ReverseServer ---------------------------
(***************************************************************************)
(* reverse_server.c and reverse_client.c of project_3.  The server starts  *)
(* a detached thread for every client and hands it the connection; the     *)
(* thread takes what one recv() gives, sends it back reversed and hangs up.*)
(***************************************************************************)
EXTENDS Unix, SequencesExt

CONSTANTS
  ReverseClients,   \* how many clients run
  Typed             \* what users type, up to the newline or the end of the input

\* There is a process for every client and a thread for each; the lines are text, and
\* fit the buffers.
ASSUME ReverseAssumption ==
  /\ ReverseClients \in Nat /\ 2 * ReverseClients < Processes
  /\ \A line \in Typed :
       /\ line \in Seq(STRING) /\ line # <<>>
       /\ \A i \in 1 .. Len(line) :
            line[i] # "\r" /\ (line[i] = "\n" => i = Len(line))

ReverseClient == 2 .. ReverseClients + 1

ReverseInit ==
  /\ program = "reverse_server"
  /\ proc = [p \in Pids |->
       IF p = Root THEN [Free EXCEPT !.pc = "rs.accept", !.fd = Terminal]
       ELSE IF p \in ReverseClient
       THEN [Free EXCEPT !.pc = "rc.connect", !.fd = Terminal]
       ELSE Free]
  /\ pipe = [k \in 1 .. Pipes |-> <<>>]
  /\ failed = {}

-----------------------------------------------------------------------------
\* The server's loop.  The descriptor is in memory of its own for every client.
RsAccept(p) ==
  /\ AtLabel(p, "rs.accept") /\ CanConnect
  /\ \E c \in Pids :
       /\ AtLabel(c, "rc.connect")
       /\ proc' = [Connect(proc, p, c, NewPipe, OtherPipe) EXCEPT
                    ![p].pc = "rs.create", ![c].pc = "rc.send"]
  /\ pipe' = [pipe EXCEPT ![NewPipe] = <<>>, ![OtherPipe] = <<>>]
  /\ UNCHANGED <<program, failed>>

\* pthread_create and pthread_detach; without a thread the client is dropped.
RsCreate(p) ==
  /\ AtLabel(p, "rs.create")
  /\ LET back == Goto(HangUp(proc, p), p, "rs.accept")
     IN \/ /\ CanFork /\ GoesWell
           /\ proc' = [back EXCEPT ![NewPid] =
                [Free EXCEPT !.pc = "rst.recv",
                             !.fd = Restrict(proc[p].fd, {R(0), W(0)})]]
        \/ ForkFails /\ proc' = back
  /\ UNCHANGED <<program, pipe>>

\* The line without its last character, if that is a line end.
Stripped(s) == IF s # <<>> /\ Last(s) \in {"\n", "\r"} THEN Front(s) ELSE s

reverse_string(s) == Append(Reverse(Stripped(s)), "\n")

\* handle_client: one recv(), one send(), the hang-up.
handle_client(p) ==
  /\ AtLabel(p, "rst.recv")
  /\ LET up == PipeOf(p, R(0))
         down == PipeOf(p, W(0))
     IN \/ \E n \in 1 .. Len(pipe[up]) :
             /\ Received(up, n)
             /\ pipe' = [Taken(up, n) EXCEPT
                          ![down] = @ \o reverse_string(SubSeq(pipe[up], 1, n))]
        \/ AtEnd(p, R(0)) /\ UNCHANGED <<pipe, failed>>
  /\ proc' = Exited(proc, p, 0)
  /\ UNCHANGED program

\* The client: a line that the user types at fgets, or none; one send(), one recv().
RcSend(p) ==
  /\ AtLabel(p, "rc.send")
  /\ \/ \E line \in Typed :
          /\ proc' = Goto(Set(proc, p, [line |-> line]), p, "rc.recv")
          /\ pipe' = Sent(PipeOf(p, W(0)), line)
     \/ proc' = Exited(proc, p, 1) /\ UNCHANGED pipe
  /\ UNCHANGED <<program, failed>>

\* What is shown is kept for the properties.
RcRecv(p) ==
  /\ AtLabel(p, "rc.recv")
  /\ LET k == PipeOf(p, R(0))
         Show(s) == Goto(Close(Set(proc, p, [line |-> proc[p].mem.line, shown |-> s]),
                               p, DOMAIN proc[p].fd), p, "rc.end")
     IN \/ \E n \in 1 .. Len(pipe[k]) :
             /\ Received(k, n)
             /\ proc' = Show(SubSeq(pipe[k], 1, n))
             /\ pipe' = Taken(k, n)
        \/ AtEnd(p, R(0)) /\ proc' = Show(<<>>) /\ UNCHANGED <<pipe, failed>>
  /\ UNCHANGED program

ReverseProgram(p) ==
  RsAccept(p) \/ RsCreate(p) \/ handle_client(p) \/ RcRecv(p)
=============================================================================
