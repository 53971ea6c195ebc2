----------------------------- MODULE LsServer -----------------------------
(***************************************************************************)
(* ls_server.c and ls_client.c of project_3.  The server takes one client  *)
(* at a time: it reads a line, forks a child whose output is the socket,   *)
(* waits for it and closes the connection, which is the end of file for    *)
(* the client.  A connection is a pipe in each direction.                  *)
(***************************************************************************)
EXTENDS Commands

CONSTANTS
  LsClients,   \* how many clients run
  Complaint    \* bytes of the error text when ls cannot be run

\* There is a process for the server, every client and the server's child.
ASSUME LsAssumption ==
  /\ LsClients \in Nat /\ LsClients + 2 <= Processes
  /\ Complaint \in Nat \ {0}

\* What a client is started with: arguments for ls, none, or more than its line
\* has room for.
Requests == {"args", "bare", "toolong"}
Line(request) == IF request = "args" THEN <<"-", "\n">> ELSE <<"\n">>

Client == 2 .. LsClients + 1

LsInit ==
  /\ program = "ls_server"
  /\ \E request \in [Client -> Requests] :
       proc = [p \in Pids |->
         IF p = Root THEN [Free EXCEPT !.pc = "ls.accept", !.fd = Terminal]
         ELSE IF p \in Client
         THEN [Free EXCEPT !.pc = "lc.connect", !.fd = Terminal,
                           !.mem = [request |-> request[p], got |-> 0]]
         ELSE Free]
  /\ pipe = [k \in 1 .. Pipes |-> <<>>]
  /\ failed = {}
  /\ printed = [p \in Pids |-> Nothing]

-----------------------------------------------------------------------------
\* accept() of a client that connects; both get a socket.
Accept(p) ==
  /\ AtLabel(p, "ls.accept") /\ CanConnect
  /\ \E c \in Pids :
       /\ AtLabel(c, "lc.connect")
       /\ proc' = [Connect(proc, p, c, NewPipe, OtherPipe) EXCEPT
                    ![p].pc = "ls.read", ![p].mem = [n |-> 0], ![c].pc = "lc.send"]
  /\ pipe' = [pipe EXCEPT ![NewPipe] = <<>>, ![OtherPipe] = <<>>]
  /\ UNCHANGED <<program, failed, printed>>

Hangup(t, p) == Goto(HangUp(Set(t, p, <<>>), p), p, "ls.accept")

\* read_line: one recv(), of a byte or of the end of file.  No byte before the
\* newline counts as no line.
read_line(p) ==
  /\ AtLabel(p, "ls.read")
  /\ LET k == PipeOf(p, R(0))
         n == proc[p].mem.n
         Stop == IF n > 0 THEN Goto(proc, p, "ls.fork") ELSE Hangup(proc, p)
     IN \/ /\ pipe[k] # <<>>
           /\ proc' = IF Head(pipe[k]) = "\n" THEN Stop ELSE Set(proc, p, [n |-> n + 1])
           /\ pipe' = [pipe EXCEPT ![k] = Tail(@)]
        \/ AtEnd(p, R(0)) /\ proc' = Stop /\ UNCHANGED pipe
  /\ UNCHANGED <<program, failed, printed>>

LsFork(p) ==
  /\ AtLabel(p, "ls.fork")
  /\ \/ /\ CanFork /\ GoesWell
        /\ proc' = Goto(Set(Fork(proc, p, NewPid, "ls.exec"), p, [child |-> NewPid]),
                        p, "ls.wait")
     \/ ForkFails /\ proc' = Hangup(proc, p)
  /\ UNCHANGED <<program, pipe, printed>>

\* The child's output and its stderr are the socket: without ls the client gets the
\* error text.
LsExec(p) ==
  /\ AtLabel(p, "ls.exec")
  /\ LET t == Close(Dup2(proc, p, W(0), Out), p, {R(0), W(0)})
     IN \/ GoesWell /\ proc' = Exec(t, p, "echo")
        \/ /\ Fails("exec")
           /\ proc' = Goto(Set(t, p, [left |-> Complaint, got |-> 0]), p, "ls.perror")
  /\ UNCHANGED <<program, pipe, printed>>

LsWait(p) ==
  /\ AtLabel(p, "ls.wait")
  /\ ZombieOf(p, proc[p].mem.child)
  /\ proc' = Hangup(Reap(proc, proc[p].mem.child), p)
  /\ UNCHANGED <<program, pipe, failed, printed>>

\* The client: send the line, show what comes until the end of file.
LcSend(p) ==
  /\ AtLabel(p, "lc.send")
  /\ LET k == PipeOf(p, W(0))
         request == proc[p].mem.request
     IN IF request = "toolong"
        THEN proc' = Exited(proc, p, 1) /\ UNCHANGED pipe
        ELSE /\ proc' = Goto(proc, p, "lc.recv")
             /\ pipe' = [pipe EXCEPT ![k] = @ \o Line(request)]
  /\ UNCHANGED <<program, failed, printed>>

\* Mutant: one recv() instead of the loop.
LcRecvOnce(p) ==
  /\ AtLabel(p, "lc.recv")
  /\ LET k == PipeOf(p, R(0))
     IN /\ pipe[k] # <<>> \/ AtEnd(p, R(0))
        /\ proc' = Exited(proc, p, 0)
        /\ printed' = [printed EXCEPT ![p] = Len(pipe[k])]
        /\ pipe' = [pipe EXCEPT ![k] = <<>>]
  /\ UNCHANGED <<program, failed>>
LcRecv(p) ==
  /\ AtLabel(p, "lc.recv")
  /\ LET k == PipeOf(p, R(0))
     IN \/ /\ pipe[k] # <<>>
           /\ proc' = Set(proc, p, [proc[p].mem EXCEPT !.got = @ + Len(pipe[k])])
           /\ pipe' = [pipe EXCEPT ![k] = <<>>]
           /\ UNCHANGED printed
        \/ /\ AtEnd(p, R(0))
           /\ proc' = Exited(proc, p, 0)
           /\ printed' = [printed EXCEPT ![p] = proc[p].mem.got]
           /\ UNCHANGED pipe
  /\ UNCHANGED <<program, failed>>

Server(p) == Accept(p) \/ read_line(p) \/ LsFork(p) \/ LsExec(p) \/ LsWait(p)
ListClient(p) == LcSend(p) \/ LcRecv(p)
=============================================================================
