------------------------------- MODULE Unix -------------------------------
(***************************************************************************)
(* The system calls the programs of project_1 and ls_server.c are built    *)
(* from: fork, exec, exit, wait, pipe, dup2, close, read and write, as     *)
(* these programs use them.  A process is at a label of its program, has a *)
(* table of open descriptors that its children inherit, and memory of its  *)
(* own that they copy.  A pipe is open for as long as any process holds    *)
(* the end in question: a reader sees the end of file, and a writer is     *)
(* killed by SIGPIPE, only when the last process lets go.  A connection is  *)
(* a pipe in each direction; a thread that shares nothing but descriptors  *)
(* handed to it is a process here, too.                                    *)
(***************************************************************************)
EXTENDS Integers, Sequences, FiniteSets, Functions

CONSTANTS
  Processes,   \* how many processes fit in the table
  Pipes,       \* how many pipes are open at most
  PIPE_SIZE,   \* bytes a pipe holds
  MayFail      \* the kinds of system calls that may fail, each of them once

ASSUME UnixAssumption ==
  /\ Processes \in Nat \ {0} /\ Pipes \in Nat /\ PIPE_SIZE \in Nat \ {0}
  /\ MayFail \subseteq {"fork", "pipe", "open", "exec", "kill", "split"}

VARIABLES
  program,  \* the program that was started
  proc,     \* [Pids -> process]
  pipe,     \* contents of the pipes
  failed    \* the kinds of calls that have failed

os == <<program, proc, pipe, failed>>

Pids == 1 .. Processes
Root == 1              \* the program itself
Running == [by |-> "running", code |-> 0]
Status(by, code) == [by |-> by, code |-> code]

Free == [pc |-> "free", parent |-> 0, fd |-> <<>>, mem |-> <<>>,
         status |-> Running]

\* Names of descriptors and, of a pipe, also its two ends.
R(k) == <<"r", k>>
W(k) == <<"w", k>>
In == <<"in", 0>>
Out == <<"out", 0>>
Tty == <<"tty", 0>>
Terminal == [fd \in {In, Out} |-> Tty]

HeldIn(t, end) == \E p \in Pids : \E n \in DOMAIN t[p].fd : t[p].fd[n] = end

AtLabel(p, label) == proc[p].pc = label

\* A call of this kind fails, or goes well.
Fails(kind) == kind \in MayFail \ failed /\ failed' = failed \cup {kind}
GoesWell == UNCHANGED failed

-----------------------------------------------------------------------------
\* The process table t after a call of process p, which goes on at a label.
Goto(t, p, label) == [t EXCEPT ![p].pc = label]
Set(t, p, mem) == [t EXCEPT ![p].mem = mem]

Close(t, p, names) ==
  [t EXCEPT ![p].fd = Restrict(@, DOMAIN @ \ names)]

\* dup2(old, new), new open or not.
Dup2(t, p, old, new) ==
  [t EXCEPT ![p].fd = [n \in DOMAIN @ \cup {new} |-> IF n = new THEN @[old] ELSE @[n]]]

CanFork == \E c \in Pids : proc[c].pc = "free"
NewPid == CHOOSE c \in Pids : /\ proc[c].pc = "free"
                              /\ \A q \in Pids : proc[q].pc = "free" => c <= q

\* fork(): the child starts at a label of its own with p's descriptors and memory.
Fork(t, p, c, label) ==
  [t EXCEPT ![c] = [t[p] EXCEPT !.pc = label, !.parent = p]]

\* A fork that fails, because of a limit or because the table is full.
ForkFails == Fails("fork") \/ (~CanFork /\ UNCHANGED failed)

\* p ends: its descriptors are closed, its children that have ended are
\* collected, and p is kept for its parent to wait for, if it has one.
Exit(t, p, status) ==
  [q \in Pids |->
     IF q = p
     THEN IF p # Root /\ t[p].parent = 0 THEN Free
          ELSE [Free EXCEPT !.pc = "zombie", !.parent = t[p].parent,
                            !.status = status]
     ELSE IF t[q].parent # p THEN t[q]
     ELSE IF t[q].pc = "zombie" THEN Free
     ELSE [t[q] EXCEPT !.parent = 0]]

Exited(t, p, code) == Exit(t, p, Status("exit", code))
Killed(t, p, sig) == Exit(t, p, Status("signal", sig))

ZombieOf(p, c) == c \in Pids /\ proc[c].pc = "zombie" /\ proc[c].parent = p
Reap(t, c) == [t EXCEPT ![c] = Free]

\* The processes p has to wait for.
Children(p) == {c \in Pids : proc[c].parent = p}

-----------------------------------------------------------------------------
\* Pipes.
Unused(k) == ~HeldIn(proc, R(k)) /\ ~HeldIn(proc, W(k))
CanPipe == \E k \in 1 .. Pipes : Unused(k)
NewPipe == CHOOSE k \in 1 .. Pipes : Unused(k) /\ \A j \in 1 .. k - 1 : ~Unused(j)

\* pipe(): p gets both ends under two names.
OpenPipe(t, p, k, r, w) ==
  [t EXCEPT ![p].fd =
     [n \in DOMAIN @ \cup {r, w} |->
        IF n = r THEN R(k) ELSE IF n = w THEN W(k) ELSE @[n]]]

PipeFails == Fails("pipe") \/ (~CanPipe /\ UNCHANGED failed)

PipeOf(p, name) == proc[p].fd[name][2]
Room(k) == PIPE_SIZE - Len(pipe[k])

\* Nobody reads what p would write: the write raises SIGPIPE.
NoReader(p, name) ==
  proc[p].fd[name][1] = "w" /\ ~HeldIn(proc, R(PipeOf(p, name)))

\* The end of file: nothing left, and nobody to write more.
AtEnd(p, name) ==
  LET k == PipeOf(p, name) IN pipe[k] = <<>> /\ ~HeldIn(proc, W(k))

\* accept() by p of the connection that c asks for: both get a descriptor.
CanConnect == \E up, down \in 1 .. Pipes : up # down /\ Unused(up) /\ Unused(down)
OtherPipe == CHOOSE k \in 1 .. Pipes :
  /\ k # NewPipe /\ Unused(k)
  /\ \A j \in 1 .. k - 1 : j = NewPipe \/ ~Unused(j)
Connect(t, p, c, up, down) ==
  LET Socket(fd, r, w) ==
        [n \in DOMAIN fd \cup {R(0), W(0)} |->
           IF n = R(0) THEN R(r) ELSE IF n = W(0) THEN W(w) ELSE fd[n]]
  IN [t EXCEPT ![p].fd = Socket(@, up, down), ![c].fd = Socket(@, down, up)]
HangUp(t, p) == Close(t, p, {R(0), W(0)})

\* recv() takes all that is there, unless the stream comes in pieces: n bytes of k.
Received(k, n) ==
  \/ n = Len(pipe[k]) /\ n > 0 /\ GoesWell
  \/ n \in 1 .. Len(pipe[k]) - 1 /\ Fails("split")
Taken(k, n) == [pipe EXCEPT ![k] = SubSeq(@, n + 1, Len(@))]
Sent(k, s) == [pipe EXCEPT ![k] = @ \o s]

Min2(a, b) == IF a < b THEN a ELSE b

UnixInit(name, label, mem) ==
  /\ program = name
  /\ proc = [p \in Pids |->
       IF p = Root
       THEN [Free EXCEPT !.pc = label, !.fd = Terminal, !.mem = mem] ELSE Free]
  /\ pipe = [k \in 1 .. Pipes |-> <<>>]
  /\ failed = {}
=============================================================================
