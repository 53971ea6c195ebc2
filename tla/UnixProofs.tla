----------------------------- MODULE UnixProofs -----------------------------
(***************************************************************************)
(* What TLAPS proves about the programs of MCUnix, for every value of the  *)
(* constants: answers belong to the line that was sent (AnswersInStep) and *)
(* prompts are clean (PromptClean).  Each program has an inductive         *)
(* invariant of its own, which says of every process, by the place it has  *)
(* reached, which ends of which pipes it holds, whose child it is and what *)
(* it remembers, and of every pipe what is in it.                          *)
(***************************************************************************)
EXTENDS MCUnix, SequenceTheorems, FiniteSetTheorems, WellFoundedInduction, TLAPS

\* The names of descriptors and of ends of pipes are told apart.
LEMMA Names ==
  /\ \A i, j : (R(i) = R(j) => i = j) /\ (W(i) = W(j) => i = j) /\ R(i) # W(j)
  /\ \A i : R(i) \notin {In, Out, Tty} /\ W(i) \notin {In, Out, Tty}
  /\ In # Out /\ Tty \notin {In, Out}
  /\ \A i : R(i)[1] = "r" /\ R(i)[2] = i /\ W(i)[1] = "w" /\ W(i)[2] = i
  /\ Tty[1] = "tty" /\ Tty[2] = 0
<1>1. \A i, j : R(i) = R(j) => R(i)[2] = R(j)[2]
  OBVIOUS
<1>2. \A i, j : W(i) = W(j) => W(i)[2] = W(j)[2]
  OBVIOUS
<1>3. \A i : R(i)[1] = "r" /\ R(i)[2] = i /\ W(i)[1] = "w" /\ W(i)[2] = i
  BY DEF R, W
<1>4. Tty[1] = "tty" /\ Tty[2] = 0 /\ In[1] = "in" /\ Out[1] = "out"
  BY DEF Tty, In, Out
<1>5. \A i, j : R(i) # W(j)
  <2> TAKE i, j
  <2> QED
    BY <1>3
<1>6. \A i : R(i) \notin {In, Out, Tty} /\ W(i) \notin {In, Out, Tty}
  <2> TAKE i
  <2> QED
    BY <1>3, <1>4
<1>7. In # Out /\ Tty \notin {In, Out}
  BY <1>4
<1> QED
  BY <1>1, <1>2, <1>3, <1>4, <1>5, <1>6, <1>7

-----------------------------------------------------------------------------
\* The process table, and what the calls make of it.
Record(x) ==
  x = [pc |-> x.pc, parent |-> x.parent, fd |-> x.fd, mem |-> x.mem, status |-> x.status]
Table(t) == DOMAIN t = Pids /\ t = [p \in Pids |-> t[p]] /\ \A p \in Pids : Record(t[p])

\* Only the process p differs, which has this label, memory and descriptors.
Becomes(t, u, p, pc, parent, fd, mem) ==
  /\ Table(u) /\ \A q \in Pids : q # p => u[q] = t[q]
  /\ u[p].pc = pc /\ u[p].parent = parent /\ u[p].fd = fd /\ u[p].mem = mem

LEMMA FreeIs ==
  /\ Record(Free) /\ Free.pc = "free" /\ Free.parent = 0 /\ Free.fd = <<>> /\ Free.mem = <<>>
  BY DEF Free, Record

LEMMA GotoIs ==
  ASSUME NEW t, Table(t), NEW p \in Pids, NEW pc
  PROVE  Becomes(t, Goto(t, p, pc), p, pc, t[p].parent, t[p].fd, t[p].mem)
<1>1. PICK x : x = t[p]
  OBVIOUS
<1>2. Record(x)
  BY <1>1 DEF Table
<1>3. PICK y : y = [x EXCEPT !.pc = pc]
  OBVIOUS
<1>4. Record(y) /\ y.pc = pc /\ y.parent = x.parent /\ y.fd = x.fd /\ y.mem = x.mem
  BY <1>2, <1>3 DEF Record
<1>5. Goto(t, p, pc) = [t EXCEPT ![p] = y]
  BY <1>1, <1>3 DEF Goto
<1> QED
  BY <1>1, <1>4, <1>5 DEF Becomes, Table

LEMMA SetIs ==
  ASSUME NEW t, Table(t), NEW p \in Pids, NEW mem
  PROVE  Becomes(t, Set(t, p, mem), p, t[p].pc, t[p].parent, t[p].fd, mem)
<1>1. PICK x : x = t[p]
  OBVIOUS
<1>2. Record(x)
  BY <1>1 DEF Table
<1>3. PICK y : y = [x EXCEPT !.mem = mem]
  OBVIOUS
<1>4. Record(y) /\ y.pc = x.pc /\ y.parent = x.parent /\ y.fd = x.fd /\ y.mem = mem
  BY <1>2, <1>3 DEF Record
<1>5. Set(t, p, mem) = [t EXCEPT ![p] = y]
  BY <1>1, <1>3 DEF Set
<1> QED
  BY <1>1, <1>4, <1>5 DEF Becomes, Table

LEMMA FdIs ==
  ASSUME NEW t, Table(t), NEW p \in Pids, NEW fd, NEW u, u = [t EXCEPT ![p] = [t[p] EXCEPT !.fd = fd]]
  PROVE  Becomes(t, u, p, t[p].pc, t[p].parent, fd, t[p].mem)
<1>1. PICK x : x = t[p]
  OBVIOUS
<1>2. Record(x)
  BY <1>1 DEF Table
<1>3. PICK y : y = [x EXCEPT !.fd = fd]
  OBVIOUS
<1>4. Record(y) /\ y.pc = x.pc /\ y.parent = x.parent /\ y.fd = fd /\ y.mem = x.mem
  BY <1>2, <1>3 DEF Record
<1>5. u = [t EXCEPT ![p] = y]
  BY <1>1, <1>3
<1> QED
  BY <1>1, <1>4, <1>5 DEF Becomes, Table

LEMMA CloseIs ==
  ASSUME NEW t, Table(t), NEW p \in Pids, NEW names
  PROVE  Becomes(t, Close(t, p, names), p, t[p].pc, t[p].parent,
                 Restrict(t[p].fd, DOMAIN t[p].fd \ names), t[p].mem)
<1>1. Close(t, p, names) =
        [t EXCEPT ![p] = [t[p] EXCEPT !.fd = Restrict(t[p].fd, DOMAIN t[p].fd \ names)]]
  BY DEF Close
<1> QED
  BY <1>1, FdIs

LEMMA Dup2Is ==
  ASSUME NEW t, Table(t), NEW p \in Pids, NEW old, NEW new
  PROVE  Becomes(t, Dup2(t, p, old, new), p, t[p].pc, t[p].parent,
                 [n \in DOMAIN t[p].fd \cup {new} |->
                    IF n = new THEN t[p].fd[old] ELSE t[p].fd[n]], t[p].mem)
<1>1. Dup2(t, p, old, new) =
        [t EXCEPT ![p] = [t[p] EXCEPT !.fd =
           [n \in DOMAIN t[p].fd \cup {new} |->
                    IF n = new THEN t[p].fd[old] ELSE t[p].fd[n]]]]
  BY DEF Dup2
<1> QED
  BY <1>1, FdIs

LEMMA OpenPipeIs ==
  ASSUME NEW t, Table(t), NEW p \in Pids, NEW k, NEW r, NEW w
  PROVE  Becomes(t, OpenPipe(t, p, k, r, w), p, t[p].pc, t[p].parent,
                 [n \in DOMAIN t[p].fd \cup {r, w} |->
                   IF n = r THEN R(k) ELSE IF n = w THEN W(k) ELSE t[p].fd[n]], t[p].mem)
<1>1. OpenPipe(t, p, k, r, w) =
        [t EXCEPT ![p] = [t[p] EXCEPT !.fd =
           [n \in DOMAIN t[p].fd \cup {r, w} |->
                   IF n = r THEN R(k) ELSE IF n = w THEN W(k) ELSE t[p].fd[n]]]]
  BY DEF OpenPipe
<1> QED
  BY <1>1, FdIs

LEMMA ForkIs ==
  ASSUME NEW t, Table(t), NEW p \in Pids, NEW c \in Pids, NEW pc
  PROVE  Becomes(t, Fork(t, p, c, pc), c, pc, p, t[p].fd, t[p].mem)
<1>1. PICK x : x = t[p]
  OBVIOUS
<1>2. Record(x)
  BY <1>1 DEF Table
<1>3. PICK y : y = [x EXCEPT !.pc = pc, !.parent = p]
  OBVIOUS
<1>4. Record(y) /\ y.pc = pc /\ y.parent = p /\ y.fd = x.fd /\ y.mem = x.mem
  BY <1>2, <1>3 DEF Record
<1>5. Fork(t, p, c, pc) = [t EXCEPT ![c] = y]
  BY <1>1, <1>3 DEF Fork
<1> QED
  BY <1>1, <1>4, <1>5 DEF Becomes, Table

LEMMA ReapIs ==
  ASSUME NEW t, Table(t), NEW c \in Pids
  PROVE  Becomes(t, Reap(t, c), c, "free", 0, <<>>, <<>>) /\ Reap(t, c)[c] = Free
  BY FreeIs DEF Reap, Becomes, Table

\* The end of a process: it keeps nothing open, and loses its children.
Ends(t, u, p) ==
  /\ Table(u)
  /\ u[p].pc \in {"free", "zombie"} /\ u[p].fd = <<>> /\ u[p].mem = <<>>
  /\ u[p].parent = t[p].parent \/ (u[p].pc = "free" /\ u[p].parent = 0)
  /\ p # Root /\ t[p].parent = 0 => u[p].pc = "free"
  /\ p = Root \/ t[p].parent # 0 => u[p].pc = "zombie" /\ u[p].parent = t[p].parent
  /\ \A q \in Pids : q # p /\ t[q].parent # p => u[q] = t[q]
  /\ \A q \in Pids : q # p /\ t[q].parent = p /\ t[q].pc = "zombie" => u[q] = Free
  /\ \A q \in Pids : q # p /\ t[q].parent = p /\ t[q].pc # "zombie" =>
       /\ u[q].pc = t[q].pc /\ u[q].parent = 0 /\ u[q].fd = t[q].fd /\ u[q].mem = t[q].mem

LEMMA ExitIs ==
  ASSUME NEW t, Table(t), NEW p \in Pids, NEW status
  PROVE  Ends(t, Exit(t, p, status), p)
<1>1. PICK z : z = [Free EXCEPT !.pc = "zombie", !.parent = t[p].parent, !.status = status]
  OBVIOUS
<1>2. Record(z) /\ z.pc = "zombie" /\ z.parent = t[p].parent /\ z.fd = <<>> /\ z.mem = <<>>
  BY <1>1 DEF Free, Record
<1>3. ASSUME NEW q \in Pids
      PROVE  LET y == [t[q] EXCEPT !.parent = 0]
             IN Record(y) /\ y.pc = t[q].pc /\ y.parent = 0 /\ y.fd = t[q].fd /\ y.mem = t[q].mem
  <2>1. PICK x : x = t[q]
    OBVIOUS
  <2>2. Record(x)
    BY <2>1 DEF Table
  <2> QED
    BY <2>1, <2>2 DEF Record
<1>4. PICK u : u = Exit(t, p, status)
  OBVIOUS
<1>5. u = [q \in Pids |->
             IF q = p THEN IF p # Root /\ t[p].parent = 0 THEN Free ELSE z
             ELSE IF t[q].parent # p THEN t[q]
             ELSE IF t[q].pc = "zombie" THEN Free
             ELSE [t[q] EXCEPT !.parent = 0]]
  BY <1>1, <1>4 DEF Exit
<1>6. \A q \in Pids : u[q] =
             IF q = p THEN IF p # Root /\ t[p].parent = 0 THEN Free ELSE z
             ELSE IF t[q].parent # p THEN t[q]
             ELSE IF t[q].pc = "zombie" THEN Free
             ELSE [t[q] EXCEPT !.parent = 0]
  BY <1>5
<1>7. DOMAIN u = Pids /\ u = [q \in Pids |-> u[q]]
  BY <1>5
<1>8. \A q \in Pids : Record(u[q])
  BY <1>2, <1>3, <1>6, FreeIs DEF Table
<1>9. Table(u)
  BY <1>7, <1>8 DEF Table
<1>10. u[p] = IF p # Root /\ t[p].parent = 0 THEN Free ELSE z
  BY <1>6
<1>11. \A q \in Pids : q # p /\ t[q].parent # p => u[q] = t[q]
  BY <1>6
<1>12. \A q \in Pids : q # p /\ t[q].parent = p /\ t[q].pc = "zombie" => u[q] = Free
  BY <1>6
<1>13. \A q \in Pids : q # p /\ t[q].parent = p /\ t[q].pc # "zombie" =>
         u[q] = [t[q] EXCEPT !.parent = 0]
  BY <1>6
<1>14. /\ u[p].pc \in {"free", "zombie"} /\ u[p].fd = <<>> /\ u[p].mem = <<>>
       /\ u[p].parent = t[p].parent \/ (u[p].pc = "free" /\ u[p].parent = 0)
       /\ p # Root /\ t[p].parent = 0 => u[p].pc = "free"
       /\ p = Root \/ t[p].parent # 0 => u[p].pc = "zombie" /\ u[p].parent = t[p].parent
  <2>1. CASE p # Root /\ t[p].parent = 0
    <3>1. PICK y : y = u[p]
      OBVIOUS
    <3>2. y = Free
      BY <1>10, <2>1, <3>1
    <3>3. y.pc = "free" /\ y.parent = 0 /\ y.fd = <<>> /\ y.mem = <<>>
      BY <3>2, FreeIs
    <3> QED
      BY <2>1, <3>1, <3>3
  <2>2. CASE ~(p # Root /\ t[p].parent = 0)
    <3>1. PICK y : y = u[p]
      OBVIOUS
    <3>2. y = z
      BY <1>10, <2>2, <3>1
    <3>3. y.pc = "zombie" /\ y.parent = t[p].parent /\ y.fd = <<>> /\ y.mem = <<>>
      BY <1>2, <3>2
    <3>4. /\ u[p].pc \in {"free", "zombie"} /\ u[p].fd = <<>> /\ u[p].mem = <<>>
          /\ u[p].parent = t[p].parent /\ u[p].pc = "zombie"
      BY <3>1, <3>3
    <3> QED
      BY <2>2, <3>4
  <2> QED
    BY <2>1, <2>2
<1>15. \A q \in Pids : q # p /\ t[q].parent = p /\ t[q].pc # "zombie" =>
         /\ u[q].pc = t[q].pc /\ u[q].parent = 0 /\ u[q].fd = t[q].fd /\ u[q].mem = t[q].mem
  BY <1>3, <1>13
<1> QED
  BY <1>4, <1>9, <1>11, <1>12, <1>14, <1>15 DEF Ends

-----------------------------------------------------------------------------
\* The ends that a table of descriptors leads to.
EndsOf(fd) == {fd[n] : n \in DOMAIN fd}

\* What processes have open in these programs: both ends, or one in the place of stdin
\* or stdout.
Piped(r, w) ==
  [n \in {In, Out, R(0), W(0)} |-> IF n = R(0) THEN R(r) ELSE IF n = W(0) THEN W(w) ELSE Tty]
Socket(r, w) == [n \in {R(0), W(0)} |-> IF n = R(0) THEN R(r) ELSE W(w)]
Writer(k) == [n \in {In, Out} |-> IF n = Out THEN W(k) ELSE Tty]
Reader(k) == [n \in {In, Out} |-> IF n = In THEN R(k) ELSE Tty]

LEMMA Opened ==
  /\ \A r, w : DOMAIN Piped(r, w) = {In, Out, R(0), W(0)} /\ Piped(r, w)[R(0)] = R(r)
               /\ Piped(r, w)[W(0)] = W(w) /\ Piped(r, w)[In] = Tty /\ Piped(r, w)[Out] = Tty
  /\ \A r, w : DOMAIN Socket(r, w) = {R(0), W(0)} /\ Socket(r, w)[R(0)] = R(r)
               /\ Socket(r, w)[W(0)] = W(w)
  /\ \A k : DOMAIN Writer(k) = {In, Out} /\ Writer(k)[Out] = W(k) /\ Writer(k)[In] = Tty
  /\ \A k : DOMAIN Reader(k) = {In, Out} /\ Reader(k)[In] = R(k) /\ Reader(k)[Out] = Tty
  /\ DOMAIN Terminal = {In, Out} /\ Terminal[In] = Tty /\ Terminal[Out] = Tty
  BY Names DEF Piped, Socket, Writer, Reader, Terminal

LEMMA EndsAre ==
  /\ EndsOf(<<>>) = {} /\ EndsOf(Terminal) = {Tty}
  /\ \A r, w : EndsOf(Piped(r, w)) = {Tty, R(r), W(w)} /\ EndsOf(Socket(r, w)) = {R(r), W(w)}
  /\ \A k : EndsOf(Writer(k)) = {Tty, W(k)} /\ EndsOf(Reader(k)) = {Tty, R(k)}
<1>1. EndsOf(<<>>) = {}
  BY DEF EndsOf
<1>2. EndsOf(Terminal) = {Tty}
  BY DEF EndsOf, Terminal
<1>3. ASSUME NEW r, NEW w
      PROVE  EndsOf(Piped(r, w)) = {Tty, R(r), W(w)} /\ EndsOf(Socket(r, w)) = {R(r), W(w)}
  <2>1. PICK f : f = Piped(r, w)
    OBVIOUS
  <2>2. DOMAIN f = {In, Out, R(0), W(0)} /\ f[R(0)] = R(r) /\ f[W(0)] = W(w) /\ f[In] = Tty /\ f[Out] = Tty
    BY <2>1, Opened
  <2>3. EndsOf(f) = {Tty, R(r), W(w)}
    BY <2>2 DEF EndsOf
  <2>4. PICK g : g = Socket(r, w)
    OBVIOUS
  <2>5. DOMAIN g = {R(0), W(0)} /\ g[R(0)] = R(r) /\ g[W(0)] = W(w)
    BY <2>4, Opened
  <2>6. EndsOf(g) = {R(r), W(w)}
    BY <2>5 DEF EndsOf
  <2> QED
    BY <2>1, <2>3, <2>4, <2>6
<1>4. ASSUME NEW k
      PROVE  EndsOf(Writer(k)) = {Tty, W(k)} /\ EndsOf(Reader(k)) = {Tty, R(k)}
  BY Names DEF EndsOf, Writer, Reader
<1> QED
  BY <1>1, <1>2, <1>3, <1>4

LEMMA HeldIs ==
  ASSUME NEW t, NEW end
  PROVE  HeldIn(t, end) <=> \E p \in Pids : end \in EndsOf(t[p].fd)
  BY DEF HeldIn, EndsOf

\* The closing of both ends, and of one.
LEMMA Closed ==
  /\ \A r, w : Restrict(Piped(r, w), DOMAIN Piped(r, w) \ {R(0), W(0)}) = Terminal
  /\ \A fd : Restrict(fd, DOMAIN fd \ DOMAIN fd) = <<>>
<1>1. ASSUME NEW r, NEW w
      PROVE  Restrict(Piped(r, w), DOMAIN Piped(r, w) \ {R(0), W(0)}) = Terminal
  <2>1. DOMAIN Piped(r, w) \ {R(0), W(0)} = {In, Out}
    BY Names, Opened
  <2>2. Restrict(Piped(r, w), {In, Out}) = [n \in {In, Out} |-> Piped(r, w)[n]]
    BY DEF Restrict
  <2>3. Piped(r, w)[In] = Tty /\ Piped(r, w)[Out] = Tty
    BY Opened
  <2> QED
    BY <2>1, <2>2, <2>3 DEF Terminal
<1>2. ASSUME NEW fd
      PROVE  Restrict(fd, DOMAIN fd \ DOMAIN fd) = <<>>
  BY DEF Restrict
<1> QED
  BY <1>1, <1>2

\* A nonempty set of natural numbers has a least member.
LEMMA LeastElement ==
  ASSUME NEW S \in SUBSET Nat, S # {}
  PROVE  \E i \in S : \A j \in S : i <= j
<1> DEFINE Below(a) == 0 .. (a - 1)
           T == {Below(a) : a \in S}
<1>1. T \subseteq FiniteSubsetsOf(Nat) /\ T # {}
  <2>1. ASSUME NEW a \in S
        PROVE  Below(a) \subseteq Nat /\ IsFiniteSet(Below(a))
    <3>1. a - 1 \in Int
      OBVIOUS
    <3> QED
      BY <3>1, FS_Interval
  <2> QED
    BY <2>1 DEF FiniteSubsetsOf
<1>2. PICK X \in T : \A Y \in T : <<Y, X>> \notin StrictSubsetOrdering(Nat)
  BY <1>1, WFMin, FS_StrictSubsetOrderingWellFounded
<1>3. PICK i \in S : X = Below(i)
  OBVIOUS
<1>4. ASSUME NEW j \in S, j < i
      PROVE  FALSE
  <2>1. Below(j) \subseteq Below(i) /\ j \in Below(i) /\ j \notin Below(j)
    BY <1>4
  <2>2. <<Below(j), Below(i)>> \in StrictSubsetOrdering(Nat)
    BY <2>1 DEF StrictSubsetOrdering
  <2> QED
    BY <1>2, <1>3, <2>2
<1> QED
  BY <1>4

\* The process that a fork takes is a free one.
LEMMA NewPidIs ==
  CanFork => NewPid \in Pids /\ proc[NewPid].pc = "free"
<1> SUFFICES ASSUME CanFork
             PROVE  NewPid \in Pids /\ proc[NewPid].pc = "free"
  OBVIOUS
<1> DEFINE S == {c \in Pids : proc[c].pc = "free"}
<1>1. S \in SUBSET Nat /\ S # {}
  BY UnixAssumption DEF CanFork, Pids
<1>2. PICK c \in S : \A q \in S : c <= q
  BY <1>1, LeastElement
<1>3. \E d \in Pids : proc[d].pc = "free" /\ \A q \in Pids : proc[q].pc = "free" => d <= q
  BY <1>2
<1> QED
  BY <1>3 DEF NewPid

\* The pipe that pipe() takes, and the two of a connection, are not in use.
LEMMA NewPipeIs ==
  (\E k \in 1 .. Pipes : Unused(k)) => NewPipe \in 1 .. Pipes /\ Unused(NewPipe)
<1> SUFFICES ASSUME \E k \in 1 .. Pipes : Unused(k)
             PROVE  NewPipe \in 1 .. Pipes /\ Unused(NewPipe)
  OBVIOUS
<1> DEFINE S == {k \in 1 .. Pipes : Unused(k)}
<1>1. S \in SUBSET Nat /\ S # {}
  BY UnixAssumption
<1>2. PICK k \in S : \A j \in S : k <= j
  BY <1>1, LeastElement
<1>3. \A j \in 1 .. k - 1 : j \in 1 .. Pipes /\ ~(k <= j)
  BY <1>2, UnixAssumption
<1>4. \E d \in 1 .. Pipes : Unused(d) /\ \A j \in 1 .. d - 1 : ~Unused(j)
  BY <1>2, <1>3
<1> HIDE DEF S
<1> QED
  BY <1>4 DEF NewPipe

LEMMA ConnectionIs ==
  CanConnect =>
    /\ NewPipe \in 1 .. Pipes /\ OtherPipe \in 1 .. Pipes /\ NewPipe # OtherPipe
    /\ Unused(NewPipe) /\ Unused(OtherPipe)
<1> SUFFICES ASSUME CanConnect
             PROVE  /\ NewPipe \in 1 .. Pipes /\ OtherPipe \in 1 .. Pipes /\ NewPipe # OtherPipe
                    /\ Unused(NewPipe) /\ Unused(OtherPipe)
  OBVIOUS
<1>1. NewPipe \in 1 .. Pipes /\ Unused(NewPipe)
  BY NewPipeIs DEF CanConnect
<1> DEFINE S == {k \in 1 .. Pipes : k # NewPipe /\ Unused(k)}
<1>2. S \in SUBSET Nat /\ S # {}
  BY UnixAssumption DEF CanConnect
<1>3. PICK k \in S : \A j \in S : k <= j
  BY <1>2, LeastElement
<1>4. \A j \in 1 .. k - 1 : j \in 1 .. Pipes /\ ~(k <= j)
  BY <1>3, UnixAssumption
<1>5. \E d \in 1 .. Pipes : /\ d # NewPipe /\ Unused(d)
                            /\ \A j \in 1 .. d - 1 : j = NewPipe \/ ~Unused(j)
  BY <1>3, <1>4
<1> HIDE DEF S
<1>6. OtherPipe \in 1 .. Pipes /\ OtherPipe # NewPipe /\ Unused(OtherPipe)
  BY <1>5 DEF OtherPipe
<1> QED
  BY <1>1, <1>6

-----------------------------------------------------------------------------
\* Every process is at a label of its program, so that no step of another program is one
\* of it.
Idle == {"free", "zombie"}
CommandLabels == {"true", "echo", "yes", "wc", "head"}
CompressorLabels == {
  "my.open", "my.read", "fc.fork", "fc.exec", "fc.wait", "pc.pipe", "pc.fork", "pc.open",
  "pc.write", "pc.wait", "pcc.open", "pcc.read", "pf.open", "pf.spawn", "pf.fork",
  "pf.read", "pf.wait", "pfc.run", "pfc.write", "pt.create", "pt.join", "ptt.run", "ptt.end"}
OneLabels == {"min.prompt", "more.prompt", "sh.fork", "sh.exec", "sh.wait"}
DupLabels == {"dup.prompt", "dup.fork1", "dup.fork2", "dup.close", "dup.wait1",
              "dup.wait2", "dup.exec1", "dup.exec2"}
LsLabels == {"ls.accept", "ls.read", "ls.fork", "ls.exec", "ls.perror", "ls.wait",
             "lc.connect", "lc.send", "lc.recv"}
ReverseLabels == {"rs.accept", "rs.create", "rst.recv",
                  "rc.connect", "rc.send", "rc.recv", "rc.end"}
FsLabels == {"fss.recv", "fss.send", "fsc.prompt", "fsc.header", "fsc.line", "fsc.data",
             "fsc.recv"}

LabelOf(p, L) == proc[p].pc \in L
Labelled(t, L) == Table(t) /\ \A p \in Pids : t[p].pc \in L \cup Idle

\* Whose steps are whose.
LEMMA StepsOf ==
  ASSUME NEW p
  PROVE  /\ MyCompress(p) \/ ForkCompress(p) \/ PipeCompress(p) \/ ParFork(p)
              \/ ParThread(p) \/ Kill(p) => LabelOf(p, CompressorLabels)
         /\ Command(p) => LabelOf(p, CommandLabels \cup {"ls.perror"})
         /\ OneCommand(p) \/ MinPrompt(p) \/ MorePrompt(p) => LabelOf(p, OneLabels)
         /\ DupShell(p) \/ DupPrompt(p) => LabelOf(p, DupLabels)
         /\ Server(p) \/ ListClient(p) => LabelOf(p, LsLabels)
         /\ ReverseProgram(p) \/ RcSend(p) => LabelOf(p, ReverseLabels)
         /\ FsProgram(p) \/ FsCommand(p) \/ FsKill(p) => LabelOf(p, FsLabels)
<1> USE DEF AtLabel, LabelOf
<1>1. MyCompress(p) \/ Kill(p) => LabelOf(p, CompressorLabels)
  BY DEF MyCompress, MyOpen, compress_stream, Kill, CompressorLabels
<1>2. ForkCompress(p) => LabelOf(p, CompressorLabels)
  BY DEF ForkCompress, FcFork, FcExec, FcWait, CompressorLabels
<1>3. PipeCompress(p) => LabelOf(p, CompressorLabels)
  BY DEF PipeCompress, PcPipe, PcFork, PccOpen, compress_and_write, PcOpen, PcWrite, PcWait,
         CompressorLabels
<1>4. ParFork(p) => LabelOf(p, CompressorLabels)
  BY DEF ParFork, PfOpen, PfPipe, PfFork, comp_buf, PfcWrite, PfOpenDest, PfRead, PfWait,
         CompressorLabels
<1>5. ParThread(p) => LabelOf(p, CompressorLabels)
  BY DEF ParThread, PtCreate, compress_chunk_thread, PtOpenDest, PtJoin, CompressorLabels
<1>6. Command(p) => LabelOf(p, CommandLabels \cup {"ls.perror"})
  BY DEF Command, EndAtOnce, Output, Count, TakeOne, CommandLabels
<1>7. OneCommand(p) \/ MinPrompt(p) \/ MorePrompt(p) => LabelOf(p, OneLabels)
  BY DEF OneCommand, ShFork, ShExec, ShWait, MinPrompt, MorePrompt, ReadLine, OneLabels
<1>8. DupShell(p) \/ DupPrompt(p) => LabelOf(p, DupLabels)
  BY DEF DupShell, DupFork1, DupFork2, DupClose, DupWait1, DupWait2, DupExec1, DupExec2,
         DupPrompt, DupLabels
<1>9. Server(p) \/ ListClient(p) => LabelOf(p, LsLabels)
  BY DEF Server, ListClient, Accept, read_line, LsFork, LsExec, LsWait, LcSend, LcRecv, LsLabels
<1>10. ReverseProgram(p) \/ RcSend(p) => LabelOf(p, ReverseLabels)
  BY DEF ReverseProgram, RsAccept, RsCreate, handle_client, RcSend, RcRecv, ReverseLabels
<1>11. FsProgram(p) \/ FsCommand(p) \/ FsKill(p) => LabelOf(p, FsLabels)
  BY DEF FsProgram, FsRecv, FsSend, FsGeneric, FsHeader, FsLine, FsData, FsReadEnds,
         FsCommand, FsKill, FsLabels
<1> QED
  BY <1>1, <1>2, <1>3, <1>4, <1>5, <1>6, <1>7, <1>8, <1>9, <1>10, <1>11

\* The labels of two programs are different.
LEMMA LabelsApart ==
  ASSUME NEW x
  PROVE  /\ x \in CompressorLabels \cup Idle =>
              x \notin CommandLabels \cup OneLabels \cup DupLabels \cup LsLabels
                       \cup ReverseLabels \cup FsLabels
         /\ x \in OneLabels \cup CommandLabels \cup Idle =>
              x \notin CompressorLabels \cup DupLabels \cup LsLabels \cup ReverseLabels \cup FsLabels
         /\ x \in DupLabels \cup CommandLabels \cup Idle =>
              x \notin CompressorLabels \cup OneLabels \cup LsLabels \cup ReverseLabels \cup FsLabels
         /\ x \in LsLabels \cup CommandLabels \cup Idle =>
              x \notin CompressorLabels \cup OneLabels \cup DupLabels \cup ReverseLabels \cup FsLabels
         /\ x \in ReverseLabels \cup Idle =>
              x \notin CompressorLabels \cup CommandLabels \cup OneLabels \cup DupLabels
                       \cup LsLabels \cup FsLabels
         /\ x \in FsLabels \cup Idle =>
              x \notin CompressorLabels \cup CommandLabels \cup OneLabels \cup DupLabels
                       \cup LsLabels \cup ReverseLabels
  BY DEF CompressorLabels, CommandLabels, OneLabels, DupLabels, LsLabels, ReverseLabels,
         FsLabels, Idle

\* What a step is, for each kind of program.
CompressorStep(p) == MyCompress(p) \/ ForkCompress(p) \/ PipeCompress(p) \/ ParFork(p)
                     \/ ParThread(p) \/ Kill(p)
OneStep(p) == MinPrompt(p) \/ MorePrompt(p) \/ OneCommand(p) \/ Command(p)
DupStep(p) == DupPrompt(p) \/ DupShell(p) \/ Command(p)
LsStep(p) == Server(p) \/ ListClient(p) \/ Command(p)
ReverseStep(p) == ReverseProgram(p) \/ RcSend(p)
FsStep(p) == FsProgram(p) \/ FsCommand(p) \/ FsKill(p)

LEMMA NextIs ==
  ASSUME Next
  PROVE  \E p \in Pids :
           \/ CompressorStep(p) \/ Command(p) \/ OneStep(p) \/ DupStep(p) \/ LsStep(p)
           \/ ReverseStep(p) \/ FsStep(p)
  BY DEF Next, Step, User, CompressorStep, OneStep, DupStep, LsStep, ReverseStep, FsStep

LEMMA NextCompressor ==
  ASSUME Labelled(proc, CompressorLabels), Next
  PROVE  \E p \in Pids : CompressorStep(p)
<1>1. PICK p \in Pids :
           \/ CompressorStep(p) \/ Command(p) \/ OneStep(p) \/ DupStep(p) \/ LsStep(p)
           \/ ReverseStep(p) \/ FsStep(p)
  BY NextIs
<1>2. proc[p].pc \in CompressorLabels \cup Idle
  BY DEF Labelled
<1>3. proc[p].pc \notin CommandLabels \cup OneLabels \cup DupLabels \cup LsLabels
                       \cup ReverseLabels \cup FsLabels
  BY <1>2, LabelsApart
<1>4. proc[p].pc # "ls.perror"
  BY <1>3 DEF LsLabels
<1>5. CompressorStep(p)
  BY <1>1, <1>3, <1>4, StepsOf DEF OneStep, DupStep, LsStep, ReverseStep, FsStep, LabelOf
<1> QED
  BY <1>5


LEMMA NextOne ==
  ASSUME Labelled(proc, OneLabels \cup CommandLabels), Next
  PROVE  \E p \in Pids : OneStep(p)
<1>1. PICK p \in Pids :
           \/ CompressorStep(p) \/ Command(p) \/ OneStep(p) \/ DupStep(p) \/ LsStep(p)
           \/ ReverseStep(p) \/ FsStep(p)
  BY NextIs
<1>2. proc[p].pc \in OneLabels \cup CommandLabels \cup Idle
  BY DEF Labelled
<1>3. proc[p].pc \notin CompressorLabels \cup DupLabels \cup LsLabels
                       \cup ReverseLabels \cup FsLabels
  BY <1>2, LabelsApart
<1>4. OneStep(p)
  BY <1>1, <1>3, StepsOf DEF CompressorStep, OneStep, DupStep, LsStep, ReverseStep, FsStep, LabelOf
<1> QED
  BY <1>4

LEMMA NextDup ==
  ASSUME Labelled(proc, DupLabels \cup CommandLabels), Next
  PROVE  \E p \in Pids : DupStep(p)
<1>1. PICK p \in Pids :
           \/ CompressorStep(p) \/ Command(p) \/ OneStep(p) \/ DupStep(p) \/ LsStep(p)
           \/ ReverseStep(p) \/ FsStep(p)
  BY NextIs
<1>2. proc[p].pc \in DupLabels \cup CommandLabels \cup Idle
  BY DEF Labelled
<1>3. proc[p].pc \notin CompressorLabels \cup OneLabels \cup LsLabels
                       \cup ReverseLabels \cup FsLabels
  BY <1>2, LabelsApart
<1>4. DupStep(p)
  BY <1>1, <1>3, StepsOf DEF CompressorStep, OneStep, DupStep, LsStep, ReverseStep, FsStep, LabelOf
<1> QED
  BY <1>4

LEMMA NextLs ==
  ASSUME Labelled(proc, LsLabels \cup CommandLabels), Next
  PROVE  \E p \in Pids : LsStep(p)
<1>1. PICK p \in Pids :
           \/ CompressorStep(p) \/ Command(p) \/ OneStep(p) \/ DupStep(p) \/ LsStep(p)
           \/ ReverseStep(p) \/ FsStep(p)
  BY NextIs
<1>2. proc[p].pc \in LsLabels \cup CommandLabels \cup Idle
  BY DEF Labelled
<1>3. proc[p].pc \notin CompressorLabels \cup OneLabels \cup DupLabels
                       \cup ReverseLabels \cup FsLabels
  BY <1>2, LabelsApart
<1>4. LsStep(p)
  BY <1>1, <1>3, StepsOf DEF CompressorStep, OneStep, DupStep, LsStep, ReverseStep, FsStep, LabelOf
<1> QED
  BY <1>4

LEMMA NextReverse ==
  ASSUME Labelled(proc, ReverseLabels), Next
  PROVE  \E p \in Pids : ReverseStep(p)
<1>1. PICK p \in Pids :
           \/ CompressorStep(p) \/ Command(p) \/ OneStep(p) \/ DupStep(p) \/ LsStep(p)
           \/ ReverseStep(p) \/ FsStep(p)
  BY NextIs
<1>2. proc[p].pc \in ReverseLabels \cup Idle
  BY DEF Labelled
<1>3. proc[p].pc \notin CompressorLabels \cup CommandLabels \cup OneLabels \cup DupLabels
                       \cup LsLabels \cup FsLabels
  BY <1>2, LabelsApart
<1>4. proc[p].pc # "ls.perror"
  BY <1>3 DEF LsLabels
<1>5. ReverseStep(p)
  BY <1>1, <1>3, <1>4, StepsOf DEF CompressorStep, OneStep, DupStep, LsStep, ReverseStep, FsStep, LabelOf
<1> QED
  BY <1>5


LEMMA NextFs ==
  ASSUME Labelled(proc, FsLabels), Next
  PROVE  \E p \in Pids : FsStep(p)
<1>1. PICK p \in Pids :
           \/ CompressorStep(p) \/ Command(p) \/ OneStep(p) \/ DupStep(p) \/ LsStep(p)
           \/ ReverseStep(p) \/ FsStep(p)
  BY NextIs
<1>2. proc[p].pc \in FsLabels \cup Idle
  BY DEF Labelled
<1>3. proc[p].pc \notin CompressorLabels \cup CommandLabels \cup OneLabels \cup DupLabels
                       \cup LsLabels \cup ReverseLabels
  BY <1>2, LabelsApart
<1>4. proc[p].pc # "ls.perror"
  BY <1>3 DEF LsLabels
<1>5. FsStep(p)
  BY <1>1, <1>3, <1>4, StepsOf DEF CompressorStep, OneStep, DupStep, LsStep, ReverseStep, FsStep, LabelOf
<1> QED
  BY <1>5


\* No step changes the program.
LEMMA ProgramStays ==
  ASSUME [Next]_vars
  PROVE  program' = program
<1>1. ASSUME NEW p \in Pids, CompressorStep(p)
      PROVE  program' = program
  BY <1>1 DEF CompressorStep, MyCompress, MyOpen, compress_stream, Kill,
    ForkCompress, FcFork, FcExec, FcWait,
    PipeCompress, PcPipe, PcFork, PccOpen, compress_and_write, PcOpen, PcWrite, PcWait,
    ParFork, PfOpen, PfPipe, PfFork, comp_buf, PfcWrite, PfOpenDest, PfRead, PfWait,
    ParThread, PtCreate, compress_chunk_thread, PtOpenDest, PtJoin
<1>2. ASSUME NEW p \in Pids, OneStep(p) \/ DupStep(p) \/ LsStep(p) \/ Command(p)
      PROVE  program' = program
  BY <1>2 DEF OneStep, DupStep, LsStep, Command, EndAtOnce, Output, Count, TakeOne,
    OneCommand, ShFork, ShExec, ShWait, MinPrompt, MorePrompt, ReadLine,
    DupShell, DupFork1, DupFork2, DupClose, DupWait1, DupWait2, DupExec1, DupExec2, DupPrompt,
    Server, ListClient, Accept, read_line, LsFork, LsExec, LsWait, LcSend, LcRecv
<1>3. ASSUME NEW p \in Pids, ReverseStep(p) \/ FsStep(p)
      PROVE  program' = program
  BY <1>3 DEF ReverseStep, ReverseProgram, RsAccept, RsCreate, handle_client, RcSend, RcRecv,
    FsStep, FsProgram, FsRecv, FsSend, FsGeneric, FsHeader, FsLine, FsData, FsReadEnds, Byte1,
    FsCommand, FsKill
<1> QED
  BY <1>1, <1>2, <1>3, NextIs DEF vars, os

-----------------------------------------------------------------------------
\* The calls keep the labels.
LEMMA BecomesKeeps ==
  ASSUME NEW L, NEW t, Labelled(t, L), NEW p \in Pids, NEW u, NEW pc \in L \cup Idle,
         NEW parent, NEW fd, NEW mem, Becomes(t, u, p, pc, parent, fd, mem)
  PROVE  Labelled(u, L)
  BY DEF Labelled, Becomes

LEMMA GotoKeeps ==
  ASSUME NEW L, NEW t, Labelled(t, L), NEW p \in Pids, NEW pc \in L
  PROVE  Labelled(Goto(t, p, pc), L)
  BY GotoIs DEF Labelled, Becomes

LEMMA SetKeeps ==
  ASSUME NEW L, NEW t, Labelled(t, L), NEW p \in Pids, NEW mem
  PROVE  Labelled(Set(t, p, mem), L)
  BY SetIs DEF Labelled, Becomes

LEMMA CloseKeeps ==
  ASSUME NEW L, NEW t, Labelled(t, L), NEW p \in Pids, NEW names
  PROVE  Labelled(Close(t, p, names), L)
<1>1. Table(t) /\ t[p].pc \in L \cup Idle
  BY DEF Labelled
<1> QED
  BY <1>1, CloseIs, BecomesKeeps

LEMMA OpenPipeKeeps ==
  ASSUME NEW L, NEW t, Labelled(t, L), NEW p \in Pids, NEW k, NEW r, NEW w
  PROVE  Labelled(OpenPipe(t, p, k, r, w), L)
<1>1. Table(t) /\ t[p].pc \in L \cup Idle
  BY DEF Labelled
<1> QED
  BY <1>1, OpenPipeIs, BecomesKeeps

LEMMA ForkKeeps ==
  ASSUME NEW L, NEW t, Labelled(t, L), NEW p \in Pids, NEW c \in Pids, NEW pc \in L
  PROVE  Labelled(Fork(t, p, c, pc), L)
  BY ForkIs DEF Labelled, Becomes

LEMMA ReapKeeps ==
  ASSUME NEW L, NEW t, Labelled(t, L), NEW c \in Pids
  PROVE  Labelled(Reap(t, c), L)
  BY ReapIs DEF Labelled, Becomes, Idle

LEMMA ExitKeeps ==
  ASSUME NEW L, NEW t, Labelled(t, L), NEW p \in Pids, NEW status
  PROVE  Labelled(Exit(t, p, status), L)
<1>1. PICK u : u = Exit(t, p, status)
  OBVIOUS
<1>2. Ends(t, u, p)
  BY <1>1, ExitIs DEF Labelled
<1>3. ASSUME NEW q \in Pids
      PROVE  u[q].pc \in L \cup Idle
  BY <1>2, FreeIs DEF Labelled, Ends, Idle
<1> QED
  BY <1>1, <1>2, <1>3 DEF Labelled, Ends

\* A change of a process's memory, or of its memory and descriptors, keeps them, too.
LEMMA ChangeKeeps ==
  ASSUME NEW L, NEW t, Labelled(t, L), NEW p \in Pids, NEW u, NEW mem, NEW fd,
         u = [t EXCEPT ![p].mem = mem, ![p].fd = fd] \/ u = [t EXCEPT ![p].mem = mem]
  PROVE  Labelled(u, L)
<1>1. PICK x : x = t[p]
  OBVIOUS
<1>2. Record(x) /\ x.pc \in L \cup Idle
  BY <1>1 DEF Labelled, Table
<1>3. PICK y : y = [x EXCEPT !.mem = mem]
  OBVIOUS
<1>4. Record(y) /\ y.pc = x.pc
  BY <1>2, <1>3 DEF Record
<1>5. PICK z : z = [y EXCEPT !.fd = fd]
  OBVIOUS
<1>6. Record(z) /\ z.pc = x.pc
  BY <1>4, <1>5 DEF Record
<1>7. CASE u = [t EXCEPT ![p].mem = mem]
  <2>1. u = [t EXCEPT ![p] = y]
    BY <1>1, <1>3, <1>7
  <2> QED
    BY <1>2, <1>4, <2>1 DEF Labelled, Table
<1>8. CASE u = [t EXCEPT ![p].mem = mem, ![p].fd = fd]
  <2>1. u = [t EXCEPT ![p] = z]
    BY <1>1, <1>3, <1>5, <1>8 DEF Labelled, Table
  <2> QED
    BY <1>2, <1>6, <2>1 DEF Labelled, Table
<1> QED
  BY <1>7, <1>8

LEMMA ThreadsEndKeeps ==
  ASSUME NEW L, Labelled(proc, L), NEW code
  PROVE  Labelled(ThreadsEnd(code), L)
<1>1. PICK u : u = Exited(proc, Root, code)
  OBVIOUS
<1>2. Root \in Pids
  BY UnixAssumption DEF Root, Pids
<1>3. Labelled(u, L)
  BY <1>1, <1>2, ExitKeeps DEF Exited
<1>4. PICK v : v = ThreadsEnd(code)
  OBVIOUS
<1>5. v = [q \in Pids |-> IF q = Root THEN u[q] ELSE Free]
  BY <1>1, <1>4 DEF ThreadsEnd
<1>6. DOMAIN v = Pids /\ v = [q \in Pids |-> v[q]]
  BY <1>5
<1>7. ASSUME NEW q \in Pids
      PROVE  Record(v[q]) /\ v[q].pc \in L \cup Idle
  <2>1. CASE q = Root
    <3>1. v[q] = u[q]
      BY <1>5, <2>1
    <3> QED
      BY <1>3, <3>1 DEF Labelled, Table
  <2>2. CASE q # Root
    <3>1. v[q] = Free
      BY <1>5, <2>2
    <3> QED
      BY <3>1, FreeIs DEF Idle
  <2> QED
    BY <2>1, <2>2
<1> QED
  BY <1>4, <1>6, <1>7 DEF Labelled, Table

\* A compressor's steps keep its labels.
LEMMA CompressorKeeps ==
  ASSUME Labelled(proc, CompressorLabels), NEW p \in Pids, CompressorStep(p)
  PROVE  Labelled(proc, CompressorLabels)'
<1> DEFINE L == CompressorLabels
           Ok(t) == Labelled(t, L)
<1>0. Ok(proc)
  OBVIOUS
<1>1. \A t, pc : Ok(t) /\ pc \in L => Ok(Goto(t, p, pc))
  BY GotoKeeps
<1>2. \A t, mem : Ok(t) => Ok(Set(t, p, mem))
  BY SetKeeps
<1>3. \A t, names : Ok(t) => Ok(Close(t, p, names))
  BY CloseKeeps
<1>4. \A t, k, r, w : Ok(t) => Ok(OpenPipe(t, p, k, r, w))
  BY OpenPipeKeeps
<1>5. \A t, pc : CanFork /\ Ok(t) /\ pc \in L => Ok(Fork(t, p, NewPid, pc))
  BY ForkKeeps, NewPidIs
<1>6. \A t : \A c \in Pids : Ok(t) => Ok(Reap(t, c))
  BY ReapKeeps
<1>7. \A t, code : Ok(t) => Ok(Exited(t, p, code))
  BY ExitKeeps DEF Exited
<1>8. \A t, code : Ok(t) => Ok(Killed(t, p, code))
  BY ExitKeeps DEF Killed
<1>9. \A code : Ok(ThreadsEnd(code))
  BY ThreadsEndKeeps
<1>10. \A t, mem, fd : Ok(t) => Ok([t EXCEPT ![p].mem = mem, ![p].fd = fd])
                                /\ Ok([t EXCEPT ![p].mem = mem])
  BY ChangeKeeps
<1>11. /\ {"my.open", "my.read", "fc.exec", "fc.wait", "pc.fork", "pc.open"} \subseteq L
       /\ {"pc.write", "pc.wait", "pcc.open", "pcc.read", "pf.spawn", "pf.read"} \subseteq L
       /\ {"pf.fork", "pf.wait", "pfc.run", "pfc.write", "pt.join", "ptt.run", "ptt.end"} \subseteq L
  BY DEF CompressorLabels
<1> SUFFICES Ok(proc')
  OBVIOUS
<1> HIDE DEF L, Ok
<1>a. CASE MyOpen(p)
  BY <1>a, <1>0, <1>1, <1>2, <1>7, <1>11 DEF MyOpen
<1>b. CASE compress_stream(p)
  BY <1>b, <1>0, <1>2, <1>7 DEF compress_stream
<1>c. CASE Kill(p)
  BY <1>c, <1>0, <1>8 DEF Kill
<1>d. CASE FcFork(p)
  BY <1>d, <1>0, <1>1, <1>2, <1>5, <1>7, <1>11 DEF FcFork
<1>e. CASE FcExec(p)
  BY <1>e, <1>0, <1>1, <1>7, <1>11 DEF FcExec
<1>f. CASE FcWait(p)
  BY <1>f, <1>0, <1>6, <1>7 DEF FcWait, ZombieOf
<1>g. CASE PcPipe(p)
  BY <1>g, <1>0, <1>1, <1>4, <1>7, <1>11 DEF PcPipe
<1>h. CASE PcFork(p)
  BY <1>h, <1>0, <1>1, <1>5, <1>7, <1>11 DEF PcFork
<1>i. CASE PccOpen(p)
  BY <1>i, <1>0, <1>1, <1>2, <1>3, <1>7, <1>11 DEF PccOpen
<1>j. CASE compress_and_write(p)
  BY <1>j, <1>0, <1>2, <1>7 DEF compress_and_write
<1>k. CASE PcOpen(p)
  BY <1>k, <1>0, <1>1, <1>2, <1>3, <1>7, <1>11 DEF PcOpen
<1>l. CASE PcWrite(p)
  BY <1>l, <1>0, <1>1, <1>2, <1>3, <1>8, <1>11 DEF PcWrite
<1>m. CASE PcWait(p)
  BY <1>m, <1>0, <1>6, <1>7 DEF PcWait
<1>n. CASE PfOpen(p)
  BY <1>n, <1>0, <1>1, <1>7, <1>11 DEF PfOpen
<1>o. CASE PfPipe(p)
  BY <1>o, <1>0, <1>1, <1>4, <1>11 DEF PfPipe
<1>y. CASE PfFork(p)
  <2> DEFINE i == Len(proc[p].mem.pids)
             Went(t) == Goto(Close(t, p, {W(i)}), p, "pf.spawn")
             After(t, pid) == [Went(t) EXCEPT ![p].mem.pids = Append(@, pid)]
  <2>1. ASSUME NEW t, Ok(t), NEW pid
        PROVE  Ok(After(t, pid))
    <3>1. PICK u : u = Went(t)
      OBVIOUS
    <3>2. Ok(u)
      BY <1>1, <1>3, <1>11, <2>1, <3>1
    <3>3. PICK mem : mem = [u[p].mem EXCEPT !.pids = Append(u[p].mem.pids, pid)]
      OBVIOUS
    <3>4. After(t, pid) = [u EXCEPT ![p].mem = mem]
      BY <3>1, <3>3
    <3> QED
      BY <1>10, <3>2, <3>4
  <2>2. \/ CanFork /\ proc' = After(Fork(proc, p, NewPid, "pfc.run"), NewPid)
        \/ proc' = After(proc, -1)
    BY <1>y DEF PfFork
  <2> HIDE DEF After
  <2> QED
    BY <1>0, <1>5, <1>11, <2>1, <2>2
<1>p. CASE comp_buf(p)
  BY <1>p, <1>0, <1>1, <1>2, <1>3, <1>8, <1>11 DEF comp_buf, NoStream
<1>q. CASE PfcWrite(p)
  <2>1. \/ \E code : proc' = Exited(proc, p, code)
        \/ \E sig : proc' = Killed(proc, p, sig)
        \/ \E mem : proc' = Set(proc, p, mem)
    BY <1>q DEF PfcWrite
  <2> QED
    BY <1>0, <1>2, <1>7, <1>8, <2>1
<1>r. CASE PfOpenDest(p)
  BY <1>r, <1>0, <1>1, <1>2, <1>8, <1>11 DEF PfOpenDest
<1>s. CASE PfRead(p)
  BY <1>s, <1>0, <1>1, <1>2, <1>3, <1>8, <1>11 DEF PfRead, NoStream
<1>t. CASE PfWait(p)
  BY <1>t, <1>0, <1>1, <1>2, <1>6, <1>7, <1>11 DEF PfWait, ZombieOf
<1>u. CASE PtCreate(p)
  <2>1. CASE \E code : proc' = ThreadsEnd(code)
    BY <1>9, <2>1
  <2>2. CASE CanFork /\ proc' = [Fork(proc, p, NewPid, "ptt.run") EXCEPT
                                  ![p].mem.pids = Append(@, NewPid)]
    <3>1. PICK t : t = Fork(proc, p, NewPid, "ptt.run")
      OBVIOUS
    <3>2. Ok(t)
      BY <1>0, <1>5, <1>11, <2>2, <3>1
    <3>3. PICK mem : mem = [t[p].mem EXCEPT !.pids = Append(t[p].mem.pids, NewPid)]
      OBVIOUS
    <3>4. proc' = [t EXCEPT ![p].mem = mem]
      BY <2>2, <3>1, <3>3
    <3> QED
      BY <1>10, <3>2, <3>4
  <2> QED
    BY <1>u, <2>1, <2>2 DEF PtCreate
<1>v. CASE compress_chunk_thread(p)
  BY <1>v, <1>0, <1>1, <1>2, <1>11 DEF compress_chunk_thread
<1>w. CASE PtOpenDest(p)
  BY <1>w, <1>0, <1>1, <1>9, <1>11 DEF PtOpenDest
<1>x. CASE PtJoin(p)
  <2>1. CASE \E code : proc' = ThreadsEnd(code)
    BY <1>9, <2>1
  <2>2. CASE AtLabel(Head(proc[p].mem.pids), "ptt.end")
             /\ proc' = [Reap(proc, Head(proc[p].mem.pids)) EXCEPT
                  ![p].mem.pids = Tail(@),
                  ![p].mem.out = @ \o proc[Head(proc[p].mem.pids)].mem.out]
    <3>1. PICK c : c = Head(proc[p].mem.pids)
      OBVIOUS
    <3>2. PICK t : t = Reap(proc, c)
      OBVIOUS
    <3>3. Ok(t)
      <4>1. CASE c \in Pids
        BY <1>0, <1>6, <3>2, <4>1
      <4>2. CASE c \notin Pids
        <5>1. DOMAIN proc = Pids /\ proc = [q \in Pids |-> proc[q]]
          BY DEF Labelled, Table
        <5>2. [proc EXCEPT ![c] = Free] = proc
          BY <4>2, <5>1
        <5> QED
          BY <1>0, <3>2, <5>2 DEF Reap
      <4> QED
        BY <4>1, <4>2
    <3>4. PICK out : out = proc[c].mem.out
      OBVIOUS
    <3>5. PICK t1 : t1 = [t EXCEPT ![p].mem = [t[p].mem EXCEPT !.pids = Tail(t[p].mem.pids)]]
      OBVIOUS
    <3>6. PICK t2 : t2 = [t1 EXCEPT ![p].mem = [t1[p].mem EXCEPT !.out = t1[p].mem.out \o out]]
      OBVIOUS
    <3>7. Ok(t2)
      <4>1. Ok(t1)
        BY <1>10, <3>3, <3>5
      <4> QED
        BY <1>10, <3>6, <4>1
    <3>8. proc' = [t EXCEPT ![p].mem.pids = Tail(@), ![p].mem.out = @ \o out]
      BY <2>2, <3>1, <3>2, <3>4
    <3>9. proc' = [[t EXCEPT ![p].mem.pids = Tail(@)] EXCEPT ![p].mem.out = @ \o out]
      BY <3>8
    <3>10. proc' = t2
      BY <3>5, <3>6, <3>9
    <3> QED
      BY <3>7, <3>10
  <2> QED
    BY <1>x, <2>1, <2>2 DEF PtJoin
<1> QED
  BY <1>a, <1>b, <1>c, <1>d, <1>e, <1>f, <1>g, <1>h, <1>i, <1>j, <1>k, <1>l, <1>m, <1>n,
     <1>o, <1>y, <1>p, <1>q, <1>r, <1>s, <1>t, <1>u, <1>v, <1>w, <1>x
     DEF CompressorStep, MyCompress, ForkCompress, PipeCompress, ParFork, ParThread

\* What texts are made of: strings, among them these, which the provers have to be told.
Char == STRING \cup {"0", "1", "2", Space, "\n", "Not", "Found", "R", "L"}


\* The head and the tail of two texts after one another, the first not empty.
LEMMA HeadOfConcat ==
  ASSUME NEW s \in Seq(Char), NEW t \in Seq(Char), s # <<>>
  PROVE  s \o t # <<>> /\ Head(s \o t) = s[1] /\ Tail(s \o t) = Tail(s) \o t
<1>1. PICK m, n, y : m = Len(s) /\ n = Len(t) /\ y = s \o t
  OBVIOUS
<1>2. m \in Nat \ {0} /\ n \in Nat
  BY <1>1, EmptySeq, LenProperties
<1>3. PICK q \in Nat : m = q + 1
  <2>1. m - 1 \in Nat /\ m = (m - 1) + 1
    BY <1>2
  <2> QED
    BY <2>1
<1>4. /\ y \in Seq(Char) /\ Len(y) = m + n
      /\ \A i \in 1 .. m + n : y[i] = IF i <= m THEN s[i] ELSE t[i - m]
  BY <1>1, ConcatProperties
<1>5. y # <<>> /\ y[1] = s[1] /\ Len(y) = q + n + 1
  BY <1>2, <1>3, <1>4
<1>6. Head(y) = s[1]
  BY <1>4, <1>5
<1>7. PICK a, b : a = Tail(s) /\ b = Tail(y)
  OBVIOUS
<1>8. a \in Seq(Char) /\ Len(a) = q /\ \A i \in 1 .. q : a[i] = s[i + 1]
  <2>1. a \in Seq(Char) /\ Len(a) = Len(s) - 1 /\ \A i \in 1 .. Len(a) : a[i] = s[i + 1]
    BY <1>7, HeadTailProperties
  <2>2. Len(a) = m - 1
    BY <1>1, <2>1
  <2>3. Len(a) = q
    BY <1>2, <1>3, <2>2
  <2> QED
    BY <2>1, <2>3
<1>9. b \in Seq(Char) /\ Len(b) = q + n /\ \A i \in 1 .. q + n : b[i] = y[i + 1]
  <2>1. b \in Seq(Char) /\ Len(b) = Len(y) - 1 /\ \A i \in 1 .. Len(b) : b[i] = y[i + 1]
    BY <1>4, <1>5, <1>7, HeadTailProperties
  <2>2. Len(b) = q + n
    BY <1>2, <1>3, <1>5, <2>1
  <2> QED
    BY <2>1, <2>2
<1>10. PICK z : z = a \o t
  OBVIOUS
<1>11. /\ z \in Seq(Char) /\ Len(z) = q + n
       /\ \A i \in 1 .. q + n : z[i] = IF i <= q THEN a[i] ELSE t[i - q]
  <2>1. /\ z \in Seq(Char) /\ Len(z) = Len(a) + Len(t)
        /\ \A i \in 1 .. Len(a) + Len(t) : z[i] = IF i <= Len(a) THEN a[i] ELSE t[i - Len(a)]
    BY <1>8, <1>10, ConcatProperties
  <2> QED
    BY <1>1, <1>8, <2>1
<1>12. ASSUME NEW i \in 1 .. q + n
       PROVE  b[i] = z[i]
  <2>1. i + 1 \in 1 .. m + n /\ b[i] = y[i + 1]
    BY <1>2, <1>3, <1>9
  <2>2. CASE i <= q
    <3>1. i \in 1 .. q /\ i + 1 <= m
      BY <1>2, <1>3, <2>2
    <3>2. y[i + 1] = s[i + 1]
      BY <1>4, <2>1, <3>1
    <3>3. z[i] = a[i] /\ a[i] = s[i + 1]
      BY <1>8, <1>11, <2>2, <3>1
    <3> QED
      BY <2>1, <3>2, <3>3
  <2>3. CASE ~(i <= q)
    <3>1. ~(i + 1 <= m) /\ (i + 1) - m = i - q
      BY <1>2, <1>3, <2>3
    <3>2. y[i + 1] = t[(i + 1) - m]
      BY <1>4, <2>1, <3>1
    <3>3. z[i] = t[i - q]
      BY <1>11, <2>3
    <3> QED
      BY <2>1, <3>1, <3>2, <3>3
  <2> QED
    BY <2>2, <2>3
<1>13. b = z
  <2>1. Len(b) = Len(z) /\ \A i \in 1 .. Len(b) : b[i] = z[i]
    BY <1>9, <1>11, <1>12
  <2> QED
    BY <1>9, <1>11, <2>1, SeqEqual
<1> QED
  BY <1>1, <1>5, <1>6, <1>7, <1>10, <1>13

-----------------------------------------------------------------------------
\* fs_client.

\* What a list of up to three pieces, the last one not empty, makes when they are sent.
Unsent(todo) ==
  IF todo = <<>> THEN <<>>
  ELSE IF Len(todo) = 1 THEN todo[1]
  ELSE IF Len(todo) = 2 THEN todo[1] \o todo[2] ELSE todo[1] \o (todo[2] \o todo[3])

IsTodo(todo) ==
  /\ todo \in Seq(Seq(Char)) /\ Len(todo) <= 3
  /\ todo # <<>> => todo[Len(todo)] # <<>>

LEMMA LeftOver ==
  ASSUME NEW todo, IsTodo(todo)
  PROVE  /\ Unsent(todo) \in Seq(Char)
         /\ Unsent(todo) = <<>> => todo = <<>>
         /\ todo # <<>> => /\ IsTodo(Tail(todo)) /\ Head(todo) \in Seq(Char)
                           /\ Unsent(todo) = Head(todo) \o Unsent(Tail(todo))
<1>1. CASE todo = <<>>
  BY <1>1 DEF Unsent
<1>2. CASE todo # <<>> /\ Len(todo) = 1
  <2>1. PICK a \in Seq(Char) : todo = <<a>> /\ a # <<>>
    BY <1>2 DEF IsTodo
  <2>2. Unsent(todo) = a /\ Tail(todo) = <<>> /\ Head(todo) = a
    BY <1>2, <2>1 DEF Unsent
  <2>3. Unsent(<<>>) = <<>> /\ IsTodo(<<>>)
    BY DEF Unsent, IsTodo
  <2>4. a \o <<>> = a
    BY ConcatEmptySeq
  <2> QED
    BY <1>2, <2>1, <2>2, <2>3, <2>4
<1>3. CASE todo # <<>> /\ Len(todo) = 2
  <2>1. PICK a \in Seq(Char), b \in Seq(Char) : todo = <<a, b>> /\ b # <<>>
    <3>1. todo[1] \in Seq(Char) /\ todo[2] \in Seq(Char) /\ todo[2] # <<>>
      <4>1. todo \in Seq(Seq(Char)) /\ Len(todo) = 2 /\ (todo # <<>> => todo[Len(todo)] # <<>>)
        BY <1>3 DEF IsTodo
      <4>2. \A m \in 1 .. 2 : todo[m] \in Seq(Char)
        BY <4>1, ElementOfSeq
      <4> QED
        BY <1>3, <4>1, <4>2
    <3>2. todo = <<todo[1], todo[2]>>
      BY <1>3 DEF IsTodo
    <3> QED
      BY <3>1, <3>2
  <2>2. Unsent(todo) = a \o b /\ Tail(todo) = <<b>> /\ Head(todo) = a
    BY <1>3, <2>1 DEF Unsent
  <2>3. Unsent(<<b>>) = b /\ IsTodo(<<b>>)
    BY <2>1 DEF Unsent, IsTodo
  <2>4. a \o b \in Seq(Char) /\ a \o b # <<>>
    BY <2>1, ConcatProperties, ConcatEqualIffEmpty
  <2> QED
    BY <1>3, <2>1, <2>2, <2>3, <2>4
<1>4. CASE todo # <<>> /\ Len(todo) = 3
  <2>1. PICK a \in Seq(Char), b \in Seq(Char), c \in Seq(Char) : todo = <<a, b, c>> /\ c # <<>>
    <3>1. todo[1] \in Seq(Char) /\ todo[2] \in Seq(Char) /\ todo[3] \in Seq(Char) /\ todo[3] # <<>>
      <4>1. todo \in Seq(Seq(Char)) /\ Len(todo) = 3 /\ (todo # <<>> => todo[Len(todo)] # <<>>)
        BY <1>4 DEF IsTodo
      <4>2. \A m \in 1 .. 3 : todo[m] \in Seq(Char)
        BY <4>1, ElementOfSeq
      <4> QED
        BY <1>4, <4>1, <4>2
    <3>2. PICK u : u = <<todo[1], todo[2], todo[3]>>
      OBVIOUS
    <3>3. u \in Seq(Seq(Char)) /\ Len(u) = 3 /\ u[1] = todo[1] /\ u[2] = todo[2] /\ u[3] = todo[3]
      BY <3>1, <3>2
    <3>4. \A m \in 1 .. 3 : m = 1 \/ m = 2 \/ m = 3
      OBVIOUS
    <3>5. \A m \in 1 .. Len(todo) : todo[m] = u[m]
      BY <1>4, <3>3, <3>4
    <3>6. todo = u
      BY <1>4, <3>3, <3>5, SeqEqual DEF IsTodo
    <3> QED
      BY <3>1, <3>2, <3>6
  <2>2. Unsent(todo) = a \o (b \o c) /\ Tail(todo) = <<b, c>> /\ Head(todo) = a
    BY <1>4, <2>1 DEF Unsent
  <2>3. Unsent(<<b, c>>) = b \o c /\ IsTodo(<<b, c>>)
    BY <2>1 DEF Unsent, IsTodo
  <2>4. b \o c \in Seq(Char) /\ b \o c # <<>>
    BY <2>1, ConcatProperties, ConcatEqualIffEmpty
  <2>5. a \o (b \o c) \in Seq(Char) /\ a \o (b \o c) # <<>>
    BY <2>4, ConcatProperties, ConcatEqualIffEmpty
  <2> QED
    BY <1>4, <2>1, <2>2, <2>3, <2>5
<1>5. Len(todo) \in {0, 1, 2, 3}
  <2>1. PICK n \in Nat : n = Len(todo)
    BY LenProperties DEF IsTodo
  <2>2. n <= 3
    BY <2>1 DEF IsTodo
  <2>3. n \in {0, 1, 2, 3}
    BY <2>2
  <2> QED
    BY <2>1, <2>3
<1>6. Len(todo) = 0 => todo = <<>>
  BY EmptySeq DEF IsTodo
<1> QED
  BY <1>1, <1>2, <1>3, <1>4, <1>5, <1>6

\* The stream to the client: what the pipe holds and what is still to be sent.
Rest(down, todo) == down \o Unsent(todo)
From(r, i) == SubSeq(r, i + 1, Len(r))

\* Sending a piece leaves the stream as it is,
LEMMA SendingKeeps ==
  ASSUME NEW down \in Seq(Char), NEW todo, IsTodo(todo), todo # <<>>
  PROVE  Rest(down \o Head(todo), Tail(todo)) = Rest(down, todo)
<1>1. PICK a, b : a = Head(todo) /\ b = Unsent(Tail(todo))
  OBVIOUS
<1>2. a \in Seq(Char) /\ b \in Seq(Char) /\ Unsent(todo) = a \o b
  BY <1>1, LeftOver
<1>3. (down \o a) \o b = down \o (a \o b)
  BY <1>2, ConcatAssociative
<1> QED
  BY <1>1, <1>2, <1>3 DEF Rest

\* and the client takes the next byte of the reply.
LEMMA TakingByte ==
  ASSUME NEW down \in Seq(Char), down # <<>>, NEW todo, IsTodo(todo),
         NEW r \in Seq(Char), NEW i \in Nat, i < Len(r), Rest(down, todo) = From(r, i)
  PROVE  /\ Head(down) = r[i + 1]
         /\ SubSeq(down, 2, Len(down)) \in Seq(Char)
         /\ Rest(SubSeq(down, 2, Len(down)), todo) = From(r, i + 1)
<1>1. PICK n, s, t : n = Len(r) /\ s = SubSeq(down, 2, Len(down)) /\ t = Unsent(todo)
  OBVIOUS
<1>2. n \in Nat /\ i + 1 \in 1 .. n /\ n \in i + 1 .. n
  BY <1>1, LenProperties
<1>3. s = Tail(down) /\ s \in Seq(Char) /\ t \in Seq(Char)
  BY <1>1, TailIsSubSeq, HeadTailProperties, LeftOver
<1>4. Head(down \o t) = down[1] /\ Tail(down \o t) = s \o t
  BY <1>3, HeadOfConcat
<1>5. Head(SubSeq(r, i + 1, n)) = r[i + 1] /\ Tail(SubSeq(r, i + 1, n)) = SubSeq(r, (i + 1) + 1, n)
  BY <1>1, <1>2, HeadTailOfSubSeq
<1>6. down \o t = SubSeq(r, i + 1, n)
  BY <1>1 DEF Rest, From
<1>7. Head(down) = down[1]
  OBVIOUS
<1> QED
  BY <1>1, <1>3, <1>4, <1>5, <1>6, <1>7 DEF Rest, From

\* The reply has been taken when the stream is empty.
LEMMA AllTaken ==
  ASSUME NEW down \in Seq(Char), NEW todo, IsTodo(todo),
         NEW r \in Seq(Char), Rest(down, todo) = From(r, Len(r))
  PROVE  down = <<>> /\ todo = <<>>
<1>1. Len(r) \in Nat
  BY LenProperties
<1>2. From(r, Len(r)) = <<>>
  BY <1>1, SubSeqEmpty DEF From
<1>3. Unsent(todo) \in Seq(Char) /\ (Unsent(todo) = <<>> => todo = <<>>)
  BY LeftOver
<1>4. down \o Unsent(todo) = <<>>
  BY <1>2 DEF Rest
<1> QED
  BY <1>3, <1>4, ConcatEqualIffEmpty

\* The replies to R: a status, a length and the text, or an error.
OkReply(said) == <<"0", Space, Numeral(Len(said)), Space>> \o (said \o <<"\n">>)
ErrReply == <<"1", Space, "Not", Space, "Found", "\n">>
IsReply(r, said) ==
  \/ r = OkReply(said) /\ said \in Seq(Char) /\ Len(said) \in Numbers
  \/ r = ErrReply /\ said = <<>>

LEMMA CharHas == {"0", "1", "2", Space, "\n", "Not", "Found", "R", "L"} \subseteq Char
  BY DEF Char

\* Short texts.
LEMMA OneText ==
  ASSUME NEW a \in Char
  PROVE  <<a>> \in Seq(Char) /\ Len(<<a>>) = 1
  OBVIOUS

LEMMA FourText ==
  ASSUME NEW a \in Char, NEW b \in Char, NEW c \in Char, NEW d \in Char,
         NEW s, s = <<a, b, c, d>>
  PROVE  s \in Seq(Char) /\ Len(s) = 4 /\ s[1] = a /\ s[2] = b /\ s[3] = c /\ s[4] = d
  OBVIOUS

LEMMA SixText ==
  ASSUME NEW a \in Char, NEW b \in Char, NEW c \in Char, NEW d \in Char, NEW e \in Char,
         NEW f \in Char, NEW s, s = <<a, b, c, d, e, f>>
  PROVE  /\ s \in Seq(Char) /\ Len(s) = 6 /\ s[1] = a /\ s[2] = b /\ s[3] = c /\ s[4] = d
         /\ s[5] = e /\ s[6] = f
  OBVIOUS

LEMMA SpaceIs == Space \notin {"0", "1", "2", "\n", "Not", "Found", "R", "L"}
  BY Zenon DEF Space

LEMMA NumeralIs ==
  /\ \A n \in Numbers : Numeral(n) \in Char /\ Numeral(n) \notin {Space, "\n"}
  /\ \A m, n \in Numbers : Numeral(m) = Numeral(n) => m = n
  /\ Numeral(0) = "0" /\ 0 \in Numbers
<1>1. \A n \in Numbers : n = 0 \/ n = 1 \/ n = 2
  BY DEF Numbers
<1>2. Numeral(0) = "0" /\ Numeral(1) = "1" /\ Numeral(2) = "2"
  BY DEF Numeral
<1>3. 0 \in Numbers
  BY DEF Numbers
<1>4. ASSUME NEW n \in Numbers
      PROVE  Numeral(n) \in Char /\ Numeral(n) \notin {Space, "\n"}
  <2>1. Numeral(n) \in {"0", "1", "2"}
    BY <1>1, <1>2
  <2> QED
    BY <2>1, CharHas, SpaceIs
<1>5. ASSUME NEW m \in Numbers, NEW n \in Numbers, Numeral(m) = Numeral(n)
      PROVE  m = n
  BY <1>1, <1>2, <1>5
<1> QED
  BY <1>2, <1>3, <1>4, <1>5

LEMMA OkReplyIs ==
  ASSUME NEW said \in Seq(Char), Len(said) \in Numbers
  PROVE  LET r == OkReply(said)
             n == Len(said)
         IN /\ r \in Seq(Char) /\ Len(r) = n + 5
            /\ r[1] = "0" /\ r[2] = Space /\ r[3] = Numeral(n) /\ r[4] = Space
            /\ \A j \in 1 .. n : r[4 + j] = said[j]
            /\ r[n + 5] = "\n"
<1>1. PICK n \in Numbers : n = Len(said)
  OBVIOUS
<1>2. PICK h : h = <<"0", Space, Numeral(n), Space>>
  OBVIOUS
<1>3. /\ h \in Seq(Char) /\ Len(h) = 4
      /\ h[1] = "0" /\ h[2] = Space /\ h[3] = Numeral(n) /\ h[4] = Space
  <2>1. "0" \in Char /\ Space \in Char /\ Numeral(n) \in Char
    BY NumeralIs, CharHas
  <2> QED
    BY <1>2, <2>1, FourText
<1>4. PICK t : t = said \o <<"\n">>
  OBVIOUS
<1>5. <<"\n">> \in Seq(Char) /\ Len(<<"\n">>) = 1
  <2>1. "\n" \in Char
    BY CharHas
  <2> QED
    BY <2>1, OneText
<1>6. n \in Nat
  BY <1>1 DEF Numbers
<1>7. /\ t \in Seq(Char) /\ Len(t) = n + 1
      /\ \A i \in 1 .. n + 1 : t[i] = IF i <= n THEN said[i] ELSE <<"\n">>[i - n]
  BY <1>1, <1>4, <1>5, ConcatProperties
<1>8. \A i \in 1 .. n : i \in 1 .. n + 1 /\ i <= n
  BY <1>6
<1>9. n + 1 \in 1 .. n + 1 /\ ~(n + 1 <= n) /\ (n + 1) - n = 1
  BY <1>6
<1>10. (\A i \in 1 .. n : t[i] = said[i]) /\ t[n + 1] = "\n"
  BY <1>7, <1>8, <1>9
<1>11. PICK r : r = h \o t
  OBVIOUS
<1>12. /\ r \in Seq(Char) /\ Len(r) = 4 + (n + 1)
       /\ \A i \in 1 .. 4 + (n + 1) : r[i] = IF i <= 4 THEN h[i] ELSE t[i - 4]
  <2>1. /\ h \o t \in Seq(Char) /\ Len(h \o t) = Len(h) + Len(t)
        /\ \A i \in 1 .. Len(h) + Len(t) : (h \o t)[i] = IF i <= Len(h) THEN h[i] ELSE t[i - Len(h)]
    BY <1>3, <1>7, ConcatProperties
  <2> QED
    BY <1>3, <1>7, <1>11, <2>1
<1>13. \A i \in 1 .. 4 : i \in 1 .. 4 + (n + 1)
  BY <1>6
<1>14. r[1] = h[1] /\ r[2] = h[2] /\ r[3] = h[3] /\ r[4] = h[4]
  BY <1>12, <1>13
<1>15. ASSUME NEW j \in 1 .. n + 1
       PROVE  r[4 + j] = t[j]
  <2>1. 4 + j \in 1 .. 4 + (n + 1) /\ ~(4 + j <= 4) /\ (4 + j) - 4 = j
    BY <1>6
  <2> QED
    BY <1>12, <2>1
<1>16. n + 5 = 4 + (n + 1)
  BY <1>6
<1>17. r = OkReply(said)
  BY <1>1, <1>2, <1>4, <1>11 DEF OkReply
<1>18. r[n + 5] = "\n" /\ Len(r) = n + 5
  BY <1>9, <1>10, <1>12, <1>15, <1>16
<1>19. \A j \in 1 .. n : r[4 + j] = said[j]
  BY <1>8, <1>10, <1>15
<1> QED
  BY <1>1, <1>3, <1>12, <1>14, <1>17, <1>18, <1>19

LEMMA ErrReplyIs ==
  /\ ErrReply \in Seq(Char) /\ Len(ErrReply) = 6
  /\ ErrReply[1] = "1" /\ ErrReply[2] = Space /\ ErrReply[3] = "Not" /\ ErrReply[4] = Space
  /\ ErrReply[5] = "Found" /\ ErrReply[6] = "\n"
<1>1. "1" \in Char /\ Space \in Char /\ "Not" \in Char /\ "Found" \in Char /\ "\n" \in Char
  BY CharHas
<1>2. PICK r : r = <<"1", Space, "Not", Space, "Found", "\n">>
  OBVIOUS
<1>3. /\ r \in Seq(Char) /\ Len(r) = 6 /\ r[1] = "1" /\ r[2] = Space /\ r[3] = "Not"
      /\ r[4] = Space /\ r[5] = "Found" /\ r[6] = "\n"
  BY <1>1, <1>2, SixText
<1> QED
  BY <1>2, <1>3 DEF ErrReply

LEMMA ReplyIs ==
  ASSUME NEW r, NEW said, IsReply(r, said)
  PROVE  /\ r \in Seq(Char) /\ Len(r) \in Nat /\ Len(r) > 4 /\ said \in Seq(Char)
         /\ r[2] = Space /\ r[4] = Space /\ r[1] \notin {Space, "\n"} /\ r[3] \notin {Space, "\n"}
<1>1. CASE r = OkReply(said) /\ said \in Seq(Char) /\ Len(said) \in Numbers
  <2>1. PICK n \in Numbers : n = Len(said)
    BY <1>1
  <2>2. /\ r \in Seq(Char) /\ Len(r) = n + 5 /\ r[1] = "0" /\ r[2] = Space /\ r[3] = Numeral(n)
        /\ r[4] = Space
    BY <1>1, <2>1, OkReplyIs
  <2>3. n + 5 \in Nat /\ n + 5 > 4
    BY DEF Numbers
  <2> QED
    BY <1>1, <2>2, <2>3, NumeralIs, SpaceIs
<1>2. CASE r = ErrReply /\ said = <<>>
  <2>1. /\ r \in Seq(Char) /\ Len(r) = 6 /\ r[1] = "1" /\ r[2] = Space /\ r[3] = "Not" /\ r[4] = Space
    BY <1>2, ErrReplyIs
  <2>2. said \in Seq(Char)
    BY <1>2, EmptySeq
  <2> QED
    BY <2>1, <2>2, SpaceIs
<1> QED
  BY <1>1, <1>2 DEF IsReply

\* The header of a reply as it is read.
LEMMA HeaderGrows ==
  ASSUME NEW r \in Seq(Char), NEW i \in Nat, i < Len(r)
  PROVE  /\ Append(SubSeq(r, 1, i), r[i + 1]) = SubSeq(r, 1, i + 1)
         /\ SubSeq(r, 1, i) \in Seq(Char) /\ Len(SubSeq(r, 1, i)) = i
         /\ \A m \in 1 .. i : SubSeq(r, 1, i)[m] = r[m]
<1>1. PICK n \in Nat : n = Len(r)
  BY LenProperties
<1>2. i + 1 \in 1 .. n /\ i + 1 \in 1 .. Len(r) /\ 1 \in 1 .. Len(r) /\ i + 1 \in 1 .. i + 1
  BY <1>1
<1>3. SubSeq(r, 1, i + 1) = SubSeq(r, 1, (i + 1) - 1) \o <<r[i + 1]>>
  BY <1>2, SubSeqRecursiveSecond
<1>4. (i + 1) - 1 = i
  OBVIOUS
<1>5. \A m \in 1 .. i : r[m] \in Char
  BY <1>1
<1>6. PICK h : h = SubSeq(r, 1, i)
  OBVIOUS
<1>7. h \in Seq(Char) /\ Len(h) = i /\ \A m \in 1 .. i : h[m] = r[m]
  <2>1. /\ SubSeq(r, 1, i) \in Seq(Char)
        /\ Len(SubSeq(r, 1, i)) = IF 1 <= i THEN i - 1 + 1 ELSE 0
        /\ \A m \in 1 .. i - 1 + 1 : SubSeq(r, 1, i)[m] = r[1 + m - 1]
    BY <1>5, SubSeqProperties
  <2>2. (IF 1 <= i THEN i - 1 + 1 ELSE 0) = i /\ i - 1 + 1 = i
    OBVIOUS
  <2>3. \A m \in 1 .. i : 1 + m - 1 = m
    OBVIOUS
  <2> QED
    BY <1>6, <2>1, <2>2, <2>3
<1>8. r[i + 1] \in Char
  BY <1>2, ElementOfSeq
<1>9. Append(h, r[i + 1]) = h \o <<r[i + 1]>>
  BY <1>7, <1>8, AppendIsConcat
<1> QED
  BY <1>3, <1>4, <1>6, <1>7, <1>9

\* Its first four characters: none but the second and the fourth are blanks.
LEMMA FourScan ==
  ASSUME NEW h, NEW j \in 1 .. 4, h \in Seq(Char), Len(h) = j,
         NEW a, NEW c, a \notin {Space, "\n"}, c \notin {Space, "\n"},
         h[1] = a, j > 1 => h[2] = Space, j > 2 => h[3] = c, j > 3 => h[4] = Space
  PROVE  /\ TwoSpaces(h) <=> j = 4
         /\ j = 4 => \A n \in Numbers : Scans(h, 0, n) <=> a = "0" /\ c = Numeral(n)
<1>1. DOMAIN h = 1 .. j
  BY LenProperties
<1>2. ASSUME NEW m \in 1 .. j
      PROVE  /\ m \in {1, 2, 3, 4}
             /\ (m = 1 /\ h[m] = a) \/ (m = 2 /\ h[m] = Space) \/ (m = 3 /\ h[m] = c) \/ (m = 4 /\ h[m] = Space)
  <2>1. m = 1 \/ (m = 2 /\ j > 1) \/ (m = 3 /\ j > 2) \/ (m = 4 /\ j > 3)
    OBVIOUS
  <2> QED
    BY <2>1
<1>3. ASSUME NEW x \in 1 .. j, NEW y \in 1 .. j, x < y, h[x] = Space, h[y] = Space
      PROVE  j = 4
  <2>1. x \in {2, 4} /\ y \in {2, 4}
    BY <1>2, <1>3
  <2>2. y = 4
    BY <1>3, <2>1
  <2> QED
    BY <2>2
<1>4. ASSUME j = 4
      PROVE  TwoSpaces(h)
  <2>1. 2 \in DOMAIN h /\ 4 \in DOMAIN h /\ 2 < 4 /\ h[2] = Space /\ h[4] = Space
    BY <1>1, <1>4
  <2> QED
    BY <2>1 DEF TwoSpaces
<1>5. ASSUME j = 4, NEW n \in Numbers, Scans(h, 0, n)
      PROVE  a = "0" /\ c = Numeral(n)
  <2>1. PICK x \in 1 .. j, y \in 1 .. j :
          /\ x < y /\ h[x] = Numeral(0) /\ h[y] = Numeral(n)
          /\ \A m \in 1 .. y - 1 : m # x => h[m] \in {Space, "\n"}
    BY <1>1, <1>5 DEF Scans
  <2>2. h[x] # Space /\ h[y] # Space /\ h[x] = "0"
    BY <2>1, NumeralIs
  <2>3. x \in {1, 3} /\ y \in {1, 3}
    BY <1>2, <2>2
  <2>4. x = 1 /\ y = 3
    BY <2>1, <2>3
  <2> QED
    BY <1>5, <2>1, <2>2, <2>4
<1>6. ASSUME j = 4, NEW n \in Numbers, a = "0", c = Numeral(n)
      PROVE  Scans(h, 0, n)
  <2>1. 1 \in DOMAIN h /\ 3 \in DOMAIN h /\ 1 < 3 /\ h[1] = Numeral(0) /\ h[3] = Numeral(n)
    BY <1>1, <1>6, NumeralIs
  <2>2. \A m \in 1 .. 3 - 1 : m # 1 => m = 2
    OBVIOUS
  <2>3. \A m \in 1 .. 3 - 1 : m # 1 => h[m] \in {Space, "\n"}
    BY <1>6, <2>2
  <2> QED
    BY <2>1, <2>3 DEF Scans
<1>7. TwoSpaces(h) => j = 4
  BY <1>1, <1>3 DEF TwoSpaces
<1> QED
  BY <1>4, <1>5, <1>6, <1>7

LEMMA HeaderScans ==
  ASSUME NEW r, NEW said, IsReply(r, said), NEW j \in 1 .. 4
  PROVE  LET h == SubSeq(r, 1, j)
         IN /\ TwoSpaces(h) <=> j = 4
            /\ j = 4 /\ r = OkReply(said) /\ Len(said) \in Numbers =>
                 \A n \in Numbers : Scans(h, 0, n) <=> n = Len(said)
            /\ j = 4 /\ r = ErrReply => \A n \in Numbers : ~Scans(h, 0, n)
<1>1. /\ r \in Seq(Char) /\ Len(r) \in Nat /\ Len(r) > 4 /\ said \in Seq(Char)
      /\ r[2] = Space /\ r[4] = Space /\ r[1] \notin {Space, "\n"} /\ r[3] \notin {Space, "\n"}
  BY ReplyIs
<1>2. j \in Nat /\ j < Len(r)
  <2>1. PICK n \in Nat : n = Len(r) /\ n > 4
    BY <1>1
  <2>2. j < n
    BY <2>1
  <2> QED
    BY <2>1, <2>2
<1>3. PICK h : h = SubSeq(r, 1, j)
  OBVIOUS
<1>4. h \in Seq(Char) /\ Len(h) = j /\ \A m \in 1 .. j : h[m] = r[m]
  BY <1>1, <1>2, <1>3, HeaderGrows
<1>5. /\ h[1] = r[1] /\ (j > 1 => h[2] = Space) /\ (j > 2 => h[3] = r[3]) /\ (j > 3 => h[4] = Space)
  BY <1>1, <1>4
<1>6. /\ TwoSpaces(h) <=> j = 4
      /\ j = 4 => \A n \in Numbers : Scans(h, 0, n) <=> r[1] = "0" /\ r[3] = Numeral(n)
  <2>1. PICK a, c : a = r[1] /\ c = r[3]
    OBVIOUS
  <2>2. a \notin {Space, "\n"} /\ c \notin {Space, "\n"} /\ h[1] = a /\ (j > 2 => h[3] = c)
    BY <1>1, <1>5, <2>1
  <2>3. h \in Seq(Char) /\ Len(h) = j /\ (j > 1 => h[2] = Space) /\ (j > 3 => h[4] = Space)
    BY <1>4, <1>5
  <2>4. /\ TwoSpaces(h) <=> j = 4
        /\ j = 4 => \A n \in Numbers : Scans(h, 0, n) <=> a = "0" /\ c = Numeral(n)
    BY <2>2, <2>3, FourScan
  <2> QED
    BY <2>1, <2>4
<1>7. ASSUME j = 4, r = OkReply(said), Len(said) \in Numbers, NEW n \in Numbers
      PROVE  Scans(h, 0, n) <=> n = Len(said)
  <2>1. r[1] = "0" /\ r[3] = Numeral(Len(said))
    BY <1>1, <1>7, OkReplyIs
  <2> QED
    BY <1>6, <1>7, <2>1, NumeralIs
<1>8. ASSUME j = 4, r = ErrReply, NEW n \in Numbers
      PROVE  ~Scans(h, 0, n)
  <2>1. r[1] = "1"
    BY <1>8, ErrReplyIs
  <2> QED
    BY <1>6, <1>8, <2>1
<1> QED
  BY <1>3, <1>6, <1>7, <1>8

\* A process that has new memory and is at a new label.
LEMMA SetGotoIs ==
  ASSUME NEW t, Table(t), NEW p \in Pids, NEW mem, NEW pc
  PROVE  Becomes(t, Goto(Set(t, p, mem), p, pc), p, pc, t[p].parent, t[p].fd, mem)
<1>1. PICK v : v = Set(t, p, mem)
  OBVIOUS
<1>2. Becomes(t, v, p, t[p].pc, t[p].parent, t[p].fd, mem)
  BY <1>1, SetIs
<1>3. PICK w : w = Goto(v, p, pc)
  OBVIOUS
<1>4. Becomes(v, w, p, pc, v[p].parent, v[p].fd, v[p].mem)
  BY <1>2, <1>3, GotoIs DEF Becomes
<1>5. Becomes(t, w, p, pc, t[p].parent, t[p].fd, mem)
  BY <1>2, <1>4 DEF Becomes
<1> QED
  BY <1>1, <1>3, <1>5

-----------------------------------------------------------------------------
\* A client and a server at one point of their conversation: between two commands; a
\* command is on its way; its reply is read: a line, the header of a reply to R, the
\* text after it, or what is left of the line of an error.
Quiet(m, pc, u, up, down) ==
  /\ pc = "fsc.prompt" /\ up = <<>> /\ down = <<>> /\ m.todo = <<>>
  /\ u.k = m.k /\ u.shown = m.said
Asked(m, pc, u, up, down) ==
  /\ \E cmd \in FsCommands : /\ up = <<cmd>>
                             /\ pc = IF cmd = "R" THEN "fsc.header" ELSE "fsc.recv"
  /\ down = <<>> /\ m.todo = <<>>
  /\ u = [k |-> m.k + 1, shown |-> <<>>, header |-> <<>>, length |-> 0]
InLine(m, pc, u, up, down) ==
  /\ pc = "fsc.recv" /\ up = <<>> /\ u.k = m.k
  /\ m.said \in Seq(Char) /\ m.said # <<>>
  /\ (down = m.said /\ m.todo = <<>>) \/ (down = <<>> /\ m.todo = <<m.said>>)
InHeader(m, pc, u, up, down) ==
  /\ pc = "fsc.header" /\ up = <<>>
  /\ \E r, i : /\ IsReply(r, m.said) /\ i \in 0 .. 3
               /\ u = [k |-> m.k, shown |-> <<>>, header |-> SubSeq(r, 1, i), length |-> 0]
               /\ Rest(down, m.todo) = From(r, i)
InData(m, pc, u, up, down) ==
  /\ pc = "fsc.data" /\ up = <<>>
  /\ m.said \in Seq(Char) /\ Len(m.said) \in Numbers
  /\ \E j : /\ j \in 0 .. Len(m.said)
            /\ u = [k |-> m.k, shown |-> SubSeq(m.said, 1, j), header |-> u.header,
                    length |-> Len(m.said)]
            /\ Rest(down, m.todo) = From(OkReply(m.said), 4 + j)
InError(m, pc, u, up, down) ==
  /\ pc = "fsc.line" /\ up = <<>> /\ u.k = m.k /\ m.said = <<>>
  /\ \E i \in {4, 5} : Rest(down, m.todo) = From(ErrReply, i)

Phase(m, pc, u, up, down) ==
  \/ Quiet(m, pc, u, up, down) \/ Asked(m, pc, u, up, down) \/ InLine(m, pc, u, up, down)
  \/ InHeader(m, pc, u, up, down) \/ InData(m, pc, u, up, down) \/ InError(m, pc, u, up, down)

Saying(m) ==
  m = [todo |-> m.todo, said |-> m.said, k |-> m.k] /\ IsTodo(m.todo) /\ m.k \in Nat

Talk(t, q) ==
  /\ t[1].pc \in {"fss.recv", "fss.send"} /\ t[1].fd = Socket(1, 2) /\ t[1].parent = 0
  /\ t[2].fd = Socket(2, 1) /\ t[2].parent = 0
  /\ Saying(t[1].mem) /\ (t[1].pc = "fss.recv" => t[1].mem.todo = <<>>)
  /\ t[2].mem.k \in 0 .. MaxCommands
  /\ DOMAIN q = 1 .. Pipes /\ Pipes >= 2 /\ q[1] \in Seq(Char) /\ q[2] \in Seq(Char)
  /\ Phase(t[1].mem, t[2].pc, t[2].mem, q[1], q[2])

\* Unless the server is killed or the stream comes in pieces, the two are in
\* conversation until the client ends.
FsTalk(t, q) ==
  /\ \A p \in Pids : p \notin {1, 2} => t[p].pc = "free"
  /\ t[2].pc = "free" \/ Talk(t, q)
Well(f) == f \cap {"kill", "split"} = {}
FsInv(t, q, f) == Labelled(t, FsLabels) /\ (Well(f) => FsTalk(t, q))

-----------------------------------------------------------------------------
LEMMA FsPids == 1 \in Pids /\ 2 \in Pids /\ FsServer = 1 /\ FsUser = 2 /\ Root = 1
  BY ShellsAssumption, UnixAssumption DEF Pids, FsServer, FsUser, Root

LEMMA FsPipes ==
  ASSUME Table(proc), Talk(proc, pipe)
  PROVE  /\ PipeOf(1, R(0)) = 1 /\ PipeOf(1, W(0)) = 2
         /\ PipeOf(2, R(0)) = 2 /\ PipeOf(2, W(0)) = 1
         /\ HeldIn(proc, W(1)) /\ HeldIn(proc, W(2)) /\ HeldIn(proc, R(1)) /\ HeldIn(proc, R(2))
<1>1. proc[1].fd = Socket(1, 2) /\ proc[2].fd = Socket(2, 1)
  BY DEF Talk
<1>2. /\ Socket(1, 2)[R(0)] = R(1) /\ Socket(1, 2)[W(0)] = W(2)
      /\ Socket(2, 1)[R(0)] = R(2) /\ Socket(2, 1)[W(0)] = W(1)
  BY Opened
<1>3. R(1)[2] = 1 /\ R(2)[2] = 2 /\ W(1)[2] = 1 /\ W(2)[2] = 2
  BY Names
<1>4. W(1) \in EndsOf(proc[2].fd) /\ W(2) \in EndsOf(proc[1].fd)
      /\ R(1) \in EndsOf(proc[1].fd) /\ R(2) \in EndsOf(proc[2].fd)
  BY <1>1, EndsAre
<1>5. HeldIn(proc, W(1)) /\ HeldIn(proc, W(2)) /\ HeldIn(proc, R(1)) /\ HeldIn(proc, R(2))
  BY <1>4, HeldIs, FsPids
<1> QED
  BY <1>1, <1>2, <1>3, <1>5 DEF PipeOf

\* What a step of one side leaves of the other.
LEMMA ServerTalks ==
  ASSUME Table(proc), Talk(proc, pipe), NEW pc \in {"fss.recv", "fss.send"}, NEW m, NEW q,
         Becomes(proc, proc', 1, pc, proc[1].parent, proc[1].fd, m), q = pipe',
         Saying(m), pc = "fss.recv" => m.todo = <<>>,
         DOMAIN q = 1 .. Pipes, q[1] \in Seq(Char), q[2] \in Seq(Char),
         Phase(m, proc[2].pc, proc[2].mem, q[1], q[2])
  PROVE  Talk(proc', pipe')
<1>1. proc'[2] = proc[2]
  BY FsPids DEF Becomes
<1>2. proc'[1].pc = pc /\ proc'[1].parent = 0 /\ proc'[1].fd = Socket(1, 2) /\ proc'[1].mem = m
  BY DEF Becomes, Talk
<1> QED
  BY <1>1, <1>2 DEF Talk

LEMMA ClientTalks ==
  ASSUME Table(proc), Talk(proc, pipe), NEW pc, NEW u, NEW q,
         Becomes(proc, proc', 2, pc, proc[2].parent, proc[2].fd, u), q = pipe',
         u.k \in 0 .. MaxCommands,
         DOMAIN q = 1 .. Pipes, q[1] \in Seq(Char), q[2] \in Seq(Char),
         Phase(proc[1].mem, pc, u, q[1], q[2])
  PROVE  Talk(proc', pipe')
<1>1. proc'[1] = proc[1]
  BY FsPids DEF Becomes
<1>2. proc'[2].pc = pc /\ proc'[2].parent = 0 /\ proc'[2].fd = Socket(2, 1) /\ proc'[2].mem = u
  BY DEF Becomes, Talk
<1> QED
  BY <1>1, <1>2 DEF Talk

LEMMA MaxCommandsIs == MaxCommands \in Nat /\ \A k \in 1 .. MaxCommands : Texts[k] \in Char
<1>1. Texts \in Seq(STRING)
  BY TextsAssumption
<1>2. MaxCommands \in Nat /\ \A k \in 1 .. MaxCommands : Texts[k] \in STRING
  BY <1>1, LenProperties, ElementOfSeq DEF MaxCommands
<1> QED
  BY <1>2 DEF Char

\* The server takes the command, and has the whole reply to send.
LEMMA FsRecvTalks ==
  ASSUME Table(proc), Talk(proc, pipe), FsRecv(1)
  PROVE  Talk(proc', pipe')
<1>1. PICK up, down, m, u, pc : /\ up = pipe[1] /\ down = pipe[2] /\ m = proc[1].mem
                                /\ u = proc[2].mem /\ pc = proc[2].pc
  OBVIOUS
<1>2. PipeOf(1, R(0)) = 1 /\ HeldIn(proc, W(1))
  BY FsPipes
<1>3. ~AtEnd(1, R(0))
  BY <1>2 DEF AtEnd
<1>4. PICK k : k = m.k + 1
  OBVIOUS
<1>5. PICK todo, said :
        /\ up # <<>> /\ pipe' = Taken(1, 1)
        /\ proc' = Goto(Set(proc, 1, [todo |-> todo, said |-> said, k |-> k]), 1, "fss.send")
        /\ IF Head(up) = "R"
           THEN \/ \E n \in Numbers :
                     /\ said = [i \in 1 .. n |-> Texts[k]]
                     /\ todo = <<<<"0", Space, Numeral(n), Space>>, said, <<"\n">>>>
                \/ todo = <<ErrReply>> /\ said = <<>>
           ELSE said = <<Texts[k], "\n">> /\ todo = <<said>>
  BY <1>1, <1>2, <1>3, <1>4 DEF FsRecv, ErrReply
<1>6. Phase(m, pc, u, up, down)
  BY <1>1 DEF Talk
<1>7. Asked(m, pc, u, up, down)
  BY <1>5, <1>6 DEF Phase, Quiet, InLine, InHeader, InData, InError
<1>8. PICK cmd \in FsCommands : /\ up = <<cmd>>
                                /\ pc = IF cmd = "R" THEN "fsc.header" ELSE "fsc.recv"
  BY <1>7 DEF Asked
<1>9. /\ down = <<>> /\ m.todo = <<>>
      /\ u = [k |-> k, shown |-> <<>>, header |-> <<>>, length |-> 0]
  BY <1>4, <1>7 DEF Asked
<1>10. k \in 1 .. MaxCommands /\ k \in Nat
  <2>1. u.k = k /\ u.k \in 0 .. MaxCommands /\ m.k \in Nat
    BY <1>1, <1>9 DEF Talk, Saying
  <2> QED
    BY <1>4, <2>1, MaxCommandsIs
<1>11. Texts[k] \in Char
  BY <1>10, MaxCommandsIs
<1>12. PICK q : q = pipe'
  OBVIOUS
<1>13. DOMAIN q = 1 .. Pipes /\ q[1] = <<>> /\ q[2] = <<>>
  <2>1. DOMAIN pipe = 1 .. Pipes /\ 1 \in 1 .. Pipes /\ 2 \in 1 .. Pipes
    BY UnixAssumption DEF Talk
  <2>2. q = [pipe EXCEPT ![1] = SubSeq(up, 2, Len(up))]
    BY <1>1, <1>5, <1>12 DEF Taken
  <2>3. SubSeq(up, 2, Len(up)) = <<>>
    <3>1. Len(up) = 1
      BY <1>8
    <3> QED
      BY <3>1, SubSeqEmpty
  <2>4. q = [pipe EXCEPT ![1] = <<>>]
    BY <2>2, <2>3
  <2> QED
    BY <1>1, <1>9, <2>1, <2>4
<1>14. PICK n2 : n2 = [todo |-> todo, said |-> said, k |-> k]
  OBVIOUS
<1>15. n2.todo = todo /\ n2.said = said /\ n2.k = k
       /\ n2 = [todo |-> n2.todo, said |-> n2.said, k |-> n2.k]
  BY <1>14
<1>16. Becomes(proc, proc', 1, "fss.send", proc[1].parent, proc[1].fd, n2)
  BY <1>5, <1>14, FsPids, SetGotoIs
<1>17. SUFFICES IsTodo(todo) /\ Phase(n2, pc, u, <<>>, <<>>)
  <2>1. Saying(n2)
    BY <1>10, <1>15, <1>17 DEF Saying
  <2>2. <<>> \in Seq(Char)
    BY EmptySeq
  <2>3. Phase(n2, proc[2].pc, proc[2].mem, q[1], q[2])
    BY <1>1, <1>13, <1>17
  <2> QED
    BY <1>12, <1>13, <1>16, <2>1, <2>2, <2>3, ServerTalks
<1>18. Head(up) = cmd
  BY <1>8
<1>19. CASE cmd # "R"
  <2>1. said = <<Texts[k], "\n">> /\ todo = <<said>> /\ pc = "fsc.recv"
    BY <1>5, <1>8, <1>18, <1>19
  <2>2. "\n" \in Char
    BY CharHas
  <2>3. said \in Seq(Char) /\ said # <<>>
    BY <1>11, <2>1, <2>2
  <2>4. IsTodo(todo)
    BY <2>1, <2>3 DEF IsTodo
  <2>5. InLine(n2, pc, u, <<>>, <<>>)
    BY <1>9, <1>15, <2>1, <2>3 DEF InLine
  <2> QED
    BY <2>4, <2>5 DEF Phase
<1>20. ASSUME NEW r, IsReply(r, said), cmd = "R", IsTodo(todo), Unsent(todo) = r
       PROVE  IsTodo(todo) /\ Phase(n2, pc, u, <<>>, <<>>)
  <2>1. r \in Seq(Char) /\ Len(r) \in Nat /\ Len(r) > 4
    BY <1>20, ReplyIs
  <2>2. SubSeq(r, 1, 0) = <<>>
    BY SubSeqEmpty
  <2>3. SubSeq(r, 1, Len(r)) = r
    BY <2>1, SubSeqFull
  <2>4. <<>> \o r = r
    BY <2>1, ConcatEmptySeq
  <2>5. Rest(<<>>, todo) = From(r, 0)
    BY <1>20, <2>3, <2>4 DEF Rest, From
  <2>6. InHeader(n2, pc, u, <<>>, <<>>)
    <3>1. pc = "fsc.header"
      BY <1>8, <1>20
    <3>2. u = [k |-> n2.k, shown |-> <<>>, header |-> SubSeq(r, 1, 0), length |-> 0]
      BY <1>9, <1>15, <2>2
    <3>3. 0 \in 0 .. 3
      OBVIOUS
    <3> QED
      BY <1>15, <1>20, <2>5, <3>1, <3>2, <3>3 DEF InHeader
  <2> QED
    BY <1>20, <2>6 DEF Phase
<1>21. CASE cmd = "R" /\ todo = <<ErrReply>> /\ said = <<>>
  <2>1. ErrReply \in Seq(Char) /\ Len(ErrReply) = 6
    BY ErrReplyIs
  <2>2. PICK r : r = ErrReply
    OBVIOUS
  <2>3. r \in Seq(Char) /\ r # <<>> /\ todo = <<r>>
    BY <1>21, <2>1, <2>2
  <2>4. IsTodo(todo) /\ Unsent(todo) = r
    BY <2>3 DEF IsTodo, Unsent
  <2>5. IsReply(r, said)
    BY <1>21, <2>2 DEF IsReply
  <2> QED
    BY <1>20, <1>21, <2>4, <2>5
<1>22. ASSUME cmd = "R", NEW n \in Numbers, said = [i \in 1 .. n |-> Texts[k]],
              todo = <<<<"0", Space, Numeral(n), Space>>, said, <<"\n">>>>
       PROVE  IsTodo(todo) /\ Phase(n2, pc, u, <<>>, <<>>)
  <2>1. n \in Nat
    BY DEF Numbers
  <2>2. said \in Seq(Char) /\ Len(said) = n
    BY <1>11, <1>22, <2>1
  <2>3. PICK h, e : h = <<"0", Space, Numeral(n), Space>> /\ e = <<"\n">>
    OBVIOUS
  <2>4. h \in Seq(Char)
    <3>1. "0" \in Char /\ Space \in Char /\ Numeral(n) \in Char
      BY NumeralIs, CharHas
    <3> QED
      BY <2>3, <3>1, FourText
  <2>5. e \in Seq(Char) /\ e # <<>>
    <3>1. "\n" \in Char
      BY CharHas
    <3> QED
      BY <2>3, <3>1
  <2>6. todo = <<h, said, e>>
    BY <1>22, <2>3
  <2>7. IsTodo(todo)
    BY <2>2, <2>4, <2>5, <2>6 DEF IsTodo
  <2>8. Unsent(todo) = h \o (said \o e)
    BY <2>6 DEF Unsent
  <2>9. OkReply(said) = h \o (said \o e)
    BY <2>2, <2>3 DEF OkReply
  <2>10. IsReply(OkReply(said), said)
    BY <2>2 DEF IsReply
  <2> QED
    BY <1>20, <1>22, <2>7, <2>8, <2>9, <2>10
<1> QED
  BY <1>5, <1>18, <1>19, <1>21, <1>22

\* The server sends the next piece, or has sent them all.
LEMMA FsSendTalks ==
  ASSUME Table(proc), Talk(proc, pipe), FsSend(1)
  PROVE  Talk(proc', pipe')
<1>1. PICK up, down, m, u, pc : /\ up = pipe[1] /\ down = pipe[2] /\ m = proc[1].mem
                                /\ u = proc[2].mem /\ pc = proc[2].pc
  OBVIOUS
<1>2. PipeOf(1, W(0)) = 2
  BY FsPipes
<1>3. /\ Saying(m) /\ Phase(m, pc, u, up, down) /\ up \in Seq(Char) /\ down \in Seq(Char)
      /\ DOMAIN pipe = 1 .. Pipes /\ 1 \in 1 .. Pipes /\ 2 \in 1 .. Pipes
      /\ proc[1].pc \in {"fss.recv", "fss.send"}
  BY <1>1, UnixAssumption DEF Talk
<1>4. CASE m.todo = <<>> /\ proc' = Goto(proc, 1, "fss.recv") /\ pipe' = pipe
  <2>1. Becomes(proc, proc', 1, "fss.recv", proc[1].parent, proc[1].fd, m)
    BY <1>1, <1>4, FsPids, GotoIs
  <2> QED
    BY <1>1, <1>3, <1>4, <2>1, ServerTalks
<1>5. CASE /\ m.todo # <<>> /\ pipe' = Sent(2, Head(m.todo))
           /\ proc' = Set(proc, 1, [m EXCEPT !.todo = Tail(@)])
  <2>1. PICK a, rest : a = Head(m.todo) /\ rest = Tail(m.todo)
    OBVIOUS
  <2>2. IsTodo(m.todo) /\ m.k \in Nat
    BY <1>3 DEF Saying
  <2>3. IsTodo(rest) /\ a \in Seq(Char)
    BY <1>5, <2>1, <2>2, LeftOver
  <2>4. PICK n : n = [m EXCEPT !.todo = rest]
    OBVIOUS
  <2>5. n.todo = rest /\ n.said = m.said /\ n.k = m.k /\ Saying(n)
    <3>1. m = [todo |-> m.todo, said |-> m.said, k |-> m.k]
      BY <1>3 DEF Saying
    <3>2. n = [todo |-> rest, said |-> m.said, k |-> m.k]
      BY <2>4, <3>1
    <3> QED
      BY <2>2, <2>3, <3>2 DEF Saying
  <2>6. Becomes(proc, proc', 1, proc[1].pc, proc[1].parent, proc[1].fd, n)
    BY <1>5, <2>1, <2>4, FsPids, SetIs
  <2>7. PICK q, d : q = pipe' /\ d = down \o a
    OBVIOUS
  <2>8. DOMAIN q = 1 .. Pipes /\ q[1] = up /\ q[2] = d /\ d \in Seq(Char)
    <3>1. q = [pipe EXCEPT ![2] = d]
      BY <1>1, <1>5, <2>1, <2>7 DEF Sent
    <3>2. d \in Seq(Char)
      BY <1>3, <2>3, <2>7, ConcatProperties
    <3> QED
      BY <1>1, <1>3, <3>1, <3>2
  <2>9. Rest(d, rest) = Rest(down, m.todo)
    BY <1>3, <1>5, <2>1, <2>2, <2>7, SendingKeeps
  <2>10. proc[1].pc = "fss.send"
    BY <1>1, <1>5 DEF Talk
  <2>11. Phase(n, pc, u, up, d)
    <3>1. CASE Quiet(m, pc, u, up, down) \/ Asked(m, pc, u, up, down)
      BY <1>5, <3>1 DEF Quiet, Asked
    <3>2. CASE InLine(m, pc, u, up, down)
      <4>1. down = <<>> /\ m.todo = <<m.said>> /\ m.said \in Seq(Char)
        BY <1>5, <3>2 DEF InLine
      <4>2. a = m.said /\ rest = <<>>
        BY <2>1, <4>1
      <4>3. d = m.said
        BY <2>7, <4>1, <4>2, ConcatEmptySeq
      <4>4. InLine(n, pc, u, up, d)
        BY <2>5, <3>2, <4>2, <4>3 DEF InLine
      <4> QED
        BY <4>4 DEF Phase
    <3>3. CASE InHeader(m, pc, u, up, down)
      <4>1. InHeader(n, pc, u, up, d)
        BY <2>5, <2>9, <3>3 DEF InHeader
      <4> QED
        BY <4>1 DEF Phase
    <3>4. CASE InData(m, pc, u, up, down)
      <4>1. InData(n, pc, u, up, d)
        BY <2>5, <2>9, <3>4 DEF InData
      <4> QED
        BY <4>1 DEF Phase
    <3>5. CASE InError(m, pc, u, up, down)
      <4>1. InError(n, pc, u, up, d)
        BY <2>5, <2>9, <3>5 DEF InError
      <4> QED
        BY <4>1 DEF Phase
    <3> QED
      BY <1>3, <3>1, <3>2, <3>3, <3>4, <3>5 DEF Phase
  <2> QED
    BY <1>1, <1>3, <2>5, <2>6, <2>7, <2>8, <2>10, <2>11, ServerTalks
<1> QED
  BY <1>1, <1>2, <1>4, <1>5 DEF FsSend

\* The client ends.
LEMMA ClientEnds ==
  ASSUME Table(proc), Talk(proc, pipe), NEW status, proc' = Exit(proc, 2, status)
  PROVE  proc'[2].pc = "free"
<1>1. Ends(proc, proc', 2)
  BY FsPids, ExitIs
<1>2. proc[2].parent = 0 /\ 2 # Root
  BY DEF Talk, Root
<1> QED
  BY <1>1, <1>2 DEF Ends

LEMMA CommandText ==
  ASSUME NEW cmd \in FsCommands, NEW s, s = <<cmd>>
  PROVE  s \in Seq(Char) /\ <<>> \o s = s
<1>1. cmd \in Char
  BY CharHas DEF FsCommands
<1>2. s \in Seq(Char)
  BY <1>1
<1> QED
  BY <1>2, ConcatEmptySeq

\* It sends a command.
LEMMA FsCommandTalks ==
  ASSUME Table(proc), Talk(proc, pipe), FsCommand(2)
  PROVE  proc'[2].pc = "free" \/ Talk(proc', pipe')
<1>1. PICK up, down, m, u, pc : /\ up = pipe[1] /\ down = pipe[2] /\ m = proc[1].mem
                                /\ u = proc[2].mem /\ pc = proc[2].pc
  OBVIOUS
<1>2. CASE \E status : proc' = Exit(proc, 2, status)
  BY <1>2, ClientEnds
<1>3. ASSUME NEW cmd \in FsCommands, u.k < MaxCommands, pipe' = Sent(PipeOf(2, W(0)), <<cmd>>),
             proc' = Goto(Set(proc, 2, [k |-> u.k + 1, shown |-> <<>>,
                                           header |-> <<>>, length |-> 0]),
                             2, IF cmd = "R" THEN "fsc.header" ELSE "fsc.recv"),
             pc = "fsc.prompt"
      PROVE  Talk(proc', pipe')
  <2>1. PipeOf(2, W(0)) = 1
    BY FsPipes
  <2>2. Phase(m, pc, u, up, down)
    BY <1>1 DEF Talk
  <2>3. Quiet(m, pc, u, up, down)
    BY <1>3, <2>2 DEF Phase, Asked, InLine, InHeader, InData, InError, FsCommands
  <2>4. up = <<>> /\ down = <<>> /\ m.todo = <<>> /\ u.k = m.k
    BY <2>3 DEF Quiet
  <2>5. PICK v, c : /\ v = [k |-> u.k + 1, shown |-> <<>>, header |-> <<>>, length |-> 0]
                    /\ c = IF cmd = "R" THEN "fsc.header" ELSE "fsc.recv"
    OBVIOUS
  <2>6. Becomes(proc, proc', 2, c, proc[2].parent, proc[2].fd, v)
    BY <1>3, <2>5, FsPids, SetGotoIs
  <2>7. PICK q : q = pipe'
    OBVIOUS
  <2>8. DOMAIN q = 1 .. Pipes /\ q[1] = <<cmd>> /\ q[2] = <<>>
    <3>1. DOMAIN pipe = 1 .. Pipes /\ 1 \in 1 .. Pipes /\ 2 \in 1 .. Pipes
      BY UnixAssumption DEF Talk
    <3>2. PICK s : s = <<cmd>>
      OBVIOUS
    <3>3. <<>> \o s = s
      BY <3>2, CommandText
    <3>4. q = [pipe EXCEPT ![1] = s]
      <4>1. q = Sent(1, s)
        BY <1>3, <2>1, <2>7, <3>2
      <4>2. q = [pipe EXCEPT ![1] = up \o s]
        BY <1>1, <4>1 DEF Sent
      <4> QED
        BY <2>4, <3>3, <4>2
    <3>5. DOMAIN q = 1 .. Pipes /\ q[1] = s /\ q[2] = <<>>
      <4>1. DOMAIN q = 1 .. Pipes /\ q[1] = s /\ q[2] = pipe[2]
        BY <3>1, <3>4
      <4>2. pipe[2] = <<>>
        BY <1>1, <2>4
      <4> QED
        BY <4>1, <4>2
    <3> QED
      BY <3>2, <3>5
  <2>9. q[1] \in Seq(Char) /\ q[2] \in Seq(Char)
    <3>1. q[1] = <<cmd>> /\ <<>> \in Seq(Char)
      BY <2>8, EmptySeq
    <3> QED
      BY <2>8, <3>1, CommandText
  <2>10. v.k \in 0 .. MaxCommands
    <3>1. u.k \in 0 .. MaxCommands
      BY <1>1 DEF Talk
    <3>2. v.k = u.k + 1
      BY <2>5
    <3> QED
      BY <1>3, <3>1, <3>2, MaxCommandsIs
  <2>11. Asked(m, c, v, q[1], q[2])
    BY <2>4, <2>5, <2>8 DEF Asked
  <2> QED
    BY <1>1, <2>6, <2>7, <2>8, <2>9, <2>10, <2>11, ClientTalks DEF Phase
<1> QED
  BY <1>1, <1>2, <1>3 DEF FsCommand, Exited, Killed, AtLabel

\* It shows the line that came.
LEMMA FsGenericTalks ==
  ASSUME Table(proc), Talk(proc, pipe), FsGeneric(2), "split" \notin failed'
  PROVE  Talk(proc', pipe')
<1>1. PICK up, down, m, u, pc : /\ up = pipe[1] /\ down = pipe[2] /\ m = proc[1].mem
                                /\ u = proc[2].mem /\ pc = proc[2].pc
  OBVIOUS
<1>2. PipeOf(2, R(0)) = 2 /\ HeldIn(proc, W(2))
  BY FsPipes
<1>3. ~AtEnd(2, R(0))
  BY <1>2 DEF AtEnd
<1>4. PICK n \in 1 .. Len(down) : /\ Received(2, n) /\ pipe' = Taken(2, n)
                                  /\ proc' = Shown(proc, 2, SubSeq(down, 1, n))
  BY <1>1, <1>2, <1>3 DEF FsGeneric
<1>5. n = Len(down)
  BY <1>1, <1>4 DEF Received, Fails
<1>6. pc = "fsc.recv" /\ Phase(m, pc, u, up, down)
  BY <1>1 DEF FsGeneric, AtLabel, Talk
<1>7. down # <<>> /\ down \in Seq(Char)
  <2>1. down \in Seq(Char)
    BY <1>1 DEF Talk
  <2>2. CASE down = <<>>
    <3>1. Len(down) = 0
      BY <2>2
    <3> QED
      BY <1>4, <3>1
  <2> QED
    BY <2>1, <2>2
<1>8. InLine(m, pc, u, up, down)
  BY <1>6, <1>7 DEF Phase, Quiet, Asked, InHeader, InData, InError
<1>9. up = <<>> /\ u.k = m.k /\ down = m.said /\ m.todo = <<>>
  BY <1>7, <1>8 DEF InLine
<1>10. SubSeq(down, 1, n) = m.said
  BY <1>5, <1>7, <1>9, SubSeqFull
<1>11. PICK v : v = [k |-> u.k, shown |-> m.said]
  OBVIOUS
<1>12. Becomes(proc, proc', 2, "fsc.prompt", proc[2].parent, proc[2].fd, v)
  BY <1>1, <1>4, <1>10, <1>11, FsPids, SetGotoIs DEF Shown
<1>13. PICK q : q = pipe'
  OBVIOUS
<1>14. DOMAIN q = 1 .. Pipes /\ q[1] = <<>> /\ q[2] = <<>>
  <2>1. DOMAIN pipe = 1 .. Pipes /\ 1 \in 1 .. Pipes /\ 2 \in 1 .. Pipes
    BY UnixAssumption DEF Talk
  <2>2. SubSeq(down, n + 1, Len(down)) = <<>>
    BY <1>5, <1>7, LenProperties, SubSeqEmpty
  <2>3. q = [pipe EXCEPT ![2] = <<>>]
    BY <1>1, <1>4, <1>13, <2>2 DEF Taken
  <2> QED
    BY <1>1, <1>9, <2>1, <2>3
<1>15. <<>> \in Seq(Char)
  BY EmptySeq
<1>16. v.k = m.k /\ v.shown = m.said /\ v.k \in 0 .. MaxCommands
  BY <1>1, <1>9, <1>11 DEF Talk
<1>17. Quiet(m, "fsc.prompt", v, <<>>, <<>>)
  BY <1>9, <1>16 DEF Quiet
<1>18. Phase(proc[1].mem, "fsc.prompt", v, q[1], q[2])
  BY <1>1, <1>14, <1>17 DEF Phase
<1> QED
  BY <1>12, <1>13, <1>14, <1>15, <1>16, <1>18, ClientTalks

\* A byte is taken from the stream to the client.
LEMMA ByteTaken ==
  ASSUME Table(proc), Talk(proc, pipe), Byte1(2, 2), NEW q, q = pipe',
         NEW r \in Seq(Char), NEW i \in Nat, i < Len(r),
         Rest(pipe[2], proc[1].mem.todo) = From(r, i)
  PROVE  /\ Head(pipe[2]) = r[i + 1]
         /\ DOMAIN q = 1 .. Pipes /\ q[1] = pipe[1] /\ q[1] \in Seq(Char) /\ q[2] \in Seq(Char)
         /\ Rest(q[2], proc[1].mem.todo) = From(r, i + 1)
<1>1. PICK down, todo, s : /\ down = pipe[2] /\ todo = proc[1].mem.todo
                           /\ s = SubSeq(down, 2, Len(down))
  OBVIOUS
<1>2. /\ down \in Seq(Char) /\ pipe[1] \in Seq(Char) /\ IsTodo(todo)
      /\ DOMAIN pipe = 1 .. Pipes /\ 1 \in 1 .. Pipes /\ 2 \in 1 .. Pipes
  BY <1>1, UnixAssumption DEF Talk, Saying
<1>3. down # <<>> /\ q = [pipe EXCEPT ![2] = s]
  BY <1>1 DEF Byte1, Taken
<1>4. Head(down) = r[i + 1] /\ s \in Seq(Char) /\ Rest(s, todo) = From(r, i + 1)
  BY <1>1, <1>2, <1>3, TakingByte
<1>5. DOMAIN q = 1 .. Pipes /\ q[1] = pipe[1] /\ q[2] = s
  BY <1>2, <1>3
<1> QED
  BY <1>1, <1>2, <1>4, <1>5

\* The last byte was taken: the client shows the reply and is at its prompt.
LEMMA ReplyShown ==
  ASSUME Table(proc), Talk(proc, pipe), NEW s, proc' = Shown(proc, 2, s),
         NEW q, q = pipe', s = proc[1].mem.said, proc[2].mem.k = proc[1].mem.k,
         DOMAIN q = 1 .. Pipes, q[1] = <<>>, q[2] \in Seq(Char),
         NEW r \in Seq(Char), Rest(q[2], proc[1].mem.todo) = From(r, Len(r))
  PROVE  Talk(proc', pipe')
<1>1. PICK m, u : m = proc[1].mem /\ u = proc[2].mem
  OBVIOUS
<1>2. PICK v : v = [k |-> u.k, shown |-> s]
  OBVIOUS
<1>3. Becomes(proc, proc', 2, "fsc.prompt", proc[2].parent, proc[2].fd, v)
  BY <1>1, <1>2, FsPids, SetGotoIs DEF Shown
<1>4. v.k = m.k /\ v.shown = m.said /\ v.k \in 0 .. MaxCommands
  BY <1>1, <1>2 DEF Talk
<1>5. IsTodo(m.todo)
  BY <1>1 DEF Talk, Saying
<1>6. q[2] = <<>> /\ m.todo = <<>>
  BY <1>1, <1>5, AllTaken
<1>7. Phase(m, "fsc.prompt", v, q[1], q[2])
  BY <1>4, <1>6 DEF Quiet, Phase
<1>8. q[1] \in Seq(Char)
  BY EmptySeq
<1> QED
  BY <1>1, <1>3, <1>4, <1>7, <1>8, ClientTalks

LEMMA FsHeaderTalks ==
  ASSUME Table(proc), Talk(proc, pipe), FsHeader(2)
  PROVE  Talk(proc', pipe')
<1>1. PICK m, u, pc, q : /\ m = proc[1].mem /\ u = proc[2].mem /\ pc = proc[2].pc /\ q = pipe'
  OBVIOUS
<1>2. PipeOf(2, R(0)) = 2
  BY FsPipes
<1>3. PICK header :
        /\ header = Append(u.header, Head(pipe[2])) /\ Byte1(2, 2) /\ pc = "fsc.header"
        /\ \/ ~TwoSpaces(header) /\ proc' = Set(proc, 2, [u EXCEPT !.header = header])
           \/ /\ TwoSpaces(header)
              /\ \E n \in Numbers :
                   /\ Scans(header, 0, n)
                   /\ proc' = Goto(Set(proc, 2, [u EXCEPT !.length = n]), 2, "fsc.data")
           \/ /\ TwoSpaces(header) /\ \A n \in Numbers : ~Scans(header, 0, n)
              /\ proc' = Goto(proc, 2, "fsc.line")
  BY <1>1, <1>2 DEF FsHeader, AtLabel
<1>4. Phase(m, pc, u, pipe[1], pipe[2]) /\ pipe[2] # <<>>
  BY <1>1, <1>3 DEF Talk, Byte1
<1>5. InHeader(m, pc, u, pipe[1], pipe[2])
  BY <1>3, <1>4 DEF Phase, Quiet, Asked, InLine, InData, InError
<1>6. PICK r, i : /\ IsReply(r, m.said) /\ i \in 0 .. 3
                  /\ u = [k |-> m.k, shown |-> <<>>, header |-> SubSeq(r, 1, i), length |-> 0]
                  /\ Rest(pipe[2], m.todo) = From(r, i)
  BY <1>5 DEF InHeader
<1>7. pipe[1] = <<>>
  BY <1>5 DEF InHeader
<1>8. r \in Seq(Char) /\ i \in Nat /\ i < Len(r) /\ m.said \in Seq(Char)
  <2>1. r \in Seq(Char) /\ Len(r) \in Nat /\ Len(r) > 4 /\ m.said \in Seq(Char)
    BY <1>6, ReplyIs
  <2>2. PICK n \in Nat : n = Len(r) /\ n > 4
    BY <2>1
  <2>3. i \in Nat /\ i < n
    BY <1>6, <2>2
  <2> QED
    BY <2>1, <2>2, <2>3
<1>9. /\ Head(pipe[2]) = r[i + 1]
      /\ DOMAIN q = 1 .. Pipes /\ q[1] = <<>> /\ q[1] \in Seq(Char) /\ q[2] \in Seq(Char)
      /\ Rest(q[2], m.todo) = From(r, i + 1)
  BY <1>1, <1>3, <1>6, <1>7, <1>8, ByteTaken
<1>10. header = SubSeq(r, 1, i + 1)
  <2>1. u.header = SubSeq(r, 1, i)
    BY <1>6
  <2> QED
    BY <1>3, <1>8, <1>9, <2>1, HeaderGrows
<1>11. i + 1 \in 1 .. 4
  BY <1>6
<1>12. /\ TwoSpaces(header) <=> i + 1 = 4
       /\ i + 1 = 4 /\ r = OkReply(m.said) /\ Len(m.said) \in Numbers =>
            \A n \in Numbers : Scans(header, 0, n) <=> n = Len(m.said)
       /\ i + 1 = 4 /\ r = ErrReply => \A n \in Numbers : ~Scans(header, 0, n)
  BY <1>6, <1>10, <1>11, HeaderScans
<1>13. u.k \in 0 .. MaxCommands /\ u.k = m.k
  BY <1>1, <1>6 DEF Talk
<1>14. CASE ~TwoSpaces(header) /\ proc' = Set(proc, 2, [u EXCEPT !.header = header])
  <2>1. PICK v : v = [u EXCEPT !.header = header]
    OBVIOUS
  <2>2. v = [k |-> m.k, shown |-> <<>>, header |-> SubSeq(r, 1, i + 1), length |-> 0]
    BY <1>6, <1>10, <2>1
  <2>3. Becomes(proc, proc', 2, pc, proc[2].parent, proc[2].fd, v)
    BY <1>1, <1>14, <2>1, FsPids, SetIs
  <2>4. i + 1 \in 0 .. 3
    BY <1>11, <1>12, <1>14
  <2>5. InHeader(m, pc, v, q[1], q[2])
    BY <1>3, <1>6, <1>9, <2>2, <2>4 DEF InHeader
  <2>6. v.k \in 0 .. MaxCommands
    BY <1>13, <2>2
  <2>7. Phase(m, pc, v, q[1], q[2])
    BY <2>5 DEF Phase
  <2> QED
    BY <1>1, <1>9, <2>3, <2>6, <2>7, ClientTalks
<1>15. ASSUME TwoSpaces(header), NEW n \in Numbers, Scans(header, 0, n),
              proc' = Goto(Set(proc, 2, [u EXCEPT !.length = n]), 2, "fsc.data")
       PROVE  Talk(proc', pipe')
  <2>1. PICK v : v = [u EXCEPT !.length = n]
    OBVIOUS
  <2>2. r = OkReply(m.said) /\ Len(m.said) \in Numbers /\ n = Len(m.said) /\ i + 1 = 4
    BY <1>6, <1>12, <1>15 DEF IsReply
  <2>3. v = [k |-> m.k, shown |-> <<>>, header |-> SubSeq(r, 1, i), length |-> n]
    BY <1>6, <2>1
  <2>4. v.header = SubSeq(r, 1, i) /\ v.k = m.k
    BY <2>3
  <2>5. SubSeq(m.said, 1, 0) = <<>>
    BY SubSeqEmpty
  <2>6. Becomes(proc, proc', 2, "fsc.data", proc[2].parent, proc[2].fd, v)
    BY <1>15, <2>1, FsPids, SetGotoIs
  <2>7. 0 \in 0 .. Len(m.said) /\ 4 + 0 = i + 1
    BY <1>8, <2>2, LenProperties
  <2>8. v = [k |-> m.k, shown |-> SubSeq(m.said, 1, 0), header |-> v.header, length |-> Len(m.said)]
    BY <2>2, <2>3, <2>4, <2>5
  <2>9. Rest(q[2], m.todo) = From(OkReply(m.said), 4 + 0)
    BY <1>9, <2>2, <2>7
  <2>10. InData(m, "fsc.data", v, q[1], q[2])
    BY <1>8, <1>9, <2>2, <2>7, <2>8, <2>9 DEF InData
  <2>11. v.k \in 0 .. MaxCommands
    BY <1>13, <2>4
  <2>12. Phase(m, "fsc.data", v, q[1], q[2])
    BY <2>10 DEF Phase
  <2> QED
    BY <1>1, <1>9, <2>6, <2>11, <2>12, ClientTalks
<1>16. CASE /\ TwoSpaces(header) /\ \A n \in Numbers : ~Scans(header, 0, n)
            /\ proc' = Goto(proc, 2, "fsc.line")
  <2>1. r = ErrReply /\ m.said = <<>> /\ i + 1 = 4
    BY <1>6, <1>12, <1>16 DEF IsReply
  <2>2. Becomes(proc, proc', 2, "fsc.line", proc[2].parent, proc[2].fd, u)
    BY <1>1, <1>16, FsPids, GotoIs
  <2>3. InError(m, "fsc.line", u, q[1], q[2])
    BY <1>9, <1>13, <2>1 DEF InError
  <2>4. Phase(m, "fsc.line", u, q[1], q[2])
    BY <2>3 DEF Phase
  <2> QED
    BY <1>1, <1>9, <1>13, <2>2, <2>4, ClientTalks
<1> QED
  BY <1>3, <1>14, <1>15, <1>16

LEMMA FsLineTalks ==
  ASSUME Table(proc), Talk(proc, pipe), FsLine(2)
  PROVE  Talk(proc', pipe')
<1>1. PICK m, u, pc, q : /\ m = proc[1].mem /\ u = proc[2].mem /\ pc = proc[2].pc /\ q = pipe'
  OBVIOUS
<1>2. PipeOf(2, R(0)) = 2
  BY FsPipes
<1>3. /\ Byte1(2, 2) /\ pc = "fsc.line"
      /\ proc' = IF Head(pipe[2]) = "\n" THEN Shown(proc, 2, <<>>) ELSE proc
  BY <1>1, <1>2 DEF FsLine, AtLabel
<1>4. Phase(m, pc, u, pipe[1], pipe[2])
  BY <1>1 DEF Talk
<1>5. InError(m, pc, u, pipe[1], pipe[2])
  BY <1>3, <1>4 DEF Phase, Quiet, Asked, InLine, InHeader, InData
<1>6. PICK i \in {4, 5} : Rest(pipe[2], m.todo) = From(ErrReply, i)
  BY <1>5 DEF InError
<1>7. pipe[1] = <<>> /\ m.said = <<>> /\ u.k = m.k
  BY <1>5 DEF InError
<1>8. /\ ErrReply \in Seq(Char) /\ Len(ErrReply) = 6 /\ i \in Nat /\ i < Len(ErrReply)
      /\ ErrReply[5] = "Found" /\ ErrReply[6] = "\n"
  BY ErrReplyIs
<1>9. /\ Head(pipe[2]) = ErrReply[i + 1]
      /\ DOMAIN q = 1 .. Pipes /\ q[1] = <<>> /\ q[1] \in Seq(Char) /\ q[2] \in Seq(Char)
      /\ Rest(q[2], m.todo) = From(ErrReply, i + 1)
  BY <1>1, <1>3, <1>6, <1>7, <1>8, ByteTaken
<1>10. CASE i = 4
  <2>1. proc' = proc
    BY <1>3, <1>8, <1>9, <1>10
  <2>2. Becomes(proc, proc', 2, pc, proc[2].parent, proc[2].fd, u)
    BY <1>1, <2>1 DEF Becomes
  <2>3. InError(m, pc, u, q[1], q[2])
    BY <1>3, <1>7, <1>9, <1>10 DEF InError
  <2>4. Phase(m, pc, u, q[1], q[2])
    BY <2>3 DEF Phase
  <2>5. u.k \in 0 .. MaxCommands
    BY <1>1 DEF Talk
  <2> QED
    BY <1>1, <1>9, <2>2, <2>4, <2>5, ClientTalks
<1>11. CASE i = 5
  <2>1. proc' = Shown(proc, 2, <<>>)
    BY <1>3, <1>8, <1>9, <1>11
  <2>2. Rest(q[2], m.todo) = From(ErrReply, Len(ErrReply))
    BY <1>8, <1>9, <1>11
  <2> QED
    BY <1>1, <1>7, <1>8, <1>9, <2>1, <2>2, ReplyShown
<1> QED
  BY <1>10, <1>11

LEMMA FsDataTalks ==
  ASSUME Table(proc), Talk(proc, pipe), FsData(2)
  PROVE  Talk(proc', pipe')
<1>1. PICK m, u, pc, q : /\ m = proc[1].mem /\ u = proc[2].mem /\ pc = proc[2].pc /\ q = pipe'
  OBVIOUS
<1>2. PipeOf(2, R(0)) = 2
  BY FsPipes
<1>3. /\ Byte1(2, 2) /\ pc = "fsc.data"
      /\ proc' = IF Len(u.shown) < u.length
                 THEN Set(proc, 2, [u EXCEPT !.shown = Append(@, Head(pipe[2]))])
                 ELSE Shown(proc, 2, u.shown)
  BY <1>1, <1>2 DEF FsData, AtLabel
<1>4. Phase(m, pc, u, pipe[1], pipe[2])
  BY <1>1 DEF Talk
<1>5. InData(m, pc, u, pipe[1], pipe[2])
  BY <1>3, <1>4 DEF Phase, Quiet, Asked, InLine, InHeader, InError
<1>6. PICK j : /\ j \in 0 .. Len(m.said)
               /\ u = [k |-> m.k, shown |-> SubSeq(m.said, 1, j), header |-> u.header,
                       length |-> Len(m.said)]
               /\ Rest(pipe[2], m.todo) = From(OkReply(m.said), 4 + j)
  BY <1>5 DEF InData
<1>7. pipe[1] = <<>> /\ m.said \in Seq(Char) /\ Len(m.said) \in Numbers
  BY <1>5 DEF InData
<1>8. PICK r, n : r = OkReply(m.said) /\ n = Len(m.said)
  OBVIOUS
<1>9. n \in Nat /\ j \in 0 .. n
  BY <1>6, <1>7, <1>8, LenProperties
<1>10. /\ r \in Seq(Char) /\ Len(r) = n + 5
       /\ \A i \in 1 .. n : r[4 + i] = m.said[i]
  BY <1>7, <1>8, OkReplyIs
<1>11. 4 + j \in Nat /\ 4 + j < Len(r)
  BY <1>9, <1>10
<1>12. /\ Head(pipe[2]) = r[(4 + j) + 1]
       /\ DOMAIN q = 1 .. Pipes /\ q[1] = <<>> /\ q[1] \in Seq(Char) /\ q[2] \in Seq(Char)
       /\ Rest(q[2], m.todo) = From(r, (4 + j) + 1)
  BY <1>1, <1>3, <1>6, <1>7, <1>8, <1>10, <1>11, ByteTaken
<1>13. Len(u.shown) = j /\ u.length = n /\ u.k = m.k /\ u.shown = SubSeq(m.said, 1, j)
  <2>1. u.shown = SubSeq(m.said, 1, j) /\ u.length = n /\ u.k = m.k
    BY <1>6, <1>8
  <2>2. CASE j < n
    BY <1>7, <1>8, <1>9, <2>1, <2>2, HeaderGrows
  <2>3. CASE j = n
    <3>1. PICK s \in Seq(Char) : s = m.said
      BY <1>7
    <3>2. SubSeq(s, 1, Len(s)) = s
      BY SubSeqFull
    <3> QED
      BY <1>8, <2>1, <2>3, <3>1, <3>2
  <2> QED
    BY <1>9, <2>1, <2>2, <2>3
<1>14. u.k \in 0 .. MaxCommands
  BY <1>1 DEF Talk
<1>15. CASE j < n
  <2>1. PICK v : v = [u EXCEPT !.shown = Append(u.shown, Head(pipe[2]))]
    OBVIOUS
  <2>2. Becomes(proc, proc', 2, pc, proc[2].parent, proc[2].fd, v)
    BY <1>1, <1>3, <1>13, <1>15, <2>1, FsPids, SetIs
  <2>3. j + 1 \in 1 .. n /\ (4 + j) + 1 = 4 + (j + 1)
    BY <1>9, <1>15
  <2>4. Head(pipe[2]) = m.said[j + 1]
    BY <1>10, <1>12, <2>3
  <2>5. Append(u.shown, Head(pipe[2])) = SubSeq(m.said, 1, j + 1)
    BY <1>7, <1>8, <1>9, <1>13, <1>15, <2>4, HeaderGrows
  <2>6. v = [k |-> m.k, shown |-> SubSeq(m.said, 1, j + 1), header |-> u.header, length |-> n]
    <3>1. PICK h, s, t : h = u.header /\ s = SubSeq(m.said, 1, j) /\ t = SubSeq(m.said, 1, j + 1)
      OBVIOUS
    <3>2. u = [k |-> m.k, shown |-> s, header |-> h, length |-> n]
      BY <1>6, <1>8, <3>1
    <3>3. v = [u EXCEPT !.shown = t]
      BY <2>1, <2>5, <3>1
    <3>4. v = [k |-> m.k, shown |-> t, header |-> h, length |-> n]
      BY <3>2, <3>3
    <3> QED
      BY <3>1, <3>4
  <2>7. v.header = u.header /\ v.k = m.k
    BY <2>6
  <2>8. j + 1 \in 0 .. Len(m.said)
    BY <1>8, <2>3
  <2>9. Rest(q[2], m.todo) = From(OkReply(m.said), 4 + (j + 1))
    BY <1>8, <1>12, <2>3
  <2>10. InData(m, pc, v, q[1], q[2])
    BY <1>3, <1>7, <1>8, <1>12, <2>6, <2>7, <2>8, <2>9 DEF InData
  <2>11. Phase(m, pc, v, q[1], q[2])
    BY <2>10 DEF Phase
  <2> QED
    BY <1>1, <1>12, <1>13, <1>14, <2>2, <2>7, <2>11, ClientTalks
<1>16. CASE j = n
  <2>1. proc' = Shown(proc, 2, u.shown)
    BY <1>3, <1>9, <1>13, <1>16
  <2>2. u.shown = m.said
    <3>1. PICK s \in Seq(Char) : s = m.said
      BY <1>7
    <3>2. SubSeq(s, 1, Len(s)) = s
      BY SubSeqFull
    <3> QED
      BY <1>8, <1>13, <1>16, <3>1, <3>2
  <2>3. Rest(q[2], m.todo) = From(r, Len(r))
    <3>1. (4 + j) + 1 = n + 5
      BY <1>9, <1>16
    <3> QED
      BY <1>10, <1>12, <3>1
  <2>4. proc' = Shown(proc, 2, proc[1].mem.said)
    BY <1>1, <2>1, <2>2
  <2>5. r \in Seq(Char) /\ proc[2].mem.k = proc[1].mem.k
    BY <1>1, <1>10, <1>13
  <2>6. q = pipe' /\ DOMAIN q = 1 .. Pipes /\ q[1] = <<>> /\ q[2] \in Seq(Char)
    BY <1>1, <1>12
  <2>7. Rest(q[2], proc[1].mem.todo) = From(r, Len(r))
    BY <1>1, <2>3
  <2> QED
    BY <2>4, <2>5, <2>6, <2>7, ReplyShown
<1> QED
  BY <1>9, <1>15, <1>16

\* What a step of either side is to the table: it ends, or goes on.
Moves(p) ==
  \/ \E status : proc' = Exit(proc, p, status)
  \/ \E pc \in FsLabels : \E mem : Becomes(proc, proc', p, pc, proc[p].parent, proc[p].fd, mem)

LEMMA FsMoves ==
  ASSUME Labelled(proc, FsLabels), NEW p \in Pids, FsStep(p)
  PROVE  Moves(p) /\ failed \subseteq failed'
<1>1. Table(proc)
  BY DEF Labelled
<1>2. /\ "fss.recv" \in FsLabels /\ "fss.send" \in FsLabels /\ "fsc.prompt" \in FsLabels
      /\ "fsc.header" \in FsLabels /\ "fsc.line" \in FsLabels /\ "fsc.data" \in FsLabels
      /\ "fsc.recv" \in FsLabels
  BY DEF FsLabels
<1>3. ASSUME NEW pc \in FsLabels, NEW mem, proc' = Goto(Set(proc, p, mem), p, pc)
      PROVE  Moves(p)
  BY <1>1, <1>3, SetGotoIs DEF Moves
<1>4. ASSUME NEW pc \in FsLabels, proc' = Goto(proc, p, pc)
      PROVE  Moves(p)
  BY <1>1, <1>4, GotoIs DEF Moves
<1>5. ASSUME NEW mem, proc' = Set(proc, p, mem), proc[p].pc \in FsLabels
      PROVE  Moves(p)
  BY <1>1, <1>5, SetIs DEF Moves
<1>6. ASSUME NEW code, proc' = Exited(proc, p, code) \/ proc' = Killed(proc, p, code)
      PROVE  Moves(p)
  BY <1>6 DEF Moves, Exited, Killed
<1>7. ASSUME NEW s, proc' = Shown(proc, p, s)
      PROVE  Moves(p)
  BY <1>2, <1>3, <1>7 DEF Shown
<1>8. ASSUME NEW x, x \in {proc}, proc' = x, proc[p].pc \in FsLabels
      PROVE  Moves(p)
  <2>1. Becomes(proc, proc', p, proc[p].pc, proc[p].parent, proc[p].fd, proc[p].mem)
    BY <1>1, <1>8 DEF Becomes
  <2> QED
    BY <1>8, <2>1 DEF Moves
<1>9. CASE FsRecv(p)
  BY <1>9, <1>2, <1>3, <1>6 DEF FsRecv
<1>10. CASE FsSend(p)
  BY <1>10, <1>2, <1>4, <1>5 DEF FsSend, AtLabel
<1>11. CASE FsCommand(p)
  <2>1. CASE \E code : proc' = Exited(proc, p, code) \/ proc' = Killed(proc, p, code)
    BY <1>6, <1>11, <2>1 DEF FsCommand
  <2>2. CASE \E cmd, mem : proc' = Goto(Set(proc, p, mem),
                                        p, IF cmd = "R" THEN "fsc.header" ELSE "fsc.recv")
    BY <1>2, <1>3, <1>11, <2>2 DEF FsCommand
  <2> QED
    BY <1>11, <2>1, <2>2 DEF FsCommand
<1>12. CASE FsGeneric(p)
  <2>1. failed \subseteq failed'
    BY <1>12 DEF FsGeneric, Received, Fails, GoesWell
  <2> QED
    BY <1>12, <1>6, <1>7, <2>1 DEF FsGeneric
<1>13. CASE FsHeader(p)
  BY <1>13, <1>2, <1>3, <1>4, <1>5 DEF FsHeader, Byte1, AtLabel
<1>14. CASE FsLine(p)
  BY <1>14, <1>2, <1>7, <1>8 DEF FsLine, Byte1, AtLabel
<1>15. CASE FsData(p)
  BY <1>15, <1>2, <1>5, <1>7 DEF FsData, Byte1, AtLabel
<1>16. CASE FsReadEnds(p)
  BY <1>16, <1>7 DEF FsReadEnds
<1>17. CASE FsKill(p)
  BY <1>17, <1>6 DEF FsKill, Fails
<1> QED
  BY <1>9, <1>10, <1>11, <1>12, <1>13, <1>14, <1>15, <1>16, <1>17 DEF FsStep, FsProgram

\* It keeps the labels, and those that are not there are not there afterwards.
LEMMA MovesKeep ==
  ASSUME Labelled(proc, FsLabels), NEW p \in Pids, Moves(p)
  PROVE  /\ Labelled(proc', FsLabels)
         /\ \A q \in Pids : q # p /\ proc[q].pc = "free" => proc'[q].pc = "free"
<1>1. CASE \E status : proc' = Exit(proc, p, status)
  <2>1. PICK u : u = proc'
    OBVIOUS
  <2>2. Labelled(u, FsLabels)
    BY <1>1, <2>1, ExitKeeps
  <2>3. Ends(proc, u, p)
    BY <1>1, <2>1, ExitIs DEF Labelled
  <2>4. ASSUME NEW q \in Pids, q # p, proc[q].pc = "free"
        PROVE  u[q].pc = "free"
    BY <2>3, <2>4 DEF Ends
  <2> QED
    BY <2>1, <2>2, <2>4
<1>2. ASSUME NEW pc \in FsLabels, NEW mem,
             Becomes(proc, proc', p, pc, proc[p].parent, proc[p].fd, mem)
      PROVE  /\ Labelled(proc', FsLabels)
             /\ \A q \in Pids : q # p /\ proc[q].pc = "free" => proc'[q].pc = "free"
  <2>1. Labelled(proc', FsLabels)
    BY <1>2, BecomesKeeps
  <2> QED
    BY <1>2, <2>1 DEF Becomes
<1> QED
  BY <1>1, <1>2 DEF Moves

LEMMA FsServerTalks ==
  ASSUME Table(proc), Talk(proc, pipe), FsStep(1), "kill" \notin failed'
  PROVE  Talk(proc', pipe')
<1>1. proc[1].pc \in {"fss.recv", "fss.send"}
  BY DEF Talk
<1>2. ~FsCommand(1) /\ ~FsGeneric(1) /\ ~FsHeader(1) /\ ~FsLine(1) /\ ~FsData(1) /\ ~FsReadEnds(1)
  BY <1>1 DEF FsCommand, FsGeneric, FsHeader, FsLine, FsData, FsReadEnds, AtLabel
<1>3. ~FsKill(1)
  BY DEF FsKill, Fails
<1> QED
  BY <1>2, <1>3, FsRecvTalks, FsSendTalks DEF FsStep, FsProgram

LEMMA FsUserTalks ==
  ASSUME Table(proc), Talk(proc, pipe), FsStep(2), "split" \notin failed'
  PROVE  proc'[2].pc = "free" \/ Talk(proc', pipe')
<1>1. proc[2].pc \in {"fsc.prompt", "fsc.header", "fsc.recv", "fsc.line", "fsc.data"}
  BY DEF Talk, Phase, Quiet, Asked, InLine, InHeader, InData, InError
<1>2. ~FsRecv(2) /\ ~FsSend(2) /\ ~FsKill(2)
  BY <1>1 DEF FsRecv, FsSend, FsKill, AtLabel
<1>3. ~FsReadEnds(2)
  <2>1. PipeOf(2, R(0)) = 2 /\ HeldIn(proc, W(2))
    BY FsPipes
  <2> QED
    BY <2>1 DEF FsReadEnds, AtEnd
<1> QED
  BY <1>2, <1>3, FsCommandTalks, FsGenericTalks, FsHeaderTalks, FsLineTalks, FsDataTalks
     DEF FsStep, FsProgram

\* The conversation goes on.
LEMMA FsStepInv ==
  ASSUME FsInv(proc, pipe, failed), NEW p \in Pids, FsStep(p)
  PROVE  FsInv(proc', pipe', failed')
<1>1. Labelled(proc, FsLabels) /\ Table(proc)
  BY DEF FsInv, Labelled
<1>2. Moves(p) /\ failed \subseteq failed'
  BY <1>1, FsMoves
<1>3. /\ Labelled(proc', FsLabels)
      /\ \A q \in Pids : q # p /\ proc[q].pc = "free" => proc'[q].pc = "free"
  BY <1>1, <1>2, MovesKeep
<1>4. ASSUME Well(failed')
      PROVE  FsTalk(proc', pipe')
  <2>1. FsTalk(proc, pipe) /\ "kill" \notin failed' /\ "split" \notin failed'
    BY <1>2, <1>4 DEF FsInv, Well
  <2>2. proc[p].pc # "free"
    <3>1. LabelOf(p, FsLabels)
      BY StepsOf DEF FsStep
    <3> QED
      BY <3>1 DEF LabelOf, FsLabels
  <2>3. p \in {1, 2}
    BY <2>1, <2>2 DEF FsTalk
  <2>4. \A q \in Pids : q \notin {1, 2} => proc'[q].pc = "free"
    BY <1>3, <2>1, <2>3 DEF FsTalk
  <2>5. CASE proc[2].pc = "free"
    <3>1. p # 2
      BY <2>2, <2>5
    <3> QED
      BY <1>3, <2>4, <2>5, <3>1, FsPids DEF FsTalk
  <2>6. CASE Talk(proc, pipe)
    BY <1>1, <2>1, <2>3, <2>4, <2>6, FsServerTalks, FsUserTalks DEF FsTalk
  <2> QED
    BY <2>1, <2>5, <2>6 DEF FsTalk
<1> QED
  BY <1>3, <1>4 DEF FsInv

\* Connected, neither has said anything.
LEMMA FsInitInv ==
  ASSUME FsInit
  PROVE  FsInv(proc, pipe, failed) /\ program = "fs_client"
<1>1. PICK s, u, t :
        /\ s = [Free EXCEPT !.pc = "fss.recv", !.mem = [todo |-> <<>>, said |-> <<>>, k |-> 0]]
        /\ u = [Free EXCEPT !.pc = "fsc.prompt", !.mem = [k |-> 0, shown |-> <<>>]]
        /\ t = [p \in Pids |-> IF p = 1 THEN s ELSE IF p = 2 THEN u ELSE Free]
  OBVIOUS
<1>2. proc = Connect(t, 1, 2, 1, 2)
  <2>1. t = [p \in Pids |-> CASE p = FsServer -> s [] p = FsUser -> u [] OTHER -> Free]
    BY <1>1, FsPids
  <2> QED
    BY <1>1, <2>1, FsPids DEF FsInit
<1>3. /\ Record(s) /\ s.pc = "fss.recv" /\ s.parent = 0 /\ s.fd = <<>>
      /\ s.mem = [todo |-> <<>>, said |-> <<>>, k |-> 0]
      /\ Record(u) /\ u.pc = "fsc.prompt" /\ u.parent = 0 /\ u.fd = <<>>
      /\ u.mem = [k |-> 0, shown |-> <<>>]
  BY <1>1 DEF Free, Record
<1>4. PICK s2, u2 : /\ s2 = [s EXCEPT !.fd = Socket(1, 2)] /\ u2 = [u EXCEPT !.fd = Socket(2, 1)]
  OBVIOUS
<1>5. /\ Record(s2) /\ s2.pc = "fss.recv" /\ s2.parent = 0 /\ s2.fd = Socket(1, 2)
      /\ s2.mem = [todo |-> <<>>, said |-> <<>>, k |-> 0]
      /\ Record(u2) /\ u2.pc = "fsc.prompt" /\ u2.parent = 0 /\ u2.fd = Socket(2, 1)
      /\ u2.mem = [k |-> 0, shown |-> <<>>]
  BY <1>3, <1>4 DEF Record
<1>6. t[1] = s /\ t[2] = u /\ DOMAIN t = Pids
  BY <1>1, FsPids
<1>7. proc = [t EXCEPT ![1] = s2, ![2] = u2]
  <2>1. ASSUME NEW r, NEW w, NEW fd, fd = <<>>
        PROVE  [n \in DOMAIN fd \cup {R(0), W(0)} |->
                  IF n = R(0) THEN R(r) ELSE IF n = W(0) THEN W(w) ELSE fd[n]] = Socket(r, w)
    BY <2>1 DEF Socket
  <2>2. PICK f, g : f = Socket(1, 2) /\ g = Socket(2, 1)
    OBVIOUS
  <2>3. proc = [t EXCEPT ![1].fd = f, ![2].fd = g]
    <3>1. t[1].fd = <<>> /\ t[2].fd = <<>>
      BY <1>3, <1>6
    <3> DEFINE With(fd, r, w) == [n \in DOMAIN fd \cup {R(0), W(0)} |->
                 IF n = R(0) THEN R(r) ELSE IF n = W(0) THEN W(w) ELSE fd[n]]
    <3>2. proc = [t EXCEPT ![1].fd = With(t[1].fd, 1, 2), ![2].fd = With(t[2].fd, 2, 1)]
      <4>1. 1 # 2
        OBVIOUS
      <4> QED
        BY <1>2, <1>6, <4>1 DEF Connect
    <3>3. With(<<>>, 1, 2) = f /\ With(<<>>, 2, 1) = g
      BY <2>1, <2>2
    <3> HIDE DEF With
    <3>4. With(t[1].fd, 1, 2) = f /\ With(t[2].fd, 2, 1) = g
      BY <3>1, <3>3
    <3> QED
      BY <3>2, <3>4
  <2>4. PICK t1 : t1 = [t EXCEPT ![1] = s2]
    OBVIOUS
  <2>5. t1 = [t EXCEPT ![1].fd = f] /\ t1[2] = u
    BY <1>4, <1>6, <2>2, <2>4
  <2>6. proc = [t1 EXCEPT ![2].fd = g]
    BY <2>3, <2>5
  <2>7. proc = [t1 EXCEPT ![2] = u2]
    BY <1>4, <2>2, <2>5, <2>6
  <2> QED
    BY <2>4, <2>7
<1>8. Table(proc) /\ proc[1] = s2 /\ proc[2] = u2 /\ \A p \in Pids : p \notin {1, 2} => proc[p] = Free
  <2>1. DOMAIN proc = Pids /\ proc = [p \in Pids |-> proc[p]]
    BY <1>6, <1>7
  <2>2. \A p \in Pids : proc[p] = IF p = 1 THEN s2 ELSE IF p = 2 THEN u2 ELSE Free
    <3>1. \A p \in Pids : t[p] = IF p = 1 THEN s ELSE IF p = 2 THEN u ELSE Free
      BY <1>1
    <3>2. PICK t1 : t1 = [t EXCEPT ![1] = s2]
      OBVIOUS
    <3>3. \A p \in Pids : t1[p] = IF p = 1 THEN s2 ELSE t[p]
      BY <1>6, <3>2
    <3>4. proc = [t1 EXCEPT ![2] = u2] /\ DOMAIN t1 = Pids
      BY <1>6, <1>7, <3>2
    <3>5. \A p \in Pids : proc[p] = IF p = 2 THEN u2 ELSE t1[p]
      BY <3>4
    <3> QED
      BY <3>1, <3>3, <3>5
  <2> QED
    BY <1>5, <2>1, <2>2, FreeIs, FsPids DEF Table
<1>9. Labelled(proc, FsLabels)
  BY <1>5, <1>8, FreeIs DEF Labelled, FsLabels, Idle
<1>10. /\ DOMAIN pipe = 1 .. Pipes /\ pipe[1] = <<>> /\ pipe[2] = <<>> /\ Pipes >= 2
       /\ program = "fs_client"
  BY UnixAssumption DEF FsInit
<1>11. PICK m, v : m = proc[1].mem /\ v = proc[2].mem
  OBVIOUS
<1>12. m = [todo |-> <<>>, said |-> <<>>, k |-> 0] /\ v = [k |-> 0, shown |-> <<>>]
  BY <1>5, <1>8, <1>11
<1>13. m.todo = <<>> /\ m.said = <<>> /\ m.k = 0 /\ v.k = 0 /\ v.shown = <<>>
  BY <1>12
<1>14. Saying(m)
  <2>1. IsTodo(<<>>)
    BY DEF IsTodo
  <2> QED
    BY <1>12, <1>13, <2>1 DEF Saying
<1>15. Phase(m, "fsc.prompt", v, <<>>, <<>>)
  BY <1>13 DEF Phase, Quiet
<1>16. Talk(proc, pipe)
  <2>1. <<>> \in Seq(Char)
    BY EmptySeq
  <2>2. v.k \in 0 .. MaxCommands
    BY <1>13, MaxCommandsIs
  <2> QED
    BY <1>5, <1>8, <1>10, <1>11, <1>13, <1>14, <1>15, <2>1, <2>2 DEF Talk
<1>17. FsTalk(proc, pipe)
  BY <1>8, <1>16, FreeIs DEF FsTalk
<1> QED
  BY <1>9, <1>10, <1>17 DEF FsInv

LEMMA FsAnswers ==
  ASSUME FsInv(proc, pipe, failed)
  PROVE  AnswersInStep
<1>1. \A p \in Pids : ~AtLabel(p, "rc.end")
  BY DEF FsInv, Labelled, FsLabels, Idle, AtLabel
<1>2. ASSUME "split" \notin failed, "kill" \notin failed, AtLabel(FsUser, "fsc.prompt")
      PROVE  /\ proc[FsUser].mem.k = proc[FsServer].mem.k
             /\ proc[FsUser].mem.shown = proc[FsServer].mem.said
  <2>1. FsTalk(proc, pipe)
    BY <1>2 DEF FsInv, Well
  <2>2. proc[2].pc = "fsc.prompt"
    BY <1>2, FsPids DEF AtLabel
  <2>3. Quiet(proc[1].mem, proc[2].pc, proc[2].mem, pipe[1], pipe[2])
    BY <2>1, <2>2 DEF FsTalk, Talk, Phase, Asked, InLine, InHeader, InData, InError
  <2> QED
    BY <2>3, FsPids DEF Quiet
<1> QED
  BY <1>1, <1>2 DEF AnswersInStep

-----------------------------------------------------------------------------
\* reverse_server.

Reversed(line) == reverse_string(line)
Backwards(s) == Append(Reverse(s), "\n")

LEMMA TypedLine ==
  ASSUME NEW line \in Typed
  PROVE  /\ line \in Seq(Char) /\ line # <<>> /\ Len(line) \in Nat \ {0}
         /\ \A i \in 1 .. Len(line) : line[i] # "\r" /\ (line[i] = "\n" => i = Len(line))
<1>1. /\ line \in Seq(STRING) /\ line # <<>>
      /\ \A i \in 1 .. Len(line) : line[i] # "\r" /\ (line[i] = "\n" => i = Len(line))
  BY ReverseAssumption
<1>2. PICK n \in Nat : n = Len(line)
  BY <1>1, LenProperties
<1>3. \A i \in 1 .. n : line[i] \in STRING
  BY <1>1, <1>2, ElementOfSeq
<1>4. line = [i \in 1 .. n |-> line[i]]
  BY <1>1, <1>2
<1>5. \A i \in 1 .. n : line[i] \in Char
  BY <1>3 DEF Char
<1>6. [i \in 1 .. n |-> line[i]] \in Seq(Char)
  BY <1>5
<1>7. n # 0
  BY <1>1, <1>2, EmptySeq
<1> QED
  BY <1>1, <1>2, <1>4, <1>6, <1>7

\* The line backwards.
LEMMA BackwardsIs ==
  ASSUME NEW s \in Seq(Char), NEW n \in Nat, n = Len(s), NEW r, r = Backwards(s)
  PROVE  /\ r \in Seq(Char) /\ r # <<>> /\ Len(r) = n + 1 /\ r[n + 1] = "\n"
         /\ \A i \in 1 .. n : r[i] = s[n + 1 - i]
<1>1. PICK b : b = [i \in 1 .. n |-> s[(n - i) + 1]]
  OBVIOUS
<1>2. b = Reverse(s)
  BY <1>1 DEF Reverse
<1>3. \A i \in 1 .. n : (n - i) + 1 \in 1 .. n /\ (n - i) + 1 = n + 1 - i
  OBVIOUS
<1>4. \A i \in 1 .. n : s[(n - i) + 1] \in Char
  BY <1>3, ElementOfSeq
<1>5. b \in Seq(Char)
  BY <1>1, <1>4
<1>6. Len(b) = n /\ \A i \in 1 .. n : b[i] = s[n + 1 - i]
  BY <1>1, <1>3, <1>5
<1>7. "\n" \in Char
  BY CharHas
<1>8. /\ r \in Seq(Char) /\ r # <<>> /\ Len(r) = Len(b) + 1 /\ r[Len(b) + 1] = "\n"
      /\ \A i \in 1 .. Len(b) : r[i] = b[i]
  BY <1>2, <1>5, <1>7, AppendProperties DEF Backwards
<1> QED
  BY <1>6, <1>8

\* A line reversed is its mirror image.
LEMMA ReversedMirrors ==
  ASSUME NEW line \in Typed
  PROVE  /\ Reversed(line) \in Seq(Char) /\ Reversed(line) # <<>>
         /\ Mirrors(Reversed(line), line)
<1>1. PICK s, r : s = Stripped(line) /\ r = Backwards(s)
  OBVIOUS
<1>2. r = Reversed(line)
  BY <1>1 DEF Reversed, reverse_string, Backwards
<1>3. /\ line \in Seq(Char) /\ line # <<>> /\ Len(line) \in Nat \ {0}
      /\ \A i \in 1 .. Len(line) : line[i] # "\r" /\ (line[i] = "\n" => i = Len(line))
  BY TypedLine
<1>4. PICK n : n = Len(s)
  OBVIOUS
<1>5. /\ s \in Seq(Char) /\ n \in Nat /\ n \in 0 .. Len(line)
      /\ \A i \in 1 .. n : s[i] = line[i] /\ line[i] # "\n"
      /\ Len(line) = n \/ (Len(line) = n + 1 /\ line[n + 1] = "\n")
  <2>1. PICK m \in Nat : Len(line) = m + 1
    <3>1. Len(line) - 1 \in Nat /\ Len(line) = (Len(line) - 1) + 1
      BY <1>3
    <3> QED
      BY <3>1
  <2>2. m + 1 \in 1 .. Len(line) /\ (m + 1) - 1 = m
    BY <2>1
  <2>3. CASE line[m + 1] = "\n"
    <3>1. s = SubSeq(line, 1, m)
      <4>1. Last(line) \in {"\n", "\r"}
        BY <2>1, <2>3 DEF Last
      <4>2. s = Front(line)
        BY <1>1, <1>3, <4>1 DEF Stripped
      <4> QED
        BY <2>1, <2>2, <4>2 DEF Front
    <3>2. m < Len(line)
      BY <2>1
    <3>3. /\ SubSeq(line, 1, m) \in Seq(Char) /\ Len(SubSeq(line, 1, m)) = m
          /\ \A i \in 1 .. m : SubSeq(line, 1, m)[i] = line[i]
      BY <1>3, <3>2, HeaderGrows
    <3>4. s \in Seq(Char) /\ n = m /\ \A i \in 1 .. n : s[i] = line[i]
      BY <1>4, <3>1, <3>3
    <3>5. ASSUME NEW i \in 1 .. n
          PROVE  line[i] # "\n"
      <4>1. i \in 1 .. Len(line) /\ i # Len(line)
        BY <2>1, <3>4
      <4> QED
        BY <1>3, <4>1
    <3>6. n \in 0 .. Len(line)
      BY <2>1, <3>4
    <3> QED
      BY <2>1, <2>3, <3>4, <3>5, <3>6
  <2>4. CASE line[m + 1] # "\n"
    <3>1. line[m + 1] \notin {"\n", "\r"}
      BY <1>3, <2>2, <2>4
    <3>2. Last(line) \notin {"\n", "\r"}
      BY <2>1, <3>1 DEF Last
    <3>3. s = line
      BY <1>1, <3>2 DEF Stripped
    <3>4. n = m + 1 /\ n \in Nat /\ Len(line) = n /\ n \in 0 .. Len(line)
      BY <1>4, <2>1, <3>3
    <3>5. \A i \in 1 .. n : line[i] # "\n"
      <4> TAKE i \in 1 .. n
      <4>1. i \in 1 .. Len(line) /\ (i = Len(line) => i = m + 1)
        BY <2>1, <3>4
      <4> QED
        BY <1>3, <2>4, <4>1
    <3> QED
      BY <1>3, <3>3, <3>4, <3>5
  <2> QED
    BY <2>3, <2>4
<1>6. /\ r \in Seq(Char) /\ r # <<>> /\ Len(r) = n + 1 /\ r[n + 1] = "\n"
      /\ \A i \in 1 .. n : r[i] = s[n + 1 - i]
  BY <1>1, <1>4, <1>5, BackwardsIs
<1>7. ASSUME NEW i \in 1 .. n
      PROVE  r[i] = line[n + 1 - i] /\ r[i] # "\n"
  <2>1. n + 1 - i \in 1 .. n
    BY <1>5
  <2>2. s[n + 1 - i] = line[n + 1 - i]
    BY <1>5, <2>1
  <2> QED
    BY <1>5, <1>6, <2>1, <2>2
<1>8. Mirrors(r, line)
  <2>1. n \in 0 .. Len(line)
    BY <1>5
  <2>2. Len(r) = n + 1 /\ r[n + 1] = "\n"
    BY <1>6
  <2>3. Len(line) = n \/ (Len(line) = n + 1 /\ line[n + 1] = "\n")
    BY <1>5
  <2>4. \A i \in 1 .. n : r[i] = line[n + 1 - i] /\ r[i] # "\n"
    BY <1>7
  <2> QED
    BY <2>1, <2>2, <2>3, <2>4 DEF Mirrors
<1> QED
  BY <1>2, <1>6, <1>8

-----------------------------------------------------------------------------
\* A process has a connection: it reads from the one pipe and writes to the other.
Serving == {"rs.create", "rst.recv"}
Asking == {"rc.send", "rc.recv"}
Wire(x, u, d) ==
  /\ u \in 1 .. Pipes /\ d \in 1 .. Pipes /\ u # d
  /\ \/ x.pc = "rs.create" /\ x.fd = Piped(u, d)
     \/ x.pc = "rst.recv" /\ x.fd = Socket(u, d)
     \/ x.pc \in Asking /\ x.fd = Piped(d, u)

LEMMA WireHolds ==
  ASSUME NEW x, NEW u, NEW d, Wire(x, u, d)
  PROVE  /\ x.pc \in Serving => /\ EndsOf(x.fd) \subseteq {Tty, R(u), W(d)}
                                /\ R(u) \in EndsOf(x.fd) /\ W(d) \in EndsOf(x.fd)
                                /\ x.fd[R(0)] = R(u) /\ x.fd[W(0)] = W(d)
         /\ x.pc \in Asking => /\ EndsOf(x.fd) \subseteq {Tty, R(d), W(u)}
                               /\ R(d) \in EndsOf(x.fd) /\ W(u) \in EndsOf(x.fd)
                               /\ x.fd[R(0)] = R(d) /\ x.fd[W(0)] = W(u)
         /\ x.pc \in Serving \cup Asking /\ (x.pc \in Serving => x.pc \notin Asking)
<1>1. x.pc \in Serving \cup Asking /\ (x.pc \in Serving => x.pc \notin Asking)
  BY DEF Wire, Serving, Asking
<1>2. CASE x.fd = Piped(u, d) /\ x.pc \in Serving
  BY <1>1, <1>2, Opened, EndsAre
<1>3. CASE x.fd = Socket(u, d) /\ x.pc \in Serving
  BY <1>1, <1>3, Opened, EndsAre
<1>4. CASE x.fd = Piped(d, u) /\ x.pc \in Asking
  BY <1>1, <1>4, Opened, EndsAre
<1> QED
  BY <1>1, <1>2, <1>3, <1>4 DEF Wire, Serving

LEMMA WireOnce ==
  ASSUME NEW x, NEW u, NEW d, NEW v, NEW e, Wire(x, u, d), Wire(x, v, e)
  PROVE  u = v /\ d = e
<1>1. x.pc \in Serving => R(u) = R(v) /\ W(d) = W(e)
  BY WireHolds
<1>2. x.pc \in Asking => R(d) = R(e) /\ W(u) = W(v)
  BY WireHolds
<1>3. x.pc \in Serving \cup Asking
  BY WireHolds
<1> QED
  BY <1>1, <1>2, <1>3, Names

\* Two processes have the two sides of a connection, or no pipe in common.
Across(x, u, d, y, v, e) ==
  \/ {u, d} \cap {v, e} = {}
  \/ u = v /\ d = e /\ (x.pc \in Serving <=> y.pc \in Asking)
Apart(t) ==
  \A p, q \in Pids : \A u, d, v, e :
    p # q /\ Wire(t[p], u, d) /\ Wire(t[q], v, e) => Across(t[p], u, d, t[q], v, e)

Served(t, u, d) == \E s \in Pids : t[s].pc \in Serving /\ Wire(t[s], u, d)

\* What is in the pipes of a client: nothing until it has sent its line, and then the
\* line for the one who serves it, or the answer.
Sending(x, u, d, t, q, f) ==
  /\ x.pc = "rc.send" /\ q[u] = <<>> /\ q[d] = <<>>
  /\ Served(t, u, d) \/ "fork" \in f
Waiting(x, u, d, t, q, f) ==
  /\ x.pc = "rc.recv" /\ x.mem.line \in Typed /\ q[u] = x.mem.line /\ q[d] = <<>>
  /\ Served(t, u, d) \/ "fork" \in f
Answered(x, u, d, q) ==
  /\ x.pc = "rc.recv" /\ x.mem.line \in Typed /\ q[u] = <<>> /\ q[d] = Reversed(x.mem.line)
InTouch(x, u, d, t, q, f) ==
  Sending(x, u, d, t, q, f) \/ Waiting(x, u, d, t, q, f) \/ Answered(x, u, d, q)
Shows(x, f) ==
  Mirrors(x.mem.shown, x.mem.line) \/ (x.mem.shown = <<>> /\ "fork" \in f)
RevData(t, q, f) ==
  \A p \in Pids :
    /\ t[p].pc = "rc.end" => Shows(t[p], f)
    /\ \A u, d : Wire(t[p], u, d) /\ t[p].pc \in Asking => InTouch(t[p], u, d, t, q, f)

\* The threads there are and those that can still come; and the clients.
Threads(t) == {p \in Pids : t[p].pc \in {"rst.recv", "rc.connect"}}
Clients(t) == {p \in Pids : t[p].pc \in {"rc.connect", "rc.send", "rc.recv", "rc.end"}}
Enough(t) ==
  /\ Cardinality(Threads(t)) + (IF t[1].pc = "rs.create" THEN 1 ELSE 0) <= ReverseClients
  /\ Cardinality(Clients(t)) <= ReverseClients

Wired(t) ==
  /\ t[1].pc \in {"rs.accept", "rs.create"}
  /\ \A p \in Pids :
       /\ t[p].parent = 0
       /\ p # 1 => t[p].pc \in {"free", "rst.recv", "rc.connect", "rc.send", "rc.recv", "rc.end"}
       /\ t[p].pc \in {"rs.accept", "rc.connect"} => t[p].fd = Terminal
       /\ t[p].pc \in {"free", "rc.end"} => t[p].fd = <<>>
       /\ t[p].pc \in Serving \cup Asking => \E u, d : Wire(t[p], u, d)

RevInv(t, q, f) ==
  /\ Table(t) /\ Wired(t) /\ Apart(t) /\ Enough(t) /\ DOMAIN q = 1 .. Pipes
  /\ "split" \notin f => RevData(t, q, f)

\* The counts are numbers.
LEMMA CountsAre ==
  ASSUME NEW t
  PROVE  /\ IsFiniteSet(Threads(t)) /\ Cardinality(Threads(t)) \in Nat
         /\ IsFiniteSet(Clients(t)) /\ Cardinality(Clients(t)) \in Nat
<1>1. IsFiniteSet(Pids)
  BY UnixAssumption, FS_Interval DEF Pids
<1>2. Threads(t) \in SUBSET Pids /\ Clients(t) \in SUBSET Pids
  BY DEF Threads, Clients
<1>3. IsFiniteSet(Threads(t)) /\ IsFiniteSet(Clients(t))
  BY <1>1, <1>2, FS_Subset
<1> QED
  BY <1>3, FS_CardinalityType

LEMMA EnoughStays ==
  ASSUME NEW t, NEW u, Enough(t), Threads(u) \subseteq Threads(t), Clients(u) \subseteq Clients(t),
         u[1].pc = "rs.create" => t[1].pc = "rs.create"
  PROVE  Enough(u)
<1>1. PICK a, b, c, d : /\ a = Cardinality(Threads(t)) /\ b = Cardinality(Threads(u))
                        /\ c = Cardinality(Clients(t)) /\ d = Cardinality(Clients(u))
  OBVIOUS
<1>2. a \in Nat /\ b \in Nat /\ c \in Nat /\ d \in Nat
  BY <1>1, CountsAre
<1>3. b <= a /\ d <= c
  BY <1>1, CountsAre, FS_Subset
<1>4. a + (IF t[1].pc = "rs.create" THEN 1 ELSE 0) <= ReverseClients /\ c <= ReverseClients
  BY <1>1 DEF Enough
<1>5. ReverseClients \in Nat
  BY ReverseAssumption
<1>6. b + (IF u[1].pc = "rs.create" THEN 1 ELSE 0) <= ReverseClients /\ d <= ReverseClients
  BY <1>2, <1>3, <1>4, <1>5
<1> QED
  BY <1>1, <1>6 DEF Enough

\* The server finds room for a thread.
LEMMA RoomForThread ==
  ASSUME Wired(proc), Enough(proc), proc[1].pc = "rs.create"
  PROVE  CanFork
<1> SUFFICES ASSUME ~CanFork
             PROVE  FALSE
  OBVIOUS
<1>1. PICK A, B : A = Threads(proc) /\ B = Clients(proc)
  OBVIOUS
<1>2. Pids \subseteq (A \cup B) \cup {1}
  BY <1>1 DEF Wired, CanFork, Threads, Clients
<1>3. PICK a, b : a = Cardinality(A) /\ b = Cardinality(B)
  OBVIOUS
<1>4. IsFiniteSet(A) /\ IsFiniteSet(B) /\ a \in Nat /\ b \in Nat
  BY <1>1, <1>3, CountsAre
<1>5. IsFiniteSet(A \cap B) /\ Cardinality(A \cap B) \in Nat
  <2>1. A \cap B \in SUBSET A
    OBVIOUS
  <2> QED
    BY <1>4, <2>1, FS_Subset, FS_CardinalityType
<1>6. IsFiniteSet(A \cup B) /\ Cardinality(A \cup B) = a + b - Cardinality(A \cap B)
  BY <1>3, <1>4, FS_Union
<1>7. PICK U, n : U = A \cup B /\ n = Cardinality(U)
  OBVIOUS
<1>8. IsFiniteSet(U) /\ n \in Nat /\ n <= a + b
  <2>1. IsFiniteSet(U) /\ n = a + b - Cardinality(A \cap B)
    BY <1>6, <1>7
  <2>2. n \in Nat
    BY <1>7, <2>1, FS_CardinalityType
  <2> QED
    BY <1>4, <1>5, <2>1, <2>2
<1>9. PICK V, m : V = U \cup {1} /\ m = Cardinality(V)
  OBVIOUS
<1>10. IsFiniteSet(V) /\ m \in Nat /\ m <= n + 1
  <2>1. IsFiniteSet(V) /\ m = IF 1 \in U THEN n ELSE n + 1
    BY <1>7, <1>8, <1>9, FS_AddElement
  <2> QED
    BY <1>8, <2>1
<1>11. Cardinality(Pids) = Processes
  BY UnixAssumption, FS_Interval DEF Pids
<1>12. Cardinality(Pids) <= m
  <2>1. Pids \in SUBSET V
    BY <1>2, <1>7, <1>9
  <2> QED
    BY <1>9, <1>10, <2>1, FS_Subset
<1>13. a + 1 <= ReverseClients /\ b <= ReverseClients
  BY <1>1, <1>3 DEF Enough
<1>14. ReverseClients \in Nat /\ 2 * ReverseClients < Processes /\ Processes \in Nat
  BY ReverseAssumption, UnixAssumption
<1>15. Processes <= a + b + 1
  BY <1>4, <1>8, <1>10, <1>11, <1>12, <1>14
<1>16. a + b + 1 <= 2 * ReverseClients
  BY <1>4, <1>13, <1>14
<1> QED
  BY <1>4, <1>14, <1>15, <1>16

\* Wires only move from one process to another: what q has in u was what m[q] had in t.
Moved(t, u, m) ==
  /\ m \in [Pids -> Pids]
  /\ \A q \in Pids : \A a, b : Wire(u[q], a, b) =>
       Wire(t[m[q]], a, b) /\ (t[m[q]].pc \in Serving <=> u[q].pc \in Serving)
  /\ \A q, r \in Pids : q # r /\ u[q].pc \in Serving \cup Asking
                              /\ u[r].pc \in Serving \cup Asking => m[q] # m[r]

LEMMA ApartStays ==
  ASSUME NEW t, NEW u, Apart(t), NEW m, Moved(t, u, m)
  PROVE  Apart(u)
<1> SUFFICES ASSUME NEW p \in Pids, NEW q \in Pids, NEW a, NEW b, NEW c, NEW d,
                    p # q, Wire(u[p], a, b), Wire(u[q], c, d)
             PROVE  Across(u[p], a, b, u[q], c, d)
  BY DEF Apart
<1>1. u[p].pc \in Serving \cup Asking /\ u[q].pc \in Serving \cup Asking
  BY WireHolds
<1>2. m[p] # m[q] /\ m[p] \in Pids /\ m[q] \in Pids
  BY <1>1 DEF Moved
<1>3. /\ Wire(t[m[p]], a, b) /\ (t[m[p]].pc \in Serving <=> u[p].pc \in Serving)
      /\ Wire(t[m[q]], c, d) /\ (t[m[q]].pc \in Serving <=> u[q].pc \in Serving)
  BY DEF Moved
<1>4. Across(t[m[p]], a, b, t[m[q]], c, d)
  BY <1>2, <1>3 DEF Apart
<1>5. /\ u[q].pc \in Asking <=> u[q].pc \notin Serving
      /\ t[m[q]].pc \in Asking <=> t[m[q]].pc \notin Serving
  BY <1>1, <1>3, WireHolds
<1> QED
  BY <1>3, <1>4, <1>5 DEF Across

LEMMA ApartFewer ==
  ASSUME NEW t, NEW u, Apart(t), NEW p \in Pids, \A q \in Pids : q # p => u[q] = t[q],
         \A a, b : Wire(u[p], a, b) =>
           Wire(t[p], a, b) /\ (t[p].pc \in Serving <=> u[p].pc \in Serving)
  PROVE  Apart(u)
<1>1. PICK m : m = [q \in Pids |-> q]
  OBVIOUS
<1>2. m \in [Pids -> Pids] /\ \A q \in Pids : m[q] = q
  BY <1>1
<1>3. ASSUME NEW q \in Pids, NEW a, NEW b, Wire(u[q], a, b)
      PROVE  Wire(t[m[q]], a, b) /\ (t[m[q]].pc \in Serving <=> u[q].pc \in Serving)
  BY <1>2, <1>3
<1>4. Moved(t, u, m)
  BY <1>2, <1>3 DEF Moved
<1> QED
  BY <1>4, ApartStays

\* What a client is in touch with stays as it is.
LEMMA StaysInTouch ==
  ASSUME NEW x, NEW u, NEW d, NEW t, NEW q, NEW f, InTouch(x, u, d, t, q, f),
         NEW t2, NEW q2, NEW f2, q2[u] = q[u], q2[d] = q[d], f \subseteq f2,
         Served(t, u, d) => Served(t2, u, d) \/ "fork" \in f2
  PROVE  InTouch(x, u, d, t2, q2, f2)
<1>1. Served(t, u, d) \/ "fork" \in f => Served(t2, u, d) \/ "fork" \in f2
  OBVIOUS
<1>2. Sending(x, u, d, t, q, f) => Sending(x, u, d, t2, q2, f2)
  BY <1>1 DEF Sending
<1>3. Waiting(x, u, d, t, q, f) => Waiting(x, u, d, t2, q2, f2)
  BY <1>1 DEF Waiting
<1>4. Answered(x, u, d, q) => Answered(x, u, d, q2)
  BY DEF Answered
<1> QED
  BY <1>2, <1>3, <1>4 DEF InTouch

LEMMA NewPipesApart ==
  ASSUME NEW k, Unused(k), NEW p \in Pids, NEW u, NEW d, Wire(proc[p], u, d)
  PROVE  k # u /\ k # d
<1>1. ~HeldIn(proc, R(k)) /\ ~HeldIn(proc, W(k))
  BY DEF Unused
<1>2. \A e : e \in EndsOf(proc[p].fd) => HeldIn(proc, e)
  BY HeldIs
<1> QED
  BY <1>1, <1>2, WireHolds

\* Two processes get a connection.
Joined(t, p, c, u, d, l, k) ==
  [Connect(t, p, c, u, d) EXCEPT ![p].pc = l, ![c].pc = k]

LEMMA ConnectIs ==
  ASSUME NEW t, Table(t), NEW p \in Pids, NEW c \in Pids, p # c, NEW u, NEW d,
         t[p].fd = Terminal, t[c].fd = Terminal, NEW v, v = Connect(t, p, c, u, d)
  PROVE  /\ Table(v) /\ \A q \in Pids : q \notin {p, c} => v[q] = t[q]
         /\ v[p].pc = t[p].pc /\ v[p].fd = Piped(u, d) /\ v[p].parent = t[p].parent
         /\ v[p].mem = t[p].mem
         /\ v[c].pc = t[c].pc /\ v[c].fd = Piped(d, u) /\ v[c].parent = t[c].parent
         /\ v[c].mem = t[c].mem
<1>1. PICK f, g : f = Piped(u, d) /\ g = Piped(d, u)
  OBVIOUS
<1> DEFINE With(fd, r, w) == [n \in DOMAIN fd \cup {R(0), W(0)} |->
             IF n = R(0) THEN R(r) ELSE IF n = W(0) THEN W(w) ELSE fd[n]]
<1>2. Connect(t, p, c, u, d) = [t EXCEPT ![p].fd = With(t[p].fd, u, d), ![c].fd = With(t[c].fd, d, u)]
  BY DEF Connect, Table
<1>3. ASSUME NEW r, NEW w
      PROVE  With(Terminal, r, w) = Piped(r, w)
  <2>1. DOMAIN Terminal \cup {R(0), W(0)} = {In, Out, R(0), W(0)}
    BY Opened
  <2>2. Terminal[In] = Tty /\ Terminal[Out] = Tty
    BY Opened
  <2> QED
    BY <2>1, <2>2 DEF Piped
<1> HIDE DEF With
<1>4. Connect(t, p, c, u, d) = [t EXCEPT ![p].fd = f, ![c].fd = g]
  <2>1. With(t[p].fd, u, d) = f /\ With(t[c].fd, d, u) = g
    BY <1>1, <1>3
  <2> QED
    BY <1>2, <2>1
<1>5. PICK x, y, t1 : /\ x = [t[p] EXCEPT !.fd = f] /\ y = [t[c] EXCEPT !.fd = g]
                      /\ t1 = [t EXCEPT ![p] = x]
  OBVIOUS
<1>6. PICK t2 : t2 = [t1 EXCEPT ![c] = y]
  OBVIOUS
<1>7. Becomes(t, t1, p, t[p].pc, t[p].parent, f, t[p].mem)
  BY <1>5, FdIs
<1>8. t1[c] = t[c] /\ Table(t1)
  BY <1>7 DEF Becomes
<1>9. Becomes(t1, t2, c, t1[c].pc, t1[c].parent, g, t1[c].mem)
  BY <1>5, <1>6, <1>8, FdIs
<1>10. t2 = Connect(t, p, c, u, d)
  <2>1. t1 = [t EXCEPT ![p].fd = f]
    BY <1>5
  <2>2. [t EXCEPT ![p].fd = f, ![c].fd = g] = [t1 EXCEPT ![c].fd = g]
    BY <2>1
  <2>3. [t1 EXCEPT ![c].fd = g] = [t1 EXCEPT ![c] = [t1[c] EXCEPT !.fd = g]]
    OBVIOUS
  <2> QED
    BY <1>4, <1>5, <1>6, <1>8, <2>2, <2>3
<1>11. v = t2
  BY <1>10
<1>12. Table(t2) /\ t2[p] = t1[p] /\ \A q \in Pids : q \notin {p, c} => t2[q] = t[q]
  BY <1>7, <1>9 DEF Becomes
<1>13. /\ t2[p].pc = t[p].pc /\ t2[p].fd = f /\ t2[p].parent = t[p].parent /\ t2[p].mem = t[p].mem
  BY <1>7, <1>12 DEF Becomes
<1>14. /\ t2[c].pc = t[c].pc /\ t2[c].fd = g /\ t2[c].parent = t[c].parent /\ t2[c].mem = t[c].mem
  BY <1>8, <1>9 DEF Becomes
<1> QED
  BY <1>1, <1>11, <1>12, <1>13, <1>14

LEMMA ConnectedIs ==
  ASSUME NEW t, Table(t), NEW p \in Pids, NEW c \in Pids, p # c, NEW u, NEW d, NEW l, NEW k,
         t[p].fd = Terminal, t[c].fd = Terminal, NEW v,
         v = Joined(t, p, c, u, d, l, k)
  PROVE  /\ Table(v) /\ \A q \in Pids : q \notin {p, c} => v[q] = t[q]
         /\ v[p].pc = l /\ v[p].fd = Piped(u, d) /\ v[p].parent = t[p].parent
         /\ v[p].mem = t[p].mem
         /\ v[c].pc = k /\ v[c].fd = Piped(d, u) /\ v[c].parent = t[c].parent
         /\ v[c].mem = t[c].mem
<1>1. PICK w : w = Connect(t, p, c, u, d)
  OBVIOUS
<1>2. /\ Table(w) /\ \A q \in Pids : q \notin {p, c} => w[q] = t[q]
      /\ w[p].pc = t[p].pc /\ w[p].fd = Piped(u, d) /\ w[p].parent = t[p].parent
      /\ w[p].mem = t[p].mem
      /\ w[c].pc = t[c].pc /\ w[c].fd = Piped(d, u) /\ w[c].parent = t[c].parent
      /\ w[c].mem = t[c].mem
  BY <1>1, ConnectIs
<1>3. PICK x : x = Goto(w, p, l)
  OBVIOUS
<1>4. Becomes(w, x, p, l, w[p].parent, w[p].fd, w[p].mem)
  BY <1>2, <1>3, GotoIs
<1>5. v = Goto(x, c, k)
  BY <1>1, <1>3 DEF Goto, Joined
<1>6. Table(x)
  BY <1>4 DEF Becomes
<1>7. Becomes(x, v, c, k, x[c].parent, x[c].fd, x[c].mem)
  BY <1>5, <1>6, GotoIs
<1> QED
  BY <1>2, <1>4, <1>7 DEF Becomes

LEMMA RsAcceptInv ==
  ASSUME RevInv(proc, pipe, failed), NEW p \in Pids, RsAccept(p)
  PROVE  RevInv(proc', pipe', failed')
<1>1. /\ Table(proc) /\ Wired(proc) /\ Apart(proc) /\ Enough(proc) /\ DOMAIN pipe = 1 .. Pipes
  BY DEF RevInv
<1>2. p = 1 /\ proc[1].pc = "rs.accept" /\ 1 \in Pids
  BY <1>1, FsPids DEF RsAccept, AtLabel, Wired
<1>3. PICK u, d : u = NewPipe /\ d = OtherPipe
  OBVIOUS
<1>4. PICK c \in Pids :
        /\ proc[c].pc = "rc.connect"
        /\ proc' = Joined(proc, 1, c, u, d, "rs.create", "rc.send")
  BY <1>2, <1>3 DEF RsAccept, AtLabel, Joined
<1>5. PICK v, q : v = proc' /\ q = pipe'
  OBVIOUS
<1>6. c # 1 /\ proc[c].fd = Terminal /\ proc[1].fd = Terminal
  BY <1>1, <1>2, <1>4 DEF Wired
<1>7. /\ Table(v) /\ \A x \in Pids : x \notin {1, c} => v[x] = proc[x]
      /\ v[1].pc = "rs.create" /\ v[1].fd = Piped(u, d) /\ v[1].parent = proc[1].parent
      /\ v[c].pc = "rc.send" /\ v[c].fd = Piped(d, u) /\ v[c].parent = proc[c].parent
  BY <1>1, <1>2, <1>4, <1>5, <1>6, ConnectedIs
<1>8. u \in 1 .. Pipes /\ d \in 1 .. Pipes /\ u # d /\ Unused(u) /\ Unused(d)
  BY <1>3, ConnectionIs DEF RsAccept
<1>9. Wire(v[1], u, d) /\ Wire(v[c], u, d)
  BY <1>7, <1>8 DEF Wire, Asking
<1>10. Wired(v)
  <2>1. \A x \in Pids : v[x].parent = 0
    BY <1>1, <1>7 DEF Wired
  <2>2. ASSUME NEW x \in Pids, x \notin {1, c}
        PROVE  /\ v[x].pc \in {"free", "rst.recv", "rc.connect", "rc.send", "rc.recv", "rc.end"}
               /\ v[x].pc \in {"rs.accept", "rc.connect"} => v[x].fd = Terminal
               /\ v[x].pc \in {"free", "rc.end"} => v[x].fd = <<>>
               /\ v[x].pc \in Serving \cup Asking => \E a, b : Wire(v[x], a, b)
    <3>1. v[x] = proc[x]
      BY <1>7, <2>2
    <3> QED
      BY <1>1, <2>2, <3>1 DEF Wired
  <2> QED
    BY <1>7, <1>9, <2>1, <2>2 DEF Wired
<1>11. Apart(v)
  <2> SUFFICES ASSUME NEW x \in Pids, NEW y \in Pids, NEW a, NEW b, NEW e, NEW g,
                      x # y, Wire(v[x], a, b), Wire(v[y], e, g)
               PROVE  Across(v[x], a, b, v[y], e, g)
    BY DEF Apart
  <2>1. ASSUME NEW z \in Pids, NEW k, NEW l, Wire(v[z], k, l)
        PROVE  /\ z \in {1, c} => k = u /\ l = d
               /\ z \notin {1, c} => {k, l} \cap {u, d} = {} /\ v[z] = proc[z] /\ Wire(proc[z], k, l)
    <3>1. z \in {1, c} => k = u /\ l = d
      BY <1>9, <2>1, WireOnce
    <3>2. z \notin {1, c} => v[z] = proc[z]
      BY <1>7
    <3> QED
      BY <1>8, <2>1, <3>1, <3>2, NewPipesApart
  <2>2. CASE x \in {1, c} /\ y \in {1, c}
    BY <1>7, <2>1, <2>2 DEF Across, Serving, Asking
  <2>3. CASE x \in {1, c} /\ y \notin {1, c}
    BY <2>1, <2>3 DEF Across
  <2>4. CASE x \notin {1, c} /\ y \in {1, c}
    BY <2>1, <2>4 DEF Across
  <2>5. CASE x \notin {1, c} /\ y \notin {1, c}
    <3>1. v[x] = proc[x] /\ Wire(proc[x], a, b) /\ v[y] = proc[y] /\ Wire(proc[y], e, g)
      BY <2>1, <2>5
    <3>2. Across(proc[x], a, b, proc[y], e, g)
      BY <1>1, <3>1 DEF Apart
    <3> QED
      BY <3>1, <3>2
  <2> QED
    BY <2>2, <2>3, <2>4, <2>5
<1>12. Enough(v)
  <2>1. Threads(v) = Threads(proc) \ {c} /\ c \in Threads(proc)
    <3>1. \A x \in Pids : x \in Threads(v) <=> x \in Threads(proc) /\ x # c
      BY <1>2, <1>4, <1>7 DEF Threads
    <3>2. \A x : x \in Threads(v) \/ x \in Threads(proc) => x \in Pids
      BY DEF Threads
    <3>3. c \in Threads(proc)
      BY <1>4 DEF Threads
    <3> QED
      BY <3>1, <3>2, <3>3
  <2>2. Clients(v) \subseteq Clients(proc)
    BY <1>2, <1>4, <1>7 DEF Clients
  <2>3. PICK a, b, k, l : /\ a = Cardinality(Threads(proc)) /\ b = Cardinality(Threads(v))
                          /\ k = Cardinality(Clients(proc)) /\ l = Cardinality(Clients(v))
    OBVIOUS
  <2>4. a \in Nat /\ b \in Nat /\ k \in Nat /\ l \in Nat
    BY <2>3, CountsAre
  <2>5. b = a - 1
    BY <2>1, <2>3, CountsAre, FS_RemoveElement
  <2>6. l <= k
    BY <2>2, <2>3, CountsAre, FS_Subset
  <2>7. a + 0 <= ReverseClients /\ k <= ReverseClients
    BY <1>1, <1>2, <2>3 DEF Enough
  <2>8. b + 1 <= ReverseClients /\ l <= ReverseClients
    BY <2>4, <2>5, <2>6, <2>7, ReverseAssumption
  <2> QED
    BY <1>7, <2>3, <2>8 DEF Enough
<1>13. q = [pipe EXCEPT ![u] = <<>>, ![d] = <<>>] /\ failed' = failed
  BY <1>3, <1>5 DEF RsAccept
<1>14. /\ DOMAIN q = 1 .. Pipes /\ q[u] = <<>> /\ q[d] = <<>>
       /\ \A k : k \in 1 .. Pipes /\ k \notin {u, d} => q[k] = pipe[k]
  BY <1>1, <1>8, <1>13
<1>15. ASSUME "split" \notin failed
       PROVE  RevData(v, q, failed)
  <2>1. RevData(proc, pipe, failed)
    BY <1>15 DEF RevInv
  <2>2. \A x \in Pids : v[x].pc = "rc.end" => Shows(v[x], failed)
    <3> TAKE x \in Pids
    <3>1. CASE x \in {1, c}
      BY <1>7, <3>1
    <3>2. CASE x \notin {1, c}
      BY <1>7, <2>1, <3>2 DEF RevData
    <3> QED
      BY <3>1, <3>2
  <2>3. ASSUME NEW x \in Pids, NEW a, NEW b, Wire(v[x], a, b), v[x].pc \in Asking
        PROVE  InTouch(v[x], a, b, v, q, failed)
    <3>1. CASE x \in {1, c}
      <4>1. x = c /\ a = u /\ b = d
        BY <1>7, <1>9, <2>3, <3>1, WireOnce DEF Asking
      <4>2. Served(v, u, d)
        BY <1>2, <1>7, <1>9 DEF Served, Serving
      <4>3. Sending(v[c], u, d, v, q, failed)
        BY <1>7, <1>14, <4>2 DEF Sending
      <4> QED
        BY <4>1, <4>3 DEF InTouch
    <3>2. CASE x \notin {1, c}
      <4>1. v[x] = proc[x]
        BY <1>7, <3>2
      <4>2. InTouch(proc[x], a, b, proc, pipe, failed)
        BY <2>1, <2>3, <4>1 DEF RevData
      <4>3. a \notin {u, d} /\ b \notin {u, d} /\ a \in 1 .. Pipes /\ b \in 1 .. Pipes
        BY <1>8, <2>3, <4>1, NewPipesApart DEF Wire
      <4>4. q[a] = pipe[a] /\ q[b] = pipe[b]
        BY <1>14, <4>3
      <4>5. ASSUME Served(proc, a, b)
            PROVE  Served(v, a, b)
        <5>1. PICK s \in Pids : proc[s].pc \in Serving /\ Wire(proc[s], a, b)
          BY <4>5 DEF Served
        <5>2. s \notin {1, c}
          BY <1>2, <1>4, <5>1 DEF Serving
        <5>3. v[s] = proc[s]
          BY <1>7, <5>2
        <5> QED
          BY <5>1, <5>3 DEF Served
      <4> QED
        BY <4>1, <4>2, <4>4, <4>5, StaysInTouch
    <3> QED
      BY <3>1, <3>2
  <2> QED
    BY <2>2, <2>3 DEF RevData
<1>16. RevInv(v, q, failed)
  BY <1>7, <1>10, <1>11, <1>12, <1>14, <1>15 DEF RevInv
<1> QED
  BY <1>5, <1>13, <1>16

LEMMA HandedOver ==
  ASSUME NEW u, NEW d
  PROVE  Restrict(Piped(u, d), {R(0), W(0)}) = Socket(u, d)
<1>1. Piped(u, d)[R(0)] = R(u) /\ Piped(u, d)[W(0)] = W(d) /\ R(0) # W(0)
  BY Opened, Names
<1>2. Restrict(Piped(u, d), {R(0), W(0)}) = [n \in {R(0), W(0)} |-> Piped(u, d)[n]]
  BY DEF Restrict
<1> QED
  BY <1>1, <1>2 DEF Socket

LEMMA HangUpIs ==
  ASSUME NEW t, Table(t), NEW p \in Pids, NEW u, NEW d, t[p].fd = Piped(u, d), NEW l
  PROVE  Becomes(t, Goto(HangUp(t, p), p, l), p, l, t[p].parent, Terminal, t[p].mem)
<1>1. PICK x : x = HangUp(t, p)
  OBVIOUS
<1>2. Restrict(t[p].fd, DOMAIN t[p].fd \ {R(0), W(0)}) = Terminal
  BY Closed
<1>3. Becomes(t, x, p, t[p].pc, t[p].parent, Terminal, t[p].mem)
  BY <1>1, <1>2, CloseIs DEF HangUp
<1>4. PICK y : y = Goto(x, p, l)
  OBVIOUS
<1>5. Becomes(x, y, p, l, x[p].parent, x[p].fd, x[p].mem)
  BY <1>3, <1>4, GotoIs DEF Becomes
<1>6. Becomes(t, y, p, l, t[p].parent, Terminal, t[p].mem)
  BY <1>3, <1>5 DEF Becomes
<1> QED
  BY <1>1, <1>4, <1>6

\* The server hands the connection to a thread.
ThreadOf(fd) == [Free EXCEPT !.pc = "rst.recv", !.fd = Restrict(fd, {R(0), W(0)})]
HandOver(t, n) == [Goto(HangUp(t, 1), 1, "rs.accept") EXCEPT ![n] = ThreadOf(t[1].fd)]

LEMMA RsThreadInv ==
  ASSUME RevInv(proc, pipe, failed), proc[1].pc = "rs.create", NEW n \in Pids, proc[n].pc = "free",
         NEW v, v = HandOver(proc, n)
  PROVE  RevInv(v, pipe, failed)
<1>1. /\ Table(proc) /\ Wired(proc) /\ Apart(proc) /\ Enough(proc) /\ DOMAIN pipe = 1 .. Pipes
  BY DEF RevInv
<1>2. 1 \in Pids /\ n # 1
  BY FsPids
<1>3. PICK u, d : Wire(proc[1], u, d)
  BY <1>1, <1>2 DEF Wired, Serving
<1>4. proc[1].fd = Piped(u, d)
  BY <1>3 DEF Wire, Asking
<1>0. PICK back, x : back = Goto(HangUp(proc, 1), 1, "rs.accept") /\ x = ThreadOf(proc[1].fd)
  OBVIOUS
<1>5. Becomes(proc, back, 1, "rs.accept", proc[1].parent, Terminal, proc[1].mem)
  BY <1>0, <1>1, <1>2, <1>4, HangUpIs
<1>6. PICK s : s = Socket(u, d)
  OBVIOUS
<1>7. x = [Free EXCEPT !.pc = "rst.recv", !.fd = s]
  BY <1>0, <1>4, <1>6, HandedOver DEF ThreadOf
<1>8. Record(x) /\ x.pc = "rst.recv" /\ x.parent = 0 /\ x.fd = Socket(u, d)
  BY <1>6, <1>7 DEF Free, Record
<1>9. /\ Table(v) /\ v[n] = x /\ v[1].pc = "rs.accept" /\ v[1].fd = Terminal
      /\ v[1].parent = proc[1].parent
      /\ \A q \in Pids : q \notin {1, n} => v[q] = proc[q]
  BY <1>0, <1>2, <1>5, <1>8 DEF Becomes, Table, HandOver
<1>10. Wire(v[n], u, d)
  BY <1>3, <1>8, <1>9 DEF Wire
<1>11. Wired(v)
  <2>1. \A q \in Pids : v[q].parent = 0
    BY <1>1, <1>2, <1>8, <1>9 DEF Wired
  <2>2. ASSUME NEW q \in Pids, q \notin {1, n}
        PROVE  /\ v[q].pc \in {"free", "rst.recv", "rc.connect", "rc.send", "rc.recv", "rc.end"}
               /\ v[q].pc \in {"rs.accept", "rc.connect"} => v[q].fd = Terminal
               /\ v[q].pc \in {"free", "rc.end"} => v[q].fd = <<>>
               /\ v[q].pc \in Serving \cup Asking => \E a, b : Wire(v[q], a, b)
    <3>1. v[q] = proc[q]
      BY <1>9, <2>2
    <3> QED
      BY <1>1, <2>2, <3>1 DEF Wired
  <2>3. v[n].pc = "rst.recv"
    BY <1>8, <1>9
  <2> QED
    BY <1>9, <1>10, <2>1, <2>2, <2>3 DEF Wired, Serving, Asking
<1>12. Apart(v)
  <2>1. PICK m : m = [q \in Pids |-> IF q = n THEN 1 ELSE q]
    OBVIOUS
  <2>2. m \in [Pids -> Pids] /\ m[n] = 1 /\ \A q \in Pids : q # n => m[q] = q
    BY <1>2, <2>1
  <2>3. \A a, b : ~Wire(v[1], a, b)
    BY <1>9, WireHolds DEF Serving, Asking
  <2>4. ASSUME NEW q \in Pids, NEW a, NEW b, Wire(v[q], a, b)
        PROVE  Wire(proc[m[q]], a, b) /\ (proc[m[q]].pc \in Serving <=> v[q].pc \in Serving)
    <3>1. CASE q = n
      <4>1. a = u /\ b = d
        BY <1>10, <2>4, <3>1, WireOnce
      <4> QED
        BY <1>3, <1>8, <1>9, <2>2, <3>1, <4>1 DEF Serving
    <3>2. CASE q # n
      BY <1>9, <2>2, <2>3, <2>4, <3>2
    <3> QED
      BY <3>1, <3>2
  <2>5. ASSUME NEW q \in Pids, NEW r \in Pids, q # r, v[q].pc \in Serving \cup Asking,
               v[r].pc \in Serving \cup Asking
        PROVE  m[q] # m[r]
    <3>1. q # 1 /\ r # 1
      BY <1>9, <2>5 DEF Serving, Asking
    <3> QED
      BY <2>2, <2>5, <3>1
  <2>6. Moved(proc, v, m)
    BY <2>2, <2>4, <2>5 DEF Moved
  <2> QED
    BY <1>1, <2>6, ApartStays
<1>13. Enough(v)
  <2>1. Threads(v) = Threads(proc) \cup {n} /\ n \notin Threads(proc)
    <3>1. \A q \in Pids : q \in Threads(v) <=> q \in Threads(proc) \/ q = n
      BY <1>8, <1>9 DEF Threads
    <3>2. \A q : q \in Threads(v) \/ q \in Threads(proc) => q \in Pids
      BY DEF Threads
    <3>3. n \notin Threads(proc)
      BY DEF Threads
    <3> QED
      BY <3>1, <3>2, <3>3
  <2>2. Clients(v) \subseteq Clients(proc)
    BY <1>8, <1>9 DEF Clients
  <2>3. PICK a, b, k, l : /\ a = Cardinality(Threads(proc)) /\ b = Cardinality(Threads(v))
                          /\ k = Cardinality(Clients(proc)) /\ l = Cardinality(Clients(v))
    OBVIOUS
  <2>4. a \in Nat /\ b \in Nat /\ k \in Nat /\ l \in Nat
    BY <2>3, CountsAre
  <2>5. b = a + 1
    BY <2>1, <2>3, CountsAre, FS_AddElement
  <2>6. l <= k
    BY <2>2, <2>3, CountsAre, FS_Subset
  <2>7. a + 1 <= ReverseClients /\ k <= ReverseClients
    BY <1>1, <2>3 DEF Enough
  <2>8. b + 0 <= ReverseClients /\ l <= ReverseClients
    BY <2>4, <2>5, <2>6, <2>7, ReverseAssumption
  <2> QED
    BY <1>9, <2>3, <2>8 DEF Enough
<1>14. ASSUME "split" \notin failed
       PROVE  RevData(v, pipe, failed)
  <2>1. RevData(proc, pipe, failed)
    BY <1>14 DEF RevInv
  <2>2. \A q \in Pids : v[q].pc = "rc.end" => Shows(v[q], failed)
    <3> TAKE q \in Pids
    <3>1. CASE q \in {1, n}
      BY <1>8, <1>9, <3>1
    <3>2. CASE q \notin {1, n}
      BY <1>9, <2>1, <3>2 DEF RevData
    <3> QED
      BY <3>1, <3>2
  <2>3. ASSUME NEW q \in Pids, NEW a, NEW b, Wire(v[q], a, b), v[q].pc \in Asking
        PROVE  InTouch(v[q], a, b, v, pipe, failed)
    <3>1. q \notin {1, n}
      BY <1>8, <1>9, <2>3 DEF Asking
    <3>2. v[q] = proc[q]
      BY <1>9, <3>1
    <3>3. InTouch(proc[q], a, b, proc, pipe, failed)
      BY <2>1, <2>3, <3>2 DEF RevData
    <3>4. ASSUME Served(proc, a, b)
          PROVE  Served(v, a, b)
      <4>1. PICK r \in Pids : proc[r].pc \in Serving /\ Wire(proc[r], a, b)
        BY <3>4 DEF Served
      <4>2. CASE r = 1
        <5>1. a = u /\ b = d
          BY <1>3, <4>1, <4>2, WireOnce
        <5> QED
          BY <1>8, <1>9, <1>10, <5>1 DEF Served, Serving
      <4>3. CASE r # 1
        <5>1. v[r] = proc[r]
          BY <1>9, <4>1, <4>3 DEF Serving
        <5> QED
          BY <4>1, <5>1 DEF Served
      <4> QED
        BY <4>2, <4>3
    <3> QED
      BY <3>2, <3>3, <3>4, StaysInTouch
  <2> QED
    BY <2>2, <2>3 DEF RevData
<1> QED
  BY <1>1, <1>9, <1>11, <1>12, <1>13, <1>14 DEF RevInv

\* It drops the client.
LEMMA RsDropInv ==
  ASSUME RevInv(proc, pipe, failed), proc[1].pc = "rs.create",
         NEW v, v = Goto(HangUp(proc, 1), 1, "rs.accept"), NEW f, f = failed \cup {"fork"}
  PROVE  RevInv(v, pipe, f)
<1>1. /\ Table(proc) /\ Wired(proc) /\ Apart(proc) /\ Enough(proc) /\ DOMAIN pipe = 1 .. Pipes
  BY DEF RevInv
<1>2. 1 \in Pids
  BY FsPids
<1>3. PICK u, d : Wire(proc[1], u, d)
  BY <1>1, <1>2 DEF Wired, Serving
<1>4. proc[1].fd = Piped(u, d)
  BY <1>3 DEF Wire, Asking
<1>5. Becomes(proc, v, 1, "rs.accept", proc[1].parent, Terminal, proc[1].mem)
  BY <1>1, <1>2, <1>4, HangUpIs
<1>6. /\ Table(v) /\ v[1].pc = "rs.accept" /\ v[1].fd = Terminal /\ v[1].parent = proc[1].parent
      /\ \A q \in Pids : q # 1 => v[q] = proc[q]
  BY <1>5 DEF Becomes
<1>7. Wired(v)
  <2>1. ASSUME NEW q \in Pids, q # 1
        PROVE  /\ v[q].pc \in {"free", "rst.recv", "rc.connect", "rc.send", "rc.recv", "rc.end"}
               /\ v[q].pc \in {"rs.accept", "rc.connect"} => v[q].fd = Terminal
               /\ v[q].pc \in {"free", "rc.end"} => v[q].fd = <<>>
               /\ v[q].pc \in Serving \cup Asking => \E a, b : Wire(v[q], a, b)
               /\ v[q].parent = 0
    <3>1. v[q] = proc[q]
      BY <1>6, <2>1
    <3> QED
      BY <1>1, <2>1, <3>1 DEF Wired
  <2>2. proc[1].parent = 0
    BY <1>1, <1>2 DEF Wired
  <2> QED
    BY <1>6, <2>1, <2>2 DEF Wired, Serving, Asking
<1>8. \A a, b : ~Wire(v[1], a, b)
  BY <1>6, WireHolds DEF Serving, Asking
<1>9. Apart(v)
  BY <1>1, <1>2, <1>6, <1>8, ApartFewer
<1>10. Enough(v)
  <2>1. Threads(v) \subseteq Threads(proc) /\ Clients(v) \subseteq Clients(proc)
    BY <1>6 DEF Threads, Clients
  <2> QED
    BY <1>1, <1>6, <2>1, EnoughStays
<1>11. ASSUME "split" \notin f
       PROVE  RevData(v, pipe, f)
  <2>1. RevData(proc, pipe, failed)
    BY <1>11 DEF RevInv
  <2>2. \A q \in Pids : v[q].pc = "rc.end" => Shows(v[q], f)
    BY <1>6, <2>1 DEF RevData, Shows
  <2>3. ASSUME NEW q \in Pids, NEW a, NEW b, Wire(v[q], a, b), v[q].pc \in Asking
        PROVE  InTouch(v[q], a, b, v, pipe, f)
    <3>1. v[q] = proc[q]
      BY <1>6, <2>3 DEF Asking
    <3>2. InTouch(proc[q], a, b, proc, pipe, failed)
      BY <2>1, <2>3, <3>1 DEF RevData
    <3>3. failed \subseteq f /\ "fork" \in f
      OBVIOUS
    <3> QED
      BY <3>1, <3>2, <3>3, StaysInTouch
  <2> QED
    BY <2>2, <2>3 DEF RevData
<1> QED
  BY <1>1, <1>6, <1>7, <1>9, <1>10, <1>11 DEF RevInv

LEMMA RsCreateInv ==
  ASSUME RevInv(proc, pipe, failed), NEW p \in Pids, RsCreate(p)
  PROVE  RevInv(proc', pipe', failed')
<1>1. Wired(proc) /\ Enough(proc)
  BY DEF RevInv
<1>2. p = 1 /\ proc[1].pc = "rs.create"
  BY <1>1 DEF RsCreate, AtLabel, Wired
<1>3. CanFork
  BY <1>1, <1>2, RoomForThread
<1>4. PICK n, back, v :
        n = NewPid /\ back = Goto(HangUp(proc, 1), 1, "rs.accept") /\ v = HandOver(proc, n)
  OBVIOUS
<1>5. n \in Pids /\ proc[n].pc = "free"
  BY <1>3, <1>4, NewPidIs
<1>6. CASE failed' = failed /\ proc' = v
  <2>1. RevInv(v, pipe, failed)
    BY <1>2, <1>4, <1>5, RsThreadInv
  <2> QED
    BY <1>6, <2>1 DEF RsCreate
<1>7. CASE failed' = failed \cup {"fork"} /\ proc' = back
  <2>1. RevInv(back, pipe, failed \cup {"fork"})
    BY <1>2, <1>4, RsDropInv
  <2> QED
    BY <1>7, <2>1 DEF RsCreate
<1>8. pipe' = pipe /\ (\/ failed' = failed /\ proc' = v
                       \/ failed' = failed \cup {"fork"} /\ proc' = back)
  BY <1>2, <1>3, <1>4 DEF RsCreate, GoesWell, ForkFails, Fails, HandOver, ThreadOf
<1> QED
  BY <1>6, <1>7, <1>8

\* What a step of a thread or a client leaves of it.
Leaves(x, y) ==
  /\ y.parent = 0
  /\ \/ y.pc = "free" /\ y.fd = <<>>
     \/ y.pc = "rc.end" /\ y.fd = <<>> /\ x.pc \in Asking
     \/ y.pc = "rc.recv" /\ x.pc = "rc.send" /\ y.fd = x.fd

LEMMA RevFrame ==
  ASSUME Table(proc), Wired(proc), Apart(proc), Enough(proc), NEW p \in Pids, p # 1,
         NEW v, Table(v), \A q \in Pids : q # p => v[q] = proc[q], Leaves(proc[p], v[p])
  PROVE  Wired(v) /\ Apart(v) /\ Enough(v)
<1>1. ASSUME NEW a, NEW b
      PROVE  /\ Wire(v[p], a, b) =>
                  Wire(proc[p], a, b) /\ (proc[p].pc \in Serving <=> v[p].pc \in Serving)
             /\ v[p].pc = "rc.recv" /\ Wire(proc[p], a, b) => Wire(v[p], a, b)
  <2>1. CASE v[p].pc = "free" \/ v[p].pc = "rc.end"
    BY <2>1, WireHolds DEF Serving, Asking
  <2>2. CASE v[p].pc = "rc.recv" /\ proc[p].pc = "rc.send" /\ v[p].fd = proc[p].fd
    BY <2>2 DEF Wire, Serving, Asking
  <2> QED
    BY <2>1, <2>2 DEF Leaves
<1>2. Apart(v)
  BY <1>1, ApartFewer
<1>3. Enough(v)
  <2>1. \A q \in Pids : q \in Threads(v) => q \in Threads(proc)
    BY DEF Threads, Leaves
  <2>2. \A q \in Pids : q \in Clients(v) => q \in Clients(proc)
    BY DEF Clients, Leaves, Asking
  <2>3. Threads(v) \subseteq Threads(proc) /\ Clients(v) \subseteq Clients(proc)
    BY <2>1, <2>2 DEF Threads, Clients
  <2>4. v[1] = proc[1]
    BY FsPids
  <2> QED
    BY <2>3, <2>4, EnoughStays
<1>4. Wired(v)
  <2>1. v[1] = proc[1] /\ 1 \in Pids
    BY FsPids
  <2>2. ASSUME NEW q \in Pids, q # p
        PROVE  /\ v[q].parent = 0
               /\ q # 1 => v[q].pc \in {"free", "rst.recv", "rc.connect", "rc.send", "rc.recv", "rc.end"}
               /\ v[q].pc \in {"rs.accept", "rc.connect"} => v[q].fd = Terminal
               /\ v[q].pc \in {"free", "rc.end"} => v[q].fd = <<>>
               /\ v[q].pc \in Serving \cup Asking => \E a, b : Wire(v[q], a, b)
    <3>1. v[q] = proc[q]
      BY <2>2
    <3> QED
      BY <3>1 DEF Wired
  <2>3. /\ v[p].parent = 0
        /\ v[p].pc \in {"free", "rc.recv", "rc.end"}
        /\ v[p].pc \in {"free", "rc.end"} => v[p].fd = <<>>
    BY DEF Leaves
  <2>4. v[p].pc = "rc.recv" => \E a, b : Wire(v[p], a, b)
    <3>1. v[p].pc = "rc.recv" => proc[p].pc \in Serving \cup Asking
      BY DEF Leaves, Asking
    <3> QED
      BY <1>1, <3>1 DEF Wired
  <2>5. v[p].pc \in Serving \cup Asking => v[p].pc = "rc.recv"
    BY <2>3 DEF Serving, Asking
  <2> QED
    BY <2>1, <2>2, <2>3, <2>4, <2>5 DEF Wired
<1> QED
  BY <1>2, <1>3, <1>4

LEMMA LeavingIs ==
  ASSUME Table(proc), Wired(proc), NEW p \in Pids, p # 1, NEW status, NEW v,
         v = Exit(proc, p, status)
  PROVE  /\ Table(v) /\ \A q \in Pids : q # p => v[q] = proc[q]
         /\ v[p].pc = "free" /\ v[p].fd = <<>> /\ v[p].parent = 0
<1>1. Ends(proc, v, p)
  BY ExitIs
<1>2. proc[p].parent = 0 /\ \A q \in Pids : proc[q].parent # p
  BY UnixAssumption DEF Wired, Pids
<1> QED
  BY <1>1, <1>2 DEF Ends, Root

\* The other clients of a process that does something on its own connection.
OthersInTouch(p, u, d, v, q) ==
  \A x \in Pids : \A a, b :
    x # p /\ Wire(proc[x], a, b) /\ proc[x].pc \in Asking /\ {u, d} \cap {a, b} = {}
      => InTouch(proc[x], a, b, v, q, failed)

LEMMA OthersStay ==
  ASSUME RevData(proc, pipe, failed), NEW p \in Pids, NEW u, NEW d, Wire(proc[p], u, d), NEW v, NEW q,
         \A x \in Pids : x # p => v[x] = proc[x],
         \A k \in 1 .. Pipes : k \notin {u, d} => q[k] = pipe[k]
  PROVE  OthersInTouch(p, u, d, v, q)
<1> SUFFICES ASSUME NEW x \in Pids, NEW a, NEW b, x # p, Wire(proc[x], a, b),
                    proc[x].pc \in Asking, {u, d} \cap {a, b} = {}
             PROVE  InTouch(proc[x], a, b, v, q, failed)
  BY DEF OthersInTouch
<1>1. InTouch(proc[x], a, b, proc, pipe, failed)
  BY DEF RevData
<1>2. q[a] = pipe[a] /\ q[b] = pipe[b]
  BY DEF Wire
<1>3. ASSUME Served(proc, a, b)
      PROVE  Served(v, a, b)
  <2>1. PICK s \in Pids : proc[s].pc \in Serving /\ Wire(proc[s], a, b)
    BY <1>3 DEF Served
  <2>2. s # p
    BY <2>1, WireOnce
  <2> QED
    BY <2>1, <2>2 DEF Served
<1> QED
  BY <1>1, <1>2, <1>3, StaysInTouch

-----------------------------------------------------------------------------
LEMMA HandleClientInv ==
  ASSUME RevInv(proc, pipe, failed), NEW p \in Pids, handle_client(p)
  PROVE  RevInv(proc', pipe', failed')
<1>1. /\ Table(proc) /\ Wired(proc) /\ Apart(proc) /\ Enough(proc) /\ DOMAIN pipe = 1 .. Pipes
  BY DEF RevInv
<1>2. proc[p].pc = "rst.recv" /\ p # 1
  BY <1>1 DEF handle_client, AtLabel, Wired
<1>3. PICK u, d : Wire(proc[p], u, d)
  BY <1>1, <1>2 DEF Wired, Serving
<1>4. /\ u \in 1 .. Pipes /\ d \in 1 .. Pipes /\ u # d
      /\ PipeOf(p, R(0)) = u /\ PipeOf(p, W(0)) = d
  <2>1. u \in 1 .. Pipes /\ d \in 1 .. Pipes /\ u # d
    BY <1>3 DEF Wire
  <2>2. proc[p].fd[R(0)] = R(u) /\ proc[p].fd[W(0)] = W(d)
    BY <1>2, <1>3, WireHolds DEF Serving
  <2> QED
    BY <2>1, <2>2, Names DEF PipeOf
<1>5. PICK v, q : v = proc' /\ q = pipe'
  OBVIOUS
<1>6. PICK status : v = Exit(proc, p, status)
  BY <1>5 DEF handle_client, Exited
<1>7. /\ Table(v) /\ \A x \in Pids : x # p => v[x] = proc[x]
      /\ v[p].pc = "free" /\ v[p].fd = <<>> /\ v[p].parent = 0
  BY <1>1, <1>2, <1>6, LeavingIs
<1>8. Wired(v) /\ Apart(v) /\ Enough(v)
  BY <1>1, <1>2, <1>7, RevFrame DEF Leaves
<1>9. ASSUME NEW x \in Pids, NEW a, NEW b, Wire(v[x], a, b), v[x].pc \in Asking
      PROVE  /\ x # p /\ v[x] = proc[x] /\ Wire(proc[x], a, b) /\ proc[x].pc \in Asking
             /\ {u, d} \cap {a, b} = {} \/ (a = u /\ b = d)
  <2>1. x # p
    BY <1>7, <1>9 DEF Asking
  <2>2. v[x] = proc[x]
    BY <1>7, <2>1
  <2>3. Across(proc[p], u, d, proc[x], a, b)
    BY <1>1, <1>3, <1>9, <2>1, <2>2 DEF Apart
  <2> QED
    BY <1>9, <2>1, <2>2, <2>3 DEF Across
<1>10. CASE AtEnd(p, R(0)) /\ q = pipe /\ failed' = failed
  <2>1. ASSUME "split" \notin failed
        PROVE  RevData(v, q, failed)
    <3>1. RevData(proc, pipe, failed)
      BY <2>1 DEF RevInv
    <3>2. OthersInTouch(p, u, d, v, q)
      BY <1>3, <1>7, <1>10, <3>1, OthersStay
    <3>3. ~HeldIn(proc, W(u))
      BY <1>4, <1>10 DEF AtEnd
    <3>4. ASSUME NEW x \in Pids, NEW a, NEW b, Wire(v[x], a, b), v[x].pc \in Asking
          PROVE  InTouch(v[x], a, b, v, q, failed)
      <4>1. W(a) \in EndsOf(proc[x].fd)
        BY <1>9, <3>4, WireHolds
      <4>2. a # u
        BY <3>3, <4>1, HeldIs
      <4> QED
        BY <1>9, <3>2, <3>4, <4>2 DEF OthersInTouch
    <3>5. \A x \in Pids : v[x].pc = "rc.end" => Shows(v[x], failed)
      BY <1>7, <3>1 DEF RevData
    <3> QED
      BY <3>4, <3>5 DEF RevData
  <2> QED
    BY <1>1, <1>5, <1>7, <1>8, <1>10, <2>1 DEF RevInv
<1>11. ASSUME NEW n \in 1 .. Len(pipe[u]), Received(u, n),
              q = [Taken(u, n) EXCEPT ![d] = @ \o reverse_string(SubSeq(pipe[u], 1, n))]
       PROVE  RevInv(v, q, failed')
  <2>1. PICK s, r : s = SubSeq(pipe[u], n + 1, Len(pipe[u])) /\ r = Reversed(SubSeq(pipe[u], 1, n))
    OBVIOUS
  <2>2. PICK q1 : q1 = [pipe EXCEPT ![u] = s]
    OBVIOUS
  <2>3. q = [q1 EXCEPT ![d] = @ \o r]
    BY <1>11, <2>1, <2>2 DEF Taken, Reversed
  <2>4. /\ DOMAIN q = 1 .. Pipes /\ q[u] = s /\ q[d] = pipe[d] \o r
        /\ \A k \in 1 .. Pipes : k \notin {u, d} => q[k] = pipe[k]
    <3>1. DOMAIN q1 = 1 .. Pipes /\ q1[u] = s /\ \A k \in 1 .. Pipes : k # u => q1[k] = pipe[k]
      BY <1>1, <1>4, <2>2
    <3> QED
      BY <1>4, <2>3, <3>1
  <2>5. ASSUME "split" \notin failed'
        PROVE  RevData(v, q, failed')
    <3>1. n = Len(pipe[u]) /\ failed' = failed
      BY <1>11, <2>5 DEF Received, Fails, GoesWell
    <3>2. RevData(proc, pipe, failed)
      BY <2>5, <3>1 DEF RevInv
    <3>3. OthersInTouch(p, u, d, v, q)
      BY <1>3, <1>7, <2>4, <3>2, OthersStay
    <3>4. ASSUME NEW x \in Pids, NEW a, NEW b, Wire(v[x], a, b), v[x].pc \in Asking
          PROVE  InTouch(v[x], a, b, v, q, failed)
      <4>1. CASE {u, d} \cap {a, b} = {}
        BY <1>9, <3>3, <3>4, <4>1 DEF OthersInTouch
      <4>2. CASE a = u /\ b = d
        <5>1. v[x] = proc[x] /\ InTouch(proc[x], u, d, proc, pipe, failed)
          BY <1>9, <3>2, <3>4, <4>2 DEF RevData
        <5>2. pipe[u] # <<>>
          BY <1>11
        <5>3. Waiting(proc[x], u, d, proc, pipe, failed)
          BY <5>1, <5>2 DEF InTouch, Sending, Answered
        <5>4. PICK line \in Typed : proc[x].mem.line = line
          BY <5>3 DEF Waiting
        <5>5. proc[x].pc = "rc.recv" /\ pipe[u] = line /\ pipe[d] = <<>>
          BY <5>3, <5>4 DEF Waiting
        <5>6. line \in Seq(Char) /\ Len(line) \in Nat
          BY TypedLine
        <5>7. SubSeq(line, 1, Len(line)) = line
          BY <5>6, SubSeqFull
        <5>8. SubSeq(line, Len(line) + 1, Len(line)) = <<>>
          BY <5>6, SubSeqEmpty
        <5>9. s = <<>> /\ r = Reversed(line)
          BY <2>1, <3>1, <5>5, <5>7, <5>8
        <5>10. q[u] = <<>> /\ q[d] = Reversed(line)
          <6>1. <<>> \o Reversed(line) = Reversed(line)
            BY ReversedMirrors, ConcatEmptySeq
          <6> QED
            BY <2>4, <5>5, <5>9, <6>1
        <5>11. Answered(v[x], u, d, q)
          BY <5>1, <5>4, <5>5, <5>10 DEF Answered
        <5> QED
          BY <4>2, <5>11 DEF InTouch
      <4> QED
        BY <1>9, <3>4, <4>1, <4>2
    <3>5. \A x \in Pids : v[x].pc = "rc.end" => Shows(v[x], failed)
      BY <1>7, <3>2 DEF RevData
    <3> QED
      BY <3>1, <3>4, <3>5 DEF RevData
  <2> QED
    BY <1>7, <1>8, <2>4, <2>5 DEF RevInv
<1>12. \/ \E n \in 1 .. Len(pipe[u]) :
            /\ Received(u, n)
            /\ q = [Taken(u, n) EXCEPT ![d] = @ \o reverse_string(SubSeq(pipe[u], 1, n))]
       \/ AtEnd(p, R(0)) /\ q = pipe /\ failed' = failed
  BY <1>4, <1>5 DEF handle_client
<1> QED
  BY <1>5, <1>10, <1>11, <1>12

\* What a client does to its own connection and its own memory concerns no other client.
LEMMA ClientActs ==
  ASSUME RevData(proc, pipe, failed), Apart(proc), NEW p \in Pids, NEW u, NEW d,
         Wire(proc[p], u, d), proc[p].pc \in Asking, NEW v, NEW q,
         \A x \in Pids : x # p => v[x] = proc[x],
         \A k \in 1 .. Pipes : k \notin {u, d} => q[k] = pipe[k],
         v[p].pc = "rc.end" => Shows(v[p], failed),
         v[p].pc \in Asking => /\ Wire(v[p], u, d)
                               /\ InTouch(v[p], u, d, v, q, failed)
  PROVE  RevData(v, q, failed)
<1>1. OthersInTouch(p, u, d, v, q)
  BY OthersStay
<1>2. \A x \in Pids : v[x].pc = "rc.end" => Shows(v[x], failed)
  BY DEF RevData
<1>3. ASSUME NEW x \in Pids, NEW a, NEW b, Wire(v[x], a, b), v[x].pc \in Asking
      PROVE  InTouch(v[x], a, b, v, q, failed)
  <2>1. CASE x = p
    <3>1. a = u /\ b = d
      BY <1>3, <2>1, WireOnce
    <3> QED
      BY <1>3, <2>1, <3>1
  <2>2. CASE x # p
    <3>1. v[x] = proc[x]
      BY <2>2
    <3>2. Wire(proc[x], a, b) /\ proc[x].pc \in Asking
      BY <1>3, <3>1
    <3>3. Across(proc[p], u, d, proc[x], a, b)
      BY <2>2, <3>2 DEF Apart
    <3>4. {u, d} \cap {a, b} = {}
      BY <3>2, <3>3, WireHolds DEF Across
    <3> QED
      BY <1>1, <2>2, <3>1, <3>2, <3>4 DEF OthersInTouch
  <2> QED
    BY <2>1, <2>2
<1> QED
  BY <1>2, <1>3 DEF RevData

LEMMA StillServed ==
  ASSUME NEW p \in Pids, proc[p].pc \in Asking, NEW v,
         \A x \in Pids : x # p => v[x] = proc[x], NEW u, NEW d, Served(proc, u, d)
  PROVE  Served(v, u, d)
<1>1. PICK s \in Pids : proc[s].pc \in Serving /\ Wire(proc[s], u, d)
  BY DEF Served
<1>2. s # p
  BY <1>1, WireHolds
<1> QED
  BY <1>1, <1>2 DEF Served

LEMMA RcSendInv ==
  ASSUME RevInv(proc, pipe, failed), NEW p \in Pids, RcSend(p)
  PROVE  RevInv(proc', pipe', failed')
<1>1. /\ Table(proc) /\ Wired(proc) /\ Apart(proc) /\ Enough(proc) /\ DOMAIN pipe = 1 .. Pipes
  BY DEF RevInv
<1>2. proc[p].pc = "rc.send" /\ p # 1 /\ proc[p].pc \in Asking
  BY <1>1 DEF RcSend, AtLabel, Wired, Asking
<1>3. PICK u, d : Wire(proc[p], u, d)
  BY <1>1, <1>2 DEF Wired
<1>4. u \in 1 .. Pipes /\ d \in 1 .. Pipes /\ u # d
  BY <1>3 DEF Wire
<1>5. PipeOf(p, W(0)) = u
  <2>1. proc[p].fd[W(0)] = W(u)
    BY <1>2, <1>3, WireHolds
  <2> QED
    BY <2>1, Names DEF PipeOf
<1>6. PICK v, q : v = proc' /\ q = pipe'
  OBVIOUS
<1>7. failed' = failed
  BY DEF RcSend
<1>8. ASSUME NEW line \in Typed, v = Goto(Set(proc, p, [line |-> line]), p, "rc.recv"),
             q = Sent(u, line)
      PROVE  RevInv(v, q, failed)
  <2>1. PICK mem : mem = [line |-> line]
    OBVIOUS
  <2>2. Becomes(proc, v, p, "rc.recv", proc[p].parent, proc[p].fd, mem)
    BY <1>1, <1>8, <2>1, SetGotoIs
  <2>3. /\ Table(v) /\ \A x \in Pids : x # p => v[x] = proc[x]
        /\ v[p].pc = "rc.recv" /\ v[p].parent = 0 /\ v[p].fd = proc[p].fd /\ v[p].mem.line = line
    BY <1>1, <2>1, <2>2 DEF Becomes, Wired
  <2>4. Wired(v) /\ Apart(v) /\ Enough(v)
    BY <1>1, <1>2, <2>3, RevFrame DEF Leaves
  <2>5. /\ DOMAIN q = 1 .. Pipes /\ q[u] = pipe[u] \o line
        /\ \A k \in 1 .. Pipes : k # u => q[k] = pipe[k]
    BY <1>1, <1>4, <1>8 DEF Sent
  <2>6. ASSUME "split" \notin failed
        PROVE  RevData(v, q, failed)
    <3>1. RevData(proc, pipe, failed)
      BY <2>6 DEF RevInv
    <3>2. Wire(v[p], u, d)
      BY <1>2, <1>3, <2>3 DEF Wire, Asking
    <3>3. Sending(proc[p], u, d, proc, pipe, failed)
      <4>1. InTouch(proc[p], u, d, proc, pipe, failed)
        BY <1>2, <1>3, <3>1 DEF RevData
      <4> QED
        BY <1>2, <4>1 DEF InTouch, Waiting, Answered
    <3>4. q[u] = line /\ q[d] = <<>>
      <4>1. <<>> \o line = line
        BY TypedLine, ConcatEmptySeq
      <4> QED
        BY <1>4, <2>5, <3>3, <4>1 DEF Sending
    <3>5. Served(v, u, d) \/ "fork" \in failed
      BY <1>2, <2>3, <3>3, StillServed DEF Sending
    <3>6. InTouch(v[p], u, d, v, q, failed)
      BY <2>3, <3>4, <3>5 DEF InTouch, Waiting
    <3> QED
      <4>1. \A k \in 1 .. Pipes : k \notin {u, d} => q[k] = pipe[k]
        BY <2>5
      <4>2. /\ v[p].pc = "rc.end" => Shows(v[p], failed)
            /\ \A x \in Pids : x # p => v[x] = proc[x]
        BY <2>3
      <4>3. v[p].pc \in Asking => Wire(v[p], u, d) /\ InTouch(v[p], u, d, v, q, failed)
        BY <3>2, <3>6
      <4>4. Apart(proc) /\ proc[p].pc \in Asking
        BY <1>1, <1>2
      <4> QED
        BY <1>3, <3>1, <4>1, <4>2, <4>3, <4>4, ClientActs
  <2> QED
    BY <2>3, <2>4, <2>5, <2>6 DEF RevInv
<1>9. ASSUME NEW status, v = Exit(proc, p, status), q = pipe
      PROVE  RevInv(v, q, failed)
  <2>1. /\ Table(v) /\ \A x \in Pids : x # p => v[x] = proc[x]
        /\ v[p].pc = "free" /\ v[p].fd = <<>> /\ v[p].parent = 0
    BY <1>1, <1>2, <1>9, LeavingIs
  <2>2. Wired(v) /\ Apart(v) /\ Enough(v)
    BY <1>1, <1>2, <2>1, RevFrame DEF Leaves
  <2>3. ASSUME "split" \notin failed
        PROVE  RevData(v, q, failed)
    <3>1. RevData(proc, pipe, failed)
      BY <2>3 DEF RevInv
    <3>2. v[p].pc \notin Asking
      BY <2>1 DEF Asking
    <3> QED
      BY <1>1, <1>2, <1>3, <1>9, <2>1, <3>1, <3>2, ClientActs
  <2> QED
    BY <1>1, <1>9, <2>1, <2>2, <2>3 DEF RevInv
<1>10. \/ \E line \in Typed : /\ v = Goto(Set(proc, p, [line |-> line]), p, "rc.recv")
                              /\ q = Sent(u, line)
       \/ \E status : v = Exit(proc, p, status) /\ q = pipe
  BY <1>5, <1>6 DEF RcSend, Exited
<1> QED
  BY <1>6, <1>7, <1>8, <1>9, <1>10

-----------------------------------------------------------------------------
\* What is left of a client that has shown its answer.
RcShown(t, p, s) ==
  Goto(Close(Set(t, p, [line |-> t[p].mem.line, shown |-> s]), p, DOMAIN t[p].fd), p, "rc.end")

LEMMA RcShownIs ==
  ASSUME NEW t, Table(t), NEW p \in Pids, NEW s, NEW v, v = RcShown(t, p, s)
  PROVE  /\ Table(v) /\ \A x \in Pids : x # p => v[x] = t[x]
         /\ v[p].pc = "rc.end" /\ v[p].fd = <<>> /\ v[p].parent = t[p].parent
         /\ v[p].mem.line = t[p].mem.line /\ v[p].mem.shown = s
<1>1. PICK mem, fd : mem = [line |-> t[p].mem.line, shown |-> s] /\ fd = t[p].fd
  OBVIOUS
<1>2. PICK a : a = Set(t, p, mem)
  OBVIOUS
<1>3. Becomes(t, a, p, t[p].pc, t[p].parent, fd, mem)
  BY <1>1, <1>2, SetIs
<1>4. PICK b : b = Close(a, p, DOMAIN fd)
  OBVIOUS
<1>5. Table(a) /\ a[p].fd = fd
  BY <1>3 DEF Becomes
<1>6. Becomes(a, b, p, a[p].pc, a[p].parent, Restrict(a[p].fd, DOMAIN a[p].fd \ DOMAIN fd), a[p].mem)
  BY <1>4, <1>5, CloseIs
<1>7. Restrict(a[p].fd, DOMAIN a[p].fd \ DOMAIN fd) = <<>>
  BY <1>5, Closed
<1>8. /\ Table(b) /\ b[p].fd = <<>> /\ b[p].parent = t[p].parent /\ b[p].mem = mem
      /\ \A x \in Pids : x # p => b[x] = t[x]
  BY <1>3, <1>6, <1>7 DEF Becomes
<1>9. v = Goto(b, p, "rc.end")
  BY <1>1, <1>2, <1>4 DEF RcShown
<1>10. Becomes(b, v, p, "rc.end", b[p].parent, b[p].fd, b[p].mem)
  BY <1>8, <1>9, GotoIs
<1>11. mem.line = t[p].mem.line /\ mem.shown = s
  BY <1>1
<1> QED
  BY <1>8, <1>10, <1>11 DEF Becomes

LEMMA RcRecvInv ==
  ASSUME RevInv(proc, pipe, failed), NEW p \in Pids, RcRecv(p)
  PROVE  RevInv(proc', pipe', failed')
<1>1. /\ Table(proc) /\ Wired(proc) /\ Apart(proc) /\ Enough(proc) /\ DOMAIN pipe = 1 .. Pipes
  BY DEF RevInv
<1>2. proc[p].pc = "rc.recv" /\ p # 1 /\ proc[p].pc \in Asking /\ proc[p].parent = 0
  BY <1>1 DEF RcRecv, AtLabel, Wired, Asking
<1>3. PICK u, d : Wire(proc[p], u, d)
  BY <1>1, <1>2 DEF Wired
<1>4. u \in 1 .. Pipes /\ d \in 1 .. Pipes /\ u # d
  BY <1>3 DEF Wire
<1>5. PipeOf(p, R(0)) = d
  <2>1. proc[p].fd[R(0)] = R(d)
    BY <1>2, <1>3, WireHolds
  <2> QED
    BY <2>1, Names DEF PipeOf
<1>6. PICK v, q : v = proc' /\ q = pipe'
  OBVIOUS
<1>7. PICK s :
        /\ v = RcShown(proc, p, s)
        /\ \/ \E n \in 1 .. Len(pipe[d]) :
                Received(d, n) /\ s = SubSeq(pipe[d], 1, n) /\ q = Taken(d, n)
           \/ AtEnd(p, R(0)) /\ s = <<>> /\ q = pipe /\ failed' = failed
  BY <1>5, <1>6 DEF RcRecv, RcShown
<1>8. /\ Table(v) /\ \A x \in Pids : x # p => v[x] = proc[x]
      /\ v[p].pc = "rc.end" /\ v[p].fd = <<>> /\ v[p].parent = 0
      /\ v[p].mem.line = proc[p].mem.line /\ v[p].mem.shown = s
  BY <1>1, <1>2, <1>7, RcShownIs
<1>9. Wired(v) /\ Apart(v) /\ Enough(v)
  BY <1>1, <1>2, <1>8, RevFrame DEF Leaves
<1>10. DOMAIN q = 1 .. Pipes /\ \A k \in 1 .. Pipes : k \notin {u, d} => q[k] = pipe[k]
  BY <1>1, <1>4, <1>7 DEF Taken
<1>11. ASSUME "split" \notin failed'
       PROVE  RevData(v, q, failed')
  <2>1. failed' = failed /\ \A n \in 1 .. Len(pipe[d]) : Received(d, n) => n = Len(pipe[d])
    BY <1>7, <1>11 DEF Received, Fails, GoesWell
  <2>2. RevData(proc, pipe, failed)
    BY <1>11, <2>1 DEF RevInv
  <2>3. InTouch(proc[p], u, d, proc, pipe, failed)
    BY <1>2, <1>3, <2>2 DEF RevData
  <2>4. Waiting(proc[p], u, d, proc, pipe, failed) \/ Answered(proc[p], u, d, pipe)
    BY <1>2, <2>3 DEF InTouch, Sending
  <2>5. PICK line \in Typed : line = proc[p].mem.line
    BY <2>4 DEF Waiting, Answered
  <2>6. Reversed(line) \in Seq(Char) /\ Reversed(line) # <<>> /\ Mirrors(Reversed(line), line)
    BY ReversedMirrors
  <2>7. Shows(v[p], failed)
    <3>1. CASE \E n \in 1 .. Len(pipe[d]) : Received(d, n) /\ s = SubSeq(pipe[d], 1, n)
      <4>1. PICK r : r = pipe[d]
        OBVIOUS
      <4>2. s = SubSeq(r, 1, Len(r)) /\ r # <<>>
        BY <2>1, <3>1, <4>1
      <4>3. r = Reversed(line)
        BY <2>4, <2>5, <4>1, <4>2 DEF Waiting, Answered
      <4>4. s = Reversed(line)
        BY <2>6, <4>2, <4>3, SubSeqFull
      <4> QED
        BY <1>8, <2>5, <2>6, <4>4 DEF Shows
    <3>2. CASE AtEnd(p, R(0)) /\ s = <<>>
      <4>1. pipe[d] = <<>> /\ ~HeldIn(proc, W(d))
        BY <1>5, <3>2 DEF AtEnd
      <4>2. ~Served(proc, u, d)
        BY <4>1, WireHolds, HeldIs DEF Served
      <4>3. "fork" \in failed
        BY <2>4, <2>5, <2>6, <4>1, <4>2 DEF Waiting, Answered
      <4> QED
        BY <1>8, <3>2, <4>3 DEF Shows
    <3> QED
      BY <1>7, <3>1, <3>2
  <2>8. v[p].pc \notin Asking
    BY <1>8 DEF Asking
  <2>9. RevData(v, q, failed)
    BY <1>1, <1>2, <1>3, <1>8, <1>10, <2>2, <2>7, <2>8, ClientActs
  <2> QED
    BY <2>1, <2>9
<1> QED
  BY <1>6, <1>8, <1>9, <1>10, <1>11 DEF RevInv

LEMMA ReverseStepInv ==
  ASSUME RevInv(proc, pipe, failed), NEW p \in Pids, ReverseStep(p)
  PROVE  RevInv(proc', pipe', failed')
  BY RsAcceptInv, RsCreateInv, HandleClientInv, RcSendInv, RcRecvInv
     DEF ReverseStep, ReverseProgram

LEMMA ReverseLabelled ==
  ASSUME RevInv(proc, pipe, failed)
  PROVE  Labelled(proc, ReverseLabels)
<1>1. Table(proc) /\ Wired(proc)
  BY DEF RevInv
<1>2. ASSUME NEW p \in Pids
      PROVE  proc[p].pc \in ReverseLabels \cup Idle
  BY <1>1 DEF Wired, ReverseLabels, Idle
<1> QED
  BY <1>1, <1>2 DEF Labelled

LEMMA ReverseInitInv ==
  ASSUME ReverseInit
  PROVE  RevInv(proc, pipe, failed) /\ program = "reverse_server"
<1>1. PICK x, y : /\ x = [Free EXCEPT !.pc = "rs.accept", !.fd = Terminal]
                  /\ y = [Free EXCEPT !.pc = "rc.connect", !.fd = Terminal]
  OBVIOUS
<1>2. /\ Record(x) /\ x.pc = "rs.accept" /\ x.fd = Terminal /\ x.parent = 0
      /\ Record(y) /\ y.pc = "rc.connect" /\ y.fd = Terminal /\ y.parent = 0
  BY <1>1 DEF Free, Record
<1>3. proc = [p \in Pids |-> IF p = Root THEN x ELSE IF p \in ReverseClient THEN y ELSE Free]
  BY <1>1 DEF ReverseInit
<1>4. 1 \in Pids /\ 1 \notin ReverseClient /\ ReverseClient \subseteq Pids
  <2>1. ReverseClients \in Nat /\ 2 * ReverseClients < Processes /\ Processes \in Nat \ {0}
    BY ReverseAssumption, UnixAssumption
  <2>2. ReverseClients + 1 <= Processes
    BY <2>1
  <2> QED
    BY <2>1, <2>2 DEF ReverseClient, Pids
<1>5. /\ proc[1] = x /\ \A p \in Pids : p \in ReverseClient => proc[p] = y
      /\ \A p \in Pids : p # 1 /\ p \notin ReverseClient => proc[p] = Free
  BY <1>3, <1>4 DEF Root
<1>6. \A p \in Pids : proc[p] = x \/ proc[p] = y \/ proc[p] = Free
  BY <1>5
<1>7. Table(proc)
  <2>1. \A p \in Pids : Record(proc[p])
    BY <1>2, <1>6, FreeIs
  <2>2. DOMAIN proc = Pids /\ proc = [p \in Pids |-> proc[p]]
    BY <1>3
  <2> QED
    BY <2>1, <2>2 DEF Table
<1>8. Wired(proc)
  <2>1. ASSUME NEW p \in Pids
        PROVE  /\ proc[p].parent = 0 /\ proc[p].pc \notin Serving \cup Asking
               /\ proc[p].pc \in {"rs.accept", "rc.connect"} => proc[p].fd = Terminal
               /\ proc[p].pc \in {"free", "rc.end"} => proc[p].fd = <<>>
    BY <1>2, <1>6, FreeIs DEF Serving, Asking
  <2>2. ASSUME NEW p \in Pids, p # 1
        PROVE  proc[p].pc \in {"free", "rc.connect"}
    BY <1>2, <1>5, <2>2, FreeIs
  <2>3. proc[1].pc = "rs.accept"
    BY <1>2, <1>5
  <2> QED
    BY <2>1, <2>2, <2>3 DEF Wired
<1>9. ASSUME NEW p \in Pids
      PROVE  proc[p].pc \notin Serving \cup Asking \cup {"rc.end"}
  BY <1>2, <1>6, FreeIs DEF Serving, Asking
<1>10. Apart(proc)
  BY <1>9, WireHolds DEF Apart
<1>11. Enough(proc)
  <2>1. Threads(proc) = ReverseClient /\ Clients(proc) = ReverseClient
    <3>1. ASSUME NEW p \in Pids
          PROVE  /\ proc[p].pc \in {"rst.recv", "rc.connect"} <=> p \in ReverseClient
                 /\ proc[p].pc \in {"rc.connect", "rc.send", "rc.recv", "rc.end"} <=> p \in ReverseClient
      <4>1. CASE p \in ReverseClient
        BY <1>2, <1>5, <4>1
      <4>2. CASE p \notin ReverseClient
        <5>1. proc[p] = x \/ proc[p] = Free
          BY <1>5, <4>2
        <5> QED
          BY <1>2, <4>2, <5>1, FreeIs
      <4> QED
        BY <4>1, <4>2
    <3> QED
      BY <1>4, <3>1 DEF Threads, Clients
  <2>2. Cardinality(ReverseClient) = ReverseClients
    <3>1. ReverseClients \in Nat /\ 2 \in Int /\ ReverseClients + 1 \in Int
      BY ReverseAssumption
    <3>2. Cardinality(ReverseClient) = IF 2 > ReverseClients + 1 THEN 0 ELSE (ReverseClients + 1) - 2 + 1
      BY <3>1, FS_Interval DEF ReverseClient
    <3> QED
      BY <3>1, <3>2
  <2>3. proc[1].pc # "rs.create"
    BY <1>2, <1>5
  <2>4. ReverseClients + 0 <= ReverseClients
    BY ReverseAssumption
  <2>5. Cardinality(Threads(proc)) + 0 <= ReverseClients /\ Cardinality(Clients(proc)) <= ReverseClients
    BY <2>1, <2>2, <2>4, ReverseAssumption
  <2> QED
    BY <2>3, <2>5 DEF Enough
<1>12. RevData(proc, pipe, failed)
  BY <1>9 DEF RevData
<1>13. DOMAIN pipe = 1 .. Pipes /\ program = "reverse_server"
  BY DEF ReverseInit
<1> QED
  BY <1>7, <1>8, <1>10, <1>11, <1>12, <1>13 DEF RevInv

LEMMA ReverseAnswers ==
  ASSUME RevInv(proc, pipe, failed), program = "reverse_server"
  PROVE  AnswersInStep
<1>1. program # "fs_client"
  OBVIOUS
<1>2. ASSUME "split" \notin failed, NEW p \in Pids, AtLabel(p, "rc.end")
      PROVE  \/ Mirrors(proc[p].mem.shown, proc[p].mem.line)
             \/ proc[p].mem.shown = <<>> /\ "fork" \in failed
  BY <1>2 DEF RevInv, RevData, AtLabel, Shows
<1> QED
  BY <1>1, <1>2 DEF AnswersInStep

-----------------------------------------------------------------------------
\* The processes that a shell or ls_server starts.

\* p ends and nobody is its child: no other process changes.
Left(t, v, p) ==
  /\ Table(v) /\ \A q \in Pids : q # p => v[q] = t[q]
  /\ v[p].fd = <<>>
  /\ IF t[p].parent = 0 THEN v[p].pc = "free" /\ v[p].parent = 0
     ELSE v[p].pc = "zombie" /\ v[p].parent = t[p].parent

LEMMA LeftIs ==
  ASSUME NEW t, Table(t), NEW p \in Pids, p # 1, \A q \in Pids : t[q].parent # p, NEW status,
         NEW v, v = Exit(t, p, status)
  PROVE  Left(t, v, p)
<1>1. Ends(t, v, p)
  BY ExitIs
<1>2. p # Root
  BY DEF Root
<1> QED
  BY <1>1, <1>2 DEF Ends, Left

\* What a command does to the table.
LEMMA CommandMoves ==
  ASSUME NEW p \in Pids, Command(p)
  PROVE  /\ failed' = failed /\ proc[p].pc \in CommandLabels \cup {"ls.perror"}
         /\ \/ proc' = proc
            \/ \E mem : proc' = Set(proc, p, mem)
            \/ \E status : proc' = Exit(proc, p, status)
<1>1. failed' = failed /\ proc[p].pc \in CommandLabels \cup {"ls.perror"}
  BY DEF Command, EndAtOnce, Output, Count, TakeOne, CommandLabels, AtLabel
<1>2. CASE EndAtOnce(p) \/ TakeOne(p)
  BY <1>1, <1>2 DEF EndAtOnce, TakeOne, Exited
<1>3. CASE Output(p)
  <2>1. \/ \E code : proc' = Exited(proc, p, code)
        \/ proc' = Killed(proc, p, 13)
        \/ proc' = proc
        \/ proc' = Set(proc, p, [proc[p].mem EXCEPT !.left = @ - (
              IF proc[p].fd[Out] = Tty THEN IF AtLabel(p, "yes") THEN 1 ELSE proc[p].mem.left
              ELSE Min2(Room(proc[p].fd[Out][2]), IF AtLabel(p, "yes") THEN 1 ELSE proc[p].mem.left))])
    BY <1>3 DEF Output
  <2> QED
    BY <1>1, <2>1 DEF Exited, Killed
<1>4. CASE Count(p)
  BY <1>1, <1>4 DEF Count, Exited
<1> QED
  BY <1>2, <1>3, <1>4 DEF Command

\* execvp().
LEMMA ExecIs ==
  ASSUME NEW t, Table(t), NEW p \in Pids, p # 1, \A q \in Pids : t[q].parent # p, NEW word,
         NEW v, v = Exec(t, p, word)
  PROVE  IF word = "missing" THEN Left(t, v, p)
         ELSE Becomes(t, v, p, word, t[p].parent, t[p].fd, [left |-> Bytes, got |-> 0])
<1>1. CASE word = "missing"
  BY <1>1, LeftIs DEF Exec, Exited
<1>2. CASE word # "missing"
  BY <1>2, SetGotoIs DEF Exec
<1> QED
  BY <1>1, <1>2

-----------------------------------------------------------------------------
\* MinShell and MoreShell.

OneCommands == {"true", "echo"}
OneInv(t) ==
  /\ Table(t)
  /\ t[1].parent = 0 /\ t[1].pc \in {"min.prompt", "more.prompt", "sh.fork", "sh.wait", "zombie"}
  /\ t[1].pc # "zombie" => t[1].fd = Terminal
  /\ t[1].pc = "sh.fork" => t[1].mem.words[1] \in Alone
  /\ \A p \in Pids : p # 1 =>
       /\ t[p].pc \in {"free", "zombie", "sh.exec"} \cup OneCommands /\ t[p].parent \in {0, 1}
       /\ t[p].pc = "sh.exec" => t[p].mem.words[1] \in Alone
       /\ t[p].parent = 1 => t[1].pc = "sh.wait"
  /\ \A p, q \in Pids : t[p].parent = 1 /\ t[q].parent = 1 => p = q

\* A child goes on.
LEMMA OneChild ==
  ASSUME OneInv(proc), NEW p \in Pids, p # 1, NEW v, Table(v),
         \A q \in Pids : q # p => v[q] = proc[q],
         v[p].pc \in {"free", "zombie"} \cup OneCommands,
         v[p].parent \in {proc[p].parent, 0}
  PROVE  OneInv(v)
<1>1. v[1] = proc[1]
  BY FsPids
<1>2. ASSUME NEW q \in Pids, q # 1
      PROVE  /\ v[q].pc \in {"free", "zombie", "sh.exec"} \cup OneCommands /\ v[q].parent \in {0, 1}
             /\ v[q].pc = "sh.exec" => v[q].mem.words[1] \in Alone
             /\ v[q].parent = 1 => proc[1].pc = "sh.wait"
  <2>1. CASE q = p
    BY <1>2, <2>1 DEF OneInv, OneCommands
  <2>2. CASE q # p
    <3>1. v[q] = proc[q]
      BY <2>2
    <3> QED
      BY <1>2, <3>1 DEF OneInv
  <2> QED
    BY <2>1, <2>2
<1>3. \A q \in Pids : v[q].parent = 1 => proc[q].parent = 1
  BY DEF OneInv
<1>4. \A q, r \in Pids : v[q].parent = 1 /\ v[r].parent = 1 => q = r
  BY <1>3 DEF OneInv
<1> QED
  BY <1>1, <1>2, <1>4 DEF OneInv

LEMMA OneCommandInv ==
  ASSUME OneInv(proc), NEW p \in Pids, Command(p)
  PROVE  OneInv(proc')
<1>1. p # 1 /\ proc[p].pc \in OneCommands /\ Table(proc)
  BY CommandMoves DEF OneInv, CommandLabels
<1>2. \A q \in Pids : proc[q].parent # p
  BY <1>1 DEF OneInv, Pids
<1>3. CASE proc' = proc
  BY <1>3
<1>4. ASSUME NEW mem, proc' = Set(proc, p, mem)
      PROVE  OneInv(proc')
  <2>1. PICK v : v = Set(proc, p, mem)
    OBVIOUS
  <2>2. Becomes(proc, v, p, proc[p].pc, proc[p].parent, proc[p].fd, mem)
    BY <1>1, <2>1, SetIs
  <2>3. OneInv(v)
    BY <1>1, <2>2, OneChild DEF Becomes
  <2> QED
    BY <1>4, <2>1, <2>3
<1>5. ASSUME NEW status, proc' = Exit(proc, p, status)
      PROVE  OneInv(proc')
  <2>1. PICK v : v = Exit(proc, p, status)
    OBVIOUS
  <2>2. Left(proc, v, p)
    BY <1>1, <1>2, <2>1, LeftIs
  <2>3. OneInv(v)
    BY <1>1, <2>2, OneChild DEF Left
  <2> QED
    BY <1>5, <2>1, <2>3
<1> QED
  BY <1>3, <1>4, <1>5, CommandMoves

LEMMA ShExecInv ==
  ASSUME OneInv(proc), NEW p \in Pids, ShExec(p)
  PROVE  OneInv(proc')
<1>1. p # 1 /\ proc[p].pc = "sh.exec" /\ Table(proc)
  BY DEF OneInv, ShExec, AtLabel
<1>2. \A q \in Pids : proc[q].parent # p
  BY <1>1 DEF OneInv, Pids
<1>3. PICK word, v : word = proc[p].mem.words[1] /\ v = Exec(proc, p, word)
  OBVIOUS
<1>4. word \in Alone
  BY <1>1, <1>3 DEF OneInv
<1>5. IF word = "missing" THEN Left(proc, v, p)
      ELSE Becomes(proc, v, p, word, proc[p].parent, proc[p].fd, [left |-> Bytes, got |-> 0])
  BY <1>1, <1>2, <1>3, ExecIs
<1>6. OneInv(v)
  <2>1. CASE Left(proc, v, p)
    BY <1>1, <2>1, OneChild DEF Left
  <2>2. CASE word # "missing"
    <3>1. word \in OneCommands
      BY <1>4, <2>2 DEF Alone, OneCommands
    <3> QED
      BY <1>1, <1>5, <2>2, <3>1, OneChild DEF Becomes
  <2> QED
    BY <1>5, <2>1, <2>2
<1>7. proc' = v
  BY <1>3 DEF ShExec
<1> QED
  BY <1>6, <1>7

\* The shell itself goes on, with no child.
LEMMA OneRoot ==
  ASSUME OneInv(proc), NEW v, Table(v), v[1].parent = 0,
         v[1].pc \in {"min.prompt", "more.prompt", "sh.fork", "zombie"},
         v[1].pc # "zombie" => v[1].fd = Terminal,
         v[1].pc = "sh.fork" => v[1].mem.words[1] \in Alone,
         \A q \in Pids : q # 1 => v[q] = proc[q] \/ v[q] = Free,
         \A q \in Pids : v[q].parent # 1
  PROVE  OneInv(v)
<1>1. ASSUME NEW q \in Pids, q # 1
      PROVE  /\ v[q].pc \in {"free", "zombie", "sh.exec"} \cup OneCommands /\ v[q].parent \in {0, 1}
             /\ v[q].pc = "sh.exec" => v[q].mem.words[1] \in Alone
  <2>1. CASE v[q] = Free
    BY <2>1, FreeIs
  <2>2. CASE v[q] = proc[q]
    BY <1>1, <2>2 DEF OneInv
  <2> QED
    BY <1>1, <2>1, <2>2
<1> QED
  BY <1>1 DEF OneInv

LEMMA ReadLineInv ==
  ASSUME OneInv(proc), NEW p \in Pids, NEW prompt \in {"min.prompt", "more.prompt"},
         ReadLine(p, prompt)
  PROVE  OneInv(proc')
<1>1. p = 1 /\ proc[1].pc \in {"min.prompt", "more.prompt"} /\ Table(proc) /\ proc[1].parent = 0
  BY DEF OneInv, ReadLine, AtLabel, OneCommands
<1>2. \A q \in Pids : proc[q].parent # 1
  BY <1>1 DEF OneInv
<1>3. CASE proc' = Exited(proc, 1, 0)
  <2>1. PICK v : v = Exited(proc, 1, 0)
    OBVIOUS
  <2>2. Ends(proc, v, 1)
    BY <1>1, <2>1, ExitIs DEF Exited
  <2>3. /\ Table(v) /\ v[1].pc = "zombie" /\ v[1].parent = 0
        /\ \A q \in Pids : q # 1 => v[q] = proc[q]
    BY <1>1, <1>2, <2>2 DEF Ends, Root
  <2>4. \A q \in Pids : v[q].parent # 1
    BY <1>2, <2>3
  <2>5. OneInv(v)
    BY <2>3, <2>4, OneRoot
  <2> QED
    BY <1>3, <2>1, <2>5
<1>4. ASSUME NEW word \in Alone,
             proc' = Goto(Set(proc, 1, [words |-> <<word>>, pids |-> <<>>]), 1, "sh.fork")
      PROVE  OneInv(proc')
  <2>1. PICK mem, v : mem = [words |-> <<word>>, pids |-> <<>>]
                      /\ v = Goto(Set(proc, 1, mem), 1, "sh.fork")
    OBVIOUS
  <2>2. Becomes(proc, v, 1, "sh.fork", proc[1].parent, proc[1].fd, mem)
    BY <1>1, <2>1, SetGotoIs
  <2>3. /\ Table(v) /\ v[1].pc = "sh.fork" /\ v[1].parent = 0 /\ v[1].mem = mem
        /\ v[1].fd = Terminal /\ \A q \in Pids : q # 1 => v[q] = proc[q]
    BY <1>1, <2>2 DEF Becomes, OneInv
  <2>4. \A q \in Pids : v[q].parent # 1
    BY <1>2, <2>3
  <2>5. mem.words[1] \in Alone
    BY <2>1
  <2>6. OneInv(v)
    BY <2>3, <2>4, <2>5, OneRoot
  <2> QED
    BY <1>4, <2>1, <2>6
<1> QED
  BY <1>1, <1>3, <1>4 DEF ReadLine

\* Back to the prompt.
LEMMA BackIs ==
  ASSUME NEW t, Table(t), NEW prompt, NEW v, v = Back(t, 1, prompt)
  PROVE  Becomes(t, v, 1, prompt, t[1].parent, t[1].fd, NoCommand)
  BY FsPids, SetGotoIs DEF Back

LEMMA ShForkInv ==
  ASSUME OneInv(proc), NEW p \in Pids, ShFork(p)
  PROVE  OneInv(proc')
<1>1. p = 1 /\ proc[1].pc = "sh.fork" /\ Table(proc) /\ proc[1].parent = 0 /\ proc[1].fd = Terminal
      /\ proc[1].mem.words[1] \in Alone
  BY DEF OneInv, ShFork, AtLabel, OneCommands
<1>2. \A q \in Pids : proc[q].parent # 1
  BY <1>1 DEF OneInv
<1>3. CASE CanFork /\ proc' = Goto(Fork(proc, 1, NewPid, "sh.exec"), 1, "sh.wait")
  <2>1. PICK c, u, v : c = NewPid /\ u = Fork(proc, 1, c, "sh.exec") /\ v = Goto(u, 1, "sh.wait")
    OBVIOUS
  <2>2. c \in Pids /\ proc[c].pc = "free" /\ c # 1
    BY <1>1, <1>3, <2>1, NewPidIs
  <2>3. Becomes(proc, u, c, "sh.exec", 1, proc[1].fd, proc[1].mem)
    BY <1>1, <2>1, <2>2, ForkIs
  <2>4. Becomes(u, v, 1, "sh.wait", u[1].parent, u[1].fd, u[1].mem)
    BY <1>1, <2>1, <2>3, GotoIs DEF Becomes
  <2>5. /\ Table(v) /\ v[1].pc = "sh.wait" /\ v[1].parent = 0 /\ v[1].fd = Terminal
        /\ v[c].pc = "sh.exec" /\ v[c].parent = 1 /\ v[c].mem = proc[1].mem
        /\ \A q \in Pids : q \notin {1, c} => v[q] = proc[q]
    BY <1>1, <2>2, <2>3, <2>4 DEF Becomes
  <2>6. ASSUME NEW q \in Pids, q # 1
        PROVE  /\ v[q].pc \in {"free", "zombie", "sh.exec"} \cup OneCommands /\ v[q].parent \in {0, 1}
               /\ v[q].pc = "sh.exec" => v[q].mem.words[1] \in Alone
    <3>1. CASE q = c
      BY <1>1, <2>5, <3>1
    <3>2. CASE q # c
      <4>1. v[q] = proc[q]
        BY <2>5, <2>6, <3>2
      <4> QED
        BY <2>6, <4>1 DEF OneInv
    <3> QED
      BY <3>1, <3>2
  <2>7. \A q \in Pids : v[q].parent = 1 => q = c
    BY <1>2, <2>5
  <2>8. OneInv(v)
    BY <2>5, <2>6, <2>7 DEF OneInv
  <2> QED
    BY <1>3, <2>1, <2>8
<1>4. CASE proc' = Back(proc, 1, Prompt)
  <2>1. PICK v : v = Back(proc, 1, Prompt)
    OBVIOUS
  <2>2. Becomes(proc, v, 1, Prompt, proc[1].parent, proc[1].fd, NoCommand)
    BY <1>1, <2>1, BackIs
  <2>3. Prompt \in {"min.prompt", "more.prompt"}
    BY DEF Prompt
  <2>4. /\ Table(v) /\ v[1].pc \in {"min.prompt", "more.prompt"} /\ v[1].parent = 0
        /\ v[1].fd = Terminal /\ \A q \in Pids : q # 1 => v[q] = proc[q]
    BY <1>1, <2>2, <2>3 DEF Becomes
  <2>5. \A q \in Pids : v[q].parent # 1
    BY <1>2, <2>4
  <2>6. OneInv(v)
    BY <2>4, <2>5, OneRoot
  <2> QED
    BY <1>4, <2>1, <2>6
<1> QED
  BY <1>1, <1>3, <1>4 DEF ShFork

LEMMA ShWaitInv ==
  ASSUME OneInv(proc), NEW p \in Pids, ShWait(p)
  PROVE  OneInv(proc')
<1>1. p = 1 /\ proc[1].pc = "sh.wait" /\ Table(proc) /\ proc[1].parent = 0 /\ proc[1].fd = Terminal
  BY DEF OneInv, ShWait, AtLabel, OneCommands
<1>2. PICK c \in Pids : ZombieOf(1, c) /\ proc' = Back(Reap(proc, c), 1, Prompt)
  BY <1>1 DEF ShWait
<1>3. PICK u, v : u = Reap(proc, c) /\ v = Back(u, 1, Prompt)
  OBVIOUS
<1>4. c # 1 /\ proc[c].parent = 1
  BY <1>1, <1>2 DEF ZombieOf
<1>5. Becomes(proc, u, c, "free", 0, <<>>, <<>>) /\ u[c] = Free
  BY <1>1, <1>3, ReapIs
<1>6. Becomes(u, v, 1, Prompt, u[1].parent, u[1].fd, NoCommand)
  BY <1>3, <1>5, BackIs DEF Becomes
<1>7. Prompt \in {"min.prompt", "more.prompt"}
  BY DEF Prompt
<1>8. /\ Table(v) /\ v[1].pc \in {"min.prompt", "more.prompt"} /\ v[1].parent = 0
      /\ v[1].fd = Terminal /\ v[c] = Free /\ \A q \in Pids : q \notin {1, c} => v[q] = proc[q]
  BY <1>1, <1>4, <1>5, <1>6, <1>7 DEF Becomes
<1>9. ASSUME NEW q \in Pids
      PROVE  v[q].parent # 1
  <2>1. proc[q].parent = 1 => q = c
    BY <1>4 DEF OneInv
  <2> QED
    BY <1>8, <2>1, FreeIs
<1>10. OneInv(v)
  BY <1>8, <1>9, OneRoot
<1> QED
  BY <1>2, <1>3, <1>10

LEMMA OneStepInv ==
  ASSUME OneInv(proc), NEW p \in Pids, OneStep(p)
  PROVE  OneInv(proc')
  BY OneCommandInv, ShExecInv, ReadLineInv, ShForkInv, ShWaitInv
     DEF OneStep, MinPrompt, MorePrompt, OneCommand

LEMMA OneLabelled ==
  ASSUME OneInv(proc)
  PROVE  Labelled(proc, OneLabels \cup CommandLabels)
<1>1. ASSUME NEW p \in Pids
      PROVE  proc[p].pc \in OneLabels \cup CommandLabels \cup Idle
  BY DEF OneInv, OneLabels, CommandLabels, Idle, OneCommands
<1> QED
  BY <1>1 DEF Labelled, OneInv

LEMMA OneClean ==
  ASSUME OneInv(proc), AtPrompt
  PROVE  proc[Root].fd = Terminal /\ Children(Root) = {}
  BY FsPids DEF OneInv, AtPrompt, Prompts, Children

-----------------------------------------------------------------------------
\* DupShell.

LEMMA PipelineIs ==
  ASSUME NEW words \in Pipelines
  PROVE  /\ words[1] \in First /\ words[2] \in Second
         /\ ~(words[1] = "yes" /\ words[2] = "wc")
<1>1. PICK a \in First, b \in Second : words = <<a, b>>
  BY DEF Pipelines
<1>2. words # <<"yes", "wc">>
  BY DEF Pipelines
<1> QED
  BY <1>1, <1>2

\* A child of the shell: before it has become its command it has the shell's pipe, and then
\* one end of it in the place of stdout or stdin.
Child(x) ==
  /\ x.pc \in {"free", "zombie", "dup.exec1", "dup.exec2"} \cup CommandLabels
  /\ x.parent \in {0, 1} /\ (x.pc = "free" => x.parent = 0)
  /\ x.pc \in {"free", "zombie"} => x.fd = <<>>
  /\ x.pc \in {"dup.exec1", "dup.exec2"} =>
       x.mem.words \in Pipelines /\ \E k \in 1 .. Pipes : x.fd = Piped(k, k)
  /\ x.pc \in {"echo", "yes"} => \E k \in 1 .. Pipes : x.fd = Writer(k)
  /\ x.pc \in {"wc", "head"} => \E k \in 1 .. Pipes : x.fd = Reader(k)

\* The children the shell r is to wait for.
FirstOf(r, p) == r.pc \in {"dup.fork2", "dup.close", "dup.wait1"} /\ p = r.mem.pids[1]
SecondOf(r, p) == r.pc \in {"dup.close", "dup.wait1", "dup.wait2"} /\ p = r.mem.pids[2]

Memory(r) ==
  /\ r.mem = [words |-> r.mem.words, pids |-> r.mem.pids] /\ r.mem.words \in Pipelines
  /\ r.pc = "dup.fork2" => r.mem.pids = <<r.mem.pids[1]>>
Forking == {"dup.fork1", "dup.fork2", "dup.close"}
Waits == {"dup.wait1", "dup.wait2"}

DupRootOk(r) ==
  /\ r.parent = 0 /\ r.pc \in Forking \cup Waits \cup {"dup.prompt", "zombie"}
  /\ r.pc \in Waits \cup {"dup.prompt"} => r.fd = Terminal
  /\ r.pc \in Forking => \E k \in 1 .. Pipes : r.fd = Piped(k, k)
  /\ r.pc \in Forking \cup Waits => Memory(r)

Known(r, f, x, p) == (p = x /\ "fork" \in f) \/ FirstOf(r, p) \/ SecondOf(r, p)
DupInv(t, f) ==
  /\ Table(t) /\ DupRootOk(t[1])
  /\ \A p \in Pids : p # 1 => Child(t[p]) /\ (t[1].pc # "zombie" /\ t[p].pc # "free" => t[p].parent = 1)
  /\ \E x : \A p \in Pids : t[p].parent = 1 => Known(t[1], f, x, p)

\* A child goes on.
LEMMA DupChild ==
  ASSUME NEW f, DupInv(proc, f), NEW p \in Pids, p # 1, proc[p].pc # "free", NEW v, Table(v),
         \A q \in Pids : q # p => v[q] = proc[q], Child(v[p]),
         v[p].pc = "free" \/ v[p].parent = proc[p].parent
  PROVE  DupInv(v, f)
<1>1. v[1] = proc[1]
  BY FsPids
<1>2. \A q \in Pids : v[q].parent = 1 => proc[q].parent = 1
  BY DEF Child
<1>3. ASSUME NEW q \in Pids, q # 1
      PROVE  Child(v[q]) /\ (v[1].pc # "zombie" /\ v[q].pc # "free" => v[q].parent = 1)
  <2>1. CASE q = p
    BY <1>1, <1>3, <2>1 DEF DupInv
  <2>2. CASE q # p
    <3>1. v[q] = proc[q]
      BY <2>2
    <3> QED
      BY <1>1, <1>3, <3>1 DEF DupInv
  <2> QED
    BY <2>1, <2>2
<1>4. PICK x : \A q \in Pids : proc[q].parent = 1 => Known(proc[1], f, x, q)
  BY DEF DupInv
<1>5. \A q \in Pids : v[q].parent = 1 => Known(v[1], f, x, q)
  BY <1>1, <1>2, <1>4
<1> QED
  BY <1>1, <1>3, <1>5 DEF DupInv

\* The shell goes on: the other processes are as they were, or have been waited for.
LEMMA DupRoot ==
  ASSUME NEW f, DupInv(proc, f), NEW g, f \subseteq g, NEW v, Table(v), DupRootOk(v[1]),
         proc[1].pc # "zombie",
         \A q \in Pids : q # 1 => v[q] = proc[q] \/ v[q] = Free,
         NEW x, \A p \in Pids : v[p].parent = 1 => Known(v[1], g, x, p)
  PROVE  DupInv(v, g)
<1>1. ASSUME NEW q \in Pids, q # 1
      PROVE  Child(v[q]) /\ (v[q].pc # "free" => v[q].parent = 1)
  <2>1. CASE v[q] = Free
    BY <2>1, FreeIs DEF Child, CommandLabels
  <2>2. CASE v[q] = proc[q]
    BY <1>1, <2>2 DEF DupInv
  <2> QED
    BY <1>1, <2>1, <2>2
<1> QED
  BY <1>1 DEF DupInv

LEMMA DupCommandInv ==
  ASSUME DupInv(proc, failed), NEW p \in Pids, Command(p)
  PROVE  DupInv(proc', failed')
<1>0. /\ p # 1 /\ proc[p].pc \in CommandLabels \cup {"ls.perror"} /\ failed' = failed
      /\ Table(proc) /\ Child(proc[p])
  BY CommandMoves DEF DupInv, CommandLabels, DupRootOk, Forking, Waits
<1>1. /\ p # 1 /\ proc[p].pc \in CommandLabels /\ Table(proc) /\ failed' = failed
      /\ Child(proc[p]) /\ proc[p].pc \notin {"free", "zombie", "dup.exec1", "dup.exec2"}
  BY <1>0 DEF Child, CommandLabels
<1>2. \A q \in Pids : proc[q].parent # p
  <2>1. proc[1].parent = 0 /\ p \in Nat /\ p # 0
    BY UnixAssumption DEF DupInv, DupRootOk, Pids
  <2> QED
    BY <1>1, <2>1 DEF DupInv, Child
<1>3. CASE proc' = proc
  BY <1>1, <1>3
<1>4. ASSUME NEW mem, proc' = Set(proc, p, mem)
      PROVE  DupInv(proc', failed)
  <2>1. PICK v : v = Set(proc, p, mem)
    OBVIOUS
  <2>2. Becomes(proc, v, p, proc[p].pc, proc[p].parent, proc[p].fd, mem)
    BY <1>1, <2>1, SetIs
  <2>3. Child(v[p])
    BY <1>1, <2>2 DEF Child, Becomes
  <2>4. DupInv(v, failed)
    BY <1>1, <2>2, <2>3, DupChild DEF Becomes
  <2> QED
    BY <1>4, <2>1, <2>4
<1>5. ASSUME NEW status, proc' = Exit(proc, p, status)
      PROVE  DupInv(proc', failed)
  <2>1. PICK v : v = Exit(proc, p, status)
    OBVIOUS
  <2>2. Left(proc, v, p)
    BY <1>1, <1>2, <2>1, LeftIs
  <2>3. Child(v[p])
    BY <1>1, <2>2 DEF Child, Left, CommandLabels
  <2>4. DupInv(v, failed)
    BY <1>1, <2>2, <2>3, DupChild DEF Left
  <2> QED
    BY <1>5, <2>1, <2>4
<1> QED
  BY <1>1, <1>3, <1>4, <1>5, CommandMoves

-----------------------------------------------------------------------------
\* The descriptors of a command: one end moved, both closed.
FdsMoved(fd, near, new, far) ==
  LET a == Restrict(fd, DOMAIN fd \ {far})
      b == [n \in DOMAIN a \cup {new} |-> IF n = new THEN a[near] ELSE a[n]]
  IN Restrict(b, DOMAIN b \ {near})

LEMMA MovedOut ==
  ASSUME NEW k
  PROVE  FdsMoved(Piped(k, k), W(0), Out, R(0)) = Writer(k)
<1>1. /\ R(0) # W(0) /\ R(0) \notin {In, Out} /\ W(0) \notin {In, Out} /\ In # Out
  BY Names
<1>2. PICK a : a = Restrict(Piped(k, k), DOMAIN Piped(k, k) \ {R(0)})
  OBVIOUS
<1>3. /\ a = [n \in {In, Out, W(0)} |-> Piped(k, k)[n]]
  <2>1. DOMAIN Piped(k, k) \ {R(0)} = {In, Out, W(0)}
    BY <1>1, Opened
  <2> QED
    BY <1>2, <2>1 DEF Restrict
<1>4. DOMAIN a = {In, Out, W(0)} /\ a[In] = Tty /\ a[Out] = Tty /\ a[W(0)] = W(k)
  BY <1>3, Opened
<1>5. PICK b : b = [n \in DOMAIN a \cup {Out} |-> IF n = Out THEN a[W(0)] ELSE a[n]]
  OBVIOUS
<1>6. DOMAIN b = {In, Out, W(0)} /\ b[In] = Tty /\ b[Out] = W(k)
  BY <1>1, <1>4, <1>5
<1>7. DOMAIN b \ {W(0)} = {In, Out}
  BY <1>1, <1>6
<1>8. Restrict(b, {In, Out}) = [n \in {In, Out} |-> b[n]]
  BY DEF Restrict
<1>9. [n \in {In, Out} |-> b[n]] = Writer(k)
  BY <1>1, <1>6 DEF Writer
<1> QED
  BY <1>2, <1>5, <1>7, <1>8, <1>9 DEF FdsMoved

LEMMA MovedIn ==
  ASSUME NEW k
  PROVE  FdsMoved(Piped(k, k), R(0), In, W(0)) = Reader(k)
<1>1. /\ R(0) # W(0) /\ R(0) \notin {In, Out} /\ W(0) \notin {In, Out} /\ In # Out
  BY Names
<1>2. PICK a : a = Restrict(Piped(k, k), DOMAIN Piped(k, k) \ {W(0)})
  OBVIOUS
<1>3. /\ a = [n \in {In, Out, R(0)} |-> Piped(k, k)[n]]
  <2>1. DOMAIN Piped(k, k) \ {W(0)} = {In, Out, R(0)}
    BY <1>1, Opened
  <2> QED
    BY <1>2, <2>1 DEF Restrict
<1>4. DOMAIN a = {In, Out, R(0)} /\ a[In] = Tty /\ a[Out] = Tty /\ a[R(0)] = R(k)
  BY <1>3, Opened
<1>5. PICK b : b = [n \in DOMAIN a \cup {In} |-> IF n = In THEN a[R(0)] ELSE a[n]]
  OBVIOUS
<1>6. DOMAIN b = {In, Out, R(0)} /\ b[Out] = Tty /\ b[In] = R(k)
  BY <1>1, <1>4, <1>5
<1>7. DOMAIN b \ {R(0)} = {In, Out}
  BY <1>1, <1>6
<1>8. Restrict(b, {In, Out}) = [n \in {In, Out} |-> b[n]]
  BY DEF Restrict
<1>9. [n \in {In, Out} |-> b[n]] = Reader(k)
  BY <1>1, <1>6 DEF Reader
<1> QED
  BY <1>2, <1>5, <1>7, <1>8, <1>9 DEF FdsMoved

LEMMA MovedIs ==
  ASSUME NEW t, Table(t), NEW p \in Pids, NEW near, NEW new, NEW far, NEW u,
         u = Close(Dup2(Close(t, p, {far}), p, near, new), p, {near})
  PROVE  Becomes(t, u, p, t[p].pc, t[p].parent, FdsMoved(t[p].fd, near, new, far), t[p].mem)
<1>1. PICK a, b : a = Close(t, p, {far}) /\ b = Dup2(a, p, near, new)
  OBVIOUS
<1>2. PICK fa : fa = Restrict(t[p].fd, DOMAIN t[p].fd \ {far})
  OBVIOUS
<1>3. PICK fb : fb = [n \in DOMAIN fa \cup {new} |-> IF n = new THEN fa[near] ELSE fa[n]]
  OBVIOUS
<1>4. Becomes(t, a, p, t[p].pc, t[p].parent, fa, t[p].mem)
  BY <1>1, <1>2, CloseIs
<1>5. Table(a) /\ a[p].fd = fa
  BY <1>4 DEF Becomes
<1>6. Becomes(a, b, p, a[p].pc, a[p].parent,
              [n \in DOMAIN a[p].fd \cup {new} |-> IF n = new THEN a[p].fd[near] ELSE a[p].fd[n]], a[p].mem)
  BY <1>1, <1>5, Dup2Is
<1>7. Becomes(a, b, p, a[p].pc, a[p].parent, fb, a[p].mem)
  BY <1>3, <1>5, <1>6
<1>8. Table(b) /\ b[p].fd = fb
  BY <1>7 DEF Becomes
<1>9. Becomes(b, u, p, b[p].pc, b[p].parent, Restrict(b[p].fd, DOMAIN b[p].fd \ {near}), b[p].mem)
  BY <1>1, <1>8, CloseIs
<1>10. Restrict(fb, DOMAIN fb \ {near}) = FdsMoved(t[p].fd, near, new, far)
  BY <1>2, <1>3 DEF FdsMoved
<1> HIDE DEF FdsMoved
<1> QED
  BY <1>4, <1>7, <1>8, <1>9, <1>10 DEF Becomes

\* A child of DupShell becomes its command, or ends.
Become(t, p, near, new, far, word) ==
  Exec(Close(Dup2(Close(t, p, {far}), p, near, new), p, {near}), p, word)

LEMMA BecomeIs ==
  ASSUME NEW t, Table(t), NEW p \in Pids, p # 1, \A q \in Pids : t[q].parent # p,
         NEW near, NEW new, NEW far, NEW word, NEW v, v = Become(t, p, near, new, far, word)
  PROVE  IF word = "missing" THEN Left(t, v, p)
         ELSE Becomes(t, v, p, word, t[p].parent, FdsMoved(t[p].fd, near, new, far),
                      [left |-> Bytes, got |-> 0])
<1>1. PICK u : u = Close(Dup2(Close(t, p, {far}), p, near, new), p, {near})
  OBVIOUS
<1>2. PICK fd, mem : fd = FdsMoved(t[p].fd, near, new, far) /\ mem = [left |-> Bytes, got |-> 0]
  OBVIOUS
<1>3. Becomes(t, u, p, t[p].pc, t[p].parent, fd, t[p].mem)
  BY <1>1, <1>2, MovedIs
<1>4. Table(u) /\ \A q \in Pids : u[q].parent # p
  BY <1>3 DEF Becomes
<1>5. v = Exec(u, p, word)
  BY <1>1 DEF Become
<1>6. IF word = "missing" THEN Left(u, v, p)
      ELSE Becomes(u, v, p, word, u[p].parent, u[p].fd, mem)
  BY <1>2, <1>4, <1>5, ExecIs
<1>7. CASE word = "missing"
  BY <1>3, <1>6, <1>7 DEF Left, Becomes
<1>8. CASE word # "missing"
  <2>1. Becomes(t, v, p, word, t[p].parent, fd, mem)
    BY <1>3, <1>6, <1>8 DEF Becomes
  <2> QED
    BY <1>2, <1>8, <2>1
<1> QED
  BY <1>7, <1>8

\* The child has become its command, with these descriptors, or has ended.
Turned(t, u, p, word, fd) ==
  IF word = "missing" THEN Left(t, u, p)
  ELSE Becomes(t, u, p, word, t[p].parent, fd, [left |-> Bytes, got |-> 0])

\* The first command writes to the pipe, the second reads from it.
LEMMA DupExec1Is ==
  ASSUME DupInv(proc, failed), NEW p \in Pids, DupExec1(p)
  PROVE  /\ p # 1 /\ proc[p].pc = "dup.exec1" /\ proc[p].mem.words \in Pipelines
         /\ failed' = failed /\ pipe' = pipe /\ printed' = printed
         /\ \E k \in 1 .. Pipes :
              proc[p].fd = Piped(k, k) /\ Turned(proc, proc', p, proc[p].mem.words[1], Writer(k))
<1>1. /\ p # 1 /\ proc[p].pc = "dup.exec1" /\ Table(proc) /\ Child(proc[p])
      /\ failed' = failed /\ pipe' = pipe /\ printed' = printed
  BY DEF DupInv, DupExec1, AtLabel, DupRootOk, Forking, Waits
<1>2. \A q \in Pids : proc[q].parent # p
  <2>1. proc[1].parent = 0 /\ p \in Nat /\ p # 0
    BY UnixAssumption DEF DupInv, DupRootOk, Pids
  <2> QED
    BY <1>1, <2>1 DEF DupInv, Child
<1>3. PICK k \in 1 .. Pipes : proc[p].fd = Piped(k, k)
  BY <1>1 DEF Child
<1>4. PICK word : word = proc[p].mem.words[1]
  OBVIOUS
<1>5. PICK v : v = Become(proc, p, W(0), Out, R(0), word)
  OBVIOUS
<1>6. IF word = "missing" THEN Left(proc, v, p)
      ELSE Becomes(proc, v, p, word, proc[p].parent, FdsMoved(proc[p].fd, W(0), Out, R(0)),
                   [left |-> Bytes, got |-> 0])
  BY <1>1, <1>2, <1>5, BecomeIs
<1>7. FdsMoved(proc[p].fd, W(0), Out, R(0)) = Writer(k)
  BY <1>3, MovedOut
<1>8. Turned(proc, v, p, word, Writer(k))
  BY <1>6, <1>7 DEF Turned
<1>9. proc' = v
  BY <1>4, <1>5 DEF DupExec1, Become
<1> QED
  BY <1>1, <1>3, <1>4, <1>8, <1>9 DEF Child

LEMMA DupExec2Is ==
  ASSUME DupInv(proc, failed), NEW p \in Pids, DupExec2(p)
  PROVE  /\ p # 1 /\ proc[p].pc = "dup.exec2" /\ proc[p].mem.words \in Pipelines
         /\ failed' = failed /\ pipe' = pipe /\ printed' = printed
         /\ \E k \in 1 .. Pipes :
              proc[p].fd = Piped(k, k) /\ Turned(proc, proc', p, proc[p].mem.words[2], Reader(k))
<1>1. /\ p # 1 /\ proc[p].pc = "dup.exec2" /\ Table(proc) /\ Child(proc[p])
      /\ failed' = failed /\ pipe' = pipe /\ printed' = printed
  BY DEF DupInv, DupExec2, AtLabel, DupRootOk, Forking, Waits
<1>2. \A q \in Pids : proc[q].parent # p
  <2>1. proc[1].parent = 0 /\ p \in Nat /\ p # 0
    BY UnixAssumption DEF DupInv, DupRootOk, Pids
  <2> QED
    BY <1>1, <2>1 DEF DupInv, Child
<1>3. PICK k \in 1 .. Pipes : proc[p].fd = Piped(k, k)
  BY <1>1 DEF Child
<1>4. PICK word : word = proc[p].mem.words[2]
  OBVIOUS
<1>5. PICK v : v = Become(proc, p, R(0), In, W(0), word)
  OBVIOUS
<1>6. IF word = "missing" THEN Left(proc, v, p)
      ELSE Becomes(proc, v, p, word, proc[p].parent, FdsMoved(proc[p].fd, R(0), In, W(0)),
                   [left |-> Bytes, got |-> 0])
  BY <1>1, <1>2, <1>5, BecomeIs
<1>7. FdsMoved(proc[p].fd, R(0), In, W(0)) = Reader(k)
  BY <1>3, MovedIn
<1>8. Turned(proc, v, p, word, Reader(k))
  BY <1>6, <1>7 DEF Turned
<1>9. proc' = v
  BY <1>4, <1>5 DEF DupExec2, Become
<1> QED
  BY <1>1, <1>3, <1>4, <1>8, <1>9 DEF Child

LEMMA DupExecInv ==
  ASSUME DupInv(proc, failed), NEW p \in Pids, DupExec1(p) \/ DupExec2(p)
  PROVE  DupInv(proc', failed')
<1>1. PICK words, k, v :
        /\ words \in Pipelines /\ k \in 1 .. Pipes /\ p # 1
        /\ proc[p].pc \in {"dup.exec1", "dup.exec2"} /\ failed' = failed /\ proc' = v
        /\ Turned(proc, v, p, words[1], Writer(k)) \/ Turned(proc, v, p, words[2], Reader(k))
  <2>1. PICK u : u = proc'
    OBVIOUS
  <2>2. \E k \in 1 .. Pipes : \E words \in Pipelines :
          Turned(proc, u, p, words[1], Writer(k)) \/ Turned(proc, u, p, words[2], Reader(k))
    <3>1. CASE DupExec1(p)
      BY <2>1, <3>1, DupExec1Is
    <3>2. CASE DupExec2(p)
      BY <2>1, <3>2, DupExec2Is
    <3> QED
      BY <3>1, <3>2
  <2>3. p # 1 /\ proc[p].pc \in {"dup.exec1", "dup.exec2"} /\ failed' = failed
    <3>1. CASE DupExec1(p)
      BY <3>1, DupExec1Is
    <3>2. CASE DupExec2(p)
      BY <3>2, DupExec2Is
    <3> QED
      BY <3>1, <3>2
  <2> QED
    BY <2>1, <2>2, <2>3
<1>2. words[1] \in First /\ words[2] \in Second
  BY <1>1, PipelineIs
<1>3. proc[p].pc # "free" /\ Child(proc[p])
  BY <1>1 DEF DupInv
<1>4. Table(v) /\ (\A q \in Pids : q # p => v[q] = proc[q]) /\ Child(v[p])
      /\ (v[p].pc = "free" \/ v[p].parent = proc[p].parent)
  <2>1. CASE Left(proc, v, p)
    BY <1>3, <2>1 DEF Left, Child, CommandLabels
  <2>2. CASE words[1] # "missing" /\ Turned(proc, v, p, words[1], Writer(k))
    <3>1. words[1] \in {"true", "echo", "yes"}
      BY <1>2, <2>2 DEF First
    <3>2. Table(v) /\ (\A q \in Pids : q # p => v[q] = proc[q])
          /\ v[p].pc = words[1] /\ v[p].fd = Writer(k) /\ v[p].parent = proc[p].parent
      BY <2>2 DEF Turned, Becomes
    <3> QED
      BY <1>1, <1>3, <3>1, <3>2 DEF Child, CommandLabels
  <2>3. CASE words[2] # "missing" /\ Turned(proc, v, p, words[2], Reader(k))
    <3>1. words[2] \in {"wc", "head", "true"}
      BY <1>2, <2>3 DEF Second
    <3>2. Table(v) /\ (\A q \in Pids : q # p => v[q] = proc[q])
          /\ v[p].pc = words[2] /\ v[p].fd = Reader(k) /\ v[p].parent = proc[p].parent
      BY <2>3 DEF Turned, Becomes
    <3> QED
      BY <1>1, <1>3, <3>1, <3>2 DEF Child, CommandLabels
  <2> QED
    BY <1>1, <2>1, <2>2, <2>3 DEF Turned
<1>5. DupInv(v, failed)
  BY <1>1, <1>3, <1>4, DupChild
<1> QED
  BY <1>1, <1>5

-----------------------------------------------------------------------------
\* A shell that is about to fork has room for the child.
LEMMA DupRoom ==
  ASSUME NEW f, DupInv(proc, f), proc[1].pc \in {"dup.fork1", "dup.fork2"}
  PROVE  CanFork
<1> SUFFICES ASSUME \A c \in Pids : proc[c].pc # "free"
             PROVE  FALSE
  BY DEF CanFork
<1>1. PICK x : \A p \in Pids : proc[p].parent = 1 => Known(proc[1], f, x, p)
  BY DEF DupInv
<1>2. 2 \in Pids /\ 3 \in Pids /\ 4 \in Pids
  BY UnixAssumption, ShellsAssumption DEF Pids
<1>3. proc[2].parent = 1 /\ proc[3].parent = 1 /\ proc[4].parent = 1
  BY <1>2 DEF DupInv
<1>4. \A p \in {2, 3, 4} : p = x \/ p = proc[1].mem.pids[1]
  BY <1>1, <1>2, <1>3 DEF Known, FirstOf, SecondOf
<1> QED
  BY <1>4

\* The shell reads a line: it ends, begins with a pipe of its own, or has none to begin with.
LEMMA DupPromptIs ==
  ASSUME DupInv(proc, failed), NEW p \in Pids, DupPrompt(p)
  PROVE  /\ proc[1].pc = "dup.prompt" /\ failed \subseteq failed'
         /\ printed' = [printed EXCEPT ![1] = Nothing]
         /\ \/ Ends(proc, proc', 1) /\ pipe' = pipe
            \/ \E line \in Pipelines, k \in 1 .. Pipes :
                 /\ Unused(k) /\ pipe' = [pipe EXCEPT ![k] = <<>>]
                 /\ Becomes(proc, proc', 1, "dup.fork1", 0, Piped(k, k), [words |-> line, pids |-> <<>>])
            \/ proc' = proc /\ pipe' = pipe
<1>1. /\ p = 1 /\ proc[1].pc = "dup.prompt" /\ Table(proc) /\ proc[1].parent = 0
      /\ proc[1].fd = Terminal /\ 1 \in Pids
  BY FsPids DEF DupInv, DupPrompt, AtLabel, DupRootOk, Child, CommandLabels
<1>2. ASSUME proc' = Exited(proc, 1, 0)
      PROVE  Ends(proc, proc', 1)
  <2>1. PICK v : v = Exited(proc, 1, 0)
    OBVIOUS
  <2>2. Ends(proc, v, 1)
    BY <1>1, <2>1, ExitIs DEF Exited
  <2> QED
    BY <1>2, <2>1, <2>2
<1>3. ASSUME NEW line \in Pipelines, CanPipe,
             proc' = Goto(Set(OpenPipe(proc, 1, NewPipe, R(0), W(0)), 1,
                              [words |-> line, pids |-> <<>>]), 1, "dup.fork1")
      PROVE  /\ NewPipe \in 1 .. Pipes /\ Unused(NewPipe)
             /\ Becomes(proc, proc', 1, "dup.fork1", 0, Piped(NewPipe, NewPipe),
                        [words |-> line, pids |-> <<>>])
  <2>1. PICK k, u, v, mem :
          /\ k = NewPipe /\ u = OpenPipe(proc, 1, k, R(0), W(0))
          /\ mem = [words |-> line, pids |-> <<>>] /\ v = Goto(Set(u, 1, mem), 1, "dup.fork1")
    OBVIOUS
  <2>2. k \in 1 .. Pipes /\ Unused(k)
    BY <1>3, <2>1, NewPipeIs DEF CanPipe
  <2>3. [n \in DOMAIN Terminal \cup {R(0), W(0)} |->
           IF n = R(0) THEN R(k) ELSE IF n = W(0) THEN W(k) ELSE Terminal[n]] = Piped(k, k)
    <3>1. DOMAIN Terminal \cup {R(0), W(0)} = {In, Out, R(0), W(0)}
      BY Opened
    <3>2. Terminal[In] = Tty /\ Terminal[Out] = Tty
      BY Opened
    <3> QED
      BY <3>1, <3>2 DEF Piped
  <2>4. Becomes(proc, u, 1, proc[1].pc, proc[1].parent, Piped(k, k), proc[1].mem)
    <3>1. PICK fd : fd = [n \in DOMAIN proc[1].fd \cup {R(0), W(0)} |->
             IF n = R(0) THEN R(k) ELSE IF n = W(0) THEN W(k) ELSE proc[1].fd[n]]
      OBVIOUS
    <3>2. fd = Piped(k, k)
      BY <1>1, <2>3, <3>1
    <3>3. Becomes(proc, u, 1, proc[1].pc, proc[1].parent, fd, proc[1].mem)
      BY <1>1, <2>1, <3>1, OpenPipeIs
    <3> QED
      BY <3>2, <3>3
  <2>5. Becomes(u, v, 1, "dup.fork1", u[1].parent, u[1].fd, mem)
    <3>1. Table(u) /\ v = Goto(Set(u, 1, mem), 1, "dup.fork1") /\ 1 \in Pids
      BY <1>1, <2>1, <2>4 DEF Becomes
    <3> QED
      BY <3>1, SetGotoIs
  <2>6. Becomes(proc, v, 1, "dup.fork1", 0, Piped(k, k), mem)
    BY <1>1, <2>4, <2>5 DEF Becomes
  <2> QED
    BY <1>3, <2>1, <2>2, <2>6
<1>4. \/ proc' = Exited(proc, 1, 0) /\ pipe' = pipe /\ failed' = failed
      \/ \E line \in Pipelines :
           /\ CanPipe /\ failed' = failed /\ pipe' = [pipe EXCEPT ![NewPipe] = <<>>]
           /\ proc' = Goto(Set(OpenPipe(proc, 1, NewPipe, R(0), W(0)), 1,
                              [words |-> line, pids |-> <<>>]), 1, "dup.fork1")
      \/ proc' = proc /\ pipe' = pipe /\ failed \subseteq failed'
  BY <1>1 DEF DupPrompt, PipeFails, GoesWell, Fails
<1>5. printed' = [printed EXCEPT ![1] = Nothing]
  BY FsPids DEF DupPrompt
<1> QED
  BY <1>1, <1>2, <1>3, <1>4, <1>5

\* The shell that is by itself: whose child is whose is asked of the shell alone.
LEMMA DupPromptInv ==
  ASSUME DupInv(proc, failed), NEW p \in Pids, DupPrompt(p)
  PROVE  DupInv(proc', failed')
<1>1. /\ proc[1].pc = "dup.prompt" /\ Table(proc) /\ proc[1].parent = 0 /\ 1 \in Pids
      /\ failed \subseteq failed'
  BY DupPromptIs, FsPids DEF DupInv, DupRootOk
<1>2. PICK x : \A q \in Pids : proc[q].parent = 1 => Known(proc[1], failed, x, q)
  BY DEF DupInv
<1>3. \A q \in Pids : proc[q].parent = 1 => q = x /\ "fork" \in failed
  BY <1>1, <1>2 DEF Known, FirstOf, SecondOf
<1>4. PICK v, g : v = proc' /\ g = failed'
  OBVIOUS
<1>5. CASE Ends(proc, v, 1)
  <2>1. v[1].pc = "zombie" /\ v[1].parent = 0 /\ Table(v) /\ DupRootOk(v[1])
    BY <1>1, <1>5 DEF Ends, Root, DupRootOk, Forking, Waits
  <2>2. ASSUME NEW q \in Pids, q # 1
        PROVE  Child(v[q]) /\ v[q].parent # 1
    <3>1. Child(proc[q])
      BY <2>2 DEF DupInv
    <3>2. CASE proc[q].parent # 1
      BY <1>5, <2>2, <3>1, <3>2 DEF Ends
    <3>3. CASE proc[q].parent = 1 /\ proc[q].pc = "zombie"
      <4>1. v[q] = Free
        BY <1>5, <2>2, <3>3 DEF Ends
      <4> QED
        BY <4>1, FreeIs DEF Child, CommandLabels
    <3>4. CASE proc[q].parent = 1 /\ proc[q].pc # "zombie"
      <4>1. v[q].pc = proc[q].pc /\ v[q].parent = 0 /\ v[q].fd = proc[q].fd /\ v[q].mem = proc[q].mem
        BY <1>5, <2>2, <3>4 DEF Ends
      <4> QED
        BY <3>1, <4>1 DEF Child
    <3> QED
      BY <3>2, <3>3, <3>4
  <2>3. \A q \in Pids : v[q].parent # 1
    BY <2>1, <2>2
  <2> QED
    BY <1>4, <2>1, <2>2, <2>3 DEF DupInv
<1>6. ASSUME NEW line \in Pipelines, NEW k \in 1 .. Pipes,
             Becomes(proc, v, 1, "dup.fork1", 0, Piped(k, k), [words |-> line, pids |-> <<>>])
      PROVE  DupInv(v, g)
  <2>1. PICK mem : mem = [words |-> line, pids |-> <<>>]
    OBVIOUS
  <2>2. /\ Table(v) /\ v[1].pc = "dup.fork1" /\ v[1].parent = 0 /\ v[1].fd = Piped(k, k)
        /\ v[1].mem = mem /\ \A q \in Pids : q # 1 => v[q] = proc[q]
    BY <1>6, <2>1 DEF Becomes
  <2>3. mem = [words |-> mem.words, pids |-> mem.pids] /\ mem.words \in Pipelines
    BY <2>1
  <2>4. DupRootOk(v[1])
    BY <2>2, <2>3 DEF DupRootOk, Memory, Forking, Waits
  <2>5. \A q \in Pids : v[q].parent = 1 => Known(v[1], g, x, q)
    BY <1>1, <1>3, <1>4, <2>2 DEF Known
  <2> QED
    BY <1>1, <1>4, <2>2, <2>4, <2>5, DupRoot
<1>7. CASE v = proc
  <2>1. \A q \in Pids : proc[q].parent = 1 => Known(proc[1], g, x, q)
    BY <1>1, <1>2, <1>4 DEF Known
  <2> QED
    BY <1>4, <1>7, <2>1 DEF DupInv
<1> QED
  BY <1>4, <1>5, <1>6, <1>7, DupPromptIs

\* A fork that fails: the shell closes the pipe, and the first command, if there is one, is left.
LEMMA DupFailIs ==
  ASSUME DupInv(proc, failed), proc[1].pc \in {"dup.fork1", "dup.fork2"}
  PROVE  Becomes(proc, Back(Close(proc, 1, {R(0), W(0)}), 1, "dup.prompt"), 1, "dup.prompt", 0,
                 Terminal, NoCommand)
<1>1. /\ Table(proc) /\ proc[1].parent = 0 /\ 1 \in Pids
      /\ \E k \in 1 .. Pipes : proc[1].fd = Piped(k, k)
  BY FsPids DEF DupInv, DupRootOk, Forking
<1>2. PICK k \in 1 .. Pipes : proc[1].fd = Piped(k, k)
  BY <1>1
<1>3. PICK u, v : u = Close(proc, 1, {R(0), W(0)}) /\ v = Back(u, 1, "dup.prompt")
  OBVIOUS
<1>4. Becomes(proc, u, 1, proc[1].pc, proc[1].parent, Terminal, proc[1].mem)
  <2>1. Restrict(proc[1].fd, DOMAIN proc[1].fd \ {R(0), W(0)}) = Terminal
    BY <1>2, Closed
  <2>2. Becomes(proc, u, 1, proc[1].pc, proc[1].parent,
                Restrict(proc[1].fd, DOMAIN proc[1].fd \ {R(0), W(0)}), proc[1].mem)
    BY <1>1, <1>3, CloseIs
  <2> QED
    BY <2>1, <2>2
<1>5. Becomes(u, v, 1, "dup.prompt", u[1].parent, u[1].fd, NoCommand)
  <2>1. Table(u) /\ v = Back(u, 1, "dup.prompt")
    BY <1>3, <1>4 DEF Becomes
  <2> QED
    BY <2>1, BackIs
<1>6. Becomes(proc, v, 1, "dup.prompt", 0, Terminal, NoCommand)
  BY <1>1, <1>4, <1>5 DEF Becomes
<1> QED
  BY <1>3, <1>6

LEMMA DupFailInv ==
  ASSUME DupInv(proc, failed), proc[1].pc \in {"dup.fork1", "dup.fork2"}, ForkFails,
         NEW v, v = Back(Close(proc, 1, {R(0), W(0)}), 1, "dup.prompt")
  PROVE  DupInv(v, failed')
<1>1. "fork" \notin failed /\ failed' = failed \cup {"fork"}
  BY DupRoom DEF ForkFails, Fails
<1>2. \A q \in Pids : proc[q].parent = 1 => q = proc[1].mem.pids[1]
  <2>1. PICK x : \A q \in Pids : proc[q].parent = 1 => Known(proc[1], failed, x, q)
    BY DEF DupInv
  <2> QED
    BY <1>1, <2>1 DEF Known, FirstOf, SecondOf
<1>3. Becomes(proc, v, 1, "dup.prompt", 0, Terminal, NoCommand)
  BY DupFailIs
<1>4. /\ Table(v) /\ v[1].pc = "dup.prompt" /\ v[1].parent = 0 /\ v[1].fd = Terminal
      /\ \A q \in Pids : q # 1 => v[q] = proc[q]
  BY <1>3 DEF Becomes
<1>5. DupRootOk(v[1])
  BY <1>4 DEF DupRootOk, Forking, Waits
<1>6. PICK x, g : x = proc[1].mem.pids[1] /\ g = failed \cup {"fork"}
  OBVIOUS
<1>7. \A q \in Pids : v[q].parent = 1 => Known(v[1], g, x, q)
  BY <1>2, <1>4, <1>6 DEF Known
<1>8. failed \subseteq g
  BY <1>6
<1>9. DupInv(v, g)
  BY <1>4, <1>5, <1>7, <1>8, DupRoot
<1> QED
  BY <1>1, <1>6, <1>9

\* A fork: the child begins with what the shell has.
Forked(t, c, label, mem, next) ==
  Goto(Set(Fork(t, 1, c, label), 1, mem), 1, next)

HasForked(t, u, c, label, next, mem) ==
  /\ Table(u) /\ \A q \in Pids : q \notin {1, c} => u[q] = t[q]
  /\ u[1].pc = next /\ u[1].parent = t[1].parent /\ u[1].fd = t[1].fd /\ u[1].mem = mem
  /\ u[c].pc = label /\ u[c].parent = 1 /\ u[c].fd = t[1].fd /\ u[c].mem = t[1].mem

LEMMA ForkedIs ==
  ASSUME NEW t, Table(t), NEW c \in Pids, c # 1, NEW label, NEW mem, NEW next,
         NEW v, v = Forked(t, c, label, mem, next)
  PROVE  HasForked(t, v, c, label, next, mem)
<1>1. PICK u : u = Fork(t, 1, c, label)
  OBVIOUS
<1>2. Becomes(t, u, c, label, 1, t[1].fd, t[1].mem)
  BY <1>1, FsPids, ForkIs
<1>3. v = Goto(Set(u, 1, mem), 1, next)
  BY <1>1 DEF Forked
<1>4. Becomes(u, v, 1, next, u[1].parent, u[1].fd, mem)
  BY <1>2, <1>3, FsPids, SetGotoIs DEF Becomes
<1> QED
  BY <1>2, <1>4, FsPids DEF Becomes, HasForked

\* The table after a fork of the shell.
LEMMA DupForkedInv ==
  ASSUME DupInv(proc, failed), proc[1].pc \in {"dup.fork1", "dup.fork2"},
         NEW c \in Pids, proc[c].pc = "free", NEW v, Table(v),
         \A q \in Pids : q \notin {1, c} => v[q] = proc[q],
         v[c].pc \in {"dup.exec1", "dup.exec2"}, v[c].parent = 1, v[c].fd = proc[1].fd,
         v[c].mem = proc[1].mem, DupRootOk(v[1]), v[1].pc # "zombie",
         \A x : \A q \in Pids : Known(proc[1], failed, x, q) /\ q # c => Known(v[1], failed, x, q),
         FirstOf(v[1], c) \/ SecondOf(v[1], c)
  PROVE  DupInv(v, failed)
<1>1. c # 1
  BY DEF DupInv
<1>2. Child(v[c])
  <2>1. proc[1].mem.words \in Pipelines /\ \E k \in 1 .. Pipes : proc[1].fd = Piped(k, k)
    BY DEF DupInv, DupRootOk, Forking, Memory
  <2> QED
    BY <2>1 DEF Child
<1>3. ASSUME NEW q \in Pids, q # 1
      PROVE  Child(v[q]) /\ (v[q].pc # "free" => v[q].parent = 1)
  <2>1. CASE q = c
    BY <1>2, <2>1
  <2>2. CASE q # c
    <3>1. v[q] = proc[q]
      BY <1>3, <2>2
    <3> QED
      BY <1>3, <3>1 DEF DupInv
  <2> QED
    BY <2>1, <2>2
<1>4. PICK x : \A q \in Pids : proc[q].parent = 1 => Known(proc[1], failed, x, q)
  BY DEF DupInv
<1>5. ASSUME NEW q \in Pids, v[q].parent = 1
      PROVE  Known(v[1], failed, x, q)
  <2>1. CASE q = c
    BY <2>1 DEF Known
  <2>2. CASE q # c
    <3>1. proc[q].parent = 1
      <4>1. q # 1
        BY <1>5 DEF DupRootOk
      <4> QED
        BY <1>5, <2>2, <4>1
    <3> QED
      BY <1>4, <2>2, <3>1
  <2> QED
    BY <2>1, <2>2
<1> QED
  BY <1>3, <1>5 DEF DupInv

\* The fork of the first command.
LEMMA DupFork1Is ==
  ASSUME DupInv(proc, failed), NEW p \in Pids, DupFork1(p)
  PROVE  /\ proc[1].pc = "dup.fork1" /\ pipe' = pipe /\ printed' = printed
         /\ \/ /\ failed' = failed
               /\ \E c, mem :
                    /\ c \in Pids /\ c # 1 /\ proc[c].pc = "free"
                    /\ mem = [words |-> proc[1].mem.words, pids |-> <<c>>]
                    /\ HasForked(proc, proc', c, "dup.exec1", "dup.fork2", mem)
            \/ /\ ForkFails
               /\ proc' = Back(Close(proc, 1, {R(0), W(0)}), 1, "dup.prompt")
<1>1. /\ p = 1 /\ proc[1].pc = "dup.fork1" /\ Table(proc) /\ Memory(proc[1])
      /\ pipe' = pipe /\ printed' = printed
  BY DEF DupInv, DupFork1, AtLabel, DupRootOk, Child, CommandLabels, Forking
<1>2. ASSUME CanFork,
             proc' = Goto(Set(Fork(proc, 1, NewPid, "dup.exec1"), 1,
                              [proc[1].mem EXCEPT !.pids = <<NewPid>>]), 1, "dup.fork2")
      PROVE  \E c, mem :
               /\ c \in Pids /\ c # 1 /\ proc[c].pc = "free"
               /\ mem = [words |-> proc[1].mem.words, pids |-> <<c>>]
               /\ HasForked(proc, proc', c, "dup.exec1", "dup.fork2", mem)
  <2>1. PICK c, mem, v : c = NewPid /\ mem = [proc[1].mem EXCEPT !.pids = <<c>>]
                         /\ v = Forked(proc, c, "dup.exec1", mem, "dup.fork2")
    OBVIOUS
  <2>2. c \in Pids /\ proc[c].pc = "free" /\ c # 1
    BY <1>1, <1>2, <2>1, NewPidIs
  <2>3. HasForked(proc, v, c, "dup.exec1", "dup.fork2", mem)
    BY <1>1, <2>1, <2>2, ForkedIs
  <2>4. mem = [words |-> proc[1].mem.words, pids |-> <<c>>]
    <3>1. PICK words, pids : proc[1].mem = [words |-> words, pids |-> pids]
      BY <1>1 DEF Memory
    <3> QED
      BY <2>1, <3>1
  <2>5. proc' = v
    BY <1>2, <2>1 DEF Forked
  <2> QED
    BY <2>2, <2>3, <2>4, <2>5
<1> QED
  BY <1>1, <1>2 DEF DupFork1, GoesWell

LEMMA DupFork1Inv ==
  ASSUME DupInv(proc, failed), NEW p \in Pids, DupFork1(p)
  PROVE  DupInv(proc', failed')
<1>1. proc[1].pc = "dup.fork1" /\ DupRootOk(proc[1]) /\ Memory(proc[1])
  BY DupFork1Is DEF DupInv, DupRootOk, Forking
<1>2. ASSUME failed' = failed, NEW c \in Pids, c # 1, proc[c].pc = "free", NEW mem,
             mem = [words |-> proc[1].mem.words, pids |-> <<c>>],
             HasForked(proc, proc', c, "dup.exec1", "dup.fork2", mem)
      PROVE  DupInv(proc', failed')
  <2>1. PICK v : v = proc'
    OBVIOUS
  <2>2. /\ Table(v) /\ \A q \in Pids : q \notin {1, c} => v[q] = proc[q]
        /\ v[1].pc = "dup.fork2" /\ v[1].parent = proc[1].parent /\ v[1].fd = proc[1].fd
        /\ v[1].mem = mem
        /\ v[c].pc = "dup.exec1" /\ v[c].parent = 1 /\ v[c].fd = proc[1].fd /\ v[c].mem = proc[1].mem
    BY <1>2, <2>1 DEF HasForked
  <2>3. /\ mem = [words |-> mem.words, pids |-> mem.pids] /\ mem.words \in Pipelines
        /\ mem.pids = <<mem.pids[1]>> /\ mem.pids[1] = c
    <3>1. PICK words \in Pipelines : proc[1].mem.words = words
      BY <1>1 DEF Memory
    <3>2. mem.pids = <<c>> /\ mem.words = words
      BY <1>2, <3>1
    <3> QED
      BY <1>2, <3>1, <3>2
  <2>4. DupRootOk(v[1])
    BY <1>1, <2>2, <2>3 DEF DupRootOk, Memory, Forking, Waits
  <2>5. FirstOf(v[1], c)
    BY <2>2, <2>3 DEF FirstOf
  <2>6. \A x : \A q \in Pids : Known(proc[1], failed, x, q) /\ q # c => Known(v[1], failed, x, q)
    BY <1>1 DEF Known, FirstOf, SecondOf
  <2>7. DupInv(v, failed)
    BY <1>1, <1>2, <2>2, <2>4, <2>5, <2>6, DupForkedInv
  <2> QED
    BY <1>2, <2>1, <2>7
<1> QED
  BY <1>1, <1>2, DupFork1Is, DupFailInv

LEMMA AppendedIs ==
  ASSUME NEW S, NEW s \in Seq(S), NEW x \in S
  PROVE  Append(s, x)[Len(s) + 1] = x /\ \A i \in 1 .. Len(s) : Append(s, x)[i] = s[i]
  BY AppendProperties

LEMMA OneMore ==
  ASSUME NEW a, NEW c
  PROVE  Append(<<a>>, c)[1] = a /\ Append(<<a>>, c)[2] = c
<1>1. PICK one, S : one = <<a>> /\ S = {a, c}
  OBVIOUS
<1>2. one \in Seq(S) /\ c \in S /\ Len(one) = 1 /\ one[1] = a
  BY <1>1
<1>3. Append(one, c)[Len(one) + 1] = c /\ \A i \in 1 .. Len(one) : Append(one, c)[i] = one[i]
  BY <1>2, AppendedIs
<1>4. PICK n, two : n = Len(one) /\ two = Append(one, c)
  OBVIOUS
<1>5. two[n + 1] = c /\ \A i \in 1 .. n : two[i] = one[i]
  BY <1>3, <1>4
<1>6. n = 1 /\ n + 1 = 2 /\ 1 \in 1 .. n
  BY <1>2, <1>4
<1>7. two[2] = c /\ two[1] = a
  BY <1>2, <1>5, <1>6
<1> QED
  BY <1>1, <1>4, <1>7

\* The fork of the second command.
LEMMA DupFork2Is ==
  ASSUME DupInv(proc, failed), NEW p \in Pids, DupFork2(p)
  PROVE  /\ proc[1].pc = "dup.fork2" /\ pipe' = pipe /\ printed' = printed
         /\ \/ /\ failed' = failed
               /\ \E c, mem, two :
                    /\ c \in Pids /\ c # 1 /\ proc[c].pc = "free"
                    /\ mem = [words |-> proc[1].mem.words, pids |-> two]
                    /\ two[1] = proc[1].mem.pids[1] /\ two[2] = c
                    /\ HasForked(proc, proc', c, "dup.exec2", "dup.close", mem)
            \/ /\ ForkFails
               /\ proc' = Back(Close(proc, 1, {R(0), W(0)}), 1, "dup.prompt")
<1>1. /\ p = 1 /\ proc[1].pc = "dup.fork2" /\ Table(proc) /\ Memory(proc[1])
      /\ pipe' = pipe /\ printed' = printed
  BY DEF DupInv, DupFork2, AtLabel, DupRootOk, Child, CommandLabels, Forking
<1>2. ASSUME CanFork,
             proc' = Goto(Set(Fork(proc, 1, NewPid, "dup.exec2"), 1,
                              [proc[1].mem EXCEPT !.pids = Append(@, NewPid)]), 1, "dup.close")
      PROVE  \E c, mem, two :
               /\ c \in Pids /\ c # 1 /\ proc[c].pc = "free"
               /\ mem = [words |-> proc[1].mem.words, pids |-> two]
               /\ two[1] = proc[1].mem.pids[1] /\ two[2] = c
               /\ HasForked(proc, proc', c, "dup.exec2", "dup.close", mem)
  <2>1. PICK c, mem, v : c = NewPid /\ mem = [proc[1].mem EXCEPT !.pids = Append(@, c)]
                         /\ v = Forked(proc, c, "dup.exec2", mem, "dup.close")
    OBVIOUS
  <2>2. c \in Pids /\ proc[c].pc = "free" /\ c # 1
    BY <1>1, <1>2, <2>1, NewPidIs
  <2>3. HasForked(proc, v, c, "dup.exec2", "dup.close", mem)
    BY <1>1, <2>1, <2>2, ForkedIs
  <2>4. \E two : /\ mem = [words |-> proc[1].mem.words, pids |-> two]
                 /\ two[1] = proc[1].mem.pids[1] /\ two[2] = c
    <3>1. PICK words, pids, a : proc[1].mem = [words |-> words, pids |-> pids] /\ pids = <<a>>
      BY <1>1 DEF Memory
    <3>2. PICK two : two = Append(<<a>>, c)
      OBVIOUS
    <3>3. two[1] = a /\ two[2] = c
      BY <3>2, OneMore
    <3>4. mem = [words |-> words, pids |-> two]
      BY <2>1, <3>1, <3>2
    <3>5. proc[1].mem.pids[1] = a /\ proc[1].mem.words = words
      BY <3>1
    <3> QED
      BY <3>3, <3>4, <3>5
  <2>5. proc' = v
    BY <1>2, <2>1 DEF Forked
  <2> QED
    BY <2>2, <2>3, <2>4, <2>5
<1> QED
  BY <1>1, <1>2 DEF DupFork2, GoesWell

LEMMA DupFork2Inv ==
  ASSUME DupInv(proc, failed), NEW p \in Pids, DupFork2(p)
  PROVE  DupInv(proc', failed')
<1>1. proc[1].pc = "dup.fork2" /\ DupRootOk(proc[1]) /\ Memory(proc[1])
  BY DupFork2Is DEF DupInv, DupRootOk, Forking
<1>2. ASSUME failed' = failed, NEW c \in Pids, c # 1, proc[c].pc = "free", NEW mem, NEW two,
             mem = [words |-> proc[1].mem.words, pids |-> two],
             two[1] = proc[1].mem.pids[1], two[2] = c,
             HasForked(proc, proc', c, "dup.exec2", "dup.close", mem)
      PROVE  DupInv(proc', failed')
  <2>1. PICK v : v = proc'
    OBVIOUS
  <2>2. /\ Table(v) /\ \A q \in Pids : q \notin {1, c} => v[q] = proc[q]
        /\ v[1].pc = "dup.close" /\ v[1].parent = proc[1].parent /\ v[1].fd = proc[1].fd
        /\ v[1].mem = mem
        /\ v[c].pc = "dup.exec2" /\ v[c].parent = 1 /\ v[c].fd = proc[1].fd /\ v[c].mem = proc[1].mem
    BY <1>2, <2>1 DEF HasForked
  <2>3. /\ mem = [words |-> mem.words, pids |-> mem.pids] /\ mem.words \in Pipelines
        /\ mem.pids[1] = proc[1].mem.pids[1] /\ mem.pids[2] = c
    <3>1. PICK words \in Pipelines : proc[1].mem.words = words
      BY <1>1 DEF Memory
    <3>2. mem.pids = two /\ mem.words = words
      BY <1>2, <3>1
    <3> QED
      BY <1>2, <3>1, <3>2
  <2>4. DupRootOk(v[1])
    BY <1>1, <2>2, <2>3 DEF DupRootOk, Memory, Forking, Waits
  <2>5. SecondOf(v[1], c)
    BY <2>2, <2>3 DEF SecondOf
  <2>6. \A x : \A q \in Pids : Known(proc[1], failed, x, q) /\ q # c => Known(v[1], failed, x, q)
    BY <1>1, <2>2, <2>3 DEF Known, FirstOf, SecondOf
  <2>7. DupInv(v, failed)
    BY <1>1, <1>2, <2>2, <2>4, <2>5, <2>6, DupForkedInv
  <2> QED
    BY <1>2, <2>1, <2>7
<1> QED
  BY <1>1, <1>2, DupFork2Is, DupFailInv

\* The shell closes its ends.
LEMMA DupCloseIs ==
  ASSUME DupInv(proc, failed), NEW p \in Pids, DupClose(p)
  PROVE  /\ proc[1].pc = "dup.close" /\ pipe' = pipe /\ printed' = printed /\ failed' = failed
         /\ Becomes(proc, proc', 1, "dup.wait1", 0, Terminal, proc[1].mem)
<1>1. /\ p = 1 /\ proc[1].pc = "dup.close" /\ Table(proc) /\ DupRootOk(proc[1])
      /\ failed' = failed /\ pipe' = pipe /\ printed' = printed /\ 1 \in Pids
  BY FsPids DEF DupInv, DupClose, AtLabel, DupRootOk, Child, CommandLabels, Forking
<1>2. PICK k \in 1 .. Pipes : proc[1].fd = Piped(k, k)
  BY <1>1 DEF DupRootOk, Forking
<1>3. PICK u, v : u = Close(proc, 1, {R(0), W(0)}) /\ v = Goto(u, 1, "dup.wait1")
  OBVIOUS
<1>4. Becomes(proc, u, 1, proc[1].pc, proc[1].parent, Terminal, proc[1].mem)
  <2>1. Restrict(proc[1].fd, DOMAIN proc[1].fd \ {R(0), W(0)}) = Terminal
    BY <1>2, Closed
  <2>2. Becomes(proc, u, 1, proc[1].pc, proc[1].parent,
                Restrict(proc[1].fd, DOMAIN proc[1].fd \ {R(0), W(0)}), proc[1].mem)
    BY <1>1, <1>3, CloseIs
  <2> QED
    BY <2>1, <2>2
<1>5. Becomes(u, v, 1, "dup.wait1", u[1].parent, u[1].fd, u[1].mem)
  <2>1. Table(u) /\ v = Goto(u, 1, "dup.wait1") /\ 1 \in Pids
    BY <1>1, <1>3, <1>4 DEF Becomes
  <2> QED
    BY <2>1, GotoIs
<1>6. Becomes(proc, v, 1, "dup.wait1", 0, Terminal, proc[1].mem)
  BY <1>1, <1>4, <1>5 DEF Becomes, DupRootOk
<1>7. proc' = v
  BY <1>1, <1>3 DEF DupClose
<1> QED
  BY <1>1, <1>6, <1>7

LEMMA DupCloseInv ==
  ASSUME DupInv(proc, failed), NEW p \in Pids, DupClose(p)
  PROVE  DupInv(proc', failed')
<1>1. /\ proc[1].pc = "dup.close" /\ DupRootOk(proc[1]) /\ Memory(proc[1]) /\ failed' = failed
  BY DupCloseIs DEF DupInv, DupRootOk, Forking
<1>2. PICK v : v = proc'
  OBVIOUS
<1>3. Becomes(proc, v, 1, "dup.wait1", 0, Terminal, proc[1].mem)
  BY <1>2, DupCloseIs
<1>4. /\ Table(v) /\ v[1].pc = "dup.wait1" /\ v[1].parent = 0 /\ v[1].fd = Terminal
      /\ v[1].mem = proc[1].mem /\ \A q \in Pids : q # 1 => v[q] = proc[q]
  BY <1>3 DEF Becomes
<1>5. DupRootOk(v[1])
  BY <1>1, <1>4 DEF DupRootOk, Memory, Forking, Waits
<1>6. PICK x : \A q \in Pids : proc[q].parent = 1 => Known(proc[1], failed, x, q)
  BY DEF DupInv
<1>7. \A q \in Pids : v[q].parent = 1 => Known(v[1], failed, x, q)
  BY <1>1, <1>4, <1>5, <1>6 DEF Known, FirstOf, SecondOf, DupRootOk
<1>8. DupInv(v, failed)
  BY <1>1, <1>4, <1>5, <1>7, DupRoot
<1> QED
  BY <1>1, <1>2, <1>8

\* The table after a wait for c.
LEMMA DupReapedInv ==
  ASSUME DupInv(proc, failed), NEW c \in Pids, c # 1, NEW v, Table(v), v[c] = Free,
         \A q \in Pids : q \notin {1, c} => v[q] = proc[q], DupRootOk(v[1]),
         proc[1].pc # "zombie",
         \A x : \A q \in Pids : Known(proc[1], failed, x, q) /\ q # c => Known(v[1], failed, x, q)
  PROVE  DupInv(v, failed)
<1>1. PICK x : \A q \in Pids : proc[q].parent = 1 => Known(proc[1], failed, x, q)
  BY DEF DupInv
<1>2. ASSUME NEW q \in Pids, v[q].parent = 1
      PROVE  Known(v[1], failed, x, q)
  <2>1. q # c /\ q # 1
    BY <1>2, FreeIs DEF DupRootOk
  <2>2. proc[q].parent = 1
    BY <1>2, <2>1
  <2> QED
    BY <1>1, <2>1, <2>2
<1>3. \A q \in Pids : q # 1 => v[q] = proc[q] \/ v[q] = Free
  OBVIOUS
<1> QED
  BY <1>2, <1>3, DupRoot

\* The shell has waited for c, and goes on with this memory.
HasWaited(t, u, c, next, mem) ==
  /\ Table(u) /\ u[c] = Free /\ \A q \in Pids : q \notin {1, c} => u[q] = t[q]
  /\ u[1].pc = next /\ u[1].parent = 0 /\ u[1].fd = Terminal /\ u[1].mem = mem

LEMMA DupWait1Is ==
  ASSUME DupInv(proc, failed), NEW p \in Pids, DupWait1(p)
  PROVE  /\ proc[1].pc = "dup.wait1" /\ pipe' = pipe /\ printed' = printed /\ failed' = failed
         /\ \E c \in Pids :
              /\ c # 1 /\ c = proc[1].mem.pids[1] /\ proc[c].pc = "zombie"
              /\ HasWaited(proc, proc', c, "dup.wait2", proc[1].mem)
<1>1. /\ p = 1 /\ proc[1].pc = "dup.wait1" /\ Table(proc) /\ proc[1].parent = 0
      /\ failed' = failed /\ pipe' = pipe /\ printed' = printed
      /\ 1 \in Pids /\ proc[1].fd = Terminal
  BY FsPids DEF DupInv, DupWait1, AtLabel, DupRootOk, Child, CommandLabels, Waits
<1>2. PICK c : c = proc[1].mem.pids[1]
  OBVIOUS
<1>3. c \in Pids /\ c # 1 /\ proc[c].pc = "zombie"
  BY <1>1, <1>2 DEF DupWait1, ZombieOf
<1>4. PICK u, v : u = Reap(proc, c) /\ v = Goto(u, 1, "dup.wait2")
  OBVIOUS
<1>5. Becomes(proc, u, c, "free", 0, <<>>, <<>>) /\ u[c] = Free
  BY <1>1, <1>3, <1>4, ReapIs
<1>6. Becomes(u, v, 1, "dup.wait2", u[1].parent, u[1].fd, u[1].mem)
  BY <1>1, <1>4, <1>5, GotoIs DEF Becomes
<1>7. HasWaited(proc, v, c, "dup.wait2", proc[1].mem)
  BY <1>1, <1>3, <1>5, <1>6 DEF Becomes, HasWaited
<1>8. proc' = v
  BY <1>1, <1>2, <1>4 DEF DupWait1
<1> QED
  BY <1>1, <1>2, <1>3, <1>7, <1>8

LEMMA DupWait2Is ==
  ASSUME DupInv(proc, failed), NEW p \in Pids, DupWait2(p)
  PROVE  /\ proc[1].pc = "dup.wait2" /\ pipe' = pipe /\ printed' = printed /\ failed' = failed
         /\ \E c \in Pids :
              /\ c # 1 /\ c = proc[1].mem.pids[2]
              /\ HasWaited(proc, proc', c, "dup.prompt", NoCommand)
<1>1. /\ p = 1 /\ proc[1].pc = "dup.wait2" /\ Table(proc) /\ proc[1].parent = 0
      /\ failed' = failed /\ pipe' = pipe /\ printed' = printed
      /\ 1 \in Pids /\ proc[1].fd = Terminal
  BY FsPids DEF DupInv, DupWait2, AtLabel, DupRootOk, Child, CommandLabels, Waits
<1>2. PICK c : c = proc[1].mem.pids[2]
  OBVIOUS
<1>3. c \in Pids /\ c # 1
  BY <1>1, <1>2 DEF DupWait2, ZombieOf
<1>4. PICK u, v : u = Reap(proc, c) /\ v = Back(u, 1, "dup.prompt")
  OBVIOUS
<1>5. Becomes(proc, u, c, "free", 0, <<>>, <<>>) /\ u[c] = Free
  BY <1>1, <1>3, <1>4, ReapIs
<1>6. Becomes(u, v, 1, "dup.prompt", u[1].parent, u[1].fd, NoCommand)
  BY <1>4, <1>5, BackIs DEF Becomes
<1>7. HasWaited(proc, v, c, "dup.prompt", NoCommand)
  BY <1>1, <1>3, <1>5, <1>6 DEF Becomes, HasWaited
<1>8. proc' = v
  BY <1>1, <1>2, <1>4 DEF DupWait2
<1> QED
  BY <1>1, <1>2, <1>3, <1>7, <1>8

LEMMA DupWaitInv ==
  ASSUME DupInv(proc, failed), NEW p \in Pids, DupWait1(p) \/ DupWait2(p)
  PROVE  DupInv(proc', failed')
<1>1. PICK c, v, next, mem :
        /\ c \in Pids /\ c # 1 /\ v = proc' /\ failed' = failed /\ HasWaited(proc, v, c, next, mem)
        /\ \/ /\ proc[1].pc = "dup.wait1" /\ next = "dup.wait2" /\ mem = proc[1].mem
              /\ c = proc[1].mem.pids[1]
           \/ proc[1].pc = "dup.wait2" /\ next = "dup.prompt" /\ c = proc[1].mem.pids[2]
  BY DupWait1Is, DupWait2Is
<1>2. /\ Table(v) /\ v[1].pc = next /\ v[1].parent = 0 /\ v[1].fd = Terminal
      /\ v[1].mem = mem /\ v[c] = Free /\ \A q \in Pids : q \notin {1, c} => v[q] = proc[q]
  BY <1>1 DEF HasWaited
<1>3. DupRootOk(v[1])
  BY <1>1, <1>2 DEF DupInv, DupRootOk, Memory, Forking, Waits
<1>4. \A x : \A q \in Pids : Known(proc[1], failed, x, q) /\ q # c => Known(v[1], failed, x, q)
  BY <1>1, <1>2 DEF Known, FirstOf, SecondOf
<1>5. DupInv(v, failed)
  BY <1>1, <1>2, <1>3, <1>4, DupReapedInv
<1> QED
  BY <1>1, <1>5

LEMMA DupStepInv ==
  ASSUME DupInv(proc, failed), NEW p \in Pids, DupStep(p)
  PROVE  DupInv(proc', failed')
  BY DupCommandInv, DupExecInv, DupPromptInv, DupFork1Inv, DupFork2Inv, DupCloseInv,
     DupWaitInv DEF DupStep, DupShell

LEMMA DupLabelled ==
  ASSUME DupInv(proc, failed)
  PROVE  Labelled(proc, DupLabels \cup CommandLabels)
<1>1. ASSUME NEW p \in Pids
      PROVE  proc[p].pc \in DupLabels \cup CommandLabels \cup Idle
  BY DEF DupInv, Child, DupRootOk, DupLabels, CommandLabels, Idle, Forking, Waits
<1> QED
  BY <1>1 DEF Labelled, DupInv

LEMMA DupClean ==
  ASSUME DupInv(proc, failed), AtPrompt
  PROVE  /\ proc[Root].fd = Terminal
         /\ Cardinality(Children(Root)) <= IF "fork" \in failed THEN 1 ELSE 0
<1>1. proc[1].pc = "dup.prompt" /\ proc[1].fd = Terminal
  BY FsPids DEF DupInv, AtPrompt, Prompts, DupRootOk, Forking, Waits
<1>2. PICK x : \A q \in Pids : proc[q].parent = 1 => Known(proc[1], failed, x, q)
  BY DEF DupInv
<1>3. \A q \in Pids : proc[q].parent = 1 => q = x /\ "fork" \in failed
  BY <1>1, <1>2 DEF Known, FirstOf, SecondOf
<1>4. PICK C : C = Children(1)
  OBVIOUS
<1>5. CASE "fork" \in failed
  <2>1. C \in SUBSET {x}
    BY <1>3, <1>4 DEF Children
  <2>2. IsFiniteSet({x}) /\ Cardinality({x}) = 1
    BY FS_Singleton
  <2>3. Cardinality(C) <= 1
    BY <2>1, <2>2, FS_Subset
  <2> QED
    BY <1>1, <1>4, <1>5, <2>3, FsPids
<1>6. CASE "fork" \notin failed
  <2>1. C = {}
    BY <1>3, <1>4, <1>6 DEF Children
  <2>2. Cardinality(C) = 0
    BY <2>1, FS_EmptySet
  <2> QED
    BY <1>1, <1>4, <1>6, <2>2, FsPids
<1> QED
  BY <1>5, <1>6

-----------------------------------------------------------------------------
\* ls_server.

LsChild == {"ls.exec", "ls.perror", "echo", "zombie"}
LsAsking == {"lc.connect", "lc.send", "lc.recv"}
Connected(fd) == \E u \in 1 .. Pipes : \E d \in 1 .. Pipes : u # d /\ fd = Piped(u, d)

LsRootOk(r) ==
  /\ r.parent = 0 /\ r.pc \in {"ls.accept", "ls.read", "ls.fork", "ls.wait"}
  /\ r.pc = "ls.accept" => r.fd = Terminal
  /\ r.pc # "ls.accept" => Connected(r.fd)
LsOther(x) ==
  /\ x.pc \in LsChild \cup LsAsking \cup {"free"}
  /\ x.pc \in {"free", "zombie"} => x.fd = <<>>
  /\ x.pc = "lc.connect" => x.fd = Terminal
  /\ x.pc \in {"lc.send", "lc.recv", "ls.exec"} => Connected(x.fd)
  /\ x.pc \in {"ls.perror", "echo"} => \E d \in 1 .. Pipes : x.fd = Writer(d)
  /\ x.parent = IF x.pc \in LsChild THEN 1 ELSE 0
LsInv(t) ==
  /\ Table(t) /\ LsRootOk(t[1])
  /\ \A p \in Pids : p # 1 =>
       /\ LsOther(t[p])
       /\ t[p].pc \in LsAsking => p \in Client
       /\ t[p].parent = 1 => t[1].pc = "ls.wait" /\ p = t[1].mem.child

\* A client or the server's child goes on.
LEMMA LsOtherInv ==
  ASSUME LsInv(proc), NEW p \in Pids, p # 1, proc[p].pc # "free", NEW v, Table(v),
         \A q \in Pids : q # p => v[q] = proc[q], LsOther(v[p]),
         v[p].pc \in LsAsking => proc[p].pc \in LsAsking,
         v[p].pc \in LsChild => proc[p].pc \in LsChild
  PROVE  LsInv(v)
<1>1. v[1] = proc[1]
  BY FsPids
<1>2. ASSUME NEW q \in Pids, q # 1
      PROVE  /\ LsOther(v[q])
             /\ v[q].pc \in LsAsking => q \in Client
             /\ v[q].parent = 1 => proc[1].pc = "ls.wait" /\ q = proc[1].mem.child
  <2>1. CASE q = p
    <3>1. v[p].parent = 1 => proc[p].parent = 1
      BY DEF LsOther, LsInv
    <3> QED
      BY <1>2, <2>1, <3>1 DEF LsInv
  <2>2. CASE q # p
    <3>1. v[q] = proc[q]
      BY <2>2
    <3> QED
      BY <1>2, <3>1 DEF LsInv
  <2> QED
    BY <2>1, <2>2
<1> QED
  BY <1>1, <1>2 DEF LsInv

LEMMA LsAlone ==
  ASSUME LsInv(proc), NEW p \in Pids, p # 1
  PROVE  \A q \in Pids : proc[q].parent # p
<1>1. p \in Nat /\ p # 0
  BY UnixAssumption DEF Pids
<1> QED
  BY <1>1 DEF LsInv, LsRootOk, LsOther

LEMMA LsLeavesInv ==
  ASSUME LsInv(proc), NEW p \in Pids, p # 1, proc[p].pc # "free", NEW v, Left(proc, v, p)
  PROVE  LsInv(v)
<1>1. LsOther(proc[p])
  BY DEF LsInv
<1>2. LsOther(v[p]) /\ v[p].pc \notin LsAsking /\ (v[p].pc \in LsChild => proc[p].pc \in LsChild)
  BY <1>1 DEF LsOther, Left, LsChild, LsAsking
<1> QED
  BY <1>2, LsOtherInv DEF Left

LEMMA LsSetInv ==
  ASSUME LsInv(proc), NEW p \in Pids, p # 1, proc[p].pc # "free", NEW v, NEW mem,
         Becomes(proc, v, p, proc[p].pc, proc[p].parent, proc[p].fd, mem)
  PROVE  LsInv(v)
<1>1. LsOther(v[p])
  BY DEF LsInv, LsOther, Becomes
<1> QED
  BY <1>1, LsOtherInv DEF Becomes

LEMMA LsCommandInv ==
  ASSUME LsInv(proc), NEW p \in Pids, Command(p)
  PROVE  LsInv(proc')
<1>1. p # 1 /\ proc[p].pc # "free" /\ Table(proc)
  BY CommandMoves DEF LsInv, CommandLabels, LsRootOk
<1>2. CASE proc' = proc
  BY <1>2
<1>3. ASSUME NEW mem, proc' = Set(proc, p, mem)
      PROVE  LsInv(proc')
  BY <1>1, <1>3, SetIs, LsSetInv
<1>4. ASSUME NEW status, proc' = Exit(proc, p, status)
      PROVE  LsInv(proc')
  BY <1>1, <1>4, LsAlone, LeftIs, LsLeavesInv
<1> QED
  BY <1>2, <1>3, <1>4, CommandMoves

LEMMA ListClientInv ==
  ASSUME LsInv(proc), NEW p \in Pids, ListClient(p)
  PROVE  LsInv(proc')
<1>1. p # 1 /\ proc[p].pc \in {"lc.send", "lc.recv"} /\ proc[p].pc # "free" /\ Table(proc)
      /\ LsOther(proc[p])
  BY DEF LsInv, LsRootOk, ListClient, LcSend, LcRecv, AtLabel
<1>2. ASSUME NEW mem, proc' = Set(proc, p, mem)
      PROVE  LsInv(proc')
  BY <1>1, <1>2, SetIs, LsSetInv
<1>3. ASSUME NEW code, proc' = Exited(proc, p, code)
      PROVE  LsInv(proc')
  BY <1>1, <1>3, LsAlone, LeftIs, LsLeavesInv DEF Exited
<1>4. ASSUME proc[p].pc = "lc.send", proc' = Goto(proc, p, "lc.recv")
      PROVE  LsInv(proc')
  <2>1. PICK v : v = Goto(proc, p, "lc.recv")
    OBVIOUS
  <2>2. Becomes(proc, v, p, "lc.recv", proc[p].parent, proc[p].fd, proc[p].mem)
    BY <1>1, <2>1, GotoIs
  <2>3. LsOther(v[p])
    BY <1>1, <1>4, <2>2 DEF LsOther, Becomes, LsChild, LsAsking
  <2>4. LsInv(v)
    BY <1>1, <2>2, <2>3, LsOtherInv DEF Becomes, LsAsking, LsChild
  <2> QED
    BY <1>4, <2>1, <2>4
<1> QED
  BY <1>2, <1>3, <1>4 DEF ListClient, LcSend, LcRecv, AtLabel

-----------------------------------------------------------------------------
\* A process for the listing: its output is the connection.
LEMMA ServedOut ==
  ASSUME NEW t, Table(t), NEW p \in Pids, NEW r, NEW d, t[p].fd = Piped(r, d), NEW u,
         u = Close(Dup2(t, p, W(0), Out), p, {R(0), W(0)})
  PROVE  Becomes(t, u, p, t[p].pc, t[p].parent, Writer(d), t[p].mem)
<1>1. PICK a, fd : a = Dup2(t, p, W(0), Out)
                   /\ fd = [n \in DOMAIN t[p].fd \cup {Out} |-> IF n = Out THEN t[p].fd[W(0)] ELSE t[p].fd[n]]
  OBVIOUS
<1>2. Becomes(t, a, p, t[p].pc, t[p].parent, fd, t[p].mem)
  BY <1>1, Dup2Is
<1>3. Table(a) /\ a[p].fd = fd
  BY <1>2 DEF Becomes
<1>4. Becomes(a, u, p, a[p].pc, a[p].parent, Restrict(a[p].fd, DOMAIN a[p].fd \ {R(0), W(0)}), a[p].mem)
  BY <1>1, <1>3, CloseIs
<1>5. Restrict(fd, DOMAIN fd \ {R(0), W(0)}) = Writer(d)
  <2>1. /\ R(0) # W(0) /\ R(0) \notin {In, Out} /\ W(0) \notin {In, Out} /\ In # Out
    BY Names
  <2>2. DOMAIN fd = {In, Out, R(0), W(0)} /\ fd[In] = Tty /\ fd[Out] = W(d)
    BY <1>1, <2>1, Opened
  <2>3. DOMAIN fd \ {R(0), W(0)} = {In, Out}
    BY <2>1, <2>2
  <2>4. Restrict(fd, {In, Out}) = [n \in {In, Out} |-> fd[n]]
    BY DEF Restrict
  <2>5. [n \in {In, Out} |-> fd[n]] = Writer(d)
    BY <2>1, <2>2 DEF Writer
  <2> QED
    BY <2>3, <2>4, <2>5
<1> QED
  BY <1>2, <1>3, <1>4, <1>5 DEF Becomes

LEMMA LsExecInv ==
  ASSUME LsInv(proc), NEW p \in Pids, LsExec(p)
  PROVE  LsInv(proc')
<1>1. p # 1 /\ proc[p].pc = "ls.exec" /\ Table(proc) /\ LsOther(proc[p])
  BY DEF LsInv, LsRootOk, LsExec, AtLabel
<1>2. PICK r, d \in 1 .. Pipes : proc[p].fd = Piped(r, d)
  BY <1>1 DEF LsOther, Connected
<1>3. PICK t : t = Close(Dup2(proc, p, W(0), Out), p, {R(0), W(0)})
  OBVIOUS
<1>4. Becomes(proc, t, p, proc[p].pc, proc[p].parent, Writer(d), proc[p].mem)
  BY <1>1, <1>2, <1>3, ServedOut
<1>5. \A q \in Pids : t[q].parent # p
  BY <1>1, <1>4, LsAlone DEF Becomes
<1>6. ASSUME NEW v, NEW pc \in {"echo", "ls.perror"}, NEW mem,
             Becomes(t, v, p, pc, t[p].parent, t[p].fd, mem)
      PROVE  LsInv(v)
  <2>1. Becomes(proc, v, p, pc, proc[p].parent, Writer(d), mem)
    BY <1>4, <1>6 DEF Becomes
  <2>2. LsOther(v[p])
    BY <1>1, <1>6, <2>1 DEF LsOther, Becomes, LsChild, LsAsking
  <2>3. v[p].pc \notin LsAsking /\ proc[p].pc \in LsChild
    BY <1>1, <1>6, <2>1 DEF Becomes, LsChild, LsAsking
  <2> QED
    BY <1>1, <2>1, <2>2, <2>3, LsOtherInv DEF Becomes
<1>7. CASE proc' = Exec(t, p, "echo")
  <2>1. PICK mem, v : mem = [left |-> Bytes, got |-> 0] /\ v = Exec(t, p, "echo")
    OBVIOUS
  <2>2. Becomes(t, v, p, "echo", t[p].parent, t[p].fd, mem)
    BY <1>1, <1>4, <1>5, <2>1, ExecIs DEF Becomes
  <2> QED
    BY <1>6, <1>7, <2>1, <2>2
<1>8. CASE proc' = Goto(Set(t, p, [left |-> Complaint, got |-> 0]), p, "ls.perror")
  <2>1. PICK mem : mem = [left |-> Complaint, got |-> 0]
    OBVIOUS
  <2>2. PICK v : v = Goto(Set(t, p, mem), p, "ls.perror")
    OBVIOUS
  <2>3. Becomes(t, v, p, "ls.perror", t[p].parent, t[p].fd, mem)
    BY <1>4, <2>2, SetGotoIs DEF Becomes
  <2> QED
    BY <1>6, <1>8, <2>1, <2>2, <2>3
<1> QED
  BY <1>3, <1>7, <1>8 DEF LsExec

\* The server goes on: the others are as they were, or have been waited for.
LEMMA LsServerInv ==
  ASSUME LsInv(proc), NEW v, Table(v), LsRootOk(v[1]),
         \A q \in Pids : q # 1 => v[q] = proc[q] \/ v[q] = Free,
         \A q \in Pids : v[q].parent = 1 => v[1].pc = "ls.wait" /\ q = v[1].mem.child
  PROVE  LsInv(v)
<1>1. ASSUME NEW q \in Pids, q # 1
      PROVE  LsOther(v[q]) /\ (v[q].pc \in LsAsking => q \in Client)
  <2>1. CASE v[q] = Free
    BY <2>1, FreeIs DEF LsOther, LsChild, LsAsking
  <2>2. CASE v[q] = proc[q]
    BY <1>1, <2>2 DEF LsInv
  <2> QED
    BY <1>1, <2>1, <2>2
<1> QED
  BY <1>1 DEF LsInv

LEMMA HangupIs ==
  ASSUME NEW t, Table(t), NEW u, NEW d, t[1].fd = Piped(u, d), NEW v, v = Hangup(t, 1)
  PROVE  Becomes(t, v, 1, "ls.accept", t[1].parent, Terminal, <<>>)
<1>1. PICK a : a = Set(t, 1, <<>>)
  OBVIOUS
<1>2. Becomes(t, a, 1, t[1].pc, t[1].parent, t[1].fd, <<>>)
  BY <1>1, FsPids, SetIs
<1>3. Table(a) /\ a[1].fd = Piped(u, d)
  BY <1>2 DEF Becomes
<1>4. v = Goto(HangUp(a, 1), 1, "ls.accept")
  BY <1>1 DEF Hangup
<1>5. Becomes(a, Goto(HangUp(a, 1), 1, "ls.accept"), 1, "ls.accept", a[1].parent, Terminal, a[1].mem)
  BY <1>3, FsPids, HangUpIs
<1> QED
  BY <1>2, <1>4, <1>5 DEF Becomes

\* The server drops its client, when it has no child.
LEMMA LsHangupInv ==
  ASSUME LsInv(proc), proc[1].pc \in {"ls.read", "ls.fork"}, NEW v, v = Hangup(proc, 1)
  PROVE  LsInv(v)
<1>1. Table(proc) /\ LsRootOk(proc[1]) /\ \A q \in Pids : proc[q].parent # 1
  BY DEF LsInv, LsRootOk
<1>2. PICK u, d : proc[1].fd = Piped(u, d)
  BY <1>1 DEF LsRootOk, Connected
<1>3. Becomes(proc, v, 1, "ls.accept", proc[1].parent, Terminal, <<>>)
  BY <1>1, <1>2, HangupIs
<1>4. /\ Table(v) /\ LsRootOk(v[1]) /\ v[1].parent = 0 /\ \A q \in Pids : q # 1 => v[q] = proc[q]
  BY <1>1, <1>3 DEF Becomes, LsRootOk
<1>5. \A q \in Pids : v[q].parent # 1
  BY <1>1, <1>4
<1> QED
  BY <1>4, <1>5, LsServerInv

LEMMA read_lineInv ==
  ASSUME LsInv(proc), NEW p \in Pids, read_line(p)
  PROVE  LsInv(proc')
<1>1. /\ p = 1 /\ proc[1].pc = "ls.read" /\ Table(proc) /\ LsRootOk(proc[1]) /\ 1 \in Pids
      /\ \A q \in Pids : proc[q].parent # 1
  BY FsPids DEF LsInv, read_line, AtLabel, LsOther, LsChild, LsAsking, LsRootOk
<1>2. ASSUME proc' = Hangup(proc, 1)
      PROVE  LsInv(proc')
  BY <1>1, <1>2, LsHangupInv
<1>3. ASSUME NEW pc \in {"ls.read", "ls.fork"}, NEW mem, NEW v,
             Becomes(proc, v, 1, pc, proc[1].parent, proc[1].fd, mem)
      PROVE  LsInv(v)
  <2>1. /\ Table(v) /\ LsRootOk(v[1]) /\ v[1].parent = 0 /\ \A q \in Pids : q # 1 => v[q] = proc[q]
    BY <1>1, <1>3 DEF Becomes, LsRootOk
  <2>2. \A q \in Pids : v[q].parent # 1
    BY <1>1, <2>1
  <2> QED
    BY <2>1, <2>2, LsServerInv
<1>4. ASSUME proc' = Goto(proc, 1, "ls.fork")
      PROVE  LsInv(proc')
  <2>1. PICK v : v = Goto(proc, 1, "ls.fork")
    OBVIOUS
  <2>2. Becomes(proc, v, 1, "ls.fork", proc[1].parent, proc[1].fd, proc[1].mem)
    BY <1>1, <2>1, GotoIs
  <2> QED
    BY <1>3, <1>4, <2>1, <2>2
<1>5. ASSUME NEW mem, proc' = Set(proc, 1, mem)
      PROVE  LsInv(proc')
  <2>1. PICK v : v = Set(proc, 1, mem)
    OBVIOUS
  <2>2. Becomes(proc, v, 1, "ls.read", proc[1].parent, proc[1].fd, mem)
    BY <1>1, <2>1, SetIs
  <2> QED
    BY <1>3, <1>5, <2>1, <2>2
<1> QED
  BY <1>1, <1>2, <1>4, <1>5 DEF read_line

LEMMA LsForkInv ==
  ASSUME LsInv(proc), NEW p \in Pids, LsFork(p)
  PROVE  LsInv(proc')
<1>1. /\ p = 1 /\ proc[1].pc = "ls.fork" /\ Table(proc) /\ LsRootOk(proc[1]) /\ 1 \in Pids
      /\ \A q \in Pids : proc[q].parent # 1
  BY FsPids DEF LsInv, LsFork, AtLabel, LsOther, LsChild, LsAsking, LsRootOk
<1>2. CASE CanFork /\ proc' = Goto(Set(Fork(proc, 1, NewPid, "ls.exec"), 1, [child |-> NewPid]), 1, "ls.wait")
  <2>0. PICK c, mem : c = NewPid /\ mem = [child |-> c]
    OBVIOUS
  <2>1. PICK v : v = Forked(proc, c, "ls.exec", mem, "ls.wait")
    OBVIOUS
  <2>2. c \in Pids /\ proc[c].pc = "free" /\ c # 1
    BY <1>1, <1>2, <2>0, NewPidIs
  <2>3. /\ Table(v) /\ \A q \in Pids : q \notin {1, c} => v[q] = proc[q]
        /\ v[1].pc = "ls.wait" /\ v[1].parent = proc[1].parent /\ v[1].fd = proc[1].fd
        /\ v[1].mem = mem
        /\ v[c].pc = "ls.exec" /\ v[c].parent = 1 /\ v[c].fd = proc[1].fd /\ v[c].mem = proc[1].mem
    BY <1>1, <2>1, <2>2, ForkedIs DEF HasForked
  <2>4. mem.child = c
    BY <2>0
  <2>5. LsRootOk(v[1]) /\ LsOther(v[c])
    <3>1. Connected(proc[1].fd) /\ proc[1].parent = 0
      BY <1>1 DEF LsRootOk
    <3>2. LsRootOk(v[1])
      BY <2>3, <3>1 DEF LsRootOk
    <3>3. LsOther(v[c])
      BY <2>3, <3>1 DEF LsOther, LsChild, LsAsking
    <3> QED
      BY <3>2, <3>3
  <2>6. ASSUME NEW q \in Pids, q # 1
        PROVE  /\ LsOther(v[q]) /\ (v[q].pc \in LsAsking => q \in Client)
               /\ v[q].parent = 1 => q = c
    <3>1. CASE q = c
      BY <2>3, <2>5, <3>1 DEF LsAsking
    <3>2. CASE q # c
      <4>1. v[q] = proc[q]
        BY <2>3, <2>6, <3>2
      <4> QED
        BY <1>1, <2>6, <4>1 DEF LsInv
    <3> QED
      BY <3>1, <3>2
  <2>7. LsInv(v)
    BY <2>3, <2>4, <2>5, <2>6 DEF LsInv
  <2> QED
    BY <1>2, <2>0, <2>1, <2>7 DEF Forked
<1>3. CASE proc' = Hangup(proc, 1)
  BY <1>1, <1>3, LsHangupInv
<1> QED
  BY <1>1, <1>2, <1>3 DEF LsFork

LEMMA LsWaitInv ==
  ASSUME LsInv(proc), NEW p \in Pids, LsWait(p)
  PROVE  LsInv(proc')
<1>1. /\ p = 1 /\ proc[1].pc = "ls.wait" /\ Table(proc) /\ LsRootOk(proc[1]) /\ 1 \in Pids
  BY FsPids DEF LsInv, LsWait, AtLabel, LsOther, LsChild, LsAsking
<1>2. PICK c, u, v : c = proc[1].mem.child /\ u = Reap(proc, c) /\ v = Hangup(u, 1)
  OBVIOUS
<1>3. c \in Pids /\ c # 1
  BY <1>1, <1>2 DEF LsWait, ZombieOf
<1>4. Becomes(proc, u, c, "free", 0, <<>>, <<>>) /\ u[c] = Free
  BY <1>1, <1>2, <1>3, ReapIs
<1>5. PICK r, d : proc[1].fd = Piped(r, d)
  BY <1>1 DEF LsRootOk, Connected
<1>6. Becomes(u, v, 1, "ls.accept", u[1].parent, Terminal, <<>>)
  <2>1. Table(u) /\ u[1].fd = Piped(r, d) /\ v = Hangup(u, 1)
    <3>1. u[1] = proc[1] /\ Table(u)
      BY <1>1, <1>3, <1>4 DEF Becomes
    <3> QED
      BY <1>2, <1>5, <3>1
  <2> QED
    BY <2>1, HangupIs
<1>7. /\ Table(v) /\ v[1].pc = "ls.accept" /\ v[1].parent = 0 /\ v[1].fd = Terminal
      /\ v[c] = Free /\ \A q \in Pids : q \notin {1, c} => v[q] = proc[q]
  <2>1. u[1] = proc[1] /\ proc[1].parent = 0
    BY <1>1, <1>3, <1>4 DEF Becomes, LsRootOk
  <2>2. v[c] = Free /\ \A q \in Pids : q \notin {1, c} => v[q] = proc[q]
    BY <1>3, <1>4, <1>6 DEF Becomes
  <2> QED
    <3>1. /\ Table(v) /\ v[1].pc = "ls.accept" /\ v[1].parent = u[1].parent
          /\ v[1].fd = Terminal
      BY <1>6 DEF Becomes
    <3> QED
      BY <2>1, <2>2, <3>1
<1>8. ASSUME NEW q \in Pids
      PROVE  v[q].parent # 1
  <2>1. proc[q].parent = 1 => q = c
    <3>1. proc[1].parent = 0
      BY <1>1 DEF LsRootOk
    <3>2. proc[q].parent = 1 => q = proc[1].mem.child
      BY <3>1 DEF LsInv
    <3> QED
      BY <1>2, <3>2
  <2> QED
    <3>1. CASE q = c
      BY <1>7, <3>1, FreeIs
    <3>2. CASE q = 1
      BY <1>7, <3>2
    <3>3. CASE q \notin {1, c}
      <4>1. v[q] = proc[q]
        BY <1>7, <3>3
      <4> QED
        BY <2>1, <3>3, <4>1
    <3> QED
      BY <3>1, <3>2, <3>3
<1>9. LsInv(v)
  BY <1>7, <1>8, LsServerInv DEF LsRootOk
<1> QED
  BY <1>1, <1>2, <1>9 DEF LsWait

-----------------------------------------------------------------------------
\* A client comes.
Accepted(t, p, c, u, d) ==
  [Connect(t, p, c, u, d) EXCEPT ![p].pc = "ls.read", ![p].mem = [n |-> 0], ![c].pc = "lc.send"]

LEMMA AcceptedIs ==
  ASSUME NEW t, Table(t), NEW c \in Pids, 1 # c, NEW u, NEW d,
         t[1].fd = Terminal, t[c].fd = Terminal, NEW v, v = Accepted(t, 1, c, u, d)
  PROVE  /\ Table(v) /\ \A q \in Pids : q \notin {1, c} => v[q] = t[q]
         /\ v[1].pc = "ls.read" /\ v[1].fd = Piped(u, d) /\ v[1].parent = t[1].parent
         /\ v[1].mem = [n |-> 0]
         /\ v[c].pc = "lc.send" /\ v[c].fd = Piped(d, u) /\ v[c].parent = t[c].parent
         /\ v[c].mem = t[c].mem
<1>1. PICK w, mem : w = Connect(t, 1, c, u, d) /\ mem = [n |-> 0]
  OBVIOUS
<1>0. 1 \in Pids
  BY FsPids
<1>2. /\ Table(w) /\ \A q \in Pids : q \notin {1, c} => w[q] = t[q]
      /\ w[1].pc = t[1].pc /\ w[1].fd = Piped(u, d) /\ w[1].parent = t[1].parent
      /\ w[1].mem = t[1].mem
      /\ w[c].pc = t[c].pc /\ w[c].fd = Piped(d, u) /\ w[c].parent = t[c].parent
      /\ w[c].mem = t[c].mem
  BY <1>0, <1>1, ConnectIs
<1>3. PICK x : x = Goto(w, 1, "ls.read")
  OBVIOUS
<1>4. Becomes(w, x, 1, "ls.read", w[1].parent, w[1].fd, w[1].mem)
  BY <1>0, <1>2, <1>3, GotoIs
<1>5. Table(x)
  BY <1>4 DEF Becomes
<1>6. PICK y : y = Set(x, 1, mem)
  OBVIOUS
<1>7. Becomes(x, y, 1, x[1].pc, x[1].parent, x[1].fd, mem)
  BY <1>0, <1>5, <1>6, SetIs
<1>8. Table(y)
  BY <1>7 DEF Becomes
<1>9. v = Goto(y, c, "lc.send")
  BY <1>1, <1>3, <1>6 DEF Goto, Set, Accepted
<1>10. Becomes(y, v, c, "lc.send", y[c].parent, y[c].fd, y[c].mem)
  BY <1>8, <1>9, GotoIs
<1> QED
  BY <1>1, <1>2, <1>4, <1>7, <1>10, <1>0 DEF Becomes

LEMMA AcceptInv ==
  ASSUME LsInv(proc), NEW p \in Pids, Accept(p)
  PROVE  LsInv(proc')
<1>1. /\ p = 1 /\ proc[1].pc = "ls.accept" /\ Table(proc) /\ LsRootOk(proc[1]) /\ 1 \in Pids
      /\ \A q \in Pids : proc[q].parent # 1
  BY FsPids DEF LsInv, Accept, AtLabel, LsOther, LsChild, LsAsking, LsRootOk
<1>2. PICK u, d : u = NewPipe /\ d = OtherPipe
  OBVIOUS
<1>3. u \in 1 .. Pipes /\ d \in 1 .. Pipes /\ u # d
  BY <1>2, ConnectionIs DEF Accept
<1>4. PICK c \in Pids : proc[c].pc = "lc.connect" /\ proc' = Accepted(proc, 1, c, u, d)
  BY <1>1, <1>2 DEF Accept, AtLabel, Accepted
<1>0. c # 1 /\ LsOther(proc[c]) /\ proc[c].pc \in LsAsking /\ c \in Client
  BY <1>1, <1>4 DEF LsInv, LsAsking
<1>5. /\ c # 1 /\ c \in Client /\ LsOther(proc[c]) /\ proc[c].fd = Terminal /\ proc[1].fd = Terminal
      /\ proc[c].parent = 0
  BY <1>0, <1>1, <1>4 DEF LsOther, LsRootOk, LsChild
<1>6. PICK v : v = Accepted(proc, 1, c, u, d)
  OBVIOUS
<1>7. /\ Table(v) /\ \A q \in Pids : q \notin {1, c} => v[q] = proc[q]
      /\ v[1].pc = "ls.read" /\ v[1].fd = Piped(u, d) /\ v[1].parent = proc[1].parent
      /\ v[c].pc = "lc.send" /\ v[c].fd = Piped(d, u) /\ v[c].parent = proc[c].parent
  <2>1. /\ Table(proc) /\ 1 # c /\ proc[1].fd = Terminal /\ proc[c].fd = Terminal
        /\ v = Accepted(proc, 1, c, u, d)
    BY <1>1, <1>5, <1>6
  <2> QED
    BY <2>1, AcceptedIs
<1>8. Connected(v[1].fd) /\ Connected(v[c].fd)
  BY <1>3, <1>7 DEF Connected
<1>9. LsRootOk(v[1]) /\ LsOther(v[c])
  <2>1. LsRootOk(v[1])
    BY <1>1, <1>7, <1>8 DEF LsRootOk
  <2>2. "lc.send" \in LsAsking /\ "lc.send" \notin LsChild
    BY DEF LsAsking, LsChild
  <2>3. LsOther(v[c])
    BY <1>5, <1>7, <1>8, <2>2 DEF LsOther
  <2> QED
    BY <2>1, <2>3
<1>10. ASSUME NEW q \in Pids, q # 1
       PROVE  LsOther(v[q]) /\ (v[q].pc \in LsAsking => q \in Client) /\ v[q].parent # 1
  <2>1. CASE q = c
    BY <1>5, <1>7, <1>9, <2>1
  <2>2. CASE q # c
    <3>1. v[q] = proc[q]
      BY <1>7, <1>10, <2>2
    <3> QED
      BY <1>1, <1>10, <3>1 DEF LsInv
  <2> QED
    BY <2>1, <2>2
<1>11. LsInv(v)
  BY <1>7, <1>9, <1>10 DEF LsInv
<1> QED
  BY <1>4, <1>6, <1>11

LEMMA LsStepInv ==
  ASSUME LsInv(proc), NEW p \in Pids, LsStep(p)
  PROVE  LsInv(proc')
  BY LsCommandInv, ListClientInv, LsExecInv, read_lineInv, LsForkInv, LsWaitInv, AcceptInv
     DEF LsStep, Server

LEMMA LsLabelled ==
  ASSUME LsInv(proc)
  PROVE  Labelled(proc, LsLabels \cup CommandLabels)
<1>1. ASSUME NEW p \in Pids
      PROVE  proc[p].pc \in LsLabels \cup CommandLabels \cup Idle
  BY DEF LsInv, LsOther, LsRootOk, LsLabels, CommandLabels, Idle, LsChild, LsAsking
<1> QED
  BY <1>1 DEF Labelled, LsInv

LEMMA LsClean ==
  ASSUME LsInv(proc), AtPrompt
  PROVE  proc[Root].fd = Terminal /\ Children(Root) = {}
<1>1. proc[1].pc = "ls.accept" /\ proc[1].fd = Terminal
  BY FsPids DEF LsInv, LsRootOk, AtPrompt, Prompts
<1>2. \A q \in Pids : proc[q].parent # 1
  BY <1>1 DEF LsInv, LsRootOk
<1> QED
  BY <1>1, <1>2, FsPids DEF Children

-----------------------------------------------------------------------------
\* All the programs: the inductive invariant of the processes is the one of the program
\* that the behaviour runs.

UnixInv ==
  \/ program \in CompressorNames /\ Labelled(proc, CompressorLabels)
  \/ program \in {"MinShell", "MoreShell"} /\ OneInv(proc)
  \/ program = "DupShell" /\ DupInv(proc, failed)
  \/ program = "ls_server" /\ LsInv(proc)
  \/ program = "reverse_server" /\ RevInv(proc, pipe, failed)
  \/ program = "fs_client" /\ FsInv(proc, pipe, failed)

\* A program starts alone.
LEMMA Alone1 ==
  ASSUME NEW name, NEW label, NEW mem, UnixInit(name, label, mem)
  PROVE  /\ program = name /\ Table(proc) /\ failed = {}
         /\ proc[1].pc = label /\ proc[1].parent = 0 /\ proc[1].fd = Terminal
         /\ proc[1].mem = mem
         /\ \A p \in Pids : p # 1 => proc[p] = Free
<1>1. PICK x : x = [Free EXCEPT !.pc = label, !.fd = Terminal, !.mem = mem]
  OBVIOUS
<1>2. Record(x) /\ x.pc = label /\ x.fd = Terminal /\ x.parent = 0 /\ x.mem = mem
  BY <1>1 DEF Free, Record
<1>3. proc = [p \in Pids |-> IF p = Root THEN x ELSE Free]
  BY <1>1 DEF UnixInit
<1>4. proc[1] = x /\ \A p \in Pids : p # 1 => proc[p] = Free
  BY <1>3, FsPids
<1>5. DOMAIN proc = Pids /\ proc = [p \in Pids |-> proc[p]]
  BY <1>3
<1>6. \A p \in Pids : Record(proc[p])
  BY <1>2, <1>4, FreeIs
<1> QED
  BY <1>2, <1>4, <1>5, <1>6 DEF UnixInit, Table

LEMMA StartLabels ==
  ASSUME NEW name \in CompressorNames
  PROVE  StartOf(name) \in CompressorLabels
  BY DEF CompressorNames, StartOf, CompressorLabels

LEMMA CompressorStarts ==
  ASSUME NEW name \in CompressorNames, CompressorInit(name)
  PROVE  program = name /\ Labelled(proc, CompressorLabels)
<1>1. PICK mem : UnixInit(name, StartOf(name), mem)
  BY DEF CompressorInit
<1>2. program = name /\ Table(proc) /\ proc[1].pc = StartOf(name)
      /\ \A p \in Pids : p # 1 => proc[p] = Free
  BY <1>1, Alone1
<1>3. ASSUME NEW p \in Pids
      PROVE  proc[p].pc \in CompressorLabels \cup Idle
  BY <1>2, StartLabels, FreeIs DEF Idle
<1> QED
  BY <1>2, <1>3 DEF Labelled

LEMMA OneStarts ==
  ASSUME NEW label \in {"min.prompt", "more.prompt"}, NEW name, UnixInit(name, label, NoCommand)
  PROVE  OneInv(proc)
<1>1. /\ Table(proc) /\ proc[1].pc = label /\ proc[1].parent = 0 /\ proc[1].fd = Terminal
      /\ \A p \in Pids : p # 1 => proc[p] = Free
  BY Alone1
<1>2. \A p \in Pids : proc[p].parent = 0
  BY <1>1, FreeIs
<1>3. \A p \in Pids : p # 1 => proc[p].pc = "free"
  BY <1>1, FreeIs
<1> QED
  BY <1>1, <1>2, <1>3 DEF OneInv

LEMMA DupStarts ==
  ASSUME UnixInit("DupShell", "dup.prompt", NoCommand)
  PROVE  DupInv(proc, failed)
<1>1. /\ Table(proc) /\ proc[1].pc = "dup.prompt" /\ proc[1].parent = 0 /\ proc[1].fd = Terminal
      /\ \A p \in Pids : p # 1 => proc[p] = Free
  BY Alone1
<1>2. DupRootOk(proc[1])
  BY <1>1 DEF DupRootOk, Forking, Waits
<1>3. \A p \in Pids : proc[p].parent = 0
  BY <1>1, FreeIs
<1>4. \A p \in Pids : p # 1 => Child(proc[p]) /\ proc[p].pc = "free"
  BY <1>1, FreeIs DEF Child
<1> QED
  BY <1>1, <1>2, <1>3, <1>4 DEF DupInv

LEMMA ShellStarts ==
  ASSUME NEW name \in ShellNames, ShellInit(name)
  PROVE  UnixInv
<1>1. CASE name = "MinShell"
  <2>1. UnixInit(name, "min.prompt", NoCommand)
    BY <1>1 DEF ShellInit
  <2>2. OneInv(proc) /\ program = name
    BY <2>1, OneStarts DEF UnixInit
  <2> QED
    BY <1>1, <2>2 DEF UnixInv
<1>2. CASE name = "MoreShell"
  <2>1. UnixInit(name, "more.prompt", NoCommand)
    BY <1>2 DEF ShellInit
  <2>2. OneInv(proc) /\ program = name
    BY <2>1, OneStarts DEF UnixInit
  <2> QED
    BY <1>2, <2>2 DEF UnixInv
<1>3. CASE name = "DupShell"
  <2>1. UnixInit("DupShell", "dup.prompt", NoCommand)
    BY <1>3 DEF ShellInit
  <2>2. DupInv(proc, failed) /\ program = name
    BY <1>3, <2>1, DupStarts DEF UnixInit
  <2> QED
    BY <1>3, <2>2 DEF UnixInv
<1> QED
  BY <1>1, <1>2, <1>3 DEF ShellNames

LEMMA LsStarts ==
  ASSUME LsInit
  PROVE  LsInv(proc)
<1>1. PICK request \in [Client -> Requests] :
       proc = [p \in Pids |->
         IF p = Root THEN [Free EXCEPT !.pc = "ls.accept", !.fd = Terminal]
         ELSE IF p \in Client
         THEN [Free EXCEPT !.pc = "lc.connect", !.fd = Terminal,
                           !.mem = [request |-> request[p], got |-> 0]]
         ELSE Free]
  BY DEF LsInit
<1>2. PICK x : x = [Free EXCEPT !.pc = "ls.accept", !.fd = Terminal]
  OBVIOUS
<1>3. Record(x) /\ x.pc = "ls.accept" /\ x.fd = Terminal /\ x.parent = 0
  BY <1>2 DEF Free, Record
<1>4. proc[1] = x
  BY <1>1, <1>2, FsPids
<1>5. ASSUME NEW p \in Pids, p # 1
      PROVE  Record(proc[p]) /\ LsOther(proc[p]) /\ proc[p].parent = 0
             /\ (proc[p].pc \in LsAsking => p \in Client)
  <2>1. CASE p \in Client
    <3>1. PICK mem : mem = [request |-> request[p], got |-> 0]
      OBVIOUS
    <3>2. PICK y : y = [Free EXCEPT !.pc = "lc.connect", !.fd = Terminal, !.mem = mem]
      OBVIOUS
    <3>3. Record(y) /\ y.pc = "lc.connect" /\ y.fd = Terminal /\ y.parent = 0
      BY <3>2 DEF Free, Record
    <3>4. proc[p] = y
      BY <1>1, <1>5, <2>1, <3>1, <3>2 DEF Root
    <3>5. LsOther(y)
      BY <3>3 DEF LsOther, LsChild, LsAsking
    <3> QED
      BY <2>1, <3>3, <3>4, <3>5
  <2>2. CASE p \notin Client
    <3>1. proc[p] = Free
      BY <1>1, <1>5, <2>2 DEF Root
    <3> QED
      BY <3>1, FreeIs DEF LsOther, LsChild, LsAsking
  <2> QED
    BY <2>1, <2>2
<1>6. DOMAIN proc = Pids /\ proc = [p \in Pids |-> proc[p]]
  BY <1>1
<1>7. Table(proc)
  <2>1. \A p \in Pids : Record(proc[p])
    BY <1>3, <1>4, <1>5
  <2> QED
    BY <1>6, <2>1 DEF Table
<1>8. LsRootOk(proc[1])
  BY <1>3, <1>4 DEF LsRootOk
<1> QED
  BY <1>5, <1>7, <1>8 DEF LsInv

\* The programs start so.
LEMMA UnixInitInv ==
  ASSUME Init
  PROVE  UnixInv
<1>1. ASSUME NEW name \in CompressorNames, CompressorInit(name)
      PROVE  UnixInv
  BY <1>1, CompressorStarts DEF UnixInv
<1>2. ASSUME LsInit
      PROVE  UnixInv
  <2>1. program = "ls_server"
    BY <1>2 DEF LsInit
  <2> QED
    BY <1>2, <2>1, LsStarts DEF UnixInv
<1>3. ASSUME ReverseInit
      PROVE  UnixInv
  BY <1>3, ReverseInitInv DEF UnixInv
<1>4. ASSUME FsInit
      PROVE  UnixInv
  BY <1>4, FsInitInv DEF UnixInv
<1> QED
  BY <1>1, <1>2, <1>3, <1>4, ShellStarts DEF Init

\* And go on so.
LEMMA UnixStepInv ==
  ASSUME UnixInv, [Next]_vars
  PROVE  UnixInv'
<1>1. CASE UNCHANGED vars
  BY <1>1 DEF UnixInv, vars, os
<1>2. CASE Next
  <2>1. program' = program
    BY ProgramStays
  <2>2. CASE program \in CompressorNames /\ Labelled(proc, CompressorLabels)
    <3>1. PICK p \in Pids : CompressorStep(p)
      BY <1>2, <2>2, NextCompressor
    <3>2. Labelled(proc, CompressorLabels)'
      BY <2>2, <3>1, CompressorKeeps
    <3> QED
      BY <2>1, <2>2, <3>2 DEF UnixInv
  <2>3. CASE program \in {"MinShell", "MoreShell"} /\ OneInv(proc)
    <3>1. PICK p \in Pids : OneStep(p)
      BY <1>2, <2>3, OneLabelled, NextOne
    <3>2. OneInv(proc')
      BY <2>3, <3>1, OneStepInv
    <3> QED
      BY <2>1, <2>3, <3>2 DEF UnixInv
  <2>4. CASE program = "DupShell" /\ DupInv(proc, failed)
    <3>1. PICK p \in Pids : DupStep(p)
      BY <1>2, <2>4, DupLabelled, NextDup
    <3>2. DupInv(proc', failed')
      BY <2>4, <3>1, DupStepInv
    <3> QED
      BY <2>1, <2>4, <3>2 DEF UnixInv
  <2>5. CASE program = "ls_server" /\ LsInv(proc)
    <3>1. PICK p \in Pids : LsStep(p)
      BY <1>2, <2>5, LsLabelled, NextLs
    <3>2. LsInv(proc')
      BY <2>5, <3>1, LsStepInv
    <3> QED
      BY <2>1, <2>5, <3>2 DEF UnixInv
  <2>6. CASE program = "reverse_server" /\ RevInv(proc, pipe, failed)
    <3>1. PICK p \in Pids : ReverseStep(p)
      BY <1>2, <2>6, ReverseLabelled, NextReverse
    <3>2. RevInv(proc', pipe', failed')
      BY <2>6, <3>1, ReverseStepInv
    <3> QED
      BY <2>1, <2>6, <3>2 DEF UnixInv
  <2>7. CASE program = "fs_client" /\ FsInv(proc, pipe, failed)
    <3>1. Labelled(proc, FsLabels)
      BY <2>7 DEF FsInv
    <3>2. PICK p \in Pids : FsStep(p)
      BY <1>2, <3>1, NextFs
    <3>3. FsInv(proc', pipe', failed')
      BY <2>7, <3>2, FsStepInv
    <3> QED
      BY <2>1, <2>7, <3>3 DEF UnixInv
  <2> QED
    BY <2>2, <2>3, <2>4, <2>5, <2>6, <2>7 DEF UnixInv
<1> QED
  BY <1>1, <1>2

\* No process is at the end of a reverse_client, nor is the program fs_client.
LEMMA NoAnswers ==
  ASSUME NEW L, Labelled(proc, L), "rc.end" \notin L, program # "fs_client"
  PROVE  AnswersInStep
<1>1. \A p \in Pids : ~AtLabel(p, "rc.end")
  BY DEF Labelled, AtLabel, Idle
<1> QED
  BY <1>1 DEF AnswersInStep

LEMMA InvAnswers ==
  ASSUME UnixInv
  PROVE  AnswersInStep
<1>1. CASE program \in CompressorNames /\ Labelled(proc, CompressorLabels)
  <2>1. "rc.end" \notin CompressorLabels /\ program # "fs_client"
    BY <1>1 DEF CompressorLabels, CompressorNames
  <2> QED
    BY <1>1, <2>1, NoAnswers
<1>2. CASE program \in {"MinShell", "MoreShell"} /\ OneInv(proc)
  <2>1. "rc.end" \notin OneLabels \cup CommandLabels /\ program # "fs_client"
    BY <1>2 DEF OneLabels, CommandLabels
  <2> QED
    BY <1>2, <2>1, OneLabelled, NoAnswers
<1>3. CASE program = "DupShell" /\ DupInv(proc, failed)
  <2>1. "rc.end" \notin DupLabels \cup CommandLabels /\ program # "fs_client"
    BY <1>3 DEF DupLabels, CommandLabels
  <2> QED
    BY <1>3, <2>1, DupLabelled, NoAnswers
<1>4. CASE program = "ls_server" /\ LsInv(proc)
  <2>1. "rc.end" \notin LsLabels \cup CommandLabels /\ program # "fs_client"
    BY <1>4 DEF LsLabels, CommandLabels
  <2> QED
    BY <1>4, <2>1, LsLabelled, NoAnswers
<1>5. CASE program = "reverse_server" /\ RevInv(proc, pipe, failed)
  BY <1>5, ReverseAnswers
<1>6. CASE program = "fs_client" /\ FsInv(proc, pipe, failed)
  BY <1>6, FsAnswers
<1> QED
  BY <1>1, <1>2, <1>3, <1>4, <1>5, <1>6 DEF UnixInv

\* A shell or a server without children is clean.
LEMMA NoChildren ==
  ASSUME AtPrompt => proc[Root].fd = Terminal /\ Children(Root) = {}
  PROVE  PromptClean
<1>1. Cardinality({}) = 0
  BY FS_EmptySet
<1>2. 0 <= 1 /\ 0 <= 0
  OBVIOUS
<1>3. ASSUME AtPrompt
      PROVE  Cardinality(Children(Root)) <= IF "fork" \in failed THEN 1 ELSE 0
  <2>1. Cardinality(Children(Root)) = 0
    BY <1>1, <1>3
  <2> QED
    BY <1>2, <2>1
<1> QED
  BY <1>3 DEF PromptClean

LEMMA NeverAtPrompt ==
  ASSUME NEW L, Labelled(proc, L), L \cap (Prompts \cup {"ls.accept", "rs.accept"}) = {}
  PROVE  PromptClean
<1>1. proc[1].pc \in L \cup Idle
  BY FsPids DEF Labelled
<1>2. ~AtPrompt
  BY <1>1, FsPids DEF AtPrompt, Idle, Prompts
<1> QED
  BY <1>2 DEF PromptClean

LEMMA InvClean ==
  ASSUME UnixInv
  PROVE  PromptClean
<1>1. CASE program \in CompressorNames /\ Labelled(proc, CompressorLabels)
  <2>1. CompressorLabels \cap (Prompts \cup {"ls.accept", "rs.accept"}) = {}
    BY DEF CompressorLabels, Prompts
  <2> QED
    BY <1>1, <2>1, NeverAtPrompt
<1>2. CASE program \in {"MinShell", "MoreShell"} /\ OneInv(proc)
  BY <1>2, OneClean, NoChildren
<1>3. CASE program = "DupShell" /\ DupInv(proc, failed)
  BY <1>3, DupClean DEF PromptClean
<1>4. CASE program = "ls_server" /\ LsInv(proc)
  BY <1>4, LsClean, NoChildren
<1>5. CASE program = "reverse_server" /\ RevInv(proc, pipe, failed)
  <2>1. Wired(proc)
    BY <1>5 DEF RevInv
  <2>2. AtPrompt => proc[Root].fd = Terminal
    BY <2>1, FsPids DEF Wired, AtPrompt, Prompts
  <2>3. Children(Root) = {}
    BY <2>1, FsPids DEF Wired, Children
  <2> QED
    BY <2>2, <2>3, NoChildren
<1>6. CASE program = "fs_client" /\ FsInv(proc, pipe, failed)
  <2>1. FsLabels \cap (Prompts \cup {"ls.accept", "rs.accept"}) = {}
    BY DEF FsLabels, Prompts
  <2>2. Labelled(proc, FsLabels)
    BY <1>6 DEF FsInv
  <2> QED
    BY <2>1, <2>2, NeverAtPrompt
<1> QED
  BY <1>1, <1>2, <1>3, <1>4, <1>5, <1>6 DEF UnixInv

-----------------------------------------------------------------------------
\* In every program, each process has the descriptors, the parent and the memory that
\* its place in the code says, and each pipe holds what its two ends have agreed on.
THEOREM UnixInvariant == Spec => []UnixInv
<1>1. Init => UnixInv
  BY UnixInitInv
<1>2. UnixInv /\ [Next]_vars => UnixInv'
  BY UnixStepInv
<1> QED
  BY <1>1, <1>2, PTL DEF Spec

\* A client of reverse_server or of the file system is never given the answer to
\* another client's line, nor to a line of its own other than the last one it sent.
THEOREM AnswersBelong == Spec => []AnswersInStep
<1>1. UnixInv => AnswersInStep
  BY InvAnswers
<1> QED
  BY <1>1, UnixInvariant, PTL

\* A shell that prompts and a server that accepts hold no descriptor but the terminal,
\* and no child is left over, except for the one whose sibling could not be forked.
THEOREM PromptsAreClean == Spec => []PromptClean
<1>1. UnixInv => PromptClean
  BY InvClean
<1> QED
  BY <1>1, UnixInvariant, PTL
=============================================================================
