--------------------------- MODULE ArrivalProofs ---------------------------
(***************************************************************************)
(* What is written to a pipe or a connection arrives in full               *)
(* (ArrivesInFull), for every value of the constants.  On top of the       *)
(* invariants of UnixProofs, which say who holds which end, the pipeline   *)
(* of DupShell and ls_server have one of their data: what one side has     *)
(* sent is what the other has got and what is still in the pipe.           *)
(***************************************************************************)
EXTENDS UnixProofs

-----------------------------------------------------------------------------
\* What goes through the pipes of the commands.

\* What is written there.
Letters == {"y", "-", "\n"}
Flow(q) == DOMAIN q = 1 .. Pipes /\ \A k \in 1 .. Pipes : q[k] \in Seq(Letters)

\* The pipe k has got n bytes more.
Fuller(q, u, k, n) ==
  /\ Flow(u) /\ Len(u[k]) = Len(q[k]) + n /\ \A j \in 1 .. Pipes : j # k => u[j] = q[j]

LEMMA LettersAre ==
  ASSUME NEW n \in Nat, NEW s, s = [i \in 1 .. n |-> "y"]
  PROVE  s \in Seq(Letters) /\ Len(s) = n
<1>1. "y" \in Letters
  BY DEF Letters
<1>2. s \in [1 .. n -> Letters]
  BY <1>1
<1>3. s \in Seq(Letters)
  BY <1>2
<1> QED
  BY <1>3, SMTT(30)

LEMMA LettersLonger ==
  ASSUME NEW a \in Seq(Letters), NEW b \in Seq(Letters)
  PROVE  a \o b \in Seq(Letters) /\ Len(a \o b) = Len(a) + Len(b)
<1>1. PICK m, n, y : m = Len(a) /\ n = Len(b) /\ y = a \o b
  OBVIOUS
<1>2. /\ y \in Seq(Letters) /\ Len(y) = m + n
      /\ \A i \in 1 .. m + n : y[i] = IF i <= m THEN a[i] ELSE b[i - m]
  BY <1>1, ConcatProperties
<1> QED
  BY <1>1, <1>2

Poured(q, k, s) == [q EXCEPT ![k] = q[k] \o s]

LEMMA FullerIs ==
  ASSUME NEW q, Flow(q), NEW k \in 1 .. Pipes, NEW s \in Seq(Letters)
  PROVE  Fuller(q, Poured(q, k, s), k, Len(s))
<1>1. PICK a, b : a = q[k] /\ b = a \o s
  OBVIOUS
<1>2. a \in Seq(Letters)
  BY <1>1 DEF Flow
<1>3. b \in Seq(Letters) /\ Len(b) = Len(a) + Len(s)
  <2>1. a \o s \in Seq(Letters) /\ Len(a \o s) = Len(a) + Len(s)
    BY <1>2, LettersLonger
  <2> QED
    BY <1>1, <2>1
<1>0. PICK u : u = Poured(q, k, s)
  OBVIOUS
<1>4. u = [q EXCEPT ![k] = b] /\ DOMAIN q = 1 .. Pipes
  BY <1>0, <1>1 DEF Flow, Poured
<1>5. u[k] = b /\ DOMAIN u = 1 .. Pipes /\ \A j \in 1 .. Pipes : j # k => u[j] = q[j]
  BY <1>4
<1>6. \A j \in 1 .. Pipes : u[j] \in Seq(Letters)
  BY <1>3, <1>5 DEF Flow
<1> QED
  BY <1>0, <1>1, <1>3, <1>5, <1>6 DEF Fuller, Flow

\* The pipe k is empty now.
Emptied(q, u, k) == Flow(u) /\ u[k] = <<>> /\ \A j \in 1 .. Pipes : j # k => u[j] = q[j]

LEMMA EmptiedIs ==
  ASSUME NEW q, Flow(q), NEW k \in 1 .. Pipes, NEW u, u = [q EXCEPT ![k] = <<>>]
  PROVE  Emptied(q, u, k)
<1>1. <<>> \in Seq(Letters)
  BY EmptySeq
<1>2. DOMAIN q = 1 .. Pipes
  BY DEF Flow
<1>3. u[k] = <<>> /\ DOMAIN u = 1 .. Pipes /\ \A j \in 1 .. Pipes : j # k => u[j] = q[j]
  BY <1>2
<1>4. \A j \in 1 .. Pipes : u[j] \in Seq(Letters)
  BY <1>1, <1>3 DEF Flow
<1> QED
  BY <1>3, <1>4 DEF Emptied, Flow

LEMMA LenIs ==
  ASSUME NEW q, Flow(q), NEW k \in 1 .. Pipes
  PROVE  Len(q[k]) \in Nat /\ (q[k] = <<>> <=> Len(q[k]) = 0)
<1>1. PICK s : s = q[k]
  OBVIOUS
<1>2. s \in Seq(Letters)
  BY <1>1 DEF Flow
<1>3. Len(s) \in Nat /\ (s = <<>> <=> Len(s) = 0)
  BY <1>2, EmptySeq, LenProperties
<1> QED
  BY <1>1, <1>3

-----------------------------------------------------------------------------
\* The memory of a command with m bytes to write, and of one of the pipelines.
CountsTo(mem, m) ==
  mem = [left |-> mem.left, got |-> mem.got] /\ mem.left \in 0 .. m /\ mem.got \in Nat
Counts(mem) == CountsTo(mem, Bytes)
Less(mem, n) == [mem EXCEPT !.left = @ - n]
More(mem, n) == [mem EXCEPT !.got = @ + n]

LEMMA CountsToFrom ==
  ASSUME NEW m \in Nat, NEW mem, mem = [left |-> m, got |-> 0]
  PROVE  CountsTo(mem, m) /\ mem.left = m /\ mem.got = 0
<1>1. mem.left = m /\ mem.got = 0
  OBVIOUS
<1>2. m \in 0 .. m /\ 0 \in Nat
  OBVIOUS
<1> QED
  BY <1>1, <1>2 DEF CountsTo

LEMMA CountsFrom ==
  ASSUME NEW mem, mem = [left |-> Bytes, got |-> 0]
  PROVE  Counts(mem) /\ mem.left = Bytes /\ mem.got = 0
BY CountsToFrom, BytesAssumption DEF Counts

LEMMA LessTo ==
  ASSUME NEW m \in Nat, NEW mem, CountsTo(mem, m), NEW n \in Nat, n <= mem.left
  PROVE  CountsTo(Less(mem, n), m) /\ Less(mem, n).left = mem.left - n /\ Less(mem, n).got = mem.got
<1>1. PICK a, b : mem = [left |-> a, got |-> b] /\ a \in 0 .. m /\ b \in Nat
  BY DEF CountsTo
<1>2. mem.left = a /\ mem.got = b
  BY <1>1
<1>3. a - n \in 0 .. m
  BY <1>1, <1>2
<1>4. Less(mem, n) = [left |-> a - n, got |-> b]
  BY <1>1 DEF Less
<1>5. Less(mem, n).left = a - n /\ Less(mem, n).got = b
  BY <1>4
<1> QED
  BY <1>1, <1>2, <1>3, <1>4, <1>5 DEF CountsTo

LEMMA LessIs ==
  ASSUME NEW mem, Counts(mem), NEW n \in Nat, n <= mem.left
  PROVE  Counts(Less(mem, n)) /\ Less(mem, n).left = mem.left - n /\ Less(mem, n).got = mem.got
BY LessTo, BytesAssumption DEF Counts

LEMMA MoreIs ==
  ASSUME NEW mem, Counts(mem), NEW n \in Nat
  PROVE  Counts(More(mem, n)) /\ More(mem, n).left = mem.left /\ More(mem, n).got = mem.got + n
<1>1. PICK a, b : mem = [left |-> a, got |-> b] /\ a \in 0 .. Bytes /\ b \in Nat
  BY DEF Counts, CountsTo
<1>2. mem.left = a /\ mem.got = b
  BY <1>1
<1>3. b + n \in Nat
  BY <1>1
<1>4. More(mem, n) = [left |-> a, got |-> b + n]
  BY <1>1 DEF More
<1>5. More(mem, n).left = a /\ More(mem, n).got = b + n
  BY <1>4
<1> QED
  BY <1>1, <1>2, <1>3, <1>4, <1>5 DEF Counts, CountsTo

\* What a writer does: it ends when nothing is left, is killed when nobody reads, or writes.
LEMMA OutputIs ==
  ASSUME NEW p \in Pids, Output(p), Table(proc), Flow(pipe),
         NEW k \in 1 .. Pipes, proc[p].fd = Writer(k),
         proc[p].pc # "yes" => proc[p].mem.left \in Nat
  PROVE  /\ printed' = printed
         /\ \/ /\ proc[p].pc # "yes" /\ proc[p].mem.left = 0
               /\ (\E code : proc' = Exited(proc, p, code)) /\ pipe' = pipe
            \/ ~HeldIn(proc, R(k)) /\ proc' = Killed(proc, p, 13) /\ pipe' = pipe
            \/ \E n \in Nat :
                 /\ Fuller(pipe, pipe', k, n)
                 /\ \/ proc[p].pc = "yes" /\ proc' = proc
                    \/ /\ proc[p].pc # "yes" /\ n <= proc[p].mem.left
                       /\ proc' = Set(proc, p, Less(proc[p].mem, n))
<1>1. PICK mem, end, wanted, n :
        /\ mem = proc[p].mem /\ end = proc[p].fd[Out]
        /\ wanted = IF AtLabel(p, "yes") THEN 1 ELSE mem.left
        /\ n = IF end = Tty THEN wanted ELSE Min2(Room(end[2]), wanted)
  OBVIOUS
<1>2. end = W(k) /\ end # Tty /\ end[1] = "w" /\ end[2] = k
  BY <1>1, Opened, Names
<1>3. n = Min2(Room(k), wanted)
  BY <1>1, <1>2
<1>4. printed' = printed
  BY DEF Output
<1>5. \/ wanted = 0 /\ (\E code : proc' = Exited(proc, p, code)) /\ pipe' = pipe
      \/ wanted > 0 /\ NoReader(p, Out) /\ proc' = Killed(proc, p, 13) /\ pipe' = pipe
      \/ /\ ~NoReader(p, Out) /\ n > 0
         /\ proc' = IF AtLabel(p, "yes") THEN proc
                    ELSE Set(proc, p, [mem EXCEPT !.left = @ - n])
         /\ pipe' = [pipe EXCEPT ![k] = @ \o [i \in 1 .. n |-> "y"]]
  BY <1>1, <1>2 DEF Output
<1>6. NoReader(p, Out) => ~HeldIn(proc, R(k))
  BY <1>1, <1>2 DEF NoReader, PipeOf
<1>7. wanted \in Nat /\ (proc[p].pc = "yes" => wanted = 1) /\ (proc[p].pc # "yes" => wanted = mem.left)
  BY <1>1 DEF AtLabel
<1>8. ASSUME n > 0
      PROVE  n \in Nat /\ n <= wanted
  <2>1. PICK room : room = Room(k)
    OBVIOUS
  <2>2. room \in Int
    BY <2>1, LenIs, UnixAssumption DEF Room
  <2> QED
    BY <1>3, <1>7, <1>8, <2>1, <2>2 DEF Min2
<1>9. CASE wanted = 0 /\ (\E code : proc' = Exited(proc, p, code)) /\ pipe' = pipe
  BY <1>1, <1>4, <1>7, <1>9
<1>10. CASE wanted > 0 /\ NoReader(p, Out) /\ proc' = Killed(proc, p, 13) /\ pipe' = pipe
  BY <1>4, <1>6, <1>10
<1>11. CASE /\ ~NoReader(p, Out) /\ n > 0
            /\ proc' = IF AtLabel(p, "yes") THEN proc
                       ELSE Set(proc, p, [mem EXCEPT !.left = @ - n])
            /\ pipe' = [pipe EXCEPT ![k] = @ \o [i \in 1 .. n |-> "y"]]
  <2>1. n \in Nat /\ n <= wanted
    BY <1>8, <1>11
  <2>2. PICK s : s = [i \in 1 .. n |-> "y"]
    OBVIOUS
  <2>3. s \in Seq(Letters) /\ Len(s) = n
    BY <2>1, <2>2, LettersAre
  <2>4. PICK u : u = Poured(pipe, k, s)
    OBVIOUS
  <2>5. pipe' = u
    BY <1>11, <2>2, <2>4 DEF Poured
  <2>6. Fuller(pipe, u, k, n)
    BY <2>3, <2>4, FullerIs
  <2>7. proc[p].pc = "yes" => proc' = proc
    BY <1>11 DEF AtLabel
  <2>8. proc[p].pc # "yes" => proc' = Set(proc, p, Less(mem, n))
    BY <1>11 DEF AtLabel, Less
  <2> QED
    BY <1>1, <1>4, <1>7, <2>1, <2>5, <2>6, <2>7, <2>8
<1> QED
  BY <1>5, <1>9, <1>10, <1>11

\* And what wc does: it takes what there is, and at the end of the file ends.
LEMMA CountIs ==
  ASSUME NEW p \in Pids, Count(p), Flow(pipe), NEW k \in 1 .. Pipes, proc[p].fd = Reader(k)
  PROVE  \/ /\ Emptied(pipe, pipe', k) /\ printed' = printed
            /\ proc' = Set(proc, p, More(proc[p].mem, Len(pipe[k])))
         \/ /\ pipe[k] = <<>> /\ ~HeldIn(proc, W(k)) /\ pipe' = pipe
            /\ proc' = Exited(proc, p, 0)
            /\ printed' = [printed EXCEPT ![1] = proc[p].mem.got]
<1>1. PipeOf(p, In) = k
  BY Opened, Names DEF PipeOf
<1>2. CASE AtEnd(p, In)
  <2>1. pipe[k] = <<>> /\ ~HeldIn(proc, W(k))
    BY <1>1, <1>2 DEF AtEnd
  <2> QED
    BY <1>1, <1>2, <2>1, FsPids DEF Count
<1>3. CASE ~AtEnd(p, In)
  <2>1. /\ pipe' = [pipe EXCEPT ![k] = <<>>] /\ printed' = printed
        /\ proc' = Set(proc, p, [proc[p].mem EXCEPT !.got = @ + Len(pipe[k])])
    BY <1>1, <1>3 DEF Count
  <2>2. PICK u : u = [pipe EXCEPT ![k] = <<>>]
    OBVIOUS
  <2>3. Emptied(pipe, u, k)
    BY <2>2, EmptiedIs
  <2> QED
    BY <2>1, <2>2, <2>3 DEF More
<1> QED
  BY <1>2, <1>3

LEMMA TakeOneIs ==
  ASSUME NEW p \in Pids, TakeOne(p), Flow(pipe), NEW k \in 1 .. Pipes, proc[p].fd = Reader(k)
  PROVE  Emptied(pipe, pipe', k) /\ printed' = printed /\ proc' = Exited(proc, p, 0)
<1>1. PipeOf(p, In) = k
  BY Opened, Names DEF PipeOf
<1>2. PICK u : u = [pipe EXCEPT ![k] = <<>>]
  OBVIOUS
<1>3. Emptied(pipe, u, k)
  BY <1>2, EmptiedIs
<1> QED
  BY <1>1, <1>2, <1>3 DEF TakeOne

-----------------------------------------------------------------------------
\* The pipeline of DupShell.

Readers == {"dup.exec2", "wc", "head"}
Total(words) == IF words[1] = "echo" THEN Bytes ELSE 0

\* The first command, the second, and what is left of a line before.
FirstRole(x, words, k) ==
  /\ x.pc \in {"dup.exec1", "zombie"} \/ (x.pc = words[1] /\ words[1] \in {"true", "echo", "yes"})
  /\ x.pc = "dup.exec1" => x.mem.words = words /\ x.fd = Piped(k, k)
  /\ x.pc \in {"true", "echo", "yes"} => x.fd = Writer(k)
  /\ x.pc = "echo" => Counts(x.mem)
SecondRole(x, words, k) ==
  /\ x.pc \in {"dup.exec2", "zombie"} \/ (x.pc = words[2] /\ words[2] \in {"wc", "head", "true"})
  /\ x.pc = "dup.exec2" => x.mem.words = words /\ x.fd = Piped(k, k)
  /\ x.pc \in {"wc", "head", "true"} => x.fd = Reader(k)
  /\ x.pc = "wc" => Counts(x.mem)
Loose(x) == x.pc \notin Readers /\ (x.pc = "echo" => Counts(x.mem))
Stranger(x, k) == Loose(x) /\ R(k) \notin EndsOf(x.fd) /\ W(k) \notin EndsOf(x.fd)

WithFirst == {"dup.fork2", "dup.close", "dup.wait1"}
WithSecond == {"dup.close", "dup.wait1", "dup.wait2"}

Pipeline(t, k) ==
  /\ t[1].pc \in Forking => t[1].fd = Piped(k, k)
  /\ t[1].pc \in WithFirst => t[1].mem.pids[1] \in Pids
  /\ t[1].pc \in WithSecond => t[1].mem.pids[2] \in Pids
  /\ \A p \in Pids :
       /\ FirstOf(t[1], p) => p # 1 /\ FirstRole(t[p], t[1].mem.words, k)
       /\ SecondOf(t[1], p) => p # 1 /\ ~FirstOf(t[1], p) /\ SecondRole(t[p], t[1].mem.words, k)
       /\ p # 1 /\ ~FirstOf(t[1], p) /\ ~SecondOf(t[1], p) => Stranger(t[p], k)

\* wc has counted what echo has written, but for what is in the pipe.
Wrote(x, words) ==
  IF x.pc = "echo" THEN Bytes - x.mem.left ELSE IF x.pc = "zombie" THEN Total(words) ELSE 0
Got(x, n) == IF x.pc = "wc" THEN x.mem.got ELSE IF x.pc = "zombie" THEN n ELSE 0
SentBy(t) ==
  IF t[1].pc = "dup.fork1" THEN 0
  ELSE IF t[1].pc = "dup.wait2" THEN Total(t[1].mem.words)
  ELSE Wrote(t[t[1].mem.pids[1]], t[1].mem.words)
ReadBy(t, n) ==
  IF t[1].pc \in {"dup.fork1", "dup.fork2"} THEN 0 ELSE Got(t[t[1].mem.pids[2]], n)
SecondEnded(t) == t[1].pc \in WithSecond /\ t[t[1].mem.pids[2]].pc = "zombie"
FirstEnded(t) == t[1].pc = "dup.wait2" \/ (t[1].pc \in WithFirst /\ t[t[1].mem.pids[1]].pc = "zombie")
Ledger(t, k, q, n) ==
  t[1].mem.words[2] = "wc" =>
    /\ ReadBy(t, n) + Len(q[k]) = SentBy(t)
    /\ SecondEnded(t) => FirstEnded(t) /\ q[k] = <<>>

DupData(t, q, pr) ==
  /\ Flow(q) /\ DOMAIN pr = Pids /\ pr[1] \in {Nothing, 0, Bytes}
  /\ \A p \in Pids : p # 1 => pr[p] = Nothing
  /\ t[1].pc \notin Forking \cup Waits => \A p \in Pids : p # 1 => Loose(t[p])
  /\ t[1].pc \in Forking \cup Waits =>
       \E k \in 1 .. Pipes : Pipeline(t, k) /\ Ledger(t, k, q, pr[1])

\* A process goes on in its place.
LEMMA PipelineMoves ==
  ASSUME NEW k, Pipeline(proc, k), NEW p \in Pids, p # 1, NEW v,
         \A q \in Pids : q # p => v[q] = proc[q],
         FirstOf(proc[1], p) => FirstRole(v[p], proc[1].mem.words, k),
         SecondOf(proc[1], p) => SecondRole(v[p], proc[1].mem.words, k),
         ~FirstOf(proc[1], p) /\ ~SecondOf(proc[1], p) => Stranger(v[p], k)
  PROVE  Pipeline(v, k)
<1>1. v[1] = proc[1]
  BY FsPids
<1>2. ASSUME NEW q \in Pids
      PROVE  /\ FirstOf(v[1], q) => q # 1 /\ FirstRole(v[q], v[1].mem.words, k)
             /\ SecondOf(v[1], q) => q # 1 /\ ~FirstOf(v[1], q) /\ SecondRole(v[q], v[1].mem.words, k)
             /\ q # 1 /\ ~FirstOf(v[1], q) /\ ~SecondOf(v[1], q) => Stranger(v[q], k)
  <2>1. CASE q = p
    BY <1>1, <2>1 DEF Pipeline
  <2>2. CASE q # p
    <3>1. v[q] = proc[q]
      BY <2>2
    <3> QED
      BY <1>1, <3>1 DEF Pipeline
  <2> QED
    BY <2>1, <2>2
<1> QED
  BY <1>1, <1>2 DEF Pipeline

\* What the two commands are, and what is theirs.
LEMMA RolesAre ==
  ASSUME NEW k, Pipeline(proc, k), NEW p \in Pids, p # 1, NEW v,
         \A q \in Pids : q # p => v[q] = proc[q]
  PROVE  /\ v[1] = proc[1]
         /\ proc[1].pc \in WithFirst => FirstOf(proc[1], proc[1].mem.pids[1])
         /\ proc[1].pc \in WithSecond => SecondOf(proc[1], proc[1].mem.pids[2])
         /\ proc[1].pc \in WithFirst /\ ~FirstOf(proc[1], p) =>
              v[proc[1].mem.pids[1]] = proc[proc[1].mem.pids[1]]
         /\ proc[1].pc \in WithSecond /\ ~SecondOf(proc[1], p) =>
              v[proc[1].mem.pids[2]] = proc[proc[1].mem.pids[2]]
         /\ FirstOf(proc[1], p) => p = proc[1].mem.pids[1] /\ proc[1].pc \in WithFirst
         /\ SecondOf(proc[1], p) => p = proc[1].mem.pids[2] /\ proc[1].pc \in WithSecond
         /\ FirstOf(proc[1], p) => ~SecondOf(proc[1], p)
  BY FsPids DEF Pipeline, FirstOf, SecondOf, WithFirst, WithSecond

\* A stranger's step, a step of the first command, and one of the second.
LEMMA StrangerLedger ==
  ASSUME NEW k, Pipeline(proc, k), NEW p \in Pids, p # 1, NEW v,
         \A q \in Pids : q # p => v[q] = proc[q],
         ~FirstOf(proc[1], p), ~SecondOf(proc[1], p), proc[1].pc \in Forking \cup Waits,
         NEW u, u[k] = pipe[k], NEW n, Ledger(proc, k, pipe, n)
  PROVE  Ledger(v, k, u, n)
<1>1. v[1] = proc[1]
  BY FsPids
<1>2. proc[1].pc \in WithFirst => v[proc[1].mem.pids[1]] = proc[proc[1].mem.pids[1]]
  BY RolesAre
<1>3. proc[1].pc \in WithSecond => v[proc[1].mem.pids[2]] = proc[proc[1].mem.pids[2]]
  BY RolesAre
<1>4. SentBy(v) = SentBy(proc)
  BY <1>1, <1>2 DEF SentBy, WithFirst, Forking, Waits
<1>5. ReadBy(v, n) = ReadBy(proc, n)
  BY <1>1, <1>3 DEF ReadBy, WithSecond, Forking, Waits
<1>6. (SecondEnded(v) <=> SecondEnded(proc)) /\ (FirstEnded(v) <=> FirstEnded(proc))
  BY <1>1, <1>2, <1>3 DEF SecondEnded, FirstEnded
<1> QED
  BY <1>1, <1>4, <1>5, <1>6 DEF Ledger

LEMMA NumbersAre ==
  ASSUME NEW k, NEW t, Pipeline(t, k)
  PROVE  /\ \A n \in Int : ReadBy(t, n) \in Int \/ t[1].pc \notin Forking \cup Waits
         /\ t[1].pc \in Forking \cup Waits => SentBy(t) \in Nat
<1>1. ASSUME NEW n \in Int, t[1].pc \in WithSecond
      PROVE  ReadBy(t, n) \in Int
  <2>1. PICK q \in Pids : q = t[1].mem.pids[2]
    BY <1>1 DEF Pipeline
  <2>2. SecondRole(t[q], t[1].mem.words, k)
    BY <1>1, <2>1 DEF Pipeline, SecondOf, WithSecond
  <2>3. t[q].pc = "wc" => t[q].mem.got \in Nat
    BY <2>2 DEF SecondRole, Counts, CountsTo
  <2>4. Got(t[q], n) \in Int
    BY <2>3 DEF Got
  <2> QED
    BY <1>1, <2>1, <2>4 DEF ReadBy, WithSecond
<1>2. ASSUME t[1].pc \in WithFirst
      PROVE  SentBy(t) \in Nat
  <2>1. PICK q \in Pids : q = t[1].mem.pids[1]
    BY <1>2 DEF Pipeline
  <2>2. FirstRole(t[q], t[1].mem.words, k)
    BY <1>2, <2>1 DEF Pipeline, FirstOf, WithFirst
  <2>3. t[q].pc = "echo" => Bytes - t[q].mem.left \in Nat
    BY <2>2, BytesAssumption DEF FirstRole, Counts, CountsTo
  <2>4. Wrote(t[q], t[1].mem.words) \in Nat
    BY <2>3, BytesAssumption DEF Wrote, Total
  <2> QED
    BY <1>2, <2>1, <2>4 DEF SentBy, WithFirst
<1>3. Total(t[1].mem.words) \in Nat
  BY BytesAssumption DEF Total
<1> QED
  BY <1>1, <1>2, <1>3 DEF ReadBy, SentBy, WithFirst, WithSecond, Forking, Waits

LEMMA FirstLedger ==
  ASSUME NEW k \in 1 .. Pipes, Pipeline(proc, k), NEW p \in Pids, p # 1, NEW v,
         \A q \in Pids : q # p => v[q] = proc[q],
         FirstOf(proc[1], p), proc[p].pc # "zombie", Flow(pipe), NEW u, Flow(u), NEW n \in Int,
         Ledger(proc, k, pipe, n), NEW words, words = proc[1].mem.words,
         words[2] = "wc" =>
           /\ Wrote(proc[p], words) \in Nat /\ Wrote(v[p], words) \in Nat
           /\ Wrote(v[p], words) + Len(pipe[k]) = Wrote(proc[p], words) + Len(u[k])
  PROVE  Ledger(v, k, u, n)
<1>1. v[1] = proc[1] /\ p = proc[1].mem.pids[1] /\ proc[1].pc \in WithFirst
      /\ (proc[1].pc \in WithSecond => v[proc[1].mem.pids[2]] = proc[proc[1].mem.pids[2]])
  BY RolesAre
<1>2. SUFFICES ASSUME words[2] = "wc"
               PROVE  /\ ReadBy(v, n) + Len(u[k]) = SentBy(v)
                      /\ SecondEnded(v) => FirstEnded(v) /\ u[k] = <<>>
  BY <1>1 DEF Ledger
<1>3. SentBy(v) = Wrote(v[p], words) /\ SentBy(proc) = Wrote(proc[p], words)
  BY <1>1 DEF SentBy, WithFirst
<1>4. ReadBy(v, n) = ReadBy(proc, n)
  BY <1>1 DEF ReadBy, WithFirst, WithSecond
<1>5. ~SecondEnded(proc)
  BY <1>1, <1>2 DEF Ledger, FirstEnded, WithFirst
<1>6. ~SecondEnded(v)
  BY <1>1, <1>5 DEF SecondEnded
<1>7. ReadBy(v, n) + Len(u[k]) = SentBy(v)
  <2>1. PICK r, a, b, c, d : /\ r = ReadBy(proc, n) /\ a = Len(pipe[k]) /\ b = Len(u[k])
                             /\ c = SentBy(proc) /\ d = SentBy(v)
    OBVIOUS
  <2>2. r + a = c /\ d + a = c + b
    BY <1>2, <1>3, <2>1 DEF Ledger
  <2>3. a \in Nat /\ b \in Nat /\ c \in Nat /\ d \in Nat
    BY <1>2, <1>3, <2>1, LenIs
  <2>4. r \in Int
    BY <1>1, <2>1, NumbersAre DEF WithFirst, Forking, Waits
  <2>5. r + b = d
    BY <2>2, <2>3, <2>4
  <2> QED
    BY <1>4, <2>1, <2>5
<1> QED
  BY <1>6, <1>7

LEMMA SecondLedger ==
  ASSUME NEW k \in 1 .. Pipes, Pipeline(proc, k), NEW p \in Pids, p # 1, NEW v,
         \A q \in Pids : q # p => v[q] = proc[q],
         SecondOf(proc[1], p), Flow(pipe), NEW u, Flow(u), NEW n \in Int, NEW m \in Int,
         Ledger(proc, k, pipe, n), NEW words, words = proc[1].mem.words,
         words[2] = "wc" =>
           /\ Got(proc[p], n) \in Int /\ Got(v[p], m) \in Int
           /\ Got(v[p], m) + Len(u[k]) = Got(proc[p], n) + Len(pipe[k])
           /\ v[p].pc = "zombie" => FirstEnded(proc) /\ u[k] = <<>>
  PROVE  Ledger(v, k, u, m)
<1>1. v[1] = proc[1] /\ p = proc[1].mem.pids[2] /\ proc[1].pc \in WithSecond /\ ~FirstOf(proc[1], p)
      /\ (proc[1].pc \in WithFirst => v[proc[1].mem.pids[1]] = proc[proc[1].mem.pids[1]])
  BY RolesAre
<1>2. SUFFICES ASSUME words[2] = "wc"
               PROVE  /\ ReadBy(v, m) + Len(u[k]) = SentBy(v)
                      /\ SecondEnded(v) => FirstEnded(v) /\ u[k] = <<>>
  BY <1>1 DEF Ledger
<1>3. ReadBy(v, m) = Got(v[p], m) /\ ReadBy(proc, n) = Got(proc[p], n)
  BY <1>1 DEF ReadBy, WithSecond
<1>4. SentBy(v) = SentBy(proc) /\ (FirstEnded(v) <=> FirstEnded(proc))
  BY <1>1 DEF SentBy, FirstEnded, WithFirst, WithSecond
<1>5. ReadBy(v, m) + Len(u[k]) = SentBy(v)
  BY <1>2, <1>3, <1>4 DEF Ledger
<1>6. SecondEnded(v) => v[p].pc = "zombie"
  BY <1>1 DEF SecondEnded
<1> QED
  BY <1>2, <1>4, <1>5, <1>6

\* As long as the first command of "... | wc" runs, the pipe has a reader; and as long as
\* the pipe has a writer, it runs.
LEMMA PipelineRead ==
  ASSUME NEW k, Pipeline(proc, k), NEW n, Ledger(proc, k, pipe, n), proc[1].mem.words[2] = "wc",
         NEW p \in Pids, FirstOf(proc[1], p), proc[p].pc # "zombie"
  PROVE  HeldIn(proc, R(k))
<1>1. p = proc[1].mem.pids[1] /\ proc[1].pc \in WithFirst
  BY DEF FirstOf, WithFirst
<1>2. CASE proc[1].pc \in Forking
  <2>1. R(k) \in EndsOf(proc[1].fd)
    BY <1>2, EndsAre DEF Pipeline
  <2> QED
    BY <2>1, HeldIs, FsPids
<1>3. CASE proc[1].pc = "dup.wait1"
  <2>1. PICK q \in Pids : q = proc[1].mem.pids[2]
    BY <1>3 DEF Pipeline, WithSecond
  <2>2. SecondRole(proc[q], proc[1].mem.words, k)
    BY <1>3, <2>1 DEF Pipeline, SecondOf
  <2>3. proc[q].pc # "zombie"
    BY <1>1, <1>3, <2>1 DEF Ledger, SecondEnded, FirstEnded, WithSecond
  <2>4. proc[q].fd = Piped(k, k) \/ proc[q].fd = Reader(k)
    BY <2>2, <2>3 DEF SecondRole
  <2>5. R(k) \in EndsOf(proc[q].fd)
    BY <2>4, EndsAre
  <2> QED
    BY <2>5, HeldIs
<1> QED
  BY <1>1, <1>2, <1>3 DEF WithFirst, Forking

LEMMA PipelineWritten ==
  ASSUME NEW k, Pipeline(proc, k), ~HeldIn(proc, W(k)), proc[1].pc \in Forking \cup Waits
  PROVE  FirstEnded(proc)
<1>1. CASE proc[1].pc \in Forking
  <2>1. W(k) \in EndsOf(proc[1].fd)
    BY <1>1, EndsAre DEF Pipeline
  <2> QED
    BY <2>1, HeldIs, FsPids
<1>2. CASE proc[1].pc = "dup.wait1"
  <2>1. PICK q \in Pids : q = proc[1].mem.pids[1]
    BY <1>2 DEF Pipeline, WithFirst
  <2>2. FirstRole(proc[q], proc[1].mem.words, k)
    BY <1>2, <2>1 DEF Pipeline, FirstOf
  <2>3. proc[q].pc = "zombie" \/ proc[q].fd = Piped(k, k) \/ proc[q].fd = Writer(k)
    BY <2>2 DEF FirstRole
  <2>4. proc[q].pc = "zombie" \/ W(k) \in EndsOf(proc[q].fd)
    BY <2>3, EndsAre
  <2>5. proc[q].pc = "zombie"
    BY <2>4, HeldIs
  <2> QED
    BY <1>2, <2>1, <2>5 DEF FirstEnded, WithFirst
<1>3. CASE proc[1].pc = "dup.wait2"
  BY <1>3 DEF FirstEnded
<1> QED
  BY <1>1, <1>2, <1>3 DEF Waits

\* A process but the shell goes on.
LEMMA DupMoves ==
  ASSUME DupData(proc, pipe, printed), NEW p \in Pids, p # 1, NEW v,
         \A q \in Pids : q # p => v[q] = proc[q], NEW u, Flow(u),
         NEW pr, DOMAIN pr = Pids, pr[1] \in {Nothing, 0, Bytes},
         \A q \in Pids : q # 1 => pr[q] = Nothing,
         proc[1].pc \notin Forking \cup Waits => Loose(v[p]),
         proc[1].pc \in Forking \cup Waits =>
           \E k \in 1 .. Pipes :
             /\ Pipeline(proc, k)
             /\ FirstOf(proc[1], p) => FirstRole(v[p], proc[1].mem.words, k)
             /\ SecondOf(proc[1], p) => SecondRole(v[p], proc[1].mem.words, k)
             /\ ~FirstOf(proc[1], p) /\ ~SecondOf(proc[1], p) => Stranger(v[p], k)
             /\ Ledger(v, k, u, pr[1])
  PROVE  DupData(v, u, pr)
<1>1. v[1] = proc[1]
  BY FsPids
<1>2. ASSUME v[1].pc \notin Forking \cup Waits, NEW q \in Pids, q # 1
      PROVE  Loose(v[q])
  <2>1. CASE q = p
    BY <1>1, <1>2, <2>1
  <2>2. CASE q # p
    <3>1. v[q] = proc[q]
      BY <2>2
    <3> QED
      BY <1>1, <1>2, <3>1 DEF DupData
  <2> QED
    BY <2>1, <2>2
<1>3. ASSUME v[1].pc \in Forking \cup Waits
      PROVE  \E k \in 1 .. Pipes : Pipeline(v, k) /\ Ledger(v, k, u, pr[1])
  BY <1>1, <1>3, PipelineMoves
<1> QED
  BY <1>2, <1>3 DEF DupData

\* A command ends.
LEMMA DupEndIs ==
  ASSUME DupInv(proc, failed), NEW p \in Pids, p # 1, proc[p].pc \notin {"free", "zombie"},
         NEW status, NEW v, v = Exit(proc, p, status)
  PROVE  /\ \A q \in Pids : q # p => v[q] = proc[q]
         /\ v[p].pc \in {"free", "zombie"} /\ v[p].fd = <<>>
         /\ proc[1].pc # "zombie" => v[p].pc = "zombie"
<1>1. \A q \in Pids : proc[q].parent # p
  <2>1. proc[1].parent = 0 /\ p \in Nat /\ p # 0
    BY UnixAssumption DEF DupInv, DupRootOk, Pids
  <2> QED
    BY <2>1 DEF DupInv, Child
<1>2. Left(proc, v, p)
  BY <1>1, LeftIs DEF DupInv
<1> QED
  BY <1>2 DEF Left, DupInv

LEMMA EndedRoles ==
  ASSUME NEW x, x.pc \in {"free", "zombie"}, x.fd = <<>>, NEW words, NEW k
  PROVE  /\ Loose(x) /\ Stranger(x, k)
         /\ x.pc = "zombie" => FirstRole(x, words, k) /\ SecondRole(x, words, k)
  BY EndsAre DEF Loose, Stranger, FirstRole, SecondRole, Readers

\* true
LEMMA DupTrueData ==
  ASSUME DupInv(proc, failed), DupData(proc, pipe, printed), NEW p \in Pids, EndAtOnce(p)
  PROVE  DupData(proc', pipe', printed')
<1>1. /\ p # 1 /\ proc[p].pc = "true" /\ pipe' = pipe /\ printed' = printed
      /\ Flow(pipe) /\ DOMAIN printed = Pids /\ printed[1] \in {Nothing, 0, Bytes}
      /\ \A q \in Pids : q # 1 => printed[q] = Nothing
  BY DEF EndAtOnce, AtLabel, DupInv, DupRootOk, Forking, Waits, DupData
<1>2. PICK v : v = Exited(proc, p, 0)
  OBVIOUS
<1>3. /\ \A q \in Pids : q # p => v[q] = proc[q]
      /\ v[p].pc \in {"free", "zombie"} /\ v[p].fd = <<>>
      /\ proc[1].pc # "zombie" => v[p].pc = "zombie"
  BY <1>1, <1>2, DupEndIs DEF Exited
<1>4. ASSUME proc[1].pc \in Forking \cup Waits
      PROVE  \E k \in 1 .. Pipes :
               /\ Pipeline(proc, k)
               /\ FirstOf(proc[1], p) => FirstRole(v[p], proc[1].mem.words, k)
               /\ SecondOf(proc[1], p) => SecondRole(v[p], proc[1].mem.words, k)
               /\ ~FirstOf(proc[1], p) /\ ~SecondOf(proc[1], p) => Stranger(v[p], k)
               /\ Ledger(v, k, pipe, printed[1])
  <2>1. PICK k \in 1 .. Pipes : Pipeline(proc, k) /\ Ledger(proc, k, pipe, printed[1])
    BY <1>4 DEF DupData
  <2>2. v[p].pc = "zombie"
    BY <1>3, <1>4 DEF Forking, Waits
  <2>3. Ledger(v, k, pipe, printed[1])
    <3>1. CASE ~FirstOf(proc[1], p) /\ ~SecondOf(proc[1], p)
      BY <1>1, <1>3, <1>4, <2>1, <3>1, StrangerLedger
    <3>2. CASE FirstOf(proc[1], p)
      <4>1. PICK words : words = proc[1].mem.words
        OBVIOUS
      <4>2. words[1] = "true"
        BY <1>1, <2>1, <3>2, <4>1 DEF Pipeline, FirstRole
      <4>3. Wrote(proc[p], words) = 0 /\ Wrote(v[p], words) = 0
        BY <1>1, <2>2, <4>2 DEF Wrote, Total
      <4>4. 0 + Len(pipe[k]) = 0 + Len(pipe[k]) /\ 0 \in Nat
        OBVIOUS
      <4>5. printed[1] \in Int
        BY <1>1, BytesAssumption DEF Nothing
      <4> QED
        BY <1>1, <1>3, <2>1, <3>2, <4>1, <4>3, <4>4, <4>5, FirstLedger
    <3>3. CASE SecondOf(proc[1], p)
      <4>1. proc[1].mem.words[2] = "true" /\ v[1] = proc[1]
        BY <1>1, <1>3, <2>1, <3>3, FsPids DEF Pipeline, SecondRole
      <4> QED
        BY <4>1 DEF Ledger
    <3> QED
      BY <3>1, <3>2, <3>3
  <2> QED
    BY <1>3, <2>1, <2>2, <2>3, EndedRoles
<1>5. proc[1].pc \notin Forking \cup Waits => Loose(v[p])
  BY <1>3, EndedRoles
<1>6. DupData(v, pipe, printed)
  BY <1>1, <1>3, <1>4, <1>5, DupMoves
<1> QED
  BY <1>1, <1>2, <1>6 DEF EndAtOnce

\* echo or yes of a line before.
LEMMA StrangerOutput ==
  ASSUME NEW k, Pipeline(proc, k), proc[1].pc \in Forking \cup Waits,
         NEW p \in Pids, p # 1, ~FirstOf(proc[1], p), ~SecondOf(proc[1], p),
         NEW j, proc[p].fd = Writer(j)
  PROVE  j # k
<1>1. W(k) \notin EndsOf(Writer(j))
  BY DEF Pipeline, Stranger
<1> QED
  BY <1>1, EndsAre

\* echo and yes
LEMMA DupOutputData ==
  ASSUME DupInv(proc, failed), DupData(proc, pipe, printed), NEW p \in Pids, Output(p)
  PROVE  DupData(proc', pipe', printed')
<1>1. /\ p # 1 /\ proc[p].pc \in {"echo", "yes"} /\ Table(proc)
      /\ Flow(pipe) /\ DOMAIN printed = Pids /\ printed[1] \in {Nothing, 0, Bytes}
      /\ \A q \in Pids : q # 1 => printed[q] = Nothing
  <2>1. proc[p].pc \in {"echo", "yes", "ls.perror"}
    BY DEF Output
  <2>2. Table(proc) /\ proc[1].pc \notin {"echo", "yes", "ls.perror"}
    BY DEF DupInv, DupRootOk, Forking, Waits
  <2>3. proc[p].pc # "ls.perror"
    BY <2>2 DEF DupInv, Child, CommandLabels
  <2> QED
    BY <2>1, <2>2, <2>3 DEF DupData
<1>2. PICK j \in 1 .. Pipes : proc[p].fd = Writer(j)
  BY <1>1 DEF DupInv, Child
<1>3. proc[p].pc = "echo" => Counts(proc[p].mem)
  <2>1. CASE proc[1].pc \notin Forking \cup Waits
    BY <1>1, <2>1 DEF DupData, Loose
  <2>2. CASE proc[1].pc \in Forking \cup Waits
    <3>1. PICK k : Pipeline(proc, k)
      BY <2>2 DEF DupData
    <3>2. ~SecondOf(proc[1], p)
      BY <1>1, <3>1 DEF Pipeline, SecondRole
    <3> QED
      BY <1>1, <3>1, <3>2 DEF Pipeline, FirstRole, Stranger, Loose
  <2> QED
    BY <2>1, <2>2
<1>4. printed[1] \in Int
  BY <1>1, BytesAssumption DEF Nothing
<1>5. ASSUME proc[1].pc \in Forking \cup Waits
      PROVE  \E k \in 1 .. Pipes :
        /\ Pipeline(proc, k) /\ Ledger(proc, k, pipe, printed[1]) /\ ~SecondOf(proc[1], p)
        /\ FirstOf(proc[1], p) => j = k /\ proc[1].mem.words[1] = proc[p].pc
        /\ ~FirstOf(proc[1], p) => j # k
  <2>1. PICK k \in 1 .. Pipes : Pipeline(proc, k) /\ Ledger(proc, k, pipe, printed[1])
    BY <1>5 DEF DupData
  <2>2. ~SecondOf(proc[1], p)
    BY <1>1, <2>1 DEF Pipeline, SecondRole
  <2>3. ASSUME FirstOf(proc[1], p)
        PROVE  j = k /\ proc[1].mem.words[1] = proc[p].pc
    <3>1. FirstRole(proc[p], proc[1].mem.words, k)
      BY <2>1, <2>3 DEF Pipeline
    <3>2. Writer(j)[Out] = Writer(k)[Out]
      BY <1>1, <1>2, <3>1 DEF FirstRole
    <3>3. W(j) = W(k)
      BY <3>2, Opened
    <3> QED
      BY <1>1, <3>1, <3>3, Names DEF FirstRole
  <2> QED
    BY <1>1, <1>2, <1>5, <2>1, <2>2, <2>3, StrangerOutput
<1>6. proc[1].pc \in Forking \cup Waits => proc[1].mem.words \in Pipelines
  BY DEF DupInv, DupRootOk, Memory
<1>7. ASSUME NEW status, proc' = Exit(proc, p, status), pipe' = pipe, printed' = printed,
             (proc[p].pc = "echo" /\ proc[p].mem.left = 0) \/ ~HeldIn(proc, R(j))
      PROVE  DupData(proc', pipe', printed')
  <2>1. PICK v : v = Exit(proc, p, status)
    OBVIOUS
  <2>2. /\ \A q \in Pids : q # p => v[q] = proc[q]
        /\ v[p].pc \in {"free", "zombie"} /\ v[p].fd = <<>>
        /\ proc[1].pc # "zombie" => v[p].pc = "zombie"
    BY <1>1, <2>1, DupEndIs
  <2>3. ASSUME proc[1].pc \in Forking \cup Waits
        PROVE  \E k \in 1 .. Pipes :
                 /\ Pipeline(proc, k)
                 /\ FirstOf(proc[1], p) => FirstRole(v[p], proc[1].mem.words, k)
                 /\ SecondOf(proc[1], p) => SecondRole(v[p], proc[1].mem.words, k)
                 /\ ~FirstOf(proc[1], p) /\ ~SecondOf(proc[1], p) => Stranger(v[p], k)
                 /\ Ledger(v, k, pipe, printed[1])
    <3>1. PICK k \in 1 .. Pipes :
        /\ Pipeline(proc, k) /\ Ledger(proc, k, pipe, printed[1]) /\ ~SecondOf(proc[1], p)
        /\ FirstOf(proc[1], p) => j = k /\ proc[1].mem.words[1] = proc[p].pc
        /\ ~FirstOf(proc[1], p) => j # k
      BY <1>5, <2>3
    <3>2. v[p].pc = "zombie"
      BY <2>2, <2>3 DEF Forking, Waits
    <3>3. Ledger(v, k, pipe, printed[1])
      <4>1. CASE ~FirstOf(proc[1], p)
        BY <1>1, <2>2, <2>3, <3>1, <4>1, StrangerLedger
      <4>2. CASE FirstOf(proc[1], p)
        <5>1. PICK words : words = proc[1].mem.words
          OBVIOUS
        <5>2. ASSUME words[2] = "wc"
              PROVE  /\ Wrote(proc[p], words) \in Nat /\ Wrote(v[p], words) \in Nat
                     /\ Wrote(v[p], words) + Len(pipe[k]) = Wrote(proc[p], words) + Len(pipe[k])
          <6>1. proc[p].pc = "echo"
            BY <1>1, <1>6, <2>3, <3>1, <4>2, <5>1, <5>2, PipelineIs
          <6>2. HeldIn(proc, R(k))
            BY <1>1, <3>1, <4>2, <5>1, <5>2, PipelineRead
          <6>3. proc[p].mem.left = 0 /\ words[1] = "echo"
            BY <1>7, <3>1, <4>2, <5>1, <6>1, <6>2
          <6>4. Wrote(proc[p], words) = Bytes /\ Wrote(v[p], words) = Bytes
            BY <3>2, <6>1, <6>3, BytesAssumption DEF Wrote, Total
          <6> QED
            BY <6>4, BytesAssumption
        <5>3. proc[p].pc # "zombie" /\ Flow(pipe) /\ p # 1
          BY <1>1
        <5>4. /\ k \in 1 .. Pipes /\ Pipeline(proc, k) /\ FirstOf(proc[1], p)
              /\ Ledger(proc, k, pipe, printed[1]) /\ printed[1] \in Int
          BY <1>4, <3>1, <4>2
        <5>5. \A q \in Pids : q # p => v[q] = proc[q]
          BY <2>2
        <5>6. PICK n, u : n = printed[1] /\ u = pipe
          OBVIOUS
        <5>7. /\ n \in Int /\ Ledger(proc, k, pipe, n) /\ Flow(u)
              /\ words[2] = "wc" =>
                   /\ Wrote(proc[p], words) \in Nat /\ Wrote(v[p], words) \in Nat
                   /\ Wrote(v[p], words) + Len(pipe[k]) = Wrote(proc[p], words) + Len(u[k])
          BY <5>2, <5>3, <5>4, <5>6
        <5>8. Ledger(v, k, u, n)
          BY <5>1, <5>3, <5>4, <5>5, <5>7, FirstLedger
        <5> QED
          BY <5>6, <5>8
      <4> QED
        BY <4>1, <4>2
    <3>4. /\ FirstRole(v[p], proc[1].mem.words, k) /\ SecondRole(v[p], proc[1].mem.words, k)
          /\ Stranger(v[p], k)
      BY <2>2, <3>2, EndedRoles
    <3> QED
      BY <3>1, <3>3, <3>4
  <2>4. proc[1].pc \notin Forking \cup Waits => Loose(v[p])
    BY <2>2, EndedRoles
  <2>5. DupData(v, pipe, printed)
    BY <1>1, <2>2, <2>3, <2>4, DupMoves
  <2> QED
    BY <1>7, <2>1, <2>5
<1>8. ASSUME NEW n \in Nat, Fuller(pipe, pipe', j, n), printed' = printed,
             \/ proc[p].pc = "yes" /\ proc' = proc
             \/ /\ proc[p].pc = "echo" /\ n <= proc[p].mem.left
                /\ proc' = Set(proc, p, Less(proc[p].mem, n))
      PROVE  DupData(proc', pipe', printed')
  <2>1. PICK v, u : v = proc' /\ u = pipe'
    OBVIOUS
  <2>2. /\ Table(v) /\ \A q \in Pids : q # p => v[q] = proc[q]
        /\ v[p].pc = proc[p].pc /\ v[p].fd = proc[p].fd
        /\ proc[p].pc = "echo" => /\ n <= proc[p].mem.left /\ Counts(v[p].mem)
                                  /\ v[p].mem.left = proc[p].mem.left - n
    <3>1. CASE proc[p].pc = "yes" /\ proc' = proc
      BY <1>1, <2>1, <3>1
    <3>2. CASE /\ proc[p].pc = "echo" /\ n <= proc[p].mem.left
               /\ proc' = Set(proc, p, Less(proc[p].mem, n))
      <4>1. PICK mem, new : mem = proc[p].mem /\ new = Less(mem, n)
        OBVIOUS
      <4>2. Counts(mem) /\ n <= mem.left
        BY <1>3, <3>2, <4>1
      <4>3. Counts(new) /\ new.left = mem.left - n
        BY <4>1, <4>2, LessIs
      <4>4. Becomes(proc, v, p, proc[p].pc, proc[p].parent, proc[p].fd, new)
        BY <1>1, <2>1, <3>2, <4>1, SetIs
      <4> QED
        BY <4>1, <4>2, <4>3, <4>4 DEF Becomes
    <3> QED
      BY <1>8, <3>1, <3>2
  <2>3. Flow(u) /\ Len(u[j]) = Len(pipe[j]) + n /\ \A i \in 1 .. Pipes : i # j => u[i] = pipe[i]
    BY <1>8, <2>1 DEF Fuller
  <2>4. Loose(v[p])
    BY <1>1, <2>2 DEF Loose, Readers
  <2>5. ASSUME proc[1].pc \in Forking \cup Waits
        PROVE  \E k \in 1 .. Pipes :
                 /\ Pipeline(proc, k)
                 /\ FirstOf(proc[1], p) => FirstRole(v[p], proc[1].mem.words, k)
                 /\ SecondOf(proc[1], p) => SecondRole(v[p], proc[1].mem.words, k)
                 /\ ~FirstOf(proc[1], p) /\ ~SecondOf(proc[1], p) => Stranger(v[p], k)
                 /\ Ledger(v, k, u, printed[1])
    <3>1. PICK k \in 1 .. Pipes :
        /\ Pipeline(proc, k) /\ Ledger(proc, k, pipe, printed[1]) /\ ~SecondOf(proc[1], p)
        /\ FirstOf(proc[1], p) => j = k /\ proc[1].mem.words[1] = proc[p].pc
        /\ ~FirstOf(proc[1], p) => j # k
      BY <1>5, <2>5
    <3>2. ~FirstOf(proc[1], p) => Stranger(v[p], k)
      BY <1>1, <2>2, <2>4, <3>1 DEF Pipeline, Stranger
    <3>3. FirstOf(proc[1], p) => FirstRole(v[p], proc[1].mem.words, k)
      BY <1>1, <1>2, <2>2, <3>1 DEF FirstRole
    <3>4. Ledger(v, k, u, printed[1])
      <4>1. CASE ~FirstOf(proc[1], p)
        <5>1. u[k] = pipe[k]
          BY <2>3, <3>1, <4>1
        <5> QED
          BY <1>1, <2>2, <2>5, <3>1, <4>1, <5>1, StrangerLedger
      <4>2. CASE FirstOf(proc[1], p)
        <5>1. PICK words : words = proc[1].mem.words
          OBVIOUS
        <5>2. ASSUME words[2] = "wc"
              PROVE  /\ Wrote(proc[p], words) \in Nat /\ Wrote(v[p], words) \in Nat
                     /\ Wrote(v[p], words) + Len(pipe[k]) = Wrote(proc[p], words) + Len(u[k])
          <6>1. proc[p].pc = "echo"
            BY <1>1, <1>6, <2>5, <3>1, <4>2, <5>1, <5>2, PipelineIs
          <6>2. PICK a, b : a = proc[p].mem.left /\ b = Len(pipe[k])
            OBVIOUS
          <6>3. a \in 0 .. Bytes /\ n <= a /\ b \in Nat /\ Len(u[k]) = b + n
            BY <1>3, <2>2, <2>3, <3>1, <4>2, <6>1, <6>2, <1>1, LenIs DEF Counts, CountsTo
          <6>4. Wrote(proc[p], words) = Bytes - a /\ Wrote(v[p], words) = Bytes - (a - n)
            BY <2>2, <6>1, <6>2 DEF Wrote
          <6>5. /\ Bytes - a \in Nat /\ Bytes - (a - n) \in Nat
                /\ (Bytes - (a - n)) + b = (Bytes - a) + (b + n)
            BY <6>3, BytesAssumption
          <6> QED
            BY <6>2, <6>3, <6>4, <6>5
        <5> QED
          BY <1>1, <1>4, <2>2, <2>3, <3>1, <4>2, <5>1, <5>2, FirstLedger
      <4> QED
        BY <4>1, <4>2
    <3> QED
      BY <3>1, <3>2, <3>3, <3>4
  <2>6. DupData(v, u, printed)
    BY <1>1, <2>2, <2>3, <2>4, <2>5, DupMoves
  <2> QED
    BY <1>8, <2>1, <2>6
<1>9. proc[p].pc # "yes" => proc[p].pc = "echo" /\ proc[p].mem.left \in Nat
  BY <1>1, <1>3, BytesAssumption DEF Counts, CountsTo
<1> QED
  BY <1>1, <1>2, <1>7, <1>8, <1>9, OutputIs DEF Exited, Killed

\* wc and head are of the line that the shell waits for.
LEMMA ReaderIs ==
  ASSUME DupInv(proc, failed), DupData(proc, pipe, printed), NEW p \in Pids, p # 1,
         proc[p].pc \in {"wc", "head"}
  PROVE  /\ proc[1].pc \in Forking \cup Waits
         /\ \E k \in 1 .. Pipes :
              /\ Pipeline(proc, k) /\ Ledger(proc, k, pipe, printed[1]) /\ SecondOf(proc[1], p)
              /\ proc[p].fd = Reader(k) /\ proc[1].mem.words[2] = proc[p].pc
<1>1. proc[1].pc \in Forking \cup Waits
  BY DEF DupData, Loose, Readers
<1>2. PICK k \in 1 .. Pipes : Pipeline(proc, k) /\ Ledger(proc, k, pipe, printed[1])
  BY <1>1 DEF DupData
<1>3. SecondOf(proc[1], p)
  <2>1. ~Stranger(proc[p], k)
    BY DEF Stranger, Loose, Readers
  <2>2. ~FirstOf(proc[1], p)
    BY <1>2 DEF Pipeline, FirstRole
  <2> QED
    BY <1>2, <2>1, <2>2 DEF Pipeline
<1>4. SecondRole(proc[p], proc[1].mem.words, k)
  BY <1>2, <1>3 DEF Pipeline
<1> QED
  BY <1>1, <1>2, <1>3, <1>4 DEF SecondRole

\* The second command goes on.
LEMMA DupSecondMoves ==
  ASSUME DupData(proc, pipe, printed), NEW p \in Pids, p # 1, NEW v,
         \A q \in Pids : q # p => v[q] = proc[q], NEW u, Flow(u),
         NEW pr, DOMAIN pr = Pids, pr[1] \in {Nothing, 0, Bytes},
         \A q \in Pids : q # 1 => pr[q] = Nothing,
         proc[1].pc \in Forking \cup Waits,
         NEW k \in 1 .. Pipes, Pipeline(proc, k), SecondOf(proc[1], p),
         SecondRole(v[p], proc[1].mem.words, k), Ledger(v, k, u, pr[1])
  PROVE  DupData(v, u, pr)
<1>1. ~FirstOf(proc[1], p)
  BY DEF Pipeline
<1> QED
  BY <1>1, DupMoves

\* wc
LEMMA DupCountData ==
  ASSUME DupInv(proc, failed), DupData(proc, pipe, printed), NEW p \in Pids, Count(p)
  PROVE  DupData(proc', pipe', printed')
<1>1. /\ p # 1 /\ proc[p].pc = "wc" /\ Table(proc)
      /\ Flow(pipe) /\ DOMAIN printed = Pids /\ printed[1] \in {Nothing, 0, Bytes}
      /\ \A q \in Pids : q # 1 => printed[q] = Nothing
  BY DEF Count, AtLabel, DupInv, DupRootOk, Forking, Waits, DupData
<1>2. PICK k \in 1 .. Pipes :
        /\ Pipeline(proc, k) /\ Ledger(proc, k, pipe, printed[1]) /\ SecondOf(proc[1], p)
        /\ proc[p].fd = Reader(k) /\ proc[1].mem.words[2] = "wc"
  BY <1>1, ReaderIs
<1>3. proc[1].pc \in Forking \cup Waits
  BY <1>1, ReaderIs
<1>4. Counts(proc[p].mem)
  BY <1>1, <1>2 DEF Pipeline, SecondRole
<1>5. printed[1] \in Int
  BY <1>1, BytesAssumption DEF Nothing
<1>6. PICK words, mem : words = proc[1].mem.words /\ mem = proc[p].mem
  OBVIOUS
<1>7. ASSUME Emptied(pipe, pipe', k), printed' = printed,
             proc' = Set(proc, p, More(proc[p].mem, Len(pipe[k])))
      PROVE  DupData(proc', pipe', printed')
  <2>1. PICK v, u, n, new : /\ v = proc' /\ u = pipe' /\ n = Len(pipe[k])
                            /\ new = More(mem, n)
    OBVIOUS
  <2>2. n \in Nat
    BY <1>1, <2>1, LenIs
  <2>3. Counts(new) /\ new.got = mem.got + n
    BY <1>4, <1>6, <2>1, <2>2, MoreIs
  <2>4. Becomes(proc, v, p, proc[p].pc, proc[p].parent, proc[p].fd, new)
    BY <1>1, <1>6, <1>7, <2>1, SetIs
  <2>5. /\ \A q \in Pids : q # p => v[q] = proc[q]
        /\ v[p].pc = "wc" /\ v[p].fd = Reader(k) /\ v[p].mem = new
    BY <1>1, <1>2, <2>4 DEF Becomes
  <2>6. Flow(u) /\ u[k] = <<>>
    BY <1>7, <2>1 DEF Emptied
  <2>7. SecondRole(v[p], words, k)
    BY <1>2, <1>6, <2>3, <2>5 DEF SecondRole
  <2>8. /\ Got(proc[p], printed[1]) = mem.got /\ Got(v[p], printed[1]) = mem.got + n
        /\ Len(u[k]) = 0 /\ mem.got \in Nat
    BY <1>1, <1>4, <1>6, <2>3, <2>5, <2>6, LenIs DEF Got, Counts, CountsTo
  <2>9. /\ Got(proc[p], printed[1]) \in Int /\ Got(v[p], printed[1]) \in Int
        /\ Got(v[p], printed[1]) + Len(u[k]) = Got(proc[p], printed[1]) + Len(pipe[k])
    BY <2>1, <2>2, <2>8
  <2>10. Ledger(v, k, u, printed[1])
    BY <1>1, <1>2, <1>5, <1>6, <2>5, <2>6, <2>9, SecondLedger
  <2>11. DupData(v, u, printed)
    BY <1>1, <1>2, <1>3, <1>6, <2>5, <2>6, <2>7, <2>10, DupSecondMoves
  <2> QED
    BY <1>7, <2>1, <2>11
<1>8. ASSUME pipe[k] = <<>>, ~HeldIn(proc, W(k)), pipe' = pipe, proc' = Exited(proc, p, 0),
             printed' = [printed EXCEPT ![1] = proc[p].mem.got]
      PROVE  DupData(proc', pipe', printed')
  <2>1. PICK v, pr, n : v = Exited(proc, p, 0) /\ pr = [printed EXCEPT ![1] = n] /\ n = mem.got
    OBVIOUS
  <2>2. FirstEnded(proc)
    BY <1>2, <1>3, <1>8, PipelineWritten
  <2>3. /\ \A q \in Pids : q # p => v[q] = proc[q]
        /\ v[p].pc \in {"free", "zombie"} /\ v[p].fd = <<>>
        /\ proc[1].pc # "zombie" => v[p].pc = "zombie"
    BY <1>1, <2>1, DupEndIs DEF Exited
  <2>4. v[p].pc = "zombie"
    BY <1>3, <2>3 DEF Forking, Waits
  <2>5. SecondRole(v[p], words, k)
    BY <2>3, <2>4, EndedRoles
  <2>6. pr[1] = n /\ DOMAIN pr = Pids /\ \A q \in Pids : q # 1 => pr[q] = Nothing
    BY <1>1, <2>1, FsPids
  <2>7. /\ Got(proc[p], printed[1]) = n /\ Got(v[p], n) = n /\ n \in Nat /\ Len(pipe[k]) = 0
    BY <1>1, <1>4, <1>6, <1>8, <2>1, <2>4, LenIs DEF Got, Counts, CountsTo
  <2>8. n \in {0, Bytes}
    <3>1. ReadBy(proc, printed[1]) = n
      BY <1>2, <2>7 DEF ReadBy, SecondOf
    <3>2. SentBy(proc) = Total(words)
      <4>1. CASE proc[1].pc = "dup.wait2"
        BY <1>6, <4>1 DEF SentBy
      <4>2. CASE proc[1].pc \in WithFirst /\ proc[proc[1].mem.pids[1]].pc = "zombie"
        BY <1>6, <4>2 DEF SentBy, WithFirst, Wrote
      <4> QED
        BY <2>2, <4>1, <4>2 DEF FirstEnded
    <3>3. n + 0 = Total(words)
      BY <1>2, <1>6, <2>7, <3>1, <3>2 DEF Ledger
    <3> QED
      BY <2>7, <3>3, BytesAssumption DEF Total
  <2>9. Ledger(v, k, pipe, n)
    BY <1>1, <1>2, <1>5, <1>6, <1>8, <2>2, <2>3, <2>7, SecondLedger
  <2>10. DupData(v, pipe, pr)
    BY <1>1, <1>2, <1>3, <1>6, <2>3, <2>5, <2>6, <2>8, <2>9, DupSecondMoves
  <2> QED
    BY <1>6, <1>8, <2>1, <2>10
<1> QED
  BY <1>1, <1>2, <1>7, <1>8, CountIs

\* head
LEMMA DupHeadData ==
  ASSUME DupInv(proc, failed), DupData(proc, pipe, printed), NEW p \in Pids, TakeOne(p)
  PROVE  DupData(proc', pipe', printed')
<1>1. /\ p # 1 /\ proc[p].pc = "head" /\ Table(proc)
      /\ Flow(pipe) /\ DOMAIN printed = Pids /\ printed[1] \in {Nothing, 0, Bytes}
      /\ \A q \in Pids : q # 1 => printed[q] = Nothing
  BY DEF TakeOne, AtLabel, DupInv, DupRootOk, Forking, Waits, DupData
<1>2. PICK k \in 1 .. Pipes :
        /\ Pipeline(proc, k) /\ Ledger(proc, k, pipe, printed[1]) /\ SecondOf(proc[1], p)
        /\ proc[p].fd = Reader(k) /\ proc[1].mem.words[2] = "head"
  BY <1>1, ReaderIs
<1>3. proc[1].pc \in Forking \cup Waits
  BY <1>1, ReaderIs
<1>4. PICK v, u : v = Exited(proc, p, 0) /\ u = pipe'
  OBVIOUS
<1>5. Emptied(pipe, u, k) /\ printed' = printed /\ proc' = v
  BY <1>1, <1>2, <1>4, TakeOneIs
<1>6. /\ \A q \in Pids : q # p => v[q] = proc[q]
      /\ v[p].pc \in {"free", "zombie"} /\ v[p].fd = <<>>
      /\ proc[1].pc # "zombie" => v[p].pc = "zombie"
  BY <1>1, <1>4, DupEndIs DEF Exited
<1>7. v[p].pc = "zombie" /\ v[1] = proc[1]
  BY <1>1, <1>3, <1>6, FsPids DEF Forking, Waits
<1>8. SecondRole(v[p], proc[1].mem.words, k)
  BY <1>6, <1>7, EndedRoles
<1>9. Ledger(v, k, u, printed[1])
  BY <1>2, <1>7 DEF Ledger
<1>10. DupData(v, u, printed)
  BY <1>1, <1>2, <1>3, <1>5, <1>6, <1>8, <1>9, DupSecondMoves DEF Emptied
<1> QED
  BY <1>4, <1>5, <1>10

LEMMA DupCommandData ==
  ASSUME DupInv(proc, failed), DupData(proc, pipe, printed), NEW p \in Pids, Command(p)
  PROVE  DupData(proc', pipe', printed')
  BY DupTrueData, DupOutputData, DupCountData, DupHeadData DEF Command

\* The child before it has become its command.
LEMMA TurnedIs ==
  ASSUME NEW p \in Pids, NEW word, NEW fd, NEW v, Turned(proc, v, p, word, fd),
         DupInv(proc, failed), p # 1, proc[p].pc # "free"
  PROVE  /\ \A q \in Pids : q # p => v[q] = proc[q]
         /\ word = "missing" =>
              /\ v[p].pc \in {"free", "zombie"} /\ v[p].fd = <<>>
              /\ proc[1].pc # "zombie" => v[p].pc = "zombie"
         /\ word # "missing" =>
              v[p].pc = word /\ v[p].fd = fd /\ Counts(v[p].mem)
              /\ v[p].mem.left = Bytes /\ v[p].mem.got = 0
<1>1. CASE word = "missing"
  BY <1>1 DEF Turned, Left, DupInv
<1>2. CASE word # "missing"
  <2>1. PICK mem : mem = [left |-> Bytes, got |-> 0]
    OBVIOUS
  <2>2. Counts(mem) /\ mem.left = Bytes /\ mem.got = 0
    BY <2>1, CountsFrom
  <2>3. Becomes(proc, v, p, word, proc[p].parent, fd, mem)
    BY <1>2, <2>1 DEF Turned
  <2> QED
    BY <1>2, <2>2, <2>3 DEF Becomes
<1> QED
  BY <1>1, <1>2

LEMMA DupExec1Data ==
  ASSUME DupInv(proc, failed), DupData(proc, pipe, printed), NEW p \in Pids, DupExec1(p)
  PROVE  DupData(proc', pipe', printed')
<1>1. /\ p # 1 /\ proc[p].pc = "dup.exec1" /\ proc[p].mem.words \in Pipelines
      /\ pipe' = pipe /\ printed' = printed
      /\ Flow(pipe) /\ DOMAIN printed = Pids /\ printed[1] \in {Nothing, 0, Bytes}
      /\ \A q \in Pids : q # 1 => printed[q] = Nothing
  BY DupExec1Is DEF DupData
<1>2. PICK j, words, v :
        /\ j \in 1 .. Pipes /\ words \in Pipelines /\ proc[p].fd = Piped(j, j) /\ words = proc[p].mem.words /\ v = proc'
        /\ Turned(proc, v, p, words[1], Writer(j))
  BY <1>1, DupExec1Is
<1>3. words[1] \in First /\ ~(words[1] = "yes" /\ words[2] = "wc")
  BY <1>2, PipelineIs
<1>4. /\ \A q \in Pids : q # p => v[q] = proc[q]
      /\ words[1] = "missing" =>
           /\ v[p].pc \in {"free", "zombie"} /\ v[p].fd = <<>>
           /\ proc[1].pc # "zombie" => v[p].pc = "zombie"
      /\ words[1] # "missing" =>
           v[p].pc = words[1] /\ v[p].fd = Writer(j) /\ Counts(v[p].mem)
           /\ v[p].mem.left = Bytes /\ v[p].mem.got = 0
  BY <1>1, <1>2, TurnedIs
<1>5. printed[1] \in Int
  BY <1>1, BytesAssumption DEF Nothing
<1>6. Loose(v[p])
  BY <1>3, <1>4 DEF Loose, Readers, First
<1>7. ASSUME proc[1].pc \in Forking \cup Waits
      PROVE  \E k \in 1 .. Pipes :
               /\ Pipeline(proc, k)
               /\ FirstOf(proc[1], p) => FirstRole(v[p], proc[1].mem.words, k)
               /\ SecondOf(proc[1], p) => SecondRole(v[p], proc[1].mem.words, k)
               /\ ~FirstOf(proc[1], p) /\ ~SecondOf(proc[1], p) => Stranger(v[p], k)
               /\ Ledger(v, k, pipe, printed[1])
  <2>1. PICK k \in 1 .. Pipes : Pipeline(proc, k) /\ Ledger(proc, k, pipe, printed[1])
    BY <1>7 DEF DupData
  <2>2. ~SecondOf(proc[1], p)
    BY <1>1, <2>1 DEF Pipeline, SecondRole
  <2>3. proc[1].pc # "zombie"
    BY <1>7 DEF Forking, Waits
  <2>4. CASE FirstOf(proc[1], p)
    <3>1. FirstRole(proc[p], proc[1].mem.words, k)
      BY <2>1, <2>4 DEF Pipeline
    <3>2. words = proc[1].mem.words /\ Piped(j, j) = Piped(k, k)
      BY <1>1, <1>2, <3>1 DEF FirstRole
    <3>3. Piped(j, j)[R(0)] = Piped(k, k)[R(0)]
      BY <3>2
    <3>4. j = k
      <4>1. R(j) = R(k)
        BY <3>3, Opened
      <4> QED
        BY <4>1, Names
    <3>5. FirstRole(v[p], words, k)
      <4>1. CASE words[1] = "missing"
        <5>1. v[p].pc = "zombie"
          BY <1>4, <2>3, <4>1
        <5> QED
          BY <1>4, <4>1, <5>1, EndedRoles
      <4>2. CASE words[1] # "missing"
        BY <1>3, <1>4, <3>4, <4>2 DEF FirstRole, First
      <4> QED
        BY <4>1, <4>2
    <3>6. Wrote(proc[p], words) = 0
      BY <1>1 DEF Wrote
    <3>7. Wrote(v[p], words) = 0
      <4>1. CASE words[1] = "missing"
        BY <1>4, <2>3, <4>1 DEF Wrote, Total
      <4>2. CASE words[1] # "missing"
        BY <1>3, <1>4, <4>2, BytesAssumption DEF Wrote, First
      <4> QED
        BY <4>1, <4>2
    <3>8. /\ Wrote(proc[p], words) \in Nat /\ Wrote(v[p], words) \in Nat
          /\ Wrote(v[p], words) + Len(pipe[k]) = Wrote(proc[p], words) + Len(pipe[k])
      BY <3>6, <3>7
    <3>9. proc[p].pc # "zombie" /\ Flow(pipe) /\ p # 1
      BY <1>1
    <3>10. Ledger(v, k, pipe, printed[1])
      BY <1>4, <1>5, <2>1, <2>4, <3>2, <3>8, <3>9, FirstLedger
    <3> QED
      BY <2>1, <2>2, <2>4, <3>2, <3>5, <3>10
  <2>5. CASE ~FirstOf(proc[1], p)
    <3>1. Stranger(proc[p], k)
      BY <1>1, <2>1, <2>2, <2>5 DEF Pipeline
    <3>2. R(k) \notin EndsOf(Piped(j, j))
      BY <1>2, <3>1 DEF Stranger
    <3>3. j # k
      BY <3>2, EndsAre
    <3>4. R(k) \notin EndsOf(v[p].fd) /\ W(k) \notin EndsOf(v[p].fd)
      BY <1>4, <3>3, EndsAre, Names
    <3>5. Ledger(v, k, pipe, printed[1])
      BY <1>1, <1>4, <1>7, <2>1, <2>2, <2>5, StrangerLedger
    <3> QED
      BY <1>6, <2>1, <2>2, <2>5, <3>4, <3>5 DEF Stranger
  <2> QED
    BY <2>4, <2>5
<1>8. DupData(v, pipe, printed)
  BY <1>1, <1>4, <1>6, <1>7, DupMoves
<1> QED
  BY <1>1, <1>2, <1>8

LEMMA DupExec2Data ==
  ASSUME DupInv(proc, failed), DupData(proc, pipe, printed), NEW p \in Pids, DupExec2(p)
  PROVE  DupData(proc', pipe', printed')
<1>1. /\ p # 1 /\ proc[p].pc = "dup.exec2" /\ proc[p].mem.words \in Pipelines
      /\ pipe' = pipe /\ printed' = printed
      /\ Flow(pipe) /\ DOMAIN printed = Pids /\ printed[1] \in {Nothing, 0, Bytes}
      /\ \A q \in Pids : q # 1 => printed[q] = Nothing
  BY DupExec2Is DEF DupData
<1>2. PICK j, words, v :
        /\ j \in 1 .. Pipes /\ words \in Pipelines /\ proc[p].fd = Piped(j, j) /\ words = proc[p].mem.words /\ v = proc'
        /\ Turned(proc, v, p, words[2], Reader(j))
  BY <1>1, DupExec2Is
<1>3. words[2] \in Second
  BY <1>2, PipelineIs
<1>4. /\ \A q \in Pids : q # p => v[q] = proc[q]
      /\ words[2] = "missing" =>
           /\ v[p].pc \in {"free", "zombie"} /\ v[p].fd = <<>>
           /\ proc[1].pc # "zombie" => v[p].pc = "zombie"
      /\ words[2] # "missing" =>
           v[p].pc = words[2] /\ v[p].fd = Reader(j) /\ Counts(v[p].mem)
           /\ v[p].mem.left = Bytes /\ v[p].mem.got = 0
  BY <1>1, <1>2, TurnedIs
<1>5. printed[1] \in Int
  BY <1>1, BytesAssumption DEF Nothing
<1>6. proc[1].pc \in Forking \cup Waits
  BY <1>1 DEF DupData, Loose, Readers
<1>7. PICK k \in 1 .. Pipes : Pipeline(proc, k) /\ Ledger(proc, k, pipe, printed[1])
  BY <1>6 DEF DupData
<1>8. SecondOf(proc[1], p)
  <2>1. ~Stranger(proc[p], k)
    BY <1>1 DEF Stranger, Loose, Readers
  <2>2. ~FirstOf(proc[1], p)
    BY <1>1, <1>7 DEF Pipeline, FirstRole
  <2> QED
    BY <1>1, <1>7, <2>1, <2>2 DEF Pipeline
<1>9. words = proc[1].mem.words /\ j = k
  <2>1. SecondRole(proc[p], proc[1].mem.words, k)
    BY <1>7, <1>8 DEF Pipeline
  <2>2. words = proc[1].mem.words /\ Piped(j, j) = Piped(k, k)
    BY <1>1, <1>2, <2>1 DEF SecondRole
  <2>3. Piped(j, j)[R(0)] = Piped(k, k)[R(0)]
    BY <2>2
  <2>4. R(j) = R(k)
    BY <2>3, Opened
  <2> QED
    BY <2>2, <2>4, Names
<1>10. proc[1].pc # "zombie"
  BY <1>6 DEF Forking, Waits
<1>11. SecondRole(v[p], words, k)
  <2>1. CASE words[2] = "missing"
    <3>1. v[p].pc = "zombie"
      BY <1>4, <1>10, <2>1
    <3> QED
      BY <1>4, <2>1, <3>1, EndedRoles
  <2>2. CASE words[2] # "missing"
    BY <1>3, <1>4, <1>9, <2>2 DEF SecondRole, Second
  <2> QED
    BY <2>1, <2>2
<1>12. ASSUME words[2] = "wc"
       PROVE  /\ Got(proc[p], printed[1]) \in Int /\ Got(v[p], printed[1]) \in Int
              /\ Got(v[p], printed[1]) + Len(pipe[k]) = Got(proc[p], printed[1]) + Len(pipe[k])
              /\ v[p].pc = "zombie" => FirstEnded(proc) /\ pipe[k] = <<>>
  <2>1. v[p].pc = "wc" /\ v[p].mem.got = 0
    BY <1>4, <1>12
  <2>2. Got(v[p], printed[1]) = 0 /\ Got(proc[p], printed[1]) = 0
    BY <1>1, <2>1 DEF Got
  <2> QED
    BY <2>1, <2>2
<1>13. Ledger(v, k, pipe, printed[1])
  BY <1>1, <1>4, <1>5, <1>7, <1>8, <1>9, <1>12, SecondLedger
<1>14. DupData(v, pipe, printed)
  BY <1>1, <1>4, <1>6, <1>7, <1>8, <1>9, <1>11, <1>13, DupSecondMoves
<1> QED
  BY <1>1, <1>2, <1>14

\* The shell goes on to a label of its pipeline.
LEMMA DupShellMoves ==
  ASSUME DupData(proc, pipe, printed), NEW v, NEW k \in 1 .. Pipes,
         v[1].pc \in Forking \cup Waits, Pipeline(v, k), Ledger(v, k, pipe, printed[1])
  PROVE  DupData(v, pipe, printed)
  BY DEF DupData

\* And back to its prompt.
LEMMA DupShellReturns ==
  ASSUME DupData(proc, pipe, printed), NEW v, v[1].pc \notin Forking \cup Waits,
         \A q \in Pids : q # 1 => v[q] = Free \/ (v[q] = proc[q] /\ Loose(proc[q]))
  PROVE  DupData(v, pipe, printed)
<1>1. Loose(Free)
  BY FreeIs DEF Loose, Readers
<1> QED
  BY <1>1 DEF DupData

LEMMA DupPromptData ==
  ASSUME DupInv(proc, failed), DupData(proc, pipe, printed), NEW p \in Pids, DupPrompt(p)
  PROVE  DupData(proc', pipe', printed')
<1>1. /\ proc[1].pc = "dup.prompt" /\ Flow(pipe) /\ DOMAIN printed = Pids
      /\ \A q \in Pids : q # 1 => printed[q] = Nothing
      /\ \A q \in Pids : q # 1 => Loose(proc[q])
  BY DupPromptIs DEF DupData, Forking, Waits
<1>2. PICK v, u, pr : v = proc' /\ u = pipe' /\ pr = [printed EXCEPT ![1] = Nothing]
  OBVIOUS
<1>3. printed' = pr
  BY <1>2, DupPromptIs
<1>4. /\ DOMAIN pr = Pids /\ pr[1] = Nothing
      /\ \A q \in Pids : q # 1 => pr[q] = Nothing
  BY <1>1, <1>2, FsPids
<1>5. CASE Ends(proc, v, 1) /\ u = pipe
  <2>1. v[1].pc = "zombie"
    BY <1>5 DEF Ends, Root, DupInv, DupRootOk
  <2>2. ASSUME NEW q \in Pids, q # 1
        PROVE  Loose(v[q])
    <3>1. v[q].pc = "free" \/ (v[q].pc = proc[q].pc /\ v[q].mem = proc[q].mem)
      BY <1>5, <2>2, FreeIs DEF Ends
    <3> QED
      BY <1>1, <2>2, <3>1 DEF Loose, Readers
  <2>3. v[1].pc \notin Forking \cup Waits
    BY <2>1 DEF Forking, Waits
  <2> QED
    BY <1>1, <1>2, <1>3, <1>4, <1>5, <2>2, <2>3 DEF DupData
<1>6. ASSUME NEW line \in Pipelines, NEW k \in 1 .. Pipes, Unused(k),
             pipe' = [pipe EXCEPT ![k] = <<>>],
             Becomes(proc, v, 1, "dup.fork1", 0, Piped(k, k), [words |-> line, pids |-> <<>>])
      PROVE  DupData(v, u, pr)
  <2>1. Emptied(pipe, u, k)
    <3>1. PICK w : w = [pipe EXCEPT ![k] = <<>>]
      OBVIOUS
    <3>2. Emptied(pipe, w, k)
      BY <1>1, <3>1, EmptiedIs
    <3> QED
      BY <1>2, <1>6, <3>1, <3>2
  <2>2. Flow(u) /\ Len(u[k]) = 0
    BY <2>1, LenIs DEF Emptied
  <2>3. /\ v[1].pc = "dup.fork1" /\ v[1].fd = Piped(k, k)
        /\ \A q \in Pids : q # 1 => v[q] = proc[q]
    BY <1>6 DEF Becomes
  <2>4. \A q \in Pids : ~FirstOf(v[1], q) /\ ~SecondOf(v[1], q)
    BY <2>3 DEF FirstOf, SecondOf
  <2>5. ASSUME NEW q \in Pids, q # 1
        PROVE  Stranger(v[q], k)
    <3>1. R(k) \notin EndsOf(proc[q].fd) /\ W(k) \notin EndsOf(proc[q].fd)
      BY <1>6, HeldIs DEF Unused
    <3> QED
      BY <1>1, <2>3, <2>5, <3>1 DEF Stranger
  <2>6. Pipeline(v, k)
    BY <2>3, <2>4, <2>5 DEF Pipeline, WithFirst, WithSecond
  <2>7. ReadBy(v, pr[1]) = 0 /\ SentBy(v) = 0 /\ ~SecondEnded(v)
    BY <2>3 DEF ReadBy, SentBy, SecondEnded, WithSecond
  <2>8. Ledger(v, k, u, pr[1])
    BY <2>2, <2>7 DEF Ledger
  <2>9. v[1].pc \in Forking \cup Waits
    BY <2>3 DEF Forking
  <2> QED
    BY <1>4, <2>2, <2>6, <2>8, <2>9 DEF DupData
<1>7. CASE v = proc /\ u = pipe
  <2>1. proc[1].pc \notin Forking \cup Waits
    BY <1>1 DEF Forking, Waits
  <2> QED
    BY <1>1, <1>2, <1>3, <1>4, <1>7, <2>1 DEF DupData
<1> QED
  BY <1>2, <1>3, <1>5, <1>6, <1>7, DupPromptIs

\* A fork that fails leaves the first command to itself.
LEMMA DupFailData ==
  ASSUME DupInv(proc, failed), DupData(proc, pipe, printed),
         proc[1].pc \in {"dup.fork1", "dup.fork2"},
         NEW v, v = Back(Close(proc, 1, {R(0), W(0)}), 1, "dup.prompt")
  PROVE  DupData(v, pipe, printed)
<1>1. Becomes(proc, v, 1, "dup.prompt", 0, Terminal, NoCommand)
  BY DupFailIs
<1>2. v[1].pc \notin Forking \cup Waits /\ \A q \in Pids : q # 1 => v[q] = proc[q]
  BY <1>1 DEF Becomes, Forking, Waits
<1>3. PICK k \in 1 .. Pipes : Pipeline(proc, k)
  BY DEF DupData, Forking
<1>4. ASSUME NEW q \in Pids, q # 1
      PROVE  Loose(proc[q])
  <2>1. ~SecondOf(proc[1], q)
    BY DEF SecondOf
  <2>2. CASE FirstOf(proc[1], q)
    BY <1>3, <2>2 DEF Pipeline, FirstRole, Loose, Readers
  <2>3. CASE ~FirstOf(proc[1], q)
    BY <1>3, <1>4, <2>1, <2>3 DEF Pipeline, Stranger
  <2> QED
    BY <2>2, <2>3
<1> QED
  BY <1>2, <1>4, DupShellReturns

LEMMA DupFork1Data ==
  ASSUME DupInv(proc, failed), DupData(proc, pipe, printed), NEW p \in Pids, DupFork1(p)
  PROVE  DupData(proc', pipe', printed')
<1>1. /\ proc[1].pc = "dup.fork1" /\ pipe' = pipe /\ printed' = printed
      /\ proc[1].pc \in Forking \cup Waits
  BY DupFork1Is DEF Forking
<1>2. ASSUME NEW c \in Pids, c # 1, proc[c].pc = "free", NEW mem,
             mem = [words |-> proc[1].mem.words, pids |-> <<c>>],
             HasForked(proc, proc', c, "dup.exec1", "dup.fork2", mem)
      PROVE  DupData(proc', pipe, printed)
  <2>1. PICK v : v = proc'
    OBVIOUS
  <2>2. /\ \A q \in Pids : q \notin {1, c} => v[q] = proc[q]
        /\ v[1].pc = "dup.fork2" /\ v[1].fd = proc[1].fd /\ v[1].mem = mem
        /\ v[c].pc = "dup.exec1" /\ v[c].fd = proc[1].fd /\ v[c].mem = proc[1].mem
    BY <1>2, <2>1 DEF HasForked
  <2>3. PICK words : words = proc[1].mem.words
    OBVIOUS
  <2>4. mem.words = words /\ mem.pids[1] = c
    <3>1. mem.words = words /\ mem.pids = <<c>>
      BY <1>2, <2>3
    <3> QED
      BY <3>1
  <2>5. PICK k \in 1 .. Pipes : Pipeline(proc, k) /\ Ledger(proc, k, pipe, printed[1])
    BY <1>1 DEF DupData
  <2>6. proc[1].fd = Piped(k, k)
    BY <1>1, <2>5 DEF Pipeline, Forking
  <2>7. FirstRole(v[c], words, k)
    BY <2>2, <2>3, <2>6 DEF FirstRole
  <2>8. ASSUME NEW q \in Pids
        PROVE  /\ FirstOf(v[1], q) => q # 1 /\ FirstRole(v[q], v[1].mem.words, k)
               /\ SecondOf(v[1], q) => q # 1 /\ ~FirstOf(v[1], q) /\ SecondRole(v[q], v[1].mem.words, k)
               /\ q # 1 /\ ~FirstOf(v[1], q) /\ ~SecondOf(v[1], q) => Stranger(v[q], k)
    <3>1. (FirstOf(v[1], q) <=> q = c) /\ ~SecondOf(v[1], q)
      BY <2>2, <2>4 DEF FirstOf, SecondOf
    <3>2. ASSUME q # 1, q # c
          PROVE  Stranger(v[q], k)
      <4>1. ~FirstOf(proc[1], q) /\ ~SecondOf(proc[1], q) /\ v[q] = proc[q]
        BY <1>1, <2>2, <3>2 DEF FirstOf, SecondOf
      <4> QED
        BY <2>5, <3>2, <4>1 DEF Pipeline
    <3> QED
      BY <1>2, <2>2, <2>4, <2>7, <3>1, <3>2
  <2>9. Pipeline(v, k)
    BY <2>2, <2>4, <2>6, <2>8 DEF Pipeline, WithSecond
  <2>10. ReadBy(v, printed[1]) = 0 /\ ReadBy(proc, printed[1]) = 0 /\ ~SecondEnded(v) /\ SentBy(proc) = 0
    BY <1>1, <2>2 DEF ReadBy, SecondEnded, WithSecond, SentBy
  <2>11. SentBy(v) = 0
    BY <2>2, <2>4 DEF SentBy, Wrote
  <2>12. Ledger(v, k, pipe, printed[1])
    BY <2>2, <2>3, <2>4, <2>5, <2>10, <2>11 DEF Ledger
  <2>13. v[1].pc \in Forking \cup Waits
    BY <2>2 DEF Forking
  <2>14. DupData(v, pipe, printed)
    BY <2>9, <2>12, <2>13, DupShellMoves
  <2> QED
    BY <2>1, <2>14
<1>3. CASE proc' = Back(Close(proc, 1, {R(0), W(0)}), 1, "dup.prompt")
  BY <1>1, <1>3, DupFailData
<1> QED
  BY <1>1, <1>2, <1>3, DupFork1Is

LEMMA DupFork2Data ==
  ASSUME DupInv(proc, failed), DupData(proc, pipe, printed), NEW p \in Pids, DupFork2(p)
  PROVE  DupData(proc', pipe', printed')
<1>1. /\ proc[1].pc = "dup.fork2" /\ pipe' = pipe /\ printed' = printed
      /\ proc[1].pc \in Forking \cup Waits
  BY DupFork2Is DEF Forking
<1>2. ASSUME NEW c \in Pids, c # 1, proc[c].pc = "free", NEW mem, NEW two,
             mem = [words |-> proc[1].mem.words, pids |-> two],
             two[1] = proc[1].mem.pids[1], two[2] = c,
             HasForked(proc, proc', c, "dup.exec2", "dup.close", mem)
      PROVE  DupData(proc', pipe, printed)
  <2>1. PICK v : v = proc'
    OBVIOUS
  <2>2. /\ \A q \in Pids : q \notin {1, c} => v[q] = proc[q]
        /\ v[1].pc = "dup.close" /\ v[1].fd = proc[1].fd /\ v[1].mem = mem
        /\ v[c].pc = "dup.exec2" /\ v[c].fd = proc[1].fd /\ v[c].mem = proc[1].mem
    BY <1>2, <2>1 DEF HasForked
  <2>3. PICK words, a : words = proc[1].mem.words /\ a = proc[1].mem.pids[1]
    OBVIOUS
  <2>4. mem.words = words /\ mem.pids[1] = a /\ mem.pids[2] = c
    <3>1. mem.words = words /\ mem.pids = two
      BY <1>2, <2>3
    <3> QED
      BY <1>2, <2>3, <3>1
  <2>5. PICK k \in 1 .. Pipes : Pipeline(proc, k) /\ Ledger(proc, k, pipe, printed[1])
    BY <1>1 DEF DupData
  <2>6. proc[1].fd = Piped(k, k)
    BY <1>1, <2>5 DEF Pipeline, Forking
  <2>7. SecondRole(v[c], words, k)
    BY <2>2, <2>3, <2>6 DEF SecondRole
  <2>8. FirstOf(proc[1], a) /\ a \in Pids
    BY <1>1, <2>3, <2>5 DEF FirstOf, Pipeline, WithFirst
  <2>9. FirstRole(proc[a], words, k) /\ a # 1
    BY <2>3, <2>5, <2>8 DEF Pipeline
  <2>10. a # c
    BY <1>2, <2>9 DEF FirstRole
  <2>11. v[a] = proc[a]
    BY <2>2, <2>8, <2>9, <2>10
  <2>12. ASSUME NEW q \in Pids
         PROVE  /\ FirstOf(v[1], q) => q # 1 /\ FirstRole(v[q], v[1].mem.words, k)
                /\ SecondOf(v[1], q) => q # 1 /\ ~FirstOf(v[1], q) /\ SecondRole(v[q], v[1].mem.words, k)
                /\ q # 1 /\ ~FirstOf(v[1], q) /\ ~SecondOf(v[1], q) => Stranger(v[q], k)
    <3>1. (FirstOf(v[1], q) <=> q = a) /\ (SecondOf(v[1], q) <=> q = c)
      BY <2>2, <2>4 DEF FirstOf, SecondOf
    <3>2. ASSUME q # 1, q # a, q # c
          PROVE  Stranger(v[q], k)
      <4>1. ~FirstOf(proc[1], q) /\ ~SecondOf(proc[1], q) /\ v[q] = proc[q]
        BY <1>1, <2>2, <2>3, <3>2 DEF FirstOf, SecondOf
      <4> QED
        BY <2>5, <3>2, <4>1 DEF Pipeline
    <3> QED
      BY <1>2, <2>2, <2>4, <2>7, <2>9, <2>10, <2>11, <3>1, <3>2
  <2>13. Pipeline(v, k)
    BY <1>2, <2>2, <2>4, <2>6, <2>8, <2>12 DEF Pipeline
  <2>14. ReadBy(v, printed[1]) = 0 /\ ReadBy(proc, printed[1]) = 0 /\ ~SecondEnded(v)
    BY <1>1, <2>2, <2>4 DEF ReadBy, SecondEnded, Got
  <2>15. SentBy(v) = SentBy(proc)
    BY <1>1, <2>2, <2>3, <2>4, <2>11 DEF SentBy
  <2>16. Ledger(v, k, pipe, printed[1])
    BY <2>2, <2>3, <2>4, <2>5, <2>14, <2>15 DEF Ledger
  <2>17. v[1].pc \in Forking \cup Waits
    BY <2>2 DEF Forking
  <2>18. DupData(v, pipe, printed)
    BY <2>13, <2>16, <2>17, DupShellMoves
  <2> QED
    BY <2>1, <2>18
<1>3. CASE proc' = Back(Close(proc, 1, {R(0), W(0)}), 1, "dup.prompt")
  BY <1>1, <1>3, DupFailData
<1> QED
  BY <1>1, <1>2, <1>3, DupFork2Is

LEMMA DupCloseData ==
  ASSUME DupInv(proc, failed), DupData(proc, pipe, printed), NEW p \in Pids, DupClose(p)
  PROVE  DupData(proc', pipe', printed')
<1>1. /\ proc[1].pc = "dup.close" /\ pipe' = pipe /\ printed' = printed
      /\ proc[1].pc \in Forking \cup Waits
  BY DupCloseIs DEF Forking
<1>2. PICK v : v = proc' /\ Becomes(proc, v, 1, "dup.wait1", 0, Terminal, proc[1].mem)
  BY DupCloseIs
<1>3. /\ v[1].pc = "dup.wait1" /\ v[1].mem = proc[1].mem
      /\ \A q \in Pids : q # 1 => v[q] = proc[q]
  BY <1>2 DEF Becomes
<1>4. PICK k \in 1 .. Pipes : Pipeline(proc, k) /\ Ledger(proc, k, pipe, printed[1])
  BY <1>1 DEF DupData
<1>5. \A q \in Pids : (FirstOf(v[1], q) <=> FirstOf(proc[1], q)) /\ (SecondOf(v[1], q) <=> SecondOf(proc[1], q))
  BY <1>1, <1>3 DEF FirstOf, SecondOf
<1>6. PICK a, b : a = proc[1].mem.pids[1] /\ b = proc[1].mem.pids[2]
  OBVIOUS
<1>7. a \in Pids /\ b \in Pids /\ FirstOf(proc[1], a) /\ SecondOf(proc[1], b)
  BY <1>1, <1>4, <1>6 DEF Pipeline, WithFirst, WithSecond, FirstOf, SecondOf
<1>8. a # 1 /\ b # 1
  BY <1>4, <1>7 DEF Pipeline
<1>9. v[a] = proc[a] /\ v[b] = proc[b]
  BY <1>3, <1>7, <1>8
<1>10. ASSUME NEW q \in Pids
       PROVE  /\ FirstOf(v[1], q) => q # 1 /\ FirstRole(v[q], v[1].mem.words, k)
              /\ SecondOf(v[1], q) => q # 1 /\ ~FirstOf(v[1], q) /\ SecondRole(v[q], v[1].mem.words, k)
              /\ q # 1 /\ ~FirstOf(v[1], q) /\ ~SecondOf(v[1], q) => Stranger(v[q], k)
  <2>1. q # 1 => v[q] = proc[q]
    BY <1>3
  <2> QED
    BY <1>3, <1>4, <1>5, <2>1 DEF Pipeline
<1>11. Pipeline(v, k)
  BY <1>3, <1>6, <1>7, <1>10 DEF Pipeline, Forking
<1>12. /\ ReadBy(v, printed[1]) = ReadBy(proc, printed[1]) /\ SentBy(v) = SentBy(proc)
       /\ (SecondEnded(v) <=> SecondEnded(proc)) /\ (FirstEnded(v) <=> FirstEnded(proc))
  BY <1>1, <1>3, <1>6, <1>9 DEF ReadBy, SentBy, SecondEnded, FirstEnded, WithFirst, WithSecond
<1>13. Ledger(v, k, pipe, printed[1])
  BY <1>3, <1>4, <1>12 DEF Ledger
<1>14. v[1].pc \in Forking \cup Waits
  BY <1>3 DEF Waits
<1>15. DupData(v, pipe, printed)
  BY <1>11, <1>13, <1>14, DupShellMoves
<1> QED
  BY <1>1, <1>2, <1>15

LEMMA DupWait1Data ==
  ASSUME DupInv(proc, failed), DupData(proc, pipe, printed), NEW p \in Pids, DupWait1(p)
  PROVE  DupData(proc', pipe', printed')
<1>1. /\ proc[1].pc = "dup.wait1" /\ pipe' = pipe /\ printed' = printed
      /\ proc[1].pc \in Forking \cup Waits
  BY DupWait1Is DEF Waits
<1>2. PICK a, v : /\ a \in Pids /\ v = proc' /\ a # 1 /\ a = proc[1].mem.pids[1] /\ proc[a].pc = "zombie"
                  /\ HasWaited(proc, v, a, "dup.wait2", proc[1].mem)
  BY DupWait1Is
<1>3. /\ v[1].pc = "dup.wait2" /\ v[1].mem = proc[1].mem /\ v[a] = Free
      /\ \A q \in Pids : q \notin {1, a} => v[q] = proc[q]
  BY <1>2 DEF HasWaited
<1>4. PICK k \in 1 .. Pipes : Pipeline(proc, k) /\ Ledger(proc, k, pipe, printed[1])
  BY <1>1 DEF DupData
<1>5. PICK b, words : b = proc[1].mem.pids[2] /\ words = proc[1].mem.words
  OBVIOUS
<1>6. b \in Pids /\ FirstOf(proc[1], a) /\ SecondOf(proc[1], b)
  BY <1>1, <1>2, <1>4, <1>5 DEF Pipeline, WithSecond, FirstOf, SecondOf
<1>7. b # 1 /\ b # a
  BY <1>4, <1>6 DEF Pipeline
<1>8. v[b] = proc[b]
  BY <1>3, <1>6, <1>7
<1>9. Stranger(Free, k)
  BY FreeIs, EndsAre DEF Stranger, Loose, Readers
<1>10. ASSUME NEW q \in Pids
       PROVE  /\ FirstOf(v[1], q) => q # 1 /\ FirstRole(v[q], v[1].mem.words, k)
              /\ SecondOf(v[1], q) => q # 1 /\ ~FirstOf(v[1], q) /\ SecondRole(v[q], v[1].mem.words, k)
              /\ q # 1 /\ ~FirstOf(v[1], q) /\ ~SecondOf(v[1], q) => Stranger(v[q], k)
  <2>1. ~FirstOf(v[1], q) /\ (SecondOf(v[1], q) <=> q = b)
    BY <1>3, <1>5 DEF FirstOf, SecondOf
  <2>2. SecondRole(v[b], v[1].mem.words, k)
    BY <1>3, <1>4, <1>6, <1>8 DEF Pipeline
  <2>3. ASSUME q # 1, q # b, q # a
        PROVE  Stranger(v[q], k)
    <3>1. ~FirstOf(proc[1], q) /\ ~SecondOf(proc[1], q) /\ v[q] = proc[q]
      BY <1>2, <1>3, <1>5, <2>3 DEF FirstOf, SecondOf
    <3> QED
      BY <1>4, <2>3, <3>1 DEF Pipeline
  <2> QED
    BY <1>3, <1>7, <1>9, <2>1, <2>2, <2>3
<1>11. Pipeline(v, k)
  BY <1>3, <1>5, <1>6, <1>10 DEF Pipeline, Forking, WithFirst
<1>12. ReadBy(v, printed[1]) = ReadBy(proc, printed[1])
  BY <1>1, <1>3, <1>5, <1>8 DEF ReadBy
<1>13. SentBy(v) = Total(words) /\ SentBy(proc) = Total(words)
  BY <1>1, <1>2, <1>3, <1>5 DEF SentBy, Wrote
<1>14. (SecondEnded(v) <=> SecondEnded(proc)) /\ FirstEnded(v)
  BY <1>1, <1>3, <1>5, <1>8 DEF SecondEnded, FirstEnded, WithSecond
<1>15. Ledger(v, k, pipe, printed[1])
  BY <1>3, <1>4, <1>12, <1>13, <1>14 DEF Ledger
<1>16. v[1].pc \in Forking \cup Waits
  BY <1>3 DEF Waits
<1>17. DupData(v, pipe, printed)
  BY <1>11, <1>15, <1>16, DupShellMoves
<1> QED
  BY <1>1, <1>2, <1>17

LEMMA DupWait2Data ==
  ASSUME DupInv(proc, failed), DupData(proc, pipe, printed), NEW p \in Pids, DupWait2(p)
  PROVE  DupData(proc', pipe', printed')
<1>1. /\ proc[1].pc = "dup.wait2" /\ pipe' = pipe /\ printed' = printed
      /\ proc[1].pc \in Forking \cup Waits
  BY DupWait2Is DEF Waits
<1>2. PICK b, v : /\ b \in Pids /\ v = proc' /\ b # 1 /\ b = proc[1].mem.pids[2]
                  /\ HasWaited(proc, v, b, "dup.prompt", NoCommand)
  BY DupWait2Is
<1>3. /\ v[1].pc = "dup.prompt" /\ v[b] = Free
      /\ \A q \in Pids : q \notin {1, b} => v[q] = proc[q]
  BY <1>2 DEF HasWaited
<1>4. PICK k \in 1 .. Pipes : Pipeline(proc, k)
  BY <1>1 DEF DupData
<1>5. ASSUME NEW q \in Pids, q # 1
      PROVE  v[q] = Free \/ (v[q] = proc[q] /\ Loose(proc[q]))
  <2>1. CASE q = b
    BY <1>3, <2>1
  <2>2. CASE q # b
    <3>1. ~FirstOf(proc[1], q) /\ ~SecondOf(proc[1], q) /\ v[q] = proc[q]
      BY <1>1, <1>2, <1>3, <1>5, <2>2 DEF FirstOf, SecondOf
    <3> QED
      BY <1>4, <1>5, <3>1 DEF Pipeline, Stranger
  <2> QED
    BY <2>1, <2>2
<1>6. v[1].pc \notin Forking \cup Waits
  BY <1>3 DEF Forking, Waits
<1>7. DupData(v, pipe, printed)
  BY <1>5, <1>6, DupShellReturns
<1> QED
  BY <1>1, <1>2, <1>7

LEMMA DupStepData ==
  ASSUME DupInv(proc, failed), DupData(proc, pipe, printed), NEW p \in Pids, DupStep(p)
  PROVE  DupData(proc', pipe', printed')
  BY DupCommandData, DupExec1Data, DupExec2Data, DupPromptData, DupFork1Data, DupFork2Data,
     DupCloseData, DupWait1Data, DupWait2Data DEF DupStep, DupShell

\* When the shell has waited for "echo", wc has counted all of it.
LEMMA DupArrives ==
  ASSUME DupInv(proc, failed), DupData(proc, pipe, printed)
  PROVE  ArrivesInFull
<1>1. \A p \in Pids : printed[p] \in {Nothing, 0, Bytes}
  BY DEF DupData
<1>2. ASSUME proc[1].pc = "dup.wait2", proc[1].mem.words[2] = "wc",
             proc[proc[1].mem.pids[2]].pc = "zombie"
      PROVE  printed[1] = IF proc[1].mem.words[1] = "echo" THEN Bytes ELSE 0
  <2>1. PICK k \in 1 .. Pipes : Pipeline(proc, k) /\ Ledger(proc, k, pipe, printed[1])
    BY <1>2 DEF DupData, Waits
  <2>2. SecondEnded(proc)
    BY <1>2 DEF SecondEnded, WithSecond
  <2>3. pipe[k] = <<>> /\ ReadBy(proc, printed[1]) + Len(pipe[k]) = SentBy(proc)
    BY <1>2, <2>1, <2>2 DEF Ledger
  <2>4. Len(pipe[k]) = 0
    BY <2>3, LenIs DEF DupData
  <2>5. ReadBy(proc, printed[1]) = printed[1] /\ SentBy(proc) = Total(proc[1].mem.words)
    BY <1>2 DEF ReadBy, SentBy, Got
  <2>6. printed[1] \in Int
    BY BytesAssumption DEF DupData, Nothing
  <2> QED
    BY <2>3, <2>4, <2>5, <2>6 DEF Total
<1>3. \A p \in Pids : proc[p].pc # "lc.recv"
  BY DEF DupInv, Child, CommandLabels, DupRootOk, Forking, Waits
<1> QED
  BY <1>1, <1>2, <1>3, FsPids DEF ArrivesInFull, AtLabel, Ended

-----------------------------------------------------------------------------
\* What goes over the connections of ls_server.

Talking == {"lc.send", "lc.recv"}
Asks(x) ==
  /\ x.mem = [request |-> x.mem.request, got |-> x.mem.got]
  /\ x.mem.request \in Requests /\ x.mem.got \in Nat
  /\ x.pc # "lc.recv" => x.mem.got = 0

\* What has come back to a client, read or not.
Has(x, s) == x.mem.got + Len(s)

\* What the server's child writes: the listing, or why there is none.
Writing == {"echo", "ls.perror"}
AllOf(pc) == IF pc = "ls.perror" THEN Complaint ELSE Bytes

\* Of that n bytes have been sent.
Written(c, n, f) ==
  /\ c.pc = "ls.exec" => n = 0
  /\ c.pc \in Writing => n = AllOf(c.pc) - c.mem.left
  /\ c.pc = "ls.perror" => "exec" \in f
  /\ c.pc = "zombie" => n = Bytes \/ (n = Complaint /\ "exec" \in f)

\* The client x that the server is with, where c is the child that the server waits for: s is
\* on its way to the server, and n bytes have come back.
Exchange(root, c, x, s, n, f) ==
  /\ x.pc = "lc.send" => root.pc = "ls.read" /\ root.mem.n = 0 /\ s = <<>> /\ n = 0
  /\ x.pc = "lc.recv" =>
       /\ x.mem.request \in {"args", "bare"}
       /\ root.pc # "ls.read" => x.mem.request = "args"
       /\ root.pc \in {"ls.read", "ls.fork"} => n = 0
       /\ root.pc = "ls.read" =>
            \/ root.mem.n = 0 /\ s = Line(x.mem.request)
            \/ x.mem.request = "args" /\ root.mem.n = 1 /\ s = <<"\n">>
       /\ root.pc = "ls.wait" => Written(c, n, f)

\* A client that the server is done with.
Whole(x, n, f) ==
  /\ x.pc = "lc.recv"
  /\ \/ n = Bytes
     \/ n = Complaint /\ "exec" \in f
     \/ n = 0 /\ (x.mem.request = "args" => "fork" \in f)

\* No other client reads what the client p is sent.
Mine(t, p, d) ==
  \A r \in Pids : r \notin {1, p} /\ t[r].pc \in Talking => R(d) \notin EndsOf(t[r].fd)
Forsaken(t, d) == R(d) \notin EndsOf(t[1].fd) /\ W(d) \notin EndsOf(t[1].fd)
Told(t, q, f, p, u, d) ==
  /\ u # d /\ t[p].fd = Piped(d, u) /\ Mine(t, p, d)
  /\ \/ t[1].fd = Piped(u, d) /\ Exchange(t[1], t[t[1].mem.child], t[p], q[u], Has(t[p], q[d]), f)
     \/ Forsaken(t, d) /\ Whole(t[p], Has(t[p], q[d]), f)

LsProc(t, q, f, p) ==
  /\ t[p].pc \in LsAsking => Asks(t[p])
  /\ t[p].pc = "ls.exec" => t[p].fd = t[1].fd
  /\ t[p].pc \in Writing =>
       /\ CountsTo(t[p].mem, AllOf(t[p].pc))
       /\ \E u \in 1 .. Pipes : \E d \in 1 .. Pipes : t[1].fd = Piped(u, d) /\ t[p].fd = Writer(d)
  /\ t[p].pc \in Talking => \E u \in 1 .. Pipes : \E d \in 1 .. Pipes : Told(t, q, f, p, u, d)

Printouts(pr, f) ==
  /\ DOMAIN pr = Pids
  /\ \A p \in Pids : pr[p] \in {Nothing, 0, Bytes} \/ (pr[p] = Complaint /\ "exec" \in f)
LsData(t, q, pr, f) ==
  /\ Flow(q) /\ Printouts(pr, f) /\ (t[1].pc = "ls.wait" => t[1].mem.child \in Pids)
  /\ \A p \in Pids : p # 1 => LsProc(t, q, f, p)

LEMMA PipedSame ==
  ASSUME NEW r, NEW w, NEW s, NEW z, Piped(r, w) = Piped(s, z)
  PROVE  r = s /\ w = z
<1>1. R(r) = R(s) /\ W(w) = W(z)
  <2>1. /\ Piped(r, w)[R(0)] = R(r) /\ Piped(s, z)[R(0)] = R(s)
        /\ Piped(r, w)[W(0)] = W(w) /\ Piped(s, z)[W(0)] = W(z)
    BY Opened
  <2> QED
    BY <2>1
<1> QED
  BY <1>1, Names

LEMMA TalkStays ==
  ASSUME NEW root, NEW c, NEW e, root.pc = "ls.wait" => e = c \/ e.pc \notin LsChild, NEW x, NEW s, NEW n, NEW f, NEW g,
         f \subseteq g, Exchange(root, c, x, s, n, f)
  PROVE  Exchange(root, e, x, s, n, g)
<1>1. Written(c, n, f) => Written(c, n, g)
  BY DEF Written
<1>2. e.pc \notin LsChild => Written(e, n, g)
  BY DEF Written, Writing, LsChild
<1>3. Written(c, n, f) /\ root.pc = "ls.wait" => Written(e, n, g)
  BY <1>1, <1>2
<1> QED
  BY <1>3 DEF Exchange

LEMMA WholeStays ==
  ASSUME NEW x, NEW n, NEW f, NEW g, f \subseteq g, Whole(x, n, f)
  PROVE  Whole(x, n, g)
BY DEF Whole

LEMMA PrintoutsStay ==
  ASSUME NEW pr, NEW f, NEW g, f \subseteq g, Printouts(pr, f)
  PROVE  Printouts(pr, g)
BY DEF Printouts

\* A client that keeps its place while another process goes on.
LEMMA ToldStays ==
  ASSUME NEW t, NEW q, NEW f, NEW r, NEW u, NEW d, Told(t, q, f, r, u, d),
         NEW v, v[1] = t[1], v[r] = t[r], Mine(v, r, d), NEW o, o[d] = q[d], NEW g, f \subseteq g,
         t[1].fd = Piped(u, d) => o[u] = q[u],
         t[1].fd = Piped(u, d) /\ t[1].pc = "ls.wait" =>
           v[t[1].mem.child] = t[t[1].mem.child] \/ v[t[1].mem.child].pc \notin LsChild
  PROVE  Told(v, o, g, r, u, d)
<1>1. CASE t[1].fd = Piped(u, d) /\ Exchange(t[1], t[t[1].mem.child], t[r], q[u], Has(t[r], q[d]), f)
  <2>1. Exchange(t[1], v[t[1].mem.child], t[r], q[u], Has(t[r], q[d]), g)
    BY <1>1, TalkStays
  <2> QED
    BY <1>1, <2>1 DEF Told
<1>2. CASE Forsaken(t, d) /\ Whole(t[r], Has(t[r], q[d]), f)
  <2>1. Whole(t[r], Has(t[r], q[d]), g)
    BY <1>2, WholeStays
  <2> QED
    BY <1>2, <2>1 DEF Told, Forsaken
<1> QED
  BY <1>1, <1>2 DEF Told

\* A process other than the server goes on, and is not connected anew.
LEMMA MineStays ==
  ASSUME NEW t, NEW r, NEW d, Mine(t, r, d), NEW p, NEW v,
         \A s \in Pids : s \notin {1, p} => v[s] = t[s],
         v[p].pc \in Talking => t[p].pc \in Talking /\ v[p].fd = t[p].fd
  PROVE  Mine(v, r, d)
<1>1. ASSUME NEW s \in Pids, s \notin {1, r}, v[s].pc \in Talking
      PROVE  R(d) \notin EndsOf(v[s].fd)
  <2>1. CASE s = p
    BY <1>1, <2>1 DEF Mine
  <2>2. CASE s # p
    <3>1. v[s] = t[s]
      BY <1>1, <2>2
    <3> QED
      BY <1>1, <3>1 DEF Mine
  <2> QED
    BY <2>1, <2>2
<1> QED
  BY <1>1 DEF Mine

LEMMA LsMoves ==
  ASSUME LsData(proc, pipe, printed, failed), NEW p \in Pids, p # 1, NEW v,
         \A s \in Pids : s # p => v[s] = proc[s], NEW o, Flow(o),
         NEW g, failed \subseteq g, NEW pr, Printouts(pr, g), LsProc(v, o, g, p),
         \A r \in Pids : r \notin {1, p} /\ proc[r].pc \in Talking =>
           \A u \in 1 .. Pipes : \A d \in 1 .. Pipes :
             Told(proc, pipe, failed, r, u, d) => Told(v, o, g, r, u, d)
  PROVE  LsData(v, o, pr, g)
<1>1. ASSUME NEW r \in Pids, r \notin {1, p}
      PROVE  LsProc(v, o, g, r)
  <2>1. v[r] = proc[r] /\ v[1] = proc[1] /\ LsProc(proc, pipe, failed, r)
    BY <1>1, FsPids DEF LsData
  <2>2. v[r].pc \in Talking => \E u \in 1 .. Pipes : \E d \in 1 .. Pipes : Told(v, o, g, r, u, d)
    BY <1>1, <2>1 DEF LsProc
  <2> QED
    BY <2>1, <2>2 DEF LsProc
<1>2. v[1] = proc[1]
  BY FsPids
<1> QED
  BY <1>1, <1>2 DEF LsData

\* The server's child, and its end of the connection.
LEMMA ChildIs ==
  ASSUME LsInv(proc), NEW p \in Pids, p # 1, proc[p].pc \in LsChild
  PROVE  /\ proc[1].pc = "ls.wait" /\ p = proc[1].mem.child /\ Table(proc) /\ proc[p].parent = 1
         /\ \E u \in 1 .. Pipes : \E d \in 1 .. Pipes : u # d /\ proc[1].fd = Piped(u, d)
         /\ \A q \in Pids : proc[q].parent # p
<1>1. proc[p].parent = 1
  BY DEF LsInv, LsOther
<1>2. proc[1].pc = "ls.wait" /\ p = proc[1].mem.child /\ Table(proc)
  BY <1>1 DEF LsInv
<1>3. Connected(proc[1].fd)
  BY <1>2 DEF LsInv, LsRootOk
<1> QED
  BY <1>1, <1>2, <1>3, LsAlone DEF Connected

\* The child has gone on: it has sent what is there now.
LEMMA ChildTold ==
  ASSUME LsInv(proc), NEW p \in Pids, p # 1, proc[p].pc \in LsChild,
         NEW u \in 1 .. Pipes, NEW d \in 1 .. Pipes, proc[1].fd = Piped(u, d), u # d,
         NEW v, \A s \in Pids : s # p => v[s] = proc[s], v[p].pc \in Writing \cup {"zombie"},
         NEW o, \A j \in 1 .. Pipes : j # d => o[j] = pipe[j], NEW g, failed \subseteq g,
         NEW r \in Pids, r \notin {1, p}, proc[r].pc \in Talking,
         NEW a \in 1 .. Pipes, NEW b \in 1 .. Pipes, Told(proc, pipe, failed, r, a, b),
         b = d /\ Exchange(proc[1], proc[p], proc[r], pipe[u], Has(proc[r], pipe[d]), failed) =>
           Written(v[p], Has(proc[r], o[d]), g)
  PROVE  Told(v, o, g, r, a, b)
<1>1. /\ proc[1].pc = "ls.wait" /\ p = proc[1].mem.child /\ v[1] = proc[1] /\ v[r] = proc[r]
  BY ChildIs, FsPids
<1>2. Mine(v, r, b)
  <2>1. v[p].pc \notin Talking /\ Mine(proc, r, b)
    BY DEF Talking, Told, Writing
  <2> QED
    BY <2>1, MineStays
<1>3. CASE proc[1].fd = Piped(a, b) /\ Exchange(proc[1], proc[proc[1].mem.child], proc[r], pipe[a], Has(proc[r], pipe[b]), failed)
  <2>0. Piped(a, b) = Piped(u, d)
    BY <1>3
  <2>1. a = u /\ b = d
    BY <2>0, PipedSame
  <2>2. Exchange(proc[1], proc[p], proc[r], pipe[u], Has(proc[r], pipe[d]), failed)
    BY <1>1, <1>3, <2>1
  <2>3. Exchange(proc[1], v[p], proc[r], o[u], Has(proc[r], o[d]), g)
    BY <1>1, <2>1, <2>2 DEF Exchange
  <2> QED
    BY <1>1, <1>2, <1>3, <2>1, <2>3 DEF Told
<1>4. CASE Forsaken(proc, b) /\ Whole(proc[r], Has(proc[r], pipe[b]), failed)
  <2>1. b # d
    BY <1>4, EndsAre DEF Forsaken
  <2>2. o[b] = pipe[b]
    BY <2>1
  <2>3. Whole(proc[r], Has(proc[r], pipe[b]), g)
    BY <1>4, WholeStays
  <2> QED
    BY <1>1, <1>2, <1>4, <2>2, <2>3 DEF Told, Forsaken
<1> QED
  BY <1>3, <1>4 DEF Told

LEMMA LsCommandData ==
  ASSUME LsInv(proc), LsData(proc, pipe, printed, failed), NEW p \in Pids, Command(p)
  PROVE  LsData(proc', pipe', printed', failed')
<1>1. /\ p # 1 /\ proc[p].pc \in Writing /\ Output(p) /\ failed' = failed /\ proc[p].pc \in LsChild
      /\ proc[p].pc \notin LsAsking /\ proc[p].pc \notin Talking /\ proc[p].pc # "yes"
  <2>1. failed' = failed /\ proc[p].pc \in CommandLabels \cup {"ls.perror"}
    BY CommandMoves
  <2>2. p # 1
    BY <2>1 DEF LsInv, LsRootOk, CommandLabels
  <2>3. proc[p].pc \in LsChild \cup LsAsking \cup {"free"}
    BY <2>2 DEF LsInv, LsOther
  <2>4. proc[p].pc \in Writing
    BY <2>1, <2>3 DEF CommandLabels, LsChild, LsAsking, Writing
  <2>5. Output(p)
    BY <2>4 DEF Writing, Command, EndAtOnce, Count, TakeOne, AtLabel
  <2> QED
    BY <2>1, <2>2, <2>4, <2>5 DEF Writing, LsChild, LsAsking, Talking
<1>0. PICK all, pc : pc = proc[p].pc /\ all = AllOf(pc)
  OBVIOUS
<1>01. all \in Nat
  BY <1>0, BytesAssumption, LsAssumption DEF AllOf
<1>2. /\ proc[1].pc = "ls.wait" /\ p = proc[1].mem.child /\ Table(proc) /\ proc[p].parent = 1
      /\ \A q \in Pids : proc[q].parent # p
  BY <1>1, ChildIs
<1>3. /\ LsProc(proc, pipe, failed, p) /\ Flow(pipe) /\ Printouts(printed, failed)
  BY <1>1 DEF LsData
<1>4. PICK u \in 1 .. Pipes, d \in 1 .. Pipes : proc[1].fd = Piped(u, d) /\ proc[p].fd = Writer(d)
  BY <1>1, <1>3 DEF LsProc
<1>5. u # d
  <2>1. PICK a \in 1 .. Pipes, b \in 1 .. Pipes : a # b /\ proc[1].fd = Piped(a, b)
    BY <1>1, ChildIs
  <2>2. Piped(a, b) = Piped(u, d)
    BY <1>4, <2>1
  <2>3. a = u /\ b = d
    BY <2>2, PipedSame
  <2> QED
    BY <2>1, <2>3
<1>6. CountsTo(proc[p].mem, all) /\ proc[p].mem.left \in 0 .. all
  BY <1>0, <1>1, <1>3 DEF LsProc, CountsTo
<1>7. ASSUME NEW r \in Pids, proc[r].pc \in Talking, NEW a \in 1 .. Pipes, NEW b \in 1 .. Pipes,
             Told(proc, pipe, failed, r, a, b)
      PROVE  /\ b = d /\ Exchange(proc[1], proc[p], proc[r], pipe[u], Has(proc[r], pipe[d]), failed) =>
                  /\ Has(proc[r], pipe[d]) = all - proc[p].mem.left
                  /\ pc = "ls.perror" => "exec" \in failed
             /\ ~HeldIn(proc, R(d)) => b # d
             /\ proc[r].mem.got \in Nat
  <2>0. ASSUME Exchange(proc[1], proc[p], proc[r], pipe[u], Has(proc[r], pipe[d]), failed)
        PROVE  Written(proc[p], Has(proc[r], pipe[d]), failed)
    BY <1>2, <1>7, <2>0 DEF Exchange, Talking
  <2>1. Exchange(proc[1], proc[p], proc[r], pipe[u], Has(proc[r], pipe[d]), failed) =>
          /\ Has(proc[r], pipe[d]) = all - proc[p].mem.left
          /\ pc = "ls.perror" => "exec" \in failed
    BY <1>0, <1>1, <2>0 DEF Written
  <2>2. R(b) \in EndsOf(proc[r].fd)
    BY <1>7, EndsAre DEF Told
  <2>3. HeldIn(proc, R(b))
    BY <2>2, HeldIs
  <2>4. Asks(proc[r])
    <3>1. r # 1 /\ proc[r].pc \in LsAsking
      BY <1>7 DEF LsInv, LsRootOk, Talking, LsAsking
    <3> QED
      BY <3>1 DEF LsData, LsProc
  <2> QED
    BY <2>1, <2>3, <2>4 DEF Asks
<1>8. ASSUME NEW status, proc' = Exit(proc, p, status), pipe' = pipe, printed' = printed,
             proc[p].mem.left = 0 \/ ~HeldIn(proc, R(d))
      PROVE  LsData(proc', pipe', printed', failed')
  <2>1. PICK v : v = Exit(proc, p, status)
    OBVIOUS
  <2>2. Left(proc, v, p)
    BY <1>1, <1>2, <2>1, LeftIs
  <2>3. (\A s \in Pids : s # p => v[s] = proc[s]) /\ v[p].pc = "zombie"
    BY <1>2, <2>2 DEF Left
  <2>4. LsProc(v, pipe, failed, p)
    BY <2>3 DEF LsProc, LsAsking, Talking, Writing
  <2>5. ASSUME NEW r \in Pids, r \notin {1, p}, proc[r].pc \in Talking,
               NEW a \in 1 .. Pipes, NEW b \in 1 .. Pipes, Told(proc, pipe, failed, r, a, b)
        PROVE  Told(v, pipe, failed, r, a, b)
    <3>1. ASSUME b = d, Exchange(proc[1], proc[p], proc[r], pipe[u], Has(proc[r], pipe[d]), failed)
          PROVE  Written(v[p], Has(proc[r], pipe[d]), failed)
      <4>1. Has(proc[r], pipe[d]) = all /\ (pc = "ls.perror" => "exec" \in failed)
        BY <1>01, <1>6, <1>7, <1>8, <2>5, <3>1
      <4>2. pc = "echo" => all = Bytes
        BY <1>0 DEF AllOf
      <4>3. pc = "ls.perror" => all = Complaint
        BY <1>0 DEF AllOf
      <4>4. pc \in Writing
        BY <1>0, <1>1
      <4> QED
        BY <2>3, <4>1, <4>2, <4>3, <4>4 DEF Written, Writing
    <3>2. v[p].pc \in Writing \cup {"zombie"} /\ failed \subseteq failed
      BY <2>3
    <3>3. \A j \in 1 .. Pipes : j # d => pipe[j] = pipe[j]
      OBVIOUS
    <3> QED
      BY <1>1, <1>4, <1>5, <2>3, <2>5, <3>1, <3>2, <3>3, ChildTold
  <2>6. LsData(v, pipe, printed, failed)
    BY <1>1, <1>3, <2>3, <2>4, <2>5, LsMoves
  <2> QED
    BY <1>1, <1>8, <2>1, <2>6
<1>9. ASSUME NEW n \in Nat, Fuller(pipe, pipe', d, n), n <= proc[p].mem.left, printed' = printed,
             proc' = Set(proc, p, Less(proc[p].mem, n))
      PROVE  LsData(proc', pipe', printed', failed')
  <2>1. PICK mem, v, o : mem = Less(proc[p].mem, n) /\ v = Set(proc, p, mem) /\ o = pipe'
    OBVIOUS
  <2>2. Becomes(proc, v, p, pc, 1, Writer(d), mem)
    BY <1>0, <1>1, <1>2, <1>4, <2>1, SetIs
  <2>3. CountsTo(mem, all) /\ mem.left = proc[p].mem.left - n
    BY <1>01, <1>6, <1>9, <2>1, LessTo
  <2>4. /\ \A s \in Pids : s # p => v[s] = proc[s]
        /\ v[p].pc = pc /\ v[p].fd = Writer(d) /\ v[p].mem = mem
    BY <2>2 DEF Becomes
  <2>5. Flow(o) /\ Len(o[d]) = Len(pipe[d]) + n /\ \A j \in 1 .. Pipes : j # d => o[j] = pipe[j]
    BY <1>9, <2>1 DEF Fuller
  <2>6. LsProc(v, o, failed, p)
    <3>1. v[1] = proc[1]
      BY <1>1, <2>4, FsPids
    <3>2. v[p].pc \notin LsAsking /\ v[p].pc \notin Talking /\ v[p].pc # "ls.exec"
      BY <1>0, <1>1, <2>4 DEF Writing
    <3> QED
      BY <1>0, <1>4, <2>3, <2>4, <3>1, <3>2 DEF LsProc
  <2>7. ASSUME NEW r \in Pids, r \notin {1, p}, proc[r].pc \in Talking,
               NEW a \in 1 .. Pipes, NEW b \in 1 .. Pipes, Told(proc, pipe, failed, r, a, b)
        PROVE  Told(v, o, failed, r, a, b)
    <3>1. ASSUME b = d, Exchange(proc[1], proc[p], proc[r], pipe[u], Has(proc[r], pipe[d]), failed)
          PROVE  Written(v[p], Has(proc[r], o[d]), failed)
      <4>1. /\ Has(proc[r], pipe[d]) = all - proc[p].mem.left /\ proc[r].mem.got \in Nat
            /\ pc = "ls.perror" => "exec" \in failed
        BY <1>7, <2>7, <3>1
      <4>2. Len(pipe[d]) \in Nat
        BY <1>3, LenIs
      <4>3. PICK i, j, k, l : i = proc[r].mem.got /\ j = Len(pipe[d]) /\ k = proc[p].mem.left /\ l = Len(o[d])
        OBVIOUS
      <4>4. i \in Nat /\ j \in Nat /\ k \in Nat /\ l = j + n /\ i + j = all - k
        BY <1>01, <1>6, <2>5, <4>1, <4>2, <4>3 DEF Has
      <4>5. i + l = all - (k - n)
        BY <1>01, <1>9, <4>4
      <4>6. Has(proc[r], o[d]) = all - v[p].mem.left
        BY <2>3, <2>4, <4>3, <4>5 DEF Has
      <4>7. v[p].pc = pc /\ pc \in Writing
        BY <1>0, <1>1, <2>4
      <4> QED
        BY <1>0, <4>1, <4>6, <4>7 DEF Written, Writing
    <3>3. /\ \A s \in Pids : s # p => v[s] = proc[s]
          /\ \A i \in 1 .. Pipes : i # d => o[i] = pipe[i]
          /\ v[p].pc \in Writing \cup {"zombie"} /\ failed \subseteq failed
      BY <1>0, <1>1, <2>4, <2>5
    <3>4. b = d /\ Exchange(proc[1], proc[p], proc[r], pipe[u], Has(proc[r], pipe[d]), failed) =>
            Written(v[p], Has(proc[r], o[d]), failed)
      BY <3>1
    <3> QED
      BY <1>1, <1>4, <1>5, <2>7, <3>3, <3>4, ChildTold
  <2>8. LsData(v, o, printed, failed)
    BY <1>1, <1>3, <2>4, <2>5, <2>6, <2>7, LsMoves
  <2> QED
    BY <1>1, <1>9, <2>1, <2>8
<1>10. /\ printed' = printed
       /\ \/ /\ proc[p].mem.left = 0 /\ (\E code : proc' = Exited(proc, p, code)) /\ pipe' = pipe
          \/ ~HeldIn(proc, R(d)) /\ proc' = Killed(proc, p, 13) /\ pipe' = pipe
          \/ \E n \in Nat :
               /\ Fuller(pipe, pipe', d, n) /\ n <= proc[p].mem.left
               /\ proc' = Set(proc, p, Less(proc[p].mem, n))
  <2>1. proc[p].mem.left \in Nat
    BY <1>01, <1>6
  <2> QED
    BY <1>1, <1>2, <1>3, <1>4, <2>1, OutputIs
<1> QED
  BY <1>8, <1>9, <1>10 DEF Exited, Killed

\* The child becomes ls, or its exec fails.
LEMMA LsExecData ==
  ASSUME LsInv(proc), LsData(proc, pipe, printed, failed), NEW p \in Pids, LsExec(p)
  PROVE  LsData(proc', pipe', printed', failed')
<1>1. /\ p # 1 /\ proc[p].pc = "ls.exec" /\ Table(proc) /\ proc[p].pc \in LsChild
      /\ pipe' = pipe /\ printed' = printed
  BY DEF LsInv, LsRootOk, LsExec, AtLabel, LsChild
<1>2. /\ proc[1].pc = "ls.wait" /\ p = proc[1].mem.child /\ proc[p].parent = 1
      /\ \A q \in Pids : proc[q].parent # p
  BY <1>1, ChildIs
<1>3. /\ LsProc(proc, pipe, failed, p) /\ Flow(pipe) /\ Printouts(printed, failed)
  BY <1>1 DEF LsData
<1>4. PICK u \in 1 .. Pipes, d \in 1 .. Pipes : u # d /\ proc[1].fd = Piped(u, d)
  BY <1>1, ChildIs
<1>5. proc[p].fd = Piped(u, d)
  BY <1>1, <1>3, <1>4 DEF LsProc
<1>6. PICK t : t = Close(Dup2(proc, p, W(0), Out), p, {R(0), W(0)})
  OBVIOUS
<1>7. Becomes(proc, t, p, proc[p].pc, proc[p].parent, Writer(d), proc[p].mem)
  BY <1>1, <1>5, <1>6, ServedOut
<1>8. Table(t) /\ \A q \in Pids : t[q].parent # p
  BY <1>2, <1>7 DEF Becomes
<1>9. ASSUME NEW v, \A s \in Pids : s # p => v[s] = proc[s], NEW g, failed \subseteq g,
             LsProc(v, pipe, g, p), v[p].pc \in Writing, v[p].mem.left = AllOf(v[p].pc),
             v[p].pc = "ls.perror" => "exec" \in g
      PROVE  LsData(v, pipe, printed, g)
  <2>1. ASSUME NEW r \in Pids, r \notin {1, p}, proc[r].pc \in Talking,
               NEW a \in 1 .. Pipes, NEW b \in 1 .. Pipes, Told(proc, pipe, failed, r, a, b)
        PROVE  Told(v, pipe, g, r, a, b)
    <3>1. ASSUME Exchange(proc[1], proc[p], proc[r], pipe[u], Has(proc[r], pipe[d]), failed)
          PROVE  Has(proc[r], pipe[d]) = 0
      <4>1. Written(proc[p], Has(proc[r], pipe[d]), failed)
        BY <1>2, <2>1, <3>1 DEF Exchange, Talking
      <4> QED
        BY <1>1, <4>1 DEF Written
    <3>2. AllOf(v[p].pc) - v[p].mem.left = 0
      BY <1>9, BytesAssumption, LsAssumption DEF AllOf
    <3>3. v[p].pc \in Writing \cup {"zombie"}
      BY <1>9
    <3>4. b = d /\ Exchange(proc[1], proc[p], proc[r], pipe[u], Has(proc[r], pipe[d]), failed) =>
            Written(v[p], Has(proc[r], pipe[d]), g)
      BY <1>9, <3>1, <3>2 DEF Written, Writing
    <3>5. (\A s \in Pids : s # p => v[s] = proc[s]) /\ failed \subseteq g
      BY <1>9
    <3>6. \A j \in 1 .. Pipes : j # d => pipe[j] = pipe[j]
      OBVIOUS
    <3> QED
      BY <1>1, <1>4, <2>1, <3>3, <3>4, <3>5, <3>6, ChildTold
  <2>2. Printouts(printed, g)
    BY <1>3, <1>9, PrintoutsStay
  <2> QED
    BY <1>1, <1>3, <1>9, <2>1, <2>2, LsMoves
<1>10. ASSUME NEW pc \in Writing, NEW mem, mem = [left |-> AllOf(pc), got |-> 0],
              NEW g, failed \subseteq g, pc = "ls.perror" => "exec" \in g,
              NEW v, Becomes(t, v, p, pc, t[p].parent, t[p].fd, mem)
       PROVE  LsData(v, pipe, printed, g)
  <2>1. /\ \A s \in Pids : s # p => v[s] = proc[s]
        /\ v[p].pc = pc /\ v[p].fd = Writer(d) /\ v[p].mem = mem
    BY <1>7, <1>10 DEF Becomes
  <2>2. AllOf(pc) \in Nat
    BY BytesAssumption, LsAssumption DEF AllOf
  <2>3. CountsTo(mem, AllOf(pc)) /\ mem.left = AllOf(pc)
    BY <1>10, <2>2, CountsToFrom
  <2>4. LsProc(v, pipe, g, p)
    <3>1. v[1] = proc[1]
      BY <1>1, <2>1, FsPids
    <3>2. pc \notin LsAsking /\ pc \notin Talking /\ pc # "ls.exec"
      BY <1>10 DEF Writing, LsAsking, Talking
    <3> QED
      BY <1>4, <2>1, <2>3, <3>1, <3>2 DEF LsProc
  <2> QED
    BY <1>9, <1>10, <2>1, <2>3, <2>4
<1>11. PICK ls, error : /\ ls = [left |-> AllOf("echo"), got |-> 0]
                        /\ error = [left |-> AllOf("ls.perror"), got |-> 0]
  OBVIOUS
<1>12. \/ proc' = Exec(t, p, "echo") /\ failed' = failed
       \/ proc' = Goto(Set(t, p, error), p, "ls.perror") /\ failed' = failed \cup {"exec"}
  BY <1>6, <1>11 DEF LsExec, GoesWell, Fails, AllOf
<1>13. CASE proc' = Exec(t, p, "echo") /\ failed' = failed
  <2>1. PICK v : v = proc'
    OBVIOUS
  <2>2. Becomes(t, v, p, "echo", t[p].parent, t[p].fd, ls)
    BY <1>1, <1>8, <1>11, <1>13, <2>1, ExecIs DEF AllOf
  <2>3. "echo" \in Writing /\ failed \subseteq failed
    BY DEF Writing
  <2>4. LsData(v, pipe, printed, failed)
    BY <1>10, <1>11, <2>2, <2>3
  <2> QED
    BY <1>1, <1>13, <2>1, <2>4
<1>14. CASE proc' = Goto(Set(t, p, error), p, "ls.perror") /\ failed' = failed \cup {"exec"}
  <2>1. PICK v, g : v = proc' /\ g = failed'
    OBVIOUS
  <2>2. Becomes(t, v, p, "ls.perror", t[p].parent, t[p].fd, error)
    BY <1>8, <1>14, <2>1, SetGotoIs
  <2>3. "ls.perror" \in Writing /\ failed \subseteq g /\ "exec" \in g
    BY <1>14, <2>1 DEF Writing
  <2>4. LsData(v, pipe, printed, g)
    BY <1>10, <1>11, <2>2, <2>3
  <2> QED
    BY <1>1, <1>14, <2>1, <2>4
<1> QED
  BY <1>12, <1>13, <1>14

LEMMA LineIs ==
  ASSUME NEW request
  PROVE  Line(request) \in Seq(Letters) /\ <<>> \o Line(request) = Line(request)
<1>1. "-" \in Letters /\ "\n" \in Letters
  BY DEF Letters
<1>2. <<"-", "\n">> \in Seq(Letters) /\ <<"\n">> \in Seq(Letters)
  BY <1>1
<1>3. PICK s : s = Line(request)
  OBVIOUS
<1>4. s \in Seq(Letters)
  BY <1>2, <1>3 DEF Line
<1>5. <<>> \o s = s
  BY <1>4, ConcatEmptySeq
<1> QED
  BY <1>3, <1>4, <1>5

\* A client, its connection, and the connections of the others.
LEMMA ClientIs ==
  ASSUME LsInv(proc), LsData(proc, pipe, printed, failed), NEW p \in Pids, proc[p].pc \in Talking
  PROVE  /\ p # 1 /\ Table(proc) /\ proc[p].parent = 0 /\ Asks(proc[p])
         /\ \A q \in Pids : proc[q].parent # p
         /\ \E u \in 1 .. Pipes : \E d \in 1 .. Pipes : Told(proc, pipe, failed, p, u, d)
<1>1. p # 1 /\ proc[p].pc \in LsAsking /\ Table(proc)
  BY DEF LsInv, LsRootOk, Talking, LsAsking
<1>2. LsProc(proc, pipe, failed, p) /\ LsOther(proc[p])
  BY <1>1 DEF LsData, LsInv
<1>3. proc[p].parent = 0
  BY <1>1, <1>2 DEF LsOther, LsAsking, LsChild
<1> QED
  BY <1>1, <1>2, <1>3, LsAlone DEF LsProc

\* No two clients have one pipe.
LEMMA OthersPipes ==
  ASSUME NEW p \in Pids, NEW u, NEW d, Told(proc, pipe, failed, p, u, d),
         NEW r \in Pids, r \notin {1, p}, proc[r].pc \in Talking,
         NEW a, NEW b, Told(proc, pipe, failed, r, a, b)
  PROVE  /\ b # d
         /\ proc[1].fd = Piped(u, d) => Forsaken(proc, b) /\ b # u
         /\ proc[1].fd = Piped(a, b) => Forsaken(proc, d) /\ a # d
<1>1. R(b) \in EndsOf(proc[r].fd) /\ R(d) \notin EndsOf(proc[r].fd)
  BY EndsAre DEF Told, Mine
<1>2. b # d
  BY <1>1
<1>3. ASSUME proc[1].fd = Piped(u, d)
      PROVE  Forsaken(proc, b) /\ b # u
  <2>1. Piped(a, b) # Piped(u, d)
    BY <1>2, PipedSame
  <2>2. Forsaken(proc, b)
    BY <1>3, <2>1 DEF Told
  <2> QED
    BY <1>3, <2>2, EndsAre DEF Forsaken
<1>4. ASSUME proc[1].fd = Piped(a, b)
      PROVE  Forsaken(proc, d) /\ a # d
  <2>1. Piped(a, b) # Piped(u, d)
    BY <1>2, PipedSame
  <2>2. Forsaken(proc, d)
    BY <1>4, <2>1 DEF Told
  <2> QED
    BY <1>4, <2>2, EndsAre DEF Forsaken
<1> QED
  BY <1>2, <1>3, <1>4

\* A client has gone on: the others are where they were.
LEMMA OthersTold ==
  ASSUME NEW p \in Pids, p # 1, proc[p].pc \in Talking, NEW v,
         \A s \in Pids : s # p => v[s] = proc[s], v[p].pc \notin LsChild,
         v[p].pc \in Talking => v[p].fd = proc[p].fd,
         NEW r \in Pids, r \notin {1, p}, NEW a, NEW b, Told(proc, pipe, failed, r, a, b),
         NEW o, o[b] = pipe[b], proc[1].fd = Piped(a, b) => o[a] = pipe[a],
         proc[1].pc = "ls.wait" => proc[1].mem.child \in Pids
  PROVE  Told(v, o, failed, r, a, b)
<1>1. v[1] = proc[1] /\ v[r] = proc[r]
  BY FsPids
<1>2. Mine(proc, r, b)
  BY DEF Told
<1>3. \A s \in Pids : s \notin {1, p} => v[s] = proc[s]
  OBVIOUS
<1>4. Mine(v, r, b)
  BY <1>2, <1>3, MineStays
<1>5. PICK c : c = proc[1].mem.child
  OBVIOUS
<1>6. proc[1].pc = "ls.wait" => v[c] = proc[c] \/ v[c].pc \notin LsChild
  BY <1>5
<1>7. failed \subseteq failed
  OBVIOUS
<1> QED
  BY <1>1, <1>4, <1>5, <1>6, <1>7, ToldStays

LEMMA LcSendData ==
  ASSUME LsInv(proc), LsData(proc, pipe, printed, failed), NEW p \in Pids, LcSend(p)
  PROVE  LsData(proc', pipe', printed', failed')
<1>1. /\ proc[p].pc = "lc.send" /\ printed' = printed /\ failed' = failed
      /\ proc[p].pc \in Talking /\ 1 \in Pids
  BY FsPids DEF LcSend, AtLabel, Talking
<1>2. /\ p # 1 /\ Table(proc) /\ proc[p].parent = 0 /\ Asks(proc[p])
      /\ \A q \in Pids : proc[q].parent # p
  BY <1>1, ClientIs
<1>3. PICK u \in 1 .. Pipes, d \in 1 .. Pipes : Told(proc, pipe, failed, p, u, d)
  BY <1>1, ClientIs
<1>4. /\ proc[1].fd = Piped(u, d) /\ u # d /\ proc[p].fd = Piped(d, u)
      /\ Exchange(proc[1], proc[proc[1].mem.child], proc[p], pipe[u], Has(proc[p], pipe[d]), failed)
  BY <1>1, <1>3 DEF Told, Whole
<1>5. proc[1].pc = "ls.read" /\ proc[1].mem.n = 0 /\ pipe[u] = <<>> /\ Has(proc[p], pipe[d]) = 0
  BY <1>1, <1>4 DEF Exchange
<1>6. Flow(pipe) /\ Printouts(printed, failed)
  BY DEF LsData
<1>7. PICK s : s = Line(proc[p].mem.request)
  OBVIOUS
<1>8. PipeOf(p, W(0)) = u
  BY <1>4, Opened, Names DEF PipeOf
<1>9. CASE proc[p].mem.request = "toolong"
  <2>1. PICK v : v = Exited(proc, p, 1)
    OBVIOUS
  <2>2. Left(proc, v, p)
    BY <1>2, <2>1, LeftIs DEF Exited
  <2>3. (\A r \in Pids : r # p => v[r] = proc[r]) /\ v[p].pc = "free"
    BY <1>2, <2>2 DEF Left
  <2>4. LsProc(v, pipe, failed, p)
    BY <2>3 DEF LsProc, LsAsking, Talking, Writing
  <2>5. ASSUME NEW r \in Pids, r \notin {1, p}, NEW a, NEW b, Told(proc, pipe, failed, r, a, b)
        PROVE  Told(v, pipe, failed, r, a, b)
    <3>1. v[p].pc \notin LsChild /\ v[p].pc \notin Talking
      BY <2>3 DEF LsChild, Talking
    <3> QED
      BY <1>1, <1>2, <1>5, <2>3, <2>5, <3>1, OthersTold
  <2>6. failed \subseteq failed
    OBVIOUS
  <2>7. LsData(v, pipe, printed, failed)
    BY <1>2, <1>6, <2>3, <2>4, <2>5, <2>6, LsMoves
  <2>8. proc' = v /\ pipe' = pipe
    BY <1>9, <2>1 DEF LcSend
  <2> QED
    BY <1>1, <2>7, <2>8
<1>10. CASE proc[p].mem.request # "toolong"
  <2>1. PICK v, o : v = Goto(proc, p, "lc.recv") /\ o = Poured(pipe, u, s)
    OBVIOUS
  <2>2. proc' = v /\ pipe' = o
    BY <1>7, <1>8, <1>10, <2>1 DEF LcSend, Poured
  <2>3. Becomes(proc, v, p, "lc.recv", 0, Piped(d, u), proc[p].mem)
    BY <1>2, <1>4, <2>1, GotoIs
  <2>4. /\ \A r \in Pids : r # p => v[r] = proc[r]
        /\ v[p].pc = "lc.recv" /\ v[p].fd = Piped(d, u) /\ v[p].mem = proc[p].mem
    BY <2>3 DEF Becomes
  <2>5. s \in Seq(Letters) /\ <<>> \o s = s
    BY <1>7, LineIs
  <2>6. Fuller(pipe, o, u, Len(s))
    BY <1>6, <2>1, <2>5, FullerIs
  <2>7. Flow(o) /\ \A j \in 1 .. Pipes : j # u => o[j] = pipe[j]
    BY <2>6 DEF Fuller
  <2>8. o[u] = s
    <3>1. o[u] = pipe[u] \o s
      BY <1>6, <2>1 DEF Poured, Flow
    <3> QED
      BY <1>5, <2>5, <3>1
  <2>9. v[1] = proc[1]
    BY <1>1, <1>2, <2>4
  <2>10. ASSUME NEW r \in Pids, r \notin {1, p}, proc[r].pc \in Talking,
                NEW a \in 1 .. Pipes, NEW b \in 1 .. Pipes, Told(proc, pipe, failed, r, a, b)
         PROVE  Told(v, o, failed, r, a, b)
    <3>1. b # u /\ proc[1].fd # Piped(a, b)
      <4>1. b # u /\ b # d
        BY <1>3, <1>4, <2>10, OthersPipes
      <4>2. Piped(a, b) # Piped(u, d)
        BY <4>1, PipedSame
      <4> QED
        BY <1>4, <4>1, <4>2
    <3>2. o[b] = pipe[b]
      BY <2>7, <3>1
    <3>3. v[p].pc \notin LsChild /\ v[p].fd = proc[p].fd
      BY <1>4, <2>4 DEF LsChild
    <3> QED
      BY <1>1, <1>2, <1>5, <2>4, <2>10, <3>1, <3>2, <3>3, OthersTold
  <2>11. Told(v, o, failed, p, u, d)
    <3>1. Mine(v, p, d)
      <4>1. Mine(proc, p, d) /\ \A r \in Pids : r \notin {1, p} => v[r] = proc[r]
        BY <1>3, <2>4 DEF Told
      <4>2. v[p].pc \in Talking => proc[p].pc \in Talking /\ v[p].fd = proc[p].fd
        BY <1>1, <1>4, <2>4
      <4> QED
        BY <4>1, <4>2, MineStays
    <3>2. Has(v[p], o[d]) = 0
      BY <1>4, <1>5, <2>4, <2>7 DEF Has
    <3>3. v[p].mem.request \in {"args", "bare"}
      BY <1>2, <1>10, <2>4 DEF Asks, Requests
    <3>4. Exchange(v[1], v[v[1].mem.child], v[p], o[u], Has(v[p], o[d]), failed)
      BY <1>5, <1>7, <2>4, <2>8, <2>9, <3>2, <3>3 DEF Exchange
    <3> QED
      BY <1>4, <2>4, <2>9, <3>1, <3>4 DEF Told
  <2>12. LsProc(v, o, failed, p)
    BY <1>2, <2>4, <2>11 DEF LsProc, LsAsking, Asks, Talking, Writing
  <2>13. failed \subseteq failed
    OBVIOUS
  <2>14. LsData(v, o, printed, failed)
    BY <1>2, <1>6, <2>4, <2>7, <2>10, <2>12, <2>13, LsMoves
  <2> QED
    BY <1>1, <2>2, <2>14
<1> QED
  BY <1>9, <1>10

LEMMA MoreHas ==
  ASSUME NEW x, Asks(x), NEW s \in Seq(Letters), NEW y, y.mem = More(x.mem, Len(s)),
         y.pc = "lc.recv"
  PROVE  Asks(y) /\ y.mem.request = x.mem.request /\ Has(y, <<>>) = Has(x, s)
<1>1. PICK a, b, m : x.mem = [request |-> a, got |-> b] /\ a \in Requests /\ b \in Nat /\ m = Len(s)
  BY DEF Asks
<1>2. m \in Nat
  BY <1>1, LenProperties
<1>3. More(x.mem, m) = [request |-> a, got |-> b + m]
  BY <1>1 DEF More
<1>4. y.mem = [request |-> a, got |-> b + m]
  BY <1>1, <1>3
<1>5. y.mem.request = a /\ y.mem.got = b + m /\ b + m \in Nat /\ x.mem.got = b /\ x.mem.request = a
  BY <1>1, <1>2, <1>4
<1>6. Len(<<>>) = 0
  BY EmptySeq
<1>7. b + m + 0 = b + m
  BY <1>1, <1>2
<1> QED
  BY <1>1, <1>4, <1>5, <1>6, <1>7 DEF Asks, Has

LEMMA LcRecvData ==
  ASSUME LsInv(proc), LsData(proc, pipe, printed, failed), NEW p \in Pids, LcRecv(p)
  PROVE  LsData(proc', pipe', printed', failed')
<1>1. /\ proc[p].pc = "lc.recv" /\ failed' = failed /\ proc[p].pc \in Talking /\ 1 \in Pids
  BY FsPids DEF LcRecv, AtLabel, Talking
<1>2. /\ p # 1 /\ Table(proc) /\ proc[p].parent = 0 /\ Asks(proc[p])
      /\ \A q \in Pids : proc[q].parent # p
  BY <1>1, ClientIs
<1>3. PICK u \in 1 .. Pipes, d \in 1 .. Pipes : Told(proc, pipe, failed, p, u, d)
  BY <1>1, ClientIs
<1>4. u # d /\ proc[p].fd = Piped(d, u) /\ Mine(proc, p, d)
  BY <1>3 DEF Told
<1>5. Flow(pipe) /\ Printouts(printed, failed) /\ (proc[1].pc = "ls.wait" => proc[1].mem.child \in Pids)
  BY DEF LsData
<1>6. PipeOf(p, R(0)) = d
  BY <1>4, Opened, Names DEF PipeOf
<1>7. pipe[d] \in Seq(Letters) /\ failed \subseteq failed
  BY <1>5 DEF Flow
<1>8. CASE pipe[d] # <<>>
  <2>1. PICK v, o, mem : mem = More(proc[p].mem, Len(pipe[d])) /\ v = Set(proc, p, mem)
                         /\ o = [pipe EXCEPT ![d] = <<>>]
    OBVIOUS
  <2>2. proc' = v /\ pipe' = o /\ printed' = printed
    BY <1>6, <1>8, <2>1 DEF LcRecv, AtEnd, More
  <2>3. Becomes(proc, v, p, "lc.recv", 0, Piped(d, u), mem)
    BY <1>1, <1>2, <1>4, <2>1, SetIs
  <2>4. /\ \A r \in Pids : r # p => v[r] = proc[r]
        /\ v[p].pc = "lc.recv" /\ v[p].fd = Piped(d, u) /\ v[p].mem = mem
    BY <2>3 DEF Becomes
  <2>5. Flow(o) /\ o[d] = <<>> /\ \A j \in 1 .. Pipes : j # d => o[j] = pipe[j]
    <3>1. Emptied(pipe, o, d)
      BY <1>5, <2>1, EmptiedIs
    <3> QED
      BY <3>1 DEF Emptied
  <2>6. v[1] = proc[1]
    BY <1>1, <1>2, <2>4
  <2>7. Asks(v[p]) /\ v[p].mem.request = proc[p].mem.request /\ Has(v[p], o[d]) = Has(proc[p], pipe[d])
    BY <1>2, <1>7, <2>1, <2>4, <2>5, MoreHas
  <2>8. ASSUME NEW r \in Pids, r \notin {1, p}, proc[r].pc \in Talking,
               NEW a \in 1 .. Pipes, NEW b \in 1 .. Pipes, Told(proc, pipe, failed, r, a, b)
        PROVE  Told(v, o, failed, r, a, b)
    <3>1. b # d /\ (proc[1].fd = Piped(a, b) => a # d)
      BY <1>3, <2>8, OthersPipes
    <3>2. o[b] = pipe[b] /\ (proc[1].fd = Piped(a, b) => o[a] = pipe[a])
      BY <2>5, <3>1
    <3>3. v[p].pc \notin LsChild /\ v[p].fd = proc[p].fd
      BY <1>4, <2>4 DEF LsChild
    <3> QED
      BY <1>1, <1>2, <1>5, <2>4, <2>8, <3>2, <3>3, OthersTold
  <2>9. Told(v, o, failed, p, u, d)
    <3>1. Mine(v, p, d)
      <4>1. \A r \in Pids : r \notin {1, p} => v[r] = proc[r]
        BY <2>4
      <4>2. v[p].pc \in Talking => proc[p].pc \in Talking /\ v[p].fd = proc[p].fd
        BY <1>1, <1>4, <2>4
      <4> QED
        BY <1>4, <4>1, <4>2, MineStays
    <3>2. CASE /\ proc[1].fd = Piped(u, d)
               /\ Exchange(proc[1], proc[proc[1].mem.child], proc[p], pipe[u], Has(proc[p], pipe[d]), failed)
      <4>1. PICK c, n : c = proc[1].mem.child /\ n = Has(proc[p], pipe[d])
        OBVIOUS
      <4>2. Exchange(proc[1], proc[c], v[p], o[u], n, failed)
        BY <1>1, <1>4, <2>4, <2>5, <2>7, <3>2, <4>1 DEF Exchange
      <4>3. proc[1].pc = "ls.wait" => v[c] = proc[c] \/ v[c].pc \notin LsChild
        BY <1>5, <2>4, <4>1 DEF LsChild
      <4>4. Exchange(proc[1], v[c], v[p], o[u], n, failed)
        BY <1>7, <4>2, <4>3, TalkStays
      <4> QED
        BY <1>4, <2>4, <2>6, <2>7, <3>1, <3>2, <4>1, <4>4 DEF Told
    <3>3. CASE Forsaken(proc, d) /\ Whole(proc[p], Has(proc[p], pipe[d]), failed)
      <4>1. Whole(v[p], Has(v[p], o[d]), failed)
        BY <2>4, <2>7, <3>3 DEF Whole
      <4> QED
        BY <1>4, <2>4, <2>6, <3>1, <3>3, <4>1 DEF Told, Forsaken
    <3> QED
      BY <1>3, <3>2, <3>3 DEF Told
  <2>10. LsProc(v, o, failed, p)
    BY <2>4, <2>7, <2>9 DEF LsProc, Writing
  <2>11. LsData(v, o, printed, failed)
    BY <1>2, <1>5, <1>7, <2>4, <2>5, <2>8, <2>10, LsMoves
  <2> QED
    BY <1>1, <2>2, <2>11
<1>9. CASE pipe[d] = <<>>
  <2>1. PICK v, pr : v = Exited(proc, p, 0) /\ pr = [printed EXCEPT ![p] = proc[p].mem.got]
    OBVIOUS
  <2>2. proc' = v /\ pipe' = pipe /\ printed' = pr /\ ~HeldIn(proc, W(d))
    BY <1>6, <1>9, <2>1 DEF LcRecv, AtEnd
  <2>3. proc[1].fd # Piped(u, d)
    BY <1>1, <2>2, EndsAre, HeldIs
  <2>4. Whole(proc[p], Has(proc[p], pipe[d]), failed)
    BY <1>3, <2>3 DEF Told
  <2>5. proc[p].mem.got \in {0, Bytes} \/ (proc[p].mem.got = Complaint /\ "exec" \in failed)
    <3>1. Len(pipe[d]) = 0
      BY <1>5, <1>9, LenIs
    <3>2. proc[p].mem.got + 0 = proc[p].mem.got
      BY <1>2 DEF Asks
    <3> QED
      BY <2>4, <3>1, <3>2 DEF Whole, Has
  <2>6. Printouts(pr, failed)
    BY <1>5, <2>1, <2>5 DEF Printouts
  <2>7. Left(proc, v, p)
    BY <1>2, <2>1, LeftIs DEF Exited
  <2>8. (\A r \in Pids : r # p => v[r] = proc[r]) /\ v[p].pc = "free"
    BY <1>2, <2>7 DEF Left
  <2>9. LsProc(v, pipe, failed, p)
    BY <2>8 DEF LsProc, LsAsking, Talking, Writing
  <2>10. ASSUME NEW r \in Pids, r \notin {1, p}, NEW a, NEW b, Told(proc, pipe, failed, r, a, b)
         PROVE  Told(v, pipe, failed, r, a, b)
    <3>1. v[p].pc \notin LsChild /\ v[p].pc \notin Talking
      BY <2>8 DEF LsChild, Talking
    <3> QED
      BY <1>1, <1>2, <1>5, <2>8, <2>10, <3>1, OthersTold
  <2>11. LsData(v, pipe, pr, failed)
    BY <1>2, <1>5, <1>7, <2>6, <2>8, <2>9, <2>10, LsMoves
  <2> QED
    BY <1>1, <2>2, <2>11
<1> QED
  BY <1>8, <1>9

\* The server goes on, alone or with the process c.
LEMMA LsServes ==
  ASSUME LsData(proc, pipe, printed, failed), NEW c \in Pids, NEW v,
         \A s \in Pids : s \notin {1, c} => v[s] = proc[s] /\ proc[s].pc \notin {"ls.exec"} \cup Writing,
         v[1].pc = "ls.wait" => v[1].mem.child \in Pids, NEW o, Flow(o),
         NEW g, failed \subseteq g, c # 1 => LsProc(v, o, g, c),
         \A r \in Pids : r \notin {1, c} /\ proc[r].pc \in Talking =>
           \A u \in 1 .. Pipes : \A d \in 1 .. Pipes :
             Told(proc, pipe, failed, r, u, d) => Told(v, o, g, r, u, d)
  PROVE  LsData(v, o, printed, g)
<1>0. Printouts(printed, g)
  BY PrintoutsStay DEF LsData
<1>1. ASSUME NEW r \in Pids, r \notin {1, c}
      PROVE  LsProc(v, o, g, r)
  <2>1. v[r] = proc[r] /\ LsProc(proc, pipe, failed, r) /\ v[r].pc \notin {"ls.exec"} \cup Writing
    BY <1>1 DEF LsData
  <2>2. v[r].pc \in Talking => \E u \in 1 .. Pipes : \E d \in 1 .. Pipes : Told(v, o, g, r, u, d)
    BY <1>1, <2>1 DEF LsProc
  <2> QED
    BY <2>1, <2>2 DEF LsProc
<1> QED
  BY <1>0, <1>1 DEF LsData

\* A client, when the server goes on with its connection or drops it.
LEMMA ServerTold ==
  ASSUME NEW u \in 1 .. Pipes, NEW d \in 1 .. Pipes, proc[1].fd = Piped(u, d),
         NEW r \in Pids, NEW a \in 1 .. Pipes, NEW b \in 1 .. Pipes,
         Told(proc, pipe, failed, r, a, b), NEW v, v[1].fd \in {Piped(u, d), Terminal},
         v[r] = proc[r], Mine(v, r, b), NEW o, \A j \in 1 .. Pipes : j # u => o[j] = pipe[j],
         NEW g, failed \subseteq g,
         a = u /\ b = d /\ u # d
           /\ Exchange(proc[1], proc[proc[1].mem.child], proc[r], pipe[u], Has(proc[r], pipe[d]), failed) =>
           \/ /\ v[1].fd = Piped(u, d)
              /\ Exchange(v[1], v[v[1].mem.child], proc[r], o[u], Has(proc[r], pipe[d]), g)
           \/ v[1].fd = Terminal /\ Whole(proc[r], Has(proc[r], pipe[d]), g)
  PROVE  Told(v, o, g, r, a, b)
<1>1. a # b /\ proc[r].fd = Piped(b, a)
  BY DEF Told
<1>2. CASE proc[1].fd = Piped(a, b) /\ Exchange(proc[1], proc[proc[1].mem.child], proc[r], pipe[a], Has(proc[r], pipe[b]), failed)
  <2>0. Piped(a, b) = Piped(u, d)
    BY <1>2
  <2>1. a = u /\ b = d
    BY <2>0, PipedSame
  <2>2. o[d] = pipe[d]
    BY <1>1, <2>1
  <2>3. CASE /\ v[1].fd = Piped(u, d)
             /\ Exchange(v[1], v[v[1].mem.child], proc[r], o[u], Has(proc[r], pipe[d]), g)
    BY <1>1, <2>1, <2>2, <2>3 DEF Told
  <2>4. CASE v[1].fd = Terminal /\ Whole(proc[r], Has(proc[r], pipe[d]), g)
    <3>1. Forsaken(v, b)
      BY <2>4, EndsAre, Names DEF Forsaken
    <3> QED
      BY <1>1, <2>1, <2>2, <2>4, <3>1 DEF Told
  <2> QED
    BY <1>1, <1>2, <2>1, <2>3, <2>4
<1>3. CASE Forsaken(proc, b) /\ Whole(proc[r], Has(proc[r], pipe[b]), failed)
  <2>1. b # u
    BY <1>3, EndsAre DEF Forsaken
  <2>2. Forsaken(v, b)
    BY <1>3, EndsAre, Names DEF Forsaken
  <2>3. o[b] = pipe[b]
    BY <2>1
  <2>4. Whole(proc[r], Has(proc[r], pipe[b]), g)
    BY <1>3, WholeStays
  <2> QED
    BY <1>1, <2>2, <2>3, <2>4 DEF Told
<1> QED
  BY <1>2, <1>3 DEF Told

LEMMA AcceptData ==
  ASSUME LsInv(proc), LsData(proc, pipe, printed, failed), NEW p \in Pids, Accept(p)
  PROVE  LsData(proc', pipe', printed', failed')
<1>1. /\ p = 1 /\ proc[1].pc = "ls.accept" /\ Table(proc) /\ 1 \in Pids /\ proc[1].fd = Terminal
      /\ \A q \in Pids : proc[q].parent # 1
      /\ printed' = printed /\ failed' = failed
  <2>1. proc[p].pc = "ls.accept" /\ printed' = printed /\ failed' = failed
    BY DEF Accept, AtLabel
  <2>2. p = 1
    <3>1. p # 1 => LsOther(proc[p])
      BY DEF LsInv
    <3>2. LsOther(proc[p]) => proc[p].pc \in LsChild \cup LsAsking \cup {"free"}
      BY DEF LsOther
    <3>3. "ls.accept" \notin LsChild \cup LsAsking \cup {"free"}
      BY DEF LsChild, LsAsking
    <3> QED
      BY <2>1, <3>1, <3>2, <3>3
  <2>3. Table(proc) /\ LsRootOk(proc[1]) /\ proc[1].pc = "ls.accept"
    BY <2>1, <2>2 DEF LsInv
  <2>4. proc[1].fd = Terminal /\ proc[1].parent = 0
    BY <2>3 DEF LsRootOk
  <2>5. ASSUME NEW q \in Pids PROVE proc[q].parent # 1
    <3>1. q # 1 => (proc[q].parent = 1 => proc[1].pc = "ls.wait")
      BY DEF LsInv
    <3> QED
      BY <2>3, <2>4, <3>1
  <2> QED
    BY <2>1, <2>2, <2>3, <2>4, <2>5
<1>2. PICK u, d : u = NewPipe /\ d = OtherPipe
  OBVIOUS
<1>3. u \in 1 .. Pipes /\ d \in 1 .. Pipes /\ u # d /\ Unused(u) /\ Unused(d)
  BY <1>2, ConnectionIs DEF Accept
<1>4. PICK c \in Pids : proc[c].pc = "lc.connect" /\ proc' = Accepted(proc, 1, c, u, d)
  BY <1>1, <1>2 DEF Accept, AtLabel, Accepted
<1>5. /\ c # 1 /\ proc[c].fd = Terminal /\ Asks(proc[c]) /\ proc[c].mem.got = 0
  <2>1. c # 1 /\ proc[c].fd = Terminal
    BY <1>1, <1>4 DEF LsInv, LsOther
  <2>2. Asks(proc[c])
    BY <1>4, <2>1 DEF LsData, LsProc, LsAsking
  <2> QED
    BY <1>4, <2>1, <2>2 DEF Asks
<1>6. PICK v : v = Accepted(proc, 1, c, u, d)
  OBVIOUS
<1>7. /\ \A q \in Pids : q \notin {1, c} => v[q] = proc[q]
      /\ v[1].pc = "ls.read" /\ v[1].fd = Piped(u, d) /\ v[1].mem = [n |-> 0]
      /\ v[c].pc = "lc.send" /\ v[c].fd = Piped(d, u) /\ v[c].mem = proc[c].mem
  BY <1>1, <1>5, <1>6, AcceptedIs
<1>8. PICK a1, o : a1 = [pipe EXCEPT ![u] = <<>>] /\ o = [a1 EXCEPT ![d] = <<>>]
  OBVIOUS
<1>9. pipe' = o
  BY <1>2, <1>8 DEF Accept
<1>10. Flow(o) /\ o[u] = <<>> /\ o[d] = <<>> /\ \A j \in 1 .. Pipes : j \notin {u, d} => o[j] = pipe[j]
  <2>1. Flow(pipe)
    BY DEF LsData
  <2>2. Emptied(pipe, a1, u)
    BY <1>3, <1>8, <2>1, EmptiedIs
  <2>3. Flow(a1)
    BY <2>2 DEF Emptied
  <2>4. Emptied(a1, o, d)
    BY <1>3, <1>8, <2>3, EmptiedIs
  <2> QED
    BY <1>3, <2>2, <2>4 DEF Emptied
<1>11. /\ ~HeldIn(proc, R(u)) /\ ~HeldIn(proc, R(d))
  BY <1>3 DEF Unused
<1>12. ASSUME NEW r \in Pids, r \notin {1, c}, proc[r].pc \in Talking,
              NEW a \in 1 .. Pipes, NEW b \in 1 .. Pipes, Told(proc, pipe, failed, r, a, b)
       PROVE  Told(v, o, failed, r, a, b)
  <2>1. proc[r].fd = Piped(b, a) /\ a # b /\ Mine(proc, r, b)
    BY <1>12 DEF Told
  <2>2. R(b) \in EndsOf(proc[r].fd)
    BY <2>1, EndsAre
  <2>3. HeldIn(proc, R(b))
    BY <2>2, HeldIs
  <2>4. b # u /\ b # d
    BY <1>11, <2>3
  <2>5. proc[1].fd # Piped(a, b)
    <3>1. R(a) # Tty
      BY Names
    <3>2. R(a) \in EndsOf(Piped(a, b)) /\ EndsOf(Terminal) = {Tty}
      BY EndsAre
    <3> QED
      BY <1>1, <3>1, <3>2
  <2>6. Whole(proc[r], Has(proc[r], pipe[b]), failed)
    BY <1>12, <2>5 DEF Told
  <2>7. Forsaken(v, b)
    BY <1>7, <2>4, EndsAre, Names DEF Forsaken
  <2>8. Mine(v, r, b)
    <3>1. R(b) \notin EndsOf(v[c].fd)
      BY <1>7, <2>4, EndsAre, Names
    <3>2. ASSUME NEW s \in Pids, s \notin {1, r}, v[s].pc \in Talking
          PROVE  R(b) \notin EndsOf(v[s].fd)
      <4>1. CASE s = c
        BY <3>1, <4>1
      <4>2. CASE s # c
        <5>1. v[s] = proc[s]
          BY <1>7, <3>2, <4>2
        <5> QED
          BY <2>1, <3>2, <5>1 DEF Mine
      <4> QED
        BY <4>1, <4>2
    <3> QED
      BY <3>2 DEF Mine
  <2>9. v[r] = proc[r] /\ o[b] = pipe[b]
    BY <1>7, <1>10, <1>12, <2>4
  <2> QED
    BY <2>1, <2>6, <2>7, <2>8, <2>9 DEF Told
<1>13. Told(v, o, failed, c, u, d)
  <2>1. Mine(v, c, d)
    <3>1. ASSUME NEW s \in Pids, s \notin {1, c}, v[s].pc \in Talking
          PROVE  R(d) \notin EndsOf(v[s].fd)
      <4>1. v[s] = proc[s]
        BY <1>7, <3>1
      <4> QED
        BY <1>11, <4>1, HeldIs
    <3> QED
      BY <3>1 DEF Mine
  <2>2. Has(v[c], o[d]) = 0
    <3>1. Len(<<>>) = 0
      BY EmptySeq
    <3>2. v[c].mem.got = 0
      BY <1>5, <1>7
    <3>3. Has(v[c], o[d]) = 0 + 0
      BY <1>10, <3>1, <3>2 DEF Has
    <3> QED
      BY <3>3
  <2>3. v[1].mem.n = 0
    BY <1>7
  <2>4. Exchange(v[1], v[v[1].mem.child], v[c], o[u], Has(v[c], o[d]), failed)
    BY <1>7, <1>10, <2>2, <2>3 DEF Exchange
  <2> QED
    BY <1>3, <1>7, <2>1, <2>4 DEF Told
<1>14. LsProc(v, o, failed, c)
  <2>1. Asks(v[c])
    BY <1>5, <1>7 DEF Asks
  <2> QED
    BY <1>3, <1>7, <1>13, <2>1 DEF LsProc, Writing
<1>15. \A s \in Pids : s \notin {1, c} => v[s] = proc[s] /\ proc[s].pc \notin {"ls.exec"} \cup Writing
  BY <1>1, <1>7 DEF LsInv, LsOther, LsChild, Writing
<1>150. failed \subseteq failed
  OBVIOUS
<1>16. LsData(v, o, printed, failed)
  BY <1>7, <1>10, <1>12, <1>14, <1>15, <1>150, LsServes
<1> QED
  BY <1>1, <1>4, <1>6, <1>9, <1>16

LEMMA LineRead ==
  /\ Line("args") # <<>> /\ Line("args") = <<"-", "\n">> /\ Head(Line("args")) = "-"
  /\ Tail(Line("args")) = <<"\n">>
  /\ Line("bare") = <<"\n">> /\ <<"\n">> # <<>> /\ Head(<<"\n">>) = "\n" /\ "-" # "\n"
  BY DEF Line

Tailed(q, k) == [q EXCEPT ![k] = Tail(@)]
LEMMA TailFlow ==
  ASSUME NEW q, Flow(q), NEW k \in 1 .. Pipes, q[k] # <<>>, NEW o, o = Tailed(q, k)
  PROVE  Flow(o) /\ o[k] = Tail(q[k]) /\ \A j \in 1 .. Pipes : j # k => o[j] = q[j]
<1>1. PICK s, z : s = q[k] /\ z = Tail(s)
  OBVIOUS
<1>2. s \in Seq(Letters)
  BY <1>1 DEF Flow
<1>3. z \in Seq(Letters)
  BY <1>1, <1>2, HeadTailProperties
<1>4. o = [q EXCEPT ![k] = z] /\ DOMAIN q = 1 .. Pipes
  BY <1>1 DEF Flow, Tailed
<1>5. o[k] = z /\ DOMAIN o = 1 .. Pipes /\ \A j \in 1 .. Pipes : j # k => o[j] = q[j]
  BY <1>4
<1>6. \A j \in 1 .. Pipes : o[j] \in Seq(Letters)
  BY <1>3, <1>5 DEF Flow
<1> QED
  BY <1>1, <1>5, <1>6 DEF Flow

\* What it does then of a connection.
Serves(v, o, g, u, d) ==
  \A r \in Pids : \A n :
    r # 1 /\ proc[r].fd = Piped(d, u) /\ proc[r].pc \in Talking
      /\ Exchange(proc[1], proc[proc[1].mem.child], proc[r], pipe[u], n, failed) =>
    \/ v[1].fd = Piped(u, d) /\ Exchange(v[1], v[v[1].mem.child], proc[r], o[u], n, g)
    \/ v[1].fd = Terminal /\ Whole(proc[r], n, g)

\* The server alone goes on.
LEMMA LsRootData ==
  ASSUME LsInv(proc), LsData(proc, pipe, printed, failed), proc[1].pc \in {"ls.read", "ls.fork"},
         NEW u \in 1 .. Pipes, NEW d \in 1 .. Pipes, u # d, proc[1].fd = Piped(u, d),
         NEW v, \A s \in Pids : s # 1 => v[s] = proc[s],
         v[1].fd \in {Piped(u, d), Terminal}, v[1].pc \in {"ls.accept", "ls.read", "ls.fork"},
         NEW o, Flow(o), \A j \in 1 .. Pipes : j # u => o[j] = pipe[j],
         NEW g, failed \subseteq g,
         Serves(v, o, g, u, d)
  PROVE  LsData(v, o, printed, g)
<1>1. ASSUME NEW r \in Pids, r # 1, proc[r].pc \in Talking,
             NEW a \in 1 .. Pipes, NEW b \in 1 .. Pipes, Told(proc, pipe, failed, r, a, b)
      PROVE  Told(v, o, g, r, a, b)
  <2>1. proc[r].fd = Piped(b, a) /\ Mine(proc, r, b)
    BY <1>1 DEF Told
  <2>2. v[r] = proc[r]
    BY <1>1
  <2>3. Mine(v, r, b)
    <3>1. v[1].pc \notin Talking /\ \A s \in Pids : s \notin {1, 1} => v[s] = proc[s]
      BY DEF Talking
    <3> QED
      BY <2>1, <3>1, MineStays
  <2>4. PICK n : n = Has(proc[r], pipe[d])
    OBVIOUS
  <2>5. ASSUME a = u, b = d,
               Exchange(proc[1], proc[proc[1].mem.child], proc[r], pipe[u], n, failed)
        PROVE  \/ /\ v[1].fd = Piped(u, d)
                  /\ Exchange(v[1], v[v[1].mem.child], proc[r], o[u], n, g)
               \/ v[1].fd = Terminal /\ Whole(proc[r], n, g)
    <3>1. proc[r].fd = Piped(d, u)
      BY <2>1, <2>5
    <3> QED
      BY <1>1, <2>5, <3>1 DEF Serves
  <2> QED
    BY <1>1, <2>2, <2>3, <2>4, <2>5, ServerTold
<1>2. ASSUME NEW s \in Pids, s # 1
      PROVE  v[s] = proc[s] /\ proc[s].pc \notin {"ls.exec"} \cup Writing
  BY <1>2 DEF LsInv, LsOther, LsChild, Writing
<1>3. 1 \in Pids
  BY FsPids
<1>4. v[1].pc # "ls.wait" /\ \A s \in Pids : s \notin {1, 1} => v[s] = proc[s] /\ proc[s].pc \notin {"ls.exec"} \cup Writing
  BY <1>2
<1>5. \A r \in Pids : r \notin {1, 1} /\ proc[r].pc \in Talking =>
           \A a \in 1 .. Pipes : \A b \in 1 .. Pipes :
             Told(proc, pipe, failed, r, a, b) => Told(v, o, g, r, a, b)
  BY <1>1
<1> QED
  BY <1>3, <1>4, <1>5, LsServes

LEMMA read_lineData ==
  ASSUME LsInv(proc), LsData(proc, pipe, printed, failed), NEW p \in Pids, read_line(p)
  PROVE  LsData(proc', pipe', printed', failed')
<1>1. /\ p = 1 /\ proc[1].pc = "ls.read" /\ Table(proc) /\ 1 \in Pids
      /\ printed' = printed /\ failed' = failed /\ Flow(pipe) /\ failed \subseteq failed
      /\ proc[1].pc \in {"ls.read", "ls.fork"}
  BY FsPids DEF LsInv, read_line, AtLabel, LsOther, LsChild, LsAsking, LsRootOk, LsData
<1>2. PICK u \in 1 .. Pipes, d \in 1 .. Pipes : u # d /\ proc[1].fd = Piped(u, d)
  BY <1>1 DEF LsInv, LsRootOk, Connected
<1>3. PipeOf(1, R(0)) = u
  BY <1>2, Opened, Names DEF PipeOf
<1>4. PICK n, o, h, f, z : /\ n = proc[1].mem.n /\ o = Tailed(pipe, u)
                           /\ h = Hangup(proc, 1) /\ f = Goto(proc, 1, "ls.fork")
                           /\ z = Set(proc, 1, [n |-> n + 1])
  OBVIOUS
<1>5. \/ /\ pipe[u] # <<>> /\ pipe' = o
         /\ \/ Head(pipe[u]) = "\n" /\ n > 0 /\ proc' = f
            \/ Head(pipe[u]) = "\n" /\ ~(n > 0) /\ proc' = h
            \/ Head(pipe[u]) # "\n" /\ proc' = z
      \/ pipe[u] = <<>> /\ ~HeldIn(proc, W(u)) /\ pipe' = pipe /\ proc' \in {f, h}
  BY <1>1, <1>3, <1>4 DEF read_line, AtEnd, Tailed
<1>6. Becomes(proc, h, 1, "ls.accept", proc[1].parent, Terminal, <<>>)
  BY <1>1, <1>2, <1>4, HangupIs
<1>7. Becomes(proc, f, 1, "ls.fork", proc[1].parent, proc[1].fd, proc[1].mem)
  BY <1>1, <1>4, GotoIs
<1>8. PICK mem : mem = [n |-> n + 1]
  OBVIOUS
<1>9. Becomes(proc, z, 1, "ls.read", proc[1].parent, proc[1].fd, mem)
  BY <1>1, <1>4, <1>8, SetIs
<1>10. ASSUME NEW v \in {h, f, z}
       PROVE  /\ \A s \in Pids : s # 1 => v[s] = proc[s]
              /\ v[1].fd \in {Piped(u, d), Terminal} /\ v[1].pc \in {"ls.accept", "ls.read", "ls.fork"}
  BY <1>2, <1>6, <1>7, <1>9 DEF Becomes
<1>11. ASSUME NEW r \in Pids, NEW m, r # 1, proc[r].fd = Piped(d, u), proc[r].pc \in Talking,
              Exchange(proc[1], proc[proc[1].mem.child], proc[r], pipe[u], m, failed)
       PROVE  /\ HeldIn(proc, W(u))
              /\ pipe[u] = <<>> \/
                   /\ proc[r].pc = "lc.recv" /\ m = 0 /\ proc[r].mem.request \in {"args", "bare"}
                   /\ \/ n = 0 /\ pipe[u] = Line(proc[r].mem.request)
                      \/ proc[r].mem.request = "args" /\ n = 1 /\ pipe[u] = <<"\n">>
  <2>1. W(u) \in EndsOf(proc[r].fd)
    BY <1>11, EndsAre
  <2>2. HeldIn(proc, W(u))
    BY <2>1, HeldIs
  <2>3. proc[r].pc = "lc.send" => pipe[u] = <<>>
    BY <1>11 DEF Exchange
  <2>4. CASE proc[r].pc = "lc.recv"
    <3>1. m = 0 /\ proc[r].mem.request \in {"args", "bare"}
      BY <1>1, <1>11, <2>4 DEF Exchange
    <3>2. \/ proc[1].mem.n = 0 /\ pipe[u] = Line(proc[r].mem.request)
          \/ proc[r].mem.request = "args" /\ proc[1].mem.n = 1 /\ pipe[u] = <<"\n">>
      BY <1>1, <1>11, <2>4 DEF Exchange
    <3> QED
      BY <1>4, <2>2, <2>4, <3>1, <3>2
  <2> QED
    BY <1>11, <2>2, <2>3, <2>4 DEF Talking
<1>12. CASE pipe[u] = <<>> /\ ~HeldIn(proc, W(u)) /\ pipe' = pipe /\ proc' \in {f, h}
  <2>1. PICK v : v = proc'
    OBVIOUS
  <2>2. v \in {h, f, z}
    BY <1>12, <2>1
  <2>3. /\ \A s \in Pids : s # 1 => v[s] = proc[s]
        /\ v[1].fd \in {Piped(u, d), Terminal} /\ v[1].pc \in {"ls.accept", "ls.read", "ls.fork"}
    BY <1>10, <2>2
  <2>4. ASSUME NEW r \in Pids, NEW m, r # 1, proc[r].fd = Piped(d, u), proc[r].pc \in Talking,
               Exchange(proc[1], proc[proc[1].mem.child], proc[r], pipe[u], m, failed)
        PROVE  FALSE
    BY <1>11, <1>12, <2>4
  <2>5. Serves(v, pipe, failed, u, d)
    BY <2>4 DEF Serves
  <2>6. LsData(v, pipe, printed, failed)
    BY <1>1, <1>2, <2>3, <2>5, LsRootData
  <2> QED
    BY <1>1, <1>12, <2>1, <2>6
<1>13. CASE pipe[u] # <<>> /\ pipe' = o
  <2>1. Flow(o) /\ o[u] = Tail(pipe[u]) /\ \A j \in 1 .. Pipes : j # u => o[j] = pipe[j]
    BY <1>1, <1>4, <1>13, TailFlow
  <2>2. CASE Head(pipe[u]) = "\n" /\ n > 0 /\ proc' = f
    <3>1. /\ \A s \in Pids : s # 1 => f[s] = proc[s]
          /\ f[1].fd \in {Piped(u, d), Terminal} /\ f[1].pc \in {"ls.accept", "ls.read", "ls.fork"}
      BY <1>10
    <3>2. ASSUME NEW r \in Pids, NEW m, r # 1, proc[r].fd = Piped(d, u), proc[r].pc \in Talking,
                 Exchange(proc[1], proc[proc[1].mem.child], proc[r], pipe[u], m, failed)
          PROVE  /\ f[1].fd = Piped(u, d)
                 /\ Exchange(f[1], f[f[1].mem.child], proc[r], o[u], m, failed)
      <4>0. /\ proc[r].pc = "lc.recv" /\ m = 0 /\ proc[r].mem.request \in {"args", "bare"}
            /\ \/ n = 0 /\ pipe[u] = Line(proc[r].mem.request)
               \/ proc[r].mem.request = "args" /\ n = 1 /\ pipe[u] = <<"\n">>
        BY <1>11, <1>13, <3>2
      <4>1. proc[r].pc = "lc.recv" /\ m = 0 /\ proc[r].mem.request = "args"
        BY <2>2, <4>0
      <4>2. f[1].fd = Piped(u, d) /\ f[1].pc = "ls.fork"
        BY <1>2, <1>7 DEF Becomes
      <4> QED
        BY <4>1, <4>2 DEF Exchange
    <3>3. Serves(f, o, failed, u, d)
      BY <3>2 DEF Serves
    <3>4. LsData(f, o, printed, failed)
      BY <1>1, <1>2, <2>1, <3>1, <3>3, LsRootData
    <3> QED
      BY <1>1, <1>13, <2>2, <3>4
  <2>3. CASE Head(pipe[u]) = "\n" /\ ~(n > 0) /\ proc' = h
    <3>1. /\ \A s \in Pids : s # 1 => h[s] = proc[s]
          /\ h[1].fd \in {Piped(u, d), Terminal} /\ h[1].pc \in {"ls.accept", "ls.read", "ls.fork"}
      BY <1>10
    <3>2. ASSUME NEW r \in Pids, NEW m, r # 1, proc[r].fd = Piped(d, u), proc[r].pc \in Talking,
                 Exchange(proc[1], proc[proc[1].mem.child], proc[r], pipe[u], m, failed)
          PROVE  h[1].fd = Terminal /\ Whole(proc[r], m, failed)
      <4>0. /\ proc[r].pc = "lc.recv" /\ m = 0 /\ proc[r].mem.request \in {"args", "bare"}
            /\ \/ n = 0 /\ pipe[u] = Line(proc[r].mem.request)
               \/ proc[r].mem.request = "args" /\ n = 1 /\ pipe[u] = <<"\n">>
        BY <1>11, <1>13, <3>2
      <4>1. proc[r].pc = "lc.recv" /\ m = 0 /\ proc[r].mem.request \in {"args", "bare"}
            /\ ((n = 0 /\ pipe[u] = Line(proc[r].mem.request)) \/ n = 1)
        BY <4>0
      <4>2. proc[r].mem.request # "args"
        <5>1. n # 1
          BY <2>3
        <5> QED
          BY <2>3, <4>1, <5>1, LineRead
      <4>3. h[1].fd = Terminal
        BY <1>6 DEF Becomes
      <4> QED
        BY <4>1, <4>2, <4>3 DEF Whole
    <3>3. Serves(h, o, failed, u, d)
      BY <3>2 DEF Serves
    <3>4. LsData(h, o, printed, failed)
      BY <1>1, <1>2, <2>1, <3>1, <3>3, LsRootData
    <3> QED
      BY <1>1, <1>13, <2>3, <3>4
  <2>4. CASE Head(pipe[u]) # "\n" /\ proc' = z
    <3>1. /\ \A s \in Pids : s # 1 => z[s] = proc[s]
          /\ z[1].fd \in {Piped(u, d), Terminal} /\ z[1].pc \in {"ls.accept", "ls.read", "ls.fork"}
      BY <1>10
    <3>2. ASSUME NEW r \in Pids, NEW m, r # 1, proc[r].fd = Piped(d, u), proc[r].pc \in Talking,
                 Exchange(proc[1], proc[proc[1].mem.child], proc[r], pipe[u], m, failed)
          PROVE  /\ z[1].fd = Piped(u, d)
                 /\ Exchange(z[1], z[z[1].mem.child], proc[r], o[u], m, failed)
      <4>0. /\ proc[r].pc = "lc.recv" /\ m = 0 /\ proc[r].mem.request \in {"args", "bare"}
            /\ \/ n = 0 /\ pipe[u] = Line(proc[r].mem.request)
               \/ proc[r].mem.request = "args" /\ n = 1 /\ pipe[u] = <<"\n">>
        BY <1>11, <1>13, <3>2
      <4>1. proc[r].pc = "lc.recv" /\ m = 0 /\ proc[r].mem.request \in {"args", "bare"}
            /\ ((n = 0 /\ pipe[u] = Line(proc[r].mem.request)) \/ pipe[u] = <<"\n">>)
        BY <4>0
      <4>2. proc[r].mem.request = "args" /\ n = 0 /\ pipe[u] = Line("args")
        BY <2>4, <4>1, LineRead
      <4>3. o[u] = <<"\n">>
        BY <2>1, <4>2, LineRead
      <4>4. mem.n = 1
        BY <1>8, <4>2
      <4>5. z[1].fd = Piped(u, d) /\ z[1].pc = "ls.read" /\ z[1].mem = mem
        BY <1>2, <1>9 DEF Becomes
      <4> QED
        BY <4>1, <4>2, <4>3, <4>4, <4>5 DEF Exchange
    <3>3. Serves(z, o, failed, u, d)
      BY <3>2 DEF Serves
    <3>4. LsData(z, o, printed, failed)
      BY <1>1, <1>2, <2>1, <3>1, <3>3, LsRootData
    <3> QED
      BY <1>1, <1>13, <2>4, <3>4
  <2> QED
    BY <1>5, <1>13, <2>2, <2>3, <2>4
<1> QED
  BY <1>5, <1>12, <1>13

\* There is always room for the server's child.
LEMMA LsRoom ==
  ASSUME LsInv(proc), proc[1].pc # "ls.wait"
  PROVE  CanFork
<1>1. PICK c : c = LsClients + 2
  OBVIOUS
<1>2. c \in Pids /\ c # 1 /\ c \notin Client
  BY <1>1, LsAssumption, UnixAssumption DEF Pids, Client
<1>3. LsOther(proc[c]) /\ proc[c].pc \notin LsAsking /\ proc[c].parent # 1
  BY <1>2 DEF LsInv
<1>4. proc[c].pc = "free"
  BY <1>3 DEF LsOther
<1> QED
  BY <1>2, <1>4 DEF CanFork

LEMMA LsForkData ==
  ASSUME LsInv(proc), LsData(proc, pipe, printed, failed), NEW p \in Pids, LsFork(p)
  PROVE  LsData(proc', pipe', printed', failed')
<1>1. /\ p = 1 /\ proc[1].pc = "ls.fork" /\ Table(proc) /\ 1 \in Pids
      /\ \A q \in Pids : q # 1 => proc[q].pc \notin {"ls.exec"} \cup Writing
      /\ printed' = printed /\ pipe' = pipe /\ Flow(pipe)
      /\ proc[1].pc \in {"ls.read", "ls.fork"}
  BY FsPids DEF LsInv, LsFork, AtLabel, LsOther, LsChild, LsAsking, LsRootOk, LsData, Writing
<1>2. PICK u \in 1 .. Pipes, d \in 1 .. Pipes : u # d /\ proc[1].fd = Piped(u, d)
  BY <1>1 DEF LsInv, LsRootOk, Connected
<1>3. ASSUME NEW r \in Pids, NEW n, proc[r].pc \in Talking,
             Exchange(proc[1], proc[proc[1].mem.child], proc[r], pipe[u], n, failed)
      PROVE  proc[r].pc = "lc.recv" /\ n = 0 /\ proc[r].mem.request = "args"
  BY <1>1, <1>3 DEF Exchange, Talking
<1>4. CASE CanFork /\ failed' = failed /\ proc' = Goto(Set(Fork(proc, 1, NewPid, "ls.exec"), 1, [child |-> NewPid]), 1, "ls.wait")
  <2>0. PICK c : c = NewPid
    OBVIOUS
  <2>1. PICK mem, v : mem = [child |-> c] /\ v = Forked(proc, c, "ls.exec", mem, "ls.wait")
    OBVIOUS
  <2>2. c \in Pids /\ proc[c].pc = "free" /\ c # 1
    BY <1>1, <1>4, <2>0, NewPidIs
  <2>3. /\ \A q \in Pids : q \notin {1, c} => v[q] = proc[q]
        /\ v[1].pc = "ls.wait" /\ v[1].fd = proc[1].fd /\ v[1].mem = mem
        /\ v[c].pc = "ls.exec" /\ v[c].fd = proc[1].fd
    <3>1. HasForked(proc, v, c, "ls.exec", "ls.wait", mem)
      BY <1>1, <2>1, <2>2, ForkedIs
    <3> QED
      BY <3>1 DEF HasForked
  <2>4. v[1].mem.child = c
    BY <2>1, <2>3
  <2>5. LsProc(v, pipe, failed, c)
    BY <2>3 DEF LsProc, LsAsking, Talking, Writing
  <2>6. ASSUME NEW r \in Pids, r \notin {1, c}, proc[r].pc \in Talking,
               NEW a \in 1 .. Pipes, NEW b \in 1 .. Pipes, Told(proc, pipe, failed, r, a, b)
        PROVE  Told(v, pipe, failed, r, a, b)
    <3>1. Mine(proc, r, b)
      BY <2>6 DEF Told
    <3>2. v[c].pc \notin Talking /\ \A s \in Pids : s \notin {1, c} => v[s] = proc[s]
      BY <2>3 DEF Talking
    <3>3. Mine(v, r, b)
      BY <2>2, <3>1, <3>2, MineStays
    <3>4. PICK n : n = Has(proc[r], pipe[d])
      OBVIOUS
    <3>5. ASSUME Exchange(proc[1], proc[proc[1].mem.child], proc[r], pipe[u], n, failed)
          PROVE  Exchange(v[1], v[v[1].mem.child], proc[r], pipe[u], n, failed)
      <4>1. proc[r].pc = "lc.recv" /\ n = 0 /\ proc[r].mem.request = "args"
        BY <1>3, <2>6, <3>5
      <4> QED
        BY <2>3, <2>4, <4>1 DEF Exchange, Written, Writing
    <3>6. v[1].fd = Piped(u, d) /\ v[r] = proc[r] /\ failed \subseteq failed
          /\ v[1].fd \in {Piped(u, d), Terminal}
      BY <1>2, <2>3, <2>6
    <3>7. \A j \in 1 .. Pipes : j # u => pipe[j] = pipe[j]
      OBVIOUS
    <3> QED
      BY <1>2, <2>6, <3>3, <3>4, <3>5, <3>6, <3>7, ServerTold
  <2>7. \A s \in Pids : s \notin {1, c} => v[s] = proc[s] /\ proc[s].pc \notin {"ls.exec"} \cup Writing
    BY <1>1, <2>3
  <2>70. failed \subseteq failed
    OBVIOUS
  <2>8. LsData(v, pipe, printed, failed)
    BY <1>1, <2>2, <2>4, <2>5, <2>6, <2>7, <2>70, LsServes
  <2> QED
    BY <1>1, <1>4, <2>0, <2>1, <2>8 DEF Forked
<1>5. CASE ForkFails /\ proc' = Hangup(proc, 1)
  <2>1. "fork" \in failed' /\ failed \subseteq failed'
    BY <1>1, <1>5, LsRoom DEF ForkFails, Fails
  <2>2. PICK h, g : h = Hangup(proc, 1) /\ g = failed'
    OBVIOUS
  <2>3. Becomes(proc, h, 1, "ls.accept", proc[1].parent, Terminal, <<>>)
    BY <1>1, <1>2, <2>2, HangupIs
  <2>4. /\ \A s \in Pids : s # 1 => h[s] = proc[s]
        /\ h[1].fd = Terminal /\ h[1].pc = "ls.accept"
        /\ h[1].fd \in {Piped(u, d), Terminal} /\ h[1].pc \in {"ls.accept", "ls.read", "ls.fork"}
    BY <2>3 DEF Becomes
  <2>5. ASSUME NEW r \in Pids, NEW n, r # 1, proc[r].fd = Piped(d, u), proc[r].pc \in Talking,
               Exchange(proc[1], proc[proc[1].mem.child], proc[r], pipe[u], n, failed)
        PROVE  h[1].fd = Terminal /\ Whole(proc[r], n, g)
    <3>1. proc[r].pc = "lc.recv" /\ n = 0
      BY <1>3, <2>5
    <3> QED
      BY <2>1, <2>2, <2>4, <3>1 DEF Whole
  <2>6. Serves(h, pipe, g, u, d)
    BY <2>5 DEF Serves
  <2>7. (\A j \in 1 .. Pipes : j # u => pipe[j] = pipe[j]) /\ failed \subseteq g
    BY <2>1, <2>2
  <2>8. LsData(h, pipe, printed, g)
    BY <1>1, <1>2, <2>4, <2>6, <2>7, LsRootData
  <2> QED
    BY <1>1, <1>5, <2>2, <2>8
<1> QED
  BY <1>1, <1>4, <1>5 DEF LsFork, GoesWell

LEMMA LsWaitData ==
  ASSUME LsInv(proc), LsData(proc, pipe, printed, failed), NEW p \in Pids, LsWait(p)
  PROVE  LsData(proc', pipe', printed', failed')
<1>1. /\ p = 1 /\ proc[1].pc = "ls.wait" /\ Table(proc) /\ 1 \in Pids
      /\ printed' = printed /\ pipe' = pipe /\ failed' = failed /\ Flow(pipe)
  BY FsPids DEF LsInv, LsWait, AtLabel, LsOther, LsChild, LsAsking, LsRootOk, LsData
<1>2. PICK u \in 1 .. Pipes, d \in 1 .. Pipes : u # d /\ proc[1].fd = Piped(u, d)
  BY <1>1 DEF LsInv, LsRootOk, Connected
<1>3. PICK c, w, v : c = proc[1].mem.child /\ w = Reap(proc, c) /\ v = Hangup(w, 1)
  OBVIOUS
<1>4. c \in Pids /\ c # 1 /\ proc[c].pc = "zombie"
  BY <1>1, <1>3 DEF LsWait, ZombieOf
<1>5. Becomes(proc, w, c, "free", 0, <<>>, <<>>)
  BY <1>1, <1>3, <1>4, ReapIs
<1>6. Becomes(w, v, 1, "ls.accept", w[1].parent, Terminal, <<>>)
  <2>1. Table(w) /\ w[1].fd = Piped(u, d) /\ v = Hangup(w, 1)
    <3>1. w[1] = proc[1] /\ Table(w)
      BY <1>1, <1>4, <1>5 DEF Becomes
    <3> QED
      BY <1>2, <1>3, <3>1
  <2> QED
    BY <2>1, HangupIs
<1>7. /\ v[1].pc = "ls.accept" /\ v[1].fd = Terminal
      /\ \A q \in Pids : q \notin {1, c} => v[q] = proc[q]
  BY <1>4, <1>5, <1>6 DEF Becomes
<1>8. v[c].pc = "free"
  BY <1>4, <1>5, <1>6 DEF Becomes
<1>9. LsProc(v, pipe, failed, c)
  BY <1>8 DEF LsProc, LsAsking, Talking, Writing
<1>10. ASSUME NEW r \in Pids, r \notin {1, c}, proc[r].pc \in Talking,
              NEW a \in 1 .. Pipes, NEW b \in 1 .. Pipes, Told(proc, pipe, failed, r, a, b)
       PROVE  Told(v, pipe, failed, r, a, b)
  <2>1. Mine(proc, r, b)
    BY <1>10 DEF Told
  <2>2. v[c].pc \notin Talking /\ \A s \in Pids : s \notin {1, c} => v[s] = proc[s]
    BY <1>7, <1>8 DEF Talking
  <2>3. Mine(v, r, b)
    BY <1>4, <2>1, <2>2, MineStays
  <2>4. PICK n : n = Has(proc[r], pipe[d])
    OBVIOUS
  <2>5. ASSUME Exchange(proc[1], proc[proc[1].mem.child], proc[r], pipe[u], n, failed)
        PROVE  Whole(proc[r], n, failed)
    <3>1. proc[r].pc = "lc.recv"
      BY <1>1, <1>10, <2>5 DEF Exchange, Talking
    <3>0. Written(proc[c], n, failed)
      BY <1>1, <1>3, <2>5, <3>1 DEF Exchange
    <3>2. n = Bytes \/ (n = Complaint /\ "exec" \in failed)
      BY <1>4, <3>0 DEF Written
    <3> QED
      BY <3>1, <3>2 DEF Whole
  <2>6. /\ v[1].fd \in {Piped(u, d), Terminal} /\ v[1].fd = Terminal /\ v[r] = proc[r]
        /\ failed \subseteq failed
    BY <1>7, <1>10
  <2>7. \A j \in 1 .. Pipes : j # u => pipe[j] = pipe[j]
    OBVIOUS
  <2> QED
    BY <1>2, <1>10, <2>3, <2>4, <2>5, <2>6, <2>7, ServerTold
<1>11. ASSUME NEW s \in Pids, s \notin {1, c}
       PROVE  v[s] = proc[s] /\ proc[s].pc \notin {"ls.exec"} \cup Writing
  <2>1. proc[s].parent # 1
    BY <1>3, <1>11 DEF LsInv
  <2>2. LsOther(proc[s])
    BY <1>11 DEF LsInv
  <2> QED
    BY <1>7, <1>11, <2>1, <2>2 DEF LsOther, LsChild, Writing
<1>12. v[1].pc # "ls.wait"
  BY <1>7
<1>120. failed \subseteq failed
  OBVIOUS
<1>13. LsData(v, pipe, printed, failed)
  BY <1>1, <1>4, <1>9, <1>10, <1>11, <1>12, <1>120, LsServes
<1> QED
  BY <1>1, <1>3, <1>13 DEF LsWait

LEMMA LsStepData ==
  ASSUME LsInv(proc), LsData(proc, pipe, printed, failed), NEW p \in Pids, LsStep(p)
  PROVE  LsData(proc', pipe', printed', failed')
  BY LsCommandData, LcSendData, LcRecvData, LsExecData, read_lineData, LsForkData,
     LsWaitData, AcceptData DEF LsStep, Server, ListClient

\* A client of ls_server at the end of its connection has what it asked for.
LEMMA LsArrives ==
  ASSUME program = "ls_server", LsInv(proc), LsData(proc, pipe, printed, failed)
  PROVE  ArrivesInFull
<1>1. \A p \in Pids :
        \/ printed[p] \in {Nothing, 0, Bytes}
        \/ printed[p] = Complaint /\ program = "ls_server" /\ "exec" \in failed
  BY DEF LsData, Printouts
<1>2. proc[1].pc # "dup.wait2"
  BY DEF LsInv, LsRootOk
<1>3. ASSUME NEW p \in Pids, proc[p].pc = "lc.recv", AtEnd(p, R(0)),
             proc[p].mem.request = "args"
      PROVE  \/ proc[p].mem.got = Bytes
             \/ proc[p].mem.got = 0 /\ "fork" \in failed
             \/ proc[p].mem.got = Complaint /\ "exec" \in failed
  <2>1. proc[p].pc \in Talking /\ 1 \in Pids
    BY <1>3, FsPids DEF Talking
  <2>2. Asks(proc[p])
    BY <2>1, ClientIs
  <2>3. PICK u \in 1 .. Pipes, d \in 1 .. Pipes : Told(proc, pipe, failed, p, u, d)
    BY <2>1, ClientIs
  <2>4. proc[p].fd = Piped(d, u)
    BY <2>3 DEF Told
  <2>5. PipeOf(p, R(0)) = d
    BY <2>4, Opened, Names DEF PipeOf
  <2>6. pipe[d] = <<>> /\ ~HeldIn(proc, W(d))
    BY <1>3, <2>5 DEF AtEnd
  <2>7. proc[1].fd # Piped(u, d)
    BY <2>1, <2>6, EndsAre, HeldIs
  <2>8. PICK n : n = Has(proc[p], pipe[d]) /\ Whole(proc[p], n, failed)
    BY <2>3, <2>7 DEF Told
  <2>9. Len(pipe[d]) = 0
    BY <2>6, LenIs DEF LsData
  <2>10. proc[p].mem.got + 0 = proc[p].mem.got
    BY <2>2 DEF Asks
  <2>11. n = proc[p].mem.got
    BY <2>8, <2>9, <2>10 DEF Has
  <2> QED
    BY <1>3, <2>8, <2>11 DEF Whole
<1> QED
  BY <1>1, <1>2, <1>3, FsPids DEF ArrivesInFull, AtLabel

\* The processes that show nothing, and the programs that have none but these.
Loud == {"wc", "dup.prompt", "dup.wait2", "lc.recv"}
Unheard(t, pr) == /\ \A p \in Pids : t[p].pc \notin Loud
                /\ \A p \in Pids : pr[p] = Nothing

LEMMA QuietStep ==
  ASSUME Unheard(proc, printed), Next
  PROVE  printed' = printed
<1>1. PICK p \in Pids : printed' = printed \/ LabelOf(p, Loud)
  <2>1. \A p \in Pids :
          /\ Command(p) => printed' = printed \/ proc[p].pc = "wc"
          /\ OneCommand(p) \/ DupShell(p) \/ Server(p) => printed' = printed
          /\ ListClient(p) => printed' = printed \/ proc[p].pc = "lc.recv"
          /\ MinPrompt(p) \/ MorePrompt(p) => printed' = printed
          /\ DupPrompt(p) => proc[p].pc = "dup.prompt"
    <3> TAKE p \in Pids
    <3>1. Command(p) => printed' = printed \/ proc[p].pc = "wc"
      <4>1. EndAtOnce(p) \/ TakeOne(p) => printed' = printed
        BY DEF EndAtOnce, TakeOne
      <4>2. Output(p) => printed' = printed
        BY DEF Output
      <4>3. Count(p) => proc[p].pc = "wc"
        BY DEF Count, AtLabel
      <4> QED
        BY <4>1, <4>2, <4>3 DEF Command
    <3>2. OneCommand(p) => printed' = printed
      BY DEF OneCommand, ShFork, ShExec, ShWait
    <3>3. DupShell(p) => printed' = printed
      BY DEF DupShell, DupFork1, DupFork2, DupClose, DupWait1, DupWait2, DupExec1, DupExec2
    <3>4. Server(p) => printed' = printed
      BY DEF Server, Accept, read_line, LsFork, LsExec, LsWait
    <3>5. ListClient(p) => printed' = printed \/ proc[p].pc = "lc.recv"
      BY DEF ListClient, LcSend, LcRecv, AtLabel
    <3>6. MinPrompt(p) \/ MorePrompt(p) => printed' = printed
      BY DEF MinPrompt, MorePrompt, ReadLine
    <3>7. DupPrompt(p) => proc[p].pc = "dup.prompt"
      BY DEF DupPrompt, AtLabel
    <3> QED
      BY <3>1, <3>2, <3>3, <3>4, <3>5, <3>6, <3>7
  <2> QED
    BY <2>1 DEF Next, Step, User, LabelOf, Loud
<1> QED
  BY <1>1 DEF Unheard, LabelOf

LEMMA QuietArrives ==
  ASSUME Unheard(proc, printed)
  PROVE  ArrivesInFull
<1>1. proc[1].pc # "dup.wait2" /\ \A p \in Pids : proc[p].pc # "lc.recv"
  BY FsPids DEF Unheard, Loud
<1> QED
  BY <1>1, FsPids DEF Unheard, ArrivesInFull, AtLabel

\* What is under way, and what has been shown: of the programs without a pipeline and
\* without a connection, nothing.
Delivered ==
  /\ program = "DupShell" => DupData(proc, pipe, printed)
  /\ program = "ls_server" => LsData(proc, pipe, printed, failed)
  /\ program \notin {"DupShell", "ls_server"} => \A p \in Pids : printed[p] = Nothing

LEMMA EmptyFlow == Flow([k \in 1 .. Pipes |-> <<>>])
<1>1. <<>> \in Seq(Letters)
  BY EmptySeq
<1> QED
  BY <1>1 DEF Flow

LEMMA DupStartsEmpty ==
  ASSUME UnixInit("DupShell", "dup.prompt", NoCommand), printed = [p \in Pids |-> Nothing]
  PROVE  DupData(proc, pipe, printed)
<1>1. /\ proc[1].pc = "dup.prompt" /\ \A p \in Pids : p # 1 => proc[p] = Free
  BY Alone1
<1>2. Flow(pipe)
  BY EmptyFlow DEF UnixInit
<1>3. Loose(Free)
  BY FreeIs DEF Loose, Readers
<1>4. DOMAIN printed = Pids /\ \A p \in Pids : printed[p] = Nothing
  OBVIOUS
<1>5. proc[1].pc \notin Forking \cup Waits
  BY <1>1 DEF Forking, Waits
<1> QED
  BY <1>1, <1>2, <1>3, <1>4, <1>5, FsPids DEF DupData

LEMMA LsStartsEmpty ==
  ASSUME LsInit
  PROVE  LsData(proc, pipe, printed, failed)
<1>1. PICK request \in [Client -> Requests] :
       proc = [p \in Pids |->
         IF p = Root THEN [Free EXCEPT !.pc = "ls.accept", !.fd = Terminal]
         ELSE IF p \in Client
         THEN [Free EXCEPT !.pc = "lc.connect", !.fd = Terminal,
                           !.mem = [request |-> request[p], got |-> 0]]
         ELSE Free]
  BY DEF LsInit
<1>2. Flow(pipe)
  BY EmptyFlow DEF LsInit
<1>3. Printouts(printed, failed)
  <2>1. printed = [p \in Pids |-> Nothing]
    BY DEF LsInit
  <2> QED
    BY <2>1 DEF Printouts
<1>4. ASSUME NEW p \in Pids, p # 1
      PROVE  LsProc(proc, pipe, failed, p)
  <2>1. CASE p \in Client
    <3>1. PICK mem, y : /\ mem = [request |-> request[p], got |-> 0]
                        /\ y = [Free EXCEPT !.pc = "lc.connect", !.fd = Terminal, !.mem = mem]
      OBVIOUS
    <3>2. proc[p] = y
      BY <1>1, <1>4, <2>1, <3>1 DEF Root
    <3>3. y.pc = "lc.connect" /\ y.mem = mem
      BY <3>1 DEF Free
    <3>4. mem.request = request[p] /\ mem.got = 0 /\ mem = [request |-> mem.request, got |-> mem.got]
      BY <3>1
    <3>5. request[p] \in Requests /\ 0 \in Nat
      BY <2>1
    <3>6. Asks(y)
      BY <3>3, <3>4, <3>5 DEF Asks
    <3> QED
      BY <3>2, <3>3, <3>6 DEF LsProc, Talking, Writing
  <2>2. CASE p \notin Client
    <3>1. proc[p] = Free
      BY <1>1, <1>4, <2>2 DEF Root
    <3> QED
      BY <3>1, FreeIs DEF LsProc, LsAsking, Talking, Writing
  <2> QED
    BY <2>1, <2>2
<1>5. proc[1].pc # "ls.wait"
  <2>1. PICK x : x = [Free EXCEPT !.pc = "ls.accept", !.fd = Terminal]
    OBVIOUS
  <2>2. x.pc = "ls.accept"
    BY <2>1 DEF Free
  <2>3. proc[1] = x
    BY <1>1, <2>1, FsPids
  <2> QED
    BY <2>2, <2>3
<1> QED
  BY <1>2, <1>3, <1>4, <1>5 DEF LsData

LEMMA NothingSent ==
  ASSUME Init
  PROVE  Delivered
<1>1. ASSUME NEW name \in CompressorNames, CompressorInit(name), printed = [p \in Pids |-> Nothing]
      PROVE  Delivered
  <2>1. program = name
    BY <1>1, CompressorStarts
  <2>2. program \notin {"DupShell", "ls_server"}
    BY <2>1 DEF CompressorNames
  <2> QED
    BY <1>1, <2>2 DEF Delivered
<1>2. ASSUME NEW name \in ShellNames, ShellInit(name)
      PROVE  Delivered
  <2>1. printed = [p \in Pids |-> Nothing]
    BY <1>2 DEF ShellInit
  <2>2. CASE UnixInit("DupShell", "dup.prompt", NoCommand)
    <3>1. program = "DupShell" /\ DupData(proc, pipe, printed)
      BY <2>1, <2>2, DupStartsEmpty DEF UnixInit
    <3> QED
      BY <3>1 DEF Delivered
  <2>3. CASE name \in {"MinShell", "MoreShell"} /\ program = name
    BY <2>1, <2>3 DEF Delivered
  <2> QED
    BY <1>2, <2>2, <2>3 DEF ShellInit, UnixInit
<1>3. ASSUME LsInit
      PROVE  Delivered
  <2>1. program = "ls_server" /\ LsData(proc, pipe, printed, failed)
    BY <1>3, LsStartsEmpty DEF LsInit
  <2> QED
    BY <2>1 DEF Delivered
<1>4. ASSUME ReverseInit \/ FsInit, printed = [p \in Pids |-> Nothing]
      PROVE  Delivered
  <2>1. program \in {"reverse_server", "fs_client"}
    BY <1>4 DEF ReverseInit, FsInit, UnixInit
  <2> QED
    BY <1>4, <2>1 DEF Delivered
<1> QED
  BY <1>1, <1>2, <1>3, <1>4 DEF Init

\* In the other programs no process is where something is shown.
LEMMA Silent ==
  ASSUME UnixInv, program \notin {"DupShell", "ls_server"}
  PROVE  \A p \in Pids : proc[p].pc \notin Loud
<1>1. CASE Labelled(proc, CompressorLabels)
  BY <1>1 DEF Labelled, CompressorLabels, Idle, Loud
<1>2. CASE OneInv(proc)
  <2>1. ASSUME NEW p \in Pids
        PROVE  proc[p].pc \notin Loud
    <3>1. CASE p = 1
      BY <1>2, <3>1 DEF OneInv, Loud
    <3>2. CASE p # 1
      BY <1>2, <3>2 DEF OneInv, OneCommands, Loud
    <3> QED
      BY <3>1, <3>2
  <2> QED
    BY <2>1
<1>3. CASE RevInv(proc, pipe, failed)
  <2>1. Labelled(proc, ReverseLabels)
    BY <1>3, ReverseLabelled
  <2> QED
    BY <2>1 DEF Labelled, ReverseLabels, Idle, Loud
<1>4. CASE FsInv(proc, pipe, failed)
  <2>1. Labelled(proc, FsLabels)
    BY <1>4 DEF FsInv
  <2> QED
    BY <2>1 DEF Labelled, FsLabels, Idle, Loud
<1> QED
  BY <1>1, <1>2, <1>3, <1>4 DEF UnixInv

LEMMA DeliveredStep ==
  ASSUME UnixInv, Delivered, [Next]_vars
  PROVE  Delivered'
<1>1. CASE UNCHANGED vars
  BY <1>1 DEF Delivered, vars, os
<1>2. CASE Next
  <2>1. program' = program
    BY <1>2, ProgramStays
  <2>2. CASE program = "DupShell"
    <3>1. DupInv(proc, failed) /\ DupData(proc, pipe, printed)
      BY <2>2 DEF UnixInv, Delivered, CompressorNames
    <3>2. PICK p \in Pids : DupStep(p)
      BY <1>2, <3>1, DupLabelled, NextDup
    <3>3. DupData(proc', pipe', printed')
      BY <3>1, <3>2, DupStepData
    <3> QED
      BY <2>1, <2>2, <3>3 DEF Delivered
  <2>3. CASE program = "ls_server"
    <3>1. LsInv(proc) /\ LsData(proc, pipe, printed, failed)
      BY <2>3 DEF UnixInv, Delivered, CompressorNames
    <3>2. PICK p \in Pids : LsStep(p)
      BY <1>2, <3>1, LsLabelled, NextLs
    <3>3. LsData(proc', pipe', printed', failed')
      BY <3>1, <3>2, LsStepData
    <3> QED
      BY <2>1, <2>3, <3>3 DEF Delivered
  <2>4. CASE program \notin {"DupShell", "ls_server"}
    <3>1. Unheard(proc, printed)
      BY <2>4, Silent DEF Delivered, Unheard
    <3>2. printed' = printed
      BY <1>2, <3>1, QuietStep
    <3> QED
      BY <2>1, <2>4, <3>2 DEF Delivered
  <2> QED
    BY <2>2, <2>3, <2>4
<1> QED
  BY <1>1, <1>2

LEMMA InvArrives ==
  ASSUME UnixInv, Delivered
  PROVE  ArrivesInFull
<1>1. CASE program = "DupShell"
  <2>1. DupInv(proc, failed) /\ DupData(proc, pipe, printed)
    BY <1>1 DEF UnixInv, Delivered, CompressorNames
  <2> QED
    BY <2>1, DupArrives
<1>2. CASE program = "ls_server"
  <2>1. LsInv(proc) /\ LsData(proc, pipe, printed, failed)
    BY <1>2 DEF UnixInv, Delivered, CompressorNames
  <2> QED
    BY <1>2, <2>1, LsArrives
<1>3. CASE program \notin {"DupShell", "ls_server"}
  <2>1. Unheard(proc, printed)
    BY <1>3, Silent DEF Delivered, Unheard
  <2> QED
    BY <2>1, QuietArrives
<1> QED
  BY <1>1, <1>2, <1>3

-----------------------------------------------------------------------------
\* What one process writes to a pipe or a connection, the one at the other end has got in
\* full by the end of file: wc counts all that echo has written, and a client of ls_server
\* shows all of the listing it asked for, or all of the error text when ls could not be
\* run, or nothing when the server could not fork.
THEOREM NothingIsLost == Spec => []ArrivesInFull
<1>1. Init => Delivered
  BY NothingSent
<1>2. UnixInv /\ Delivered /\ [Next]_vars => Delivered'
  BY DeliveredStep
<1>3. UnixInv /\ Delivered => ArrivesInFull
  BY InvArrives
<1> QED
  BY <1>1, <1>2, <1>3, UnixInvariant, PTL DEF Spec
=============================================================================
