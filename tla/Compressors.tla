---------------------------- MODULE Compressors ----------------------------
(***************************************************************************)
(* The compressors of project_1: MyCompress (task_1), ForkCompress, which   *)
(* runs it (task_3), PipeCompress, two processes and a pipe (task_4),      *)
(* ParFork, n processes with a pipe each (task_5), and ParThread, n        *)
(* threads with a buffer each (task_9).                                    *)
(***************************************************************************)
EXTENDS Unix, Rle

CONSTANTS
  BUFFER_SIZE,   \* bytes of a block that is read or written
  MaxProcs       \* the most processes or threads that are asked for

ASSUME BufferAssumption ==
  /\ BUFFER_SIZE \in Nat \ {0} /\ BUFFER_SIZE <= PIPE_SIZE   \* PIPE_BUF
  /\ MaxProcs \in Nat \ {0}

VARIABLES
  source,   \* contents of the file to compress
  dest      \* contents of the file to write

files == <<source, dest>>

Old == <<"?">>   \* what dest holds before

Block(pos) == SubSeq(source, pos + 1, Min2(pos + BUFFER_SIZE, Len(source)))

StartOf(name) ==
  CASE name = "MyCompress" -> "my.open"  [] name = "ForkCompress" -> "fc.fork"
    [] name = "PipeCompress" -> "pc.pipe" [] name = "ParFork" -> "pf.open"
    [] name = "ParThread" -> "pt.create"

CompressorInit(name) ==
  /\ IF name \in {"ParFork", "ParThread"}
     THEN \E n \in 1 .. MaxProcs :
            UnixInit(name, StartOf(name), [n |-> n, pids |-> <<>>, out |-> <<>>])
     ELSE UnixInit(name, StartOf(name), <<>>)
  /\ dest = Old

-----------------------------------------------------------------------------
\* MyCompress: open both files or die, then read, scan and write block by block.
MyOpen(p) ==
  /\ AtLabel(p, "my.open")
  /\ UNCHANGED <<program, pipe, source>>
  /\ \/ GoesWell /\ dest' = <<>>
        /\ proc' = Goto(Set(proc, p, [pos |-> 0, st |-> Start]), p, "my.read")
     \/ Fails("open") /\ dest' = dest /\ proc' = Exited(proc, p, 1)

compress_stream(p) ==
  /\ AtLabel(p, "my.read")
  /\ LET mem == proc[p].mem
         block == Block(mem.pos)
         st == ScanBits(mem.st, block)
     IN IF block # <<>>
        THEN /\ proc' = Set(proc, p, [pos |-> mem.pos + Len(block), st |-> st])
             /\ dest' = st.out
        ELSE /\ proc' = Exited(proc, p, 0)
             /\ dest' = Flushed(mem.st)
  /\ UNCHANGED <<program, pipe, failed, source>>

\* Somebody kills MyCompress.
Kill(p) ==
  /\ proc[p].pc \in {"my.open", "my.read"}
  /\ Fails("kill")
  /\ proc' = Killed(proc, p, 9)
  /\ UNCHANGED <<program, pipe, files>>

MyCompress(p) == MyOpen(p) \/ compress_stream(p)

-----------------------------------------------------------------------------
\* ForkCompress
FcFork(p) ==
  /\ AtLabel(p, "fc.fork")
  /\ \/ /\ CanFork /\ GoesWell
        /\ proc' = Goto(Set(Fork(proc, p, NewPid, "fc.exec"), p, [child |-> NewPid]),
                        p, "fc.wait")
     \/ ForkFails /\ proc' = Exited(proc, p, 1)
  /\ UNCHANGED <<program, pipe, files>>

FcExec(p) ==
  /\ AtLabel(p, "fc.exec")
  /\ \/ GoesWell /\ proc' = Goto(proc, p, "my.open")
     \/ Fails("exec") /\ proc' = Exited(proc, p, 127)
  /\ UNCHANGED <<program, pipe, files>>

\* Mutant: a signal is not looked at, only the code.
FcWaitNoSignal(p) ==
  /\ AtLabel(p, "fc.wait")
  /\ LET c == proc[p].mem.child
     IN /\ ZombieOf(p, c)
        /\ proc' = Exited(Reap(proc, c), p,
                     IF proc[c].status.by = "exit" THEN proc[c].status.code ELSE 0)
  /\ UNCHANGED <<program, pipe, failed, files>>

\* The exit status tells how MyCompress ended.
FcWait(p) ==
  /\ AtLabel(p, "fc.wait")
  /\ LET c == proc[p].mem.child
         status == proc[c].status
     IN /\ ZombieOf(p, c)
        /\ proc' = Exited(Reap(proc, c), p,
                     IF status.by = "exit" THEN status.code ELSE 128 + status.code)
  /\ UNCHANGED <<program, pipe, failed, files>>

ForkCompress(p) == FcFork(p) \/ FcExec(p) \/ FcWait(p)

-----------------------------------------------------------------------------
\* PipeCompress.  The parent reads the source and writes it to the pipe, block by
\* block; no result of write() is looked at, but a block goes whole (PIPE_BUF).
PcPipe(p) ==
  /\ AtLabel(p, "pc.pipe")
  /\ \/ /\ CanPipe /\ GoesWell
        /\ proc' = Goto(OpenPipe(proc, p, NewPipe, R(0), W(0)), p, "pc.fork")
        /\ pipe' = [pipe EXCEPT ![NewPipe] = <<>>]
     \/ PipeFails /\ proc' = Exited(proc, p, 1) /\ UNCHANGED pipe
  /\ UNCHANGED <<program, files>>

PcFork(p) ==
  /\ AtLabel(p, "pc.fork")
  /\ \/ /\ CanFork /\ GoesWell
        /\ proc' = Goto(Fork(proc, p, NewPid, "pcc.open"), p, "pc.open")
     \/ ForkFails /\ proc' = Exited(proc, p, 1)
  /\ UNCHANGED <<program, pipe, files>>

\* Mutant: the child keeps its write end open.
PccOpenKeeps(p) ==
  /\ AtLabel(p, "pcc.open")
  /\ \/ GoesWell /\ dest' = <<>>
        /\ proc' = Goto(Set(proc, p, [st |-> Start]), p, "pcc.read")
     \/ Fails("open") /\ dest' = dest /\ proc' = Exited(proc, p, 1)
  /\ UNCHANGED <<program, pipe, source>>

\* The child closes its write end, then opens the destination.
PccOpen(p) ==
  /\ AtLabel(p, "pcc.open")
  /\ LET t == Close(proc, p, {W(0)})
     IN \/ GoesWell /\ dest' = <<>>
           /\ proc' = Goto(Set(t, p, [st |-> Start]), p, "pcc.read")
        \/ Fails("open") /\ dest' = dest /\ proc' = Exited(t, p, 1)
  /\ UNCHANGED <<program, pipe, source>>

\* One read() of the child, of what is there up to a block, or the end of file,
\* upon which the file is closed and what stdio holds is written.
compress_and_write(p) ==
  /\ AtLabel(p, "pcc.read")
  /\ LET k == PipeOf(p, R(0))
         n == Min2(BUFFER_SIZE, Len(pipe[k]))
         st == proc[p].mem.st
     IN \/ /\ n > 0
           /\ proc' = Set(proc, p, [st |-> ScanAll(st, SubSeq(pipe[k], 1, n))])
           /\ pipe' = [pipe EXCEPT ![k] = SubSeq(@, n + 1, Len(@))]
           /\ UNCHANGED dest
        \/ /\ AtEnd(p, R(0))
           /\ proc' = Exited(proc, p, 0)
           /\ dest' = Flushed(st)
           /\ UNCHANGED pipe
  /\ UNCHANGED <<program, failed, source>>

\* The parent closes its read end, then opens the source.
PcOpen(p) ==
  /\ AtLabel(p, "pc.open")
  /\ LET t == Close(proc, p, {R(0)})
     IN \/ GoesWell /\ proc' = Goto(Set(t, p, [pos |-> 0]), p, "pc.write")
        \/ Fails("open") /\ proc' = Exited(t, p, 1)
  /\ UNCHANGED <<program, pipe, files>>

PcWrite(p) ==
  /\ AtLabel(p, "pc.write")
  /\ LET k == PipeOf(p, W(0))
         pos == proc[p].mem.pos
         block == Block(pos)
     IN \/ /\ block = <<>>
           /\ proc' = Goto(Close(proc, p, {W(0)}), p, "pc.wait")
           /\ UNCHANGED pipe
        \/ /\ block # <<>> /\ NoReader(p, W(0))
           /\ proc' = Killed(proc, p, 13)
           /\ UNCHANGED pipe
        \/ /\ block # <<>> /\ ~NoReader(p, W(0)) /\ Room(k) >= Len(block)
           /\ proc' = Set(proc, p, [pos |-> pos + Len(block)])
           /\ pipe' = [pipe EXCEPT ![k] = @ \o block]
  /\ UNCHANGED <<program, failed, files>>

\* wait(NULL); what the child returned is not asked.
PcWait(p) ==
  /\ AtLabel(p, "pc.wait")
  /\ \E c \in Pids : ZombieOf(p, c) /\ proc' = Exited(Reap(proc, c), p, 0)
  /\ UNCHANGED <<program, pipe, failed, files>>

PipeCompress(p) ==
  \/ PcPipe(p) \/ PcFork(p) \/ PccOpen(p) \/ compress_and_write(p)
  \/ PcOpen(p) \/ PcWrite(p) \/ PcWait(p)

-----------------------------------------------------------------------------
\* ParFork.  Child i compresses the bytes from i * chunk on, if there are any.
Chunk(n, i) ==
  LET size == (Len(source) + n - 1) \div n
  IN SubSeq(source, i * size + 1, Min2(i * size + size, Len(source)))

PfOpen(p) ==
  /\ AtLabel(p, "pf.open")
  /\ \/ /\ GoesWell
        /\ proc' = Goto(proc, p, "pf.spawn")
     \/ Fails("open") /\ proc' = Exited(proc, p, 1)
  /\ UNCHANGED <<program, pipe, files>>

\* pipe() for child i, i children being there.  Its result is not looked at: when it
\* fails, R(i) and W(i) stay what malloc left there, which is no open descriptor.
PfPipe(p) ==
  /\ AtLabel(p, "pf.spawn")
  /\ LET i == Len(proc[p].mem.pids)
     IN /\ i < proc[p].mem.n
        /\ \/ /\ CanPipe /\ GoesWell
              /\ proc' = Goto(OpenPipe(proc, p, NewPipe, R(i), W(i)), p, "pf.fork")
              /\ pipe' = [pipe EXCEPT ![NewPipe] = <<>>]
           \/ PipeFails /\ proc' = Goto(proc, p, "pf.fork") /\ UNCHANGED pipe
  /\ UNCHANGED <<program, files>>

\* fork() of child i; when it fails, the parent goes on with -1 for its pid.
PfFork(p) ==
  /\ AtLabel(p, "pf.fork")
  /\ LET i == Len(proc[p].mem.pids)
         After(t, pid) ==
           [Goto(Close(t, p, {W(i)}), p, "pf.spawn") EXCEPT ![p].mem.pids = Append(@, pid)]
     IN \/ CanFork /\ GoesWell /\ proc' = After(Fork(proc, p, NewPid, "pfc.run"), NewPid)
        \/ ForkFails /\ proc' = After(proc, -1)
  /\ UNCHANGED <<program, pipe, files>>

\* fdopen() has returned NULL for the descriptor: the first use of it crashes.
NoStream(p, name) ==
  /\ name \notin DOMAIN proc[p].fd
  /\ proc' = Killed(proc, p, 11)

\* comp_buf: child i holds what it has not written yet.
comp_buf(p) ==
  /\ AtLabel(p, "pfc.run")
  /\ LET i == Len(proc[p].mem.pids)
         coded == Flushed(ScanBits(Start, Chunk(proc[p].mem.n, i)))
     IN \/ /\ W(i) \in DOMAIN proc[p].fd
           /\ proc' = Goto(Set(Close(proc, p, {R(i)}), p, [i |-> i, todo |-> coded]),
                           p, "pfc.write")
        \/ NoStream(p, W(i))
  /\ UNCHANGED <<program, pipe, failed, files>>

\* A write goes as far as the pipe has room, and blocks.
PfcWrite(p) ==
  /\ AtLabel(p, "pfc.write")
  /\ LET mem == proc[p].mem
         k == PipeOf(p, W(mem.i))
         n == Min2(Room(k), Len(mem.todo))
     IN \/ /\ mem.todo = <<>>
           /\ proc' = Exited(proc, p, 0)
           /\ UNCHANGED pipe
        \/ /\ mem.todo # <<>> /\ NoReader(p, W(mem.i))
           /\ proc' = Killed(proc, p, 13)
           /\ UNCHANGED pipe
        \/ /\ ~NoReader(p, W(mem.i)) /\ n > 0
           /\ proc' = Set(proc, p, [mem EXCEPT !.todo = SubSeq(@, n + 1, Len(@))])
           /\ pipe' = [pipe EXCEPT ![k] = @ \o SubSeq(mem.todo, 1, n)]
  /\ UNCHANGED <<program, failed, files>>

\* The result of this fopen is not looked at: the first use of it crashes.
PfOpenDest(p) ==
  /\ AtLabel(p, "pf.spawn") /\ Len(proc[p].mem.pids) = proc[p].mem.n
  /\ \/ /\ GoesWell /\ dest' = <<>>
        /\ proc' = Goto(Set(proc, p, [i |-> 0, pids |-> proc[p].mem.pids,
                                      out |-> <<>>]), p, "pf.read")
     \/ Fails("open") /\ dest' = dest /\ proc' = Killed(proc, p, 11)
  /\ UNCHANGED <<program, pipe, source>>

\* fgetc(r) of pipe i until the end of file.
PfRead(p) ==
  /\ AtLabel(p, "pf.read")
  /\ LET mem == proc[p].mem
         k == PipeOf(p, R(mem.i))
         open == R(mem.i) \in DOMAIN proc[p].fd
     IN \/ /\ open /\ pipe[k] # <<>>
           /\ proc' = Set(proc, p, [mem EXCEPT !.out = @ \o pipe[k]])
           /\ pipe' = [pipe EXCEPT ![k] = <<>>]
        \/ NoStream(p, R(mem.i)) /\ UNCHANGED pipe
        \/ /\ open /\ AtEnd(p, R(mem.i))
           /\ proc' = Goto(Close(proc, p, {R(mem.i)}), p, "pf.wait")
           /\ UNCHANGED pipe
  /\ UNCHANGED <<program, failed, files>>

\* waitpid(pids[i]): -1 stands for any child; without such a child it returns.
PfWait(p) ==
  /\ AtLabel(p, "pf.wait")
  /\ LET mem == proc[p].mem
         pid == mem.pids[mem.i + 1]
         wanted == IF pid = -1 THEN Children(p) ELSE Children(p) \cap {pid}
         Done(t) ==
           IF mem.i + 1 < Len(mem.pids)
           THEN /\ proc' = Goto(Set(t, p, [mem EXCEPT !.i = @ + 1]), p, "pf.read")
                /\ UNCHANGED dest
           ELSE /\ proc' = Exited(t, p, 0)
                /\ dest' = mem.out
     IN \/ \E c \in wanted : ZombieOf(p, c) /\ Done(Reap(proc, c))
        \/ wanted = {} /\ Done(proc)
  /\ UNCHANGED <<program, pipe, failed, source>>

ParFork(p) ==
  \/ PfOpen(p) \/ PfPipe(p) \/ PfFork(p) \/ comp_buf(p) \/ PfcWrite(p)
  \/ PfOpenDest(p) \/ PfRead(p) \/ PfWait(p)

-----------------------------------------------------------------------------
\* ParThread.  Thread i compresses size \div n bytes, the last one all the rest;
\* bytes are read up to one that equals EOF.
ThreadChunk(n, i) ==
  LET size == Len(source) \div n
      chunk == SubSeq(source, i * size + 1,
                      IF i = n - 1 THEN Len(source) ELSE i * size + size)
      Eofs == {j \in 1 .. Len(chunk) : chunk[j] = Eof}
  IN IF Eofs = {} THEN chunk ELSE SubSeq(chunk, 1, Min(Eofs) - 1)

\* main's return ends all threads.
ThreadsEnd(code) ==
  [q \in Pids |-> IF q = Root THEN Exited(proc, Root, code)[q] ELSE Free]

\* pthread_create of the next thread.
PtCreate(p) ==
  /\ AtLabel(p, "pt.create") /\ Len(proc[p].mem.pids) < proc[p].mem.n
  /\ \/ /\ CanFork /\ GoesWell
        /\ \E c \in {NewPid} :
             proc' = [Fork(proc, p, c, "ptt.run") EXCEPT ![p].mem.pids = Append(@, c)]
     \/ ForkFails /\ proc' = ThreadsEnd(1)
  /\ UNCHANGED <<program, pipe, files>>

\* A thread has a FILE and a buffer of its own; without the FILE, no buffer.
compress_chunk_thread(p) ==
  /\ AtLabel(p, "ptt.run")
  /\ LET mem == proc[p].mem
         chunk == ThreadChunk(mem.n, Len(mem.pids))
         End(out) == proc' = Goto(Set(proc, p, [out |-> out]), p, "ptt.end")
     IN \/ GoesWell /\ End(Flushed(ScanAll(Start, chunk)))
        \/ Fails("open") /\ End(<<>>)
  /\ UNCHANGED <<program, pipe, files>>

PtOpenDest(p) ==
  /\ AtLabel(p, "pt.create") /\ Len(proc[p].mem.pids) = proc[p].mem.n
  /\ \/ /\ GoesWell /\ dest' = <<>>
        /\ proc' = Goto(proc, p, "pt.join")
     \/ Fails("open") /\ dest' = dest /\ proc' = ThreadsEnd(1)
  /\ UNCHANGED <<program, pipe, source>>

\* Mutant: the buffers are written in the order in which the threads end.
PtJoinAny(p) ==
  /\ AtLabel(p, "pt.join")
  /\ LET mem == proc[p].mem
     IN \/ /\ mem.pids = <<>>
           /\ proc' = ThreadsEnd(0) /\ dest' = mem.out
        \/ \E i \in 1 .. Len(mem.pids) :
             /\ AtLabel(mem.pids[i], "ptt.end")
             /\ proc' = [Reap(proc, mem.pids[i]) EXCEPT
                  ![p].mem.pids = SubSeq(@, 1, i - 1) \o SubSeq(@, i + 1, Len(@)),
                  ![p].mem.out = @ \o proc[mem.pids[i]].mem.out]
             /\ UNCHANGED dest
  /\ UNCHANGED <<program, pipe, failed, source>>

\* pthread_join in the order of the chunks, each followed by its fwrite.
PtJoin(p) ==
  /\ AtLabel(p, "pt.join")
  /\ LET mem == proc[p].mem
     IN \/ /\ mem.pids = <<>>
           /\ proc' = ThreadsEnd(0) /\ dest' = mem.out
        \/ /\ mem.pids # <<>> /\ AtLabel(Head(mem.pids), "ptt.end")
           /\ proc' = [Reap(proc, Head(mem.pids)) EXCEPT
                ![p].mem.pids = Tail(@),
                ![p].mem.out = @ \o proc[Head(mem.pids)].mem.out]
           /\ UNCHANGED dest
  /\ UNCHANGED <<program, pipe, failed, source>>

ParThread(p) ==
  PtCreate(p) \/ compress_chunk_thread(p) \/ PtOpenDest(p) \/ PtJoin(p)
=============================================================================
