------------------------------ MODULE MCUnix ------------------------------
(***************************************************************************)
(* The programs built from processes and pipes, one of them in each        *)
(* behaviour: the compressors, the three shells, ls_server and             *)
(* reverse_server with their clients, and fs_client.                       *)
(***************************************************************************)
EXTENDS Compressors, Shells, LsServer, ReverseServer, FsClient, TLC

vars == <<os, files, printed>>

ThreeTexts == <<"first", "second", "third">>
FourLines == {<<"a", "b", "\n">>, <<"c", "d", "d", "\n">>, <<"\n">>, <<"a", "b">>}

\* Files: empty, runs one short of MIN_RUN, of MIN_RUN and longer, with and without
\* blanks between them, a word of other letters, a long run of a letter, a sign
\* with digits, a byte 0xFF.
Ones(n) == Repeat("1", n)
Zeros(n) == Repeat("0", n)
Inputs == {
  <<>>,
  Ones(MIN_RUN - 1) \o Zeros(MIN_RUN),
  Ones(MIN_RUN) \o <<" ">> \o Zeros(MIN_RUN + 1) \o <<"\n">>,
  <<"a", "b">> \o Ones(MIN_RUN + 1),
  Repeat("a", MIN_RUN) \o <<"0">>,
  <<"0", "+", "1", "1">>,
  <<"1", Eof, "0">> }

CompressorNames == {"MyCompress", "ForkCompress", "PipeCompress", "ParFork", "ParThread"}
ShellNames == {"MinShell", "MoreShell", "DupShell"}

Init ==
  \/ /\ \E name \in CompressorNames : CompressorInit(name)
     /\ source \in Inputs
     /\ printed = [p \in Pids |-> Nothing]
  \/ /\ (\E name \in ShellNames : ShellInit(name)) \/ LsInit
     /\ source = <<>> /\ dest = Old
  \/ /\ ReverseInit \/ FsInit
     /\ source = <<>> /\ dest = Old
     /\ printed = [p \in Pids |-> Nothing]

\* The steps of a process that go on by themselves: all but those at a prompt.
Step(p) ==
  \/ /\ MyCompress(p) \/ ForkCompress(p) \/ PipeCompress(p) \/ ParFork(p) \/ ParThread(p)
     /\ UNCHANGED printed
  \/ /\ \/ Command(p)
        \/ OneCommand(p) \/ DupShell(p)
        \/ Server(p) \/ ListClient(p)
     /\ UNCHANGED files
  \/ /\ ReverseProgram(p) \/ FsProgram(p)
     /\ UNCHANGED <<files, printed>>

\* The user types at a prompt or a line for reverse_client, or kills MyCompress or the
\* file system server.
User ==
  \E p \in Pids :
    \/ (MinPrompt(p) \/ MorePrompt(p) \/ DupPrompt(p)) /\ UNCHANGED files
    \/ Kill(p) /\ UNCHANGED printed
    \/ (RcSend(p) \/ FsCommand(p) \/ FsKill(p)) /\ UNCHANGED <<files, printed>>

Next == User \/ \E p \in Pids : Step(p)

\* The kernel runs every process that can run; the user need not type.
Spec == Init /\ [][Next]_vars /\ \A p \in Pids : WF_vars(Step(p))

-----------------------------------------------------------------------------
Ended(p) == proc[p].pc = "zombie"
Gone(p) == proc[p].pc \in {"free", "zombie", "rc.end"}
AtPrompt == proc[Root].pc \in Prompts \cup {"ls.accept", "rs.accept"}

\* A compressor that reports success has written a file from which MyDecompress
\* makes the source: however the text is cut into blocks, chunks, reads and
\* writes, and for the first two whatever fails or is killed.  The text has no
\* signs, and for the second scanner no byte 0xFF and no long run of a letter.
DecodesToSource ==
  /\ program \in CompressorNames
  /\ Ended(Root) /\ proc[Root].status = Status("exit", 0)
  /\ failed = {} \/ program \in {"MyCompress", "ForkCompress"}
  /\ NoSigns(source)
  /\ program \in {"PipeCompress", "ParThread"} => ShortWords(source)
  => Decodes(dest, source)

\* No program waits for ever for a child, for a thread, for the end of a pipe or for
\* room in it: a compressor ends, a command comes back to the prompt or the
\* server to its next client with every process they started ended, and every
\* client ends that does not wait for a line of its user; whatever call fails, but
\* for ParFork after a failed fork.
Untyped(p) ==
  \/ AtLabel(p, "rc.send")
  \/ AtLabel(p, "rst.recv")
       /\ \E c \in Pids : AtLabel(c, "rc.send") /\ PipeOf(c, W(0)) = PipeOf(p, R(0))
Settled ==
  CASE program \in CompressorNames -> \A p \in Pids : Gone(p)
    [] program = "fs_client" -> AtLabel(FsUser, "fsc.prompt") \/ \A p \in Pids : Gone(p)
    [] OTHER -> /\ AtPrompt \/ Ended(Root)
                /\ \A p \in Pids \ {Root} : Gone(p) \/ Untyped(p)
EachSettles ==
  []<>(Settled \/ (program = "ParFork" /\ "fork" \in failed))

\* A shell at its prompt, and a server between two clients, hold no descriptor of the
\* command or client before, and no child that nobody will wait for, but for the
\* first command of a pipeline whose second fork failed.
PromptClean ==
  AtPrompt =>
    /\ proc[Root].fd = Terminal
    /\ Cardinality(Children(Root)) <= IF "fork" \in failed THEN 1 ELSE 0

\* What goes through a pipe or a connection arrives in full before the end of
\* file does: wc counts all that echo wrote, and a client shows all of the
\* listing it asked for, or nothing without a child, or all of the error message
\* when ls cannot be run.
ArrivesInFull ==
  /\ \A p \in Pids :
       \/ printed[p] \in {Nothing, 0, Bytes}
       \/ printed[p] = Complaint /\ program = "ls_server" /\ "exec" \in failed
  /\ AtLabel(Root, "dup.wait2") /\ proc[Root].mem.words[2] = "wc"
       /\ Ended(proc[Root].mem.pids[2])
       => printed[Root] = IF proc[Root].mem.words[1] = "echo" THEN Bytes ELSE 0
  /\ \A p \in Pids :
       AtLabel(p, "lc.recv") /\ AtEnd(p, R(0)) /\ proc[p].mem.request = "args" =>
         \/ proc[p].mem.got = Bytes
         \/ proc[p].mem.got = 0 /\ "fork" \in failed
         \/ proc[p].mem.got = Complaint /\ "exec" \in failed

\* A line backwards, without its newline if it has one, and then a newline.
Mirrors(answer, typed) ==
  \E n \in 0 .. Len(typed) :
    /\ Len(answer) = n + 1 /\ answer[n + 1] = "\n"
    /\ Len(typed) = n \/ (Len(typed) = n + 1 /\ typed[n + 1] = "\n")
    /\ \A i \in 1 .. n : answer[i] = typed[n + 1 - i] /\ answer[i] # "\n"

\* An answer belongs to its request, unless it came in pieces: reverse_client shows
\* its own line reversed, or nothing when the server had no thread for it, and
\* fs_client shows the reply to the command it sent last, every byte of it,
\* unless the server was killed.
AnswersInStep ==
  "split" \notin failed =>
    /\ \A p \in Pids :
         AtLabel(p, "rc.end") =>
           \/ Mirrors(proc[p].mem.shown, proc[p].mem.line)
           \/ proc[p].mem.shown = <<>> /\ "fork" \in failed
    /\ program = "fs_client" /\ AtLabel(FsUser, "fsc.prompt") /\ "kill" \notin failed =>
         /\ proc[FsUser].mem.k = proc[FsServer].mem.k
         /\ proc[FsUser].mem.shown = proc[FsServer].mem.said
=============================================================================
