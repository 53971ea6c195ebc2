------------------------------ MODULE Shells ------------------------------
(***************************************************************************)
(* The three shells of project_1: MinShell (task_6) and MoreShell (task_7) *)
(* run one command at a time, DupShell (task_8) runs "first | second".     *)
(* Lines that are empty, or no pipeline for DupShell, leave the shell at   *)
(* its prompt and are no steps here.                                       *)
(***************************************************************************)
EXTENDS Commands

\* A shell, its two commands, and one that nobody waits for.
ASSUME ShellsAssumption == Processes >= 4

Alone == {"true", "echo", "missing"}
First == {"true", "echo", "yes", "missing"}
Second == {"wc", "head", "true", "missing"}

\* All pipelines but the one that runs for ever.
Pipelines == (First \X Second) \ {<<"yes", "wc">>}

Prompts == {"min.prompt", "more.prompt", "dup.prompt"}

NoCommand == [words |-> <<>>, pids |-> <<>>]

ShellInit(name) ==
  /\ \/ name = "MinShell" /\ UnixInit(name, "min.prompt", NoCommand)
     \/ name = "MoreShell" /\ UnixInit(name, "more.prompt", NoCommand)
     \/ name = "DupShell" /\ UnixInit(name, "dup.prompt", NoCommand)
  /\ printed = [p \in Pids |-> Nothing]

-----------------------------------------------------------------------------
\* fgets and what follows, up to the fork: "exit" or the end of the input ends
\* the shell, any other line is a command.
ReadLine(p, prompt) ==
  /\ AtLabel(p, prompt)
  /\ \/ proc' = Exited(proc, p, 0)
     \/ \E word \in Alone :
          proc' = Goto(Set(proc, p, [words |-> <<word>>, pids |-> <<>>]), p, "sh.fork")
  /\ UNCHANGED <<program, pipe, failed, printed>>

MinPrompt(p) == ReadLine(p, "min.prompt")
MorePrompt(p) == ReadLine(p, "more.prompt")

Prompt == IF program = "MinShell" THEN "min.prompt" ELSE "more.prompt"
Back(t, p, prompt) == Goto(Set(t, p, NoCommand), p, prompt)

ShFork(p) ==
  /\ AtLabel(p, "sh.fork")
  /\ \/ /\ CanFork /\ GoesWell
        /\ proc' = Goto(Fork(proc, p, NewPid, "sh.exec"), p, "sh.wait")
     \/ ForkFails /\ proc' = Back(proc, p, Prompt)
  /\ UNCHANGED <<program, pipe, printed>>

ShExec(p) ==
  /\ AtLabel(p, "sh.exec")
  /\ proc' = Exec(proc, p, proc[p].mem.words[1])
  /\ UNCHANGED <<program, pipe, failed, printed>>

\* wait(&status)
ShWait(p) ==
  /\ AtLabel(p, "sh.wait")
  /\ \E c \in Pids : ZombieOf(p, c) /\ proc' = Back(Reap(proc, c), p, Prompt)
  /\ UNCHANGED <<program, pipe, failed, printed>>

OneCommand(p) == ShFork(p) \/ ShExec(p) \/ ShWait(p)

-----------------------------------------------------------------------------
\* DupShell: the pipe is made as soon as both commands are there.
DupPrompt(p) ==
  /\ AtLabel(p, "dup.prompt")
  /\ printed' = [printed EXCEPT ![Root] = Nothing]
  /\ \/ /\ proc' = Exited(proc, p, 0)
        /\ UNCHANGED <<pipe, failed>>
     \/ \E line \in Pipelines :
          \/ /\ CanPipe /\ GoesWell
             /\ proc' = Goto(Set(OpenPipe(proc, p, NewPipe, R(0), W(0)), p,
                                 [words |-> line, pids |-> <<>>]), p, "dup.fork1")
             /\ pipe' = [pipe EXCEPT ![NewPipe] = <<>>]
          \/ PipeFails /\ UNCHANGED <<proc, pipe>>
  /\ UNCHANGED program

\* A failed fork closes the pipe and returns to the prompt, in the second case
\* without a wait for the first command.
DupFork1(p) ==
  /\ AtLabel(p, "dup.fork1")
  /\ \/ /\ CanFork /\ GoesWell
        /\ proc' = Goto(Set(Fork(proc, p, NewPid, "dup.exec1"), p,
                            [proc[p].mem EXCEPT !.pids = <<NewPid>>]), p, "dup.fork2")
     \/ ForkFails /\ proc' = Back(Close(proc, p, {R(0), W(0)}), p, "dup.prompt")
  /\ UNCHANGED <<program, pipe, printed>>

DupFork2(p) ==
  /\ AtLabel(p, "dup.fork2")
  /\ \/ /\ CanFork /\ GoesWell
        /\ proc' = Goto(Set(Fork(proc, p, NewPid, "dup.exec2"), p,
                            [proc[p].mem EXCEPT !.pids = Append(@, NewPid)]),
                        p, "dup.close")
     \/ ForkFails /\ proc' = Back(Close(proc, p, {R(0), W(0)}), p, "dup.prompt")
  /\ UNCHANGED <<program, pipe, printed>>

\* Mutant: the shell closes its ends only after the waits.
DupCloseLate(p) ==
  /\ AtLabel(p, "dup.close")
  /\ proc' = Goto(proc, p, "dup.wait1")
  /\ UNCHANGED <<program, pipe, failed, printed>>
DupClose(p) ==
  /\ AtLabel(p, "dup.close")
  /\ proc' = Goto(Close(proc, p, {R(0), W(0)}), p, "dup.wait1")
  /\ UNCHANGED <<program, pipe, failed, printed>>

\* waitpid(pid1), then waitpid(pid2).
DupWait1(p) ==
  /\ AtLabel(p, "dup.wait1")
  /\ ZombieOf(p, proc[p].mem.pids[1])
  /\ proc' = Goto(Reap(proc, proc[p].mem.pids[1]), p, "dup.wait2")
  /\ UNCHANGED <<program, pipe, failed, printed>>

DupWait2(p) ==
  /\ AtLabel(p, "dup.wait2")
  /\ ZombieOf(p, proc[p].mem.pids[2])
  /\ proc' = Back(Reap(proc, proc[p].mem.pids[2]), p, "dup.prompt")
  /\ UNCHANGED <<program, pipe, failed, printed>>

\* The children: the far end closed, stdout or stdin moved to the near one.
DupExec1(p) ==
  /\ AtLabel(p, "dup.exec1")
  /\ LET t == Close(Dup2(Close(proc, p, {R(0)}), p, W(0), Out), p, {W(0)})
     IN proc' = Exec(t, p, proc[p].mem.words[1])
  /\ UNCHANGED <<program, pipe, failed, printed>>

DupExec2(p) ==
  /\ AtLabel(p, "dup.exec2")
  /\ LET t == Close(Dup2(Close(proc, p, {W(0)}), p, R(0), In), p, {R(0)})
     IN proc' = Exec(t, p, proc[p].mem.words[2])
  /\ UNCHANGED <<program, pipe, failed, printed>>

DupShell(p) ==
  \/ DupFork1(p) \/ DupFork2(p) \/ DupClose(p)
  \/ DupWait1(p) \/ DupWait2(p) \/ DupExec1(p) \/ DupExec2(p)
=============================================================================
