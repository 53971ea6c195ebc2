----------------------------- MODULE Commands -----------------------------
(***************************************************************************)
(* The commands that the shells of project_1 and ls_server run, as far as  *)
(* descriptors and pipes go: true ends at once, echo (or ls) writes Bytes  *)
(* bytes, yes never stops writing, wc counts what it reads until the end   *)
(* of file and prints the number, head takes what the first read gives,    *)
(* and missing is not found.                                               *)
(***************************************************************************)
EXTENDS Unix

CONSTANT Bytes   \* what echo and ls write

ASSUME BytesAssumption == Bytes \in Nat \ {0}

VARIABLE printed   \* the last number a process has printed for somebody to see

Nothing == -1

\* execvp() of a word, whose memory starts anew; a missing command ends here.
Exec(t, p, word) ==
  IF word = "missing" THEN Exited(t, p, 1)
  ELSE Goto(Set(t, p, [left |-> Bytes, got |-> 0]), p, word)

EndAtOnce(p) ==
  /\ AtLabel(p, "true")
  /\ proc' = Exited(proc, p, 0)
  /\ UNCHANGED <<program, pipe, failed, printed>>

\* A write of what fits, or of all to a terminal; at ls.perror a child of ls_server
\* writes why there is no ls, and exits with 1.
Output(p) ==
  /\ proc[p].pc \in {"echo", "yes", "ls.perror"}
  /\ LET mem == proc[p].mem
         wanted == IF AtLabel(p, "yes") THEN 1 ELSE mem.left
         end == proc[p].fd[Out]
         n == IF end = Tty THEN wanted ELSE Min2(Room(end[2]), wanted)
     IN \/ /\ wanted = 0
           /\ proc' = Exited(proc, p, IF AtLabel(p, "ls.perror") THEN 1 ELSE 0)
           /\ UNCHANGED pipe
        \/ /\ wanted > 0 /\ NoReader(p, Out)
           /\ proc' = Killed(proc, p, 13)
           /\ UNCHANGED pipe
        \/ /\ ~NoReader(p, Out) /\ n > 0
           /\ proc' = IF AtLabel(p, "yes") THEN proc
                      ELSE Set(proc, p, [mem EXCEPT !.left = @ - n])
           /\ pipe' = IF end = Tty THEN pipe
                      ELSE [pipe EXCEPT ![end[2]] = @ \o [i \in 1 .. n |-> "y"]]
  /\ UNCHANGED <<program, failed, printed>>

Count(p) ==
  /\ AtLabel(p, "wc")
  /\ LET k == PipeOf(p, In)
     IN \/ /\ pipe[k] # <<>>
           /\ proc' = Set(proc, p, [proc[p].mem EXCEPT !.got = @ + Len(pipe[k])])
           /\ pipe' = [pipe EXCEPT ![k] = <<>>]
           /\ UNCHANGED printed
        \/ /\ AtEnd(p, In)
           /\ proc' = Exited(proc, p, 0)
           /\ printed' = [printed EXCEPT ![Root] = proc[p].mem.got]
           /\ UNCHANGED pipe
  /\ UNCHANGED <<program, failed>>

TakeOne(p) ==
  /\ AtLabel(p, "head")
  /\ LET k == PipeOf(p, In)
     IN /\ pipe[k] # <<>> \/ AtEnd(p, In)
        /\ pipe' = [pipe EXCEPT ![k] = <<>>]
  /\ proc' = Exited(proc, p, 0)
  /\ UNCHANGED <<program, failed, printed>>

Command(p) == EndAtOnce(p) \/ Output(p) \/ Count(p) \/ TakeOne(p)
=============================================================================
