----------------------------- MODULE MCThreads -----------------------------
(***************************************************************************)
(* The small programs of threads, one of them in each behaviour: the       *)
(* bounded buffer, the two Mother Hubbard programs, the demonstrations of  *)
(* semaphores, the asynchronous copy and the pipeline of the GPU fallback. *)
(***************************************************************************)
EXTENDS BoundedBuffer, MotherHubbard, SyncDemos, AsyncCopy, GpuFallback, TLC

CONSTANTS KIDS, Ncycles

VARIABLES
  running,   \* the program that was started
  qbuf, qhead, qtail, qItems, qSpaces, motherGo, nextDayReady,
  motherPc, motherDay, motherC, fatherPc, fatherDay, fatherTucked, fatherChild

Queue == INSTANCE MotherHubbardQueue WITH
  mpc <- motherPc, mday <- motherDay, c <- motherC,
  fpc <- fatherPc, fday <- fatherDay, tucked <- fatherTucked, childId <- fatherChild

ASSUME QueueAssumption == Queue!SizesOK

queueVars == <<qbuf, qhead, qtail, qItems, qSpaces, motherGo, nextDayReady, motherPc,
               motherDay, motherC, fatherPc, fatherDay, fatherTucked, fatherChild>>

Programs == {"buffer", "hubbard", "queue", "demos", "copy", "gpu"}

threadVars == <<running, vars, hubbard, queueVars, demoVars, copyVars, gpuVars>>

ThreadsInit ==
  /\ running \in Programs
  /\ Init /\ HubbardInit /\ Queue!Init /\ DemoInit /\ GpuInit
  /\ IF running = "copy" THEN CopyInit ELSE CopyInit /\ total = 0 /\ DOMAIN bufs = {1}

\* The program runs; the variables of the others stay.
Runs(program) ==
  /\ running = program /\ UNCHANGED running
  /\ IF program = "buffer" THEN TRUE ELSE UNCHANGED vars
  /\ IF program = "hubbard" THEN TRUE ELSE UNCHANGED hubbard
  /\ IF program = "queue" THEN TRUE ELSE UNCHANGED queueVars
  /\ IF program = "demos" THEN TRUE ELSE UNCHANGED demoVars
  /\ IF program = "copy" THEN TRUE ELSE UNCHANGED copyVars
  /\ IF program = "gpu" THEN TRUE ELSE UNCHANGED gpuVars

\* The threads of a program, with main, or the kernel's side of the copy, as one more.
MaxThreads == 5
Step(t) ==
  \/ Runs("buffer") /\ CASE t = 0 -> Main [] t = 1 -> Producer [] t = 2 -> Consumer
                         [] OTHER -> FALSE
  \/ Runs("hubbard") /\ CASE t = 1 -> Mother [] t = 2 -> Father [] OTHER -> FALSE
  \/ Runs("queue") /\ CASE t = 1 -> Queue!Mother [] t = 2 -> Queue!Father
                        [] OTHER -> FALSE
  \/ Runs("demos") /\ (IF t = 0 THEN JoinAll ELSE DemoThread(t))
  \/ Runs("copy") /\ (IF t = 0 THEN CopyMain ELSE t \in DOMAIN bufs /\ Kernel(t))
  \/ Runs("gpu") /\ t \in Stages /\ Stage(t)

ThreadsNext ==
  \/ \E t \in 0 .. MaxThreads : Step(t)
  \/ Runs("demos") /\ Race

\* The scheduler runs every thread that can run; a mutex or a semaphore that stays
\* available is taken by a thread that waits for it, and the kernel ends requests.
ThreadsSpec ==
  ThreadsInit /\ [][ThreadsNext]_threadVars
    /\ \A t \in 0 .. MaxThreads : WF_threadVars(Step(t))

-----------------------------------------------------------------------------
\* Mother Hubbard with a queue: the queue holds the children after the last one
\* Father took, in order, and Father takes them in order.
QueueInOrder == Queue!QueueInOrder

\* Mother's reset of the queue in the morning finds it empty, and no thread in it.
ResetFindsEmpty == Queue!ResetFindsEmpty

\* Both Mother Hubbard programs do what the household promises: no child is tucked
\* in before its bath, and no day starts before the last one is over.
BothHouseholds == IsHousehold /\ Queue!IsHousehold

\* What the producers of the demonstration, and of the GPU fallback, put in a queue
\* comes out of it once and in order, all of it before the program ends.
QueuesDeliver == ItemsInOrder /\ ChunksInOrder

\* No program waits for ever: main has joined all threads, all children of all days
\* are in bed, the copy is complete, unless a request failed, and the demonstrations
\* are over, unless a farmer met a hole that was left out of turn.
ThreadsEnd ==
  <>CASE running = "buffer" -> main = "destroy"
      [] running = "hubbard" -> mpc = "end" /\ fpc = "end"
      [] running = "queue" -> motherPc = "end" /\ fatherPc = "end"
      [] running = "demos" -> DemoOver \/ OutOfTurn
      [] running = "copy" -> CopyOver
      [] running = "gpu" -> GpuOver
=============================================================================
