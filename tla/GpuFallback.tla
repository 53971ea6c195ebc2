---------------------------- MODULE GpuFallback ----------------------------
(***************************************************************************)
(* src/production_io_demo/gpu_pipeline_fallback.cpp: a producer, a worker  *)
(* and a consumer thread joined by two BoundedQueues.  A queue is a        *)
(* monitor: push waits on cv_full_, pop on cv_empty_, and stop(), which     *)
(* the thread in front calls when it is done, wakes everybody; what is     *)
(* left in a stopped queue can still be popped.                            *)
(*                                                                         *)
(* A step is what a thread does under m_, or its notify_one() after it.    *)
(* The numbers in a chunk are left out, its id stands for them.            *)
(***************************************************************************)
EXTENDS Integers, Sequences

CONSTANTS
  Chunks,     \* how many chunks make up the total
  QueueDepth  \* cap_ of both queues

ASSUME GpuAssumption == Chunks \in Nat /\ QueueDepth \in Nat \ {0}

\* The stages, and the queues between them: q12 is queue 1, q23 is queue 2.
Stages == 1 .. 3
Queues == 1 .. 2

VARIABLES
  q, stopped,   \* of each queue
  gpc,          \* where each thread is
  chunk,        \* id of the chunk a thread has, or makes next
  asleep,       \* the threads that wait for a notification
  consumed      \* ids the consumer has seen

gpuVars == <<q, stopped, gpc, chunk, asleep, consumed>>

GpuInit ==
  /\ q = [k \in Queues |-> <<>>]
  /\ stopped = [k \in Queues |-> FALSE]
  /\ gpc = [s \in Stages |-> IF s = 1 THEN "push" ELSE "pop"]
  /\ chunk = [s \in Stages |-> 0]
  /\ asleep = {} /\ consumed = <<>>

Turn(s, label) == gpc' = [gpc EXCEPT ![s] = label]
Awake(s) == s \notin asleep

\* wait(): the thread sleeps until somebody notifies it, if its condition is false.
Sleep(s) ==
  /\ asleep' = asleep \cup {s}
  /\ UNCHANGED <<q, stopped, gpc, chunk, consumed>>

\* notify_one(), or notify_all(), to thread s if it waits inside that call.
Notify(s, call) == asleep' = IF gpc[s] = call THEN asleep \ {s} ELSE asleep

-----------------------------------------------------------------------------
\* push() by stage s into the queue behind it; the producer makes the chunk before.
\* Its answer to a stopped queue, to drop the chunk, is not reached: only s stops it.
Push(s) ==
  /\ s # 3 /\ gpc[s] = "push" /\ Awake(s)
  /\ ~(s = 1 /\ chunk[s] = Chunks)
  /\ IF Len(q[s]) < QueueDepth
     THEN /\ q' = [q EXCEPT ![s] = Append(@, chunk[s])]
          /\ Turn(s, "pushed")
          /\ UNCHANGED <<stopped, chunk, asleep, consumed>>
     ELSE Sleep(s)

Pushed(s) ==
  /\ gpc[s] = "pushed"
  /\ Notify(s + 1, "pop")
  /\ IF s = 1
     THEN chunk' = [chunk EXCEPT ![s] = @ + 1] /\ Turn(s, "push")
     ELSE Turn(s, "pop") /\ UNCHANGED chunk
  /\ UNCHANGED <<q, stopped, consumed>>

\* stop(), when the producer has made all chunks or pop() has returned false.
Stop(s) ==
  /\ \/ gpc[s] = "stop"
     \/ s = 1 /\ gpc[s] = "push" /\ chunk[s] = Chunks
  /\ Turn(s, "end")
  /\ stopped' = [stopped EXCEPT ![s] = TRUE]
  /\ Notify(s + 1, "pop")
  /\ UNCHANGED <<q, chunk, consumed>>

\* Mutant: nothing is taken from a stopped queue.
NothingLeftStopped(k) == stopped[k]
NothingLeft(k) == q[k] = <<>>

\* pop() by stage s from the queue in front of it.
Pop(s) ==
  /\ s # 1 /\ gpc[s] = "pop" /\ Awake(s)
  /\ IF q[s - 1] = <<>> /\ ~stopped[s - 1] THEN Sleep(s)
     ELSE IF NothingLeft(s - 1)
     THEN /\ Turn(s, IF s = 2 THEN "stop" ELSE "end")
          /\ UNCHANGED <<q, stopped, chunk, asleep, consumed>>
     ELSE /\ chunk' = [chunk EXCEPT ![s] = Head(q[s - 1])]
          /\ q' = [q EXCEPT ![s - 1] = Tail(@)]
          /\ Turn(s, "popped")
          /\ UNCHANGED <<stopped, asleep, consumed>>

Popped(s) ==
  /\ gpc[s] = "popped"
  /\ Notify(s - 1, "push")
  /\ IF s = 2 THEN Turn(s, "push") /\ UNCHANGED consumed
              ELSE Turn(s, "pop") /\ consumed' = Append(consumed, chunk[s])
  /\ UNCHANGED <<q, stopped, chunk>>

Stage(s) == Push(s) \/ Pushed(s) \/ Stop(s) \/ Pop(s) \/ Popped(s)

-----------------------------------------------------------------------------
\* The consumer sees the chunks in order, and all of them before it ends.
ChunksInOrder ==
  /\ \A k \in DOMAIN consumed : consumed[k] = k - 1
  /\ gpc[3] = "end" => Len(consumed) = Chunks

GpuOver == \A s \in Stages : gpc[s] = "end"
=============================================================================
