--------------------------- MODULE BoundedBuffer ---------------------------
(***************************************************************************)
(* project_2/bounded_buffer.c: a producer and a consumer thread, a circular *)
(* buffer, a mutex and two counting semaphores, and the main thread that    *)
(* starts the two and joins them.                                           *)
(*                                                                         *)
(* The threads run between the calls of the primitives; the only memory    *)
(* both write is `count`, so its increment and decrement are a load and a  *)
(* store, and the rest of a critical section is one step.  The primitives  *)
(* and pthread_create succeed; rand() may return anything.                 *)
(***************************************************************************)
EXTENDS Integers, Sequences

CONSTANTS
  BUFFER_SIZE,  \* slots of the buffer: 10 in the code
  NUM_ITEMS,    \* turns of each thread's loop: 50 in the code
  Chars,        \* the characters produced: 'A' .. 'Z' in the code
  NoChar        \* the contents of a slot never written: zero

ASSUME SizesAssumption ==
  /\ BUFFER_SIZE \in Nat \ {0}
  /\ NUM_ITEMS \in Nat
  /\ NoChar \notin Chars

P == "producer"
C == "consumer"
Threads == {P, C}
Free == "free"
Slots == 0 .. BUFFER_SIZE - 1

VARIABLES
  buffer, in, out, count,   \* the fields of bounded_buffer_t
  mutex,                    \* the thread that holds it, or Free
  empty, full,              \* the values of the semaphores
  pc,                       \* where a thread is
  i,                        \* its loop counter
  item,                     \* its local character
  reg,                      \* the value of count it has loaded
  main                      \* where the main thread is

shared == <<buffer, in, out, count>>
sems   == <<empty, full>>
vars   == <<shared, mutex, sems, pc, i, item, reg, main>>

Init ==
  /\ buffer = [k \in Slots |-> NoChar]
  /\ in = 0 /\ out = 0 /\ count = 0
  /\ mutex = Free
  /\ empty = BUFFER_SIZE /\ full = 0
  /\ pc = [t \in Threads |-> "unborn"]
  /\ i = [t \in Threads |-> 0]
  /\ item = [t \in Threads |-> NoChar]
  /\ reg = [t \in Threads |-> 0]
  /\ main = "create_producer"

Goto(t, to) == pc' = [pc EXCEPT ![t] = to]
At(t, from, to) == pc[t] = from /\ Goto(t, to)

-----------------------------------------------------------------------------
\* The parts the two threads share.

LoopEnd(t) ==
  /\ At(t, "loop", "done") /\ i[t] = NUM_ITEMS
  /\ UNCHANGED <<shared, mutex, sems, i, item, reg, main>>

\* Mutant: the mutex is taken without waiting for it.
LockUnguarded(t, to) ==
  /\ At(t, "lock", to)
  /\ mutex' = t
  /\ UNCHANGED <<shared, sems, i, item, reg, main>>

Lock(t, to) ==
  /\ At(t, "lock", to)
  /\ mutex = Free /\ mutex' = t
  /\ UNCHANGED <<shared, sems, i, item, reg, main>>

Unlock(t) ==
  /\ At(t, "unlock", "post")
  /\ mutex' = Free
  /\ UNCHANGED <<shared, sems, i, item, reg, main>>

\* Mutant: the index is advanced without wrapping.
NextSlotStuck(k) == IF k + 1 = BUFFER_SIZE THEN k ELSE k + 1
NextSlot(k) == (k + 1) % BUFFER_SIZE

-----------------------------------------------------------------------------
\* producer

Produce ==
  /\ At(P, "loop", "wait") /\ i[P] < NUM_ITEMS
  /\ \E c \in Chars : item' = [item EXCEPT ![P] = c]
  /\ UNCHANGED <<shared, mutex, sems, i, reg, main>>

\* Mutant: the producer does not wait for an empty slot.
WaitEmptyNot ==
  /\ At(P, "wait", "lock")
  /\ UNCHANGED <<shared, mutex, sems, i, item, reg, main>>
WaitEmpty ==
  /\ At(P, "wait", "lock")
  /\ empty > 0 /\ empty' = empty - 1
  /\ UNCHANGED <<shared, mutex, full, i, item, reg, main>>

Put ==
  /\ At(P, "put", "count")
  /\ buffer' = [buffer EXCEPT ![in] = item[P]]
  /\ in' = NextSlot(in)
  /\ reg' = [reg EXCEPT ![P] = count]
  /\ UNCHANGED <<out, count, mutex, sems, i, item, main>>

CountUp ==
  /\ At(P, "count", "unlock")
  /\ count' = reg[P] + 1
  /\ UNCHANGED <<buffer, in, out, mutex, sems, i, item, reg, main>>

PostFull ==
  /\ At(P, "post", "loop")
  /\ full' = full + 1
  /\ i' = [i EXCEPT ![P] = @ + 1]
  /\ UNCHANGED <<shared, mutex, empty, item, reg, main>>

Producer ==
  Produce \/ WaitEmpty \/ Lock(P, "put") \/ Put \/ CountUp \/ Unlock(P) \/ PostFull
    \/ LoopEnd(P)

-----------------------------------------------------------------------------
\* consumer

Consume ==
  /\ At(C, "loop", "wait") /\ i[C] < NUM_ITEMS
  /\ UNCHANGED <<shared, mutex, sems, i, item, reg, main>>

WaitFull ==
  /\ At(C, "wait", "lock")
  /\ full > 0 /\ full' = full - 1
  /\ UNCHANGED <<shared, mutex, empty, i, item, reg, main>>

Take ==
  /\ At(C, "take", "count")
  /\ item' = [item EXCEPT ![C] = buffer[out]]
  /\ out' = NextSlot(out)
  /\ reg' = [reg EXCEPT ![C] = count]
  /\ UNCHANGED <<buffer, in, count, mutex, sems, i, main>>

CountDown ==
  /\ At(C, "count", "unlock")
  /\ count' = reg[C] - 1
  /\ UNCHANGED <<buffer, in, out, mutex, sems, i, item, reg, main>>

PostEmpty ==
  /\ At(C, "post", "loop")
  /\ empty' = empty + 1
  /\ i' = [i EXCEPT ![C] = @ + 1]
  /\ UNCHANGED <<shared, mutex, full, item, reg, main>>

Consumer ==
  Consume \/ WaitFull \/ Lock(C, "take") \/ Take \/ CountDown \/ Unlock(C)
    \/ PostEmpty \/ LoopEnd(C)

-----------------------------------------------------------------------------
\* main

Create(t, from, to) ==
  /\ main = from /\ main' = to
  /\ At(t, "unborn", "loop")
  /\ UNCHANGED <<shared, mutex, sems, i, item, reg>>

Join(t, from, to) ==
  /\ main = from /\ main' = to
  /\ pc[t] = "done"
  /\ UNCHANGED <<shared, mutex, sems, pc, i, item, reg>>

Main ==
  \/ Create(P, "create_producer", "create_consumer")
  \/ Create(C, "create_consumer", "join_producer")
  \/ Join(P, "join_producer", "join_consumer")
  \/ Join(C, "join_consumer", "destroy")

Next == Producer \/ Consumer \/ Main

Spec == Init /\ [][Next]_vars

-----------------------------------------------------------------------------
Inside == {"put", "take", "count", "unlock"}
Pcs == {"unborn", "loop", "wait", "lock", "post", "done"} \cup Inside
MainPcs == {"create_producer", "create_consumer", "join_producer",
            "join_consumer", "destroy"}

\* 1 for a thread that is at one of these places.
One(t, places) == IF pc[t] \in places THEN 1 ELSE 0

\* The characters in the buffer: count, but for a thread between its change of
\* the buffer and its change of count.
Items == count + One(P, {"count"}) - One(C, {"count"})

\* Every variable keeps its type: the indices stay in the buffer, and no
\* semaphore goes below zero or over the number of slots.
TypeOK ==
  /\ buffer \in [Slots -> Chars \cup {NoChar}]
  /\ in \in Slots /\ out \in Slots
  /\ count \in 0 .. BUFFER_SIZE
  /\ mutex \in Threads \cup {Free}
  /\ empty \in 0 .. BUFFER_SIZE /\ full \in 0 .. BUFFER_SIZE
  /\ pc \in [Threads -> Pcs]
  /\ i \in [Threads -> 0 .. NUM_ITEMS]
  /\ item \in [Threads -> Chars \cup {NoChar}]
  /\ reg \in [Threads -> 0 .. BUFFER_SIZE]
  /\ main \in MainPcs

\* One thread at a time is between pthread_mutex_lock and unlock.
MutualExclusion ==
  /\ \A t \in Threads : pc[t] \in Inside => mutex = t
  /\ ~(pc[P] \in Inside /\ pc[C] \in Inside)

\* The semaphores account for every slot: what neither counts is in the hands
\* of a thread between its sem_wait and its sem_post.
Holding == Inside \cup {"lock", "post"}
SlotsConserved ==
  empty + full + One(P, Holding) + One(C, Holding) = BUFFER_SIZE

\* When the mutex is free, count is what the semaphores say: the full slots,
\* one the producer has filled and not yet posted, and one the consumer has
\* claimed and not yet emptied.
CountExact ==
  mutex = Free => count = full + One(P, {"post"}) + One(C, {"lock"})

\* The producer never writes into a slot that holds a character the consumer
\* has not taken, and the consumer never takes from an empty buffer.
NoOverrun ==
  /\ pc[P] = "put" => Items < BUFFER_SIZE
  /\ pc[C] = "take" => Items > 0

\* "Final buffer count: %d (should be 0)": when main has joined both threads,
\* the buffer is empty and the indices meet.
EndsEmpty ==
  main = "destroy" => /\ count = 0 /\ in = out /\ mutex = Free
                      /\ empty = BUFFER_SIZE /\ full = 0

\* The buffer is a first-in first-out queue of at most BUFFER_SIZE characters:
\* in and out walk the slots in the order the characters were put, across the
\* wrap of both indices.
Fifo == INSTANCE BoundedFifo WITH
  queue <- [k \in 1 .. Items |-> buffer[(out + k - 1) % BUFFER_SIZE]],
  got <- item[C]
IsFifo == Fifo!Spec
=============================================================================
