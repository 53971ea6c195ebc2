---------------------------- MODULE BoundedFifo ----------------------------
(***************************************************************************)
(* What project_2/bounded_buffer.c promises: a queue of at most            *)
(* BUFFER_SIZE characters that a producer appends to and a consumer takes  *)
(* the oldest character from.                                              *)
(***************************************************************************)
EXTENDS Naturals, Sequences

CONSTANTS
  BUFFER_SIZE,  \* how many characters the queue holds
  Chars,        \* the characters
  NoChar        \* what the consumer has before the first one

VARIABLES
  queue,        \* the characters put and not yet got, the oldest first
  got           \* the character got last

Init == queue = <<>> /\ got = NoChar

Put(c) ==
  /\ Len(queue) < BUFFER_SIZE
  /\ queue' = Append(queue, c)
  /\ UNCHANGED got

Get ==
  /\ queue # <<>>
  /\ got' = Head(queue)
  /\ queue' = Tail(queue)

Next == Get \/ \E c \in Chars : Put(c)

Spec == Init /\ [][Next]_<<queue, got>>
=============================================================================
