----------------------------- MODULE AsyncCopy -----------------------------
(***************************************************************************)
(* src/production_io_demo/cpu_io_demo.c: one thread copies a file through  *)
(* a pool of buffers with POSIX AIO.  Each buffer in turn is read into,    *)
(* transformed and written, at the offset it was read from, while the      *)
(* kernel ends the requests in any order; the loop wakes up when one of    *)
(* them has ended and scans all buffers.                                   *)
(*                                                                         *)
(* A unit of the file stands for its bytes.  Only aio_error 0 is handled:  *)
(* a request that fails stays in flight for the loop.                      *)
(***************************************************************************)
EXTENDS Integers

CONSTANTS
  CopyBlock,    \* units of a chunk
  MaxTotal,     \* the longest file
  Depths,       \* the depths that may be asked for
  CopyFaults    \* what may go wrong, each of it once

ASSUME CopyAssumption ==
  /\ CopyBlock \in Nat \ {0} /\ MaxTotal \in Nat /\ Depths \subseteq Int
  /\ CopyFaults \subseteq {"submit", "error", "short_read", "short_write"}

VARIABLES
  total,             \* st_size of the input
  bufs,              \* the pool
  next_off, completed_writes,
  dest,              \* the output, whose length ftruncate has set
  at, scan,          \* where main is, and the buffer its loop is at
  faults             \* what has gone wrong

counters == <<next_off, completed_writes>>
copyPlace == <<at, scan>>
copyVars == <<total, bufs, counters, dest, copyPlace, faults>>

Depth(d) == IF d < 1 THEN 1 ELSE IF d > 64 THEN 64 ELSE d

\* Unit k of the input, as it is and transformed; xor twice gives it back.
Raw(k) == [unit |-> k, xored |-> FALSE]
transform(u) == [u EXCEPT !.xored = ~@]
Hole == [unit |-> 0, xored |-> FALSE]

total_chunks == (total + CopyBlock - 1) \div CopyBlock

\* A buffer; io and result are what the kernel says of its request.
Unused == [st |-> "free", off |-> 0, size |-> 0, data |-> <<>>,
           io |-> "none", result |-> 0]

CopyInit ==
  /\ total \in 0 .. MaxTotal
  /\ \E d \in Depths : bufs = [b \in 1 .. Depth(d) |-> Unused]
  /\ next_off = 0 /\ completed_writes = 0
  /\ dest = [k \in 1 .. total |-> Hole]
  /\ at = "prime" /\ scan = 1 /\ faults = {}

-----------------------------------------------------------------------------
\* The kernel ends the request of buffer b: whole, or in part, or not at all.
Fault(f) == f \in CopyFaults \ faults /\ faults' = faults \cup {f}

Result(b, n, short) ==
  \/ n = bufs[b].size /\ UNCHANGED faults
  \/ n \in 0 .. bufs[b].size - 1 /\ Fault(short)

Pending(b, st) == bufs[b].st = st /\ bufs[b].io = "pending"
Ended(b, n, data) ==
  bufs' = [bufs EXCEPT ![b].io = "ok", ![b].result = n, ![b].data = data]

ReadEnds(b) ==
  /\ Pending(b, "read")
  /\ \E n \in 0 .. bufs[b].size :
       /\ Result(b, n, "short_read")
       /\ Ended(b, n, [j \in 1 .. n |-> Raw(bufs[b].off + j)])
  /\ UNCHANGED <<total, counters, dest, copyPlace>>

WriteEnds(b) ==
  /\ Pending(b, "write")
  /\ \E n \in 0 .. bufs[b].size :
       /\ Result(b, n, "short_write")
       /\ Ended(b, n, bufs[b].data)
       /\ dest' = [k \in 1 .. total |->
                     IF k - bufs[b].off \in 1 .. n THEN bufs[b].data[k - bufs[b].off]
                     ELSE dest[k]]
  /\ UNCHANGED <<total, counters, copyPlace>>

RequestFails(b) ==
  /\ Pending(b, "read") \/ Pending(b, "write")
  /\ Fault("error")
  /\ bufs' = [bufs EXCEPT ![b].io = "error"]
  /\ UNCHANGED <<total, counters, dest, copyPlace>>

Kernel(b) == ReadEnds(b) \/ WriteEnds(b) \/ RequestFails(b)

-----------------------------------------------------------------------------
\* main.  When aio_read or aio_write refuses a request, the program dies.
Refused ==
  /\ Fault("submit") /\ at' = "died"
  /\ UNCHANGED <<total, bufs, counters, dest, scan>>

NextBuffer == scan' = scan + 1 /\ UNCHANGED at

\* Mutant: the offset is taken after it has been advanced.
ReadOffLate(n) == next_off + n
ReadOff(n) == next_off

\* The next chunk of the input, into buffer b.
submit_read(b) ==
  LET n == IF next_off + CopyBlock <= total THEN CopyBlock ELSE total - next_off
  IN /\ bufs' = [bufs EXCEPT ![b].st = "read", ![b].off = ReadOff(n), ![b].size = n,
                             ![b].io = "pending"]
     /\ next_off' = next_off + n

Prime ==
  /\ at = "prime"
  /\ IF scan \in DOMAIN bufs /\ next_off < total
     THEN \/ /\ submit_read(scan) /\ NextBuffer
             /\ UNCHANGED <<total, completed_writes, dest, faults>>
          \/ Refused
     ELSE /\ at' = "loop"
          /\ UNCHANGED <<total, bufs, counters, dest, scan, faults>>

InFlight == {b \in DOMAIN bufs : bufs[b].st # "free"}

\* aio_suspend returns when a request of the list has ended, well or not.
Suspend ==
  /\ at = "loop"
  /\ IF completed_writes < total_chunks /\ InFlight # {}
     THEN /\ \E b \in InFlight : bufs[b].io # "pending"
          /\ at' = "scan" /\ scan' = 1
     ELSE at' = "end" /\ UNCHANGED scan
  /\ UNCHANGED <<total, bufs, counters, dest, faults>>

Has(b, st) == bufs[b].st = st /\ bufs[b].io = "ok"

\* submit_write with what the read has given, transformed.
ReadDone(b) ==
  /\ Has(b, "read")
  /\ \/ /\ bufs' = [bufs EXCEPT ![b].st = "write", ![b].size = bufs[b].result,
                                ![b].data = [j \in 1 .. bufs[b].result |->
                                               transform(bufs[b].data[j])],
                                ![b].io = "pending"]
        /\ NextBuffer
        /\ UNCHANGED <<total, counters, dest, faults>>
     \/ Refused

\* One more chunk is written; how much of it is not looked at.
WriteDone(b) ==
  /\ Has(b, "write")
  /\ \/ /\ IF next_off < total THEN submit_read(b)
           ELSE bufs' = [bufs EXCEPT ![b].st = "free"] /\ UNCHANGED next_off
        /\ completed_writes' = completed_writes + 1
        /\ NextBuffer
        /\ UNCHANGED <<total, dest, faults>>
     \/ next_off < total /\ Refused

NotDone(b) ==
  /\ ~Has(b, "read") /\ ~Has(b, "write")
  /\ NextBuffer
  /\ UNCHANGED <<total, bufs, counters, dest, faults>>

Scan ==
  /\ at = "scan"
  /\ IF scan \in DOMAIN bufs THEN ReadDone(scan) \/ WriteDone(scan) \/ NotDone(scan)
     ELSE at' = "loop" /\ UNCHANGED <<total, bufs, counters, dest, scan, faults>>

CopyMain == Prime \/ Suspend \/ Scan

CopyNext == CopyMain \/ \E b \in DOMAIN bufs : Kernel(b)

CopySpec == CopyInit /\ [][CopyNext]_copyVars

-----------------------------------------------------------------------------
\* What the loop has written of a chunk is right and in its place, whatever the
\* order in which the requests end and whatever fails; when main ends and all
\* went well, the output is whole.
CopyExact ==
  /\ \A k \in 1 .. total : dest[k] \in {Hole, transform(Raw(k))}
  /\ at = "end" /\ faults = {} => \A k \in 1 .. total : dest[k] # Hole

\* main has ended, or spins on a request that failed.
CopyOver == at \in {"end", "died"} \/ "error" \in faults
=============================================================================
