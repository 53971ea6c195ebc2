----------------------------- MODULE SyncDemos -----------------------------
(***************************************************************************)
(* simplified_synchronization_explained.cpp: three demonstrations, each    *)
(* with its own threads, one after the other.  LCM_Farming: Larry digs     *)
(* holes, Curley plants in them, Moe fills them.  ProducerConsumer: two    *)
(* producers and two consumers of three items each.  DiningPhilosophers:   *)
(* five of them, one meal each, the lower chopstick first.                 *)
(*                                                                         *)
(* A step is an acquire() or a lock(), or what follows up to the next one  *)
(* or the next access to a shared queue; a release() belongs to the step   *)
(* before it, since it only enables others.                                *)
(***************************************************************************)
EXTENDS Integers, Sequences, FiniteSets

CONSTANTS
  Holes,       \* how many holes Larry digs: 5 in the code
  Ahead,       \* dig_hole: how many of them at most before Moe fills one: 3
  PerThread,   \* how many items a producer makes, and a consumer takes: 3
  Room,        \* empty: slots of the buffer: 5
  Seats        \* philosophers and chopsticks: 5

ASSUME DemoAssumption ==
  /\ Holes \in Nat \ {0} /\ Ahead \in Nat \ {0}
  /\ PerThread \in Nat \ {0} /\ Room \in Nat \ {0} /\ Seats \in Nat \ {0, 1}

VARIABLES
  demo,    \* the demonstration that runs
  tpc,     \* where its threads are
  has,     \* what each of them has in hand, or has counted
  sem,     \* the values of its semaphores
  line,    \* its std::queue
  taken,   \* what the consumers have printed
  holder   \* who holds each chopstick

demoVars == <<demo, tpc, has, sem, line, taken, holder>>
table == <<taken, holder>>

IsAt(t, label) == tpc[t] = label
Move(t, label) == tpc' = [tpc EXCEPT ![t] = label]

\* acquire() and release().
Acquire(s) == sem[s] > 0 /\ sem' = [sem EXCEPT ![s] = @ - 1]
Release(s) == sem' = [sem EXCEPT ![s] = @ + 1]

-----------------------------------------------------------------------------
\* LCM_Farming

Larry == 1
Curley == 2
Moe == 3

\* A hole: its number, and how often Curley has planted in it.
Dug(n) == [no |-> n, seeds |-> 0]
LastHole(h) == h.no = Holes - 1

DemoInit ==
  /\ demo = "farm"
  /\ tpc = [t \in 1 .. 3 |-> IF t = Larry THEN "ask" ELSE "wait"]
  /\ has = [t \in 1 .. 3 |-> Dug(0)]
  /\ sem = [shovel |-> 1, dig_hole |-> Ahead, curley |-> 0, moe |-> 0]
  /\ line = <<>> /\ taken = <<>> /\ holder = <<>>

\* larry_digger.  Mutant: Larry does not ask for permission.
LarryAsksNot ==
  /\ IsAt(Larry, "ask") /\ Move(Larry, "shovel")
  /\ UNCHANGED <<demo, has, sem, line, table>>
LarryAsks ==
  /\ IsAt(Larry, "ask") /\ Move(Larry, "shovel")
  /\ Acquire("dig_hole")
  /\ UNCHANGED <<demo, has, line, table>>

LarryTakesShovel ==
  /\ IsAt(Larry, "shovel") /\ Move(Larry, "dig")
  /\ Acquire("shovel")
  /\ UNCHANGED <<demo, has, line, table>>

LarryDigs ==
  /\ IsAt(Larry, "dig") /\ Move(Larry, "return")
  /\ line' = Append(line, Dug(has[Larry].no))
  /\ UNCHANGED <<demo, has, sem, table>>

LarryReturnsShovel ==
  /\ IsAt(Larry, "return")
  /\ sem' = [sem EXCEPT !.shovel = @ + 1, !.curley = @ + 1]
  /\ has' = [has EXCEPT ![Larry].no = @ + 1]
  /\ Move(Larry, IF has'[Larry].no >= Holes THEN "end" ELSE "ask")
  /\ UNCHANGED <<demo, line, table>>

\* front() and pop(): whatever hole is in front.
FrontInto(t) == line # <<>> /\ line' = Tail(line) /\ has' = [has EXCEPT ![t] = Head(line)]

\* curley_planter
CurleyWaits ==
  /\ IsAt(Curley, "wait") /\ Move(Curley, "take")
  /\ Acquire("curley")
  /\ UNCHANGED <<demo, has, line, table>>

CurleyTakes ==
  /\ IsAt(Curley, "take") /\ Move(Curley, "put")
  /\ FrontInto(Curley)
  /\ UNCHANGED <<demo, sem, table>>

CurleyPuts ==
  /\ IsAt(Curley, "put")
  /\ line' = Append(line, [has[Curley] EXCEPT !.seeds = @ + 1])
  /\ Release("moe")
  /\ Move(Curley, IF LastHole(has[Curley]) THEN "end" ELSE "wait")
  /\ UNCHANGED <<demo, has, table>>

\* moe_filler
MoeWaits ==
  /\ IsAt(Moe, "wait") /\ Move(Moe, "take")
  /\ Acquire("moe")
  /\ UNCHANGED <<demo, has, line, table>>

MoeTakes ==
  /\ IsAt(Moe, "take") /\ Move(Moe, "shovel")
  /\ FrontInto(Moe)
  /\ UNCHANGED <<demo, sem, table>>

MoeTakesShovel ==
  /\ IsAt(Moe, "shovel") /\ Move(Moe, "fill")
  /\ Acquire("shovel")
  /\ UNCHANGED <<demo, has, line, table>>

MoeFills ==
  /\ IsAt(Moe, "fill")
  /\ sem' = [sem EXCEPT !.shovel = @ + 1, !.dig_hole = @ + 1]
  /\ Move(Moe, IF LastHole(has[Moe]) THEN "end" ELSE "wait")
  /\ UNCHANGED <<demo, has, line, table>>

\* The queue has no lock.  Two threads that are about to use it may do so at once,
\* and the program may then crash.
AtQueue == {t \in DOMAIN tpc : tpc[t] \in {"dig", "take", "put"}}
Race ==
  /\ demo = "farm"
  /\ \E t, u \in AtQueue : t # u
  /\ demo' = "crashed"
  /\ UNCHANGED <<tpc, has, sem, line, table>>

Farmer(t) ==
  /\ demo = "farm"
  /\ \/ t = Larry /\ (LarryAsks \/ LarryTakesShovel \/ LarryDigs \/ LarryReturnsShovel)
     \/ t = Curley /\ (CurleyWaits \/ CurleyTakes \/ CurleyPuts)
     \/ t = Moe /\ (MoeWaits \/ MoeTakes \/ MoeTakesShovel \/ MoeFills)

-----------------------------------------------------------------------------
\* ProducerConsumer

Producers == {1, 2}
Consumers == {3, 4}

StartItems ==
  /\ demo' = "items"
  /\ tpc' = [t \in Producers \cup Consumers |-> "wait"]
  /\ has' = [t \in Producers \cup Consumers |-> 0]
  /\ sem' = [empty |-> Room, full |-> 0]
  /\ line' = <<>> /\ UNCHANGED table

\* producer, and consumer: the semaphore, the section under buffer_mutex, the post.
WaitsFor(t) == IF t \in Producers THEN "empty" ELSE "full"
Posts(t) == IF t \in Producers THEN "full" ELSE "empty"

WaitItem(t) ==
  /\ IsAt(t, "wait") /\ Move(t, "lock")
  /\ Acquire(WaitsFor(t))
  /\ UNCHANGED <<demo, has, line, table>>

HandleItem(t) ==
  /\ IsAt(t, "lock")
  /\ IF t \in Producers
     THEN line' = Append(line, <<t, has[t]>>) /\ UNCHANGED taken
     ELSE line # <<>> /\ line' = Tail(line) /\ taken' = Append(taken, Head(line))
  /\ has' = [has EXCEPT ![t] = @ + 1]
  /\ Release(Posts(t))
  /\ Move(t, IF has'[t] >= PerThread THEN "end" ELSE "wait")
  /\ UNCHANGED <<demo, holder>>

ItemThread(t) == demo = "items" /\ (WaitItem(t) \/ HandleItem(t))

-----------------------------------------------------------------------------
\* DiningPhilosophers: philosopher and chopstick k of the code are k + 1 here.

Philosophers == 1 .. Seats
Nobody == 0

StartTable ==
  /\ demo' = "table"
  /\ tpc' = [t \in Philosophers |-> "first"]
  /\ has' = [t \in Philosophers |-> 0]
  /\ sem' = <<>> /\ line' = <<>> /\ taken' = <<>>
  /\ holder' = [c \in Philosophers |-> Nobody]

\* philosopher_deadlock_free, and philosopher, which nobody starts.
Left(t) == t
Right(t) == (t % Seats) + 1
LeftFirst(t) == Left(t)
Lower(t) == IF Left(t) < Right(t) THEN Left(t) ELSE Right(t)
Other(t) == IF Lower(t) = Left(t) THEN Right(t) ELSE Left(t)

PickUp(t, c, from, to) ==
  /\ IsAt(t, from) /\ Move(t, to)
  /\ holder[c] = Nobody /\ holder' = [holder EXCEPT ![c] = t]
  /\ UNCHANGED <<demo, has, sem, line, taken>>

Eat(t) ==
  /\ IsAt(t, "eat") /\ Move(t, "end")
  /\ holder' = [c \in Philosophers |-> IF holder[c] = t THEN Nobody ELSE holder[c]]
  /\ UNCHANGED <<demo, has, sem, line, taken>>

Philosopher(t) ==
  /\ demo = "table"
  /\ PickUp(t, Lower(t), "first", "second") \/ PickUp(t, Other(t), "second", "eat") \/ Eat(t)

-----------------------------------------------------------------------------
\* main joins the threads of one demonstration before it starts the next.
JoinAll ==
  /\ demo \in {"farm", "items", "table"}
  /\ \A t \in DOMAIN tpc : IsAt(t, "end")
  /\ \/ demo = "farm" /\ StartItems
     \/ demo = "items" /\ StartTable
     \/ /\ demo = "table" /\ demo' = "end"
        /\ UNCHANGED <<tpc, has, sem, line, table>>

DemoThread(t) ==
  /\ t \in DOMAIN tpc
  /\ Farmer(t) \/ ItemThread(t) \/ Philosopher(t)

-----------------------------------------------------------------------------
\* Whatever hole each of the farmers takes: the shovel is in one hand at a time,
\* nobody takes from an empty queue, and Larry is never more than Ahead holes
\* ahead of Moe.
FarmInStep ==
  demo = "farm" =>
    /\ ~(tpc[Larry] \in {"dig", "return"} /\ IsAt(Moe, "fill"))
    /\ Len(line) >= Cardinality({t \in {Curley, Moe} : IsAt(t, "take")})
    /\ Len(line) <= Ahead

\* "Moe fills holes after seeds planted": the hole Moe fills has a seed.
MoeFillsPlanted ==
  demo = "farm" /\ tpc[Moe] \in {"shovel", "fill"} => has[Moe].seeds > 0

\* Items that the producers have made, the earlier ones of each of them first.
InTurn(items, made) ==
  /\ \A k \in DOMAIN items : \E t \in Producers :
       items[k][1] = t /\ items[k][2] \in 0 .. made[t] - 1
  /\ \A j, k \in DOMAIN items :
       j < k /\ items[j][1] = items[k][1] => items[j][2] < items[k][2]

\* Items are taken in the order in which each producer made them, none of them
\* twice or left out, and all of them by the time main joins.
ItemsInOrder ==
  demo = "items" =>
    /\ Len(line) <= Room
    /\ InTurn(taken \o line, has) /\ Len(taken \o line) = has[1] + has[2]
    /\ (\A t \in Consumers : IsAt(t, "end")) => line = <<>>

\* A farmer has met a hole that was left out of turn.
OutOfTurn ==
  /\ demo = "farm"
  /\ \/ IsAt(Curley, "put") /\ has[Curley].seeds > 0
     \/ tpc[Moe] \in {"shovel", "fill"} /\ has[Moe].seeds = 0

DemoOver == demo \in {"end", "crashed"}
=============================================================================
