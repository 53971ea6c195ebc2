------------------------------ MODULE Airline ------------------------------
(***************************************************************************)
(* project_2/airline.c: passengers go through three stages, each with a     *)
(* queue of passenger indices (task_queue_t), a pool of worker threads and  *)
(* a semaphore that counts the workers available; per passenger and stage a *)
(* semaphore tells that the stage is done.  The last flight attendant wakes *)
(* main, which sends every worker home with an index of -1 and joins all    *)
(* threads.                                                                 *)
(*                                                                         *)
(* A step is a sem_wait, or what follows up to the next sem_wait or the     *)
(* next change of state another thread looks at: a mutex section with the   *)
(* sem_post after it is one step, since a post only enables the others.    *)
(* Memory allocation and the primitives succeed; the threads exist from the *)
(* start, since one that main has not created yet is one that has not run.  *)
(***************************************************************************)
EXTENDS Integers, FiniteSets

CONSTANTS
  Passengers,   \* the passenger threads
  Handlers,     \* the baggage handlers
  Screeners,    \* the security screeners
  Attendants,   \* the flight attendants
  Stop          \* the index -1, which ends a worker

ASSUME PoolsAssumption ==
  /\ \A S \in {Passengers, Handlers, Screeners, Attendants} :
       IsFiniteSet(S) /\ S # {}
  /\ Handlers \cap Screeners = {} /\ Handlers \cap Attendants = {}
  /\ Screeners \cap Attendants = {}
  /\ Stop \notin Passengers

Stages == 1 .. 3
Pool(st) == CASE st = 1 -> Handlers [] st = 2 -> Screeners [] st = 3 -> Attendants
Workers == Handlers \cup Screeners \cup Attendants
StageOf(w) == CHOOSE st \in Stages : w \in Pool(st)

\* capacity of every queue
Capacity == Cardinality(Passengers)
Slots == 0 .. Capacity - 1

\* passenger_state_t, in order; a worker of stage st sets Working(st), Done(st).
ARRIVED == 0
SEATED == 6
States == ARRIVED .. SEATED
Working(st) == 2 * st - 1
Done(st) == 2 * st

VARIABLES
  state,      \* passengers[].state
  buffer, head, tail, items, spaces,   \* the task_queue_t of each stage
  available,  \* the workers each stage's semaphore counts
  done,       \* passenger_sync: the semaphore of each stage and passenger
  seated,     \* passengers_seated
  allSeated,  \* all_seated_sem
  ppc, pstage,\* where a passenger thread is, and at which stage
  wpc, job,   \* where a worker thread is, and the index it has popped
  main, stops \* where main is, and the -1 it has still to push at each stage

queues  == <<buffer, head, tail, items, spaces>>
counter == <<seated, allSeated>>
pass    == <<ppc, pstage>>
work    == <<wpc, job>>
mains   == <<main, stops>>
vars    == <<state, queues, available, done, counter, pass, work, mains>>

Init ==
  /\ state = [p \in Passengers |-> ARRIVED]
  /\ buffer = [st \in Stages |-> [k \in Slots |-> Stop]]
  /\ head = [st \in Stages |-> 0] /\ tail = [st \in Stages |-> 0]
  /\ items = [st \in Stages |-> 0] /\ spaces = [st \in Stages |-> Capacity]
  /\ available = [st \in Stages |-> Cardinality(Pool(st))]
  /\ done = [st \in Stages |-> [p \in Passengers |-> 0]]
  /\ seated = 0 /\ allSeated = 0
  /\ ppc = [p \in Passengers |-> "arrive"] /\ pstage = [p \in Passengers |-> 1]
  /\ wpc = [w \in Workers |-> "wait"] /\ job = [w \in Workers |-> Stop]
  /\ main = "wait" /\ stops = [st \in Stages |-> Cardinality(Pool(st))]

Goto(p, to) == ppc' = [ppc EXCEPT ![p] = to]
GotoW(w, to) == wpc' = [wpc EXCEPT ![w] = to]

-----------------------------------------------------------------------------
\* task_queue_t

Up(sem, st) == [sem EXCEPT ![st] = @ + 1]
Down(sem, st) == [sem EXCEPT ![st] = @ - 1]

SpaceTaken(st) ==
  /\ spaces[st] > 0 /\ spaces' = Down(spaces, st)
  /\ UNCHANGED <<buffer, head, tail, items>>

\* Mutant: the tail does not move.
PushedInPlace(st, v) ==
  /\ buffer' = [buffer EXCEPT ![st][tail[st]] = v]
  /\ items' = Up(items, st)
  /\ UNCHANGED <<head, tail, spaces>>
Pushed(st, v) ==
  /\ buffer' = [buffer EXCEPT ![st][tail[st]] = v]
  /\ tail' = [tail EXCEPT ![st] = (@ + 1) % Capacity]
  /\ items' = Up(items, st)
  /\ UNCHANGED <<head, spaces>>

ItemTaken(st) ==
  /\ items[st] > 0 /\ items' = Down(items, st)
  /\ UNCHANGED <<buffer, head, tail, spaces>>

Popped(st) ==
  /\ head' = [head EXCEPT ![st] = (@ + 1) % Capacity]
  /\ spaces' = Up(spaces, st)
  /\ UNCHANGED <<buffer, tail, items>>

-----------------------------------------------------------------------------
\* passenger_thread

Arrive(p) ==
  /\ ppc[p] = "arrive" /\ Goto(p, "worker")
  /\ state' = [state EXCEPT ![p] = ARRIVED]
  /\ UNCHANGED <<queues, available, done, counter, pstage, work, mains>>

\* Mutant: the passenger does not wait for a worker.
WaitWorkerNot(p) ==
  /\ ppc[p] = "worker" /\ Goto(p, "space")
  /\ available' = Down(available, pstage[p])
  /\ UNCHANGED <<state, queues, done, counter, pstage, work, mains>>
WaitWorker(p) ==
  /\ ppc[p] = "worker" /\ Goto(p, "space")
  /\ available[pstage[p]] > 0
  /\ available' = Down(available, pstage[p])
  /\ UNCHANGED <<state, queues, done, counter, pstage, work, mains>>

WaitSpace(p) ==
  /\ ppc[p] = "space" /\ Goto(p, "push")
  /\ SpaceTaken(pstage[p])
  /\ UNCHANGED <<state, available, done, counter, pstage, work, mains>>

Push(p) ==
  /\ ppc[p] = "push" /\ Goto(p, "served")
  /\ Pushed(pstage[p], p)
  /\ UNCHANGED <<state, available, done, counter, pstage, work, mains>>

\* Mutant: the passenger does not wait until the stage is done.
WaitDoneNot(p) ==
  /\ ppc[p] = "served"
  /\ IF pstage[p] < 3
     THEN pstage' = [pstage EXCEPT ![p] = @ + 1] /\ Goto(p, "worker")
     ELSE Goto(p, "end") /\ UNCHANGED pstage
  /\ UNCHANGED <<state, queues, available, done, counter, work, mains>>
WaitDone(p) ==
  /\ ppc[p] = "served"
  /\ done[pstage[p]][p] > 0
  /\ done' = [done EXCEPT ![pstage[p]][p] = @ - 1]
  /\ IF pstage[p] < 3
     THEN pstage' = [pstage EXCEPT ![p] = @ + 1] /\ Goto(p, "worker")
     ELSE Goto(p, "end") /\ UNCHANGED pstage
  /\ UNCHANGED <<state, queues, available, counter, work, mains>>

Passenger(p) ==
  Arrive(p) \/ WaitWorker(p) \/ WaitSpace(p) \/ Push(p) \/ WaitDone(p)

-----------------------------------------------------------------------------
\* baggage_handler, security_screener, flight_attendant

WaitItem(w) ==
  /\ wpc[w] = "wait" /\ GotoW(w, "pop")
  /\ ItemTaken(StageOf(w))
  /\ UNCHANGED <<state, available, done, counter, pass, job, mains>>

\* Mutant: the worker goes on after a -1.
PopNoEnd(w) ==
  LET v == buffer[StageOf(w)][head[StageOf(w)]]
  IN  /\ wpc[w] = "pop"
      /\ GotoW(w, IF v = Stop THEN "wait" ELSE "begin")
      /\ job' = [job EXCEPT ![w] = v]
      /\ Popped(StageOf(w))
      /\ UNCHANGED <<state, available, done, counter, pass, mains>>
Pop(w) ==
  LET v == buffer[StageOf(w)][head[StageOf(w)]]
  IN  /\ wpc[w] = "pop"
      /\ GotoW(w, IF v = Stop THEN "end" ELSE "begin")
      /\ job' = [job EXCEPT ![w] = v]
      /\ Popped(StageOf(w))
      /\ UNCHANGED <<state, available, done, counter, pass, mains>>

Begin(w) ==
  /\ wpc[w] = "begin" /\ GotoW(w, "finish")
  /\ state' = [state EXCEPT ![job[w]] = Working(StageOf(w))]
  /\ UNCHANGED <<queues, available, done, counter, pass, job, mains>>

Finish(w) ==
  /\ wpc[w] = "finish"
  /\ GotoW(w, IF StageOf(w) = 3 THEN "count" ELSE "release")
  /\ state' = [state EXCEPT ![job[w]] = Done(StageOf(w))]
  /\ done' = [done EXCEPT ![StageOf(w)][job[w]] = @ + 1]
  /\ UNCHANGED <<queues, available, counter, pass, job, mains>>

\* Mutant: the last passenger is not waited for.
CountShort(w) ==
  /\ wpc[w] = "count" /\ GotoW(w, "release")
  /\ seated' = seated + 1
  /\ allSeated' = IF seated' = Cardinality(Passengers) - 1 THEN allSeated + 1
                  ELSE allSeated
  /\ UNCHANGED <<state, queues, available, done, pass, job, mains>>
Count(w) ==
  /\ wpc[w] = "count" /\ GotoW(w, "release")
  /\ seated' = seated + 1
  /\ allSeated' = IF seated' = Cardinality(Passengers) THEN allSeated + 1
                  ELSE allSeated
  /\ UNCHANGED <<state, queues, available, done, pass, job, mains>>

Release(w) ==
  /\ wpc[w] = "release" /\ GotoW(w, "wait")
  /\ available' = Up(available, StageOf(w))
  /\ UNCHANGED <<state, queues, done, counter, pass, job, mains>>

Worker(w) ==
  WaitItem(w) \/ Pop(w) \/ Begin(w) \/ Finish(w) \/ Count(w) \/ Release(w)

-----------------------------------------------------------------------------
\* main, from the wait for the last passenger on

WaitSeated ==
  /\ main = "wait" /\ main' = "space"
  /\ allSeated > 0 /\ allSeated' = allSeated - 1
  /\ UNCHANGED <<state, queues, available, done, seated, pass, work, stops>>

\* The stage main stops now: the queues are served in order.
Stopping(st) == stops[st] > 0 /\ \A x \in Stages : x < st => stops[x] = 0

StopSpace ==
  /\ main = "space" /\ main' = "push"
  /\ \E st \in Stages : Stopping(st) /\ SpaceTaken(st)
  /\ UNCHANGED <<state, available, done, counter, pass, work, stops>>

StopPush ==
  /\ main = "push"
  /\ \E st \in Stages :
       /\ Stopping(st) /\ Pushed(st, Stop)
       /\ stops' = Down(stops, st)
  /\ main' = IF \A st \in Stages : stops'[st] = 0 THEN "join" ELSE "space"
  /\ UNCHANGED <<state, available, done, counter, pass, work>>

Join ==
  /\ main = "join" /\ main' = "departed"
  /\ \A p \in Passengers : ppc[p] = "end"
  /\ \A w \in Workers : wpc[w] = "end"
  /\ UNCHANGED <<state, queues, available, done, counter, pass, work, stops>>

Main == WaitSeated \/ StopSpace \/ StopPush \/ Join

Next ==
  Main \/ (\E p \in Passengers : Passenger(p)) \/ (\E w \in Workers : Worker(w))

Spec == Init /\ [][Next]_vars

\* Every thread that can run does, and a thread that waits for a semaphore gets
\* it if it stays above zero: the others take each one a bounded number of times.
Fairness ==
  /\ WF_vars(Main)
  /\ \A p \in Passengers : WF_vars(Passenger(p))
  /\ \A w \in Workers : WF_vars(Worker(w))
FairSpec == Spec /\ Fairness

-----------------------------------------------------------------------------
\* The passengers that stand in a queue: what it holds between head and tail,
\* items not yet claimed and items a worker is about to pop.
Claimed(st) == Cardinality({w \in Pool(st) : wpc[w] = "pop"})
Held(st) == {(head[st] + k) % Capacity : k \in 0 .. items[st] + Claimed(st) - 1}
Queued(st, p) == Cardinality({k \in Held(st) : buffer[st][k] = p})
Serving(st, p) ==
  Cardinality({w \in Pool(st) : wpc[w] \in {"begin", "finish"} /\ job[w] = p})

\* Every variable keeps its type; no semaphore exceeds what it counts.
TypeOK ==
  /\ state \in [Passengers -> States]
  /\ buffer \in [Stages -> [Slots -> Passengers \cup {Stop}]]
  /\ head \in [Stages -> Slots] /\ tail \in [Stages -> Slots]
  /\ items \in [Stages -> 0 .. Capacity] /\ spaces \in [Stages -> 0 .. Capacity]
  /\ \A st \in Stages : available[st] \in 0 .. Cardinality(Pool(st))
  /\ done \in [Stages -> [Passengers -> 0 .. 1]]
  /\ seated \in 0 .. Cardinality(Passengers) /\ allSeated \in 0 .. 1
  /\ ppc \in [Passengers -> {"arrive", "worker", "space", "push", "served", "end"}]
  /\ pstage \in [Passengers -> Stages]
  /\ wpc \in [Workers ->
                {"wait", "pop", "begin", "finish", "count", "release", "end"}]
  /\ job \in [Workers -> Passengers \cup {Stop}]
  /\ main \in {"wait", "space", "push", "join", "departed"}
  /\ \A st \in Stages : stops[st] \in 0 .. Cardinality(Pool(st))

\* A passenger who has asked for a stage is in exactly one place: in the queue,
\* in the hands of one worker, or done.  No index is lost, overwritten in the
\* circular buffer, or served twice.
ServedOnce ==
  \A p \in Passengers, st \in Stages :
    Queued(st, p) + Serving(st, p) + done[st][p]
      = IF ppc[p] = "served" /\ pstage[p] = st THEN 1 ELSE 0

\* A passenger admitted to a stage never waits behind another one: for every
\* index in the queue there is a worker of that stage at its queue_pop, or about
\* to come back to it with nothing else to do.
AdmittedIsServed ==
  \A st \in Stages :
    Cardinality({k \in Held(st) : buffer[st][k] # Stop})
      <= Cardinality({w \in Pool(st) : wpc[w] \in {"wait", "pop"}})

\* The plane leaves full: main sends no worker home before every passenger is
\* seated and counted.
LeavesFull ==
  main # "wait" => /\ \A p \in Passengers : state[p] = SEATED
                   /\ seated = Cardinality(Passengers)

\* A passenger's state goes through the stages in order and never back, although
\* three workers and the passenger's own thread write it.
StagesInOrder ==
  [][\A p \in Passengers : state'[p] \in {state[p], state[p] + 1}]_state

\* Every passenger is seated, every worker is sent home and main joins them all.
Departs == <>(main = "departed")
=============================================================================
