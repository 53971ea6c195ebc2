--------------------------- MODULE AirlineProofs ---------------------------
(***************************************************************************)
(* What TLAPS proves about Airline, for every number of passengers and      *)
(* workers: nobody is lost or served twice, nobody who was admitted waits   *)
(* behind another, the stages come in order and the plane leaves full.      *)
(***************************************************************************)
EXTENDS Airline, Multiples, FiniteSetTheorems, TLAPS

USE DEF queues, counter, pass, work, mains

-----------------------------------------------------------------------------
\* The inductive invariant.  What the semaphores count is stated with the sets
\* of threads between the wait that took a unit and the post that returns it.

Admitted(st) ==
  {p \in Passengers : ppc[p] \in {"space", "push"} /\ pstage[p] = st}
Pushing(st) == {p \in Passengers : ppc[p] = "push" /\ pstage[p] = st}
Popping(st) == {w \in Pool(st) : wpc[w] = "pop"}
Busy(st) ==
  {w \in Pool(st) : wpc[w] \in {"begin", "finish", "count", "release"}}
Counting == {w \in Workers : wpc[w] = "count"}
AtHome == {p \in Passengers : state[p] = SEATED}

\* The n slots of a queue from h on, and those a worker has not popped yet.
Ring(h, n) == {(h + k) % Capacity : k \in 0 .. n - 1}
Full(st) == items[st] + Claimed(st)
Indices(st) == {k \in Held(st) : buffer[st][k] # Stop}
At(st, p) == {k \in Held(st) : buffer[st][k] = p}
Serves(st, p) == {w \in Pool(st) : wpc[w] \in {"begin", "finish"} /\ job[w] = p}

Types ==
  /\ state \in [Passengers -> States]
  /\ buffer \in [Stages -> [Slots -> Passengers \cup {Stop}]]
  /\ head \in [Stages -> Slots] /\ tail \in [Stages -> Slots]
  /\ items \in [Stages -> Nat] /\ spaces \in [Stages -> Nat]
  /\ available \in [Stages -> Nat]
  /\ done \in [Stages -> [Passengers -> Nat]]
  /\ seated \in Nat /\ allSeated \in Nat
  /\ ppc \in [Passengers -> {"arrive", "worker", "space", "push", "served", "end"}]
  /\ pstage \in [Passengers -> Stages]
  /\ wpc \in [Workers ->
                {"wait", "pop", "begin", "finish", "count", "release", "end"}]
  /\ job \in [Workers -> Passengers \cup {Stop}]
  /\ main \in {"wait", "space", "push", "join", "departed"}
  /\ stops \in [Stages -> Nat]
  /\ \A st \in Stages : stops[st] <= Cardinality(Pool(st))

\* Every slot is free, claimed by a thread that will push, or full; and the
\* full ones are those between head and tail.
StopComing(st) == IF main = "push" /\ Stopping(st) THEN 1 ELSE 0
SlotsCounted ==
  \A st \in Stages :
    spaces[st] + Cardinality(Pushing(st)) + StopComing(st) + Full(st) = Capacity
Circular ==
  \A st \in Stages : tail[st] = (head[st] + Full(st)) % Capacity

\* Every worker is available, promised to a passenger, or busy with one.
WorkersCounted ==
  \A st \in Stages :
    available[st] + Cardinality(Admitted(st)) + Cardinality(Indices(st))
      + Cardinality(Busy(st)) = Cardinality(Pool(st))

\* The state of a passenger, by where the passenger's thread and index are.
Outside(p) ==
  /\ ppc[p] \in {"arrive", "worker", "space", "push"} =>
       state[p] = 2 * pstage[p] - 2
  /\ ppc[p] = "arrive" => pstage[p] = 1
  /\ ppc[p] = "end" => state[p] = SEATED
InQueue(st) ==
  \A k \in Held(st) :
    buffer[st][k] # Stop => state[buffer[st][k]] = 2 * st - 2
InHand(st) ==
  \A w \in Pool(st) :
    /\ wpc[w] = "begin" => job[w] # Stop /\ state[job[w]] = 2 * st - 2
    /\ wpc[w] = "finish" => job[w] # Stop /\ state[job[w]] = 2 * st - 1
    /\ wpc[w] = "count" => st = 3
IsDone(st) ==
  \A p \in Passengers : done[st][p] > 0 => state[p] = 2 * st
Progress ==
  /\ \A p \in Passengers : Outside(p)
  /\ \A st \in Stages : InQueue(st) /\ InHand(st) /\ IsDone(st)

\* The attendants count every seated passenger once, and tell main of the last.
AllCounted ==
  /\ seated + Cardinality(Counting) = Cardinality(AtHome)
  /\ allSeated + (IF main = "wait" THEN 0 ELSE 1)
       = IF seated = Cardinality(Passengers) THEN 1 ELSE 0

\* Only main pushes -1, and only when everyone is seated.
NoEarlyStop ==
  main = "wait" =>
    /\ \A st \in Stages :
         \A k \in Held(st) : buffer[st][k] # Stop
    /\ \A w \in Workers : wpc[w] # "end"

Inv ==
  /\ Types /\ SlotsCounted /\ Circular /\ WorkersCounted
  /\ ServedOnce /\ Progress /\ AllCounted /\ NoEarlyStop

-----------------------------------------------------------------------------
\* The pools and the sets counted above.

LEMMA Pools ==
  /\ \A w \in Workers : StageOf(w) \in Stages
  /\ \A st \in Stages : \A w \in Pool(st) : w \in Workers /\ StageOf(w) = st
  /\ \A w \in Workers : w \in Pool(StageOf(w))
  /\ \A st \in Stages : IsFiniteSet(Pool(st)) /\ Cardinality(Pool(st)) \in Nat
  /\ IsFiniteSet(Workers) /\ IsFiniteSet(Passengers)
<1>1. Pool(1) = Handlers /\ Pool(2) = Screeners /\ Pool(3) = Attendants
  BY DEF Pool
<1>2. Stages = {1, 2, 3}
  BY DEF Stages
<1>3. \A w \in Workers : \E st \in Stages : w \in Pool(st)
  BY <1>1, <1>2 DEF Workers
<1>4. \A w \in Workers : StageOf(w) \in Stages /\ w \in Pool(StageOf(w))
  BY <1>3 DEF StageOf
<1>5. \A st \in Stages : \A w \in Pool(st) : w \in Workers
  BY <1>1, <1>2 DEF Workers
<1>6. \A st \in Stages, sx \in Stages : st # sx => Pool(st) \cap Pool(sx) = {}
  BY <1>1, <1>2, PoolsAssumption
<1>7. \A st \in Stages : \A w \in Pool(st) : StageOf(w) = st
  BY <1>4, <1>5, <1>6
<1>8. \A st \in Stages : IsFiniteSet(Pool(st)) /\ Cardinality(Pool(st)) \in Nat
  BY <1>1, <1>2, PoolsAssumption, FS_CardinalityType
<1>9. IsFiniteSet(Handlers \cup Screeners)
  BY PoolsAssumption, FS_Union
<1>10. IsFiniteSet(Workers) /\ IsFiniteSet(Passengers)
  BY <1>9, PoolsAssumption, FS_Union DEF Workers
<1> QED
  BY <1>4, <1>5, <1>7, <1>8, <1>10

LEMMA CapacityIsPositive == Capacity \in Nat \ {0}
  BY PoolsAssumption, FS_CardinalityType, FS_EmptySet DEF Capacity

LEMMA Added ==
  ASSUME NEW S, IsFiniteSet(S), NEW x, x \notin S
  PROVE  /\ IsFiniteSet(S \cup {x})
         /\ Cardinality(S) \in Nat /\ Cardinality(S \cup {x}) = Cardinality(S) + 1
  BY FS_AddElement, FS_CardinalityType

LEMMA Taken ==
  ASSUME NEW S, IsFiniteSet(S), NEW x, x \in S
  PROVE  /\ IsFiniteSet(S \ {x}) /\ Cardinality(S \ {x}) \in Nat
         /\ Cardinality(S) \in Nat \ {0}
         /\ Cardinality(S \ {x}) = Cardinality(S) - 1
<1>1. IsFiniteSet(S \ {x}) /\ Cardinality(S \ {x}) = Cardinality(S) - 1
  BY FS_RemoveElement
<1>2. Cardinality(S) \in Nat /\ Cardinality(S \ {x}) \in Nat
  BY <1>1, FS_CardinalityType
<1> QED
  BY <1>1, <1>2

-----------------------------------------------------------------------------
\* The slots of the circular buffer.

\* An index less than two rounds, brought back into the buffer.
LEMMA Wrapped ==
  ASSUME NEW n \in Nat \ {0}, NEW a \in 0 .. 2 * n - 1
  PROVE  a % n = IF a < n THEN a ELSE a - n
<1>1. a % n = a - n * (a \div n)
  OBVIOUS
<1>2. CASE a < n
  <2>1. (n * 0 + a) \div n = 0 /\ n * 0 + a = a
    BY <1>2, Quotient
  <2> QED
    BY <1>1, <1>2, <2>1
<1>3. CASE ~(a < n)
  <2>1. a - n \in 0 .. n - 1
    BY <1>3
  <2>2. (n * 1 + (a - n)) \div n = 1 /\ n * 1 + (a - n) = a
    BY <2>1, Quotient
  <2> QED
    BY <1>1, <1>3, <2>2
<1> QED
  BY <1>2, <1>3

LEMMA SlotAfter ==
  ASSUME NEW h \in Slots, NEW k \in 0 .. Capacity
  PROVE  /\ (h + k) % Capacity = IF h + k < Capacity THEN h + k ELSE h + k - Capacity
         /\ (h + k) % Capacity \in Slots
<1>1. Capacity \in Nat \ {0} /\ h \in 0 .. Capacity - 1
  BY CapacityIsPositive DEF Slots
<1> HIDE DEF Capacity
<1> DEFINE a == h + k
<1>2. a \in 0 .. 2 * Capacity - 1
  BY <1>1
<1> HIDE DEF a
<1>3. a % Capacity = IF a < Capacity THEN a ELSE a - Capacity
  BY <1>1, <1>2, Wrapped
<1>4. CASE a < Capacity
  BY <1>1, <1>2, <1>3, <1>4 DEF Slots, a
<1>5. CASE ~(a < Capacity)
  BY <1>1, <1>2, <1>3, <1>5 DEF Slots, a
<1> QED
  BY <1>4, <1>5

LEMMA RingIsSlots ==
  ASSUME NEW h \in Slots, NEW n \in 0 .. Capacity
  PROVE  Ring(h, n) \subseteq Slots /\ IsFiniteSet(Ring(h, n))
<1>1. Ring(h, n) \subseteq Slots
  BY SlotAfter, CapacityIsPositive DEF Ring
<1>2. IsFiniteSet(Slots)
  BY CapacityIsPositive, FS_Interval DEF Slots
<1> QED
  BY <1>1, <1>2, FS_Subset

LEMMA RingGrows ==
  ASSUME NEW h \in Slots, NEW n \in 0 .. Capacity - 1
  PROVE  /\ (h + n) % Capacity \in Slots \ Ring(h, n)
         /\ Ring(h, n + 1) = Ring(h, n) \cup {(h + n) % Capacity}
         /\ (((h + n) % Capacity) + 1) % Capacity = (h + (n + 1)) % Capacity
<1>1. Capacity \in Nat \ {0} /\ h \in 0 .. Capacity - 1
  BY CapacityIsPositive DEF Slots
<1> HIDE DEF Capacity
<1> DEFINE At0(k) == (h + k) % Capacity
<1>2. \A k \in 0 .. Capacity :
        /\ At0(k) = IF h + k < Capacity THEN h + k ELSE h + k - Capacity
        /\ At0(k) \in Slots
  BY SlotAfter
<1>3. Ring(h, n) = {At0(k) : k \in 0 .. n - 1}
      /\ Ring(h, n + 1) = {At0(k) : k \in 0 .. n}
  <2>1. (n + 1) - 1 = n
    OBVIOUS
  <2> QED
    BY <2>1 DEF Ring
<1>4. (At0(n) + 1) % Capacity = At0(n + 1)
  <2>1. (At0(n) + 1) % Capacity
          = IF At0(n) + 1 < Capacity THEN At0(n) + 1 ELSE At0(n) + 1 - Capacity
    BY <1>1, <1>2, SlotAfter
  <2>2. n \in 0 .. Capacity /\ n + 1 \in 0 .. Capacity
    BY <1>1
  <2> HIDE DEF At0
  <2> QED
    BY <1>1, <1>2, <2>1, <2>2
<1> HIDE DEF At0
<1>5. At0(n) \in Slots /\ \A k \in 0 .. n - 1 : At0(k) # At0(n)
  BY <1>1, <1>2
<1>6. 0 .. n = (0 .. n - 1) \cup {n}
  BY <1>1
<1>7. At0(n) \notin Ring(h, n) /\ Ring(h, n + 1) = Ring(h, n) \cup {At0(n)}
  BY <1>3, <1>5, <1>6
<1> QED
  BY <1>4, <1>5, <1>7 DEF At0

LEMMA RingShrinks ==
  ASSUME NEW h \in Slots, NEW n \in 1 .. Capacity
  PROVE  /\ h \in Ring(h, n) /\ (h + 1) % Capacity \in Slots
         /\ Ring((h + 1) % Capacity, n - 1) = Ring(h, n) \ {h}
         /\ (((h + 1) % Capacity) + (n - 1)) % Capacity = (h + n) % Capacity
<1>1. Capacity \in Nat \ {0} /\ h \in 0 .. Capacity - 1
  BY CapacityIsPositive DEF Slots
<1> HIDE DEF Capacity
<1> DEFINE At0(k) == (h + k) % Capacity
           g == (h + 1) % Capacity
           Nxt(k) == (g + k) % Capacity
<1>2. \A k \in 0 .. Capacity :
        /\ At0(k) = IF h + k < Capacity THEN h + k ELSE h + k - Capacity
        /\ At0(k) \in Slots
  BY SlotAfter
<1>3. g \in Slots /\ g = IF h + 1 < Capacity THEN h + 1 ELSE h + 1 - Capacity
  <2>1. 1 \in 0 .. Capacity
    BY <1>1
  <2> QED
    BY <2>1, SlotAfter
<1>4. Ring(h, n) = {At0(k) : k \in 0 .. n - 1}
  BY DEF Ring
<1>5. Ring(g, n - 1) = {Nxt(k) : k \in 0 .. (n - 1) - 1}
  BY DEF Ring
<1> HIDE DEF g
<1>6. \A k \in 0 .. Capacity :
        Nxt(k) = IF g + k < Capacity THEN g + k ELSE g + k - Capacity
  BY <1>3, SlotAfter
<1> HIDE DEF At0, Nxt
<1>7. \A k \in 0 .. n - 1 : Nxt(k) = At0(k + 1)
  BY <1>1, <1>2, <1>3, <1>6
<1>8. At0(0) = h /\ 0 \in 0 .. n - 1
  BY <1>1, <1>2
<1>9. \A k \in 0 .. n - 1 : k # 0 => At0(k) # h /\ k - 1 \in 0 .. (n - 1) - 1
                              /\ At0(k) = Nxt(k - 1)
  BY <1>1, <1>2, <1>7
<1>10. \A k \in 0 .. (n - 1) - 1 :
         k + 1 \in 0 .. n - 1 /\ Nxt(k) = At0(k + 1) /\ k + 1 # 0
  BY <1>7
<1>11. Ring(g, n - 1) = Ring(h, n) \ {h}
  BY <1>4, <1>5, <1>8, <1>9, <1>10
<1>12. Nxt(n - 1) = At0(n)
  BY <1>7
<1> QED
  BY <1>3, <1>4, <1>8, <1>11, <1>12 DEF At0, Nxt, g

-----------------------------------------------------------------------------
\* The sets of threads: they are finite, and a thread that moves enters one or
\* leaves it.

LEMMA Sizes ==
  /\ \A st \in Stages :
       /\ IsFiniteSet(Popping(st)) /\ Cardinality(Popping(st)) \in Nat
       /\ IsFiniteSet(Busy(st)) /\ Cardinality(Busy(st)) \in Nat
       /\ IsFiniteSet(Admitted(st)) /\ Cardinality(Admitted(st)) \in Nat
       /\ IsFiniteSet(Pushing(st)) /\ Cardinality(Pushing(st)) \in Nat
       /\ \A p \in Passengers :
            IsFiniteSet(Serves(st, p)) /\ Cardinality(Serves(st, p)) \in Nat
  /\ IsFiniteSet(Counting) /\ Cardinality(Counting) \in Nat
  /\ IsFiniteSet(AtHome) /\ Cardinality(AtHome) \in Nat
<1>1. Counting \subseteq Workers /\ AtHome \subseteq Passengers
  BY DEF Counting, AtHome
<1>2. \A st \in Stages : Admitted(st) \subseteq Passengers /\ Pushing(st) \subseteq Passengers
  BY DEF Admitted, Pushing
<1>3. \A st \in Stages :
        /\ Popping(st) \subseteq Pool(st) /\ Busy(st) \subseteq Pool(st)
        /\ \A p \in Passengers : Serves(st, p) \subseteq Pool(st)
  BY DEF Popping, Busy, Serves
<1>4. \A S, T : IsFiniteSet(S) /\ T \subseteq S =>
        IsFiniteSet(T) /\ Cardinality(T) \in Nat
  BY FS_Subset, FS_CardinalityType
<1> QED
  BY <1>1, <1>2, <1>3, <1>4, Pools

LEMMA QueueSizes ==
  ASSUME Types, SlotsCounted, NEW st \in Stages
  PROVE  /\ Full(st) \in 0 .. Capacity
         /\ Claimed(st) \in Nat /\ Claimed(st) = Cardinality(Popping(st))
         /\ Full(st) = items[st] + Claimed(st)
         /\ Held(st) = Ring(head[st], Full(st))
         /\ Held(st) \subseteq Slots /\ IsFiniteSet(Held(st))
         /\ IsFiniteSet(Indices(st)) /\ Cardinality(Indices(st)) \in Nat
         /\ \A p \in Passengers :
              /\ IsFiniteSet(At(st, p)) /\ Cardinality(At(st, p)) \in Nat
              /\ Queued(st, p) = Cardinality(At(st, p))
<1>1. Claimed(st) = Cardinality(Popping(st))
  BY DEF Claimed, Popping
<1>2. Claimed(st) \in Nat /\ items[st] \in Nat /\ spaces[st] \in Nat
      /\ StopComing(st) \in Nat /\ Cardinality(Pushing(st)) \in Nat
  BY <1>1, Sizes DEF Types, StopComing
<1>3. Full(st) = items[st] + Claimed(st) /\ Full(st) \in 0 .. Capacity
  <2>1. Full(st) = items[st] + Claimed(st) /\ Full(st) \in Nat
    BY <1>2 DEF Full
  <2>2. spaces[st] + Cardinality(Pushing(st)) + StopComing(st) + Full(st) = Capacity
    BY DEF SlotsCounted
  <2> QED
    BY <1>2, <2>1, <2>2, CapacityIsPositive
<1>4. Held(st) = Ring(head[st], Full(st))
  <2>1. Full(st) - 1 = items[st] + Claimed(st) - 1
    BY <1>2, <1>3
  <2> QED
    BY <2>1 DEF Held, Ring
<1>5. Held(st) \subseteq Slots /\ IsFiniteSet(Held(st))
  <2>1. head[st] \in Slots
    BY DEF Types
  <2> QED
    BY <1>3, <1>4, <2>1, RingIsSlots
<1>6. Indices(st) \subseteq Held(st) /\ \A p \in Passengers : At(st, p) \subseteq Held(st)
  BY DEF Indices, At
<1>7. \A T : T \subseteq Held(st) => IsFiniteSet(T) /\ Cardinality(T) \in Nat
  BY <1>5, FS_Subset, FS_CardinalityType
<1>8. \A p \in Passengers : Queued(st, p) = Cardinality(At(st, p))
  BY DEF Queued, At
<1> QED
  BY <1>1, <1>2, <1>3, <1>4, <1>5, <1>6, <1>7, <1>8

ClaimedIsNat == \A st \in Stages : Cardinality(Popping(st)) \in Nat

LEMMA PoppingSize == ClaimedIsNat
  BY Sizes DEF ClaimedIsNat

LEMMA HeldAfter ==
  ASSUME NEW st \in Stages, items'[st] \in Nat
  PROVE  /\ Claimed(st)' = Cardinality(Popping(st)') /\ Claimed(st)' \in Nat
         /\ Full(st)' = items'[st] + Claimed(st)'
         /\ Held(st)' = Ring(head'[st], Full(st)')
<1>1. ClaimedIsNat'
  BY PoppingSize, PTL
<1>2. Claimed(st)' = Cardinality(Popping(st)') /\ Claimed(st)' \in Nat
  BY <1>1 DEF Claimed, Popping, ClaimedIsNat
<1>3. Full(st)' = items'[st] + Claimed(st)'
  BY DEF Full
<1>4. Full(st)' - 1 = items'[st] + Claimed(st)' - 1
  BY <1>2, <1>3
<1> QED
  BY <1>2, <1>3, <1>4 DEF Held, Ring

LEMMA PassengerMoves ==
  ASSUME Types, NEW p \in Passengers, NEW to, ppc' = [ppc EXCEPT ![p] = to],
         pstage' = pstage, NEW st \in Stages
  PROVE  /\ Admitted(st)' = IF pstage[p] = st /\ to \in {"space", "push"}
                            THEN Admitted(st) \cup {p} ELSE Admitted(st) \ {p}
         /\ Pushing(st)' = IF pstage[p] = st /\ to = "push"
                           THEN Pushing(st) \cup {p} ELSE Pushing(st) \ {p}
         /\ p \in Admitted(st) <=> ppc[p] \in {"space", "push"} /\ pstage[p] = st
         /\ p \in Pushing(st) <=> ppc[p] = "push" /\ pstage[p] = st
<1>1. \A x \in Passengers : ppc'[x] = IF x = p THEN to ELSE ppc[x]
  BY DEF Types
<1>2. \A x \in Passengers : pstage'[x] = pstage[x]
  OBVIOUS
<1>3. Admitted(st)' = {x \in Passengers : ppc'[x] \in {"space", "push"} /\ pstage'[x] = st}
  BY DEF Admitted
<1>4. Pushing(st)' = {x \in Passengers : ppc'[x] = "push" /\ pstage'[x] = st}
  BY DEF Pushing
<1>5. Admitted(st)' = IF pstage[p] = st /\ to \in {"space", "push"}
                     THEN Admitted(st) \cup {p} ELSE Admitted(st) \ {p}
  BY <1>1, <1>2, <1>3 DEF Admitted
<1>6. Pushing(st)' = IF pstage[p] = st /\ to = "push"
                    THEN Pushing(st) \cup {p} ELSE Pushing(st) \ {p}
  BY <1>1, <1>2, <1>4 DEF Pushing
<1> QED
  BY <1>5, <1>6 DEF Admitted, Pushing

LEMMA WorkerMoves ==
  ASSUME Types, NEW w \in Workers, NEW to, wpc' = [wpc EXCEPT ![w] = to],
         NEW st \in Stages
  PROVE  /\ Popping(st)' = IF StageOf(w) = st /\ to = "pop"
                           THEN Popping(st) \cup {w} ELSE Popping(st) \ {w}
         /\ Busy(st)' = IF StageOf(w) = st /\ to \in {"begin", "finish", "count", "release"}
                        THEN Busy(st) \cup {w} ELSE Busy(st) \ {w}
         /\ Counting' = IF to = "count" THEN Counting \cup {w} ELSE Counting \ {w}
         /\ w \in Popping(st) <=> wpc[w] = "pop" /\ StageOf(w) = st
         /\ w \in Busy(st) <=> /\ wpc[w] \in {"begin", "finish", "count", "release"}
                               /\ StageOf(w) = st
         /\ w \in Counting <=> wpc[w] = "count"
<1>1. \A x \in Workers : wpc'[x] = IF x = w THEN to ELSE wpc[x]
  BY DEF Types
<1>2. w \in Pool(st) <=> StageOf(w) = st
  BY Pools
<1>3. \A x \in Pool(st) : wpc'[x] = IF x = w THEN to ELSE wpc[x]
  BY <1>1, Pools
<1>4. Popping(st)' = {x \in Pool(st) : wpc'[x] = "pop"}
  BY DEF Popping
<1>5. Busy(st)' = {x \in Pool(st) : wpc'[x] \in {"begin", "finish", "count", "release"}}
  BY DEF Busy
<1>6. Counting' = {x \in Workers : wpc'[x] = "count"}
  BY DEF Counting
<1>7. Popping(st)' = IF StageOf(w) = st /\ to = "pop"
                    THEN Popping(st) \cup {w} ELSE Popping(st) \ {w}
  BY <1>2, <1>3, <1>4 DEF Popping
<1>8. Busy(st)' = IF StageOf(w) = st /\ to \in {"begin", "finish", "count", "release"}
                 THEN Busy(st) \cup {w} ELSE Busy(st) \ {w}
  BY <1>2, <1>3, <1>5 DEF Busy
<1>9. Counting' = IF to = "count" THEN Counting \cup {w} ELSE Counting \ {w}
  BY <1>1, <1>6 DEF Counting
<1> QED
  BY <1>2, <1>7, <1>8, <1>9 DEF Popping, Busy, Counting

LEMMA ServesMoves ==
  ASSUME Types, NEW w \in Workers, NEW to, wpc' = [wpc EXCEPT ![w] = to],
         NEW v, \A x \in Workers : job'[x] = IF x = w THEN v ELSE job[x],
         NEW st \in Stages, NEW p \in Passengers
  PROVE  /\ Serves(st, p)' = IF StageOf(w) = st /\ to \in {"begin", "finish"} /\ v = p
                             THEN Serves(st, p) \cup {w} ELSE Serves(st, p) \ {w}
         /\ w \in Serves(st, p) <=> /\ wpc[w] \in {"begin", "finish"} /\ job[w] = p
                                    /\ StageOf(w) = st
<1>1. \A x \in Workers : /\ wpc'[x] = IF x = w THEN to ELSE wpc[x]
                         /\ job'[x] = IF x = w THEN v ELSE job[x]
  BY DEF Types
<1>2. w \in Pool(st) <=> StageOf(w) = st
  BY Pools
<1>3. \A x \in Pool(st) : /\ wpc'[x] = IF x = w THEN to ELSE wpc[x]
                          /\ job'[x] = IF x = w THEN v ELSE job[x]
  BY <1>1, Pools
<1>4. Serves(st, p)' = {x \in Pool(st) : wpc'[x] \in {"begin", "finish"} /\ job'[x] = p}
  BY DEF Serves
<1>5. Serves(st, p)' = IF StageOf(w) = st /\ to \in {"begin", "finish"} /\ v = p
                      THEN Serves(st, p) \cup {w} ELSE Serves(st, p) \ {w}
  BY <1>2, <1>3, <1>4 DEF Serves
<1> QED
  BY <1>2, <1>5 DEF Serves

LEMMA WorkersRest ==
  ASSUME wpc' = wpc
  PROVE  /\ \A st \in Stages : Popping(st)' = Popping(st) /\ Busy(st)' = Busy(st)
         /\ Counting' = Counting
  BY DEF Popping, Busy, Counting

LEMMA ServesRests ==
  ASSUME wpc' = wpc, job' = job, NEW st \in Stages, NEW p \in Passengers
  PROVE  Serves(st, p)' = Serves(st, p)
  BY DEF Serves

LEMMA PassengersRest ==
  ASSUME ppc' = ppc, pstage' = pstage, NEW st \in Stages
  PROVE  Admitted(st)' = Admitted(st) /\ Pushing(st)' = Pushing(st)
  BY DEF Admitted, Pushing

-----------------------------------------------------------------------------
\* What the queues hold after a step.

\* Nothing is pushed or popped.
LEMMA QueueRests ==
  ASSUME Types, SlotsCounted, buffer' = buffer, head' = head,
         NEW st \in Stages, items'[st] \in Nat, Full(st)' = Full(st)
  PROVE  /\ Held(st)' = Held(st) /\ Indices(st)' = Indices(st)
         /\ \A p \in Passengers :
              At(st, p)' = At(st, p) /\ Queued(st, p)' = Queued(st, p)
<1>1. Held(st)' = Ring(head'[st], Full(st)')
  BY HeldAfter
<1>2. Held(st)' = Held(st)
  BY <1>1, QueueSizes
<1>3. Indices(st)' = Indices(st) /\ \A p \in Passengers : At(st, p)' = At(st, p)
  BY <1>2 DEF Indices, At
<1> QED
  BY <1>2, <1>3 DEF Queued, At

\* An index, or the -1 of main, goes to the tail of a queue with a slot claimed.
LEMMA QueuePushed ==
  ASSUME Types, SlotsCounted, Circular, NEW s \in Stages,
         NEW v \in Passengers \cup {Stop}, Pushed(s, v), wpc' = wpc,
         Full(s) < Capacity, NEW st \in Stages
  PROVE  /\ Full(st)' = IF st = s THEN Full(st) + 1 ELSE Full(st)
         /\ tail'[st] = (head'[st] + Full(st)') % Capacity
         /\ tail[s] \in Slots /\ tail[s] \notin Held(s)
         /\ Held(st)' = IF st = s THEN Held(st) \cup {tail[s]} ELSE Held(st)
         /\ \A k \in Slots :
              buffer'[st][k] = IF st = s /\ k = tail[s] THEN v ELSE buffer[st][k]
         /\ Indices(st)' = IF st = s /\ v # Stop THEN Indices(st) \cup {tail[s]}
                           ELSE Indices(st)
         /\ \A p \in Passengers :
              At(st, p)' = IF st = s /\ v = p THEN At(st, p) \cup {tail[s]} ELSE At(st, p)
<1>1. /\ buffer' = [buffer EXCEPT ![s][tail[s]] = v]
      /\ tail' = [tail EXCEPT ![s] = (@ + 1) % Capacity]
      /\ items' = [items EXCEPT ![s] = @ + 1]
      /\ head' = head
  BY DEF Pushed, Up
<1>2. items'[st] = (IF st = s THEN items[st] + 1 ELSE items[st]) /\ items'[st] \in Nat
  BY <1>1 DEF Types
<1>3. /\ \A x \in Stages : /\ Full(x) \in 0 .. Capacity /\ head[x] \in Slots
                          /\ Held(x) = Ring(head[x], Full(x)) /\ Held(x) \subseteq Slots
      /\ Capacity \in Nat \ {0}
  BY QueueSizes, CapacityIsPositive DEF Types
<1>4. Full(st)' = IF st = s THEN Full(st) + 1 ELSE Full(st)
  <2>1. Claimed(st)' = Claimed(st) /\ Claimed(st) \in Nat /\ items[st] \in Nat
    BY HeldAfter, <1>2, WorkersRest, QueueSizes DEF Types
  <2>2. Full(st)' = items'[st] + Claimed(st)' /\ Full(st) = items[st] + Claimed(st)
    BY DEF Full
  <2> QED
    BY <1>2, <2>1, <2>2
<1>5. Held(st)' = Ring(head[st], Full(st)')
  BY <1>1, <1>2, HeldAfter
<1>6. tail[s] = (head[s] + Full(s)) % Capacity /\ Full(s) \in 0 .. Capacity - 1
  BY <1>3 DEF Circular
<1>7. tail[s] \in Slots /\ tail[s] \notin Held(s)
  BY <1>3, <1>6, RingGrows
<1>8. Held(st)' = IF st = s THEN Held(st) \cup {tail[s]} ELSE Held(st)
  <2>1. CASE st = s
    <3>1. Held(st)' = Ring(head[s], Full(s) + 1)
      BY <1>1, <1>4, <1>5, <2>1
    <3>2. Ring(head[s], Full(s) + 1) = Ring(head[s], Full(s)) \cup {tail[s]}
      BY <1>3, <1>6, RingGrows
    <3> QED
      BY <1>3, <2>1, <3>1, <3>2
  <2>2. CASE st # s
    BY <1>1, <1>3, <1>4, <1>5, <2>2
  <2> QED
    BY <2>1, <2>2
<1>9. tail'[st] = (head'[st] + Full(st)') % Capacity
  <2>1. CASE st = s
    <3>1. tail'[st] = (tail[s] + 1) % Capacity
      BY <1>1, <2>1 DEF Types
    <3>2. (tail[s] + 1) % Capacity = (head[s] + (Full(s) + 1)) % Capacity
      BY <1>3, <1>6, RingGrows
    <3> QED
      BY <1>1, <1>4, <2>1, <3>1, <3>2
  <2>2. CASE st # s
    <3>1. tail'[st] = tail[st] /\ tail[st] = (head[st] + Full(st)) % Capacity
      BY <1>1, <2>2 DEF Types, Circular
    <3> QED
      BY <1>1, <1>4, <2>2, <3>1
  <2> QED
    BY <2>1, <2>2
<1>10. \A k \in Slots :
         buffer'[st][k] = IF st = s /\ k = tail[s] THEN v ELSE buffer[st][k]
  BY <1>1, <1>7 DEF Types
<1>11. Indices(st)' = {k \in Held(st)' : buffer'[st][k] # Stop}
       /\ \A p \in Passengers : At(st, p)' = {k \in Held(st)' : buffer'[st][k] = p}
  BY DEF Indices, At
<1>12. Indices(st)' = IF st = s /\ v # Stop THEN Indices(st) \cup {tail[s]}
                      ELSE Indices(st)
  BY <1>3, <1>7, <1>8, <1>10, <1>11 DEF Indices
<1>13. ASSUME NEW p \in Passengers
       PROVE  At(st, p)' = IF st = s /\ v = p THEN At(st, p) \cup {tail[s]} ELSE At(st, p)
  BY <1>3, <1>7, <1>8, <1>10, <1>11 DEF At
<1> QED
  BY <1>4, <1>7, <1>8, <1>9, <1>10, <1>12, <1>13

\* A worker takes what is at the head of its queue.
LEMMA QueuePopped ==
  ASSUME Types, SlotsCounted, Circular, NEW w \in Workers, wpc[w] = "pop",
         NEW to, to # "pop", wpc' = [wpc EXCEPT ![w] = to],
         NEW s, s = StageOf(w), NEW v, v = buffer[s][head[s]], Popped(s),
         NEW st \in Stages
  PROVE  /\ Full(st)' = IF st = s THEN Full(st) - 1 ELSE Full(st)
         /\ tail'[st] = (head'[st] + Full(st)') % Capacity
         /\ head[s] \in Held(s) /\ v \in Passengers \cup {Stop}
         /\ Held(st)' = IF st = s THEN Held(st) \ {head[s]} ELSE Held(st)
         /\ Indices(st)' = IF st = s THEN Indices(st) \ {head[s]} ELSE Indices(st)
         /\ \A p \in Passengers :
              At(st, p)' = IF st = s THEN At(st, p) \ {head[s]} ELSE At(st, p)
<1>1. /\ head' = [head EXCEPT ![s] = (@ + 1) % Capacity]
      /\ buffer' = buffer /\ tail' = tail /\ items' = items
  BY DEF Popped
<1>2. s \in Stages /\ w \in Pool(s)
  BY Pools
<1>3. /\ \A x \in Stages : /\ Full(x) \in 0 .. Capacity /\ head[x] \in Slots
                          /\ Held(x) = Ring(head[x], Full(x)) /\ Held(x) \subseteq Slots
      /\ Capacity \in Nat \ {0} /\ items'[st] \in Nat /\ items[st] \in Nat
  BY <1>1, QueueSizes, CapacityIsPositive DEF Types
<1>4. /\ Popping(st)' = IF st = s THEN Popping(st) \ {w} ELSE Popping(st)
      /\ w \in Popping(s) /\ IsFiniteSet(Popping(st))
  <2>1. w \in Popping(s)
    BY <1>2 DEF Popping
  <2>2. w \in Popping(st) <=> st = s
    BY <1>2, WorkerMoves
  <2>3. Popping(st)' = Popping(st) \ {w}
    BY WorkerMoves
  <2> QED
    BY <2>1, <2>2, <2>3, Sizes
<1>5. /\ Claimed(st)' = IF st = s THEN Claimed(st) - 1 ELSE Claimed(st)
      /\ Claimed(st) \in Nat /\ Claimed(st)' \in Nat
      /\ st = s => Claimed(st) > 0
  <2>1. Claimed(st) = Cardinality(Popping(st)) /\ Claimed(st) \in Nat
        /\ Claimed(st)' = Cardinality(Popping(st)') /\ Claimed(st)' \in Nat
    BY <1>3, HeldAfter, QueueSizes
  <2>2. CASE st = s
    BY <1>4, <2>1, <2>2, Taken
  <2>3. CASE st # s
    BY <1>4, <2>1, <2>3
  <2> QED
    BY <2>1, <2>2, <2>3
<1>6. /\ Full(st)' = IF st = s THEN Full(st) - 1 ELSE Full(st)
      /\ st = s => Full(st) > 0
  <2>1. Full(st)' = items'[st] + Claimed(st)' /\ Full(st) = items[st] + Claimed(st)
    BY DEF Full
  <2> QED
    BY <1>1, <1>3, <1>5, <2>1
<1>7. Held(st)' = Ring(head'[st], Full(st)')
  BY <1>3, HeldAfter
<1>8. v \in Passengers \cup {Stop}
  BY <1>2, <1>3 DEF Types
<1>9. CASE st # s
  <2>1. head'[st] = head[st] /\ tail'[st] = tail[st] /\ Full(st)' = Full(st)
    BY <1>1, <1>6, <1>9 DEF Types
  <2>2. Held(st)' = Held(st)
    BY <1>3, <1>7, <2>1
  <2>3. tail'[st] = (head'[st] + Full(st)') % Capacity
    BY <2>1 DEF Circular
  <2>4. Indices(st)' = Indices(st) /\ \A p \in Passengers : At(st, p)' = At(st, p)
    BY <1>1, <2>2 DEF Indices, At
  <2>5. w \in Popping(s) /\ Full(s) \in 0 .. Capacity /\ Full(s) > 0
    <3>1. Claimed(s) = Cardinality(Popping(s)) /\ Claimed(s) \in Nat
          /\ Full(s) = items[s] + Claimed(s) /\ items[s] \in Nat
      BY <1>2, QueueSizes DEF Types
    <3>2. Cardinality(Popping(s)) # 0
      BY <1>2, <1>4, Sizes, Taken
    <3> QED
      BY <1>2, <1>3, <1>4, <3>1, <3>2
  <2>6. head[s] \in Held(s)
    BY <1>2, <1>3, <2>5, RingShrinks
  <2> QED
    BY <1>6, <1>8, <1>9, <2>2, <2>3, <2>4, <2>6
<1>10. CASE st = s
  <2>1. head'[s] = (head[s] + 1) % Capacity
    BY <1>1, <1>2 DEF Types
  <2>2. Full(s) \in 1 .. Capacity /\ Full(s)' = Full(s) - 1
    BY <1>2, <1>3, <1>6, <1>10
  <2>3. /\ head[s] \in Held(s) /\ Held(s)' = Held(s) \ {head[s]}
        /\ (head'[s] + Full(s)') % Capacity = (head[s] + Full(s)) % Capacity
    BY <1>2, <1>3, <1>7, <1>10, <2>1, <2>2, RingShrinks
  <2>4. tail'[s] = (head'[s] + Full(s)') % Capacity
    BY <1>1, <1>2, <2>3 DEF Circular
  <2>5. Indices(s)' = Indices(s) \ {head[s]}
        /\ \A p \in Passengers : At(s, p)' = At(s, p) \ {head[s]}
    BY <1>1, <2>3 DEF Indices, At
  <2> QED
    BY <1>6, <1>8, <1>10, <2>3, <2>4, <2>5
<1> QED
  BY <1>9, <1>10

-----------------------------------------------------------------------------
\* Types.

LEMMA StateValues ==
  ASSUME NEW st \in Stages
  PROVE  /\ Working(st) = 2 * st - 1 /\ Done(st) = 2 * st
         /\ Working(st) \in States /\ Done(st) \in States /\ st \in 1 .. 3
  BY DEF Working, Done, States, ARRIVED, SEATED, Stages

LEMMA PassengerTypes ==
  ASSUME Types, NEW p \in Passengers, Passenger(p)
  PROVE  Types'
<1>1. pstage[p] \in Stages /\ tail[pstage[p]] \in Slots
  BY DEF Types
<1>2. CASE Arrive(p)
  <2>1. ARRIVED \in States
    BY DEF States, ARRIVED, SEATED
  <2>2. state' \in [Passengers -> States]
    BY <1>2, <2>1 DEF Arrive, Types
  <2> QED
    BY <1>2, <2>2 DEF Arrive, Types, Goto
<1>3. CASE WaitWorker(p)
  <2>1. available' \in [Stages -> Nat]
    BY <1>1, <1>3 DEF WaitWorker, Types, Down
  <2> QED
    BY <1>3, <2>1 DEF WaitWorker, Types, Goto
<1>4. CASE WaitSpace(p)
  <2>1. spaces' \in [Stages -> Nat]
    BY <1>1, <1>4 DEF WaitSpace, SpaceTaken, Types, Down
  <2> QED
    BY <1>4, <2>1 DEF WaitSpace, SpaceTaken, Types, Goto
<1>5. CASE Push(p)
  <2>1. /\ buffer' = [buffer EXCEPT ![pstage[p]][tail[pstage[p]]] = p]
        /\ tail' = [tail EXCEPT ![pstage[p]] = (@ + 1) % Capacity]
        /\ items' = [items EXCEPT ![pstage[p]] = @ + 1]
        /\ UNCHANGED <<head, spaces>>
    BY <1>5 DEF Push, Pushed, Up
  <2>2. (tail[pstage[p]] + 1) % Capacity \in Slots
    BY <1>1, CapacityIsPositive, SlotAfter
  <2>3. tail' \in [Stages -> Slots]
    BY <2>1, <2>2 DEF Types
  <2>4. items' \in [Stages -> Nat]
    BY <1>1, <2>1 DEF Types
  <2>5. buffer' \in [Stages -> [Slots -> Passengers \cup {Stop}]]
    BY <1>1, <2>1 DEF Types
  <2> QED
    BY <1>5, <2>1, <2>3, <2>4, <2>5 DEF Push, Types, Goto
<1>6. CASE WaitDone(p)
  <2>1. done' \in [Stages -> [Passengers -> Nat]]
    <3>1. done' = [done EXCEPT ![pstage[p]][p] = @ - 1] /\ done[pstage[p]][p] > 0
      BY <1>6 DEF WaitDone
    <3>2. done[pstage[p]][p] - 1 \in Nat
      BY <1>1, <3>1 DEF Types
    <3> QED
      BY <1>1, <3>1, <3>2 DEF Types
  <2>2. pstage' \in [Passengers -> Stages]
    <3>1. CASE pstage[p] < 3
      <4>1. pstage' = [pstage EXCEPT ![p] = @ + 1] /\ pstage[p] + 1 \in Stages
        BY <1>1, <1>6, <3>1 DEF WaitDone, Stages
      <4> QED
        BY <4>1 DEF Types
    <3>2. CASE ~(pstage[p] < 3)
      BY <1>6, <3>2 DEF WaitDone, Types
    <3> QED
      BY <3>1, <3>2
  <2>3. ppc' \in [Passengers -> {"arrive", "worker", "space", "push", "served", "end"}]
    BY <1>6 DEF WaitDone, Types, Goto
  <2> QED
    BY <1>6, <2>1, <2>2, <2>3 DEF WaitDone, Types
<1> QED
  BY <1>2, <1>3, <1>4, <1>5, <1>6 DEF Passenger

LEMMA WorkerTypes ==
  ASSUME Types, Progress, NEW w \in Workers, Worker(w)
  PROVE  Types'
<1> DEFINE s == StageOf(w)
<1>1. s \in Stages /\ w \in Pool(s)
  BY Pools
<1> HIDE DEF s
<1>2. wpc[w] \in {"begin", "finish"} => job[w] \in Passengers
  BY <1>1 DEF Types, Progress, InHand
<1>3. CASE WaitItem(w)
  <2>1. items' \in [Stages -> Nat]
    BY <1>1, <1>3 DEF WaitItem, ItemTaken, Types, Down, s
  <2> QED
    BY <1>3, <2>1 DEF WaitItem, ItemTaken, Types, GotoW
<1>4. CASE Pop(w)
  <2>1. /\ head' = [head EXCEPT ![s] = (@ + 1) % Capacity]
        /\ spaces' = [spaces EXCEPT ![s] = @ + 1]
        /\ job' = [job EXCEPT ![w] = buffer[s][head[s]]]
        /\ UNCHANGED <<buffer, tail, items>>
    BY <1>4 DEF Pop, Popped, Up, s
  <2>2. head[s] \in Slots /\ (head[s] + 1) % Capacity \in Slots
    BY <1>1, CapacityIsPositive, SlotAfter DEF Types
  <2>3. head' \in [Stages -> Slots] /\ spaces' \in [Stages -> Nat]
    BY <1>1, <2>1, <2>2 DEF Types
  <2>4. job' \in [Workers -> Passengers \cup {Stop}]
    BY <1>1, <2>1, <2>2 DEF Types
  <2>5. wpc' \in [Workers -> {"wait", "pop", "begin", "finish", "count", "release", "end"}]
    BY <1>4 DEF Pop, Types, GotoW
  <2> QED
    BY <1>4, <2>1, <2>3, <2>4, <2>5 DEF Pop, Types
<1>5. CASE Begin(w)
  <2>1. state' \in [Passengers -> States]
    BY <1>1, <1>2, <1>5, StateValues DEF Begin, Types, s
  <2> QED
    BY <1>5, <2>1 DEF Begin, Types, GotoW
<1>6. CASE Finish(w)
  <2>1. state' \in [Passengers -> States]
    BY <1>1, <1>2, <1>6, StateValues DEF Finish, Types, s
  <2>2. done' \in [Stages -> [Passengers -> Nat]]
    BY <1>1, <1>2, <1>6 DEF Finish, Types, s
  <2>3. wpc' \in [Workers -> {"wait", "pop", "begin", "finish", "count", "release", "end"}]
    BY <1>6 DEF Finish, Types, GotoW
  <2> QED
    BY <1>6, <2>1, <2>2, <2>3 DEF Finish, Types
<1>7. CASE Count(w)
  BY <1>7 DEF Count, Types, GotoW
<1>8. CASE Release(w)
  <2>1. available' \in [Stages -> Nat]
    BY <1>1, <1>8 DEF Release, Types, Up, s
  <2> QED
    BY <1>8, <2>1 DEF Release, Types, GotoW
<1> QED
  BY <1>3, <1>4, <1>5, <1>6, <1>7, <1>8 DEF Worker

LEMMA MainTypes ==
  ASSUME Types, Main
  PROVE  Types'
<1>1. CASE WaitSeated
  BY <1>1 DEF WaitSeated, Types
<1>2. CASE StopSpace
  <2>1. spaces' \in [Stages -> Nat]
    BY <1>2 DEF StopSpace, SpaceTaken, Types, Down
  <2> QED
    BY <1>2, <2>1 DEF StopSpace, SpaceTaken, Types
<1>3. CASE StopPush
  <2>1. PICK s \in Stages : Stopping(s) /\ Pushed(s, Stop) /\ stops' = Down(stops, s)
    BY <1>3 DEF StopPush
  <2>2. /\ buffer' = [buffer EXCEPT ![s][tail[s]] = Stop]
        /\ tail' = [tail EXCEPT ![s] = (@ + 1) % Capacity]
        /\ items' = [items EXCEPT ![s] = @ + 1]
        /\ stops' = [stops EXCEPT ![s] = @ - 1] /\ stops[s] > 0
        /\ UNCHANGED <<head, spaces>>
    BY <2>1 DEF Pushed, Up, Down, Stopping
  <2>3. tail[s] \in Slots /\ (tail[s] + 1) % Capacity \in Slots
    BY CapacityIsPositive, SlotAfter DEF Types
  <2>4. tail' \in [Stages -> Slots]
    BY <2>2, <2>3 DEF Types
  <2>5. items' \in [Stages -> Nat] /\ stops' \in [Stages -> Nat]
    BY <2>2 DEF Types
  <2>6. buffer' \in [Stages -> [Slots -> Passengers \cup {Stop}]]
    BY <2>2, <2>3 DEF Types
  <2>7. \A st \in Stages : stops'[st] <= Cardinality(Pool(st))
    BY <2>2, Pools DEF Types
  <2>8. main' \in {"wait", "space", "push", "join", "departed"}
    BY <1>3 DEF StopPush
  <2> QED
    BY <1>3, <2>2, <2>4, <2>5, <2>6, <2>7, <2>8 DEF StopPush, Types
<1>4. CASE Join
  BY <1>4 DEF Join, Types
<1> QED
  BY <1>1, <1>2, <1>3, <1>4 DEF Main

-----------------------------------------------------------------------------
\* The threads that leave the queues' contents alone.

\* What is in a queue, claimed or served does not change with the threads that
\* work on it.
LEMMA Unchanged ==
  ASSUME Inv, Types', wpc' = wpc, job' = job, buffer' = buffer, head' = head,
         tail' = tail, items' = items
  PROVE  /\ Circular'
         /\ \A st \in Stages :
              /\ Full(st)' = Full(st) /\ Held(st)' = Held(st)
              /\ Indices(st)' = Indices(st) /\ Busy(st)' = Busy(st)
              /\ \A p \in Passengers :
                   /\ Queued(st, p)' = Queued(st, p)
                   /\ Serving(st, p)' = Serving(st, p)
         /\ Counting' = Counting
<1>1. Types /\ SlotsCounted /\ Circular
  BY DEF Inv
<1>2. \A st \in Stages : Full(st)' = Full(st) /\ items'[st] \in Nat
  BY DEF Full, Claimed, Types
<1>3. ASSUME NEW st \in Stages
      PROVE  /\ Held(st)' = Held(st) /\ Indices(st)' = Indices(st)
             /\ \A p \in Passengers : Queued(st, p)' = Queued(st, p)
  BY <1>1, <1>2, QueueRests
<1>4. Circular'
  BY <1>1, <1>2 DEF Circular
<1>5. \A st \in Stages : \A p \in Passengers : Serving(st, p)' = Serving(st, p)
  BY DEF Serving
<1>6. Counting' = Counting /\ \A st \in Stages : Busy(st)' = Busy(st)
  BY WorkersRest
<1> QED
  BY <1>2, <1>3, <1>4, <1>5, <1>6

QuietPassenger(p) == Arrive(p) \/ WaitWorker(p) \/ WaitSpace(p) \/ WaitDone(p)

LEMMA QuietPassengerKeeps ==
  ASSUME Inv, NEW p \in Passengers, QuietPassenger(p)
  PROVE  Inv'
<1> DEFINE s == pstage[p]
<1>1. /\ wpc' = wpc /\ job' = job /\ buffer' = buffer /\ head' = head
      /\ tail' = tail /\ items' = items /\ seated' = seated
      /\ allSeated' = allSeated /\ main' = main /\ stops' = stops
  BY DEF QuietPassenger, Arrive, WaitWorker, WaitSpace, WaitDone, SpaceTaken
<1>2. Types /\ SlotsCounted /\ WorkersCounted /\ ServedOnce /\ Progress
      /\ AllCounted /\ NoEarlyStop
  BY DEF Inv
<1>3. Types'
  BY <1>2, PassengerTypes DEF QuietPassenger, Passenger
<1>4. /\ Circular'
      /\ \A st \in Stages :
           /\ Full(st)' = Full(st) /\ Held(st)' = Held(st)
           /\ Indices(st)' = Indices(st) /\ Busy(st)' = Busy(st)
           /\ \A x \in Passengers : /\ Queued(st, x)' = Queued(st, x)
                                   /\ Serving(st, x)' = Serving(st, x)
      /\ Counting' = Counting
  BY <1>1, <1>3, Unchanged
<1>5. s \in Stages /\ s \in 1 .. 3
  BY <1>2 DEF Types, Stages
<1>6. state' = state
  <2>1. CASE Arrive(p)
    <3>1. state[p] = ARRIVED
      BY <1>2, <2>1 DEF Arrive, Progress, Outside, ARRIVED
    <3> QED
      BY <1>2, <2>1, <3>1 DEF Arrive, Types
  <2> QED
    BY <2>1 DEF QuietPassenger, WaitWorker, WaitSpace, WaitDone
<1>7. SlotsCounted'
  <2> SUFFICES ASSUME NEW st \in Stages
               PROVE  spaces'[st] + Cardinality(Pushing(st)') + StopComing(st)' + Full(st)'
                        = Capacity
    BY DEF SlotsCounted
  <2>1. /\ spaces[st] + Cardinality(Pushing(st)) + StopComing(st) + Full(st) = Capacity
        /\ StopComing(st)' = StopComing(st) /\ StopComing(st) \in Nat
        /\ spaces[st] \in Nat /\ Full(st)' = Full(st) /\ Full(st) \in Nat
        /\ Cardinality(Pushing(st)) \in Nat /\ IsFiniteSet(Pushing(st))
    <3>1. StopComing(st)' = StopComing(st) /\ StopComing(st) \in Nat
      BY <1>1 DEF StopComing, Stopping
    <3>2. spaces[st] + Cardinality(Pushing(st)) + StopComing(st) + Full(st) = Capacity
      BY <1>2 DEF SlotsCounted
    <3>3. spaces[st] \in Nat
      BY <1>2 DEF Types
    <3>4. Full(st) \in Nat
      BY <1>2, QueueSizes
    <3> QED
      BY <1>4, <3>1, <3>2, <3>3, <3>4, Sizes
  <2>2. CASE Arrive(p) \/ WaitWorker(p) \/ WaitDone(p)
    <3>1. ppc'[p] # "push" /\ ppc[p] # "push" /\ spaces' = spaces
          /\ \A x \in Passengers : x # p => ppc'[x] = ppc[x] /\ pstage'[x] = pstage[x]
      BY <1>2, <2>2 DEF Arrive, WaitWorker, WaitDone, Goto, Types
    <3>2. Pushing(st)' = Pushing(st)
      BY <3>1 DEF Pushing
    <3> QED
      BY <2>1, <3>1, <3>2
  <2>3. CASE WaitSpace(p)
    <3>1. /\ ppc' = [ppc EXCEPT ![p] = "push"] /\ pstage' = pstage /\ ppc[p] = "space"
          /\ spaces[s] > 0 /\ spaces' = [spaces EXCEPT ![s] = @ - 1]
      BY <2>3 DEF WaitSpace, SpaceTaken, Down, Goto
    <3>2. Pushing(st)' = (IF s = st THEN Pushing(st) \cup {p} ELSE Pushing(st) \ {p})
          /\ p \notin Pushing(st)
      BY <1>2, <3>1, PassengerMoves
    <3>3. CASE s = st
      <4>1. Cardinality(Pushing(st)') = Cardinality(Pushing(st)) + 1
        BY <2>1, <3>2, <3>3, Added
      <4>2. spaces'[st] = spaces[st] - 1
        BY <1>2, <3>1, <3>3 DEF Types
      <4> QED
        BY <2>1, <4>1, <4>2
    <3>4. CASE s # st
      <4>1. Pushing(st)' = Pushing(st) /\ spaces'[st] = spaces[st]
        BY <1>2, <3>1, <3>2, <3>4 DEF Types
      <4> QED
        BY <2>1, <4>1
    <3> QED
      BY <3>3, <3>4
  <2> QED
    BY <2>2, <2>3 DEF QuietPassenger
<1>8. WorkersCounted'
  <2> SUFFICES ASSUME NEW st \in Stages
               PROVE  available'[st] + Cardinality(Admitted(st)') + Cardinality(Indices(st)')
                        + Cardinality(Busy(st)') = Cardinality(Pool(st))
    BY DEF WorkersCounted
  <2>1. /\ available[st] + Cardinality(Admitted(st)) + Cardinality(Indices(st))
             + Cardinality(Busy(st)) = Cardinality(Pool(st))
        /\ Indices(st)' = Indices(st) /\ Busy(st)' = Busy(st)
        /\ available[st] \in Nat /\ Cardinality(Busy(st)) \in Nat
        /\ Cardinality(Indices(st)) \in Nat
        /\ Cardinality(Admitted(st)) \in Nat /\ IsFiniteSet(Admitted(st))
        /\ Cardinality(Pool(st)) \in Nat
    BY <1>2, <1>4, QueueSizes, Sizes, Pools DEF WorkersCounted, Types
  <2>2. CASE Arrive(p) \/ WaitDone(p) \/ WaitSpace(p)
    <3>1. /\ ppc'[p] \in {"space", "push"} <=> ppc[p] \in {"space", "push"}
          /\ ppc[p] \in {"space", "push"} => pstage'[p] = pstage[p]
          /\ available' = available
          /\ \A x \in Passengers : x # p => ppc'[x] = ppc[x] /\ pstage'[x] = pstage[x]
      BY <1>2, <2>2 DEF Arrive, WaitSpace, WaitDone, Goto, Types
    <3>2. Admitted(st)' = Admitted(st)
      BY <3>1 DEF Admitted
    <3> QED
      BY <2>1, <3>1, <3>2
  <2>3. CASE WaitWorker(p)
    <3>1. /\ ppc' = [ppc EXCEPT ![p] = "space"] /\ pstage' = pstage /\ ppc[p] = "worker"
          /\ available[s] > 0 /\ available' = [available EXCEPT ![s] = @ - 1]
      BY <2>3 DEF WaitWorker, Down, Goto
    <3>2. Admitted(st)' = (IF s = st THEN Admitted(st) \cup {p} ELSE Admitted(st) \ {p})
          /\ p \notin Admitted(st)
      BY <1>2, <3>1, PassengerMoves
    <3>3. CASE s = st
      <4>1. Cardinality(Admitted(st)') = Cardinality(Admitted(st)) + 1
        BY <2>1, <3>2, <3>3, Added
      <4>2. available'[st] = available[st] - 1
        BY <1>2, <3>1, <3>3 DEF Types
      <4> QED
        BY <2>1, <4>1, <4>2
    <3>4. CASE s # st
      <4>1. Admitted(st)' = Admitted(st) /\ available'[st] = available[st]
        BY <1>2, <3>1, <3>2, <3>4 DEF Types
      <4> QED
        BY <2>1, <4>1
    <3> QED
      BY <3>3, <3>4
  <2> QED
    BY <2>2, <2>3 DEF QuietPassenger
<1>9. ServedOnce'
  <2> SUFFICES ASSUME NEW x \in Passengers, NEW st \in Stages
               PROVE  Queued(st, x)' + Serving(st, x)' + done'[st][x]
                        = IF ppc'[x] = "served" /\ pstage'[x] = st THEN 1 ELSE 0
    BY DEF ServedOnce
  <2>1. /\ Queued(st, x) + Serving(st, x) + done[st][x]
             = IF ppc[x] = "served" /\ pstage[x] = st THEN 1 ELSE 0
        /\ Queued(st, x)' = Queued(st, x) /\ Serving(st, x)' = Serving(st, x)
        /\ Queued(st, x) \in Nat /\ Serving(st, x) \in Nat /\ done[st][x] \in Nat
    BY <1>2, <1>4, QueueSizes, Sizes DEF ServedOnce, Types, Serving, Serves
  <2>2. CASE Arrive(p) \/ WaitWorker(p) \/ WaitSpace(p)
    <3>1. /\ done' = done /\ pstage' = pstage
          /\ ppc'[x] = "served" <=> ppc[x] = "served"
      BY <1>2, <2>2 DEF Arrive, WaitWorker, WaitSpace, Goto, Types
    <3> QED
      BY <2>1, <3>1
  <2>3. CASE WaitDone(p)
    <3>1. /\ ppc[p] = "served" /\ ppc'[p] # "served" /\ done[s][p] > 0
          /\ done' = [done EXCEPT ![s][p] = @ - 1]
          /\ x # p => ppc'[x] = ppc[x] /\ pstage'[x] = pstage[x]
      BY <1>2, <2>3 DEF WaitDone, Goto, Types
    <3>2. CASE x = p /\ st = s
      <4>1. done'[st][x] = done[st][x] - 1
        BY <1>2, <3>1, <3>2 DEF Types
      <4> QED
        BY <2>1, <3>1, <3>2, <4>1
    <3>3. CASE x # p \/ st # s
      <4>1. done'[st][x] = done[st][x]
        BY <1>2, <3>1, <3>3 DEF Types
      <4> QED
        BY <2>1, <3>1, <3>3, <4>1
    <3> QED
      BY <3>2, <3>3
  <2> QED
    BY <2>2, <2>3 DEF QuietPassenger
<1>10. \A x \in Passengers : Outside(x)'
  <2> SUFFICES ASSUME NEW x \in Passengers
               PROVE  Outside(x)'
    OBVIOUS
  <2>1. Outside(x) /\ state'[x] = state[x]
    BY <1>2, <1>6 DEF Progress
  <2>2. CASE x # p
    <3>1. ppc'[x] = ppc[x] /\ pstage'[x] = pstage[x]
      BY <1>2, <2>2 DEF QuietPassenger, Arrive, WaitWorker, WaitSpace, WaitDone, Goto, Types
    <3> QED
      BY <2>1, <3>1 DEF Outside
  <2>3. CASE x = p /\ ~WaitDone(p)
    <3>1. /\ ppc[p] \in {"arrive", "worker", "space", "push"} /\ pstage'[p] = pstage[p]
          /\ ppc'[p] \in {"worker", "space", "push"}
      BY <1>2, <2>3 DEF QuietPassenger, Arrive, WaitWorker, WaitSpace, Goto, Types
    <3> QED
      BY <2>1, <2>3, <3>1 DEF Outside
  <2>4. CASE x = p /\ WaitDone(p)
    <3>1. done[s][p] > 0
      BY <2>4 DEF WaitDone
    <3>2. state[p] = 2 * s
      BY <1>2, <1>5, <3>1 DEF Progress, IsDone
    <3>3. CASE s < 3
      <4>1. pstage'[p] = s + 1 /\ ppc'[p] = "worker"
        BY <1>2, <2>4, <3>3 DEF WaitDone, Goto, Types
      <4> QED
        BY <1>5, <2>1, <2>4, <3>2, <4>1 DEF Outside
    <3>4. CASE ~(s < 3)
      <4>1. ppc'[p] = "end"
        BY <1>2, <2>4, <3>4 DEF WaitDone, Goto, Types
      <4>2. state[p] = SEATED
        BY <1>5, <3>2, <3>4 DEF SEATED
      <4> QED
        BY <2>1, <2>4, <4>1, <4>2 DEF Outside
    <3> QED
      BY <3>3, <3>4
  <2> QED
    BY <2>2, <2>3, <2>4
<1>11. Progress'
  <2> SUFFICES ASSUME NEW st \in Stages
               PROVE  InQueue(st)' /\ InHand(st)' /\ IsDone(st)'
    BY <1>10 DEF Progress
  <2>1. InQueue(st) /\ InHand(st) /\ IsDone(st)
    BY <1>2 DEF Progress
  <2>2. InQueue(st)'
    BY <1>1, <1>4, <1>6, <2>1 DEF InQueue
  <2>3. InHand(st)'
    BY <1>1, <1>6, <2>1 DEF InHand
  <2>4. ASSUME NEW x \in Passengers, done'[st][x] > 0
        PROVE  done[st][x] > 0
    <3>1. CASE WaitDone(p)
      <4>1. done' = [done EXCEPT ![s][p] = @ - 1] /\ done[s][p] > 0
        BY <3>1 DEF WaitDone
      <4>2. CASE x = p /\ st = s
        BY <4>1, <4>2
      <4>3. CASE x # p \/ st # s
        BY <1>2, <2>4, <4>1, <4>3 DEF Types
      <4> QED
        BY <4>2, <4>3
    <3>2. CASE ~WaitDone(p)
      <4>1. done' = done
        BY <3>2 DEF QuietPassenger, Arrive, WaitWorker, WaitSpace
      <4> QED
        BY <2>4, <4>1
    <3> QED
      BY <3>1, <3>2
  <2>5. IsDone(st)'
    BY <1>6, <2>1, <2>4 DEF IsDone
  <2> QED
    BY <2>2, <2>3, <2>5
<1>12. AllCounted'
  BY <1>1, <1>2, <1>4, <1>6 DEF AllCounted, AtHome
<1>13. NoEarlyStop'
  BY <1>1, <1>2, <1>4 DEF NoEarlyStop
<1> QED
  BY <1>3, <1>4, <1>7, <1>8, <1>9, <1>11, <1>12, <1>13 DEF Inv

-----------------------------------------------------------------------------
\* A passenger pushes its index.

LEMMA PushKeeps ==
  ASSUME Inv, NEW p \in Passengers, Push(p)
  PROVE  Inv'
<1> DEFINE s == pstage[p]
<1>1. /\ wpc' = wpc /\ job' = job /\ spaces' = spaces /\ seated' = seated
      /\ allSeated' = allSeated /\ main' = main /\ stops' = stops /\ state' = state
      /\ available' = available /\ done' = done /\ pstage' = pstage
      /\ ppc[p] = "push" /\ ppc' = [ppc EXCEPT ![p] = "served"] /\ Pushed(s, p)
      /\ head' = head
  BY DEF Push, Pushed, Goto
<1>2. Types /\ SlotsCounted /\ Circular /\ WorkersCounted /\ ServedOnce /\ Progress
      /\ AllCounted /\ NoEarlyStop
  BY DEF Inv
<1>3. Types'
  BY <1>2, PassengerTypes DEF Passenger
<1>4. s \in Stages /\ p # Stop
  BY <1>2, PoolsAssumption DEF Types
<1> HIDE DEF s
<1>5. \A st \in Stages :
        /\ Pushing(st)' = IF st = s THEN Pushing(st) \ {p} ELSE Pushing(st)
        /\ Admitted(st)' = IF st = s THEN Admitted(st) \ {p} ELSE Admitted(st)
        /\ st = s => p \in Pushing(st) /\ p \in Admitted(st)
        /\ IsFiniteSet(Pushing(st)) /\ IsFiniteSet(Admitted(st))
        /\ Cardinality(Pushing(st)) \in Nat /\ Cardinality(Admitted(st)) \in Nat
  <2> SUFFICES ASSUME NEW st \in Stages
               PROVE  /\ Pushing(st)' = IF st = s THEN Pushing(st) \ {p} ELSE Pushing(st)
                      /\ Admitted(st)' = IF st = s THEN Admitted(st) \ {p} ELSE Admitted(st)
                      /\ st = s => p \in Pushing(st) /\ p \in Admitted(st)
    BY Sizes
  <2>1. /\ Pushing(st)' = Pushing(st) \ {p} /\ Admitted(st)' = Admitted(st) \ {p}
        /\ p \in Admitted(st) <=> pstage[p] = st
        /\ p \in Pushing(st) <=> pstage[p] = st
    <3>1. /\ Admitted(st)' = IF pstage[p] = st /\ "served" \in {"space", "push"}
                              THEN Admitted(st) \cup {p} ELSE Admitted(st) \ {p}
          /\ Pushing(st)' = IF pstage[p] = st /\ "served" = "push"
                             THEN Pushing(st) \cup {p} ELSE Pushing(st) \ {p}
      BY <1>1, <1>2, PassengerMoves
    <3> QED
      BY <1>1, <3>1 DEF Admitted, Pushing
  <2> QED
    BY <2>1 DEF s
<1>6. Full(s) < Capacity
  <2>1. /\ spaces[s] + Cardinality(Pushing(s)) + StopComing(s) + Full(s) = Capacity
        /\ spaces[s] \in Nat /\ StopComing(s) \in Nat
    BY <1>2, <1>4 DEF SlotsCounted, StopComing, Types
  <2>2. Cardinality(Pushing(s)) \in Nat \ {0}
    <3>1. p \in Pushing(s) /\ IsFiniteSet(Pushing(s))
      BY <1>4, <1>5
    <3> QED
      BY <3>1, Taken
  <2>3. Full(s) \in Nat
    BY <1>2, <1>4, QueueSizes
  <2> QED
    BY <2>1, <2>2, <2>3, CapacityIsPositive
<1>7. \A st \in Stages :
        /\ Full(st)' = IF st = s THEN Full(st) + 1 ELSE Full(st)
        /\ tail'[st] = (head'[st] + Full(st)') % Capacity
        /\ tail[s] \in Slots /\ tail[s] \notin Held(s)
        /\ Held(st)' = IF st = s THEN Held(st) \cup {tail[s]} ELSE Held(st)
        /\ \A k \in Slots :
             buffer'[st][k] = IF st = s /\ k = tail[s] THEN p ELSE buffer[st][k]
        /\ Indices(st)' = IF st = s THEN Indices(st) \cup {tail[s]} ELSE Indices(st)
        /\ \A x \in Passengers :
             At(st, x)' = IF st = s /\ p = x THEN At(st, x) \cup {tail[s]} ELSE At(st, x)
  BY <1>1, <1>2, <1>4, <1>6, QueuePushed
<1>8. Circular'
  BY <1>7 DEF Circular
<1>9. \A st \in Stages : Busy(st)' = Busy(st) /\ Counting' = Counting
  BY <1>1, WorkersRest
<1>10. \A st \in Stages : Held(st) \subseteq Slots
  BY <1>2, QueueSizes
<1>11. SlotsCounted'
  <2> SUFFICES ASSUME NEW st \in Stages
               PROVE  spaces'[st] + Cardinality(Pushing(st)') + StopComing(st)' + Full(st)'
                        = Capacity
    BY DEF SlotsCounted
  <2>1. StopComing(st)' = StopComing(st) /\ StopComing(st) \in Nat
    BY <1>1 DEF StopComing, Stopping
  <2>2. /\ spaces[st] + Cardinality(Pushing(st)) + StopComing(st) + Full(st) = Capacity
        /\ spaces[st] \in Nat /\ spaces'[st] = spaces[st]
    BY <1>1, <1>2 DEF SlotsCounted, Types
  <2>3. Full(st) \in Nat
    BY <1>2, QueueSizes
  <2>4. CASE st = s
    <3>1. /\ Cardinality(Pushing(st)') = Cardinality(Pushing(st)) - 1
          /\ Full(st)' = Full(st) + 1 /\ Cardinality(Pushing(st)) \in Nat
      BY <1>5, <1>7, <2>4, Taken
    <3> QED
      BY <2>1, <2>2, <2>3, <3>1
  <2>5. CASE st # s
    BY <1>5, <1>7, <2>1, <2>2, <2>5
  <2> QED
    BY <2>4, <2>5
<1>12. WorkersCounted'
  <2> SUFFICES ASSUME NEW st \in Stages
               PROVE  available'[st] + Cardinality(Admitted(st)') + Cardinality(Indices(st)')
                        + Cardinality(Busy(st)') = Cardinality(Pool(st))
    BY DEF WorkersCounted
  <2>1. /\ available[st] + Cardinality(Admitted(st)) + Cardinality(Indices(st))
             + Cardinality(Busy(st)) = Cardinality(Pool(st))
        /\ available'[st] = available[st] /\ available[st] \in Nat
    BY <1>1, <1>2 DEF WorkersCounted, Types
  <2>2. /\ Cardinality(Busy(st)) \in Nat /\ Busy(st)' = Busy(st)
        /\ Cardinality(Indices(st)) \in Nat /\ IsFiniteSet(Indices(st))
    BY <1>2, <1>9, QueueSizes, Sizes
  <2>3. CASE st = s
    <3>1. tail[s] \notin Indices(s)
      BY <1>4, <1>7 DEF Indices
    <3>2. /\ Cardinality(Admitted(st)') = Cardinality(Admitted(st)) - 1
          /\ Cardinality(Admitted(st)) \in Nat
      BY <1>5, <2>3, Taken
    <3>3. Cardinality(Indices(st)') = Cardinality(Indices(st)) + 1
      BY <1>7, <2>2, <2>3, <3>1, Added
    <3> QED
      BY <2>1, <2>2, <3>2, <3>3
  <2>4. CASE st # s
    BY <1>5, <1>7, <2>1, <2>2, <2>4
  <2> QED
    BY <2>3, <2>4
<1>13. ServedOnce'
  <2> SUFFICES ASSUME NEW x \in Passengers, NEW st \in Stages
               PROVE  Queued(st, x)' + Serving(st, x)' + done'[st][x]
                        = IF ppc'[x] = "served" /\ pstage'[x] = st THEN 1 ELSE 0
    BY DEF ServedOnce
  <2>1. /\ Queued(st, x) + Serving(st, x) + done[st][x]
             = IF ppc[x] = "served" /\ pstage[x] = st THEN 1 ELSE 0
        /\ Serving(st, x)' = Serving(st, x) /\ Serving(st, x) \in Nat
        /\ done'[st][x] = done[st][x] /\ done[st][x] \in Nat
    BY <1>1, <1>2, Sizes DEF ServedOnce, Types, Serving, Serves
  <2>2. /\ Queued(st, x) = Cardinality(At(st, x)) /\ Queued(st, x) \in Nat
        /\ IsFiniteSet(At(st, x)) /\ Queued(st, x)' = Cardinality(At(st, x)')
    BY <1>2, QueueSizes DEF Queued, At
  <2>3. CASE st = s /\ x = p
    <3>1. tail[s] \notin At(s, p)
      BY <1>4, <1>7 DEF At
    <3>2. Queued(st, x)' = Queued(st, x) + 1
      BY <1>7, <2>2, <2>3, <3>1, Added
    <3>3. ppc'[x] = "served" /\ pstage'[x] = st /\ ppc[x] # "served"
      BY <1>1, <1>2, <2>3 DEF Types, s
    <3> QED
      BY <2>1, <2>2, <3>2, <3>3
  <2>4. CASE ~(st = s /\ x = p)
    <3>1. Queued(st, x)' = Queued(st, x)
      BY <1>7, <2>2, <2>4
    <3>2. (ppc'[x] = "served" /\ pstage'[x] = st) <=> (ppc[x] = "served" /\ pstage[x] = st)
      BY <1>1, <1>2, <2>4 DEF Types, s
    <3> QED
      BY <2>1, <2>2, <3>1, <3>2
  <2> QED
    BY <2>3, <2>4
<1>14. state[p] = 2 * s - 2
  BY <1>1, <1>2 DEF Progress, Outside, s
<1>15. \A x \in Passengers : Outside(x)'
  BY <1>1, <1>2 DEF Types, Progress, Outside
<1>16. Progress'
  <2> SUFFICES ASSUME NEW st \in Stages
               PROVE  InQueue(st)' /\ InHand(st)' /\ IsDone(st)'
    BY <1>15 DEF Progress
  <2>1. InQueue(st) /\ InHand(st) /\ IsDone(st)
    BY <1>2 DEF Progress
  <2>2. InQueue(st)'
    <3> SUFFICES ASSUME NEW k \in Held(st)', buffer'[st][k] # Stop
                 PROVE  state[buffer'[st][k]] = 2 * st - 2
      BY <1>1 DEF InQueue
    <3>1. k \in Slots
      BY <1>7, <1>10
    <3>2. CASE st = s /\ k = tail[s]
      BY <1>7, <1>14, <3>1, <3>2
    <3>3. CASE ~(st = s /\ k = tail[s])
      BY <1>7, <2>1, <3>1, <3>3 DEF InQueue
    <3> QED
      BY <3>2, <3>3
  <2>3. InHand(st)' /\ IsDone(st)'
    BY <1>1, <2>1 DEF InHand, IsDone
  <2> QED
    BY <2>2, <2>3
<1>17. AllCounted'
  BY <1>1, <1>2, <1>9, <1>4 DEF AllCounted, AtHome
<1>18. NoEarlyStop'
  <2> SUFFICES ASSUME main = "wait"
               PROVE  /\ \A st \in Stages : \A k \in Held(st)' : buffer'[st][k] # Stop
                      /\ \A w \in Workers : wpc'[w] # "end"
    BY <1>1 DEF NoEarlyStop
  <2>1. /\ \A st \in Stages : \A k \in Held(st) : buffer[st][k] # Stop
        /\ \A w \in Workers : wpc[w] # "end"
    BY <1>2 DEF NoEarlyStop
  <2> QED
    BY <1>1, <1>4, <1>7, <1>10, <2>1
<1> QED
  BY <1>3, <1>8, <1>11, <1>12, <1>13, <1>16, <1>17, <1>18 DEF Inv

-----------------------------------------------------------------------------
\* A worker takes an item, works, and comes back; it pops nothing.

\* The passenger a worker has in hand is in no queue, in no other hands and at
\* no stage done, and waits for this stage.
LEMMA OneInHand ==
  ASSUME Types, SlotsCounted, ServedOnce, Progress, NEW w \in Workers,
         wpc[w] \in {"begin", "finish"}
  PROVE  /\ job[w] \in Passengers /\ ppc[job[w]] = "served"
         /\ pstage[job[w]] = StageOf(w)
         /\ \A st \in Stages :
              /\ At(st, job[w]) = {} /\ done[st][job[w]] = 0
              /\ Serves(st, job[w]) = IF st = StageOf(w) THEN {w} ELSE {}
<1> DEFINE s == StageOf(w)
           p == job[w]
<1>1. s \in Stages /\ w \in Pool(s)
  BY Pools
<1>2. p \in Passengers
  BY <1>1 DEF Types, Progress, InHand
<1> HIDE DEF s, p
<1>3. \A st \in Stages :
        /\ Cardinality(At(st, p)) + Cardinality(Serves(st, p)) + done[st][p]
             = IF ppc[p] = "served" /\ pstage[p] = st THEN 1 ELSE 0
        /\ IsFiniteSet(At(st, p)) /\ IsFiniteSet(Serves(st, p))
        /\ Cardinality(At(st, p)) \in Nat /\ Cardinality(Serves(st, p)) \in Nat
        /\ done[st][p] \in Nat
  <2> SUFFICES ASSUME NEW st \in Stages
               PROVE  Cardinality(At(st, p)) + Cardinality(Serves(st, p)) + done[st][p]
                        = IF ppc[p] = "served" /\ pstage[p] = st THEN 1 ELSE 0
    BY <1>2, QueueSizes, Sizes DEF Types
  <2>1. Queued(st, p) = Cardinality(At(st, p)) /\ Serving(st, p) = Cardinality(Serves(st, p))
    BY DEF Queued, At, Serving, Serves
  <2> QED
    BY <1>2, <2>1 DEF ServedOnce
<1>4. w \in Serves(s, p) /\ Cardinality(Serves(s, p)) \in Nat \ {0}
  <2>1. w \in Serves(s, p)
    BY <1>1 DEF Serves, p
  <2> QED
    BY <1>1, <1>3, <2>1, Taken
<1>5. ppc[p] = "served" /\ pstage[p] = s
  BY <1>1, <1>3, <1>4
<1>6. \A st \in Stages : Cardinality(At(st, p)) = 0 /\ done[st][p] = 0
  BY <1>1, <1>3, <1>4, <1>5
<1>7. \A st \in Stages : Cardinality(Serves(st, p)) = IF st = s THEN 1 ELSE 0
  BY <1>1, <1>3, <1>4, <1>5
<1>8. \A st \in Stages : At(st, p) = {}
  BY <1>3, <1>6, FS_EmptySet
<1>9. \A st \in Stages : Serves(st, p) = IF st = s THEN {w} ELSE {}
  <2>1. Serves(s, p) = {w}
    <3>1. \E x : Serves(s, p) = {x}
      BY <1>1, <1>3, <1>7, FS_Singleton
    <3> QED
      BY <1>4, <3>1
  <2>2. \A st \in Stages : st # s => Serves(st, p) = {}
    BY <1>3, <1>7, FS_EmptySet
  <2> QED
    BY <2>1, <2>2
<1> QED
  BY <1>2, <1>5, <1>6, <1>8, <1>9 DEF s, p

\* What such a step keeps.
LEMMA WorkerStays ==
  ASSUME Inv, Types', NEW w \in Workers, NEW to, to # "end",
         wpc' = [wpc EXCEPT ![w] = to], job' = job,
         buffer' = buffer, head' = head, tail' = tail, spaces' = spaces,
         ppc' = ppc, pstage' = pstage, main' = main, stops' = stops,
         \A st \in Stages : Full(st)' = Full(st)
  PROVE  /\ SlotsCounted' /\ Circular' /\ NoEarlyStop'
         /\ \A st \in Stages :
              /\ Held(st)' = Held(st) /\ Indices(st)' = Indices(st)
              /\ Admitted(st)' = Admitted(st)
              /\ \A p \in Passengers :
                   /\ Queued(st, p)' = Queued(st, p)
                   /\ Serves(st, p)' =
                        IF StageOf(w) = st /\ to \in {"begin", "finish"} /\ job[w] = p
                        THEN Serves(st, p) \cup {w} ELSE Serves(st, p) \ {w}
<1>1. Types /\ SlotsCounted /\ Circular /\ NoEarlyStop
  BY DEF Inv
<1>2. \A st \in Stages :
        /\ Held(st)' = Held(st) /\ Indices(st)' = Indices(st)
        /\ \A p \in Passengers : Queued(st, p)' = Queued(st, p)
  BY <1>1, QueueRests DEF Types
<1>3. \A st \in Stages : Admitted(st)' = Admitted(st) /\ Pushing(st)' = Pushing(st)
  BY PassengersRest
<1>4. SlotsCounted'
  BY <1>1, <1>3 DEF SlotsCounted, StopComing, Stopping
<1>5. Circular'
  BY <1>1 DEF Circular
<1>6. \A x \in Workers : wpc'[x] = "end" => wpc[x] = "end"
  BY <1>1 DEF Types
<1>7. NoEarlyStop'
  BY <1>1, <1>2, <1>6 DEF NoEarlyStop
<1>8. PICK v : v = job[w]
  OBVIOUS
<1>9. \A st \in Stages : \A p \in Passengers :
        Serves(st, p)' = IF StageOf(w) = st /\ to \in {"begin", "finish"} /\ job[w] = p
                         THEN Serves(st, p) \cup {w} ELSE Serves(st, p) \ {w}
  <2> SUFFICES ASSUME NEW st \in Stages, NEW p \in Passengers
               PROVE  Serves(st, p)' =
                        IF StageOf(w) = st /\ to \in {"begin", "finish"} /\ v = p
                        THEN Serves(st, p) \cup {w} ELSE Serves(st, p) \ {w}
    BY <1>8
  <2>1. \A x \in Workers : job'[x] = IF x = w THEN v ELSE job[x]
    BY <1>8
  <2> QED
    BY <1>1, <2>1, ServesMoves
<1> QED
  BY <1>2, <1>3, <1>4, <1>5, <1>7, <1>9

LEMMA WaitItemKeeps ==
  ASSUME Inv, NEW w \in Workers, WaitItem(w)
  PROVE  Inv'
<1> DEFINE s == StageOf(w)
<1>1. /\ wpc[w] = "wait" /\ wpc' = [wpc EXCEPT ![w] = "pop"] /\ job' = job
      /\ buffer' = buffer /\ head' = head /\ tail' = tail /\ spaces' = spaces
      /\ ppc' = ppc /\ pstage' = pstage /\ main' = main /\ stops' = stops
      /\ state' = state /\ available' = available /\ done' = done
      /\ seated' = seated /\ allSeated' = allSeated
      /\ items[s] > 0 /\ items' = [items EXCEPT ![s] = @ - 1]
  BY DEF WaitItem, ItemTaken, GotoW, Down
<1>2. Types /\ SlotsCounted /\ WorkersCounted /\ ServedOnce /\ Progress /\ AllCounted
  BY DEF Inv
<1>3. Types'
  BY <1>2, WorkerTypes DEF Worker
<1>4. s \in Stages
  BY Pools
<1> HIDE DEF s
<1>5. ASSUME NEW st \in Stages
      PROVE  /\ Popping(st)' = IF st = s THEN Popping(st) \cup {w} ELSE Popping(st)
             /\ w \notin Popping(st) /\ IsFiniteSet(Popping(st))
             /\ Busy(st)' = Busy(st) /\ Counting' = Counting
  <2>1. /\ Popping(st)' = IF StageOf(w) = st /\ "pop" = "pop"
                          THEN Popping(st) \cup {w} ELSE Popping(st) \ {w}
        /\ Busy(st)' = IF StageOf(w) = st /\ "pop" \in {"begin", "finish", "count", "release"}
                       THEN Busy(st) \cup {w} ELSE Busy(st) \ {w}
        /\ Counting' = IF "pop" = "count" THEN Counting \cup {w} ELSE Counting \ {w}
    BY <1>1, <1>2, WorkerMoves
  <2>2. w \notin Popping(st) /\ w \notin Busy(st) /\ w \notin Counting
    BY <1>1 DEF Popping, Busy, Counting
  <2> QED
    BY <2>1, <2>2, Sizes DEF s
<1>6. ASSUME NEW st \in Stages
      PROVE  Full(st)' = Full(st)
  <2>1. /\ Full(st) = items[st] + Claimed(st) /\ Claimed(st) = Cardinality(Popping(st))
        /\ Claimed(st) \in Nat /\ items[st] \in Nat
    BY <1>2, QueueSizes DEF Types
  <2>2. Full(st)' = items'[st] + Claimed(st)' /\ Claimed(st)' = Cardinality(Popping(st)')
    BY <1>3, HeldAfter DEF Types
  <2>3. CASE st = s
    <3>1. items'[st] = items[st] - 1
      BY <1>1, <1>2, <2>3 DEF Types
    <3>2. Cardinality(Popping(st)') = Cardinality(Popping(st)) + 1
      BY <1>5, <2>3, Added
    <3> QED
      BY <2>1, <2>2, <3>1, <3>2
  <2>4. CASE st # s
    <3>1. items'[st] = items[st]
      BY <1>1, <1>2, <2>4 DEF Types
    <3> QED
      BY <1>5, <2>1, <2>2, <2>4, <3>1
  <2> QED
    BY <2>3, <2>4
<1>7. /\ SlotsCounted' /\ Circular' /\ NoEarlyStop'
      /\ \A st \in Stages :
           /\ Held(st)' = Held(st) /\ Indices(st)' = Indices(st)
           /\ Admitted(st)' = Admitted(st)
           /\ \A p \in Passengers :
                /\ Queued(st, p)' = Queued(st, p)
                /\ Serves(st, p)' =
                     IF StageOf(w) = st /\ "pop" \in {"begin", "finish"} /\ job[w] = p
                     THEN Serves(st, p) \cup {w} ELSE Serves(st, p) \ {w}
  BY <1>1, <1>3, <1>6, WorkerStays
<1>8. \A st \in Stages : \A p \in Passengers : Serving(st, p)' = Serving(st, p)
  <2>1. \A st \in Stages : \A p \in Passengers : Serves(st, p)' = Serves(st, p)
    BY <1>1, <1>7 DEF Serves
  <2> QED
    BY <2>1 DEF Serving, Serves
<1>9. WorkersCounted'
  BY <1>1, <1>2, <1>5, <1>7 DEF WorkersCounted
<1>10. ServedOnce'
  BY <1>1, <1>2, <1>7, <1>8 DEF ServedOnce
<1>11. Progress'
  <2> SUFFICES ASSUME NEW st \in Stages
               PROVE  InQueue(st)' /\ InHand(st)' /\ IsDone(st)'
    BY <1>1, <1>2 DEF Progress, Outside
  <2>1. InQueue(st) /\ InHand(st) /\ IsDone(st)
    BY <1>2 DEF Progress
  <2>2. InQueue(st)' /\ IsDone(st)'
    BY <1>1, <1>7, <2>1 DEF InQueue, IsDone
  <2>3. \A x \in Pool(st) : wpc'[x] \in {"begin", "finish", "count"} => wpc'[x] = wpc[x]
    BY <1>1, <1>2, Pools DEF Types
  <2>4. InHand(st)'
    BY <1>1, <2>1, <2>3 DEF InHand
  <2> QED
    BY <2>2, <2>4
<1>12. AllCounted'
  BY <1>1, <1>2, <1>4, <1>5 DEF AllCounted, AtHome
<1> QED
  BY <1>3, <1>7, <1>9, <1>10, <1>11, <1>12 DEF Inv

LEMMA FullStays ==
  ASSUME Types, NEW w \in Workers, NEW to, to # "pop", wpc[w] # "pop",
         wpc' = [wpc EXCEPT ![w] = to], items' = items, NEW st \in Stages
  PROVE  Full(st)' = Full(st)
<1>1. \A x \in Pool(st) : wpc'[x] = "pop" <=> wpc[x] = "pop"
  BY Pools DEF Types
<1>2. Popping(st)' = Popping(st)
  BY <1>1 DEF Popping
<1> QED
  BY <1>2 DEF Full, Claimed, Popping

\* A worker that is busy and stays busy.
LEMMA BusyStays ==
  ASSUME Types, NEW w \in Workers,
         NEW to \in {"begin", "finish", "count", "release"},
         wpc[w] \in {"begin", "finish", "count", "release"},
         wpc' = [wpc EXCEPT ![w] = to], NEW st \in Stages
  PROVE  Busy(st)' = Busy(st)
<1>1. \A x \in Pool(st) : wpc'[x] \in {"begin", "finish", "count", "release"}
                       <=> wpc[x] \in {"begin", "finish", "count", "release"}
  BY Pools DEF Types
<1> QED
  BY <1>1 DEF Busy

\* The passenger in a worker's hands advances; nothing else depends on its state.
LEMMA HandProgress ==
  ASSUME Types, SlotsCounted, ServedOnce, Progress, NEW w \in Workers,
         wpc[w] \in {"begin", "finish"},
         NEW to \in {"finish", "count", "release"}, wpc' = [wpc EXCEPT ![w] = to],
         \A x \in Passengers : x # job[w] => state'[x] = state[x],
         to = "finish" => state'[job[w]] = 2 * StageOf(w) - 1,
         to = "count" => StageOf(w) = 3,
         job' = job, buffer' = buffer, ppc' = ppc, pstage' = pstage,
         NEW st \in Stages, Held(st)' = Held(st)
  PROVE  /\ InQueue(st)' /\ InHand(st)'
         /\ \A x \in Passengers : Outside(x)'
<1> DEFINE s == StageOf(w)
           p == job[w]
<1>1. /\ p \in Passengers /\ ppc[p] = "served"
      /\ \A y \in Stages : At(y, p) = {} /\ Serves(y, p) = IF y = s THEN {w} ELSE {}
  BY OneInHand
<1>2. \A x \in Passengers : Outside(x)'
  BY <1>1 DEF Progress, Outside
<1>3. InQueue(st) /\ InHand(st)
  BY DEF Progress
<1>4. InQueue(st)'
  <2> SUFFICES ASSUME NEW k \in Held(st), buffer[st][k] # Stop
               PROVE  state'[buffer[st][k]] = 2 * st - 2
    BY DEF InQueue
  <2>1. k \in Slots
    BY QueueSizes
  <2>2. buffer[st][k] \in Passengers /\ buffer[st][k] # p
    BY <1>1, <2>1 DEF Types, At
  <2> QED
    BY <1>3, <2>2 DEF InQueue
<1>5. InHand(st)'
  <2> SUFFICES ASSUME NEW x \in Pool(st)
               PROVE  /\ wpc'[x] = "begin" => job[x] # Stop /\ state'[job[x]] = 2 * st - 2
                      /\ wpc'[x] = "finish" => job[x] # Stop /\ state'[job[x]] = 2 * st - 1
                      /\ wpc'[x] = "count" => st = 3
    BY DEF InHand
  <2>1. x \in Workers /\ StageOf(x) = st
    BY Pools
  <2>2. CASE x = w
    <3>1. st = s /\ wpc'[x] = to
      BY <2>1, <2>2 DEF Types
    <3>2. job[x] = p /\ p # Stop
      BY <1>1, <2>2, PoolsAssumption
    <3> QED
      BY <1>1, <3>1, <3>2
  <2>3. CASE x # w
    <3>1. wpc'[x] = wpc[x]
      BY <2>1, <2>3 DEF Types
    <3>2. wpc[x] \in {"begin", "finish"} => job[x] # p
      BY <1>1, <2>3 DEF Serves
    <3>3. job[x] # Stop => job[x] \in Passengers
      BY <2>1 DEF Types
    <3> QED
      BY <1>3, <3>1, <3>2, <3>3 DEF InHand
  <2> QED
    BY <2>2, <2>3
<1> QED
  BY <1>2, <1>4, <1>5

LEMMA BeginKeeps ==
  ASSUME Inv, NEW w \in Workers, Begin(w)
  PROVE  Inv'
<1> DEFINE s == StageOf(w)
           p == job[w]
<1>1. /\ wpc[w] = "begin" /\ wpc' = [wpc EXCEPT ![w] = "finish"] /\ job' = job
      /\ buffer' = buffer /\ head' = head /\ tail' = tail /\ spaces' = spaces
      /\ items' = items
      /\ ppc' = ppc /\ pstage' = pstage /\ main' = main /\ stops' = stops
      /\ available' = available /\ done' = done
      /\ seated' = seated /\ allSeated' = allSeated
      /\ state' = [state EXCEPT ![p] = Working(s)]
  BY DEF Begin, GotoW
<1>2. Types /\ SlotsCounted /\ WorkersCounted /\ ServedOnce /\ Progress /\ AllCounted
  BY DEF Inv
<1>3. Types'
  BY <1>2, WorkerTypes DEF Worker
<1>4. s \in Stages /\ w \in Pool(s) /\ Working(s) = 2 * s - 1 /\ s \in 1 .. 3
  BY Pools, StateValues
<1>5. /\ p \in Passengers /\ ppc[p] = "served"
      /\ \A st \in Stages : /\ At(st, p) = {} /\ done[st][p] = 0
                           /\ Serves(st, p) = IF st = s THEN {w} ELSE {}
  BY <1>1, <1>2, OneInHand
<1>6. state[p] = 2 * s - 2
  BY <1>1, <1>2, <1>4 DEF Progress, InHand
<1>h. s = StageOf(w) /\ p = job[w]
  OBVIOUS
<1> HIDE DEF s, p
<1>7. \A x \in Passengers : state'[x] = IF x = p THEN 2 * s - 1 ELSE state[x]
  BY <1>1, <1>2, <1>4, <1>5 DEF Types
<1>8. \A st \in Stages : Full(st)' = Full(st) /\ Busy(st)' = Busy(st)
  BY <1>1, <1>2, FullStays, BusyStays
<1>9. /\ SlotsCounted' /\ Circular' /\ NoEarlyStop'
      /\ \A st \in Stages :
           /\ Held(st)' = Held(st) /\ Indices(st)' = Indices(st)
           /\ Admitted(st)' = Admitted(st)
           /\ \A x \in Passengers : Queued(st, x)' = Queued(st, x)
  BY <1>1, <1>3, <1>8, WorkerStays
<1>10. WorkersCounted'
  BY <1>1, <1>2, <1>8, <1>9 DEF WorkersCounted
<1>11. ServedOnce'
  <2>1. \A x \in Workers : wpc'[x] \in {"begin", "finish"} <=> wpc[x] \in {"begin", "finish"}
    BY <1>1, <1>2 DEF Types
  <2>2. \A st \in Stages : \A x \in Passengers : Serving(st, x)' = Serving(st, x)
    BY <1>1, <2>1, Pools DEF Serving
  <2> QED
    BY <1>1, <1>2, <1>9, <2>2 DEF ServedOnce
<1>12. ASSUME NEW st \in Stages
       PROVE  InQueue(st)' /\ InHand(st)' /\ \A x \in Passengers : Outside(x)'
  <2>1. \A x \in Passengers : x # job[w] => state'[x] = state[x]
    BY <1>7, <1>h
  <2>2. state'[job[w]] = 2 * StageOf(w) - 1
    BY <1>5, <1>7, <1>h
  <2> QED
    BY <1>1, <1>2, <1>9, <2>1, <2>2, HandProgress
<1>13. \A st \in Stages : IsDone(st)'
  BY <1>1, <1>2, <1>5, <1>7 DEF Progress, IsDone
<1>14. Progress'
  BY <1>4, <1>12, <1>13 DEF Progress
<1>15. AllCounted'
  <2>1. AtHome' = AtHome
    BY <1>4, <1>6, <1>7 DEF AtHome, SEATED
  <2>2. Counting' = Counting
    BY <1>1, <1>2 DEF Counting, Types
  <2> QED
    BY <1>1, <1>2, <2>1, <2>2 DEF AllCounted
<1> QED
  BY <1>3, <1>9, <1>10, <1>11, <1>14, <1>15 DEF Inv

LEMMA FinishKeeps ==
  ASSUME Inv, NEW w \in Workers, Finish(w)
  PROVE  Inv'
<1> DEFINE s == StageOf(w)
           p == job[w]
           to == IF s = 3 THEN "count" ELSE "release"
<1>1. /\ wpc[w] = "finish" /\ wpc' = [wpc EXCEPT ![w] = to] /\ job' = job
      /\ buffer' = buffer /\ head' = head /\ tail' = tail /\ spaces' = spaces
      /\ items' = items
      /\ ppc' = ppc /\ pstage' = pstage /\ main' = main /\ stops' = stops
      /\ available' = available /\ done' = [done EXCEPT ![s][p] = @ + 1]
      /\ seated' = seated /\ allSeated' = allSeated
      /\ state' = [state EXCEPT ![p] = Done(s)]
  BY DEF Finish, GotoW
<1>2. Types /\ SlotsCounted /\ WorkersCounted /\ ServedOnce /\ Progress /\ AllCounted
  BY DEF Inv
<1>3. Types'
  BY <1>2, WorkerTypes DEF Worker
<1>4. s \in Stages /\ w \in Pool(s) /\ Done(s) = 2 * s /\ s \in 1 .. 3
  BY Pools, StateValues
<1>5. /\ p \in Passengers /\ ppc[p] = "served" /\ pstage[p] = s
      /\ \A st \in Stages : /\ At(st, p) = {} /\ done[st][p] = 0
                           /\ Serves(st, p) = IF st = s THEN {w} ELSE {}
  BY <1>1, <1>2, OneInHand
<1>6. state[p] = 2 * s - 1
  BY <1>1, <1>2, <1>4 DEF Progress, InHand
<1>t. to \in {"count", "release"} /\ (to = "count" <=> s = 3)
  OBVIOUS
<1>h. s = StageOf(w) /\ p = job[w]
  OBVIOUS
<1> HIDE DEF s, p, to
<1>7. \A x \in Passengers : state'[x] = IF x = p THEN 2 * s ELSE state[x]
  BY <1>1, <1>2, <1>4, <1>5 DEF Types
<1>8. \A st \in Stages : Full(st)' = Full(st) /\ Busy(st)' = Busy(st)
  BY <1>1, <1>2, <1>t, FullStays, BusyStays
<1>9. /\ SlotsCounted' /\ Circular' /\ NoEarlyStop'
      /\ \A st \in Stages :
           /\ Held(st)' = Held(st) /\ Indices(st)' = Indices(st)
           /\ Admitted(st)' = Admitted(st)
           /\ \A x \in Passengers : Queued(st, x)' = Queued(st, x)
  BY <1>1, <1>3, <1>8, <1>t, WorkerStays
<1>d. \A st \in Stages : \A x \in Passengers :
        done'[st][x] = IF st = s /\ x = p THEN done[st][x] + 1 ELSE done[st][x]
  BY <1>1, <1>2, <1>4, <1>5 DEF Types
<1>10. WorkersCounted'
  BY <1>1, <1>2, <1>8, <1>9 DEF WorkersCounted
<1>11. ServedOnce'
  <2> SUFFICES ASSUME NEW x \in Passengers, NEW st \in Stages
               PROVE  Queued(st, x)' + Serving(st, x)' + done'[st][x]
                        = IF ppc'[x] = "served" /\ pstage'[x] = st THEN 1 ELSE 0
    BY DEF ServedOnce
  <2>1. /\ Queued(st, x) + Serving(st, x) + done[st][x]
             = IF ppc[x] = "served" /\ pstage[x] = st THEN 1 ELSE 0
        /\ Queued(st, x)' = Queued(st, x) /\ done[st][x] \in Nat
    BY <1>2, <1>9 DEF ServedOnce, Types
  <2>2. Queued(st, x) \in Nat
    BY <1>2, QueueSizes
  <2>3. /\ Serving(st, x) = Cardinality(Serves(st, x)) /\ Serving(st, x) \in Nat
        /\ Serving(st, x)' = Cardinality(Serves(st, x)')
    BY Sizes DEF Serving, Serves
  <2>4. /\ Serves(st, x)' = Serves(st, x) \ {w}
        /\ w \in Serves(st, x) <=> (st = s /\ x = p)
    <3>1. \A y \in Pool(st) : y # w => wpc'[y] = wpc[y]
      BY <1>1, <1>2, Pools DEF Types
    <3>2. wpc'[w] \notin {"begin", "finish"}
      BY <1>1, <1>2, <1>t DEF Types
    <3>3. Serves(st, x)' = Serves(st, x) \ {w}
      BY <1>1, <3>1, <3>2 DEF Serves
    <3>4. w \in Serves(st, x) <=> (st = s /\ x = p)
      BY <1>1, <1>4, Pools DEF Serves, s, p
    <3> QED
      BY <3>3, <3>4
  <2>5. CASE st = s /\ x = p
    <3>1. Serving(st, x)' = Serving(st, x) - 1
      BY <2>3, <2>4, <2>5, Taken, Sizes
    <3>2. done'[st][x] = done[st][x] + 1
      BY <1>d, <2>5
    <3> QED
      BY <1>1, <2>1, <2>2, <2>3, <3>1, <3>2
  <2>6. CASE ~(st = s /\ x = p)
    <3>1. Serving(st, x)' = Serving(st, x)
      BY <2>3, <2>4, <2>6
    <3>2. done'[st][x] = done[st][x]
      BY <1>d, <2>6
    <3> QED
      BY <1>1, <2>1, <3>1, <3>2
  <2> QED
    BY <2>5, <2>6
<1>12. ASSUME NEW st \in Stages
       PROVE  InQueue(st)' /\ InHand(st)' /\ \A x \in Passengers : Outside(x)'
  <2>1. \A x \in Passengers : x # job[w] => state'[x] = state[x]
    BY <1>7, <1>h
  <2>2. /\ to \in {"finish", "count", "release"} /\ to # "finish"
        /\ to = "count" => StageOf(w) = 3
    BY <1>t, <1>h
  <2> QED
    BY <1>1, <1>2, <1>9, <2>1, <2>2, HandProgress
<1>13. \A st \in Stages : IsDone(st)'
  <2> SUFFICES ASSUME NEW st \in Stages, NEW x \in Passengers, done'[st][x] > 0
               PROVE  state'[x] = 2 * st
    BY DEF IsDone
  <2>1. CASE x = p
    <3>1. st = s
      BY <1>5, <1>d, <2>1
    <3> QED
      BY <1>7, <2>1, <3>1
  <2>2. CASE x # p
    <3>1. done[st][x] > 0 /\ state'[x] = state[x]
      BY <1>7, <1>d, <2>2
    <3> QED
      BY <1>2, <3>1 DEF Progress, IsDone
  <2> QED
    BY <2>1, <2>2
<1>14. Progress'
  BY <1>4, <1>12, <1>13 DEF Progress
<1>15. AllCounted'
  <2>1. p \notin AtHome /\ w \notin Counting
    BY <1>1, <1>4, <1>6 DEF AtHome, Counting, SEATED
  <2>2. CASE s = 3
    <3>1. AtHome' = AtHome \cup {p}
      BY <1>5, <1>7, <2>2 DEF AtHome, SEATED
    <3>2. Counting' = Counting \cup {w}
      BY <1>1, <1>2, <1>t, <2>2 DEF Counting, Types
    <3>3. /\ Cardinality(AtHome') = Cardinality(AtHome) + 1
          /\ Cardinality(Counting') = Cardinality(Counting) + 1
          /\ Cardinality(AtHome) \in Nat /\ Cardinality(Counting) \in Nat
      BY <2>1, <3>1, <3>2, Added, Sizes
    <3>4. seated \in Nat
      BY <1>2 DEF Types
    <3> QED
      BY <1>1, <1>2, <3>3, <3>4 DEF AllCounted
  <2>3. CASE s # 3
    <3>1. AtHome' = AtHome
      BY <1>4, <1>6, <1>7, <2>3 DEF AtHome, SEATED
    <3>2. Counting' = Counting
      BY <1>1, <1>2, <1>t, <2>3 DEF Counting, Types
    <3> QED
      BY <1>1, <1>2, <3>1, <3>2 DEF AllCounted
  <2> QED
    BY <2>2, <2>3
<1> QED
  BY <1>3, <1>9, <1>10, <1>11, <1>14, <1>15 DEF Inv

\* A worker that has finished with its passenger: the passenger is elsewhere.
LEMMA AfterHand ==
  ASSUME Types, SlotsCounted, ServedOnce, Progress, NEW w \in Workers,
         wpc[w] \in {"count", "release"},
         NEW to \in {"release", "wait"}, wpc' = [wpc EXCEPT ![w] = to],
         job' = job, state' = state, done' = done, buffer' = buffer,
         ppc' = ppc, pstage' = pstage,
         \A st \in Stages : /\ Held(st)' = Held(st)
                          /\ \A p \in Passengers : Queued(st, p)' = Queued(st, p)
  PROVE  ServedOnce' /\ Progress' /\ AtHome' = AtHome
<1>1. \A x \in Workers : /\ wpc'[x] \in {"begin", "finish"} <=> wpc[x] \in {"begin", "finish"}
                        /\ wpc'[x] \in {"begin", "finish", "count"} => wpc'[x] = wpc[x]
  <2>1. \A x \in Workers : wpc'[x] = IF x = w THEN to ELSE wpc[x]
    BY DEF Types
  <2>2. to \notin {"begin", "finish", "count"} /\ wpc[w] \notin {"begin", "finish"}
    OBVIOUS
  <2>3. \A x \in Workers : x # w => wpc'[x] = wpc[x]
    BY <2>1
  <2>4. wpc'[w] = to
    BY <2>1
  <2> QED
    BY <2>2, <2>3, <2>4
<1>2. \A st \in Stages : \A x \in Passengers : Serving(st, x)' = Serving(st, x)
  <2>1. \A st \in Stages : \A x \in Pool(st) :
          wpc'[x] \in {"begin", "finish"} <=> wpc[x] \in {"begin", "finish"}
    BY <1>1, Pools
  <2> QED
    BY <2>1 DEF Serving
<1>3. ServedOnce'
  BY <1>2 DEF ServedOnce
<1>4. \A x \in Passengers : Outside(x)'
  BY DEF Progress, Outside
<1>5. \A st \in Stages : InQueue(st)' /\ IsDone(st)'
  BY DEF Progress, InQueue, IsDone
<1>6. \A st \in Stages : InHand(st)'
  BY <1>1, Pools DEF Progress, InHand
<1> QED
  BY <1>3, <1>4, <1>5, <1>6 DEF Progress, AtHome

LEMMA CountKeeps ==
  ASSUME Inv, NEW w \in Workers, Count(w)
  PROVE  Inv'
<1>1. /\ wpc[w] = "count" /\ wpc' = [wpc EXCEPT ![w] = "release"] /\ job' = job
      /\ buffer' = buffer /\ head' = head /\ tail' = tail /\ spaces' = spaces
      /\ items' = items
      /\ ppc' = ppc /\ pstage' = pstage /\ main' = main /\ stops' = stops
      /\ available' = available /\ done' = done /\ state' = state
      /\ seated' = seated + 1
      /\ allSeated' = IF seated' = Cardinality(Passengers) THEN allSeated + 1
                      ELSE allSeated
  BY DEF Count, GotoW
<1>2. Types /\ SlotsCounted /\ WorkersCounted /\ ServedOnce /\ Progress /\ AllCounted
  BY DEF Inv
<1>3. Types'
  BY <1>2, WorkerTypes DEF Worker
<1>4. \A st \in Stages : Full(st)' = Full(st) /\ Busy(st)' = Busy(st)
  BY <1>1, <1>2, FullStays, BusyStays
<1>5. /\ SlotsCounted' /\ Circular' /\ NoEarlyStop'
      /\ \A st \in Stages :
           /\ Held(st)' = Held(st) /\ Indices(st)' = Indices(st)
           /\ Admitted(st)' = Admitted(st)
           /\ \A x \in Passengers : Queued(st, x)' = Queued(st, x)
  BY <1>1, <1>3, <1>4, WorkerStays
<1>6. WorkersCounted'
  BY <1>1, <1>2, <1>4, <1>5 DEF WorkersCounted
<1>7. ServedOnce' /\ Progress' /\ AtHome' = AtHome
  BY <1>1, <1>2, <1>5, AfterHand
<1>8. AllCounted'
  <2>1. Counting' = Counting \ {w} /\ w \in Counting
    BY <1>1, <1>2 DEF Counting, Types
  <2>2. /\ Cardinality(Counting') = Cardinality(Counting) - 1
        /\ Cardinality(Counting) \in Nat \ {0}
    BY <2>1, Taken, Sizes
  <2>3. /\ Cardinality(AtHome) <= Cardinality(Passengers)
        /\ Cardinality(AtHome) \in Nat /\ Cardinality(Passengers) \in Nat
    <3>1. AtHome \subseteq Passengers
      BY DEF AtHome
    <3> QED
      BY <3>1, Pools, Sizes, FS_Subset, FS_CardinalityType
  <2>4. seated \in Nat /\ allSeated \in Nat
    BY <1>2 DEF Types
  <2>5. /\ seated + Cardinality(Counting) = Cardinality(AtHome)
        /\ allSeated + (IF main = "wait" THEN 0 ELSE 1)
             = IF seated = Cardinality(Passengers) THEN 1 ELSE 0
    BY <1>2 DEF AllCounted
  <2>6. seated # Cardinality(Passengers)
    BY <2>2, <2>3, <2>4, <2>5
  <2>7. seated' + Cardinality(Counting') = Cardinality(AtHome')
    BY <1>1, <1>7, <2>2, <2>3, <2>4, <2>5
  <2>8. allSeated' + (IF main' = "wait" THEN 0 ELSE 1)
          = IF seated' = Cardinality(Passengers) THEN 1 ELSE 0
    BY <1>1, <2>4, <2>5, <2>6
  <2> QED
    BY <2>7, <2>8 DEF AllCounted
<1> QED
  BY <1>3, <1>5, <1>6, <1>7, <1>8 DEF Inv

LEMMA ReleaseKeeps ==
  ASSUME Inv, NEW w \in Workers, Release(w)
  PROVE  Inv'
<1> DEFINE s == StageOf(w)
<1>1. /\ wpc[w] = "release" /\ wpc' = [wpc EXCEPT ![w] = "wait"] /\ job' = job
      /\ buffer' = buffer /\ head' = head /\ tail' = tail /\ spaces' = spaces
      /\ items' = items
      /\ ppc' = ppc /\ pstage' = pstage /\ main' = main /\ stops' = stops
      /\ available' = [available EXCEPT ![s] = @ + 1] /\ done' = done
      /\ state' = state /\ seated' = seated /\ allSeated' = allSeated
  BY DEF Release, GotoW, Up
<1>2. Types /\ SlotsCounted /\ WorkersCounted /\ ServedOnce /\ Progress /\ AllCounted
  BY DEF Inv
<1>3. Types'
  BY <1>2, WorkerTypes DEF Worker
<1>4. \A st \in Stages : Full(st)' = Full(st)
  BY <1>1, <1>2, FullStays
<1>5. /\ SlotsCounted' /\ Circular' /\ NoEarlyStop'
      /\ \A st \in Stages :
           /\ Held(st)' = Held(st) /\ Indices(st)' = Indices(st)
           /\ Admitted(st)' = Admitted(st)
           /\ \A x \in Passengers : Queued(st, x)' = Queued(st, x)
  BY <1>1, <1>3, <1>4, WorkerStays
<1>6. WorkersCounted'
  <2> SUFFICES ASSUME NEW st \in Stages
               PROVE  available'[st] + Cardinality(Admitted(st)) + Cardinality(Indices(st))
                        + Cardinality(Busy(st)') = Cardinality(Pool(st))
    BY <1>5 DEF WorkersCounted
  <2>1. /\ available[st] + Cardinality(Admitted(st)) + Cardinality(Indices(st))
             + Cardinality(Busy(st)) = Cardinality(Pool(st))
        /\ available[st] \in Nat
    BY <1>2 DEF WorkersCounted, Types
  <2>2. Cardinality(Admitted(st)) \in Nat /\ Cardinality(Indices(st)) \in Nat
    BY <1>2, QueueSizes, Sizes
  <2>3. /\ Busy(st)' = Busy(st) \ {w}
        /\ w \in Busy(st) <=> st = s
    <3>1. w \in Busy(st) <=> st = s
      BY <1>1, Pools DEF Busy
    <3>2. \A x \in Pool(st) : wpc'[x] = IF x = w THEN "wait" ELSE wpc[x]
      BY <1>1, <1>2, Pools DEF Types
    <3>3. Busy(st)' = Busy(st) \ {w}
      BY <3>2 DEF Busy
    <3> QED
      BY <3>1, <3>3
  <2>4. CASE st = s
    <3>1. /\ Cardinality(Busy(st)') = Cardinality(Busy(st)) - 1
          /\ Cardinality(Busy(st)) \in Nat
      BY <2>3, <2>4, Taken, Sizes
    <3>2. available'[st] = available[st] + 1
      BY <1>1, <1>2, <2>4 DEF Types
    <3> QED
      BY <2>1, <2>2, <3>1, <3>2
  <2>5. CASE st # s
    <3>1. Busy(st)' = Busy(st) /\ available'[st] = available[st]
      BY <1>1, <1>2, <2>3, <2>5 DEF Types
    <3> QED
      BY <2>1, <3>1
  <2> QED
    BY <2>4, <2>5
<1>7. ServedOnce' /\ Progress' /\ AtHome' = AtHome
  BY <1>1, <1>2, <1>5, AfterHand
<1>8. AllCounted'
  <2>1. Counting' = Counting
    BY <1>1, <1>2 DEF Counting, Types
  <2> QED
    BY <1>1, <1>2, <1>7, <2>1 DEF AllCounted
<1> QED
  BY <1>3, <1>5, <1>6, <1>7, <1>8 DEF Inv

-----------------------------------------------------------------------------
\* A worker pops an index, or the -1 that sends it home.

LEMMA PopKeeps ==
  ASSUME Inv, NEW w \in Workers, Pop(w)
  PROVE  Inv'
<1> DEFINE s == StageOf(w)
           v == buffer[s][head[s]]
           to == IF v = Stop THEN "end" ELSE "begin"
<1>1. /\ wpc[w] = "pop" /\ wpc' = [wpc EXCEPT ![w] = to]
      /\ job' = [job EXCEPT ![w] = v] /\ Popped(s) /\ buffer' = buffer
      /\ spaces' = [spaces EXCEPT ![s] = @ + 1]
      /\ ppc' = ppc /\ pstage' = pstage /\ main' = main /\ stops' = stops
      /\ available' = available /\ done' = done
      /\ state' = state /\ seated' = seated /\ allSeated' = allSeated
  BY DEF Pop, GotoW, Popped, Up
<1>2. Types /\ SlotsCounted /\ Circular /\ WorkersCounted /\ ServedOnce /\ Progress
      /\ AllCounted /\ NoEarlyStop
  BY DEF Inv
<1>3. Types'
  BY <1>2, WorkerTypes DEF Worker
<1>4. s \in Stages /\ w \in Pool(s)
  BY Pools
<1>t. to \in {"begin", "end"} /\ (to = "begin" <=> v # Stop)
  OBVIOUS
<1>h. s = StageOf(w) /\ v = buffer[s][head[s]]
  OBVIOUS
<1> HIDE DEF s, v, to
<1>5. /\ head[s] \in Held(s) /\ v \in Passengers \cup {Stop}
      /\ \A st \in Stages :
           /\ Full(st)' = IF st = s THEN Full(st) - 1 ELSE Full(st)
           /\ tail'[st] = (head'[st] + Full(st)') % Capacity
           /\ Held(st)' = IF st = s THEN Held(st) \ {head[s]} ELSE Held(st)
           /\ Indices(st)' = IF st = s THEN Indices(st) \ {head[s]} ELSE Indices(st)
           /\ \A p \in Passengers :
                At(st, p)' = IF st = s THEN At(st, p) \ {head[s]} ELSE At(st, p)
  <2>1. to # "pop"
    BY <1>t
  <2>2. ASSUME NEW st \in Stages
        PROVE  /\ head[s] \in Held(s) /\ v \in Passengers \cup {Stop}
               /\ Full(st)' = IF st = s THEN Full(st) - 1 ELSE Full(st)
               /\ tail'[st] = (head'[st] + Full(st)') % Capacity
               /\ Held(st)' = IF st = s THEN Held(st) \ {head[s]} ELSE Held(st)
               /\ Indices(st)' = IF st = s THEN Indices(st) \ {head[s]} ELSE Indices(st)
               /\ \A p \in Passengers :
                    At(st, p)' = IF st = s THEN At(st, p) \ {head[s]} ELSE At(st, p)
    BY <1>1, <1>2, <1>h, <2>1, QueuePopped
  <2> QED
    BY <1>4, <2>2
<1>6. \A x \in Workers : /\ wpc'[x] = IF x = w THEN to ELSE wpc[x]
                        /\ job'[x] = IF x = w THEN v ELSE job[x]
  BY <1>1, <1>2 DEF Types
<1>7. \A st \in Stages : Admitted(st)' = Admitted(st) /\ Pushing(st)' = Pushing(st)
  BY <1>1, PassengersRest
<1>8. Circular'
  BY <1>5 DEF Circular
<1>9. SlotsCounted'
  <2> SUFFICES ASSUME NEW st \in Stages
               PROVE  spaces'[st] + Cardinality(Pushing(st)) + StopComing(st)' + Full(st)'
                        = Capacity
    BY <1>7 DEF SlotsCounted
  <2>1. StopComing(st)' = StopComing(st) /\ StopComing(st) \in Nat
    BY <1>1 DEF StopComing, Stopping
  <2>2. /\ spaces[st] + Cardinality(Pushing(st)) + StopComing(st) + Full(st) = Capacity
        /\ spaces[st] \in Nat
        /\ spaces'[st] = IF st = s THEN spaces[st] + 1 ELSE spaces[st]
    BY <1>1, <1>2 DEF SlotsCounted, Types
  <2>3. Full(st) \in Nat /\ Cardinality(Pushing(st)) \in Nat
    BY <1>2, QueueSizes, Sizes
  <2>4. CASE st = s
    <3>1. Full(st)' = Full(st) - 1 /\ spaces'[st] = spaces[st] + 1
      BY <1>5, <2>2, <2>4
    <3> QED
      BY <2>1, <2>2, <2>3, <3>1
  <2>5. CASE st # s
    BY <1>5, <2>1, <2>2, <2>5
  <2> QED
    BY <2>4, <2>5
<1>10. WorkersCounted'
  <2> SUFFICES ASSUME NEW st \in Stages
               PROVE  available[st] + Cardinality(Admitted(st)) + Cardinality(Indices(st)')
                        + Cardinality(Busy(st)') = Cardinality(Pool(st))
    BY <1>1, <1>7 DEF WorkersCounted
  <2>1. /\ available[st] + Cardinality(Admitted(st)) + Cardinality(Indices(st))
             + Cardinality(Busy(st)) = Cardinality(Pool(st))
        /\ available[st] \in Nat
    BY <1>2 DEF WorkersCounted, Types
  <2>2. /\ Cardinality(Admitted(st)) \in Nat /\ Cardinality(Indices(st)) \in Nat
        /\ Cardinality(Busy(st)) \in Nat /\ IsFiniteSet(Busy(st)) /\ IsFiniteSet(Indices(st))
    BY <1>2, QueueSizes, Sizes
  <2>3. /\ Busy(st)' = IF st = s /\ v # Stop THEN Busy(st) \cup {w} ELSE Busy(st)
        /\ w \notin Busy(st)
    <3>1. w \notin Busy(st)
      BY <1>1 DEF Busy
    <3>2. \A x \in Pool(st) : wpc'[x] = IF x = w THEN to ELSE wpc[x]
      BY <1>6, Pools
    <3>3. w \in Pool(st) <=> st = s
      BY <1>h, <1>4, Pools
    <3> QED
      BY <1>t, <3>1, <3>2, <3>3 DEF Busy
  <2>4. head[s] \in Indices(s) <=> v # Stop
    BY <1>h, <1>5 DEF Indices
  <2>5. CASE st = s /\ v # Stop
    <3>1. /\ Cardinality(Indices(st)') = Cardinality(Indices(st)) - 1
          /\ Cardinality(Busy(st)') = Cardinality(Busy(st)) + 1
      BY <1>5, <2>2, <2>3, <2>4, <2>5, Taken, Added
    <3> QED
      BY <2>1, <2>2, <3>1
  <2>6. CASE ~(st = s /\ v # Stop)
    <3>1. Indices(st)' = Indices(st) /\ Busy(st)' = Busy(st)
      BY <1>5, <2>3, <2>4, <2>6
    <3> QED
      BY <2>1, <3>1
  <2> QED
    BY <2>5, <2>6
<1>11. ServedOnce'
  <2> SUFFICES ASSUME NEW x \in Passengers, NEW st \in Stages
               PROVE  Queued(st, x)' + Serving(st, x)' + done[st][x]
                        = IF ppc[x] = "served" /\ pstage[x] = st THEN 1 ELSE 0
    BY <1>1 DEF ServedOnce
  <2>1. /\ Queued(st, x) + Serving(st, x) + done[st][x]
             = IF ppc[x] = "served" /\ pstage[x] = st THEN 1 ELSE 0
        /\ done[st][x] \in Nat
    BY <1>2 DEF ServedOnce, Types
  <2>2. /\ Queued(st, x) = Cardinality(At(st, x)) /\ Queued(st, x) \in Nat
        /\ IsFiniteSet(At(st, x)) /\ Queued(st, x)' = Cardinality(At(st, x)')
    BY <1>2, QueueSizes DEF Queued, At
  <2>3. /\ Serving(st, x) = Cardinality(Serves(st, x)) /\ Serving(st, x) \in Nat
        /\ Serving(st, x)' = Cardinality(Serves(st, x)') /\ IsFiniteSet(Serves(st, x))
    BY Sizes DEF Serving, Serves
  <2>4. /\ Serves(st, x)' = IF st = s /\ v = x THEN Serves(st, x) \cup {w} ELSE Serves(st, x)
        /\ w \notin Serves(st, x)
    <3>1. w \notin Serves(st, x)
      BY <1>1 DEF Serves
    <3>2. \A y \in Pool(st) : /\ wpc'[y] = IF y = w THEN to ELSE wpc[y]
                            /\ job'[y] = IF y = w THEN v ELSE job[y]
      BY <1>6, Pools
    <3>3. w \in Pool(st) <=> st = s
      BY <1>h, <1>4, Pools
    <3>4. v = x => to = "begin"
      BY <1>t, PoolsAssumption
    <3>5. v # x => w \notin Serves(st, x)'
      BY <1>6 DEF Serves
    <3>6. \A y \in Pool(st) : y # w => (y \in Serves(st, x)' <=> y \in Serves(st, x))
      BY <3>2 DEF Serves
    <3>7. st = s /\ v = x => w \in Serves(st, x)'
      BY <3>2, <3>3, <3>4 DEF Serves
    <3>8. Serves(st, x)' \subseteq Pool(st) /\ Serves(st, x) \subseteq Pool(st)
      BY DEF Serves
    <3> QED
      BY <3>1, <3>3, <3>5, <3>6, <3>7, <3>8
  <2>5. head[s] \in At(s, x) <=> v = x
    BY <1>h, <1>5 DEF At
  <2>6. CASE st = s /\ v = x
    <3>1. Cardinality(At(st, x)') = Cardinality(At(st, x)) - 1
      <4>1. At(st, x)' = At(st, x) \ {head[s]} /\ head[s] \in At(st, x)
        BY <1>5, <2>5, <2>6
      <4> QED
        BY <2>2, <4>1, Taken
    <3>2. Cardinality(Serves(st, x)') = Cardinality(Serves(st, x)) + 1
      <4>1. Serves(st, x)' = Serves(st, x) \cup {w} /\ w \notin Serves(st, x)
        BY <2>4, <2>6
      <4> QED
        BY <2>3, <4>1, Added
    <3> QED
      BY <2>1, <2>2, <2>3, <3>1, <3>2
  <2>7. CASE ~(st = s /\ v = x)
    <3>1. Serves(st, x)' = Serves(st, x)
      BY <2>4, <2>7
    <3>2. At(st, x)' = At(st, x)
      <4>1. CASE st = s
        <5>1. At(s, x)' = At(s, x) \ {head[s]} /\ head[s] \notin At(s, x)
          BY <1>4, <1>5, <2>5, <2>7, <4>1
        <5> QED
          BY <4>1, <5>1
      <4>2. CASE st # s
        BY <1>5, <4>2
      <4> QED
        BY <4>1, <4>2
    <3> QED
      BY <2>1, <2>2, <2>3, <3>1, <3>2
  <2> QED
    BY <2>6, <2>7
<1>12. Progress'
  <2> SUFFICES ASSUME NEW st \in Stages
               PROVE  InQueue(st)' /\ InHand(st)' /\ IsDone(st)'
    BY <1>1, <1>2 DEF Progress, Outside
  <2>1. InQueue(st) /\ InHand(st) /\ IsDone(st)
    BY <1>2 DEF Progress
  <2>2. InQueue(st)'
    BY <1>1, <1>5, <2>1 DEF InQueue
  <2>3. InHand(st)'
    <3> SUFFICES ASSUME NEW x \in Pool(st)
                 PROVE  /\ wpc'[x] = "begin" => job'[x] # Stop /\ state[job'[x]] = 2 * st - 2
                        /\ wpc'[x] = "finish" => job'[x] # Stop /\ state[job'[x]] = 2 * st - 1
                        /\ wpc'[x] = "count" => st = 3
      BY <1>1 DEF InHand
    <3>1. x \in Workers /\ StageOf(x) = st
      BY Pools
    <3>2. CASE x = w
      <4>1. st = s /\ wpc'[x] = to /\ job'[x] = v
        BY <1>6, <1>h, <3>1, <3>2
      <4>2. v # Stop => state[v] = 2 * st - 2
        BY <1>5, <1>h, <2>1, <4>1 DEF InQueue
      <4> QED
        BY <1>t, <4>1, <4>2
    <3>3. CASE x # w
      <4>1. wpc'[x] = wpc[x] /\ job'[x] = job[x]
        BY <1>6, <3>1, <3>3
      <4> QED
        BY <2>1, <4>1 DEF InHand
    <3> QED
      BY <3>2, <3>3
  <2>4. IsDone(st)'
    BY <1>1, <2>1 DEF IsDone
  <2> QED
    BY <2>2, <2>3, <2>4
<1>13. AllCounted'
  <2>1. Counting' = Counting
    <3>1. wpc'[w] # "count"
      BY <1>6, <1>t
    <3> QED
      BY <1>1, <1>6, <3>1 DEF Counting
  <2> QED
    BY <1>1, <1>2, <2>1 DEF AllCounted, AtHome
<1>14. NoEarlyStop'
  <2> SUFFICES ASSUME main = "wait"
               PROVE  /\ \A st \in Stages : \A k \in Held(st)' : buffer[st][k] # Stop
                      /\ \A x \in Workers : wpc'[x] # "end"
    BY <1>1 DEF NoEarlyStop
  <2>1. /\ \A st \in Stages : \A k \in Held(st) : buffer[st][k] # Stop
        /\ \A x \in Workers : wpc[x] # "end"
    BY <1>2 DEF NoEarlyStop
  <2>2. to = "begin"
    BY <1>4, <1>5, <1>h, <1>t, <2>1
  <2> QED
    BY <1>5, <1>6, <2>1, <2>2
<1> QED
  BY <1>3, <1>8, <1>9, <1>10, <1>11, <1>12, <1>13, <1>14 DEF Inv

-----------------------------------------------------------------------------
\* main waits for the last passenger, and sends the workers home.

\* What a step of main that pushes nothing keeps.
LEMMA MainKeeps ==
  ASSUME Inv, Types', wpc' = wpc, job' = job, ppc' = ppc, pstage' = pstage,
         state' = state, available' = available, done' = done, seated' = seated,
         buffer' = buffer, head' = head, tail' = tail, items' = items,
         main' # "wait"
  PROVE  /\ Circular' /\ WorkersCounted' /\ ServedOnce' /\ Progress' /\ NoEarlyStop'
         /\ Counting' = Counting /\ AtHome' = AtHome
         /\ \A st \in Stages : Full(st)' = Full(st) /\ Pushing(st)' = Pushing(st)
<1>1. Types /\ SlotsCounted /\ WorkersCounted /\ ServedOnce /\ Progress
  BY DEF Inv
<1>2. /\ Circular'
      /\ \A st \in Stages :
           /\ Full(st)' = Full(st) /\ Held(st)' = Held(st)
           /\ Indices(st)' = Indices(st) /\ Busy(st)' = Busy(st)
           /\ \A x \in Passengers : /\ Queued(st, x)' = Queued(st, x)
                                   /\ Serving(st, x)' = Serving(st, x)
      /\ Counting' = Counting
  BY Unchanged
<1>3. \A st \in Stages : Admitted(st)' = Admitted(st) /\ Pushing(st)' = Pushing(st)
  BY PassengersRest
<1>4. WorkersCounted'
  BY <1>1, <1>2, <1>3 DEF WorkersCounted
<1>5. ServedOnce'
  BY <1>1, <1>2 DEF ServedOnce
<1>6. Progress'
  BY <1>1, <1>2 DEF Progress, Outside, InQueue, InHand, IsDone
<1>7. NoEarlyStop'
  BY DEF NoEarlyStop
<1> QED
  BY <1>2, <1>3, <1>4, <1>5, <1>6, <1>7 DEF AtHome

LEMMA WaitSeatedKeeps ==
  ASSUME Inv, WaitSeated
  PROVE  Inv'
<1>1. /\ main = "wait" /\ main' = "space" /\ allSeated > 0 /\ allSeated' = allSeated - 1
      /\ stops' = stops /\ spaces' = spaces
      /\ wpc' = wpc /\ job' = job /\ ppc' = ppc /\ pstage' = pstage
      /\ state' = state /\ available' = available /\ done' = done /\ seated' = seated
      /\ buffer' = buffer /\ head' = head /\ tail' = tail /\ items' = items
  BY DEF WaitSeated
<1>2. Types /\ SlotsCounted /\ AllCounted
  BY DEF Inv
<1>3. Types'
  BY <1>2, MainTypes DEF Main
<1>4. /\ Circular' /\ WorkersCounted' /\ ServedOnce' /\ Progress' /\ NoEarlyStop'
      /\ Counting' = Counting /\ AtHome' = AtHome
      /\ \A st \in Stages : Full(st)' = Full(st) /\ Pushing(st)' = Pushing(st)
  BY <1>1, <1>3, MainKeeps
<1>5. \A st \in Stages : StopComing(st)' = StopComing(st)
  BY <1>1 DEF StopComing
<1>6. SlotsCounted'
  BY <1>1, <1>2, <1>4, <1>5 DEF SlotsCounted
<1>7. AllCounted'
  <2>1. allSeated \in Nat
    BY <1>2 DEF Types
  <2>2. allSeated + 0 = IF seated = Cardinality(Passengers) THEN 1 ELSE 0
    BY <1>1, <1>2 DEF AllCounted
  <2>3. allSeated' + 1 = IF seated = Cardinality(Passengers) THEN 1 ELSE 0
    BY <1>1, <2>1, <2>2
  <2> QED
    BY <1>1, <1>2, <1>4, <2>3 DEF AllCounted
<1> QED
  BY <1>3, <1>4, <1>6, <1>7 DEF Inv

\* One stage at most is being stopped.
LEMMA OneStopping ==
  ASSUME Types, NEW st \in Stages, NEW sx \in Stages, Stopping(st), Stopping(sx)
  PROVE  st = sx
<1>1. stops[st] > 0 /\ stops[sx] > 0
      /\ \A x \in Stages : (x < st => stops[x] = 0) /\ (x < sx => stops[x] = 0)
  BY DEF Stopping
<1>2. st \in Int /\ sx \in Int /\ ~(0 > 0)
  BY DEF Stages
<1>3. ~(sx < st) /\ ~(st < sx)
  BY <1>1, <1>2
<1> QED
  BY <1>2, <1>3

LEMMA StopSpaceKeeps ==
  ASSUME Inv, StopSpace
  PROVE  Inv'
<1>1. PICK s \in Stages : Stopping(s) /\ SpaceTaken(s)
  BY DEF StopSpace
<1>2. /\ main = "space" /\ main' = "push" /\ allSeated' = allSeated
      /\ stops' = stops /\ spaces[s] > 0 /\ spaces' = [spaces EXCEPT ![s] = @ - 1]
      /\ wpc' = wpc /\ job' = job /\ ppc' = ppc /\ pstage' = pstage
      /\ state' = state /\ available' = available /\ done' = done /\ seated' = seated
      /\ buffer' = buffer /\ head' = head /\ tail' = tail /\ items' = items
  BY <1>1 DEF StopSpace, SpaceTaken, Down
<1>3. Types /\ SlotsCounted /\ AllCounted
  BY DEF Inv
<1>4. Types'
  BY <1>3, MainTypes DEF Main
<1>5. /\ Circular' /\ WorkersCounted' /\ ServedOnce' /\ Progress' /\ NoEarlyStop'
      /\ Counting' = Counting /\ AtHome' = AtHome
      /\ \A st \in Stages : Full(st)' = Full(st) /\ Pushing(st)' = Pushing(st)
  BY <1>2, <1>4, MainKeeps
<1>6. \A st \in Stages : /\ StopComing(st) = 0
                       /\ StopComing(st)' = IF st = s THEN 1 ELSE 0
  <2>1. \A st \in Stages : Stopping(st) <=> st = s
    BY <1>1, <1>3, OneStopping
  <2>2. \A st \in Stages : Stopping(st)' <=> Stopping(st)
    BY <1>2 DEF Stopping
  <2> QED
    BY <1>2, <2>1, <2>2 DEF StopComing
<1>7. SlotsCounted'
  <2> SUFFICES ASSUME NEW st \in Stages
               PROVE  spaces'[st] + Cardinality(Pushing(st)) + StopComing(st)' + Full(st)
                        = Capacity
    BY <1>5 DEF SlotsCounted
  <2>1. /\ spaces[st] + Cardinality(Pushing(st)) + StopComing(st) + Full(st) = Capacity
        /\ spaces[st] \in Nat
        /\ spaces'[st] = IF st = s THEN spaces[st] - 1 ELSE spaces[st]
    BY <1>2, <1>3 DEF SlotsCounted, Types
  <2>2. Full(st) \in Nat /\ Cardinality(Pushing(st)) \in Nat
    BY <1>3, QueueSizes, Sizes
  <2>3. StopComing(st) = 0 /\ StopComing(st)' = IF st = s THEN 1 ELSE 0
    BY <1>6
  <2>4. CASE st = s
    BY <2>1, <2>2, <2>3, <2>4
  <2>5. CASE st # s
    BY <2>1, <2>2, <2>3, <2>5
  <2> QED
    BY <2>4, <2>5
<1>8. AllCounted'
  BY <1>2, <1>3, <1>5 DEF AllCounted
<1> QED
  BY <1>4, <1>5, <1>7, <1>8 DEF Inv

LEMMA StopPushKeeps ==
  ASSUME Inv, StopPush
  PROVE  Inv'
<1>1. PICK s \in Stages : Stopping(s) /\ Pushed(s, Stop) /\ stops' = Down(stops, s)
  BY DEF StopPush
<1>2. /\ main = "push" /\ main' \in {"join", "space"} /\ allSeated' = allSeated
      /\ spaces' = spaces /\ head' = head
      /\ wpc' = wpc /\ job' = job /\ ppc' = ppc /\ pstage' = pstage
      /\ state' = state /\ available' = available /\ done' = done /\ seated' = seated
  BY <1>1 DEF StopPush, Pushed
<1>3. Types /\ SlotsCounted /\ Circular /\ WorkersCounted /\ ServedOnce /\ Progress
      /\ AllCounted
  BY DEF Inv
<1>4. Types'
  BY <1>3, MainTypes DEF Main
<1>5. \A st \in Stages : /\ StopComing(st) = IF st = s THEN 1 ELSE 0
                       /\ StopComing(st)' = 0
  <2>1. \A st \in Stages : Stopping(st) <=> st = s
    BY <1>1, <1>3, OneStopping
  <2> QED
    BY <1>2, <2>1 DEF StopComing
<1>6. Full(s) < Capacity
  <2>1. /\ spaces[s] + Cardinality(Pushing(s)) + StopComing(s) + Full(s) = Capacity
        /\ spaces[s] \in Nat /\ StopComing(s) = 1
    BY <1>3, <1>5 DEF SlotsCounted, Types
  <2>2. Full(s) \in Nat /\ Cardinality(Pushing(s)) \in Nat
    BY <1>3, QueueSizes, Sizes
  <2> QED
    BY <2>1, <2>2, CapacityIsPositive
<1>7. \A st \in Stages :
        /\ Full(st)' = IF st = s THEN Full(st) + 1 ELSE Full(st)
        /\ tail'[st] = (head'[st] + Full(st)') % Capacity
        /\ Held(st)' = IF st = s THEN Held(st) \cup {tail[s]} ELSE Held(st)
        /\ \A k \in Slots :
             buffer'[st][k] = IF st = s /\ k = tail[s] THEN Stop ELSE buffer[st][k]
        /\ Indices(st)' = Indices(st)
        /\ \A x \in Passengers : At(st, x)' = At(st, x)
  <2>1. Stop \in Passengers \cup {Stop}
    OBVIOUS
  <2>2. ASSUME NEW st \in Stages
        PROVE  /\ Full(st)' = IF st = s THEN Full(st) + 1 ELSE Full(st)
               /\ tail'[st] = (head'[st] + Full(st)') % Capacity
               /\ Held(st)' = IF st = s THEN Held(st) \cup {tail[s]} ELSE Held(st)
               /\ \A k \in Slots :
                    buffer'[st][k] = IF st = s /\ k = tail[s] THEN Stop ELSE buffer[st][k]
               /\ Indices(st)' = IF st = s /\ Stop # Stop THEN Indices(st) \cup {tail[s]}
                                 ELSE Indices(st)
               /\ \A x \in Passengers :
                    At(st, x)' = IF st = s /\ Stop = x THEN At(st, x) \cup {tail[s]}
                                 ELSE At(st, x)
    BY <1>1, <1>2, <1>3, <1>6, <2>1, QueuePushed
  <2> QED
    BY <2>2, PoolsAssumption
<1>8. Circular'
  BY <1>7 DEF Circular
<1>9. /\ Counting' = Counting
      /\ \A st \in Stages : /\ Busy(st)' = Busy(st) /\ Admitted(st)' = Admitted(st)
                           /\ Pushing(st)' = Pushing(st)
  BY <1>2, WorkersRest, PassengersRest
<1>10. SlotsCounted'
  <2> SUFFICES ASSUME NEW st \in Stages
               PROVE  spaces[st] + Cardinality(Pushing(st)) + StopComing(st)' + Full(st)'
                        = Capacity
    BY <1>2, <1>9 DEF SlotsCounted
  <2>1. /\ spaces[st] + Cardinality(Pushing(st)) + StopComing(st) + Full(st) = Capacity
        /\ spaces[st] \in Nat
    BY <1>3 DEF SlotsCounted, Types
  <2>2. Full(st) \in Nat /\ Cardinality(Pushing(st)) \in Nat
    BY <1>3, QueueSizes, Sizes
  <2>3. StopComing(st)' = 0 /\ StopComing(st) = IF st = s THEN 1 ELSE 0
    BY <1>5
  <2>4. Full(st)' = IF st = s THEN Full(st) + 1 ELSE Full(st)
    BY <1>7
  <2>5. CASE st = s
    BY <2>1, <2>2, <2>3, <2>4, <2>5
  <2>6. CASE st # s
    BY <2>1, <2>2, <2>3, <2>4, <2>6
  <2> QED
    BY <2>5, <2>6
<1>11. WorkersCounted'
  BY <1>2, <1>3, <1>7, <1>9 DEF WorkersCounted
<1>12. ServedOnce'
  <2>1. \A st \in Stages : \A x \in Passengers :
          Queued(st, x)' = Queued(st, x) /\ Serving(st, x)' = Serving(st, x)
    <3> SUFFICES ASSUME NEW st \in Stages, NEW x \in Passengers
                 PROVE  Queued(st, x)' = Queued(st, x) /\ Serving(st, x)' = Serving(st, x)
      OBVIOUS
    <3>1. At(st, x)' = At(st, x) /\ Serves(st, x)' = Serves(st, x)
      BY <1>2, <1>7, ServesRests
    <3>2. /\ Queued(st, x) = Cardinality(At(st, x))
          /\ Queued(st, x)' = Cardinality(At(st, x)')
          /\ Serving(st, x) = Cardinality(Serves(st, x))
          /\ Serving(st, x)' = Cardinality(Serves(st, x)')
      BY DEF Queued, At, Serving, Serves
    <3> QED
      BY <3>1, <3>2
  <2> QED
    BY <1>2, <1>3, <2>1 DEF ServedOnce
<1>13. Progress'
  <2> SUFFICES ASSUME NEW st \in Stages
               PROVE  InQueue(st)' /\ InHand(st)' /\ IsDone(st)'
    BY <1>2, <1>3 DEF Progress, Outside
  <2>1. InQueue(st) /\ InHand(st) /\ IsDone(st)
    BY <1>3 DEF Progress
  <2>2. Held(st) \subseteq Slots /\ tail[s] \in Slots
    BY <1>3, QueueSizes DEF Types
  <2>3. InQueue(st)'
    BY <1>2, <1>7, <2>1, <2>2 DEF InQueue
  <2>4. InHand(st)' /\ IsDone(st)'
    BY <1>2, <2>1 DEF InHand, IsDone
  <2> QED
    BY <2>3, <2>4
<1>14. AllCounted'
  BY <1>2, <1>3, <1>9 DEF AllCounted, AtHome
<1>15. NoEarlyStop'
  BY <1>2 DEF NoEarlyStop
<1> QED
  BY <1>4, <1>8, <1>10, <1>11, <1>12, <1>13, <1>14, <1>15 DEF Inv

LEMMA JoinKeeps ==
  ASSUME Inv, Join
  PROVE  Inv'
<1>1. /\ main = "join" /\ main' = "departed" /\ allSeated' = allSeated
      /\ stops' = stops /\ spaces' = spaces
      /\ wpc' = wpc /\ job' = job /\ ppc' = ppc /\ pstage' = pstage
      /\ state' = state /\ available' = available /\ done' = done /\ seated' = seated
      /\ buffer' = buffer /\ head' = head /\ tail' = tail /\ items' = items
  BY DEF Join
<1>2. Types /\ SlotsCounted /\ AllCounted
  BY DEF Inv
<1>3. Types'
  BY <1>2, MainTypes DEF Main
<1>4. /\ Circular' /\ WorkersCounted' /\ ServedOnce' /\ Progress' /\ NoEarlyStop'
      /\ Counting' = Counting /\ AtHome' = AtHome
      /\ \A st \in Stages : Full(st)' = Full(st) /\ Pushing(st)' = Pushing(st)
  BY <1>1, <1>3, MainKeeps
<1>5. SlotsCounted'
  BY <1>1, <1>2, <1>4 DEF SlotsCounted, StopComing
<1>6. AllCounted'
  BY <1>1, <1>2, <1>4 DEF AllCounted
<1> QED
  BY <1>3, <1>4, <1>5, <1>6 DEF Inv

-----------------------------------------------------------------------------
\* The invariant and what follows from it.

LEMMA InitInv == Init => Inv
<1> SUFFICES ASSUME Init
             PROVE  Inv
  OBVIOUS
<1>1. /\ state = [p \in Passengers |-> ARRIVED]
      /\ buffer = [st \in Stages |-> [k \in Slots |-> Stop]]
      /\ head = [st \in Stages |-> 0] /\ tail = [st \in Stages |-> 0]
      /\ items = [st \in Stages |-> 0] /\ spaces = [st \in Stages |-> Capacity]
      /\ available = [st \in Stages |-> Cardinality(Pool(st))]
      /\ done = [st \in Stages |-> [p \in Passengers |-> 0]]
      /\ seated = 0 /\ allSeated = 0
      /\ ppc = [p \in Passengers |-> "arrive"] /\ pstage = [p \in Passengers |-> 1]
      /\ wpc = [w \in Workers |-> "wait"] /\ job = [w \in Workers |-> Stop]
      /\ main = "wait" /\ stops = [st \in Stages |-> Cardinality(Pool(st))]
  BY DEF Init
<1>2. 0 \in Slots /\ Capacity \in Nat \ {0} /\ ARRIVED \in States /\ 1 \in Stages
  BY CapacityIsPositive DEF Slots, ARRIVED, SEATED, States, Stages
<1>3. Types
  <2>1. /\ state \in [Passengers -> States]
        /\ buffer \in [Stages -> [Slots -> Passengers \cup {Stop}]]
        /\ head \in [Stages -> Slots] /\ tail \in [Stages -> Slots]
        /\ items \in [Stages -> Nat] /\ spaces \in [Stages -> Nat]
    BY <1>1, <1>2
  <2>2. /\ available \in [Stages -> Nat] /\ stops \in [Stages -> Nat]
        /\ \A st \in Stages : stops[st] <= Cardinality(Pool(st))
    BY <1>1, Pools
  <2>3. /\ done \in [Stages -> [Passengers -> Nat]] /\ seated \in Nat /\ allSeated \in Nat
        /\ pstage \in [Passengers -> Stages] /\ job \in [Workers -> Passengers \cup {Stop}]
    BY <1>1, <1>2
  <2>4. /\ ppc \in [Passengers -> {"arrive", "worker", "space", "push", "served", "end"}]
        /\ wpc \in [Workers ->
              {"wait", "pop", "begin", "finish", "count", "release", "end"}]
        /\ main \in {"wait", "space", "push", "join", "departed"}
    BY <1>1
  <2> QED
    BY <2>1, <2>2, <2>3, <2>4 DEF Types
<1>4. \A st \in Stages :
        /\ Popping(st) = {} /\ Busy(st) = {} /\ Admitted(st) = {} /\ Pushing(st) = {}
        /\ \A p \in Passengers : Serves(st, p) = {}
  BY <1>1, Pools DEF Popping, Busy, Admitted, Pushing, Serves
<1>5. Counting = {} /\ AtHome = {} /\ Cardinality({}) = 0
  BY <1>1, FS_EmptySet DEF Counting, AtHome, ARRIVED, SEATED
<1>6. \A st \in Stages : Claimed(st) = 0 /\ Full(st) = 0 /\ StopComing(st) = 0
  <2> SUFFICES ASSUME NEW st \in Stages
               PROVE  Claimed(st) = 0 /\ Full(st) = 0 /\ StopComing(st) = 0
    OBVIOUS
  <2>1. Claimed(st) = Cardinality(Popping(st)) /\ Popping(st) = {}
    BY <1>4 DEF Claimed, Popping
  <2>2. Claimed(st) = 0
    BY <1>5, <2>1
  <2>3. items[st] = 0
    BY <1>1
  <2>4. Full(st) = 0
    BY <2>2, <2>3 DEF Full
  <2>5. StopComing(st) = 0
    BY <1>1 DEF StopComing
  <2> QED
    BY <2>2, <2>4, <2>5
<1>7. SlotsCounted
  <2> SUFFICES ASSUME NEW st \in Stages
               PROVE  spaces[st] + Cardinality(Pushing(st)) + StopComing(st) + Full(st)
                        = Capacity
    BY DEF SlotsCounted
  <2>1. spaces[st] = Capacity
    BY <1>1
  <2>2. Cardinality(Pushing(st)) = 0
    BY <1>4, <1>5
  <2>3. StopComing(st) = 0 /\ Full(st) = 0
    BY <1>6
  <2> QED
    BY <1>2, <2>1, <2>2, <2>3
<1>8. \A st \in Stages : Held(st) = {}
  <2> SUFFICES ASSUME NEW st \in Stages
               PROVE  Held(st) = {}
    OBVIOUS
  <2>1. 0 .. (0 - 1) = {}
    OBVIOUS
  <2>2. items[st] + Claimed(st) - 1 = 0 - 1
    <3>1. items[st] = 0 /\ Claimed(st) = 0
      BY <1>1, <1>6
    <3> QED
      BY <3>1
  <2>3. 0 .. (items[st] + Claimed(st) - 1) = {}
    BY <2>1, <2>2
  <2> QED
    BY <2>3 DEF Held
<1>9. Circular
  <2> SUFFICES ASSUME NEW st \in Stages
               PROVE  tail[st] = (head[st] + Full(st)) % Capacity
    BY DEF Circular
  <2>1. head[st] \in Slots /\ Full(st) \in 0 .. Capacity
    BY <1>1, <1>2, <1>6
  <2>2. (head[st] + Full(st)) % Capacity
          = IF head[st] + Full(st) < Capacity THEN head[st] + Full(st)
            ELSE head[st] + Full(st) - Capacity
    BY <2>1, SlotAfter
  <2>3. head[st] = 0 /\ Full(st) = 0 /\ tail[st] = 0
    BY <1>1, <1>6
  <2> QED
    BY <1>2, <2>2, <2>3
<1>10. WorkersCounted
  <2>1. \A st \in Stages : Indices(st) = {} /\ available[st] = Cardinality(Pool(st))
                         /\ Cardinality(Pool(st)) \in Nat
    BY <1>1, <1>8, Pools DEF Indices
  <2> QED
    BY <1>4, <1>5, <2>1 DEF WorkersCounted
<1>11. ServedOnce
  <2>1. \A p \in Passengers, st \in Stages :
          Queued(st, p) = 0 /\ Serving(st, p) = 0 /\ done[st][p] = 0 /\ ppc[p] # "served"
    <3> SUFFICES ASSUME NEW p \in Passengers, NEW st \in Stages
                 PROVE  Queued(st, p) = 0 /\ Serving(st, p) = 0
      BY <1>1
    <3>1. {k \in Held(st) : buffer[st][k] = p} = {}
      BY <1>8
    <3> QED
      BY <1>4, <1>5, <3>1 DEF Queued, Serving, Serves
  <2> QED
    BY <2>1 DEF ServedOnce
<1>12. Progress
  BY <1>1, <1>8, Pools DEF Progress, Outside, InQueue, InHand, IsDone, ARRIVED
<1>13. AllCounted
  <2>1. Cardinality(Passengers) # 0
    BY <1>2 DEF Capacity
  <2> QED
    BY <1>1, <1>5, <2>1 DEF AllCounted
<1>14. NoEarlyStop
  BY <1>1, <1>8 DEF NoEarlyStop
<1> QED
  BY <1>3, <1>7, <1>9, <1>10, <1>11, <1>12, <1>13, <1>14 DEF Inv

LEMMA StutterInv == Inv /\ UNCHANGED vars => Inv'
<1> SUFFICES ASSUME Inv, UNCHANGED vars
             PROVE  Inv'
  OBVIOUS
<1>1. /\ allSeated' = allSeated /\ main' = main
      /\ stops' = stops /\ spaces' = spaces
      /\ wpc' = wpc /\ job' = job /\ ppc' = ppc /\ pstage' = pstage
      /\ state' = state /\ available' = available /\ done' = done /\ seated' = seated
      /\ buffer' = buffer /\ head' = head /\ tail' = tail /\ items' = items
  BY DEF vars
<1>2. Types'
  BY <1>1 DEF Inv, Types
<1>3. /\ Circular'
      /\ \A st \in Stages :
           /\ Full(st)' = Full(st) /\ Held(st)' = Held(st)
           /\ Indices(st)' = Indices(st) /\ Busy(st)' = Busy(st)
           /\ \A x \in Passengers : /\ Queued(st, x)' = Queued(st, x)
                                   /\ Serving(st, x)' = Serving(st, x)
      /\ Counting' = Counting
  BY <1>1, <1>2, Unchanged
<1>4. \A st \in Stages : Admitted(st)' = Admitted(st) /\ Pushing(st)' = Pushing(st)
  BY <1>1, PassengersRest
<1>5. SlotsCounted'
  BY <1>1, <1>3, <1>4 DEF Inv, SlotsCounted, StopComing, Stopping
<1>6. WorkersCounted' /\ ServedOnce'
  BY <1>1, <1>3, <1>4 DEF Inv, WorkersCounted, ServedOnce
<1>7. Progress'
  BY <1>1, <1>3 DEF Inv, Progress, Outside, InQueue, InHand, IsDone
<1>8. AllCounted' /\ NoEarlyStop'
  BY <1>1, <1>3 DEF Inv, AllCounted, AtHome, NoEarlyStop
<1> QED
  BY <1>2, <1>3, <1>5, <1>6, <1>7, <1>8 DEF Inv

LEMMA NextInv == Inv /\ [Next]_vars => Inv'
<1> SUFFICES ASSUME Inv, [Next]_vars
             PROVE  Inv'
  OBVIOUS
<1>1. CASE Main
  BY <1>1, WaitSeatedKeeps, StopSpaceKeeps, StopPushKeeps, JoinKeeps DEF Main
<1>2. ASSUME NEW p \in Passengers, Passenger(p)
      PROVE  Inv'
  BY <1>2, QuietPassengerKeeps, PushKeeps DEF Passenger, QuietPassenger
<1>3. ASSUME NEW w \in Workers, Worker(w)
      PROVE  Inv'
  BY <1>3, WaitItemKeeps, PopKeeps, BeginKeeps, FinishKeeps, CountKeeps, ReleaseKeeps
     DEF Worker
<1>4. CASE UNCHANGED vars
  BY <1>4, StutterInv
<1> QED
  BY <1>1, <1>2, <1>3, <1>4 DEF Next

LEMMA Invariant == Spec => []Inv
  BY InitInv, NextInv, PTL DEF Spec

\* Every variable of the airline keeps its type, for any number of passengers
\* and workers: no semaphore of a queue or a stage (task_queue_t, the available
\* workers) counts more than there is, and no stage is told done twice.
THEOREM TypeCorrect == Spec => []TypeOK
<1>1. Inv => TypeOK
  <2> SUFFICES ASSUME Inv
               PROVE  TypeOK
    OBVIOUS
  <2>1. Types /\ SlotsCounted /\ WorkersCounted /\ ServedOnce /\ AllCounted
    BY DEF Inv
  <2>2. ASSUME NEW st \in Stages
        PROVE  /\ items[st] \in 0 .. Capacity /\ spaces[st] \in 0 .. Capacity
               /\ available[st] \in 0 .. Cardinality(Pool(st))
               /\ stops[st] \in 0 .. Cardinality(Pool(st))
    <3>1. /\ spaces[st] + Cardinality(Pushing(st)) + StopComing(st) + Full(st) = Capacity
          /\ available[st] + Cardinality(Admitted(st)) + Cardinality(Indices(st))
               + Cardinality(Busy(st)) = Cardinality(Pool(st))
      BY <2>1 DEF SlotsCounted, WorkersCounted
    <3>2. /\ Cardinality(Pushing(st)) \in Nat /\ StopComing(st) \in Nat
          /\ Cardinality(Admitted(st)) \in Nat /\ Cardinality(Busy(st)) \in Nat
          /\ Cardinality(Pool(st)) \in Nat
      BY Sizes, Pools DEF StopComing
    <3>3. /\ Full(st) = items[st] + Claimed(st) /\ Claimed(st) \in Nat
          /\ Cardinality(Indices(st)) \in Nat
      BY <2>1, QueueSizes
    <3>4. /\ items[st] \in Nat /\ spaces[st] \in Nat /\ available[st] \in Nat
          /\ stops[st] \in Nat /\ stops[st] <= Cardinality(Pool(st))
      BY <2>1 DEF Types
    <3> QED
      BY <3>1, <3>2, <3>3, <3>4, CapacityIsPositive
  <2>3. items \in [Stages -> 0 .. Capacity] /\ spaces \in [Stages -> 0 .. Capacity]
    BY <2>1, <2>2 DEF Types
  <2>4. done \in [Stages -> [Passengers -> 0 .. 1]]
    <3>1. ASSUME NEW st \in Stages, NEW p \in Passengers
          PROVE  done[st][p] \in 0 .. 1
      <4>1. Queued(st, p) \in Nat /\ Serving(st, p) \in Nat /\ done[st][p] \in Nat
        BY <2>1, QueueSizes, Sizes DEF Types, Serving, Serves
      <4>2. Queued(st, p) + Serving(st, p) + done[st][p]
              = IF ppc[p] = "served" /\ pstage[p] = st THEN 1 ELSE 0
        BY <2>1 DEF ServedOnce
      <4> QED
        BY <4>1, <4>2
    <3> QED
      BY <2>1, <3>1 DEF Types
  <2>5. seated \in 0 .. Cardinality(Passengers) /\ allSeated \in 0 .. 1
    <3>1. AtHome \subseteq Passengers
      BY DEF AtHome
    <3>2. /\ Cardinality(AtHome) <= Cardinality(Passengers)
          /\ Cardinality(Passengers) \in Nat
      BY <3>1, Pools, FS_Subset, FS_CardinalityType
    <3>3. /\ seated + Cardinality(Counting) = Cardinality(AtHome)
          /\ allSeated + (IF main = "wait" THEN 0 ELSE 1)
               = IF seated = Cardinality(Passengers) THEN 1 ELSE 0
          /\ seated \in Nat /\ allSeated \in Nat
      BY <2>1 DEF AllCounted, Types
    <3> QED
      BY <3>2, <3>3, Sizes
  <2> QED
    BY <2>1, <2>2, <2>3, <2>4, <2>5 DEF Types, TypeOK
<1> QED
  BY <1>1, Invariant, PTL

\* A passenger who has asked for a stage is in one place: in the stage's queue,
\* in the hands of one worker, or done.  However many workers pop (queue_pop)
\* and passengers push (queue_push) at once, no index is lost, overwritten in
\* the circular buffer or served twice.
THEOREM NobodyLost == Spec => []ServedOnce
<1>1. Inv => ServedOnce
  BY DEF Inv
<1> QED
  BY <1>1, Invariant, PTL

\* main sends no worker home before the flight attendants have counted every
\* passenger as seated (passengers_seated, all_seated_sem).
THEOREM PlaneIsFull == Spec => []LeavesFull
<1>1. Inv => LeavesFull
  <2> SUFFICES ASSUME Inv, main # "wait"
               PROVE  /\ \A p \in Passengers : state[p] = SEATED
                      /\ seated = Cardinality(Passengers)
    BY DEF LeavesFull
  <2>1. Types /\ AllCounted
    BY DEF Inv
  <2>2. seated = Cardinality(Passengers)
    BY <2>1 DEF AllCounted, Types
  <2>3. AtHome \subseteq Passengers
    BY DEF AtHome
  <2>4. /\ Cardinality(AtHome) <= Cardinality(Passengers)
        /\ Cardinality(AtHome) = Cardinality(Passengers) => AtHome = Passengers
    BY <2>3, Pools, FS_Subset
  <2>5. Cardinality(AtHome) = Cardinality(Passengers)
    BY <2>1, <2>2, <2>4, Sizes DEF AllCounted, Types
  <2> QED
    BY <2>2, <2>4, <2>5 DEF AtHome
<1> QED
  BY <1>1, Invariant, PTL

\* When everyone is seated no index of a passenger is left in a queue.
LEMMA EmptyAtEnd ==
  ASSUME Inv, LeavesFull, main # "wait", NEW st \in Stages
  PROVE  Indices(st) = {}
<1> SUFFICES ASSUME NEW k \in Held(st), buffer[st][k] # Stop
             PROVE  FALSE
  BY DEF Indices
<1>1. Types /\ SlotsCounted /\ Progress
  BY DEF Inv
<1>2. k \in Slots
  BY <1>1, QueueSizes
<1>3. buffer[st][k] \in Passengers
  BY <1>1, <1>2 DEF Types
<1>4. state[buffer[st][k]] = 2 * st - 2 /\ state[buffer[st][k]] = SEATED
  BY <1>1, <1>3 DEF Progress, InQueue, LeavesFull
<1> QED
  BY <1>4 DEF SEATED, Stages

\* A passenger admitted to a stage never waits behind another: the stage's
\* semaphore lets in no more passengers than there are workers who are at their
\* queue_pop or on their way back to it.
THEOREM NobodyWaits == Spec => []AdmittedIsServed
<1>1. Inv /\ LeavesFull => AdmittedIsServed
  <2> SUFFICES ASSUME Inv, LeavesFull, NEW st \in Stages
               PROVE  Cardinality(Indices(st))
                        <= Cardinality({w \in Pool(st) : wpc[w] \in {"wait", "pop"}})
    BY DEF AdmittedIsServed, Indices
  <2> DEFINE Ready == {w \in Pool(st) : wpc[w] \in {"wait", "pop"}}
  <2>1. Types /\ SlotsCounted /\ WorkersCounted /\ NoEarlyStop
    BY DEF Inv
  <2>2. IsFiniteSet(Ready) /\ Cardinality(Ready) \in Nat
    <3>1. Ready \subseteq Pool(st)
      OBVIOUS
    <3> QED
      BY <3>1, Pools, FS_Subset, FS_CardinalityType
  <2>3. CASE main = "wait"
    <3>1. Pool(st) = Ready \cup Busy(st) /\ Ready \cap Busy(st) = {}
      <4>1. \A w \in Pool(st) : wpc[w] \in {"wait", "pop", "begin", "finish", "count", "release"}
        BY <2>1, <2>3, Pools DEF Types, NoEarlyStop
      <4> QED
        BY <4>1 DEF Busy
    <3> HIDE DEF Ready
    <3>2. Cardinality(Pool(st)) = Cardinality(Ready) + Cardinality(Busy(st)) - Cardinality({})
      BY <2>2, <3>1, Sizes, FS_Union
    <3>3. Cardinality({}) = 0
      BY FS_EmptySet
    <3>4. /\ available[st] + Cardinality(Admitted(st)) + Cardinality(Indices(st))
               + Cardinality(Busy(st)) = Cardinality(Pool(st))
          /\ available[st] \in Nat
      BY <2>1 DEF WorkersCounted, Types
    <3>5. /\ Cardinality(Admitted(st)) \in Nat /\ Cardinality(Indices(st)) \in Nat
          /\ Cardinality(Busy(st)) \in Nat
      BY <2>1, QueueSizes, Sizes
    <3>6. Cardinality(Indices(st)) <= Cardinality(Ready)
      BY <2>2, <3>2, <3>3, <3>4, <3>5
    <3> QED
      BY <3>6 DEF Ready
  <2>4. CASE main # "wait"
    <3>1. Cardinality(Indices(st)) = 0
      BY <2>4, EmptyAtEnd, FS_EmptySet
    <3> HIDE DEF Ready
    <3>2. Cardinality(Indices(st)) <= Cardinality(Ready)
      BY <2>2, <3>1
    <3> QED
      BY <3>2 DEF Ready
  <2> QED
    BY <2>3, <2>4
<1> QED
  BY <1>1, Invariant, PlaneIsFull, PTL

\* A passenger's state takes the next stage or stays, whoever writes it: the
\* passenger's own thread when it arrives and a worker of each stage, which
\* another thread could have overtaken.
THEOREM InOrder == Spec => StagesInOrder
<1>1. Inv /\ [Next]_vars =>
        [\A p \in Passengers : state'[p] \in {state[p], state[p] + 1}]_state
  <2> SUFFICES ASSUME Inv, [Next]_vars, NEW p \in Passengers
               PROVE  state'[p] \in {state[p], state[p] + 1} \/ state' = state
    OBVIOUS
  <2>1. Types /\ SlotsCounted /\ ServedOnce /\ Progress
    BY DEF Inv
  <2>2. CASE state' # state
    <3>1. (\E x \in Passengers : Arrive(x)) \/ (\E w \in Workers : Begin(w) \/ Finish(w))
      BY <2>2 DEF Next, vars, Main, WaitSeated, StopSpace, StopPush, Join, Passenger,
                  WaitWorker, WaitSpace, Push, WaitDone, Worker, WaitItem, Pop, Count, Release
    <3>2. ASSUME NEW x \in Passengers, Arrive(x)
          PROVE  state'[p] = state[p]
      <4>1. state' = [state EXCEPT ![x] = ARRIVED] /\ ppc[x] = "arrive"
        BY <3>2 DEF Arrive
      <4>2. state[x] = ARRIVED
        BY <2>1, <4>1 DEF Progress, Outside, ARRIVED
      <4> QED
        BY <2>1, <4>1, <4>2 DEF Types
    <3>3. ASSUME NEW w \in Workers, Begin(w)
          PROVE  state'[p] \in {state[p], state[p] + 1}
      <4>1. state' = [state EXCEPT ![job[w]] = Working(StageOf(w))] /\ wpc[w] = "begin"
        BY <3>3 DEF Begin
      <4>2. StageOf(w) \in Stages /\ w \in Pool(StageOf(w))
            /\ Working(StageOf(w)) = 2 * StageOf(w) - 1 /\ StageOf(w) \in 1 .. 3
        BY Pools, StateValues
      <4>3. state[job[w]] = 2 * StageOf(w) - 2
        BY <2>1, <4>1, <4>2 DEF Progress, InHand
      <4> QED
        BY <2>1, <4>1, <4>2, <4>3 DEF Types
    <3>4. ASSUME NEW w \in Workers, Finish(w)
          PROVE  state'[p] \in {state[p], state[p] + 1}
      <4>1. state' = [state EXCEPT ![job[w]] = Done(StageOf(w))] /\ wpc[w] = "finish"
        BY <3>4 DEF Finish
      <4>2. StageOf(w) \in Stages /\ w \in Pool(StageOf(w))
            /\ Done(StageOf(w)) = 2 * StageOf(w) /\ StageOf(w) \in 1 .. 3
        BY Pools, StateValues
      <4>3. state[job[w]] = 2 * StageOf(w) - 1
        BY <2>1, <4>1, <4>2 DEF Progress, InHand
      <4> QED
        BY <2>1, <4>1, <4>2, <4>3 DEF Types
    <3> QED
      BY <3>1, <3>2, <3>3, <3>4
  <2> QED
    BY <2>2
<1> QED
  BY <1>1, Invariant, PTL DEF Spec, StagesInOrder
=============================================================================
