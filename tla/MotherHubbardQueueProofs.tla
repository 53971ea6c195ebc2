---------------------- MODULE MotherHubbardQueueProofs ----------------------
(***************************************************************************)
(* What TLAPS proves about MotherHubbardQueue, for any number of children   *)
(* and days: the queue that Mother resets every morning loses nothing.      *)
(***************************************************************************)
EXTENDS MotherHubbardQueue, Multiples, TLAPS

USE DEF queue, days, mother, father

-----------------------------------------------------------------------------
\* The inductive invariant.

MotherUp == mpc \in {"reset", "bath", "space", "push"}
FatherIdle == fpc \in {"sleep", "end"} /\ tucked = 0

\* Children that Mother has pushed in her day, that are in Father's day, and that
\* he has popped in it.
Pushed == CASE mpc \in {"bath", "space", "push"} -> c - 1
            [] mpc = "nap" -> KIDS
            [] OTHER -> 0
Given == IF fday = mday THEN Pushed ELSE 0
Popped == tucked + (IF fpc = "tuck" THEN 1 ELSE 0)

Places ==
  /\ mpc = "end" <=> mday = Ncycles + 1
  /\ fpc = "end" <=> fday = Ncycles + 1
  /\ fpc \in {"sleep", "pop", "tuck"} => tucked < KIDS
  /\ fpc = "signal" => tucked = KIDS
  /\ fpc = "end" => tucked = 0

\* The two semaphores hand the day over and back.
Turns ==
  /\ motherGo = (IF mpc = "sleep" THEN 1 ELSE 0)
  /\ nextDayReady = fday - mday
  /\ mpc # "nap" => fday = mday
  /\ mpc \in {"sleep", "reset", "end"} \/ fday # mday => FatherIdle

\* The indices and the semaphores of the queue.
Counts ==
  /\ qhead = (IF Popped = KIDS THEN 0 ELSE Popped)
  /\ qtail = (IF Pushed = KIDS THEN 0 ELSE Pushed)
  /\ qItems = Given - Popped - (IF fpc = "pop" THEN 1 ELSE 0)
  /\ qSpaces = KIDS - (Given - Popped) - (IF mpc = "push" THEN 1 ELSE 0)

Contents ==
  /\ fpc = "tuck" => childId = Popped
  /\ \A k \in 0 .. KIDS - 1 : Popped <= k /\ k < Given => qbuf[k] = k + 1

Inv == TypeOK /\ Places /\ Turns /\ Counts /\ Contents

LEMMA NextSlot ==
  ASSUME NEW n \in Nat \ {0}, NEW x \in 0 .. n - 1
  PROVE  (x + 1) % n = (IF x + 1 = n THEN 0 ELSE x + 1)
<1>1. CASE x + 1 < n
  BY <1>1
<1>2. CASE x + 1 = n
  <2>1. n % n = 0
    OBVIOUS
  <2> QED
    BY <1>2, <2>1
<1> QED
  BY <1>1, <1>2

LEMMA InitInv == ASSUME SizesOK, Init PROVE Inv
BY DEF SizesOK, Init, Inv, TypeOK, Places, Turns, Counts, Contents, FatherIdle, Pushed,
       Given, Popped, Children

\* Father pops what has been pushed, and no more than a day's children are pushed.
LEMMA Ahead ==
  ASSUME SizesOK, Inv
  PROVE  /\ KIDS \in Nat \ {0} /\ Ncycles \in Nat \ {0}
         /\ Pushed \in 0 .. KIDS /\ Given \in 0 .. Pushed
         /\ Popped \in 0 .. Given
         /\ fpc = "pop" => Popped < Given
         /\ fday >= mday
<1>1. KIDS \in Nat \ {0} /\ Ncycles \in Nat \ {0}
  BY DEF SizesOK
<1>2. fday \in Nat /\ mday \in Nat /\ fday >= mday
  BY <1>1 DEF Inv, TypeOK, Turns
<1>3. Pushed \in 0 .. KIDS
  <2>1. c \in 1 .. KIDS
    BY DEF Inv, TypeOK, Children
  <2> QED
    BY <1>1, <2>1 DEF Pushed
<1>4. Given \in 0 .. Pushed
  BY <1>3 DEF Given
<1>5. Popped \in Nat
  BY <1>1 DEF Inv, TypeOK, Popped
<1>6. Popped <= Given /\ (fpc = "pop" => Popped < Given)
  <2>1. /\ qItems \in Nat
        /\ qItems = Given - Popped - (IF fpc = "pop" THEN 1 ELSE 0)
    BY <1>1 DEF Inv, TypeOK, Counts
  <2> QED
    BY <2>1, <1>1, <1>3, <1>4, <1>5
<1> QED
  BY <1>1, <1>2, <1>3, <1>4, <1>5, <1>6

LEMMA WakeUpKeeps ==
  ASSUME SizesOK, Inv, WakeUp
  PROVE  Inv'
<1>0. /\ KIDS \in Nat \ {0} /\ Ncycles \in Nat \ {0} /\ Pushed \in 0 .. KIDS
      /\ Given \in 0 .. Pushed /\ Popped \in 0 .. Given /\ (fpc = "pop" => Popped < Given)
  BY Ahead
<1>t. TypeOK /\ Places /\ Turns /\ Counts /\ Contents
  BY DEF Inv
<1>a. mpc = "sleep" /\ motherGo = 1 /\ mpc' = "reset" /\ motherGo' = 0 /\ fday = mday
  BY <1>t DEF WakeUp, Turns
<1>b. Pushed' = Pushed /\ Given' = Given /\ Popped' = Popped
  BY <1>a DEF WakeUp, Pushed, Given, Popped
<1>1. TypeOK'
  BY <1>0, <1>t, <1>a, <1>b DEF WakeUp, TypeOK, Counts, Children
<1>2. Places'
  BY <1>0, <1>t, <1>a, <1>b DEF WakeUp, Places
<1>3. Turns'
  BY <1>t, <1>a, <1>b DEF WakeUp, Turns, FatherIdle
<1>4. Counts'
  BY <1>0, <1>t, <1>a, <1>b DEF WakeUp, Counts
<1>5. Contents'
  BY <1>0, <1>t, <1>a, <1>b DEF WakeUp, TypeOK, Contents
<1> QED
  BY <1>1, <1>2, <1>3, <1>4, <1>5 DEF Inv

LEMMA ResetQueueKeeps ==
  ASSUME SizesOK, Inv, ResetQueue
  PROVE  Inv'
<1>0. /\ KIDS \in Nat \ {0} /\ Ncycles \in Nat \ {0} /\ Pushed \in 0 .. KIDS
      /\ Given \in 0 .. Pushed /\ Popped \in 0 .. Given /\ (fpc = "pop" => Popped < Given)
  BY Ahead
<1>t. TypeOK /\ Places /\ Turns /\ Counts /\ Contents
  BY DEF Inv
<1>a. mpc = "reset" /\ fday = mday /\ FatherIdle /\ Pushed = 0 /\ Given = 0 /\ Popped = 0
  BY <1>t DEF ResetQueue, Turns, FatherIdle, Pushed, Given, Popped
<1>b. Pushed' = 0 /\ Given' = 0 /\ Popped' = 0
  BY <1>a DEF ResetQueue, Pushed, Given, Popped
<1>1. TypeOK'
  BY <1>0, <1>t, <1>a, <1>b DEF ResetQueue, TypeOK, Counts, Children
<1>2. Places'
  BY <1>0, <1>t, <1>a, <1>b DEF ResetQueue, Places
<1>3. Turns'
  BY <1>t, <1>a, <1>b DEF ResetQueue, Turns, FatherIdle
<1>4. Counts'
  BY <1>0, <1>t, <1>a, <1>b DEF ResetQueue, Counts
<1>5. Contents'
  BY <1>0, <1>t, <1>a, <1>b DEF ResetQueue, TypeOK, Contents
<1> QED
  BY <1>1, <1>2, <1>3, <1>4, <1>5 DEF Inv

LEMMA GiveBathKeeps ==
  ASSUME SizesOK, Inv, GiveBath
  PROVE  Inv'
<1>0. /\ KIDS \in Nat \ {0} /\ Ncycles \in Nat \ {0} /\ Pushed \in 0 .. KIDS
      /\ Given \in 0 .. Pushed /\ Popped \in 0 .. Given /\ (fpc = "pop" => Popped < Given)
  BY Ahead
<1>t. TypeOK /\ Places /\ Turns /\ Counts /\ Contents
  BY DEF Inv
<1>a. mpc = "bath" /\ fday = mday
  BY <1>t DEF GiveBath, Turns
<1>b. Pushed' = Pushed /\ Given' = Given /\ Popped' = Popped
  BY <1>a DEF GiveBath, Pushed, Given, Popped
<1>1. TypeOK'
  BY <1>0, <1>t, <1>a, <1>b DEF GiveBath, TypeOK, Counts, Children
<1>2. Places'
  BY <1>0, <1>t, <1>a, <1>b DEF GiveBath, Places
<1>3. Turns'
  BY <1>t, <1>a, <1>b DEF GiveBath, Turns, FatherIdle
<1>4. Counts'
  BY <1>0, <1>t, <1>a, <1>b DEF GiveBath, Counts
<1>5. Contents'
  BY <1>0, <1>t, <1>a, <1>b DEF GiveBath, TypeOK, Contents
<1> QED
  BY <1>1, <1>2, <1>3, <1>4, <1>5 DEF Inv

LEMMA WaitSpaceKeeps ==
  ASSUME SizesOK, Inv, WaitSpace
  PROVE  Inv'
<1>0. /\ KIDS \in Nat \ {0} /\ Ncycles \in Nat \ {0} /\ Pushed \in 0 .. KIDS
      /\ Given \in 0 .. Pushed /\ Popped \in 0 .. Given /\ (fpc = "pop" => Popped < Given)
  BY Ahead
<1>t. TypeOK /\ Places /\ Turns /\ Counts /\ Contents
  BY DEF Inv
<1>a. /\ mpc = "space" /\ fday = mday /\ qSpaces > 0 /\ qSpaces \in 0 .. KIDS
  BY <1>0, <1>t DEF WaitSpace, TypeOK, Turns
<1>b. Pushed' = Pushed /\ Given' = Given /\ Popped' = Popped
  BY <1>a DEF WaitSpace, Pushed, Given, Popped
<1>1. TypeOK'
  BY <1>0, <1>t, <1>a, <1>b DEF WaitSpace, TypeOK, Counts, Children
<1>2. Places'
  BY <1>t, <1>a, <1>b DEF WaitSpace, Places
<1>3. Turns'
  BY <1>t, <1>a, <1>b DEF WaitSpace, Turns, FatherIdle
<1>4. Counts'
  BY <1>0, <1>t, <1>a, <1>b DEF WaitSpace, Counts
<1>5. Contents'
  BY <1>0, <1>t, <1>a, <1>b DEF WaitSpace, TypeOK, Contents
<1> QED
  BY <1>1, <1>2, <1>3, <1>4, <1>5 DEF Inv

LEMMA PushKeeps ==
  ASSUME SizesOK, Inv, Push
  PROVE  Inv'
<1>0. /\ KIDS \in Nat \ {0} /\ Ncycles \in Nat \ {0} /\ Pushed \in 0 .. KIDS
      /\ Given \in 0 .. Pushed /\ Popped \in 0 .. Given /\ (fpc = "pop" => Popped < Given)
  BY Ahead
<1>t. TypeOK /\ Places /\ Turns /\ Counts /\ Contents
  BY DEF Inv
<1>c. mpc = "push" /\ fday = mday /\ c \in 1 .. KIDS /\ Pushed = c - 1 /\ Given = c - 1
  BY <1>0, <1>t DEF Push, TypeOK, Turns, Children, Pushed, Given
<1>a. /\ mpc = "push" /\ fday = mday /\ c \in 1 .. KIDS /\ Given = c - 1
      /\ qtail = c - 1 /\ qtail \in 0 .. KIDS - 1
  BY <1>0, <1>t, <1>c DEF Counts
<1>b. /\ Pushed' = c /\ Given' = c /\ Popped' = Popped
      /\ qtail' = (IF c = KIDS THEN 0 ELSE c)
      /\ mpc' # "push"
  BY <1>0, <1>a, NextSlot DEF Push, Pushed, Given, Popped
<1>1. TypeOK'
  BY <1>0, <1>t, <1>a, <1>b DEF Push, TypeOK, Counts, Children
<1>2. Places'
  BY <1>0, <1>t, <1>a, <1>b DEF Push, Places
<1>3. Turns'
  BY <1>t, <1>a, <1>b DEF Push, Turns, FatherIdle
<1>4. Counts'
  BY <1>0, <1>t, <1>a, <1>b DEF Push, Counts
<1>5. Contents'
  BY <1>0, <1>t, <1>a, <1>b DEF Push, TypeOK, Contents
<1> QED
  BY <1>1, <1>2, <1>3, <1>4, <1>5 DEF Inv

LEMMA NapKeeps ==
  ASSUME SizesOK, Inv, Nap
  PROVE  Inv'
<1>0. /\ KIDS \in Nat \ {0} /\ Ncycles \in Nat \ {0} /\ Pushed \in 0 .. KIDS
      /\ Given \in 0 .. Pushed /\ Popped \in 0 .. Given /\ (fpc = "pop" => Popped < Given)
  BY Ahead
<1>t. TypeOK /\ Places /\ Turns /\ Counts /\ Contents
  BY DEF Inv
<1>c. /\ mpc = "nap" /\ nextDayReady = 1 /\ mday \in 1 .. Ncycles + 1 /\ fday \in Nat
  BY <1>0, <1>t DEF Nap, TypeOK
<1>d. fday = mday + 1 /\ mday \in 1 .. Ncycles
  BY <1>0, <1>t, <1>c DEF Turns, Places
<1>e. FatherIdle
  BY <1>t, <1>c, <1>d DEF Turns
<1>a. /\ mpc = "nap" /\ fday = mday + 1 /\ FatherIdle /\ mday \in 1 .. Ncycles
      /\ nextDayReady = 1 /\ Pushed = KIDS /\ Given = 0 /\ Popped = 0
  BY <1>c, <1>d, <1>e DEF FatherIdle, Pushed, Given, Popped
<1>b. Pushed' = 0 /\ Given' = 0 /\ Popped' = 0
  BY <1>a DEF Nap, Pushed, Given, Popped
<1>1. TypeOK'
  BY <1>0, <1>t, <1>a, <1>b DEF Nap, TypeOK, Turns, Counts, Children
<1>2. Places'
  BY <1>0, <1>t, <1>a, <1>b DEF Nap, Places
<1>3. Turns'
  BY <1>t, <1>a, <1>b DEF Nap, Turns, FatherIdle
<1>4. Counts'
  BY <1>0, <1>t, <1>a, <1>b DEF Nap, Counts
<1>5. Contents'
  BY <1>0, <1>t, <1>a, <1>b DEF Nap, TypeOK, Contents
<1> QED
  BY <1>1, <1>2, <1>3, <1>4, <1>5 DEF Inv

LEMMA WaitItemKeeps ==
  ASSUME SizesOK, Inv, WaitItem
  PROVE  Inv'
<1>0. /\ KIDS \in Nat \ {0} /\ Ncycles \in Nat \ {0} /\ Pushed \in 0 .. KIDS
      /\ Given \in 0 .. Pushed /\ Popped \in 0 .. Given /\ (fpc = "pop" => Popped < Given)
  BY Ahead
<1>t. TypeOK /\ Places /\ Turns /\ Counts /\ Contents
  BY DEF Inv
<1>c. fpc = "sleep" /\ qItems > 0 /\ qItems = Given - Popped /\ Popped = tucked
  BY <1>0, <1>t DEF WaitItem, Counts, Popped, TypeOK
<1>d. Popped < Given /\ fday = mday
  BY <1>0, <1>c, <1>t DEF Given, TypeOK
<1>a. /\ fpc = "sleep" /\ qItems > 0 /\ Popped < Given /\ qItems = Given - Popped
      /\ fday = mday /\ ~(mpc \in {"sleep", "reset", "end"})
  BY <1>0, <1>c, <1>d DEF Given, Pushed
<1>b. Pushed' = Pushed /\ Given' = Given /\ Popped' = Popped
  BY <1>a DEF WaitItem, Pushed, Given, Popped
<1>1. TypeOK'
  BY <1>0, <1>t, <1>a, <1>b DEF WaitItem, TypeOK, Counts, Children
<1>2. Places'
  BY <1>t, <1>a, <1>b DEF WaitItem, Places
<1>3. Turns'
  BY <1>t, <1>a, <1>b DEF WaitItem, Turns, FatherIdle
<1>4. Counts'
  BY <1>0, <1>t, <1>a, <1>b DEF WaitItem, Counts
<1>5. Contents'
  BY <1>0, <1>t, <1>a, <1>b DEF WaitItem, TypeOK, Contents
<1> QED
  BY <1>1, <1>2, <1>3, <1>4, <1>5 DEF Inv

LEMMA PopKeeps ==
  ASSUME SizesOK, Inv, Pop
  PROVE  Inv'
<1>0. /\ KIDS \in Nat \ {0} /\ Ncycles \in Nat \ {0} /\ Pushed \in 0 .. KIDS
      /\ Given \in 0 .. Pushed /\ Popped \in 0 .. Given /\ (fpc = "pop" => Popped < Given)
  BY Ahead
<1>t. TypeOK /\ Places /\ Turns /\ Counts /\ Contents
  BY DEF Inv
<1>c. /\ fpc = "pop" /\ Popped < Given /\ Popped \in 0 .. KIDS - 1
  BY <1>0 DEF Pop
<1>d. fday = mday /\ Popped = tucked /\ qhead = Popped
  BY <1>0, <1>c, <1>t DEF Given, Popped, Counts, TypeOK
<1>a. /\ fpc = "pop" /\ Popped < Given /\ Popped \in 0 .. KIDS - 1 /\ KIDS \in Nat \ {0}
      /\ fday = mday /\ ~(mpc \in {"sleep", "reset", "end"})
      /\ Popped = tucked /\ qhead = Popped
  BY <1>0, <1>c, <1>d DEF Given, Pushed
<1>b. /\ Pushed' = Pushed /\ Given' = Given /\ Popped' = Popped + 1
      /\ qhead' = (IF Popped + 1 = KIDS THEN 0 ELSE Popped + 1)
  BY <1>a, NextSlot DEF Pop, Pushed, Given, Popped
<1>1. TypeOK'
  BY <1>0, <1>t, <1>a, <1>b DEF Pop, TypeOK, Counts, Children
<1>2. Places'
  BY <1>t, <1>a, <1>b DEF Pop, Places
<1>3. Turns'
  BY <1>t, <1>a, <1>b DEF Pop, Turns, FatherIdle
<1>4. Counts'
  BY <1>0, <1>t, <1>a, <1>b DEF Pop, Counts
<1>5. Contents'
  BY <1>0, <1>t, <1>a, <1>b DEF Pop, TypeOK, Contents
<1> QED
  BY <1>1, <1>2, <1>3, <1>4, <1>5 DEF Inv

LEMMA TuckInKeeps ==
  ASSUME SizesOK, Inv, TuckIn
  PROVE  Inv'
<1>0. /\ KIDS \in Nat \ {0} /\ Ncycles \in Nat \ {0} /\ Pushed \in 0 .. KIDS
      /\ Given \in 0 .. Pushed /\ Popped \in 0 .. Given /\ (fpc = "pop" => Popped < Given)
  BY Ahead
<1>t. TypeOK /\ Places /\ Turns /\ Counts /\ Contents
  BY DEF Inv
<1>c. fpc = "tuck" /\ tucked \in 0 .. KIDS - 1
  BY <1>0, <1>t DEF TuckIn, TypeOK, Places
<1>d. Popped = tucked + 1
  BY <1>c DEF Popped
<1>a. /\ fpc = "tuck" /\ Popped = tucked + 1 /\ tucked \in 0 .. KIDS - 1
      /\ fday = mday /\ ~(mpc \in {"sleep", "reset", "end"})
  BY <1>0, <1>c, <1>d DEF Given, Pushed
<1>b. Pushed' = Pushed /\ Given' = Given /\ Popped' = Popped
  BY <1>a DEF TuckIn, Pushed, Given, Popped
<1>1. TypeOK'
  BY <1>0, <1>t, <1>a, <1>b DEF TuckIn, TypeOK, Counts, Children
<1>2. Places'
  BY <1>0, <1>t, <1>a, <1>b DEF TuckIn, Places
<1>3. Turns'
  BY <1>t, <1>a, <1>b DEF TuckIn, Turns, FatherIdle
<1>4. Counts'
  BY <1>0, <1>t, <1>a, <1>b DEF TuckIn, Counts
<1>5. Contents'
  BY <1>0, <1>t, <1>a, <1>b DEF TuckIn, TypeOK, Contents
<1> QED
  BY <1>1, <1>2, <1>3, <1>4, <1>5 DEF Inv

LEMMA SignalKeeps ==
  ASSUME SizesOK, Inv, Signal
  PROVE  Inv'
<1>0. /\ KIDS \in Nat \ {0} /\ Ncycles \in Nat \ {0} /\ Pushed \in 0 .. KIDS
      /\ Given \in 0 .. Pushed /\ Popped \in 0 .. Given /\ (fpc = "pop" => Popped < Given)
  BY Ahead
<1>t. TypeOK /\ Places /\ Turns /\ Counts /\ Contents
  BY DEF Inv
<1>c. fpc = "signal" /\ Popped = KIDS /\ Given = KIDS /\ Pushed = KIDS
  BY <1>0, <1>t DEF Signal, Places, Popped
<1>d. c \in 1 .. KIDS /\ fday \in Nat /\ mday \in Nat
  BY <1>0, <1>t DEF TypeOK, Children
<1>e. mpc = "nap" /\ fday = mday
  BY <1>0, <1>c, <1>d DEF Given, Pushed
<1>a. fpc = "signal" /\ fday = mday /\ mpc = "nap" /\ Popped = KIDS /\ Given = KIDS
  BY <1>c, <1>e
<1>f. /\ fday' = mday + 1 /\ mday' = mday /\ fpc' \in {"sleep", "end"} /\ tucked' = 0
      /\ mpc' = mpc /\ c' = c
  BY <1>a DEF Signal
<1>b. Pushed' = Pushed /\ Given' = 0 /\ Popped' = 0
  BY <1>d, <1>f DEF Pushed, Given, Popped
<1>g. /\ fday \in 1 .. Ncycles /\ nextDayReady = 0 /\ nextDayReady' = 1
      /\ fpc' = (IF fday < Ncycles THEN "sleep" ELSE "end")
  BY <1>0, <1>t, <1>a DEF Signal, TypeOK, Places, Turns
<1>h. qItems = 0 /\ qSpaces = KIDS /\ qhead = 0 /\ qtail = 0
  BY <1>0, <1>t, <1>a, <1>c DEF Counts
<1>i. /\ qbuf' = qbuf /\ qhead' = qhead /\ qtail' = qtail /\ qItems' = qItems
      /\ qSpaces' = qSpaces /\ motherGo' = motherGo /\ childId' = childId
  BY DEF Signal
<1>1. TypeOK'
  <2>1. fday' \in 1 .. Ncycles + 1 /\ tucked' \in 0 .. KIDS
    BY <1>0, <1>a, <1>f, <1>g
  <2> QED
    BY <1>t, <1>f, <1>g, <1>i, <2>1 DEF TypeOK
<1>2. Places'
  BY <1>0, <1>t, <1>a, <1>f, <1>g DEF Places
<1>3. Turns'
  BY <1>t, <1>a, <1>f, <1>g, <1>i DEF Turns, FatherIdle
<1>4. Counts'
  <2>1. Pushed' = KIDS /\ Given' = 0 /\ Popped' = 0
    BY <1>b, <1>c
  <2>2. fpc' # "pop" /\ mpc' # "push"
    BY <1>a, <1>f
  <2>3. qhead' = 0 /\ qtail' = 0 /\ qItems' = 0 /\ qSpaces' = KIDS
    BY <1>h, <1>i
  <2>4. qItems' = Given' - Popped' - 0 /\ qSpaces' = KIDS - (Given' - Popped') - 0
    BY <1>0, <2>1, <2>3
  <2>5. KIDS # 0
    BY <1>0
  <2> QED
    BY <2>1, <2>2, <2>3, <2>4, <2>5 DEF Counts
<1>5. Contents'
  BY <1>b, <1>f DEF Contents
<1> QED
  BY <1>1, <1>2, <1>3, <1>4, <1>5 DEF Inv

LEMMA StepInv ==
  ASSUME SizesOK, Inv, [Next]_vars
  PROVE  Inv'
<1>1. CASE Next
  BY <1>1, WakeUpKeeps, ResetQueueKeeps, GiveBathKeeps, WaitSpaceKeeps, PushKeeps, NapKeeps,
     WaitItemKeeps, PopKeeps, TuckInKeeps, SignalKeeps DEF Next, Mother, Father
<1>2. CASE UNCHANGED vars
  BY <1>2 DEF vars, Inv, TypeOK, Places, Turns, Counts, Contents, FatherIdle, Pushed, Given,
     Popped
<1> QED
  BY <1>1, <1>2

LEMMA Invariant == ASSUME SizesOK PROVE Spec => []Inv
<1>1. Init => Inv
  BY InitInv
<1>2. Inv /\ [Next]_vars => Inv'
  BY StepInv
<1> QED
  BY <1>1, <1>2, PTL DEF Spec

-----------------------------------------------------------------------------
\* The queue holds the children after the last one Father took, in order, whatever
\* the number of children and days, and although Mother resets it.
THEOREM QueueKeepsOrder == ASSUME SizesOK PROVE Spec => []QueueInOrder
<1>1. ASSUME Inv
      PROVE  QueueInOrder
  <2>0. /\ KIDS \in Nat \ {0} /\ Given \in 0 .. KIDS /\ Popped \in 0 .. Given
    BY <1>1, Ahead
  <2>t. TypeOK /\ Counts /\ Contents
    BY <1>1 DEF Inv
  <2>1. fpc = "tuck" => childId = tucked + 1
    BY <2>t DEF Contents, Popped
  <2>2. Waiting = Given - Popped
    BY <2>0, <2>t DEF Waiting, Counts, TypeOK
  <2>3. ASSUME NEW k \in 0 .. Waiting - 1
        PROVE  qbuf[(qhead + k) % KIDS] = tucked + k + (IF fpc = "tuck" THEN 2 ELSE 1)
    <3>1. k \in Nat /\ Popped + k < Given
      BY <2>0, <2>2
    <3>2. qhead = Popped /\ Popped + k \in 0 .. KIDS - 1
      BY <2>0, <2>t, <3>1 DEF Counts
    <3>3. (qhead + k) % KIDS = Popped + k
      BY <2>0, <3>2
    <3>4. qbuf[Popped + k] = Popped + k + 1
      BY <2>0, <2>t, <3>1, <3>2 DEF Contents
    <3>5. Popped + k + 1 = tucked + k + (IF fpc = "tuck" THEN 2 ELSE 1)
      BY <2>0, <2>t, <3>1 DEF Popped, TypeOK
    <3> QED
      BY <3>3, <3>4, <3>5
  <2> QED
    BY <2>1, <2>3 DEF QueueInOrder
<1> QED
  BY <1>1, Invariant, PTL

\* The reset finds the queue empty, all its slots free, and Father outside it.
THEOREM QueueEmptyAtReset == ASSUME SizesOK PROVE Spec => []ResetFindsEmpty
<1>1. ASSUME Inv
      PROVE  ResetFindsEmpty
  <2>1. SUFFICES ASSUME mpc = "reset"
                 PROVE  /\ qItems = 0 /\ qSpaces = KIDS
                        /\ fpc \in {"sleep", "end"} /\ fday = mday
    BY DEF ResetFindsEmpty
  <2>2. fday = mday /\ FatherIdle
    BY <1>1, <2>1 DEF Inv, Turns
  <2>3. Given = 0 /\ Popped = 0
    BY <2>1, <2>2 DEF Given, Pushed, Popped, FatherIdle
  <2>4. KIDS \in Nat
    BY <1>1, Ahead
  <2>5. Counts /\ fpc \in {"sleep", "end"}
    BY <1>1, <2>2 DEF Inv, FatherIdle
  <2>6. qItems = Given - Popped - 0
    BY <2>5 DEF Counts
  <2>7. qSpaces = KIDS - (Given - Popped) - 0
    BY <2>1, <2>5 DEF Counts
  <2> QED
    BY <2>2, <2>3, <2>4, <2>5, <2>6, <2>7
<1> QED
  BY <1>1, Invariant, PTL

-----------------------------------------------------------------------------
\* The program implements Household.

LEMMA CountTypes ==
  ASSUME SizesOK, Inv
  PROVE  /\ KIDS \in Nat \ {0} /\ mday \in Nat /\ fday \in Nat
         /\ mday - 1 \in Nat /\ fday - 1 \in Nat /\ c \in 1 .. KIDS
         /\ tucked \in 0 .. KIDS
         /\ KIDS * (mday - 1) \in Nat /\ KIDS * (fday - 1) \in Nat
<1>1. /\ KIDS \in Nat \ {0} /\ mday \in Nat /\ fday \in Nat
      /\ mday - 1 \in Nat /\ fday - 1 \in Nat /\ c \in 1 .. KIDS
      /\ tucked \in 0 .. KIDS
  BY DEF SizesOK, Inv, TypeOK, Children
<1> QED
  BY <1>1, OneMore

\* A day later, both counts have gone up by a day's children.
LEMMA DayLater ==
  ASSUME NEW n \in Nat \ {0}, NEW d \in Nat, d - 1 \in Nat, NEW e, e = d + 1
  PROVE  n * (e - 1) = n * (d - 1) + n
<1>1. n * ((d - 1) + 1) = n * (d - 1) + n
  BY OneMore
<1>2. (d - 1) + 1 = e - 1
  OBVIOUS
<1> QED
  BY <1>1, <1>2

LEMMA NothingCounted ==
  ASSUME SizesOK, Inv,
         WakeUp \/ ResetQueue \/ WaitSpace \/ Push \/ Nap \/ WaitItem \/ Pop \/ Signal
           \/ UNCHANGED vars
  PROVE  UNCHANGED <<Baths, Tuckings>>
<1> DEFINE B == KIDS * (mday - 1)
           F == KIDS * (fday - 1)
<1>0. /\ KIDS \in Nat \ {0} /\ mday \in Nat /\ fday \in Nat
      /\ mday - 1 \in Nat /\ fday - 1 \in Nat /\ c \in 1 .. KIDS
      /\ tucked \in 0 .. KIDS /\ B \in Nat /\ F \in Nat
  BY CountTypes
<1>t. Places
  BY DEF Inv
<1>1. CASE WakeUp \/ WaitItem \/ Pop
  BY <1>1 DEF WakeUp, WaitItem, Pop, Baths, Tuckings
<1>2. CASE ResetQueue
  <2>1. mpc = "reset" /\ mpc' = "bath" /\ c' = 1 /\ mday' = mday
    BY <1>2 DEF ResetQueue
  <2>2. Baths = B + 0 /\ Baths' = B + (1 - 1)
    BY <2>1 DEF Baths
  <2> QED
    BY <1>0, <1>2, <2>2 DEF ResetQueue, Tuckings
<1>3. CASE WaitSpace
  BY <1>3 DEF WaitSpace, Baths, Tuckings
<1>4. CASE Push
  <2>1. mpc = "push" /\ mday' = mday /\ UNCHANGED father
    BY <1>4 DEF Push
  <2>2. Baths = B + c
    BY <2>1 DEF Baths
  <2>3. CASE c < KIDS
    <3>1. mpc' = "bath" /\ c' = c + 1
      BY <1>4, <2>3 DEF Push
    <3>2. Baths' = KIDS * (mday' - 1) + (c' - 1)
      BY <3>1 DEF Baths
    <3> QED
      BY <1>0, <2>1, <2>2, <3>1, <3>2 DEF Tuckings
  <2>4. CASE c = KIDS
    <3>1. mpc' = "nap"
      BY <1>0, <1>4, <2>4 DEF Push
    <3>2. Baths' = KIDS * (mday' - 1) + KIDS
      BY <3>1 DEF Baths
    <3> QED
      BY <2>1, <2>2, <2>4, <3>2 DEF Tuckings
  <2> QED
    BY <1>0, <2>3, <2>4
<1>5. CASE Nap
  <2>1. mpc = "nap" /\ mpc' \in {"sleep", "end"} /\ mday' = mday + 1 /\ UNCHANGED father
    BY <1>5 DEF Nap
  <2>2. Baths = B + KIDS
    BY <2>1 DEF Baths
  <2>3. Baths' = KIDS * (mday' - 1) + 0
    BY <2>1 DEF Baths
  <2>4. KIDS * (mday' - 1) = B + KIDS
    BY <1>0, <2>1, DayLater
  <2> QED
    BY <1>0, <2>1, <2>2, <2>3, <2>4 DEF Tuckings
<1>6. CASE Signal
  <2>1. tucked = KIDS /\ tucked' = 0 /\ fday' = fday + 1 /\ UNCHANGED mother
    BY <1>6, <1>t DEF Signal, Places
  <2>2. Tuckings = F + KIDS
    BY <2>1 DEF Tuckings
  <2>3. Tuckings' = KIDS * (fday' - 1) + 0
    BY <2>1 DEF Tuckings
  <2>4. KIDS * (fday' - 1) = F + KIDS
    BY <1>0, <2>1, DayLater
  <2> QED
    BY <1>0, <2>1, <2>2, <2>3, <2>4 DEF Baths
<1>7. CASE UNCHANGED vars
  BY <1>7 DEF vars, Baths, Tuckings
<1> QED
  BY <1>1, <1>2, <1>3, <1>4, <1>5, <1>6, <1>7

LEMMA BathCounted ==
  ASSUME SizesOK, Inv, GiveBath
  PROVE  House!Bathe
<1> DEFINE B == KIDS * (mday - 1)
           e == KIDS * Ncycles
           z == KIDS * (Tuckings \div KIDS + 1)
<1>0. /\ KIDS \in Nat \ {0} /\ mday \in Nat /\ mday - 1 \in Nat /\ c \in 1 .. KIDS
      /\ tucked \in 0 .. KIDS /\ B \in Nat
  BY CountTypes
<1>1. /\ mpc = "bath" /\ mpc' = "space" /\ UNCHANGED <<mday, c, father>>
      /\ fday = mday /\ mday - 1 < Ncycles /\ Ncycles \in Nat
  <2>1. Places /\ Turns /\ TypeOK
    BY DEF Inv
  <2> QED
    BY <1>0, <2>1 DEF GiveBath, SizesOK, Places, Turns, TypeOK
<1>2. tucked \in 0 .. KIDS - 1
  <2>1. Given = c - 1
    BY <1>1 DEF Given, Pushed
  <2>2. Popped \in 0 .. c - 1
    BY <1>0, <2>1, Ahead
  <2> QED
    BY <1>0, <2>2 DEF Popped
<1>3. Tuckings \div KIDS = mday - 1
  <2>1. Tuckings = KIDS * (mday - 1) + tucked
    BY <1>1 DEF Tuckings
  <2> QED
    BY <1>0, <1>2, <2>1, Quotient
<1>4. z = B + KIDS /\ B + KIDS <= e
  BY <1>0, <1>1, <1>3, OneMore, NotBeyond
<1>5. Baths = B + (c - 1) /\ Baths' = B + c
  BY <1>1 DEF Baths
<1>6. Tuckings' = Tuckings
  BY <1>1 DEF Tuckings
<1>7. e \in Int
  BY <1>0, <1>1
<1> HIDE DEF B, e, z
<1>8. Baths < e /\ Baths < z /\ Baths' = Baths + 1
  BY <1>0, <1>4, <1>5, <1>7
<1> QED
  BY <1>6, <1>8 DEF House!Bathe, e, z

LEMMA TuckingCounted ==
  ASSUME SizesOK, Inv, TuckIn
  PROVE  House!Tuck
<1> DEFINE F == KIDS * (fday - 1)
<1>0. /\ KIDS \in Nat \ {0} /\ fday \in Nat /\ fday - 1 \in Nat /\ c \in 1 .. KIDS
      /\ tucked \in 0 .. KIDS /\ F \in Nat
  BY CountTypes
<1>1. fpc = "tuck" /\ tucked' = tucked + 1 /\ fday' = fday /\ UNCHANGED mother
  BY DEF TuckIn
<1>2. Popped = tucked + 1 /\ Pushed \in Nat /\ Given \in 0 .. Pushed /\ Popped <= Given
  BY <1>1, Ahead DEF Popped
<1>3. fday = mday /\ tucked + 1 <= Pushed
  BY <1>0, <1>2 DEF Given
<1>4. Tuckings = F + tucked
  BY DEF Tuckings
<1>5. Tuckings' = F + (tucked + 1)
  BY <1>1 DEF Tuckings
<1>6. Baths \in Int /\ Baths >= F + Pushed
  <2>1. CASE mpc \in {"space", "push"}
    BY <1>0, <1>3, <2>1 DEF Baths, Pushed
  <2>2. CASE mpc = "bath"
    BY <1>0, <1>3, <2>2 DEF Baths, Pushed
  <2>3. CASE mpc = "nap"
    BY <1>0, <1>3, <2>3 DEF Baths, Pushed
  <2>4. CASE ~(mpc \in {"bath", "space", "push", "nap"})
    BY <1>0, <1>3, <2>4 DEF Baths, Pushed
  <2> QED
    BY <2>1, <2>2, <2>3, <2>4
<1>7. Baths' = Baths
  BY <1>1 DEF Baths
<1> HIDE DEF F
<1> QED
  BY <1>0, <1>2, <1>3, <1>4, <1>5, <1>6, <1>7 DEF House!Tuck

LEMMA NothingYet ==
  ASSUME SizesOK, Init
  PROVE  House!Init
<1>1. KIDS * (1 - 1) + 0 = 0
  BY DEF SizesOK
<1> QED
  BY <1>1 DEF Init, House!Init, Baths, Tuckings

\* The queue program keeps what the household promises.
THEOREM QueueIsHousehold == ASSUME SizesOK PROVE Spec => IsHousehold
<1>1. Init => House!Init
  BY NothingYet
<1>2. Inv /\ [Next]_vars => [House!Next]_<<Baths, Tuckings>>
  BY NothingCounted, BathCounted, TuckingCounted DEF Next, Mother, Father, House!Next
<1> QED
  BY <1>1, <1>2, Invariant, PTL DEF Spec, IsHousehold, House!Spec
=============================================================================
