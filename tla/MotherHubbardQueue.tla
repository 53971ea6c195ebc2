------------------------- MODULE MotherHubbardQueue -------------------------
(***************************************************************************)
(* Project-2-Question-2-Michael-Ramos/mh.c (mh_macos.c is the same program  *)
(* on named semaphores): Mother bathes a child and pushes its number into a *)
(* circular queue she resets every morning; Father pops twelve children a   *)
(* day and then posts nextDayReady, which ends Mother's nap.                *)
(*                                                                         *)
(* A step is one sem_wait, one section under qmtx with the sem_post after   *)
(* it (a post only enables the other thread), or what a thread prints.      *)
(***************************************************************************)
EXTENDS Integers

CONSTANTS
  KIDS,
  Ncycles

SizesOK == KIDS \in Nat \ {0} /\ Ncycles \in Nat \ {0}

Children == 1 .. KIDS

VARIABLES
  qbuf, qhead, qtail, qItems, qSpaces,
  motherGo, nextDayReady,
  mpc, mday, c,                 \* mother_thread: where it is, its day, its c
  fpc, fday, tucked, childId    \* father_thread

queue  == <<qbuf, qhead, qtail, qItems, qSpaces>>
days   == <<motherGo, nextDayReady>>
mother == <<mpc, mday, c>>
father == <<fpc, fday, tucked, childId>>
vars   == <<queue, days, mother, father>>

Init ==
  /\ qbuf = [k \in 0 .. KIDS - 1 |-> 0] /\ qhead = 0 /\ qtail = 0
  /\ qItems = 0 /\ qSpaces = KIDS
  /\ motherGo = 1 /\ nextDayReady = 0
  /\ mpc = "sleep" /\ mday = 1 /\ c = 1
  /\ fpc = "sleep" /\ fday = 1 /\ tucked = 0 /\ childId = 0

-----------------------------------------------------------------------------
\* mother_thread

WakeUp ==
  /\ mpc = "sleep" /\ mpc' = "reset"
  /\ motherGo > 0 /\ motherGo' = motherGo - 1
  /\ UNCHANGED <<queue, nextDayReady, mday, c, father>>

ResetQueue ==
  /\ mpc = "reset" /\ mpc' = "bath"
  /\ qhead' = 0 /\ qtail' = 0 /\ c' = 1
  /\ UNCHANGED <<qbuf, qItems, qSpaces, days, mday, father>>

\* Breakfast, school, dinner and bath of child c.
GiveBath ==
  /\ mpc = "bath" /\ mpc' = "space"
  /\ UNCHANGED <<queue, days, mday, c, father>>

WaitSpace ==
  /\ mpc = "space" /\ mpc' = "push"
  /\ qSpaces > 0 /\ qSpaces' = qSpaces - 1
  /\ UNCHANGED <<qbuf, qhead, qtail, qItems, days, mday, c, father>>

\* Mutant: the tail is advanced before the store.
PushNext ==
  /\ mpc = "push"
  /\ qtail' = (qtail + 1) % KIDS
  /\ qbuf' = [qbuf EXCEPT ![qtail'] = c]
  /\ qItems' = qItems + 1
  /\ IF c < KIDS THEN mpc' = "bath" /\ c' = c + 1
                 ELSE mpc' = "nap" /\ UNCHANGED c
  /\ UNCHANGED <<qhead, qSpaces, days, mday, father>>
Push ==
  /\ mpc = "push"
  /\ qbuf' = [qbuf EXCEPT ![qtail] = c]
  /\ qtail' = (qtail + 1) % KIDS
  /\ qItems' = qItems + 1
  /\ IF c < KIDS THEN mpc' = "bath" /\ c' = c + 1
                 ELSE mpc' = "nap" /\ UNCHANGED c
  /\ UNCHANGED <<qhead, qSpaces, days, mday, father>>

\* The end of Mother's day, and the start of the next one.
\* Mutant: Mother does not nap.
NapNot ==
  /\ mpc = "nap" /\ mday' = mday + 1
  /\ IF mday < Ncycles THEN mpc' = "sleep" /\ motherGo' = motherGo + 1
                       ELSE mpc' = "end" /\ UNCHANGED motherGo
  /\ UNCHANGED <<queue, nextDayReady, c, father>>
Nap ==
  /\ mpc = "nap" /\ mday' = mday + 1
  /\ nextDayReady > 0 /\ nextDayReady' = nextDayReady - 1
  /\ IF mday < Ncycles THEN mpc' = "sleep" /\ motherGo' = motherGo + 1
                       ELSE mpc' = "end" /\ UNCHANGED motherGo
  /\ UNCHANGED <<queue, c, father>>

Mother == WakeUp \/ ResetQueue \/ GiveBath \/ WaitSpace \/ Push \/ Nap

-----------------------------------------------------------------------------
\* father_thread

WaitItem ==
  /\ fpc = "sleep" /\ fpc' = "pop"
  /\ qItems > 0 /\ qItems' = qItems - 1
  /\ UNCHANGED <<qbuf, qhead, qtail, qSpaces, days, mother, fday, tucked, childId>>

Pop ==
  /\ fpc = "pop" /\ fpc' = "tuck"
  /\ childId' = qbuf[qhead] /\ qhead' = (qhead + 1) % KIDS
  /\ qSpaces' = qSpaces + 1
  /\ UNCHANGED <<qbuf, qtail, qItems, days, mother, fday, tucked>>

\* Mutant: Father's day ends one child early.
TuckInShort ==
  /\ fpc = "tuck" /\ tucked' = tucked + 1
  /\ fpc' = IF tucked' < KIDS - 1 THEN "sleep" ELSE "signal"
  /\ UNCHANGED <<queue, days, mother, fday, childId>>
TuckIn ==
  /\ fpc = "tuck" /\ tucked' = tucked + 1
  /\ fpc' = IF tucked' < KIDS THEN "sleep" ELSE "signal"
  /\ UNCHANGED <<queue, days, mother, fday, childId>>

Signal ==
  /\ fpc = "signal" /\ fday' = fday + 1 /\ tucked' = 0
  /\ nextDayReady' = nextDayReady + 1
  /\ fpc' = IF fday < Ncycles THEN "sleep" ELSE "end"
  /\ UNCHANGED <<queue, motherGo, mother, childId>>

Father == WaitItem \/ Pop \/ TuckIn \/ Signal

Next == Mother \/ Father

Spec == Init /\ [][Next]_vars

-----------------------------------------------------------------------------
\* Every variable keeps its type; the day semaphores are binary.
TypeOK ==
  /\ qbuf \in [0 .. KIDS - 1 -> 0 .. KIDS]
  /\ qhead \in 0 .. KIDS - 1 /\ qtail \in 0 .. KIDS - 1
  /\ qItems \in 0 .. KIDS /\ qSpaces \in 0 .. KIDS
  /\ motherGo \in 0 .. 1 /\ nextDayReady \in 0 .. 1
  /\ mpc \in {"sleep", "reset", "bath", "space", "push", "nap", "end"}
  /\ mday \in 1 .. Ncycles + 1 /\ c \in Children
  /\ fpc \in {"sleep", "pop", "tuck", "signal", "end"}
  /\ fday \in 1 .. Ncycles + 1 /\ tucked \in 0 .. KIDS /\ childId \in 0 .. KIDS

\* Children pushed that Father has not popped.
Waiting == qItems + (IF fpc = "pop" THEN 1 ELSE 0)

\* Pr2README.txt, "Correctness" and "Valid child IDs are 1..12 only": the queue
\* holds the children after the last one Father took, in order, and Father takes
\* them in order; Mother's reset in the morning disturbs none of it.
QueueInOrder ==
  /\ fpc = "tuck" => childId = tucked + 1
  /\ \A k \in 0 .. Waiting - 1 :
       qbuf[(qhead + k) % KIDS] = tucked + k + (IF fpc = "tuck" THEN 2 ELSE 1)

\* The reset of the queue finds it empty, with no thread inside it.
ResetFindsEmpty ==
  mpc = "reset" => /\ qItems = 0 /\ qSpaces = KIDS
                   /\ fpc \in {"sleep", "end"} /\ fday = mday

\* The baths given so far, over all days.
Baths == KIDS * (mday - 1) +
         CASE mpc \in {"space", "push"} -> c
           [] mpc = "bath" -> c - 1
           [] mpc = "nap" -> KIDS
           [] OTHER -> 0
Tuckings == KIDS * (fday - 1) + tucked
House == INSTANCE Household WITH
  Kids <- KIDS, Days <- Ncycles, bathed <- Baths, tucked <- Tuckings

\* The program does what the household promises.
IsHousehold == House!Spec
=============================================================================
