--------------------------- MODULE MotherHubbard ---------------------------
(***************************************************************************)
(* project_2/mh.c: the thread Mother takes every child through tasks 1 to   *)
(* 4, the thread Father through tasks 5 and 6.  After a child's bath Mother *)
(* posts father_sem; after the last child is in bed Father posts mother_sem,*)
(* which starts the next day.  children[i].task_completed is written by     *)
(* both threads and no mutex is ever taken.                                 *)
(*                                                                         *)
(* A step is one store, one sem_wait or one sem_post.                       *)
(***************************************************************************)
EXTENDS Integers, FiniteSets

CONSTANTS
  NUM_CHILDREN,
  Days            \* num_cycles

ASSUME HubbardAssumption == NUM_CHILDREN \in Nat \ {0} /\ Days \in Nat \ {0}

Children == 1 .. NUM_CHILDREN
Bath == 4
Book == 5
Tucked == 6

VARIABLES
  task,                    \* children[].task_completed
  mother_sem, father_sem,
  mpc, mday, mtask, mchild,   \* Mother: where she is, cycle, task loop, i
  fpc, fday, fchild           \* Father

mother == <<mpc, mday, mtask, mchild>>
father == <<fpc, fday, fchild>>
hubbard   == <<task, mother_sem, father_sem, mother, father>>

HubbardInit ==
  /\ task = [c \in Children |-> 0]
  /\ mother_sem = 1 /\ father_sem = 0
  /\ mpc = "wait" /\ mday = 0 /\ mtask = 1 /\ mchild = 1
  /\ fpc = "wait" /\ fday = 0 /\ fchild = 1

-----------------------------------------------------------------------------
\* mother_thread

\* Mutant: Mother does not wait for the children to be in bed.
WakeUpEarly ==
  /\ mpc = "wait" /\ mpc' = "task"
  /\ mother_sem' = 0
  /\ UNCHANGED <<task, father_sem, mday, mtask, mchild, father>>
WakeUp ==
  /\ mpc = "wait" /\ mpc' = "task"
  /\ mother_sem > 0 /\ mother_sem' = mother_sem - 1
  /\ UNCHANGED <<task, father_sem, mday, mtask, mchild, father>>

\* The next child of a task, or the first of the next task.
NextChild ==
  IF mchild < NUM_CHILDREN
  THEN mchild' = mchild + 1 /\ UNCHANGED mtask
  ELSE mchild' = 1 /\ mtask' = mtask + 1

Care ==
  /\ mpc = "task" /\ mtask < Bath
  /\ task' = [task EXCEPT ![mchild] = mtask]
  /\ NextChild
  /\ UNCHANGED <<mother_sem, father_sem, mpc, mday, father>>

GiveBath ==
  /\ mpc = "task" /\ mtask = Bath /\ mpc' = "post"
  /\ task' = [task EXCEPT ![mchild] = Bath]
  /\ UNCHANGED <<mother_sem, father_sem, mday, mtask, mchild, father>>

\* sem_post(&father_sem); after the last child Mother's day is over.
HandOver ==
  /\ mpc = "post"
  /\ father_sem' = father_sem + 1
  /\ IF mchild < NUM_CHILDREN
     THEN mpc' = "task" /\ mchild' = mchild + 1 /\ UNCHANGED <<mday, mtask>>
     ELSE /\ mday' = mday + 1 /\ mtask' = 1 /\ mchild' = 1
          /\ mpc' = IF mday' < Days THEN "wait" ELSE "end"
  /\ UNCHANGED <<task, mother_sem, father>>

Mother == WakeUp \/ Care \/ GiveBath \/ HandOver

-----------------------------------------------------------------------------
\* father_thread

\* Mutant: Father takes the child whether Mother is done with it or not.
TakeChildEarly ==
  /\ fpc = "wait" /\ fpc' = "read"
  /\ father_sem' = IF father_sem > 0 THEN father_sem - 1 ELSE 0
  /\ UNCHANGED <<task, mother_sem, mother, fday, fchild>>
TakeChild ==
  /\ fpc = "wait" /\ fpc' = "read"
  /\ father_sem > 0 /\ father_sem' = father_sem - 1
  /\ UNCHANGED <<task, mother_sem, mother, fday, fchild>>

ReadBook ==
  /\ fpc = "read" /\ fpc' = "tuck"
  /\ task' = [task EXCEPT ![fchild] = Book]
  /\ UNCHANGED <<mother_sem, father_sem, mother, fday, fchild>>

TuckIn ==
  /\ fpc = "tuck"
  /\ task' = [task EXCEPT ![fchild] = Tucked]
  /\ IF fchild < NUM_CHILDREN
     THEN fpc' = "wait" /\ fchild' = fchild + 1
     ELSE fpc' = "post" /\ fchild' = 1
  /\ UNCHANGED <<mother_sem, father_sem, mother, fday>>

WakeMother ==
  /\ fpc = "post"
  /\ mother_sem' = mother_sem + 1
  /\ fday' = fday + 1
  /\ fpc' = IF fday' < Days THEN "wait" ELSE "end"
  /\ UNCHANGED <<task, father_sem, mother, fchild>>

Father == TakeChild \/ ReadBook \/ TuckIn \/ WakeMother

HubbardNext == Mother \/ Father

HubbardSpec == HubbardInit /\ [][HubbardNext]_hubbard

-----------------------------------------------------------------------------
\* Every variable keeps its type; father_sem counts at most the children of a
\* day and mother_sem one night.
HubbardTypeOK ==
  /\ task \in [Children -> 0 .. Tucked]
  /\ mother_sem \in 0 .. 1 /\ father_sem \in 0 .. NUM_CHILDREN
  /\ mpc \in {"wait", "task", "post", "end"} /\ mday \in 0 .. Days
  /\ mtask \in 1 .. Bath /\ mchild \in Children
  /\ fpc \in {"wait", "read", "tuck", "post", "end"} /\ fday \in 0 .. Days
  /\ fchild \in Children

\* The two threads never write one child's task_completed at a time, although
\* nothing but the semaphores keeps them apart.
OneWriter ==
  ~(mpc = "task" /\ fpc \in {"read", "tuck"} /\ mchild = fchild)

\* Every child goes through the six tasks in order, day after day, whichever
\* thread does them.
TasksInOrder ==
  [][\A c \in Children : task'[c] \in {task[c], (task[c] % Tucked) + 1}]_task

\* How far Mother and Father are, over all days.
Baths ==
  NUM_CHILDREN * mday
    + (IF mtask = Bath THEN mchild - (IF mpc = "post" THEN 0 ELSE 1) ELSE 0)
Tuckings ==
  NUM_CHILDREN * fday + (IF fpc = "post" THEN NUM_CHILDREN ELSE fchild - 1)

House == INSTANCE Household WITH
  Kids <- NUM_CHILDREN, bathed <- Baths, tucked <- Tuckings

\* The program does what the household promises: baths and tuckings in order, and
\* no day before the last one is over.
IsHousehold == House!Spec
=============================================================================
