---------------------------- MODULE ThreadProofs ----------------------------
(***************************************************************************)
(* Proofs about what the threads of the process share: the script check    *)
(* queue (module CheckQueue) and the keys of the wallet (module KeyPool).  *)
(*                                                                         *)
(* For every number of workers, every block and every batch size:          *)
(*                                                                         *)
(*   TypeCorrect            no counter of the queue is negative;           *)
(*   TodoCorrect            nTodo counts what is outstanding, and no check *)
(*                          is held twice;                                 *)
(*   VerdictCorrect         Wait returns whether all checks passed;        *)
(*   UnusedCorrect          between blocks the queue is as it was before   *)
(*                          the first.                                     *)
(*                                                                         *)
(* Their inductive invariant, QueueInv, has four parts: the shape of the   *)
(* variables; the two counters of threads, each the cardinality of a set   *)
(* of threads; the count of outstanding checks; and the books kept on      *)
(* failed checks: while a block is being verified every failed check is    *)
(* still queued, in the batch of a thread, or already accounted for in     *)
(* fAllOk.                                                                 *)
(*                                                                         *)
(* For every size of the pool, any number of reservations and any number   *)
(* of keys:                                                                *)
(*                                                                         *)
(*   KeysAreApartAlways     a key belongs to the pool, to one reservation  *)
(*                          or to one use;                                 *)
(*   FileIsWholeAlways      no kill loses a key or leaves a file that does *)
(*                          not load;                                      *)
(*   PoolNeverRunsDryEver   a wallet that is not encrypted has a key to    *)
(*                          give.                                          *)
(*                                                                         *)
(* KInv, their invariant, is about the file alone (FileInv), the pool in   *)
(* memory and the reservations (FreeInv), and what memory has of the file  *)
(* (MemInv).  The properties do not speak of why a key that the pool is    *)
(* filled with comes at a place of its own: the last place of the pool on  *)
(* the file is always free (LastIsFree), since an operation that takes a   *)
(* key fills the pool up first, to two keys at least, and takes the        *)
(* oldest.                                                                 *)
(***************************************************************************)
EXTENDS CheckQueue, KeyPool, Counting

(* The script check queue *)

IdleThreads == {t \in Thread : pc[t] \in {"wait", "woken", "gone"}}

LoopThreads == {t \in Thread : pc[t] \in {"wait", "woken", "gone", "scan", "work", "done"}}

Shape ==
    /\ queue \subseteq Check
    /\ fAllOk \in BOOLEAN
    /\ pc \in [Thread -> PC]
    /\ batch \in [Thread -> SUBSET Check]
    /\ fOk \in [Thread -> BOOLEAN]
    /\ fRet \in BOOLEAN
    /\ added \subseteq Check
    /\ nTotal \in Int /\ nIdle \in Int /\ nTodo \in Int

Counters ==
    /\ nIdle = Cardinality(IdleThreads)
    /\ nTotal = Cardinality(LoopThreads)

(* A thread holds checks exactly while it evaluates them. *)
Holding == \A t \in Thread : pc[t] \in {"work", "done"} <=> batch[t] # {}

(* Nothing is claimed to have failed unless a check of the block did... *)
NoFalseAlarm ==
    /\ ~fAllOk => added \cap Bad # {}
    /\ \A t \in Thread : pc[t] \in {"work", "done"} /\ ~fOk[t] => added \cap Bad # {}

(* ...and no failed check of the block is forgotten. *)
NoFailureLost ==
    pc[Master] # "out" =>
        \A c \in added \cap Bad :
            \/ ~fAllOk
            \/ c \in queue
            \/ \E t \in Thread : c \in batch[t] /\ (pc[t] = "done" => ~fOk[t])

Verdict ==
    /\ Outstanding \subseteq added
    /\ NoFalseAlarm /\ NoFailureLost
    /\ pc[Master] = "out" => fAllOk
    /\ VerdictIsExact

QueueInv == Shape /\ Counters /\ Holding /\ TodoIsOutstanding /\ Verdict

-----------------------------------------------------------------------------
USE MasterAssumption, CheckAssumption, WorkerAssumption

(* The sets the counters measure are finite. *)
LEMMA FiniteThreads ==
    /\ IsFiniteSet(Thread)
    /\ \A S \in SUBSET Thread : IsFiniteSet(S) /\ Cardinality(S) \in Nat
    /\ \A S \in SUBSET Check : IsFiniteSet(S) /\ Cardinality(S) \in Nat
<1>1. IsFiniteSet(Thread)
  BY FS_AddElement DEF Thread
<1>2. QED
  BY <1>1, FS_Subset, FS_CardinalityType

(* A batch is never empty ("Don't do batches smaller than 1 (duh)"). *)
LEMMA NowIsNotZero == nNow # 0
<1> DEFINE n == Smaller(nBatchSize, Cardinality(queue) \div (nTotal + nIdle + 1))
<1> HIDE DEF n
<1>1. (IF n = 0 THEN 1 ELSE n) # 0
  OBVIOUS
<1>2. QED
  BY <1>1 DEF nNow, n

(* The invariant implies the type invariant: no counter is negative. *)
LEMMA CountersAreNat == ASSUME QueueInv PROVE TypeOK
<1>1. IdleThreads \in SUBSET Thread /\ LoopThreads \in SUBSET Thread
  BY DEF IdleThreads, LoopThreads
<1>2. Outstanding \in SUBSET Check
  BY DEF QueueInv, Shape, Outstanding
<1>3. nIdle \in Nat /\ nTotal \in Nat /\ nTodo \in Nat
  BY <1>1, <1>2, FiniteThreads DEF QueueInv, Counters, TodoIsOutstanding
<1>4. QED
  BY <1>3 DEF QueueInv, Shape, TypeOK

(* The invariant holds at first, *)
LEMMA QueueInitInv == QueueInit => QueueInv
<1> SUFFICES ASSUME QueueInit PROVE QueueInv
  OBVIOUS
<1>1. Shape /\ Holding
  BY DEF QueueInit, Shape, Holding, PC, Thread
<1>2. Counters
  <2>1. IdleThreads = {} /\ LoopThreads = {}
    BY DEF QueueInit, IdleThreads, LoopThreads
  <2>2. QED
    BY <2>1, FS_EmptySet DEF QueueInit, Counters
<1>3. Outstanding = {}
  BY DEF QueueInit, Outstanding
<1>4. TodoIsOutstanding
  BY <1>3, FS_EmptySet DEF QueueInit, TodoIsOutstanding
<1>5. Verdict
  BY <1>3 DEF QueueInit, Verdict, NoFalseAlarm, NoFailureLost, VerdictIsExact, Thread
<1>6. QED
  BY <1>1, <1>2, <1>4, <1>5 DEF QueueInv

-----------------------------------------------------------------------------
(* One lemma per part of the invariant. *)
LEMMA ShapeStep == ASSUME QueueInv, [QueueNext]_queueVars PROVE Shape'
<1> USE DEF QueueInv, Shape
<1>1. CASE UNCHANGED queueVars
  BY <1>1 DEF queueVars
<1>2. CASE BuildControl
  BY <1>2 DEF BuildControl, PC, Thread
<1>3. CASE CallWait
  BY <1>3 DEF CallWait, PC, Thread
<1>4. CASE Return
  BY <1>4 DEF Return, PC, Thread
<1>5. ASSUME NEW C \in SUBSET Check, Add(C) PROVE Shape'
  <2>1. \A S : Wake(S) \in [Thread -> PC]
    BY DEF Wake, PC
  <2>2. Cardinality(C) \in Int
    BY FiniteThreads
  <2>3. QED
    BY <1>5, <2>1, <2>2 DEF Add
<1>6. ASSUME NEW t \in Thread, ThreadStep(t) \/ SpuriousWake(t) PROVE Shape'
  <2>1. CASE FirstIteration(t)
    BY <2>1 DEF FirstIteration, PC
  <2>2. CASE Resume(t)
    BY <2>2 DEF Resume, PC
  <2>3. CASE CleanUp(t)
    <3>1. \A S : [Wake(S) EXCEPT ![t] = "scan"] \in [Thread -> PC]
      BY DEF Wake, PC
    <3>2. pc' \in [Thread -> PC]
      BY <2>3, <3>1 DEF CleanUp
    <3>3. Cardinality(batch[t]) \in Int
      BY FiniteThreads
    <3>4. nTodo' \in Int
      BY <2>3, <3>3 DEF CleanUp
    <3>5. fAllOk' \in BOOLEAN
      BY <2>3 DEF CleanUp
    <3>6. QED
      BY <2>3, <3>2, <3>4, <3>5 DEF CleanUp
  <2>4. CASE Idle(t)
    BY <2>4 DEF Idle, PC
  <2>5. CASE Take(t)
    BY <2>5 DEF Take, PC
  <2>6. CASE Execute(t)
    <3>1. fOk' \in [Thread -> BOOLEAN]
      BY <2>6 DEF Execute
    <3>2. QED
      BY <2>6, <3>1 DEF Execute, PC
  <2>7. CASE SpuriousWake(t)
    BY <2>7 DEF SpuriousWake, PC
  <2>8. QED
    BY <1>6, <2>1, <2>2, <2>3, <2>4, <2>5, <2>6, <2>7 DEF ThreadStep
<1>7. ASSUME NEW w \in Worker, Interrupt(w) PROVE Shape'
  BY <1>7 DEF Interrupt, PC, Thread
<1>8. QED
  BY <1>1, <1>2, <1>3, <1>4, <1>5, <1>6, <1>7 DEF QueueNext

(* the counters of threads, *)
LEMMA CountersStep == ASSUME QueueInv, [QueueNext]_queueVars PROVE Counters'
<1> USE DEF QueueInv, Counters
<1> DEFINE LoopPC == {"wait", "woken", "gone", "scan", "work", "done"}
           IdlePC == {"wait", "woken", "gone"}
<1>1. ASSUME NEW t \in Thread, NEW l \in PC, pc' = [pc EXCEPT ![t] = l]
      PROVE  /\ IdleThreads' = IF l \in IdlePC THEN IdleThreads \cup {t} ELSE IdleThreads \ {t}
             /\ LoopThreads' = IF l \in LoopPC THEN LoopThreads \cup {t} ELSE LoopThreads \ {t}
  BY <1>1 DEF Shape, IdleThreads, LoopThreads
<1>2. ASSUME NEW S \in SUBSET WaitingWorkers, pc' = Wake(S)
      PROVE  IdleThreads' = IdleThreads /\ LoopThreads' = LoopThreads
  BY <1>2 DEF Shape, IdleThreads, LoopThreads, Wake, WaitingWorkers, Thread
<1>3. /\ IsFiniteSet(IdleThreads) /\ Cardinality(IdleThreads) \in Nat
      /\ IsFiniteSet(LoopThreads) /\ Cardinality(LoopThreads) \in Nat
  <2>1. IdleThreads \in SUBSET Thread /\ LoopThreads \in SUBSET Thread
    BY DEF IdleThreads, LoopThreads
  <2>2. QED
    BY <2>1, FiniteThreads
<1>4. \A t \in Thread :
        /\ t \in IdleThreads <=> pc[t] \in IdlePC
        /\ t \in LoopThreads <=> pc[t] \in LoopPC
  BY DEF IdleThreads, LoopThreads
<1>5. \A t \in Thread :
        /\ Cardinality(IdleThreads \cup {t}) = IF t \in IdleThreads THEN nIdle ELSE nIdle + 1
        /\ Cardinality(IdleThreads \ {t}) = IF t \in IdleThreads THEN nIdle - 1 ELSE nIdle
        /\ Cardinality(LoopThreads \cup {t}) = IF t \in LoopThreads THEN nTotal ELSE nTotal + 1
        /\ Cardinality(LoopThreads \ {t}) = IF t \in LoopThreads THEN nTotal - 1 ELSE nTotal
  BY <1>3, FS_AddElement, FS_RemoveElement
<1>6. Master \in Thread /\ Worker \subseteq Thread
  BY DEF Thread
<1>7. CASE UNCHANGED queueVars
  BY <1>7 DEF queueVars, IdleThreads, LoopThreads
<1>8. CASE BuildControl
  BY <1>8, <1>1, <1>4, <1>5, <1>6 DEF BuildControl, PC
<1>9. CASE CallWait
  BY <1>9, <1>1, <1>4, <1>5, <1>6 DEF CallWait, PC
<1>10. CASE Return
  BY <1>10, <1>1, <1>4, <1>5, <1>6 DEF Return, PC
<1>11. ASSUME NEW C \in SUBSET Check, Add(C) PROVE Counters'
  <2>1. \E S \in SUBSET WaitingWorkers : pc' = Wake(S)
    BY <1>11 DEF Add, NotifyOne
  <2>2. QED
    BY <1>11, <2>1, <1>2 DEF Add
<1>12. ASSUME NEW t \in Thread, ThreadStep(t) \/ SpuriousWake(t) PROVE Counters'
  <2>1. CASE FirstIteration(t)
    BY <2>1, <1>1, <1>4, <1>5 DEF FirstIteration, PC
  <2>2. CASE Resume(t)
    BY <2>2, <1>1, <1>4, <1>5 DEF Resume, PC
  <2>3. CASE CleanUp(t)
    <3>1. /\ IdleThreads' = IdleThreads /\ LoopThreads' = LoopThreads
      BY <2>3, <1>6 DEF CleanUp, Wake, Shape, IdleThreads, LoopThreads
    <3>2. QED
      BY <2>3, <3>1 DEF CleanUp
  <2>4. CASE Idle(t)
    BY <2>4, <1>1, <1>4, <1>5 DEF Idle, PC
  <2>5. CASE Take(t)
    BY <2>5, <1>1, <1>4, <1>5 DEF Take, PC
  <2>6. CASE Execute(t)
    BY <2>6, <1>1, <1>4, <1>5 DEF Execute, PC
  <2>7. CASE SpuriousWake(t)
    <3>1. /\ IdleThreads' = IdleThreads /\ LoopThreads' = LoopThreads
      BY <2>7 DEF SpuriousWake, Shape, IdleThreads, LoopThreads
    <3>2. QED
      BY <2>7, <3>1 DEF SpuriousWake
  <2>8. QED
    BY <1>12, <2>1, <2>2, <2>3, <2>4, <2>5, <2>6, <2>7 DEF ThreadStep
<1>13. ASSUME NEW w \in Worker, Interrupt(w) PROVE Counters'
  <2>1. /\ IdleThreads' = IdleThreads /\ LoopThreads' = LoopThreads
    BY <1>13 DEF Interrupt, Shape, IdleThreads, LoopThreads
  <2>2. QED
    BY <1>13, <2>1 DEF Interrupt
<1>14. QED
  BY <1>7, <1>8, <1>9, <1>10, <1>11, <1>12, <1>13 DEF QueueNext

(* what each thread may hold where it stands, *)
LEMMA HoldingStep == ASSUME QueueInv, [QueueNext]_queueVars PROVE Holding'
<1> USE DEF QueueInv, Shape, Holding
<1>1. CASE UNCHANGED queueVars
  BY <1>1 DEF queueVars
<1>2. CASE BuildControl
  BY <1>2 DEF BuildControl, PC, Thread
<1>3. CASE CallWait
  BY <1>3 DEF CallWait, PC, Thread
<1>4. CASE Return
  BY <1>4 DEF Return, PC, Thread
<1>5. ASSUME NEW C \in SUBSET Check, Add(C) PROVE Holding'
  <2>1. \E S \in SUBSET WaitingWorkers : pc' = Wake(S)
    BY <1>5 DEF Add, NotifyOne
  <2>2. QED
    BY <1>5, <2>1 DEF Add, Wake, WaitingWorkers
<1>6. ASSUME NEW t \in Thread, ThreadStep(t) \/ SpuriousWake(t) PROVE Holding'
  <2>1. CASE FirstIteration(t)
    BY <2>1 DEF FirstIteration
  <2>2. CASE Resume(t)
    BY <2>2 DEF Resume
  <2>3. CASE CleanUp(t)
    BY <2>3 DEF CleanUp, Wake, Thread
  <2>4. CASE Idle(t)
    BY <2>4 DEF Idle
  <2>5. CASE Take(t)
    <3>1. PICK B \in SUBSET queue :
             /\ Cardinality(B) = nNow
             /\ batch' = [batch EXCEPT ![t] = B]
      BY <2>5 DEF Take
    <3>2. B # {}
      BY <3>1, NowIsNotZero, FS_EmptySet
    <3>3. QED
      BY <2>5, <3>1, <3>2 DEF Take
  <2>6. CASE Execute(t)
    BY <2>6 DEF Execute
  <2>7. CASE SpuriousWake(t)
    BY <2>7 DEF SpuriousWake
  <2>8. QED
    BY <1>6, <2>1, <2>2, <2>3, <2>4, <2>5, <2>6, <2>7 DEF ThreadStep
<1>7. ASSUME NEW w \in Worker, Interrupt(w) PROVE Holding'
  BY <1>7 DEF Interrupt, Thread
<1>8. QED
  BY <1>1, <1>2, <1>3, <1>4, <1>5, <1>6, <1>7 DEF QueueNext

(* Cardinality of a disjoint union and of a difference, for sets of checks. *)
LEMMA CountChecks ==
    ASSUME NEW S \in SUBSET Check, NEW T \in SUBSET Check
    PROVE  /\ S \cap T = {} => Cardinality(S \cup T) = Cardinality(S) + Cardinality(T)
           /\ T \subseteq S => Cardinality(S \ T) = Cardinality(S) - Cardinality(T)
<1>1. IsFiniteSet(S) /\ IsFiniteSet(T) /\ Cardinality(S) \in Nat /\ Cardinality(T) \in Nat
  BY FiniteThreads
<1>2. Cardinality(S \cup T) = Cardinality(S) + Cardinality(T) - Cardinality(S \cap T)
  BY <1>1, FS_Union
<1>3. Cardinality(S \ T) = Cardinality(S) - Cardinality(S \cap T)
  BY <1>1, FS_Difference
<1>4. ASSUME S \cap T = {} PROVE Cardinality(S \cup T) = Cardinality(S) + Cardinality(T)
  <2>1. Cardinality(S \cap T) = 0
    BY <1>4, FS_EmptySet
  <2>2. QED
    BY <1>1, <1>2, <2>1
<1>5. ASSUME T \subseteq S PROVE Cardinality(S \ T) = Cardinality(S) - Cardinality(T)
  <2>1. S \cap T = T
    BY <1>5
  <2>2. QED
    BY <1>3, <2>1
<1>6. QED
  BY <1>4, <1>5

(* the count of what is outstanding, *)
LEMMA TodoStep == ASSUME QueueInv, [QueueNext]_queueVars PROVE TodoIsOutstanding'
<1> USE DEF QueueInv, Shape
<1>1. ASSUME UNCHANGED <<queue, nTodo, batch>> PROVE TodoIsOutstanding'
  BY <1>1 DEF TodoIsOutstanding, Outstanding
<1>2. Outstanding \subseteq Check
  BY DEF Outstanding
<1>3. ASSUME NEW C \in SUBSET Check, Add(C) PROVE TodoIsOutstanding'
  <2>1. C \cap Outstanding = {}
    BY <1>3 DEF Add, Verdict
  <2>2. Outstanding' = Outstanding \cup C
    BY <1>3 DEF Add, Outstanding
  <2>3. nTodo' = Cardinality(Outstanding')
    BY <1>2, <1>3, <2>1, <2>2, CountChecks DEF Add, TodoIsOutstanding
  <2>4. \A t \in Thread : batch[t] \subseteq Outstanding
    BY DEF Outstanding
  <2>5. QED
    BY <1>3, <2>1, <2>3, <2>4 DEF Add, TodoIsOutstanding
<1>4. ASSUME NEW t \in Thread, CleanUp(t) PROVE TodoIsOutstanding'
  <2>1. batch' = [batch EXCEPT ![t] = {}] /\ UNCHANGED queue
    BY <1>4 DEF CleanUp
  <2>2. Outstanding' = Outstanding \ batch[t]
    <3>1. \A u \in Thread : batch'[u] = IF u = t THEN {} ELSE batch[u]
      BY <2>1
    <3>2. \A c : c \in Outstanding' <=> c \in queue \/ \E u \in Thread : u # t /\ c \in batch[u]
      BY <2>1, <3>1 DEF Outstanding
    <3>3. \A c : c \in Outstanding <=> c \in queue \/ \E u \in Thread : c \in batch[u]
      BY DEF Outstanding
    <3>4. \A c \in batch[t] : c \notin queue /\ \A u \in Thread : u # t => c \notin batch[u]
      BY DEF TodoIsOutstanding
    <3>5. \A c : c \in Outstanding' <=> c \in Outstanding \ batch[t]
      BY <3>2, <3>3, <3>4
    <3>6. QED
      BY <3>5
  <2>3. batch[t] \subseteq Outstanding
    BY DEF Outstanding
  <2>4. nTodo' = Cardinality(Outstanding')
    BY <1>2, <1>4, <2>2, <2>3, CountChecks DEF CleanUp, TodoIsOutstanding
  <2>5. QED
    BY <2>1, <2>4 DEF TodoIsOutstanding
<1>5. ASSUME NEW t \in Thread, Take(t) PROVE TodoIsOutstanding'
  <2>1. PICK B \in SUBSET queue : batch' = [batch EXCEPT ![t] = B] /\ queue' = queue \ B
    BY <1>5 DEF Take
  <2>2. pc[t] = "scan" /\ batch[t] = {}
    BY <1>5 DEF Take, Holding
  <2>3. \A u \in Thread : batch'[u] = IF u = t THEN B ELSE batch[u]
    BY <2>1
  <2>4. Outstanding' = Outstanding
    <3>1. \A c : c \in Outstanding' <=> c \in queue \ B \/ c \in B \/ \E u \in Thread : u # t /\ c \in batch[u]
      BY <2>1, <2>3 DEF Outstanding
    <3>2. \A c : c \in Outstanding <=> c \in queue \/ \E u \in Thread : u # t /\ c \in batch[u]
      BY <2>2 DEF Outstanding
    <3>3. QED
      BY <3>1, <3>2
  <2>5. QED
    BY <1>5, <2>1, <2>3, <2>4 DEF Take, TodoIsOutstanding
<1>6. QED
  BY <1>1, <1>3, <1>4, <1>5
     DEF QueueNext, queueVars, BuildControl, CallWait, Return, ThreadStep, FirstIteration, Resume, Idle,
         Execute, SpuriousWake, Interrupt

(* When nothing is outstanding no thread has anything to evaluate. *)
LEMMA OutHoldsNothing ==
    ASSUME QueueInv, pc[Master] = "out"
    PROVE  /\ queue = {} /\ fAllOk
           /\ \A t \in Thread : batch[t] = {} /\ pc[t] \notin {"work", "done"}
BY DEF QueueInv, Holding, Verdict, VerdictIsExact, Outstanding

(* and the books on failed checks. *)
LEMMA VerdictStep == ASSUME QueueInv, [QueueNext]_queueVars PROVE Verdict'
<1> USE DEF QueueInv, Shape
<1>0. Master \in Thread /\ Worker \subseteq Thread
  BY DEF Thread
<1>1. CASE UNCHANGED queueVars
  BY <1>1 DEF queueVars, Verdict, NoFalseAlarm, NoFailureLost, VerdictIsExact, Outstanding
<1>2. CASE BuildControl
  <2>1. /\ queue' = {} /\ added' = {} /\ fAllOk' /\ pc'[Master] = "control"
        /\ \A t \in Thread : batch'[t] = {} /\ pc'[t] \notin {"work", "done"}
    BY <1>0, <1>2, OutHoldsNothing DEF BuildControl
  <2>2. QED
    BY <2>1 DEF Verdict, NoFalseAlarm, NoFailureLost, VerdictIsExact, Outstanding
<1>3. CASE CallWait
  BY <1>0, <1>3 DEF CallWait, Verdict, NoFalseAlarm, NoFailureLost, VerdictIsExact, Outstanding
<1>4. CASE Return
  <2>1. Outstanding = {}
    <3>1. Outstanding \in SUBSET Check
      BY DEF Outstanding
    <3>2. QED
      BY <1>4, <3>1, FiniteThreads, FS_EmptySet DEF Return, TodoIsOutstanding
  <2>2. \A t \in Thread : batch[t] = {} /\ pc[t] \notin {"work", "done"}
    BY <2>1 DEF Outstanding, Holding
  <2>3. fAllOk = (added \cap Bad = {})
    BY <1>0, <1>4, <2>2 DEF Return, Verdict, NoFalseAlarm, NoFailureLost
  <2>4. /\ fRet' = (added' \cap Bad = {}) /\ fAllOk' /\ pc'[Master] = "out"
        /\ \A t \in Thread : pc'[t] \notin {"work", "done"}
    BY <1>0, <1>4, <2>2, <2>3 DEF Return
  <2>5. Outstanding' = {}
    BY <1>4, <2>1 DEF Return, Outstanding
  <2>6. QED
    BY <1>0, <2>4, <2>5 DEF Verdict, NoFalseAlarm, NoFailureLost, VerdictIsExact
<1>5. ASSUME NEW C \in SUBSET Check, Add(C) PROVE Verdict'
  <2>1. PICK S \in SUBSET WaitingWorkers : pc' = Wake(S)
    BY <1>5 DEF Add, NotifyOne
  <2>2. \A t \in Thread : pc'[t] = pc[t] \/ (pc[t] = "wait" /\ pc'[t] = "woken")
    BY <2>1 DEF Wake, WaitingWorkers, Thread
  <2>3. pc'[Master] = "control"
    BY <1>0, <1>5, <2>2 DEF Add
  <2>4. Outstanding' \subseteq added'
    BY <1>5 DEF Add, Outstanding, Verdict
  <2>5. NoFalseAlarm'
    BY <1>5, <2>2 DEF Add, NoFalseAlarm, Verdict
  <2>6. NoFailureLost'
    <3> SUFFICES ASSUME NEW c \in added' \cap Bad
                 PROVE  (\/ ~fAllOk \/ c \in queue
                         \/ \E t \in Thread : c \in batch[t] /\ (pc[t] = "done" => ~fOk[t]))'
      BY DEF NoFailureLost
    <3>1. CASE c \in C
      BY <1>5, <3>1 DEF Add
    <3>2. CASE c \notin C
      <4>1. \/ ~fAllOk \/ c \in queue
            \/ \E t \in Thread : c \in batch[t] /\ (pc[t] = "done" => ~fOk[t])
        BY <1>5, <3>2 DEF Add, Verdict, NoFailureLost
      <4>2. QED
        BY <1>5, <4>1, <2>2 DEF Add
    <3>3. QED
      BY <3>1, <3>2
  <2>7. QED
    BY <2>3, <2>4, <2>5, <2>6 DEF Verdict, VerdictIsExact
<1>6. ASSUME NEW t \in Thread, NEW l \in PC \ {"out", "work", "done"}, pc[t] \notin {"out", "work", "done"},
             pc' = [pc EXCEPT ![t] = l], UNCHANGED <<queue, fAllOk, batch, fOk, fRet, added>>
      PROVE  Verdict'
  BY <1>0, <1>6 DEF Verdict, NoFalseAlarm, NoFailureLost, VerdictIsExact, Outstanding, Holding
<1>7. ASSUME NEW t \in Thread, CleanUp(t) PROVE Verdict'
  <2>1. pc[Master] # "out" /\ pc[t] = "done"
    BY <1>7, OutHoldsNothing DEF CleanUp
  <2>2. \A u \in Thread :
          /\ pc'[u] # "out" \/ pc[u] = "out"
          /\ pc'[u] \in {"work", "done"} => u # t /\ pc[u] = pc'[u]
          /\ pc[u] = "done" /\ u # t => pc'[u] = "done"
          /\ pc'[u] = "done" => pc[u] = "done"
          /\ batch'[u] = IF u = t THEN {} ELSE batch[u]
    BY <1>7 DEF CleanUp, Wake
  <2>3. pc'[Master] # "out"
    BY <1>0, <2>1, <2>2
  <2>4. Outstanding' \subseteq Outstanding /\ UNCHANGED added
    BY <1>7, <2>2 DEF CleanUp, Outstanding
  <2>5. NoFalseAlarm'
    BY <1>7, <2>1, <2>2 DEF CleanUp, NoFalseAlarm, Verdict
  <2>6. NoFailureLost'
    <3> SUFFICES ASSUME NEW c \in added \cap Bad, fAllOk', c \notin queue
                 PROVE  \E u \in Thread : c \in batch'[u] /\ (pc'[u] = "done" => ~fOk'[u])
      BY <1>7 DEF CleanUp, NoFailureLost
    <3>1. fAllOk /\ fOk[t]
      BY <1>7 DEF CleanUp
    <3>2. PICK u \in Thread : c \in batch[u] /\ (pc[u] = "done" => ~fOk[u])
      BY <2>1, <3>1 DEF Verdict, NoFailureLost
    <3>3. u # t
      BY <2>1, <3>1, <3>2
    <3>4. QED
      BY <1>7, <2>2, <3>2, <3>3 DEF CleanUp
  <2>7. QED
    BY <2>3, <2>4, <2>5, <2>6 DEF Verdict, VerdictIsExact
<1>8. ASSUME NEW t \in Thread, Take(t) PROVE Verdict'
  <2>1. PICK B \in SUBSET queue : batch' = [batch EXCEPT ![t] = B] /\ queue' = queue \ B
    BY <1>8 DEF Take
  <2>2. pc[Master] # "out" /\ pc[t] = "scan" /\ batch[t] = {}
    BY <1>8, OutHoldsNothing DEF Take, Holding
  <2>3. \A u \in Thread :
          /\ batch'[u] = IF u = t THEN B ELSE batch[u]
          /\ pc'[u] = IF u = t THEN "work" ELSE pc[u]
          /\ fOk'[u] = IF u = t THEN fAllOk ELSE fOk[u]
    BY <1>8, <2>1 DEF Take
  <2>4. Outstanding' \subseteq Outstanding
    BY <2>1, <2>3 DEF Outstanding
  <2>5. NoFalseAlarm'
    BY <1>8, <2>3 DEF Take, NoFalseAlarm, Verdict
  <2>6. NoFailureLost'
    <3> SUFFICES ASSUME NEW c \in added \cap Bad, fAllOk, c \notin queue'
                 PROVE  \E u \in Thread : c \in batch'[u] /\ (pc'[u] = "done" => ~fOk'[u])
      BY <1>8 DEF Take, NoFailureLost
    <3>1. CASE c \in B
      BY <2>3, <3>1
    <3>2. CASE c \notin B
      <4>1. PICK u \in Thread : c \in batch[u] /\ (pc[u] = "done" => ~fOk[u])
        BY <2>1, <2>2, <3>2 DEF Verdict, NoFailureLost
      <4>2. QED
        BY <2>2, <2>3, <4>1
    <3>3. QED
      BY <3>1, <3>2
  <2>7. pc'[Master] # "out"
    BY <1>0, <2>2, <2>3
  <2>8. QED
    BY <1>8, <2>4, <2>5, <2>6, <2>7 DEF Take, Verdict, VerdictIsExact
<1>9. ASSUME NEW t \in Thread, Execute(t) PROVE Verdict'
  <2>1. pc[Master] # "out" /\ pc[t] = "work"
    BY <1>9, OutHoldsNothing DEF Execute
  <2>2. \A u \in Thread :
          /\ pc'[u] = IF u = t THEN "done" ELSE pc[u]
          /\ fOk'[u] = IF u = t THEN fOk[t] /\ batch[t] \cap Bad = {} ELSE fOk[u]
    BY <1>9 DEF Execute
  <2>3. UNCHANGED <<queue, fAllOk, batch, added>>
    BY <1>9 DEF Execute
  <2>4. batch[t] \subseteq added
    BY DEF Verdict, Outstanding
  <2>5. NoFalseAlarm'
    BY <2>1, <2>2, <2>3, <2>4 DEF NoFalseAlarm, Verdict
  <2>6. NoFailureLost'
    <3> SUFFICES ASSUME NEW c \in added \cap Bad, fAllOk, c \notin queue
                 PROVE  \E u \in Thread : c \in batch[u] /\ (pc'[u] = "done" => ~fOk'[u])
      BY <2>3 DEF NoFailureLost
    <3>1. PICK u \in Thread : c \in batch[u] /\ (pc[u] = "done" => ~fOk[u])
      BY <2>1 DEF Verdict, NoFailureLost
    <3>2. QED
      BY <2>2, <3>1
  <2>7. pc'[Master] # "out"
    BY <1>0, <2>1, <2>2
  <2>8. QED
    BY <2>3, <2>5, <2>6, <2>7 DEF Verdict, VerdictIsExact, Outstanding
<1>10. ASSUME NEW t \in Thread, FirstIteration(t) \/ Resume(t) \/ Idle(t) \/ SpuriousWake(t) PROVE Verdict'
  BY <1>6, <1>10 DEF FirstIteration, Resume, Idle, SpuriousWake, PC
<1>11. ASSUME NEW w \in Worker, Interrupt(w) PROVE Verdict'
  BY <1>0, <1>6, <1>11 DEF Interrupt, PC
<1>12. QED
  BY <1>1, <1>2, <1>3, <1>4, <1>5, <1>7, <1>8, <1>9, <1>10, <1>11 DEF QueueNext, ThreadStep

-----------------------------------------------------------------------------
(* The inductive invariant holds throughout. *)
LEMMA QueueInvariance == QueueSpec => []QueueInv
<1>1. QueueInv /\ [QueueNext]_queueVars => QueueInv'
  BY ShapeStep, CountersStep, HoldingStep, TodoStep, VerdictStep DEF QueueInv
<1>2. QED
  BY <1>1, QueueInitInv, PTL DEF QueueSpec

(* No counter of the pool is ever negative, whatever threads are interrupted. *)
THEOREM TypeCorrect == QueueSpec => []TypeOK
BY QueueInvariance, CountersAreNat, PTL

(* Wait reports a failure exactly when a check of the block failed, and     *)
(* leaves no check behind: the script checks of ConnectBlock are complete   *)
(* before the block is accepted.                                            *)
THEOREM VerdictCorrect == QueueSpec => []VerdictIsExact
<1>1. QueueInv => VerdictIsExact
  BY DEF QueueInv, Verdict
<1>2. QED
  BY <1>1, QueueInvariance, PTL

(* nTodo counts the checks queued or in batches, each held once. *)
THEOREM TodoCorrect == QueueSpec => []TodoIsOutstanding
<1>1. QueueInv => TodoIsOutstanding
  BY DEF QueueInv
<1>2. QED
  BY <1>1, QueueInvariance, PTL

(* Between blocks, for a reader that holds the mutex, the queue is unused. *)
THEOREM UnusedCorrect == QueueSpec => []UnusedBetweenBlocks
<1>1. ASSUME QueueInv, pc[Master] = "out", MutexFree PROVE nTotal = nIdle /\ nTodo = 0 /\ fAllOk
  <2>1. queue = {} /\ fAllOk /\ \A t \in Thread : batch[t] = {} /\ pc[t] \notin {"work", "done"}
    BY <1>1, OutHoldsNothing
  <2>2. LoopThreads = IdleThreads
    BY <1>1, <2>1 DEF LoopThreads, IdleThreads, MutexFree
  <2>3. Outstanding = {}
    BY <2>1 DEF Outstanding
  <2>4. QED
    BY <1>1, <2>1, <2>2, <2>3, FS_EmptySet DEF QueueInv, Counters, TodoIsOutstanding
<1>2. QED
  BY <1>1, QueueInvariance, PTL DEF UnusedBetweenBlocks

-----------------------------------------------------------------------------
(* The keys of the wallet *)

IsBounded(S) == S \subseteq Nat /\ \E n \in Nat : \A i \in S : i <= n

Secrets(f) == f.key \cup f.ckey

(* A file whose keys are among the first gen, with what was given of them. *)
FileInv(f, gen, giv) ==
    /\ f = [key |-> f.key, ckey |-> f.ckey, mkey |-> f.mkey, pool |-> f.pool]
    /\ gen \in Key /\ Secrets(f) \subseteq 0..gen /\ BroadCastKey \in Secrets(f)
    /\ f.key = {} \/ f.ckey = {}
    /\ f.mkey \in BOOLEAN /\ (f.ckey # {} <=> f.mkey)
    /\ IsBounded(DOMAIN f.pool)
    /\ \A i \in DOMAIN f.pool : f.pool[i] \in Secrets(f)
    /\ giv \in [Key -> 0..2]
    /\ \A k \in Key : giv[k] > 0 => k \in Secrets(f)

(* With a pool of one key at least, and while the file is not encrypted, *)
IsPlain(f) == nKeyPool > 0 /\ f.ckey = {}

(* no key is in it twice or was given before. *)
PlainInv(f, giv) ==
    IsPlain(f) =>
        /\ DOMAIN f.pool # {}
        /\ \A i, j \in DOMAIN f.pool : f.pool[i] = f.pool[j] => i = j
        /\ \A i \in DOMAIN f.pool : giv[f.pool[i]] = 0
        /\ \A k \in Key : giv[k] <= 1

LastIsFree(free, f) == \A i \in DOMAIN f.pool : \E j \in free : i <= j

(* The indices that are free or reserved, over a file *)
FreeInv(free, f, res) ==
    /\ IsBounded(free)
    /\ res \in [Holder -> [nIndex : Nat \cup {None}, key : Key]]
    /\ \A h \in Holder : res[h].nIndex # None => res[h].key \in Secrets(f)
    /\ IsPlain(f) =>
        /\ free \subseteq DOMAIN f.pool
        /\ LastIsFree(free, f)
        /\ \A h \in Holder : res[h].nIndex # None =>
              /\ res[h].nIndex \notin free
              /\ res[h].nIndex \in DOMAIN f.pool
              /\ f.pool[res[h].nIndex] = res[h].key
              /\ \A k \in Holder \ {h} : res[k].nIndex # res[h].nIndex

(* What memory has of the file; encryption starts in memory. *)
MemInv ==
    /\ up \in BOOLEAN /\ fUseCrypto \in BOOLEAN /\ vMasterKey \in BOOLEAN /\ encrypting \in BOOLEAN
    /\ up /\ ~encrypting =>
        /\ mapKeys = file.key /\ mapCryptedKeys = file.ckey
        /\ fUseCrypto <=> file.ckey # {}
    /\ encrypting =>
        /\ up /\ fUseCrypto
        /\ mapKeys = {} /\ mapCryptedKeys = file.key /\ file.ckey = {}
    /\ ~up => /\ setKeyPool = {} /\ mapKeys = {} /\ mapCryptedKeys = {}
              /\ reserved = [h \in Holder |-> Nobody]

KInv ==
    /\ FileInv(file, nGenerated, given) /\ PlainInv(file, given)
    /\ up => FreeInv(setKeyPool, file, reserved)
    /\ MemInv

USE KeyPoolAssumption DEF IsPlain

-----------------------------------------------------------------------------
(* Sets of indices *)

(* The oldest key of a pool that is not empty, *)
LEMMA OldestIsFirst ==
    ASSUME NEW S \in SUBSET Nat, S # {}
    PROVE  Oldest(S) \in S /\ \A j \in S : Oldest(S) <= j
<1>1. \E n \in S : \A k \in S : n <= k
  BY LeastNumber
<1>2. QED
  BY <1>1 DEF Oldest

(* and its newest. *)
LEMMA NewestIsLast ==
    ASSUME NEW S, IsBounded(S), S # {}
    PROVE  Newest(S) \in S /\ \A j \in S : j <= Newest(S)
<1> DEFINE Above == {n \in Nat : \A i \in S : i <= n}
<1>1. Above # {} /\ Above \subseteq Nat
  BY DEF IsBounded
<1>2. PICK n \in Above : \A m \in Above : n <= m
  BY <1>1, OldestIsFirst
<1>3. n \in S
  <2>1. SUFFICES ASSUME n \notin S PROVE FALSE
    OBVIOUS
  <2>2. PICK i \in S : i \in Nat
    BY DEF IsBounded
  <2>3. \A j \in S : j \in Nat /\ j < n
    BY <2>1 DEF IsBounded
  <2>4. n - 1 \in Above
    BY <2>2, <2>3
  <2>5. QED
    BY <1>2, <2>4
<1>4. \A j \in S : n >= j /\ j \in Nat
  BY DEF IsBounded
<1>5. QED
  BY <1>3, <1>4 DEF Newest

(* Bounded sets of indices are finite, *)
LEMMA BoundedIsFinite ==
    ASSUME NEW S, IsBounded(S)
    PROVE  IsFiniteSet(S) /\ Cardinality(S) \in Nat
<1>1. PICK n \in Nat : \A i \in S : i <= n
  BY DEF IsBounded
<1>2. IsFiniteSet(S)
  BY <1>1, FS_BoundedSetOfNaturals DEF IsBounded
<1>3. QED
  BY <1>2, FS_CardinalityType

(* and so are their parts *)
LEMMA SubsetIsBounded ==
    ASSUME NEW S, IsBounded(S), NEW T \in SUBSET S
    PROVE  IsBounded(T)
BY DEF IsBounded

(* and their unions with an interval. *)
LEMMA UnionIsBounded ==
    ASSUME NEW S, IsBounded(S), NEW a \in Nat, NEW b \in Int
    PROVE  IsBounded(S \cup (a .. b))
<1>1. PICK n \in Nat : \A i \in S : i <= n
  BY DEF IsBounded
<1>2. PICK m \in Nat : n <= m /\ b <= m
  <2>1. CASE b <= n
    BY <2>1
  <2>2. CASE ~(b <= n)
    <3>1. b \in Nat
      BY <2>2
    <3>2. QED
      BY <2>2, <3>1
  <2>3. QED
    BY <2>1, <2>2
<1>3. \A i \in S \cup (a .. b) : i \in Nat /\ i <= m
  BY <1>1, <1>2 DEF IsBounded
<1>4. QED
  BY <1>3 DEF IsBounded

-----------------------------------------------------------------------------
(* Filling the pool *)

NewIn(n, half) == nGenerated + 1 .. nGenerated + n + (IF half THEN 1 ELSE 0)
Places(n) == nEnd .. nEnd + n - 1

(* What Filled does to each part of the file *)
LEMMA FilledParts ==
    ASSUME FileInv(file, nGenerated, given), NEW n \in Nat, NEW half \in BOOLEAN
    PROVE  LET f == Filled(n, half) IN
           /\ f = [key |-> f.key, ckey |-> f.ckey, mkey |-> f.mkey, pool |-> f.pool]
           /\ f.mkey = file.mkey
           /\ fUseCrypto => f.key = file.key /\ f.ckey = file.ckey \cup NewIn(n, half)
           /\ ~fUseCrypto => f.key = file.key \cup NewIn(n, half) /\ f.ckey = file.ckey
           /\ f.pool = [i \in DOMAIN file.pool \cup Places(n) |->
                           IF i \in Places(n) THEN nGenerated + 1 + i - nEnd ELSE file.pool[i]]
<1>1. file = [key |-> file.key, ckey |-> file.ckey, mkey |-> file.mkey, pool |-> file.pool]
  BY DEF FileInv
<1> DEFINE r == RecordedKeys(NewIn(n, half))
<1>2. /\ r = [key |-> r.key, ckey |-> r.ckey, mkey |-> r.mkey, pool |-> r.pool]
      /\ r.mkey = file.mkey /\ r.pool = file.pool
      /\ fUseCrypto => r.key = file.key /\ r.ckey = file.ckey \cup NewIn(n, half)
      /\ ~fUseCrypto => r.key = file.key \cup NewIn(n, half) /\ r.ckey = file.ckey
  BY <1>1 DEF RecordedKeys
<1>3. Filled(n, half) = [r EXCEPT !.pool =
          [i \in DOMAIN @ \cup Places(n) |-> IF i \in Places(n) THEN nGenerated + 1 + i - nEnd ELSE @[i]]]
  BY DEF Filled, NewIn, Places
<1> HIDE DEF r
<1>4. QED
  BY <1>2, <1>3

(* Where the pool is filled: behind what is free *)
LEMMA PlacesAreBehind ==
    ASSUME IsBounded(setKeyPool)
    PROVE  nEnd \in Nat /\ \A i \in setKeyPool : i < nEnd
<1>1. CASE setKeyPool = {}
  BY <1>1 DEF nEnd
<1>2. CASE setKeyPool # {}
  <2>1. Newest(setKeyPool) \in setKeyPool /\ \A i \in setKeyPool : i <= Newest(setKeyPool)
    BY <1>2, NewestIsLast
  <2>2. \A i \in setKeyPool : i \in Nat
    BY DEF IsBounded
  <2>3. QED
    BY <1>2, <2>1, <2>2 DEF nEnd
<1>3. QED
  BY <1>1, <1>2

(* The wallet can fill its pool up: there is a key in it. *)
CanFill ==
    /\ FileInv(file, nGenerated, given) /\ PlainInv(file, given)
    /\ FreeInv(setKeyPool, file, reserved)
    /\ fUseCrypto \in BOOLEAN /\ (fUseCrypto <=> file.ckey # {})

(* New keys in the file are new, and each has its own place. *)
LEMMA FilledInv ==
    ASSUME CanFill, NEW n \in Nat, NEW half \in BOOLEAN, NEW gen,
           gen = nGenerated + n + (IF half THEN 1 ELSE 0), gen \in Key
    PROVE  /\ FileInv(Filled(n, half), gen, given) /\ PlainInv(Filled(n, half), given)
           /\ Secrets(Filled(n, half)) = Secrets(file) \cup NewIn(n, half)
           /\ IsPlain(Filled(n, half)) => \A i \in DOMAIN file.pool : i \notin Places(n)
<1> DEFINE f == Filled(n, half)
           new == NewIn(n, half)
           places == Places(n)
<1>a. /\ FileInv(file, nGenerated, given) /\ PlainInv(file, given)
      /\ IsBounded(setKeyPool) /\ (IsPlain(file) => LastIsFree(setKeyPool, file))
      /\ fUseCrypto \in BOOLEAN /\ (fUseCrypto <=> file.ckey # {})
  BY DEF CanFill, FreeInv
<1>b. /\ nGenerated \in Nat /\ gen \in Nat /\ gen <= MaxKeys
      /\ Secrets(file) \subseteq 0..nGenerated /\ BroadCastKey \in Secrets(file)
      /\ file.key = {} \/ file.ckey = {}
      /\ file.mkey \in BOOLEAN /\ (file.ckey # {} <=> file.mkey)
      /\ IsBounded(DOMAIN file.pool)
      /\ \A i \in DOMAIN file.pool : file.pool[i] \in Secrets(file)
      /\ given \in [Key -> 0..2]
      /\ \A k \in Key : given[k] > 0 => k \in Secrets(file)
  BY <1>a DEF FileInv, Key
<1>c. nEnd \in Nat /\ \A i \in setKeyPool : i < nEnd
  BY <1>a, PlacesAreBehind
<1>d. new \subseteq 0..gen /\ \A k \in new : k \notin Secrets(file) /\ k \in Key /\ given[k] = 0
  <2>1. gen = IF half THEN nGenerated + n + 1 ELSE nGenerated + n
    BY <1>b
  <2>2. new = nGenerated + 1 .. gen
    BY <1>b, <2>1 DEF NewIn
  <2>3. \A k \in new : k \in Nat /\ nGenerated < k /\ k <= gen
    BY <1>b, <2>2
  <2>4. \A k \in new : k \notin Secrets(file) /\ k \in Key
    BY <1>b, <2>3 DEF Key
  <2>5. \A k \in new : given[k] \in 0..2 /\ ~(given[k] > 0)
    BY <1>b, <2>4
  <2>6. QED
    BY <1>b, <2>3, <2>4, <2>5
<1>e. \A i \in places : i \in Nat /\ nEnd <= i /\ nGenerated + 1 + i - nEnd \in new
  BY <1>b, <1>c DEF Places, NewIn
<1>1. /\ f = [key |-> f.key, ckey |-> f.ckey, mkey |-> f.mkey, pool |-> f.pool]
      /\ f.mkey = file.mkey
      /\ fUseCrypto => f.key = file.key /\ f.ckey = file.ckey \cup new
      /\ ~fUseCrypto => f.key = file.key \cup new /\ f.ckey = file.ckey
      /\ f.pool = [i \in DOMAIN file.pool \cup places |->
                      IF i \in places THEN nGenerated + 1 + i - nEnd ELSE file.pool[i]]
  BY <1>a, FilledParts
<1> HIDE DEF f, new
<1>2. Secrets(f) = Secrets(file) \cup new
  BY <1>1, <1>a DEF Secrets
<1>3. /\ f.key = {} \/ f.ckey = {}
      /\ f.ckey # {} <=> f.mkey
      /\ f.ckey = {} <=> file.ckey = {}
  BY <1>1, <1>a, <1>b
<1>4. IsBounded(DOMAIN f.pool)
  <2>1. DOMAIN f.pool = DOMAIN file.pool \cup (nEnd .. nEnd + n - 1)
    BY <1>1 DEF Places
  <2>2. nEnd + n - 1 \in Int
    BY <1>c
  <2>3. IsBounded(DOMAIN file.pool \cup (nEnd .. nEnd + n - 1))
    BY <1>b, <1>c, <2>2, UnionIsBounded
  <2>4. QED
    BY <2>1, <2>3
<1> HIDE DEF places
<1>5. \A i \in DOMAIN f.pool : f.pool[i] \in Secrets(f)
  BY <1>1, <1>2, <1>b, <1>e
<1>6. FileInv(f, gen, given)
  <2>1. nGenerated <= gen
    BY <1>b
  <2>2. Secrets(file) \subseteq 0..gen
    BY <1>b, <2>1
  <2>3. Secrets(f) \subseteq 0..gen
    BY <1>d, <1>2, <2>2
  <2>4. QED
    BY <1>1, <1>2, <1>3, <1>4, <1>5, <1>b, <2>3 DEF FileInv
<1>7. ASSUME IsPlain(f) PROVE \A i \in DOMAIN file.pool : i \notin places
  <2>1. LastIsFree(setKeyPool, file)
    BY <1>a, <1>3, <1>7
  <2>2. \A i \in DOMAIN file.pool : \E j \in setKeyPool : i <= j
    BY <2>1 DEF LastIsFree
  <2>3. \A i \in DOMAIN file.pool \cup setKeyPool : i \in Nat
    BY <1>a, <1>b DEF IsBounded
  <2>4. \A i \in DOMAIN file.pool : i < nEnd
    BY <1>c, <2>2, <2>3
  <2>5. QED
    BY <1>c, <1>e, <2>3, <2>4
<1>8. PlainInv(f, given)
  <2>1. SUFFICES ASSUME IsPlain(f)
                 PROVE  /\ DOMAIN f.pool # {}
                        /\ \A i, j \in DOMAIN f.pool : f.pool[i] = f.pool[j] => i = j
                        /\ \A i \in DOMAIN f.pool : given[f.pool[i]] = 0
                        /\ \A k \in Key : given[k] <= 1
    BY DEF PlainInv
  <2>2. /\ DOMAIN file.pool # {}
        /\ \A i, j \in DOMAIN file.pool : file.pool[i] = file.pool[j] => i = j
        /\ \A i \in DOMAIN file.pool : given[file.pool[i]] = 0
        /\ \A k \in Key : given[k] <= 1
    BY <1>a, <1>3, <2>1 DEF PlainInv
  <2>3. \A i \in places : f.pool[i] = nGenerated + 1 + i - nEnd /\ f.pool[i] \in new
    BY <1>1, <1>e
  <2>4. \A i \in DOMAIN file.pool : i \notin places /\ f.pool[i] = file.pool[i] /\ f.pool[i] \notin new
    BY <1>1, <1>7, <1>b, <1>d, <2>1
  <2>5. DOMAIN f.pool = DOMAIN file.pool \cup places
    BY <1>1
  <2>6. \A i, j \in places : f.pool[i] = f.pool[j] => i = j
    BY <2>3, <1>b, <1>c, <1>e
  <2>7. \A i, j \in DOMAIN f.pool : f.pool[i] = f.pool[j] => i = j
    BY <2>2, <2>3, <2>4, <2>5, <2>6
  <2>8. \A i \in DOMAIN f.pool : given[f.pool[i]] = 0
    BY <1>d, <2>2, <2>3, <2>4, <2>5
  <2>9. QED
    BY <2>2, <2>5, <2>7, <2>8
<1>9. QED
  BY <1>2, <1>6, <1>7, <1>8 DEF f, new, places

(* The keys that are free or reserved stay so when the pool is filled. *)
LEMMA FilledFree ==
    ASSUME CanFill, NEW n \in Nat, nGenerated + n \in Key
    PROVE  FreeInv(setKeyPool \cup Places(n), Filled(n, FALSE), reserved)
<1> DEFINE f == Filled(n, FALSE)
           places == Places(n)
<1>a. /\ FileInv(file, nGenerated, given) /\ FreeInv(setKeyPool, file, reserved)
      /\ fUseCrypto \in BOOLEAN /\ (fUseCrypto <=> file.ckey # {})
      /\ IsBounded(setKeyPool)
  BY DEF CanFill, FreeInv
<1>b. /\ nGenerated \in Nat /\ nGenerated + n = nGenerated + n + (IF FALSE THEN 1 ELSE 0)
      /\ \A i \in DOMAIN file.pool : i \in Nat
  BY <1>a DEF FileInv, Key, IsBounded
<1>c. nEnd \in Nat /\ \A i \in setKeyPool : i < nEnd
  BY <1>a, PlacesAreBehind
<1>1. /\ Secrets(f) = Secrets(file) \cup NewIn(n, FALSE)
      /\ IsPlain(f) => \A i \in DOMAIN file.pool : i \notin places
  <2>1. FALSE \in BOOLEAN
    OBVIOUS
  <2>2. QED
    BY <1>b, <2>1, FilledInv
<1>2. /\ IsPlain(f) => IsPlain(file)
      /\ f.pool = [i \in DOMAIN file.pool \cup places |->
                      IF i \in places THEN nGenerated + 1 + i - nEnd ELSE file.pool[i]]
  <2>1. FALSE \in BOOLEAN
    OBVIOUS
  <2>2. /\ fUseCrypto => f.ckey = file.ckey \cup NewIn(n, FALSE)
        /\ ~fUseCrypto => f.ckey = file.ckey
        /\ f.pool = [i \in DOMAIN file.pool \cup places |->
                      IF i \in places THEN nGenerated + 1 + i - nEnd ELSE file.pool[i]]
    BY <1>a, <2>1, FilledParts
  <2>3. QED
    BY <1>a, <2>2
<1>3. IsBounded(setKeyPool \cup places)
  <2>1. nEnd + n - 1 \in Int
    BY <1>c
  <2>2. QED
    BY <1>a, <1>c, <2>1, UnionIsBounded DEF Places
<1>e. \A i \in places : i \in Nat /\ nEnd <= i
  BY <1>c DEF Places
<1> HIDE DEF f, places
<1>4. ASSUME IsPlain(f)
      PROVE  /\ setKeyPool \cup places \subseteq DOMAIN f.pool
             /\ LastIsFree(setKeyPool \cup places, f)
             /\ \A h \in Holder : reserved[h].nIndex # None =>
                   /\ reserved[h].nIndex \notin setKeyPool \cup places
                   /\ reserved[h].nIndex \in DOMAIN f.pool
                   /\ f.pool[reserved[h].nIndex] = reserved[h].key
                   /\ \A k \in Holder \ {h} : reserved[k].nIndex # reserved[h].nIndex
  <2>1. /\ setKeyPool \subseteq DOMAIN file.pool
        /\ LastIsFree(setKeyPool, file)
        /\ \A h \in Holder : reserved[h].nIndex # None =>
              /\ reserved[h].nIndex \notin setKeyPool
              /\ reserved[h].nIndex \in DOMAIN file.pool
              /\ file.pool[reserved[h].nIndex] = reserved[h].key
              /\ \A k \in Holder \ {h} : reserved[k].nIndex # reserved[h].nIndex
    BY <1>a, <1>2, <1>4 DEF FreeInv
  <2>2. \A i \in DOMAIN file.pool : i \notin places /\ f.pool[i] = file.pool[i]
    BY <1>1, <1>2, <1>4
  <2>3. DOMAIN f.pool = DOMAIN file.pool \cup places
    BY <1>2
  <2>4. LastIsFree(setKeyPool \cup places, f)
    BY <2>1, <2>3, <1>e DEF LastIsFree
  <2>5. QED
    BY <2>1, <2>2, <2>3, <2>4
<1>5. /\ reserved \in [Holder -> [nIndex : Nat \cup {None}, key : Key]]
      /\ \A h \in Holder : reserved[h].nIndex # None => reserved[h].key \in Secrets(f)
  BY <1>a, <1>1 DEF FreeInv
<1>6. FreeInv(setKeyPool \cup places, f, reserved)
  BY <1>3, <1>4, <1>5 DEF FreeInv
<1>7. QED
  BY <1>6 DEF f, places

-----------------------------------------------------------------------------
(* Taking a key *)

ReservedSet == [Holder -> [nIndex : Nat \cup {None}, key : Key]]

(* While two keys are free the last place of the pool stays free when the    *)
(* oldest is taken.                                                          *)
LEMMA LastStaysFree ==
    ASSUME NEW free, NEW f, IsBounded(free), IsBounded(DOMAIN f.pool), LastIsFree(free, f),
           NEW j \in free, j # Oldest(free)
    PROVE  Oldest(free) \in free /\ LastIsFree(free \ {Oldest(free)}, f)
<1>1. free \in SUBSET Nat /\ free # {} /\ DOMAIN f.pool \subseteq Nat
  BY DEF IsBounded
<1>2. Oldest(free) \in free /\ \A i \in free : Oldest(free) <= i
  BY <1>1, OldestIsFirst
<1>3. ASSUME NEW i \in DOMAIN f.pool PROVE \E k \in free \ {Oldest(free)} : i <= k
  <2>1. PICK k \in free : i <= k
    BY DEF LastIsFree
  <2>2. i \in Nat /\ k \in Nat /\ j \in Nat /\ Oldest(free) <= j
    BY <1>1, <1>2
  <2>3. CASE k # Oldest(free)
    BY <2>1, <2>3
  <2>4. CASE k = Oldest(free)
    <3>1. i <= j
      BY <2>1, <2>2, <2>4
    <3>2. QED
      BY <3>1
  <2>5. QED
    BY <2>3, <2>4
<1>4. QED
  BY <1>2, <1>3 DEF LastIsFree

(* A key that is reserved is on the file, and nobody else's. *)
LEMMA ReserveInv ==
    ASSUME NEW free, NEW f, NEW res, NEW gen, NEW giv, FileInv(f, gen, giv), FreeInv(free, f, res),
           NEW h \in Holder, free # {}, Oldest(free) \in DOMAIN f.pool,
           IsPlain(f) => \E j \in free : j # Oldest(free)
    PROVE  FreeInv(free \ {Oldest(free)}, f,
                   [res EXCEPT ![h] = [nIndex |-> Oldest(free), key |-> f.pool[Oldest(free)]]])
<1> DEFINE t == Oldest(free)
           r == [res EXCEPT ![h] = [nIndex |-> t, key |-> f.pool[t]]]
<1>1. /\ IsBounded(free) /\ IsBounded(DOMAIN f.pool) /\ free \in SUBSET Nat
      /\ \A i \in DOMAIN f.pool : f.pool[i] \in Secrets(f)
      /\ Secrets(f) \subseteq Key
      /\ res \in ReservedSet
      /\ \A k \in Holder : res[k].nIndex # None => res[k].key \in Secrets(f)
  BY DEF FileInv, FreeInv, IsBounded, ReservedSet, Key
<1>2. t \in free /\ t \in Nat
  BY <1>1, OldestIsFirst
<1>3. IsBounded(free \ {t})
  BY <1>1, SubsetIsBounded
<1> HIDE DEF t
<1>4. f.pool[t] \in Secrets(f) /\ f.pool[t] \in Key
  BY <1>1 DEF t
<1>5. /\ r \in ReservedSet
      /\ r[h].nIndex = t /\ r[h].key = f.pool[t]
      /\ \A k \in Holder \ {h} : r[k] = res[k]
  BY <1>1, <1>2, <1>4 DEF ReservedSet
<1> HIDE DEF r
<1>6. \A k \in Holder : r[k].nIndex # None => r[k].key \in Secrets(f)
  BY <1>1, <1>4, <1>5
<1>7. ASSUME IsPlain(f)
      PROVE  /\ free \ {t} \subseteq DOMAIN f.pool
             /\ LastIsFree(free \ {t}, f)
             /\ \A k \in Holder : r[k].nIndex # None =>
                   /\ r[k].nIndex \notin free \ {t}
                   /\ r[k].nIndex \in DOMAIN f.pool
                   /\ f.pool[r[k].nIndex] = r[k].key
                   /\ \A l \in Holder \ {k} : r[l].nIndex # r[k].nIndex
  <2>1. /\ free \subseteq DOMAIN f.pool
        /\ LastIsFree(free, f)
        /\ \A k \in Holder : res[k].nIndex # None =>
              /\ res[k].nIndex \notin free
              /\ res[k].nIndex \in DOMAIN f.pool
              /\ f.pool[res[k].nIndex] = res[k].key
              /\ \A l \in Holder \ {k} : res[l].nIndex # res[k].nIndex
    BY <1>7 DEF FreeInv
  <2>2. PICK j \in free : j # t
    BY <1>7 DEF t
  <2>3. LastIsFree(free \ {t}, f)
    BY <1>1, <2>1, <2>2, LastStaysFree DEF t
  <2>4. t # None
    BY <1>2
  <2>5. \A k \in Holder \ {h} : res[k].nIndex # t
    BY <1>2, <2>1, <2>4
  <2>6. QED
    BY <1>2, <1>5, <2>1, <2>3, <2>5
<1>8. QED
  BY <1>3, <1>5, <1>6, <1>7 DEF FreeInv, ReservedSet, t, r

OnceMore(giv, k) == [giv EXCEPT ![k] = IF @ < 2 THEN @ + 1 ELSE @]

(* A key that is given leaves the pool on the file, and was in it once. *)
LEMMA EraseInv ==
    ASSUME NEW f, NEW gen, NEW giv, FileInv(f, gen, giv), PlainInv(f, giv),
           NEW i, NEW k \in Secrets(f),
           IsPlain(f) => i \in DOMAIN f.pool /\ f.pool[i] = k /\ DOMAIN f.pool \ {i} # {}
    PROVE  /\ FileInv([f EXCEPT !.pool = Without(@, i)], gen, OnceMore(giv, k))
           /\ PlainInv([f EXCEPT !.pool = Without(@, i)], OnceMore(giv, k))
<1> DEFINE g == [f EXCEPT !.pool = Without(@, i)]
           given2 == OnceMore(giv, k)
<1>1. /\ f = [key |-> f.key, ckey |-> f.ckey, mkey |-> f.mkey, pool |-> f.pool]
      /\ gen \in Key /\ Secrets(f) \subseteq 0..gen /\ BroadCastKey \in Secrets(f)
      /\ f.key = {} \/ f.ckey = {}
      /\ f.mkey \in BOOLEAN /\ (f.ckey # {} <=> f.mkey)
      /\ IsBounded(DOMAIN f.pool)
      /\ \A j \in DOMAIN f.pool : f.pool[j] \in Secrets(f)
      /\ giv \in [Key -> 0..2]
      /\ \A l \in Key : giv[l] > 0 => l \in Secrets(f)
  BY DEF FileInv
<1>2. /\ g = [key |-> g.key, ckey |-> g.ckey, mkey |-> g.mkey, pool |-> g.pool]
      /\ g.key = f.key /\ g.ckey = f.ckey /\ g.mkey = f.mkey
      /\ g.pool = [j \in DOMAIN f.pool \ {i} |-> f.pool[j]]
  BY <1>1 DEF Without
<1> HIDE DEF g
<1>3. Secrets(g) = Secrets(f) /\ k \in Key
  BY <1>1, <1>2 DEF Secrets, Key
<1>4. /\ DOMAIN g.pool = DOMAIN f.pool \ {i}
      /\ \A j \in DOMAIN g.pool : g.pool[j] = f.pool[j]
  BY <1>2
<1>5. IsBounded(DOMAIN g.pool)
  BY <1>1, <1>4, SubsetIsBounded
<1>6. /\ given2 \in [Key -> 0..2]
      /\ given2[k] = IF giv[k] < 2 THEN giv[k] + 1 ELSE giv[k]
      /\ \A l \in Key \ {k} : given2[l] = giv[l]
  BY <1>1, <1>3 DEF OnceMore
<1> HIDE DEF given2
<1>7. \A l \in Key : given2[l] > 0 => l \in Secrets(g)
  BY <1>1, <1>3, <1>6
<1>8. FileInv(g, gen, given2)
  BY <1>1, <1>2, <1>3, <1>4, <1>5, <1>6, <1>7 DEF FileInv
<1>9. PlainInv(g, given2)
  <2>1. SUFFICES ASSUME IsPlain(g)
                 PROVE  /\ DOMAIN g.pool # {}
                        /\ \A j, l \in DOMAIN g.pool : g.pool[j] = g.pool[l] => j = l
                        /\ \A j \in DOMAIN g.pool : given2[g.pool[j]] = 0
                        /\ \A l \in Key : given2[l] <= 1
    BY DEF PlainInv
  <2>2. /\ \A j, l \in DOMAIN f.pool : f.pool[j] = f.pool[l] => j = l
        /\ \A j \in DOMAIN f.pool : giv[f.pool[j]] = 0
        /\ \A l \in Key : giv[l] <= 1
        /\ i \in DOMAIN f.pool /\ f.pool[i] = k /\ DOMAIN f.pool \ {i} # {}
    BY <1>2, <2>1 DEF PlainInv
  <2>3. \A j \in DOMAIN g.pool : f.pool[j] \in Key \ {k}
    BY <1>1, <1>4, <2>2 DEF Key
  <2>4. \A l \in Key : given2[l] <= 1
    BY <1>3, <1>6, <2>2
  <2>5. QED
    BY <1>4, <1>6, <2>2, <2>3, <2>4
<1>10. QED
  BY <1>8, <1>9 DEF g, given2

(* The others keep theirs. *)
LEMMA EraseFree ==
    ASSUME NEW f, NEW free, NEW res, FreeInv(free, f, res),
           f = [key |-> f.key, ckey |-> f.ckey, mkey |-> f.mkey, pool |-> f.pool],
           NEW i, NEW left \in SUBSET free, NEW r \in ReservedSet,
           \A h \in Holder : r[h] = res[h] \/ r[h].nIndex = None,
           IsPlain(f) => /\ LastIsFree(left, f) /\ i \notin left
                          /\ \A h \in Holder : r[h].nIndex # None => r[h].nIndex # i
    PROVE  FreeInv(left, [f EXCEPT !.pool = Without(@, i)], r)
<1> DEFINE g == [f EXCEPT !.pool = Without(@, i)]
<1>1. /\ g.key = f.key /\ g.ckey = f.ckey
      /\ DOMAIN g.pool = DOMAIN f.pool \ {i}
      /\ \A j \in DOMAIN g.pool : g.pool[j] = f.pool[j]
  BY DEF Without
<1> HIDE DEF g
<1>2. Secrets(g) = Secrets(f) /\ IsBounded(left)
  BY <1>1, SubsetIsBounded DEF Secrets, FreeInv
<1>3. \A h \in Holder : r[h].nIndex # None => r[h].key \in Secrets(g)
  BY <1>2 DEF FreeInv
<1>4. ASSUME IsPlain(g)
      PROVE  /\ left \subseteq DOMAIN g.pool
             /\ LastIsFree(left, g)
             /\ \A h \in Holder : r[h].nIndex # None =>
                   /\ r[h].nIndex \notin left
                   /\ r[h].nIndex \in DOMAIN g.pool
                   /\ g.pool[r[h].nIndex] = r[h].key
                   /\ \A k \in Holder \ {h} : r[k].nIndex # r[h].nIndex
  <2>1. /\ free \subseteq DOMAIN f.pool
        /\ \A h \in Holder : res[h].nIndex # None =>
              /\ res[h].nIndex \notin free
              /\ res[h].nIndex \in DOMAIN f.pool
              /\ f.pool[res[h].nIndex] = res[h].key
              /\ \A k \in Holder \ {h} : res[k].nIndex # res[h].nIndex
    BY <1>1, <1>4 DEF FreeInv
  <2>2. LastIsFree(left, g) /\ i \notin left
    BY <1>1, <1>4 DEF LastIsFree
  <2>3. \A h \in Holder : r[h].nIndex # None => r[h] = res[h] /\ r[h].nIndex # i
    BY <1>1, <1>4
  <2>4. \A h \in Holder : \A k \in Holder \ {h} : r[h].nIndex # None => r[k].nIndex # r[h].nIndex
    BY <2>1, <2>3
  <2>5. QED
    BY <1>1, <2>1, <2>2, <2>3, <2>4
<1>5. QED
  BY <1>2, <1>3, <1>4 DEF FreeInv, ReservedSet, g

-----------------------------------------------------------------------------
(* An operation that may fill the pool up first *)

Ready(size) == WalletLockFree /\ KInv /\ (IsLocked \/ CanTopUp(size))

(* What is known before it starts *)
LEMMA ReadyParts ==
    ASSUME NEW size \in Nat, Ready(size)
    PROVE  /\ up /\ ~encrypting /\ CanFill
           /\ mapKeys = file.key /\ mapCryptedKeys = file.ckey
           /\ nGenerated \in Nat
           /\ IsBounded(setKeyPool) /\ Cardinality(setKeyPool) \in Nat /\ nMissing(size) \in Nat
           /\ IsLocked => file.ckey # {}
           /\ ~IsLocked => setKeyPool # {} /\ nGenerated + nMissing(size) \in Key
<1>1. /\ up /\ ~encrypting /\ FileInv(file, nGenerated, given) /\ PlainInv(file, given)
      /\ FreeInv(setKeyPool, file, reserved)
      /\ fUseCrypto \in BOOLEAN /\ (fUseCrypto <=> file.ckey # {})
      /\ mapKeys = file.key /\ mapCryptedKeys = file.ckey
  BY DEF Ready, WalletLockFree, KInv, MemInv
<1>2. IsBounded(setKeyPool) /\ nGenerated \in Nat /\ BroadCastKey \in Secrets(file)
  BY <1>1 DEF FreeInv, FileInv, Key
<1>3. Cardinality(setKeyPool) \in Nat
  BY <1>2, BoundedIsFinite
<1>4. nMissing(size) \in Nat
  BY <1>3 DEF nMissing, nTarget
<1>5. ~IsLocked => setKeyPool # {} /\ nGenerated + nMissing(size) \in Key
  <2>1. ~IsLocked => CanTopUp(size)
    BY DEF Ready
  <2>2. CanTopUp(size) => setKeyPool # {}
    BY <1>2 DEF CanTopUp, TopUpFails, BroadCastKeyFails, Secrets
  <2>3. CanTopUp(size) => nGenerated + nMissing(size) <= MaxKeys
    BY DEF CanTopUp
  <2>4. QED
    BY <1>2, <1>4, <2>1, <2>2, <2>3 DEF Key
<1>6. IsLocked => file.ckey # {}
  BY <1>1 DEF IsLocked
<1>7. QED
  BY <1>1, <1>2, <1>3, <1>4, <1>5, <1>6 DEF CanFill

(* What it finds is as good as what was there, *)
LEMMA AfterTopUp ==
    ASSUME NEW size \in Nat, Ready(size)
    PROVE  /\ FileInv(FileAfter(size), GeneratedAfter(size), given) /\ PlainInv(FileAfter(size), given)
           /\ FreeInv(FreeAfter(size), FileAfter(size), reserved)
<1>1. CASE IsLocked
  BY <1>1, ReadyParts DEF FileAfter, FreeAfter, GeneratedAfter, CanFill
<1>2. CASE ~IsLocked
  <2>1. CanFill /\ nMissing(size) \in Nat /\ nGenerated \in Nat /\ nGenerated + nMissing(size) \in Key /\ FALSE \in BOOLEAN
    BY <1>2, ReadyParts
  <2>2. nGenerated + nMissing(size) = nGenerated + nMissing(size) + (IF FALSE THEN 1 ELSE 0)
    BY <2>1
  <2>3. FreeInv(setKeyPool \cup Places(nMissing(size)), Filled(nMissing(size), FALSE), reserved)
    BY <2>1, FilledFree
  <2>4. /\ FileInv(Filled(nMissing(size), FALSE), nGenerated + nMissing(size), given)
        /\ PlainInv(Filled(nMissing(size), FALSE), given)
    BY <2>1, <2>2, FilledInv
  <2>5. /\ FileAfter(size) = Filled(nMissing(size), FALSE) /\ GeneratedAfter(size) = nGenerated + nMissing(size)
        /\ FreeAfter(size) = setKeyPool \cup Places(nMissing(size))
    BY <1>2 DEF FileAfter, GeneratedAfter, FreeAfter, Places
  <2>6. QED
    BY <2>3, <2>4, <2>5
<1>3. QED
  BY <1>1, <1>2

(* memory knows the new keys, *)
LEMMA MemoryAfter ==
    ASSUME NEW size \in Nat, Ready(size), Generate(size)
    PROVE  /\ nGenerated' = GeneratedAfter(size)
           /\ mapKeys' = FileAfter(size).key /\ mapCryptedKeys' = FileAfter(size).ckey
           /\ UNCHANGED <<fUseCrypto, vMasterKey>>
           /\ fUseCrypto \in BOOLEAN /\ (fUseCrypto <=> FileAfter(size).ckey # {})
<1>1. /\ CanFill /\ mapKeys = file.key /\ mapCryptedKeys = file.ckey /\ nMissing(size) \in Nat /\ nGenerated \in Nat
      /\ fUseCrypto \in BOOLEAN /\ (fUseCrypto <=> file.ckey # {})
      /\ FileInv(file, nGenerated, given)
      /\ IsLocked => file.ckey # {}
  BY ReadyParts DEF CanFill
<1>2. /\ nGenerated' = GeneratedAfter(size) /\ UNCHANGED <<fUseCrypto, vMasterKey>>
      /\ mapKeys' = IF fUseCrypto THEN mapKeys ELSE mapKeys \cup NewKeys(size)
      /\ mapCryptedKeys' = IF fUseCrypto THEN mapCryptedKeys \cup NewKeys(size) ELSE mapCryptedKeys
  BY DEF Generate
<1>3. CASE IsLocked
  <2>1. NewKeys(size) = {}
    BY <1>1, <1>3 DEF NewKeys, GeneratedAfter
  <2>2. QED
    BY <1>1, <1>2, <1>3, <2>1 DEF FileAfter
<1>4. CASE ~IsLocked
  <2>1. FALSE \in BOOLEAN
    OBVIOUS
  <2>2. /\ fUseCrypto => /\ Filled(nMissing(size), FALSE).key = file.key
                         /\ Filled(nMissing(size), FALSE).ckey = file.ckey \cup NewIn(nMissing(size), FALSE)
        /\ ~fUseCrypto => /\ Filled(nMissing(size), FALSE).key = file.key \cup NewIn(nMissing(size), FALSE)
                          /\ Filled(nMissing(size), FALSE).ckey = file.ckey
    BY <1>1, <2>1, FilledParts
  <2>3. FileAfter(size) = Filled(nMissing(size), FALSE)
    BY <1>4 DEF FileAfter
  <2>4. NewKeys(size) = NewIn(nMissing(size), FALSE)
    BY <1>1, <1>4 DEF NewKeys, NewIn, GeneratedAfter
  <2>5. QED
    BY <1>1, <1>2, <2>2, <2>3, <2>4
<1>5. QED
  BY <1>3, <1>4

(* and while the wallet is not encrypted there are two keys to take. *)
LEMMA TwoAreFree ==
    ASSUME NEW size \in Nat, Ready(size), NEW t
    PROVE  /\ IsPlain(FileAfter(size)) => \E j \in FreeAfter(size) : j # t
           /\ IsPlain(FileAfter(size)) => FreeAfter(size) \subseteq DOMAIN FileAfter(size).pool
<1>1. SUFFICES ASSUME IsPlain(FileAfter(size)) PROVE \E j \in FreeAfter(size) : j # t
  BY AfterTopUp DEF FreeInv
<1>2. /\ IsBounded(setKeyPool) /\ Cardinality(setKeyPool) \in Nat /\ nMissing(size) \in Nat
      /\ ~IsLocked => setKeyPool # {}
  BY ReadyParts
<1>3. ~IsLocked
  BY <1>1, ReadyParts DEF FileAfter
<1>4. nEnd \in Nat /\ \A i \in setKeyPool : i < nEnd /\ i \in Nat
  BY <1>2, PlacesAreBehind DEF IsBounded
<1>5. CASE nMissing(size) = 0
  <2>1. Cardinality(setKeyPool) >= 2
    <3>1. nTarget(size) \in Nat /\ nTarget(size) >= 2
      BY <1>1 DEF nTarget
    <3>2. QED
      BY <1>2, <1>5, <3>1 DEF nMissing
  <2>2. SUFFICES ASSUME \A j \in setKeyPool : j = t PROVE FALSE
    BY <1>3 DEF FreeAfter
  <2>3. setKeyPool = {t}
    BY <1>2, <1>3, <2>2
  <2>4. Cardinality({t}) = 1
    BY FS_Singleton
  <2>5. QED
    BY <2>1, <2>3, <2>4
<1>6. CASE nMissing(size) # 0
  <2>1. nEnd \in FreeAfter(size)
    BY <1>2, <1>3, <1>4, <1>6 DEF FreeAfter
  <2>2. PICK s \in setKeyPool : s # nEnd
    BY <1>2, <1>3, <1>4
  <2>3. s \in FreeAfter(size)
    BY <1>3 DEF FreeAfter
  <2>4. QED
    BY <2>1, <2>2, <2>3
<1>7. QED
  BY <1>5, <1>6

-----------------------------------------------------------------------------
(* Every step keeps the invariant *)

(* The variables that the parts of the invariant speak of, after a step that *)
(* an operation in a running process makes                                   *)
LEMMA Assembled ==
    ASSUME up' = TRUE, encrypting' = FALSE,
           FileInv(file', nGenerated', given'), PlainInv(file', given'),
           FreeInv(setKeyPool', file', reserved'),
           mapKeys' = file'.key, mapCryptedKeys' = file'.ckey,
           fUseCrypto' \in BOOLEAN, fUseCrypto' <=> file'.ckey # {}, vMasterKey' \in BOOLEAN
    PROVE  KInv'
BY DEF KInv, MemInv

(* Filling the pool, *)
LEMMA TopUpStep == ASSUME KInv, NEW size \in Nat, TopUpKeyPool(size) PROVE KInv'
<1>1. Ready(size) /\ Generate(size) /\ ~IsLocked
  BY DEF TopUpKeyPool, Ready, CanTopUp
<1>2. /\ setKeyPool' = FreeAfter(size) /\ file' = FileAfter(size)
      /\ UNCHANGED <<up, encrypting, reserved, given>>
      /\ up /\ ~encrypting /\ vMasterKey \in BOOLEAN /\ encrypting \in BOOLEAN /\ up \in BOOLEAN
  BY <1>1 DEF TopUpKeyPool, Ready, WalletLockFree, KInv, MemInv
<1>3. /\ FileInv(FileAfter(size), GeneratedAfter(size), given) /\ PlainInv(FileAfter(size), given)
      /\ FreeInv(FreeAfter(size), FileAfter(size), reserved)
  BY <1>1, AfterTopUp
<1>4. /\ nGenerated' = GeneratedAfter(size)
      /\ mapKeys' = FileAfter(size).key /\ mapCryptedKeys' = FileAfter(size).ckey
      /\ UNCHANGED <<fUseCrypto, vMasterKey>>
      /\ fUseCrypto \in BOOLEAN /\ (fUseCrypto <=> FileAfter(size).ckey # {})
  BY <1>1, MemoryAfter
<1>5. QED
  BY <1>2, <1>3, <1>4, Assembled

(* reserving a key, *)
LEMMA GetReservedStep == ASSUME KInv, NEW h \in Holder, GetReservedKey(h) PROVE KInv'
<1>1. Ready(0) /\ Generate(0) /\ FreeAfter(0) # {}
  BY DEF GetReservedKey, Ready, CanTake
<1>2. /\ file' = FileAfter(0) /\ UNCHANGED <<up, encrypting, given>>
      /\ up /\ ~encrypting /\ vMasterKey \in BOOLEAN /\ encrypting \in BOOLEAN /\ up \in BOOLEAN
  BY <1>1 DEF GetReservedKey, Ready, WalletLockFree, KInv, MemInv
<1>3. FreeInv(setKeyPool', file', reserved')
  <2>1. CASE IsReadable
    <3>1. /\ setKeyPool' = FreeAfter(0) \ {Oldest(FreeAfter(0))}
          /\ reserved' = [reserved EXCEPT ![h] =
                 [nIndex |-> Oldest(FreeAfter(0)), key |-> FileAfter(0).pool[Oldest(FreeAfter(0))]]]
          /\ Oldest(FreeAfter(0)) \in DOMAIN FileAfter(0).pool
      BY <2>1 DEF GetReservedKey, IsReadable, Taken
    <3>2. IsPlain(FileAfter(0)) => \E j \in FreeAfter(0) : j # Oldest(FreeAfter(0))
      BY <1>1, TwoAreFree
    <3>3. FileInv(FileAfter(0), GeneratedAfter(0), given) /\ FreeInv(FreeAfter(0), FileAfter(0), reserved)
      BY <1>1, AfterTopUp
    <3>4. FreeInv(FreeAfter(0) \ {Oldest(FreeAfter(0))}, FileAfter(0),
                  [reserved EXCEPT ![h] = [nIndex |-> Oldest(FreeAfter(0)), key |-> FileAfter(0).pool[Oldest(FreeAfter(0))]]])
      BY <1>1, <3>1, <3>2, <3>3, ReserveInv
    <3>5. QED
      BY <1>2, <3>1, <3>4
  <2>2. CASE ~IsReadable
    BY <1>1, <1>2, <2>2, AfterTopUp DEF GetReservedKey
  <2>3. QED
    BY <2>1, <2>2
<1>4. FileInv(FileAfter(0), GeneratedAfter(0), given) /\ PlainInv(FileAfter(0), given)
  BY <1>1, AfterTopUp
<1>5. /\ nGenerated' = GeneratedAfter(0)
      /\ mapKeys' = FileAfter(0).key /\ mapCryptedKeys' = FileAfter(0).ckey
      /\ UNCHANGED <<fUseCrypto, vMasterKey>>
      /\ fUseCrypto \in BOOLEAN /\ (fUseCrypto <=> FileAfter(0).ckey # {})
  BY <1>1, MemoryAfter
<1>6. QED
  BY <1>2, <1>3, <1>4, <1>5, Assembled

(* taking one for good, *)
LEMMA GetKeyStep == ASSUME KInv, GetKeyFromPool PROVE KInv'
<1> DEFINE F == FreeAfter(0)
           f == FileAfter(0)
           t == Taken
           g == [f EXCEPT !.pool = Without(@, t)]
<1>1. Ready(0) /\ Generate(0) /\ F # {}
  BY DEF GetKeyFromPool, Ready, CanTake
<1>2. /\ setKeyPool' = F \ {t} /\ UNCHANGED <<up, encrypting, reserved>>
      /\ up /\ ~encrypting /\ vMasterKey \in BOOLEAN /\ encrypting \in BOOLEAN /\ up \in BOOLEAN
      /\ IF IsReadable THEN file' = g /\ given' = OnceMore(given, f.pool[t])
                       ELSE file' = f /\ given' = given
  BY <1>1 DEF GetKeyFromPool, Ready, WalletLockFree, KInv, MemInv, OnceMore, GivenOnceMore
<1>3. /\ FileInv(f, GeneratedAfter(0), given) /\ PlainInv(f, given) /\ FreeInv(F, f, reserved)
  BY <1>1, AfterTopUp
<1>4. /\ nGenerated' = GeneratedAfter(0)
      /\ mapKeys' = f.key /\ mapCryptedKeys' = f.ckey
      /\ UNCHANGED <<fUseCrypto, vMasterKey>>
      /\ fUseCrypto \in BOOLEAN /\ (fUseCrypto <=> f.ckey # {})
  BY <1>1, MemoryAfter
<1>5. IsPlain(f) => /\ F \subseteq DOMAIN f.pool
                     /\ \E j \in F : j # t
  BY <1>1, TwoAreFree
<1>6. t = Oldest(F)
  BY DEF Taken
<1>7. t \in F /\ t \in Nat
  <2>1. F \in SUBSET Nat
    BY <1>3 DEF FreeInv, IsBounded
  <2>2. QED
    BY <1>1, <1>6, <2>1, OldestIsFirst
<1>a. /\ reserved \in ReservedSet
      /\ f = [key |-> f.key, ckey |-> f.ckey, mkey |-> f.mkey, pool |-> f.pool]
      /\ \A i \in DOMAIN f.pool : f.pool[i] \in Secrets(f)
      /\ IsBounded(F) /\ IsBounded(DOMAIN f.pool)
      /\ IsPlain(f) => /\ LastIsFree(F, f)
                        /\ \A h \in Holder : reserved[h].nIndex # None => reserved[h].nIndex \notin F
  BY <1>3 DEF FreeInv, FileInv, ReservedSet
<1> HIDE DEF F, f, t
<1>b. IsPlain(f) => LastIsFree(F \ {t}, f)
  BY <1>5, <1>6, <1>a, LastStaysFree
<1>8. CASE IsReadable
  <2>1. t \in DOMAIN f.pool
    BY <1>8 DEF IsReadable, t, f
  <2>2. f.pool[t] \in Secrets(f)
    BY <1>a, <2>1
  <2>3. IsPlain(f) => DOMAIN f.pool \ {t} # {}
    BY <1>5
  <2>4. FileInv(g, GeneratedAfter(0), OnceMore(given, f.pool[t])) /\ PlainInv(g, OnceMore(given, f.pool[t]))
    BY <1>3, <2>1, <2>2, <2>3, EraseInv
  <2>5. FreeInv(F \ {t}, g, reserved)
    <3>1. \A h \in Holder : reserved[h] = reserved[h] \/ reserved[h].nIndex = None
      OBVIOUS
    <3>2. IsPlain(f) => /\ LastIsFree(F \ {t}, f) /\ t \notin F \ {t}
                         /\ \A h \in Holder : reserved[h].nIndex # None => reserved[h].nIndex # t
      BY <1>7, <1>a, <1>b
    <3>3. F \ {t} \in SUBSET F
      OBVIOUS
    <3>4. QED
      BY <1>3, <1>a, <3>1, <3>2, <3>3, EraseFree
  <2>6. g.key = f.key /\ g.ckey = f.ckey
    BY <1>a
  <2> HIDE DEF g
  <2>7. QED
    BY <1>2, <1>4, <1>8, <2>4, <2>5, <2>6, Assembled
<1>9. CASE ~IsReadable
  <2>1. FreeInv(F \ {t}, f, reserved)
    <3>1. IsBounded(F \ {t})
      BY <1>a, SubsetIsBounded
    <3>2. QED
      BY <1>3, <1>b, <3>1 DEF FreeInv
  <2>2. QED
    BY <1>2, <1>3, <1>4, <1>9, <2>1, Assembled
<1>10. QED
  BY <1>8, <1>9

(* keeping the reserved one, encryption or not, *)
LEMMA KeepStep == ASSUME KInv, NEW h \in Holder, KeepKey(h) PROVE KInv'
<1> DEFINE i == reserved[h].nIndex
           k == reserved[h].key
           g == [file EXCEPT !.pool = Without(@, i)]
           r == [reserved EXCEPT ![h] = Nobody]
<1>1. /\ up /\ i # None /\ file' = g /\ given' = OnceMore(given, k) /\ reserved' = r
      /\ UNCHANGED <<up, memory, encrypting, nGenerated>>
  BY DEF KeepKey, OnceMore, GivenOnceMore
<1>2. /\ FileInv(file, nGenerated, given) /\ PlainInv(file, given) /\ FreeInv(setKeyPool, file, reserved)
      /\ MemInv
  BY <1>1 DEF KInv
<1>3. /\ k \in Secrets(file) /\ reserved \in ReservedSet
      /\ file = [key |-> file.key, ckey |-> file.ckey, mkey |-> file.mkey, pool |-> file.pool]
      /\ IsPlain(file) => /\ setKeyPool \subseteq DOMAIN file.pool
                           /\ LastIsFree(setKeyPool, file)
                           /\ DOMAIN file.pool # {}
                           /\ i \notin setKeyPool /\ i \in DOMAIN file.pool /\ file.pool[i] = k
                           /\ \A l \in Holder \ {h} : reserved[l].nIndex # i
  BY <1>1, <1>2 DEF FreeInv, FileInv, PlainInv, ReservedSet
<1>4. IsPlain(file) => DOMAIN file.pool \ {i} # {}
  BY <1>3 DEF LastIsFree
<1>5. /\ r \in ReservedSet /\ r[h].nIndex = None
      /\ \A l \in Holder \ {h} : r[l] = reserved[l]
  BY <1>3 DEF ReservedSet, Nobody, BroadCastKey, Key
<1>6. g.key = file.key /\ g.ckey = file.ckey
  BY <1>3
<1> HIDE DEF i, k, r
<1>7. FileInv(g, nGenerated, OnceMore(given, k)) /\ PlainInv(g, OnceMore(given, k))
  BY <1>2, <1>3, <1>4, EraseInv
<1>8. FreeInv(setKeyPool, g, r)
  <2>1. \A l \in Holder : r[l] = reserved[l] \/ r[l].nIndex = None
    BY <1>5
  <2>2. IsPlain(file) => /\ LastIsFree(setKeyPool, file) /\ i \notin setKeyPool
                          /\ \A l \in Holder : r[l].nIndex # None => r[l].nIndex # i
    BY <1>3, <1>5
  <2>3. setKeyPool \in SUBSET setKeyPool
    OBVIOUS
  <2>4. QED
    BY <1>2, <1>3, <1>5, <2>1, <2>2, <2>3, EraseFree
<1> HIDE DEF g
<1>9. MemInv'
  BY <1>1, <1>2, <1>6 DEF MemInv, memory
<1>10. QED
  BY <1>1, <1>7, <1>8, <1>9 DEF KInv, memory

(* and returning it; *)
LEMMA ReturnStep == ASSUME KInv, NEW h \in Holder, ReturnKey(h) PROVE KInv'
<1> DEFINE i == reserved[h].nIndex
           r == [reserved EXCEPT ![h] = Nobody]
<1>1. /\ up /\ ~encrypting /\ i # None /\ setKeyPool' = setKeyPool \cup {i} /\ reserved' = r
      /\ UNCHANGED <<up, mapKeys, mapCryptedKeys, fUseCrypto, vMasterKey, file, encrypting, nGenerated, given>>
  BY DEF ReturnKey, WalletLockFree
<1>2. /\ FileInv(file, nGenerated, given) /\ PlainInv(file, given) /\ FreeInv(setKeyPool, file, reserved)
      /\ MemInv
  BY <1>1 DEF KInv
<1>3. reserved \in ReservedSet /\ i \in Nat
  BY <1>1, <1>2 DEF FreeInv, ReservedSet
<1>4. /\ r \in ReservedSet /\ r[h].nIndex = None
      /\ \A l \in Holder \ {h} : r[l] = reserved[l]
  BY <1>3 DEF ReservedSet, Nobody, BroadCastKey, Key
<1> HIDE DEF r
<1>5. IsBounded(setKeyPool \cup {i})
  <2>1. IsBounded(setKeyPool \cup (i .. i))
    BY <1>2, <1>3, UnionIsBounded DEF FreeInv
  <2>2. i .. i = {i}
    BY <1>3
  <2>3. QED
    BY <2>1, <2>2
<1>6. FreeInv(setKeyPool \cup {i}, file, r)
  <2>1. \A l \in Holder : r[l].nIndex # None => r[l].key \in Secrets(file)
    BY <1>2, <1>4 DEF FreeInv
  <2>2. ASSUME IsPlain(file)
        PROVE  /\ setKeyPool \cup {i} \subseteq DOMAIN file.pool
               /\ LastIsFree(setKeyPool \cup {i}, file)
               /\ \A l \in Holder : r[l].nIndex # None =>
                     /\ r[l].nIndex \notin setKeyPool \cup {i}
                     /\ r[l].nIndex \in DOMAIN file.pool
                     /\ file.pool[r[l].nIndex] = r[l].key
                     /\ \A m \in Holder \ {l} : r[m].nIndex # r[l].nIndex
    <3>1. /\ setKeyPool \subseteq DOMAIN file.pool
          /\ LastIsFree(setKeyPool, file)
          /\ \A l \in Holder : reserved[l].nIndex # None =>
                /\ reserved[l].nIndex \notin setKeyPool
                /\ reserved[l].nIndex \in DOMAIN file.pool
                /\ file.pool[reserved[l].nIndex] = reserved[l].key
                /\ \A m \in Holder \ {l} : reserved[m].nIndex # reserved[l].nIndex
      BY <1>2, <2>2 DEF FreeInv
    <3>2. LastIsFree(setKeyPool \cup {i}, file)
      BY <3>1 DEF LastIsFree
    <3>3. QED
      BY <1>1, <1>4, <3>1, <3>2
  <2>3. QED
    BY <1>4, <1>5, <2>1, <2>2 DEF FreeInv, ReservedSet
<1>7. MemInv'
  BY <1>1, <1>2 DEF MemInv
<1>8. QED
  BY <1>1, <1>2, <1>6, <1>7 DEF KInv

(* locking and unlocking, *)
LEMMA LockSteps == ASSUME KInv, Lock \/ Unlock PROVE KInv'
<1>1. /\ UNCHANGED <<up, setKeyPool, mapKeys, mapCryptedKeys, fUseCrypto, file, encrypting,
                     reserved, nGenerated, given>>
      /\ vMasterKey' \in BOOLEAN
  BY DEF Lock, Unlock
<1>2. QED
  BY <1>1 DEF KInv, MemInv

(* encrypting in memory *)
LEMMA EncryptStep == ASSUME KInv, EncryptKeys PROVE KInv'
<1>1. /\ up /\ ~encrypting /\ ~fUseCrypto
      /\ fUseCrypto' = TRUE /\ mapCryptedKeys' = mapKeys /\ mapKeys' = {} /\ encrypting' = TRUE
      /\ UNCHANGED <<up, setKeyPool, vMasterKey, file, reserved, nGenerated, given>>
  BY DEF EncryptKeys, WalletLockFree
<1>2. /\ FileInv(file, nGenerated, given) /\ PlainInv(file, given) /\ FreeInv(setKeyPool, file, reserved)
      /\ MemInv
  BY <1>1 DEF KInv
<1>3. MemInv'
  BY <1>1, <1>2 DEF MemInv
<1>4. QED
  BY <1>1, <1>2, <1>3 DEF KInv

(* What the file becomes when it is encrypted *)
Encrypted(erased) ==
    [file EXCEPT !.key = {}, !.ckey = mapCryptedKeys, !.mkey = TRUE,
                 !.pool = [i \in DOMAIN @ \ erased |-> @[i]]]

(* A file that is encrypted has the keys it had. *)
LEMMA EncryptedInv ==
    ASSUME KInv, encrypting, NEW erased
    PROVE  /\ FileInv(Encrypted(erased), nGenerated, given) /\ PlainInv(Encrypted(erased), given)
           /\ Encrypted(erased).ckey # {} /\ Encrypted(erased).key = {}
           /\ Secrets(Encrypted(erased)) = Secrets(file)
           /\ Encrypted(erased).ckey = mapCryptedKeys
<1> DEFINE f == Encrypted(erased)
<1>1. /\ FileInv(file, nGenerated, given) /\ mapCryptedKeys = file.key /\ file.ckey = {}
  BY DEF KInv, MemInv
<1>2. /\ file = [key |-> file.key, ckey |-> file.ckey, mkey |-> file.mkey, pool |-> file.pool]
      /\ nGenerated \in Key /\ Secrets(file) \subseteq 0..nGenerated /\ BroadCastKey \in Secrets(file)
      /\ IsBounded(DOMAIN file.pool)
      /\ \A i \in DOMAIN file.pool : file.pool[i] \in Secrets(file)
      /\ given \in [Key -> 0..2]
      /\ \A k \in Key : given[k] > 0 => k \in Secrets(file)
  BY <1>1 DEF FileInv
<1>3. /\ f = [key |-> f.key, ckey |-> f.ckey, mkey |-> f.mkey, pool |-> f.pool]
      /\ f.key = {} /\ f.ckey = mapCryptedKeys /\ f.mkey = TRUE
      /\ f.pool = [i \in DOMAIN file.pool \ erased |-> file.pool[i]]
  <2> DEFINE rest == [i \in DOMAIN file.pool \ erased |-> file.pool[i]]
  <2>1. f = [file EXCEPT !.key = {}, !.ckey = mapCryptedKeys, !.mkey = TRUE, !.pool = rest]
    BY DEF Encrypted
  <2> HIDE DEF rest
  <2>2. f = [key |-> {}, ckey |-> mapCryptedKeys, mkey |-> TRUE, pool |-> rest]
    BY <1>2, <2>1
  <2> HIDE DEF f
  <2>3. QED
    BY <2>2 DEF rest
<1> HIDE DEF f
<1>4. Secrets(f) = Secrets(file) /\ f.ckey # {}
  BY <1>1, <1>2, <1>3 DEF Secrets
<1>5. /\ DOMAIN f.pool \subseteq DOMAIN file.pool
      /\ \A i \in DOMAIN f.pool : f.pool[i] = file.pool[i]
  BY <1>3
<1>6. IsBounded(DOMAIN f.pool)
  BY <1>2, <1>5, SubsetIsBounded
<1>7. FileInv(f, nGenerated, given)
  BY <1>2, <1>3, <1>4, <1>5, <1>6 DEF FileInv
<1>8. PlainInv(f, given)
  BY <1>4 DEF PlainInv
<1>9. QED
  BY <1>3, <1>4, <1>7, <1>8 DEF f

(* and on the file; *)
LEMMA CommitStep == ASSUME KInv, TxnCommit PROVE KInv'
<1>1. /\ up /\ encrypting /\ encrypting' = FALSE /\ vMasterKey' = TRUE
      /\ file' = Encrypted(setKeyPool) /\ setKeyPool' = {}
      /\ UNCHANGED <<up, mapKeys, mapCryptedKeys, fUseCrypto, reserved, nGenerated, given>>
  BY DEF TxnCommit, Encrypted
<1>2. FreeInv(setKeyPool, file, reserved) /\ mapKeys = {} /\ fUseCrypto = TRUE /\ up = TRUE
  BY <1>1 DEF KInv, MemInv
<1>3. /\ FileInv(file', nGenerated, given) /\ PlainInv(file', given)
      /\ file'.ckey # {} /\ file'.key = {} /\ file'.ckey = mapCryptedKeys
      /\ Secrets(file') = Secrets(file)
  BY <1>1, EncryptedInv
<1>4. IsBounded({})
  BY DEF IsBounded
<1>5. FreeInv({}, file', reserved)
  BY <1>2, <1>3, <1>4 DEF FreeInv
<1>6. QED
  BY <1>1, <1>2, <1>3, <1>5, Assembled

(* loading the wallet, *)
LEMMA StartStep == ASSUME KInv, Start PROVE KInv'
<1>1. /\ ~up /\ up' = TRUE /\ setKeyPool' = DOMAIN file.pool
      /\ mapKeys' = file.key /\ mapCryptedKeys' = file.ckey
      /\ fUseCrypto' = (file.ckey # {}) /\ vMasterKey' = FALSE
      /\ UNCHANGED <<file, encrypting, reserved, nGenerated, given>>
  BY DEF Start
<1>2. /\ FileInv(file, nGenerated, given) /\ PlainInv(file, given)
      /\ encrypting = FALSE /\ reserved = [h \in Holder |-> Nobody]
  BY <1>1 DEF KInv, MemInv
<1>3. /\ reserved \in ReservedSet /\ \A h \in Holder : reserved[h].nIndex = None
  BY <1>2 DEF ReservedSet, Nobody, BroadCastKey, Key
<1>4. IsBounded(DOMAIN file.pool)
  BY <1>2 DEF FileInv
<1>5. LastIsFree(DOMAIN file.pool, file)
  BY <1>4 DEF LastIsFree, IsBounded
<1>6. FreeInv(DOMAIN file.pool, file, reserved)
  BY <1>3, <1>4, <1>5 DEF FreeInv, ReservedSet
<1>7. QED
  BY <1>1, <1>2, <1>6, Assembled

(* A process that is killed leaves only the file, *)
LEMMA ForgetStep ==
    ASSUME Forget, FileInv(file', nGenerated', given'), PlainInv(file', given')
    PROVE  KInv'
BY DEF Forget, KInv, MemInv

(* at any moment, *)
LEMMA CrashStep == ASSUME KInv, Crash PROVE KInv'
BY ForgetStep DEF Crash, KInv

(* with the pool filled in part, *)
LEMMA CrashInTopUpStep == ASSUME KInv, NEW size \in Nat, CrashInTopUp(size) PROVE KInv'
<1>1. Ready(size) /\ ~IsLocked /\ Forget /\ given' = given
  BY DEF CrashInTopUp, Ready, CanTopUp
<1>2. PICK n \in 0..MaxKeys, half \in BOOLEAN :
          /\ n < nMissing(size)
          /\ file' = Filled(n, half)
          /\ nGenerated' = nGenerated + n + (IF half THEN 1 ELSE 0)
  BY Zenon DEF CrashInTopUp
<1>3. CanFill /\ nGenerated \in Nat /\ nMissing(size) \in Nat /\ nGenerated + nMissing(size) \in Key /\ n \in Nat
  BY <1>1, <1>2, ReadyParts
<1>4. nGenerated + n + (IF half THEN 1 ELSE 0) \in Key
  BY <1>2, <1>3 DEF Key
<1>5. FileInv(file', nGenerated', given) /\ PlainInv(file', given)
  BY <1>2, <1>3, <1>4, FilledInv
<1>6. QED
  BY <1>1, <1>5, ForgetStep

(* or emptied in part. *)
LEMMA CrashInNewKeyPoolStep == ASSUME KInv, CrashInNewKeyPool PROVE KInv'
<1>1. up /\ encrypting /\ Forget /\ UNCHANGED <<nGenerated, given>>
  BY DEF CrashInNewKeyPool
<1>2. PICK n \in 0..Cardinality(setKeyPool) :
        file' = Encrypted({i \in setKeyPool : Cardinality({j \in setKeyPool : j < i}) < n})
  BY DEF CrashInNewKeyPool, Encrypted
<1>3. FileInv(file', nGenerated, given) /\ PlainInv(file', given)
  <2> DEFINE erased == {i \in setKeyPool : Cardinality({j \in setKeyPool : j < i}) < n}
  <2>1. file' = Encrypted(erased)
    BY <1>2
  <2> HIDE DEF erased
  <2>2. QED
    BY <1>1, <2>1, EncryptedInv
<1>4. QED
  BY <1>1, <1>3, ForgetStep

(* The file that the first start leaves *)
LEMMA InitInv == Init => KInv
<1> SUFFICES ASSUME Init PROVE KInv
  OBVIOUS
<1> DEFINE pool == [i \in {1} \cup 3..(nKeyPool + 2) |-> i - 1]
<1>1. /\ file.key = 0..(nKeyPool + 1) /\ file.ckey = {} /\ file.mkey = FALSE /\ file.pool = pool
      /\ file = [key |-> file.key, ckey |-> file.ckey, mkey |-> file.mkey, pool |-> file.pool]
      /\ nGenerated = nKeyPool + 1 /\ given = [k \in Key |-> IF k = 1 THEN 1 ELSE 0]
  BY DEF Init
<1>2. nKeyPool \in Nat /\ MaxKeys \in Nat /\ nKeyPool + 1 <= MaxKeys
  OBVIOUS
<1>3. Secrets(file) = 0..nGenerated /\ nGenerated \in Key
  BY <1>1, <1>2 DEF Secrets, Key
<1>4. /\ DOMAIN pool = {1} \cup 3..(nKeyPool + 2)
      /\ \A i \in DOMAIN pool : i \in Nat /\ pool[i] = i - 1 /\ 1 <= i /\ i <= nKeyPool + 2 /\ i # 2
  BY <1>2
<1> HIDE DEF pool
<1>5. IsBounded(DOMAIN file.pool)
  <2>1. nKeyPool + 2 \in Nat
    BY <1>2
  <2>2. QED
    BY <1>1, <1>4, <2>1 DEF IsBounded
<1>6. \A i \in DOMAIN pool : pool[i] \in 0..(nKeyPool + 1) /\ pool[i] # 1
  BY <1>2, <1>4
<1>7. FileInv(file, nGenerated, given)
  <2>1. given \in [Key -> 0..2]
    BY <1>1
  <2>2. \A k \in Key : given[k] > 0 => k \in Secrets(file)
    BY <1>1, <1>2, <1>3 DEF Key
  <2>3. BroadCastKey \in Secrets(file)
    BY <1>1, <1>2, <1>3 DEF BroadCastKey
  <2>4. \A i \in DOMAIN file.pool : file.pool[i] \in Secrets(file)
    BY <1>1, <1>3, <1>6
  <2>5. QED
    BY <1>1, <1>3, <1>5, <2>1, <2>2, <2>3, <2>4 DEF FileInv
<1>8. PlainInv(file, given)
  <2>1. DOMAIN pool # {}
    BY <1>4
  <2>2. \A i, j \in DOMAIN pool : pool[i] = pool[j] => i = j
    BY <1>4
  <2>3. \A i \in DOMAIN pool : given[pool[i]] = 0
    BY <1>1, <1>2, <1>6 DEF Key
  <2>4. \A k \in Key : given[k] <= 1
    BY <1>1
  <2>5. QED
    BY <1>1, <2>1, <2>2, <2>3, <2>4 DEF PlainInv
<1>9. MemInv /\ ~up
  BY DEF Init, MemInv
<1>10. QED
  BY <1>7, <1>8, <1>9 DEF KInv

(* All steps *)
LEMMA NextInv == KInv /\ [Next]_vars => KInv'
<1> SUFFICES ASSUME KInv, [Next]_vars PROVE KInv'
  OBVIOUS
<1>1. CASE UNCHANGED vars
  BY <1>1 DEF vars, memory, KInv, MemInv
<1>2. CASE Next
  <2>1. 0..MaxKeys \subseteq Nat
    OBVIOUS
  <2>2. ASSUME NEW kpSize \in 0..MaxKeys, TopUpKeyPool(kpSize) \/ CrashInTopUp(kpSize) PROVE KInv'
    BY <2>1, <2>2, TopUpStep, CrashInTopUpStep
  <2>3. QED
    BY <1>2, <2>2, GetKeyStep, LockSteps, EncryptStep, CommitStep, GetReservedStep, KeepStep, ReturnStep,
       StartStep, CrashStep, CrashInNewKeyPoolStep DEF Next
<1>3. QED
  BY <1>1, <1>2

(* The invariant of the wallet's keys. *)
THEOREM KeysInvariant == Spec => []KInv
BY InitInv, NextInv, PTL DEF Spec

-----------------------------------------------------------------------------
(* What follows *)

(* The invariant implies the properties. *)
LEMMA InvImplies == KInv => KeysAreApart /\ FileIsWhole /\ PoolNeverRunsDry
<1> SUFFICES ASSUME KInv PROVE KeysAreApart /\ FileIsWhole /\ PoolNeverRunsDry
  OBVIOUS
<1>1. /\ FileInv(file, nGenerated, given) /\ PlainInv(file, given) /\ MemInv
      /\ up => FreeInv(setKeyPool, file, reserved)
  BY DEF KInv
<1>2. ~up => /\ setKeyPool = {} /\ mapKeys = {} /\ mapCryptedKeys = {}
             /\ reserved \in ReservedSet /\ \A h \in Holder : reserved[h].nIndex = None
  BY <1>1 DEF MemInv, ReservedSet, Nobody, BroadCastKey, Key
<1>3. /\ reserved \in ReservedSet
      /\ \A h \in Holder : reserved[h].nIndex # None => reserved[h].key \in Secrets(file)
      /\ setKeyPool \subseteq Nat
  BY <1>1, <1>2 DEF FreeInv, ReservedSet, IsBounded
<1>4. file.key \subseteq Key /\ file.ckey \subseteq Key
  BY <1>1 DEF FileInv, Secrets, Key
<1>5. up => mapKeys \cup mapCryptedKeys = Secrets(file)
  BY <1>1 DEF MemInv, Secrets
<1>6. up /\ ~fUseCrypto /\ nKeyPool > 0 => IsPlain(file)
  BY <1>1 DEF MemInv
<1>7. KeyPoolTypeOK
  <2>1. mapKeys \subseteq Key /\ mapCryptedKeys \subseteq Key
    BY <1>2, <1>4, <1>5 DEF Secrets
  <2>2. DOMAIN file.pool \subseteq Nat /\ \A i \in DOMAIN file.pool : file.pool[i] \in Key
    BY <1>1, <1>4 DEF FileInv, IsBounded, Secrets
  <2>3. \A h \in Holder : reserved[h].nIndex \in Nat \cup {None} /\ reserved[h].key \in Key
    BY <1>3 DEF ReservedSet
  <2>4. QED
    BY <1>1, <1>3, <1>4, <2>1, <2>2, <2>3 DEF KeyPoolTypeOK, MemInv, FileInv
<1>8. nKeyPool > 0 => ReservationsAreApart
  BY <1>1, <1>6 DEF ReservationsAreApart, FreeInv
<1>9. nKeyPool > 0 => KeysAreGivenOnce
  BY <1>1 DEF KeysAreGivenOnce, PlainInv
<1>10. SecretsAreOnFile
  BY <1>1, <1>3, <1>5 DEF SecretsAreOnFile, FileInv, Secrets
<1>11. FileIsOfOneKind
  BY <1>1 DEF FileIsOfOneKind, FileInv
<1>12. PoolNeverRunsDry
  BY <1>1, <1>6 DEF PoolNeverRunsDry, PlainInv, FreeInv, LastIsFree
<1>13. QED
  BY <1>7, <1>8, <1>9, <1>10, <1>11, <1>12 DEF KeysAreApart, FileIsWhole

(* A key belongs to the pool, to one reservation or to one use, and until    *)
(* the wallet is encrypted it is given once, over any number of kills.       *)
THEOREM KeysAreApartAlways == Spec => []KeysAreApart
BY KeysInvariant, InvImplies, PTL

(* A kill between any two writes loses no key that was given or reserved, or *)
(* that waits in the pool, and leaves a file that loads.                     *)
THEOREM FileIsWholeAlways == Spec => []FileIsWhole
BY KeysInvariant, InvImplies, PTL

(* A wallet that is not encrypted can always give a key, if -keypool asks for *)
(* one at least.                                                             *)
THEOREM PoolNeverRunsDryEver == Spec => []PoolNeverRunsDry
BY KeysInvariant, InvImplies, PTL

=============================================================================
