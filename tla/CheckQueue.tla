---------------------------- MODULE CheckQueue ----------------------------
(***************************************************************************)
(* The script verification pool of ConnectBlock: CCheckQueue and its RAII  *)
(* controller CCheckQueueControl (src/checkqueue.h).                       *)
(*                                                                         *)
(* One master (the thread that holds cs_main) pushes batches of checks;    *)
(* worker threads and, at the end, the master itself pop and evaluate      *)
(* them.  A thread inside Loop owns the mutex at the label "scan" only;    *)
(* the clean-up at the top of the critical section (first iteration,       *)
(* return from cond.wait, end of a batch) is a step of its own, because    *)
(* the controller's constructor reads the counters without the mutex.      *)
(*                                                                         *)
(* At shutdown the workers are interrupted.  The master is not: it stands  *)
(* for a thread outside the interrupted group (an RPC thread, or the main  *)
(* thread verifying the database).                                         *)
(*                                                                         *)
(* Abstracted: a check is a value of Check and fails iff it is in Bad; the *)
(* vector used as a stack is a set, since the code says the order does not *)
(* matter.                                                                 *)
(***************************************************************************)
EXTENDS Naturals, FiniteSets

CONSTANTS
    Worker,      \* the threads running ThreadScriptCheck
    Master,      \* the thread running ConnectBlock
    Check,       \* the verifications of a block
    Bad,         \* the verifications that evaluate to false
    nBatchSize   \* CCheckQueue's constructor argument

ASSUME MasterAssumption == Master \notin Worker
ASSUME CheckAssumption == IsFiniteSet(Check) /\ Bad \subseteq Check
ASSUME WorkerAssumption == IsFiniteSet(Worker)
ASSUME BatchAssumption == nBatchSize \in Nat \ {0}

Thread == Worker \cup {Master}

VARIABLES
    queue,   \* checks not yet taken by a thread
    nIdle, nTotal, nTodo, fAllOk,
    pc,      \* where each thread stands, see PC
    batch,   \* vChecks of each thread's Loop
    fOk,     \* fOk of each thread's Loop
    fRet,    \* what the master's last Wait() returned
    added    \* history: the checks Added since the controller was built

queueVars == <<queue, nIdle, nTotal, nTodo, fAllOk, pc, batch, fOk, fRet, added>>

(***************************************************************************)
(* "out": not in Loop (for a worker, not started; for the master, between  *)
(* blocks).  "control": the controller is built and accepts Add.  "enter": *)
(* in Loop, before the first critical section.  "scan": owns the mutex, at *)
(* `while (queue.empty())'.  "wait": in cond.wait.  "woken": notified, or  *)
(* woken for no reason, and not yet back from cond.wait.  "work":          *)
(* evaluating its batch.  "done": the batch is evaluated, the mutex not    *)
(* yet taken.  "gone": the worker was interrupted inside cond.wait.        *)
(***************************************************************************)
PC == {"out", "control", "enter", "scan", "wait", "woken", "work", "done", "gone"}

MutexFree == \A t \in Thread : pc[t] # "scan"

QueueInit ==
    /\ queue = {}
    /\ nIdle = 0 /\ nTotal = 0 /\ nTodo = 0
    /\ fAllOk = TRUE
    /\ pc = [t \in Thread |-> IF t = Master THEN "out" ELSE "enter"]
    /\ batch = [t \in Thread |-> {}]
    /\ fOk = [t \in Thread |-> TRUE]
    /\ fRet = TRUE
    /\ added = {}

-----------------------------------------------------------------------------
(* CCheckQueueControl's constructor.  Its three assertions are read without *)
(* the mutex; they are the property ControlPrecondition.                    *)
BuildControl ==
    /\ pc[Master] = "out"
    /\ pc' = [pc EXCEPT ![Master] = "control"]
    /\ added' = {}
    /\ UNCHANGED <<queue, nIdle, nTotal, nTodo, fAllOk, batch, fOk, fRet>>

(* The variants named "Slip..." are not part of the model: each is a mistake *)
(* that could be made in the definition it precedes, and that one of the    *)
(* properties below tells from the real code.                               *)

(* The notification is forgotten. *)
SlipWake(S) == pc

(* The set of threads a notification moves out of cond.wait. *)
Wake(S) == [t \in Thread |-> IF t \in S THEN "woken" ELSE pc[t]]

WaitingWorkers == {w \in Worker : pc[w] = "wait"}

(* notify_one wakes one waiting thread, if there is one. *)
NotifyOne(S) == IF S = {} THEN {{}} ELSE {{t} : t \in S}

(* nTodo++ instead of nTodo += vChecks.size(), and no worker notified. *)
SlipAdd(C) ==
    /\ pc[Master] = "control"
    /\ MutexFree
    /\ C # {} /\ C \cap added = {}
    /\ queue' = queue \cup C
    /\ nTodo' = nTodo + 1
    /\ added' = added \cup C
    /\ UNCHANGED <<nIdle, nTotal, fAllOk, pc, batch, fOk, fRet>>

Add(C) ==
    /\ pc[Master] = "control"
    /\ MutexFree
    /\ C # {} /\ C \cap added = {}
    /\ queue' = queue \cup C
    /\ nTodo' = nTodo + Cardinality(C)
    /\ added' = added \cup C
    /\ \E S \in (IF Cardinality(C) = 1 THEN NotifyOne(WaitingWorkers) ELSE {WaitingWorkers}) :
            pc' = Wake(S)
    /\ UNCHANGED <<nIdle, nTotal, fAllOk, batch, fOk, fRet>>

(* CCheckQueueControl::Wait, or its destructor on an early return. *)
CallWait ==
    /\ pc[Master] = "control"
    /\ pc' = [pc EXCEPT ![Master] = "enter"]
    /\ UNCHANGED <<queue, nIdle, nTotal, nTodo, fAllOk, batch, fOk, fRet, added>>

-----------------------------------------------------------------------------
(* Loop, the three ways into the critical section. *)
FirstIteration(t) ==
    /\ pc[t] = "enter" /\ MutexFree
    /\ nTotal' = nTotal + 1
    /\ pc' = [pc EXCEPT ![t] = "scan"]
    /\ UNCHANGED <<queue, nIdle, nTodo, fAllOk, batch, fOk, fRet, added>>

Resume(t) ==
    /\ pc[t] = "woken" /\ MutexFree
    /\ nIdle' = nIdle - 1
    /\ pc' = [pc EXCEPT ![t] = "scan"]
    /\ UNCHANGED <<queue, nTotal, nTodo, fAllOk, batch, fOk, fRet, added>>

(* fAllOk = fOk instead of fAllOk &= fOk. *)
SlipCleanUp(t) ==
    /\ pc[t] = "done" /\ MutexFree
    /\ fAllOk' = fOk[t]
    /\ nTodo' = nTodo - Cardinality(batch[t])
    /\ batch' = [batch EXCEPT ![t] = {}]
    /\ LET S == IF nTodo' = 0 /\ t # Master /\ pc[Master] = "wait" THEN {Master} ELSE {}
       IN  pc' = [Wake(S) EXCEPT ![t] = "scan"]
    /\ UNCHANGED <<queue, nIdle, nTotal, fOk, fRet, added>>

CleanUp(t) ==
    /\ pc[t] = "done" /\ MutexFree
    /\ fAllOk' = (fAllOk /\ fOk[t])
    /\ nTodo' = nTodo - Cardinality(batch[t])
    /\ batch' = [batch EXCEPT ![t] = {}]
    /\ LET S == IF nTodo' = 0 /\ t # Master /\ pc[Master] = "wait" THEN {Master} ELSE {}
       IN  pc' = [Wake(S) EXCEPT ![t] = "scan"]
    /\ UNCHANGED <<queue, nIdle, nTotal, fOk, fRet, added>>

(* The master stays counted in nTotal. *)
SlipReturn ==
    /\ pc[Master] = "scan" /\ queue = {} /\ nTodo = 0
    /\ fRet' = fAllOk
    /\ fAllOk' = TRUE
    /\ pc' = [pc EXCEPT ![Master] = "out"]
    /\ UNCHANGED <<queue, nIdle, nTotal, nTodo, batch, fOk, added>>

(* Loop, the three ways out of the critical section.  fQuit is never set, *)
(* so only the master takes the return.                                   *)
Return ==
    /\ pc[Master] = "scan" /\ queue = {} /\ nTodo = 0
    /\ nTotal' = nTotal - 1
    /\ fRet' = fAllOk
    /\ fAllOk' = TRUE
    /\ pc' = [pc EXCEPT ![Master] = "out"]
    /\ UNCHANGED <<queue, nIdle, nTodo, batch, fOk, added>>

(* nIdle is not incremented before cond.wait. *)
SlipIdle(t) ==
    /\ pc[t] = "scan" /\ queue = {}
    /\ ~(t = Master /\ nTodo = 0)
    /\ pc' = [pc EXCEPT ![t] = "wait"]
    /\ UNCHANGED <<queue, nIdle, nTotal, nTodo, fAllOk, batch, fOk, fRet, added>>

Idle(t) ==
    /\ pc[t] = "scan" /\ queue = {}
    /\ ~(t = Master /\ nTodo = 0)
    /\ nIdle' = nIdle + 1
    /\ pc' = [pc EXCEPT ![t] = "wait"]
    /\ UNCHANGED <<queue, nTotal, nTodo, fAllOk, batch, fOk, fRet, added>>

Smaller(a, b) == IF a <= b THEN a ELSE b

(* How many checks the thread takes: smaller batches as the queue drains. *)
nNow == LET n == Smaller(nBatchSize, Cardinality(queue) \div (nTotal + nIdle + 1))
        IN  IF n = 0 THEN 1 ELSE n

Take(t) ==
    /\ pc[t] = "scan" /\ queue # {}
    /\ \E B \in SUBSET queue :
        /\ Cardinality(B) = nNow
        /\ batch' = [batch EXCEPT ![t] = B]
        /\ queue' = queue \ B
    /\ fOk' = [fOk EXCEPT ![t] = fAllOk]
    /\ pc' = [pc EXCEPT ![t] = "work"]
    /\ UNCHANGED <<nIdle, nTotal, nTodo, fAllOk, fRet, added>>

(* The checks are evaluated until one fails; none is if fOk was false. *)
Execute(t) ==
    /\ pc[t] = "work"
    /\ fOk' = [fOk EXCEPT ![t] = @ /\ batch[t] \cap Bad = {}]
    /\ pc' = [pc EXCEPT ![t] = "done"]
    /\ UNCHANGED <<queue, nIdle, nTotal, nTodo, fAllOk, batch, fRet, added>>

(* A condition variable may wake without a notification. *)
SpuriousWake(t) ==
    /\ pc[t] = "wait"
    /\ pc' = [pc EXCEPT ![t] = "woken"]
    /\ UNCHANGED <<queue, nIdle, nTotal, nTodo, fAllOk, batch, fOk, fRet, added>>

(* threadGroup.interrupt_all() at shutdown: cond.wait throws, and the       *)
(* decrement of nIdle after it is skipped.                                  *)
Interrupt(w) ==
    /\ pc[w] \in {"wait", "woken"}
    /\ pc' = [pc EXCEPT ![w] = "gone"]
    /\ UNCHANGED <<queue, nIdle, nTotal, nTodo, fAllOk, batch, fOk, fRet, added>>

ThreadStep(t) ==
    \/ FirstIteration(t) \/ Resume(t) \/ CleanUp(t)
    \/ Idle(t) \/ Take(t) \/ Execute(t)

QueueNext ==
    \/ BuildControl \/ CallWait \/ Return
    \/ \E C \in SUBSET Check : Add(C)
    \/ \E t \in Thread : ThreadStep(t) \/ SpuriousWake(t)
    \/ \E w \in Worker : Interrupt(w)

QueueSpec == QueueInit /\ [][QueueNext]_queueVars

(***************************************************************************)
(* The scheduler runs every thread that can run, and the mutex is granted  *)
(* to a thread that keeps asking for it.  Nothing forces the master to     *)
(* build a controller, to Add or to call Wait, nor a worker to be woken    *)
(* for no reason or interrupted.                                           *)
(***************************************************************************)
Fairness ==
    /\ WF_queueVars(Return)
    /\ \A t \in Thread :
        /\ SF_queueVars(FirstIteration(t) \/ Resume(t) \/ CleanUp(t))
        /\ WF_queueVars(Idle(t) \/ Take(t) \/ Execute(t))

FairQueueSpec == QueueSpec /\ Fairness

-----------------------------------------------------------------------------
(* The type invariant.  The counters never go below zero. *)
TypeOK ==
    /\ queue \subseteq Check
    /\ nIdle \in Nat /\ nTotal \in Nat /\ nTodo \in Nat
    /\ fAllOk \in BOOLEAN
    /\ pc \in [Thread -> PC]
    /\ batch \in [Thread -> SUBSET Check]
    /\ fOk \in [Thread -> BOOLEAN]
    /\ fRet \in BOOLEAN
    /\ added \subseteq Check

Outstanding == queue \cup UNION {batch[t] : t \in Thread}

(* What ConnectBlock relies on: when Wait (or the destructor) has returned, *)
(* its value says whether every check Added for this block succeeded, and   *)
(* no check of the block is still queued or in the hands of a worker, whose *)
(* pointers into the block's coin view would dangle.                        *)
VerdictIsExact ==
    pc[Master] = "out" =>
        /\ fRet = (added \cap Bad = {})
        /\ Outstanding = {}

(* "Number of verifications that haven't completed yet.  This includes      *)
(* elements that are not anymore in queue, but still in worker's own        *)
(* batches": the count is exact at every step, and no check is held twice.  *)
TodoIsOutstanding ==
    /\ nTodo = Cardinality(Outstanding)
    /\ \A t \in Thread : batch[t] \cap queue = {}
    /\ \A t, u \in Thread : t # u => batch[t] \cap batch[u] = {}

(* What the controller's constructor asserts, for a reader who holds the    *)
(* mutex: between blocks every worker that has entered Loop is idle and the *)
(* queue is as new, also after workers were interrupted.                    *)
UnusedBetweenBlocks ==
    pc[Master] = "out" /\ MutexFree => nTotal = nIdle /\ nTodo = 0 /\ fAllOk

(* "passed queue is supposed to be unused, or NULL": the same assertions as *)
(* the constructor evaluates them, with no mutex held.                      *)
ControlPrecondition ==
    pc[Master] = "out" => nTotal = nIdle /\ nTodo = 0 /\ fAllOk

(* A call of Wait returns: the last worker to finish wakes the master, and  *)
(* neither a lost notification nor an interrupted worker can strand it.     *)
WaitReturns == pc[Master] = "enter" ~> pc[Master] = "out"

(* Added checks are started without waiting for the master to join, unless  *)
(* a worker was interrupted: no notification of Add is lost.                *)
WorkersDrain ==
    queue # {} ~> (queue = {} \/ \E w \in Worker : pc[w] = "gone")
=============================================================================
