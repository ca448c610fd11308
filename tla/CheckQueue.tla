----------------------------- MODULE CheckQueue -----------------------------
(***************************************************************************)
(* CCheckQueue and CCheckQueueControl (src/src/checkqueue.h): the pool of  *)
(* script-verification threads ConnectBlock drives.  One master adds the   *)
(* checks of a block, joins the pool with Wait() and gets their            *)
(* conjunction; the workers live as long as the node and serve every block.*)
(*                                                                         *)
(* A step is one critical section of "mutex" or one check() outside it.    *)
(* The queue is a set: the code says the order of the checks is of no      *)
(* importance.  Checks are identities reused by the next round.            *)
(***************************************************************************)
EXTENDS Integers, FiniteSets

CONSTANTS Workers,      \* the script-check threads (init.cpp starts them)
          Master,       \* the thread that runs ConnectBlock
          Checks,       \* the checks one round may add
          nBatchSize    \* largest number of checks taken in one go

ASSUME CheckQueueAssumption ==
    /\ Master \notin Workers
    /\ IsFiniteSet(Workers) /\ IsFiniteSet(Checks)
    /\ nBatchSize \in Nat \ {0}

VARIABLES queue,    \* the checks nobody has taken
          nIdle, nTotal, nTodo, fAllOk,   \* the fields of the same name
          pc,       \* where each thread is (see Places)
          taken,    \* vChecks of each thread, as it was taken: nNow is its size
          left,     \* the checks of vChecks the thread has not looked at
          fOk,      \* the local fOk of each thread
          unwinding,\* the master was interrupted in Wait(): its stack unwinds
          ret,      \* what the last Wait() returned
          added,    \* history: the checks added since the control was built
          ran,      \* history: those whose check() was executed
          failed    \* history: those whose check() returned false

Threads == Workers \cup {Master}
counters == <<nIdle, nTotal, nTodo, fAllOk>>
history  == <<added, ran, failed>>
vars == <<queue, counters, pc, taken, left, fOk, unwinding, ret, history>>

\* "out": a worker not started, or the master between two controls;
\* "adding": the master holds a control; "work": running vChecks outside the
\* lock; "wait": blocked in cond.wait; "woken": cond.wait returns as soon as
\* the mutex is free; "gone": the thread has ended.
Places == {"out", "adding", "work", "wait", "woken", "gone"}

Init ==
    /\ queue = {} /\ nIdle = 0 /\ nTotal = 0 /\ nTodo = 0 /\ fAllOk = TRUE
    /\ pc = [t \in Threads |-> "out"]
    /\ taken = [t \in Threads |-> {}] /\ left = [t \in Threads |-> {}]
    /\ fOk = [t \in Threads |-> TRUE]
    /\ unwinding = FALSE /\ ret = TRUE
    /\ added = {} /\ ran = {} /\ failed = {}

IsIdle == nTotal = nIdle /\ nTodo = 0 /\ fAllOk

-----------------------------------------------------------------------------
(* The master's side: CCheckQueueControl and Add.                          *)

\* The constructor asserts IsIdle(); ControlFindsIdle says it never fails.
Control ==
    /\ pc[Master] = "out" /\ IsIdle
    /\ pc' = [pc EXCEPT ![Master] = "adding"]
    /\ added' = {} /\ ran' = {} /\ failed' = {}
    /\ UNCHANGED <<queue, counters, taken, left, fOk, unwinding, ret>>

\* notify_one and notify_all on condWorker: of the waiting workers, which
\* ones stop waiting.  Notifying an empty set of waiters is lost.
Woken(n) ==
    LET waiting == {w \in Workers : pc[w] = "wait"}
    IN  IF n = 0 \/ waiting = {} THEN {{}}
        ELSE IF n = 1 THEN {{w} : w \in waiting}
        ELSE {waiting}

\* Mutation: nTodo is raised by one for all the checks.
AddCountsOne ==
    /\ pc[Master] = "adding" /\ ~unwinding
    /\ \E vChecks \in SUBSET (Checks \ added) :
        /\ vChecks # {}
        /\ queue' = queue \cup vChecks
        /\ nTodo' = nTodo + 1
        /\ added' = added \cup vChecks
        /\ \E ws \in Woken(Cardinality(vChecks)) :
              pc' = [t \in Threads |-> IF t \in ws THEN "woken" ELSE pc[t]]
    /\ UNCHANGED <<nIdle, nTotal, fAllOk, taken, left, fOk, unwinding, ret, ran,
                   failed>>

Add ==
    /\ pc[Master] = "adding" /\ ~unwinding
    /\ \E vChecks \in SUBSET (Checks \ added) :
        /\ vChecks # {}
        /\ queue' = queue \cup vChecks
        /\ nTodo' = nTodo + Cardinality(vChecks)
        /\ added' = added \cup vChecks
        /\ \E ws \in Woken(Cardinality(vChecks)) :
              pc' = [t \in Threads |-> IF t \in ws THEN "woken" ELSE pc[t]]
    /\ UNCHANGED <<nIdle, nTotal, fAllOk, taken, left, fOk, unwinding, ret, ran,
                   failed>>

-----------------------------------------------------------------------------
(* Loop().  Its critical section starts with the clean-up of the batch     *)
(* just run, the first iteration's nTotal++ or the nIdle-- behind          *)
(* cond.wait, and continues with one of Take, Leave and Sleep.             *)

Batch(total, idle) ==
    LET share == Cardinality(queue) \div (total + idle + 1)
        most  == IF share < nBatchSize THEN share ELSE nBatchSize
    IN  IF most < 1 THEN 1 ELSE most

\* "at" is pc after the notifications of the clean-up
Take(t, todo, total, idle, ok, at) ==
    /\ queue # {}
    /\ \E vChecks \in SUBSET queue :
        /\ Cardinality(vChecks) = Batch(total, idle)
        /\ queue' = queue \ vChecks
        /\ taken' = [taken EXCEPT ![t] = vChecks]
        /\ left'  = [left EXCEPT ![t] = vChecks]
    /\ fOk' = [fOk EXCEPT ![t] = ok]
    /\ pc' = [at EXCEPT ![t] = "work"]
    /\ nTodo' = todo /\ nTotal' = total /\ nIdle' = idle /\ fAllOk' = ok
    /\ UNCHANGED ret

\* Mutation: the verdict stays for the next round.
LeaveKeepsVerdict(t, todo, total, idle, ok, at) ==
    /\ queue = {} /\ t = Master /\ todo = 0
    /\ ret' = ok /\ nTotal' = total - 1 /\ fAllOk' = ok
    /\ nTodo' = todo /\ nIdle' = idle
    /\ taken' = [taken EXCEPT ![t] = {}]
    /\ pc' = [at EXCEPT ![t] = IF unwinding THEN "gone" ELSE "out"]
    /\ UNCHANGED <<queue, left, fOk>>

\* Mutation: the master leaves as soon as the queue is empty.
LeaveEarly(t, todo, total, idle, ok, at) ==
    /\ queue = {} /\ t = Master
    /\ ret' = ok /\ nTotal' = total - 1 /\ fAllOk' = TRUE
    /\ nTodo' = todo /\ nIdle' = idle
    /\ taken' = [taken EXCEPT ![t] = {}]
    /\ pc' = [at EXCEPT ![t] = IF unwinding THEN "gone" ELSE "out"]
    /\ UNCHANGED <<queue, left, fOk>>

\* Only the master returns: fQuit is never set.
Leave(t, todo, total, idle, ok, at) ==
    /\ queue = {} /\ t = Master /\ todo = 0
    /\ ret' = ok /\ nTotal' = total - 1 /\ fAllOk' = TRUE
    /\ nTodo' = todo /\ nIdle' = idle
    /\ taken' = [taken EXCEPT ![t] = {}]
    /\ pc' = [at EXCEPT ![t] = IF unwinding THEN "gone" ELSE "out"]
    /\ UNCHANGED <<queue, left, fOk>>

\* Mutation: a thread that goes to sleep does not report its batch.
SleepForgetsVerdict(t, todo, total, idle, ok, at) ==
    /\ queue = {} /\ ~(t = Master /\ todo = 0)
    /\ nIdle' = idle + 1 /\ nTotal' = total /\ nTodo' = todo
    /\ taken' = [taken EXCEPT ![t] = {}]
    /\ pc' = [at EXCEPT ![t] = "wait"]
    /\ UNCHANGED <<queue, fAllOk, left, fOk, ret>>

Sleep(t, todo, total, idle, ok, at) ==
    /\ queue = {} /\ ~(t = Master /\ todo = 0)
    /\ nIdle' = idle + 1 /\ nTotal' = total /\ nTodo' = todo /\ fAllOk' = ok
    /\ taken' = [taken EXCEPT ![t] = {}]
    /\ pc' = [at EXCEPT ![t] = "wait"]
    /\ UNCHANGED <<queue, left, fOk, ret>>

TakeLeaveOrSleep(t, todo, total, idle, ok, at) ==
    \/ Take(t, todo, total, idle, ok, at)
    \/ Leave(t, todo, total, idle, ok, at)
    \/ Sleep(t, todo, total, idle, ok, at)

\* A worker thread starts (Thread()), or the master calls Wait().
Enter(t) ==
    /\ pc[t] = IF t = Master THEN "adding" ELSE "out"
    /\ TakeLeaveOrSleep(t, nTodo, nTotal + 1, nIdle, fAllOk, pc)
    /\ UNCHANGED <<unwinding, history>>

\* cond.wait returns with the mutex
Resume(t) ==
    /\ pc[t] = "woken"
    /\ TakeLeaveOrSleep(t, nTodo, nTotal, nIdle - 1, fAllOk, pc)
    /\ UNCHANGED <<unwinding, history>>

\* check() outside the lock; skipped once something failed
RunCheck(t) ==
    /\ pc[t] = "work"
    /\ \E c \in left[t] :
        /\ left' = [left EXCEPT ![t] = @ \ {c}]
        /\ IF fOk[t]
             THEN \E good \in BOOLEAN :
                    /\ fOk' = [fOk EXCEPT ![t] = good]
                    /\ ran' = ran \cup {c}
                    /\ failed' = IF good THEN failed ELSE failed \cup {c}
             ELSE UNCHANGED <<fOk, ran, failed>>
    /\ UNCHANGED <<queue, counters, pc, taken, unwinding, ret, added>>

\* Mutation: the batch is taken to be of the largest size.
CleanUpFullBatch(t) ==
    /\ pc[t] = "work" /\ left[t] = {}
    /\ LET todo == nTodo - nBatchSize
           wake == todo = 0 /\ t # Master /\ pc[Master] = "wait"
           at   == IF wake THEN [pc EXCEPT ![Master] = "woken"] ELSE pc
       IN  TakeLeaveOrSleep(t, todo, nTotal, nIdle, fAllOk /\ fOk[t], at)
    /\ UNCHANGED <<unwinding, history>>

\* Mutation: the last worker does not notify the master.
CleanUpSilently(t) ==
    /\ pc[t] = "work" /\ left[t] = {}
    /\ LET todo == nTodo - Cardinality(taken[t])
       IN  TakeLeaveOrSleep(t, todo, nTotal, nIdle, fAllOk /\ fOk[t], pc)
    /\ UNCHANGED <<unwinding, history>>

\* The batch is done: report it and look for more in the same section.
CleanUp(t) ==
    /\ pc[t] = "work" /\ left[t] = {}
    /\ LET todo == nTodo - Cardinality(taken[t])
           wake == todo = 0 /\ t # Master /\ pc[Master] = "wait"
           at   == IF wake THEN [pc EXCEPT ![Master] = "woken"] ELSE pc
       IN  TakeLeaveOrSleep(t, todo, nTotal, nIdle, fAllOk /\ fOk[t], at)
    /\ UNCHANGED <<unwinding, history>>

\* The condition variables may wake a waiter nobody notified.
SpuriousWake(t) ==
    /\ pc[t] = "wait"
    /\ pc' = [pc EXCEPT ![t] = "woken"]
    /\ UNCHANGED <<queue, counters, taken, left, fOk, unwinding, ret, history>>

\* Shutdown interrupts the workers; cond.wait is the interruption point of
\* Loop, and the exception leaves both counters as they are.
Interrupt(w) ==
    /\ pc[w] \in {"wait", "woken"}
    /\ pc' = [pc EXCEPT ![w] = "gone"]
    /\ UNCHANGED <<queue, counters, taken, left, fOk, unwinding, ret, history>>

\* The message handler is one of the interrupted threads.  The exception
\* leaves Wait() before fDone is set, so the destructor of the control waits
\* again, with another nTotal++, and only then does the stack unwind further.
InterruptMaster ==
    /\ pc[Master] \in {"wait", "woken"} /\ ~unwinding
    /\ pc' = [pc EXCEPT ![Master] = "adding"]
    /\ unwinding' = TRUE
    /\ UNCHANGED <<queue, counters, taken, left, fOk, ret, history>>

Thread(t) == Enter(t) \/ Resume(t) \/ RunCheck(t) \/ CleanUp(t)

Next ==
    \/ Control
    \/ Add
    \/ \E t \in Threads : Enter(t) \/ Resume(t) \/ RunCheck(t) \/ CleanUp(t)
    \/ \E t \in Threads : SpuriousWake(t)
    \/ \E w \in Workers : Interrupt(w)
    \/ InterruptMaster

Spec == Init /\ [][Next]_vars

\* The scheduler runs every thread that is not blocked, and ConnectBlock
\* always reaches Wait() or the destructor of the control, which calls it.
FairSpec == Spec /\ \A t \in Threads : WF_vars(Thread(t))

-----------------------------------------------------------------------------
\* the checks some thread holds in its batch
InHand == UNION {taken[t] : t \in Threads}

\* Type invariant.
TypeOK ==
    /\ queue \subseteq Checks
    /\ nIdle \in Nat /\ nTotal \in Nat /\ nTodo \in Nat /\ fAllOk \in BOOLEAN
    /\ pc \in [Threads -> Places]
    /\ taken \in [Threads -> SUBSET Checks] /\ left \in [Threads -> SUBSET Checks]
    /\ fOk \in [Threads -> BOOLEAN]
    /\ unwinding \in BOOLEAN /\ ret \in BOOLEAN
    /\ added \subseteq Checks /\ ran \subseteq Checks /\ failed \subseteq Checks

\* The unsigned counter nTodo is the number of checks queued or in a batch
\* (its comment in the class), so it cannot wrap below zero at a clean-up.
TodoCounts ==
    /\ nTodo = Cardinality(queue \cup InHand)
    /\ \A t \in Threads : Cardinality(taken[t]) <= nTodo

\* CCheckQueueControl's assertion: the next control always finds the queue
\* idle, whatever was interrupted, woken or skipped before it.
ControlFindsIdle == pc[Master] = "out" => IsIdle

\* ConnectBlock believes what Wait() returned: true exactly when no check of
\* the block failed, and then every one of them was executed.
VerdictIsConjunction ==
    pc[Master] = "out" => /\ ret <=> (failed = {})
                          /\ ret => ran = added

\* The checks point into the block and the coins view of ConnectBlock: once
\* its control is destroyed, by return or by exception, no thread has any.
ChecksDieWithControl ==
    pc[Master] \in {"out", "gone"} => queue = {} /\ InHand = {}

\* No wake-up the master needs is lost: whoever is asleep or interrupted,
\* a master in Wait() leaves it.
WaitTerminates == (pc[Master] \in {"adding", "work", "wait", "woken"}) ~>
                  (pc[Master] \in {"out", "gone"})
=============================================================================
