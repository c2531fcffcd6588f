-------------------------- MODULE TaskWorkerProofs --------------------------
(***************************************************************************)
(* The safety properties of TaskWorker for every set of consumers and      *)
(* tasks and any number of mishaps.  That the loops implement the queue is *)
(* proved step by step; everything TaskQueueProofs shows of the queue then *)
(* holds of the process.  On top of it, what ties a consumer's thread to   *)
(* the task in its hands.                                                  *)
(***************************************************************************)
EXTENDS TaskWorker, TLAPS

QP == INSTANCE TaskQueueProofs

LoopsTyped ==
    /\ up \in BOOLEAN /\ closing \in BOOLEAN /\ stop \in BOOLEAN
    /\ lost \subseteq Owners
    /\ consuming \subseteq Owners /\ beating \subseteq Owners /\ reclaiming \subseteq Owners
    /\ thread \in [Owners -> Outcomes \cup {"none", "working"}]
    /\ restarts \in 0..MaxRestarts /\ faults \in 0..MaxFaults
    /\ orphaned \subseteq Tasks

\* A consumer has a thread, working or done, exactly while it holds a task.
\* The code tests neither; Claim could not test for a free hand otherwise.
ThreadIsTask == \A w \in Owners : thread[w] # "none" <=> task[w] # NoTask

\* The consume loop of a consumer with a thread has not returned.
ThreadIsAwaited == \A w \in Owners : thread[w] # "none" => w \in consuming

\* No loop is left when the process is gone.
DownIsQuiet == ~up => consuming = {}

IInv ==
    /\ QP!IInv
    /\ LoopsTyped
    /\ ThreadIsTask /\ ThreadIsAwaited /\ DownIsQuiet
    /\ RunningHasRunner

-----------------------------------------------------------------------------
(* The loops and the queue                                                 *)

\* Every step of a consumer is one of the queue's, or changes nothing of it.
LEMMA ConsumerStepsQueue ==
  ASSUME NEW w \in Owners, ConsumerStep(w)
  PROVE  Q!Next \/ UNCHANGED queueVars
<1>1. ASSUME Consume(w)
      PROVE  Q!Next
  BY <1>1 DEF Consume, Q!Next, Q!ConsumerStep
<1>2. ASSUME Maintain(w)
      PROVE  Q!Next
  BY <1>2 DEF Maintain, Q!Next
<1>3. ASSUME Settle(w)
      PROVE  Q!Next
  <2>1. Q!EndRun(w)
    BY <1>3 DEF Settle, Q!EndRun
  <2>2. QED
    BY <2>1 DEF Q!Next, Q!ConsumerStep
<1>4. ASSUME NEW o \in Outcomes, ThreadEnds(w, o)
      PROVE  UNCHANGED queueVars
  BY <1>4 DEF ThreadEnds
<1>5. ASSUME BeatExtends(w)
      PROVE  Q!Next
  BY <1>5 DEF BeatExtends, Q!Next, Q!ConsumerStep
<1>6. ASSUME BeatLoses(w)
      PROVE  UNCHANGED queueVars
  BY <1>6 DEF BeatLoses
<1>7. ASSUME Reclaim(w)
      PROVE  Q!Next
  BY <1>7 DEF Reclaim, Q!Next
<1>8. ASSUME Returns(w)
      PROVE  UNCHANGED queueVars
  BY <1>8 DEF Returns, ConsumeReturns, BeatReturns, ReclaimReturns
<1>9. ASSUME SettleFails(w)
      PROVE  Q!Next
  <2>1. Q!Forget({w}) /\ {w} \in SUBSET Owners
    BY <1>9 DEF SettleFails
  <2>2. QED
    BY <2>1 DEF Q!Next
<1>10. QED
  BY <1>1, <1>2, <1>3, <1>4, <1>5, <1>6, <1>7, <1>8, <1>9 DEF ConsumerStep

\* So is every step of the process, the users and the clock.
LEMMA StepsQueue ==
  ASSUME [Next]_vars
  PROVE  [Q!Next]_(Q!vars)
<1>1. ASSUME NEW w \in Owners, ConsumerStep(w)
      PROVE  Q!Next \/ UNCHANGED queueVars
  BY <1>1, ConsumerStepsQueue
<1>2. ASSUME ProcessStep
      PROVE  Q!Next \/ UNCHANGED queueVars
  <2>1. CASE Crash
    BY <2>1 DEF Crash, Q!Next
  <2>2. CASE ~Crash
    BY <1>2, <2>2 DEF ProcessStep, Shutdown, Exit, Start
  <2>3. QED
    BY <2>1, <2>2
<1>3. ASSUME Submit
      PROVE  Q!Next
  BY <1>3 DEF Submit, OnTable, Q!Next
<1>4. ASSUME UserStop
      PROVE  Q!Next
  BY <1>4 DEF UserStop, UserCancel, OnTable, Q!Next
<1>5. ASSUME NEW t \in Tasks, Lapse(t) \/ Backoff(t)
      PROVE  Q!Next
  BY <1>5 DEF Lapse, Backoff, OnTable, Q!Next
<1>6. ASSUME UNCHANGED vars
      PROVE  UNCHANGED queueVars
  BY <1>6 DEF vars
<1>7. QED
  BY <1>1, <1>2, <1>3, <1>4, <1>5, <1>6 DEF Next, queueVars, Q!vars

\* The loops of all consumers do to the table only what the queue allows, so
\* that what TaskQueueProofs shows of the table carries over.
LEMMA WorkerImplementsQueue == Spec => Q!Spec
<1>1. Init => Q!Init
  BY DEF Init
<1>2. [Next]_vars => [Q!Next]_(Q!vars)
  BY StepsQueue
<1>3. QED
  BY <1>1, <1>2, PTL DEF Spec, Q!Spec

-----------------------------------------------------------------------------
(* TaskQueueProofs speaks of its own copy of the queue.                     *)

\* Both copies have the same initial states.
LEMMA SameInit == Q!Init => QP!Init
  BY DEF Q!Init, QP!Init

\* Both copies have the same steps.
LEMMA SameNext == [Q!Next]_(Q!vars) => [QP!Next]_(QP!vars)
  BY Zenon
     DEF Q!Next, QP!Next, Q!vars, QP!vars, Q!rowVars, QP!rowVars,
         Q!Live, QP!Live, Q!Terminal, QP!Terminal, Q!Release, QP!Release, Q!Holds, QP!Holds,
         Q!Enqueue, QP!Enqueue, Q!ConsumerStep, QP!ConsumerStep,
         Q!Claim, QP!Claim, Q!Claimable, QP!Claimable, Q!Heartbeat, QP!Heartbeat,
         Q!EndRun, QP!EndRun, Q!Succeed, QP!Succeed, Q!FinishCancel, QP!FinishCancel,
         Q!RetryOrFail, QP!RetryOrFail, Q!WriteBack, QP!WriteBack,
         Q!Cancel, QP!Cancel, Q!CancelTask, QP!CancelTask,
         Q!CancelDocument, QP!CancelDocument, Q!DeleteDocument, QP!DeleteDocument,
         Q!RemoveRows, QP!RemoveRows, Q!PurgeFinished, QP!PurgeFinished,
         Q!ReclaimExpired, QP!ReclaimExpired, Q!LeaseExpires, QP!LeaseExpires,
         Q!BackoffElapses, QP!BackoffElapses, Q!Forget, QP!Forget

\* The invariant of the queue holds under the loops.
LEMMA QueueStays == QP!IInv /\ [Next]_vars => QP!IInv'
  BY StepsQueue, SameNext, QP!NextKeepsIInv, WorkerAssumption
     DEF Q!ConstantsAssumption, QP!ConstantsAssumption

\* What the invariant of the queue says of the table.
LEMMA QueueFacts ==
  ASSUME QP!IInv
  PROVE  /\ Q!TypeOK
         /\ \A t \in Tasks : (owner[t] # NoOwner) <=> (state[t] = "running")
  BY DEF QP!IInv, QP!TypeOK, Q!TypeOK, QP!LeaseMatchesState, QP!States, Q!States,
         QP!Live, Q!Live, QP!Terminal, Q!Terminal

-----------------------------------------------------------------------------
(* Threads and tasks                                                       *)

\* Whatever its outcome, a consumer that settles it lets go of the task.
LEMMA SettleLetsGo ==
  ASSUME NEW w \in Owners, Settle(w)
  PROVE  \E s \in {"pending", "succeeded", "failed", "canceled"}, later \in SUBSET {task[w]} :
            Q!WriteBack(w, s, later)
<1>1. \/ Q!Succeed(w) \/ Q!FinishCancel(w)
      \/ Q!RetryOrFail(w, TRUE) \/ Q!RetryOrFail(w, FALSE)
  BY DEF Settle
<1>2. QED
  BY <1>1 DEF Q!Succeed, Q!FinishCancel, Q!RetryOrFail

\* The statements that are not a consumer's take no row out of the state
\* "running" to another owner, put none into it, and touch no copy.
LEMMA OthersRelease ==
  ASSUME QP!IInv,
         \/ \E t \in Tasks : Q!Enqueue(t) \/ Q!CancelTask(t) \/ Q!LeaseExpires(t)
                             \/ Q!BackoffElapses(t)
         \/ \E d \in Docs : Q!CancelDocument(d) \/ Q!DeleteDocument(d)
         \/ \E S \in SUBSET Tasks : Q!PurgeFinished(S)
         \/ Q!ReclaimExpired
  PROVE  /\ task' = task
         /\ \A t \in Tasks : state'[t] = "running" => state[t] = "running" /\ owner'[t] = owner[t]
<1>1. Q!TypeOK
  BY QueueFacts
<1>2. ASSUME NEW S \in SUBSET Tasks, NEW s, Q!Release(S, s), \A t \in S : s[t] # "running",
             NEW t \in Tasks, state'[t] = "running"
      PROVE  state[t] = "running" /\ owner'[t] = owner[t]
  BY <1>2 DEF Q!Release
<1>3. ASSUME NEW S \in SUBSET Tasks, Q!Cancel(S)
      PROVE  /\ task' = task
             /\ \A t \in Tasks : state'[t] = "running" => state[t] = "running" /\ owner'[t] = owner[t]
  BY <1>2, <1>3 DEF Q!Cancel
<1>4. ASSUME NEW S \in SUBSET Tasks, Q!RemoveRows(S)
      PROVE  /\ task' = task
             /\ \A t \in Tasks : state'[t] = "running" => state[t] = "running" /\ owner'[t] = owner[t]
  BY <1>2, <1>4 DEF Q!RemoveRows
<1>5. ASSUME NEW t \in Tasks, Q!Enqueue(t) \/ Q!LeaseExpires(t) \/ Q!BackoffElapses(t)
      PROVE  /\ task' = task
             /\ \A u \in Tasks : state'[u] = "running" => state[u] = "running" /\ owner'[u] = owner[u]
  BY <1>1, <1>5 DEF Q!Enqueue, Q!LeaseExpires, Q!BackoffElapses, Q!TypeOK
<1>6. ASSUME Q!ReclaimExpired
      PROVE  /\ task' = task
             /\ \A t \in Tasks : state'[t] = "running" => state[t] = "running" /\ owner'[t] = owner[t]
  BY <1>1, <1>2, <1>6 DEF Q!ReclaimExpired, Q!TypeOK
<1>7. QED
  BY <1>3, <1>4, <1>5, <1>6 DEF Q!CancelTask, Q!CancelDocument, Q!DeleteDocument, Q!PurgeFinished

\* What ties threads, tasks, loops and running rows together.
Rest == ThreadIsTask /\ ThreadIsAwaited /\ DownIsQuiet /\ RunningHasRunner

\* A step that keeps tasks, threads and running rows, that forgets nothing and
\* returns from no loop with a thread, keeps what ties them together.
LEMMA RestStays ==
  ASSUME IInv, QP!IInv',
         task' = task, thread' = thread, orphaned' = orphaned,
         \A t \in Tasks : state'[t] = "running" => state[t] = "running" /\ owner'[t] = owner[t],
         \A w \in Owners : w \in consuming /\ thread[w] # "none" => w \in consuming',
         ~up' => consuming' = {}
  PROVE  Rest'
  BY DEF IInv, Rest, ThreadIsTask, ThreadIsAwaited, DownIsQuiet, RunningHasRunner

\* A claim gives the consumer a thread and a task, and the row an owner that
\* had no other.
LEMMA ConsumeKeepsRest ==
  ASSUME IInv, NEW w \in Owners, Consume(w)
  PROVE  Rest'
<1>1. PICK t \in Tasks :
        /\ state' = [state EXCEPT ![t] = "running"]
        /\ owner' = [owner EXCEPT ![t] = w]
        /\ task' = [task EXCEPT ![w] = t]
  BY DEF Consume, Q!Claim, Q!Claimable
<1>2. /\ task[w] = NoTask /\ w \in consuming
      /\ thread' = [thread EXCEPT ![w] = "working"]
      /\ orphaned' = orphaned \ {task'[w]}
      /\ UNCHANGED <<up, consuming>>
  BY DEF Consume, Q!Claim, loopVars
<1>3. Q!TypeOK /\ LoopsTyped
  BY QueueFacts DEF IInv
<1>4. ThreadIsTask' /\ ThreadIsAwaited' /\ DownIsQuiet'
  BY <1>1, <1>2, <1>3, WorkerAssumption
     DEF IInv, ThreadIsTask, ThreadIsAwaited, DownIsQuiet, LoopsTyped, Q!TypeOK,
         Q!ConstantsAssumption
<1>5. RunningHasRunner'
  <2> SUFFICES ASSUME NEW u \in Tasks, state'[u] = "running"
               PROVE  task'[owner'[u]] = u \/ u \in orphaned'
    BY DEF RunningHasRunner
  <2>1. CASE u = t
    BY <1>1, <1>3, <2>1 DEF Q!TypeOK
  <2>2. CASE u # t
    <3>1. state[u] = "running" /\ owner'[u] = owner[u]
      BY <1>1, <1>3, <2>2 DEF Q!TypeOK
    <3>2. CASE u \in orphaned
      <4>1. task'[w] = t
        BY <1>1, <1>3 DEF Q!TypeOK
      <4>2. QED
        BY <1>2, <2>2, <3>2, <4>1
    <3>3. CASE u \notin orphaned
      <4>1. owner[u] \in Owners /\ task[owner[u]] = u
        BY <1>3, <3>1, <3>3, QueueFacts DEF IInv, RunningHasRunner, Q!TypeOK
      <4>2. owner[u] # w
        BY <1>2, <4>1, WorkerAssumption DEF Q!ConstantsAssumption
      <4>3. QED
        BY <1>1, <1>3, <3>1, <4>1, <4>2 DEF Q!TypeOK
    <3>4. QED
      BY <3>2, <3>3
  <2>3. QED
    BY <2>1, <2>2
<1>6. QED
  BY <1>4, <1>5 DEF Rest

\* A write-back takes thread and task away together; if the row was the
\* consumer's it does not run any more, and if not it had no such row.
LEMMA SettleKeepsRest ==
  ASSUME IInv, NEW w \in Owners, Settle(w)
  PROVE  Rest'
<1>1. PICK s \in {"pending", "succeeded", "failed", "canceled"}, later \in SUBSET {task[w]} :
        Q!WriteBack(w, s, later)
  BY SettleLetsGo
<1>2. /\ task[w] # NoTask
      /\ task' = [task EXCEPT ![w] = NoTask]
      /\ thread' = [thread EXCEPT ![w] = "none"]
      /\ UNCHANGED <<up, consuming, orphaned>>
  BY <1>1 DEF Settle, Q!WriteBack, mishaps
<1>3. Q!TypeOK /\ LoopsTyped
  BY QueueFacts DEF IInv
<1>4. ThreadIsTask' /\ ThreadIsAwaited' /\ DownIsQuiet'
  BY <1>2, <1>3 DEF IInv, ThreadIsTask, ThreadIsAwaited, DownIsQuiet, LoopsTyped, Q!TypeOK
<1>5. RunningHasRunner'
  <2> SUFFICES ASSUME NEW u \in Tasks, state'[u] = "running", u \notin orphaned
               PROVE  task'[owner'[u]] = u
    BY <1>2 DEF RunningHasRunner
  <2>1. state[u] = "running" /\ owner'[u] = owner[u] /\ ~(u = task[w] /\ owner[u] = w)
    BY <1>1, <1>3 DEF Q!WriteBack, Q!Holds, Q!Release, Q!TypeOK
  <2>2. owner[u] \in Owners /\ task[owner[u]] = u
    BY <1>3, <2>1, QueueFacts DEF IInv, RunningHasRunner, Q!TypeOK
  <2>3. QED
    BY <1>2, <1>3, <2>1, <2>2 DEF Q!TypeOK
<1>6. QED
  BY <1>4, <1>5 DEF Rest

\* Consumers that let go of their tasks leave the rows to the orphans, and keep
\* neither thread nor task.
LEMMA ForgettingKeepsRunners ==
  ASSUME IInv, NEW W \in SUBSET Owners, UNCHANGED <<state, owner>>,
         task' = [w \in Owners |-> IF w \in W THEN NoTask ELSE task[w]],
         orphaned' = orphaned \cup InHandsOf(W)
  PROVE  RunningHasRunner'
<1> SUFFICES ASSUME NEW u \in Tasks, state[u] = "running", u \notin orphaned
             PROVE  task'[owner[u]] = u \/ u \in InHandsOf(W)
  BY DEF RunningHasRunner
<1>1. owner[u] \in Owners /\ task[owner[u]] = u
  BY QueueFacts DEF IInv, RunningHasRunner, Q!TypeOK
<1>2. CASE owner[u] \in W
  BY <1>1, <1>2 DEF InHandsOf, Q!Holds
<1>3. CASE owner[u] \notin W
  BY <1>1, <1>3
<1>4. QED
  BY <1>2, <1>3

\* An outcome that cannot be written costs the consumer its thread and its task.
LEMMA SettleFailsKeepsRest ==
  ASSUME IInv, NEW w \in Owners, SettleFails(w)
  PROVE  Rest'
<1>1. /\ task' = [v \in Owners |-> IF v \in {w} THEN NoTask ELSE task[v]]
      /\ thread' = [thread EXCEPT ![w] = "none"]
      /\ orphaned' = orphaned \cup InHandsOf({w})
      /\ UNCHANGED <<up, consuming, state, owner>>
  BY DEF SettleFails, Q!Forget, Q!rowVars, loopVars
<1>2. RunningHasRunner'
  <2>1. {w} \in SUBSET Owners
    OBVIOUS
  <2>2. QED
    BY <1>1, <2>1, ForgettingKeepsRunners
<1>3. Q!TypeOK /\ LoopsTyped
  BY QueueFacts DEF IInv
<1>4. ThreadIsTask' /\ ThreadIsAwaited' /\ DownIsQuiet'
  BY <1>1, <1>3 DEF IInv, ThreadIsTask, ThreadIsAwaited, DownIsQuiet, LoopsTyped, Q!TypeOK
<1>5. QED
  BY <1>2, <1>4 DEF Rest

\* The other steps of a consumer.
LEMMA ConsumerKeepsRest ==
  ASSUME IInv, QP!IInv', NEW w \in Owners, ConsumerStep(w)
  PROVE  Rest'
<1>1. CASE Consume(w)
  BY <1>1, ConsumeKeepsRest
<1>2. CASE Settle(w)
  BY <1>2, SettleKeepsRest
<1>3. CASE Maintain(w) \/ Reclaim(w)
  <2>1. /\ task' = task
        /\ \A t \in Tasks : state'[t] = "running" => state[t] = "running" /\ owner'[t] = owner[t]
    BY <1>3, OthersRelease DEF Maintain, Reclaim, IInv
  <2>2. UNCHANGED <<loopVars, thread, mishaps>>
    BY <1>3 DEF Maintain, Reclaim
  <2>3. QED
    BY <2>1, <2>2, RestStays DEF IInv, DownIsQuiet, loopVars, mishaps
<1>4. ASSUME NEW o \in Outcomes, ThreadEnds(w, o)
      PROVE  Rest'
  BY <1>4
     DEF ThreadEnds, IInv, LoopsTyped, Rest, ThreadIsTask, ThreadIsAwaited, DownIsQuiet,
         RunningHasRunner, Outcomes, queueVars, loopVars, mishaps
<1>5. CASE BeatExtends(w) \/ BeatLoses(w)
  <2>1. UNCHANGED <<state, owner, task, thread, orphaned, up, consuming>>
    BY <1>5 DEF BeatExtends, BeatLoses, Q!Heartbeat, queueVars, mishaps
  <2>2. QED
    BY <2>1, RestStays DEF IInv, DownIsQuiet
<1>6. CASE Returns(w)
  <2>1. UNCHANGED <<state, owner, task, thread, orphaned, up>>
    BY <1>6 DEF Returns, ConsumeReturns, BeatReturns, ReclaimReturns, queueVars, mishaps
  <2>2. consuming' = consuming \/ (consuming' = consuming \ {w} /\ thread[w] = "none")
    BY <1>6 DEF Returns, ConsumeReturns, BeatReturns, ReclaimReturns
  <2>3. QED
    BY <2>1, <2>2, RestStays DEF IInv, DownIsQuiet
<1>7. CASE SettleFails(w)
  BY <1>7, SettleFailsKeepsRest
<1>8. QED
  BY <1>1, <1>2, <1>3, <1>4, <1>5, <1>6, <1>7 DEF ConsumerStep

\* The steps of the process.
LEMMA ProcessKeepsRest ==
  ASSUME IInv, QP!IInv', ProcessStep
  PROVE  Rest'
<1>1. CASE Shutdown
  <2>1. UNCHANGED <<state, owner, task, thread, orphaned, up, consuming>>
    BY <1>1 DEF Shutdown, queueVars
  <2>2. QED
    BY <2>1, RestStays DEF IInv, DownIsQuiet
<1>2. CASE Exit
  <2>1. UNCHANGED <<state, owner, task, thread, orphaned, consuming>>
    BY <1>2 DEF Exit, queueVars, mishaps
  <2>2. consuming = {}
    BY <1>2 DEF Exit, Returned, IInv, LoopsTyped
  <2>3. QED
    BY <2>1, <2>2, RestStays
<1>3. CASE Crash
  <2>1. /\ thread' = [w \in Owners |-> "none"]
        /\ consuming' = {}
        /\ orphaned' = orphaned \cup InHandsOf(Owners)
    BY <1>3 DEF Crash
  <2>2. task' = [w \in Owners |-> IF w \in Owners THEN NoTask ELSE task[w]]
    <3>1. Q!TypeOK
      BY QueueFacts DEF IInv
    <3>2. QED
      BY <1>3, <3>1 DEF Crash, Q!Forget, queueVars, Q!TypeOK
  <2>3. UNCHANGED <<state, owner>>
    BY <1>3 DEF Crash, Q!Forget, Q!rowVars, queueVars
  <2>4. RunningHasRunner'
    BY <2>1, <2>2, <2>3, ForgettingKeepsRunners
  <2>5. QED
    BY <2>1, <2>2, <2>4 DEF Rest, ThreadIsTask, ThreadIsAwaited, DownIsQuiet
<1>4. CASE Start
  <2>1. UNCHANGED <<state, owner, task, thread, orphaned>> /\ consuming' = Owners /\ up'
    BY <1>4 DEF Start, queueVars, mishaps
  <2>2. QED
    BY <2>1, RestStays
<1>5. QED
  BY <1>1, <1>2, <1>3, <1>4 DEF ProcessStep

\* The loops keep their types.
LEMMA LoopsStayTyped ==
  ASSUME LoopsTyped, [Next]_vars
  PROVE  LoopsTyped'
<1>1. ASSUME NEW w \in Owners, ConsumerStep(w)
      PROVE  LoopsTyped'
  <2>1. CASE Consume(w) \/ Maintain(w) \/ Reclaim(w)
    BY <2>1 DEF Consume, Maintain, Reclaim, LoopsTyped, loopVars, mishaps
  <2>2. CASE Settle(w)
    BY <2>2 DEF Settle, LoopsTyped, mishaps
  <2>3. ASSUME NEW o \in Outcomes, ThreadEnds(w, o)
        PROVE  LoopsTyped'
    BY <2>3 DEF ThreadEnds, LoopsTyped, loopVars, mishaps
  <2>4. CASE BeatExtends(w) \/ BeatLoses(w)
    BY <2>4 DEF BeatExtends, BeatLoses, LoopsTyped, mishaps
  <2>5. CASE Returns(w)
    BY <2>5 DEF Returns, ConsumeReturns, BeatReturns, ReclaimReturns, LoopsTyped, mishaps
  <2>6. CASE SettleFails(w)
    <3>1. faults' \in 0..MaxFaults
      BY <2>6, WorkerAssumption DEF SettleFails, LoopsTyped
    <3>2. thread' \in [Owners -> Outcomes \cup {"none", "working"}]
      BY <2>6 DEF SettleFails, LoopsTyped
    <3>3. orphaned' \subseteq Tasks
      BY <2>6 DEF SettleFails, LoopsTyped, InHandsOf
    <3>4. QED
      BY <2>6, <3>1, <3>2, <3>3 DEF SettleFails, LoopsTyped, loopVars
  <2>7. QED
    BY <1>1, <2>1, <2>2, <2>3, <2>4, <2>5, <2>6 DEF ConsumerStep
<1>2. ASSUME ProcessStep
      PROVE  LoopsTyped'
  <2>1. MaxRestarts \in Nat
    BY WorkerAssumption
  <2>2. CASE Shutdown
    BY <2>1, <2>2 DEF Shutdown, LoopsTyped
  <2>3. CASE Exit
    BY <2>3 DEF Exit, LoopsTyped, mishaps
  <2>4. CASE Crash
    <3>1. thread' \in [Owners -> Outcomes \cup {"none", "working"}]
      BY <2>4 DEF Crash
    <3>2. restarts' \in 0..MaxRestarts
      BY <2>1, <2>4 DEF Crash, LoopsTyped
    <3>3. orphaned' \subseteq Tasks
      BY <2>4 DEF Crash, LoopsTyped, InHandsOf
    <3>4. QED
      BY <2>4, <3>1, <3>2, <3>3 DEF Crash, LoopsTyped
  <2>5. CASE Start
    BY <2>5 DEF Start, LoopsTyped, mishaps
  <2>6. QED
    BY <1>2, <2>2, <2>3, <2>4, <2>5 DEF ProcessStep
<1>3. ASSUME UNCHANGED <<loopVars, thread, mishaps>>
      PROVE  LoopsTyped'
  BY <1>3 DEF LoopsTyped, loopVars, mishaps
<1>4. ASSUME Submit \/ UserStop \/ (\E t \in Tasks : Lapse(t) \/ Backoff(t)) \/ UNCHANGED vars
      PROVE  UNCHANGED <<loopVars, thread, mishaps>>
  BY <1>4 DEF Submit, UserStop, UserCancel, Lapse, Backoff, OnTable, vars
<1>5. QED
  BY <1>1, <1>2, <1>3, <1>4 DEF Next

-----------------------------------------------------------------------------
(* The invariant                                                           *)

\* The queue is empty and the consumers' hands with it.
LEMMA InitEstablishesIInv == Init => IInv
<1> SUFFICES ASSUME Init
             PROVE  IInv
  OBVIOUS
<1>1. QP!IInv
  BY SameInit, QP!InitEstablishesIInv, WorkerAssumption
     DEF Init, Q!ConstantsAssumption, QP!ConstantsAssumption
<1>2. LoopsTyped
  <2>1. MaxRestarts \in Nat
    BY WorkerAssumption
  <2>2. thread \in [Owners -> Outcomes \cup {"none", "working"}]
    BY DEF Init
  <2>3. restarts \in 0..MaxRestarts /\ faults \in 0..MaxFaults
    BY <2>1, WorkerAssumption DEF Init
  <2>4. QED
    BY <2>2, <2>3 DEF Init, LoopsTyped
<1>3. ThreadIsTask /\ ThreadIsAwaited /\ DownIsQuiet /\ RunningHasRunner
  BY DEF Init, Q!Init, ThreadIsTask, ThreadIsAwaited, DownIsQuiet, RunningHasRunner
<1>4. QED
  BY <1>1, <1>2, <1>3 DEF IInv

\* Every step of consumers, process, users and clock keeps the invariant.
LEMMA NextKeepsIInv == IInv /\ [Next]_vars => IInv'
<1> SUFFICES ASSUME IInv, [Next]_vars
             PROVE  IInv'
  OBVIOUS
<1>1. QP!IInv'
  BY QueueStays DEF IInv
<1>2. LoopsTyped'
  BY LoopsStayTyped DEF IInv
<1>3. Rest'
  <2>1. ASSUME NEW w \in Owners, ConsumerStep(w)
        PROVE  Rest'
    BY <1>1, <2>1, ConsumerKeepsRest
  <2>2. CASE ProcessStep
    BY <1>1, <2>2, ProcessKeepsRest
  <2>3. CASE Submit \/ UserStop \/ \E t \in Tasks : Lapse(t) \/ Backoff(t)
    <3>1. /\ task' = task
          /\ \A t \in Tasks : state'[t] = "running" => state[t] = "running" /\ owner'[t] = owner[t]
      BY <2>3, OthersRelease DEF Submit, UserStop, UserCancel, Lapse, Backoff, OnTable, IInv
    <3>2. UNCHANGED <<loopVars, thread, mishaps>>
      BY <2>3 DEF Submit, UserStop, UserCancel, Lapse, Backoff, OnTable
    <3>3. QED
      BY <1>1, <3>1, <3>2, RestStays DEF IInv, DownIsQuiet, loopVars, mishaps
  <2>4. CASE UNCHANGED vars
    BY <1>1, <2>4, RestStays DEF IInv, DownIsQuiet, vars, loopVars, queueVars, mishaps
  <2>5. QED
    BY <2>1, <2>2, <2>3, <2>4 DEF Next
<1>4. QED
  BY <1>1, <1>2, <1>3 DEF IInv, Rest

\* The invariant holds in every reachable state.
THEOREM WorkerInvariant == Spec => []IInv
  BY InitEstablishesIInv, NextKeepsIInv, PTL DEF Spec

\* Every variable keeps its type.
THEOREM WorkerTypeCorrect == Spec => []TypeOK
<1>1. IInv => TypeOK
  BY QueueFacts DEF IInv, LoopsTyped, TypeOK
<1>2. QED
  BY <1>1, WorkerInvariant, PTL

\* A running row has a consumer that executes it, unless that consumer crashed
\* or could not write the outcome and nobody claimed the task since: shutdown
\* drains what it started (queue_worker.run_forever, main.lifespan).
THEOREM RunningAlwaysHasRunner == Spec => []RunningHasRunner
  BY WorkerInvariant, PTL DEF IInv

\* No thread outlives its process: when the process has gone, by an orderly
\* exit or not, nothing that it started is still at work.
THEOREM ThreadsAreDrained == Spec => [](~up => \A w \in Owners : thread[w] = "none")
<1>1. IInv => (~up => \A w \in Owners : thread[w] = "none")
  BY DEF IInv, DownIsQuiet, ThreadIsAwaited
<1>2. QED
  BY <1>1, WorkerInvariant, PTL

\* The process implements the abstract lifecycle of a task: what the queue
\* implements, its consumers do.
THEOREM WorkerImplementsLifecycle == Spec => QP!ImplementsLifecycle
<1>1. Q!Spec => QP!Spec
  BY SameInit, SameNext, PTL DEF Q!Spec, QP!Spec
<1>2. QP!Spec => QP!ImplementsLifecycle
  BY QP!QueueImplementsLifecycle, WorkerAssumption DEF Q!ConstantsAssumption, QP!ConstantsAssumption
<1>3. QED
  BY <1>1, <1>2, WorkerImplementsQueue, PTL

=============================================================================
