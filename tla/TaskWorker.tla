----------------------------- MODULE TaskWorker -----------------------------
(***************************************************************************)
(* One server process and the consumers it embeds (workers/queue_worker.py,*)
(* main.py).  Each consumer runs a consume, a beat and a reclaim loop on   *)
(* the event loop and its task in a thread; the consumers share the event  *)
(* `stop` that the application's lifespan hands to every run_forever.      *)
(* The statements on the task table are TaskQueue's.                       *)
(*                                                                         *)
(* An action is what runs between two awaits of one loop; a thread is      *)
(* abstracted to its outcome.  The schedule loop is module Schedules'.     *)
(***************************************************************************)
EXTENDS Naturals

CONSTANTS Tasks, Owners, Docs, DocOf, MaxAttempts, NoOwner, NoTask, NoDoc,
          MaxRestarts,  \* bound on the crashes and shutdowns of one behaviour
          MaxFaults    \* bound on the outcomes of one behaviour that cannot be written

VARIABLES state, attempts, owner, expired, deferred, born, clock, docs, task, seen

VARIABLES
    up,         \* the process is running
    closing,    \* the application's lifespan is past its yield
    stop,       \* the stop event shared by all consumers
    lost,       \* consumers whose _lease_lost event is set
    consuming,  \* consumers whose consume loop has not returned
    beating,    \* consumers whose beat loop has not returned
    reclaiming, \* consumers whose reclaim loop has not returned
    thread,     \* thread[w]: "none", "working" or the outcome not yet picked up
    restarts,    \* crashes and shutdowns so far
    faults,     \* outcomes so far that could not be written
    orphaned    \* history: tasks whose consumer let go of them while it owned the
                \* row, by a crash or a failed write, and that nobody claimed since

Q == INSTANCE TaskQueue

ASSUME WorkerAssumption ==
    /\ Q!ConstantsAssumption
    /\ MaxRestarts \in Nat
    /\ MaxFaults \in Nat

queueVars == <<state, attempts, owner, expired, deferred, born, clock, docs, task, seen>>
loopVars  == <<up, closing, stop, lost, consuming, beating, reclaiming>>
mishaps   == <<restarts, faults, orphaned>>
vars      == <<queueVars, loopVars, thread, mishaps>>

Outcomes == {"ok", "canceled", "retryable", "fatal"}

Init ==
    /\ Q!Init
    /\ up = TRUE
    /\ closing = FALSE
    /\ stop = FALSE
    /\ lost = {}
    /\ consuming = Owners
    /\ beating = Owners
    /\ reclaiming = Owners
    /\ thread = [w \in Owners |-> "none"]
    /\ restarts = 0
    /\ faults = 0
    /\ orphaned = {}

-----------------------------------------------------------------------------
(* The loops of a consumer *)

\* Mutant: a lost lease does not stop the loops.
StoppingOnEvent(w) == stop

Stopping(w) == stop \/ w \in lost

\* run_once up to its await: claim, then hand the task to a thread.
Consume(w) ==
    /\ w \in consuming /\ thread[w] = "none" /\ ~Stopping(w)
    /\ Q!Claim(w)
    /\ thread' = [thread EXCEPT ![w] = "working"]
    /\ orphaned' = orphaned \ {task'[w]}
    /\ UNCHANGED <<loopVars, restarts, faults>>

\* An idle consumer runs the maintenance instead.
Maintain(w) ==
    /\ w \in consuming /\ thread[w] = "none" /\ ~Stopping(w)
    /\ Q!Claimable = {}
    /\ \E S \in SUBSET Tasks : Q!PurgeFinished(S)
    /\ UNCHANGED <<loopVars, thread, mishaps>>

\* The thread returns or raises.  It raises IngestCanceled only if it finds its
\* document canceled; that its task was canceled or removed stands for it here.
ThreadEnds(w, outcome) ==
    /\ thread[w] = "working"
    /\ outcome = "canceled" => state[task[w]] \in {"canceled", "gone"}
    /\ thread' = [thread EXCEPT ![w] = outcome]
    /\ UNCHANGED <<queueVars, loopVars, mishaps>>

\* run_once after its await.  Only the success path takes a failed write for a
\* lost lease; a cancel or a failure that cannot be written is just logged.
Settle(w) ==
    /\ w \in consuming
    /\ CASE thread[w] = "ok"        -> Q!Succeed(w)
         [] thread[w] = "canceled"  -> Q!FinishCancel(w)
         [] thread[w] = "retryable" -> Q!RetryOrFail(w, TRUE)
         [] thread[w] = "fatal"     -> Q!RetryOrFail(w, FALSE)
         [] OTHER                   -> FALSE
    /\ lost' = IF thread[w] = "ok" /\ ~Q!Holds(w, task[w]) THEN lost \cup {w} ELSE lost
    /\ thread' = [thread EXCEPT ![w] = "none"]
    /\ UNCHANGED <<up, closing, stop, consuming, beating, reclaiming, mishaps>>

\* The tasks whose rows say that one of W executes them, and rightly so.
InHandsOf(W) == {t \in Tasks : \E w \in W : task[w] = t /\ Q!Holds(w, t)}

\* finish_task or reschedule_task raises: _consume_loop catches it and goes on,
\* and the row stays with a consumer that has turned to other things.
SettleFails(w) ==
    /\ w \in consuming
    /\ thread[w] \in Outcomes
    /\ faults < MaxFaults
    /\ faults' = faults + 1
    /\ orphaned' = orphaned \cup InHandsOf({w})
    /\ Q!Forget({w})
    /\ thread' = [thread EXCEPT ![w] = "none"]
    /\ UNCHANGED <<loopVars, restarts>>

\* The lease of the task in hand is extended; at shutdown once more before
\* the loop condition is looked at.
BeatExtends(w) ==
    /\ w \in beating \ lost
    /\ Q!Heartbeat(w)
    /\ beating' = IF stop THEN beating \ {w} ELSE beating
    /\ UNCHANGED <<up, closing, stop, lost, consuming, reclaiming, thread, mishaps>>

\* Mutant: the lost task is recorded in place of its consumer.
BeatLosesTask(w) ==
    /\ w \in beating \ lost
    /\ task[w] # NoTask
    /\ ~Q!Holds(w, task[w])
    /\ lost' = lost \cup {task[w]}
    /\ stop' = TRUE
    /\ beating' = beating \ {w}
    /\ UNCHANGED <<queueVars, up, closing, consuming, reclaiming, thread, mishaps>>

\* The statement matches no row: the lease counts as lost and the stop event
\* is set along with it.
BeatLoses(w) ==
    /\ w \in beating \ lost
    /\ task[w] # NoTask
    /\ ~Q!Holds(w, task[w])
    /\ lost' = lost \cup {w}
    /\ stop' = TRUE
    /\ beating' = beating \ {w}
    /\ UNCHANGED <<queueVars, up, closing, consuming, reclaiming, thread, mishaps>>

Reclaim(w) ==
    /\ w \in reclaiming /\ ~Stopping(w)
    /\ Q!ReclaimExpired
    /\ UNCHANGED <<loopVars, thread, mishaps>>

\* Mutant: the consume loop is canceled and lets go of its task.
ConsumeIsCanceled(w) ==
    /\ w \in consuming /\ Stopping(w)
    /\ consuming' = consuming \ {w}
    /\ IF task[w] = NoTask THEN UNCHANGED queueVars ELSE Q!Forget({w})
    /\ thread' = [thread EXCEPT ![w] = "none"]
    /\ UNCHANGED <<up, closing, stop, lost, beating, reclaiming, mishaps>>

\* A loop that finds the stop event or the lost lease returns; the consume loop
\* looks only between two runs, the beat loop with a task in hand beats first.
ConsumeReturns(w) ==
    /\ w \in consuming /\ thread[w] = "none" /\ Stopping(w)
    /\ consuming' = consuming \ {w}
    /\ UNCHANGED <<queueVars, up, closing, stop, lost, beating, reclaiming, thread, mishaps>>

\* Mutant: an idle beat loop goes on after the stop event.
BeatReturnsOnLoss(w) ==
    /\ w \in beating
    /\ w \in lost
    /\ beating' = beating \ {w}
    /\ UNCHANGED <<queueVars, up, closing, stop, lost, consuming, reclaiming, thread, mishaps>>

BeatReturns(w) ==
    /\ w \in beating
    /\ w \in lost \/ (stop /\ task[w] = NoTask)
    /\ beating' = beating \ {w}
    /\ UNCHANGED <<queueVars, up, closing, stop, lost, consuming, reclaiming, thread, mishaps>>

ReclaimReturns(w) ==
    /\ w \in reclaiming /\ Stopping(w)
    /\ reclaiming' = reclaiming \ {w}
    /\ UNCHANGED <<queueVars, up, closing, stop, lost, consuming, beating, thread, mishaps>>

Returns(w) == ConsumeReturns(w) \/ BeatReturns(w) \/ ReclaimReturns(w)

Returned(w) == w \notin consuming \cup beating \cup reclaiming

-----------------------------------------------------------------------------
(* The process *)

\* The application goes down: the lifespan sets the stop event ...
Shutdown ==
    /\ up /\ ~closing
    /\ restarts < MaxRestarts
    /\ restarts' = restarts + 1
    /\ closing' = TRUE
    /\ stop' = TRUE
    /\ UNCHANGED <<queueVars, up, lost, consuming, beating, reclaiming, thread, faults, orphaned>>

\* ... and waits for every run_forever, which drains its thread first.
Exit ==
    /\ up /\ closing
    /\ \A w \in Owners : Returned(w)
    /\ up' = FALSE
    /\ UNCHANGED <<queueVars, closing, stop, lost, consuming, beating, reclaiming, thread, mishaps>>

Crash ==
    /\ up
    /\ restarts < MaxRestarts
    /\ restarts' = restarts + 1
    /\ orphaned' = orphaned \cup InHandsOf(Owners)
    /\ Q!Forget(Owners) \/ ((\A w \in Owners : task[w] = NoTask) /\ UNCHANGED queueVars)
    /\ up' = FALSE
    /\ thread' = [w \in Owners |-> "none"]
    /\ consuming' = {} /\ beating' = {} /\ reclaiming' = {}
    /\ UNCHANGED <<closing, stop, lost, faults>>

\* Mutant: the new process does not start the reclaim loops.
StartWithoutReclaim ==
    /\ ~up
    /\ up' = TRUE
    /\ closing' = FALSE
    /\ stop' = FALSE
    /\ lost' = {}
    /\ consuming' = Owners /\ beating' = Owners /\ reclaiming' = {}
    /\ UNCHANGED <<queueVars, thread, mishaps>>

\* A new process under the same consumer names (worker-<pid>-<index>, and the
\* pid of a container's only process is always the same).
Start ==
    /\ ~up
    /\ up' = TRUE
    /\ closing' = FALSE
    /\ stop' = FALSE
    /\ lost' = {}
    /\ consuming' = Owners /\ beating' = Owners /\ reclaiming' = Owners
    /\ UNCHANGED <<queueVars, thread, mishaps>>

-----------------------------------------------------------------------------
(* The API and the clock act on the table only *)

OnTable(A) == A /\ UNCHANGED <<loopVars, thread, mishaps>>

Submit   == \E t \in Tasks : OnTable(Q!Enqueue(t))
UserCancel == \E d \in Docs : OnTable(Q!CancelDocument(d))
UserStop ==
    \/ UserCancel
    \/ \E t \in Tasks : OnTable(Q!CancelTask(t))
    \/ \E d \in Docs : OnTable(Q!DeleteDocument(d))
Backoff(t) == OnTable(Q!BackoffElapses(t))
Lapse(t)   == OnTable(Q!LeaseExpires(t))
OrphanLapse(t) == OnTable(Q!OrphanExpires(t))

ConsumerStep(w) ==
    \/ Consume(w) \/ Maintain(w) \/ Settle(w) \/ SettleFails(w)
    \/ \E o \in Outcomes : ThreadEnds(w, o)
    \/ BeatExtends(w) \/ BeatLoses(w) \/ Reclaim(w) \/ Returns(w)

ProcessStep == Shutdown \/ Exit \/ Crash \/ Start

Next ==
    \/ \E w \in Owners : ConsumerStep(w)
    \/ ProcessStep
    \/ Submit
    \/ UserStop
    \/ \E t \in Tasks : Lapse(t) \/ Backoff(t)

Spec == Init /\ [][Next]_vars

\* What keeps the queue moving while the process is up: its loops are polled, a
\* thread ends, clocks run.
Fairness ==
    /\ \A w \in Owners :
         /\ WF_vars(Consume(w)) /\ WF_vars(Settle(w)) /\ WF_vars(Returns(w))
         /\ WF_vars(\E o \in Outcomes : ThreadEnds(w, o))
         /\ WF_vars(BeatLoses(w))
         /\ WF_vars(Reclaim(w))
    /\ \A t \in Tasks : WF_vars(OrphanLapse(t)) /\ WF_vars(Backoff(t))

\* Everything that may happen, and a lifespan that goes on once all it waits for
\* has returned.
FairSpec == Spec /\ Fairness /\ WF_vars(Exit)

\* Without users who stop things, and with beats that arrive in time, so that
\* only a dead consumer's lease runs out.  The process may crash, and then the
\* container restarts it (restart: unless-stopped).
CalmNext ==
    \/ \E w \in Owners : ConsumerStep(w)
    \/ ProcessStep
    \/ Submit
    \/ \E t \in Tasks : OrphanLapse(t) \/ Backoff(t)

CalmSpec == Init /\ [][CalmNext]_vars /\ Fairness /\ WF_vars(Exit) /\ WF_vars(Start)

\* A process that stays up, beats in time, and users who cancel documents.
ServingNext ==
    \/ \E w \in Owners : ConsumerStep(w)
    \/ Submit
    \/ UserCancel
    \/ \E t \in Tasks : OrphanLapse(t) \/ Backoff(t)

ServingSpec == Init /\ [][ServingNext]_vars /\ Fairness

-----------------------------------------------------------------------------
(* Properties *)

\* Every variable of the process keeps its type (the table's are TaskQueue's).
TypeOK ==
    /\ Q!TypeOK
    /\ up \in BOOLEAN /\ closing \in BOOLEAN /\ stop \in BOOLEAN
    /\ lost \subseteq Owners
    /\ consuming \subseteq Owners /\ beating \subseteq Owners /\ reclaiming \subseteq Owners
    /\ thread \in [Owners -> Outcomes \cup {"none", "working"}]
    /\ restarts \in 0..MaxRestarts

\* A row that says running has a consumer executing it, or is one its consumer
\* was forced to let go of, by a crash or a write that failed: a lost lease, a
\* cancel or a shutdown leave none behind, and whoever claims a task of that
\* kind later has it in hand again.
RunningHasRunner ==
    \A t \in Tasks : state[t] = "running" => task[owner[t]] = t \/ t \in orphaned

\* A shutdown comes to its end: the lifespan waits for every run_forever, each of
\* these for all of its loops, and the consume loop for its thread.
ShutdownCompletes == closing ~> ~up

\* A consumer that learned that its lease is gone winds up all of its loops,
\* whichever of them learned it and whether or not the stop event was set: none
\* goes on claiming, beating or reclaiming until a new process is started.
LostConsumersReturn ==
    lost # {} ~> \A w \in lost : Returned(w)

\* Whatever crashes or cannot be written, a queued task ends or is removed.
QueuedTaskEnds ==
    \A t \in Tasks : state[t] = "pending" ~> state[t] \in Q!Terminal \cup {"gone"}

\* Canceling a document stops that document's run and nothing else: a task that
\* is queued is sooner or later taken out of the queue.  The code does not give
\* it: the beat loop takes the cancel for a lost lease and sets the event that
\* stops every consumer.
QueueIsServed ==
    \A t \in Tasks : state[t] = "pending" ~> state[t] # "pending"
=============================================================================
