----------------------------- MODULE TaskQueue -----------------------------
(***************************************************************************)
(* The task table used as a queue, one action per statement of the store   *)
(* (storage/postgres_impl/meta_store.py), driven by the sequential         *)
(* consumers of workers/queue_worker.py.                                   *)
(*                                                                         *)
(* A consumer is identified by its owner name.  It keeps a private copy of *)
(* the row it claimed (task, seen); the row lives on in the table, where   *)
(* reclaim, cancel and delete may change it behind the consumer's back.    *)
(* The clock is abstracted: a lease is either live or in `expired`, a      *)
(* back-off is either over or in `deferred`.                               *)
(***************************************************************************)
EXTENDS Naturals

CONSTANTS
    Tasks,        \* task ids; an id is enqueued at most once (uuid)
    Owners,       \* consumer names, one sequential consumer each
    Docs,         \* document ids
    DocOf,        \* DocOf[t]: the document of t, or NoDoc
    MaxAttempts,  \* MaxAttempts[t]: the max_attempts column of t
    NoOwner, NoTask, NoDoc

ASSUME ConstantsAssumption ==
    /\ NoOwner \notin Owners
    /\ NoTask \notin Tasks
    /\ NoDoc \notin Docs
    /\ DocOf \in [Tasks -> Docs \cup {NoDoc}]
    /\ MaxAttempts \in [Tasks -> Nat \ {0}]

VARIABLES
    state,     \* state[t]: TaskState, or "absent" before and "gone" after the row exists
    attempts,  \* attempts[t]
    owner,     \* owner[t]: lease_owner, NoOwner for NULL
    expired,   \* tasks whose lease_expires_at has passed
    deferred,  \* tasks whose next_run_at lies in the future
    born,      \* born[t]: created_at, as the rank of the enqueue
    clock,     \* number of enqueues so far
    docs,      \* documents that exist: tasks.document_id refers to them
    task,      \* task[w]: the task w is executing, NoTask when it is idle
    seen       \* seen[w]: the attempts value w read when it claimed task[w]

rowVars == <<state, attempts, owner, expired, deferred, born, clock, docs>>
vars == <<state, attempts, owner, expired, deferred, born, clock, docs, task, seen>>

Live     == {"pending", "running"}
Terminal == {"succeeded", "failed", "canceled"}
States   == Live \cup Terminal \cup {"absent", "gone"}

Init ==
    /\ state = [t \in Tasks |-> "absent"]
    /\ attempts = [t \in Tasks |-> 0]
    /\ owner = [t \in Tasks |-> NoOwner]
    /\ expired = {}
    /\ deferred = {}
    /\ born = [t \in Tasks |-> 0]
    /\ clock = 0
    /\ docs = Docs
    /\ task = [w \in Owners |-> NoTask]
    /\ seen = [w \in Owners |-> 0]

-----------------------------------------------------------------------------
(* The statements of the store *)

\* Mutant: the lease is not cleared along with the state.
ReleaseKeepingOwner(S, s) ==
    /\ state' = [t \in Tasks |-> IF t \in S THEN s[t] ELSE state[t]]
    /\ expired' = expired \ S
    /\ UNCHANGED owner

\* SET state = s(t), lease_owner = NULL, lease_expires_at = NULL for the rows in S.
Release(S, s) ==
    /\ state' = [t \in Tasks |-> IF t \in S THEN s[t] ELSE state[t]]
    /\ owner' = [t \in Tasks |-> IF t \in S THEN NoOwner ELSE owner[t]]
    /\ expired' = expired \ S

Enqueue(t) ==
    /\ state[t] = "absent"
    /\ DocOf[t] \in docs \cup {NoDoc}
    /\ state' = [state EXCEPT ![t] = "pending"]
    /\ clock' = clock + 1
    /\ born' = [born EXCEPT ![t] = clock + 1]
    /\ UNCHANGED <<attempts, owner, expired, deferred, docs, task, seen>>

Claimable == {t \in Tasks : state[t] = "pending" /\ t \notin deferred}

\* Mutant: the copy holds the attempts from before the claim.
ClaimReadingTooEarly(w) ==
    /\ task[w] = NoTask
    /\ \E t \in Claimable :
         /\ \A u \in Claimable : born[t] <= born[u]
         /\ state' = [state EXCEPT ![t] = "running"]
         /\ owner' = [owner EXCEPT ![t] = w]
         /\ expired' = expired \ {t}
         /\ attempts' = [attempts EXCEPT ![t] = @ + 1]
         /\ task' = [task EXCEPT ![w] = t]
         /\ seen' = [seen EXCEPT ![w] = attempts[t]]
    /\ UNCHANGED <<deferred, born, clock, docs>>

\* Mutant: the parameters of the statement are passed in the wrong order.
ClaimSwapped(w) ==
    /\ task[w] = NoTask
    /\ \E t \in Claimable :
         /\ \A u \in Claimable : born[t] <= born[u]
         /\ state' = [state EXCEPT ![t] = w]
         /\ owner' = [owner EXCEPT ![t] = "running"]
         /\ expired' = expired \ {t}
         /\ attempts' = [attempts EXCEPT ![t] = @ + 1]
         /\ task' = [task EXCEPT ![w] = t]
         /\ seen' = [seen EXCEPT ![w] = attempts[t] + 1]
    /\ UNCHANGED <<deferred, born, clock, docs>>

\* Rows locked by another claim are skipped, so claims behave as if they came
\* one after the other, each taking the oldest row that is due.
Claim(w) ==
    /\ task[w] = NoTask
    /\ \E t \in Claimable :
         /\ \A u \in Claimable : born[t] <= born[u]
         /\ state' = [state EXCEPT ![t] = "running"]
         /\ owner' = [owner EXCEPT ![t] = w]
         /\ expired' = expired \ {t}
         /\ attempts' = [attempts EXCEPT ![t] = @ + 1]
         /\ task' = [task EXCEPT ![w] = t]
         /\ seen' = [seen EXCEPT ![w] = attempts[t] + 1]
    /\ UNCHANGED <<deferred, born, clock, docs>>

Holds(w, t) == t \in Tasks /\ owner[t] = w

\* The lease of the task in hand is extended; with the lease gone the
\* statement matches no row (what the worker does then is TaskWorker's).
Heartbeat(w) ==
    /\ Holds(w, task[w])
    /\ state[task[w]] = "running"
    /\ expired' = expired \ {task[w]}
    /\ UNCHANGED <<state, attempts, owner, deferred, born, clock, docs, task, seen>>

\* Mutant: the statements do not test the lease owner.
WriteBackUnfenced(w, s, later) ==
    /\ task[w] # NoTask
    /\ Release({task[w]}, [t \in Tasks |-> s])
    /\ deferred' = deferred \cup later
    /\ task' = [task EXCEPT ![w] = NoTask]
    /\ seen' = [seen EXCEPT ![w] = 0]
    /\ UNCHANGED <<attempts, born, clock, docs>>

\* finish_task and reschedule_task change the row only for its lease owner;
\* either way the consumer lets go of its copy.
WriteBack(w, s, later) ==
    /\ task[w] # NoTask
    /\ IF Holds(w, task[w])
       THEN /\ Release({task[w]}, [t \in Tasks |-> s])
            /\ deferred' = deferred \cup later
       ELSE UNCHANGED <<state, owner, expired, deferred>>
    /\ task' = [task EXCEPT ![w] = NoTask]
    /\ seen' = [seen EXCEPT ![w] = 0]
    /\ UNCHANGED <<attempts, born, clock, docs>>

Succeed(w)      == WriteBack(w, "succeeded", {})
FinishCancel(w) == WriteBack(w, "canceled", {})

\* Mutant: one retry too many.
RetryOnceMore(w, retryable) ==
    /\ task[w] # NoTask
    /\ IF retryable /\ seen[w] <= MaxAttempts[task[w]]
       THEN WriteBack(w, "pending", {task[w]})
       ELSE WriteBack(w, "failed", {})

\* A failure is retried only when the exception is retryable and the copy the
\* consumer read at claim time says there is an attempt left.
RetryOrFail(w, retryable) ==
    /\ task[w] # NoTask
    /\ IF retryable /\ seen[w] < MaxAttempts[task[w]]
       THEN WriteBack(w, "pending", {task[w]})
       ELSE WriteBack(w, "failed", {})

EndRun(w) == Succeed(w) \/ FinishCancel(w) \/ \E r \in BOOLEAN : RetryOrFail(w, r)

\* Mutant: whatever is running is reclaimed, expired or not.
ReclaimRunning ==
    LET running == {t \in Tasks : state[t] = "running"} IN
    /\ running # {}
    /\ Release(running, [t \in Tasks |-> IF attempts[t] >= MaxAttempts[t]
                                         THEN "failed" ELSE "pending"])
    /\ UNCHANGED <<attempts, deferred, born, clock, docs, task, seen>>

\* Both UPDATEs of reclaim_expired_tasks run in one transaction with one `now`.
ReclaimExpired ==
    /\ expired # {}
    /\ Release(expired, [t \in Tasks |-> IF attempts[t] >= MaxAttempts[t]
                                         THEN "failed" ELSE "pending"])
    /\ UNCHANGED <<attempts, deferred, born, clock, docs, task, seen>>

Cancel(S) ==
    LET open == {t \in S : state[t] \in Live} IN
    /\ open # {}
    /\ Release(open, [t \in Tasks |-> "canceled"])
    /\ UNCHANGED <<attempts, deferred, born, clock, docs, task, seen>>

CancelTask(t) == Cancel({t})
CancelDocument(d) == Cancel({t \in Tasks : DocOf[t] = d})

RemoveRows(S) ==
    /\ Release(S, [t \in Tasks |-> "gone"])
    /\ deferred' = deferred \ S
    /\ UNCHANGED <<attempts, born, clock, task, seen>>

\* Deleting the document row deletes its task rows, whatever their state.
DeleteDocument(d) ==
    /\ d \in docs
    /\ docs' = docs \ {d}
    /\ RemoveRows({t \in Tasks : DocOf[t] = d /\ state[t] # "absent"})

\* One statement deletes every finished row older than the retention; which
\* finished rows those are is left open.
PurgeFinished(S) ==
    /\ S # {}
    /\ \A t \in S : state[t] \in Terminal
    /\ RemoveRows(S)
    /\ UNCHANGED docs

-----------------------------------------------------------------------------
(* Time and failures *)

LeaseExpires(t) ==
    /\ state[t] = "running"
    /\ t \notin expired
    /\ expired' = expired \cup {t}
    /\ UNCHANGED <<state, attempts, owner, deferred, born, clock, docs, task, seen>>

BackoffElapses(t) ==
    /\ t \in deferred
    /\ deferred' = deferred \ {t}
    /\ UNCHANGED <<state, attempts, owner, expired, born, clock, docs, task, seen>>

\* Consumers let go of their copies without a word to the table: their process
\* dies (and comes back under the same names), or a write-back raises.
Forget(W) ==
    /\ \E w \in W : task[w] # NoTask
    /\ task' = [w \in Owners |-> IF w \in W THEN NoTask ELSE task[w]]
    /\ seen' = [w \in Owners |-> IF w \in W THEN 0 ELSE seen[w]]
    /\ UNCHANGED rowVars

ConsumerStep(w) == Claim(w) \/ Heartbeat(w) \/ EndRun(w)

Next ==
    \/ \E t \in Tasks : Enqueue(t) \/ CancelTask(t) \/ LeaseExpires(t) \/ BackoffElapses(t)
    \/ \E w \in Owners : ConsumerStep(w)
    \/ \E W \in SUBSET Owners : Forget(W)
    \/ \E d \in Docs : CancelDocument(d) \/ DeleteDocument(d)
    \/ \E S \in SUBSET Tasks : PurgeFinished(S)
    \/ ReclaimExpired

Spec == Init /\ [][Next]_vars

\* A lease nobody extends any more (its consumer died) runs out.
OrphanExpires(t) ==
    /\ \A w \in Owners : task[w] # t
    /\ LeaseExpires(t)

-----------------------------------------------------------------------------
(* Properties *)

\* Every variable keeps the type its declaration names.
TypeOK ==
    /\ state \in [Tasks -> States]
    /\ attempts \in [Tasks -> Nat]
    /\ owner \in [Tasks -> Owners \cup {NoOwner}]
    /\ expired \subseteq Tasks
    /\ deferred \subseteq Tasks
    /\ born \in [Tasks -> Nat]
    /\ clock \in Nat
    /\ docs \subseteq Docs
    /\ task \in [Owners -> Tasks \cup {NoTask}]
    /\ seen \in [Owners -> Nat]

\* A row names a lease owner exactly while it is running.  finish_task and
\* reschedule_task test the owner and not the state, so this is what keeps them
\* off a row that was reclaimed, cancelled or finished meanwhile.
LeaseMatchesState ==
    /\ \A t \in Tasks : (owner[t] # NoOwner) <=> (state[t] = "running")
    /\ \A t \in expired : state[t] = "running"

\* The owner name alone is a fence: a consumer that passes the ownership test
\* of finish_task or reschedule_task is the one that made the current attempt,
\* never the same consumer holding the copy of an earlier attempt.
NameFencesAttempt ==
    \A w \in Owners :
        Holds(w, task[w]) => seen[w] = attempts[task[w]]

\* No task is started more than max_attempts times, and a task back in the
\* queue always has an attempt left: a retry decided on the consumer's copy
\* and a reclaim decided on the row never add up to one attempt too many.
AttemptsBudget ==
    \A t \in Tasks :
        /\ attempts[t] <= MaxAttempts[t]
        /\ state[t] = "pending" => attempts[t] < MaxAttempts[t]

\* Whoever comes late - a consumer after a cancel, a cancel after a finish, a
\* reclaim after either - a finished task keeps its outcome until it is removed.
TerminalIsFinal ==
    [][\A t \in Tasks : state[t] \in Terminal => state'[t] \in {state[t], "gone"}]_vars

\* While its lease is live, a running task goes back to the queue, succeeds or
\* fails only by the hand of the consumer that executes it.
LiveLeaseIsRespected ==
    [][\A t \in Tasks :
          /\ state[t] = "running" /\ t \notin expired
          /\ state'[t] \in {"pending", "succeeded", "failed"}
          => task[owner[t]] = t /\ task'[owner[t]] = NoTask]_vars

\* The table implements the lifecycle it promises.
phaseOf == [t \in Tasks |-> CASE state[t] = "absent"  -> "absent"
                              [] state[t] = "pending" -> "waiting"
                              [] state[t] = "running" -> "started"
                              [] OTHER                -> "ended"]

Lifecycle == INSTANCE TaskLifecycle WITH phase <- phaseOf, starts <- attempts

ImplementsLifecycle == Lifecycle!Spec
=============================================================================
