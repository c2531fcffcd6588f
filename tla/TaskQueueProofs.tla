-------------------------- MODULE TaskQueueProofs --------------------------
(***************************************************************************)
(* The safety properties of TaskQueue for every set of tasks, owners and   *)
(* documents and every attempt budget.  The four state properties are      *)
(* inductive together, and only together: the ownership test of a write    *)
(* back is sound because of LeaseMatchesState, the retry decision taken on *)
(* the consumer's copy is sound because of NameFencesAttempt.              *)
(***************************************************************************)
EXTENDS TaskQueue, TLAPS

\* A row that is not in the table yet has used no attempt.
NothingUsedBefore == \A t \in Tasks : state[t] = "absent" => attempts[t] = 0

\* The inductive invariant of the table and its consumers.
IInv ==
    /\ TypeOK
    /\ LeaseMatchesState
    /\ NameFencesAttempt
    /\ AttemptsBudget
    /\ NothingUsedBefore

\* An empty table satisfies the invariant.
LEMMA InitEstablishesIInv == Init => IInv
  BY ConstantsAssumption
     DEF Init, IInv, TypeOK, LeaseMatchesState, NameFencesAttempt, AttemptsBudget,
         NothingUsedBefore, Holds, States, Live, Terminal

\* Statements that release rows - cancel, delete, purge, reclaim - keep the
\* invariant, as long as a row put back into the queue has an attempt left.
LEMMA ReleaseKeepsIInv ==
  ASSUME IInv,
         NEW S \in SUBSET Tasks, NEW s \in [Tasks -> States],
         \A t \in S : s[t] \notin {"running", "absent"},
         \A t \in S : s[t] = "pending" => attempts[t] < MaxAttempts[t],
         Release(S, s),
         deferred' \subseteq Tasks, docs' \subseteq Docs,
         UNCHANGED <<attempts, born, clock, task, seen>>
  PROVE  IInv'
<1>1. TypeOK'
  BY DEF IInv, TypeOK, Release
<1>2. LeaseMatchesState'
  BY ConstantsAssumption DEF IInv, TypeOK, LeaseMatchesState, Release
<1>3. NameFencesAttempt'
  BY ConstantsAssumption DEF IInv, TypeOK, NameFencesAttempt, Holds, Release
<1>4. AttemptsBudget'
  BY DEF IInv, TypeOK, AttemptsBudget, Release
<1>5. NothingUsedBefore'
  BY DEF IInv, TypeOK, NothingUsedBefore, Release
<1>6. QED
  BY <1>1, <1>2, <1>3, <1>4, <1>5 DEF IInv

\* A consumer that hands its task back, in whatever state, keeps the invariant
\* if "pending" is only written while its copy shows an attempt left.
LEMMA WriteBackKeepsIInv ==
  ASSUME IInv,
         NEW w \in Owners, NEW s \in {"pending", "succeeded", "failed", "canceled"},
         NEW later \in SUBSET Tasks,
         s = "pending" => seen[w] < MaxAttempts[task[w]],
         WriteBack(w, s, later)
  PROVE  IInv'
<1>1. TypeOK'
  BY DEF IInv, TypeOK, WriteBack, Release, Holds, States, Live, Terminal
<1>2. LeaseMatchesState'
  BY ConstantsAssumption DEF IInv, TypeOK, LeaseMatchesState, WriteBack, Release, Holds
<1>3. NameFencesAttempt'
  BY ConstantsAssumption DEF IInv, TypeOK, NameFencesAttempt, WriteBack, Release, Holds
<1>4. AttemptsBudget'
  BY DEF IInv, TypeOK, NameFencesAttempt, AttemptsBudget, WriteBack, Release, Holds
<1>5. NothingUsedBefore'
  BY DEF IInv, TypeOK, NothingUsedBefore, WriteBack, Release, Holds
<1>6. QED
  BY <1>1, <1>2, <1>3, <1>4, <1>5 DEF IInv

\* A claim takes the row from nobody and copies the attempt it just counted.
LEMMA ClaimKeepsIInv ==
  ASSUME IInv, NEW w \in Owners, Claim(w)
  PROVE  IInv'
<1>1. PICK t \in Claimable :
        /\ state' = [state EXCEPT ![t] = "running"]
        /\ owner' = [owner EXCEPT ![t] = w]
        /\ expired' = expired \ {t}
        /\ attempts' = [attempts EXCEPT ![t] = @ + 1]
        /\ task' = [task EXCEPT ![w] = t]
        /\ seen' = [seen EXCEPT ![w] = attempts[t] + 1]
  BY DEF Claim
<1>2. /\ task[w] = NoTask
      /\ UNCHANGED <<deferred, born, clock, docs>>
      /\ t \in Tasks /\ state[t] = "pending"
  BY DEF Claim, Claimable
<1>3. TypeOK'
  BY <1>1, <1>2 DEF IInv, TypeOK, States, Live
<1>4. LeaseMatchesState'
  BY <1>1, <1>2, ConstantsAssumption DEF IInv, TypeOK, LeaseMatchesState
<1>5. NameFencesAttempt'
  <2> SUFFICES ASSUME NEW v \in Owners, Holds(v, task[v])'
               PROVE  seen'[v] = attempts'[task'[v]]
    BY DEF NameFencesAttempt
  <2>1. CASE v = w
    BY <1>1, <1>2, <2>1 DEF IInv, TypeOK
  <2>2. CASE v # w
    BY <1>1, <1>2, <2>2, ConstantsAssumption DEF IInv, TypeOK, NameFencesAttempt, Holds
  <2>3. QED
    BY <2>1, <2>2
<1>6. AttemptsBudget'
  <2> SUFFICES ASSUME NEW u \in Tasks
               PROVE  /\ attempts'[u] <= MaxAttempts[u]
                      /\ state'[u] = "pending" => attempts'[u] < MaxAttempts[u]
    BY DEF AttemptsBudget
  <2>1. MaxAttempts[u] \in Nat /\ attempts[u] \in Nat
    BY ConstantsAssumption DEF IInv, TypeOK
  <2>2. CASE u = t
    BY <1>1, <1>2, <2>1, <2>2 DEF IInv, TypeOK, AttemptsBudget
  <2>3. CASE u # t
    BY <1>1, <1>2, <2>3 DEF IInv, TypeOK, AttemptsBudget
  <2>4. QED
    BY <2>2, <2>3
<1>7. NothingUsedBefore'
  BY <1>1, <1>2 DEF IInv, TypeOK, NothingUsedBefore
<1>8. QED
  BY <1>3, <1>4, <1>5, <1>6, <1>7 DEF IInv

\* Every step of the table, its consumers and the clock keeps the invariant.
LEMMA NextKeepsIInv == IInv /\ [Next]_vars => IInv'
<1> SUFFICES ASSUME IInv, [Next]_vars
             PROVE  IInv'
  OBVIOUS
<1> USE ConstantsAssumption
<1>1. ASSUME NEW t \in Tasks, Enqueue(t)
      PROVE  IInv'
  BY <1>1 DEF Enqueue, IInv, TypeOK, LeaseMatchesState, NameFencesAttempt, AttemptsBudget,
              NothingUsedBefore, Holds, States, Live
<1>2. ASSUME NEW S \in SUBSET Tasks, Cancel(S)
      PROVE  IInv'
  <2> DEFINE open == {t \in S : state[t] \in Live}
             s == [t \in Tasks |-> "canceled"]
  <2>1. open \in SUBSET Tasks /\ s \in [Tasks -> States]
    BY DEF States, Terminal
  <2>2. Release(open, s) /\ UNCHANGED <<attempts, deferred, born, clock, docs, task, seen>>
    BY <1>2 DEF Cancel
  <2>3. \A t \in open : s[t] = "canceled"
    OBVIOUS
  <2> HIDE DEF open, s
  <2>4. QED
    BY <2>1, <2>2, <2>3, ReleaseKeepsIInv DEF IInv, TypeOK
<1>3. ASSUME NEW S \in SUBSET Tasks, RemoveRows(S), docs' \subseteq docs
      PROVE  IInv'
  <2> DEFINE s == [t \in Tasks |-> "gone"]
  <2>1. s \in [Tasks -> States]
    BY DEF States
  <2>2. /\ Release(S, s) /\ UNCHANGED <<attempts, born, clock, task, seen>>
        /\ deferred' = deferred \ S
    BY <1>3 DEF RemoveRows
  <2>3. \A t \in S : s[t] = "gone"
    OBVIOUS
  <2> HIDE DEF s
  <2>4. QED
    BY <1>3, <2>1, <2>2, <2>3, ReleaseKeepsIInv DEF IInv, TypeOK
<1>4. CASE ReclaimExpired
  <2> DEFINE s == [t \in Tasks |-> IF attempts[t] >= MaxAttempts[t] THEN "failed" ELSE "pending"]
  <2>1. s \in [Tasks -> States]
    BY DEF States, Live, Terminal
  <2>2. Release(expired, s) /\ UNCHANGED <<attempts, deferred, born, clock, docs, task, seen>>
    BY <1>4 DEF ReclaimExpired
  <2>3. \A t \in expired : /\ s[t] \notin {"running", "absent"}
                           /\ s[t] = "pending" => attempts[t] < MaxAttempts[t]
    BY DEF IInv, TypeOK
  <2> HIDE DEF s
  <2>4. QED
    BY <2>1, <2>2, <2>3, ReleaseKeepsIInv DEF IInv, TypeOK
<1>5. ASSUME NEW w \in Owners, EndRun(w)
      PROVE  IInv'
  <2>1. CASE Succeed(w)
    BY <2>1, WriteBackKeepsIInv DEF Succeed
  <2>2. CASE FinishCancel(w)
    BY <2>2, WriteBackKeepsIInv DEF FinishCancel
  <2>3. ASSUME NEW r \in BOOLEAN, RetryOrFail(w, r)
        PROVE  IInv'
    <3>1. CASE r /\ seen[w] < MaxAttempts[task[w]]
      <4>1. WriteBack(w, "pending", {task[w]}) /\ task[w] \in Tasks
        BY <2>3, <3>1 DEF RetryOrFail, IInv, TypeOK
      <4>2. QED
        BY <3>1, <4>1, WriteBackKeepsIInv
    <3>2. CASE ~(r /\ seen[w] < MaxAttempts[task[w]])
      <4>1. WriteBack(w, "failed", {})
        BY <2>3, <3>2 DEF RetryOrFail
      <4>2. QED
        BY <4>1, WriteBackKeepsIInv
    <3>3. QED
      BY <3>1, <3>2
  <2>4. QED
    BY <1>5, <2>1, <2>2, <2>3 DEF EndRun
<1>6. ASSUME NEW w \in Owners, Heartbeat(w)
      PROVE  IInv'
  BY <1>6 DEF Heartbeat, IInv, TypeOK, LeaseMatchesState, NameFencesAttempt, AttemptsBudget,
              NothingUsedBefore, Holds
<1>7. ASSUME NEW W \in SUBSET Owners, Forget(W)
      PROVE  IInv'
  BY <1>7 DEF Forget, rowVars, IInv, TypeOK, LeaseMatchesState, NameFencesAttempt,
              AttemptsBudget, NothingUsedBefore, Holds
<1>8. ASSUME NEW t \in Tasks, LeaseExpires(t)
      PROVE  IInv'
  BY <1>8 DEF LeaseExpires, IInv, TypeOK, LeaseMatchesState, NameFencesAttempt,
              AttemptsBudget, NothingUsedBefore, Holds
<1>9. ASSUME NEW t \in Tasks, BackoffElapses(t)
      PROVE  IInv'
  BY <1>9 DEF BackoffElapses, IInv, TypeOK, LeaseMatchesState, NameFencesAttempt,
              AttemptsBudget, NothingUsedBefore, Holds
<1>10. CASE UNCHANGED vars
  BY <1>10 DEF vars, rowVars, IInv, TypeOK, LeaseMatchesState, NameFencesAttempt,
               AttemptsBudget, NothingUsedBefore, Holds
<1>11. ASSUME NEW t \in Tasks, CancelTask(t)
       PROVE  IInv'
  BY <1>2, <1>11 DEF CancelTask
<1>12. ASSUME NEW d \in Docs, CancelDocument(d)
       PROVE  IInv'
  BY <1>2, <1>12 DEF CancelDocument
<1>13. ASSUME NEW d \in Docs, DeleteDocument(d)
       PROVE  IInv'
  BY <1>3, <1>13 DEF DeleteDocument
<1>14. ASSUME NEW S \in SUBSET Tasks, PurgeFinished(S)
       PROVE  IInv'
  BY <1>3, <1>14 DEF PurgeFinished
<1>15. QED
  BY <1>1, <1>4, <1>5, <1>6, <1>7, <1>8, <1>9, <1>10, <1>11, <1>12, <1>13, <1>14,
     ClaimKeepsIInv DEF Next, ConsumerStep

\* The invariant holds in every reachable state.
THEOREM QueueInvariant == Spec => []IInv
<1>1. Init => IInv
  BY InitEstablishesIInv
<1>2. IInv /\ [Next]_vars => IInv'
  BY NextKeepsIInv
<1>3. QED
  BY <1>1, <1>2, PTL DEF Spec

\* Every variable keeps its type.
THEOREM TypeCorrect == Spec => []TypeOK
  BY QueueInvariant, PTL DEF IInv

\* A row has a lease owner exactly while it is running.
THEOREM LeaseAlwaysMatchesState == Spec => []LeaseMatchesState
  BY QueueInvariant, PTL DEF IInv

\* The owner name fences the attempt: whoever passes the ownership test of a
\* write back made the current attempt.
THEOREM NameAlwaysFencesAttempt == Spec => []NameFencesAttempt
  BY QueueInvariant, PTL DEF IInv

\* No task is started more often than max_attempts allows.
THEOREM AttemptsStayInBudget == Spec => []AttemptsBudget
  BY QueueInvariant, PTL DEF IInv

-----------------------------------------------------------------------------
(* What each kind of statement does to one row *)

\* A write back moves only the row of the task in hand, and only if it is
\* running under the consumer's name.
LEMMA WriteBackTouchesOwnRow ==
  ASSUME IInv, NEW w \in Owners, NEW s, NEW later, WriteBack(w, s, later),
         NEW t \in Tasks, state'[t] # state[t]
  PROVE  /\ task[w] = t /\ owner[t] = w /\ state[t] = "running"
         /\ task'[w] = NoTask
  BY ConstantsAssumption DEF IInv, TypeOK, LeaseMatchesState, WriteBack, Release, Holds

\* The end of a run is a write back.
LEMMA EndRunIsWriteBack ==
  ASSUME IInv, NEW w \in Owners, EndRun(w)
  PROVE  \E s \in {"pending", "succeeded", "failed", "canceled"}, later \in SUBSET Tasks :
            /\ WriteBack(w, s, later)
            /\ s = "pending" => seen[w] < MaxAttempts[task[w]]
  BY DEF EndRun, Succeed, FinishCancel, RetryOrFail, IInv, TypeOK

\* A step that changes the state of a row is one of seven kinds.
LEMMA WhoMovesARow ==
  ASSUME IInv, [Next]_vars, NEW t \in Tasks, state'[t] # state[t]
  PROVE  \/ state[t] = "absent" /\ state'[t] = "pending"
         \/ state[t] = "pending" /\ state'[t] = "running"
         \/ \E w \in Owners : /\ task[w] = t /\ owner[t] = w /\ state[t] = "running"
                             /\ task'[w] = NoTask
         \/ t \in expired /\ state[t] = "running"
         \/ state[t] \in Live /\ state'[t] = "canceled"
         \/ state'[t] = "gone"
<1>1. ASSUME NEW u \in Tasks, Enqueue(u)
      PROVE  state[t] = "absent" /\ state'[t] = "pending"
  BY <1>1 DEF Enqueue, IInv, TypeOK
<1>2. ASSUME NEW S \in SUBSET Tasks, Cancel(S)
      PROVE  state[t] \in Live /\ state'[t] = "canceled"
  BY <1>2 DEF Cancel, Release
<1>3. ASSUME NEW S \in SUBSET Tasks, RemoveRows(S)
      PROVE  state'[t] = "gone"
  BY <1>3 DEF RemoveRows, Release
<1>4. CASE ReclaimExpired
  BY <1>4 DEF ReclaimExpired, Release, IInv, LeaseMatchesState
<1>5. ASSUME NEW w \in Owners, EndRun(w)
      PROVE  /\ task[w] = t /\ owner[t] = w /\ state[t] = "running"
             /\ task'[w] = NoTask
  <2>1. PICK s \in {"pending", "succeeded", "failed", "canceled"}, later \in SUBSET Tasks :
           WriteBack(w, s, later)
    BY <1>5, EndRunIsWriteBack
  <2>2. QED
    BY <2>1, WriteBackTouchesOwnRow
<1>6. ASSUME NEW w \in Owners, Claim(w)
      PROVE  state[t] = "pending" /\ state'[t] = "running"
  BY <1>6 DEF Claim, Claimable, IInv, TypeOK
<1>7. /\ \A w \in Owners : ~Heartbeat(w)
      /\ \A W \in SUBSET Owners : ~Forget(W)
  BY DEF Heartbeat, Forget, rowVars
<1>8. ASSUME NEW u \in Tasks, LeaseExpires(u) \/ BackoffElapses(u)
      PROVE  FALSE
  BY <1>8 DEF LeaseExpires, BackoffElapses
<1>9. CASE UNCHANGED vars
  BY <1>9 DEF vars
<1>10. ASSUME NEW u \in Tasks, CancelTask(u)
       PROVE  state[t] \in Live /\ state'[t] = "canceled"
  BY <1>2, <1>10 DEF CancelTask
<1>11. ASSUME NEW d \in Docs, CancelDocument(d)
       PROVE  state[t] \in Live /\ state'[t] = "canceled"
  BY <1>2, <1>11 DEF CancelDocument
<1>12. ASSUME NEW d \in Docs, DeleteDocument(d)
       PROVE  state'[t] = "gone"
  BY <1>3, <1>12 DEF DeleteDocument
<1>13. ASSUME NEW S \in SUBSET Tasks, PurgeFinished(S)
       PROVE  state'[t] = "gone"
  BY <1>3, <1>13 DEF PurgeFinished
<1>14. QED
  BY <1>1, <1>4, <1>5, <1>6, <1>7, <1>8, <1>9, <1>10, <1>11, <1>12, <1>13
     DEF Next, ConsumerStep

\* A finished task keeps its outcome until its row is removed.
THEOREM FinishedTaskStays == Spec => TerminalIsFinal
<1>1. ASSUME IInv, [Next]_vars
      PROVE  \A t \in Tasks : state[t] \in Terminal => state'[t] \in {state[t], "gone"}
  BY <1>1, WhoMovesARow DEF Terminal, Live
<1>2. QED
  BY <1>1, QueueInvariant, PTL DEF Spec, TerminalIsFinal

\* A running task whose lease is live leaves that state, other than by cancel or
\* delete, only by the hand of the consumer executing it.
THEOREM LiveLeaseStays == Spec => LiveLeaseIsRespected
<1>1. ASSUME IInv, [Next]_vars
      PROVE  \A t \in Tasks :
                /\ state[t] = "running" /\ t \notin expired
                /\ state'[t] \in {"pending", "succeeded", "failed"}
                => task[owner[t]] = t /\ task'[owner[t]] = NoTask
  BY <1>1, WhoMovesARow
<1>2. QED
  BY <1>1, QueueInvariant, PTL DEF Spec, LiveLeaseIsRespected
-----------------------------------------------------------------------------
(* The table implements TaskLifecycle *)

\* Releasing rows settles the tasks behind them: the ones put back return to
\* waiting, the other live ones end.
LEMMA ReleaseSettles ==
  ASSUME IInv,
         NEW S \in SUBSET Tasks, NEW s \in [Tasks -> States],
         \A t \in S : state[t] # "absent" /\ s[t] \notin {"running", "absent"},
         \A t \in S : s[t] = "pending" => state[t] = "running" /\ attempts[t] < MaxAttempts[t],
         Release(S, s), attempts' = attempts
  PROVE  Lifecycle!Next
<1> DEFINE back == {t \in S : s[t] = "pending"}
           over == {t \in S : s[t] # "pending" /\ state[t] \in Live}
<1>1. back \subseteq Lifecycle!MayReturn
  BY DEF Lifecycle!MayReturn, phaseOf
<1>2. over \subseteq Lifecycle!MayEnd
  BY DEF Lifecycle!MayEnd, phaseOf, Live
<1>3. phaseOf' = [t \in Tasks |-> IF t \in back THEN "waiting"
                                 ELSE IF t \in over THEN "ended"
                                 ELSE phaseOf[t]]
  <2> SUFFICES ASSUME NEW t \in Tasks
               PROVE  phaseOf'[t] = IF t \in back THEN "waiting"
                                    ELSE IF t \in over THEN "ended"
                                    ELSE phaseOf[t]
    BY DEF phaseOf
  <2>1. CASE t \in back
    BY <2>1 DEF phaseOf, Release
  <2>2. CASE t \in S /\ t \notin back
    <3>1. state'[t] = s[t] /\ s[t] \notin {"running", "absent", "pending"}
      BY <2>2 DEF Release
    <3>2. phaseOf'[t] = "ended"
      BY <3>1 DEF phaseOf
    <3>3. t \notin over => phaseOf[t] = "ended"
      BY <2>2 DEF phaseOf, Live
    <3>4. QED
      BY <2>2, <3>2, <3>3
  <2>3. CASE t \notin S
    BY <2>3 DEF phaseOf, Release
  <2>4. QED
    BY <2>1, <2>2, <2>3
<1>4. Lifecycle!Settle(back, over)
  BY <1>1, <1>2, <1>3 DEF Lifecycle!Settle
<1>5. QED
  BY <1>4 DEF Lifecycle!Next

\* Every step of the table is a step of the lifecycle or leaves it alone.
LEMMA StepImplementsLifecycle ==
  IInv /\ [Next]_vars => [Lifecycle!Next]_(Lifecycle!vars)
<1> SUFFICES ASSUME IInv, [Next]_vars
             PROVE  Lifecycle!Next \/ UNCHANGED <<phaseOf, attempts>>
  BY DEF Lifecycle!vars
<1>1. ASSUME NEW t \in Tasks, Enqueue(t)
      PROVE  Lifecycle!Next
  <2>1. Lifecycle!Submit(t)
    BY <1>1 DEF Lifecycle!Submit, phaseOf, Enqueue, IInv, TypeOK
  <2>2. QED
    BY <2>1 DEF Lifecycle!Next
<1>2. ASSUME NEW w \in Owners, Claim(w)
      PROVE  Lifecycle!Next
  <2>1. PICK t \in Tasks : /\ state[t] = "pending"
                           /\ state' = [state EXCEPT ![t] = "running"]
                           /\ attempts' = [attempts EXCEPT ![t] = @ + 1]
    BY <1>2 DEF Claim, Claimable
  <2>2. Lifecycle!Start(t)
    BY <2>1 DEF Lifecycle!Start, phaseOf, IInv, TypeOK, AttemptsBudget
  <2>3. QED
    BY <2>2 DEF Lifecycle!Next
<1>3. ASSUME NEW S \in SUBSET Tasks, Cancel(S)
      PROVE  Lifecycle!Next
  <2> DEFINE open == {t \in S : state[t] \in Live}
             s == [t \in Tasks |-> "canceled"]
  <2>1. open \in SUBSET Tasks /\ s \in [Tasks -> States]
    BY DEF States, Terminal
  <2>2. Release(open, s) /\ attempts' = attempts
    BY <1>3 DEF Cancel
  <2>3. \A t \in open : s[t] = "canceled" /\ state[t] # "absent"
    BY DEF Live
  <2> HIDE DEF open, s
  <2>4. QED
    BY <2>1, <2>2, <2>3, ReleaseSettles
<1>4. ASSUME NEW S \in SUBSET Tasks, RemoveRows(S), \A t \in S : state[t] # "absent"
      PROVE  Lifecycle!Next
  <2> DEFINE s == [t \in Tasks |-> "gone"]
  <2>1. s \in [Tasks -> States]
    BY DEF States
  <2>2. Release(S, s) /\ attempts' = attempts
    BY <1>4 DEF RemoveRows
  <2>3. \A t \in S : s[t] = "gone"
    OBVIOUS
  <2> HIDE DEF s
  <2>4. QED
    BY <1>4, <2>1, <2>2, <2>3, ReleaseSettles
<1>5. CASE ReclaimExpired
  <2> DEFINE s == [t \in Tasks |-> IF attempts[t] >= MaxAttempts[t] THEN "failed" ELSE "pending"]
  <2>1. s \in [Tasks -> States] /\ expired \in SUBSET Tasks
    BY DEF States, Live, Terminal, IInv, TypeOK
  <2>2. Release(expired, s) /\ attempts' = attempts
    BY <1>5 DEF ReclaimExpired
  <2>3. \A t \in expired : /\ state[t] = "running"
                           /\ s[t] \notin {"running", "absent"}
                           /\ s[t] = "pending" => attempts[t] < MaxAttempts[t]
    BY ConstantsAssumption DEF IInv, TypeOK, LeaseMatchesState
  <2> HIDE DEF s
  <2>4. QED
    BY <2>1, <2>2, <2>3, ReleaseSettles
<1>6. ASSUME NEW w \in Owners, EndRun(w)
      PROVE  Lifecycle!Next \/ UNCHANGED <<phaseOf, attempts>>
  <2>1. PICK r \in {"pending", "succeeded", "failed", "canceled"}, later \in SUBSET Tasks :
           /\ WriteBack(w, r, later)
           /\ r = "pending" => seen[w] < MaxAttempts[task[w]]
    BY <1>6, EndRunIsWriteBack
  <2>2. CASE ~Holds(w, task[w])
    BY <2>1, <2>2 DEF WriteBack, phaseOf
  <2>3. CASE Holds(w, task[w])
    <3> DEFINE s == [t \in Tasks |-> r]
    <3>1. s \in [Tasks -> States] /\ {task[w]} \in SUBSET Tasks
      BY <2>3 DEF Holds, States, Live, Terminal
    <3>2. Release({task[w]}, s) /\ attempts' = attempts
      BY <2>1, <2>3 DEF WriteBack
    <3>3. s[task[w]] = r /\ state[task[w]] = "running"
      BY <2>3, ConstantsAssumption DEF Holds, IInv, LeaseMatchesState
    <3>4. r = "pending" => attempts[task[w]] < MaxAttempts[task[w]]
      BY <2>1, <2>3 DEF IInv, NameFencesAttempt
    <3> HIDE DEF s
    <3>5. QED
      BY <3>1, <3>2, <3>3, <3>4, ReleaseSettles
  <2>4. QED
    BY <2>2, <2>3
<1>7. /\ \A w \in Owners : Heartbeat(w) => UNCHANGED <<phaseOf, attempts>>
      /\ \A W \in SUBSET Owners : Forget(W) => UNCHANGED <<phaseOf, attempts>>
  BY DEF Heartbeat, Forget, rowVars, phaseOf
<1>8. ASSUME NEW t \in Tasks, LeaseExpires(t) \/ BackoffElapses(t)
      PROVE  UNCHANGED <<phaseOf, attempts>>
  BY <1>8 DEF LeaseExpires, BackoffElapses, phaseOf
<1>9. CASE UNCHANGED vars
  BY <1>9 DEF vars, rowVars, phaseOf
<1>10. ASSUME NEW t \in Tasks, CancelTask(t)
       PROVE  Lifecycle!Next
  BY <1>3, <1>10 DEF CancelTask
<1>11. ASSUME NEW d \in Docs, CancelDocument(d)
       PROVE  Lifecycle!Next
  BY <1>3, <1>11 DEF CancelDocument
<1>12. ASSUME NEW d \in Docs, DeleteDocument(d)
       PROVE  Lifecycle!Next
  BY <1>4, <1>12 DEF DeleteDocument
<1>13. ASSUME NEW S \in SUBSET Tasks, PurgeFinished(S)
       PROVE  Lifecycle!Next
  BY <1>4, <1>13 DEF PurgeFinished, Terminal
<1>14. QED
  BY <1>1, <1>2, <1>5, <1>6, <1>7, <1>8, <1>9, <1>10, <1>11, <1>12, <1>13
     DEF Next, ConsumerStep

\* The table, whatever its consumers, cancels and crashes do, behaves like the
\* lifecycle it promises: starts within the budget, outcomes that are final.
THEOREM QueueImplementsLifecycle == Spec => ImplementsLifecycle
<1>1. Init => Lifecycle!Init
  BY DEF Init, Lifecycle!Init, phaseOf
<1>2. IInv /\ [Next]_vars => [Lifecycle!Next]_(Lifecycle!vars)
  BY StepImplementsLifecycle
<1>3. QED
  BY <1>1, <1>2, QueueInvariant, PTL DEF Spec, ImplementsLifecycle, Lifecycle!Spec
=============================================================================
