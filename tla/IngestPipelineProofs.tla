------------------------ MODULE IngestPipelineProofs ------------------------
(***************************************************************************)
(* The safety properties of IngestPipeline, for any number of tasks,       *)
(* attempts and runners.  Invariants over the types: what ties a run to a  *)
(* start of its task (OwnerInv); without edits but with runs that overlap, *)
(* what a run knows of the products (ContentInv); with edits but without   *)
(* overlap (CalmInv), that rows, tokens and vectors are of one version     *)
(* (WholeInv), that nothing is parsed again (ThriftInv), and, with         *)
(* attempts to spare, that no task ends in the middle of the pipeline      *)
(* (AmpleInv).                                                             *)
(***************************************************************************)
EXTENDS IngestPipeline, TLAPS

StageNames == {"uploaded", "probing", "parsing", "parsed", "chunking", "chunked",
               "embedding", "indexed", "failed", "canceled"}
Pcs == {"idle", "load", "check", "write", "work", "index", "fail", "ok", "canceled", "error",
        "reject"}
Version == Versions \cup {NoVersion}
RunRecord == [task : Tasks \cup {NoTask}, attempt : Nat, pc : Pcs,
              mem : StageNames, target : StageNames, file : Version, text : Version]
Requests == [pc : {"idle", "pending", "running", "push", "insert", "cancelTasks", "cancelStage",
                   "vectors", "tokens", "chunks", "content", "path", "restart"},
             next : {"push", "insert"}, version : Version]

-----------------------------------------------------------------------------
(* Types                                                                   *)

\* The state machine knows ten stages.
LEMMA StagesAre == Stages = StageNames
  BY DEF Stages, Allowed, StageNames

\* The type invariant with its sets named.
LEMMA Typed ==
  TypeOK <=> /\ phase \in [Tasks -> {"absent", "waiting", "started", "ended"}]
             /\ starts \in [Tasks -> Nat]
             /\ stage \in StageNames /\ content \in Versions /\ original \in Versions
             /\ parsed \in Version /\ chunks \in Version
             /\ tokens \in Version /\ vectors \in Version
             /\ run \in [Runners -> RunRecord]
             /\ client \in [Clients -> Requests]
             /\ left \in [Events -> Nat]
  BY StagesAre DEF TypeOK, Version, RunRecord, Requests, Pcs

\* The same one step later.
LEMMA TypedNext ==
  TypeOK' <=> /\ phase' \in [Tasks -> {"absent", "waiting", "started", "ended"}]
              /\ starts' \in [Tasks -> Nat]
              /\ stage' \in StageNames /\ content' \in Versions /\ original' \in Versions
              /\ parsed' \in Version /\ chunks' \in Version
              /\ tokens' \in Version /\ vectors' \in Version
              /\ run' \in [Runners -> RunRecord]
              /\ client' \in [Clients -> Requests]
              /\ left' \in [Events -> Nat]
  BY StagesAre DEF TypeOK, Version, RunRecord, Requests, Pcs

\* The stage a run goes on from is none that ended it.
LEMMA ResumeStageIs ==
  ASSUME stage \in StageNames
  PROVE  ResumeStage \in StageNames \ {"failed", "canceled"}
  BY DEF ResumeStage, StageNames

\* The order of the stages of a pipeline, as its comparisons use it.
LEMMA Order ==
  /\ \A s \in {"uploaded", "probing", "parsing"} : Before(s, "parsed") /\ Before(s, "chunked")
  /\ \A s \in {"parsed", "chunking"} : ~Before(s, "parsed") /\ Before(s, "chunked")
  /\ \A s \in {"chunked", "embedding", "indexed"} : ~Before(s, "parsed") /\ ~Before(s, "chunked")
  BY DEF Before, Rank

\* The task table moves as the lifecycle allows, so its types stay.
LEMMA TasksTyped ==
  ASSUME TypeOK, [L!Next]_(L!vars)
  PROVE  /\ phase' \in [Tasks -> {"absent", "waiting", "started", "ended"}]
         /\ starts' \in [Tasks -> Nat]
  BY Typed DEF L!Next, L!vars, L!Submit, L!Start, L!Settle

\* What a run does to itself.
LEMMA RunTyped ==
  ASSUME TypeOK, NEW r \in Runners, Runner(r) \/ WorkFails(r) \/ Abort(r)
  PROVE  run' \in [Runners -> RunRecord]
<1>1. run \in [Runners -> RunRecord] /\ stage \in StageNames
      /\ original \in Version /\ parsed \in Version /\ chunks \in Version
  BY Typed DEF Version
<1>2. ASSUME NEW x \in RunRecord, run' = [run EXCEPT ![r] = x]
      PROVE  run' \in [Runners -> RunRecord]
  BY <1>1, <1>2
<1>3. ASSUME NEW p \in Pcs
      PROVE  [run[r] EXCEPT !.pc = p] \in RunRecord
  BY <1>1 DEF RunRecord
<1>4. ASSUME NEW p \in Pcs, Goto(r, p)
      PROVE  run' \in [Runners -> RunRecord]
  BY <1>1, <1>2, <1>3, <1>4 DEF Goto
<1>5. ASSUME NEW s \in StageNames, NEW f \in Version, NEW x \in Version, Advance(r, s, f, x)
      PROVE  run' \in [Runners -> RunRecord]
  <2>1. [run[r] EXCEPT !.pc = "check", !.target = s, !.file = f, !.text = x] \in RunRecord
    BY <1>1 DEF RunRecord, Pcs
  <2>2. QED
    BY <1>1, <1>2, <1>5, <2>1 DEF Advance
<1>6. CASE Claim(r)
  <2>1. PICK t \in Tasks :
          run' = [run EXCEPT ![r] = [Idle EXCEPT !.task = t, !.pc = "load",
                                                 !.attempt = starts[t] + 1]]
    BY <1>6 DEF Claim
  <2>2. starts[t] + 1 \in Nat
    BY Typed
  <2>3. [Idle EXCEPT !.task = t, !.pc = "load", !.attempt = starts[t] + 1] \in RunRecord
    BY <2>2 DEF Idle, RunRecord, Pcs, StageNames, Version
  <2>4. QED
    BY <1>2, <2>1, <2>3
<1>7. CASE Load(r)
  <2> DEFINE from == ResumeStage
             p == IF ~Before(from, "parsed") /\ parsed = NoVersion THEN "fail"
                  ELSE IF from = "indexed" THEN "ok" ELSE "check"
             s == CASE Before(from, "parsed")  -> "probing"
                    [] Before(from, "chunked") /\ ~Before(from, "parsed") -> "chunking"
                    [] OTHER -> "embedding"
             x == IF Before(from, "chunked") THEN NoVersion ELSE chunks
  <2>1. p \in Pcs /\ s \in StageNames /\ x \in Version
    <3>1. p \in Pcs
      BY DEF Pcs
    <3>2. x \in Version
      BY <1>1 DEF Version
    <3>3. s \in StageNames
      BY ResumeStageIs, Order, <1>1 DEF StageNames
    <3>4. QED
      BY <3>1, <3>2, <3>3
  <2>2. run' = [run EXCEPT ![r] = [@ EXCEPT !.mem = stage, !.pc = p, !.target = s, !.text = x]]
    BY <1>7 DEF Load
  <2> HIDE DEF p, s, x
  <2>3. [run[r] EXCEPT !.mem = stage, !.pc = p, !.target = s, !.text = x] \in RunRecord
    BY <1>1, <2>1 DEF RunRecord
  <2>4. QED
    BY <1>1, <2>2, <2>3
<1>8. CASE Check(r)
  BY <1>4, <1>8 DEF Check, Pcs
<1>9. CASE Write(r)
  <2> DEFINE s == run[r].target
             p == CASE s = "indexed" -> "ok"
                    [] s \in {"parsed", "chunked"} -> "check"
                    [] s = "embedding" /\ run[r].text = NoVersion -> "check"
                    [] OTHER -> "work"
             n == CASE s = "parsed"    -> "chunking"
                    [] s = "chunked"   -> "embedding"
                    [] s = "embedding" -> "indexed"
                    [] OTHER           -> s
  <2>1. s \in StageNames
    BY <1>1 DEF RunRecord
  <2>2. p \in Pcs /\ n \in StageNames
    BY <2>1 DEF Pcs, StageNames
  <2>3. run' = [run EXCEPT ![r] = [@ EXCEPT !.mem = s, !.pc = p, !.target = n]]
    BY <1>9 DEF Write
  <2> HIDE DEF p, n, s
  <2>4. [run[r] EXCEPT !.mem = s, !.pc = p, !.target = n] \in RunRecord
    BY <1>1, <2>1, <2>2 DEF RunRecord
  <2>5. QED
    BY <1>1, <2>3, <2>4
<1>10. CASE Work(r)
  <2>1. run[r].file \in Version /\ run[r].text \in Version /\ NoVersion \in Version
    BY <1>1 DEF RunRecord, Version
  <2>2. CASE Cut(r)
    <3> DEFINE x == IF run[r].text # NoVersion THEN run[r].text ELSE parsed
    <3>1. x \in Version /\ run' = [run EXCEPT ![r] = [@ EXCEPT !.pc = "index", !.text = x]]
      BY <1>1, <2>1, <2>2 DEF Cut
    <3> HIDE DEF x
    <3>2. [run[r] EXCEPT !.pc = "index", !.text = x] \in RunRecord
      BY <1>1, <3>1 DEF RunRecord, Pcs
    <3>3. QED
      BY <1>1, <3>1, <3>2
  <2>3. CASE Probe(r) \/ Parse(r) \/ IndexText(r) \/ Embed(r)
    BY <1>1, <1>5, <2>1, <2>3 DEF Probe, Parse, IndexText, Embed, StageNames
  <2>4. QED
    BY <1>10, <2>2, <2>3 DEF Work
<1>11. CASE Fail(r) \/ WorkFails(r) \/ Abort(r)
  BY <1>4, <1>11 DEF Fail, WorkFails, Abort, Pcs
<1>12. CASE Settle(r)
  <2>1. Idle \in RunRecord
    BY DEF Idle, RunRecord, Pcs, StageNames, Version
  <2>2. QED
    BY <1>2, <1>12, <2>1 DEF Settle
<1>13. QED
  BY <1>6, <1>7, <1>8, <1>9, <1>10, <1>11, <1>12 DEF Runner

\* A run moves the task table as the lifecycle allows.
LEMMA RunnerStepsLifecycle ==
  ASSUME NEW r \in Runners, Runner(r) \/ WorkFails(r) \/ Abort(r)
  PROVE  [L!Next]_(L!vars)
<1>1. CASE Claim(r)
  BY <1>1 DEF Claim, L!Next
<1>2. CASE Settle(r)
  <2>1. CASE Owns(r, run[r].task)
    <3>1. PICK back, over : L!Settle(back, over)
      BY <1>2, <2>1 DEF Settle
    <3>2. back \in SUBSET Tasks /\ over \in SUBSET Tasks
      BY <3>1 DEF L!Settle, L!MayReturn, L!MayEnd
    <3>3. QED
      BY <3>1, <3>2 DEF L!Next
  <2>2. CASE ~Owns(r, run[r].task)
    BY <1>2, <2>2 DEF Settle, taskVars, L!vars
  <2>3. QED
    BY <2>1, <2>2
<1>3. CASE ~Claim(r) /\ ~Settle(r)
  BY <1>3 DEF Runner, Load, Check, Write, Work, Probe, Parse, Cut, IndexText, Embed, WorkFails,
              Abort, Fail, taskVars, L!vars
<1>4. QED
  BY <1>1, <1>2, <1>3

\* So does a request.
LEMMA ClientStepsLifecycle ==
  ASSUME NEW c \in Clients, Begin(c) \/ Continue(c)
  PROVE  [L!Next]_(L!vars)
<1>1. CASE Insert(c)
  BY <1>1 DEF Insert, L!Next
<1>2. CASE CancelTasks(c)
  <2>1. L!Settle({}, Active) /\ {} \in SUBSET Tasks /\ Active \in SUBSET Tasks
    BY <1>2 DEF CancelTasks, Active
  <2>2. QED
    BY <2>1 DEF L!Next
<1>3. CASE ~Insert(c) /\ ~CancelTasks(c)
  BY <1>3 DEF Begin, Continue, Ingest, LookPending, LookRunning, Cancel, Replace, PushBack,
              CancelStage, Drop, DropVectors, DropTokens, DropChunks, SetContent, SetOriginal,
              Restart, taskVars, L!vars
<1>4. QED
  BY <1>1, <1>2, <1>3

\* So does every step.
LEMMA StepsLifecycle == [Next]_vars => [L!Next]_(L!vars)
<1> SUFFICES ASSUME [Next]_vars
             PROVE  [L!Next]_(L!vars)
  OBVIOUS
<1>1. ASSUME NEW t \in Tasks, Reclaim(t)
      PROVE  L!Next
  <2>1. \E back, over \in SUBSET Tasks : L!Settle(back, over)
    BY <1>1 DEF Reclaim
  <2>2. QED
    BY <2>1 DEF L!Next
<1>2. CASE Crash \/ UNCHANGED vars
  BY <1>2 DEF Crash, vars, taskVars, L!vars
<1>3. QED
  BY <1>1, <1>2, RunnerStepsLifecycle, ClientStepsLifecycle DEF Next

\* The runs and requests of a document treat its tasks as the task table
\* promises: what TaskQueue implements is what the pipeline is built on.
THEOREM PipelineKeepsLifecycle == Spec => L!Spec
<1>1. Init => L!Init
  BY DEF Init
<1>2. QED
  BY <1>1, StepsLifecycle, PTL DEF Spec, L!Spec

\* An edit that has begun knows the content it brings until it has stored it.
EditsAreNamed ==
  \A c \in Clients :
    client[c].pc \in {"vectors", "tokens", "chunks", "content", "path"}
      => client[c].version \in Versions

\* No event has more occasions left than it was given.
BudgetsHold == \A k \in Events : left[k] <= Budget[k]

TypeInv == TypeOK /\ EditsAreNamed /\ BudgetsHold

\* What a budget loses leaves a number, and no more than there was.
LEMMA SpendTyped ==
  ASSUME NEW k \in Events, left \in [Events -> Nat], Spend(k)
  PROVE  left' \in [Events -> Nat] /\ \A j \in Events : left'[j] <= left[j]
<1>1. left' \in [Events -> Nat]
  BY DEF Spend
<1>2. ASSUME NEW j \in Events
      PROVE  left'[j] <= left[j]
  <2>1. left[j] \in Nat /\ left'[j] = IF j = k THEN left[j] - 1 ELSE left[j]
    BY DEF Spend
  <2>2. QED
    BY <2>1
<1>3. QED
  BY <1>1, <1>2

\* Every step leaves the budgets alone or takes one from one of them.
LEMMA OneIsSpent == [Next]_vars => left' = left \/ \E k \in Events : Spend(k)
<1> SUFFICES ASSUME [Next]_vars
             PROVE  left' = left \/ \E k \in Events : Spend(k)
  OBVIOUS
<1>1. ASSUME NEW r \in Runners, Runner(r) \/ WorkFails(r) \/ Abort(r)
      PROVE  left' = left \/ \E k \in Events : Spend(k)
  BY <1>1 DEF Runner, Claim, Load, Check, Write, Work, Probe, Parse, Cut, IndexText, Embed, Fail,
              Settle, WorkFails, Abort, Events
<1>2. ASSUME NEW c \in Clients, Begin(c) \/ Continue(c)
      PROVE  left' = left \/ \E k \in Events : Spend(k)
  BY <1>2 DEF Begin, Continue, Ingest, LookPending, LookRunning, Cancel, Replace, PushBack, Insert,
              CancelTasks, CancelStage, Drop, DropVectors, DropTokens, DropChunks, SetContent,
              SetOriginal, Restart, Events
<1>3. ASSUME NEW t \in Tasks, Reclaim(t)
      PROVE  left' = left \/ \E k \in Events : Spend(k)
  BY <1>3 DEF Reclaim, Events
<1>4. CASE Crash \/ UNCHANGED vars
  BY <1>4 DEF Crash, vars, Events
<1>5. QED
  BY <1>1, <1>2, <1>3, <1>4 DEF Next

\* So none of them grows, and one that is whole after a step was not touched by it.
LEMMA BudgetsShrink ==
  ASSUME TypeInv, [Next]_vars
  PROVE  /\ left' \in [Events -> Nat] /\ BudgetsHold'
         /\ \A k \in Events : ~Happened(k)' => ~Happened(k) /\ ~Spend(k)
<1>1. left \in [Events -> Nat] /\ Budget \in [Events -> Nat] /\ BudgetsHold
  BY Typed, PipelineAssumption DEF TypeInv
<1>2. left' \in [Events -> Nat] /\ \A k \in Events : left'[k] <= left[k]
  <2>1. CASE left' = left
    BY <1>1, <2>1
  <2>2. ASSUME NEW k \in Events, Spend(k)
        PROVE  left' \in [Events -> Nat] /\ \A j \in Events : left'[j] <= left[j]
    BY <1>1, <2>2, SpendTyped
  <2>3. QED
    BY <2>1, <2>2, OneIsSpent
<1>3. ASSUME NEW k \in Events
      PROVE  left[k] \in Nat /\ left'[k] \in Nat /\ Budget[k] \in Nat
             /\ left'[k] <= left[k] /\ left[k] <= Budget[k]
  BY <1>1, <1>2 DEF BudgetsHold
<1>4. BudgetsHold'
  <2>1. ASSUME NEW k \in Events
        PROVE  left'[k] <= Budget[k]
    BY <1>3
  <2>2. QED
    BY <2>1 DEF BudgetsHold
<1>5. ASSUME NEW k \in Events, ~Happened(k)'
      PROVE  ~Happened(k) /\ ~Spend(k)
  <2>1. ~(left'[k] < Budget[k])
    BY <1>5 DEF Happened
  <2>2. left[k] = Budget[k] /\ left'[k] = left[k]
    BY <1>3, <2>1
  <2>3. ~Spend(k)
    BY <1>1, <1>3, <2>2 DEF Spend
  <2>4. QED
    BY <1>3, <2>2, <2>3 DEF Happened
<1>6. QED
  BY <1>2, <1>4, <1>5

\* The steps of a run keep the types of everything else.
LEMMA RunnerKeepsTypes ==
  ASSUME TypeOK, NEW r \in Runners, Runner(r) \/ WorkFails(r) \/ Abort(r)
  PROVE  TypeOK'
<1>1. /\ phase' \in [Tasks -> {"absent", "waiting", "started", "ended"}]
      /\ starts' \in [Tasks -> Nat]
      /\ run' \in [Runners -> RunRecord]
  BY RunTyped, RunnerStepsLifecycle, TasksTyped
<1>2. left' \in [Events -> Nat] /\ UNCHANGED <<content, original, client>>
  <2>1. CASE WorkFails(r) \/ Abort(r)
    BY <2>1, Typed, SpendTyped DEF WorkFails, Abort, Events, docVars
  <2>2. CASE Runner(r)
    BY <2>2, Typed
       DEF Runner, Claim, Load, Check, Write, Work, Probe, Parse, Cut, IndexText, Embed, Fail,
           Settle, docVars
  <2>3. QED
    BY <2>1, <2>2
<1>3. run[r].file \in Version /\ run[r].text \in Version /\ run[r].target \in StageNames
  BY Typed DEF RunRecord
<1>4. /\ stage' \in StageNames
      /\ parsed' \in Version /\ chunks' \in Version /\ tokens' \in Version /\ vectors' \in Version
  <2>1. CASE Write(r) \/ Fail(r)
    BY <2>1, <1>3, Typed DEF Write, Fail, StageNames
  <2>2. CASE Work(r)
    BY <2>2, <1>3, Typed DEF Work, Probe, Parse, Cut, IndexText, Embed, Version, docVars
  <2>3. CASE Claim(r) \/ Load(r) \/ Check(r) \/ Settle(r) \/ WorkFails(r) \/ Abort(r)
    BY <2>3, Typed DEF Claim, Load, Check, Settle, WorkFails, Abort, docVars
  <2>4. QED
    BY <2>1, <2>2, <2>3 DEF Runner
<1>5. QED
  BY <1>1, <1>2, <1>4, Typed, TypedNext

\* What a request does to itself.
LEMMA ClientTyped ==
  ASSUME TypeInv, NEW c \in Clients, Begin(c) \/ Continue(c)
  PROVE  client' \in [Clients -> Requests] /\ EditsAreNamed' /\ run' = run
<1> DEFINE Naming == {"vectors", "tokens", "chunks", "content", "path"}
           Named(x) == x.pc \in Naming => x.version \in Versions
<1>1. /\ client \in [Clients -> Requests] /\ \A d \in Clients : Named(client[d])
      /\ client[c].version \in Version /\ NoVersion \in Version
      /\ NoRequest \in Requests /\ client[c].next \in {"push", "insert"}
  BY Typed DEF TypeInv, EditsAreNamed, Requests, Version, NoRequest
<1> DEFINE Goal == client' \in [Clients -> Requests] /\ EditsAreNamed'
<1>2. ASSUME NEW x \in Requests, Named(x), client' = [client EXCEPT ![c] = x]
      PROVE  Goal
  <2>1. client' \in [Clients -> Requests]
    BY <1>1, <1>2
  <2>2. ASSUME NEW d \in Clients
        PROVE  Named(client'[d])
    BY <1>1, <1>2
  <2>3. QED
    BY <2>1, <2>2 DEF EditsAreNamed
<1> HIDE DEF Goal
<1>3. ASSUME NEW p \in {"idle", "push", "insert", "cancelTasks", "cancelStage", "restart"},
             NEW from, Request(c, from, p)
      PROVE  Goal
  <2>1. [NoRequest EXCEPT !.pc = p] \in Requests /\ Named([NoRequest EXCEPT !.pc = p])
    BY <1>1 DEF Requests, NoRequest
  <2>2. QED
    BY <1>2, <1>3, <2>1 DEF Request
<1>4. ASSUME NEW p \in {"tokens", "chunks", "content", "path"},
             client' = [client EXCEPT ![c].pc = p], client[c].pc \in Naming
      PROVE  Goal
  <2>1. [client[c] EXCEPT !.pc = p] \in Requests /\ Named([client[c] EXCEPT !.pc = p])
    BY <1>1, <1>4 DEF Requests
  <2>2. client' = [client EXCEPT ![c] = [client[c] EXCEPT !.pc = p]]
    BY <1>4
  <2>3. QED
    BY <1>2, <2>1, <2>2
<1>5. ASSUME NEW v \in Versions, Replace(c, v)
      PROVE  Goal
  <2>1. /\ [client[c] EXCEPT !.pc = "vectors", !.version = v] \in Requests
        /\ Named([client[c] EXCEPT !.pc = "vectors", !.version = v])
    BY <1>1 DEF Requests, Version
  <2>2. QED
    BY <1>2, <1>5, <2>1 DEF Replace
<1>6. ASSUME NEW force \in BOOLEAN, Ingest(c, force)
      PROVE  Goal
  <2> DEFINE n == IF force /\ CanTransition(stage, "chunking") THEN "push" ELSE "insert"
  <2>1. n \in {"push", "insert"}
    OBVIOUS
  <2>2. client' = [client EXCEPT ![c] = [@ EXCEPT !.pc = "pending", !.next = n]]
    BY <1>6 DEF Ingest
  <2> HIDE DEF n
  <2>3. /\ [client[c] EXCEPT !.pc = "pending", !.next = n] \in Requests
        /\ Named([client[c] EXCEPT !.pc = "pending", !.next = n])
    BY <1>1, <2>1 DEF Requests
  <2>4. QED
    BY <1>2, <2>2, <2>3
<1>7. ASSUME LookPending(c) \/ LookRunning(c)
      PROVE  Goal
  <2>1. ASSUME NEW p \in {"running", "push", "insert"}
        PROVE  [client[c] EXCEPT !.pc = p] \in Requests /\ Named([client[c] EXCEPT !.pc = p])
    BY <1>1 DEF Requests
  <2>2. Named(NoRequest)
    BY DEF NoRequest
  <2>3. \/ client' = [client EXCEPT ![c] = NoRequest]
        \/ \E p \in {"running", "push", "insert"} :
             client' = [client EXCEPT ![c] = [client[c] EXCEPT !.pc = p]]
    BY <1>1, <1>7 DEF LookPending, LookRunning
  <2>4. QED
    BY <1>1, <1>2, <2>1, <2>2, <2>3
<1>8. ASSUME Drop(c) \/ SetContent(c)
      PROVE  Goal
  BY <1>1, <1>4, <1>8 DEF Drop, DropVectors, DropTokens, DropChunks, SetContent
<1>9. ASSUME \/ Cancel(c) \/ PushBack(c) \/ Insert(c) \/ CancelTasks(c) \/ CancelStage(c)
             \/ SetOriginal(c) \/ Restart(c)
      PROVE  Goal
  BY <1>3, <1>9 DEF Cancel, PushBack, Insert, CancelTasks, CancelStage, SetOriginal, Restart
<1>10. Goal
  BY <1>5, <1>6, <1>7, <1>8, <1>9 DEF Begin, Continue
<1>11. run' = run
  BY DEF Begin, Continue, Ingest, LookPending, LookRunning, Cancel, Replace, PushBack, Insert,
         CancelTasks, CancelStage, Drop, DropVectors, DropTokens, DropChunks, SetContent,
         SetOriginal, Restart
<1>12. QED
  BY <1>10, <1>11 DEF Goal

\* The steps of a request keep the types.
LEMMA ClientKeepsTypes ==
  ASSUME TypeInv, NEW c \in Clients, Begin(c) \/ Continue(c)
  PROVE  TypeInv'
<1>1. /\ phase' \in [Tasks -> {"absent", "waiting", "started", "ended"}]
      /\ starts' \in [Tasks -> Nat]
  BY ClientStepsLifecycle, TasksTyped DEF TypeInv
<1>2. content' \in Versions /\ original' \in Versions
  <2>1. CASE SetContent(c) \/ SetOriginal(c)
    BY <2>1, Typed DEF TypeInv, EditsAreNamed, SetContent, SetOriginal, Request
  <2>2. CASE ~SetContent(c) /\ ~SetOriginal(c)
    BY <2>2, Typed
       DEF TypeInv, Begin, Continue, Ingest, LookPending, LookRunning, Cancel, Replace, PushBack,
           Insert, CancelTasks, CancelStage, Drop, DropVectors, DropTokens, DropChunks, Restart, docVars
  <2>3. QED
    BY <2>1, <2>2
<1>3. /\ stage' \in StageNames
      /\ parsed' \in Version /\ chunks' \in Version /\ tokens' \in Version /\ vectors' \in Version
  BY Typed
     DEF TypeInv, Begin, Continue, Ingest, LookPending, LookRunning, Cancel, Replace, PushBack,
         Insert, CancelTasks, CancelStage, Drop, DropVectors, DropTokens, DropChunks, SetContent,
         SetOriginal, Restart, docVars, StageNames, Version
<1>6. left' \in [Events -> Nat] /\ BudgetsHold'
  BY BudgetsShrink DEF Next
<1>4. TypeOK'
  BY <1>1, <1>2, <1>3, <1>6, ClientTyped, Typed, TypedNext DEF TypeInv
<1>5. QED
  BY <1>4, <1>6, ClientTyped DEF TypeInv

\* The rest of the steps are a lapsed lease, a death and nothing.
LEMMA TypeInductive == TypeInv /\ [Next]_vars => TypeInv'
<1> SUFFICES ASSUME TypeInv, [Next]_vars
             PROVE  TypeOK' /\ EditsAreNamed'
  BY BudgetsShrink DEF TypeInv
<1>1. ASSUME NEW r \in Runners, Runner(r) \/ WorkFails(r) \/ Abort(r)
      PROVE  TypeOK' /\ EditsAreNamed'
  <2>1. client' = client
    BY <1>1
       DEF Runner, Claim, Load, Check, Write, Work, Probe, Parse, Cut, IndexText, Embed, Fail,
           Settle, WorkFails, Abort
  <2>2. QED
    BY <1>1, <2>1, RunnerKeepsTypes DEF TypeInv, EditsAreNamed
<1>2. ASSUME NEW t \in Tasks, Reclaim(t)
      PROVE  TypeOK' /\ EditsAreNamed'
  <2>1. left' \in [Events -> Nat]
    BY <1>2, Typed, SpendTyped DEF TypeInv, Reclaim, Events
  <2>2. UNCHANGED <<docVars, run, client>>
    BY <1>2 DEF Reclaim
  <2>3. QED
    BY <2>1, <2>2, TasksTyped, StepsLifecycle, Typed, TypedNext
       DEF TypeInv, EditsAreNamed, docVars
<1>3. CASE Crash
  <2>1. PICK R \in SUBSET Runners, C \in SUBSET Clients :
          /\ run' = [r \in Runners |-> IF r \in R THEN Idle ELSE run[r]]
          /\ client' = [c \in Clients |-> IF c \in C THEN NoRequest ELSE client[c]]
    BY <1>3 DEF Crash
  <2>2. run \in [Runners -> RunRecord] /\ client \in [Clients -> Requests]
    BY Typed DEF TypeInv
  <2>3. Idle \in RunRecord
    BY DEF Idle, RunRecord, Pcs, StageNames, Version
  <2>4. NoRequest \in Requests
    BY DEF NoRequest, Requests, Version
  <2>5. run' \in [Runners -> RunRecord]
    BY <2>1, <2>2, <2>3
  <2>6. client' \in [Clients -> Requests]
    BY <2>1, <2>2, <2>4
  <2>7. EditsAreNamed'
    BY <2>1, <2>2 DEF TypeInv, EditsAreNamed, NoRequest
  <2>8. left' \in [Events -> Nat] /\ UNCHANGED <<taskVars, docVars>>
    BY <1>3, Typed, SpendTyped DEF TypeInv, Crash, Events
  <2>9. QED
    BY <2>5, <2>6, <2>7, <2>8, Typed, TypedNext DEF TypeInv, taskVars, docVars
<1>4. CASE UNCHANGED vars
  BY <1>4, Typed, TypedNext DEF TypeInv, EditsAreNamed, vars, taskVars, docVars
<1>5. QED
  BY <1>1, <1>2, <1>3, <1>4, ClientKeepsTypes DEF Next, TypeInv

LEMMA TypeInitially == Init => TypeInv
<1> SUFFICES ASSUME Init
             PROVE  TypeInv
  OBVIOUS
<1>1. Idle \in RunRecord /\ NoRequest \in Requests
  BY DEF Idle, RunRecord, Pcs, StageNames, Version, Requests, NoRequest
<1>2. run \in [Runners -> RunRecord] /\ client \in [Clients -> Requests] /\ EditsAreNamed
  BY <1>1 DEF Init, EditsAreNamed, NoRequest
<1>3. left \in [Events -> Nat] /\ BudgetsHold
  BY PipelineAssumption DEF Init, BudgetsHold
<1>4. QED
  BY <1>2, <1>3, Typed DEF Init, L!Init, TypeInv, StageNames, Version

\* Whatever the runs, requests and crashes of a document do, its rows keep
\* their types.
THEOREM PipelineTypeCorrect == Spec => []TypeOK
<1>1. TypeInv => TypeOK
  BY DEF TypeInv
<1>2. QED
  BY <1>1, TypeInitially, TypeInductive, PTL DEF Spec

\* As long as no task is missed, none is by the step either.
LEMMA UntilMissed ==
  ASSUME TypeInv, [Next]_vars, ~Happened("miss")'
  PROVE  ~Happened("miss") /\ ~Spend("miss")
  BY BudgetsShrink DEF Events

\* Nor is there another event, as long as none of its kind has happened.
LEMMA UntilSpent ==
  ASSUME TypeInv, [Next]_vars
  PROVE  \A k \in {"miss", "reject", "crash"} : ~Happened(k)' => ~Happened(k) /\ ~Spend(k)
  BY BudgetsShrink DEF Events

-----------------------------------------------------------------------------
(* Runs and the starts of tasks                                            *)

\* A run belongs to one start of its task, and to no start two runs belong.
OneRunPerStart ==
  /\ \A r \in Runners : run[r].task # NoTask => run[r].attempt <= starts[run[r].task]
  /\ \A r, s \in Runners :
       run[r].task # NoTask /\ run[r].task = run[s].task /\ run[r].attempt = run[s].attempt => r = s

\* A document has one active task at most, and none while a task of it is
\* about to be submitted, which one request does at a time.
OneActive ==
  /\ \A t, u \in Active : t = u
  /\ \A c \in Clients : Queueing(c) => Active = {}
  /\ \A c, d \in Clients : Queueing(c) /\ Queueing(d) => c = d

\* Between its claim and its outcome a run stays with its task, and does not
\* touch the task table.
LEMMA RunStaysWithTask ==
  ASSUME TypeOK, NEW r \in Runners, Runner(r) \/ WorkFails(r) \/ Abort(r), ~Claim(r), ~Settle(r)
  PROVE  /\ UNCHANGED <<taskVars, client>>
         /\ \A s \in Runners : run'[s].task = run[s].task /\ run'[s].attempt = run[s].attempt
<1>1. run \in [Runners -> RunRecord]
  BY Typed
<1>2. ASSUME NEW p, Goto(r, p)
      PROVE  \A s \in Runners : run'[s].task = run[s].task /\ run'[s].attempt = run[s].attempt
  BY <1>1, <1>2 DEF Goto, RunRecord
<1>3. ASSUME NEW g, NEW f, NEW x, Advance(r, g, f, x)
      PROVE  \A s \in Runners : run'[s].task = run[s].task /\ run'[s].attempt = run[s].attempt
  BY <1>1, <1>3 DEF Advance, RunRecord
<1>4. CASE Check(r) \/ Fail(r) \/ WorkFails(r) \/ Abort(r)
  <2>1. \E p : Goto(r, p)
    BY <1>4 DEF Check, Fail, WorkFails, Abort
  <2>2. UNCHANGED <<taskVars, client>>
    BY <1>4 DEF Check, Fail, WorkFails, Abort
  <2>3. QED
    BY <1>2, <2>1, <2>2
<1>5. CASE Probe(r) \/ Parse(r) \/ IndexText(r) \/ Embed(r)
  <2>1. \E g, f, x : Advance(r, g, f, x)
    BY <1>5 DEF Probe, Parse, IndexText, Embed
  <2>2. UNCHANGED <<taskVars, client>>
    BY <1>5 DEF Probe, Parse, IndexText, Embed
  <2>3. QED
    BY <1>3, <2>1, <2>2
<1>6. CASE Load(r)
  BY <1>1, <1>6 DEF Load, RunRecord
<1>7. CASE Write(r)
  BY <1>1, <1>7 DEF Write, RunRecord
<1>8. CASE Cut(r)
  BY <1>1, <1>8 DEF Cut, RunRecord
<1>9. QED
  BY <1>4, <1>5, <1>6, <1>7, <1>8 DEF Runner, Work

\* Outcomes only end tasks or send them back.
LEMMA SettleShrinks ==
  ASSUME NEW back, NEW over, L!Settle(back, over)
  PROVE  Active' \subseteq Active /\ starts' = starts
  BY DEF L!Settle, L!MayReturn, L!MayEnd, Active

\* The steps of a run keep both.
LEMMA RunnerKeepsOwner ==
  ASSUME TypeOK, OneRunPerStart, OneActive,
         NEW r \in Runners, Runner(r) \/ WorkFails(r) \/ Abort(r)
  PROVE  OneRunPerStart' /\ OneActive'
<1>1. run \in [Runners -> RunRecord] /\ phase \in [Tasks -> {"absent", "waiting", "started", "ended"}]
      /\ starts \in [Tasks -> Nat]
  BY Typed
<1>2. CASE Claim(r)
  <2>1. PICK t \in Tasks :
          /\ L!Start(t)
          /\ run' = [run EXCEPT ![r] = [Idle EXCEPT !.task = t, !.pc = "load",
                                                    !.attempt = starts[t] + 1]]
    BY <1>2 DEF Claim
  <2>2. run'[r].task = t /\ run'[r].attempt = starts[t] + 1
        /\ \A s \in Runners \ {r} : run'[s] = run[s]
    BY <1>1, <2>1 DEF Idle
  <2>3. starts'[t] = starts[t] + 1 /\ \A u \in Tasks \ {t} : starts'[u] = starts[u]
    BY <1>1, <2>1 DEF L!Start
  <2>4. \A s \in Runners : run[s].task \in Tasks \cup {NoTask} /\ run[s].attempt \in Nat
    BY <1>1 DEF RunRecord
  <2>5. \A s \in Runners \ {r} : run[s].task = t => run[s].attempt < starts[t] + 1
    BY <1>1, <2>4, PipelineAssumption DEF OneRunPerStart
  <2>6. ASSUME NEW s \in Runners, run'[s].task # NoTask
        PROVE  run'[s].attempt <= starts'[run'[s].task]
    <3>1. CASE s = r
      BY <1>1, <2>2, <2>3, <3>1
    <3>2. CASE s # r /\ run[s].task = t
      BY <1>1, <2>2, <2>3, <2>4, <2>5, <3>2
    <3>3. CASE s # r /\ run[s].task # t
      BY <1>1, <2>2, <2>3, <2>4, <2>6, <3>3 DEF OneRunPerStart
    <3>4. QED
      BY <3>1, <3>2, <3>3
  <2>7. ASSUME NEW s \in Runners, NEW q \in Runners, run'[s].task # NoTask,
               run'[s].task = run'[q].task, run'[s].attempt = run'[q].attempt
        PROVE  s = q
    <3>1. CASE s = r /\ q # r
      BY <1>1, <2>2, <2>4, <2>5, <3>1, <2>7
    <3>2. CASE q = r /\ s # r
      BY <1>1, <2>2, <2>4, <2>5, <3>2, <2>7
    <3>3. CASE s # r /\ q # r
      BY <2>2, <2>7, <3>3 DEF OneRunPerStart
    <3>4. QED
      BY <3>1, <3>2, <3>3
  <2>8. Active' = Active /\ client' = client
    BY <1>1, <1>2, <2>1 DEF L!Start, Active, Claim
  <2>9. QED
    BY <2>6, <2>7, <2>8 DEF OneRunPerStart, OneActive, Queueing
<1>3. CASE Settle(r)
  <2>1. Active' \subseteq Active /\ starts' = starts
    <3>1. CASE Owns(r, run[r].task)
      BY <1>3, <3>1, SettleShrinks DEF Settle
    <3>2. CASE ~Owns(r, run[r].task)
      BY <1>3, <3>2 DEF Settle, taskVars, Active
    <3>3. QED
      BY <3>1, <3>2
  <2>2. run' = [run EXCEPT ![r] = Idle] /\ client' = client
    BY <1>3 DEF Settle
  <2>3. run'[r].task = NoTask /\ \A s \in Runners \ {r} : run'[s] = run[s]
    BY <1>1, <2>2 DEF Idle
  <2>4. OneRunPerStart'
    BY <2>1, <2>3 DEF OneRunPerStart
  <2>5. OneActive'
    BY <2>1, <2>2 DEF OneActive, Queueing
  <2>6. QED
    BY <2>4, <2>5
<1>4. CASE ~Claim(r) /\ ~Settle(r)
  BY <1>4, RunStaysWithTask DEF OneRunPerStart, OneActive, Queueing, taskVars, Active
<1>5. QED
  BY <1>2, <1>3, <1>4

\* What a request does while it decides whether to queue the document, if it
\* misses no task: nothing, but when it goes on there is no task.
Looking == {"idle", "pending", "running"}

Looks(c) == (\E force \in BOOLEAN : Ingest(c, force)) \/ LookPending(c) \/ LookRunning(c)

Pushing(c) == client[c].pc \in {"pending", "running"} /\ client[c].next = "push"

LEMMA LookDoes ==
  ASSUME TypeOK, ~Spend("miss"), NEW c \in Clients, Looks(c)
  PROVE  /\ UNCHANGED <<taskVars, docVars, run, left>>
         /\ \A d \in Clients \ {c} : client'[d] = client[d]
         /\ client[c].pc \in Looking
         /\ \/ client'[c].pc \in Looking
            \/ /\ Queueing(c)' /\ Active = {} /\ \A d \in Clients : ~Queueing(d)
               /\ client'[c].pc = "push" => Pushing(c)
         /\ Pushing(c)' => Pushing(c) \/ stage # "uploaded"
<1>1. client \in [Clients -> Requests] /\ client[c] \in Requests
  BY Typed
<1>2. ASSUME NEW force \in BOOLEAN, Ingest(c, force)
      PROVE  /\ UNCHANGED <<taskVars, docVars, run, left>> /\ client[c].pc = "idle"
             /\ \A d \in Clients \ {c} : client'[d] = client[d]
             /\ client'[c].pc = "pending" /\ (client'[c].next = "push" => stage # "uploaded")
  <2>1. ~CanTransition("uploaded", "chunking")
    BY DEF CanTransition, Allowed
  <2>2. QED
    BY <1>1, <1>2, <2>1 DEF Ingest, Requests
<1>3. CASE LookPending(c)
  <2>1. \/ client' = [client EXCEPT ![c] = NoRequest]
        \/ client' = [client EXCEPT ![c] = [client[c] EXCEPT !.pc = "running"]]
    BY <1>3 DEF LookPending
  <2>2. client[c].pc = "pending" /\ UNCHANGED <<taskVars, docVars, run, left>>
    BY <1>3 DEF LookPending
  <2>3. \/ client'[c] = NoRequest
        \/ client'[c].pc = "running" /\ client'[c].next = client[c].next
    BY <1>1, <2>1 DEF Requests
  <2>4. \A d \in Clients \ {c} : client'[d] = client[d]
    BY <1>1, <2>1
  <2>5. QED
    BY <2>2, <2>3, <2>4 DEF Looking, Pushing, NoRequest
<1>4. CASE LookRunning(c)
  <2>1. \/ client' = [client EXCEPT ![c] = NoRequest]
        \/ /\ client' = [client EXCEPT ![c] = [client[c] EXCEPT !.pc = client[c].next]]
           /\ ~InPhase("started") /\ ~InPhase("waiting") /\ \A d \in Clients : ~Queueing(d)
    BY <1>4 DEF LookRunning
  <2>2. client[c].pc = "running" /\ UNCHANGED <<taskVars, docVars, run, left>>
    BY <1>4 DEF LookRunning
  <2>3. CASE client' = [client EXCEPT ![c] = NoRequest]
    <3>1. client'[c] = NoRequest /\ \A d \in Clients \ {c} : client'[d] = client[d]
      BY <1>1, <2>3
    <3>2. QED
      BY <2>2, <3>1 DEF Looking, Pushing, NoRequest
  <2>4. CASE /\ client' = [client EXCEPT ![c] = [client[c] EXCEPT !.pc = client[c].next]]
             /\ ~InPhase("started") /\ ~InPhase("waiting") /\ \A d \in Clients : ~Queueing(d)
    <3>1. Active = {}
      BY <2>4 DEF InPhase, Active
    <3>2. client'[c].pc = client[c].next /\ client[c].next \in {"push", "insert"}
          /\ \A d \in Clients \ {c} : client'[d] = client[d]
      BY <1>1, <2>4 DEF Requests
    <3>3. QED
      BY <2>2, <2>4, <3>1, <3>2 DEF Looking, Pushing, Queueing
  <2>5. QED
    BY <2>1, <2>3, <2>4
<1>5. QED
  BY <1>2, <1>3, <1>4 DEF Looks, Looking, Pushing

\* The requests keep both, too, as long as no task is missed.
LEMMA ClientKeepsOwner ==
  ASSUME TypeOK, OneRunPerStart, OneActive, ~Spend("miss"),
         NEW c \in Clients, Begin(c) \/ Continue(c)
  PROVE  OneRunPerStart' /\ OneActive'
<1>1. run' = run /\ starts' = starts
  BY DEF Begin, Continue, Ingest, LookPending, LookRunning, Cancel, Replace, PushBack, Insert,
         CancelTasks, CancelStage, Drop, DropVectors, DropTokens, DropChunks, SetContent,
         SetOriginal, Restart, taskVars, L!Submit, L!Settle
<1>2. client \in [Clients -> Requests]
  BY Typed
<1>3. OneRunPerStart'
  BY <1>1 DEF OneRunPerStart
<1>4. ASSUME \A d \in Clients \ {c} : client'[d] = client[d], ~Queueing(c)',
             Active' \subseteq Active
      PROVE  OneActive'
  BY <1>4 DEF OneActive, Queueing
<1>5. CASE Insert(c)
  <2>1. PICK t \in Tasks : L!Submit(t)
    BY <1>5 DEF Insert
  <2>2. Queueing(c) /\ ~Queueing(c)' /\ \A d \in Clients \ {c} : client'[d] = client[d]
    BY <1>2, <1>5 DEF Insert, Request, NoRequest, Queueing
  <2>3. Active' = {t}
    BY <2>1, <2>2, Typed DEF L!Submit, Active, OneActive
  <2>4. \A d \in Clients : ~Queueing(d)'
    BY <2>2 DEF OneActive, Queueing
  <2>5. QED
    BY <1>3, <2>3, <2>4 DEF OneActive
<1>6. CASE PushBack(c)
  <2>1. Queueing(c) /\ \A d \in Clients \ {c} : client'[d] = client[d]
    BY <1>2, <1>6 DEF PushBack, Request, Queueing
  <2>2. Active' = Active
    BY <1>6 DEF PushBack, taskVars, Active
  <2>3. QED
    BY <1>3, <2>1, <2>2 DEF OneActive, Queueing
<1>7. CASE Looks(c)
  <2>1. /\ \A d \in Clients \ {c} : client'[d] = client[d]
        /\ Active' = Active
        /\ \/ client'[c].pc \in Looking
           \/ Active = {} /\ \A d \in Clients : ~Queueing(d)
    BY <1>7, LookDoes DEF taskVars, Active
  <2>2. CASE client'[c].pc \in Looking
    BY <1>3, <1>4, <2>1, <2>2 DEF Looking, Queueing
  <2>3. CASE Active = {} /\ \A d \in Clients : ~Queueing(d)
    BY <1>3, <2>1, <2>3 DEF OneActive, Queueing
  <2>4. QED
    BY <2>1, <2>2, <2>3
<1>8. CASE \/ Cancel(c) \/ (\E v \in Versions : Replace(c, v))
           \/ CancelTasks(c) \/ CancelStage(c) \/ Drop(c)
           \/ SetContent(c) \/ SetOriginal(c) \/ Restart(c)
  <2>1. ~Queueing(c)' /\ \A d \in Clients \ {c} : client'[d] = client[d]
    <3>1. CASE Cancel(c) \/ CancelTasks(c) \/ CancelStage(c) \/ SetOriginal(c) \/ Restart(c)
      BY <1>2, <3>1
         DEF Cancel, CancelTasks, CancelStage, SetOriginal, Restart, Request, NoRequest, Queueing
    <3>2. CASE Drop(c) \/ SetContent(c)
      BY <1>2, <3>2 DEF Drop, DropVectors, DropTokens, DropChunks, SetContent, Requests, Queueing
    <3>3. CASE \E v \in Versions : Replace(c, v)
      BY <1>2, <3>3 DEF Replace, Requests, Queueing
    <3>4. QED
      BY <1>8, <3>1, <3>2, <3>3
  <2>2. Active' \subseteq Active
    <3>1. CASE CancelTasks(c)
      BY <3>1, SettleShrinks DEF CancelTasks
    <3>2. CASE ~CancelTasks(c)
      BY <1>8, <3>2
         DEF Cancel, Replace, CancelStage, Drop, DropVectors, DropTokens, DropChunks, SetContent,
             SetOriginal, Restart, taskVars, Active
    <3>3. QED
      BY <3>1, <3>2
  <2>3. QED
    BY <1>3, <1>4, <2>1, <2>2
<1>9. QED
  BY <1>5, <1>6, <1>7, <1>8 DEF Begin, Continue, Looks

OwnerInv == TypeInv /\ OneRunPerStart /\ OneActive

LEMMA OwnerInductive ==
  OwnerInv /\ [Next]_vars /\ ~Spend("miss") => OwnerInv'
<1> SUFFICES ASSUME OwnerInv, [Next]_vars, ~Spend("miss")
             PROVE  OneRunPerStart' /\ OneActive'
  BY TypeInductive DEF OwnerInv
<1> USE DEF OwnerInv, TypeInv
<1>1. ASSUME NEW r \in Runners, Runner(r) \/ WorkFails(r) \/ Abort(r)
      PROVE  OneRunPerStart' /\ OneActive'
  BY <1>1, RunnerKeepsOwner
<1>2. ASSUME NEW c \in Clients, Begin(c) \/ Continue(c)
      PROVE  OneRunPerStart' /\ OneActive'
  BY <1>2, ClientKeepsOwner
<1>3. ASSUME NEW t \in Tasks, Reclaim(t)
      PROVE  OneRunPerStart' /\ OneActive'
  <2>1. \E back, over : L!Settle(back, over)
    BY <1>3 DEF Reclaim
  <2>2. UNCHANGED <<run, client>>
    BY <1>3 DEF Reclaim
  <2>3. QED
    BY <2>1, <2>2, SettleShrinks DEF OneRunPerStart, OneActive, Queueing
<1>4. CASE Crash
  <2>1. PICK R \in SUBSET Runners, C \in SUBSET Clients :
          /\ run' = [r \in Runners |-> IF r \in R THEN Idle ELSE run[r]]
          /\ client' = [c \in Clients |-> IF c \in C THEN NoRequest ELSE client[c]]
    BY <1>4 DEF Crash
  <2>2. \A r \in Runners : run'[r].task = NoTask \/ run'[r] = run[r]
    BY <2>1 DEF Idle
  <2>3. UNCHANGED taskVars
    BY <1>4 DEF Crash
  <2>4. OneRunPerStart'
    BY <2>2, <2>3 DEF OneRunPerStart, taskVars
  <2>5. OneActive'
    BY <2>1, <2>3 DEF OneActive, Queueing, NoRequest, taskVars, Active
  <2>6. QED
    BY <2>4, <2>5
<1>5. CASE UNCHANGED vars
  BY <1>5 DEF vars, taskVars, OneRunPerStart, OneActive, Queueing, Active
<1>6. QED
  BY <1>1, <1>2, <1>3, <1>4, <1>5 DEF Next

LEMMA OwnerInitially == Init => OwnerInv
<1> SUFFICES ASSUME Init
             PROVE  OneRunPerStart /\ OneActive
  BY TypeInitially DEF OwnerInv
<1>1. OneRunPerStart
  BY DEF Init, Idle, OneRunPerStart
<1>2. OneActive
  BY DEF Init, L!Init, OneActive, Active, Queueing, NoRequest
<1>3. QED
  BY <1>1, <1>2

\* However many runners work on tasks of one document, at most one of them still
\* may write an outcome, for any number of requests at a time - until a request
\* misses a task in its two looks and queues the document again.
THEOREM OneOwnerAtMost == Spec => []OneOwner
<1> DEFINE Inv == TypeInv /\ (Happened("miss") \/ OwnerInv)
<1>1. Inv => OneOwner
  <2> SUFFICES ASSUME OwnerInv,
                      NEW r \in Runners, NEW s \in Runners, NEW t \in Tasks, NEW u \in Tasks,
                      Owns(r, t), Owns(s, u)
               PROVE  r = s
    BY DEF OneOwner
  <2>1. t \in Active /\ u \in Active
    BY DEF Owns, Active
  <2>2. t = u
    BY <2>1 DEF OwnerInv, OneActive
  <2>3. run[r].task # NoTask /\ run[r].task = run[s].task /\ run[r].attempt = run[s].attempt
    BY <2>2, PipelineAssumption DEF Owns
  <2>4. QED
    BY <2>3 DEF OwnerInv, OneRunPerStart
<1>2. Init => Inv
  BY TypeInitially, OwnerInitially
<1>3. Inv /\ [Next]_vars => Inv'
  BY OwnerInductive, UntilMissed, TypeInductive
<1>4. QED
  BY <1>1, <1>2, <1>3, PTL DEF Spec

-----------------------------------------------------------------------------
(* The products of a content nobody edits                                  *)

\* What has to be there before a document is moved to a stage by a run that
\* holds the original `file` and the markdown `text`.  Nothing is asked of the
\* stages a run starts from, and nothing follows from them: a forced ingest
\* moves a document to the cut whether it was parsed or not.
Prepared(target, file, text) ==
  /\ target = "parsing" => file = content
  /\ target \in {"parsed", "chunking"} => parsed = content
  /\ target \in {"chunked", "embedding"} => text = content /\ chunks = content
  /\ target = "indexed" => chunks = content /\ vectors = content

\* A run asks only for a stage whose products are there, and does the work of a
\* stage only when those before it are.
Prudent(x) ==
  /\ x.file \in {NoVersion, content} /\ x.text \in {NoVersion, content}
  /\ x.pc \in {"check", "write"} => Prepared(x.target, x.file, x.text)
  /\ x.pc = "work" => Prepared(x.mem, x.file, x.text)
  /\ x.pc = "index" => x.text = content /\ chunks = content

\* The products are of the content, and those a stage stands for are there.
Products ==
  /\ original = content
  /\ parsed \in {NoVersion, content} /\ chunks \in {NoVersion, content}
  /\ vectors \in {NoVersion, content}
  /\ stage \in {"chunked", "embedding", "indexed"} => chunks = content
  /\ stage = "indexed" => vectors = content

NoEdits ==
  /\ left["edit"] = 0
  /\ \A c \in Clients :
       client[c].pc \notin {"vectors", "tokens", "chunks", "content", "path", "restart"}

ContentInv ==
  TypeInv /\ NoEdits /\ Products /\ \A r \in Runners : Prudent(run[r])

\* A product, once there, stays.
Grows ==
  /\ content' = content
  /\ parsed' \in {parsed, content} /\ chunks' \in {chunks, content}
  /\ vectors' \in {vectors, content}

\* Whatever is added, a run that does not move stays prudent.
LEMMA PrudentStays ==
  ASSUME Grows, NEW r \in Runners, run'[r] = run[r], Prudent(run[r])
  PROVE  Prudent(run[r])'
  BY DEF Grows, Prudent, Prepared

\* A run that has stopped working is prudent.
LEMMA StoppedIsPrudent ==
  ASSUME NEW x, x.pc \notin {"check", "write", "work", "index"},
         x.file \in {NoVersion, content}, x.text \in {NoVersion, content}
  PROVE  Prudent(x)
  BY DEF Prudent

\* The heart of it: one step of a run only adds to the products, leaves the
\* stage one they are there for, and the run prudent.
LEMMA RunStep ==
  ASSUME ContentInv, NEW r \in Runners, Runner(r) \/ WorkFails(r) \/ Abort(r)
  PROVE  Grows /\ Products' /\ Prudent(run[r])'
<1>1. /\ run \in [Runners -> RunRecord] /\ stage \in StageNames /\ content \in Versions
      /\ run[r] \in RunRecord
  BY Typed DEF ContentInv, TypeInv
<1>2. Prudent(run[r]) /\ Products /\ content # NoVersion
  BY <1>1, PipelineAssumption DEF ContentInv
<1>3. ASSUME UNCHANGED docVars
      PROVE  Grows /\ Products'
  BY <1>2, <1>3 DEF docVars, Grows, Products
<1>4. CASE Claim(r)
  <2>1. \E t, n : run' = [run EXCEPT ![r] = [Idle EXCEPT !.task = t, !.pc = "load",
                                                         !.attempt = n]]
    BY <1>4 DEF Claim
  <2>2. run'[r].pc = "load" /\ run'[r].file = NoVersion /\ run'[r].text = NoVersion
    BY <1>1, <2>1 DEF Idle
  <2>3. UNCHANGED docVars
    BY <1>4 DEF Claim
  <2>4. QED
    BY <1>3, <2>2, <2>3 DEF Prudent
<1>5. CASE Load(r)
  <2> DEFINE from == ResumeStage
             p == IF ~Before(from, "parsed") /\ parsed = NoVersion THEN "fail"
                  ELSE IF from = "indexed" THEN "ok" ELSE "check"
             s == CASE Before(from, "parsed")  -> "probing"
                    [] Before(from, "chunked") /\ ~Before(from, "parsed") -> "chunking"
                    [] OTHER -> "embedding"
             x == IF Before(from, "chunked") THEN NoVersion ELSE chunks
  <2>1. run' = [run EXCEPT ![r] = [@ EXCEPT !.mem = stage, !.pc = p, !.target = s, !.text = x]]
    BY <1>5 DEF Load
  <2>2. x \in {NoVersion, content}
    BY <1>2 DEF Products
  <2>3. from \in {"chunked", "embedding"} => chunks = content
    BY <1>2 DEF ResumeStage, Products
  <2>4. p = "check" => Prepared(s, run[r].file, x)
    <3>1. CASE from \in {"uploaded", "probing", "parsing"}
      BY <3>1, Order DEF Prepared
    <3>2. CASE from \in {"parsed", "chunking"}
      BY <1>2, <3>2, Order DEF Prepared, Products
    <3>3. CASE from \in {"chunked", "embedding"}
      BY <2>3, <3>3, Order DEF Prepared
    <3>4. CASE from = "indexed"
      BY <3>4
    <3>5. QED
      BY <1>1, <3>1, <3>2, <3>3, <3>4, ResumeStageIs DEF StageNames
  <2>5. p \in {"fail", "ok", "check"}
    OBVIOUS
  <2> HIDE DEF from, p, s, x
  <2>6. run'[r].pc = p /\ run'[r].target = s /\ run'[r].file = run[r].file /\ run'[r].text = x
    BY <1>1, <2>1 DEF RunRecord
  <2>7. UNCHANGED docVars
    BY <1>5 DEF Load
  <2>8. QED
    BY <1>2, <1>3, <2>2, <2>4, <2>5, <2>6, <2>7 DEF Prudent, Prepared, docVars
<1>6. CASE Check(r) \/ Fail(r) \/ WorkFails(r) \/ Abort(r)
  <2>1. \E p \in {"canceled", "write", "fail", "error", "reject"} :
          Goto(r, p) /\ (p = "write" => run[r].pc = "check")
    BY <1>6 DEF Check, Fail, WorkFails, Abort
  <2>2. /\ run'[r].file = run[r].file /\ run'[r].text = run[r].text
        /\ run'[r].target = run[r].target
        /\ run'[r].pc \in {"canceled", "write", "fail", "error", "reject"}
        /\ run'[r].pc = "write" => run[r].pc = "check"
    BY <1>1, <2>1 DEF Goto, RunRecord
  <2>3. Grows
    BY <1>6 DEF Check, Fail, WorkFails, Abort, docVars, Grows
  <2>4. Products'
    <3>1. CASE Fail(r)
      BY <1>2, <3>1 DEF Fail, Products
    <3>2. CASE Check(r) \/ WorkFails(r) \/ Abort(r)
      BY <1>3, <3>2 DEF Check, WorkFails, Abort
    <3>3. QED
      BY <1>6, <3>1, <3>2
  <2>5. Prudent(run[r])'
    <3>1. run'[r].file \in {NoVersion, content'} /\ run'[r].text \in {NoVersion, content'}
      BY <1>2, <2>2, <2>3 DEF Prudent, Grows
    <3>2. run'[r].pc \in {"check", "write"} => Prepared(run[r].target, run[r].file, run[r].text)'
      BY <1>2, <2>2, <2>3 DEF Prudent, Prepared, Grows
    <3>3. QED
      BY <2>2, <3>1, <3>2 DEF Prudent
  <2>6. QED
    BY <2>3, <2>4, <2>5
<1>7. CASE Write(r)
  <2> DEFINE s == run[r].target
             p == CASE s = "indexed" -> "ok"
                    [] s \in {"parsed", "chunked"} -> "check"
                    [] s = "embedding" /\ run[r].text = NoVersion -> "check"
                    [] OTHER -> "work"
             n == CASE s = "parsed"    -> "chunking"
                    [] s = "chunked"   -> "embedding"
                    [] s = "embedding" -> "indexed"
                    [] OTHER           -> s
  <2>1. Prepared(s, run[r].file, run[r].text)
    BY <1>2, <1>7 DEF Write, Prudent
  <2>2. run' = [run EXCEPT ![r] = [@ EXCEPT !.mem = s, !.pc = p, !.target = n]]
    BY <1>7 DEF Write
  <2>3. p \in {"ok", "check", "work"}
    OBVIOUS
  <2>4. p = "check" => Prepared(n, run[r].file, run[r].text)
    BY <1>2, <2>1 DEF Prepared
  <2> HIDE DEF n, p, s
  <2>5. /\ run'[r].mem = s /\ run'[r].pc = p /\ run'[r].target = n
        /\ run'[r].file = run[r].file /\ run'[r].text = run[r].text
    BY <1>1, <2>2 DEF RunRecord
  <2>6. stage' = s /\ UNCHANGED <<content, original, parsed, chunks, vectors>>
    BY <1>7 DEF Write, s
  <2>7. Grows
    BY <2>6 DEF Grows
  <2>8. Products'
    BY <1>2, <2>1, <2>6 DEF Products, Prepared
  <2>9. Prudent(run[r])'
    BY <1>2, <2>1, <2>3, <2>4, <2>5, <2>6 DEF Prudent, Prepared
  <2>10. QED
    BY <2>7, <2>8, <2>9
<1>8. CASE Probe(r)
  <2>1. run'[r].pc = "check" /\ run'[r].target = "parsing"
        /\ run'[r].file = content /\ run'[r].text = NoVersion
    BY <1>1, <1>2, <1>8 DEF Probe, Advance, RunRecord, Products
  <2>2. UNCHANGED docVars
    BY <1>8 DEF Probe
  <2>3. QED
    BY <1>3, <2>1, <2>2 DEF Prudent, Prepared, docVars
<1>9. CASE Parse(r)
  <2>1. run[r].file = content
    BY <1>2, <1>9 DEF Parse, At, Prudent, Prepared
  <2>2. run'[r].pc = "check" /\ run'[r].target = "parsed"
        /\ run'[r].file = content /\ run'[r].text = content
    BY <1>1, <1>9, <2>1 DEF Parse, Advance, RunRecord
  <2>3. parsed' = content /\ UNCHANGED <<stage, content, original, chunks, vectors>>
    BY <1>9, <2>1 DEF Parse
  <2>4. QED
    BY <1>2, <2>2, <2>3 DEF Grows, Products, Prudent, Prepared
<1>10. CASE Cut(r)
  <2> DEFINE x == IF run[r].text # NoVersion THEN run[r].text ELSE parsed
  <2>1. x = content
    BY <1>2, <1>10 DEF Cut, At, Prudent, Prepared
  <2>2. run' = [run EXCEPT ![r] = [@ EXCEPT !.pc = "index", !.text = x]] /\ chunks' = x
        /\ UNCHANGED <<stage, content, original, parsed, vectors>>
    BY <1>10 DEF Cut
  <2> HIDE DEF x
  <2>3. run'[r].pc = "index" /\ run'[r].text = content /\ run'[r].file = run[r].file
    BY <1>1, <2>1, <2>2 DEF RunRecord
  <2>4. QED
    BY <1>2, <2>1, <2>2, <2>3 DEF Grows, Products, Prudent
<1>11. CASE IndexText(r)
  <2>1. run[r].text = content /\ chunks = content
    BY <1>2, <1>11 DEF IndexText, Prudent
  <2>2. run'[r].pc = "check" /\ run'[r].target = "chunked"
        /\ run'[r].file = run[r].file /\ run'[r].text = content
    BY <1>1, <1>11, <2>1 DEF IndexText, Advance, RunRecord
  <2>3. UNCHANGED <<stage, content, original, parsed, chunks, vectors>>
    BY <1>11 DEF IndexText
  <2>4. QED
    BY <1>2, <2>1, <2>2, <2>3 DEF Grows, Products, Prudent, Prepared
<1>12. CASE Embed(r)
  <2>1. run[r].text = content /\ chunks = content
    BY <1>2, <1>12 DEF Embed, At, Prudent, Prepared
  <2>2. run'[r].pc = "check" /\ run'[r].target = "indexed"
        /\ run'[r].file = run[r].file /\ run'[r].text = content
    BY <1>1, <1>12, <2>1 DEF Embed, Advance, RunRecord
  <2>3. vectors' = content /\ UNCHANGED <<stage, content, original, parsed, chunks>>
    BY <1>12, <2>1 DEF Embed
  <2>4. QED
    BY <1>2, <2>1, <2>2, <2>3 DEF Grows, Products, Prudent, Prepared
<1>13. CASE Settle(r)
  <2>1. run'[r] = Idle /\ UNCHANGED docVars
    BY <1>1, <1>13 DEF Settle
  <2>2. QED
    BY <1>3, <2>1 DEF Idle, Prudent
<1>14. QED
  BY <1>4, <1>5, <1>6, <1>7, <1>8, <1>9, <1>10, <1>11, <1>12, <1>13 DEF Runner, Work

\* The other runs, the requests and the budget are not touched by it.
LEMMA RunKeepsOthers ==
  ASSUME TypeOK, NEW r \in Runners, Runner(r) \/ WorkFails(r) \/ Abort(r)
  PROVE  /\ \A s \in Runners \ {r} : run'[s] = run[s]
         /\ client' = client /\ left'["edit"] = left["edit"]
<1>1. run \in [Runners -> RunRecord] /\ left \in [Events -> Nat]
  BY Typed
<1>2. \A s \in Runners \ {r} : run'[s] = run[s]
  BY <1>1
     DEF Runner, Claim, Load, Check, Write, Work, Probe, Parse, Cut, IndexText, Embed, Fail,
         Settle, WorkFails, Abort, Goto, Advance
<1>3. client' = client
  BY DEF Runner, Claim, Load, Check, Write, Work, Probe, Parse, Cut, IndexText, Embed, Fail,
         Settle, WorkFails, Abort
<1>4. CASE WorkFails(r) \/ Abort(r)
  <2>1. \E k \in {"error", "reject"} : left' = [left EXCEPT ![k] = @ - 1]
    BY <1>4 DEF WorkFails, Abort, Spend
  <2>2. QED
    BY <1>1, <1>2, <1>3, <2>1 DEF Events
<1>5. CASE Runner(r)
  <2>1. left' = left
    BY <1>5
       DEF Runner, Claim, Load, Check, Write, Work, Probe, Parse, Cut, IndexText, Embed, Fail,
           Settle
  <2>2. QED
    BY <1>2, <1>3, <2>1
<1>6. QED
  BY <1>4, <1>5

\* No edit is left, so a request touches no more than the stage.
LEMMA RequestStep ==
  ASSUME ContentInv, NEW c \in Clients, Begin(c) \/ Continue(c)
  PROVE  NoEdits' /\ Grows /\ Products' /\ run' = run
<1>1. client \in [Clients -> Requests] /\ left \in [Events -> Nat] /\ NoEdits /\ Products
  BY Typed DEF ContentInv, TypeInv
<1>2. run' = run
  BY ClientTyped DEF ContentInv
<1>3. ASSUME NEW v \in Versions, Replace(c, v)
      PROVE  FALSE
  BY <1>1, <1>3 DEF Replace, Spend, NoEdits
<1>4. CASE Drop(c) \/ SetContent(c) \/ SetOriginal(c) \/ Restart(c)
  BY <1>1, <1>4
     DEF Drop, DropVectors, DropTokens, DropChunks, SetContent, SetOriginal, Restart, Request, NoEdits
<1>5. ASSUME NEW p \in {"idle", "push", "insert", "cancelTasks", "cancelStage"}, NEW from,
             Request(c, from, p), left'["edit"] = left["edit"]
      PROVE  NoEdits'
  BY <1>1, <1>5 DEF Request, NoRequest, NoEdits
<1>6. CASE Cancel(c)
  <2>1. left' = [left EXCEPT !["cancel"] = @ - 1] /\ UNCHANGED docVars
        /\ Request(c, "idle", "cancelTasks")
    BY <1>6 DEF Cancel, Spend
  <2>2. left'["edit"] = left["edit"]
    BY <1>1, <2>1 DEF Events
  <2>3. NoEdits'
    BY <1>5, <2>1, <2>2
  <2>4. QED
    BY <1>1, <1>2, <2>1, <2>3 DEF docVars, Grows, Products
<1>7. CASE (\E force \in BOOLEAN : Ingest(c, force)) \/ LookPending(c) \/ LookRunning(c)
  <2>1. client'[c].pc \in {"idle", "pending", "running", "push", "insert"}
        /\ \A d \in Clients \ {c} : client'[d] = client[d]
    <3>1. client[c] \in Requests
      BY <1>1
    <3>2. CASE \E force \in BOOLEAN : Ingest(c, force)
      BY <1>1, <3>1, <3>2 DEF Ingest, Requests
    <3>3. CASE LookPending(c)
      BY <1>1, <3>1, <3>3 DEF LookPending, Requests, NoRequest
    <3>4. CASE LookRunning(c)
      BY <1>1, <3>1, <3>4 DEF LookRunning, Requests, NoRequest
    <3>5. QED
      BY <1>7, <3>2, <3>3, <3>4
  <2>2. UNCHANGED docVars /\ (left' = left \/ left' = [left EXCEPT !["miss"] = @ - 1])
    BY <1>7 DEF Ingest, LookPending, LookRunning, Spend
  <2>3. left'["edit"] = left["edit"]
    BY <1>1, <2>2 DEF Events
  <2>4. NoEdits'
    BY <1>1, <2>1, <2>3 DEF NoEdits
  <2>5. QED
    BY <1>1, <1>2, <2>2, <2>4 DEF docVars, Grows, Products
<1>8. CASE PushBack(c) \/ CancelStage(c)
  <2>1. NoEdits'
    BY <1>5, <1>8 DEF PushBack, CancelStage
  <2>2. stage' \in {"chunking", "canceled"} /\ UNCHANGED <<content, original, parsed, chunks, vectors>>
    BY <1>8 DEF PushBack, CancelStage
  <2>3. QED
    BY <1>1, <1>2, <2>1, <2>2 DEF Grows, Products
<1>9. CASE Insert(c) \/ CancelTasks(c)
  <2>1. NoEdits'
    BY <1>5, <1>9 DEF Insert, CancelTasks
  <2>2. UNCHANGED docVars
    BY <1>9 DEF Insert, CancelTasks
  <2>3. QED
    BY <1>1, <1>2, <2>1, <2>2 DEF docVars, Grows, Products
<1>10. QED
  BY <1>2, <1>3, <1>4, <1>6, <1>7, <1>8, <1>9 DEF Begin, Continue

LEMMA ContentInductive == ContentInv /\ [Next]_vars => ContentInv'
<1> SUFFICES ASSUME ContentInv, [Next]_vars
             PROVE  NoEdits' /\ Products' /\ \A s \in Runners : Prudent(run[s])'
  BY TypeInductive DEF ContentInv
<1>1. ASSUME Grows, NoEdits', Products', run' = run
      PROVE  \A s \in Runners : Prudent(run[s])'
  BY <1>1, PrudentStays DEF ContentInv
<1>2. ASSUME NEW r \in Runners, Runner(r) \/ WorkFails(r) \/ Abort(r)
      PROVE  NoEdits' /\ Products' /\ \A s \in Runners : Prudent(run[s])'
  <2>1. Grows /\ Products' /\ Prudent(run[r])'
    BY <1>2, RunStep
  <2>2. /\ \A s \in Runners \ {r} : run'[s] = run[s]
        /\ client' = client /\ left'["edit"] = left["edit"]
    BY <1>2, RunKeepsOthers DEF ContentInv, TypeInv
  <2>3. \A s \in Runners \ {r} : Prudent(run[s])'
    BY <2>1, <2>2, PrudentStays DEF ContentInv
  <2>4. NoEdits'
    BY <2>2 DEF ContentInv, NoEdits
  <2>5. QED
    BY <2>1, <2>3, <2>4
<1>3. ASSUME NEW c \in Clients, Begin(c) \/ Continue(c)
      PROVE  NoEdits' /\ Products' /\ \A s \in Runners : Prudent(run[s])'
  BY <1>1, <1>3, RequestStep
<1>4. ASSUME NEW t \in Tasks, Reclaim(t)
      PROVE  NoEdits' /\ Products' /\ \A s \in Runners : Prudent(run[s])'
  <2>1. left' = left \/ left' = [left EXCEPT !["lapse"] = @ - 1]
    BY <1>4 DEF Reclaim, Spend
  <2>2. left'["edit"] = left["edit"] /\ UNCHANGED <<docVars, run, client>>
    BY <1>4, <2>1, Typed DEF Reclaim, ContentInv, TypeInv, Events
  <2>3. QED
    BY <1>1, <2>2 DEF ContentInv, NoEdits, Products, Grows, docVars
<1>5. CASE Crash
  <2>1. PICK R \in SUBSET Runners, C \in SUBSET Clients :
          /\ run' = [r \in Runners |-> IF r \in R THEN Idle ELSE run[r]]
          /\ client' = [c \in Clients |-> IF c \in C THEN NoRequest ELSE client[c]]
    BY <1>5 DEF Crash
  <2>2. left' = [left EXCEPT !["crash"] = @ - 1] /\ UNCHANGED docVars
    BY <1>5 DEF Crash, Spend
  <2>3. left'["edit"] = left["edit"]
    BY <2>2, Typed DEF ContentInv, TypeInv, Events
  <2>4. NoEdits'
    BY <2>1, <2>3 DEF ContentInv, NoEdits, NoRequest
  <2>5. Grows /\ Products'
    BY <2>2 DEF ContentInv, Products, Grows, docVars
  <2>6. ASSUME NEW s \in Runners
        PROVE  Prudent(run[s])'
    <3>1. CASE s \in R
      BY <2>1, <3>1 DEF Idle, Prudent
    <3>2. CASE s \notin R
      BY <2>1, <2>5, <3>2, PrudentStays DEF ContentInv
    <3>3. QED
      BY <3>1, <3>2
  <2>7. QED
    BY <2>4, <2>5, <2>6
<1>6. CASE UNCHANGED vars
  BY <1>1, <1>6 DEF vars, docVars, ContentInv, NoEdits, Products, Grows
<1>7. QED
  BY <1>2, <1>3, <1>4, <1>5, <1>6 DEF Next

LEMMA ContentInitially ==
  ASSUME Budget["edit"] = 0
  PROVE  Init => ContentInv
  BY TypeInitially DEF Init, Idle, NoRequest, ContentInv, NoEdits, Products, Prudent

\* A document that counts as indexed has the chunks and the vectors of the
\* content it has, however its runs overlap, lapse, fail, die or are canceled,
\* for any number of them - as long as nobody edits it.  (With an edit it is
\* false: ingest_edit.)
THEOREM IndexedDocumentsAreSearchable ==
  ASSUME Budget["edit"] = 0
  PROVE  Spec => []IndexedIsSearchable
<1>1. ContentInv => IndexedIsSearchable
  BY DEF ContentInv, Products, IndexedIsSearchable
<1>2. QED
  BY <1>1, ContentInitially, ContentInductive, PTL DEF Spec

-----------------------------------------------------------------------------
(* What one step of a run does to the run and to the document               *)

Claimed(r) == run[r].pc = "idle" /\ run'[r].pc = "load" /\ UNCHANGED docVars

Loaded(r) ==
  LET from == ResumeStage
      y == run'[r]
  IN  /\ run[r].pc = "load" /\ UNCHANGED docVars
      /\ y.mem = stage /\ y.file = run[r].file
      /\ \/ from \in {"uploaded", "probing", "parsing"} /\ y.pc = "check" /\ y.target = "probing"
         \/ from \in {"parsed", "chunking"} /\ parsed # NoVersion
              /\ y.pc = "check" /\ y.target = "chunking"
         \/ from \in {"chunked", "embedding"} /\ parsed # NoVersion
              /\ y.pc = "check" /\ y.target = "embedding" /\ y.text = chunks
         \/ from \in StageNames \ {"uploaded", "probing", "parsing"} /\ parsed = NoVersion
              /\ y.pc = "fail"
         \/ from = "indexed" /\ parsed # NoVersion /\ y.pc = "ok"

Checked(r) ==
  LET x == run[r]
      y == run'[r]
  IN  /\ x.pc = "check" /\ UNCHANGED docVars
      /\ y.mem = x.mem /\ y.target = x.target /\ y.file = x.file /\ y.text = x.text
      /\ \/ stage = "canceled" /\ y.pc = "canceled"
         \/ y.pc = "write" /\ CanTransition(x.mem, x.target)
         \/ y.pc = "fail" /\ ~CanTransition(x.mem, x.target)

Written(r) ==
  LET x == run[r]
      y == run'[r]
  IN  /\ x.pc = "write" /\ stage' = x.target
      /\ UNCHANGED <<content, original, parsed, chunks, tokens, vectors>>
      /\ y.mem = x.target /\ y.file = x.file /\ y.text = x.text
      /\ \/ x.target = "indexed" /\ y.pc = "ok"
         \/ x.target = "parsed" /\ y.pc = "check" /\ y.target = "chunking"
         \/ x.target = "chunked" /\ y.pc = "check" /\ y.target = "embedding"
         \/ x.target = "embedding" /\ x.text = NoVersion /\ y.pc = "check" /\ y.target = "indexed"
         \/ x.target \notin {"indexed", "parsed", "chunked"} /\ y.pc = "work"

Probed(r) ==
  /\ At(r, "work", "probing") /\ UNCHANGED docVars
  /\ run'[r].pc = "check" /\ run'[r].mem = run[r].mem /\ run'[r].target = "parsing"
  /\ run'[r].file = original /\ run'[r].text = NoVersion

Parsed(r) ==
  /\ At(r, "work", "parsing") /\ parsed' = run[r].file
  /\ UNCHANGED <<stage, content, original, chunks, tokens, vectors>>
  /\ run'[r].pc = "check" /\ run'[r].mem = run[r].mem /\ run'[r].target = "parsed"
  /\ run'[r].file = run[r].file /\ run'[r].text = run[r].file

WasCut(r) ==
  /\ At(r, "work", "chunking")
  /\ chunks' = (IF run[r].text # NoVersion THEN run[r].text ELSE parsed) /\ tokens' = NoVersion
  /\ UNCHANGED <<stage, content, original, parsed, vectors>>
  /\ run'[r].pc = "index" /\ run'[r].mem = run[r].mem /\ run'[r].text = chunks'

TextIndexed(r) ==
  /\ run[r].pc = "index" /\ tokens' = IF chunks = NoVersion THEN tokens ELSE run[r].text
  /\ UNCHANGED <<stage, content, original, parsed, chunks, vectors>>
  /\ run'[r].pc = "check" /\ run'[r].mem = run[r].mem /\ run'[r].target = "chunked"
  /\ run'[r].text = run[r].text

Embedded(r) ==
  /\ At(r, "work", "embedding") /\ vectors' = run[r].text
  /\ UNCHANGED <<stage, content, original, parsed, chunks, tokens>>
  /\ run'[r].pc = "check" /\ run'[r].mem = run[r].mem /\ run'[r].target = "indexed"
  /\ run'[r].text = run[r].text

\* The run gives up, with an error of its own or one it has written down.
GaveUp(r) ==
  /\ UNCHANGED <<content, original, parsed, chunks, tokens, vectors>>
  /\ \/ /\ run[r].pc = "work" /\ run[r].mem \in {"parsing", "embedding"}
        /\ run'[r].pc = "fail" /\ run'[r].mem = run[r].mem /\ UNCHANGED stage /\ Spend("error")
     \/ /\ run[r].pc \in {"load", "work", "index"} /\ run'[r].pc \in {"error", "reject"}
        /\ UNCHANGED stage /\ Spend(run'[r].pc)
     \/ /\ run[r].pc = "fail" /\ run'[r].pc = "error"
        /\ stage' = IF run[r].mem \in {"failed", "canceled"} THEN stage ELSE "failed"

Settled(r) ==
  /\ run[r].pc \in {"ok", "canceled", "error", "reject"}
  /\ run'[r].pc = "idle" /\ UNCHANGED docVars

RunDone(r) ==
  \/ Claimed(r) \/ Loaded(r) \/ Checked(r) \/ Written(r) \/ Probed(r) \/ Parsed(r) \/ WasCut(r)
  \/ TextIndexed(r) \/ Embedded(r) \/ GaveUp(r) \/ Settled(r)

LEMMA RunStepDoes ==
  ASSUME TypeOK, NEW r \in Runners, Runner(r) \/ WorkFails(r) \/ Abort(r)
  PROVE  RunDone(r)
<1>1. run \in [Runners -> RunRecord] /\ run[r] \in RunRecord /\ stage \in StageNames
  BY Typed
<1>2. CASE Claim(r)
  <2>1. \E t, n : run' = [run EXCEPT ![r] = [Idle EXCEPT !.task = t, !.pc = "load",
                                                         !.attempt = n]]
    BY <1>2 DEF Claim
  <2>2. run'[r].pc = "load"
    BY <1>1, <2>1 DEF Idle
  <2>3. QED
    BY <1>2, <2>2 DEF Claim, RunDone, Claimed
<1>3. CASE Load(r)
  <2> DEFINE from == ResumeStage
             p == IF ~Before(from, "parsed") /\ parsed = NoVersion THEN "fail"
                  ELSE IF from = "indexed" THEN "ok" ELSE "check"
             s == CASE Before(from, "parsed")  -> "probing"
                    [] Before(from, "chunked") /\ ~Before(from, "parsed") -> "chunking"
                    [] OTHER -> "embedding"
             x == IF Before(from, "chunked") THEN NoVersion ELSE chunks
  <2>1. run' = [run EXCEPT ![r] = [@ EXCEPT !.mem = stage, !.pc = p, !.target = s, !.text = x]]
    BY <1>3 DEF Load
  <2>2. from \in StageNames \ {"failed", "canceled"}
    BY <1>1, ResumeStageIs
  <2>3. \/ from \in {"uploaded", "probing", "parsing"} /\ p = "check" /\ s = "probing"
        \/ from \in {"parsed", "chunking"} /\ parsed # NoVersion /\ p = "check" /\ s = "chunking"
        \/ from \in {"chunked", "embedding"} /\ parsed # NoVersion
             /\ p = "check" /\ s = "embedding" /\ x = chunks
        \/ from \in StageNames \ {"uploaded", "probing", "parsing"} /\ parsed = NoVersion
             /\ p = "fail"
        \/ from = "indexed" /\ parsed # NoVersion /\ p = "ok"
    <3>1. CASE from \in {"uploaded", "probing", "parsing"}
      BY <3>1, Order
    <3>2. CASE from \in {"parsed", "chunking"}
      BY <3>2, <2>2, Order
    <3>3. CASE from \in {"chunked", "embedding"}
      BY <3>3, <2>2, Order
    <3>4. CASE from = "indexed"
      BY <3>4, <2>2, Order
    <3>5. QED
      BY <2>2, <3>1, <3>2, <3>3, <3>4 DEF StageNames
  <2> HIDE DEF p, s, x
  <2>4. /\ run'[r].pc = p /\ run'[r].target = s /\ run'[r].file = run[r].file /\ run'[r].text = x
        /\ run'[r].mem = stage
    BY <1>1, <2>1 DEF RunRecord
  <2>5. UNCHANGED docVars /\ run[r].pc = "load"
    BY <1>3 DEF Load
  <2>6. Loaded(r)
    BY <2>3, <2>4, <2>5 DEF Loaded
  <2>7. QED
    BY <2>6 DEF RunDone
<1>4. ASSUME NEW p, Goto(r, p)
      PROVE  /\ run'[r].pc = p /\ run'[r].mem = run[r].mem /\ run'[r].target = run[r].target
             /\ run'[r].file = run[r].file /\ run'[r].text = run[r].text
  BY <1>1, <1>4 DEF Goto, RunRecord
<1>5. CASE Check(r)
  <2>1. \/ stage = "canceled" /\ Goto(r, "canceled")
        \/ Goto(r, "write") /\ CanTransition(run[r].mem, run[r].target)
        \/ Goto(r, "fail") /\ ~CanTransition(run[r].mem, run[r].target)
    BY <1>5 DEF Check
  <2>2. run[r].pc = "check" /\ UNCHANGED docVars
    BY <1>5 DEF Check
  <2>3. Checked(r)
    BY <1>4, <2>1, <2>2 DEF Checked
  <2>4. QED
    BY <2>3 DEF RunDone
<1>6. CASE Write(r)
  <2> DEFINE s == run[r].target
             p == CASE s = "indexed" -> "ok"
                    [] s \in {"parsed", "chunked"} -> "check"
                    [] s = "embedding" /\ run[r].text = NoVersion -> "check"
                    [] OTHER -> "work"
             n == CASE s = "parsed"    -> "chunking"
                    [] s = "chunked"   -> "embedding"
                    [] s = "embedding" -> "indexed"
                    [] OTHER           -> s
  <2>1. run' = [run EXCEPT ![r] = [@ EXCEPT !.mem = s, !.pc = p, !.target = n]]
    BY <1>6 DEF Write
  <2>2. \/ s = "indexed" /\ p = "ok"
        \/ s = "parsed" /\ p = "check" /\ n = "chunking"
        \/ s = "chunked" /\ p = "check" /\ n = "embedding"
        \/ s = "embedding" /\ run[r].text = NoVersion /\ p = "check" /\ n = "indexed"
        \/ s \notin {"indexed", "parsed", "chunked"} /\ p = "work"
    OBVIOUS
  <2> HIDE DEF p, n
  <2>3. /\ run'[r].mem = s /\ run'[r].pc = p /\ run'[r].target = n
        /\ run'[r].file = run[r].file /\ run'[r].text = run[r].text
    BY <1>1, <2>1 DEF RunRecord
  <2>4. /\ run[r].pc = "write" /\ stage' = s
        /\ UNCHANGED <<content, original, parsed, chunks, tokens, vectors>>
    BY <1>6 DEF Write
  <2>5. Written(r)
    BY <2>2, <2>3, <2>4 DEF Written
  <2>6. QED
    BY <2>5 DEF RunDone
<1>7. ASSUME NEW g, NEW f, NEW x, Advance(r, g, f, x)
      PROVE  /\ run'[r].pc = "check" /\ run'[r].mem = run[r].mem /\ run'[r].target = g
             /\ run'[r].file = f /\ run'[r].text = x
  BY <1>1, <1>7 DEF Advance, RunRecord
<1>8. CASE Probe(r)
  BY <1>7, <1>8 DEF Probe, RunDone, Probed
<1>9. CASE Parse(r)
  BY <1>7, <1>9 DEF Parse, RunDone, Parsed
<1>10. CASE Cut(r)
  <2> DEFINE x == IF run[r].text # NoVersion THEN run[r].text ELSE parsed
  <2>1. run' = [run EXCEPT ![r] = [@ EXCEPT !.pc = "index", !.text = x]] /\ chunks' = x
    BY <1>10 DEF Cut
  <2> HIDE DEF x
  <2>2. run'[r].pc = "index" /\ run'[r].text = x /\ run'[r].mem = run[r].mem
    BY <1>1, <2>1 DEF RunRecord
  <2>3. QED
    BY <1>10, <2>1, <2>2 DEF Cut, RunDone, WasCut, x
<1>11. CASE IndexText(r)
  BY <1>7, <1>11 DEF IndexText, RunDone, TextIndexed
<1>12. CASE Embed(r)
  BY <1>7, <1>12 DEF Embed, RunDone, Embedded
<1>13. CASE Fail(r) \/ WorkFails(r) \/ Abort(r)
  <2>1. CASE Fail(r) \/ WorkFails(r)
    BY <1>4, <2>1 DEF Fail, WorkFails, RunDone, GaveUp, docVars
  <2>2. CASE Abort(r)
    <3>1. PICK k \in {"error", "reject"} : Spend(k) /\ Goto(r, k)
      BY <2>2 DEF Abort
    <3>2. run'[r].pc = k
      BY <1>4, <3>1
    <3>3. QED
      BY <2>2, <3>1, <3>2 DEF Abort, RunDone, GaveUp, docVars
  <2>3. QED
    BY <1>13, <2>1, <2>2
<1>14. CASE Settle(r)
  <2>1. run'[r].pc = "idle"
    BY <1>1, <1>14 DEF Settle, Idle
  <2>2. QED
    BY <1>14, <2>1 DEF Settle, RunDone, Settled
<1>15. QED
  BY <1>2, <1>3, <1>5, <1>6, <1>8, <1>9, <1>10, <1>11, <1>12, <1>13, <1>14 DEF Runner, Work

-----------------------------------------------------------------------------
(* Runs nobody takes a task from                                           *)

\* No lease lapses and nobody cancels.
Calm ==
  /\ left["lapse"] = 0 /\ left["cancel"] = 0
  /\ \A c \in Clients : client[c].pc \notin {"cancelTasks", "cancelStage"}

Working(r) == run[r].pc # "idle"

\* Then whoever works on a task still owns it, a request that goes on knows that
\* no task is active, and a run knows the stage.
Owned == \A r \in Runners : Working(r) => run[r].task \in Tasks /\ Owns(r, run[r].task)

Serving == \A c \in Clients : client[c].pc \notin Looking => Active = {}

Tracks(x) ==
  /\ x.pc \in {"check", "write", "work", "index", "fail"} => x.mem = stage
  /\ x.pc = "write" => CanTransition(x.mem, x.target)

CalmInv == OwnerInv /\ Calm /\ Owned /\ Serving /\ \A r \in Runners : Tracks(run[r])

\* A run that works is the only one, and no request does more than look.
LEMMA WorksAlone ==
  ASSUME CalmInv, NEW r \in Runners, Working(r)
  PROVE  /\ \A s \in Runners \ {r} : run[s].pc = "idle"
         /\ \A c \in Clients : client[c].pc \in Looking
<1>1. run[r].task \in Active /\ run[r].task # NoTask
  BY PipelineAssumption DEF CalmInv, Owned, Owns, Active
<1>2. ASSUME NEW s \in Runners \ {r}, Working(s)
      PROVE  FALSE
  <2>1. run[s].task \in Active /\ Owns(s, run[s].task) /\ Owns(r, run[r].task)
    BY <1>2 DEF CalmInv, Owned, Owns, Active
  <2>2. run[s].task = run[r].task
    BY <1>1, <2>1 DEF CalmInv, OwnerInv, OneActive
  <2>3. run[s].attempt = run[r].attempt
    BY <2>1, <2>2 DEF Owns
  <2>4. QED
    BY <1>1, <1>2, <2>2, <2>3 DEF CalmInv, OwnerInv, OneRunPerStart
<1>3. QED
  BY <1>1, <1>2 DEF CalmInv, Serving, Working

\* So is one that begins.
LEMMA StepsAlone ==
  ASSUME CalmInv, NEW r \in Runners, Runner(r) \/ WorkFails(r) \/ Abort(r)
  PROVE  /\ \A s \in Runners \ {r} : run[s].pc = "idle" /\ run'[s] = run[s]
         /\ \A c \in Clients : client[c].pc \in Looking
         /\ client' = client /\ left'["edit"] = left["edit"]
<1>1. /\ \A s \in Runners \ {r} : run'[s] = run[s]
      /\ client' = client /\ left'["edit"] = left["edit"]
  BY RunKeepsOthers DEF CalmInv, OwnerInv, TypeInv
<1>2. CASE Claim(r)
  <2>1. PICK t \in Tasks : L!Start(t)
    BY <1>2 DEF Claim
  <2>2. phase[t] = "waiting" /\ t \in Active
    BY <2>1 DEF L!Start, Active
  <2>3. ASSUME NEW s \in Runners, Working(s)
        PROVE  FALSE
    <3>1. run[s].task \in Active /\ phase[run[s].task] = "started"
      BY <2>3 DEF CalmInv, Owned, Owns, Active
    <3>2. run[s].task = t
      BY <2>2, <3>1 DEF CalmInv, OwnerInv, OneActive
    <3>3. QED
      BY <2>2, <3>1, <3>2
  <2>4. QED
    BY <1>1, <2>2, <2>3 DEF CalmInv, Serving, Working
<1>3. CASE ~Claim(r)
  <2>1. Working(r)
    BY <1>3
       DEF Working, Runner, Load, Check, Write, Work, Probe, Parse, Cut, IndexText, Embed, Fail,
           Settle, WorkFails, Abort, At
  <2>2. QED
    BY <1>1, <2>1, WorksAlone
<1>4. QED
  BY <1>2, <1>3

\* No step of a run takes from the budgets of lapses and cancels.
LEMMA RunKeepsBudgets ==
  ASSUME TypeOK, NEW r \in Runners, Runner(r) \/ WorkFails(r) \/ Abort(r)
  PROVE  \A k \in Events \ {"error", "reject"} : left'[k] = left[k]
<1>1. left \in [Events -> Nat]
  BY Typed
<1>2. CASE WorkFails(r) \/ Abort(r)
  <2>1. \E k \in {"error", "reject"} : left' = [left EXCEPT ![k] = @ - 1]
    BY <1>2 DEF WorkFails, Abort, Spend
  <2>2. QED
    BY <1>1, <2>1
<1>3. CASE Runner(r)
  BY <1>3
     DEF Runner, Claim, Load, Check, Write, Work, Probe, Parse, Cut, IndexText, Embed, Fail,
         Settle
<1>4. QED
  BY <1>2, <1>3

LEMMA CalmRun ==
  ASSUME CalmInv, NEW r \in Runners, Runner(r) \/ WorkFails(r) \/ Abort(r)
  PROVE  Calm' /\ Owned' /\ Serving' /\ \A s \in Runners : Tracks(run[s])'
<1>1. /\ \A s \in Runners \ {r} : run[s].pc = "idle" /\ run'[s] = run[s]
      /\ \A c \in Clients : client[c].pc \in Looking
      /\ client' = client /\ TypeOK /\ run \in [Runners -> RunRecord] /\ starts \in [Tasks -> Nat]
      /\ phase \in [Tasks -> {"absent", "waiting", "started", "ended"}]
  BY StepsAlone, Typed DEF CalmInv, OwnerInv, TypeInv
<1>2. Calm'
  <2>1. \A k \in {"lapse", "cancel"} : left'[k] = left[k]
    BY <1>1, RunKeepsBudgets DEF Events
  <2>2. QED
    BY <1>1, <2>1 DEF CalmInv, Calm
<1>3. Serving'
  BY <1>1 DEF Serving
<1>4. Owned'
  <2>1. CASE Claim(r)
    <3>1. PICK t \in Tasks :
            /\ L!Start(t)
            /\ run' = [run EXCEPT ![r] = [Idle EXCEPT !.task = t, !.pc = "load",
                                                      !.attempt = starts[t] + 1]]
      BY <2>1 DEF Claim
    <3>2. run'[r].task = t /\ run'[r].attempt = starts[t] + 1
      BY <1>1, <3>1 DEF Idle
    <3>3. phase'[t] = "started" /\ starts'[t] = starts[t] + 1
      BY <1>1, <3>1 DEF L!Start
    <3>4. QED
      BY <1>1, <3>2, <3>3 DEF Owned, Owns, Working
  <2>2. CASE Settle(r)
    <3>1. run'[r].pc = "idle"
      BY <1>1, <2>2 DEF Settle, Idle
    <3>2. QED
      BY <1>1, <3>1 DEF Owned, Working
  <2>3. CASE ~Claim(r) /\ ~Settle(r)
    <3>1. UNCHANGED taskVars /\ run'[r].task = run[r].task /\ run'[r].attempt = run[r].attempt
      BY <1>1, <2>3, RunStaysWithTask
    <3>2. Working(r)
      BY <2>3
         DEF Working, Runner, Load, Check, Write, Work, Probe, Parse, Cut, IndexText, Embed, Fail,
             Settle, WorkFails, Abort, At
    <3>3. QED
      BY <1>1, <3>1, <3>2 DEF CalmInv, Owned, Owns, Working, taskVars
  <2>4. QED
    BY <2>1, <2>2, <2>3
<1>5. Tracks(run[r])'
  <2>1. Tracks(run[r]) /\ RunDone(r)
    BY <1>1, RunStepDoes DEF CalmInv
  <2>2. CASE Claimed(r) \/ Settled(r) \/ GaveUp(r)
    BY <2>1, <2>2 DEF Claimed, Settled, GaveUp, Tracks
  <2>3. CASE Loaded(r) \/ Checked(r)
    BY <2>1, <2>3 DEF Loaded, Checked, Tracks, docVars, CanTransition, Allowed
  <2>4. CASE Written(r)
    BY <2>1, <2>4 DEF Written, Tracks
  <2>5. CASE Probed(r) \/ Parsed(r) \/ WasCut(r) \/ TextIndexed(r) \/ Embedded(r)
    BY <2>1, <2>5 DEF Probed, Parsed, WasCut, TextIndexed, Embedded, Tracks, At, docVars
  <2>6. QED
    BY <2>1, <2>2, <2>3, <2>4, <2>5 DEF RunDone
<1>6. ASSUME NEW s \in Runners \ {r}
      PROVE  Tracks(run[s])'
  BY <1>1 DEF Tracks
<1>7. QED
  BY <1>2, <1>3, <1>4, <1>5, <1>6

\* A request either looks for tasks or finds no run at work.
LEMMA RequestAlone ==
  ASSUME CalmInv, ~Spend("miss"), NEW c \in Clients, Begin(c) \/ Continue(c)
  PROVE  /\ ~Cancel(c) /\ ~CancelTasks(c) /\ ~CancelStage(c)
         /\ \/ Looks(c) /\ UNCHANGED <<taskVars, docVars, run, left>>
            \/ ~Looks(c) /\ Active = {} /\ \A s \in Runners : run[s].pc = "idle"
<1>1. ~Cancel(c) /\ ~CancelTasks(c) /\ ~CancelStage(c)
  BY DEF CalmInv, Calm, Cancel, CancelTasks, CancelStage, Request, Spend
<1>2. CASE Looks(c)
  BY <1>1, <1>2, LookDoes DEF CalmInv, OwnerInv, TypeInv
<1>3. CASE ~Looks(c)
  <2>1. Active = {}
    <3>1. CASE \E v \in Versions : Replace(c, v)
      BY <3>1 DEF Replace
    <3>2. CASE ~\E v \in Versions : Replace(c, v)
      <4>1. client[c].pc \notin Looking
        BY <1>1, <1>3, <3>2
           DEF Begin, Continue, Looks, PushBack, Insert, Drop, DropVectors, DropTokens,
               DropChunks, SetContent, SetOriginal, Restart, Request, Looking
      <4>2. QED
        BY <4>1 DEF CalmInv, Serving
    <3>3. QED
      BY <3>1, <3>2
  <2>2. QED
    BY <1>1, <1>3, <2>1 DEF CalmInv, Owned, Owns, Active, Working
<1>4. QED
  BY <1>2, <1>3

\* A request changes the stage only while no run works.
LEMMA CalmRequest ==
  ASSUME CalmInv, \A c, d \in Clients : c = d, ~Spend("miss"),
         NEW c \in Clients, Begin(c) \/ Continue(c)
  PROVE  Calm' /\ Owned' /\ Serving' /\ \A s \in Runners : Tracks(run[s])'
<1>1. /\ client \in [Clients -> Requests] /\ left \in [Events -> Nat] /\ run' = run
      /\ TypeInv /\ \A d \in Clients : d = c
      /\ phase \in [Tasks -> {"absent", "waiting", "started", "ended"}]
  BY Typed, ClientTyped DEF CalmInv, OwnerInv, TypeInv
<1>2. /\ left["cancel"] = 0 /\ left["lapse"] = 0
      /\ ~Cancel(c) /\ ~CancelTasks(c) /\ ~CancelStage(c)
  BY RequestAlone DEF CalmInv, Calm
<1>3. CASE Insert(c)
  <2>1. client'[c].pc = "idle" /\ left' = left
    BY <1>1, <1>3 DEF Insert, Request, NoRequest
  <2>2. \A s \in Runners : ~Working(s)
    BY <1>3, RequestAlone
       DEF Insert, Looks, Ingest, LookPending, LookRunning, Request, Working
  <2>3. Calm' /\ Serving'
    BY <1>1, <1>2, <2>1 DEF Calm, Serving, Looking
  <2>4. Owned' /\ \A s \in Runners : Tracks(run[s])'
    BY <1>1, <2>2 DEF Owned, Working, Tracks
  <2>5. QED
    BY <2>3, <2>4
<1>4. CASE Looks(c)
  <2>1. /\ UNCHANGED <<taskVars, docVars, run, left>>
        /\ \/ client'[c].pc \in Looking
           \/ Queueing(c)' /\ Active = {}
    BY <1>1, <1>4, LookDoes DEF TypeInv
  <2>2. Calm'
    BY <1>1, <1>2, <2>1 DEF Calm, Looking, Queueing
  <2>3. Serving'
    BY <1>1, <2>1 DEF Serving, taskVars, Active
  <2>4. Owned' /\ \A s \in Runners : Tracks(run[s])'
    BY <2>1 DEF CalmInv, Owned, Owns, Working, Tracks, taskVars, docVars
  <2>5. QED
    BY <2>2, <2>3, <2>4
<1>5. CASE ~Insert(c) /\ ~Looks(c)
  <2>1. UNCHANGED taskVars
    BY <1>2, <1>5
       DEF Begin, Continue, Looks, Replace, PushBack, Drop, DropVectors, DropTokens,
           DropChunks, SetContent, SetOriginal, Restart
  <2>2. Active = {} /\ \A s \in Runners : run[s].pc = "idle"
    BY <1>5, RequestAlone
  <2>3. Owned' /\ (\A s \in Runners : Tracks(run[s])') /\ Serving'
    BY <1>1, <2>1, <2>2 DEF Owned, Working, Tracks, Serving, taskVars, Active
  <2>4. left'["cancel"] = 0 /\ left'["lapse"] = 0
    <3>1. left' = left \/ left' = [left EXCEPT !["edit"] = @ - 1]
      BY <1>2, <1>5
         DEF Begin, Continue, Looks, Replace, PushBack, Drop, DropVectors, DropTokens,
             DropChunks, SetContent, SetOriginal, Restart, Spend
    <3>2. QED
      BY <1>1, <1>2, <3>1 DEF Events
  <2>5. client'[c].pc \notin {"cancelTasks", "cancelStage"}
    <3>1. CASE PushBack(c) \/ SetOriginal(c) \/ Restart(c)
      BY <1>1, <3>1 DEF PushBack, SetOriginal, Restart, Request, NoRequest
    <3>2. CASE Drop(c) \/ SetContent(c)
      BY <1>1, <3>2 DEF Drop, DropVectors, DropTokens, DropChunks, SetContent, Requests
    <3>3. CASE \E v \in Versions : Replace(c, v)
      BY <1>1, <3>3 DEF Replace, Requests
    <3>4. QED
      BY <1>2, <1>5, <3>1, <3>2, <3>3 DEF Begin, Continue, Looks
  <2>6. QED
    BY <1>1, <2>3, <2>4, <2>5 DEF Calm
<1>6. QED
  BY <1>3, <1>4, <1>5

\* What a death takes with it: the runs and requests it hits are idle, the
\* others as they were.
LEMMA CrashDoes ==
  ASSUME TypeOK, Crash
  PROVE  /\ \A s \in Runners : run'[s] = run[s] \/ run'[s].pc = "idle"
         /\ \A c \in Clients : client'[c] = client[c] \/ client'[c].pc = "idle"
         /\ UNCHANGED <<taskVars, docVars>> /\ left["crash"] > 0
         /\ \A k \in Events \ {"crash"} : left'[k] = left[k]
<1>1. PICK R \in SUBSET Runners, C \in SUBSET Clients :
        /\ run' = [r \in Runners |-> IF r \in R THEN Idle ELSE run[r]]
        /\ client' = [c \in Clients |-> IF c \in C THEN NoRequest ELSE client[c]]
  BY DEF Crash
<1>2. \A s \in Runners : run'[s] = run[s] \/ run'[s].pc = "idle"
  BY <1>1 DEF Idle
<1>3. \A c \in Clients : client'[c] = client[c] \/ client'[c].pc = "idle"
  BY <1>1 DEF NoRequest
<1>4. left["crash"] > 0 /\ left' = [left EXCEPT !["crash"] = @ - 1]
  BY DEF Crash, Spend
<1>5. \A k \in Events \ {"crash"} : left'[k] = left[k]
  BY <1>4, Typed
<1>6. UNCHANGED <<taskVars, docVars>>
  BY DEF Crash
<1>7. QED
  BY <1>2, <1>3, <1>4, <1>5, <1>6

\* Only a task nobody owns any more is reclaimed.
LEMMA ReclaimDoes ==
  ASSUME CalmInv, NEW t \in Tasks, Reclaim(t)
  PROVE  /\ UNCHANGED <<docVars, run, client, left>> /\ \A r \in Runners : ~Owns(r, t)
         /\ starts' = starts /\ Active' \subseteq Active
         /\ \A u \in Tasks \ {t} : phase'[u] = phase[u]
<1>1. left["lapse"] = 0
  BY DEF CalmInv, Calm
<1>2. left' = left /\ \A r \in Runners : ~Owns(r, t)
  BY <1>1 DEF Reclaim, Spend
<1>3. UNCHANGED <<docVars, run, client>>
  BY DEF Reclaim
<1>4. L!Settle({t}, {}) \/ L!Settle({}, {t})
  BY DEF Reclaim
<1>5. starts' = starts /\ Active' \subseteq Active
  BY <1>4, SettleShrinks
<1>6. \A u \in Tasks \ {t} : phase'[u] = phase[u]
  BY <1>4 DEF L!Settle
<1>7. QED
  BY <1>2, <1>3, <1>5, <1>6

LEMMA CalmInductive ==
  ASSUME \A c, d \in Clients : c = d
  PROVE  CalmInv /\ [Next]_vars /\ ~Spend("miss") => CalmInv'
<1> SUFFICES ASSUME CalmInv, [Next]_vars, ~Spend("miss")
             PROVE  Calm' /\ Owned' /\ Serving' /\ \A s \in Runners : Tracks(run[s])'
  BY OwnerInductive DEF CalmInv
<1>1. ASSUME NEW t \in Tasks, Reclaim(t)
      PROVE  Calm' /\ Owned' /\ Serving' /\ \A s \in Runners : Tracks(run[s])'
  <2>1. /\ UNCHANGED <<docVars, run, client, left>> /\ \A r \in Runners : ~Owns(r, t)
        /\ starts' = starts /\ Active' \subseteq Active
        /\ \A u \in Tasks \ {t} : phase'[u] = phase[u]
    BY <1>1, ReclaimDoes
  <2>2. Owned'
    BY <2>1 DEF CalmInv, Owned, Owns, Working
  <2>3. QED
    BY <2>1, <2>2 DEF CalmInv, Calm, Serving, Tracks, docVars
<1>2. CASE Crash
  <2>1. /\ \A s \in Runners : run'[s] = run[s] \/ run'[s].pc = "idle"
        /\ \A c \in Clients : client'[c] = client[c] \/ client'[c].pc = "idle"
        /\ UNCHANGED <<taskVars, docVars>>
        /\ \A k \in Events \ {"crash"} : left'[k] = left[k]
    BY <1>2, CrashDoes DEF CalmInv, OwnerInv, TypeInv
  <2>2. left'["lapse"] = left["lapse"] /\ left'["cancel"] = left["cancel"]
    BY <2>1 DEF Events
  <2>3. Owned'
    BY <2>1 DEF CalmInv, Owned, Owns, Working, taskVars
  <2>4. Serving' /\ Calm'
    BY <2>1, <2>2 DEF CalmInv, Calm, Serving, Looking, taskVars, Active
  <2>5. \A s \in Runners : Tracks(run[s])'
    BY <2>1 DEF CalmInv, Tracks, docVars
  <2>6. QED
    BY <2>3, <2>4, <2>5
<1>3. CASE UNCHANGED vars
  BY <1>3 DEF vars, taskVars, docVars, CalmInv, Calm, Owned, Owns, Working, Serving, Active, Tracks
<1>4. QED
  BY <1>1, <1>2, <1>3, CalmRun, CalmRequest DEF Next

LEMMA CalmInitially ==
  ASSUME Budget["lapse"] = 0, Budget["cancel"] = 0
  PROVE  Init => CalmInv
  BY OwnerInitially
     DEF Init, Idle, NoRequest, CalmInv, Calm, Owned, Working, Serving, Looking, Tracks

\* A run believes the stage that is in the table, and writes only what the state
\* machine allows from there: the stage of the document follows it, although
\* _advance compares with nothing but its own copy.  (For a document with one
\* request at a time, no lapsed lease and no cancel, and until a request misses a
\* task and queues the document again.)
THEOREM RunsKeepToStateMachine ==
  ASSUME \A c, d \in Clients : c = d, Budget["lapse"] = 0, Budget["cancel"] = 0
  PROVE  Spec => RunsFollowStateMachine
<1> DEFINE Inv == TypeInv /\ (Happened("miss") \/ CalmInv)
<1>1. ASSUME CalmInv, [Next]_vars, run' # run
      PROVE  CanTransition(stage, stage')
  <2>1. TypeOK /\ stage \in StageNames
    BY <1>1, Typed DEF CalmInv, OwnerInv, TypeInv
  <2>2. ASSUME NEW r \in Runners, Runner(r) \/ WorkFails(r) \/ Abort(r)
        PROVE  CanTransition(stage, stage')
    <3>1. RunDone(r) /\ Tracks(run[r])
      BY <1>1, <2>1, <2>2, RunStepDoes DEF CalmInv
    <3>2. CASE Written(r)
      BY <3>1, <3>2 DEF Written, Tracks
    <3>3. CASE GaveUp(r)
      <4>1. stage' = stage \/ (stage \notin {"failed", "canceled"} /\ stage' = "failed")
        BY <3>1, <3>3 DEF GaveUp, Tracks
      <4>2. QED
        BY <2>1, <4>1 DEF CanTransition, Allowed, StageNames
    <3>4. CASE ~Written(r) /\ ~GaveUp(r)
      <4>1. stage' = stage
        BY <3>1, <3>4 DEF RunDone, Claimed, Loaded, Checked, Probed, Parsed, WasCut, TextIndexed,
                          Embedded, Settled, docVars
      <4>2. QED
        BY <4>1 DEF CanTransition
    <3>5. QED
      BY <3>2, <3>3, <3>4
  <2>3. CASE Crash
    BY <2>3 DEF Crash, docVars, CanTransition
  <2>4. ASSUME NEW t \in Tasks, Reclaim(t)
        PROVE  FALSE
    BY <1>1, <2>4 DEF Reclaim
  <2>5. ASSUME NEW c \in Clients, Begin(c) \/ Continue(c)
        PROVE  FALSE
    BY <1>1, <2>5, ClientTyped DEF CalmInv, OwnerInv
  <2>6. QED
    BY <1>1, <2>2, <2>3, <2>4, <2>5 DEF Next, vars
<1>2. Init => Inv
  BY TypeInitially, CalmInitially
<1>3. Inv /\ [Next]_vars => Inv'
  BY CalmInductive, UntilMissed, TypeInductive
<1>4. Inv /\ [Next]_vars
        => [~Happened("miss")' /\ run' # run => CanTransition(stage, stage')]_vars
  BY <1>1, UntilMissed
<1>5. QED
  BY <1>2, <1>3, <1>4, PTL DEF Spec, RunsFollowStateMachine

-----------------------------------------------------------------------------
(* What a run has in hand for the next stage                               *)

Made(target, text) ==
  /\ target = "chunking" => parsed # NoVersion
  /\ target \in {"chunked", "embedding"} => text # NoVersion /\ text = chunks /\ tokens = chunks
  /\ target = "indexed" => tokens = chunks /\ vectors = chunks

Asks(x) == x.pc \in {"check", "write"}

Careful(x) ==
  /\ Asks(x) => /\ Made(x.target, x.text)
                /\ x.target = "parsed" => parsed # NoVersion
                /\ x.target = "parsing" => x.file \in Versions
                /\ x.mem = "chunking" => x.target \in {"chunking", "chunked"}
                /\ x.mem # "indexed"
  /\ x.pc = "work" => /\ Made(x.mem, x.text) /\ x.mem # "indexed"
                      /\ x.mem = "parsing" => x.file \in Versions
  /\ x.pc = "index" => /\ x.text # NoVersion /\ x.text = chunks /\ parsed # NoVersion
                       /\ stage = "chunking"
  /\ x.pc = "fail" => tokens = chunks

Editing == {"vectors", "tokens", "chunks", "content", "path", "restart"}
MidEdit == \E c \in Clients : client[c].pc \in Editing

\* Only while a document is cut, or edited, are there chunks without tokens;
\* after an edit that was cut off it may be an indexed one, which goes back to
\* the cut if it moves at all.
WholeRows ==
  /\ tokens \in {NoVersion, chunks}
  /\ parsed = NoVersion => chunks = NoVersion
  /\ ~MidEdit => /\ stage \notin {"chunking", "indexed"} => tokens = chunks
                 /\ stage \in {"chunked", "embedding"} => chunks # NoVersion
  /\ \A c \in Clients : client[c].pc \in {"content", "path", "restart"} =>
                          chunks = NoVersion /\ tokens = NoVersion

\* No edit is cut off by a death: one that dies between its two deletes leaves
\* chunks without tokens to a document that may be resumed behind the cut.
Unbroken == (left["edit"] = 0 /\ ~MidEdit) \/ left["crash"] = 0

WholeInv == CalmInv /\ WholeRows /\ \A r \in Runners : Careful(run[r])

\* A run that asks for nothing and works on nothing promises nothing.
LEMMA StoppedIsCareful ==
  ASSUME NEW x, x.pc \in {"idle", "load", "ok", "canceled", "error", "reject"}
  PROVE  Careful(x)
  BY DEF Careful, Asks

LEMMA RunIsCareful ==
  ASSUME CalmInv, WholeRows, NEW r \in Runners, Careful(run[r]), RunDone(r), ~MidEdit,
         run \in [Runners -> RunRecord], stage \in StageNames, original \in Versions,
         client' = client
  PROVE  WholeRows' /\ Careful(run[r])'
<1> DEFINE x == run[r]
           y == run'[r]
<1>1. /\ Careful(x) /\ Tracks(x)
      /\ tokens \in {NoVersion, chunks} /\ (parsed = NoVersion => chunks = NoVersion)
      /\ stage \notin {"chunking", "indexed"} => tokens = chunks
      /\ stage \in {"chunked", "embedding"} => chunks # NoVersion
  BY DEF CalmInv, WholeRows
<1>2. ~MidEdit' /\ (\A c \in Clients : client'[c].pc \notin {"content", "path", "restart"})
  BY DEF MidEdit, Editing
<1>3. ASSUME tokens' \in {NoVersion, chunks'}, parsed' = NoVersion => chunks' = NoVersion,
             stage' \notin {"chunking", "indexed"} => tokens' = chunks',
             stage' \in {"chunked", "embedding"} => chunks' # NoVersion
      PROVE  WholeRows'
  BY <1>2, <1>3 DEF WholeRows
<1>4. ASSUME UNCHANGED docVars
      PROVE  WholeRows'
  BY <1>1, <1>3, <1>4 DEF docVars
<1>5. ASSUME y.pc \in {"idle", "load", "ok", "canceled", "error", "reject"}
      PROVE  Careful(run[r])'
  BY <1>5 DEF Careful, Asks
<1>6. NoVersion \notin Versions
  BY PipelineAssumption
<1>7. CASE Claimed(r) \/ Settled(r)
  BY <1>4, <1>5, <1>7 DEF Claimed, Settled
<1>8. CASE Loaded(r)
  <2>1. ResumeStage \in {"chunked", "embedding"}
          => stage \notin {"chunking", "indexed"} /\ chunks # NoVersion
    BY <1>1 DEF ResumeStage
  <2>2. /\ ResumeStage \in {"uploaded", "probing", "parsing"} => stage \notin {"chunking", "indexed"}
        /\ ResumeStage \in {"parsed", "chunking"} => stage # "indexed"
    BY DEF ResumeStage
  <2>3. /\ y.mem = stage /\ UNCHANGED docVars
        /\ \/ /\ ResumeStage \in {"uploaded", "probing", "parsing"}
              /\ y.pc = "check" /\ y.target = "probing"
           \/ /\ ResumeStage \in {"parsed", "chunking"} /\ parsed # NoVersion
              /\ y.pc = "check" /\ y.target = "chunking"
           \/ /\ ResumeStage \in {"chunked", "embedding"}
              /\ y.pc = "check" /\ y.target = "embedding" /\ y.text = chunks
           \/ parsed = NoVersion /\ y.pc = "fail"
           \/ y.pc = "ok"
    BY <1>8 DEF Loaded
  <2>4. Careful(run[r])'
    <3>1. CASE y.pc = "check" /\ y.target = "probing"
      BY <2>2, <2>3, <3>1 DEF Careful, Asks, Made
    <3>2. CASE y.pc = "check" /\ y.target = "chunking"
      BY <2>2, <2>3, <3>2 DEF Careful, Asks, Made, docVars
    <3>3. CASE y.pc = "check" /\ y.target = "embedding"
      BY <1>1, <2>1, <2>3, <3>3 DEF Careful, Asks, Made, docVars
    <3>4. CASE parsed = NoVersion /\ y.pc = "fail"
      BY <1>1, <2>3, <3>4 DEF Careful, Asks, docVars
    <3>5. QED
      BY <1>5, <2>3, <3>1, <3>2, <3>3, <3>4
  <2>5. QED
    BY <1>4, <2>3, <2>4
<1>9. CASE Checked(r)
  <2>1. UNCHANGED docVars
    BY <1>9 DEF Checked
  <2>2. stage # "indexed" /\ (stage = "chunking" => CanTransition(x.mem, x.target))
    BY <1>1, <1>9 DEF Checked, Careful, Asks, Tracks, CanTransition, Allowed
  <2>3. Careful(run[r])'
    BY <1>1, <1>9, <2>2 DEF Checked, Careful, Asks, Made, docVars
  <2>4. QED
    BY <1>4, <2>1, <2>3
<1>10. CASE Written(r)
  <2>1. /\ Made(x.target, x.text) /\ (x.target = "parsed" => parsed # NoVersion)
        /\ x.target = "parsing" => x.file \in Versions
        /\ stage = "chunking" => x.target \in {"chunking", "chunked"}
        /\ stage # "indexed"
    BY <1>1, <1>10 DEF Written, Careful, Asks, Tracks
  <2>2. WholeRows'
    <3>1. stage' \notin {"chunking", "indexed"} => tokens = chunks
      BY <1>1, <1>10, <2>1 DEF Written, Made
    <3>2. stage' \in {"chunked", "embedding"} => chunks # NoVersion
      BY <1>10, <2>1 DEF Written, Made
    <3>3. QED
      BY <1>1, <1>3, <1>10, <3>1, <3>2 DEF Written
  <2>3. Careful(run[r])'
    BY <1>10, <2>1 DEF Written, Careful, Asks, Made
  <2>4. QED
    BY <2>2, <2>3
<1>11. CASE Probed(r)
  <2>1. Careful(run[r])'
    BY <1>11 DEF Probed, At, Careful, Asks, Made
  <2>2. QED
    BY <1>4, <1>11, <2>1 DEF Probed
<1>12. CASE Parsed(r)
  <2>1. x.file # NoVersion /\ x.mem = "parsing"
    BY <1>1, <1>6, <1>12 DEF Parsed, At, Careful
  <2>2. WholeRows'
    BY <1>1, <1>3, <1>12, <2>1 DEF Parsed
  <2>3. Careful(run[r])'
    BY <1>12, <2>1 DEF Parsed, Careful, Asks, Made
  <2>4. QED
    BY <2>2, <2>3
<1>13. CASE WasCut(r)
  <2>1. stage = "chunking" /\ parsed # NoVersion /\ chunks' # NoVersion
    BY <1>1, <1>13 DEF WasCut, At, Tracks, Careful, Made
  <2>2. WholeRows'
    BY <1>3, <1>13, <2>1 DEF WasCut
  <2>3. Careful(run[r])'
    BY <1>13, <2>1 DEF WasCut, Careful, Asks
  <2>4. QED
    BY <2>2, <2>3
<1>14. CASE TextIndexed(r)
  <2>1. /\ stage = "chunking" /\ x.mem = "chunking" /\ parsed # NoVersion
        /\ x.text # NoVersion /\ x.text = chunks
    BY <1>1, <1>14 DEF TextIndexed, Tracks, Careful
  <2>2. WholeRows'
    BY <1>3, <1>14, <2>1 DEF TextIndexed
  <2>3. Careful(run[r])'
    BY <1>14, <2>1 DEF TextIndexed, Careful, Asks, Made
  <2>4. QED
    BY <2>2, <2>3
<1>15. CASE Embedded(r)
  <2>1. x.text = chunks /\ tokens = chunks /\ x.mem = "embedding"
    BY <1>1, <1>15 DEF Embedded, At, Careful, Made
  <2>2. WholeRows'
    BY <1>1, <1>3, <1>15, <2>1 DEF Embedded
  <2>3. Careful(run[r])'
    BY <1>15, <2>1 DEF Embedded, Careful, Asks, Made
  <2>4. QED
    BY <2>2, <2>3
<1>16. CASE GaveUp(r)
  <2>1. y.pc = "fail" => stage' = stage /\ tokens = chunks
    BY <1>1, <1>16 DEF GaveUp, Tracks, Careful, Made
  <2>2. stage' = stage \/ (stage' = "failed" /\ tokens = chunks)
    BY <1>1, <1>16 DEF GaveUp, Careful
  <2>3. WholeRows'
    BY <1>1, <1>3, <1>16, <2>2 DEF GaveUp
  <2>4. Careful(run[r])'
    BY <1>16, <2>1 DEF GaveUp, Careful, Asks
  <2>5. QED
    BY <2>3, <2>4
<1>17. QED
  BY <1>7, <1>8, <1>9, <1>10, <1>11, <1>12, <1>13, <1>14, <1>15, <1>16 DEF RunDone

\* What a request has done when there is no cancel and no task is missed.
LEMMA RequestDoes ==
  ASSUME CalmInv, ~Spend("miss"), NEW c \in Clients, Begin(c) \/ Continue(c),
         client \in [Clients -> Requests]
  PROVE  \/ /\ client[c].pc \notin Editing /\ client'[c].pc \notin Editing
            /\ UNCHANGED <<content, original, parsed, chunks, tokens, vectors, left>>
            /\ stage' \in {stage, "chunking"}
         \/ /\ left["edit"] > 0 /\ left' = [left EXCEPT !["edit"] = @ - 1] /\ UNCHANGED docVars
            /\ client[c].pc = "idle" /\ client'[c].pc = "vectors"
            /\ client'[c].version # content
         \/ /\ client[c].pc \in {"vectors", "tokens", "chunks"} /\ UNCHANGED left
            /\ client'[c].pc \in {"tokens", "chunks", "content"}
            /\ client'[c].version = client[c].version
            /\ UNCHANGED <<stage, content, original, parsed>>
            /\ (chunks' = chunks /\ tokens' = tokens) \/ tokens' = NoVersion
            /\ chunks' \in {chunks, NoVersion}
            /\ client'[c].pc = "content" => chunks' = NoVersion /\ tokens' \in {tokens, NoVersion}
         \/ /\ client[c].pc = "content" /\ client'[c].pc = "path" /\ UNCHANGED left
            /\ content' = client[c].version /\ client'[c].version = client[c].version
            /\ UNCHANGED <<stage, original, parsed, chunks, tokens, vectors>>
         \/ /\ client[c].pc = "path" /\ client'[c].pc = "restart" /\ UNCHANGED left
            /\ original' = client[c].version
            /\ UNCHANGED <<stage, content, parsed, chunks, tokens, vectors>>
         \/ /\ client[c].pc = "restart" /\ client'[c].pc = "idle" /\ UNCHANGED left
            /\ stage' = "uploaded"
            /\ UNCHANGED <<content, original, parsed, chunks, tokens, vectors>>
<1>1. ~Cancel(c) /\ ~CancelTasks(c) /\ ~CancelStage(c)
  BY RequestAlone
<1>2. ASSUME NEW p, NEW q, Request(c, p, q)
      PROVE  client[c].pc = p /\ client'[c].pc = q
  BY <1>2 DEF Request, NoRequest
<1>3. CASE PushBack(c) \/ Insert(c)
  BY <1>2, <1>3 DEF PushBack, Insert, Editing, docVars
<1>4. CASE Looks(c)
  <2>1. UNCHANGED <<docVars, left>>
    BY <1>4, RequestAlone
  <2>2. /\ client[c].pc \in Looking
        /\ client'[c].pc \in Looking \/ Queueing(c)'
    BY <1>4, LookDoes DEF CalmInv, OwnerInv, TypeInv
  <2>3. QED
    BY <2>1, <2>2 DEF Editing, Looking, Queueing, docVars
<1>5. CASE \E v \in Versions : Replace(c, v)
  BY <1>5 DEF Replace, Spend, Requests
<1>6. ASSUME NEW p, client' = [client EXCEPT ![c].pc = p]
      PROVE  client'[c].pc = p /\ client'[c].version = client[c].version
  BY <1>6 DEF Requests
<1>7. CASE Drop(c)
  BY <1>6, <1>7 DEF Drop, DropVectors, DropTokens, DropChunks
<1>8. CASE SetContent(c)
  BY <1>6, <1>8 DEF SetContent
<1>9. CASE SetOriginal(c) \/ Restart(c)
  BY <1>2, <1>9 DEF SetOriginal, Restart
<1>10. QED
  BY <1>1, <1>3, <1>4, <1>5, <1>7, <1>8, <1>9 DEF Begin, Continue, Looks

\* One request at a time: an edit gets from its first delete to its last
\* without a request or a run in between.
LEMMA WholeRequest ==
  ASSUME CalmInv, WholeRows, \A r \in Runners : Careful(run[r]), \A c, d \in Clients : c = d,
         ~Spend("miss"), NEW c \in Clients, Begin(c) \/ Continue(c)
  PROVE  WholeRows' /\ \A r \in Runners : Careful(run[r])'
<1>1. /\ client \in [Clients -> Requests] /\ run' = run /\ \A d \in Clients : d = c
  BY Typed, ClientTyped DEF CalmInv, OwnerInv, TypeInv
<1>2. UNCHANGED <<docVars, run>> \/ \A r \in Runners : run[r].pc = "idle"
  BY RequestAlone
<1>3. \A r \in Runners : Careful(run[r])'
  BY <1>1, <1>2 DEF Careful, Asks, Made, docVars
<1>4. /\ MidEdit <=> client[c].pc \in Editing
      /\ MidEdit' <=> client'[c].pc \in Editing
  BY <1>1 DEF MidEdit
<1>5. /\ tokens \in {NoVersion, chunks} /\ (parsed = NoVersion => chunks = NoVersion)
      /\ ~MidEdit => /\ stage \notin {"chunking", "indexed"} => tokens = chunks
                     /\ stage \in {"chunked", "embedding"} => chunks # NoVersion
      /\ client[c].pc \in {"content", "path", "restart"} => chunks = NoVersion /\ tokens = NoVersion
  BY DEF WholeRows
<1>6. ASSUME tokens' \in {NoVersion, chunks'}, parsed' = NoVersion => chunks' = NoVersion,
             client'[c].pc \in Editing \/ (/\ stage' \notin {"chunking", "indexed"}
                                                => tokens' = chunks'
                                           /\ stage' \in {"chunked", "embedding"}
                                                => chunks' # NoVersion),
             client'[c].pc \in {"content", "path", "restart"}
               => chunks' = NoVersion /\ tokens' = NoVersion
      PROVE  WholeRows'
  BY <1>1, <1>4, <1>6 DEF WholeRows
<1>7. WholeRows'
  <2>1. CASE /\ client[c].pc \notin Editing /\ client'[c].pc \notin Editing
             /\ UNCHANGED <<content, original, parsed, chunks, tokens, vectors, left>>
             /\ stage' \in {stage, "chunking"}
    BY <1>4, <1>5, <1>6, <2>1 DEF Editing
  <2>2. CASE UNCHANGED docVars /\ client'[c].pc = "vectors"
    BY <1>5, <1>6, <2>2 DEF Editing, docVars
  <2>3. CASE /\ client[c].pc \in {"vectors", "tokens", "chunks"}
             /\ client'[c].pc \in {"tokens", "chunks", "content"}
             /\ UNCHANGED <<stage, content, original, parsed>>
             /\ (chunks' = chunks /\ tokens' = tokens) \/ tokens' = NoVersion
             /\ chunks' \in {chunks, NoVersion}
             /\ client'[c].pc = "content" => chunks' = NoVersion /\ tokens' \in {tokens, NoVersion}
    BY <1>5, <1>6, <2>3 DEF Editing
  <2>4. CASE /\ client[c].pc \in {"content", "path"} /\ client'[c].pc \in {"path", "restart"}
             /\ UNCHANGED <<stage, parsed, chunks, tokens, vectors>>
    BY <1>5, <1>6, <2>4 DEF Editing
  <2>5. CASE /\ client[c].pc = "restart" /\ client'[c].pc = "idle" /\ stage' = "uploaded"
             /\ UNCHANGED <<content, original, parsed, chunks, tokens, vectors>>
    BY <1>5, <1>6, <2>5 DEF Editing
  <2>6. QED
    BY <1>1, <2>1, <2>2, <2>3, <2>4, <2>5, RequestDoes
<1>8. QED
  BY <1>3, <1>7

\* An edit is begun only while there is one to spend.
LEMMA UnbrokenRequest ==
  ASSUME CalmInv, Unbroken, \A c, d \in Clients : c = d, ~Spend("miss"), NEW c \in Clients,
         Begin(c) \/ Continue(c)
  PROVE  Unbroken'
<1>1. /\ client \in [Clients -> Requests] /\ left \in [Events -> Nat] /\ \A d \in Clients : d = c
  BY Typed DEF CalmInv, OwnerInv, TypeInv
<1>2. /\ MidEdit <=> client[c].pc \in Editing
      /\ MidEdit' <=> client'[c].pc \in Editing
  BY <1>1 DEF MidEdit
<1>3. CASE left["edit"] > 0 /\ left' = [left EXCEPT !["edit"] = @ - 1]
  BY <1>1, <1>3 DEF Unbroken, Events
<1>4. CASE left' = left /\ (client'[c].pc \in Editing => client[c].pc \in Editing)
  BY <1>2, <1>4 DEF Unbroken
<1>5. QED
  BY <1>1, <1>3, <1>4, RequestDoes DEF Editing

\* An edit that no death cuts off keeps the rows whole, and so does every run.
LEMMA WholeInductive ==
  ASSUME \A c, d \in Clients : c = d, WholeInv, [Next]_vars, ~Spend("miss"), Crash => ~MidEdit
  PROVE  WholeInv'
<1>1. /\ TypeOK /\ run \in [Runners -> RunRecord] /\ stage \in StageNames /\ original \in Versions
      /\ CalmInv
  BY Typed DEF WholeInv, CalmInv, OwnerInv, TypeInv
<1>2. ASSUME NEW r \in Runners, Runner(r) \/ WorkFails(r) \/ Abort(r)
      PROVE  WholeRows' /\ \A s \in Runners : Careful(run[s])'
  <2>1. /\ \A s \in Runners \ {r} : run[s].pc = "idle" /\ run'[s] = run[s]
        /\ \A c \in Clients : client[c].pc \in Looking
        /\ client' = client /\ RunDone(r)
    BY <1>1, <1>2, StepsAlone, RunStepDoes
  <2>2. ~MidEdit
    BY <2>1 DEF MidEdit, Editing, Looking
  <2>3. WholeRows' /\ Careful(run[r])'
    BY <1>1, <2>1, <2>2, RunIsCareful DEF WholeInv
  <2>4. \A s \in Runners \ {r} : Careful(run[s])'
    BY <2>1 DEF Careful, Asks
  <2>5. QED
    BY <2>3, <2>4
<1>3. ASSUME NEW t \in Tasks, Reclaim(t)
      PROVE  WholeRows' /\ \A r \in Runners : Careful(run[r])'
  <2>1. UNCHANGED <<docVars, run, client>>
    BY <1>3 DEF Reclaim
  <2>2. QED
    BY <2>1 DEF WholeInv, MidEdit, WholeRows, Careful, Asks, Made, docVars
<1>4. ASSUME Crash
      PROVE  WholeRows' /\ \A r \in Runners : Careful(run[r])'
  <2>1. /\ \A s \in Runners : run'[s] = run[s] \/ run'[s].pc = "idle"
        /\ \A c \in Clients : client'[c] = client[c] \/ client'[c].pc = "idle"
        /\ UNCHANGED docVars /\ ~MidEdit
    BY <1>1, <1>4, CrashDoes
  <2>2. WholeRows'
    BY <2>1 DEF WholeInv, WholeRows, docVars
  <2>3. \A r \in Runners : Careful(run[r])'
    BY <2>1 DEF WholeInv, Careful, Asks, Made, docVars
  <2>4. QED
    BY <2>2, <2>3
<1>5. ASSUME UNCHANGED vars
      PROVE  WholeRows' /\ \A r \in Runners : Careful(run[r])'
  BY <1>5 DEF vars, docVars, WholeInv, MidEdit, WholeRows, Careful, Asks, Made
<1>6. ASSUME NEW c \in Clients, Begin(c) \/ Continue(c)
      PROVE  WholeRows' /\ \A r \in Runners : Careful(run[r])'
  BY <1>1, <1>6, WholeRequest DEF WholeInv
<1>7. WholeRows' /\ \A r \in Runners : Careful(run[r])'
  BY <1>2, <1>3, <1>4, <1>5, <1>6 DEF Next
<1>8. CalmInv'
  BY CalmInductive DEF WholeInv
<1>9. QED
  BY <1>7, <1>8 DEF WholeInv

LEMMA UnbrokenInductive ==
  ASSUME \A c, d \in Clients : c = d, CalmInv, Unbroken, [Next]_vars, ~Spend("miss")
  PROVE  Unbroken' /\ (Crash => ~MidEdit)
<1>1. TypeOK
  BY DEF CalmInv, OwnerInv, TypeInv
<1>2. ASSUME NEW r \in Runners, Runner(r) \/ WorkFails(r) \/ Abort(r)
      PROVE  Unbroken' /\ ~Crash
  <2>1. /\ client' = client /\ left'["edit"] = left["edit"]
        /\ left'["crash"] = left["crash"]
    BY <1>1, <1>2, StepsAlone, RunKeepsBudgets DEF Events
  <2>2. ~Crash
    BY <1>1, <2>1, Typed DEF Crash, Spend, Events
  <2>3. QED
    BY <2>1, <2>2 DEF Unbroken, MidEdit
<1>3. ASSUME NEW t \in Tasks, Reclaim(t)
      PROVE  UNCHANGED <<client, left>>
  BY <1>1, <1>3, ReclaimDoes
<1>4. CASE Crash
  <2>1. /\ \A c \in Clients : client'[c] = client[c] \/ client'[c].pc = "idle"
        /\ left["crash"] > 0 /\ left'["edit"] = left["edit"]
    BY <1>1, <1>4, CrashDoes DEF Events
  <2>2. left["edit"] = 0 /\ ~MidEdit
    BY <2>1 DEF Unbroken
  <2>3. QED
    BY <2>1, <2>2 DEF Unbroken, MidEdit, Editing
<1>5. CASE UNCHANGED <<client, left>>
  BY <1>1, <1>4, <1>5 DEF Unbroken, MidEdit
<1>6. ASSUME NEW c \in Clients, Begin(c) \/ Continue(c)
      PROVE  Unbroken'
  BY <1>6, UnbrokenRequest
<1>7. QED
  BY <1>2, <1>3, <1>4, <1>5, <1>6 DEF Next, vars

LEMMA WholeInitially ==
  ASSUME Budget["lapse"] = 0, Budget["cancel"] = 0
  PROVE  Init => WholeInv
<1> SUFFICES ASSUME Init
             PROVE  WholeInv
  OBVIOUS
<1>1. CalmInv
  BY CalmInitially
<1>2. ~MidEdit /\ (\A c \in Clients : client[c].pc = "idle")
  BY DEF Init, NoRequest, MidEdit, Editing
<1>3. WholeRows
  BY <1>2 DEF Init, WholeRows
<1>4. \A r \in Runners : Careful(run[r])
  BY DEF Init, Idle, Careful, Asks
<1>5. QED
  BY <1>1, <1>3, <1>4 DEF WholeInv

\* What is written as indexed is whole, whoever asks for it.
LEMMA BecomesWhole ==
  ASSUME CalmInv, \A r \in Runners : Careful(run[r]), [Next]_vars, ~Spend("miss"),
         stage' = "indexed", stage # "indexed"
  PROVE  chunks = tokens /\ chunks = vectors
<1>1. /\ TypeOK /\ run \in [Runners -> RunRecord] /\ client \in [Clients -> Requests]
      /\ stage \in StageNames
  BY Typed DEF CalmInv, OwnerInv, TypeInv
<1>2. ASSUME NEW r \in Runners, Runner(r) \/ WorkFails(r) \/ Abort(r)
      PROVE  chunks = tokens /\ chunks = vectors
  <2>1. RunDone(r) /\ Careful(run[r])
    BY <1>1, <1>2, RunStepDoes
  <2>2. CASE Written(r)
    BY <2>1, <2>2 DEF Written, Careful, Asks, Made
  <2>3. CASE ~Written(r)
    BY <2>1, <2>3 DEF RunDone, Claimed, Loaded, Checked, Probed, Parsed, WasCut,
                      TextIndexed, Embedded, GaveUp, Settled, docVars
  <2>4. QED
    BY <2>2, <2>3
<1>3. ASSUME NEW c \in Clients, Begin(c) \/ Continue(c)
      PROVE  FALSE
  <2>1. stage' \in {stage, "chunking", "uploaded"}
    BY <1>1, <1>3, RequestDoes DEF docVars
  <2>2. QED
    BY <2>1
<1>4. CASE (\E t \in Tasks : Reclaim(t)) \/ Crash \/ UNCHANGED vars
  BY <1>4 DEF Reclaim, Crash, vars, docVars
<1>5. QED
  BY <1>2, <1>3, <1>4 DEF Next

\* A document becomes indexed only when its rows, their tokens and its vectors
\* are all there and of one version: for any number of tasks, attempts, runners,
\* failures, rejections and deaths, and any number of edits of a document with
\* one request at a time, until a request misses a task - provided that no edit
\* is cut off by a death.  (An edit that dies between its two deletes leaves rows
\* without tokens, and a document whose attempts are used up is resumed behind
\* the cut that would make them anew.)
THEOREM IndexedDocumentsAreWhole ==
  ASSUME \A c, d \in Clients : c = d, Budget["lapse"] = 0, Budget["cancel"] = 0,
         Budget["edit"] = 0 \/ Budget["crash"] = 0
  PROVE  Spec => IndexedWhole
<1> DEFINE Inv == TypeInv /\ (Happened("miss") \/ (WholeInv /\ Unbroken))
<1>1. Init => Inv
  <2>1. Init => Unbroken
    BY DEF Init, NoRequest, Unbroken, MidEdit, Editing
  <2>2. QED
    BY <2>1, TypeInitially, WholeInitially
<1>2. Inv /\ [Next]_vars => Inv'
  <2> SUFFICES ASSUME Inv, [Next]_vars
               PROVE  Inv'
    OBVIOUS
  <2>1. ASSUME ~Happened("miss")'
        PROVE  WholeInv' /\ Unbroken'
    <3>1. WholeInv /\ CalmInv /\ Unbroken /\ ~Spend("miss")
      BY <2>1, UntilMissed DEF WholeInv
    <3>2. Unbroken' /\ (Crash => ~MidEdit)
      BY <3>1, UnbrokenInductive
    <3>3. QED
      BY <3>1, <3>2, WholeInductive
  <2>2. QED
    BY <2>1, TypeInductive
<1>3. Inv /\ [Next]_vars
        => [/\ ~Happened("miss")' /\ ~(Happened("reject") /\ Happened("crash"))
            /\ stage' = "indexed" /\ stage # "indexed"
            => chunks = tokens /\ chunks = vectors]_vars
  BY BecomesWhole, UntilMissed DEF WholeInv
<1>4. QED
  BY <1>1, <1>2, <1>3, PTL DEF Spec, IndexedWhole

-----------------------------------------------------------------------------
(* What is known of the parse result before a parse                        *)

Early == {"probing", "parsing"}

Thrifty(x) ==
  /\ Asks(x) => /\ x.target = "probing" /\ x.mem # "parsing" => parsed # original
                /\ x.target = "parsing" => parsed # original /\ x.file = original
                /\ x.target \in Early \/ parsed # NoVersion
                /\ x.mem = "parsing" => x.target \in {"probing", "parsed"}
  /\ x.pc = "work" => /\ x.mem \in Early => parsed # original
                      /\ x.mem = "parsing" => x.file = original
                      /\ x.mem \in Early \/ parsed # NoVersion
  /\ x.pc = "index" => parsed # NoVersion /\ x.mem = "chunking"

\* A document that starts, or starts over, has a file that was not parsed: before
\* the one edit nothing but its first file was, and after it that is not its file
\* any more.
Unparsed ==
  /\ left["edit"] <= 1
  /\ left["edit"] = 1 => parsed \in {NoVersion, content} /\ original = content /\ ~MidEdit
  /\ \A c \in Clients :
       client[c].pc \in {"vectors", "tokens", "chunks", "content", "path"} =>
         parsed # client[c].version
  /\ \A c \in Clients : client[c].pc = "restart" => parsed # original
  /\ stage \in {"uploaded", "probing"} => parsed # original

ThriftInv == CalmInv /\ Unparsed /\ \A r \in Runners : Thrifty(run[r])

\* No run moves a document back to the first stage.
LEMMA NeverUploaded == \A s \in StageNames : "uploaded" \notin Allowed[s]
<1>1. /\ "uploaded" \notin Allowed.uploaded /\ "uploaded" \notin Allowed.probing
      /\ "uploaded" \notin Allowed.parsing /\ "uploaded" \notin Allowed.parsed
      /\ "uploaded" \notin Allowed.chunking /\ "uploaded" \notin Allowed.chunked
      /\ "uploaded" \notin Allowed.embedding /\ "uploaded" \notin Allowed.indexed
      /\ "uploaded" \notin Allowed.failed /\ "uploaded" \notin Allowed.canceled
  BY DEF Allowed, Retryable
<1>2. QED
  BY <1>1 DEF StageNames

LEMMA RunIsThrifty ==
  ASSUME ThriftInv, NEW r \in Runners, RunDone(r), ~MidEdit, stage \in StageNames,
         original \in Versions, client' = client, left'["edit"] = left["edit"]
  PROVE  Unparsed' /\ Thrifty(run[r])'
<1> DEFINE x == run[r]
           y == run'[r]
<1>1. /\ Thrifty(x) /\ Tracks(x) /\ left["edit"] <= 1
      /\ left["edit"] = 1 => parsed \in {NoVersion, content} /\ original = content
      /\ stage \in {"uploaded", "probing"} => parsed # original
      /\ original # NoVersion
  BY PipelineAssumption DEF ThriftInv, CalmInv, Unparsed
<1>2. ~MidEdit' /\ (\A c \in Clients : client'[c].pc \notin Editing)
  BY DEF MidEdit
<1>3. ASSUME parsed' = parsed \/ parsed' = original, UNCHANGED <<content, original>>,
             stage' \in {"uploaded", "probing"} => parsed' # original
      PROVE  Unparsed'
  BY <1>1, <1>2, <1>3 DEF Unparsed, Editing
<1>4. ASSUME UNCHANGED docVars
      PROVE  Unparsed'
  BY <1>1, <1>3, <1>4 DEF docVars
<1>5. CASE Claimed(r) \/ Settled(r)
  <2>1. Thrifty(run[r])'
    BY <1>5 DEF Claimed, Settled, Thrifty, Asks
  <2>2. QED
    BY <1>4, <1>5, <2>1 DEF Claimed, Settled
<1>6. CASE Loaded(r)
  <2>1. /\ ResumeStage \in {"uploaded", "probing", "parsing"} /\ stage # "parsing" => parsed # original
        /\ ResumeStage \notin {"uploaded", "probing", "parsing"} => stage # "parsing"
    BY <1>1 DEF ResumeStage
  <2>2. Thrifty(run[r])'
    BY <1>1, <1>6, <2>1 DEF Loaded, Thrifty, Asks, Early, docVars
  <2>3. QED
    BY <1>4, <1>6, <2>2 DEF Loaded
<1>7. CASE Checked(r)
  <2>1. Thrifty(run[r])'
    BY <1>1, <1>7 DEF Checked, Thrifty, Asks, docVars
  <2>2. QED
    BY <1>4, <1>7, <2>1 DEF Checked
<1>8. CASE Written(r)
  <2>1. /\ x.mem = stage /\ CanTransition(x.mem, x.target)
        /\ x.target = "probing" /\ x.mem # "parsing" => parsed # original
        /\ x.target = "parsing" => parsed # original /\ x.file = original
        /\ x.target \in Early \/ parsed # NoVersion
    BY <1>1, <1>8 DEF Written, Tracks, Thrifty, Asks
  <2>2. x.target = "probing" => x.mem # "parsing"
    BY <2>1 DEF CanTransition, Allowed
  <2>3. x.target = "uploaded" => x.mem = "uploaded"
    BY <2>1, NeverUploaded DEF CanTransition
  <2>4. Thrifty(run[r])'
    BY <1>8, <2>1, <2>2 DEF Written, Thrifty, Asks, Early
  <2>5. Unparsed'
    BY <1>1, <1>3, <1>8, <2>1, <2>2, <2>3 DEF Written
  <2>6. QED
    BY <2>4, <2>5
<1>9. CASE Probed(r)
  <2>1. parsed # original
    BY <1>1, <1>9 DEF Probed, At, Thrifty, Early
  <2>2. Thrifty(run[r])'
    BY <1>9, <2>1 DEF Probed, At, Thrifty, Asks, Early, docVars
  <2>3. QED
    BY <1>4, <1>9, <2>2 DEF Probed
<1>10. CASE Parsed(r)
  <2>1. x.file = original /\ x.mem = "parsing" /\ stage = "parsing"
    BY <1>1, <1>10 DEF Parsed, At, Thrifty, Tracks
  <2>2. Thrifty(run[r])'
    BY <1>1, <1>10, <2>1 DEF Parsed, Thrifty, Asks, Early
  <2>3. Unparsed'
    BY <1>3, <1>10, <2>1 DEF Parsed
  <2>4. QED
    BY <2>2, <2>3
<1>11. CASE WasCut(r) \/ TextIndexed(r) \/ Embedded(r)
  <2>1. parsed # NoVersion /\ x.mem = stage
    BY <1>1, <1>11 DEF WasCut, TextIndexed, Embedded, At, Thrifty, Tracks, Early
  <2>2. CASE WasCut(r)
    <3>1. Thrifty(run[r])'
      BY <2>1, <2>2 DEF WasCut, At, Thrifty, Asks
    <3>2. QED
      BY <1>1, <1>3, <2>2, <3>1 DEF WasCut
  <2>3. CASE TextIndexed(r)
    <3>1. x.mem # "parsing"
      BY <1>1, <2>3 DEF TextIndexed, Thrifty
    <3>2. Thrifty(run[r])'
      BY <2>1, <2>3, <3>1 DEF TextIndexed, Thrifty, Asks
    <3>3. QED
      BY <1>1, <1>3, <2>3, <3>2 DEF TextIndexed
  <2>4. CASE Embedded(r)
    <3>1. Thrifty(run[r])'
      BY <2>1, <2>4 DEF Embedded, At, Thrifty, Asks
    <3>2. QED
      BY <1>1, <1>3, <2>4, <3>1 DEF Embedded
  <2>5. QED
    BY <1>11, <2>2, <2>3, <2>4
<1>12. CASE GaveUp(r)
  <2>1. Thrifty(run[r])'
    BY <1>12 DEF GaveUp, Thrifty, Asks
  <2>2. Unparsed'
    BY <1>1, <1>3, <1>12 DEF GaveUp
  <2>3. QED
    BY <2>1, <2>2
<1>13. QED
  BY <1>5, <1>6, <1>7, <1>8, <1>9, <1>10, <1>11, <1>12 DEF RunDone

LEMMA ThriftyRequest ==
  ASSUME ThriftInv, \A c, d \in Clients : c = d, ~Spend("miss"), NEW c \in Clients,
         Begin(c) \/ Continue(c)
  PROVE  Unparsed' /\ \A r \in Runners : Thrifty(run[r])'
<1>1. /\ client \in [Clients -> Requests] /\ left \in [Events -> Nat] /\ run' = run
      /\ \A d \in Clients : d = c /\ CalmInv
  BY Typed, ClientTyped DEF ThriftInv, CalmInv, OwnerInv, TypeInv
<1>2. \A r \in Runners : Thrifty(run[r])'
  BY <1>1, RequestAlone DEF ThriftInv, Thrifty, Asks, docVars
<1>3. /\ MidEdit <=> client[c].pc \in Editing
      /\ MidEdit' <=> client'[c].pc \in Editing
  BY <1>1 DEF MidEdit
<1>4. /\ left["edit"] \in Nat /\ left["edit"] <= 1
      /\ left["edit"] = 1 => /\ parsed \in {NoVersion, content} /\ original = content
                             /\ client[c].pc \notin Editing
      /\ client[c].pc \in {"vectors", "tokens", "chunks", "content", "path"}
           => parsed # client[c].version
      /\ client[c].pc = "restart" => parsed # original
      /\ stage \in {"uploaded", "probing"} => parsed # original
  BY <1>1, <1>3 DEF ThriftInv, Unparsed, Events
<1>5. ASSUME left'["edit"] <= 1,
             left'["edit"] = 1 => /\ parsed' \in {NoVersion, content'} /\ original' = content'
                                  /\ client'[c].pc \notin Editing,
             client'[c].pc \in {"vectors", "tokens", "chunks", "content", "path"}
               => parsed' # client'[c].version,
             client'[c].pc = "restart" => parsed' # original',
             stage' \in {"uploaded", "probing"} => parsed' # original'
      PROVE  Unparsed'
  BY <1>1, <1>3, <1>5 DEF Unparsed
<1>6. ASSUME left' = [left EXCEPT !["edit"] = @ - 1], left["edit"] > 0
      PROVE  left["edit"] = 1 /\ left'["edit"] = 0
  BY <1>1, <1>4, <1>6 DEF Events
<1>7. Unparsed'
  <2>1. CASE /\ client[c].pc \notin Editing /\ client'[c].pc \notin Editing
             /\ UNCHANGED <<content, original, parsed, left>> /\ stage' \in {stage, "chunking"}
    BY <1>4, <1>5, <2>1 DEF Editing
  <2>2. CASE /\ left["edit"] > 0 /\ left' = [left EXCEPT !["edit"] = @ - 1] /\ UNCHANGED docVars
             /\ client'[c].pc = "vectors" /\ client'[c].version # content
    <3>1. left["edit"] = 1 /\ left'["edit"] = 0
      BY <1>6, <2>2
    <3>2. client'[c].version \in Versions
      BY <1>1, <2>2, ClientTyped DEF CalmInv, OwnerInv, EditsAreNamed
    <3>3. parsed # client'[c].version
      BY <1>4, <2>2, <3>1, <3>2, PipelineAssumption
    <3>4. QED
      BY <1>4, <1>5, <2>2, <3>1, <3>3 DEF docVars
  <2>3. CASE /\ client[c].pc \in {"vectors", "tokens", "chunks"} /\ UNCHANGED left
             /\ client'[c].pc \in {"tokens", "chunks", "content"}
             /\ client'[c].version = client[c].version
             /\ UNCHANGED <<stage, content, original, parsed>>
    BY <1>4, <1>5, <2>3 DEF Editing
  <2>4. CASE /\ client[c].pc = "content" /\ client'[c].pc = "path" /\ UNCHANGED left
             /\ content' = client[c].version /\ client'[c].version = client[c].version
             /\ UNCHANGED <<stage, original, parsed>>
    BY <1>4, <1>5, <2>4 DEF Editing
  <2>5. CASE /\ client[c].pc = "path" /\ client'[c].pc = "restart" /\ UNCHANGED left
             /\ original' = client[c].version /\ UNCHANGED <<stage, content, parsed>>
    BY <1>4, <1>5, <2>5 DEF Editing
  <2>6. CASE /\ client[c].pc = "restart" /\ client'[c].pc = "idle" /\ UNCHANGED left
             /\ stage' = "uploaded" /\ UNCHANGED <<content, original, parsed>>
    BY <1>4, <1>5, <2>6 DEF Editing
  <2>7. QED
    BY <1>1, <2>1, <2>2, <2>3, <2>4, <2>5, <2>6, RequestDoes
<1>8. QED
  BY <1>2, <1>7

LEMMA ThriftInductive ==
  ASSUME \A c, d \in Clients : c = d
  PROVE  ThriftInv /\ [Next]_vars /\ ~Spend("miss") => ThriftInv'
<1> SUFFICES ASSUME ThriftInv, [Next]_vars, ~Spend("miss")
             PROVE  Unparsed' /\ \A r \in Runners : Thrifty(run[r])'
  BY CalmInductive DEF ThriftInv
<1>1. TypeOK /\ stage \in StageNames /\ original \in Versions /\ CalmInv
  BY Typed DEF ThriftInv, CalmInv, OwnerInv, TypeInv
<1>2. ASSUME NEW r \in Runners, Runner(r) \/ WorkFails(r) \/ Abort(r)
      PROVE  Unparsed' /\ \A s \in Runners : Thrifty(run[s])'
  <2>1. /\ \A s \in Runners \ {r} : run[s].pc = "idle" /\ run'[s] = run[s]
        /\ \A c \in Clients : client[c].pc \in Looking
        /\ client' = client /\ left'["edit"] = left["edit"] /\ RunDone(r)
    BY <1>1, <1>2, StepsAlone, RunStepDoes
  <2>2. ~MidEdit
    BY <2>1 DEF MidEdit, Editing, Looking
  <2>3. Unparsed' /\ Thrifty(run[r])'
    BY <1>1, <2>1, <2>2, RunIsThrifty
  <2>4. \A s \in Runners \ {r} : Thrifty(run[s])'
    BY <2>1 DEF Thrifty, Asks
  <2>5. QED
    BY <2>3, <2>4
<1>3. ASSUME NEW t \in Tasks, Reclaim(t)
      PROVE  Unparsed' /\ \A r \in Runners : Thrifty(run[r])'
  <2>1. UNCHANGED <<docVars, run, client, left>>
    BY <1>1, <1>3, ReclaimDoes
  <2>2. QED
    BY <2>1 DEF ThriftInv, Unparsed, MidEdit, Thrifty, Asks, docVars
<1>4. CASE Crash
  <2>1. /\ \A s \in Runners : run'[s] = run[s] \/ run'[s].pc = "idle"
        /\ \A c \in Clients : client'[c] = client[c] \/ client'[c].pc = "idle"
        /\ UNCHANGED docVars /\ left'["edit"] = left["edit"]
    BY <1>1, <1>4, CrashDoes DEF Events
  <2>2. ~MidEdit => ~MidEdit'
    BY <2>1 DEF MidEdit, Editing
  <2>3. Unparsed'
    BY <2>1, <2>2 DEF ThriftInv, Unparsed, docVars
  <2>4. \A r \in Runners : Thrifty(run[r])'
    BY <2>1 DEF ThriftInv, Thrifty, Asks, docVars
  <2>5. QED
    BY <2>3, <2>4
<1>5. CASE UNCHANGED vars
  BY <1>5 DEF vars, docVars, ThriftInv, Unparsed, MidEdit, Thrifty, Asks
<1>6. QED
  BY <1>2, <1>3, <1>4, <1>5, ThriftyRequest DEF Next

LEMMA ThriftInitially ==
  ASSUME Budget["lapse"] = 0, Budget["cancel"] = 0, Budget["edit"] <= 1
  PROVE  Init => ThriftInv
<1> SUFFICES ASSUME Init
             PROVE  ThriftInv
  OBVIOUS
<1>1. CalmInv
  BY CalmInitially
<1>2. ~MidEdit /\ (\A c \in Clients : client[c].pc = "idle") /\ left = Budget
  BY DEF Init, NoRequest, MidEdit, Editing
<1>3. parsed = NoVersion /\ parsed # original /\ original = content
  BY PipelineAssumption DEF Init
<1>4. Unparsed
  BY <1>2, <1>3 DEF Unparsed
<1>5. \A r \in Runners : Thrifty(run[r])
  BY DEF Init, Idle, Thrifty, Asks
<1>6. QED
  BY <1>1, <1>4, <1>5 DEF ThriftInv

\* A content whose parse result was stored is not parsed again, whatever fails
\* or dies between the parse and the index, for any number of tasks, attempts,
\* runners, failures and deaths - and one edit - of a document with one request
\* at a time, until a request misses a task.  (Two edits there and back bring a
\* content back whose parse result the first of them replaced.)
THEOREM NoContentIsParsedTwice ==
  ASSUME \A c, d \in Clients : c = d, Budget["lapse"] = 0, Budget["cancel"] = 0,
         Budget["edit"] <= 1
  PROVE  Spec => NoParsePaidTwice
<1> DEFINE Inv == TypeInv /\ (Happened("miss") \/ ThriftInv)
<1>1. ASSUME ThriftInv, NEW r \in Runners, At(r, "work", "parsing")
      PROVE  parsed # run[r].file
  BY <1>1 DEF ThriftInv, Thrifty, At, Early
<1>2. Init => Inv
  BY TypeInitially, ThriftInitially
<1>3. Inv /\ [Next]_vars => Inv'
  BY ThriftInductive, UntilMissed, TypeInductive
<1>4. Inv /\ [Next]_vars
        => [\A r \in Runners :
              ~Happened("miss")' /\ At(r, "work", "parsing") /\ run'[r].text # NoVersion
              => parsed # run[r].file]_vars
  BY <1>1, UntilMissed
<1>5. QED
  BY <1>2, <1>3, <1>4, PTL DEF Spec, NoParsePaidTwice

-----------------------------------------------------------------------------
(* Attempts to spare                                                       *)

\* A death or an error costs a task two attempts at most: the one it hits, and
\* the next one if it resumes a parse, which the state machine refuses.
Strikes == left["crash"] + left["error"]
Limit == 2 * (Budget["crash"] + Budget["error"])

AmpleAttempts == \A t \in Tasks : MaxAttempts[t] > Limit

\* Task t was started at most once more than was lost, if n further starts are
\* lost by now.
Covered(t, n) == starts[t] + n + 2 * Strikes <= Limit + 1

Doomed(x) == x.mem = "parsing" /\ x.target = "probing"

\* A task nobody works on has lost its starts, and loses the next one in the
\* middle of a parse.
Abandoned(t) == \A r \in Runners : run[r].task = t => run[r].pc = "idle"

AttemptsLast ==
  /\ left["crash"] <= Budget["crash"] /\ left["error"] <= Budget["error"]
  /\ \A t \in Tasks : phase[t] = "absent" => starts[t] = 0
  /\ \A t \in Active : Abandoned(t) => Covered(t, 1) /\ (stage = "parsing" => Covered(t, 2))
  /\ \A r \in Runners : Working(r) =>
       /\ Covered(run[r].task, 0)
       /\ run[r].pc = "load" /\ stage = "parsing" => Covered(run[r].task, 1)
       /\ run[r].pc = "check" /\ Doomed(run[r]) => Covered(run[r].task, 1)
       /\ run[r].pc \in {"fail", "error"} => Covered(run[r].task, 1)
       /\ run[r].pc = "error" /\ stage = "parsing" => Covered(run[r].task, 2)

\* What a run asks for is the next stage, or one that is refused as doomed.
Orderly(x) ==
  /\ x.pc = "check" => CanTransition(x.mem, x.target) \/ Doomed(x)
  /\ Asks(x) /\ parsed = NoVersion => x.target \in Early
  /\ x.pc = "work" /\ parsed = NoVersion => x.mem \in Early
  /\ Asks(x) => x.target # "canceled"
  /\ x.pc = "ok" => stage = "indexed"
  /\ x.pc \notin {"canceled", "reject"}

\* Where a document is that no task works on.
AtRest ==
  /\ stage # "canceled"
  /\ Active = {} => stage \in {"uploaded", "chunking", "indexed"}
  /\ stage = "uploaded" => chunks = NoVersion /\ tokens = NoVersion
  /\ parsed = NoVersion => stage \in {"uploaded", "probing", "parsing", "failed"}
  /\ \A c \in Clients : /\ client[c].pc = "push" => parsed # NoVersion
                        /\ Pushing(c) => stage # "uploaded"

AmpleInv ==
  /\ CalmInv /\ WholeRows /\ AtRest /\ AttemptsLast
  /\ \A r \in Runners : Careful(run[r]) /\ Orderly(run[r])

\* The machine steps a run that is not doomed asks for.
LEMMA NextStages ==
  /\ \A q \in {"uploaded", "probing", "failed"} : CanTransition(q, "probing")
  /\ \A q \in {"parsed", "chunking", "failed"} : CanTransition(q, "chunking")
  /\ \A q \in {"chunked", "embedding", "failed"} : CanTransition(q, "embedding")
  /\ CanTransition("probing", "parsing") /\ CanTransition("parsing", "parsed")
  /\ CanTransition("chunking", "chunked") /\ CanTransition("embedding", "indexed")
  BY DEF CanTransition, Allowed, Retryable

LEMMA RunIsOrderly ==
  ASSUME CalmInv, AtRest, NEW r \in Runners, Careful(run[r]), Orderly(run[r]), RunDone(r),
         stage \in StageNames, WholeRows, ~Spend("reject")
  PROVE  /\ Orderly(run[r])' /\ stage' # "canceled"
         /\ stage' = "uploaded" => stage = "uploaded" /\ chunks' = NoVersion /\ tokens' = NoVersion
         /\ parsed' = NoVersion => stage' \in {"uploaded", "probing", "parsing", "failed"}
         /\ parsed # NoVersion => parsed' # NoVersion
<1> DEFINE x == run[r]
           y == run'[r]
           Rest == /\ stage' # "canceled"
                   /\ stage' = "uploaded" => /\ stage = "uploaded"
                                            /\ chunks' = NoVersion /\ tokens' = NoVersion
                   /\ parsed' = NoVersion => stage' \in {"uploaded", "probing", "parsing", "failed"}
                   /\ parsed # NoVersion => parsed' # NoVersion
<1>1. /\ Tracks(x) /\ stage # "canceled"
      /\ stage = "uploaded" => chunks = NoVersion /\ tokens = NoVersion
      /\ parsed = NoVersion => stage \in {"uploaded", "probing", "parsing", "failed"}
      /\ parsed = NoVersion => chunks = NoVersion
      /\ NoVersion \notin Versions
  BY PipelineAssumption DEF CalmInv, AtRest, WholeRows
<1>2. ASSUME UNCHANGED docVars
      PROVE  Rest
  BY <1>1, <1>2 DEF docVars
<1>3. ASSUME y.pc \in {"idle", "load", "index", "fail", "error"}
      PROVE  Orderly(run[r])'
  BY <1>3 DEF Orderly, Asks
<1>4. CASE Claimed(r) \/ Settled(r)
  BY <1>2, <1>3, <1>4 DEF Claimed, Settled
<1>5. CASE Loaded(r)
  <2>1. y.mem = stage /\ UNCHANGED docVars
    BY <1>5 DEF Loaded
  <2>2. \/ /\ ResumeStage \in {"uploaded", "probing", "parsing"}
           /\ y.pc = "check" /\ y.target = "probing"
        \/ /\ ResumeStage \in {"parsed", "chunking"} /\ parsed # NoVersion
           /\ y.pc = "check" /\ y.target = "chunking"
        \/ /\ ResumeStage \in {"chunked", "embedding"} /\ parsed # NoVersion
           /\ y.pc = "check" /\ y.target = "embedding"
        \/ y.pc = "fail"
        \/ ResumeStage = "indexed" /\ y.pc = "ok"
    BY <1>5 DEF Loaded
  <2>3. /\ ResumeStage \in {"uploaded", "probing", "parsing"}
             => stage \in {"uploaded", "probing", "failed", "parsing"}
        /\ ResumeStage \in {"parsed", "chunking"} => stage \in {"parsed", "chunking", "failed"}
        /\ ResumeStage \in {"chunked", "embedding"} => stage \in {"chunked", "embedding", "failed"}
        /\ ResumeStage = "indexed" => stage = "indexed"
    BY <1>1 DEF ResumeStage
  <2>4. Orderly(run[r])'
    <3>1. CASE y.pc = "check" /\ y.target = "probing"
      <4>1. stage \in {"uploaded", "probing", "failed", "parsing"}
        BY <2>2, <2>3, <3>1
      <4>2. CanTransition(stage, "probing") \/ stage = "parsing"
        BY <4>1, NextStages
      <4>3. QED
        BY <2>1, <3>1, <4>2 DEF Orderly, Asks, Doomed, Early
    <3>2. CASE y.pc = "check" /\ y.target = "chunking"
      <4>1. CanTransition(stage, "chunking") /\ parsed # NoVersion
        BY <2>2, <2>3, <3>2, NextStages
      <4>2. QED
        BY <2>1, <3>2, <4>1 DEF Orderly, Asks, docVars
    <3>3. CASE y.pc = "check" /\ y.target = "embedding"
      <4>1. CanTransition(stage, "embedding") /\ parsed # NoVersion
        BY <2>2, <2>3, <3>3, NextStages
      <4>2. QED
        BY <2>1, <3>3, <4>1 DEF Orderly, Asks, docVars
    <3>4. CASE y.pc = "ok"
      BY <2>1, <2>2, <2>3, <3>4 DEF Orderly, Asks, docVars
    <3>5. QED
      BY <1>3, <2>2, <3>1, <3>2, <3>3, <3>4
  <2>5. QED
    BY <1>2, <2>1, <2>4
<1>6. CASE Checked(r)
  <2>1. UNCHANGED docVars
    BY <1>6 DEF Checked
  <2>2. Orderly(run[r])'
    BY <1>1, <1>6 DEF Checked, Orderly, Asks, docVars
  <2>3. QED
    BY <1>2, <2>1, <2>2
<1>7. CASE Written(r)
  <2>1. /\ x.mem = stage /\ CanTransition(stage, x.target) /\ x.target # "canceled"
        /\ parsed = NoVersion => x.target \in Early
    BY <1>1, <1>7 DEF Written, Tracks, Orderly, Asks
  <2>2. x.target = "uploaded" => stage = "uploaded"
    BY <2>1, NeverUploaded DEF CanTransition
  <2>3. Rest
    BY <1>1, <1>7, <2>1, <2>2 DEF Written, Early
  <2>4. Orderly(run[r])'
    BY <1>7, <2>1, NextStages DEF Written, Orderly, Asks, Early
  <2>5. QED
    BY <2>3, <2>4
<1>8. CASE Probed(r)
  <2>1. Orderly(run[r])'
    BY <1>8, NextStages DEF Probed, At, Orderly, Asks, Early
  <2>2. QED
    BY <1>2, <1>8, <2>1 DEF Probed
<1>9. CASE Parsed(r)
  <2>1. x.file # NoVersion /\ x.mem = "parsing" /\ stage = "parsing"
    BY <1>1, <1>9 DEF Parsed, At, Careful, Tracks
  <2>2. Orderly(run[r])'
    BY <1>9, <2>1, NextStages DEF Parsed, Orderly, Asks
  <2>3. Rest
    BY <1>9, <2>1 DEF Parsed
  <2>4. QED
    BY <2>2, <2>3
<1>10. CASE WasCut(r)
  <2>1. stage = "chunking"
    BY <1>1, <1>10 DEF WasCut, At, Tracks
  <2>2. QED
    BY <1>1, <1>3, <1>10, <2>1 DEF WasCut
<1>11. CASE TextIndexed(r)
  <2>1. stage = "chunking" /\ x.mem = "chunking" /\ parsed # NoVersion
    BY <1>1, <1>11 DEF TextIndexed, Careful, Tracks
  <2>2. Orderly(run[r])'
    BY <1>11, <2>1, NextStages DEF TextIndexed, Orderly, Asks
  <2>3. QED
    BY <1>1, <1>11, <2>1, <2>2 DEF TextIndexed
<1>12. CASE Embedded(r)
  <2>1. stage = "embedding" /\ x.mem = "embedding" /\ parsed # NoVersion
    BY <1>1, <1>12 DEF Embedded, At, Orderly, Tracks, Early
  <2>2. Orderly(run[r])'
    BY <1>12, <2>1, NextStages DEF Embedded, Orderly, Asks
  <2>3. QED
    BY <1>1, <1>12, <2>1, <2>2 DEF Embedded
<1>13. CASE GaveUp(r)
  <2>1. Orderly(run[r])'
    BY <1>3, <1>13 DEF GaveUp
  <2>2. Rest
    BY <1>1, <1>13 DEF GaveUp
  <2>3. QED
    BY <2>1, <2>2
<1>14. QED
  BY <1>4, <1>5, <1>6, <1>7, <1>8, <1>9, <1>10, <1>11, <1>12, <1>13 DEF RunDone

\* What a loss covers, and what stays covered.
LEMMA LossCovers ==
  ASSUME TypeOK, NEW t \in Tasks, Covered(t, 0), starts'[t] = starts[t],
         Spend("error") \/ Spend("crash")
  PROVE  Covered(t, 0)' /\ Covered(t, 1)' /\ Covered(t, 2)'
<1>1. /\ starts[t] \in Nat /\ left \in [Events -> Nat] /\ "error" \in Events /\ "crash" \in Events
      /\ Budget["crash"] \in Nat /\ Budget["error"] \in Nat
  BY Typed, PipelineAssumption DEF Events
<1>2. left["crash"] \in Nat /\ left["error"] \in Nat
  BY <1>1
<1>3. \/ left'["error"] = left["error"] - 1 /\ left'["crash"] = left["crash"] /\ left["error"] > 0
      \/ left'["crash"] = left["crash"] - 1 /\ left'["error"] = left["error"] /\ left["crash"] > 0
  BY <1>1 DEF Spend
<1>4. QED
  BY <1>1, <1>2, <1>3 DEF Covered, Strikes, Limit

LEMMA CoveredStays ==
  ASSUME TypeOK, NEW t \in Tasks, NEW n \in Nat, Covered(t, n), starts'[t] = starts[t],
         left'["crash"] = left["crash"], left'["error"] = left["error"]
  PROVE  Covered(t, n)'
  BY DEF Covered, Strikes, Limit

\* A start that was covered leaves one loss less to pay for.
LEMMA StartCounts ==
  ASSUME TypeOK, NEW t \in Tasks, NEW n \in Nat, Covered(t, n + 1), starts'[t] = starts[t] + 1,
         left' = left
  PROVE  Covered(t, n)'
<1>1. /\ starts[t] \in Nat /\ left["crash"] \in Nat /\ left["error"] \in Nat
      /\ Budget["crash"] \in Nat /\ Budget["error"] \in Nat
  BY Typed, PipelineAssumption DEF Events
<1>2. QED
  BY <1>1 DEF Covered, Strikes, Limit

\* A task whose last start is lost has another one, if attempts are ample.
LEMMA CoveredIsRetried ==
  ASSUME TypeOK, AmpleAttempts, NEW t \in Tasks, Covered(t, 1)
  PROVE  starts[t] < MaxAttempts[t]
<1>1. /\ starts[t] \in Nat /\ left["crash"] \in Nat /\ left["error"] \in Nat
      /\ Budget["crash"] \in Nat /\ Budget["error"] \in Nat /\ MaxAttempts[t] \in Nat
  BY Typed, PipelineAssumption DEF Events
<1>2. QED
  BY <1>1 DEF Covered, Strikes, Limit, AmpleAttempts

\* What the table, and the budgets, do while a run is between its claim and its
\* outcome.
LEMMA RunAtWork ==
  ASSUME CalmInv, ~Spend("reject"), NEW r \in Runners, Runner(r) \/ WorkFails(r) \/ Abort(r),
         ~Claim(r), ~Settle(r)
  PROVE  /\ Working(r) /\ run'[r].pc # "idle"
         /\ run[r].task \in Tasks /\ run[r].task \in Active /\ Active' = Active
         /\ phase' = phase /\ starts' = starts
         /\ run'[r].task = run[r].task
         /\ left' = left \/ ((WorkFails(r) \/ Abort(r)) /\ Spend("error"))
<1>1. TypeOK /\ run \in [Runners -> RunRecord]
  BY Typed DEF CalmInv, OwnerInv, TypeInv
<1>2. Working(r)
  BY DEF Working, Runner, Load, Check, Write, Work, Probe, Parse, Cut, IndexText, Embed, Fail,
         WorkFails, Abort, At
<1>3. run[r].task \in Tasks /\ Owns(r, run[r].task)
  BY <1>2 DEF CalmInv, Owned
<1>4. run[r].task \in Active
  BY <1>3 DEF Owns, Active
<1>5. UNCHANGED taskVars /\ run'[r].task = run[r].task
  BY <1>1, RunStaysWithTask
<1>6. run'[r].pc # "idle"
  <2>1. RunDone(r)
    BY <1>1, RunStepDoes
  <2>2. ~Settled(r)
    <3>1. CASE run[r].pc \notin {"ok", "canceled", "error", "reject"}
      BY <3>1 DEF Settled
    <3>2. CASE run[r].pc \in {"ok", "canceled", "error", "reject"}
      BY <3>2 DEF Runner, Claim, Load, Check, Write, Work, Probe, Parse, Cut, IndexText, Embed, Fail,
                  WorkFails, Abort, At
    <3>3. QED
      BY <3>1, <3>2
  <2>3. QED
    BY <2>1, <2>2 DEF RunDone, Claimed, Loaded, Checked, Written, Probed, Parsed, WasCut,
                      TextIndexed, Embedded, GaveUp
<1>7. left' = left \/ ((WorkFails(r) \/ Abort(r)) /\ Spend("error"))
  BY DEF Runner, Load, Check, Write, Work, Probe, Parse, Cut, IndexText, Embed, Fail,
         WorkFails, Abort
<1>8. QED
  BY <1>2, <1>3, <1>4, <1>5, <1>6, <1>7 DEF taskVars, Active

\* A run that works pays for at most what it loses.
LEMMA WorkIsCovered ==
  ASSUME AmpleInv, ~Spend("reject"), NEW r \in Runners, Runner(r) \/ WorkFails(r) \/ Abort(r),
         ~Claim(r), ~Settle(r)
  PROVE  /\ Covered(run[r].task, 0)'
         /\ run'[r].pc = "load" /\ stage' = "parsing" => Covered(run[r].task, 1)'
         /\ run'[r].pc = "check" /\ Doomed(run[r])' => Covered(run[r].task, 1)'
         /\ run'[r].pc \in {"fail", "error"} => Covered(run[r].task, 1)'
         /\ run'[r].pc = "error" /\ stage' = "parsing" => Covered(run[r].task, 2)'
<1> DEFINE t == run[r].task
           x == run[r]
           y == run'[r]
<1>1. /\ TypeOK /\ CalmInv /\ Working(r) /\ t \in Tasks /\ starts' = starts /\ y.task = t
      /\ left' = left \/ ((WorkFails(r) \/ Abort(r)) /\ Spend("error"))
      /\ stage \in StageNames
  BY RunAtWork, Typed DEF AmpleInv, CalmInv, OwnerInv, TypeInv
<1>2. /\ Covered(t, 0)
      /\ x.pc = "load" /\ stage = "parsing" => Covered(t, 1)
      /\ x.pc = "check" /\ Doomed(x) => Covered(t, 1)
      /\ x.pc \in {"fail", "error"} => Covered(t, 1)
  BY <1>1 DEF AmpleInv, AttemptsLast
<1>3. RunDone(r) /\ Tracks(x) /\ Orderly(x) /\ Careful(x)
  BY <1>1, RunStepDoes DEF AmpleInv, CalmInv
<1>4. CASE (WorkFails(r) \/ Abort(r)) /\ Spend("error")
  <2>1. Covered(t, 0)' /\ Covered(t, 1)' /\ Covered(t, 2)'
    BY <1>1, <1>2, <1>4, LossCovers
  <2>2. QED
    BY <1>1, <2>1 DEF Covered
<1>5. CASE left' = left
  <2>1. Covered(t, 0)' /\ (Covered(t, 1) => Covered(t, 1)')
    BY <1>1, <1>2, <1>5, CoveredStays
  <2>2. y.pc # "load"
    BY <1>1, <1>3 DEF Working, RunDone, Claimed, Loaded, Checked, Written, Probed, Parsed, WasCut,
                      TextIndexed, Embedded, GaveUp, Settled
  <2>3. y.pc = "check" /\ Doomed(y) => Covered(t, 1)
    <3>1. CASE Loaded(r)
      BY <1>2, <3>1 DEF Loaded, Doomed
    <3>2. CASE ~Loaded(r)
      BY <1>3, <3>2 DEF RunDone, Claimed, Checked, Written, Probed, Parsed, WasCut,
                      TextIndexed, Embedded, GaveUp, Settled, Doomed
    <3>3. QED
      BY <3>1, <3>2
  <2>4. y.pc \in {"fail", "error"} => Covered(t, 1) /\ (y.pc = "error" => stage' # "parsing")
    <3>1. CASE Loaded(r)
      <4>1. parsed = NoVersion => ResumeStage \in {"uploaded", "probing", "parsing"}
        BY DEF AmpleInv, AtRest, WholeRows, ResumeStage
      <4>2. QED
        BY <3>1, <4>1 DEF Loaded
    <3>2. CASE Checked(r)
      BY <1>2, <1>3, <3>2 DEF Checked, Orderly
    <3>3. CASE GaveUp(r)
      <4>1. ~Spend("error") /\ ~Spend("reject")
        BY <1>1, <1>5, Typed DEF Spend, Events
      <4>2. QED
        BY <1>2, <1>3, <3>3, <4>1 DEF GaveUp, Tracks
    <3>4. CASE ~Loaded(r) /\ ~Checked(r) /\ ~GaveUp(r)
      BY <1>3, <3>4 DEF RunDone, Claimed, Written, Probed, Parsed, WasCut, TextIndexed, Embedded,
                        Settled
    <3>5. QED
      BY <3>1, <3>2, <3>3, <3>4
  <2>5. QED
    BY <1>1, <2>1, <2>2, <2>3, <2>4 DEF Covered, Doomed
<1>6. QED
  BY <1>1, <1>4, <1>5

\* A task is sent back after an error, and ends when its document is indexed.
LEMMA SettleDoes ==
  ASSUME AmpleInv, AmpleAttempts, NEW r \in Runners, Settle(r)
  PROVE  /\ run[r].task \in Active /\ starts' = starts /\ UNCHANGED <<docVars, client, left>>
         /\ run'[r].pc = "idle"
         /\ \A u \in Tasks \ {run[r].task} : phase'[u] = phase[u]
         /\ \/ run[r].pc = "error" /\ phase'[run[r].task] = "waiting"
            \/ stage = "indexed" /\ phase'[run[r].task] = "ended"
<1> DEFINE t == run[r].task
<1>1. /\ TypeOK /\ CalmInv /\ Orderly(run[r]) /\ AttemptsLast
      /\ run \in [Runners -> RunRecord]
      /\ phase \in [Tasks -> {"absent", "waiting", "started", "ended"}]
  BY Typed DEF AmpleInv, CalmInv, OwnerInv, TypeInv
<1>2. Working(r) /\ run[r].pc \in {"ok", "error"}
  BY <1>1 DEF Settle, Working, Orderly
<1>3. t \in Tasks /\ Owns(r, t) /\ t \in Active
  BY <1>1, <1>2 DEF CalmInv, Owned, Owns, Active
<1>4. UNCHANGED <<docVars, client, left>> /\ run'[r].pc = "idle"
  BY <1>1 DEF Settle, Idle
<1>5. CASE run[r].pc = "error"
  <2>1. Covered(t, 1)
    BY <1>1, <1>2, <1>5 DEF AttemptsLast
  <2>2. run[r].attempt < MaxAttempts[t]
    BY <1>1, <1>3, <2>1, CoveredIsRetried DEF Owns
  <2>3. L!Settle({t}, {})
    BY <1>3, <1>5, <2>2 DEF Settle
  <2>4. QED
    BY <1>3, <1>4, <1>5, <2>3 DEF L!Settle
<1>6. CASE run[r].pc = "ok"
  <2>1. stage = "indexed"
    BY <1>1, <1>6 DEF Orderly
  <2>2. L!Settle({}, {t})
    BY <1>3, <1>6 DEF Settle
  <2>3. QED
    BY <1>3, <1>4, <2>1, <2>2 DEF L!Settle
<1>7. QED
  BY <1>2, <1>5, <1>6

LEMMA AmpleRun ==
  ASSUME AmpleInv, AmpleAttempts, ~Spend("reject"), NEW r \in Runners,
         Runner(r) \/ WorkFails(r) \/ Abort(r)
  PROVE  AtRest' /\ AttemptsLast' /\ \A s \in Runners : Orderly(run[s])'
<1>1. /\ TypeOK /\ CalmInv /\ AtRest /\ AttemptsLast /\ WholeRows /\ stage \in StageNames
      /\ Careful(run[r]) /\ Orderly(run[r]) /\ OneActive
      /\ run \in [Runners -> RunRecord] /\ starts \in [Tasks -> Nat] /\ left \in [Events -> Nat]
      /\ phase \in [Tasks -> {"absent", "waiting", "started", "ended"}]
  BY Typed DEF AmpleInv, CalmInv, OwnerInv, TypeInv
<1>2. /\ \A s \in Runners \ {r} : run[s].pc = "idle" /\ run'[s] = run[s]
      /\ \A c \in Clients : client[c].pc \in Looking
      /\ client' = client /\ RunDone(r)
  BY <1>1, StepsAlone, RunStepDoes
<1>3. /\ Orderly(run[r])' /\ stage' # "canceled"
      /\ stage' = "uploaded" => stage = "uploaded" /\ chunks' = NoVersion /\ tokens' = NoVersion
      /\ parsed' = NoVersion => stage' \in {"uploaded", "probing", "parsing", "failed"}
  BY <1>1, <1>2, RunIsOrderly
<1>4. \A s \in Runners : Orderly(run[s])'
  BY <1>2, <1>3 DEF Orderly, Asks
<1>5. ASSUME Active' = {} => stage' \in {"uploaded", "chunking", "indexed"}
      PROVE  AtRest'
  <2>1. \A c \in Clients : client'[c].pc # "push" /\ (Pushing(c)' => stage' # "uploaded")
    BY <1>1, <1>2, <1>3 DEF AtRest, Pushing, Looking
  <2>2. QED
    BY <1>3, <1>5, <2>1 DEF AtRest
<1>6. CASE Claim(r)
  <2>1. PICK t \in Tasks :
          /\ L!Start(t)
          /\ run' = [run EXCEPT ![r] = [Idle EXCEPT !.task = t, !.pc = "load",
                                                    !.attempt = starts[t] + 1]]
    BY <1>6 DEF Claim
  <2>2. run'[r].task = t /\ run'[r].pc = "load" /\ run[r].pc = "idle"
    BY <1>1, <1>6, <2>1 DEF Idle, Claim
  <2>3. /\ phase[t] = "waiting" /\ phase'[t] = "started" /\ starts'[t] = starts[t] + 1
        /\ \A u \in Tasks \ {t} : phase'[u] = phase[u] /\ starts'[u] = starts[u]
    BY <1>1, <2>1 DEF L!Start
  <2>4. UNCHANGED <<docVars, left>>
    BY <1>6 DEF Claim
  <2>5. t \in Active /\ t \in Active' /\ \A u \in Active' : u = t
    BY <1>1, <2>3 DEF Active, OneActive
  <2>6. Abandoned(t)
    BY <1>2, <2>2 DEF Abandoned
  <2>7. Covered(t, 0 + 1) /\ (stage = "parsing" => Covered(t, 1 + 1))
    BY <1>1, <2>5, <2>6 DEF AttemptsLast
  <2>8. Covered(t, 0)' /\ (stage = "parsing" => Covered(t, 1)')
    BY <1>1, <2>3, <2>4, <2>7, StartCounts
  <2>9. AttemptsLast'
    <3>1. left'["crash"] <= Budget["crash"] /\ left'["error"] <= Budget["error"]
      BY <1>1, <2>4 DEF AttemptsLast
    <3>2. \A u \in Tasks : phase'[u] = "absent" => starts'[u] = 0
      BY <1>1, <2>3 DEF AttemptsLast
    <3>3. \A u \in Active' : ~Abandoned(u)'
      BY <2>2, <2>5 DEF Abandoned
    <3>4. \A s \in Runners : Working(s)' => s = r
      BY <1>2 DEF Working
    <3>5. QED
      BY <2>2, <2>4, <2>8, <3>1, <3>2, <3>3, <3>4 DEF AttemptsLast, docVars
  <2>10. QED
    BY <1>4, <1>5, <2>5, <2>9
<1>7. CASE Settle(r)
  <2> DEFINE t == run[r].task
  <2>1. /\ t \in Active /\ starts' = starts /\ UNCHANGED <<docVars, left>> /\ run'[r].pc = "idle"
        /\ \A u \in Tasks \ {t} : phase'[u] = phase[u]
        /\ \/ run[r].pc = "error" /\ phase'[t] = "waiting"
           \/ stage = "indexed" /\ phase'[t] = "ended"
    BY <1>7, SettleDoes
  <2>2. t \in Tasks
    BY <2>1 DEF Active
  <2>3. \A u \in Active' : u = t /\ phase'[t] = "waiting" /\ run[r].pc = "error"
    BY <1>1, <2>1, <2>2 DEF Active, OneActive
  <2>4. Active' = {} => stage' = "indexed"
    BY <2>1, <2>2 DEF Active, docVars
  <2>5. \A s \in Runners : ~Working(s)'
    BY <1>2, <2>1 DEF Working
  <2> PICK v \in Tasks : v = run[r].task
    BY <2>2
  <2>6. run[r].pc = "error" => Covered(v, 1) /\ (stage = "parsing" => Covered(v, 2))
    BY <1>1 DEF AttemptsLast, Working
  <2>7. run[r].pc = "error" => Covered(v, 1)' /\ (stage' = "parsing" => Covered(v, 2)')
    BY <2>1, <2>6 DEF Covered, Strikes, docVars
  <2>8. \A u \in Tasks : phase'[u] = "absent" => starts'[u] = 0
    BY <1>1, <2>1, <2>2 DEF AttemptsLast
  <2>9. left'["crash"] <= Budget["crash"] /\ left'["error"] <= Budget["error"]
    BY <1>1, <2>1 DEF AttemptsLast
  <2>10. AttemptsLast'
    <3>1. \A u \in Active' : u = v /\ run[r].pc = "error"
      BY <2>3
    <3>2. QED
      BY <2>5, <2>7, <2>8, <2>9, <3>1 DEF AttemptsLast
  <2>11. QED
    BY <1>4, <1>5, <2>4, <2>10
<1>8. CASE ~Claim(r) /\ ~Settle(r)
  <2> DEFINE t == run[r].task
  <2>1. /\ run'[r].pc # "idle" /\ t \in Tasks /\ t \in Active /\ Active' = Active
        /\ phase' = phase /\ starts' = starts /\ run'[r].task = t
        /\ left' = left \/ Spend("error")
    BY <1>1, <1>8, RunAtWork
  <2>2. \A u \in Active' : ~Abandoned(u)'
    BY <1>1, <2>1 DEF OneActive, Abandoned
  <2>3. \A s \in Runners : Working(s)' => s = r
    BY <1>2 DEF Working
  <2>4. left'["crash"] <= Budget["crash"] /\ left'["error"] <= Budget["error"]
    <3>1. left["crash"] <= Budget["crash"] /\ left["error"] <= Budget["error"]
      BY <1>1 DEF AttemptsLast
    <3>2. /\ left["crash"] \in Nat /\ left["error"] \in Nat
          /\ Budget["crash"] \in Nat /\ Budget["error"] \in Nat
      BY <1>1, PipelineAssumption DEF Events
    <3>3. left'["crash"] = left["crash"] /\ (left'["error"] = left["error"]
                                             \/ left'["error"] = left["error"] - 1)
      BY <1>1, <2>1 DEF Spend, Events
    <3>4. QED
      BY <3>1, <3>2, <3>3
  <2>5. /\ Covered(t, 0)'
        /\ run'[r].pc = "load" /\ stage' = "parsing" => Covered(t, 1)'
        /\ run'[r].pc = "check" /\ Doomed(run[r])' => Covered(t, 1)'
        /\ run'[r].pc \in {"fail", "error"} => Covered(t, 1)'
        /\ run'[r].pc = "error" /\ stage' = "parsing" => Covered(t, 2)'
    BY <1>8, WorkIsCovered
  <2>6. \A u \in Tasks : phase'[u] = "absent" => starts'[u] = 0
    BY <1>1, <2>1 DEF AttemptsLast
  <2>7. AttemptsLast'
    <3>1. ASSUME NEW n, Covered(t, n)'
          PROVE  Covered(run[r].task, n)'
      BY <2>1, <3>1 DEF Covered
    <3>2. QED
      BY <2>1, <2>2, <2>3, <2>4, <2>5, <2>6 DEF AttemptsLast, Covered
  <2>8. QED
    BY <1>4, <1>5, <2>1, <2>7
<1>9. QED
  BY <1>6, <1>7, <1>8

\* What a request that looks for no task has done to the table when there is no
\* cancel.
LEMMA RequestQueues ==
  ASSUME CalmInv, ~Spend("miss"), NEW c \in Clients, Begin(c) \/ Continue(c), ~Looks(c),
         phase \in [Tasks -> {"absent", "waiting", "started", "ended"}]
  PROVE  /\ starts' = starts
         /\ \A t \in Tasks : phase'[t] \in {"absent", "ended"} => phase[t] = phase'[t]
         /\ \/ Active' = {}
            \/ /\ \A t \in Active' : phase[t] = "absent"
               /\ stage' = stage /\ left' = left
<1>1. Active = {} /\ ~Cancel(c) /\ ~CancelTasks(c) /\ ~CancelStage(c)
  BY RequestAlone
<1>2. CASE Insert(c)
  <2>1. PICK t \in Tasks : L!Submit(t)
    BY <1>2 DEF Insert
  <2>2. /\ starts' = starts /\ phase[t] = "absent" /\ phase'[t] = "waiting"
        /\ \A u \in Tasks \ {t} : phase'[u] = phase[u]
    BY <2>1 DEF L!Submit
  <2>3. stage' = stage /\ left' = left
    BY <1>2 DEF Insert, docVars
  <2>4. \A u \in Active' : phase[u] = "absent"
    BY <1>1, <2>2 DEF Active
  <2>5. QED
    BY <2>2, <2>3, <2>4
<1>3. CASE ~Insert(c)
  <2>1. UNCHANGED taskVars
    BY <1>1, <1>3
       DEF Begin, Continue, Looks, Replace, PushBack, Drop, DropVectors, DropTokens, DropChunks,
           SetContent, SetOriginal, Restart
  <2>2. QED
    BY <1>1, <2>1 DEF taskVars, Active
<1>4. QED
  BY <1>2, <1>3

\* Only a document that was parsed is pushed back to the cut.
LEMMA PushedIsParsed ==
  ASSUME CalmInv, AtRest, ~Spend("miss"), NEW c \in Clients, Begin(c) \/ Continue(c), ~Looks(c),
         client \in [Clients -> Requests]
  PROVE  /\ client'[c].pc \notin {"pending", "running", "push"}
         /\ parsed' = parsed /\ (stage' = stage \/ stage' = "uploaded" \/ parsed # NoVersion)
<1>1. ~Cancel(c) /\ ~CancelTasks(c) /\ ~CancelStage(c)
  BY RequestAlone
<1>2. ASSUME NEW p, NEW q, Request(c, p, q)
      PROVE  client[c].pc = p /\ client'[c].pc = q
  BY <1>2 DEF Request, NoRequest
<1>3. CASE PushBack(c)
  <2>1. client[c].pc = "push" /\ client'[c].pc = "insert" /\ parsed' = parsed
    BY <1>2, <1>3 DEF PushBack
  <2>2. QED
    BY <2>1 DEF AtRest
<1>4. CASE Insert(c) \/ SetOriginal(c) \/ Restart(c)
  BY <1>2, <1>4 DEF Insert, SetOriginal, Restart, docVars
<1>5. CASE (\E v \in Versions : Replace(c, v)) \/ Drop(c) \/ SetContent(c)
  <2>1. ASSUME NEW p, client' = [client EXCEPT ![c].pc = p]
        PROVE  client'[c].pc = p
    BY <2>1 DEF Requests
  <2>2. ASSUME NEW v \in Versions, Replace(c, v)
        PROVE  client'[c].pc = "vectors" /\ UNCHANGED docVars
    BY <2>2 DEF Replace, Requests
  <2>3. QED
    BY <1>5, <2>1, <2>2 DEF Drop, DropVectors, DropTokens, DropChunks, SetContent, docVars
<1>6. QED
  BY <1>1, <1>3, <1>4, <1>5 DEF Begin, Continue, Looks

\* A look for a task changes nothing but what its own request is about to do.
LEMMA AmpleLook ==
  ASSUME AmpleInv, \A c, d \in Clients : c = d, ~Spend("miss"), NEW c \in Clients, Looks(c)
  PROVE  AtRest' /\ AttemptsLast' /\ \A r \in Runners : Orderly(run[r])'
<1>1. /\ TypeOK /\ AtRest /\ \A d \in Clients : d = c
      /\ UNCHANGED <<taskVars, docVars, run, left>> /\ Active' = Active
  BY LookDoes DEF AmpleInv, CalmInv, OwnerInv, TypeInv, taskVars, Active
<1>2. /\ client'[c].pc = "push" => Active = {} /\ stage # "uploaded"
      /\ Pushing(c)' => stage # "uploaded"
  BY <1>1, LookDoes DEF AtRest, Looking
<1>3. client'[c].pc = "push" => parsed # NoVersion
  BY <1>1, <1>2 DEF AtRest
<1>4. AtRest'
  BY <1>1, <1>2, <1>3 DEF AtRest, docVars
<1>5. AttemptsLast' /\ \A r \in Runners : Orderly(run[r])'
  BY <1>1 DEF AmpleInv, AttemptsLast, Covered, Strikes, Abandoned, Working, Doomed, Orderly, Asks,
              taskVars, docVars
<1>6. QED
  BY <1>4, <1>5

LEMMA AmpleRequest ==
  ASSUME AmpleInv, \A c, d \in Clients : c = d, ~Spend("miss"), NEW c \in Clients,
         Begin(c) \/ Continue(c), ~Looks(c)
  PROVE  AtRest' /\ AttemptsLast' /\ \A r \in Runners : Orderly(run[r])'
<1>1. /\ TypeOK /\ CalmInv /\ AtRest /\ AttemptsLast /\ WholeRows
      /\ client \in [Clients -> Requests] /\ left \in [Events -> Nat] /\ starts \in [Tasks -> Nat]
      /\ phase \in [Tasks -> {"absent", "waiting", "started", "ended"}]
      /\ run' = run /\ \A d \in Clients : d = c
  BY Typed, ClientTyped DEF AmpleInv, CalmInv, OwnerInv, TypeInv
<1>2. Active = {} /\ \A r \in Runners : run[r].pc = "idle"
  BY <1>1, RequestAlone
<1>3. \A r \in Runners : Orderly(run[r])'
  BY <1>1, <1>2 DEF Orderly, Asks
<1>4. /\ client'[c].pc # "push" /\ ~Pushing(c)'
      /\ parsed' = parsed /\ (stage' = stage \/ stage' = "uploaded" \/ parsed # NoVersion)
  BY <1>1, PushedIsParsed DEF Pushing
<1>5. /\ stage' \in {"uploaded", "chunking", "indexed"}
      /\ stage' = "uploaded" => chunks' = NoVersion /\ tokens' = NoVersion
  <2>1. /\ stage \in {"uploaded", "chunking", "indexed"}
        /\ stage = "uploaded" => chunks = NoVersion /\ tokens = NoVersion
    BY <1>1, <1>2 DEF AtRest
  <2>2. client[c].pc = "restart" => chunks = NoVersion /\ tokens = NoVersion
    BY <1>1 DEF WholeRows
  <2>3. QED
    BY <1>1, <2>1, <2>2, RequestDoes DEF docVars
<1>6. AtRest'
  <2>1. parsed = NoVersion => stage \in {"uploaded", "probing", "parsing", "failed"}
    BY <1>1 DEF AtRest
  <2>2. parsed' = NoVersion => stage' \in {"uploaded", "probing", "parsing", "failed"}
    BY <1>4, <2>1
  <2>3. \A d \in Clients : client'[d].pc # "push" /\ ~Pushing(d)'
    BY <1>1, <1>4
  <2>4. QED
    BY <1>5, <2>2, <2>3 DEF AtRest
<1>7. left'["crash"] = left["crash"] /\ left'["error"] = left["error"]
  BY <1>1, RequestDoes DEF Events
<1>8. /\ starts' = starts /\ \A t \in Tasks : phase'[t] = "absent" => phase[t] = "absent"
      /\ \A t \in Active' : phase[t] = "absent"
  BY <1>1, RequestQueues
<1>9. /\ left'["crash"] <= Budget["crash"] /\ left'["error"] <= Budget["error"]
      /\ \A t \in Tasks : phase'[t] = "absent" => starts'[t] = 0
  BY <1>1, <1>7, <1>8 DEF AttemptsLast
<1>10. ASSUME NEW t \in Active'
       PROVE  Covered(t, 1)'
  <2>1. t \in Tasks /\ starts'[t] = 0
    BY <1>1, <1>8 DEF Active, AttemptsLast
  <2>2. /\ left'["crash"] \in Nat /\ left'["error"] \in Nat
        /\ Budget["crash"] \in Nat /\ Budget["error"] \in Nat
    BY <1>1, <1>7, PipelineAssumption DEF Events
  <2>3. QED
    BY <1>9, <2>1, <2>2 DEF Covered, Strikes, Limit
<1>11. AttemptsLast'
  <2>1. \A r \in Runners : ~Working(r)'
    BY <1>1, <1>2 DEF Working
  <2>2. stage' # "parsing"
    BY <1>5
  <2>3. \A t \in Active' : Covered(t, 1)' /\ (stage' = "parsing" => Covered(t, 2)')
    BY <1>10, <2>2
  <2>4. QED
    BY <1>9, <2>1, <2>3 DEF AttemptsLast
<1>12. QED
  BY <1>3, <1>6, <1>11

\* A task that nobody works on is sent back by the reclaim, never ended.
LEMMA AmpleReclaim ==
  ASSUME AmpleInv, AmpleAttempts, NEW t \in Tasks, Reclaim(t)
  PROVE  /\ phase'[t] = "waiting" /\ \A u \in Tasks \ {t} : phase'[u] = phase[u]
         /\ AtRest' /\ AttemptsLast' /\ \A r \in Runners : Orderly(run[r])'
<1>1. /\ TypeOK /\ CalmInv /\ AtRest /\ AttemptsLast
      /\ phase \in [Tasks -> {"absent", "waiting", "started", "ended"}]
  BY Typed DEF AmpleInv, CalmInv, OwnerInv, TypeInv
<1>2. /\ UNCHANGED <<docVars, run, client, left>> /\ \A r \in Runners : ~Owns(r, t)
      /\ starts' = starts /\ \A u \in Tasks \ {t} : phase'[u] = phase[u]
  BY <1>1, ReclaimDoes
<1>3. t \in Active /\ phase[t] = "started"
  BY DEF Reclaim, Active
<1>4. Abandoned(t)
  BY <1>1, <1>2 DEF Abandoned, CalmInv, Owned, Working
<1>5. starts[t] < MaxAttempts[t]
  BY <1>1, <1>3, <1>4, CoveredIsRetried DEF AttemptsLast
<1>6. phase'[t] = "waiting"
  BY <1>5 DEF Reclaim, L!Settle
<1>7. Active' = Active
  BY <1>2, <1>3, <1>6 DEF Active
<1>8. AtRest'
  BY <1>1, <1>2, <1>7 DEF AtRest, Pushing, docVars
<1>9. AttemptsLast'
  <2>1. \A u \in Tasks : phase'[u] = "absent" => starts'[u] = 0
    BY <1>1, <1>2, <1>6 DEF AttemptsLast
  <2>2. QED
    BY <1>1, <1>2, <1>7, <2>1 DEF AttemptsLast, Covered, Strikes, Abandoned, Working, Doomed, docVars
<1>10. \A r \in Runners : Orderly(run[r])'
  BY <1>2 DEF AmpleInv, Orderly, Asks, Doomed, docVars
<1>11. QED
  BY <1>2, <1>6, <1>8, <1>9, <1>10

\* A death takes runs that were covered, and leaves rows that a document at rest
\* may have.
LEMMA AmpleCrash ==
  ASSUME AmpleInv, Crash
  PROVE  /\ WholeRows' /\ AtRest' /\ AttemptsLast'
         /\ \A r \in Runners : Careful(run[r])' /\ Orderly(run[r])'
<1>1. /\ TypeOK /\ CalmInv /\ AtRest /\ AttemptsLast /\ WholeRows
      /\ \A r \in Runners : Careful(run[r]) /\ Orderly(run[r])
      /\ phase \in [Tasks -> {"absent", "waiting", "started", "ended"}]
      /\ left \in [Events -> Nat]
  BY Typed DEF AmpleInv, CalmInv, OwnerInv, TypeInv
<1>2. /\ \A s \in Runners : run'[s] = run[s] \/ run'[s].pc = "idle"
      /\ \A c \in Clients : client'[c] = client[c] \/ client'[c].pc = "idle"
      /\ UNCHANGED <<taskVars, docVars>> /\ Spend("crash")
  BY <1>1, CrashDoes DEF Crash
<1>3. \A r \in Runners : Careful(run[r])' /\ Orderly(run[r])'
  <2>1. \A r \in Runners : Careful(run[r])'
    BY <1>1, <1>2 DEF Careful, Asks, Made, docVars
  <2>2. \A r \in Runners : Orderly(run[r])'
    BY <1>1, <1>2 DEF Orderly, Asks, Doomed, docVars
  <2>3. QED
    BY <2>1, <2>2
<1>4. Active' = Active /\ starts' = starts /\ phase' = phase
  BY <1>2 DEF taskVars, Active
<1>5. AtRest'
  BY <1>1, <1>2, <1>4 DEF AtRest, Pushing, docVars
<1>6. WholeRows'
  <2>1. /\ tokens' \in {NoVersion, chunks'} /\ (parsed' = NoVersion => chunks' = NoVersion)
        /\ \A c \in Clients : client'[c].pc \in {"content", "path", "restart"} =>
                                chunks' = NoVersion /\ tokens' = NoVersion
    BY <1>1, <1>2 DEF WholeRows, docVars
  <2>2. CASE ~MidEdit
    <3>1. /\ stage' \notin {"chunking", "indexed"} => tokens' = chunks'
          /\ stage' \in {"chunked", "embedding"} => chunks' # NoVersion
      BY <1>1, <1>2, <2>2 DEF WholeRows, docVars
    <3>2. QED
      BY <2>1, <3>1 DEF WholeRows
  <2>3. CASE MidEdit
    <3>1. Active = {}
      BY <1>1, <2>3 DEF MidEdit, Editing, Looking, CalmInv, Serving
    <3>2. /\ stage \in {"uploaded", "chunking", "indexed"}
          /\ stage = "uploaded" => chunks = NoVersion /\ tokens = NoVersion
      BY <1>1, <3>1 DEF AtRest
    <3>3. /\ stage' \notin {"chunking", "indexed"} => tokens' = chunks'
          /\ stage' \in {"chunked", "embedding"} => chunks' # NoVersion
      BY <1>2, <3>2 DEF docVars
    <3>4. QED
      BY <2>1, <3>3 DEF WholeRows
  <2>4. QED
    BY <2>2, <2>3
<1>7. ASSUME NEW t \in Tasks, Covered(t, 0)
      PROVE  Covered(t, 0)' /\ Covered(t, 1)' /\ Covered(t, 2)'
  BY <1>1, <1>2, <1>4, <1>7, LossCovers
<1>8. \A t \in Active' : Abandoned(t)' => Covered(t, 0)
  <2> SUFFICES ASSUME NEW t \in Active', Abandoned(t)'
               PROVE  Covered(t, 0)
    OBVIOUS
  <2>1. t \in Tasks /\ t \in Active
    BY <1>4 DEF Active
  <2>2. CASE Abandoned(t)
    <3>1. Covered(t, 1)
      BY <1>1, <2>1, <2>2 DEF AttemptsLast
    <3>2. /\ starts[t] \in Nat /\ left["crash"] \in Nat /\ left["error"] \in Nat
          /\ Budget["crash"] \in Nat /\ Budget["error"] \in Nat
      BY <1>1, <2>1, Typed, PipelineAssumption DEF Events
    <3>3. QED
      BY <3>1, <3>2 DEF Covered, Strikes, Limit
  <2>3. CASE ~Abandoned(t)
    BY <1>1, <2>3 DEF Abandoned, AttemptsLast, Working
  <2>4. QED
    BY <2>2, <2>3
<1>9. \A r \in Runners : Working(r)' =>
        run'[r].task = run[r].task /\ run[r].task \in Tasks /\ Covered(run[r].task, 0)
  BY <1>1, <1>2 DEF Working, AttemptsLast, CalmInv, Owned
<1>10. AttemptsLast'
  <2>1. left'["crash"] <= Budget["crash"] /\ left'["error"] <= Budget["error"]
    <3>1. /\ left["crash"] <= Budget["crash"] /\ left["error"] <= Budget["error"]
          /\ left["crash"] \in Nat /\ Budget["crash"] \in Nat
      BY <1>1, PipelineAssumption DEF Events, AttemptsLast
    <3>2. left'["crash"] = left["crash"] - 1 /\ left'["error"] = left["error"]
      BY <1>1, <1>2 DEF Spend, Events
    <3>3. QED
      BY <3>1, <3>2
  <2>2. \A t \in Tasks : phase'[t] = "absent" => starts'[t] = 0
    BY <1>1, <1>4 DEF AttemptsLast
  <2>3. \A t \in Active' : Abandoned(t)' => Covered(t, 1)' /\ Covered(t, 2)'
    BY <1>7, <1>8 DEF Active
  <2>4. \A r \in Runners : Working(r)' =>
          Covered(run[r].task, 0)' /\ Covered(run[r].task, 1)' /\ Covered(run[r].task, 2)'
    <3> SUFFICES ASSUME NEW r \in Runners, Working(r)'
                 PROVE  Covered(run[r].task, 0)' /\ Covered(run[r].task, 1)'
                        /\ Covered(run[r].task, 2)'
      OBVIOUS
    <3>1. PICK t \in Tasks : t = run[r].task /\ t = run'[r].task /\ Covered(t, 0)
      BY <1>9
    <3>2. Covered(t, 0)' /\ Covered(t, 1)' /\ Covered(t, 2)'
      BY <1>7, <3>1
    <3>3. QED
      BY <3>1, <3>2 DEF Covered
  <2>5. QED
    BY <2>1, <2>2, <2>3, <2>4 DEF AttemptsLast
<1>11. QED
  BY <1>3, <1>5, <1>6, <1>10

LEMMA AmpleInductive ==
  ASSUME AmpleAttempts, \A c, d \in Clients : c = d
  PROVE  AmpleInv /\ [Next]_vars /\ ~Spend("miss") /\ ~Spend("reject") => AmpleInv'
<1> SUFFICES ASSUME AmpleInv, [Next]_vars, ~Spend("miss"), ~Spend("reject")
             PROVE  /\ WholeRows' /\ AtRest' /\ AttemptsLast'
                    /\ \A r \in Runners : Careful(run[r])' /\ Orderly(run[r])'
  BY CalmInductive DEF AmpleInv
<1>1. /\ TypeOK /\ run \in [Runners -> RunRecord] /\ stage \in StageNames /\ original \in Versions
      /\ CalmInv /\ WholeRows /\ \A r \in Runners : Careful(run[r])
  BY Typed DEF AmpleInv, CalmInv, OwnerInv, TypeInv
<1>2. ASSUME NEW r \in Runners, Runner(r) \/ WorkFails(r) \/ Abort(r)
      PROVE  WholeRows' /\ \A s \in Runners : Careful(run[s])'
  <2>1. /\ \A s \in Runners \ {r} : run[s].pc = "idle" /\ run'[s] = run[s]
        /\ \A c \in Clients : client[c].pc \in Looking
        /\ client' = client /\ RunDone(r)
    BY <1>1, <1>2, StepsAlone, RunStepDoes
  <2>2. ~MidEdit
    BY <2>1 DEF MidEdit, Editing, Looking
  <2>3. WholeRows' /\ Careful(run[r])'
    BY <1>1, <2>1, <2>2, RunIsCareful
  <2>4. \A s \in Runners \ {r} : Careful(run[s])'
    BY <2>1 DEF Careful, Asks
  <2>5. QED
    BY <2>3, <2>4
<1>3. ASSUME NEW t \in Tasks, Reclaim(t)
      PROVE  WholeRows' /\ \A r \in Runners : Careful(run[r])'
  <2>1. UNCHANGED <<docVars, run, client>>
    BY <1>3 DEF Reclaim
  <2>2. QED
    BY <1>1, <2>1 DEF WholeRows, MidEdit, Careful, Asks, Made, docVars
<1>4. CASE UNCHANGED vars
  <2>1. UNCHANGED <<phase, starts, run, client, left>> /\ UNCHANGED docVars /\ Active' = Active
    BY <1>4 DEF vars, taskVars, Active
  <2>2. WholeRows' /\ \A r \in Runners : Careful(run[r])'
    BY <1>1, <2>1 DEF WholeRows, MidEdit, Careful, Asks, Made, docVars
  <2>3. AtRest' /\ \A r \in Runners : Orderly(run[r])'
    BY <2>1 DEF AmpleInv, AtRest, Pushing, Orderly, Asks, Doomed, docVars
  <2>4. AttemptsLast'
    BY <2>1 DEF AmpleInv, AttemptsLast, Covered, Strikes, Abandoned, Working, Doomed, docVars
  <2>5. QED
    BY <2>2, <2>3, <2>4
<1>5. CASE \E r \in Runners : Runner(r) \/ WorkFails(r) \/ Abort(r)
  BY <1>2, <1>5, AmpleRun
<1>6. CASE \E t \in Tasks : Reclaim(t)
  BY <1>3, <1>6, AmpleReclaim
<1>7. CASE \E c \in Clients : Begin(c) \/ Continue(c)
  BY <1>1, <1>7, WholeRequest, AmpleRequest, AmpleLook
<1>8. QED
  BY <1>4, <1>5, <1>6, <1>7, AmpleCrash DEF Next

LEMMA AmpleInitially ==
  ASSUME Budget["lapse"] = 0, Budget["cancel"] = 0
  PROVE  Init => AmpleInv
<1> SUFFICES ASSUME Init
             PROVE  AmpleInv
  OBVIOUS
<1>1. /\ CalmInv /\ left = Budget /\ Active = {}
      /\ \A t \in Tasks : starts[t] = 0
  BY CalmInitially DEF Init, Active, L!Init
<1>2. WholeRows /\ AtRest
  BY <1>1 DEF Init, NoRequest, WholeRows, AtRest, Pushing, MidEdit, Editing
<1>3. \A r \in Runners : Careful(run[r]) /\ Orderly(run[r]) /\ ~Working(r)
  BY DEF Init, Idle, Careful, Orderly, Asks, Working
<1>4. AttemptsLast
  BY <1>1, <1>3, PipelineAssumption DEF AttemptsLast, Events
<1>5. QED
  BY <1>1, <1>2, <1>3, <1>4 DEF AmpleInv

\* A document becomes indexed only when its rows, their tokens and its vectors
\* are all there and of one version, also when deaths cut off its edits: with
\* attempts to spare a document that may be edited was never queued, is at the
\* cut or is indexed (AtRest), so that the next run makes rows and tokens anew
\* and never resumes behind the cut.  (One request at a time, until one misses a
\* task; and a task rejected for good leaves a document that is none of these,
\* which is why IndexedWhole excuses a death beside a rejection.)
THEOREM SparedAttemptsIndexWhole ==
  ASSUME AmpleAttempts, \A c, d \in Clients : c = d, Budget["lapse"] = 0, Budget["cancel"] = 0
  PROVE  Spec => IndexedWhole
<1> DEFINE Inv == /\ TypeInv
                  /\ \/ Happened("miss")
                     \/ /\ Happened("crash") \/ WholeInv
                        /\ Happened("reject") \/ AmpleInv
<1>1. Init => Inv
  BY TypeInitially, WholeInitially, AmpleInitially
<1>2. Inv /\ [Next]_vars => Inv'
  <2> SUFFICES ASSUME Inv, [Next]_vars, ~Happened("miss")'
               PROVE  /\ Happened("crash")' \/ WholeInv'
                      /\ Happened("reject")' \/ AmpleInv'
    BY TypeInductive
  <2>1. ~Happened("miss") /\ ~Spend("miss")
    BY UntilMissed
  <2>2. ASSUME ~Happened("crash")'
        PROVE  WholeInv'
    <3>1. ~Happened("crash") /\ ~Spend("crash")
      BY <2>2, UntilSpent
    <3>2. QED
      BY <2>1, <3>1, WholeInductive DEF Crash
  <2>3. ASSUME ~Happened("reject")'
        PROVE  AmpleInv'
    <3>1. ~Happened("reject") /\ ~Spend("reject")
      BY <2>3, UntilSpent
    <3>2. QED
      BY <2>1, <3>1, AmpleInductive
  <2>4. QED
    BY <2>2, <2>3
<1>3. Inv /\ [Next]_vars
        => [/\ ~Happened("miss")' /\ ~(Happened("reject") /\ Happened("crash"))
            /\ stage' = "indexed" /\ stage # "indexed"
            => chunks = tokens /\ chunks = vectors]_vars
  <2> SUFFICES ASSUME Inv, [Next]_vars, ~Happened("miss")',
                      ~(Happened("reject") /\ Happened("crash")),
                      stage' = "indexed", stage # "indexed"
               PROVE  chunks = tokens /\ chunks = vectors
    OBVIOUS
  <2>1. ~Happened("miss") /\ ~Spend("miss")
    BY UntilMissed
  <2>2. CalmInv /\ \A r \in Runners : Careful(run[r])
    BY <2>1 DEF WholeInv, AmpleInv
  <2>3. QED
    BY <2>1, <2>2, BecomesWhole
<1>4. QED
  BY <1>1, <1>2, <1>3, PTL DEF Spec, IndexedWhole

\* A task ends with its document indexed: no failure, death or reclaim leaves a
\* document in the middle of the pipeline with nobody to take it on - until a
\* task is rejected for good, or missed by a request.
TasksEndIndexed ==
  [][~Happened("miss")' /\ ~Happened("reject")
     => \A t \in Tasks : phase[t] # "ended" /\ phase'[t] = "ended" => stage = "indexed"]_vars

\* With attempts to spare a task ends only when its document is indexed, however
\* many tasks, runners, edits, errors and deaths there are: an error or a death
\* costs two attempts at most, its own and that of a run that resumes a parse,
\* which the state machine refuses.  (This is the part of QueuedIsIndexed that
\* needs no fairness, for a document with one request at a time.)
THEOREM TasksEndWhenIndexed ==
  ASSUME AmpleAttempts, \A c, d \in Clients : c = d, Budget["lapse"] = 0, Budget["cancel"] = 0
  PROVE  Spec => TasksEndIndexed
<1> DEFINE Inv == TypeInv /\ (Happened("miss") \/ Happened("reject") \/ AmpleInv)
<1>1. ASSUME AmpleInv, [Next]_vars, ~Spend("miss"), NEW t \in Tasks,
             phase[t] # "ended", phase'[t] = "ended"
      PROVE  stage = "indexed"
  <2>1. CalmInv /\ TypeOK /\ phase \in [Tasks -> {"absent", "waiting", "started", "ended"}]
    BY <1>1, Typed DEF AmpleInv, CalmInv, OwnerInv, TypeInv
  <2>2. ASSUME NEW r \in Runners, Runner(r) \/ WorkFails(r) \/ Abort(r)
        PROVE  stage = "indexed"
    <3>1. CASE Claim(r)
      BY <1>1, <2>1, <3>1 DEF Claim, L!Start
    <3>2. CASE Settle(r)
      BY <1>1, <3>2, SettleDoes
    <3>3. CASE ~Claim(r) /\ ~Settle(r)
      BY <1>1, <2>1, <2>2, <3>3, RunStaysWithTask DEF taskVars
    <3>4. QED
      BY <3>1, <3>2, <3>3
  <2>3. CASE \E u \in Tasks : Reclaim(u)
    BY <1>1, <2>3, AmpleReclaim
  <2>4. CASE Crash \/ UNCHANGED vars
    BY <1>1, <2>4 DEF Crash, vars, taskVars
  <2>5. CASE \E c \in Clients : Begin(c) \/ Continue(c)
    BY <1>1, <2>1, <2>5, RequestQueues, LookDoes DEF taskVars
  <2>6. QED
    BY <1>1, <2>2, <2>3, <2>4, <2>5 DEF Next
<1>2. Init => Inv
  BY TypeInitially, AmpleInitially
<1>3. Inv /\ [Next]_vars => Inv'
  BY AmpleInductive, UntilSpent, TypeInductive
<1>4. Inv /\ [Next]_vars
        => [~Happened("miss")' /\ ~Happened("reject")
            => \A t \in Tasks :
                 phase[t] # "ended" /\ phase'[t] = "ended" => stage = "indexed"]_vars
  BY <1>1, UntilSpent
<1>5. QED
  BY <1>2, <1>3, <1>4, PTL DEF Spec, TasksEndIndexed

=============================================================================
