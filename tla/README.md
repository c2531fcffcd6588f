# KYLAB in TLA+

KYLAB is a knowledge base with a chat assistant: a FastAPI server that parses,
cuts, embeds and indexes documents in the background, answers questions over
them with a tool-using agent, and runs scheduled questions; a web console and a
desktop shell sit in front of it. This directory models the parts of the server
where several parties meet in an order nobody controls: the task table used as a
queue, the consumers and their process, the ingestion of a document, the
schedules, the turns of a conversation as their pages see them, the tool loop
with its approvals, and the life of a file from its upload to the trash.

Paths below are relative to `src/backend/app/` unless they start with `docs/`.

## The system

| Component | State | Operations | Talks to | Hard because |
|---|---|---|---|---|
| Task queue (`storage/postgres_impl/meta_store.py`, table `tasks`) | state, attempts, lease owner and expiry, next run | enqueue, claim, heartbeat, finish, reschedule, reclaim, cancel, purge, cascade of a deletion | everything that works in the background | rows change behind the back of the consumer that executes them; leases lapse; owner names are reused |
| Task worker (`workers/queue_worker.py`, `main.py`) | current task, `lease_lost`, stop events, one thread per run | consume, beat, reclaim and schedule loops; start, drain, stop | the table, the handlers of each kind of task | coroutines and a thread that outlives them, shutdown, crash, restart |
| Document ingestion (`services/ingest.py`, `services/documents.py`, `pipeline/state_machine.py`) | stage, content hash, parse result, chunks, vectors | submit, ingest, retry, force, cancel, replace, questions | queue, parsers, embedding, four stores | every run may die between two products; a run works on an old copy of the row; cancel is cooperative |
| Schedules (`services/schedules.py`) | kind, enabled, next run | scan, arm, enqueue; create, update, enable, delete, run now | queue | several processes scan; requests write back whole rows |
| Scheduled runs (`services/schedule_runner.py`) | conversation and last outcome of a schedule | run one turn | conversations, tool loop | retries repeat what was stored |
| Live turns (`services/live_turns.py`, `api/v1/chat.py`, `services/commands.py`) | ring buffer, subscribers, marks of running and stopping, number of the next event | start, emit, store, close, finish; subscribe, replay, follow; stop | turn thread, reconnecting pages, session log | replay and live stream meet; slow subscribers; numbering shared with the log; marks written by three parties |
| Tool loop, plan gate, approvals (`services/tool_loop.py`, `plan_gate.py`, `agent_exec.py`, `command_policy.py`, `approvals.py`) | budgets, batch, gate, rules, pending approvals | step, execute in groups, ask, wait, decide, time out | language models, people, a pool of threads | an answer races its timeout; rules and mode change between question and answer |
| Idempotency keys and upload (`services/idempotency.py`, `api/v1/documents.py`) | key, request hash, response | begin, complete, release, purge | `submit`, object store | a key that is taken and never completed |
| Deletion and trash (`services/lifecycle.py`) | trash rows, their objects, a setting for each | delete, delete a base, restore, drop, purge | four stores | several stores, no common transaction; one original serves several documents |
| Webhooks, data sources, batch import | deliveries, feeds | notify, pull | outside services | retries |
| Authentication, users, keys, shares; knowledge bases, folders, notes, wiki, memory, workspaces; plugins, skills, MCP | rows and files | request by request | - | little: one request at a time |
| Parsers, chunking, splitting, cron, retrieval, embedding, chat | none | functions on text, numbers and moments | outside services | boundary cases, not interleavings |
| Console, desktop, deployment | - | - | the API | outside this project |

What makes each of the modelled ones correct:

- **Queue**: a task is executed by at most one owner at a time as far as the
  table can tell; a finished task stays finished; a write-back of an attempt
  that is over changes nothing; attempts stay within their limit; an owner
  loses a live lease only to a user.
- **Worker**: its loops keep the queue's rules although a task's thread and
  three coroutines share one event loop; a consumer that lost its lease winds up
  its loops, and a shutdown comes to its end; a row in the state "running" has
  somebody who runs it, but for a crash or a write that failed, and after one of
  these the task is taken up again.
- **Ingestion**: "indexed" means that chunks and vectors are there and agree
  with each other and with the content; a parse that was paid for is not
  repeated; a document does not stay in the middle of the pipeline with nobody
  to move it.
- **Schedules**: each slot is run exactly once, by whichever process, and not
  while the schedule is off.
- **Live turns**: what a page is sent before and after it (re)connects adds up
  to what the turn emitted; what a page is not sent again it had before; it is
  told how its turn ended, also if its queue was full; a stop that was accepted
  stops the turn.
- **Tool loop**: a command runs only if rules, policy, mode or the user's last
  acknowledged answer permit it at that moment; an answer that was acknowledged
  is the one that is used; in plan mode nothing is written before a plan was
  given; a batch has the effect of its calls one after another; a turn ends even
  if nobody answers.
- **Uploads and trash**: one key has one answer, and only a fault leaves a key
  taken; a content that was stored can be had again until somebody throws it away;
  whatever the trash lists has its original and names its base.

`PROJECT.json` lists under "hazards" where in the code each of these can go
wrong, with the properties that watch over it.

## Modules

```
TaskLifecycle          what the queue promises about a task (abstract)
   ^ refines
TaskQueue              the table, statement by statement      TaskQueueProofs
   ^ refines
TaskWorker             process, loops, threads over that table TaskWorkerProofs

TaskLifecycle
   ^ INSTANCE, refines
IngestPipeline         the runs and requests of one document  IngestPipelineProofs

Schedules              the row of one schedule                SchedulesProofs
LiveTurns              the turns of a conversation and its    LiveTurnsProofs
                       pages
ToolLoop               the loop of a turn, its commands       ToolLoopProofs
                       and approvals
Library                uploads, keys, deletion, trash         LibraryProofs
```

`MC*.tla` give the constants of the runs, one `.cfg` per run. Operators marked
"Mutant" are variants of a definition with a plausible bug, used to see that
each property can fail; no specification uses them.

### TaskLifecycle

A task is absent, waiting, started or ended, and counts its starts. A start ends
by a return to waiting or by the end of the task; an ended task stays so. The
`Settle(back, over)` action sends sets of tasks both ways at once, because the
statements of the store do.

### TaskQueue

One action per SQL statement on `tasks`; Postgres executes each atomically, and
`FOR UPDATE SKIP LOCKED` makes claims one after the other, oldest first. State:
the columns `state`, `attempts`, `lease_owner` (`owner`), `lease_expires_at` (the
set `expired`), `next_run_at` (the set `deferred`), `created_at` (`born`); the
documents that exist (`docs`); and what each consumer holds in memory: the task
it works at (`task`) and the attempts it read when it claimed it (`seen`), on
which `_retry_or_fail` decides. A consumer is its owner name. `Forget` drops
the copies and keeps the names, as a restart in a container does: the name is
built from the pid (`core/services.py:587`). Time is abstract: a lease may
lapse at any moment, a back-off end at any moment.

### TaskWorker

The consumers of one process over the same table (`Q == INSTANCE TaskQueue`). An
action is what runs between two awaits of one loop: `Consume` (the claim, up to
`to_thread`), `Settle` (what `run_once` does with the outcome), `SettleFails` (the
statement that writes the outcome raises: `_consume_loop` catches that at
`queue_worker.py:219-225` and goes on, and the row stays "running" under a consumer
that has turned to other things), `BeatExtends` and `BeatLoses`, `Reclaim`, and the
return of each loop; `ThreadEnds` is the thread. `lost[w]` is the `_lease_lost` event
of a consumer, `stop` the event the lifespan of the application shares with all of
them, `Shutdown` and `Exit` the two halves of the lifespan's `finally`, `Start` and
`Crash` the process. `_mark_lease_lost` is modelled in both places that call it, with
the difference the code has: called from the beat loop it also sets the shared stop
event. `orphaned` is a history variable: the tasks whose consumer let go of them by a
crash or a failed write. `MaxRestarts` and `MaxFaults` bound these two.

### IngestPipeline

One document, the runners that execute its tasks, and its users' requests. The
queue is taken at the level of TaskLifecycle, which TaskQueue implements; that a
runner may still write its outcome (`Owns`) is TaskQueue's `NameFencesAttempt`.
A runner loads the row once (`Load`), chooses where to resume (`ResumeStage`),
and from then on looks at its own copy `mem`. A stage change is two statements,
`Check` (is the row canceled? does the state machine allow it?) and `Write`.
Products are versions of the content: `parsed`, `chunks`, `tokens` (the column of
the chunks that full-text search reads, emptied whenever the rows are replaced),
`vectors`. `Probe`, `Parse`, `Cut`, `IndexText`, `Embed` are the calls in between;
`WorkFails`, `Fail`, `Abort` what happens when one of them raises - an error that
is retried, or one that ends the task at once (`NON_RETRYABLE`,
`queue_worker.py:490`, `524-532`: the budget "reject"); `Settle` and `Reclaim` give
the task back. Requests go statement by statement: `enqueue_ingest` reads the stage
(`Ingest`), lists the pending and then the running tasks (`LookPending`,
`LookRunning`: `documents.py:649-654`), between which a task that goes back to
pending is missed (the budget "miss"), and then resets the stage and inserts a task
(`PushBack`, `Insert`); `cancel` is `Cancel`, `CancelTasks`, `CancelStage`; `replace`
is `Replace`, `DropVectors`, `DropTokens`, `DropChunks`, `SetContent` (the hash in
the row), `SetOriginal` (the setting that leads to the new file) and `Restart`.
`content` is the version the hash names, `original` the one a run would read.

### Schedules

One schedule, the scan of each process (`Scan`, `Arm`, `Enqueue` - one call on
that process's event loop, interleaved with other processes and with requests,
which FastAPI serves in threads), and requests, which read the row and later
write all of it back (`Begin`, `Write`). A cron expression is "every slot".
Tasks are counted per slot in `queued`.

### LiveTurns

`turn[t]` is the `LiveTurn` of a turn together with the generator that feeds it. Each
event has a position in the stream (`ix`); those that go to the session log also have
the number they are going to have there (`seq`), counted on from `base`, the number
the log had when the turn was registered - or 0, if it could not be read (the mishap
"unread"). A turn is of one of three kinds: it answers a question ("ask"), does so
with the agent off ("plain"), or resumes an answer that was cut short ("resume").
`Start`, `Register` are the two halves of `_start_live_turn`, `Begin` the head of
`_events`; `Compress` is the event about a compressed history, and `Notice` the event
of a turn that heeds no stop: both are sent without a look at the mark; `Emit`,
`Check`, `Answer`, `Fail` are the loop; `Store` the one transaction in which the log
and the answer are written, or the failure that is only logged; `Close`, `EndMarks`,
`Finish` the end; `Raise` and `Catch` an exception outside every handler. A connection
is `attached`, `replay`, `check`, `live` in the order of `_live_stream`: subscribe,
take a snapshot of the ring, look whether the turn finished, follow the queue. `Offer`
is the queue that drops what it has no room for, except the event that ends the turn.
`active` and `stopped` are the marks of `TurnControl`, which requests and turns write
without knowing whose they are. Mishaps - a dropped connection, a reload, the hub
forgetting a turn, a stop, a change of mode, a failing read or write, an exception -
happen at most once each, and at most `MaxMishaps` of them.

### ToolLoop

`loop[c]` is the turn that runs in a thread: its mode (read once), the key of the plan
gate it goes by, its step, the batch of calls with what came out of each (`out`) and
how each question was settled (`answers`). `ExecuteFirst` runs the calls in the groups
of `parallel_groups`, in any order within a group, as the pool does; `Resolve`, `Ask`,
`Wait`, `Wake` are `_resolve_approvals`, which asks one question after the other;
`ExecuteSecond` repeats the commands with their answers; `Record` hands the results
back. `Outcome` is the decision on one call, in the order of the code: mode, budget,
rules, policy (including "sandbox", which refuses the command), answer; any call may
fail instead, before or after it asks (`OutcomesOf`). A turn of a conversation goes by
that conversation's gate, a scheduled run, which names no conversation
(`schedule_runner.py:135-153`), by `gate_for(None)`, which all such runs share
(`NoSession`). Turns with the agent off touch neither gate nor tools and are not a
step here. `Stop` is the look at the stop mark after an event was fed to the page, the
question of an approval included: the turn is closed, the question stays in the
registry and can be answered. `item` and `table` are the registry of approvals, in
which opening one prunes what expired; `Decide` is the request of the user, `Expire`
the clock: approvals have one timeout, so they expire in the order they were opened,
which `before` keeps (the ids that were live when an approval was opened). `hist` and
`acked` are history variables.

### Library

Rows, settings and objects are in three stores without a common transaction, so every
call is a step: `Receive` to `Release` are an upload under a key, from `begin` to
`complete` or `release`; `DeleteDocument` to `DeleteRow` a deletion; `DeleteBase`,
`PurgeContent`, `DropBase` that of a knowledge base; `Restore`, `DropEntry` and their
common end; `PurgeTrash`, `PurgeObject` the maintenance. Uploads over HTTP are
coroutines that never await between their steps, so they do not overlap each other in
one process; deletions and restores are served in threads. The constant `Imports` adds
threads that submit without a key. An original is named by the hash of its content,
one object for all bases. Entries of the trash have places that are used again once
nothing refers to them. Any step may raise: `Fail` is an upload whose step did, upon
which the key is released - if that works (`Release`; a failing release is swallowed)
- and `Abandon` a deletion or restore that is left where it is, as a crash leaves it.
History variables say which content was ever stored, which was thrown away on request,
which entries or contents an operation was cut off at (`torn`), and which keys lost
their answer or their release to a fault (`stuck`): the exceptions the properties
name. An entry is `Restorable` while the base it names exists; `Stranded` once that
base was deleted, from when its document can never be created again.

## Runs

| Run | Specification and bounds | Checks | Shows |
|---|---|---|---|
| `queue_safety` | 3 tasks (two of one document), 2 consumers, limits 2, 1, 2 | `TypeOK` `LeaseMatchesState` `NameFencesAttempt` `AttemptsBudget` `LiveLeaseIsRespected` `ImplementsLifecycle` | the statements keep the queue's rules under every interleaving |
| `worker_safety` | `FairSpec`, 1 task, 2 consumers, 2 crashes or shutdowns, 1 failed write | `TypeOK` `RunningHasRunner` `ShutdownCompletes` `LostConsumersReturn` | no row is left "running" without a runner but by a mishap; a consumer that lost its lease winds up, and a shutdown ends |
| `worker_liveness` | `CalmSpec`, 2 tasks, 3 crashes or shutdowns, 1 failed write | `QueuedTaskEnds` | the reclaim loop takes abandoned tasks up again |
| `worker_cancel` | `ServingSpec`, 2 tasks, no crash, shutdown or failed write | `QueueIsServed`, violated | see Findings |
| `ingest_overlap` | 2 tasks, 2 runners, 2 requests at a time, limit 2, one each of lapsed lease, error, cancel, missed task | `TypeOK` `IndexedIsSearchable` `OneOwner` | an indexed document has the chunks and vectors of its content however runs overlapped; until a task was missed one run at most owns one |
| `ingest_orderly` | `FairSpec`, 2 runners, 1 request at a time, 2 contents, limit 5, one each of crash, error, error not retried, edit | `IndexedWhole` `RunsFollowStateMachine` `NoParsePaidTwice` `QueuedIsIndexed` | without overlapping runs and while attempts are left over, interruptions are made up for, and a document becomes indexed only whole |
| `ingest_edit` | 1 runner, one error, one edit | `IndexedMatchesContent`, violated | see Findings |
| `schedule_cron` | `FairSpec`, 2 processes, 2 requests at a time, 4 slots, 2 edits, 1 fault | `TypeOK` `EachSlotFiresOnce` `OnlyEnabledIsArmed` `DueIsRun` | a slot is run once and in the end, and not when off |
| `live_turns` | 2 turns of 2 and 1 events, 1 page, a ring of 2, a queue of 1, 1 mishap | `TypeOK` `RingIsDelivered` `AnchorSkipsOnlySeen` `ToldHowItEnded` `StopIsHeeded` `NobodyWaitsForever` | replay and live stream fit together, anchors are sound, stops and ends arrive |
| `tool_loop` | fair `Spec`, 1 thread, 1 conversation and the gate of runs without one, 2 turns of 2 steps, batches of 2, 1 command, 1 edit or restart | `TypeOK` `EveryCallHasResult` `ExclusiveCallsAreBarriers` `CommandsRunPermitted` `AcknowledgedIsUsed` `WritesFollowPlan` `TurnsEnd` | no order of answers, timeouts and edits has a command run that is not permitted, or a turn that does not end |
| `library` | 2 bases, 1 content, 1 key, 2 threads, 2 documents, 1 place in the trash, 1 fault | `TypeOK` `AnswersAgree` `KeysAreReleased` `ContentReachable` `ListedIsComplete` | keys and originals survive interleavings and a fault at any step, but for the exceptions the properties name |
| `library_shared` | the same with 1 thread, no key and no fault | `OriginalAtHand`, violated | see Findings |

Why these bounds are enough for the cases to happen:

- Two tasks of one document and one without exercise every set-valued statement
  (cancel and delete by document, purge, reclaim) on more than one row; a limit
  of two has a retry, a limit of one none. Two consumers are the smallest number
  for an overlap; a third would add names, not kinds of conflict.
- One crash gives a restart under the old name with a row still running; the
  second restart of `worker_safety` is a shutdown before or after it, and the
  liveness run has three, so that limits are used up by crashes.
- In the pipeline every kind of disturbance has a budget (`Budget`), so that a run
  says which combination it covers. A lapsed lease, a cancel and a missed task are
  what lets two runs of a document overlap, which is why they are in `ingest_overlap`
  and not in `ingest_orderly`. The limit is 5 in the latter because a crash in
  `parsing` costs two attempts - the next one tries `probing`, which the state machine
  refuses - so that one crash and one error take up to four; the code's default of
  three is not enough for them, and then the document ends as failed - and may be
  indexed without tokens later (Known deviations). The theorems have the same bound as
  a hypothesis, `AmpleAttempts`: more attempts than twice the crashes and errors.
- Edits bound the requests on a schedule, `LastSlot` the clock; two edits are
  enough for one to disable what another one enables.
- A queue of one is full after one event, a ring of two loses events in a turn of
  two and an ending; a second turn is needed for numbers of two turns to be
  mistaken for each other, and for the marks of one to meet the other. Two
  mishaps at once add a connection that drops in another turn's trouble, at ten
  times the states.
- A batch of two is the smallest with a second question, with a rule that one
  command adds and the next one reads, and with a barrier; two turns the smallest
  with a plan and its execution. What other conversations do to the shared
  registry is `OpenElsewhere`. Its safety is proved without these bounds.
- Two bases with one content share one original; two threads overlap two
  operations of any kind, an upload comes third; one place in the trash is used
  again by the next deletion. The theorems of `LibraryProofs` have no bounds.

Runs that disable the deadlock check (`CHECK_DEADLOCK FALSE`) are those in which
everything may be finished: all tasks ended, all budgets spent, the last slot
reached, the last turn over.

Fairness. `worker_safety`: the loops of a process that is up are polled, its threads
end, and the lifespan goes on once every `run_forever` has returned; users, clocks,
crashes and failing writes may do as they like. `worker_liveness`: the coroutines of
an event loop that is not blocked get their turn, a thread ends, an orphaned lease
lapses, a back-off ends, and a process that went down is started again (the
container's restart policy). `CalmSpec` keeps users and late heartbeats out, since
with them the property fails (next section). `ingest_orderly`: a consumer polls, a run
goes on, an orphaned task is reclaimed, a request that was begun is served to its end;
no request has to be made and nothing has to fail. `schedule_cron`: each loop repeats
its scan every interval (`_schedule_loop` swallows every exception) and a request that
read a row writes it; the clock may stand still. `tool_loop`: the thread of a turn
goes on while it is not blocked, and time passes, so that a pending approval expires;
nobody has to answer, stop or edit anything.

## Findings

Three places where the code does not do what its own comments say; each has a
run whose counterexample shows it.

1. **A cancel ends all consumers** (`worker_cancel`). Canceling a running document
   clears the lease of its task; the next heartbeat finds no row, and
   `_mark_lease_lost(task_id, stopping)` (`queue_worker.py:403-404`) sets, besides
   the consumer's own event, `stopping` (`158-159`) - the one event that the lifespan
   gives to every consumer (`main.py:42`, `51`). One cancel is enough: all loops
   return, and nothing is taken out of the queue until the process is restarted,
   while `queue_worker.py:477-478` calls the case the normal path and `main.py:46`
   says that consumers do not block each other.
2. **Old content after an edit** (`ingest_edit`). `replace` clears chunks and
   vectors but not the parse result. If the next run fails before it has stored
   its own, the retry resumes behind the parse, with the old one, and the
   document is indexed with the content the user replaced.
3. **A shared original goes with the first deletion** (`library_shared`). The
   same file in two bases is one object. Deleting the document in one base moves
   that object to the trash - or deletes it, with the whole base - and the other
   document keeps a row whose original is gone, while `lifecycle.py:150-152`
   counts on it to rebuild from.

### Known deviations

Met while modelling; the models have them, and where they touch a property the
property names the exception.

- **Ingestion.** `_chunk` writes rows and then tokens; a run that ends in between
  followed by a cancel leaves chunks without tokens (`ingest.py:352`, `607-608`).
  `_advance` checks for a cancel and writes the stage in two statements, so a cancel
  in between is lost (`760`). Rows are also left without tokens when `replace` dies
  between clearing the one and the other (`255`) of a document that failed, or whose
  attempts ran out, behind the cut: the next run resumes behind the cut again and
  indexes them as they are. One request alone can queue a document that has a task: it
  lists the pending tasks, then the running ones (`documents.py:571`, `649-654`), and
  misses a task that goes back to pending in between; two requests can both find none
  and both insert. Two tasks mean two runs at once. An error that is not retried ends
  the task with the document where it was. A task whose last attempt died is ended by
  `reclaim_expired_tasks` while its document stays where it was in the pipeline.
- **Worker.** An outcome that cannot be written is caught and forgotten: the row says
  "running" under an owner that does something else until its lease lapses
  (`queue_worker.py:219-225`). The branch of memory tasks does not return and falls
  through to the refusal of unknown kinds (`queue_worker.py:433`).
- **Schedules.** For `kind = once` the compare-and-set writes the value it
  compared with and does not look at `enabled`, so a second process that read the
  row in time runs it again (`schedules.py:232`).
- **Live turns.** An event published between subscription and replay is delivered
  twice; one queued between replay and the look at `finished` is dropped if the
  turn has finished by then. A page that comes back with the anchor of a thought
  loses the rest of that thought, which has no number of its own. The end of an
  older turn takes the marks off a newer one, and `begin` in `_events` forgets a
  stop accepted since `_start_live_turn`. If turns overlap, or one was not stored,
  numbers are used twice and an anchor may skip what was never seen
  (`Orderly` excludes it). `/mode` during a turn shifts the numbers of its log
  against those it published. An exception before the handlers of `_events` leaves
  the mark "running" on. Resuming a turn deletes its old answer before there is a
  new one. If the last number of the log cannot be read, the turn is numbered from
  0 (`chat.py:1554-1563`), below the anchor of a page that comes back: it skips
  events it was never sent and may wait for an end it takes for an old one, contrary
  to the docstring there; the properties except that mishap. `/stop` is accepted for
  turns that never look for it, those with the agent off (`chat.py:1254-1303`,
  `2271-2274`) and resumed ones, and the event about a compressed history is sent
  before any look (`1174-1185`).
- **Tool loop.** `run_command` looks at the rules before it looks at a denial: a
  command the user denied, or whose question timed out, runs if a rule that allows
  it appeared in the meantime (`agent_exec.py:189-201`). All approvals of a batch
  run out from the moment they are opened, the second one while the first is being
  asked. An approval that expired and was pruned counts as timed out although it
  was answered. `append_allow_rule` reads and writes the list without a lock. Going
  from plan mode to build and back without a turn in between keeps an old plan, and
  turns with the agent off never tell the gate their mode (`chat.py:1254`). Scheduled
  runs share one gate, so that the plan given in one conversation opens the writes of
  a run in another (`schedule_runner.py:135-153`; `plan_gate.py:49-50` names it).
  The question of a turn that was stopped can still be answered, and the answer is
  acknowledged though nothing will use it (`chat.py:1217-1224`, against `355-356` and
  `approvals.py:199-200`). `chat_stream` does not keep turns of one conversation from
  overlapping; the run has one thread, the theorem about the gate any number.
- **Library.** Restoring never enqueues the document, contrary to its comments
  (`lifecycle.py:280-287`). A failure to enqueue leaves the row, so that the retry
  is answered "duplicate" and nothing ingests it; so is a re-upload whose original
  has gone. A crash between moving an original and listing it in the trash loses
  it (`torn`); one between `begin` and `complete` has retries refused for a day
  (`stuck`), and so does a release that fails, likely in the outage that failed the
  upload (`idempotency.py:135-138`); a crash during a purge leaves objects nobody
  lists, as does a file whose deletion fails, which `_delete_trash_objects` swallows
  (not modelled). An entry of a base that was deleted stays in the list and can never
  be restored, contrary to `lifecycle.py:195-196`: the attempt fails after the
  original was written.

## Proofs

`TaskQueueProofs`, from `ConstantsAssumption` alone (any sets of tasks, owners
and documents, any positive limits):

- `QueueInvariant`: `Spec => []IInv`, where `IInv` is the conjunction of the four
  state properties of the run and `NothingUsedBefore`. They are inductive only
  together: that a write-back conditioned on the owner changes the right attempt
  rests on an owner appearing only on running rows (`LeaseMatchesState`) and on a
  name identifying an attempt (`NameFencesAttempt`); that the retry decision
  taken on a copy keeps to the limit (`AttemptsBudget`) rests on the copy being
  current whenever the write-back goes through, `NameFencesAttempt` again.
- `TypeCorrect`, `LeaseAlwaysMatchesState`, `NameAlwaysFencesAttempt`,
  `AttemptsStayInBudget` follow. `FinishedTaskStays` (a finished task stays as it
  is, which no run repeats) and `LiveLeaseStays` are action properties proved from
  the invariant, one step per action.
- `QueueImplementsLifecycle`: every step of the table is a step of TaskLifecycle
  or changes nothing of it.

`SchedulesProofs`, from `ScheduleAssumption` (any number of processes, requests,
slots and faults); all but the types for cron schedules, `Kinds = {"cron"}`:

- `ScheduleInvariant`: what a scan holds lies strictly before where it will move
  the schedule (`ScansGoForward`), everything armed or queued lies strictly before
  `next_run_at`, and no two scans hold the same slot (`FiredBeforeNext`). The
  compare-and-set gives the step: the slot it arms is the current `next_run_at`,
  which nothing armed earlier can be. `EditsAreCounted` says that a write of a
  request shows in the budget, which is what "nobody edits it" refers to.
- `CronSlotFiresOnce` follows. For one-offs the theorem would be false: the move of
  the compare-and-set is not forward there.
- `CronOnlyEnabledIsArmed`: what keeps a schedule that was switched off from being
  armed by a scan that read it before is not a look at the switch - there is none -
  but that a row that is off has no `next_run_at`, in the table and in what any
  request is about to write back (`PlannedInv`), so that the comparison fails. For
  one-offs it is false too (Known deviations): arming leaves `next_run_at` as it
  is and takes the switch off.
- `ScheduleTypeCorrect`, for schedules of any kind, including that no moment beyond
  the slot after the last one is ever planned.

`LibraryProofs`, from `LibraryAssumption` alone (any bases, contents, keys,
imports, threads and bounds). The inductive invariant of `LibraryInvariant` has
layers, each proved with the ones before it:

- `Typed`: the shape of stores and operations. Beyond types it holds that an
  upload past its row names a document of what it was asked for, that an
  operation is at steps its kind has, and that a base has a content once.
- `KeysMatch`: an answer hung on a key is a document of the request the key was
  taken for (`AnswersFit`), a running request holds its key exclusively
  (`RequestsFit`), and only requests under a key are told something
  (`OnlyKeysAreTold`), besides `AnswersAgree` and `KeysAreReleased`, which are not
  inductive alone: that `complete` writes the one answer needs that the key still
  is the one the request took.
- `PlacesMatch`: an entry that is being made is not listed and nobody else's
  (`FreshIsKept`), an operation on an entry knows what it holds (`EntryIsKnown`),
  and a listed entry that nobody handles is whole (`ListedIsKept`).
- `Reachable`: a content that was stored and not thrown away is in its place or
  in an entry that stays (`Safe`): it can be restored, or is about to be, and no
  operation is past the point from which it does without the entry's object
  (`Spends`). `ContentReachable` alone is not inductive: the entry it names may be
  one that a restore is about to clear. That restore wrote the original back
  first, and if another deletion has moved it again since, there is an entry of
  that deletion's own.

`LibraryTypeCorrect`, `AnswersAlwaysAgree`, `KeysAlwaysReleased`,
`ContentStaysReachable`, `ListedStaysComplete` follow. Every step may fail here, the
release of a key included: a key without an answer and without a request is one whose
upload crashed or whose save or release failed. `ContentStaysReachable` tells an entry
that can be restored from one whose base was deleted, and says no more of the latter
than that the original is kept.

`TaskWorkerProofs`, from `WorkerAssumption` (the constants of the table, and any
number of crashes):

- `WorkerImplementsLifecycle`: what the abstract queue promises about a task holds of
  the loops. Each step of a loop, a thread, a user or the process is a step of the
  table or leaves it alone (a lemma, by the way the module is composed); what is proved
  about the table, through an instance of `TaskQueueProofs`, then holds here
  (`QP!IInv`), and so does what the table implements.
- `WorkerInvariant` adds that a thread works on the task its consumer holds
  (`ThreadIsTask`), that its consume loop waits for it (`ThreadIsAwaited`), and that
  a process that is down has neither (`DownIsQuiet`). `RunningAlwaysHasRunner` needs
  all three: a row stays "running" with its consumer gone only if the process ended
  before the thread was awaited, which takes a crash, or if the outcome could not be
  written; `orphaned` names these tasks until they are claimed again.
- `WorkerTypeCorrect` and `ThreadsAreDrained` follow.

`IngestPipelineProofs`:

- `PipelineTypeCorrect`: the types, with the claim that a request that is at an
  edit names its content (`EditsAreNamed`).
- `PipelineKeepsLifecycle`: the pipeline treats its tasks as TaskLifecycle allows.
- `OneOwnerAtMost`, for any number of requests at a time, until one misses a task. The
  invariant: a run's attempt never exceeds the starts of its task and a start has one
  run (`OneRunPerStart`), and at most one task of the document is active
  (`OneActive`). The second is what a missed task ends - by the two looks of one
  request, or by two requests that both look before either inserts.
- `IndexedDocumentsAreSearchable`, without edits (`Budget["edit"] = 0`), for any
  number of runs, overlapping or not: what a run may still do depends on where it
  is and on what its copy of the row says it found (`Prudent`), and the stage of the
  row says which products are there (`Products`). With edits it is false: the run
  `ingest_edit` is about that.
- `RunsKeepToStateMachine`, `IndexedDocumentsAreWhole`, `NoContentIsParsedTwice`: the
  three action properties of `ingest_orderly`, for any number of tasks, attempts,
  runners, failures, rejections and deaths. Their hypotheses say what "orderly" means:
  one request at a time, no lapsed lease, no cancel; and they speak of behaviours
  until a task is missed. Then nobody takes a task from a run (`CalmInv`): whoever
  works owns its task, so it works alone and no request is in progress, and what it
  believes the stage to be is the stage. With two requests, a lapsed lease or a cancel
  each of the properties is false; TLC shows it.
- `IndexedDocumentsAreWhole` also supposes that edits and deaths do not both occur.
  Its invariant `WholeInv`: a run that asks for a stage has made what the stage
  stands for (`Careful`), and only a document in "chunking", or in the middle of an
  edit, has rows without tokens (`WholeRows`). An edit cut off by a death breaks the
  latter for good, and then the property holds only while attempts are left to
  start over with: met when the invariant turned out not to be inductive, and
  confirmed by TLC with a limit of 1.
- `SparedAttemptsIndexWhole` and `TasksEndWhenIndexed`: what holds for edits and
  deaths together when every task has more attempts than twice the errors and deaths
  there are (`AmpleAttempts`; the run's limit of 5 for one of each). A task then ends
  only with its document indexed, which is the safety half of `QueuedIsIndexed`, and
  documents become indexed only whole. `AmpleInv` counts: a task has been started at
  most once more than errors and deaths have paid for, each of them paying for two
  starts - its own, and that of the next run if the stage is "parsing", from where
  the state machine refuses the resume (`AttemptsLast`; `Doomed` is a run that is
  about to be refused). It rests on the order of the stages a run asks for
  (`Orderly`), which excludes every other refusal, and on where a document is while
  no task is active: never queued, at the cut, or indexed (`AtRest`). So an edit, which
  waits for that, cannot be cut off behind the cut. With one attempt less (4 for one
  death and one error) TLC violates `TasksEndIndexed`: the bound of two is exact. An
  error that is not retried ends a task whatever is left of its attempts:
  `TasksEndWhenIndexed` holds until then, and `SparedAttemptsIndexWhole` unless it
  comes together with a death.
- `NoContentIsParsedTwice` supposes at most one edit: two that take a content away
  and bring it back have it parsed again, since `parse_results` keeps one result per
  document. `ThriftInv`: while a run is before its parse, the stored result is of
  another content than the one it read (`Thrifty`), and a document that starts, or
  starts over, has a content that was never parsed (`Unparsed`).

`LiveTurnsProofs`, from `LiveTurnsAssumption` alone (any turns, pages, events,
capacities and mishaps), all the properties of the run. `LiveTurnsInvariant` is the
conjunction of layers, each of which uses the ones before it:

- `TypeInv`, with the bounds of rings and queues: `LiveTurnsTypes`.
- `StreamInv`: the events of a turn are in order wherever they are kept, nothing is
  beyond what the turn emitted, the end marker is last, and where a turn and a page
  stand says which of their fields are set. `LiveTurnsToldHowItEnded` follows.
- `DeliveredInv`: what the ring holds past the cut of a connection was sent or
  waits in its queue. `LiveTurnsRingIsDelivered` follows.
- `AloneInv`, `NumbersInv`, `SeenInv`, for turns that wait for each other, whose base
  was read and which are stored (`Orderly`): every number in circulation, in a ring, a
  queue or an anchor, is one the log has or the running turn has given out, and a page
  has seen, or is about to be sent, every numbered event its anchor covers.
  `LiveTurnsAnchorSkipsOnlySeen` is not inductive without the claim about numbers: a
  new turn that counted from a smaller base would put events under old anchors.
- `StopInv`: between the accepted stop and the check of the loop of an agent's turn
  that answers a question lies at most one event, besides the one about a compressed
  history, and the mark stays until the turn has seen it. `LiveTurnsStopIsHeeded`.
- `WaitInv`: a page that follows a turn which has ended has the terminal event in
  its queue, past the cut and past its anchor, or the end marker.
  `LiveTurnsNobodyWaitsForever` needs both ways out: the marker is dropped by a full
  queue, but a queue that is full then holds the terminal event.

`ToolLoopProofs`, from `LoopAssumption` alone (any threads, conversations, commands,
turns, steps, batches and edits), all the safety properties of the run:

- `LoopTypeCorrect` and `EveryCallGetsResult` from `TypeInv`: where a turn stands
  says what is known of its batch (`BatchFits`), for instance that behind the second
  pass no outcome is the placeholder and that during the first nothing is answered.
- `PlanBeforeWrites` from `PlanInv`, for threads that share gates in any way: a gate
  is open only if the history has a turn in plan mode by that gate that ended in
  words, with no turn by the same gate in another mode since.
- `CommandsAreApproved` and `AcknowledgedAnswerIsUsed` from `AckInv`: what is
  registered under an id is what was acknowledged; it stays in the registry only
  while its question is open; a call whose question was settled by a decision has
  the one that was acknowledged; one that left the registry unsettled has expired,
  or its turn was stopped - the answers that are acknowledged and never used.
  The parts hold each other up: that the second pass never registers a call again
  needs that every answer is there, that an answer is not acknowledged twice needs
  that a settled call is out of the registry.
- `ExclusiveCallsRunAlone` needs what `parallel_groups` computes: every call is in
  one group, groups keep the order of the batch, and only calls that may run
  beside each other share one (`GroupsFit`). `ParallelGroups` is defined by
  recursion over the batch; instead of an induction theorem, which the provers
  cannot instantiate, the proof takes the least number of calls for which the claim
  would fail (`LeastOf`, from the well-foundedness of <) and contradicts it.

So every safety property of a run that passes is a theorem, and what is said above of
their hypotheses is the difference; the constants of each run satisfy those of a
theorem about each of its properties.

Only model-checked: all liveness (`ShutdownCompletes`, `LostConsumersReturn`,
`QueuedTaskEnds`, `QueuedIsIndexed`, `DueIsRun`,
`TurnsEnd`), which under fairness is out of the prover's reach. `TasksEndIndexed`, the
part of `QueuedIsIndexed` that needs no fairness, is proved.

## What is left out, and why

- In the modelled components: the kinds of task (a run is its outcome); the
  questions task, which writes chunks and vectors of an indexed document; the
  parts of a split PDF and the tabular copy of a sheet; the choice and locking of
  the embedding model; deletion of the document
  while it is ingested (TaskQueue has the cascade on its tasks); owners and
  validation of schedules; the mapping of cron expressions to moments.
- Maintenance and summaries run on the event loop and can hold up heartbeats; a
  lapsed lease stands for the effect.
- Of turns: what is said in them, compaction of the history, branches and titles;
  the frames a page is sent for each event; sub-agents, and what each tool does
  beyond reading, writing or running a command; mode "edit", which decides like
  "build" for the calls of the model; the isolation in which a command runs; how
  the text of a rule matches a command.
- Of the library: index and vectors, which a deletion clears first and which can
  be rebuilt; the replacement of an original by an edit (`replace`, whose part in
  the pipeline is in IngestPipeline); quotas and the size of the trash. Uploads in
  several processes at once are not in the run; imports beside them were checked
  once with one import thread in the place of a second deletion.
- Components not modelled are listed in `PROJECT.json` with the reason: parsers,
  models and retrieval are functions of text and numbers or calls to outside
  services; authentication, folders and the like have no interplay to speak of;
  the console and the desktop shell are user interfaces.

## Plan

The modules so far take up the twelve runs the project allows itself; a later
module shares a run with a component it composes with, or takes the place of one
that only shows a finding described above.

1. `TaskQueue` with `TaskLifecycle`, proofs (done).
2. `TaskWorker`, proofs (done).
3. `IngestPipeline`, proofs (done); to come: the questions task, deletion.
4. `Schedules`, proofs (done); to come: `ScheduledRuns`, the conversation and the
   outcome of a run under retries and overlapping runs.
5. `LiveTurns`, proofs (done).
6. `ToolLoop` with approvals, proofs (done).
7. `Library`: keys, uploads, deletion and trash, proofs (done); to come: `replace`.
8. Webhooks (deliveries and their retries) and data sources.
9. Algorithms against a reference definition over bounded inputs: the next moment
   of a cron expression, the parts of a split document, rank fusion.
