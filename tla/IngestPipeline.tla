--------------------------- MODULE IngestPipeline ---------------------------
(***************************************************************************)
(* One document on its way through the ingest pipeline (services/ingest.py, *)
(* pipeline/state_machine.py), and the requests of its users that touch the *)
(* same rows (services/documents.py, IngestService.replace).               *)
(*                                                                         *)
(* A runner is a consumer thread that executes a task of the document; the *)
(* task table is taken at the level TaskQueue implements, TaskLifecycle: a *)
(* runner owns its task while the task is in the very start it read        *)
(* (TaskQueue!NameFencesAttempt).  A runner works on a private copy of the *)
(* document read at load time; every stage change first looks for a cancel *)
(* in the table and then writes, two statements.  Contents are versions:   *)
(* parsed, chunks, tokens and vectors hold the version they derive from.   *)
(***************************************************************************)
EXTENDS Naturals, FiniteSets

CONSTANTS
    Tasks,        \* ingest tasks of the document
    MaxAttempts,  \* MaxAttempts[t]
    Runners,      \* consumer threads
    Clients,      \* API requests served at the same time
    Versions,     \* contents the document may have
    NoVersion, NoTask,
    Budget        \* Budget[k]: how often k happens, for k in Events

\* A "miss" is a request that queues the document although it is queued, or about
\* to be, where the request's two looks for a task could not see it.
Events == {"crash", "lapse", "error", "reject", "miss", "cancel", "edit"}

ASSUME PipelineAssumption ==
    /\ NoVersion \notin Versions
    /\ NoTask \notin Tasks
    /\ MaxAttempts \in [Tasks -> Nat \ {0}]
    /\ Budget \in [Events -> Nat]

VARIABLES
    phase, starts,  \* the task table, see TaskLifecycle
    stage,    \* documents.stage
    content,  \* version of the original that documents.content_hash names
    original, \* version of the original that the path in the settings leads to
    parsed,   \* version of the parse result, NoVersion if there is none
    chunks,   \* version of the rows of chunks
    tokens,   \* version of their full-text tokens, a column of those rows
    vectors,  \* version of the embeddings
    run,      \* run[r]: what r is executing
    client,   \* client[c]: the request c is serving
    left      \* left[k]: how often k may still happen

taskVars == <<phase, starts>>
docVars  == <<stage, content, original, parsed, chunks, tokens, vectors>>
vars     == <<taskVars, docVars, run, client, left>>

L == INSTANCE TaskLifecycle

-----------------------------------------------------------------------------
(* Stages *)

Rank == [uploaded |-> 0, probing |-> 1, parsing |-> 2, parsed |-> 3,
         chunking |-> 4, chunked |-> 5, embedding |-> 6, indexed |-> 7]

Before(from, target) == Rank[from] < Rank[target]

Retryable == {"probing", "parsing", "chunking", "embedding"}

Allowed ==
    [uploaded  |-> {"probing", "failed", "canceled"},
     probing   |-> {"parsing", "failed", "canceled"},
     parsing   |-> {"parsed", "failed", "canceled"},
     parsed    |-> {"chunking", "failed", "canceled"},
     chunking  |-> {"chunked", "failed", "canceled"},
     chunked   |-> {"embedding", "failed", "canceled"},
     embedding |-> {"indexed", "failed", "canceled"},
     indexed   |-> {"chunking", "failed"},
     failed    |-> Retryable,
     canceled  |-> Retryable]

Stages == DOMAIN Allowed

CanTransition(current, target) == current = target \/ target \in Allowed[current]

\* Mutants: a parse result counts as chunks, or not at all.
ResumeBehindParse ==
    IF stage \notin {"failed", "canceled"} THEN stage
    ELSE IF parsed # NoVersion THEN "chunked"
    ELSE "uploaded"

ResumeBeforeParse ==
    IF stage \notin {"failed", "canceled"} THEN stage
    ELSE IF chunks # NoVersion THEN "chunked"
    ELSE "uploaded"

\* What an interrupted document is resumed from: after a failure or a cancel
\* the artifacts decide, otherwise the stage itself.
ResumeStage ==
    IF stage \notin {"failed", "canceled"} THEN stage
    ELSE IF chunks # NoVersion THEN "chunked"
    ELSE IF parsed # NoVersion THEN "parsed"
    ELSE "uploaded"

-----------------------------------------------------------------------------
(* Runs *)

Idle == [task |-> NoTask, attempt |-> 0, pc |-> "idle", mem |-> "uploaded",
         target |-> "uploaded", file |-> NoVersion, text |-> NoVersion]

NoRequest == [pc |-> "idle", next |-> "insert", version |-> NoVersion]

Init ==
    /\ L!Init
    /\ stage = "uploaded"
    /\ content \in Versions /\ original = content
    /\ parsed = NoVersion /\ chunks = NoVersion /\ tokens = NoVersion /\ vectors = NoVersion
    /\ run = [r \in Runners |-> Idle]
    /\ client = [c \in Clients |-> NoRequest]
    /\ left = Budget

Spend(k) == left[k] > 0 /\ left' = [left EXCEPT ![k] = @ - 1]

Active == {t \in Tasks : phase[t] \in {"waiting", "started"}}

Owns(r, t) == run[r].task = t /\ phase[t] = "started" /\ starts[t] = run[r].attempt

At(r, pc, mem) == run[r].pc = pc /\ run[r].mem = mem

Goto(r, pc) == run' = [run EXCEPT ![r].pc = pc]

\* The next thing the run asks for is the stage `target`.
Advance(r, target, file, text) ==
    run' = [run EXCEPT ![r] = [@ EXCEPT !.pc = "check", !.target = target,
                                        !.file = file, !.text = text]]

Claim(r) ==
    /\ run[r].pc = "idle"
    /\ \E t \in Tasks :
         /\ L!Start(t)
         /\ run' = [run EXCEPT ![r] = [Idle EXCEPT !.task = t, !.pc = "load",
                                                   !.attempt = starts[t] + 1]]
    /\ UNCHANGED <<docVars, client, left>>

\* The document, its artifacts and the decision where to go on from, read in
\* quick succession.  Resuming behind the parse needs its result.
Load(r) ==
    LET from == ResumeStage IN
    /\ run[r].pc = "load"
    /\ run' = [run EXCEPT ![r] =
         [@ EXCEPT !.mem = stage,
                   !.pc = IF ~Before(from, "parsed") /\ parsed = NoVersion THEN "fail"
                          ELSE IF from = "indexed" THEN "ok" ELSE "check",
                   !.target = CASE Before(from, "parsed")  -> "probing"
                                [] Before(from, "chunked") /\ ~Before(from, "parsed") -> "chunking"
                                [] OTHER -> "embedding",
                   !.text = IF Before(from, "chunked") THEN NoVersion ELSE chunks]]
    /\ UNCHANGED <<taskVars, docVars, client, left>>

\* Mutant: the transition is not checked.
CheckCancelOnly(r) ==
    /\ run[r].pc = "check"
    /\ Goto(r, IF run[r].mem # "canceled" /\ stage = "canceled" THEN "canceled" ELSE "write")
    /\ UNCHANGED <<taskVars, docVars, client, left>>

\* _advance, first half: a cancel made since the run began ends it, and a stage
\* the state machine does not allow from here fails it.
Check(r) ==
    /\ run[r].pc = "check"
    /\ Goto(r, IF run[r].mem # "canceled" /\ stage = "canceled" THEN "canceled"
               ELSE IF CanTransition(run[r].mem, run[r].target) THEN "write"
               ELSE "fail")
    /\ UNCHANGED <<taskVars, docVars, client, left>>

\* _advance, second half.  What comes next depends on the stage reached:
\* another stage, or the work of this one.
Write(r) ==
    LET s == run[r].target IN
    /\ run[r].pc = "write"
    /\ stage' = s
    /\ run' = [run EXCEPT ![r] =
         [@ EXCEPT !.mem = s,
                   !.pc = CASE s = "indexed" -> "ok"
                            [] s \in {"parsed", "chunked"} -> "check"
                            [] s = "embedding" /\ run[r].text = NoVersion -> "check"
                            [] OTHER -> "work",
                   !.target = CASE s = "parsed"    -> "chunking"
                                [] s = "chunked"   -> "embedding"
                                [] s = "embedding" -> "indexed"
                                [] OTHER           -> s]]
    /\ UNCHANGED <<taskVars, content, original, parsed, chunks, tokens, vectors, client, left>>

Probe(r) ==
    /\ At(r, "work", "probing")
    /\ Advance(r, "parsing", original, NoVersion)
    /\ UNCHANGED <<taskVars, docVars, client, left>>

\* All candidate parsers together; only their final answer counts.  It goes to
\* a file and to the row that names the file; a death between the two is one
\* before or behind this step, for a first parse and for a later one.
Parse(r) ==
    /\ At(r, "work", "parsing")
    /\ parsed' = run[r].file
    /\ Advance(r, "parsed", run[r].file, run[r].file)
    /\ UNCHANGED <<taskVars, stage, content, original, chunks, tokens, vectors, client, left>>

\* A run that did not parse itself cuts the markdown of the stored result.
\* The new rows of chunks have no tokens yet ...
Cut(r) ==
    LET text == IF run[r].text # NoVersion THEN run[r].text ELSE parsed IN
    /\ At(r, "work", "chunking")
    /\ chunks' = text
    /\ tokens' = NoVersion
    /\ run' = [run EXCEPT ![r] = [@ EXCEPT !.pc = "index", !.text = text]]
    /\ UNCHANGED <<taskVars, stage, content, original, parsed, vectors, client, left>>

\* ... which are the next statement, on the rows that are there.
IndexText(r) ==
    /\ run[r].pc = "index"
    /\ tokens' = IF chunks = NoVersion THEN tokens ELSE run[r].text
    /\ Advance(r, "chunked", run[r].file, run[r].text)
    /\ UNCHANGED <<taskVars, stage, content, original, parsed, chunks, vectors, client, left>>

Embed(r) ==
    /\ At(r, "work", "embedding")
    /\ vectors' = run[r].text
    /\ Advance(r, "indexed", run[r].file, run[r].text)
    /\ UNCHANGED <<taskVars, stage, content, original, parsed, chunks, tokens, client, left>>

\* A parser or the embedding endpoint gives up ...
WorkFails(r) ==
    /\ run[r].pc = "work" /\ run[r].mem \in {"parsing", "embedding"}
    /\ Spend("error")
    /\ Goto(r, "fail")
    /\ UNCHANGED <<taskVars, docVars, client>>

\* ... or something ingest does not catch is raised: the run ends at once.  An
\* error that is worth a retry, or one that is not: a value that does not fit, a
\* model that may not be exchanged, a file that is gone.
Abort(r) ==
    /\ run[r].pc \in {"load", "work", "index"}
    /\ \E k \in {"error", "reject"} : Spend(k) /\ Goto(r, k)
    /\ UNCHANGED <<taskVars, docVars, client>>

\* Mutant: the run's outcome is written for the stage.
FailAsOutcome(r) ==
    /\ run[r].pc = "fail"
    /\ stage' = "error"
    /\ Goto(r, "error")
    /\ UNCHANGED <<taskVars, content, original, parsed, chunks, tokens, vectors, client, left>>

Fail(r) ==
    /\ run[r].pc = "fail"
    /\ stage' = IF run[r].mem \in {"failed", "canceled"} THEN stage ELSE "failed"
    /\ Goto(r, "error")
    /\ UNCHANGED <<taskVars, content, original, parsed, chunks, tokens, vectors, client, left>>

\* Mutant: the last attempt is never made.
SettleTooSoon(r) ==
    LET t     == run[r].task
        again == run[r].pc = "error" /\ run[r].attempt + 1 < MaxAttempts[t]
    IN
    /\ run[r].pc \in {"ok", "canceled", "error", "reject"}
    /\ IF Owns(r, t) THEN L!Settle(IF again THEN {t} ELSE {}, IF again THEN {} ELSE {t})
                     ELSE UNCHANGED taskVars
    /\ run' = [run EXCEPT ![r] = Idle]
    /\ UNCHANGED <<docVars, client, left>>

\* A retryable error is worth another attempt while one is left; everything else
\* ends the task.
Settle(r) ==
    LET t     == run[r].task
        again == run[r].pc = "error" /\ run[r].attempt < MaxAttempts[t]
    IN
    /\ run[r].pc \in {"ok", "canceled", "error", "reject"}
    /\ IF Owns(r, t) THEN L!Settle(IF again THEN {t} ELSE {}, IF again THEN {} ELSE {t})
                     ELSE UNCHANGED taskVars
    /\ run' = [run EXCEPT ![r] = Idle]
    /\ UNCHANGED <<docVars, client, left>>

Work(r)   == Probe(r) \/ Parse(r) \/ Cut(r) \/ IndexText(r) \/ Embed(r)
Runner(r) == Claim(r) \/ Load(r) \/ Check(r) \/ Write(r) \/ Work(r) \/ Fail(r) \/ Settle(r)

\* A lease runs out: because its runner died, or (a "lapse") because the beats
\* of a live one did not get through.
Reclaim(t) ==
    /\ phase[t] = "started"
    /\ IF \E r \in Runners : Owns(r, t) THEN Spend("lapse") ELSE UNCHANGED left
    /\ IF starts[t] < MaxAttempts[t] THEN L!Settle({t}, {}) ELSE L!Settle({}, {t})
    /\ UNCHANGED <<docVars, run, client>>

\* A process dies, with some of the runners and of the requests.
Crash ==
    /\ Spend("crash")
    /\ \E R \in SUBSET Runners, C \in SUBSET Clients :
         /\ run' = [r \in Runners |-> IF r \in R THEN Idle ELSE run[r]]
         /\ client' = [c \in Clients |-> IF c \in C THEN NoRequest ELSE client[c]]
    /\ UNCHANGED <<taskVars, docVars>>

-----------------------------------------------------------------------------
(* Requests *)

Request(c, from, to) ==
    /\ client[c].pc = from
    /\ client' = [client EXCEPT ![c] = [NoRequest EXCEPT !.pc = to]]

\* enqueue_ingest reads the stage, which decides whether the request is refused
\* and whether a forced one is to push the document back ...
Ingest(c, force) ==
    /\ stage # "indexed" \/ force
    /\ \E t \in Tasks : phase[t] = "absent"
    /\ client[c].pc = "idle"
    /\ client' = [client EXCEPT ![c] =
         [@ EXCEPT !.pc = "pending",
                   !.next = IF force /\ CanTransition(stage, "chunking")
                            THEN "push" ELSE "insert"]]
    /\ UNCHANGED <<taskVars, docVars, run, left>>

InPhase(p) == \E t \in Tasks : phase[t] = p

\* ... and looks for a task of the document that waits, with which the request
\* is answered ...
LookPending(c) ==
    /\ client[c].pc = "pending"
    /\ client' = [client EXCEPT ![c] =
         IF InPhase("waiting") THEN NoRequest ELSE [@ EXCEPT !.pc = "running"]]
    /\ UNCHANGED <<taskVars, docVars, run, left>>

Queueing(c) == client[c].pc \in {"push", "insert"}

\* Mutant: the second look asks for the first state again.
LookPendingAgain(c) ==
    /\ client[c].pc = "running"
    /\ client' = [client EXCEPT ![c] =
         IF InPhase("waiting") THEN NoRequest ELSE [@ EXCEPT !.pc = client[c].next]]
    /\ UNCHANGED <<taskVars, docVars, run, left>>

\* ... and then for one that runs, in a statement of its own: a task put back
\* between the two is not found, nor is one that another request is about to
\* insert.
LookRunning(c) ==
    /\ client[c].pc = "running"
    /\ client' = [client EXCEPT ![c] =
         IF InPhase("started") THEN NoRequest ELSE [@ EXCEPT !.pc = client[c].next]]
    /\ IF ~InPhase("started") /\ (InPhase("waiting") \/ \E d \in Clients : Queueing(d))
       THEN Spend("miss") ELSE UNCHANGED left
    /\ UNCHANGED <<taskVars, docVars, run>>

\* ... a forced request first moves the document back to the cut ...
PushBack(c) ==
    /\ Request(c, "push", "insert")
    /\ stage' = "chunking"
    /\ UNCHANGED <<taskVars, content, original, parsed, chunks, tokens, vectors, run, left>>

Insert(c) ==
    /\ Request(c, "insert", "idle")
    /\ \E t \in Tasks : L!Submit(t)
    /\ UNCHANGED <<docVars, run, left>>

\* cancel: the tasks first, then the document.
Cancel(c) ==
    /\ CanTransition(stage, "canceled")
    /\ Spend("cancel")
    /\ Request(c, "idle", "cancelTasks")
    /\ UNCHANGED <<taskVars, docVars, run>>

CancelTasks(c) ==
    /\ Request(c, "cancelTasks", "cancelStage")
    /\ L!Settle({}, Active)
    /\ UNCHANGED <<docVars, run, left>>

CancelStage(c) ==
    /\ Request(c, "cancelStage", "idle")
    /\ stage' = "canceled"
    /\ UNCHANGED <<taskVars, content, original, parsed, chunks, tokens, vectors, run, left>>

\* Mutant: the edit does not wait for active tasks.
ReplaceAtAnyTime(c, v) ==
    /\ v # content
    /\ Spend("edit")
    /\ client[c].pc = "idle"
    /\ client' = [client EXCEPT ![c] = [@ EXCEPT !.pc = "vectors", !.version = v]]
    /\ UNCHANGED <<taskVars, docVars, run>>

\* replace: refused while a task is active; then the products of the old
\* content go (but for its parse result), the content changes, and the
\* document starts over.
Replace(c, v) ==
    /\ v # content
    /\ Active = {}
    /\ Spend("edit")
    /\ client[c].pc = "idle"
    /\ client' = [client EXCEPT ![c] = [@ EXCEPT !.pc = "vectors", !.version = v]]
    /\ UNCHANGED <<taskVars, docVars, run>>

\* The products go one store after the other, if there are any.
DropVectors(c) ==
    /\ client[c].pc = "vectors"
    /\ IF chunks = NoVersion
       THEN client' = [client EXCEPT ![c].pc = "content"] /\ UNCHANGED vectors
       ELSE client' = [client EXCEPT ![c].pc = "tokens"] /\ vectors' = NoVersion
    /\ UNCHANGED <<taskVars, stage, content, original, parsed, chunks, tokens, run, left>>

DropTokens(c) ==
    /\ client[c].pc = "tokens"
    /\ tokens' = NoVersion
    /\ client' = [client EXCEPT ![c].pc = "chunks"]
    /\ UNCHANGED <<taskVars, stage, content, original, parsed, chunks, vectors, run, left>>

DropChunks(c) ==
    /\ client[c].pc = "chunks"
    /\ chunks' = NoVersion /\ tokens' = NoVersion
    /\ client' = [client EXCEPT ![c].pc = "content"]
    /\ UNCHANGED <<taskVars, stage, content, original, parsed, vectors, run, left>>

Drop(c) == DropVectors(c) \/ DropTokens(c) \/ DropChunks(c)

\* The row names the new content, then the setting its file, and then the
\* document starts over.
SetContent(c) ==
    /\ client[c].pc = "content"
    /\ content' = client[c].version
    /\ client' = [client EXCEPT ![c].pc = "path"]
    /\ UNCHANGED <<taskVars, stage, original, parsed, chunks, tokens, vectors, run, left>>

SetOriginal(c) ==
    /\ original' = client[c].version
    /\ Request(c, "path", "restart")
    /\ UNCHANGED <<taskVars, stage, content, parsed, chunks, tokens, vectors, run, left>>

Restart(c) ==
    /\ Request(c, "restart", "idle")
    /\ stage' = "uploaded"
    /\ UNCHANGED <<taskVars, content, original, parsed, chunks, tokens, vectors, run, left>>

\* A request that was begun goes on.
Continue(c) ==
    \/ LookPending(c) \/ LookRunning(c) \/ PushBack(c) \/ Insert(c)
    \/ CancelTasks(c) \/ CancelStage(c)
    \/ Drop(c) \/ SetContent(c) \/ SetOriginal(c) \/ Restart(c)

Begin(c) ==
    \/ \E force \in BOOLEAN : Ingest(c, force)
    \/ Cancel(c)
    \/ \E v \in Versions : Replace(c, v)

Next ==
    \/ \E r \in Runners : Runner(r) \/ WorkFails(r) \/ Abort(r)
    \/ \E t \in Tasks : Reclaim(t)
    \/ Crash
    \/ \E c \in Clients : Begin(c) \/ Continue(c)

Spec == Init /\ [][Next]_vars

\* Consumers poll, a run ends, an abandoned lease is reclaimed and a request
\* is served to its end; nobody has to make requests, and nothing has to fail.
Orphaned(t) == Reclaim(t) /\ \A r \in Runners : ~Owns(r, t)

Fairness ==
    /\ WF_vars(\E r \in Runners : Claim(r))
    /\ \A r \in Runners : WF_vars(Runner(r) /\ run[r].pc # "idle")
    /\ \A t \in Tasks : WF_vars(Orphaned(t))
    /\ \A c \in Clients : WF_vars(Continue(c))

FairSpec == Spec /\ Fairness

-----------------------------------------------------------------------------
(* Properties *)

\* Every variable keeps its type.
TypeOK ==
    /\ phase \in [Tasks -> {"absent", "waiting", "started", "ended"}]
    /\ starts \in [Tasks -> Nat]
    /\ stage \in Stages
    /\ content \in Versions /\ original \in Versions
    /\ {parsed, chunks, tokens, vectors} \subseteq Versions \cup {NoVersion}
    /\ run \in [Runners -> [task : Tasks \cup {NoTask}, attempt : Nat,
                            pc : {"idle", "load", "check", "write", "work", "index", "fail",
                                  "ok", "canceled", "error", "reject"},
                            mem : Stages, target : Stages,
                            file : Versions \cup {NoVersion}, text : Versions \cup {NoVersion}]]
    /\ client \in [Clients -> [pc : {"idle", "pending", "running", "push", "insert",
                                     "cancelTasks", "cancelStage", "vectors", "tokens",
                                     "chunks", "content", "path", "restart"},
                               next : {"push", "insert"},
                               version : Versions \cup {NoVersion}]]
    /\ left \in [Events -> Nat]

\* A document that counts as indexed has the chunks and the vectors of the
\* content it has - whichever runs overlapped, were canceled, failed or died on
\* the way.  (While the content is not edited.)
IndexedIsSearchable ==
    stage = "indexed" => chunks = content /\ vectors = content

Happened(k) == left[k] < Budget[k]

\* However many runners think they execute a task of the document, at most one
\* still may write its outcome - unless a request queued the document a second
\* time, which its two looks for a task exclude but for the gap between them and
\* for other requests that are queueing it.
OneOwner ==
    ~Happened("miss") =>
        \A r, s \in Runners, t, u \in Tasks : Owns(r, t) /\ Owns(s, u) => r = s

\* A document becomes indexed only when the products of the pipeline are all
\* there and of one version, whatever edits and interruptions came before - as
\* long as attempts are left over, its tasks do not overlap, and no task was
\* rejected if a death may have cut off an edit.
IndexedWhole ==
    [][/\ ~Happened("miss")' /\ ~(Happened("reject") /\ Happened("crash"))
       /\ stage' = "indexed" /\ stage # "indexed"
       => chunks = tokens /\ chunks = vectors]_vars

\* A run changes the stage only along the state machine: what it believes the
\* stage to be, the only thing _advance checks, is what the table says - unless
\* the document was queued twice.
RunsFollowStateMachine ==
    [][~Happened("miss")' /\ run' # run => CanTransition(stage, stage')]_vars

\* A content whose parse result was stored is not parsed again, whatever failed
\* or crashed between the parse and the index: parsers may be paid services.
\* (A content that two edits take away and bring back is a new one to the code,
\* and two tasks of the document parse it each.)
NoParsePaidTwice ==
    [][\A r \in Runners :
         ~Happened("miss")' /\ At(r, "work", "parsing") /\ run'[r].text # NoVersion
         => parsed # run[r].file]_vars

\* Crashes and failures are made up for: as long as they leave attempts over,
\* a document that is queued is indexed in the end, unless an error that is not
\* worth a retry ends its task or a second task of the document gets in its way.
QueuedIsIndexed ==
    \A t \in Tasks : phase[t] = "waiting" ~>
        (stage = "indexed" \/ Happened("reject") \/ Happened("miss"))

\* An indexed document shows the content it has, also after an edit.
IndexedMatchesContent ==
    stage = "indexed" /\ chunks # NoVersion => chunks = content
=============================================================================
