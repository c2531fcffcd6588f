------------------------------ MODULE ToolLoop ------------------------------
(***************************************************************************)
(* One turn of the agent is a loop: the model asks for a batch of tool     *)
(* calls, the loop executes them, feeds the results back and asks again    *)
(* (services/tool_loop.py).  Four parts meet in it:                        *)
(*                                                                         *)
(*   - the mode of the agent and the plan gates (modes.py, plan_gate.py):  *)
(*     in plan mode nothing is written before a plan was given.  A turn of *)
(*     a conversation uses the gate of the conversation, but scheduled     *)
(*     runs name none and share one, whatever conversation they write to   *)
(*     (schedule_runner.py);                                               *)
(*   - the rules for commands (command_policy.py) as run_command reads     *)
(*     them (agent_exec.py);                                               *)
(*   - the registry of approvals (approvals.py): a command that needs one  *)
(*     is not run but registered; the loop shows the question, blocks      *)
(*     until it is answered or expires, and executes the call once more    *)
(*     with the decision;                                                  *)
(*   - the user, who answers, switches the mode and edits the rules at     *)
(*     moments of their own.                                               *)
(*                                                                         *)
(* A call is "read" (may run beside others, changes nothing), "write"      *)
(* (exclusive, changes a workspace) or a command, named by its first word. *)
(* Mode "edit" is left out: for every tool of the table it decides what    *)
(* mode "build" decides, since the one tool that needs an approval acts on *)
(* the system.  Time is the order in which approvals expire: all have the  *)
(* same timeout, so the one opened first expires first.                    *)
(***************************************************************************)
EXTENDS Naturals, Sequences, SequencesExt, FiniteSets

CONSTANTS
    Loops,       \* threads a turn runs in, each with one turn at a time
    Convs,       \* conversations
    Heads,       \* first words of commands
    TurnsOf,     \* bound: how many turns a thread runs
    StepsOf,     \* max_steps of a turn it runs
    BatchOf,     \* bound: how many calls a batch of it has
    MaxEdits     \* bound: edits of mode, rules and policy, and restarts

ASSUME LoopAssumption ==
    /\ TurnsOf \in [Loops -> Nat]
    /\ StepsOf \in [Loops -> Nat \ {0}]
    /\ BatchOf \in [Loops -> Nat \ {0}]
    /\ MaxEdits \in Nat
    /\ {"read", "write"} \cap Heads = {}

VARIABLES
    mode,     \* the setting chat.mode
    rules,    \* for each first word the lists it is on
    policy,   \* sandbox.exec_policy
    gate,     \* per key of a gate: was a plan given, the mode seen last
    loop,     \* per thread: the turn that runs
    item,     \* what was registered for a call of a turn
    table,    \* the registry: the ids in it
    acked,    \* history: the answer last acknowledged to the user
    hist,     \* history: turns that began, answered in words or were stopped
    edits

vars == <<mode, rules, policy, gate, loop, item, table, acked, hist, edits>>

Modes == {"plan", "build", "yolo"}
Lists == {"allow", "ask", "deny"}
Allowing == {"allow_once", "allow_always"}
Decisions == Allowing \cup {"deny"}
Calls == {"read", "write"} \cup Heads
Policies == Lists \cup {"sandbox"}
None == "none"

\* The keys of the gates.  What names no conversation shares the key "".
NoSession == ""
Gates == Convs \cup {NoSession}

\* A batch is over when the next one is asked for, and its ids with it: the
\* ids of a turn are told apart by their call alone.
Ids == UNION {{c} \X (1 .. TurnsOf[c]) \X (1 .. BatchOf[c]) : c \in Loops}

Fresh == [asked |-> FALSE, expired |-> FALSE, answered |-> FALSE,
          decision |-> "timeout", before |-> {}]
Idle(turn) == [pc |-> "idle", turn |-> turn, mode |-> "build", asks |-> FALSE,
               gate |-> NoSession, step |-> 0, calls |-> <<>>, stop |-> FALSE,
               out |-> <<>>, answers |-> <<>>]
At(c, pc) == loop[c].pc = pc
Id(c, i) == <<c, loop[c].turn, i>>

Init ==
    /\ mode \in Modes
    /\ rules = [h \in Heads |-> {}]
    /\ policy = "ask"
    /\ gate = [g \in Gates |-> [given |-> FALSE, seen |-> None]]
    /\ loop = [c \in Loops |-> Idle(0)]
    /\ item = [a \in Ids |-> Fresh]
    /\ table = {}
    /\ acked = [a \in Ids |-> None]
    /\ hist = <<>>
    /\ edits = 0

----------------------------------------------------------------------------
(* What tool_meta, modes and command_policy say of a call. *)

Parallel(call) == call = "read"
IsCommand(call) == call \in Heads
IsWrite(call) == call # "read"

\* Mutant: a group that may run together is never closed.
GroupedOpen(groups, i, call) ==
    IF groups # <<>> /\ Parallel(call)
      THEN [groups EXCEPT ![Len(groups)].members = Append(@, i)]
      ELSE Append(groups, [call |-> call, members |-> <<i>>])

\* parallel_groups: neighbours that may run together form a group, any other
\* call is a group of its own.
Grouped(groups, i, call) ==
    IF groups # <<>> /\ Parallel(call) /\ Parallel(Last(groups).call)
      THEN [groups EXCEPT ![Len(groups)].members = Append(@, i)]
      ELSE Append(groups, [call |-> call, members |-> <<i>>])

ParallelGroups(calls) ==
    LET upTo[n \in 0 .. Len(calls)] ==
          IF n = 0 THEN <<>> ELSE Grouped(upTo[n - 1], n, calls[n])
    IN [g \in 1 .. Len(upTo[Len(calls)]) |-> upTo[Len(calls)][g].members]

BlockedByMode(c, call) ==
    /\ loop[c].mode = "plan"
    /\ IsWrite(call)
    /\ ~gate[loop[c].gate].given

\* RuleSet.decide, then the policy where no rule matched.
Verdict(h) ==
    CASE "deny" \in rules[h] \/ policy = "deny" -> "deny"
      [] OTHER -> IF "ask" \in rules[h] THEN "ask"
                  ELSE IF "allow" \in rules[h] THEN "allow" ELSE policy

\* _approval_for: a decision that came back, else what the mode decides.
ApprovalFor(c, call, approval) ==
    IF approval = None /\ IsCommand(call) /\ loop[c].mode = "yolo"
      THEN "allow_once" ELSE approval

----------------------------------------------------------------------------
(* Executing one call: the outcome it gets and what it does on the way. *)

Outcome(c, call, stop, approval) ==
    LET given == ApprovalFor(c, call, approval)
    IN CASE BlockedByMode(c, call) -> "blocked"
         [] ~BlockedByMode(c, call) /\ stop -> "stopped"
         [] ~BlockedByMode(c, call) /\ ~stop /\ ~IsCommand(call) -> "ran"
         [] OTHER -> CASE Verdict(call) \in {"deny", "sandbox"} -> "refused"
                       [] Verdict(call) = "allow" -> "ran"
                       [] OTHER -> CASE given \in Allowing -> "ran"
                                     [] given = None -> "awaiting"
                                     [] OTHER -> "notapproved"

\* A call that is neither blocked nor stopped may fail, whatever it was and
\* however far it came: its arguments are no JSON, the caller is no admin,
\* nothing isolates the command, or the runner raises.
OutcomesOf(c, call, stop, approval) ==
    LET expected == Outcome(c, call, stop, approval)
    IN {expected} \cup (IF expected \in {"blocked", "stopped"} THEN {} ELSE {"failed"})

MayAppend(c, call, stop, approval) ==
    /\ Outcome(c, call, stop, approval) = "ran"
    /\ IsCommand(call)
    /\ Verdict(call) = "ask"
    /\ approval = "allow_always"

\* run_command appends the rule before it runs the command: one that failed
\* may have come that far or not.
AppendRule(c, call, stop, approval, outcome) ==
    \/ /\ MayAppend(c, call, stop, approval)
       /\ rules' = [rules EXCEPT ![call] = @ \cup {"allow"}]
    \/ /\ MayAppend(c, call, stop, approval) => outcome = "failed"
       /\ UNCHANGED rules

Live == {a \in table : ~item[a].expired}

\* ApprovalRegistry.open: prunes what has expired, then registers, behind all
\* that is left.
Register(a, outcome) ==
    IF outcome = "awaiting"
      THEN /\ item' = [b \in Ids |-> IF b = a THEN [Fresh EXCEPT !.before = Live \ {a}]
                                      ELSE [item[b] EXCEPT !.before = @ \ {a}]]
           /\ table' = Live \cup {a}
      ELSE UNCHANGED <<item, table>>

Execute(c, i, stop, approval) ==
    LET call == loop[c].calls[i]
    IN \E outcome \in OutcomesOf(c, call, stop, approval) :
         /\ loop' = [loop EXCEPT ![c].out[i] = outcome]
         /\ Register(Id(c, i), outcome)
         /\ AppendRule(c, call, stop, approval, outcome)

----------------------------------------------------------------------------
(* A turn. *)

\* tool_loop and run, up to its loop: the mode is read once, the gate is told
\* of it.  A turn without a registry (a scheduled run) has nobody to ask, and
\* names no conversation.  A turn that runs with the agent switched off takes
\* no tool loop and tells no gate: it is not a step of this module.
StartTurn(c, asks, g) ==
    /\ At(c, "idle")
    /\ loop[c].turn < TurnsOf[c]
    /\ asks \/ g = NoSession
    /\ loop' = [loop EXCEPT ![c] =
                  [Idle(@.turn + 1) EXCEPT !.pc = "model", !.mode = mode,
                                           !.asks = asks, !.gate = g]]
    /\ gate' = [gate EXCEPT ![g] =
                  [given |-> @.given /\ mode = "plan" /\ @.seen = "plan",
                   seen |-> mode]]
    /\ hist' = Append(hist, [turn |-> <<c, loop[c].turn + 1>>, gate |-> g,
                             mode |-> mode, what |-> "began"])
    /\ UNCHANGED <<mode, rules, policy, item, table, acked, edits>>

\* Nobody waits for these ids any more, nor can an answer to them be accepted.
Forget(gone) ==
    /\ item' = [a \in Ids |-> IF a \in gone THEN Fresh
                              ELSE [item[a] EXCEPT !.before = @ \ gone]]
    /\ table' = table \ gone
    /\ acked' = [a \in Ids |-> IF a \in gone THEN None ELSE acked[a]]

IdsOf(c) == {a \in Ids : a[1] = c /\ a[2] = loop[c].turn}
Open == {a \in Live : item[a].asked}

\* What a turn leaves of its batch: the questions that went out and were not
\* waited for.  What was never asked is registered too until it expires, but
\* its id is known to nobody.
Dropped(c) == Forget(IdsOf(c) \ Open)

Noting(c, what) ==
    hist' = Append(hist, [turn |-> <<c, loop[c].turn>>, gate |-> loop[c].gate,
                          mode |-> loop[c].mode, what |-> what])

EndTurn(c) == loop' = [loop EXCEPT ![c] = Idle(@.turn)]

StepsLeftLoose(c) == loop[c].step <= StepsOf[c]
StepsLeft(c) == loop[c].step < StepsOf[c]

NotesAnything(c, text) == loop[c].mode = "plan"
NotesPlan(c, text) == text /\ loop[c].mode = "plan"

\* The model answers in words: _note_plan counts it as the plan, unless it
\* said nothing.
Answer(c, text) ==
    /\ At(c, "model")
    /\ StepsLeft(c)
    /\ EndTurn(c)
    /\ IF text THEN Noting(c, "words") ELSE UNCHANGED hist
    /\ gate' = [gate EXCEPT ![loop[c].gate].given = @ \/ NotesPlan(c, text)]
    /\ UNCHANGED <<mode, rules, policy, item, table, acked, edits>>

\* Steps or time are used up: one last answer, which is never noted as a plan.
\* Or the model cannot be reached, and the turn fails.
GiveUp(c) ==
    /\ At(c, "model")
    /\ EndTurn(c)
    /\ UNCHANGED <<mode, rules, policy, gate, item, table, acked, hist, edits>>

\* The model asks for a batch.  On the last step, or when time ran out while
\* it thought, the batch will not be executed.
AskTools(c, calls, late) ==
    /\ At(c, "model")
    /\ StepsLeft(c)
    /\ loop' = [loop EXCEPT
         ![c].pc = "first",
         ![c].calls = calls,
         ![c].stop = late \/ loop[c].step = StepsOf[c] - 1,
         ![c].out = [i \in 1 .. Len(calls) |-> None],
         ![c].answers = [i \in 1 .. Len(calls) |-> None]]
    /\ UNCHANGED <<mode, rules, policy, gate, item, table, acked, hist, edits>>

Unexecuted(c) == {i \in DOMAIN loop[c].out : loop[c].out[i] = None}
Pending(c) == {i \in DOMAIN loop[c].out : loop[c].out[i] = "awaiting"}
Unasked(c) == {i \in Pending(c) : loop[c].answers[i] = None}
Least(S) == CHOOSE i \in S : \A j \in S : i <= j

\* Calls that may run now: those of the first group that is not done.
Runnable(c) ==
    LET calls == loop[c].calls
        groups == ParallelGroups(calls)
        open(g) == \E k \in 1 .. Len(groups[g]) : groups[g][k] \in Unexecuted(c)
        now == {g \in 1 .. Len(groups) :
                  open(g) /\ \A f \in 1 .. (g - 1) : ~open(f)}
    IN IF loop[c].stop
         THEN {i \in Unexecuted(c) : \A j \in Unexecuted(c) : i <= j}
         ELSE {i \in Unexecuted(c) : \E g \in now : i \in Range(groups[g])}

\* The first pass of _execute_batch.
ExecuteFirst(c, i) ==
    /\ At(c, "first")
    /\ i \in Runnable(c)
    /\ Execute(c, i, loop[c].stop, None)
    /\ UNCHANGED <<mode, policy, gate, acked, hist, edits>>

\* Mutant: without anybody to ask the placeholder stays.
AfterFirstUnasked(c) ==
    IF Pending(c) # {} /\ loop[c].asks THEN "ask" ELSE "record"

AfterFirst(c) ==
    CASE Pending(c) = {} -> "record"
      [] OTHER -> IF loop[c].asks THEN "ask" ELSE "second"

\* _resolve_approvals: nothing to ask; nobody to ask; or ask one by one.
Resolve(c) ==
    /\ At(c, "first")
    /\ Unexecuted(c) = {}
    /\ loop' = [loop EXCEPT ![c].pc = AfterFirst(c),
                  ![c].answers = [i \in DOMAIN @ |->
                    IF i \in Pending(c) /\ ~loop[c].asks THEN "unavailable" ELSE None]]
    /\ UNCHANGED <<mode, rules, policy, gate, item, table, acked, hist, edits>>

\* The question goes out; the loop has not begun to wait yet.
Ask(c) ==
    /\ At(c, "ask")
    /\ IF Unasked(c) = {}
         THEN /\ loop' = [loop EXCEPT ![c].pc = "second"]
              /\ UNCHANGED item
         ELSE /\ loop' = [loop EXCEPT ![c].pc = "shown"]
              /\ item' = [item EXCEPT ![Id(c, Least(Unasked(c)))].asked = TRUE]
    /\ UNCHANGED <<mode, rules, policy, gate, table, acked, hist, edits>>

Answered(c, i, decision) ==
    loop' = [loop EXCEPT ![c].answers[i] = decision, ![c].pc = "ask"]

\* wait_decision looks the approval up.  It may have been pruned.
Wait(c) ==
    /\ At(c, "shown")
    /\ LET i == Least(Unasked(c))
       IN IF Id(c, i) \in table
            THEN loop' = [loop EXCEPT ![c].pc = "waiting"]
            ELSE Answered(c, i, "timeout")
    /\ UNCHANGED <<mode, rules, policy, gate, item, table, acked, hist, edits>>

WokenByAnswer(a) == item[a].answered
Woken(a) == item[a].answered \/ item[a].expired

\* Mutant: past the deadline an answer that arrived in time is not looked at.
SettledInTime(a) == IF item[a].expired THEN "timeout" ELSE item[a].decision
Settled(a) == item[a].decision

TakenOut(a) == table \ {a}

\* It was answered or it expired: take it out and use what it says.
Wake(c) ==
    /\ At(c, "waiting")
    /\ LET i == Least(Unasked(c))
       IN /\ Woken(Id(c, i))
          /\ Answered(c, i, Settled(Id(c, i)))
          /\ table' = TakenOut(Id(c, i))
    /\ UNCHANGED <<mode, rules, policy, gate, item, acked, hist, edits>>

\* Mutant: the decision on the first command stands for them all.
FirstDecision(c, i) == loop[c].answers[Least({j \in DOMAIN loop[c].answers :
                                                loop[c].answers[j] # None})]
DecisionOn(c, i) == loop[c].answers[i]

\* The second pass, with the decisions, in the order of the calls.
ExecuteSecond(c) ==
    /\ At(c, "second")
    /\ Pending(c) # {}
    /\ LET i == Least(Pending(c))
       IN Execute(c, i, FALSE, DecisionOn(c, i))
    /\ UNCHANGED <<mode, policy, gate, acked, hist, edits>>

Complete(c) == At(c, "record") \/ (At(c, "second") /\ Pending(c) = {})

\* Every call gets its result, in order, and the next step begins.
Record(c) ==
    /\ Complete(c)
    /\ loop' = [loop EXCEPT ![c] =
                  [Idle(@.turn) EXCEPT !.pc = "model", !.mode = loop[c].mode,
                                       !.asks = loop[c].asks,
                                       !.gate = loop[c].gate,
                                       !.step = loop[c].step + 1]]
    /\ Dropped(c)
    /\ UNCHANGED <<mode, rules, policy, gate, hist, edits>>

\* /stop is noticed behind an event that was handed over, and the loop goes
\* no further: a question that went out stays in the registry.
Stop(c) ==
    /\ loop[c].asks
    /\ \/ loop[c].pc \in {"model", "shown"}
       \/ At(c, "first") /\ Unexecuted(c) \in {{}, DOMAIN loop[c].out}
       \/ Complete(c)
    /\ EndTurn(c)
    /\ Noting(c, "stopped")
    /\ Dropped(c)
    /\ UNCHANGED <<mode, rules, policy, gate, edits>>

----------------------------------------------------------------------------
(* The user and the clock. *)

\* POST /chat/approvals/{id}: only a question that went out has an id to
\* answer to.  Acknowledged if it is registered and has not expired, whether
\* or not the turn that asked still runs.
Decide(a, decision) ==
    /\ item[a].asked
    /\ a \in table
    /\ ~item[a].expired
    /\ item' = [item EXCEPT ![a].decision = decision, ![a].answered = TRUE]
    /\ acked' = [acked EXCEPT ![a] = decision]
    /\ UNCHANGED <<mode, rules, policy, gate, loop, table, hist, edits>>

Running(a) == ~At(a[1], "idle") /\ loop[a[1]].turn = a[2]

\* An approval expires that a turn asked for, or a question left behind.
Expire ==
    /\ \E a \in Live :
         /\ item[a].before \cap Live = {}
         /\ IF Running(a)
              THEN /\ item' = [item EXCEPT ![a].expired = TRUE]
                   /\ UNCHANGED <<table, acked>>
              ELSE Forget({a})
    /\ UNCHANGED <<mode, rules, policy, gate, loop, hist, edits>>

\* A turn that is not modelled opens an approval of its own.
OpenElsewhere ==
    /\ table' = Live
    /\ UNCHANGED <<mode, rules, policy, gate, loop, item, acked, hist, edits>>

Edited == edits < MaxEdits /\ edits' = edits + 1

SwitchMode(m) ==
    /\ Edited
    /\ m # mode
    /\ mode' = m
    /\ UNCHANGED <<rules, policy, gate, loop, item, table, acked, hist>>

\* A rule for h is written to a list, or taken off it.
EditRules(h, list) ==
    /\ Edited
    /\ rules' = [rules EXCEPT ![h] = IF list \in @ THEN @ \ {list} ELSE @ \cup {list}]
    /\ UNCHANGED <<mode, policy, gate, loop, item, table, acked, hist>>

SetPolicy(p) ==
    /\ Edited
    /\ policy' = p
    /\ UNCHANGED <<mode, rules, gate, loop, item, table, acked, hist>>

\* Turns, the registry and the plan gates are in memory only.  The history
\* is that of the process.
Restart ==
    /\ Edited
    /\ loop' = [c \in Loops |-> Idle(loop[c].turn)]
    /\ hist' = <<>>
    /\ gate' = [g \in Gates |-> [given |-> FALSE, seen |-> None]]
    /\ item' = [a \in Ids |-> Fresh]
    /\ table' = {}
    /\ acked' = [a \in Ids |-> None]
    /\ UNCHANGED <<mode, rules, policy>>

Batches(c) == UNION {[1 .. n -> Calls] : n \in 1 .. BatchOf[c]}

LoopStep(c) ==
    \/ \E asks \in BOOLEAN, g \in Gates : StartTurn(c, asks, g)
    \/ \E text \in BOOLEAN : Answer(c, text)
    \/ GiveUp(c)
    \/ \E calls \in Batches(c), late \in BOOLEAN : AskTools(c, calls, late)
    \/ \E i \in DOMAIN loop[c].out : ExecuteFirst(c, i)
    \/ Resolve(c)
    \/ Ask(c)
    \/ Wait(c)
    \/ Wake(c)
    \/ ExecuteSecond(c)
    \/ Record(c)

Next ==
    \/ \E c \in Loops : LoopStep(c) \/ Stop(c)
    \/ \E a \in Ids, d \in Decisions : Decide(a, d)
    \/ Expire
    \/ OpenElsewhere
    \/ \E m \in Modes : SwitchMode(m)
    \/ \E h \in Heads, list \in Lists : EditRules(h, list)
    \/ \E p \in Policies : SetPolicy(p)
    \/ Restart

\* The thread of a turn runs, and time passes.  Nobody has to answer.
Fairness ==
    /\ \A c \in Loops : WF_vars(LoopStep(c))
    /\ WF_vars(Expire)

Spec == Init /\ [][Next]_vars /\ Fairness

----------------------------------------------------------------------------
(* Properties. *)

Outcomes == {None, "ran", "failed", "blocked", "stopped", "refused",
             "awaiting", "notapproved"}
Pcs == {"idle", "model", "first", "ask", "shown", "waiting", "second", "record"}

\* Types; and a call's answers and outcomes are as many as its batch has calls.
TypeOK ==
    /\ mode \in Modes
    /\ rules \in [Heads -> SUBSET Lists]
    /\ policy \in Policies
    /\ gate \in [Gates -> [given : BOOLEAN, seen : Modes \cup {None}]]
    /\ \A c \in Loops :
         /\ loop[c].pc \in Pcs
         /\ loop[c].turn \in 0 .. TurnsOf[c]
         /\ loop[c].mode \in Modes
         /\ loop[c].step \in 0 .. StepsOf[c]
         /\ loop[c].stop \in BOOLEAN /\ loop[c].asks \in BOOLEAN
         /\ loop[c].gate \in Gates
         /\ loop[c].calls \in Batches(c) \cup {<<>>}
         /\ loop[c].out \in [DOMAIN loop[c].calls -> Outcomes]
         /\ loop[c].answers \in [DOMAIN loop[c].calls ->
                                 Decisions \cup {None, "timeout", "unavailable"}]
    /\ item \in [Ids -> [asked : BOOLEAN, expired : BOOLEAN, answered : BOOLEAN,
                         decision : Decisions \cup {"timeout"}, before : SUBSET Ids]]
    /\ table \in SUBSET Ids
    /\ acked \in [Ids -> Decisions \cup {None}]
    /\ \A k \in DOMAIN hist :
         /\ hist[k].gate \in Gates /\ hist[k].mode \in Modes
         /\ hist[k].what \in {"began", "words", "stopped"}

JustRan(c, i) ==
    /\ i \in DOMAIN loop[c].out
    /\ i \in DOMAIN loop'[c].out
    /\ loop[c].out[i] # "ran"
    /\ loop'[c].out[i] = "ran"

\* A command runs only if, at that moment, no rule and no policy denies it,
\* and either they allow it, or the mode waives the question, or the answer
\* last acknowledged to the user for this very call allows it.  On the way
\* lie the registry, the wait, the answers of a batch and its second pass
\* (tool_loop._resolve_approvals, agent_exec.run_command).
CommandsRunPermitted ==
    [][\A c \in Loops : \A i \in 1 .. BatchOf[c] :
         JustRan(c, i) /\ IsCommand(loop[c].calls[i]) =>
           LET h == loop[c].calls[i]
           IN /\ Verdict(h) # "deny"
              /\ \/ Verdict(h) = "allow"
                 \/ loop[c].mode = "yolo"
                 \/ acked[Id(c, i)] \in Allowing]_vars

JustAnswered(c, i) ==
    /\ i \in DOMAIN loop[c].answers
    /\ i \in DOMAIN loop'[c].answers
    /\ loop[c].answers[i] # loop'[c].answers[i]

\* The turn that asked is over, and it was /stop that ended it.
WasStopped(a) ==
    \E k \in DOMAIN hist : hist[k].what = "stopped" /\ hist[k].turn = <<a[1], a[2]>>

\* A question that was asked is settled by the answer last acknowledged to
\* the user, also one that arrived while the wait for it timed out; without
\* one it counts as a timeout.  The one exception is an approval that expired
\* and was pruned by another approval being opened before the loop came to
\* wait for it.  And an answer is acknowledged only while the turn that asked
\* can still use it, never after a timeout was used in its place nor after
\* another answer was; except that the question of a turn that was stopped
\* stays open, and answers to it are acknowledged in vain until it expires
\* (approvals.wait_decision, decide, _prune; the 409 of decide_approval;
\* the stop behind an event in chat._events).
AcknowledgedIsUsed ==
    [][/\ \A c \in Loops : \A i \in 1 .. BatchOf[c] :
            JustAnswered(c, i) /\ loop[c].asks =>
              \/ loop'[c].answers[i] = acked[Id(c, i)]
              \/ loop'[c].answers[i] = "timeout"
                 /\ (acked[Id(c, i)] = None
                       \/ (item[Id(c, i)].expired /\ Id(c, i) \notin table))
       /\ \A a \in Ids :
            acked'[a] # acked[a] /\ acked'[a] # None =>
              \/ WasStopped(a)
              \/ /\ loop[a[1]].turn = a[2]
                 /\ loop[a[1]].pc \in {"shown", "waiting"}
                 /\ loop[a[1]].answers[a[3]] = None]_vars

\* In plan mode something is written only if a plan was given: since the
\* process started, a turn in plan mode that goes by the same gate ended in
\* words, and no turn that goes by it has begun in another mode since.  The
\* gate of a conversation is told of the turns of the conversation, also of
\* several that overlap; that of the scheduled runs of all of them
\* (plan_gate.py, schedule_runner.py).
WritesFollowPlan ==
    [][\A c \in Loops : \A i \in 1 .. BatchOf[c] :
         /\ JustRan(c, i)
         /\ loop[c].mode = "plan"
         /\ IsWrite(loop[c].calls[i])
         => \E t \in DOMAIN hist :
              /\ hist[t].gate = loop[c].gate
              /\ hist[t].what = "words" /\ hist[t].mode = "plan"
              /\ \A u \in t .. Len(hist) :
                   hist[u].gate = loop[c].gate /\ hist[u].what = "began"
                     => hist[u].mode = "plan"]_vars

\* What the model is given back is a result for every call of its batch,
\* never the placeholder of a command that waits to be approved.
EveryCallHasResult ==
    \A c \in Loops : Complete(c) =>
      \A i \in DOMAIN loop[c].calls :
        /\ loop[c].out[i] \notin {None, "awaiting"}
        /\ loop[c].stop => loop[c].out[i] \in {"stopped", "blocked"}

\* A call that is not safe beside others is a barrier: it runs after every
\* call before it in the batch, and nothing after it runs before it, however
\* the threads of the pool are scheduled (_execute_batch, parallel_groups).
ExclusiveCallsAreBarriers ==
    [][\A c \in Loops : \A i \in 1 .. BatchOf[c] :
         /\ At(c, "first")
         /\ i \in Unexecuted(c)
         /\ loop'[c].out # <<>> /\ loop'[c].out[i] # None
         => \A j \in 1 .. (i - 1) :
              \/ loop[c].out[j] # None
              \/ Parallel(loop[c].calls[i]) /\ Parallel(loop[c].calls[j])]_vars

\* A turn ends, whether or not anybody answers what it asks.
TurnsEnd == \A c \in Loops : []<>At(c, "idle")

=============================================================================
