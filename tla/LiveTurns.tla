------------------------------ MODULE LiveTurns ------------------------------
(***************************************************************************)
(* The turns of one conversation, each produced by a thread of its own, and *)
(* the connections that watch them (services/live_turns.py, the streaming   *)
(* half of api/v1/chat.py, TurnControl in services/commands.py).            *)
(*                                                                         *)
(* A turn numbers what it emits twice: by its position in the stream (ix),  *)
(* and, for what goes to the session log, by the number it is going to have *)
(* there (seq), counted on from the number the log had when the turn was    *)
(* registered.  A ring keeps the last kept events for connections that come *)
(* back; each connection has a bounded queue.  A client remembers the last  *)
(* seq it handled (its anchor) and asks for what follows it.                *)
(*                                                                         *)
(* Publishing, and finishing, are one step each: what the code does after   *)
(* it let go of the lock only puts into queues that were listed under it.   *)
(***************************************************************************)
EXTENDS Integers, Sequences, SequencesExt, FiniteSetsExt

CONSTANTS
    Turns,      \* the turns of the conversation, numbered in their order
    Clients,    \* the pages watching it
    RingMax,    \* LIVE_RING_MAX_EVENTS
    QueueMax,   \* SUBSCRIBER_QUEUE_MAX
    MaxEvents,  \* MaxEvents[t]: bound on what turn t emits before it ends
    MaxMishaps  \* bound on the mishaps of one behaviour; of each kind there is one

Mishaps == {"drop", "reload", "forget", "stop", "mode", "unread", "unstored",
            "raise"}

ASSUME LiveTurnsAssumption ==
    /\ Turns \subseteq Nat \ {0}
    /\ RingMax \in Nat \ {0} /\ QueueMax \in Nat \ {0} /\ MaxEvents \in [Turns -> Nat]
    /\ MaxMishaps \in Nat

VARIABLES
    logged,    \* the largest seq stored in session_events
    turn,      \* turn[t]: the LiveTurn and the generator that feeds it
    current,   \* the turn the hub has for the conversation, 0 if none
    active,    \* TurnControl: a turn is running on the conversation ...
    stopped,   \* ... and is asked to stop
    client,    \* client[c]: the connection of c
    anchor,    \* anchor[c]: the last seq c handled
    seen,      \* seen[c]: the numbered events c was sent or lost, as <<turn, ix>>
    resumable, \* the last answer stored is one that was cut short
    stopAt,    \* history: stopAt[t], how far t was when a /stop was accepted
    alone,     \* history: no turn was begun before the one before had finished
    happened   \* the mishaps so far

flagVars == <<active, stopped>>
pageVars == <<client, anchor, seen>>
history == <<stopAt, alone>>
vars == <<logged, resumable, turn, current, flagVars, pageVars, history, happened>>

Outcomes == {"answer", "interrupted", "error"}
Answers == {"none", "whole", "cut short"}
\* What ends a stream without being an event of the turn.
End == [ix |-> 0, seq |-> 0, what |-> "end"]

NoTurn == [pc |-> "new", kind |-> "ask", base |-> 0, drafts |-> 0, ix |-> 0, ring |-> <<>>,
           outcome |-> "none", terminal |-> "none", stored |-> FALSE]
Untaken == -1
Away == [pc |-> "away", on |-> 0, after |-> 0, queue |-> <<>>, cutoff |-> 0,
         got |-> {}, told |-> "none"]

Init ==
    /\ logged = 0
    /\ turn = [t \in Turns |-> NoTurn]
    /\ current = 0
    /\ active = FALSE /\ stopped = FALSE
    /\ client = [c \in Clients |-> Away]
    /\ anchor = [c \in Clients |-> 0]
    /\ seen = [c \in Clients |-> {}]
    /\ resumable = FALSE
    /\ stopAt = [t \in Turns |-> Untaken]
    /\ alone = TRUE
    /\ happened = {}

Happens(k) ==
    /\ k \notin happened /\ Cardinality(happened) < MaxMishaps
    /\ happened' = happened \cup {k}

-----------------------------------------------------------------------------
(* The queue of a connection and the ring of a turn *)

IsTerminal(e) == e.what \in Outcomes

\* Mutant: the event that ends the turn is dropped like any other.
OfferOrDrop(q, e) == IF Len(q) < QueueMax THEN Append(q, e) ELSE q

\* A full queue loses the new event, but for the one that ends the turn: that
\* one pushes out the oldest.  The end marker is not such an event.
Offer(q, e) ==
    IF Len(q) < QueueMax THEN Append(q, e)
    ELSE IF IsTerminal(e) THEN Append(Tail(q), e) ELSE q

Positions(es) == {e.ix : e \in es}
Numbered(t, es) == {<<t, e.ix>> : e \in {f \in es : f.seq # 0}}

Follows(c, t) == client[c].on = t /\ client[c].pc \in {"replay", "check", "live"}
Lost(q, e) == (ToSet(q) \cup {e}) \ ToSet(Offer(q, e))

\* Everyone who subscribed to t is offered e; what that loses is recorded.
FanOut(t, e) ==
    /\ client' = [c \in Clients |->
           IF Follows(c, t)
           THEN [client[c] EXCEPT !.queue = Offer(@, e), !.got = @ \cup Positions(Lost(client[c].queue, e))]
           ELSE client[c]]
    /\ seen' = [c \in Clients |->
           IF Follows(c, t) THEN seen[c] \cup Numbered(t, Lost(client[c].queue, e)) ELSE seen[c]]

\* Mutant: a list in place of the deque.
KeepAll(ring, e) == Append(ring, e)

\* deque(maxlen = RingMax).append
Keep(ring, e) == Append(IF Len(ring) < RingMax THEN ring ELSE Tail(ring), e)

\* LiveTurn.publish: `drafts` is the number of log entries of the turn so far,
\* `numbered` whether the event carries a seq.
Publish(t, what, drafts, numbered, keep, pc) ==
    LET e == [ix |-> turn[t].ix + 1, what |-> what,
              seq |-> IF numbered THEN turn[t].base + drafts ELSE 0]
    IN  /\ turn' = [turn EXCEPT ![t] = [turn[t] EXCEPT
                      !.ix = e.ix, !.drafts = drafts, !.pc = pc,
                      !.ring = IF keep THEN Keep(@, e) ELSE @,
                      !.terminal = IF IsTerminal(e) THEN what ELSE @]]
        /\ FanOut(t, e)

\* Mutant: the event after the anchor counts as seen.
SeenAndNext(ring, after) == {i \in DOMAIN ring : ring[i].seq # 0 /\ ring[i].seq <= after + 1}

\* LiveTurn.replay: what follows the last event numbered `after` or less, and
\* the position of that event.
Seen(ring, after) == {i \in DOMAIN ring : ring[i].seq # 0 /\ ring[i].seq <= after}
Cut(ring, after) == Max(Seen(ring, after) \cup {0})

\* Mutant: one event too few.
ReplayedTooLate(ring, after) == SubSeq(ring, Cut(ring, after) + 2, Len(ring))

Replayed(ring, after) == SubSeq(ring, Cut(ring, after) + 1, Len(ring))

Cutoff(ring, after) ==
    IF Cut(ring, after) = 0 THEN 0 ELSE ring[Cut(ring, after)].ix

-----------------------------------------------------------------------------
(* A turn *)

\* _start_live_turn, first half: the conversation is marked as having a running
\* turn, and an older request to stop is forgotten.
Start(c, t, kind) ==
    /\ turn[t].pc = "new" /\ \A u \in Turns : u < t => turn[u].pc \notin {"new", "flagged"}
    /\ client[c].pc = "away"
    /\ turn' = [turn EXCEPT ![t].pc = "flagged", ![t].kind = kind]
    /\ client' = [client EXCEPT ![c] = [Away EXCEPT !.pc = "asking", !.on = t]]
    /\ active' = TRUE /\ stopped' = FALSE
    /\ alone' = (alone /\ \A u \in Turns \ {t} : turn[u].pc \in {"new", "finished"})
    /\ UNCHANGED <<logged, current, anchor, seen, stopAt, happened>>

\* A page sends a question; with the agent off it is answered in one go, from
\* what a search finds.
Ask(c, t) == (\E kind \in {"ask", "plain"} : Start(c, t, kind)) /\ UNCHANGED resumable

\* A page has the last turn gone on with, which ran out of its budget: the
\* answer it had is deleted before anything else happens.
Resume(c, t) == resumable /\ Start(c, t, "resume") /\ resumable' = FALSE

\* What a finished turn held is gone once nothing refers to it.
Unreferenced(t) == turn[t].pc = "finished" /\ \A c \in Clients : client[c].on # t

\* Second half: the seed is read (0 stands for one that cannot be read), the turn
\* takes the hub's place for the conversation, its thread is started and the
\* page's stream is opened, from 0.
Register(t) ==
    /\ turn[t].pc = "flagged"
    /\ \E base \in {logged, 0} :
         /\ turn' = [u \in Turns |->
              CASE u = t -> [turn[t] EXCEPT !.pc = "registered", !.base = base]
                [] u # t /\ Unreferenced(u) -> [NoTurn EXCEPT !.pc = "finished"]
                [] OTHER -> turn[u]]
         /\ IF base = logged THEN UNCHANGED happened ELSE Happens("unread")
    /\ current' = t
    /\ client' = [c \in Clients |-> IF client[c].pc = "asking" /\ client[c].on = t
                                    THEN [client[c] EXCEPT !.pc = "attached"] ELSE client[c]]
    /\ seen' = [c \in Clients |-> {p \in seen[c] : ~Unreferenced(p[1])}]
    /\ UNCHANGED <<logged, resumable, flagVars, anchor, history>>

\* The thread gets going: a change of mode made elsewhere, the start of the
\* turn, and for a resumed one the mark of that, are drafted; the conversation
\* is marked a second time.
Begin(t) ==
    /\ turn[t].pc = "registered"
    /\ \E changed \in {0, 1} :
         /\ turn' = [turn EXCEPT ![t].pc = "running",
                       ![t].drafts = changed + (IF turn[t].kind = "resume" THEN 2 ELSE 1)]
         /\ IF changed = 1 THEN Happens("mode") ELSE UNCHANGED happened
    /\ active' = TRUE /\ stopped' = FALSE
    /\ UNCHANGED <<logged, resumable, current, pageVars, history>>

\* The history was compressed to fit: the page is told, before anything else.  The
\* turn does not look whether it is to stop, so a stop counts from here on.
Compress(t) ==
    /\ turn[t].pc = "running" /\ turn[t].kind # "resume"
    /\ turn[t].ix = 0 /\ turn[t].ix < MaxEvents[t]
    /\ Publish(t, "note", turn[t].drafts, FALSE, TRUE, "running")
    /\ stopAt' = [stopAt EXCEPT ![t] = IF @ = Untaken THEN @ ELSE 1]
    /\ UNCHANGED <<logged, resumable, current, flagVars, anchor, alone, happened>>

\* One event of the tool loop: a step (or the first piece of a thought) is
\* logged and kept, sources and approvals are kept, pieces of text are neither.
Emit(t, what) ==
    /\ turn[t].pc = "running" /\ turn[t].ix < MaxEvents[t]
    /\ turn[t].kind = "plain" => what # "step"
    /\ Publish(t, what, turn[t].drafts + (IF what = "step" THEN 1 ELSE 0),
               what = "step", what # "delta", "checking")
    /\ UNCHANGED <<logged, resumable, current, flagVars, anchor, history, happened>>

\* Mutant: the end of the turn is told before it is stored, and then not.
StoreLater(t, drafts, outcome, answer) ==
    /\ turn' = [turn EXCEPT ![t].pc = "closing", ![t].drafts = drafts, ![t].outcome = outcome]
    /\ UNCHANGED <<logged, resumable, happened>>

\* The drafts of the turn are written to the log, in one transaction with the
\* answer if there is one, and are given the numbers after the largest one of
\* that moment.  A write that fails is logged and the turn goes on to its end.
Store(t, drafts, outcome, answer) ==
    \/ /\ logged' = logged + drafts
       /\ resumable' = IF answer = "none" THEN resumable ELSE answer = "cut short"
       /\ turn' = [turn EXCEPT ![t].pc = "closing", ![t].drafts = drafts,
                               ![t].outcome = outcome, ![t].stored = TRUE]
       /\ UNCHANGED happened
    \/ /\ Happens("unstored")
       /\ turn' = [turn EXCEPT ![t].pc = "closing", ![t].drafts = drafts, ![t].outcome = outcome]
       /\ UNCHANGED <<logged, resumable>>

\* Mutant: only after a logged event does the turn look whether it is to stop.
CheckAfterSteps(t) ==
    /\ turn[t].pc = "checking"
    /\ IF stopped /\ turn[t].kind = "ask" /\ turn[t].ring # <<>> /\ Last(turn[t].ring).what = "step"
       THEN Store(t, turn[t].drafts + 1, "interrupted", "none")
       ELSE turn' = [turn EXCEPT ![t].pc = "running"] /\ UNCHANGED <<logged, resumable, happened>>
    /\ UNCHANGED <<current, flagVars, pageVars, history>>

\* Between two events the turn looks whether it is to stop - but for a resumed
\* one and one with the agent off, whose loops do not.
Check(t) ==
    /\ turn[t].pc = "checking"
    /\ IF stopped /\ turn[t].kind = "ask"
       THEN Store(t, turn[t].drafts + 1, "interrupted", "none")
       ELSE turn' = [turn EXCEPT ![t].pc = "running"] /\ UNCHANGED <<logged, resumable, happened>>
    /\ UNCHANGED <<current, flagVars, pageVars, history>>

\* The loop is over, and the page is told that calls written into the answer were
\* taken out of it: a step of its own, again without a look.
Notice(t) ==
    /\ turn[t].pc = "running" /\ turn[t].kind # "resume"
    /\ turn[t].ix < MaxEvents[t]
    /\ Publish(t, "step", turn[t].drafts + 1, TRUE, TRUE, "answering")
    /\ UNCHANGED <<logged, resumable, current, flagVars, anchor, history, happened>>

\* The loop is over, with an answer, one it had to cut short, or none at all:
\* the end of the turn is drafted.
Answer(t) ==
    /\ turn[t].pc \in {"running", "answering"}
    /\ \E answer \in Answers : Store(t, turn[t].drafts + 1, "answer", answer)
    /\ UNCHANGED <<current, flagVars, pageVars, history>>

\* The loop raises: the error and the end of the turn are drafted.
Fail(t) ==
    /\ turn[t].pc = "running"
    /\ Store(t, turn[t].drafts + 2, "error", "none")
    /\ UNCHANGED <<current, flagVars, pageVars, history>>

\* The event that ends the turn; its number is a cursor past all of its log.
Close(t) ==
    /\ turn[t].pc = "closing"
    /\ Publish(t, turn[t].outcome, turn[t].drafts, TRUE, TRUE, "closed")
    /\ UNCHANGED <<logged, resumable, current, flagVars, anchor, history, happened>>

\* The generator is resumed once more and takes the marks off.
EndMarks(t) ==
    /\ turn[t].pc = "closed"
    /\ turn' = [turn EXCEPT ![t].pc = "ended"]
    /\ active' = FALSE /\ stopped' = FALSE
    /\ UNCHANGED <<logged, resumable, current, pageVars, history, happened>>

\* Reading the mode or compressing the history raises, outside every handler
\* of the turn.  In the first case the marks stay on.
Raise(t) ==
    /\ Happens("raise")
    /\ \/ turn[t].pc = "registered" /\ UNCHANGED flagVars
       \/ turn[t].pc = "running" /\ turn[t].ix = 0 /\ active' = FALSE /\ stopped' = FALSE
    /\ turn' = [turn EXCEPT ![t].pc = "raised"]
    /\ UNCHANGED <<logged, resumable, current, pageVars, history>>

\* The pump turns it into an error event without a number.
Catch(t) ==
    /\ turn[t].pc = "raised"
    /\ Publish(t, "error", turn[t].drafts, FALSE, TRUE, "ended")
    /\ UNCHANGED <<logged, resumable, current, flagVars, anchor, history, happened>>

\* LiveTurn.finish
Finish(t) ==
    /\ turn[t].pc = "ended"
    /\ turn' = [turn EXCEPT ![t].pc = "finished"]
    /\ FanOut(t, End)
    /\ UNCHANGED <<logged, resumable, current, flagVars, anchor, history, happened>>

\* The hub forgets a turn: it finished long ago, or too many are remembered.
Forget ==
    /\ current # 0
    /\ Happens("forget")
    /\ current' = 0
    /\ UNCHANGED <<logged, resumable, turn, flagVars, pageVars, history>>

-----------------------------------------------------------------------------
(* Commands *)

\* /stop, accepted only if a turn is marked as running.
Stop ==
    /\ active
    /\ Happens("stop")
    /\ stopped' = TRUE
    /\ stopAt' = [t \in Turns |-> IF turn[t].pc \in {"running", "checking"} /\ stopAt[t] = Untaken
                                  THEN turn[t].ix ELSE stopAt[t]]
    /\ UNCHANGED <<logged, resumable, turn, current, active, pageVars, alone>>

\* /mode writes its event at once, whatever runs.
SwitchMode ==
    /\ Happens("mode")
    /\ logged' = logged + 1
    /\ UNCHANGED <<resumable, turn, current, flagVars, pageVars, history>>

-----------------------------------------------------------------------------
(* A connection: _live_stream *)

\* A page whose connection broke comes back with its anchor; one that is loaded
\* anew, at any time, from 0.  (If the hub has no turn the page is told so, with
\* the last stored answer.)
Reconnect(c) ==
    /\ client[c].pc = "away"
    /\ current # 0
    /\ \E after \in {0, anchor[c]} :
         /\ client' = [client EXCEPT ![c] = [Away EXCEPT !.pc = "attached", !.on = current,
                                                         !.after = after]]
         /\ IF client[c].told = "none" /\ after = anchor[c] THEN UNCHANGED happened
            ELSE after = 0 /\ Happens("reload")
    /\ UNCHANGED <<logged, resumable, turn, current, flagVars, anchor, seen, history>>

Subscribe(c) ==
    /\ client[c].pc = "attached"
    /\ client' = [client EXCEPT ![c].pc = "replay"]
    /\ UNCHANGED <<logged, resumable, turn, current, flagVars, anchor, seen, history, happened>>

Endings(es) == {es[i].what : i \in DOMAIN es} \cap Outcomes

\* The client, its connection otherwise in state r, is sent the events es.
Send(c, r, es) ==
    /\ client' = [client EXCEPT ![c] = [r EXCEPT
                     !.got = @ \cup Positions(ToSet(es)),
                     !.told = IF Endings(es) = {} THEN @ ELSE CHOOSE o \in Endings(es) : TRUE]]
    /\ anchor' = [anchor EXCEPT ![c] = Max({es[i].seq : i \in DOMAIN es} \cup {@})]
    /\ seen' = [seen EXCEPT ![c] = @ \cup Numbered(r.on, ToSet(es))]

\* The snapshot of the ring is taken after the subscription.
Replay(c) ==
    LET r == client[c]
        ring == turn[r.on].ring
    IN  /\ r.pc = "replay"
        /\ Send(c, [r EXCEPT !.pc = "check", !.after = 0, !.cutoff = Cutoff(ring, r.after)],
                Replayed(ring, r.after))
        /\ UNCHANGED <<logged, resumable, turn, current, flagVars, history, happened>>

\* The stream ends.  A client that was not sent the end of the turn is given
\* what the turn ended with, or the last stored answer if it left nothing.
Over(r) == [Away EXCEPT !.on = r.on,
              !.told = IF r.told # "none" THEN r.told
                       ELSE IF turn[r.on].terminal # "none" THEN turn[r.on].terminal
                       ELSE "last answer"]

\* After the replay a turn that finished in the meantime is not waited for;
\* what it put into the queue is not looked at.
LookFinished(c) ==
    LET r == client[c]
    IN  /\ r.pc = "check"
        /\ client' = [client EXCEPT ![c] = IF turn[r.on].pc = "finished" THEN Over(r)
                                           ELSE [r EXCEPT !.pc = "live"]]
        /\ UNCHANGED <<logged, resumable, turn, current, flagVars, anchor, seen, history, happened>>

\* An event that was there before the cut is skipped.
Receive(c) ==
    LET r == [client[c] EXCEPT !.queue = Tail(@)]
        e == Head(client[c].queue)
    IN  /\ client[c].pc = "live" /\ client[c].queue # <<>>
        /\ CASE e = End -> client' = [client EXCEPT ![c] = Over(r)] /\ UNCHANGED <<anchor, seen>>
             [] e # End /\ e.ix <= r.cutoff ->
                  client' = [client EXCEPT ![c] = r] /\ UNCHANGED <<anchor, seen>>
             [] OTHER -> Send(c, IF IsTerminal(e) THEN [Away EXCEPT !.on = r.on] ELSE r, <<e>>)
        /\ UNCHANGED <<logged, resumable, turn, current, flagVars, history, happened>>

\* The page is closed or the network fails; the turn goes on.
Drop(c) ==
    /\ client[c].pc \in {"attached", "replay", "check", "live"}
    /\ Happens("drop")
    /\ client' = [client EXCEPT ![c] = Away]
    /\ UNCHANGED <<logged, resumable, turn, current, flagVars, anchor, seen, history>>

-----------------------------------------------------------------------------

TurnStep(t) ==
    \/ Register(t) \/ Begin(t) \/ Compress(t)
    \/ \E what \in {"step", "note", "delta"} : Emit(t, what)
    \/ Check(t) \/ Notice(t) \/ Answer(t) \/ Fail(t) \/ Close(t) \/ EndMarks(t)
    \/ Catch(t) \/ Finish(t)

Stream(c) == Subscribe(c) \/ Replay(c) \/ LookFinished(c) \/ Receive(c)

Next ==
    \/ \E t \in Turns : TurnStep(t) \/ Raise(t) \/ \E c \in Clients : Ask(c, t) \/ Resume(c, t)
    \/ Stop \/ SwitchMode \/ Forget
    \/ \E c \in Clients : Reconnect(c) \/ Stream(c) \/ Drop(c)

Spec == Init /\ [][Next]_vars

-----------------------------------------------------------------------------
(* Properties *)

Events == [ix : Nat, seq : Nat, what : {"step", "note", "delta", "end"} \cup Outcomes]

\* Every variable keeps its type; ring and queues stay within their bounds.
TypeOK ==
    /\ logged \in Nat /\ resumable \in BOOLEAN
    /\ \A t \in Turns :
         /\ turn[t].ring \in Seq(Events) /\ Len(turn[t].ring) <= RingMax
         /\ turn[t].base \in Nat /\ turn[t].drafts \in Nat
         /\ turn[t].outcome \in Outcomes \cup {"none"} /\ turn[t].terminal \in Outcomes \cup {"none"}
    /\ current \in Turns \cup {0}
    /\ active \in BOOLEAN /\ stopped \in BOOLEAN /\ alone \in BOOLEAN
    /\ \A c \in Clients :
         /\ client[c].queue \in Seq(Events) /\ Len(client[c].queue) <= QueueMax
         /\ client[c].told \in Outcomes \cup {"none", "last answer"}
    /\ anchor \in [Clients -> Nat]
    /\ stopAt \in [Turns -> Nat \cup {Untaken}]

\* Nothing falls between the replay and the live stream: whatever the ring still
\* holds after the cut was sent to a connection that follows the turn, or waits
\* in its queue, unless the queue was full (live_turns.subscribe, replay).
RingIsDelivered ==
    \A c \in Clients : client[c].pc = "live" =>
        \A i \in DOMAIN turn[client[c].on].ring :
            LET ix == turn[client[c].on].ring[i].ix
            IN  ix > client[c].cutoff =>
                    ix \in client[c].got \cup Positions(ToSet(client[c].queue))

\* Turns that wait for each other, all of which were numbered from what the log
\* had and were stored.
Orderly == alone /\ "unread" \notin happened /\ "unstored" \notin happened

\* What a page that comes back with its anchor is not sent again, it was sent
\* before: the numbers of one turn never pass for those of another, as long as
\* turns wait for each other and both the log's last number and the drafts of a
\* turn make it through the store (_last_event_seq says that a failed read is
\* harmless: it is not, the turn is then numbered below the anchor).
AnchorSkipsOnlySeen ==
    Orderly =>
        \A c \in Clients : client[c].pc \in {"check", "live"} =>
            \A i \in DOMAIN turn[client[c].on].ring :
                LET e == turn[client[c].on].ring[i]
                IN  e.ix <= client[c].cutoff /\ e.seq # 0 => <<client[c].on, e.ix>> \in seen[c]

\* A page is told how its own turn ended, and by then the turn is in the log -
\* but for a write that failed and for a turn that never got to drafting an end.
ToldHowItEnded ==
    \A c \in Clients : client[c].told # "none" =>
        LET r == turn[client[c].on]
        IN  /\ client[c].told = r.terminal
            /\ r.stored \/ "unstored" \in happened \/ r.outcome = "none"

\* An accepted stop lets through at most the event that was on its way, after the
\* word on the compressed history if nothing was sent yet (for a turn of the
\* agent that answers a question, with no other turn beside it: a resumed one,
\* and one with the agent off, never look, although /stop accepts).
StopIsHeeded ==
    alone => \A t \in Turns :
        turn[t].kind = "ask" /\ stopAt[t] # Untaken /\ turn[t].terminal = "none"
            => turn[t].ix <= stopAt[t] + 1

\* No page waits for a turn that is over: if its turn has finished there is
\* something in its queue that ends the stream, however full the queue was.
NobodyWaitsForever ==
    Orderly => \A c \in Clients : client[c].pc = "live" /\ turn[client[c].on].pc = "finished" =>
        \E e \in ToSet(client[c].queue) : e = End \/ (IsTerminal(e) /\ e.ix > client[c].cutoff)
=============================================================================
