--------------------------- MODULE ToolLoopProofs ---------------------------
(***************************************************************************)
(* The safety properties of ToolLoop, for any number of threads, gates,    *)
(* turns, steps, calls and edits.  Three invariants, each over the first:  *)
(* types and what the place a turn has reached says of its batch; that a   *)
(* gate is open only behind a plan in the history of the process; and what *)
(* the registry and the answers of a turn have to do with what was         *)
(* acknowledged to the user, told apart for the turn that runs, those that *)
(* are over and those to come.  The order of the calls of a batch rests on *)
(* what parallel_groups computes, shown for a batch of any length from the *)
(* least number for which it would fail.                                   *)
(***************************************************************************)
EXTENDS ToolLoop, WellFoundedInduction, SequenceTheorems, TLAPS

-----------------------------------------------------------------------------
(* Operators                                                               *)

\* The least of a set of numbers is one of them.
LEMMA LeastIsIn ==
  ASSUME NEW S \in SUBSET Nat, S # {}
  PROVE  Least(S) \in S /\ \A j \in S : Least(S) <= j
<1> DEFINE R == OpToRel(<, Nat)
<1>1. \A a, b \in Nat : a < b => <<a, b>> \in R
  BY Zenon DEF OpToRel
<1>2. IsWellFoundedOn(R, Nat)
  BY NatLessThanWellFounded
<1> HIDE DEF R
<1>3. PICK i \in S : \A j \in S : ~(<<j, i>> \in R)
  BY <1>2, WFMin
<1>4. ASSUME NEW j \in S
      PROVE  i <= j
  <2>1. ~(j < i)
    BY <1>1, <1>3
  <2>2. QED
    BY <2>1
<1>5. QED
  BY <1>4 DEF Least

\* Replacing an element of a sequence.
LEMMA Replaced ==
  ASSUME NEW S, NEW s \in Seq(S), NEW i \in DOMAIN s, NEW e \in S
  PROVE  /\ [s EXCEPT ![i] = e] \in Seq(S)
         /\ Len([s EXCEPT ![i] = e]) = Len(s) /\ DOMAIN [s EXCEPT ![i] = e] = DOMAIN s
         /\ \A j \in DOMAIN s : [s EXCEPT ![i] = e][j] = IF j = i THEN e ELSE s[j]
  OBVIOUS

\* A sequence made element by element.
LEMMA Made ==
  ASSUME NEW S, NEW n \in Nat, NEW f \in [1 .. n -> S]
  PROVE  f \in Seq(S) /\ Len(f) = n /\ DOMAIN f = 1 .. n
  OBVIOUS

-----------------------------------------------------------------------------
(* Types, and the batch of a turn                                          *)

AnswerKinds == Decisions \cup {None, "timeout", "unavailable"}
LoopRecord == [pc : Pcs, turn : Nat, mode : Modes, asks : BOOLEAN, step : Nat, stop : BOOLEAN,
               gate : Gates, calls : Seq(Calls), out : Seq(Outcomes), answers : Seq(AnswerKinds)]
Items == [asked : BOOLEAN, expired : BOOLEAN, answered : BOOLEAN,
          decision : Decisions \cup {"timeout"}, before : SUBSET Ids]
Marks == [turn : Loops \X Nat, gate : Gates, mode : Modes,
          what : {"began", "words", "stopped"}]

\* Where a turn stands says what is known of its batch x.
BatchFits(c, x) ==
  /\ Len(x.out) = Len(x.calls) /\ Len(x.answers) = Len(x.calls) /\ Len(x.calls) <= BatchOf[c]
  /\ x.turn <= TurnsOf[c] /\ (x.pc # "idle" => x.turn >= 1)
  /\ x.step <= StepsOf[c]
  /\ x.pc \in {"idle", "model"} => x.calls = <<>>
  /\ x.pc \notin {"idle", "model"} => x.step < StepsOf[c]
  /\ x.pc # "first" => \A i \in DOMAIN x.out : x.out[i] # None
  /\ x.pc = "first" => \A i \in DOMAIN x.answers : x.answers[i] = None
  /\ x.pc = "record" => \A i \in DOMAIN x.out : x.out[i] # "awaiting"
  /\ x.pc = "second" => \A i \in DOMAIN x.out : x.out[i] = "awaiting" => x.answers[i] # None
  /\ x.pc \in {"shown", "waiting"} =>
       \E i \in DOMAIN x.out : x.out[i] = "awaiting" /\ x.answers[i] = None
  /\ x.pc \in {"ask", "shown", "waiting"} => x.asks
  /\ x.stop => \A i \in DOMAIN x.out : x.out[i] \in {None, "stopped", "blocked"}

LoopTyped ==
  /\ loop \in [Loops -> LoopRecord]
  /\ \A c \in Loops : BatchFits(c, loop[c])

TypeInv ==
  /\ mode \in Modes /\ rules \in [Heads -> SUBSET Lists] /\ policy \in Policies
  /\ gate \in [Gates -> [given : BOOLEAN, seen : Modes \cup {None}]]
  /\ LoopTyped
  /\ item \in [Ids -> Items] /\ table \in SUBSET Ids
  /\ acked \in [Ids -> Decisions \cup {None}]
  /\ hist \in Seq(Marks)

\* The ids of a turn are those of the calls a batch of it may have.
LEMMA IdsAre ==
  ASSUME NEW c \in Loops, LoopTyped, ~At(c, "idle"), NEW i \in Nat, 1 <= i, i <= BatchOf[c]
  PROVE  /\ Id(c, i) \in Ids
         /\ Id(c, i)[1] = c /\ Id(c, i)[2] = loop[c].turn /\ Id(c, i)[3] = i
<1>1. BatchFits(c, loop[c]) /\ loop[c].turn \in Nat
  BY DEF LoopTyped, LoopRecord
<1>2. TurnsOf[c] \in Nat /\ BatchOf[c] \in Nat
  BY LoopAssumption
<1>3. loop[c].turn \in 1 .. TurnsOf[c]
  BY <1>1, <1>2 DEF BatchFits, At
<1>4. QED
  BY <1>2, <1>3 DEF Ids, Id

LEMMA IdParts ==
  ASSUME NEW a \in Ids
  PROVE  /\ a[1] \in Loops /\ a[2] \in Nat /\ a[3] \in 1 .. BatchOf[a[1]] /\ a[3] \in Nat
         /\ a = <<a[1], a[2], a[3]>>
<1>1. PICK c \in Loops : a \in {c} \X (1 .. TurnsOf[c]) \X (1 .. BatchOf[c])
  BY DEF Ids
<1>2. BatchOf[c] \in Nat /\ TurnsOf[c] \in Nat
  BY LoopAssumption
<1>3. QED
  BY <1>1, <1>2

\* A step of one thread keeps the turns typed if its own turn is.
LEMMA OneLoopMoves ==
  ASSUME LoopTyped, NEW c \in Loops, NEW x \in LoopRecord, BatchFits(c, x),
         loop' = [loop EXCEPT ![c] = x]
  PROVE  LoopTyped'
<1>1. loop' \in [Loops -> LoopRecord]
  BY DEF LoopTyped
<1>2. ASSUME NEW d \in Loops
      PROVE  BatchFits(d, loop'[d])
  BY DEF LoopTyped
<1>3. QED
  BY <1>1, <1>2 DEF LoopTyped, BatchFits

LEMMA IdleFits ==
  ASSUME NEW c \in Loops, NEW t \in Nat, t <= TurnsOf[c]
  PROVE  Idle(t) \in LoopRecord /\ BatchFits(c, Idle(t))
<1>1. Idle(t) \in LoopRecord
  BY DEF Idle, LoopRecord, Pcs, Modes, Gates
<1>2. BatchOf[c] \in Nat /\ StepsOf[c] \in Nat
  BY LoopAssumption
<1>3. QED
  BY <1>1, <1>2 DEF Idle, BatchFits

-----------------------------------------------------------------------------
(* One call                                                                *)

\* What executing a call can come to.
LEMMA OutcomeIs ==
  ASSUME NEW c, NEW call, NEW stop \in BOOLEAN, NEW approval,
         NEW outcome \in OutcomesOf(c, call, stop, approval)
  PROVE  /\ outcome \in Outcomes \ {None}
         /\ stop => outcome \in {"stopped", "blocked"}
         /\ approval # None => outcome # "awaiting"
         /\ outcome = "ran" => ~BlockedByMode(c, call)
         /\ outcome = "ran" /\ IsCommand(call) =>
              /\ Verdict(call) # "deny"
              /\ Verdict(call) = "allow" \/ ApprovalFor(c, call, approval) \in Allowing
<1> DEFINE expected == Outcome(c, call, stop, approval)
<1>1. /\ expected \in {"ran", "blocked", "stopped", "refused", "awaiting", "notapproved"}
      /\ stop => expected \in {"stopped", "blocked"}
      /\ approval # None => expected # "awaiting"
      /\ expected = "ran" => ~BlockedByMode(c, call)
      /\ expected = "ran" /\ IsCommand(call) =>
           /\ Verdict(call) # "deny"
           /\ Verdict(call) = "allow" \/ ApprovalFor(c, call, approval) \in Allowing
  <2>1. CASE BlockedByMode(c, call)
    BY <2>1 DEF Outcome
  <2>2. CASE ~BlockedByMode(c, call) /\ stop
    BY <2>2 DEF Outcome
  <2>3. CASE ~BlockedByMode(c, call) /\ ~stop /\ ~IsCommand(call)
    BY <2>3 DEF Outcome
  <2>4. CASE ~BlockedByMode(c, call) /\ ~stop /\ IsCommand(call)
    <3> DEFINE given == ApprovalFor(c, call, approval)
               v == Verdict(call)
    <3>1. expected = CASE v \in {"deny", "sandbox"} -> "refused"
                       [] v = "allow" -> "ran"
                       [] OTHER -> CASE given \in Allowing -> "ran"
                                     [] given = None -> "awaiting"
                                     [] OTHER -> "notapproved"
      BY <2>4 DEF Outcome
    <3>2. approval # None => given # None
      BY DEF ApprovalFor
    <3> HIDE DEF given, v, expected
    <3>3. /\ expected \in {"ran", "blocked", "stopped", "refused", "awaiting", "notapproved"}
          /\ given # None => expected # "awaiting"
          /\ expected = "ran" => v # "deny" /\ (v = "allow" \/ given \in Allowing)
      BY <3>1 DEF Allowing, None
    <3>4. QED
      BY <2>4, <3>2, <3>3 DEF given, v
  <2>5. QED
    BY <2>1, <2>2, <2>3, <2>4
<1>2. outcome = expected \/ (outcome = "failed" /\ expected \notin {"blocked", "stopped"})
  BY DEF OutcomesOf
<1> HIDE DEF expected
<1>3. QED
  BY <1>1, <1>2 DEF Outcomes, None

\* What executing a call does to the turn, the registry and the rules.
LEMMA ExecuteDoes ==
  ASSUME TypeInv, NEW c \in Loops, NEW i \in DOMAIN loop[c].out, NEW stop \in BOOLEAN,
         NEW approval \in AnswerKinds, Execute(c, i, stop, approval)
  PROVE  /\ Id(c, i) \in Ids
         /\ rules' \in [Heads -> SUBSET Lists]
         /\ \E outcome \in OutcomesOf(c, loop[c].calls[i], stop, approval) :
              /\ loop' = [loop EXCEPT ![c] = [loop[c] EXCEPT !.out = [loop[c].out EXCEPT ![i] = outcome]]]
              /\ Register(Id(c, i), outcome)
<1>1. loop[c] \in LoopRecord /\ BatchFits(c, loop[c]) /\ rules \in [Heads -> SUBSET Lists]
  BY DEF TypeInv, LoopTyped
<1>2. Id(c, i) \in Ids
  <2>1. i \in Nat /\ 1 <= i /\ i <= Len(loop[c].out)
    BY <1>1 DEF LoopRecord
  <2>2. Len(loop[c].out) <= BatchOf[c] /\ BatchOf[c] \in Nat /\ Len(loop[c].out) \in Nat
    BY <1>1, LoopAssumption DEF BatchFits, LoopRecord
  <2>3. ~At(c, "idle")
    BY <1>1, <2>1, <2>2 DEF BatchFits, At
  <2>4. QED
    BY <2>1, <2>2, <2>3, IdsAre DEF TypeInv
<1>3. PICK outcome \in OutcomesOf(c, loop[c].calls[i], stop, approval) :
        /\ loop' = [loop EXCEPT ![c].out[i] = outcome]
        /\ Register(Id(c, i), outcome)
        /\ AppendRule(c, loop[c].calls[i], stop, approval, outcome)
  BY DEF Execute
<1>4. loop' = [loop EXCEPT ![c] = [loop[c] EXCEPT !.out = [loop[c].out EXCEPT ![i] = outcome]]]
  BY <1>3
<1>5. rules' \in [Heads -> SUBSET Lists]
  BY <1>1, <1>3 DEF AppendRule, Lists
<1>6. QED
  BY <1>2, <1>3, <1>4, <1>5

\* What opening an approval does to the types.
LEMMA RegisterTyped ==
  ASSUME item \in [Ids -> Items], table \in SUBSET Ids, NEW a \in Ids, NEW outcome,
         Register(a, outcome)
  PROVE  item' \in [Ids -> Items] /\ table' \in SUBSET Ids
<1>1. CASE outcome = "awaiting"
  <2>1. [Fresh EXCEPT !.before = Live \ {a}] \in Items
    BY DEF Fresh, Items, Live
  <2>2. ASSUME NEW b \in Ids
        PROVE  [item[b] EXCEPT !.before = @ \ {a}] \in Items
    BY DEF Items
  <2>3. item' \in [Ids -> Items]
    BY <1>1, <2>1, <2>2 DEF Register
  <2>4. table' \in SUBSET Ids
    BY <1>1 DEF Register, Live
  <2>5. QED
    BY <2>3, <2>4
<1>2. CASE outcome # "awaiting"
  BY <1>2 DEF Register
<1>3. QED
  BY <1>1, <1>2

-----------------------------------------------------------------------------
(* Steps keep the types                                                    *)

\* A turn ends, and the history grows.
LEMMA EndTurnTyped ==
  ASSUME TypeInv, NEW c \in Loops, EndTurn(c)
  PROVE  LoopTyped'
<1>1. loop[c] \in LoopRecord /\ BatchFits(c, loop[c])
  BY DEF TypeInv, LoopTyped
<1>2. loop[c].turn \in Nat /\ loop[c].turn <= TurnsOf[c]
  BY <1>1 DEF BatchFits, LoopRecord
<1>3. loop' = [loop EXCEPT ![c] = Idle(loop[c].turn)]
  BY DEF EndTurn
<1>4. QED
  BY <1>2, <1>3, IdleFits, OneLoopMoves DEF TypeInv

LEMMA NotingTyped ==
  ASSUME TypeInv, NEW c \in Loops, NEW what \in {"began", "words", "stopped"}, Noting(c, what)
  PROVE  hist' \in Seq(Marks)
<1> DEFINE m == [turn |-> <<c, loop[c].turn>>, gate |-> loop[c].gate, mode |-> loop[c].mode,
                 what |-> what]
<1>1. loop[c] \in LoopRecord /\ hist \in Seq(Marks)
  BY DEF TypeInv, LoopTyped
<1>2. m \in Marks
  BY <1>1 DEF Marks, LoopRecord
<1>3. hist' = Append(hist, m)
  BY DEF Noting
<1> HIDE DEF m
<1>4. QED
  BY <1>1, <1>2, <1>3

LEMMA ForgetTyped ==
  ASSUME TypeInv, NEW gone, Forget(gone)
  PROVE  /\ item' \in [Ids -> Items] /\ table' \in SUBSET Ids
         /\ acked' \in [Ids -> Decisions \cup {None}]
<1>1. Fresh \in Items
  BY DEF Fresh, Items
<1>2. ASSUME NEW a \in Ids
      PROVE  [item[a] EXCEPT !.before = @ \ gone] \in Items
  <2>1. item[a] \in Items
    BY DEF TypeInv
  <2>2. QED
    BY <2>1 DEF Items
<1>3. item' \in [Ids -> Items]
  BY <1>1, <1>2 DEF Forget
<1>4. QED
  BY <1>3 DEF TypeInv, Forget

\* A call is executed: its place in the batch is filled.
LEMMA ExecuteTyped ==
  ASSUME TypeInv, NEW c \in Loops, NEW i \in DOMAIN loop[c].out, NEW stop \in BOOLEAN,
         NEW approval \in AnswerKinds, Execute(c, i, stop, approval),
         \/ At(c, "first") /\ stop = loop[c].stop
         \/ At(c, "second") /\ loop[c].out[i] = "awaiting" /\ approval # None
  PROVE  /\ LoopTyped'
         /\ rules' \in [Heads -> SUBSET Lists]
         /\ item' \in [Ids -> Items] /\ table' \in SUBSET Ids
<1>1. loop \in [Loops -> LoopRecord] /\ BatchFits(c, loop[c]) /\ loop[c] \in LoopRecord
  BY DEF TypeInv, LoopTyped
<1>2. PICK outcome \in OutcomesOf(c, loop[c].calls[i], stop, approval) :
        /\ loop' = [loop EXCEPT ![c] = [loop[c] EXCEPT !.out = [loop[c].out EXCEPT ![i] = outcome]]]
        /\ Register(Id(c, i), outcome)
  BY ExecuteDoes
<1>3. /\ outcome \in Outcomes /\ outcome # None
      /\ stop => outcome \in {"stopped", "blocked"}
      /\ approval # None => outcome # "awaiting"
  <2>1. ASSUME NEW call, outcome \in OutcomesOf(c, call, stop, approval)
        PROVE  /\ outcome \in Outcomes \ {None}
               /\ stop => outcome \in {"stopped", "blocked"}
               /\ approval # None => outcome # "awaiting"
    BY <2>1, OutcomeIs
  <2>2. QED
    BY <2>1
<1> DEFINE o == [loop[c].out EXCEPT ![i] = outcome]
           x == [loop[c] EXCEPT !.out = o]
<1>4. loop[c].out \in Seq(Outcomes)
  BY <1>1 DEF LoopRecord
<1>5. /\ o \in Seq(Outcomes) /\ Len(o) = Len(loop[c].out) /\ DOMAIN o = DOMAIN loop[c].out
      /\ \A j \in DOMAIN o : o[j] = IF j = i THEN outcome ELSE loop[c].out[j]
  BY <1>3, <1>4, Replaced
<1> HIDE DEF o
<1>6. /\ x \in LoopRecord /\ x.out = o
      /\ \A f \in {"pc", "turn", "mode", "asks", "step", "stop", "calls", "answers"} :
           x[f] = loop[c][f]
      /\ x.pc = loop[c].pc /\ x.turn = loop[c].turn /\ x.step = loop[c].step
      /\ x.stop = loop[c].stop /\ x.asks = loop[c].asks
      /\ x.calls = loop[c].calls /\ x.answers = loop[c].answers
  BY <1>1, <1>5 DEF LoopRecord
<1> HIDE DEF x
<1>7. BatchFits(c, x)
  <2>1. CASE At(c, "first") /\ stop = loop[c].stop
    BY <1>1, <1>3, <1>5, <1>6, <2>1 DEF BatchFits, At
  <2>2. CASE At(c, "second") /\ loop[c].out[i] = "awaiting" /\ approval # None
    <3>1. ~loop[c].stop
      BY <1>1, <2>2 DEF BatchFits, None
    <3>2. QED
      BY <1>1, <1>3, <1>5, <1>6, <2>2, <3>1 DEF BatchFits, At
  <2>3. QED
    BY <2>1, <2>2
<1>8. LoopTyped'
  BY <1>2, <1>6, <1>7, OneLoopMoves DEF TypeInv, x, o
<1>9. QED
  BY <1>2, <1>8, ExecuteDoes, RegisterTyped DEF TypeInv

\* A turn begins.
LEMMA StartTurnTyped ==
  ASSUME TypeInv, NEW c \in Loops, NEW asks \in BOOLEAN, NEW g \in Gates, StartTurn(c, asks, g)
  PROVE  LoopTyped' /\ hist' \in Seq(Marks)
         /\ gate' \in [Gates -> [given : BOOLEAN, seen : Modes \cup {None}]]
<1> DEFINE x == [Idle(loop[c].turn + 1) EXCEPT !.pc = "model", !.mode = mode, !.asks = asks,
                                               !.gate = g]
           m == [turn |-> <<c, loop[c].turn + 1>>, gate |-> g, mode |-> mode, what |-> "began"]
<1>1. loop \in [Loops -> LoopRecord] /\ BatchFits(c, loop[c]) /\ loop[c] \in LoopRecord
      /\ mode \in Modes /\ loop[c].turn \in Nat
  BY DEF TypeInv, LoopTyped, LoopRecord
<1>2. loop' = [loop EXCEPT ![c] = x] /\ loop[c].turn < TurnsOf[c] /\ At(c, "idle")
      /\ hist' = Append(hist, m)
  BY DEF StartTurn
<1>3. loop[c].turn + 1 <= TurnsOf[c] /\ loop[c].turn + 1 \in Nat
  <2>1. TurnsOf[c] \in Nat
    BY LoopAssumption
  <2>2. loop[c].turn < TurnsOf[c] /\ loop[c].turn \in Nat
    BY <1>1 DEF StartTurn
  <2>3. QED
    BY <2>1, <2>2
<1> DEFINE idle == Idle(loop[c].turn + 1)
<1>4. /\ idle \in LoopRecord /\ idle.turn = loop[c].turn + 1 /\ BatchFits(c, idle)
      /\ idle.calls = <<>> /\ idle.out = <<>> /\ idle.answers = <<>> /\ idle.stop = FALSE
      /\ idle.step = 0
  BY <1>3, IdleFits DEF Idle
<1> HIDE DEF idle
<1>5. /\ x \in LoopRecord /\ x.pc = "model" /\ x.turn = loop[c].turn + 1
      /\ x.calls = <<>> /\ x.out = <<>> /\ x.answers = <<>> /\ x.stop = FALSE /\ x.step = 0
  BY <1>1, <1>4 DEF LoopRecord, Pcs, idle
<1> HIDE DEF x
<1>6. BatchFits(c, x)
  BY <1>1, <1>3, <1>5, <1>4 DEF BatchFits
<1>7. LoopTyped'
  BY <1>2, <1>5, <1>6, OneLoopMoves DEF TypeInv
<1>8. hist' \in Seq(Marks)
  <2>1. m \in Marks /\ hist \in Seq(Marks)
    BY <1>1, <1>3 DEF Marks, TypeInv
  <2> HIDE DEF m
  <2>2. QED
    BY <1>2, <2>1
<1>9. gate' \in [Gates -> [given : BOOLEAN, seen : Modes \cup {None}]]
  <2>1. gate' = [gate EXCEPT ![g] = [given |-> gate[g].given /\ mode = "plan" /\ gate[g].seen = "plan",
                                     seen |-> mode]]
    BY DEF StartTurn
  <2>2. QED
    BY <1>1, <2>1 DEF TypeInv
<1>10. QED
  BY <1>7, <1>8, <1>9

\* The model asks for a batch.
LEMMA AskToolsTyped ==
  ASSUME TypeInv, NEW c \in Loops, NEW calls \in Batches(c), NEW late \in BOOLEAN,
         AskTools(c, calls, late)
  PROVE  LoopTyped'
<1>1. loop \in [Loops -> LoopRecord] /\ BatchFits(c, loop[c]) /\ loop[c] \in LoopRecord
      /\ StepsOf[c] \in Nat
  BY LoopAssumption DEF TypeInv, LoopTyped
<1>2. PICK n \in 1 .. BatchOf[c] : calls \in [1 .. n -> Calls]
  BY DEF Batches
<1>3. BatchOf[c] \in Nat /\ n \in Nat /\ n <= BatchOf[c]
  BY <1>2, LoopAssumption
<1>4. calls \in Seq(Calls) /\ Len(calls) = n
  BY <1>2, <1>3, Made
<1> DEFINE stop == late \/ loop[c].step = StepsOf[c] - 1
           o == [i \in 1 .. Len(calls) |-> None]
           x == [loop[c] EXCEPT !.pc = "first", !.calls = calls, !.stop = stop,
                                !.out = o, !.answers = o]
<1>5. loop' = [loop EXCEPT ![c] = x] /\ At(c, "model") /\ loop[c].step < StepsOf[c]
  BY <1>1 DEF AskTools, StepsLeft
<1>6. /\ o \in Seq(Outcomes) /\ o \in Seq(AnswerKinds) /\ Len(o) = n
      /\ \A i \in DOMAIN o : o[i] = None
  <2>1. o \in [1 .. n -> {None}]
    BY <1>4
  <2>2. o \in [1 .. n -> Outcomes] /\ o \in [1 .. n -> AnswerKinds]
    BY <2>1 DEF Outcomes, AnswerKinds
  <2> HIDE DEF o
  <2>3. QED
    BY <1>3, <2>1, <2>2, Made
<1> HIDE DEF o, stop
<1>7. /\ x \in LoopRecord /\ x.pc = "first" /\ x.turn = loop[c].turn /\ x.step = loop[c].step
      /\ x.calls = calls /\ x.out = o /\ x.answers = o
  BY <1>1, <1>4, <1>6 DEF LoopRecord, Pcs, stop
<1> HIDE DEF x
<1>8. BatchFits(c, x)
  BY <1>1, <1>3, <1>4, <1>5, <1>6, <1>7 DEF BatchFits, At
<1>9. QED
  BY <1>5, <1>7, <1>8, OneLoopMoves DEF TypeInv

\* The calls that wait for an answer, and those whose question was not settled.
LEMMA PendingIs ==
  ASSUME TypeInv, NEW c \in Loops
  PROVE  /\ Pending(c) \in SUBSET Nat /\ Unasked(c) \in SUBSET Pending(c)
         /\ Pending(c) \subseteq DOMAIN loop[c].out
         /\ DOMAIN loop[c].out = DOMAIN loop[c].answers
         /\ DOMAIN loop[c].out = DOMAIN loop[c].calls
         /\ DOMAIN loop[c].out = 1 .. Len(loop[c].out)
         /\ loop[c].pc \in {"shown", "waiting"} => Unasked(c) # {}
         /\ Unasked(c) # {} => Least(Unasked(c)) \in Unasked(c)
         /\ Pending(c) # {} => Least(Pending(c)) \in Pending(c)
<1>1. loop[c] \in LoopRecord /\ BatchFits(c, loop[c])
  BY DEF TypeInv, LoopTyped
<1>2. /\ loop[c].out \in Seq(Outcomes) /\ loop[c].answers \in Seq(AnswerKinds)
      /\ loop[c].calls \in Seq(Calls)
      /\ Len(loop[c].out) = Len(loop[c].answers) /\ Len(loop[c].out) = Len(loop[c].calls)
  BY <1>1 DEF LoopRecord, BatchFits
<1>3. /\ DOMAIN loop[c].out = 1 .. Len(loop[c].out) /\ DOMAIN loop[c].out = DOMAIN loop[c].answers
      /\ DOMAIN loop[c].out = DOMAIN loop[c].calls /\ DOMAIN loop[c].out \subseteq Nat
  <2>1. ASSUME NEW S, NEW s \in Seq(S)
        PROVE  DOMAIN s = 1 .. Len(s) /\ DOMAIN s \subseteq Nat
    BY <2>1
  <2>2. QED
    BY <1>2, <2>1
<1>4. Pending(c) \subseteq DOMAIN loop[c].out /\ Unasked(c) \subseteq Pending(c)
  BY DEF Pending, Unasked
<1>5. loop[c].pc \in {"shown", "waiting"} => Unasked(c) # {}
  BY <1>1 DEF BatchFits, Pending, Unasked
<1>6. Pending(c) \in SUBSET Nat /\ Unasked(c) \in SUBSET Nat
  BY <1>3, <1>4
<1>7. QED
  BY <1>3, <1>4, <1>5, <1>6, LeastIsIn

\* The answers change, and the turn goes on from pc.
LEMMA AnswersTyped ==
  ASSUME TypeInv, NEW c \in Loops, NEW pc \in Pcs \ {"idle", "model", "first"},
         NEW answers \in Seq(AnswerKinds), Len(answers) = Len(loop[c].answers),
         ~At(c, "idle"), ~At(c, "model"),
         loop' = [loop EXCEPT ![c] = [loop[c] EXCEPT !.pc = pc, !.answers = answers]],
         Unexecuted(c) = {},
         pc = "record" => Pending(c) = {},
         pc = "second" => \A i \in Pending(c) : answers[i] # None,
         pc \in {"shown", "waiting"} => \E i \in Pending(c) : answers[i] = None,
         pc \in {"ask", "shown", "waiting"} => loop[c].asks
  PROVE  LoopTyped'
<1> DEFINE x == [loop[c] EXCEPT !.pc = pc, !.answers = answers]
<1>1. loop[c] \in LoopRecord /\ BatchFits(c, loop[c])
  BY DEF TypeInv, LoopTyped
<1>2. /\ x \in LoopRecord /\ x.pc = pc /\ x.turn = loop[c].turn /\ x.step = loop[c].step
      /\ x.calls = loop[c].calls /\ x.out = loop[c].out /\ x.answers = answers
      /\ x.asks = loop[c].asks /\ x.stop = loop[c].stop
  BY <1>1 DEF LoopRecord
<1>3. loop' = [loop EXCEPT ![c] = x]
  OBVIOUS
<1> HIDE DEF x
<1>4. BatchFits(c, x)
  BY <1>1, <1>2 DEF BatchFits, Pending, Unexecuted, At
<1>5. QED
  BY <1>2, <1>3, <1>4, OneLoopMoves DEF TypeInv

\* Which calls of a batch are executed is known once it is.
LEMMA BatchIsDone ==
  ASSUME TypeInv, NEW c \in Loops, ~At(c, "first")
  PROVE  Unexecuted(c) = {}
  BY DEF TypeInv, LoopTyped, BatchFits, Unexecuted, At

\* What is pending of a batch once all of it was executed, and where that leads.
LEMMA ResolveTyped ==
  ASSUME TypeInv, NEW c \in Loops, Resolve(c)
  PROVE  LoopTyped'
<1> DEFINE asks == loop[c].asks
           p == AfterFirst(c)
           w == [i \in DOMAIN loop[c].answers |->
                   IF i \in Pending(c) /\ ~asks THEN "unavailable" ELSE None]
<1>1. loop \in [Loops -> LoopRecord] /\ loop[c] \in LoopRecord /\ loop[c].asks \in BOOLEAN
  BY DEF TypeInv, LoopTyped, LoopRecord
<1>2. loop' = [loop EXCEPT ![c] = [loop[c] EXCEPT !.pc = p, !.answers = w]]
      /\ At(c, "first") /\ Unexecuted(c) = {}
  BY <1>1 DEF Resolve
<1>3. w \in Seq(AnswerKinds) /\ Len(w) = Len(loop[c].answers) /\ DOMAIN w = DOMAIN loop[c].answers
  <2>1. loop[c].answers \in Seq(AnswerKinds)
    BY <1>1 DEF LoopRecord
  <2>2. Len(loop[c].answers) \in Nat /\ DOMAIN loop[c].answers = 1 .. Len(loop[c].answers)
    BY <2>1
  <2>3. w \in [1 .. Len(loop[c].answers) -> AnswerKinds]
    BY <2>2 DEF AnswerKinds
  <2> HIDE DEF w
  <2>4. QED
    BY <2>2, <2>3, Made
<1>4. p \in {"record", "ask", "second"}
      /\ (p = "record" => Pending(c) = {})
      /\ (p = "ask" => asks)
      /\ (p = "second" => ~asks)
  BY <1>1 DEF AfterFirst
<1>5. p = "second" => \A i \in Pending(c) : w[i] # None
  BY <1>4, PendingIs DEF None
<1> HIDE DEF w, p
<1>6. p \in Pcs \ {"idle", "model", "first"}
  BY <1>4 DEF Pcs
<1>7. QED
  BY <1>1, <1>2, <1>3, <1>4, <1>5, <1>6, AnswersTyped DEF At

LEMMA AskTyped ==
  ASSUME TypeInv, NEW c \in Loops, Ask(c)
  PROVE  LoopTyped' /\ item' \in [Ids -> Items]
<1> DEFINE p == IF Unasked(c) = {} THEN "second" ELSE "shown"
           w == loop[c].answers
<1>1. loop \in [Loops -> LoopRecord] /\ loop[c] \in LoopRecord /\ w \in Seq(AnswerKinds)
      /\ BatchFits(c, loop[c])
  BY DEF TypeInv, LoopTyped, LoopRecord
<1>2. loop' = [loop EXCEPT ![c] = [loop[c] EXCEPT !.pc = p]] /\ At(c, "ask")
  BY DEF Ask
<1>3. loop' = [loop EXCEPT ![c] = [loop[c] EXCEPT !.pc = p, !.answers = w]]
  BY <1>1, <1>2 DEF LoopRecord
<1>4. /\ p \in {"second", "shown"}
      /\ (p = "second" => \A i \in Pending(c) : w[i] # None)
      /\ (p = "shown" => \E i \in Pending(c) : w[i] = None)
  BY DEF Unasked
<1>5. Unexecuted(c) = {} /\ loop[c].asks
  BY <1>1, <1>2, BatchIsDone DEF At, BatchFits
<1> HIDE DEF p, w
<1>6. p \in Pcs \ {"idle", "model", "first"}
  BY <1>4 DEF Pcs
<1>7. LoopTyped'
  BY <1>1, <1>2, <1>3, <1>4, <1>5, <1>6, AnswersTyped DEF At, w
<1>8. ASSUME NEW a \in Ids
      PROVE  item[a] \in Items /\ [item[a] EXCEPT !.asked = TRUE] \in Items
  <2>1. item[a] \in Items
    BY DEF TypeInv
  <2>2. QED
    BY <2>1 DEF Items
<1>9. item' \in [Ids -> Items]
  BY <1>8 DEF Ask, TypeInv
<1>10. QED
  BY <1>7, <1>9

\* A question is settled.
LEMMA AnsweredTyped ==
  ASSUME TypeInv, NEW c \in Loops, loop[c].pc \in {"shown", "waiting"},
         NEW decision \in AnswerKinds, Answered(c, Least(Unasked(c)), decision)
  PROVE  LoopTyped'
<1> DEFINE k == Least(Unasked(c))
           w == [loop[c].answers EXCEPT ![k] = decision]
<1>1. loop \in [Loops -> LoopRecord] /\ loop[c] \in LoopRecord /\ loop[c].answers \in Seq(AnswerKinds)
      /\ BatchFits(c, loop[c])
  BY DEF TypeInv, LoopTyped, LoopRecord
<1>2. loop' = [loop EXCEPT ![c] = [loop[c] EXCEPT !.pc = "ask", !.answers = w]]
  BY <1>1 DEF Answered
<1>3. k \in DOMAIN loop[c].answers
  BY PendingIs
<1> HIDE DEF k
<1>4. w \in Seq(AnswerKinds) /\ Len(w) = Len(loop[c].answers)
  BY <1>1, <1>3, Replaced
<1>5. Unexecuted(c) = {} /\ loop[c].asks
  BY <1>1, BatchIsDone DEF At, BatchFits
<1> HIDE DEF w
<1>6. /\ "ask" \in Pcs \ {"idle", "model", "first"}
      /\ "ask" # "record" /\ "ask" # "second" /\ "ask" \notin {"shown", "waiting"}
      /\ ~At(c, "idle") /\ ~At(c, "model")
  BY DEF At, Pcs
<1>7. QED
  BY <1>2, <1>4, <1>5, <1>6, AnswersTyped, Zenon

LEMMA WaitTyped ==
  ASSUME TypeInv, NEW c \in Loops, Wait(c)
  PROVE  LoopTyped'
<1>1. loop \in [Loops -> LoopRecord] /\ loop[c] \in LoopRecord /\ loop[c].answers \in Seq(AnswerKinds)
      /\ BatchFits(c, loop[c])
  BY DEF TypeInv, LoopTyped, LoopRecord
<1>2. loop[c].pc = "shown"
  BY DEF Wait, At
<1>3. CASE Id(c, Least(Unasked(c))) \in table
  <2>1. loop' = [loop EXCEPT ![c] = [loop[c] EXCEPT !.pc = "waiting", !.answers = loop[c].answers]]
    BY <1>1, <1>3 DEF Wait, LoopRecord
  <2>2. Unexecuted(c) = {} /\ loop[c].asks
    BY <1>1, <1>2, BatchIsDone DEF At, BatchFits
  <2>3. \E i \in Pending(c) : loop[c].answers[i] = None
    BY <1>1, <1>2 DEF BatchFits, Pending
  <2>4. /\ "waiting" \in Pcs \ {"idle", "model", "first"}
        /\ "waiting" # "record" /\ "waiting" # "second"
        /\ ~At(c, "idle") /\ ~At(c, "model")
    BY <1>2 DEF At, Pcs
  <2>5. QED
    BY <1>1, <1>2, <2>1, <2>2, <2>3, <2>4, AnswersTyped, Zenon
<1>4. CASE Id(c, Least(Unasked(c))) \notin table
  BY <1>2, <1>4, AnsweredTyped DEF Wait, AnswerKinds
<1>5. QED
  BY <1>3, <1>4

\* The call whose question is out has an id.
LEMMA AwaitedId ==
  ASSUME TypeInv, NEW c \in Loops, Unasked(c) # {}
  PROVE  LET k == Least(Unasked(c))
         IN /\ Id(c, k) \in Ids
            /\ Id(c, k)[1] = c /\ Id(c, k)[2] = loop[c].turn /\ Id(c, k)[3] = k
            /\ loop[c].out[k] = "awaiting" /\ loop[c].answers[k] = None
            /\ k \in DOMAIN loop[c].out
<1> DEFINE k == Least(Unasked(c))
<1>1. loop[c] \in LoopRecord /\ BatchFits(c, loop[c])
  BY DEF TypeInv, LoopTyped
<1>2. k \in Unasked(c) /\ k \in Pending(c) /\ k \in 1 .. Len(loop[c].out)
  BY PendingIs
<1> HIDE DEF k
<1>3. loop[c].out \in Seq(Outcomes) /\ Len(loop[c].out) \in Nat
      /\ Len(loop[c].out) <= BatchOf[c] /\ BatchOf[c] \in Nat
  BY <1>1, LoopAssumption DEF BatchFits, LoopRecord
<1>4. ~At(c, "idle")
  <2>1. loop[c].pc = "idle" => Len(loop[c].out) = 0
    BY <1>1 DEF BatchFits
  <2>2. QED
    BY <1>2, <1>3, <2>1 DEF At
<1>5. /\ Id(c, k) \in Ids
      /\ Id(c, k)[1] = c /\ Id(c, k)[2] = loop[c].turn /\ Id(c, k)[3] = k
  BY <1>2, <1>3, <1>4, IdsAre DEF TypeInv
<1>6. QED
  BY <1>2, <1>5 DEF Unasked, Pending, k

LEMMA WakeTyped ==
  ASSUME TypeInv, NEW c \in Loops, Wake(c)
  PROVE  LoopTyped' /\ table' \in SUBSET Ids
<1> DEFINE a == Id(c, Least(Unasked(c)))
<1>1. loop[c].pc = "waiting"
      /\ Answered(c, Least(Unasked(c)), item[a].decision) /\ table' = table \ {a}
  BY DEF Wake, At, Settled, TakenOut
<1>2. a \in Ids
  BY <1>1, PendingIs, AwaitedId
<1> HIDE DEF a
<1>3. item[a].decision \in AnswerKinds
  BY <1>2 DEF TypeInv, Items, AnswerKinds
<1>4. QED
  BY <1>1, <1>3, AnsweredTyped DEF TypeInv

\* The results are recorded, and the next step begins.
LEMMA RecordTyped ==
  ASSUME TypeInv, NEW c \in Loops, Record(c)
  PROVE  LoopTyped'
<1> DEFINE x == [Idle(loop[c].turn) EXCEPT !.pc = "model", !.mode = loop[c].mode,
                                           !.asks = loop[c].asks, !.gate = loop[c].gate, !.step = loop[c].step + 1]
<1>1. /\ loop \in [Loops -> LoopRecord] /\ loop[c] \in LoopRecord /\ BatchFits(c, loop[c])
      /\ StepsOf[c] \in Nat /\ loop[c].step \in Nat
  BY LoopAssumption DEF TypeInv, LoopTyped, LoopRecord
<1>2. loop' = [loop EXCEPT ![c] = x]
  BY DEF Record
<1>3. loop[c].pc \in {"record", "second"} /\ loop[c].turn \in Nat
  BY <1>1 DEF Record, Complete, At, LoopRecord
<1>4. loop[c].step < StepsOf[c] /\ loop[c].turn <= TurnsOf[c] /\ loop[c].turn >= 1
  BY <1>1, <1>3 DEF BatchFits
<1>5. loop[c].step + 1 <= StepsOf[c] /\ loop[c].step + 1 \in Nat
  BY <1>1, <1>4
<1> DEFINE idle == Idle(loop[c].turn)
<1>6. idle \in LoopRecord /\ BatchFits(c, idle)
      /\ idle.turn = loop[c].turn /\ idle.calls = <<>> /\ idle.out = <<>> /\ idle.answers = <<>>
      /\ idle.stop = FALSE
  BY <1>3, <1>4, IdleFits DEF Idle
<1> HIDE DEF idle
<1>7. /\ x \in LoopRecord /\ x.pc = "model" /\ x.turn = loop[c].turn /\ x.step = loop[c].step + 1
      /\ x.calls = <<>> /\ x.out = <<>> /\ x.answers = <<>> /\ x.stop = FALSE
  BY <1>1, <1>5, <1>6 DEF LoopRecord, Pcs, idle
<1> HIDE DEF x
<1>8. BatchFits(c, x)
  BY <1>4, <1>5, <1>6, <1>7 DEF BatchFits
<1>9. QED
  BY <1>2, <1>7, <1>8, OneLoopMoves DEF TypeInv

\* The type invariant of the next state, part by part.
LEMMA TypesAreNext ==
  TypeInv' <=>
    /\ mode' \in Modes /\ rules' \in [Heads -> SUBSET Lists] /\ policy' \in Policies
    /\ gate' \in [Gates -> [given : BOOLEAN, seen : Modes \cup {None}]]
    /\ LoopTyped'
    /\ item' \in [Ids -> Items] /\ table' \in SUBSET Ids
    /\ acked' \in [Ids -> Decisions \cup {None}]
    /\ hist' \in Seq(Marks)
  BY DEF TypeInv

\* Nothing happens to a turn in what the user and the clock do.
LEMMA LoopsStay ==
  ASSUME TypeInv, loop' = loop
  PROVE  LoopTyped'
  BY DEF TypeInv, LoopTyped

\* The calls that may run have not run.
LEMMA RunnableIs ==
  ASSUME NEW c \in Loops
  PROVE  Runnable(c) \subseteq Unexecuted(c)
  BY DEF Runnable

\* The first pass and the second execute calls of the batch.
LEMMA PassesExecute ==
  ASSUME TypeInv, NEW c \in Loops
  PROVE  /\ \A i : ExecuteFirst(c, i) =>
              /\ At(c, "first") /\ i \in DOMAIN loop[c].out /\ loop[c].out[i] = None
              /\ Execute(c, i, loop[c].stop, None)
         /\ ExecuteSecond(c) =>
              \E i \in DOMAIN loop[c].out :
                /\ At(c, "second") /\ loop[c].out[i] = "awaiting"
                /\ loop[c].answers[i] # None /\ loop[c].answers[i] \in AnswerKinds
                /\ Execute(c, i, FALSE, loop[c].answers[i])
<1>1. loop[c] \in LoopRecord /\ BatchFits(c, loop[c])
  BY DEF TypeInv, LoopTyped
<1>2. ASSUME NEW i, ExecuteFirst(c, i)
      PROVE  /\ At(c, "first") /\ i \in DOMAIN loop[c].out /\ loop[c].out[i] = None
             /\ Execute(c, i, loop[c].stop, None)
  BY <1>2, RunnableIs DEF ExecuteFirst, Unexecuted
<1>3. ASSUME ExecuteSecond(c)
      PROVE  \E i \in DOMAIN loop[c].out :
               /\ At(c, "second") /\ loop[c].out[i] = "awaiting"
               /\ loop[c].answers[i] # None /\ loop[c].answers[i] \in AnswerKinds
               /\ Execute(c, i, FALSE, loop[c].answers[i])
  <2> DEFINE i == Least(Pending(c))
  <2>1. At(c, "second") /\ Pending(c) # {} /\ Execute(c, i, FALSE, loop[c].answers[i])
    BY <1>3 DEF ExecuteSecond, DecisionOn
  <2>2. i \in DOMAIN loop[c].out /\ loop[c].out[i] = "awaiting" /\ i \in DOMAIN loop[c].answers
    BY <2>1, PendingIs DEF Pending
  <2> HIDE DEF i
  <2>3. loop[c].answers[i] # None
    BY <1>1, <2>1, <2>2 DEF BatchFits, At
  <2>4. loop[c].answers \in Seq(AnswerKinds)
    BY <1>1 DEF LoopRecord
  <2>5. loop[c].answers[i] \in AnswerKinds
    BY <2>2, <2>4
  <2>6. QED
    BY <2>1, <2>2, <2>3, <2>5
<1>4. QED
  BY <1>2, <1>3

LEMMA TurnKeepsTypes ==
  ASSUME TypeInv, NEW c \in Loops, LoopStep(c) \/ Stop(c)
  PROVE  TypeInv'
<1> USE TypesAreNext
<1>1. ASSUME NEW asks \in BOOLEAN, NEW g \in Gates, StartTurn(c, asks, g)
      PROVE  TypeInv'
  BY <1>1, StartTurnTyped DEF StartTurn, TypeInv
<1>2. ASSUME NEW text \in BOOLEAN, Answer(c, text)
      PROVE  TypeInv'
  <2>1. LoopTyped' /\ hist' \in Seq(Marks)
    BY <1>2, EndTurnTyped, NotingTyped DEF Answer, TypeInv
  <2>2. gate' \in [Gates -> [given : BOOLEAN, seen : Modes \cup {None}]]
    BY <1>2 DEF Answer, NotesPlan, TypeInv
  <2>3. QED
    BY <1>2, <2>1, <2>2 DEF Answer, TypeInv
<1>3. ASSUME GiveUp(c)
      PROVE  TypeInv'
  <2>1. LoopTyped'
    BY <1>3, EndTurnTyped DEF GiveUp
  <2>2. QED
    BY <1>3, <2>1 DEF GiveUp, TypeInv
<1>4. ASSUME NEW calls \in Batches(c), NEW late \in BOOLEAN, AskTools(c, calls, late)
      PROVE  TypeInv'
  BY <1>4, AskToolsTyped DEF AskTools, TypeInv
<1>5. ASSUME NEW i, ExecuteFirst(c, i)
      PROVE  TypeInv'
  <2>1. /\ At(c, "first") /\ i \in DOMAIN loop[c].out /\ Execute(c, i, loop[c].stop, None)
        /\ UNCHANGED <<mode, policy, gate, acked, hist>>
    BY <1>5, PassesExecute DEF ExecuteFirst
  <2>2. loop[c].stop \in BOOLEAN /\ None \in AnswerKinds
    BY DEF TypeInv, LoopTyped, LoopRecord, AnswerKinds
  <2>3. /\ LoopTyped' /\ rules' \in [Heads -> SUBSET Lists]
        /\ item' \in [Ids -> Items] /\ table' \in SUBSET Ids
    BY <2>1, <2>2, ExecuteTyped
  <2>4. QED
    BY <2>1, <2>3 DEF TypeInv
<1>6. ASSUME ExecuteSecond(c)
      PROVE  TypeInv'
  <2>1. PICK i \in DOMAIN loop[c].out :
          /\ At(c, "second") /\ loop[c].out[i] = "awaiting"
          /\ loop[c].answers[i] # None /\ loop[c].answers[i] \in AnswerKinds
          /\ Execute(c, i, FALSE, loop[c].answers[i])
    BY <1>6, PassesExecute
  <2>2. UNCHANGED <<mode, policy, gate, acked, hist>>
    BY <1>6 DEF ExecuteSecond
  <2>3. /\ LoopTyped' /\ rules' \in [Heads -> SUBSET Lists]
        /\ item' \in [Ids -> Items] /\ table' \in SUBSET Ids
    BY <2>1, <2>2, ExecuteTyped
  <2>4. QED
    BY <2>2, <2>3 DEF TypeInv
<1>7. ASSUME Resolve(c)
      PROVE  TypeInv'
  BY <1>7, ResolveTyped DEF Resolve, TypeInv
<1>8. ASSUME Ask(c)
      PROVE  TypeInv'
  BY <1>8, AskTyped DEF Ask, TypeInv
<1>9. ASSUME Wait(c)
      PROVE  TypeInv'
  BY <1>9, WaitTyped DEF Wait, TypeInv
<1>10. ASSUME Wake(c)
       PROVE  TypeInv'
  BY <1>10, WakeTyped DEF Wake, TypeInv
<1>11. ASSUME Record(c)
       PROVE  TypeInv'
  BY <1>11, RecordTyped, ForgetTyped DEF Record, Dropped, TypeInv
<1>12. ASSUME Stop(c)
       PROVE  TypeInv'
  <2>1. LoopTyped' /\ hist' \in Seq(Marks)
    BY <1>12, EndTurnTyped, NotingTyped DEF Stop
  <2>2. QED
    BY <1>12, <2>1, ForgetTyped DEF Stop, Dropped, TypeInv
<1>13. QED
  BY <1>1, <1>2, <1>3, <1>4, <1>5, <1>6, <1>7, <1>8, <1>9, <1>10, <1>11, <1>12 DEF LoopStep

LEMMA RestartKeepsTypes ==
  ASSUME TypeInv, Restart
  PROVE  TypeInv'
<1>1. loop' = [c \in Loops |-> Idle(loop[c].turn)]
  BY DEF Restart
<1>2. \A c \in Loops : loop[c].turn \in Nat /\ loop[c].turn <= TurnsOf[c] /\ loop[c].mode \in Modes
  BY DEF TypeInv, LoopTyped, LoopRecord, BatchFits
<1>3. LoopTyped'
  <2>1. ASSUME NEW c \in Loops
        PROVE  loop'[c] \in LoopRecord /\ BatchFits(c, loop'[c])
    BY <1>1, <1>2, IdleFits
  <2>2. loop' \in [Loops -> LoopRecord]
    BY <1>1, <2>1
  <2>3. QED
    BY <2>1, <2>2 DEF LoopTyped, BatchFits
<1>4. hist' \in Seq(Marks)
  BY DEF Restart
<1>5. /\ item' \in [Ids -> Items] /\ table' \in SUBSET Ids
      /\ acked' \in [Ids -> Decisions \cup {None}]
      /\ gate' \in [Gates -> [given : BOOLEAN, seen : Modes \cup {None}]]
      /\ UNCHANGED <<mode, rules, policy>>
  <2>1. Fresh \in Items
    BY DEF Fresh, Items
  <2>2. QED
    BY <2>1 DEF Restart
<1>6. QED
  BY <1>3, <1>4, <1>5, TypesAreNext DEF TypeInv

\* An approval that expires keeps all else.
LEMMA ExpiredIsItem ==
  ASSUME NEW x \in Items
  PROVE  [x EXCEPT !.expired = TRUE] \in Items
  BY DEF Items

LEMMA TypeInductive == TypeInv /\ [Next]_vars => TypeInv'
<1> SUFFICES ASSUME TypeInv, [Next]_vars
             PROVE  TypeInv'
  OBVIOUS
<1> USE TypesAreNext, LoopsStay DEF TypeInv
<1>1. ASSUME NEW a \in Ids, NEW d \in Decisions, Decide(a, d)
      PROVE  TypeInv'
  <2>1. item' \in [Ids -> Items] /\ acked' \in [Ids -> Decisions \cup {None}]
    BY <1>1 DEF Decide, Items
  <2>2. QED
    BY <1>1, <2>1 DEF Decide
<1>2. CASE Expire
  <2>1. PICK a \in Live :
          IF Running(a)
            THEN item' = [item EXCEPT ![a].expired = TRUE] /\ UNCHANGED <<table, acked>>
            ELSE Forget({a})
    BY <1>2 DEF Expire
  <2>2. item \in [Ids -> Items] /\ a \in Ids
    BY <2>1 DEF Live
  <2>3. [item[a] EXCEPT !.expired = TRUE] \in Items
    BY <2>2, ExpiredIsItem
  <2>4. /\ item' \in [Ids -> Items] /\ table' \in SUBSET Ids
        /\ acked' \in [Ids -> Decisions \cup {None}]
    BY <2>1, <2>2, <2>3, ForgetTyped
  <2>5. QED
    BY <1>2, <2>4 DEF Expire
<1>3. CASE OpenElsewhere
  BY <1>3 DEF OpenElsewhere, Live
<1>4. ASSUME NEW m \in Modes, SwitchMode(m)
      PROVE  TypeInv'
  BY <1>4 DEF SwitchMode
<1>5. ASSUME NEW h \in Heads, NEW list \in Lists, EditRules(h, list)
      PROVE  TypeInv'
  BY <1>5 DEF EditRules
<1>6. ASSUME NEW q \in Policies, SetPolicy(q)
      PROVE  TypeInv'
  BY <1>6 DEF SetPolicy
<1>7. CASE UNCHANGED vars
  BY <1>7 DEF vars
<1>8. QED
  BY <1>1, <1>2, <1>3, <1>4, <1>5, <1>6, <1>7, TurnKeepsTypes, RestartKeepsTypes DEF Next

LEMMA TypeInitially == Init => TypeInv
<1> SUFFICES ASSUME Init
             PROVE  TypeInv
  OBVIOUS
<1>1. ASSUME NEW c \in Loops
      PROVE  Idle(0) \in LoopRecord /\ BatchFits(c, Idle(0))
  BY IdleFits, LoopAssumption
<1>2. LoopTyped
  BY <1>1 DEF Init, LoopTyped
<1>3. hist \in Seq(Marks)
  BY DEF Init
<1>4. Fresh \in Items
  BY DEF Fresh, Items
<1>5. QED
  BY <1>2, <1>3, <1>4 DEF TypeInv, Init, Lists, Policies, None

\* Every variable keeps its type, and a turn has an outcome and an answer for
\* each call of its batch, however turns, answers and edits interleave.
THEOREM LoopTypeCorrect == Spec => []TypeOK
<1>1. TypeInv => TypeOK
  <2> SUFFICES ASSUME TypeInv
               PROVE  TypeOK
    OBVIOUS
  <2>1. ASSUME NEW c \in Loops
        PROVE  /\ loop[c].pc \in Pcs
               /\ loop[c].turn \in 0 .. TurnsOf[c]
               /\ loop[c].mode \in Modes
               /\ loop[c].step \in 0 .. StepsOf[c]
               /\ loop[c].stop \in BOOLEAN /\ loop[c].asks \in BOOLEAN
               /\ loop[c].gate \in Gates
               /\ loop[c].calls \in Batches(c) \cup {<<>>}
               /\ loop[c].out \in [DOMAIN loop[c].calls -> Outcomes]
               /\ loop[c].answers \in [DOMAIN loop[c].calls ->
                                       Decisions \cup {None, "timeout", "unavailable"}]
    <3>1. loop[c] \in LoopRecord /\ BatchFits(c, loop[c])
      BY DEF TypeInv, LoopTyped
    <3>2. TurnsOf[c] \in Nat /\ BatchOf[c] \in Nat /\ StepsOf[c] \in Nat
      BY LoopAssumption
    <3>3. /\ loop[c].calls \in Seq(Calls) /\ loop[c].out \in Seq(Outcomes)
          /\ loop[c].answers \in Seq(AnswerKinds)
          /\ Len(loop[c].out) = Len(loop[c].calls) /\ Len(loop[c].answers) = Len(loop[c].calls)
          /\ Len(loop[c].calls) <= BatchOf[c]
      BY <3>1 DEF LoopRecord, BatchFits
    <3>4. ASSUME NEW S, NEW s \in Seq(S)
          PROVE  Len(s) \in Nat /\ s \in [1 .. Len(s) -> S] /\ DOMAIN s = 1 .. Len(s)
                 /\ (Len(s) = 0 => s = <<>>)
      BY <3>4
    <3>5. loop[c].calls \in Batches(c) \cup {<<>>}
      <4> DEFINE n == Len(loop[c].calls)
      <4>1. n \in Nat /\ n <= BatchOf[c] /\ loop[c].calls \in [1 .. n -> Calls]
            /\ (n = 0 => loop[c].calls = <<>>)
        BY <3>3, <3>4
      <4> HIDE DEF n
      <4>2. n # 0 => n \in 1 .. BatchOf[c]
        BY <3>2, <4>1
      <4>3. QED
        BY <4>1, <4>2 DEF Batches
    <3>6. /\ loop[c].out \in [DOMAIN loop[c].calls -> Outcomes]
          /\ loop[c].answers \in [DOMAIN loop[c].calls -> AnswerKinds]
      BY <3>3, <3>4
    <3>7. /\ loop[c].pc \in Pcs /\ loop[c].mode \in Modes
          /\ loop[c].stop \in BOOLEAN /\ loop[c].asks \in BOOLEAN /\ loop[c].gate \in Gates
          /\ loop[c].turn \in Nat /\ loop[c].step \in Nat
      BY <3>1 DEF LoopRecord
    <3>8. loop[c].turn \in 0 .. TurnsOf[c] /\ loop[c].step \in 0 .. StepsOf[c]
      BY <3>1, <3>2, <3>7 DEF BatchFits
    <3>9. QED
      BY <3>5, <3>6, <3>7, <3>8 DEF AnswerKinds
  <2>2. ASSUME NEW k \in DOMAIN hist
        PROVE  /\ hist[k].gate \in Gates /\ hist[k].mode \in Modes
               /\ hist[k].what \in {"began", "words", "stopped"}
    <3>1. hist[k] \in Marks
      BY DEF TypeInv
    <3>2. QED
      BY <3>1 DEF Marks
  <2>3. QED
    BY <2>1, <2>2 DEF TypeOK, TypeInv, Items
<1>2. QED
  BY <1>1, TypeInitially, TypeInductive, PTL DEF Spec

\* When the results go back to the model there is one for each call: a turn
\* gets there only behind its passes, whatever was asked and answered.
THEOREM EveryCallGetsResult == Spec => []EveryCallHasResult
<1>1. TypeInv => EveryCallHasResult
  <2> SUFFICES ASSUME TypeInv, NEW c \in Loops, Complete(c), NEW i \in DOMAIN loop[c].calls
               PROVE  /\ loop[c].out[i] \notin {None, "awaiting"}
                      /\ loop[c].stop => loop[c].out[i] \in {"stopped", "blocked"}
    BY DEF EveryCallHasResult
  <2>1. BatchFits(c, loop[c]) /\ i \in DOMAIN loop[c].out
    BY PendingIs DEF TypeInv, LoopTyped
  <2>2. loop[c].out[i] # None /\ (loop[c].stop => loop[c].out[i] \in {None, "stopped", "blocked"})
    BY <2>1 DEF Complete, At, BatchFits
  <2>3. loop[c].out[i] # "awaiting"
    BY <2>1 DEF Complete, At, BatchFits, Pending
  <2>4. QED
    BY <2>2, <2>3
<1>2. QED
  BY <1>1, TypeInitially, TypeInductive, PTL DEF Spec

-----------------------------------------------------------------------------
(* What a step may change                                                  *)

\* The turns of the other threads are not touched.
LEMMA OthersStay ==
  ASSUME TypeInv, NEW c \in Loops, LoopStep(c) \/ Stop(c), NEW d \in Loops \ {c}
  PROVE  loop'[d] = loop[d]
<1>1. loop \in [Loops -> LoopRecord]
  BY DEF TypeInv, LoopTyped
<1>2. CASE \/ \E text \in BOOLEAN : Answer(c, text)
           \/ \E asks \in BOOLEAN, g \in Gates : StartTurn(c, asks, g)
           \/ GiveUp(c) \/ Stop(c)
  BY <1>1, <1>2 DEF Answer, StartTurn, GiveUp, Stop, EndTurn
<1>3. CASE \/ \E calls \in Batches(c), late \in BOOLEAN : AskTools(c, calls, late)
           \/ Resolve(c) \/ Ask(c) \/ Wait(c) \/ Wake(c) \/ Record(c)
  BY <1>1, <1>3 DEF AskTools, Resolve, Ask, Wait, Wake, Record, Answered
<1>4. CASE (\E i : ExecuteFirst(c, i)) \/ ExecuteSecond(c)
  BY <1>1, <1>4 DEF ExecuteFirst, ExecuteSecond, Execute
<1>5. QED
  BY <1>2, <1>3, <1>4 DEF LoopStep

\* Only a turn that begins is counted; what does anything else runs a turn.
LEMMA TurnStays ==
  ASSUME TypeInv, NEW c \in Loops, LoopStep(c) \/ Stop(c),
         ~\E asks \in BOOLEAN, g \in Gates : StartTurn(c, asks, g)
  PROVE  ~At(c, "idle") /\ loop'[c].turn = loop[c].turn
<1>1. loop \in [Loops -> LoopRecord] /\ loop[c] \in LoopRecord
  BY DEF TypeInv, LoopTyped
<1>2. CASE (\E text \in BOOLEAN : Answer(c, text)) \/ GiveUp(c) \/ Stop(c)
  <2>1. EndTurn(c) /\ ~At(c, "idle")
    BY <1>2 DEF Answer, GiveUp, Stop, Complete, At
  <2>2. loop' = [loop EXCEPT ![c] = Idle(loop[c].turn)]
    BY <2>1 DEF EndTurn
  <2>3. QED
    BY <1>1, <2>1, <2>2 DEF Idle
<1>3. CASE Record(c)
  BY <1>1, <1>3 DEF Record, Complete, At, Idle
<1>4. CASE \/ \E calls \in Batches(c), late \in BOOLEAN : AskTools(c, calls, late)
           \/ Resolve(c) \/ Ask(c) \/ Wait(c) \/ Wake(c)
  <2>1. ~At(c, "idle")
    BY <1>4 DEF AskTools, Resolve, Ask, Wait, Wake, At
  <2>2. CASE \E calls, late : AskTools(c, calls, late)
    BY <1>1, <2>1, <2>2 DEF AskTools, LoopRecord
  <2>3. CASE Resolve(c) \/ Ask(c) \/ Wait(c) \/ Wake(c)
    BY <1>1, <2>1, <2>3 DEF Resolve, Ask, Wait, Wake, Answered, LoopRecord
  <2>4. QED
    BY <1>4, <2>1, <2>2, <2>3
<1>5. CASE (\E i : ExecuteFirst(c, i)) \/ ExecuteSecond(c)
  BY <1>1, <1>5 DEF ExecuteFirst, ExecuteSecond, Execute, At, LoopRecord
<1>6. QED
  BY <1>2, <1>3, <1>4, <1>5 DEF LoopStep

\* The history of a process only grows.
LEMMA HistGrows ==
  ASSUME TypeInv, [Next]_vars, ~Restart
  PROVE  hist' = hist \/ \E m : hist' = Append(hist, m)
<1>1. ASSUME NEW c \in Loops, LoopStep(c) \/ Stop(c)
      PROVE  hist' = hist \/ \E m : hist' = Append(hist, m)
  <2>1. CASE \/ \E text \in BOOLEAN : Answer(c, text)
             \/ \E asks \in BOOLEAN, g \in Gates : StartTurn(c, asks, g)
             \/ Stop(c)
    BY <2>1 DEF Answer, StartTurn, Stop, Noting
  <2>2. CASE \/ \E calls \in Batches(c), late \in BOOLEAN : AskTools(c, calls, late)
             \/ GiveUp(c) \/ Resolve(c) \/ Ask(c) \/ Wait(c) \/ Wake(c) \/ Record(c)
             \/ (\E i : ExecuteFirst(c, i)) \/ ExecuteSecond(c)
    BY <2>2 DEF AskTools, GiveUp, Resolve, Ask, Wait, Wake, Record, ExecuteFirst, ExecuteSecond
  <2>3. QED
    BY <1>1, <2>1, <2>2 DEF LoopStep
<1>2. QED
  BY <1>1 DEF Next, Decide, Expire, OpenElsewhere, SwitchMode, EditRules, SetPolicy, vars

\* A turn that begins, ends or goes on to its next step has no batch.
LEMMA BatchIsLeft ==
  ASSUME TypeInv, NEW c \in Loops,
         \/ \E text \in BOOLEAN : Answer(c, text)
         \/ \E asks \in BOOLEAN, g \in Gates : StartTurn(c, asks, g)
         \/ GiveUp(c) \/ Stop(c) \/ Record(c)
  PROVE  loop'[c].out = <<>> /\ loop'[c].answers = <<>>
<1>1. loop \in [Loops -> LoopRecord]
  BY DEF TypeInv, LoopTyped
<1>2. CASE (\E text \in BOOLEAN : Answer(c, text)) \/ GiveUp(c) \/ Stop(c)
  <2>1. EndTurn(c)
    BY <1>2 DEF Answer, GiveUp, Stop
  <2>2. loop' = [loop EXCEPT ![c] = Idle(loop[c].turn)]
    BY <2>1 DEF EndTurn
  <2>3. QED
    BY <1>1, <2>2 DEF Idle
<1>3. CASE (\E asks \in BOOLEAN, g \in Gates : StartTurn(c, asks, g)) \/ Record(c)
  BY <1>1, <1>3 DEF StartTurn, Record, Idle
<1>4. QED
  BY <1>2, <1>3

\* Nothing that is not an execution changes an outcome.
LEMMA OutcomesStay ==
  ASSUME TypeInv, NEW c \in Loops, LoopStep(c) \/ Stop(c),
         ~\E i : ExecuteFirst(c, i), ~ExecuteSecond(c),
         NEW i \in DOMAIN loop[c].out, i \in DOMAIN loop'[c].out
  PROVE  loop'[c].out[i] = loop[c].out[i]
<1>1. loop \in [Loops -> LoopRecord] /\ loop[c] \in LoopRecord /\ BatchFits(c, loop[c])
  BY DEF TypeInv, LoopTyped
<1>2. CASE \/ \E text \in BOOLEAN : Answer(c, text)
           \/ \E asks \in BOOLEAN, g \in Gates : StartTurn(c, asks, g)
           \/ GiveUp(c) \/ Stop(c) \/ Record(c)
  <2>1. loop'[c].out = <<>>
    BY <1>2, BatchIsLeft
  <2>2. QED
    BY <2>1
<1>3. CASE \E calls \in Batches(c), late \in BOOLEAN : AskTools(c, calls, late)
  <2>1. loop[c].calls = <<>> /\ Len(loop[c].out) = Len(loop[c].calls) /\ loop[c].out \in Seq(Outcomes)
    BY <1>1, <1>3 DEF AskTools, At, BatchFits, LoopRecord
  <2>2. QED
    BY <2>1
<1>4. CASE Resolve(c) \/ Ask(c) \/ Wait(c) \/ Wake(c)
  BY <1>1, <1>4 DEF Resolve, Ask, Wait, Wake, Answered, LoopRecord
<1>5. QED
  BY <1>2, <1>3, <1>4 DEF LoopStep

\* How a call comes to have run: in the first pass on nobody's word, in the
\* second on the answer to its question.
LEMMA HowItRan ==
  ASSUME TypeInv, [Next]_vars, NEW c \in Loops, NEW i \in 1 .. BatchOf[c], JustRan(c, i)
  PROVE  \E stop \in BOOLEAN, approval \in AnswerKinds :
           /\ "ran" \in OutcomesOf(c, loop[c].calls[i], stop, approval)
           /\ \/ approval = None
              \/ approval = loop[c].answers[i] /\ At(c, "second")
<1>1. loop \in [Loops -> LoopRecord] /\ loop[c] \in LoopRecord /\ i \in DOMAIN loop[c].out
  BY DEF TypeInv, LoopTyped, JustRan
<1>2. ASSUME NEW j \in DOMAIN loop[c].out, NEW stop \in BOOLEAN, NEW approval \in AnswerKinds,
             Execute(c, j, stop, approval)
      PROVE  j = i /\ "ran" \in OutcomesOf(c, loop[c].calls[i], stop, approval)
  <2>1. PICK outcome \in OutcomesOf(c, loop[c].calls[j], stop, approval) :
          /\ loop' = [loop EXCEPT ![c] = [loop[c] EXCEPT !.out = [loop[c].out EXCEPT ![j] = outcome]]]
          /\ Register(Id(c, j), outcome)
    BY <1>2, ExecuteDoes
  <2>2. loop'[c].out = [loop[c].out EXCEPT ![j] = outcome]
    BY <1>1, <2>1 DEF LoopRecord
  <2>3. j = i /\ outcome = "ran"
    BY <1>1, <2>2 DEF JustRan
  <2>4. QED
    BY <2>1, <2>3
<1>3. ASSUME NEW j, ExecuteFirst(c, j)
      PROVE  \E stop \in BOOLEAN : "ran" \in OutcomesOf(c, loop[c].calls[i], stop, None)
  <2>1. j \in DOMAIN loop[c].out /\ Execute(c, j, loop[c].stop, None)
    BY <1>3, PassesExecute
  <2>2. loop[c].stop \in BOOLEAN /\ None \in AnswerKinds
    BY <1>1 DEF LoopRecord, AnswerKinds
  <2>3. "ran" \in OutcomesOf(c, loop[c].calls[i], loop[c].stop, None)
    BY <1>2, <2>1, <2>2
  <2>4. QED
    BY <2>2, <2>3
<1>4. ASSUME ExecuteSecond(c)
      PROVE  /\ At(c, "second") /\ loop[c].answers[i] \in AnswerKinds
             /\ "ran" \in OutcomesOf(c, loop[c].calls[i], FALSE, loop[c].answers[i])
  BY <1>1, <1>2, <1>4, PassesExecute
<1>5. ASSUME LoopStep(c) \/ Stop(c), ~\E j : ExecuteFirst(c, j), ~ExecuteSecond(c)
      PROVE  FALSE
  BY <1>1, <1>5, OutcomesStay DEF JustRan
<1>6. ASSUME NEW d \in Loops \ {c}, LoopStep(d) \/ Stop(d)
      PROVE  FALSE
  <2>1. loop'[c] = loop[c]
    BY <1>6, OthersStay
  <2>2. QED
    BY <2>1 DEF JustRan
<1>7. CASE Restart
  BY <1>1, <1>7 DEF Restart, Idle, JustRan
<1>8. ASSUME loop' = loop
      PROVE  FALSE
  BY <1>8 DEF JustRan
<1>9. LoopStep(c) \/ Stop(c) \/ Restart
  BY <1>6, <1>8
     DEF Next, Decide, Expire, OpenElsewhere, SwitchMode, EditRules, SetPolicy, vars
<1>10. QED
  BY <1>3, <1>4, <1>5, <1>7, <1>9 DEF AnswerKinds

-----------------------------------------------------------------------------
(* The plan gate                                                           *)

\* By gate g a turn in plan mode answered in words, and what began since began
\* in plan mode.
PlanIn(h, g) ==
  \E t \in DOMAIN h :
    /\ h[t].gate = g
    /\ h[t].what = "words" /\ h[t].mode = "plan"
    /\ \A u \in t .. Len(h) : h[u].gate = g /\ h[u].what = "began" => h[u].mode = "plan"

\* A gate is open only behind such a plan.
PlanInv == \A g \in Gates : gate[g].given => PlanIn(hist, g)

\* What is noted keeps a plan, unless it is that a turn begins in another mode.
LEMMA PlanGoesOn ==
  ASSUME NEW h \in Seq(Marks), NEW m \in Marks, NEW g,
         m.gate = g /\ m.what = "began" => m.mode = "plan",
         \/ PlanIn(h, g)
         \/ m.gate = g /\ m.what = "words" /\ m.mode = "plan"
  PROVE  PlanIn(Append(h, m), g)
<1> DEFINE k == Append(h, m)
<1>1. /\ Len(k) = Len(h) + 1 /\ Len(h) \in Nat /\ k[Len(h) + 1] = m
      /\ DOMAIN k = 1 .. Len(k) /\ DOMAIN h = 1 .. Len(h)
      /\ \A t \in 1 .. Len(h) : k[t] = h[t]
  OBVIOUS
<1> HIDE DEF k
<1>2. CASE m.gate = g /\ m.what = "words" /\ m.mode = "plan"
  <2>1. Len(h) + 1 \in DOMAIN k /\ \A u \in (Len(h) + 1) .. Len(k) : u = Len(h) + 1
    BY <1>1
  <2>2. QED
    BY <1>1, <1>2, <2>1 DEF PlanIn, k
<1>3. CASE PlanIn(h, g)
  <2>1. PICK t \in DOMAIN h :
          /\ h[t].gate = g
          /\ h[t].what = "words" /\ h[t].mode = "plan"
          /\ \A u \in t .. Len(h) : h[u].gate = g /\ h[u].what = "began" => h[u].mode = "plan"
    BY <1>3 DEF PlanIn
  <2>2. t \in DOMAIN k /\ k[t] = h[t]
    BY <1>1, <2>1
  <2>3. ASSUME NEW u \in t .. Len(k), k[u].gate = g, k[u].what = "began"
        PROVE  k[u].mode = "plan"
    <3>1. u = Len(h) + 1 \/ u \in t .. Len(h)
      BY <1>1
    <3>2. u \in t .. Len(h) => u \in 1 .. Len(h)
      BY <1>1
    <3>3. QED
      BY <1>1, <2>1, <2>3, <3>1, <3>2
  <2>4. QED
    BY <2>1, <2>2, <2>3 DEF PlanIn, k
<1>4. QED
  BY <1>2, <1>3

\* A turn that ends notes nothing that could shut a gate.
LEMMA NotedKeepsPlan ==
  ASSUME TypeInv, NEW c \in Loops, NEW what \in {"words", "stopped"}, Noting(c, what), NEW g,
         \/ PlanIn(hist, g)
         \/ loop[c].gate = g /\ what = "words" /\ loop[c].mode = "plan"
  PROVE  PlanIn(hist', g)
<1> DEFINE m == [turn |-> <<c, loop[c].turn>>, gate |-> loop[c].gate, mode |-> loop[c].mode,
                 what |-> what]
<1>1. loop[c] \in LoopRecord /\ hist \in Seq(Marks)
  BY DEF TypeInv, LoopTyped
<1>2. m \in Marks /\ m.what = what /\ m.gate = loop[c].gate /\ m.mode = loop[c].mode
  BY <1>1 DEF Marks, LoopRecord
<1>3. hist' = Append(hist, m)
  BY DEF Noting
<1> HIDE DEF m
<1>4. QED
  BY <1>1, <1>2, <1>3, PlanGoesOn

LEMMA PlanInductive == TypeInv /\ PlanInv /\ [Next]_vars => PlanInv'
<1> SUFFICES ASSUME TypeInv, PlanInv, [Next]_vars, NEW g \in Gates, gate'[g].given
             PROVE  PlanIn(hist', g)
  BY DEF PlanInv
<1>1. /\ gate \in [Gates -> [given : BOOLEAN, seen : Modes \cup {None}]]
      /\ gate[g].given => PlanIn(hist, g)
      /\ hist \in Seq(Marks)
  BY DEF TypeInv, PlanInv
<1>2. ASSUME UNCHANGED <<gate, hist>>
      PROVE  PlanIn(hist', g)
  BY <1>1, <1>2
<1>3. ASSUME NEW c \in Loops, NEW asks \in BOOLEAN, NEW k \in Gates, StartTurn(c, asks, k)
      PROVE  PlanIn(hist', g)
  <2> DEFINE m == [turn |-> <<c, loop[c].turn + 1>>, gate |-> k, mode |-> mode, what |-> "began"]
  <2>1. m \in Marks /\ m.gate = k /\ m.mode = mode
    BY DEF TypeInv, LoopTyped, LoopRecord, Marks
  <2>2. hist' = Append(hist, m)
    BY <1>3 DEF StartTurn
  <2>3. gate[g].given /\ (k = g => mode = "plan")
    <3>1. gate' = [gate EXCEPT ![k] =
                     [given |-> gate[k].given /\ mode = "plan" /\ gate[k].seen = "plan",
                      seen |-> mode]]
      BY <1>3 DEF StartTurn
    <3>2. CASE k = g
      <4>1. gate'[g].given = (gate[g].given /\ mode = "plan" /\ gate[g].seen = "plan")
        BY <1>1, <3>1, <3>2
      <4>2. QED
        BY <4>1
    <3>3. CASE k # g
      BY <1>1, <3>1, <3>3
    <3>4. QED
      BY <3>2, <3>3
  <2> HIDE DEF m
  <2>4. QED
    BY <1>1, <2>1, <2>2, <2>3, PlanGoesOn
<1>4. ASSUME NEW c \in Loops, NEW text \in BOOLEAN, Answer(c, text)
      PROVE  PlanIn(hist', g)
  <2>1. gate' = [gate EXCEPT ![loop[c].gate].given = @ \/ (text /\ loop[c].mode = "plan")]
    BY <1>4 DEF Answer, NotesPlan
  <2>2. gate[g].given \/ (loop[c].gate = g /\ text /\ loop[c].mode = "plan")
    BY <1>1, <2>1
  <2>3. CASE text
    <3>1. Noting(c, "words")
      BY <1>4, <2>3 DEF Answer
    <3>2. QED
      BY <1>1, <2>2, <3>1, NotedKeepsPlan
  <2>4. CASE ~text
    BY <1>1, <1>4, <2>2, <2>4 DEF Answer
  <2>5. QED
    BY <2>3, <2>4
<1>5. ASSUME NEW c \in Loops, Stop(c)
      PROVE  PlanIn(hist', g)
  <2>1. Noting(c, "stopped") /\ gate' = gate
    BY <1>5 DEF Stop
  <2>2. QED
    BY <1>1, <2>1, NotedKeepsPlan
<1>6. ASSUME NEW c \in Loops,
             \/ \E calls \in Batches(c), late \in BOOLEAN : AskTools(c, calls, late)
             \/ GiveUp(c) \/ Resolve(c) \/ Ask(c) \/ Wait(c) \/ Wake(c) \/ Record(c)
             \/ (\E i : ExecuteFirst(c, i)) \/ ExecuteSecond(c)
      PROVE  PlanIn(hist', g)
  <2>1. UNCHANGED <<gate, hist>>
    BY <1>6 DEF AskTools, GiveUp, Resolve, Ask, Wait, Wake, Record, ExecuteFirst, ExecuteSecond
  <2>2. QED
    BY <1>2, <2>1
<1>7. ~Restart
  BY DEF Restart
<1>8. QED
  BY <1>2, <1>3, <1>4, <1>5, <1>6, <1>7
     DEF Next, LoopStep, Decide, Expire, OpenElsewhere, SwitchMode, EditRules, SetPolicy, vars

\* In plan mode nothing is written unless a turn in plan mode that goes by the
\* same gate ended in words, and none that goes by it has begun in another
\* mode since, however many threads run turns and whichever gates they share.
THEOREM PlanBeforeWrites == Spec => WritesFollowPlan
<1>1. Init => TypeInv /\ PlanInv
  BY TypeInitially DEF Init, PlanInv
<1>2. TypeInv /\ PlanInv /\ [Next]_vars => TypeInv' /\ PlanInv'
  BY TypeInductive, PlanInductive
<1>3. ASSUME TypeInv, PlanInv, [Next]_vars, NEW c \in Loops, NEW i \in 1 .. BatchOf[c],
             JustRan(c, i), loop[c].mode = "plan", IsWrite(loop[c].calls[i])
      PROVE  PlanIn(hist, loop[c].gate)
  <2>1. PICK stop \in BOOLEAN, approval \in AnswerKinds :
          "ran" \in OutcomesOf(c, loop[c].calls[i], stop, approval)
    BY <1>3, HowItRan
  <2>2. ~BlockedByMode(c, loop[c].calls[i])
    <3>1. ASSUME NEW call, "ran" \in OutcomesOf(c, call, stop, approval)
          PROVE  ~BlockedByMode(c, call)
      BY <3>1, OutcomeIs
    <3>2. QED
      BY <2>1, <3>1
  <2>3. gate[loop[c].gate].given
    BY <1>3, <2>2 DEF BlockedByMode
  <2>4. loop[c].gate \in Gates
    BY <1>3 DEF TypeInv, LoopTyped, LoopRecord
  <2>5. QED
    BY <1>3, <2>3, <2>4 DEF PlanInv
<1>4. TypeInv /\ PlanInv /\ [Next]_vars =>
        [\A c \in Loops : \A i \in 1 .. BatchOf[c] :
           /\ JustRan(c, i)
           /\ loop[c].mode = "plan"
           /\ IsWrite(loop[c].calls[i])
           => \E t \in DOMAIN hist :
                /\ hist[t].gate = loop[c].gate
                /\ hist[t].what = "words" /\ hist[t].mode = "plan"
                /\ \A u \in t .. Len(hist) :
                     hist[u].gate = loop[c].gate /\ hist[u].what = "began"
                       => hist[u].mode = "plan"]_vars
  BY <1>3 DEF PlanIn
<1>5. QED
  BY <1>1, <1>2, <1>4, PTL DEF Spec, WritesFollowPlan

-----------------------------------------------------------------------------
(* The registry, the answers and what was acknowledged                     *)

\* A question whose answer may still arrive: the turn has shown it and waits.
Awaited(a) == loop[a[1]].pc \in {"shown", "waiting"} /\ a[3] = Least(Unasked(a[1]))

\* An id of the turn that runs.  A question stands in the registry only while
\* the turn waits for it; and a call of the batch has left the registry once
\* its question is settled, with the answer that was acknowledged, or else
\* because it expired.
RunningFits(a) ==
  /\ loop[a[1]].pc \in {"model", "first"} => acked[a] = None
  /\ loop[a[1]].pc = "model" => a \notin table
  /\ item[a].asked /\ a \in table => Awaited(a)
  /\ a[3] \in DOMAIN loop[a[1]].out =>
       /\ loop[a[1]].answers[a[3]] # None /\ loop[a[1]].asks => a \notin table
       /\ loop[a[1]].answers[a[3]] \in Decisions => acked[a] = loop[a[1]].answers[a[3]]
       /\ /\ loop[a[1]].out[a[3]] = "awaiting"
          /\ loop[a[1]].answers[a[3]] = None
          /\ a \notin table
          => item[a].expired

\* What is registered under an id is what was acknowledged.  Of the turns that
\* are over only one that was stopped left something in the registry, and of
\* those that have not begun there is nothing in it.
SettledBy(a) ==
  /\ item[a].decision = IF acked[a] = None THEN "timeout" ELSE acked[a]
  /\ ~Running(a) /\ a \in table => WasStopped(a)
  /\ a[2] > loop[a[1]].turn => a \notin table /\ acked[a] = None
  /\ Running(a) => RunningFits(a)

AckInv == \A a \in Ids : SettledBy(a)

\* The parts of the model an id depends on.
LEMMA AckTypes ==
  ASSUME TypeInv, NEW a \in Ids
  PROVE  /\ a[1] \in Loops /\ a[2] \in Nat /\ a[3] \in 1 .. BatchOf[a[1]]
         /\ a = <<a[1], a[2], a[3]>>
         /\ loop \in [Loops -> LoopRecord] /\ loop[a[1]] \in LoopRecord
         /\ loop[a[1]].turn \in Nat
         /\ BatchFits(a[1], loop[a[1]])
         /\ item \in [Ids -> Items] /\ item[a] \in Items
         /\ acked[a] \in Decisions \cup {None}
  BY IdParts DEF TypeInv, LoopTyped, LoopRecord

\* An id of the turn that runs is that of a call.
LEMMA RunningId ==
  ASSUME TypeInv, NEW a \in Ids, Running(a)
  PROVE  a = Id(a[1], a[3]) /\ a \in IdsOf(a[1])
  BY AckTypes DEF Running, Id, IdsOf

\* A turn that was stopped has been from then on.
LEMMA StoppedStays ==
  ASSUME TypeInv, [Next]_vars, ~Restart, NEW a \in Ids, WasStopped(a)
  PROVE  WasStopped(a)'
<1>1. hist' = hist \/ \E m : hist' = Append(hist, m)
  BY HistGrows
<1>2. ASSUME NEW m, hist' = Append(hist, m)
      PROVE  WasStopped(a)'
  <2>1. hist \in Seq(Marks)
    BY DEF TypeInv
  <2>2. PICK k \in DOMAIN hist : hist[k].what = "stopped" /\ hist[k].turn = <<a[1], a[2]>>
    BY DEF WasStopped
  <2>3. k \in DOMAIN hist' /\ hist'[k] = hist[k]
    BY <1>2, <2>1, <2>2
  <2>4. QED
    BY <2>2, <2>3 DEF WasStopped
<1>3. QED
  BY <1>1, <1>2 DEF WasStopped

\* Nothing that goes by leaves an id unsettled, unless it touches its turn.
LEMMA PassedBy ==
  ASSUME NEW a \in Ids, SettledBy(a), WasStopped(a) => WasStopped(a)',
         \/ loop'[a[1]] = loop[a[1]]
         \/ /\ ~Running(a) /\ ~Running(a)'
            /\ a[2] > loop'[a[1]].turn => a[2] > loop[a[1]].turn,
         acked'[a] = acked[a],
         item'[a].decision = item[a].decision, item[a].expired => item'[a].expired,
         item'[a].asked = item[a].asked,
         a \in table' => a \in table, a \in table /\ a \notin table' => item'[a].expired
  PROVE  SettledBy(a)'
<1>1. CASE loop'[a[1]] = loop[a[1]]
  <2>1. (Awaited(a)' <=> Awaited(a)) /\ (Running(a)' <=> Running(a))
    BY <1>1 DEF Awaited, Unasked, Pending, Running, At
  <2>2. RunningFits(a) => RunningFits(a)'
    BY <1>1, <2>1 DEF RunningFits
  <2>3. QED
    BY <1>1, <2>1, <2>2 DEF SettledBy
<1>2. CASE /\ ~Running(a) /\ ~Running(a)'
           /\ a[2] > loop'[a[1]].turn => a[2] > loop[a[1]].turn
  BY <1>2 DEF SettledBy
<1>3. QED
  BY <1>1, <1>2

\* What opening an approval does to another id.
LEMMA RegisterElsewhere ==
  ASSUME TypeInv, NEW a \in Ids, NEW b \in Ids, b # a, NEW outcome, Register(b, outcome)
  PROVE  /\ item'[a].decision = item[a].decision /\ item'[a].expired = item[a].expired
         /\ item'[a].asked = item[a].asked
         /\ a \in table' => a \in table
         /\ a \in table /\ a \notin table' => item'[a].expired
<1>1. CASE outcome = "awaiting"
  <2>1. item'[a] = [item[a] EXCEPT !.before = @ \ {b}] /\ table' = Live \cup {b}
    BY <1>1 DEF Register
  <2>2. item[a] \in Items
    BY AckTypes
  <2>3. /\ item'[a].decision = item[a].decision /\ item'[a].expired = item[a].expired
        /\ item'[a].asked = item[a].asked
    BY <2>1, <2>2 DEF Items
  <2>4. QED
    BY <2>1, <2>3 DEF Live
<1>2. CASE outcome # "awaiting"
  BY <1>2 DEF Register
<1>3. QED
  BY <1>1, <1>2

\* What is forgotten is as it was at first, and the rest is left alone.
LEMMA ForgetIs ==
  ASSUME TypeInv, NEW gone, Forget(gone), NEW a \in Ids
  PROVE  /\ a \in gone => a \notin table' /\ acked'[a] = None /\ item'[a].decision = "timeout"
         /\ a \notin gone =>
              /\ acked'[a] = acked[a] /\ (a \in table' <=> a \in table)
              /\ item'[a].decision = item[a].decision /\ item'[a].expired = item[a].expired
              /\ item'[a].asked = item[a].asked
<1>1. item[a] \in Items
  BY AckTypes
<1>2. [item[a] EXCEPT !.before = @ \ gone].decision = item[a].decision
      /\ [item[a] EXCEPT !.before = @ \ gone].expired = item[a].expired
      /\ [item[a] EXCEPT !.before = @ \ gone].asked = item[a].asked
  BY <1>1 DEF Items
<1>3. QED
  BY <1>2 DEF Forget, Fresh

\* A step of one turn passes the ids of the others by.
LEMMA OtherIds ==
  ASSUME TypeInv, NEW c \in Loops, LoopStep(c) \/ Stop(c), NEW a \in Ids, a \notin IdsOf(c)
  PROVE  /\ acked'[a] = acked[a]
         /\ item'[a].decision = item[a].decision /\ item'[a].expired = item[a].expired
         /\ item'[a].asked = item[a].asked
         /\ a \in table' => a \in table
         /\ a \in table /\ a \notin table' => item'[a].expired
<1> DEFINE Goal == /\ acked'[a] = acked[a]
                   /\ item'[a].decision = item[a].decision /\ item'[a].expired = item[a].expired
                   /\ item'[a].asked = item[a].asked
                   /\ a \in table' => a \in table
                   /\ a \in table /\ a \notin table' => item'[a].expired
<1>1. CASE \/ \E text \in BOOLEAN : Answer(c, text)
           \/ \E asks \in BOOLEAN, g \in Gates : StartTurn(c, asks, g)
           \/ \E calls \in Batches(c), late \in BOOLEAN : AskTools(c, calls, late)
           \/ GiveUp(c) \/ Resolve(c) \/ Wait(c)
  <2>1. UNCHANGED <<acked, item, table>>
    BY <1>1 DEF Answer, StartTurn, AskTools, GiveUp, Resolve, Wait
  <2>2. QED
    BY <2>1
<1>2. ASSUME NEW i, Id(c, i) \in Ids
      PROVE  Id(c, i) # a
  BY <1>2 DEF Id, IdsOf
<1>3. CASE Ask(c)
  <2>1. acked' = acked /\ table' = table
    BY <1>3 DEF Ask
  <2>2. CASE Unasked(c) = {}
    BY <1>3, <2>1, <2>2 DEF Ask
  <2>3. CASE Unasked(c) # {}
    <3>1. Id(c, Least(Unasked(c))) # a
      BY <1>2, <2>3, AwaitedId
    <3>2. item'[a] = item[a]
      BY <1>3, <2>3, <3>1 DEF Ask, TypeInv
    <3>3. QED
      BY <2>1, <3>2
  <2>4. QED
    BY <2>2, <2>3
<1>4. CASE Wake(c)
  <2>1. Id(c, Least(Unasked(c))) # a
    BY <1>2, <1>4, AwaitedId, PendingIs DEF Wake, At
  <2>2. QED
    BY <1>4, <2>1 DEF Wake, TakenOut
<1>5. CASE Record(c) \/ Stop(c)
  <2>1. Forget(IdsOf(c) \ Open)
    BY <1>5 DEF Record, Stop, Dropped
  <2>2. QED
    BY <2>1, ForgetIs
<1>6. CASE (\E i : ExecuteFirst(c, i)) \/ ExecuteSecond(c)
  <2>1. loop[c].stop \in BOOLEAN /\ None \in AnswerKinds
    BY DEF TypeInv, LoopTyped, LoopRecord, AnswerKinds
  <2>2. \E i \in DOMAIN loop[c].out, stop \in BOOLEAN, approval \in AnswerKinds :
          Execute(c, i, stop, approval)
    <3>1. CASE \E i : ExecuteFirst(c, i)
      BY <2>1, <3>1, PassesExecute
    <3>2. CASE ExecuteSecond(c)
      BY <3>2, PassesExecute
    <3>3. QED
      BY <1>6, <3>1, <3>2
  <2>3. PICK i \in DOMAIN loop[c].out, stop \in BOOLEAN, approval \in AnswerKinds :
          Execute(c, i, stop, approval)
    BY <2>2
  <2>4. PICK outcome : Register(Id(c, i), outcome) /\ Id(c, i) \in Ids
    BY <2>3, ExecuteDoes
  <2>5. acked' = acked
    BY <1>6 DEF ExecuteFirst, ExecuteSecond
  <2>6. Id(c, i) # a
    BY <1>2, <2>4
  <2>7. QED
    BY <2>4, <2>5, <2>6, RegisterElsewhere
<1>7. QED
  BY <1>1, <1>3, <1>4, <1>5, <1>6 DEF LoopStep

\* Where there is no batch, an id that nothing was acknowledged for is settled.
LEMMA NoBatch ==
  ASSUME TypeInv, NEW a \in Ids, item'[a].decision = "timeout", acked'[a] = None,
         a \notin table', loop'[a[1]].out = <<>>
  PROVE  SettledBy(a)'
  BY DEF SettledBy, RunningFits

\* An answer is acknowledged while its question is open, or in vain.
LEMMA AckedWhileOpen ==
  ASSUME TypeInv, NEW a \in Ids, SettledBy(a), NEW d \in Decisions, Decide(a, d)
  PROVE  \/ ~Running(a) /\ WasStopped(a)
         \/ /\ Running(a) /\ Awaited(a)
            /\ loop[a[1]].answers[a[3]] = None /\ a[3] \in DOMAIN loop[a[1]].out
<1>1. item[a].asked /\ a \in table
  BY DEF Decide
<1>2. CASE ~Running(a)
  BY <1>1, <1>2 DEF SettledBy
<1>3. CASE Running(a)
  <2>1. Awaited(a)
    BY <1>1, <1>3 DEF SettledBy, RunningFits
  <2>2. Unasked(a[1]) # {} /\ a[1] \in Loops
    BY <2>1, AckTypes, PendingIs DEF Awaited
  <2>3. loop[a[1]].answers[a[3]] = None /\ a[3] \in DOMAIN loop[a[1]].out
    BY <2>1, <2>2, AwaitedId DEF Awaited
  <2>4. QED
    BY <1>3, <2>1, <2>3
<1>4. QED
  BY <1>2, <1>3

LEMMA DecideSettles ==
  ASSUME TypeInv, NEW a \in Ids, SettledBy(a), NEW b \in Ids, SettledBy(b), NEW d \in Decisions,
         Decide(b, d)
  PROVE  SettledBy(a)'
<1>1. /\ item \in [Ids -> Items] /\ acked \in [Ids -> Decisions \cup {None}] /\ item[b] \in Items
      /\ loop' = loop /\ table' = table /\ hist' = hist
      /\ loop[a[1]].turn \in Nat /\ a[2] \in Nat
  BY AckTypes DEF TypeInv, Decide
<1>2. (WasStopped(a)' <=> WasStopped(a)) /\ (Running(a)' <=> Running(a)) /\ (Awaited(a)' <=> Awaited(a))
  BY <1>1 DEF WasStopped, Running, At, Awaited, Unasked, Pending
<1>3. CASE b # a
  BY <1>1, <1>2, <1>3, PassedBy DEF Decide
<1>4. CASE b = a
  <2>1. acked'[a] = d /\ item'[a].decision = d /\ item'[a].expired = item[a].expired
        /\ item'[a].asked = item[a].asked
    BY <1>1, <1>4 DEF Decide, Items
  <2>2. d # None /\ None \notin Decisions
    BY DEF Decisions, Allowing, None
  <2>3. ~(a[2] > loop[a[1]].turn)
    BY <1>4 DEF SettledBy, Decide
  <2>4. CASE ~Running(a) /\ WasStopped(a)
    BY <1>1, <1>2, <2>1, <2>2, <2>3, <2>4 DEF SettledBy
  <2>5. CASE /\ Running(a) /\ Awaited(a)
             /\ loop[a[1]].answers[a[3]] = None /\ a[3] \in DOMAIN loop[a[1]].out
    <3>1. loop[a[1]].pc \notin {"model", "first"}
      BY <2>5 DEF Awaited
    <3>2. RunningFits(a)'
      BY <1>1, <1>2, <2>1, <2>2, <2>5, <3>1 DEF SettledBy, RunningFits
    <3>3. QED
      BY <1>1, <1>2, <2>1, <2>2, <2>3, <2>5, <3>2 DEF SettledBy
  <2>6. QED
    BY <1>4, <2>4, <2>5, AckedWhileOpen
<1>5. QED
  BY <1>3, <1>4

\* A turn begins with nothing registered or acknowledged for its ids.
LEMMA StartSettles ==
  ASSUME TypeInv, NEW a \in Ids, SettledBy(a), WasStopped(a) => WasStopped(a)',
         NEW asks \in BOOLEAN, NEW g \in Gates, StartTurn(a[1], asks, g)
  PROVE  SettledBy(a)'
<1> DEFINE c == a[1]
<1>1. /\ loop \in [Loops -> LoopRecord] /\ c \in Loops /\ loop[c].pc = "idle"
      /\ UNCHANGED <<item, table, acked>> /\ a[2] \in Nat /\ loop[c].turn \in Nat
  BY AckTypes DEF StartTurn, At
<1>2. loop'[c].turn = loop[c].turn + 1 /\ loop'[c].out = <<>>
  BY <1>1 DEF StartTurn, Idle
<1>3. ~Running(a)
  BY <1>1 DEF Running, At
<1>4. CASE a[2] = loop[c].turn + 1
  <2>1. a \notin table /\ acked[a] = None
    BY <1>1, <1>4 DEF SettledBy
  <2>2. item[a].decision = "timeout"
    BY <2>1 DEF SettledBy
  <2>3. QED
    BY <1>1, <1>2, <2>1, <2>2, NoBatch
<1>5. CASE a[2] # loop[c].turn + 1
  <2>1. ~Running(a)'
    BY <1>2, <1>5 DEF Running
  <2>2. a[2] > loop'[c].turn => a[2] > loop[c].turn
    BY <1>1, <1>2
  <2>3. QED
    BY <1>1, <1>3, <2>1, <2>2, PassedBy
<1>6. QED
  BY <1>4, <1>5

\* A turn that answers in words or gives up has nothing in the registry.
LEMMA UnaskedSettles ==
  ASSUME TypeInv, NEW a \in Ids, SettledBy(a), Running(a),
         (\E text \in BOOLEAN : Answer(a[1], text)) \/ GiveUp(a[1])
  PROVE  SettledBy(a)'
<1> DEFINE c == a[1]
<1>1. loop \in [Loops -> LoopRecord] /\ c \in Loops
  BY AckTypes
<1>2. UNCHANGED <<item, acked, table>> /\ loop[c].pc = "model"
  BY DEF Answer, GiveUp, At
<1>3. loop'[c].out = <<>>
  BY <1>1, BatchIsLeft
<1>4. acked[a] = None /\ item[a].decision = "timeout" /\ a \notin table
  BY <1>2 DEF SettledBy, RunningFits
<1>5. QED
  BY <1>2, <1>3, <1>4, NoBatch

\* A batch that is recorded was settled: all of it is forgotten.
LEMMA RecordSettles ==
  ASSUME TypeInv, NEW a \in Ids, SettledBy(a), Running(a), Record(a[1])
  PROVE  SettledBy(a)'
<1> DEFINE c == a[1]
<1>1. c \in Loops /\ a \in IdsOf(c)
  BY AckTypes, RunningId
<1>2. Forget(IdsOf(c) \ Open) /\ loop[c].pc \notin {"shown", "waiting"}
  BY DEF Record, Complete, At, Dropped
<1>3. loop'[c].out = <<>>
  BY <1>1, BatchIsLeft
<1>4. a \notin Open
  BY <1>2 DEF SettledBy, RunningFits, Awaited, Open, Live
<1>5. item'[a].decision = "timeout" /\ acked'[a] = None /\ a \notin table'
  BY <1>1, <1>2, <1>4, ForgetIs
<1>6. QED
  BY <1>3, <1>5, NoBatch

\* A turn that is stopped leaves a question that went out.
LEMMA StopSettles ==
  ASSUME TypeInv, NEW a \in Ids, SettledBy(a), Running(a), Stop(a[1])
  PROVE  SettledBy(a)'
<1> DEFINE c == a[1]
           m == [turn |-> <<c, loop[c].turn>>, gate |-> loop[c].gate, mode |-> loop[c].mode,
                 what |-> "stopped"]
<1>1. /\ c \in Loops /\ a \in IdsOf(c) /\ loop \in [Loops -> LoopRecord]
      /\ a[2] = loop[c].turn /\ a[2] \in Nat
  BY AckTypes, RunningId DEF Running
<1>2. Forget(IdsOf(c) \ Open)
  BY DEF Stop, Dropped
<1>3. loop'[c].pc = "idle" /\ loop'[c].turn = a[2] /\ loop'[c].out = <<>>
  BY <1>1 DEF Stop, EndTurn, Idle
<1>4. WasStopped(a)'
  <2>1. hist' = Append(hist, m) /\ hist \in Seq(Marks)
    BY DEF Stop, Noting, TypeInv
  <2>2. m.what = "stopped" /\ m.turn = <<a[1], a[2]>>
    BY <1>1
  <2> HIDE DEF m
  <2>3. Len(hist) + 1 \in DOMAIN hist' /\ hist'[Len(hist) + 1] = m
    BY <2>1
  <2>4. QED
    BY <2>2, <2>3 DEF WasStopped
<1>5. CASE a \in Open
  <2>1. item'[a].decision = item[a].decision /\ acked'[a] = acked[a]
    BY <1>2, <1>5, ForgetIs
  <2>2. ~(a[2] > loop'[a[1]].turn) /\ ~Running(a)'
    BY <1>1, <1>3 DEF Running, At
  <2>3. QED
    BY <1>4, <2>1, <2>2 DEF SettledBy
<1>6. CASE a \notin Open
  <2>1. item'[a].decision = "timeout" /\ acked'[a] = None /\ a \notin table'
    BY <1>1, <1>2, <1>6, ForgetIs
  <2>2. QED
    BY <1>3, <2>1, NoBatch
<1>7. QED
  BY <1>5, <1>6

LEMMA AskToolsSettles ==
  ASSUME TypeInv, NEW a \in Ids, SettledBy(a), Running(a), NEW calls, NEW late,
         AskTools(a[1], calls, late)
  PROVE  SettledBy(a)'
<1> DEFINE c == a[1]
           o == [i \in 1 .. Len(calls) |-> None]
<1>1. loop \in [Loops -> LoopRecord] /\ c \in Loops /\ loop[c].pc = "model"
      /\ UNCHANGED <<item, table, acked>>
  BY AckTypes DEF AskTools, At
<1>2. /\ loop'[c].pc = "first" /\ loop'[c].out = o /\ loop'[c].answers = o
      /\ loop'[c].turn = loop[c].turn
  BY <1>1 DEF AskTools, LoopRecord
<1>3. acked[a] = None /\ a \notin table
  BY <1>1 DEF SettledBy, RunningFits
<1>4. \A i \in DOMAIN o : o[i] = None
  OBVIOUS
<1> HIDE DEF o
<1>5. None \notin Decisions /\ None # "awaiting"
  BY DEF Decisions, Allowing, None
<1>6. RunningFits(a)'
  BY <1>1, <1>2, <1>3, <1>4, <1>5 DEF RunningFits
<1>7. QED
  BY <1>1, <1>2, <1>3, <1>6 DEF SettledBy

\* Nobody was asked before the batch is resolved.
LEMMA ResolveSettles ==
  ASSUME TypeInv, NEW a \in Ids, SettledBy(a), Running(a), Resolve(a[1])
  PROVE  SettledBy(a)'
<1> DEFINE c == a[1]
           w == [i \in DOMAIN loop[c].answers |->
                   IF i \in Pending(c) /\ ~loop[c].asks THEN "unavailable" ELSE None]
<1>1. /\ loop \in [Loops -> LoopRecord] /\ loop[c] \in LoopRecord /\ c \in Loops
      /\ loop[c].pc = "first" /\ a[2] = loop[c].turn
      /\ UNCHANGED <<item, table, acked>> /\ BatchFits(c, loop[c])
  BY AckTypes DEF Resolve, At, Running
<1>2. /\ loop'[c].out = loop[c].out /\ loop'[c].answers = w /\ loop'[c].asks = loop[c].asks
      /\ loop'[c].turn = loop[c].turn /\ loop'[c].pc \in {"record", "ask", "second"}
  BY <1>1 DEF Resolve, LoopRecord, AfterFirst
<1>3. acked[a] = None /\ (item[a].asked => a \notin table)
  BY <1>1 DEF SettledBy, RunningFits, Awaited
<1>4. DOMAIN loop[c].out = DOMAIN loop[c].answers
  BY <1>1, PendingIs
<1>5. \A i \in DOMAIN loop[c].out : /\ w[i] \in {None, "unavailable"}
                                    /\ w[i] # None => ~loop[c].asks
                                    /\ loop[c].answers[i] = None
  BY <1>1, <1>4 DEF BatchFits
<1> HIDE DEF w
<1>6. None \notin Decisions /\ "unavailable" \notin Decisions
  BY DEF Decisions, Allowing, None
<1>7. RunningFits(a)'
  BY <1>1, <1>2, <1>3, <1>5, <1>6 DEF SettledBy, RunningFits
<1>8. Running(a)'
  BY <1>1, <1>2 DEF Running, At
<1>9. QED
  BY <1>1, <1>2, <1>3, <1>7, <1>8 DEF SettledBy

\* The question that goes out is the one that is waited for.
LEMMA AskSettles ==
  ASSUME TypeInv, NEW a \in Ids, SettledBy(a), Running(a), Ask(a[1])
  PROVE  SettledBy(a)'
<1> DEFINE c == a[1]
<1>1. /\ loop \in [Loops -> LoopRecord] /\ loop[c] \in LoopRecord /\ c \in Loops
      /\ loop[c].pc = "ask" /\ a[2] = loop[c].turn
      /\ UNCHANGED <<table, acked>> /\ item \in [Ids -> Items] /\ item[a] \in Items
  BY AckTypes DEF Ask, At, Running
<1>2. /\ loop'[c].out = loop[c].out /\ loop'[c].answers = loop[c].answers
      /\ loop'[c].asks = loop[c].asks /\ loop'[c].pc \in {"second", "shown"}
      /\ loop'[c].turn = loop[c].turn
  BY <1>1 DEF Ask, LoopRecord
<1>3. item[a].asked => a \notin table
  BY <1>1 DEF SettledBy, RunningFits, Awaited
<1>4. Running(a)' /\ Unasked(c)' = Unasked(c)
  BY <1>1, <1>2 DEF Running, At, Unasked, Pending
<1>5. /\ item'[a].decision = item[a].decision /\ item'[a].expired = item[a].expired
      /\ item'[a].asked => item[a].asked \/ Awaited(a)'
  <2>1. CASE Unasked(c) = {}
    BY <2>1 DEF Ask
  <2>2. CASE Unasked(c) # {} /\ a = Id(c, Least(Unasked(c)))
    <3>1. a[3] = Least(Unasked(c))
      BY <1>1, <2>2, AwaitedId
    <3>2. Awaited(a)'
      <4>1. loop'[c].pc = "shown"
        BY <1>1, <2>2 DEF Ask, LoopRecord
      <4>2. QED
        BY <1>4, <3>1, <4>1 DEF Awaited
    <3>3. item' = [item EXCEPT ![a].asked = TRUE]
      BY <2>2 DEF Ask
    <3>4. [item[a] EXCEPT !.asked = TRUE].decision = item[a].decision
          /\ [item[a] EXCEPT !.asked = TRUE].expired = item[a].expired
      BY <1>1 DEF Items
    <3>5. QED
      BY <1>1, <3>2, <3>3, <3>4
  <2>3. CASE Unasked(c) # {} /\ a # Id(c, Least(Unasked(c)))
    <3>1. item'[a] = item[a]
      BY <1>1, <2>3 DEF Ask
    <3>2. QED
      BY <3>1
  <2>4. QED
    BY <2>1, <2>2, <2>3
<1>6. RunningFits(a)'
  BY <1>1, <1>2, <1>3, <1>5 DEF SettledBy, RunningFits
<1>7. QED
  BY <1>1, <1>2, <1>4, <1>5, <1>6 DEF SettledBy

\* A question is settled by a timeout because the approval was pruned, or by
\* what is registered; it is then out of the registry.
LEMMA AnsweredSettles ==
  ASSUME TypeInv, NEW a \in Ids, SettledBy(a), Running(a), loop[a[1]].pc \in {"shown", "waiting"},
         NEW k \in Nat, k = Least(Unasked(a[1])), NEW decision,
         Answered(a[1], k, decision), acked' = acked, item' = item,
         table' = table \ {Id(a[1], k)},
         decision = "timeout" \/ decision = item[Id(a[1], k)].decision
  PROVE  SettledBy(a)'
<1> DEFINE c == a[1]
<1>1. /\ loop \in [Loops -> LoopRecord] /\ loop[c] \in LoopRecord /\ c \in Loops
      /\ a = Id(c, a[3]) /\ loop[c].answers \in Seq(AnswerKinds) /\ a[2] = loop[c].turn
      /\ a[2] \in Nat
  BY AckTypes, RunningId DEF LoopRecord, Running
<1>2. DOMAIN loop[c].out = DOMAIN loop[c].answers /\ k \in DOMAIN loop[c].answers
  BY <1>1, PendingIs
<1>3. /\ loop'[c].out = loop[c].out /\ loop'[c].asks = loop[c].asks /\ loop'[c].pc = "ask"
      /\ loop'[c].answers = [loop[c].answers EXCEPT ![k] = decision]
      /\ loop'[c].turn = loop[c].turn
  BY <1>1 DEF Answered, LoopRecord
<1>4. RunningFits(a)'
  <2>1. CASE a[3] = k
    <3>1. a = Id(c, k)
      BY <1>1, <2>1
    <3>2. a \notin table' /\ loop'[c].answers[a[3]] = decision
      BY <1>1, <1>2, <1>3, <2>1, <3>1
    <3>3. /\ "timeout" \notin Decisions /\ "timeout" # None
          /\ acked[a] \in Decisions \cup {None} /\ None \notin Decisions
      BY AckTypes DEF Decisions, Allowing, None
    <3>4. decision # None /\ (decision \in Decisions => acked[a] = decision)
      BY <3>1, <3>3 DEF SettledBy
    <3>5. QED
      BY <1>3, <3>2, <3>4 DEF RunningFits
  <2>2. CASE a[3] # k
    <3>1. a # Id(c, k) /\ ~Awaited(a)
      BY <1>1, <2>2 DEF Awaited, Id
    <3>2. (a \in table' <=> a \in table)
          /\ (a[3] \in DOMAIN loop[c].answers => loop'[c].answers[a[3]] = loop[c].answers[a[3]])
      BY <1>1, <1>2, <1>3, <2>2, <3>1
    <3>3. QED
      BY <1>2, <1>3, <3>1, <3>2 DEF SettledBy, RunningFits
  <2>3. QED
    BY <2>1, <2>2
<1>5. QED
  BY <1>1, <1>3, <1>4 DEF SettledBy, Running, At

LEMMA WaitSettles ==
  ASSUME TypeInv, NEW a \in Ids, SettledBy(a), Running(a), Wait(a[1])
  PROVE  SettledBy(a)'
<1> DEFINE c == a[1]
           k == Least(Unasked(c))
<1>1. /\ loop \in [Loops -> LoopRecord] /\ loop[c] \in LoopRecord /\ c \in Loops
      /\ loop[c].pc = "shown" /\ UNCHANGED <<item, table, acked>> /\ a[2] = loop[c].turn
  BY AckTypes DEF Wait, At, Running
<1>2. CASE Id(c, k) \in table
  <2>1. /\ loop'[c].out = loop[c].out /\ loop'[c].answers = loop[c].answers
        /\ loop'[c].asks = loop[c].asks /\ loop'[c].pc = "waiting"
        /\ loop'[c].turn = loop[c].turn
    BY <1>1, <1>2 DEF Wait, LoopRecord
  <2>2. Awaited(a)' <=> Awaited(a)
    BY <1>1, <2>1 DEF Awaited, Unasked, Pending
  <2>3. RunningFits(a)'
    BY <1>1, <2>1, <2>2 DEF SettledBy, RunningFits
  <2>4. QED
    BY <1>1, <2>1, <2>3 DEF SettledBy, Running, At
<1>3. CASE Id(c, k) \notin table
  <2>1. Answered(c, k, "timeout") /\ table' = table \ {Id(c, k)}
    BY <1>1, <1>3 DEF Wait
  <2>2. k \in Nat
    BY <1>1, PendingIs
  <2> HIDE DEF k
  <2>3. QED
    BY <1>1, <2>1, <2>2, AnsweredSettles DEF k
<1>4. QED
  BY <1>2, <1>3

LEMMA WakeSettles ==
  ASSUME TypeInv, NEW a \in Ids, SettledBy(a), Running(a), Wake(a[1])
  PROVE  SettledBy(a)'
<1> DEFINE c == a[1]
           k == Least(Unasked(c))
<1>1. /\ c \in Loops /\ loop[c].pc = "waiting" /\ UNCHANGED <<item, acked>>
      /\ Answered(c, k, item[Id(c, k)].decision) /\ table' = table \ {Id(c, k)}
  BY AckTypes DEF Wake, At, Settled, TakenOut
<1>2. k \in Nat
  BY <1>1, PendingIs
<1> HIDE DEF k
<1>3. QED
  BY <1>1, <1>2, AnsweredSettles DEF k

\* A call of the first pass opens an approval that nobody has answered; one
\* of the second opens none.
LEMMA ExecuteSettles ==
  ASSUME TypeInv, NEW a \in Ids, SettledBy(a), Running(a), NEW i \in DOMAIN loop[a[1]].out,
         NEW stop \in BOOLEAN, NEW approval \in AnswerKinds, Execute(a[1], i, stop, approval),
         acked' = acked,
         \/ loop[a[1]].pc = "first"
         \/ loop[a[1]].pc = "second" /\ approval # None
  PROVE  SettledBy(a)'
<1> DEFINE c == a[1]
<1>1. /\ loop \in [Loops -> LoopRecord] /\ loop[c] \in LoopRecord /\ c \in Loops
      /\ a = Id(c, a[3]) /\ loop[c].out \in Seq(Outcomes) /\ item \in [Ids -> Items]
      /\ BatchFits(c, loop[c]) /\ a[2] = loop[c].turn
  BY AckTypes, RunningId DEF LoopRecord, Running
<1>2. PICK outcome \in OutcomesOf(c, loop[c].calls[i], stop, approval) :
        /\ loop' = [loop EXCEPT ![c] = [loop[c] EXCEPT !.out = [loop[c].out EXCEPT ![i] = outcome]]]
        /\ Register(Id(c, i), outcome) /\ Id(c, i) \in Ids
  BY <1>1, ExecuteDoes
<1>3. approval # None => outcome # "awaiting"
  <2>1. ASSUME NEW call, outcome \in OutcomesOf(c, call, stop, approval)
        PROVE  approval # None => outcome # "awaiting"
    BY <2>1, OutcomeIs
  <2>2. QED
    BY <2>1
<1>4. /\ loop'[c].out = [loop[c].out EXCEPT ![i] = outcome]
      /\ loop'[c].answers = loop[c].answers /\ loop'[c].asks = loop[c].asks
      /\ loop'[c].pc = loop[c].pc /\ loop'[c].turn = loop[c].turn
  BY <1>1, <1>2 DEF LoopRecord
<1>5. /\ item[a].asked => a \notin table
      /\ loop[c].pc = "first" => acked[a] = None
      /\ loop[c].pc # "model" /\ Running(a)'
  BY <1>4 DEF Awaited, SettledBy, RunningFits, Running, At
<1>6. CASE a[3] # i
  <2>1. a # Id(c, i)
    BY <1>1, <1>6 DEF Id
  <2>2. /\ item'[a].decision = item[a].decision /\ item'[a].expired = item[a].expired
        /\ item'[a].asked = item[a].asked
        /\ a \in table' => a \in table
        /\ a \in table /\ a \notin table' => item'[a].expired
    BY <1>2, <2>1, RegisterElsewhere
  <2>3. a[3] \in DOMAIN loop'[c].out =>
          a[3] \in DOMAIN loop[c].out /\ loop'[c].out[a[3]] = loop[c].out[a[3]]
    BY <1>1, <1>4, <1>6
  <2>4. RunningFits(a)'
    BY <1>4, <1>5, <2>2, <2>3 DEF SettledBy, RunningFits
  <2>5. QED
    BY <1>4, <1>5, <2>2, <2>4 DEF SettledBy
<1>7. CASE a[3] = i
  <2>1. a = Id(c, i)
    BY <1>1, <1>7
  <2>2. loop'[c].out[i] = outcome /\ i \in DOMAIN loop[c].answers
    BY <1>1, <1>4, PendingIs
  <2>3. CASE outcome # "awaiting"
    <3>1. item' = item /\ table' = table
      BY <1>2, <2>3 DEF Register
    <3>2. RunningFits(a)'
      BY <1>4, <1>5, <1>7, <2>2, <2>3, <3>1 DEF SettledBy, RunningFits
    <3>3. QED
      BY <1>4, <1>5, <3>1, <3>2 DEF SettledBy
  <2>4. CASE outcome = "awaiting"
    <3>1. loop[c].pc = "first" /\ acked[a] = None /\ loop[c].answers[i] = None
      BY <1>1, <1>3, <1>5, <2>2, <2>4 DEF BatchFits
    <3>2. item'[a] = [Fresh EXCEPT !.before = Live \ {a}] /\ a \in table'
      BY <1>2, <2>1, <2>4 DEF Register
    <3>3. item'[a].decision = "timeout" /\ ~item'[a].asked
      BY <3>2 DEF Fresh
    <3>4. None \notin Decisions
      BY DEF Decisions, Allowing, None
    <3>5. RunningFits(a)'
      BY <1>4, <1>5, <1>7, <3>1, <3>2, <3>3, <3>4 DEF RunningFits
    <3>6. ~(a[2] > loop'[c].turn)
      BY <1>1, <1>4, AckTypes
    <3>7. QED
      BY <1>5, <3>1, <3>3, <3>5, <3>6 DEF SettledBy
  <2>5. QED
    BY <2>3, <2>4
<1>8. QED
  BY <1>6, <1>7

LEMMA PassesSettle ==
  ASSUME TypeInv, NEW a \in Ids, SettledBy(a), Running(a),
         (\E i : ExecuteFirst(a[1], i)) \/ ExecuteSecond(a[1])
  PROVE  SettledBy(a)'
<1> DEFINE c == a[1]
<1>1. c \in Loops /\ loop[c].stop \in BOOLEAN /\ None \in AnswerKinds
  BY AckTypes DEF LoopRecord, AnswerKinds
<1>2. acked' = acked
  BY DEF ExecuteFirst, ExecuteSecond
<1>3. CASE \E i : ExecuteFirst(c, i)
  <2>1. PICK i : /\ At(c, "first") /\ i \in DOMAIN loop[c].out
                 /\ Execute(c, i, loop[c].stop, None)
    BY <1>1, <1>3, PassesExecute
  <2>2. QED
    BY <1>1, <1>2, <2>1, ExecuteSettles DEF At
<1>4. CASE ExecuteSecond(c)
  <2>1. PICK i \in DOMAIN loop[c].out :
          /\ At(c, "second") /\ loop[c].answers[i] # None /\ loop[c].answers[i] \in AnswerKinds
          /\ Execute(c, i, FALSE, loop[c].answers[i])
    BY <1>1, <1>4, PassesExecute
  <2>2. QED
    BY <1>1, <1>2, <2>1, ExecuteSettles DEF At
<1>5. QED
  BY <1>3, <1>4

LEMMA RestartSettles ==
  ASSUME TypeInv, NEW a \in Ids, Restart
  PROVE  SettledBy(a)'
<1>1. item'[a].decision = "timeout" /\ acked'[a] = None /\ a \notin table'
  BY DEF Restart, Fresh
<1>2. loop'[a[1]].out = <<>>
  BY AckTypes DEF Restart, Idle
<1>3. QED
  BY <1>1, <1>2, NoBatch

\* A step of a thread: the ids of its turn have a lemma each, and the others
\* are passed by.
LEMMA TurnSettles ==
  ASSUME TypeInv, [Next]_vars, ~Restart, NEW a \in Ids, SettledBy(a),
         NEW c \in Loops, LoopStep(c) \/ Stop(c)
  PROVE  SettledBy(a)'
<1>1. WasStopped(a) => WasStopped(a)'
  BY StoppedStays
<1>2. a[1] \in Loops /\ a[2] \in Nat /\ loop \in [Loops -> LoopRecord] /\ loop[a[1]].turn \in Nat
  BY AckTypes
<1>3. CASE c # a[1]
  <2>1. loop'[a[1]] = loop[a[1]] /\ a \notin IdsOf(c)
    BY <1>2, <1>3, OthersStay DEF IdsOf
  <2>2. QED
    BY <1>1, <2>1, OtherIds, PassedBy
<1>4. CASE c = a[1] /\ \E asks \in BOOLEAN, g \in Gates : StartTurn(c, asks, g)
  BY <1>1, <1>4, StartSettles
<1>5. CASE /\ c = a[1] /\ ~\E asks \in BOOLEAN, g \in Gates : StartTurn(c, asks, g)
           /\ a[2] # loop[c].turn
  <2>1. ~At(c, "idle") /\ loop'[c].turn = loop[c].turn
    BY <1>5, TurnStays
  <2>2. ~Running(a) /\ ~Running(a)' /\ a \notin IdsOf(c)
    BY <1>5, <2>1 DEF Running, IdsOf
  <2>3. QED
    BY <1>1, <1>5, <2>1, <2>2, OtherIds, PassedBy
<1>6. CASE /\ c = a[1] /\ ~\E asks \in BOOLEAN, g \in Gates : StartTurn(c, asks, g)
           /\ a[2] = loop[c].turn
  <2>1. Running(a)
    BY <1>6, TurnStays DEF Running
  <2>2. QED
    BY <1>6, <2>1, UnaskedSettles, RecordSettles, StopSettles, AskToolsSettles, ResolveSettles,
       AskSettles, WaitSettles, WakeSettles, PassesSettle DEF LoopStep
<1>7. QED
  BY <1>3, <1>4, <1>5, <1>6

LEMMA AckInductive == TypeInv /\ AckInv /\ [Next]_vars => AckInv'
<1> SUFFICES ASSUME TypeInv, AckInv, [Next]_vars, NEW a \in Ids
             PROVE  SettledBy(a)'
  BY DEF AckInv, Ids
<1>1. SettledBy(a) /\ a[1] \in Loops /\ item \in [Ids -> Items] /\ item[a] \in Items
  BY AckTypes DEF AckInv, TypeInv
<1>2. CASE Restart
  BY <1>2, RestartSettles
<1>3. ASSUME ~Restart, NEW c \in Loops, LoopStep(c) \/ Stop(c)
      PROVE  SettledBy(a)'
  BY <1>1, <1>3, TurnSettles
<1>4. ASSUME NEW b \in Ids, NEW d \in Decisions, Decide(b, d)
      PROVE  SettledBy(a)'
  BY <1>4, DecideSettles DEF AckInv
<1>5. CASE Expire
  <2>1. PICK b \in Live :
          IF Running(b)
            THEN item' = [item EXCEPT ![b].expired = TRUE] /\ UNCHANGED <<table, acked>>
            ELSE Forget({b})
    BY <1>5 DEF Expire
  <2>2. UNCHANGED <<loop, hist>>
    BY <1>5 DEF Expire
  <2>3. WasStopped(a)' <=> WasStopped(a)
    BY <2>2 DEF WasStopped
  <2>4. CASE Running(b)
    <3>1. /\ item'[a].decision = item[a].decision /\ (item[a].expired => item'[a].expired)
          /\ item'[a].asked = item[a].asked
      BY <1>1, <2>1, <2>4 DEF Items
    <3>2. QED
      BY <1>1, <2>1, <2>2, <2>3, <2>4, <3>1, PassedBy
  <2>5. CASE ~Running(b) /\ a # b
    <3>1. Forget({b}) /\ a \notin {b}
      BY <2>1, <2>5
    <3>2. QED
      BY <1>1, <2>2, <2>3, <3>1, ForgetIs, PassedBy
  <2>6. CASE ~Running(b) /\ a = b
    <3>1. Forget({a}) /\ ~Running(a)'
      BY <2>1, <2>2, <2>6 DEF Running, At
    <3>2. a \notin table' /\ acked'[a] = None /\ item'[a].decision = "timeout"
      BY <3>1, ForgetIs
    <3>3. QED
      BY <3>1, <3>2 DEF SettledBy
  <2>7. QED
    BY <2>4, <2>5, <2>6
<1>6. CASE OpenElsewhere
  BY <1>1, <1>6, PassedBy DEF OpenElsewhere, Live, WasStopped
<1>7. CASE UNCHANGED <<loop, table, item, acked, hist>>
  BY <1>1, <1>7, PassedBy DEF WasStopped
<1>8. QED
  BY <1>1, <1>2, <1>3, <1>4, <1>5, <1>6, <1>7
     DEF Next, SwitchMode, EditRules, SetPolicy, vars

LEMMA AckInitially == Init => AckInv
<1> SUFFICES ASSUME Init, NEW a \in Ids
             PROVE  SettledBy(a)
  BY DEF AckInv
<1>1. item[a].decision = "timeout" /\ acked[a] = None /\ loop[a[1]].pc = "idle" /\ table = {}
  BY IdParts DEF Init, Fresh, Idle
<1>2. QED
  BY <1>1 DEF SettledBy, Running, At

\* Where there is a batch, a turn runs.
LEMMA NoneIdle ==
  ASSUME TypeInv, NEW c \in Loops, NEW i \in DOMAIN loop[c].out
  PROVE  ~At(c, "idle")
<1>1. loop[c] \in LoopRecord /\ BatchFits(c, loop[c])
  BY DEF TypeInv, LoopTyped
<1>2. loop[c].out \in Seq(Outcomes) /\ Len(loop[c].out) = Len(loop[c].calls)
  BY <1>1 DEF LoopRecord, BatchFits
<1>3. At(c, "idle") => Len(loop[c].out) = 0
  BY <1>1, <1>2 DEF BatchFits, At
<1>4. QED
  BY <1>2, <1>3

\* A command runs only if the rules allow it, the mode waives the question, or
\* the answer acknowledged for this very call does, whatever other answers,
\* edits, timeouts and turns come between the question and the second pass.
THEOREM CommandsAreApproved == Spec => CommandsRunPermitted
<1>1. ASSUME TypeInv, AckInv, [Next]_vars, NEW c \in Loops, NEW i \in 1 .. BatchOf[c],
             JustRan(c, i), IsCommand(loop[c].calls[i])
      PROVE  LET h == loop[c].calls[i]
             IN /\ Verdict(h) # "deny"
                /\ \/ Verdict(h) = "allow"
                   \/ loop[c].mode = "yolo"
                   \/ acked[Id(c, i)] \in Allowing
  <2> DEFINE h == loop[c].calls[i]
  <2>1. PICK stop \in BOOLEAN, approval \in AnswerKinds :
          /\ "ran" \in OutcomesOf(c, h, stop, approval)
          /\ approval = None \/ approval = loop[c].answers[i]
    BY <1>1, HowItRan
  <2> HIDE DEF h
  <2>2. /\ Verdict(h) # "deny"
        /\ Verdict(h) = "allow" \/ ApprovalFor(c, h, approval) \in Allowing
    <3>1. ASSUME NEW call, "ran" \in OutcomesOf(c, call, stop, approval), IsCommand(call)
          PROVE  /\ Verdict(call) # "deny"
                 /\ Verdict(call) = "allow" \/ ApprovalFor(c, call, approval) \in Allowing
      BY <3>1, OutcomeIs
    <3>2. IsCommand(h)
      BY <1>1 DEF h
    <3>3. QED
      BY <2>1, <3>1, <3>2
  <2>3. ASSUME ApprovalFor(c, h, approval) \in Allowing, loop[c].mode # "yolo"
        PROVE  acked[Id(c, i)] \in Allowing
    <3>1. approval \in Allowing /\ approval # None
      BY <2>3 DEF ApprovalFor, Allowing, None
    <3>2. approval = loop[c].answers[i] /\ approval \in Decisions
      BY <2>1, <3>1 DEF Decisions
    <3>3. /\ Id(c, i) \in Ids /\ i \in DOMAIN loop[c].out
          /\ Id(c, i)[1] = c /\ Id(c, i)[2] = loop[c].turn /\ Id(c, i)[3] = i
          /\ ~At(c, "idle")
      <4>1. i \in DOMAIN loop[c].out /\ ~At(c, "idle")
        BY <1>1, NoneIdle DEF JustRan
      <4>2. BatchOf[c] \in Nat
        BY LoopAssumption
      <4>3. QED
        BY <1>1, <4>1, <4>2, IdsAre DEF TypeInv
    <3>4. acked[Id(c, i)] = approval
      <4> DEFINE a == Id(c, i)
      <4>1. SettledBy(a) /\ a[1] = c /\ a[2] = loop[c].turn /\ a[3] = i
        BY <1>1, <3>3 DEF AckInv
      <4>2. RunningFits(a)
        BY <3>3, <4>1 DEF SettledBy, Running
      <4>3. QED
        BY <3>2, <3>3, <4>1, <4>2 DEF RunningFits
    <3>5. QED
      BY <3>1, <3>4
  <2>4. QED
    BY <2>2, <2>3 DEF h
<1>2. TypeInv /\ AckInv /\ [Next]_vars =>
        [\A c \in Loops : \A i \in 1 .. BatchOf[c] :
           JustRan(c, i) /\ IsCommand(loop[c].calls[i]) =>
             LET h == loop[c].calls[i]
             IN /\ Verdict(h) # "deny"
                /\ \/ Verdict(h) = "allow"
                   \/ loop[c].mode = "yolo"
                   \/ acked[Id(c, i)] \in Allowing]_vars
  BY <1>1
<1>3. QED
  BY <1>2, TypeInitially, TypeInductive, AckInitially, AckInductive, PTL
     DEF Spec, CommandsRunPermitted

\* Where somebody can be asked, only the wait for the question settles it.
LEMMA HowAnswered ==
  ASSUME TypeInv, [Next]_vars, NEW c \in Loops, NEW i \in 1 .. BatchOf[c],
         JustAnswered(c, i), loop[c].asks
  PROVE  /\ i = Least(Unasked(c))
         /\ \/ Wait(c) /\ Id(c, i) \notin table /\ loop'[c].answers[i] = "timeout"
            \/ Wake(c) /\ loop'[c].answers[i] = item[Id(c, i)].decision
<1>1. /\ loop \in [Loops -> LoopRecord] /\ loop[c] \in LoopRecord /\ BatchFits(c, loop[c])
      /\ loop[c].answers \in Seq(AnswerKinds) /\ i \in DOMAIN loop[c].answers
      /\ i \in DOMAIN loop'[c].answers /\ loop[c].answers[i] # loop'[c].answers[i]
  BY DEF TypeInv, LoopTyped, LoopRecord, JustAnswered
<1>2. loop'[c].answers # loop[c].answers /\ loop'[c].answers # <<>>
  BY <1>1
<1>3. ASSUME NEW decision, Answered(c, Least(Unasked(c)), decision),
             loop[c].pc \in {"shown", "waiting"}
      PROVE  i = Least(Unasked(c)) /\ loop'[c].answers[i] = decision
  <2> DEFINE k == Least(Unasked(c))
  <2>1. k \in DOMAIN loop[c].answers
    BY <1>3, PendingIs
  <2> HIDE DEF k
  <2>2. loop'[c].answers = [loop[c].answers EXCEPT ![k] = decision]
    BY <1>1, <1>3 DEF Answered, LoopRecord, k
  <2>3. QED
    BY <1>1, <2>1, <2>2 DEF k
<1>4. CASE Wait(c)
  <2>1. Id(c, Least(Unasked(c))) \notin table
    BY <1>1, <1>4 DEF Wait, LoopRecord
  <2>2. Answered(c, Least(Unasked(c)), "timeout") /\ loop[c].pc = "shown"
    BY <1>4, <2>1 DEF Wait, At
  <2>3. QED
    BY <1>3, <1>4, <2>1, <2>2
<1>5. CASE Wake(c)
  <2> DEFINE k == Least(Unasked(c))
  <2>1. Answered(c, k, item[Id(c, k)].decision) /\ loop[c].pc = "waiting"
    BY <1>5 DEF Wake, At, Settled
  <2>2. QED
    BY <1>3, <1>5, <2>1
<1>6. CASE \/ \E text \in BOOLEAN : Answer(c, text)
           \/ \E asks \in BOOLEAN, g \in Gates : StartTurn(c, asks, g)
           \/ GiveUp(c) \/ Stop(c) \/ Record(c)
  BY <1>2, <1>6, BatchIsLeft
<1>7. CASE \E calls \in Batches(c), late \in BOOLEAN : AskTools(c, calls, late)
  <2>1. Len(loop[c].answers) = 0
    BY <1>1, <1>7 DEF AskTools, At, BatchFits
  <2>2. QED
    BY <1>1, <2>1
<1>8. CASE Resolve(c)
  <2>1. loop'[c].answers[i] = None
    BY <1>1, <1>8 DEF Resolve, LoopRecord
  <2>2. loop[c].answers[i] = None
    BY <1>1, <1>8 DEF Resolve, At, BatchFits
  <2>3. QED
    BY <1>1, <2>1, <2>2
<1>9. CASE Ask(c)
  BY <1>1, <1>9 DEF Ask, LoopRecord
<1>10. CASE (\E j : ExecuteFirst(c, j)) \/ ExecuteSecond(c)
  <2>1. \E j, stop, approval : Execute(c, j, stop, approval)
    BY <1>10 DEF ExecuteFirst, ExecuteSecond
  <2>2. loop'[c].answers = loop[c].answers
    BY <1>1, <2>1 DEF Execute, LoopRecord
  <2>3. QED
    BY <1>2, <2>2
<1>11. LoopStep(c) \/ Stop(c)
  <2>1. ~Restart
    BY <1>1, <1>2 DEF Restart, Idle
  <2>2. ASSUME NEW d \in Loops \ {c}
        PROVE  ~(LoopStep(d) \/ Stop(d))
    BY <1>2, OthersStay
  <2>3. loop' # loop
    BY <1>2
  <2>4. QED
    BY <2>1, <2>2, <2>3
       DEF Next, Decide, Expire, OpenElsewhere, SwitchMode, EditRules, SetPolicy, vars
<1>12. QED
  BY <1>4, <1>5, <1>6, <1>7, <1>8, <1>9, <1>10, <1>11 DEF LoopStep

\* Only the user acknowledges.
LEMMA HowAcked ==
  ASSUME TypeInv, AckInv, [Next]_vars, NEW a \in Ids, acked'[a] # acked[a], acked'[a] # None
  PROVE  \/ WasStopped(a)
         \/ /\ loop[a[1]].turn = a[2]
            /\ loop[a[1]].pc \in {"shown", "waiting"}
            /\ loop[a[1]].answers[a[3]] = None
<1>1. acked \in [Ids -> Decisions \cup {None}]
  BY DEF TypeInv
<1>2. ASSUME NEW b \in Ids, NEW d \in Decisions, Decide(b, d)
      PROVE  \/ WasStopped(a)
             \/ /\ loop[a[1]].turn = a[2]
                /\ loop[a[1]].pc \in {"shown", "waiting"}
                /\ loop[a[1]].answers[a[3]] = None
  <2>1. b = a
    BY <1>1, <1>2 DEF Decide
  <2>2. SettledBy(a)
    BY DEF AckInv
  <2>3. QED
    BY <1>2, <2>1, <2>2, AckedWhileOpen DEF Awaited, Running
<1>3. ASSUME NEW gone
      PROVE  ~Forget(gone)
  BY DEF Forget
<1>4. acked' # acked
  OBVIOUS
<1>5. ASSUME NEW c \in Loops
      PROVE  ~(LoopStep(c) \/ Stop(c))
  BY <1>3, <1>4 DEF LoopStep, Stop, StartTurn, Answer, GiveUp, AskTools, ExecuteFirst, Resolve, Ask,
                    Wait, Wake, ExecuteSecond, Record, Dropped
<1>6. ~Restart /\ ~Expire
  BY <1>3, <1>4 DEF Restart, Expire
<1>7. QED
  BY <1>2, <1>4, <1>5, <1>6 DEF Next, OpenElsewhere, SwitchMode, EditRules, SetPolicy, vars

\* The answer acknowledged last is the one the turn goes on with, and none is
\* acknowledged that the turn can no longer use, unless the turn was stopped.
THEOREM AcknowledgedAnswerIsUsed == Spec => AcknowledgedIsUsed
<1> DEFINE UsedAs(c, i) ==
             \/ loop'[c].answers[i] = acked[Id(c, i)]
             \/ loop'[c].answers[i] = "timeout"
                /\ (acked[Id(c, i)] = None
                      \/ (item[Id(c, i)].expired /\ Id(c, i) \notin table))
<1>1. ASSUME TypeInv, AckInv, [Next]_vars, NEW c \in Loops, NEW i \in 1 .. BatchOf[c],
             JustAnswered(c, i), loop[c].asks
      PROVE  UsedAs(c, i)
  <2> DEFINE a == Id(c, i)
  <2>1. /\ i = Least(Unasked(c))
        /\ \/ Wait(c) /\ a \notin table /\ loop'[c].answers[i] = "timeout"
           \/ Wake(c) /\ loop'[c].answers[i] = item[a].decision
    BY <1>1, HowAnswered
  <2>2. i \in Unasked(c) /\ a \in Ids /\ a[1] = c /\ a[2] = loop[c].turn /\ a[3] = i
    <3>1. Unasked(c) # {}
      BY <1>1, <2>1, PendingIs DEF Wait, Wake, At
    <3>2. QED
      BY <1>1, <2>1, <3>1, PendingIs, AwaitedId
  <2>3. SettledBy(a)
    BY <1>1, <2>2 DEF AckInv
  <2>4. CASE Wait(c) /\ a \notin table /\ loop'[c].answers[i] = "timeout"
    <3>1. i \in DOMAIN loop[c].out /\ loop[c].out[i] = "awaiting" /\ loop[c].answers[i] = None
      BY <2>2 DEF Unasked, Pending
    <3>2. Running(a)
      BY <2>2, <2>4 DEF Running, Wait, At
    <3>3. item[a].expired
      BY <2>2, <2>3, <2>4, <3>1, <3>2 DEF SettledBy, RunningFits
    <3>4. QED
      BY <2>4, <3>3
  <2>5. CASE Wake(c) /\ loop'[c].answers[i] = item[a].decision
    BY <2>3, <2>5 DEF SettledBy
  <2>6. QED
    BY <2>1, <2>4, <2>5
<1>2. TypeInv /\ AckInv /\ [Next]_vars =>
        [/\ \A c \in Loops : \A i \in 1 .. BatchOf[c] :
              JustAnswered(c, i) /\ loop[c].asks =>
                \/ loop'[c].answers[i] = acked[Id(c, i)]
                \/ loop'[c].answers[i] = "timeout"
                   /\ (acked[Id(c, i)] = None
                         \/ (item[Id(c, i)].expired /\ Id(c, i) \notin table))
         /\ \A a \in Ids :
              acked'[a] # acked[a] /\ acked'[a] # None =>
                \/ WasStopped(a)
                \/ /\ loop[a[1]].turn = a[2]
                   /\ loop[a[1]].pc \in {"shown", "waiting"}
                   /\ loop[a[1]].answers[a[3]] = None]_vars
  BY <1>1, HowAcked
<1>3. QED
  BY <1>2, TypeInitially, TypeInductive, AckInitially, AckInductive, PTL
     DEF Spec, AcknowledgedIsUsed

-----------------------------------------------------------------------------
(* The groups of a batch                                                   *)

Member(gs, g, i) == \E k \in 1 .. Len(gs[g].members) : gs[g].members[k] = i

\* The groups gs of the first n calls: every call is in one of them, in the
\* order of the batch, and shares it only with calls that may run beside it.
GroupsFit(gs, n, calls) ==
  /\ gs \in Seq([call : Calls, members : Seq(Nat)])
  /\ \A g \in 1 .. Len(gs) : \A i : Member(gs, g, i) => i \in 1 .. n
  /\ \A i \in 1 .. n : \E g \in 1 .. Len(gs) : Member(gs, g, i)
  /\ \A f, g \in 1 .. Len(gs) : \A i, j \in Nat :
       Member(gs, f, i) /\ Member(gs, g, j) /\ f < g => i < j
  /\ \A g \in 1 .. Len(gs) : \A i, j \in Nat :
       Member(gs, g, i) /\ Member(gs, g, j) /\ i # j => Parallel(calls[i]) /\ Parallel(calls[j])
  /\ \A g \in 1 .. Len(gs) : \A i \in Nat :
       Member(gs, g, i) /\ Parallel(gs[g].call) => Parallel(calls[i])

\* The last element of a sequence, and one more behind it.
LEMMA Behind ==
  ASSUME NEW S, NEW s \in Seq(S)
  PROVE  /\ Len(s) \in Nat
         /\ s # <<>> => Len(s) \in 1 .. Len(s) /\ Last(s) = s[Len(s)] /\ Last(s) \in S
         /\ \A e \in S : /\ Append(s, e) \in Seq(S) /\ Len(Append(s, e)) = Len(s) + 1
                          /\ Append(s, e)[Len(s) + 1] = e
                          /\ \A k \in 1 .. Len(s) : Append(s, e)[k] = s[k]
<1>1. Len(s) \in Nat /\ (s # <<>> => Len(s) \in 1 .. Len(s))
  OBVIOUS
<1>2. QED
  BY <1>1 DEF Last

\* One more call joins the last group or makes a group of its own.
LEMMA GroupedFits ==
  ASSUME NEW calls \in Seq(Calls), NEW n \in 1 .. Len(calls), NEW gs, GroupsFit(gs, n - 1, calls)
  PROVE  GroupsFit(Grouped(gs, n, calls[n]), n, calls)
<1> DEFINE Groups == [call : Calls, members : Seq(Nat)]
           hs == Grouped(gs, n, calls[n])
<1>1. n \in Nat /\ n - 1 \in Nat /\ calls[n] \in Calls /\ gs \in Seq(Groups) /\ Len(gs) \in Nat
  BY DEF GroupsFit
<1>2. CASE gs # <<>> /\ Parallel(calls[n]) /\ Parallel(Last(gs).call)
  <2> DEFINE l == Len(gs)
             x == [gs[l] EXCEPT !.members = Append(gs[l].members, n)]
  <2>1. l \in 1 .. Len(gs) /\ l \in Nat /\ gs[l] \in Groups /\ Last(gs) = gs[l]
    <3> HIDE DEF Groups
    <3>1. QED
      BY <1>1, <1>2, Behind
  <2>2. hs = [gs EXCEPT ![l] = x]
    BY <1>1, <1>2, <2>1 DEF Grouped
  <2>3. /\ x \in Groups /\ x.call = gs[l].call /\ x.members = Append(gs[l].members, n)
        /\ gs[l].members \in Seq(Nat)
    <3>1. ASSUME NEW y \in Groups
          PROVE  LET z == [y EXCEPT !.members = Append(y.members, n)]
                 IN /\ z \in Groups /\ z.call = y.call /\ z.members = Append(y.members, n)
                    /\ y.members \in Seq(Nat)
      <4>1. y.members \in Seq(Nat)
        OBVIOUS
      <4>2. Append(y.members, n) \in Seq(Nat)
        BY <1>1, <4>1
      <4>3. QED
        BY <4>1, <4>2
    <3>2. QED
      BY <2>1, <3>1
  <2> HIDE DEF x, hs
  <2>4. /\ hs \in Seq(Groups) /\ Len(hs) = Len(gs)
        /\ \A g \in 1 .. Len(gs) : hs[g] = IF g = l THEN x ELSE gs[g]
    BY <1>1, <2>1, <2>2, <2>3, Replaced
  <2>5. ASSUME NEW i
        PROVE  Member(hs, l, i) <=> Member(gs, l, i) \/ i = n
    <3> DEFINE m == gs[l].members
    <3>1. /\ m \in Seq(Nat) /\ Len(m) \in Nat /\ Len(hs[l].members) = Len(m) + 1
          /\ hs[l].members[Len(m) + 1] = n
          /\ \A k \in 1 .. Len(m) : hs[l].members[k] = m[k]
      <4>1. hs[l].members = Append(m, n) /\ m \in Seq(Nat)
        BY <2>1, <2>3, <2>4
      <4> HIDE DEF m
      <4>2. QED
        BY <1>1, <4>1, Behind
    <3> HIDE DEF m
    <3>2. \A k \in 1 .. (Len(m) + 1) : k = Len(m) + 1 \/ k \in 1 .. Len(m)
      BY <3>1
    <3>3. Len(m) + 1 \in 1 .. (Len(m) + 1) /\ 1 .. Len(m) \subseteq 1 .. (Len(m) + 1)
      BY <3>1
    <3>4. QED
      BY <3>1, <3>2, <3>3 DEF Member, m
  <2>6. ASSUME NEW g \in 1 .. Len(gs), g # l, NEW i
        PROVE  hs[g] = gs[g] /\ (Member(hs, g, i) <=> Member(gs, g, i))
    BY <2>4, <2>6 DEF Member
  <2>7. hs[l].call = gs[l].call
    BY <2>1, <2>3, <2>4
  <2> HIDE DEF l
  <2>8. ASSUME NEW g \in 1 .. Len(hs), NEW i, Member(hs, g, i)
        PROVE  i \in 1 .. n
    <3>1. n \in 1 .. n /\ 1 .. (n - 1) \subseteq 1 .. n
      BY <1>1
    <3>2. Member(gs, g, i) \/ i = n
      BY <2>4, <2>5, <2>6, <2>8
    <3>3. QED
      BY <2>4, <3>1, <3>2 DEF GroupsFit
  <2>9. \A i \in 1 .. n : \E g \in 1 .. Len(hs) : Member(hs, g, i)
    <3>1. \A i \in 1 .. n : i = n \/ i \in 1 .. (n - 1)
      BY <1>1
    <3>2. QED
      BY <2>1, <2>4, <2>5, <2>6, <3>1 DEF GroupsFit
  <2>10. ASSUME NEW f \in 1 .. Len(hs), NEW g \in 1 .. Len(hs), NEW i \in Nat, NEW j \in Nat,
                Member(hs, f, i), Member(hs, g, j), f < g
         PROVE  i < j
    <3>1. f # l
      BY <1>1, <2>4, <2>10 DEF l
    <3>2. Member(gs, f, i) /\ i \in 1 .. (n - 1)
      BY <2>4, <2>6, <2>10, <3>1 DEF GroupsFit
    <3>3. CASE Member(gs, g, j)
      BY <2>4, <2>10, <3>2, <3>3 DEF GroupsFit
    <3>4. CASE j = n
      BY <1>1, <3>2, <3>4
    <3>5. QED
      BY <2>4, <2>5, <2>6, <2>10, <3>3, <3>4
  <2>11. ASSUME NEW g \in 1 .. Len(hs), NEW i \in Nat, Member(hs, g, i), Parallel(hs[g].call)
         PROVE  Parallel(calls[i])
    BY <1>2, <2>4, <2>5, <2>6, <2>7, <2>11 DEF GroupsFit
  <2>12. ASSUME NEW g \in 1 .. Len(hs), NEW i \in Nat, NEW j \in Nat,
                Member(hs, g, i), Member(hs, g, j), i # j
         PROVE  Parallel(calls[i]) /\ Parallel(calls[j])
    <3>1. CASE g = l
      BY <1>2, <2>1, <2>7, <2>11, <2>12, <3>1
    <3>2. CASE g # l
      BY <2>4, <2>6, <2>12, <3>2 DEF GroupsFit
    <3>3. QED
      BY <3>1, <3>2
  <2>13. QED
    BY <2>4, <2>8, <2>9, <2>10, <2>11, <2>12 DEF GroupsFit, hs
<1>3. CASE ~(gs # <<>> /\ Parallel(calls[n]) /\ Parallel(Last(gs).call))
  <2> DEFINE x == [call |-> calls[n], members |-> <<n>>]
             l == Len(gs) + 1
  <2>1. hs = Append(gs, x)
    BY <1>3 DEF Grouped
  <2>2. x \in Groups /\ x.call = calls[n] /\ Len(x.members) = 1 /\ x.members[1] = n
    BY <1>1
  <2> HIDE DEF x, hs
  <2>3. /\ hs \in Seq(Groups) /\ Len(hs) = l /\ l \in Nat /\ hs[l] = x
        /\ \A g \in 1 .. Len(gs) : hs[g] = gs[g]
    BY <1>1, <2>1, <2>2
  <2>4. \A g \in 1 .. Len(hs) : g = l \/ g \in 1 .. Len(gs)
    BY <1>1, <2>3
  <2>5. l \in 1 .. Len(hs) /\ 1 .. Len(gs) \subseteq 1 .. Len(hs)
    BY <1>1, <2>3
  <2>6. ASSUME NEW i
        PROVE  Member(hs, l, i) <=> i = n
    BY <2>2, <2>3 DEF Member
  <2>7. ASSUME NEW g \in 1 .. Len(gs), NEW i
        PROVE  hs[g] = gs[g] /\ (Member(hs, g, i) <=> Member(gs, g, i))
    BY <2>3 DEF Member
  <2>8. \A g \in 1 .. Len(hs) : \A i : Member(hs, g, i) => i \in 1 .. n
    BY <1>1, <2>4, <2>6, <2>7 DEF GroupsFit
  <2>9. \A i \in 1 .. n : \E g \in 1 .. Len(hs) : Member(hs, g, i)
    <3>1. \A i \in 1 .. n : i = n \/ i \in 1 .. (n - 1)
      BY <1>1
    <3>2. QED
      BY <2>5, <2>6, <2>7, <3>1 DEF GroupsFit
  <2>10. ASSUME NEW f \in 1 .. Len(hs), NEW g \in 1 .. Len(hs), NEW i \in Nat, NEW j \in Nat,
                Member(hs, f, i), Member(hs, g, j), f < g
         PROVE  i < j
    <3>1. f \in 1 .. Len(gs)
      BY <1>1, <2>3, <2>10
    <3>2. Member(gs, f, i) /\ i \in 1 .. (n - 1)
      BY <2>7, <2>10, <3>1 DEF GroupsFit
    <3>3. CASE g \in 1 .. Len(gs)
      BY <2>7, <2>10, <3>1, <3>2, <3>3 DEF GroupsFit
    <3>4. CASE g = l
      BY <1>1, <2>6, <2>10, <3>2, <3>4
    <3>5. QED
      BY <2>4, <3>3, <3>4
  <2>11. ASSUME NEW g \in 1 .. Len(hs), NEW i \in Nat, Member(hs, g, i), Parallel(hs[g].call)
         PROVE  Parallel(calls[i])
    <3>1. CASE g = l
      BY <2>2, <2>3, <2>6, <2>11, <3>1
    <3>2. CASE g \in 1 .. Len(gs)
      BY <2>7, <2>11, <3>2 DEF GroupsFit
    <3>3. QED
      BY <2>4, <3>1, <3>2
  <2>12. ASSUME NEW g \in 1 .. Len(hs), NEW i \in Nat, NEW j \in Nat,
                Member(hs, g, i), Member(hs, g, j), i # j
         PROVE  Parallel(calls[i]) /\ Parallel(calls[j])
    <3>1. CASE g = l
      BY <2>6, <2>12, <3>1
    <3>2. CASE g \in 1 .. Len(gs)
      BY <2>7, <2>12, <3>2 DEF GroupsFit
    <3>3. QED
      BY <2>4, <3>1, <3>2
  <2>13. QED
    BY <2>3, <2>8, <2>9, <2>10, <2>11, <2>12 DEF GroupsFit, hs
<1>4. QED
  BY <1>2, <1>3

\* The groups of the first calls of a batch, for each number of them up to m.
UpTo(f, calls, m) ==
  f = [n \in 0 .. m |-> IF n = 0 THEN <<>> ELSE Grouped(f[n - 1], n, calls[n])]

\* A set of numbers that holds nothing whose predecessors it does not hold is
\* empty: the least number principle.
LEMMA LeastOf ==
  ASSUME NEW S \in SUBSET Nat, S # {}
  PROVE  \E m \in S : \A k \in Nat : k < m => k \notin S
<1>1. PICK m \in S : \A j \in S : m <= j
  BY LeastIsIn
<1>2. ASSUME NEW k \in Nat, k < m
      PROVE  k \notin S
  <2>1. m \in Nat /\ ~(m <= k)
    BY <1>2
  <2>2. QED
    BY <1>1, <2>1
<1>3. QED
  BY <1>2

LEMMA GroupsUpTo ==
  ASSUME NEW calls \in Seq(Calls), NEW m \in 0 .. Len(calls)
  PROVE  \E f : UpTo(f, calls, m)
<1> DEFINE S == {n \in 0 .. Len(calls) : ~\E f : UpTo(f, calls, n)}
<1>1. SUFFICES ASSUME S # {}
               PROVE  FALSE
  OBVIOUS
<1>2. PICK n \in S : \A k \in Nat : k < n => k \notin S
  <2>1. S \in SUBSET Nat
    OBVIOUS
  <2> HIDE DEF S
  <2>2. QED
    BY <1>1, <2>1, LeastOf
<1>3. n \in 0 .. Len(calls) /\ n \in Nat /\ Len(calls) \in Nat
  OBVIOUS
<1>4. n # 0
  <2> DEFINE f == [k \in 0 .. 0 |-> <<>>]
  <2>1. UpTo(f, calls, 0)
    BY DEF UpTo
  <2>2. QED
    BY <2>1
<1>5. n - 1 \in 0 .. Len(calls) /\ n - 1 \in Nat /\ n - 1 < n
  BY <1>3, <1>4
<1>6. PICK f : UpTo(f, calls, n - 1)
  BY <1>2, <1>5
<1> DEFINE g == [k \in 0 .. n |-> IF k = n THEN Grouped(f[n - 1], n, calls[n]) ELSE f[k]]
<1>7. UpTo(g, calls, n)
  <2>1. ASSUME NEW k \in 0 .. n
        PROVE  g[k] = IF k = 0 THEN <<>> ELSE Grouped(g[k - 1], k, calls[k])
    <3>1. \A j \in 0 .. (n - 1) :
            f[j] = IF j = 0 THEN <<>> ELSE Grouped(f[j - 1], j, calls[j])
      BY <1>6 DEF UpTo
    <3>2. CASE k = n
      <4>1. n - 1 \in 0 .. n /\ n - 1 # n
        BY <1>3, <1>4
      <4>2. g[n - 1] = f[n - 1]
        BY <4>1
      <4>3. QED
        BY <1>4, <3>2, <4>2
    <3>3. CASE k # n
      <4>1. k \in 0 .. (n - 1) /\ (k # 0 => k - 1 \in 0 .. n /\ k - 1 # n)
        BY <1>3, <3>3
      <4>2. g[k] = f[k] /\ (k # 0 => g[k - 1] = f[k - 1])
        BY <3>3, <4>1
      <4>3. QED
        BY <3>1, <4>1, <4>2
    <3>4. QED
      BY <3>2, <3>3
  <2>2. g = [k \in 0 .. n |-> g[k]]
    OBVIOUS
  <2> HIDE DEF g
  <2>3. QED
    BY <2>1, <2>2 DEF UpTo
<1>8. QED
  BY <1>2, <1>7

LEMMA GroupsUpToFit ==
  ASSUME NEW calls \in Seq(Calls), NEW f, UpTo(f, calls, Len(calls)), NEW m \in 0 .. Len(calls)
  PROVE  GroupsFit(f[m], m, calls)
<1> DEFINE S == {n \in 0 .. Len(calls) : ~GroupsFit(f[n], n, calls)}
<1>1. SUFFICES ASSUME S # {}
               PROVE  FALSE
  OBVIOUS
<1>2. PICK n \in S : \A k \in Nat : k < n => k \notin S
  <2>1. S \in SUBSET Nat
    OBVIOUS
  <2> HIDE DEF S
  <2>2. QED
    BY <1>1, <2>1, LeastOf
<1>3. n \in 0 .. Len(calls) /\ n \in Nat /\ Len(calls) \in Nat /\ ~GroupsFit(f[n], n, calls)
  OBVIOUS
<1>4. f[n] = IF n = 0 THEN <<>> ELSE Grouped(f[n - 1], n, calls[n])
  BY <1>3 DEF UpTo
<1>5. n # 0
  <2>1. GroupsFit(<<>>, 0, calls)
    BY DEF GroupsFit
  <2>2. QED
    BY <1>3, <1>4, <2>1
<1>6. n - 1 \in 0 .. Len(calls) /\ n - 1 \in Nat /\ n - 1 < n /\ n \in 1 .. Len(calls)
  BY <1>3, <1>5
<1>7. GroupsFit(f[n - 1], n - 1, calls)
  BY <1>2, <1>6
<1>8. QED
  BY <1>3, <1>4, <1>5, <1>6, <1>7, GroupedFits

LEMMA ParallelGroupsAre ==
  ASSUME NEW calls \in Seq(Calls)
  PROVE  \E gs : /\ GroupsFit(gs, Len(calls), calls)
                 /\ ParallelGroups(calls) = [g \in 1 .. Len(gs) |-> gs[g].members]
<1>1. Len(calls) \in 0 .. Len(calls)
  OBVIOUS
<1>2. \E f : UpTo(f, calls, Len(calls))
  BY <1>1, GroupsUpTo
<1>3. \E f : /\ UpTo(f, calls, Len(calls))
             /\ ParallelGroups(calls) =
                  [g \in 1 .. Len(f[Len(calls)]) |-> f[Len(calls)][g].members]
  BY <1>2 DEF ParallelGroups, UpTo
<1>4. QED
  BY <1>1, <1>3, GroupsUpToFit

\* A call that may run follows calls that have run, or stands beside one that
\* has not and may run beside it.
LEMMA RunnableFollows ==
  ASSUME TypeInv, NEW c \in Loops, NEW i \in Runnable(c), NEW j \in 1 .. (i - 1)
  PROVE  \/ loop[c].out[j] # None
         \/ Parallel(loop[c].calls[i]) /\ Parallel(loop[c].calls[j])
<1>1. loop[c] \in LoopRecord /\ loop[c].calls \in Seq(Calls) /\ loop[c].out \in Seq(Outcomes)
      /\ Len(loop[c].out) = Len(loop[c].calls)
  BY DEF TypeInv, LoopTyped, LoopRecord, BatchFits
<1>2. i \in Unexecuted(c) /\ i \in 1 .. Len(loop[c].calls) /\ i \in Nat /\ Len(loop[c].calls) \in Nat
  BY <1>1, RunnableIs DEF Unexecuted
<1>3. j \in 1 .. Len(loop[c].calls) /\ j \in Nat /\ j < i /\ j \in DOMAIN loop[c].out
  BY <1>1, <1>2
<1>4. SUFFICES ASSUME loop[c].out[j] = None
               PROVE  Parallel(loop[c].calls[i]) /\ Parallel(loop[c].calls[j])
  OBVIOUS
<1>5. j \in Unexecuted(c)
  BY <1>3, <1>4 DEF Unexecuted
<1>6. ~loop[c].stop
  <2>1. loop[c].stop => \A k \in Unexecuted(c) : i <= k
    BY DEF Runnable
  <2>2. QED
    BY <1>2, <1>3, <1>5, <2>1
<1> DEFINE calls == loop[c].calls
           groups == ParallelGroups(calls)
<1>7. PICK g \in 1 .. Len(groups) :
        /\ i \in Range(groups[g])
        /\ \A f \in 1 .. (g - 1) : ~\E k \in 1 .. Len(groups[f]) : groups[f][k] \in Unexecuted(c)
  BY <1>6 DEF Runnable
<1>8. PICK gs : GroupsFit(gs, Len(calls), calls) /\ groups = [h \in 1 .. Len(gs) |-> gs[h].members]
  BY <1>1, ParallelGroupsAre
<1> HIDE DEF groups, calls
<1>9. /\ Len(groups) = Len(gs) /\ Len(gs) \in Nat
      /\ \A h \in 1 .. Len(gs) : groups[h] = gs[h].members /\ gs[h].members \in Seq(Nat)
  <2>1. gs \in Seq([call : Calls, members : Seq(Nat)])
    BY <1>8 DEF GroupsFit
  <2>2. Len(gs) \in Nat /\ \A h \in 1 .. Len(gs) : gs[h] \in [call : Calls, members : Seq(Nat)]
    <3>1. ASSUME NEW S, NEW s \in Seq(S)
          PROVE  Len(s) \in Nat /\ \A h \in 1 .. Len(s) : s[h] \in S
      OBVIOUS
    <3>2. QED
      BY <2>1, <3>1
  <2>3. Len(groups) = Len(gs) /\ \A h \in 1 .. Len(gs) : groups[h] = gs[h].members
    BY <1>8, <2>2
  <2>4. QED
    BY <2>2, <2>3
<1>10. Member(gs, g, i)
  BY <1>7, <1>9 DEF Member, Range
<1>11. PICK h \in 1 .. Len(gs) : Member(gs, h, j)
  BY <1>3, <1>8 DEF GroupsFit, calls
<1>12. h \notin 1 .. (g - 1)
  BY <1>5, <1>7, <1>9, <1>11 DEF Member
<1>13. ~(g < h)
  BY <1>2, <1>3, <1>7, <1>8, <1>9, <1>10, <1>11 DEF GroupsFit
<1>14. g = h
  BY <1>7, <1>9, <1>12, <1>13
<1>15. QED
  BY <1>2, <1>3, <1>7, <1>8, <1>9, <1>10, <1>11, <1>14 DEF GroupsFit, calls

\* What is not safe beside others is a barrier of its batch, whatever the batch
\* and in whichever order the calls that may run together do run.
THEOREM ExclusiveCallsRunAlone == Spec => ExclusiveCallsAreBarriers
<1>1. ASSUME TypeInv, [Next]_vars, NEW c \in Loops, NEW i \in 1 .. BatchOf[c], At(c, "first"),
             i \in Unexecuted(c), loop'[c].out # <<>>, loop'[c].out[i] # None,
             NEW j \in 1 .. (i - 1)
      PROVE  \/ loop[c].out[j] # None
             \/ Parallel(loop[c].calls[i]) /\ Parallel(loop[c].calls[j])
  <2>1. loop \in [Loops -> LoopRecord] /\ i \in DOMAIN loop[c].out /\ loop[c].out[i] = None
    BY <1>1 DEF TypeInv, LoopTyped, Unexecuted
  <2>2. ASSUME ExecuteFirst(c, i)
        PROVE  i \in Runnable(c)
    BY <2>2 DEF ExecuteFirst
  <2>3. ASSUME NEW k, k # i, ExecuteFirst(c, k)
        PROVE  FALSE
    <3>1. loop'[c].out = [loop[c].out EXCEPT ![k] = loop'[c].out[k]]
      <4>1. PICK outcome : loop' = [loop EXCEPT ![c] = [loop[c] EXCEPT !.out = [loop[c].out EXCEPT ![k] = outcome]]]
        BY <2>1, <2>3 DEF ExecuteFirst, Execute
      <4>2. loop'[c].out = [loop[c].out EXCEPT ![k] = outcome]
        BY <2>1, <4>1 DEF LoopRecord
      <4>3. k \in DOMAIN loop[c].out
        BY <1>1, <2>3, PassesExecute
      <4>4. QED
        BY <4>2, <4>3
    <3>2. QED
      BY <1>1, <2>1, <2>3, <3>1
  <2>4. ~ExecuteSecond(c)
    BY <1>1 DEF ExecuteSecond, At
  <2>5. ASSUME LoopStep(c) \/ Stop(c), ~\E k : ExecuteFirst(c, k)
        PROVE  FALSE
    <3>1. ~(Stop(c) \/ Record(c) \/ GiveUp(c) \/ (\E text \in BOOLEAN : Answer(c, text))
              \/ (\E asks \in BOOLEAN, g \in Gates : StartTurn(c, asks, g)))
      BY <1>1, BatchIsLeft
    <3>2. Resolve(c)
      BY <1>1, <2>4, <2>5, <3>1 DEF LoopStep, AskTools, Ask, Wait, Wake, At
    <3>3. QED
      BY <1>1, <3>2 DEF Resolve
  <2>6. ASSUME NEW d \in Loops \ {c}, LoopStep(d) \/ Stop(d)
        PROVE  FALSE
    BY <1>1, <2>1, <2>6, OthersStay
  <2>7. ~Restart
    BY <1>1 DEF Restart, Idle
  <2>8. loop' # loop
    BY <1>1, <2>1
  <2>9. LoopStep(c) \/ Stop(c)
    BY <1>1, <2>6, <2>7, <2>8
       DEF Next, Decide, Expire, OpenElsewhere, SwitchMode, EditRules, SetPolicy, vars
  <2>10. QED
    BY <1>1, <2>2, <2>3, <2>5, <2>9, RunnableFollows
<1>2. TypeInv /\ [Next]_vars =>
        [\A c \in Loops : \A i \in 1 .. BatchOf[c] :
           /\ At(c, "first")
           /\ i \in Unexecuted(c)
           /\ loop'[c].out # <<>> /\ loop'[c].out[i] # None
           => \A j \in 1 .. (i - 1) :
                \/ loop[c].out[j] # None
                \/ Parallel(loop[c].calls[i]) /\ Parallel(loop[c].calls[j])]_vars
  BY <1>1
<1>3. QED
  BY <1>2, TypeInitially, TypeInductive, PTL DEF Spec, ExclusiveCallsAreBarriers

=============================================================================
