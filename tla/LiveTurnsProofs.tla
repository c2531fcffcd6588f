--------------------------- MODULE LiveTurnsProofs ---------------------------
(***************************************************************************)
(* The properties of LiveTurns, for any number of turns, pages, events and  *)
(* mishaps, and any capacity of ring and queue.  The invariant has layers:  *)
(* the types; what the ring and the queues of a turn hold of its stream     *)
(* (StreamInv) and hand on of it (DeliveredInv); the numbers the turns have *)
(* given out (NumbersInv) and what their pages have seen of them (SeenInv), *)
(* which needs turns that wait for each other (AloneInv); and, each on its  *)
(* own, stops (StopInv) and ends (WaitInv).                                 *)
(***************************************************************************)
EXTENDS LiveTurns, WellFoundedInduction, SequenceTheorems, TLAPS

-----------------------------------------------------------------------------
(* The invariant                                                           *)

TurnPcs == {"new", "flagged", "registered", "running", "checking", "answering", "closing",
            "closed", "ended", "raised", "finished"}
\* A turn whose loop is going on, or just over.
Looping == {"running", "checking", "answering"}
PagePcs == {"away", "asking", "attached", "replay", "check", "live"}
Kinds == {"ask", "plain", "resume"}

TurnRecord == [pc : TurnPcs, kind : Kinds, base : Nat, drafts : Nat, ix : Nat,
               ring : Seq(Events), outcome : Outcomes \cup {"none"},
               terminal : Outcomes \cup {"none"}, stored : BOOLEAN]
PageRecord == [pc : PagePcs, on : Turns \cup {0}, after : Nat, queue : Seq(Events), cutoff : Nat,
               got : SUBSET Nat, told : Outcomes \cup {"none", "last answer"}]

TypeInv ==
  /\ logged \in Nat /\ resumable \in BOOLEAN
  /\ turn \in [Turns -> TurnRecord] /\ \A t \in Turns : Len(turn[t].ring) <= RingMax
  /\ current \in Turns \cup {0}
  /\ active \in BOOLEAN /\ stopped \in BOOLEAN /\ alone \in BOOLEAN
  /\ client \in [Clients -> PageRecord] /\ \A c \in Clients : Len(client[c].queue) <= QueueMax
  /\ anchor \in [Clients -> Nat]
  /\ seen \in [Clients -> SUBSET (Turns \X Nat)]
  /\ stopAt \in [Turns -> Nat \cup {Untaken}]

\* The largest number turn t has given out, or the one it counts on from.
Top(t) ==
  IF turn[t].outcome # "none"
  THEN turn[t].base + turn[t].drafts - (IF turn[t].pc = "closing" THEN 1 ELSE 0)
  ELSE IF turn[t].pc \in Looping /\ turn[t].ix > 0
       THEN turn[t].base + turn[t].drafts ELSE turn[t].base

Quiet == {"new", "flagged", "registered", "raised"}
Following == {"replay", "check", "live"}

\* What the place a turn has reached says of it.
TurnFits(t) ==
  LET r == turn[t]
  IN  /\ r.pc \in Quiet => r.ix = 0 /\ r.ring = <<>>
      /\ r.pc \in Quiet \cup Looping \cup {"closing"} => r.terminal = "none"
      /\ r.pc \in Quiet \cup Looping => r.outcome = "none"
      /\ r.pc \in {"closing", "closed"} => r.outcome # "none"
      /\ r.pc \in Looping \cup {"closing"} => r.drafts >= 1
      /\ r.pc = "checking" => r.ix >= 1
      /\ r.pc \in {"closed", "ended"} => r.terminal # "none"
      /\ r.pc = "finished" /\ (current = t \/ \E c \in Clients : client[c].on = t)
           => r.terminal # "none"
      /\ r.pc = "finished" => r.terminal # "none" \/ r.ix = 0
      /\ current = t => r.pc \notin {"new", "flagged"}
      /\ r.outcome = "none" \/ r.stored \/ "unstored" \in happened
      /\ r.base <= logged
      /\ r.outcome # "none" /\ "unstored" \notin happened => r.base + r.drafts <= logged

\* What the place a connection has reached says of it.
PageFits(c) ==
  LET r == client[c]
  IN  /\ r.pc \notin Following => r.queue = <<>>
      /\ r.pc # "away" \/ r.told # "none" => r.on \in Turns
      /\ r.pc \in Following \cup {"attached"} => turn[r.on].pc \notin {"new", "flagged"}
      /\ r.pc \in {"asking", "attached", "replay"} => r.after <= anchor[c]
      /\ r.pc \in {"check", "live"} => r.cutoff <= turn[r.on].ix
      /\ r.told # "none" => r.told = turn[r.on].terminal

\* The events of turn t that its ring and the queues of its pages hold.
Held(t) == ToSet(turn[t].ring)
             \cup UNION {ToSet(client[c].queue) : c \in {d \in Clients : client[d].on = t}}

\* e is an event turn t has emitted.
EventFits(t, e) ==
  /\ e.ix \in 1 .. turn[t].ix
  /\ e.seq # 0 => turn[t].base < e.seq /\ e.seq <= Top(t)
  /\ IsTerminal(e) => e.what = turn[t].terminal /\ e.ix = turn[t].ix

\* The numbers of two events grow with their positions.
Agree(e, f) ==
  /\ e.ix = f.ix => e.seq = f.seq
  /\ e.seq # 0 /\ f.seq # 0 /\ e.ix < f.ix => e.seq < f.seq

EventsFit(t) ==
  /\ \A e \in Held(t) : EventFits(t, e) \/ (e = End /\ turn[t].pc = "finished")
  /\ \A e, f \in Held(t) : Agree(e, f)
  /\ End \notin ToSet(turn[t].ring)

\* Events in the order they were emitted; nothing follows the end marker.
Rising(es) ==
  \A i, j \in DOMAIN es : i < j => es[i] # End /\ (es[j] = End \/ es[i].ix < es[j].ix)

StreamInv ==
  /\ \A t \in Turns : TurnFits(t) /\ EventsFit(t) /\ Rising(turn[t].ring)
  /\ \A c \in Clients : PageFits(c) /\ Rising(client[c].queue)

\* What is kept or was sent after the cut of a connection (see RingIsDelivered).
Delivered(c) ==
  client[c].pc \in {"check", "live"} =>
    \A e \in ToSet(turn[client[c].on].ring) :
      e.ix > client[c].cutoff => e.ix \in client[c].got \cup Positions(ToSet(client[c].queue))

DeliveredInv == \A c \in Clients : Delivered(c)

-----------------------------------------------------------------------------
(* Numbers, under turns that wait for each other                           *)

Busy(t) == turn[t].pc \notin {"new", "flagged", "finished"}

AloneInv ==
  alone => \A t, u \in Turns : t = u \/ turn[t].pc \in {"new", "finished"}
                                     \/ turn[u].pc \in {"new", "finished"}

\* A number in circulation is one the log has, or the running turn gave out.
Bounded(x) ==
  /\ \A t \in Turns : Busy(t) => x <= Top(t)
  /\ (\A t \in Turns : ~Busy(t)) => x <= logged

NumbersInv ==
  Orderly => /\ \A c \in Clients : Bounded(anchor[c])
             /\ \A t \in Turns : \A e \in Held(t) : Bounded(e.seq)
             /\ \A t \in Turns : Busy(t) => current \in {0, t}
             /\ current # 0 => \A t \in Turns \ {current} : \A e \in Held(t) :
                                 e.seq <= turn[current].base

\* The turns whose events c has, or gets when it comes back.
Joined(c, t) == t = current \/ (client[c].on = t /\ client[c].pc # "away")

SeenBefore(c, t) ==
  Joined(c, t) => \A e \in ToSet(turn[t].ring) :
                    e.seq # 0 /\ e.seq <= anchor[c] => <<t, e.ix>> \in seen[c]

SeenOrQueued(c) ==
  client[c].pc \in {"check", "live"} =>
    \A e \in ToSet(turn[client[c].on].ring) : e.seq # 0 =>
      /\ \/ <<client[c].on, e.ix>> \in seen[c]
         \/ e.ix \in Positions(ToSet(client[c].queue))
      /\ e.ix <= client[c].cutoff => <<client[c].on, e.ix>> \in seen[c]

SeenInv == Orderly => \A c \in Clients : SeenOrQueued(c) /\ \A t \in Turns : SeenBefore(c, t)

-----------------------------------------------------------------------------
(* Stops and ends                                                          *)

StopFits(t) ==
  LET r == turn[t]
  IN  /\ r.pc \in {"new", "flagged", "registered"} => stopAt[t] = Untaken
      /\ stopAt[t] # Untaken /\ r.kind = "ask" =>
           /\ r.pc \in {"running", "checking"} => stopped
           /\ r.pc = "running" => r.ix <= stopAt[t]
           /\ r.pc \in {"checking", "answering", "closing"} => r.ix <= stopAt[t] + 1

StopInv == alone => \A t \in Turns : StopFits(t)

Terminals(c) == {e \in ToSet(client[c].queue) : IsTerminal(e)}

WaitFits(c) ==
  LET r == client[c]
  IN  /\ r.pc \in Following /\ turn[r.on].terminal # "none" /\ turn[r.on].pc # "finished"
           => r.queue = <<>> \/ Terminals(c) # {}
      /\ r.pc = "live" /\ turn[r.on].pc = "finished"
           => End \in ToSet(r.queue) \/ Terminals(c) # {}
      /\ r.pc = "replay" => \A e \in Terminals(c) : e.seq = 0 \/ e.seq > anchor[c]
      /\ r.pc \in {"check", "live"} => \A e \in Terminals(c) : e.ix > r.cutoff

WaitInv == Orderly => \A c \in Clients : WaitFits(c)

IInv == TypeInv /\ StreamInv /\ DeliveredInv /\ AloneInv /\ NumbersInv /\ SeenInv /\ StopInv
        /\ WaitInv

-----------------------------------------------------------------------------
(* Operators                                                               *)

\* Any set of numbers has a least one.
LEMMA LeastNumber ==
  ASSUME NEW S \in SUBSET Nat, S # {}
  PROVE  \E i \in S : \A j \in S : i <= j
<1> DEFINE R == OpToRel(<, Nat)
<1>1. \A a, b \in Nat : a < b => <<a, b>> \in R
  BY Zenon DEF OpToRel
<1>2. IsWellFoundedOn(R, Nat)
  BY NatLessThanWellFounded
<1> HIDE DEF R
<1>3. PICK i \in S : \A j \in S : ~(<<j, i>> \in R)
  BY <1>2, WFMin
<1>4. ASSUME NEW j \in S
      PROVE  i <= j
  <2>1. ~(j < i)
    BY <1>1, <1>3
  <2>2. QED
    BY <2>1
<1>5. QED
  BY <1>4

\* Max of a bounded set of numbers.
LEMMA MaxIs ==
  ASSUME NEW S \in SUBSET Nat, S # {}, NEW b \in Nat, \A x \in S : x <= b
  PROVE  Max(S) \in S /\ \A x \in S : x <= Max(S)
<1> DEFINE D == {b - x : x \in S}
<1>1. D \in SUBSET Nat /\ D # {}
  <2>1. \A x \in S : x \in Nat /\ x <= b /\ b - x \in Nat
    OBVIOUS
  <2>2. QED
    BY <2>1
<1>2. PICK d \in D : \A j \in D : d <= j
  BY <1>1, LeastNumber
<1>3. PICK m \in S : d = b - m
  BY <1>2
<1>4. ASSUME NEW x \in S
      PROVE  m >= x
  <2>1. b - x \in D
    OBVIOUS
  <2>2. b - m <= b - x
    BY <1>2, <1>3, <2>1
  <2>3. QED
    BY <2>2
<1>5. \E x \in S : \A y \in S : x >= y
  BY <1>4
<1>6. QED
  BY <1>5 DEF Max

\* The numbers of finitely many events are bounded.
LEMMA NumbersOfSeq ==
  ASSUME NEW es \in Seq(Events)
  PROVE  \E b \in Nat : \A i \in DOMAIN es : es[i].seq <= b
<1> DEFINE Covered(n) == \E b \in Nat : \A i \in 1 .. n : es[i].seq <= b
           Bad == {n \in 0 .. Len(es) : ~Covered(n)}
<1>1. \A i \in 1 .. Len(es) : es[i].seq \in Nat
  <2>1. \A i \in 1 .. Len(es) : es[i] \in Events
    OBVIOUS
  <2>2. QED
    BY <2>1 DEF Events
<1>2. Covered(0)
  BY 0 \in Nat
<1>3. ASSUME NEW n \in 1 .. Len(es), Covered(n - 1)
      PROVE  Covered(n)
  <2>1. PICK b \in Nat : \A i \in 1 .. n - 1 : es[i].seq <= b
    BY <1>3
  <2>2. PICK k \in Nat : b <= k /\ es[n].seq <= k
    BY <1>1
  <2>3. ASSUME NEW i \in 1 .. n
        PROVE  es[i].seq <= k
    <3>1. es[i].seq \in Nat /\ (i = n \/ i \in 1 .. n - 1)
      BY <1>1
    <3>2. QED
      BY <2>1, <2>2, <3>1
  <2>4. QED
    BY <2>3
<1> HIDE DEF Covered
<1>4. ASSUME Bad # {}
      PROVE  FALSE
  <2>1. Bad \in SUBSET Nat
    OBVIOUS
  <2>2. PICK n \in Bad : \A m \in Bad : n <= m
    BY <1>4, <2>1, LeastNumber
  <2>3. n \in 1 .. Len(es) /\ n - 1 \in 0 .. Len(es) /\ ~(n <= n - 1)
    BY <1>2, <2>2
  <2>4. Covered(n - 1)
    BY <2>2, <2>3
  <2>5. QED
    BY <1>3, <2>2, <2>3, <2>4
<1>5. Covered(Len(es))
  BY <1>4
<1>6. QED
  BY <1>5 DEF Covered

LEMMA EndIsEvent == End \in Events /\ ~IsTerminal(End) /\ End.ix = 0 /\ End.seq = 0
  BY DEF End, Events, IsTerminal, Outcomes

\* What a page's queue holds after it was offered e.
LEMMA OfferDoes ==
  ASSUME NEW q \in Seq(Events), Len(q) <= QueueMax, NEW e \in Events
  PROVE  /\ Offer(q, e) \in Seq(Events) /\ Len(Offer(q, e)) <= QueueMax
         /\ ToSet(Offer(q, e)) \subseteq ToSet(q) \cup {e}
         /\ IsTerminal(e) \/ q = <<>> => e \in ToSet(Offer(q, e))
         /\ ~IsTerminal(e) => ToSet(q) \subseteq ToSet(Offer(q, e))
         /\ Offer(q, e) = q \/ e \in ToSet(Offer(q, e))
         /\ Rising(q) /\ (\A d \in ToSet(q) : d # End /\ (e = End \/ d.ix < e.ix))
              => Rising(Offer(q, e))
<1>1. QueueMax \in Nat \ {0} /\ Len(q) \in Nat
  BY LiveTurnsAssumption
<1>2. CASE Len(q) < QueueMax
  <2>1. Offer(q, e) = Append(q, e)
    BY <1>2 DEF Offer
  <2>2. /\ Len(Append(q, e)) = Len(q) + 1 /\ Append(q, e) \in Seq(Events)
        /\ \A i \in 1 .. Len(q) : Append(q, e)[i] = q[i]
        /\ Append(q, e)[Len(q) + 1] = e
    OBVIOUS
  <2>3. ToSet(q) \subseteq ToSet(Offer(q, e))
    BY <1>1, <2>1, <2>2 DEF ToSet
  <2>4. QED
    BY <1>1, <1>2, <2>1, <2>2, <2>3 DEF ToSet, Rising
<1>3. CASE ~(Len(q) < QueueMax) /\ IsTerminal(e)
  <2>1. Offer(q, e) = Append(Tail(q), e)
    BY <1>3 DEF Offer
  <2>2. q # <<>> /\ Len(q) >= 1
    BY <1>1, <1>3
  <2>3. /\ Tail(q) \in Seq(Events) /\ Len(Tail(q)) = Len(q) - 1
        /\ \A i \in 1 .. Len(q) - 1 : Tail(q)[i] = q[i + 1]
    BY <2>2
  <2>4. /\ Len(Append(Tail(q), e)) = Len(q) /\ Append(Tail(q), e) \in Seq(Events)
        /\ \A i \in 1 .. Len(q) - 1 : Append(Tail(q), e)[i] = q[i + 1]
        /\ Append(Tail(q), e)[Len(q)] = e
    BY <2>2, <2>3
  <2>5. QED
    BY <1>1, <1>3, <2>1, <2>2, <2>4 DEF ToSet, Rising
<1>4. CASE ~(Len(q) < QueueMax) /\ ~IsTerminal(e)
  <2>1. Offer(q, e) = q
    BY <1>4 DEF Offer
  <2>2. q # <<>>
    BY <1>1, <1>4
  <2>3. ToSet(q) \subseteq ToSet(Offer(q, e)) /\ ToSet(Offer(q, e)) \subseteq ToSet(q) \cup {e}
    BY <2>1
  <2>4. Offer(q, e) \in Seq(Events) /\ Len(Offer(q, e)) <= QueueMax
    BY <2>1
  <2>5. QED
    BY <1>4, <2>1, <2>2, <2>3, <2>4, Zenon
<1>5. QED
  BY <1>2, <1>3, <1>4

\* What the ring holds after e was kept.
LEMMA KeepDoes ==
  ASSUME NEW ring \in Seq(Events), Len(ring) <= RingMax, NEW e \in Events
  PROVE  /\ Keep(ring, e) \in Seq(Events) /\ Len(Keep(ring, e)) <= RingMax
         /\ ToSet(Keep(ring, e)) \subseteq ToSet(ring) \cup {e}
         /\ Rising(ring) /\ (\A d \in ToSet(ring) : d # End /\ d.ix < e.ix)
              => Rising(Keep(ring, e))
<1>1. RingMax \in Nat \ {0} /\ Len(ring) \in Nat
  BY LiveTurnsAssumption
<1>2. CASE Len(ring) < RingMax
  <2>1. Keep(ring, e) = Append(ring, e)
    BY <1>2 DEF Keep
  <2>2. /\ Len(Append(ring, e)) = Len(ring) + 1 /\ Append(ring, e) \in Seq(Events)
        /\ \A i \in 1 .. Len(ring) : Append(ring, e)[i] = ring[i]
        /\ Append(ring, e)[Len(ring) + 1] = e
    OBVIOUS
  <2>3. QED
    BY <1>1, <1>2, <2>1, <2>2 DEF ToSet, Rising
<1>3. CASE ~(Len(ring) < RingMax)
  <2>1. Keep(ring, e) = Append(Tail(ring), e)
    BY <1>3 DEF Keep
  <2>2. ring # <<>> /\ Len(ring) >= 1
    BY <1>1, <1>3
  <2>3. /\ Tail(ring) \in Seq(Events) /\ Len(Tail(ring)) = Len(ring) - 1
        /\ \A i \in 1 .. Len(ring) - 1 : Tail(ring)[i] = ring[i + 1]
    BY <2>2
  <2>4. /\ Len(Append(Tail(ring), e)) = Len(ring) /\ Append(Tail(ring), e) \in Seq(Events)
        /\ \A i \in 1 .. Len(ring) - 1 : Append(Tail(ring), e)[i] = ring[i + 1]
        /\ Append(Tail(ring), e)[Len(ring)] = e
    BY <2>2, <2>3
  <2>5. QED
    BY <1>1, <2>1, <2>2, <2>4 DEF ToSet, Rising
<1>4. QED
  BY <1>2, <1>3

\* What is left of a queue whose head was taken.
LEMMA TailDoes ==
  ASSUME NEW q \in Seq(Events), q # <<>>
  PROVE  /\ Tail(q) \in Seq(Events) /\ Len(Tail(q)) <= Len(q)
         /\ Head(q) \in ToSet(q) /\ Head(q) \in Events
         /\ ToSet(q) = ToSet(Tail(q)) \cup {Head(q)}
         /\ Rising(q) => Rising(Tail(q))
         /\ Rising(q) => \A e \in ToSet(Tail(q)) : Head(q) # End /\ (e = End \/ Head(q).ix < e.ix)
<1>1. /\ Tail(q) \in Seq(Events) /\ Len(Tail(q)) = Len(q) - 1 /\ Len(q) >= 1
      /\ Head(q) = q[1] /\ \A i \in 1 .. Len(q) - 1 : Tail(q)[i] = q[i + 1]
  OBVIOUS
<1>2. ToSet(q) \subseteq ToSet(Tail(q)) \cup {Head(q)}
  <2> DEFINE r == Tail(q)
  <2> SUFFICES ASSUME NEW i \in 1 .. Len(q), i # 1
               PROVE  q[i] \in ToSet(r)
    BY <1>1 DEF ToSet
  <2>1. i - 1 \in 1 .. Len(q) - 1 /\ r[i - 1] = q[i] /\ DOMAIN r = 1 .. Len(q) - 1
    BY <1>1
  <2> HIDE DEF r
  <2>2. r[i - 1] \in ToSet(r)
    BY <2>1 DEF ToSet
  <2>3. QED
    BY <2>1, <2>2
<1>3. ToSet(Tail(q)) \subseteq ToSet(q) /\ Head(q) \in ToSet(q)
  BY <1>1 DEF ToSet
<1>4. Rising(q) => Rising(Tail(q))
  BY <1>1 DEF Rising
<1>5. Rising(q) => \A e \in ToSet(Tail(q)) : Head(q) # End /\ (e = End \/ Head(q).ix < e.ix)
  BY <1>1 DEF Rising, ToSet
<1>6. QED
  BY <1>1, <1>2, <1>3, <1>4, <1>5

\* The cut of a ring, and what follows it.
LEMMA ReplayedIs ==
  ASSUME NEW ring \in Seq(Events), NEW after \in Nat
  PROVE  /\ Cut(ring, after) \in 0 .. Len(ring)
         /\ Replayed(ring, after) \in Seq(Events)
         /\ ToSet(Replayed(ring, after)) = {ring[i] : i \in {j \in DOMAIN ring : j > Cut(ring, after)}}
         /\ Cutoff(ring, after) \in Nat
         /\ Cut(ring, after) = 0 => Cutoff(ring, after) = 0
         /\ Cut(ring, after) # 0 => /\ Cutoff(ring, after) = ring[Cut(ring, after)].ix
                                    /\ ring[Cut(ring, after)].seq # 0
                                    /\ ring[Cut(ring, after)].seq <= after
<1> DEFINE S == Seen(ring, after) \cup {0}
           k == Cut(ring, after)
<1>1. S \in SUBSET Nat /\ S # {} /\ \A x \in S : x <= Len(ring)
  BY DEF Seen
<1>2. k \in S /\ k \in 0 .. Len(ring)
  <2>1. Len(ring) \in Nat
    OBVIOUS
  <2> HIDE DEF S
  <2>2. Max(S) \in S
    BY <1>1, <2>1, MaxIs
  <2>3. QED
    BY <1>1, <2>1, <2>2 DEF Cut, S
<1>3. k # 0 => k \in DOMAIN ring /\ ring[k].seq # 0 /\ ring[k].seq <= after
  BY <1>2 DEF Seen
<1>4. Cutoff(ring, after) = IF k = 0 THEN 0 ELSE ring[k].ix
  BY DEF Cutoff
<1>5. k # 0 => ring[k] \in Events /\ ring[k].ix \in Nat
  <2>1. k # 0 => k \in 1 .. Len(ring)
    BY <1>2
  <2> HIDE DEF k
  <2>2. k # 0 => ring[k] \in Events
    BY <2>1, ElementOfSeq
  <2>3. QED
    BY <2>2 DEF Events
<1> HIDE DEF k, S
<1>6. Replayed(ring, after) = SubSeq(ring, k + 1, Len(ring))
  BY DEF Replayed, k
<1>7. /\ SubSeq(ring, k + 1, Len(ring)) \in Seq(Events)
      /\ Len(SubSeq(ring, k + 1, Len(ring))) = Len(ring) - k
      /\ \A i \in 1 .. Len(ring) - k : SubSeq(ring, k + 1, Len(ring))[i] = ring[k + i]
  BY <1>2
<1>8. ToSet(Replayed(ring, after)) = {ring[i] : i \in {j \in DOMAIN ring : j > k}}
  <2> DEFINE s == SubSeq(ring, k + 1, Len(ring))
  <2>1. DOMAIN s = 1 .. Len(ring) - k
    BY <1>2, <1>7
  <2>2. ASSUME NEW j \in DOMAIN ring, j > k
        PROVE  j - k \in DOMAIN s /\ s[j - k] = ring[j]
    <3>1. j - k \in 1 .. Len(ring) - k /\ k + (j - k) = j
      BY <1>2, <2>2
    <3>2. s[j - k] = ring[k + (j - k)]
      BY <1>7, <3>1
    <3>3. QED
      BY <2>1, <3>1, <3>2
  <2>3. ASSUME NEW i \in DOMAIN s
        PROVE  k + i \in DOMAIN ring /\ k + i > k /\ s[i] = ring[k + i]
    BY <1>2, <1>7, <2>1
  <2>4. Replayed(ring, after) = s
    BY <1>6
  <2> HIDE DEF s
  <2>5. ToSet(s) = {s[i] : i \in DOMAIN s}
    BY DEF ToSet
  <2>6. QED
    BY <2>2, <2>3, <2>4, <2>5
<1>9. QED
  BY <1>2, <1>3, <1>4, <1>5, <1>6, <1>7, <1>8 DEF k

-----------------------------------------------------------------------------
(* What a step does to the connections                                     *)

LEMMA SetsOfEvents ==
  ASSUME NEW es \in SUBSET Events, NEW t \in Turns
  PROVE  /\ Positions(es) \in SUBSET Nat
         /\ Numbered(t, es) \in SUBSET (Turns \X Nat)
         /\ \A e \in es : e.ix \in Positions(es)
         /\ \A e \in es : e.seq # 0 => <<t, e.ix>> \in Numbered(t, es)
  BY DEF Positions, Numbered, Events

LEMMA LostIs ==
  ASSUME NEW q \in Seq(Events), NEW e \in Events
  PROVE  /\ Lost(q, e) \in SUBSET Events
         /\ \A d \in ToSet(q) \cup {e} : d \in ToSet(Offer(q, e)) \/ d \in Lost(q, e)
  BY DEF Lost, ToSet

\* Whoever follows t is offered e.
LEMMA FanOutDoes ==
  ASSUME TypeInv, NEW t \in Turns, NEW e \in Events, FanOut(t, e)
  PROVE  /\ client' \in [Clients -> PageRecord]
         /\ \A c \in Clients : Len(client'[c].queue) <= QueueMax
         /\ seen' \in [Clients -> SUBSET (Turns \X Nat)]
         /\ \A c \in Clients :
              /\ client'[c].pc = client[c].pc /\ client'[c].on = client[c].on
              /\ client'[c].after = client[c].after /\ client'[c].cutoff = client[c].cutoff
              /\ client'[c].told = client[c].told
              /\ ~Follows(c, t) => client'[c] = client[c] /\ seen'[c] = seen[c]
              /\ Follows(c, t) =>
                   /\ client'[c].queue = Offer(client[c].queue, e)
                   /\ client'[c].got = client[c].got \cup Positions(Lost(client[c].queue, e))
                   /\ seen'[c] = seen[c] \cup Numbered(t, Lost(client[c].queue, e))
<1> DEFINE Lo(c) == Lost(client[c].queue, e)
           Of(c) == Offer(client[c].queue, e)
           New(c) == [client[c] EXCEPT !.queue = Of(c), !.got = @ \cup Positions(Lo(c))]
<1>1. ASSUME NEW c \in Clients
      PROVE  /\ client[c] \in PageRecord /\ Len(client[c].queue) <= QueueMax
             /\ Of(c) \in Seq(Events) /\ Len(Of(c)) <= QueueMax
             /\ Positions(Lo(c)) \in SUBSET Nat /\ Numbered(t, Lo(c)) \in SUBSET (Turns \X Nat)
  <2>1. client[c] \in PageRecord /\ Len(client[c].queue) <= QueueMax
    BY DEF TypeInv
  <2>2. client[c].queue \in Seq(Events)
    BY <2>1 DEF PageRecord
  <2>3. QED
    BY <2>1, <2>2, OfferDoes, LostIs, SetsOfEvents
<1>2. /\ client' = [c \in Clients |-> IF Follows(c, t) THEN New(c) ELSE client[c]]
      /\ seen' = [c \in Clients |-> IF Follows(c, t) THEN seen[c] \cup Numbered(t, Lo(c)) ELSE seen[c]]
  BY DEF FanOut
<1> HIDE DEF Lo, Of
<1>3. ASSUME NEW c \in Clients
      PROVE  /\ New(c) \in PageRecord
             /\ New(c).queue = Of(c) /\ New(c).got = client[c].got \cup Positions(Lo(c))
             /\ New(c).pc = client[c].pc /\ New(c).on = client[c].on
             /\ New(c).after = client[c].after /\ New(c).cutoff = client[c].cutoff
             /\ New(c).told = client[c].told
  BY <1>1 DEF PageRecord
<1> HIDE DEF New
<1>4. client' \in [Clients -> PageRecord] /\ \A c \in Clients : Len(client'[c].queue) <= QueueMax
  BY <1>1, <1>2, <1>3
<1>5. seen' \in [Clients -> SUBSET (Turns \X Nat)]
  <2>1. seen \in [Clients -> SUBSET (Turns \X Nat)]
    BY DEF TypeInv
  <2> DEFINE P == Turns \X Nat
  <2>2. \A c \in Clients : Numbered(t, Lo(c)) \in SUBSET P
    BY <1>1
  <2> HIDE DEF P
  <2>3. seen' \in [Clients -> SUBSET P]
    BY <1>2, <2>1, <2>2 DEF P
  <2>4. QED
    BY <2>3 DEF P
<1>6. QED
  BY <1>2, <1>3, <1>4, <1>5 DEF Lo, Of

\* Page c, its connection otherwise in state r, was sent the events es.
SentTo(c, r, es) ==
  /\ client' \in [Clients -> PageRecord] /\ \A d \in Clients : Len(client'[d].queue) <= QueueMax
  /\ anchor' \in [Clients -> Nat] /\ seen' \in [Clients -> SUBSET (Turns \X Nat)]
  /\ client'[c].pc = r.pc /\ client'[c].on = r.on /\ client'[c].queue = r.queue
  /\ client'[c].after = r.after /\ client'[c].cutoff = r.cutoff
  /\ client'[c].got = r.got \cup Positions(es)
  /\ seen'[c] = seen[c] \cup Numbered(r.on, es)
  /\ \/ client'[c].told = r.told /\ \A e \in es : ~IsTerminal(e)
     \/ \E e \in es : IsTerminal(e) /\ client'[c].told = e.what
  /\ anchor[c] <= anchor'[c] /\ \A e \in es : e.seq <= anchor'[c]
  /\ anchor'[c] = anchor[c] \/ \E e \in es : anchor'[c] = e.seq
  /\ \A d \in Clients \ {c} : /\ client'[d] = client[d] /\ anchor'[d] = anchor[d]
                              /\ seen'[d] = seen[d]

LEMMA SendDoes ==
  ASSUME TypeInv, NEW c \in Clients, NEW r \in PageRecord, r.on \in Turns, Len(r.queue) <= QueueMax,
         NEW es \in Seq(Events), Send(c, r, es)
  PROVE  SentTo(c, r, ToSet(es))
<1> DEFINE told == IF Endings(es) = {} THEN r.told ELSE CHOOSE o \in Endings(es) : TRUE
           got == r.got \cup Positions(ToSet(es))
           A == {es[i].seq : i \in DOMAIN es} \cup {anchor[c]}
           x == [r EXCEPT !.got = got, !.told = told]
<1>1. /\ client \in [Clients -> PageRecord] /\ \A d \in Clients : Len(client[d].queue) <= QueueMax
      /\ anchor \in [Clients -> Nat] /\ seen \in [Clients -> SUBSET (Turns \X Nat)]
      /\ \A i \in DOMAIN es : es[i] \in Events
  BY DEF TypeInv
<1>2. /\ client' = [client EXCEPT ![c] = x]
      /\ anchor' = [anchor EXCEPT ![c] = Max(A)]
      /\ seen' = [seen EXCEPT ![c] = @ \cup Numbered(r.on, ToSet(es))]
  BY DEF Send
<1>3. /\ told \in Outcomes \cup {"none", "last answer"}
      /\ \/ told = r.told /\ \A e \in ToSet(es) : ~IsTerminal(e)
         \/ \E e \in ToSet(es) : IsTerminal(e) /\ told = e.what
  <2>1. CASE Endings(es) = {}
    BY <2>1 DEF Endings, ToSet, IsTerminal, PageRecord
  <2>2. CASE Endings(es) # {}
    <3>1. told \in Endings(es)
      BY <2>2
    <3>2. QED
      BY <3>1 DEF Endings, ToSet, IsTerminal
  <2>3. QED
    BY <2>1, <2>2
<1>4. /\ Max(A) \in Nat /\ anchor[c] <= Max(A) /\ \A e \in ToSet(es) : e.seq <= Max(A)
      /\ Max(A) = anchor[c] \/ \E e \in ToSet(es) : Max(A) = e.seq
  <2>1. PICK b \in Nat : \A i \in DOMAIN es : es[i].seq <= b
    BY NumbersOfSeq
  <2>2. PICK k \in Nat : b <= k /\ anchor[c] <= k
    <3>1. anchor[c] \in Nat
      BY <1>1
    <3>2. QED
      BY <3>1
  <2>3. \A i \in DOMAIN es : es[i].seq \in Nat /\ es[i].seq <= k
    BY <1>1, <2>1, <2>2 DEF Events
  <2>4. A \in SUBSET Nat /\ A # {} /\ \A y \in A : y <= k
    BY <1>1, <2>2, <2>3
  <2> HIDE DEF A
  <2>5. Max(A) \in A /\ \A y \in A : y <= Max(A)
    BY <2>4, MaxIs
  <2>6. QED
    BY <2>4, <2>5 DEF A, ToSet
<1>5. Positions(ToSet(es)) \in SUBSET Nat /\ Numbered(r.on, ToSet(es)) \in SUBSET (Turns \X Nat)
  <2>1. ToSet(es) \in SUBSET Events
    BY <1>1 DEF ToSet
  <2>2. QED
    BY <2>1, SetsOfEvents
<1>6. got \in SUBSET Nat
  BY <1>5 DEF PageRecord
<1> HIDE DEF told, got, A
<1>7. /\ x \in PageRecord /\ x.pc = r.pc /\ x.on = r.on /\ x.queue = r.queue /\ x.after = r.after
      /\ x.cutoff = r.cutoff /\ x.got = got /\ x.told = told
  BY <1>3, <1>6 DEF PageRecord
<1> HIDE DEF x
<1>8. seen'[c] = seen[c] \cup Numbered(r.on, ToSet(es)) /\ seen' \in [Clients -> SUBSET (Turns \X Nat)]
  <2> DEFINE P == Turns \X Nat
             N == Numbered(r.on, ToSet(es))
  <2>1. N \in SUBSET P /\ seen \in [Clients -> SUBSET P]
    BY <1>1, <1>5
  <2>2. seen' = [seen EXCEPT ![c] = @ \cup N]
    BY <1>2
  <2> HIDE DEF P, N
  <2>3. seen' \in [Clients -> SUBSET P] /\ seen'[c] = seen[c] \cup N
    BY <2>1, <2>2
  <2>4. QED
    BY <2>3 DEF P, N
<1>9. /\ client' \in [Clients -> PageRecord] /\ client'[c] = x
      /\ anchor' \in [Clients -> Nat] /\ anchor'[c] = Max(A)
      /\ \A d \in Clients \ {c} : /\ client'[d] = client[d] /\ anchor'[d] = anchor[d]
                                  /\ seen'[d] = seen[d]
      /\ \A d \in Clients : Len(client'[d].queue) <= QueueMax
  BY <1>1, <1>2, <1>4, <1>7
<1>10. QED
  BY <1>3, <1>4, <1>7, <1>8, <1>9 DEF got, SentTo

-----------------------------------------------------------------------------
(* What a step does to a turn                                              *)

LEMMA OneTurnMoves ==
  ASSUME TypeInv, NEW t \in Turns, NEW r \in TurnRecord, Len(r.ring) <= RingMax,
         turn' = [turn EXCEPT ![t] = r]
  PROVE  /\ turn' \in [Turns -> TurnRecord] /\ \A u \in Turns : Len(turn'[u].ring) <= RingMax
         /\ turn'[t] = r /\ \A u \in Turns \ {t} : turn'[u] = turn[u]
  BY DEF TypeInv

LEMMA OnePageMoves ==
  ASSUME TypeInv, NEW c \in Clients, NEW r \in PageRecord, Len(r.queue) <= QueueMax,
         client' = [client EXCEPT ![c] = r]
  PROVE  /\ client' \in [Clients -> PageRecord] /\ \A d \in Clients : Len(client'[d].queue) <= QueueMax
         /\ client'[c] = r /\ \A d \in Clients \ {c} : client'[d] = client[d]
  BY DEF TypeInv

\* Turn t emits e.
Emits(t, e, what, drafts, numbered, keep, pc) ==
  /\ e.ix = turn[t].ix + 1 /\ e.what = what
  /\ e.seq = IF numbered THEN turn[t].base + drafts ELSE 0
  /\ turn' \in [Turns -> TurnRecord] /\ \A u \in Turns : Len(turn'[u].ring) <= RingMax
  /\ \A u \in Turns \ {t} : turn'[u] = turn[u]
  /\ turn'[t].ix = e.ix /\ turn'[t].drafts = drafts /\ turn'[t].pc = pc
  /\ turn'[t].ring = IF keep THEN Keep(turn[t].ring, e) ELSE turn[t].ring
  /\ turn'[t].terminal = IF IsTerminal(e) THEN what ELSE turn[t].terminal
  /\ turn'[t].base = turn[t].base /\ turn'[t].kind = turn[t].kind
  /\ turn'[t].outcome = turn[t].outcome /\ turn'[t].stored = turn[t].stored
  /\ FanOut(t, e)

LEMMA PublishDoes ==
  ASSUME TypeInv, NEW t \in Turns, NEW what \in {"step", "note", "delta"} \cup Outcomes,
         NEW drafts \in Nat, NEW numbered \in BOOLEAN, NEW keep \in BOOLEAN, NEW pc \in TurnPcs,
         Publish(t, what, drafts, numbered, keep, pc)
  PROVE  \E e \in Events : Emits(t, e, what, drafts, numbered, keep, pc)
<1> DEFINE e == [ix |-> turn[t].ix + 1, what |-> what,
                 seq |-> IF numbered THEN turn[t].base + drafts ELSE 0]
           r == [turn[t] EXCEPT !.ix = e.ix, !.drafts = drafts, !.pc = pc,
                   !.ring = IF keep THEN Keep(@, e) ELSE @,
                   !.terminal = IF IsTerminal(e) THEN what ELSE @]
<1>1. turn[t] \in TurnRecord /\ Len(turn[t].ring) <= RingMax /\ turn[t].ring \in Seq(Events)
  BY DEF TypeInv, TurnRecord
<1>2. e \in Events
  BY <1>1 DEF Events, TurnRecord
<1>3. turn' = [turn EXCEPT ![t] = r] /\ FanOut(t, e)
  BY Zenon DEF Publish
<1>4. e.ix = turn[t].ix + 1 /\ e.what = what /\ e.seq = IF numbered THEN turn[t].base + drafts ELSE 0
  OBVIOUS
<1>5. e.ix \in Nat /\ (IsTerminal(e) => what \in Outcomes)
  BY <1>2 DEF Events, IsTerminal
<1> HIDE DEF e
<1>6. Keep(turn[t].ring, e) \in Seq(Events) /\ Len(Keep(turn[t].ring, e)) <= RingMax
  BY <1>1, <1>2, KeepDoes
<1>7. /\ r \in TurnRecord /\ Len(r.ring) <= RingMax
      /\ r.ix = e.ix /\ r.drafts = drafts /\ r.pc = pc
      /\ r.ring = IF keep THEN Keep(turn[t].ring, e) ELSE turn[t].ring
      /\ r.terminal = IF IsTerminal(e) THEN what ELSE turn[t].terminal
      /\ r.base = turn[t].base /\ r.kind = turn[t].kind
      /\ r.outcome = turn[t].outcome /\ r.stored = turn[t].stored
  BY <1>1, <1>5, <1>6 DEF TurnRecord
<1> HIDE DEF r
<1>8. /\ turn' \in [Turns -> TurnRecord] /\ \A u \in Turns : Len(turn'[u].ring) <= RingMax
      /\ turn'[t] = r /\ \A u \in Turns \ {t} : turn'[u] = turn[u]
  BY <1>3, <1>7, OneTurnMoves
<1>9. Emits(t, e, what, drafts, numbered, keep, pc)
  BY <1>3, <1>4, <1>7, <1>8 DEF Emits
<1>10. QED
  BY <1>2, <1>9

\* Where turn t is is all that changes, and what it drafted and stored.
MovesOnly(t) ==
  /\ turn' \in [Turns -> TurnRecord] /\ \A u \in Turns : Len(turn'[u].ring) <= RingMax
  /\ \A u \in Turns \ {t} : turn'[u] = turn[u]
  /\ turn'[t].ix = turn[t].ix /\ turn'[t].ring = turn[t].ring
  /\ turn'[t].terminal = turn[t].terminal
  /\ turn'[t].base = turn[t].base /\ turn'[t].kind = turn[t].kind

LEMMA StoreDoes ==
  ASSUME TypeInv, NEW t \in Turns, NEW drafts \in Nat, NEW outcome \in Outcomes, NEW answer,
         Store(t, drafts, outcome, answer)
  PROVE  /\ MovesOnly(t) /\ turn'[t].pc = "closing" /\ turn'[t].drafts = drafts
         /\ turn'[t].outcome = outcome
         /\ logged' \in Nat /\ logged <= logged' /\ resumable' \in BOOLEAN
         /\ happened \subseteq happened'
         /\ \/ turn'[t].stored /\ logged' = logged + drafts
            \/ "unstored" \in happened'
<1>1. turn[t] \in TurnRecord /\ Len(turn[t].ring) <= RingMax /\ logged \in Nat /\ resumable \in BOOLEAN
  BY DEF TypeInv
<1>2. ASSUME NEW stored \in BOOLEAN,
             turn' = [turn EXCEPT ![t] = [turn[t] EXCEPT !.pc = "closing", !.drafts = drafts,
                                            !.outcome = outcome, !.stored = stored]]
      PROVE  /\ MovesOnly(t) /\ turn'[t].pc = "closing" /\ turn'[t].drafts = drafts
             /\ turn'[t].outcome = outcome /\ turn'[t].stored = stored
  <2> DEFINE r == [turn[t] EXCEPT !.pc = "closing", !.drafts = drafts,
                                  !.outcome = outcome, !.stored = stored]
  <2>1. /\ r \in TurnRecord /\ Len(r.ring) <= RingMax /\ r.ix = turn[t].ix /\ r.ring = turn[t].ring
        /\ r.terminal = turn[t].terminal /\ r.base = turn[t].base /\ r.kind = turn[t].kind
        /\ r.pc = "closing" /\ r.drafts = drafts /\ r.outcome = outcome /\ r.stored = stored
    BY <1>1 DEF TurnRecord, TurnPcs
  <2>2. turn' = [turn EXCEPT ![t] = r]
    BY <1>2
  <2> HIDE DEF r
  <2>3. QED
    BY <2>1, <2>2, OneTurnMoves DEF MovesOnly
<1>3. CASE /\ logged' = logged + drafts
           /\ resumable' = IF answer = "none" THEN resumable ELSE answer = "cut short"
           /\ turn' = [turn EXCEPT ![t].pc = "closing", ![t].drafts = drafts,
                                   ![t].outcome = outcome, ![t].stored = TRUE]
           /\ UNCHANGED happened
  <2>1. turn' = [turn EXCEPT ![t] = [turn[t] EXCEPT !.pc = "closing", !.drafts = drafts,
                                       !.outcome = outcome, !.stored = TRUE]]
    BY <1>1, <1>3 DEF TypeInv, TurnRecord
  <2>2. /\ MovesOnly(t) /\ turn'[t].pc = "closing" /\ turn'[t].drafts = drafts
        /\ turn'[t].outcome = outcome /\ turn'[t].stored = TRUE
    BY <1>2, <2>1
  <2>3. logged' \in Nat /\ logged <= logged' /\ resumable' \in BOOLEAN
    <3>1. logged' \in Nat /\ logged <= logged'
      <4>1. logged \in Nat /\ logged' = logged + drafts
        BY <1>1, <1>3, Zenon
      <4>2. QED
        BY <4>1
    <3>2. resumable' \in BOOLEAN
      BY <1>1, <1>3, Zenon
    <3>3. QED
      BY <3>1, <3>2
  <2>4. QED
    BY <1>3, <2>2, <2>3
<1>4. CASE /\ Happens("unstored")
           /\ turn' = [turn EXCEPT ![t].pc = "closing", ![t].drafts = drafts, ![t].outcome = outcome]
           /\ UNCHANGED <<logged, resumable>>
  <2>1. turn' = [turn EXCEPT ![t] = [turn[t] EXCEPT !.pc = "closing", !.drafts = drafts,
                                       !.outcome = outcome, !.stored = turn[t].stored]]
    BY <1>1, <1>4 DEF TypeInv, TurnRecord
  <2>2. turn[t].stored \in BOOLEAN
    BY <1>1 DEF TurnRecord
  <2>3. /\ MovesOnly(t) /\ turn'[t].pc = "closing" /\ turn'[t].drafts = drafts
        /\ turn'[t].outcome = outcome
    BY <1>2, <2>1, <2>2
  <2>4. QED
    BY <1>1, <1>4, <2>3 DEF Happens
<1>5. QED
  BY <1>3, <1>4 DEF Store

\* The steps of a turn that emit nothing.
Move(t) == Begin(t) \/ Check(t) \/ Answer(t) \/ Fail(t) \/ EndMarks(t) \/ Raise(t)

\* From where to where, and with what.
Moved(t) ==
  LET r == turn[t]
      s == turn'[t]
  IN  \/ /\ r.pc = "registered" /\ s.pc = "running" /\ s.drafts >= 1 /\ stopped' = FALSE
         /\ s.outcome = r.outcome /\ s.stored = r.stored
      \/ /\ r.pc = "checking" /\ s.pc = "running" /\ s.drafts = r.drafts
         /\ ~(stopped /\ r.kind = "ask") /\ stopped' = stopped
         /\ s.outcome = r.outcome /\ s.stored = r.stored
      \/ /\ r.pc \in Looping /\ s.pc = "closing" /\ s.drafts > r.drafts
         /\ s.outcome \in Outcomes
         /\ (s.stored /\ logged' = logged + s.drafts) \/ "unstored" \in happened'
         /\ stopped' = stopped
      \/ /\ r.pc = "closed" /\ s.pc = "ended" /\ s.drafts = r.drafts
         /\ s.outcome = r.outcome /\ s.stored = r.stored
      \/ /\ r.pc = "registered" \/ (r.pc = "running" /\ r.ix = 0)
         /\ s.pc = "raised" /\ s.drafts = r.drafts
         /\ s.outcome = r.outcome /\ s.stored = r.stored

LEMMA MoveDoes ==
  ASSUME TypeInv, NEW t \in Turns, Move(t)
  PROVE  /\ MovesOnly(t) /\ Moved(t)
         /\ UNCHANGED <<current, client, anchor, seen, stopAt, alone>>
         /\ logged' \in Nat /\ logged <= logged' /\ resumable' \in BOOLEAN
         /\ active' \in BOOLEAN /\ stopped' \in BOOLEAN
         /\ happened \subseteq happened'
<1>1. /\ turn[t] \in TurnRecord /\ Len(turn[t].ring) <= RingMax
      /\ logged \in Nat /\ resumable \in BOOLEAN /\ active \in BOOLEAN /\ stopped \in BOOLEAN
      /\ turn \in [Turns -> TurnRecord]
  BY DEF TypeInv
<1>2. turn[t].drafts \in Nat
  BY <1>1 DEF TurnRecord
<1>3. CASE Begin(t)
  <2>1. PICK changed \in {0, 1} :
          /\ turn' = [turn EXCEPT ![t].pc = "running",
                        ![t].drafts = changed + (IF turn[t].kind = "resume" THEN 2 ELSE 1)]
          /\ IF changed = 1 THEN Happens("mode") ELSE UNCHANGED happened
    BY <1>3, Zenon DEF Begin
  <2> DEFINE n == changed + (IF turn[t].kind = "resume" THEN 2 ELSE 1)
             r == [turn[t] EXCEPT !.pc = "running", !.drafts = n]
  <2>2. n \in Nat /\ n >= 1
    OBVIOUS
  <2>3. turn' = [turn EXCEPT ![t] = r]
    BY <1>1, <2>1 DEF TurnRecord
  <2> HIDE DEF n
  <2>4. /\ r \in TurnRecord /\ Len(r.ring) <= RingMax /\ r.pc = "running" /\ r.drafts = n
        /\ r.ix = turn[t].ix /\ r.ring = turn[t].ring /\ r.terminal = turn[t].terminal
        /\ r.base = turn[t].base /\ r.kind = turn[t].kind /\ r.outcome = turn[t].outcome
        /\ r.stored = turn[t].stored
    BY <1>1, <2>2 DEF TurnRecord, TurnPcs
  <2> HIDE DEF r
  <2>5. MovesOnly(t) /\ turn'[t] = r
    BY <2>3, <2>4, OneTurnMoves DEF MovesOnly
  <2>6. happened \subseteq happened'
    BY <2>1 DEF Happens
  <2>7. turn[t].pc = "registered" /\ active' = TRUE /\ stopped' = FALSE
        /\ UNCHANGED <<logged, resumable, current, client, anchor, seen, stopAt, alone>>
    BY <1>3 DEF Begin, pageVars, history
  <2>8. Moved(t)
    BY <2>2, <2>4, <2>5, <2>7 DEF Moved
  <2>9. logged' \in Nat /\ logged <= logged'
    BY <1>1, <2>7
  <2>10. resumable' \in BOOLEAN /\ active' \in BOOLEAN /\ stopped' \in BOOLEAN
    BY <1>1, <2>7, Zenon
  <2>11. QED
    BY <2>5, <2>6, <2>7, <2>8, <2>9, <2>10, Zenon
<1>4. ASSUME NEW pc \in {"running", "ended", "raised"}, turn' = [turn EXCEPT ![t].pc = pc]
      PROVE  /\ MovesOnly(t) /\ turn'[t].pc = pc /\ turn'[t].drafts = turn[t].drafts
             /\ turn'[t].outcome = turn[t].outcome /\ turn'[t].stored = turn[t].stored
  <2> DEFINE r == [turn[t] EXCEPT !.pc = pc]
  <2>1. /\ r \in TurnRecord /\ Len(r.ring) <= RingMax /\ r.pc = pc /\ r.drafts = turn[t].drafts
        /\ r.ix = turn[t].ix /\ r.ring = turn[t].ring /\ r.terminal = turn[t].terminal
        /\ r.base = turn[t].base /\ r.kind = turn[t].kind /\ r.outcome = turn[t].outcome
        /\ r.stored = turn[t].stored
    BY <1>1 DEF TurnRecord, TurnPcs
  <2>2. turn' = [turn EXCEPT ![t] = r]
    BY <1>1, <1>4
  <2> HIDE DEF r
  <2>3. QED
    BY <2>1, <2>2, OneTurnMoves DEF MovesOnly
<1>5. ASSUME NEW n \in Nat, n > turn[t].drafts, NEW outcome \in Outcomes, NEW answer,
             Store(t, n, outcome, answer), turn[t].pc \in Looping,
             UNCHANGED <<current, flagVars, pageVars, history>>
      PROVE  /\ MovesOnly(t) /\ Moved(t)
             /\ UNCHANGED <<current, client, anchor, seen, stopAt, alone>>
             /\ logged' \in Nat /\ logged <= logged' /\ resumable' \in BOOLEAN
             /\ active' \in BOOLEAN /\ stopped' \in BOOLEAN
             /\ happened \subseteq happened'
  <2>1. UNCHANGED <<current, active, stopped, client, anchor, seen, stopAt, alone>>
    BY <1>5 DEF flagVars, pageVars, history
  <2>2. /\ MovesOnly(t) /\ turn'[t].pc = "closing" /\ turn'[t].drafts = n
        /\ turn'[t].outcome = outcome
        /\ logged' \in Nat /\ logged <= logged' /\ resumable' \in BOOLEAN
        /\ happened \subseteq happened'
        /\ \/ turn'[t].stored /\ logged' = logged + n
           \/ "unstored" \in happened'
    BY <1>5, StoreDoes
  <2>3. Moved(t)
    BY <1>5, <2>1, <2>2 DEF Moved
  <2>4. QED
    BY <1>1, <2>1, <2>2, <2>3
<1>6. turn[t].drafts + 1 \in Nat /\ turn[t].drafts + 1 > turn[t].drafts
      /\ turn[t].drafts + 2 \in Nat /\ turn[t].drafts + 2 > turn[t].drafts
      /\ "interrupted" \in Outcomes /\ "answer" \in Outcomes /\ "error" \in Outcomes
  BY <1>2 DEF Outcomes
<1>7. CASE Check(t)
  <2>1. CASE stopped /\ turn[t].kind = "ask"
    BY <1>5, <1>6, <1>7, <2>1 DEF Check, Looping
  <2>2. CASE ~(stopped /\ turn[t].kind = "ask")
    <3>1. /\ turn[t].pc = "checking" /\ turn' = [turn EXCEPT ![t].pc = "running"]
          /\ UNCHANGED <<logged, resumable, happened, current, active, stopped, client, anchor, seen,
                         stopAt, alone>>
      BY <1>7, <2>2 DEF Check, flagVars, pageVars, history
    <3>2. /\ MovesOnly(t) /\ turn'[t].pc = "running" /\ turn'[t].drafts = turn[t].drafts
          /\ turn'[t].outcome = turn[t].outcome /\ turn'[t].stored = turn[t].stored
      BY <1>4, <3>1
    <3>3. Moved(t)
      BY <2>2, <3>1, <3>2 DEF Moved
    <3>4. QED
      BY <1>1, <3>1, <3>2, <3>3
  <2>3. QED
    BY <2>1, <2>2
<1>8. CASE Answer(t)
  <2>1. PICK answer \in Answers : Store(t, turn[t].drafts + 1, "answer", answer)
    BY <1>8, Zenon DEF Answer
  <2>2. turn[t].pc \in Looping /\ UNCHANGED <<current, flagVars, pageVars, history>>
    BY <1>8 DEF Answer, Looping
  <2>3. QED
    BY <1>5, <1>6, <2>1, <2>2
<1>9. CASE Fail(t)
  BY <1>5, <1>6, <1>9 DEF Fail, Looping
<1>10. CASE EndMarks(t)
  <2>1. /\ turn[t].pc = "closed" /\ turn' = [turn EXCEPT ![t].pc = "ended"]
        /\ active' = FALSE /\ stopped' = FALSE
        /\ UNCHANGED <<logged, resumable, happened, current, client, anchor, seen, stopAt, alone>>
    BY <1>10 DEF EndMarks, pageVars, history
  <2>2. /\ MovesOnly(t) /\ turn'[t].pc = "ended" /\ turn'[t].drafts = turn[t].drafts
        /\ turn'[t].outcome = turn[t].outcome /\ turn'[t].stored = turn[t].stored
    BY <1>4, <2>1
  <2>3. Moved(t)
    BY <2>1, <2>2 DEF Moved
  <2>4. logged' \in Nat /\ logged <= logged'
    BY <1>1, <2>1
  <2>5. resumable' \in BOOLEAN /\ active' \in BOOLEAN /\ stopped' \in BOOLEAN
    BY <1>1, <2>1, Zenon
  <2>6. QED
    BY <2>1, <2>2, <2>3, <2>4, <2>5, Zenon
<1>11. CASE Raise(t)
  <2>1. /\ turn' = [turn EXCEPT ![t].pc = "raised"] /\ happened \subseteq happened'
        /\ turn[t].pc = "registered" \/ (turn[t].pc = "running" /\ turn[t].ix = 0)
        /\ UNCHANGED <<logged, resumable, current, client, anchor, seen, stopAt, alone>>
        /\ active' \in BOOLEAN /\ stopped' \in BOOLEAN
    BY <1>1, <1>11 DEF Raise, Happens, flagVars, pageVars, history
  <2>2. /\ MovesOnly(t) /\ turn'[t].pc = "raised" /\ turn'[t].drafts = turn[t].drafts
        /\ turn'[t].outcome = turn[t].outcome /\ turn'[t].stored = turn[t].stored
    BY <1>4, <2>1
  <2>3. Moved(t)
    BY <2>1, <2>2 DEF Moved
  <2>4. QED
    BY <1>1, <2>1, <2>2, <2>3
<1>12. QED
  BY <1>3, <1>7, <1>8, <1>9, <1>10, <1>11 DEF Move

\* The steps of a turn that emit something.
Emission(t) == \/ Compress(t) \/ (\E what \in {"step", "note", "delta"} : Emit(t, what))
               \/ Notice(t) \/ Close(t) \/ Catch(t)

Emitted(t, e) ==
  LET r == turn[t]
      s == turn'[t]
  IN  /\ turn' \in [Turns -> TurnRecord] /\ \A u \in Turns : Len(turn'[u].ring) <= RingMax
      /\ \A u \in Turns \ {t} : turn'[u] = turn[u]
      /\ e.ix = r.ix + 1 /\ s.ix = r.ix + 1
      /\ s.base = r.base /\ s.kind = r.kind /\ s.outcome = r.outcome /\ s.stored = r.stored
      /\ s.ring = Keep(r.ring, e) \/ (s.ring = r.ring /\ e.seq = 0 /\ ~IsTerminal(e))
      /\ \/ /\ r.pc = "running" /\ s.pc \in Looping /\ ~IsTerminal(e) /\ s.terminal = r.terminal
            /\ s.pc = "running" => r.ix = 0
            /\ \/ e.seq = 0 /\ s.drafts = r.drafts
               \/ e.seq = r.base + s.drafts /\ s.drafts = r.drafts + 1
         \/ /\ r.pc = "closing" /\ s.pc = "closed" /\ IsTerminal(e) /\ s.terminal = e.what
            /\ e.seq = r.base + s.drafts /\ s.drafts = r.drafts
         \/ /\ r.pc = "raised" /\ s.pc = "ended" /\ IsTerminal(e) /\ s.terminal = e.what
            /\ e.seq = 0 /\ s.drafts = r.drafts
      /\ FanOut(t, e)

\* A stop counts from the word on the compressed history on.
StopCounts(t) ==
  IF turn'[t].pc = "running"
  THEN stopAt' = [stopAt EXCEPT ![t] = IF @ = Untaken THEN @ ELSE 1]
  ELSE stopAt' = stopAt

LEMMA EmissionDoes ==
  ASSUME TypeInv, NEW t \in Turns, TurnFits(t), Emission(t)
  PROVE  /\ \E e \in Events : Emitted(t, e)
         /\ StopCounts(t)
         /\ UNCHANGED <<logged, resumable, current, active, stopped, anchor, alone, happened>>
<1>1. turn[t] \in TurnRecord /\ turn[t].drafts \in Nat
  BY DEF TypeInv, TurnRecord
<1>2. ASSUME NEW what \in {"step", "note", "delta"}, Emit(t, what)
      PROVE  /\ \E e \in Events : Emitted(t, e)
             /\ StopCounts(t)
             /\ UNCHANGED <<logged, resumable, current, active, stopped, anchor, alone, happened>>
  <2> DEFINE n == turn[t].drafts + (IF what = "step" THEN 1 ELSE 0)
             numbered == what = "step"
             keep == what # "delta"
  <2>1. /\ turn[t].pc = "running" /\ Publish(t, what, n, numbered, keep, "checking")
        /\ UNCHANGED <<logged, resumable, current, active, stopped, anchor, stopAt, alone, happened>>
    BY <1>2 DEF Emit, flagVars, history
  <2>2. n \in Nat /\ numbered \in BOOLEAN /\ keep \in BOOLEAN /\ "checking" \in TurnPcs
        /\ what \in {"step", "note", "delta"} \cup Outcomes /\ what \notin Outcomes
    BY <1>1 DEF TurnPcs, Outcomes
  <2>3. (numbered => keep /\ n = turn[t].drafts + 1) /\ (~numbered => n = turn[t].drafts)
    BY <1>1
  <2> HIDE DEF n, numbered, keep
  <2>4. PICK e \in Events : Emits(t, e, what, n, numbered, keep, "checking")
    BY <2>1, <2>2, PublishDoes
  <2>5. ~IsTerminal(e)
    BY <2>2, <2>4 DEF Emits, IsTerminal
  <2>6. Emitted(t, e) /\ StopCounts(t)
    BY <2>1, <2>3, <2>4, <2>5 DEF Emits, Emitted, Looping, StopCounts
  <2>7. QED
    BY <2>1, <2>6
<1>3. CASE Close(t)
  <2>1. /\ turn[t].pc = "closing"
        /\ Publish(t, turn[t].outcome, turn[t].drafts, TRUE, TRUE, "closed")
        /\ UNCHANGED <<logged, resumable, current, active, stopped, anchor, stopAt, alone, happened>>
    BY <1>3 DEF Close, flagVars, history
  <2>2. turn[t].outcome \in Outcomes /\ "closed" \in TurnPcs
    BY <1>1, <2>1 DEF TurnFits, TurnRecord, TurnPcs
  <2>3. PICK e \in Events : Emits(t, e, turn[t].outcome, turn[t].drafts, TRUE, TRUE, "closed")
    BY <1>1, <2>1, <2>2, PublishDoes
  <2>4. IsTerminal(e)
    BY <2>2, <2>3 DEF Emits, IsTerminal
  <2>5. Emitted(t, e) /\ StopCounts(t)
    BY <2>1, <2>3, <2>4 DEF Emits, Emitted, StopCounts
  <2>6. QED
    BY <2>1, <2>5
<1>4. CASE Catch(t)
  <2>1. /\ turn[t].pc = "raised" /\ Publish(t, "error", turn[t].drafts, FALSE, TRUE, "ended")
        /\ UNCHANGED <<logged, resumable, current, active, stopped, anchor, stopAt, alone, happened>>
    BY <1>4 DEF Catch, flagVars, history
  <2>2. "error" \in Outcomes /\ "ended" \in TurnPcs
    BY DEF Outcomes, TurnPcs
  <2>3. PICK e \in Events : Emits(t, e, "error", turn[t].drafts, FALSE, TRUE, "ended")
    BY <1>1, <2>1, <2>2, PublishDoes
  <2>4. IsTerminal(e)
    BY <2>2, <2>3 DEF Emits, IsTerminal
  <2>5. Emitted(t, e) /\ StopCounts(t)
    BY <2>1, <2>3, <2>4 DEF Emits, Emitted, StopCounts
  <2>6. QED
    BY <2>1, <2>5
<1>5. CASE Compress(t)
  <2>1. /\ turn[t].pc = "running" /\ turn[t].ix = 0
        /\ Publish(t, "note", turn[t].drafts, FALSE, TRUE, "running")
        /\ stopAt' = [stopAt EXCEPT ![t] = IF @ = Untaken THEN @ ELSE 1]
        /\ UNCHANGED <<logged, resumable, current, active, stopped, anchor, alone, happened>>
    BY <1>5 DEF Compress, flagVars
  <2>2. "note" \notin Outcomes /\ "running" \in TurnPcs
    BY DEF Outcomes, TurnPcs
  <2>3. PICK e \in Events : Emits(t, e, "note", turn[t].drafts, FALSE, TRUE, "running")
    BY <1>1, <2>1, <2>2, PublishDoes
  <2>4. ~IsTerminal(e)
    BY <2>2, <2>3 DEF Emits, IsTerminal
  <2>5. Emitted(t, e) /\ StopCounts(t)
    BY <2>1, <2>3, <2>4 DEF Emits, Emitted, Looping, StopCounts
  <2>6. QED
    BY <2>1, <2>5
<1>6. CASE Notice(t)
  <2>1. /\ turn[t].pc = "running"
        /\ Publish(t, "step", turn[t].drafts + 1, TRUE, TRUE, "answering")
        /\ UNCHANGED <<logged, resumable, current, active, stopped, anchor, stopAt, alone, happened>>
    BY <1>6 DEF Notice, flagVars, history
  <2>2. "step" \notin Outcomes /\ "answering" \in TurnPcs /\ turn[t].drafts + 1 \in Nat
    BY <1>1 DEF Outcomes, TurnPcs
  <2>3. PICK e \in Events : Emits(t, e, "step", turn[t].drafts + 1, TRUE, TRUE, "answering")
    BY <1>1, <2>1, <2>2, PublishDoes
  <2>4. ~IsTerminal(e)
    BY <2>2, <2>3 DEF Emits, IsTerminal
  <2>5. Emitted(t, e) /\ StopCounts(t)
    BY <2>1, <2>3, <2>4 DEF Emits, Emitted, Looping, StopCounts
  <2>6. QED
    BY <2>1, <2>5
<1>7. QED
  BY <1>2, <1>3, <1>4, <1>5, <1>6 DEF Emission

\* A turn is asked for.
Started(c, t) ==
  /\ turn[t].pc = "new" /\ client[c].pc = "away"
  /\ turn' \in [Turns -> TurnRecord] /\ \A u \in Turns : Len(turn'[u].ring) <= RingMax
  /\ \A u \in Turns \ {t} : turn'[u] = turn[u]
  /\ turn'[t].pc = "flagged" /\ turn'[t].ix = turn[t].ix /\ turn'[t].ring = turn[t].ring
  /\ turn'[t].terminal = turn[t].terminal /\ turn'[t].outcome = turn[t].outcome
  /\ turn'[t].stored = turn[t].stored /\ turn'[t].base = turn[t].base
  /\ client' \in [Clients -> PageRecord]
  /\ \A d \in Clients : Len(client'[d].queue) <= QueueMax
  /\ \A d \in Clients \ {c} : client'[d] = client[d]
  /\ client'[c].pc = "asking" /\ client'[c].on = t /\ client'[c].queue = <<>>
  /\ client'[c].told = "none" /\ client'[c].after = 0
  /\ active' \in BOOLEAN /\ stopped' \in BOOLEAN /\ resumable' \in BOOLEAN /\ alone' \in BOOLEAN
  /\ alone' = (alone /\ \A u \in Turns \ {t} : turn[u].pc \in {"new", "finished"})
  /\ UNCHANGED <<logged, current, anchor, seen, stopAt, happened>>

LEMMA AwayTyped ==
  /\ Away \in PageRecord /\ Len(Away.queue) <= QueueMax /\ Away.queue = <<>>
  /\ Away.pc = "away" /\ Away.on = 0 /\ Away.after = 0 /\ Away.told = "none"
<1>1. QueueMax \in Nat
  BY LiveTurnsAssumption
<1>2. <<>> \in Seq(Events) /\ Len(<<>>) = 0
  OBVIOUS
<1>3. QED
  BY <1>1, <1>2 DEF Away, PageRecord, PagePcs

LEMMA StartDoes ==
  ASSUME TypeInv, NEW c \in Clients, NEW t \in Turns, Ask(c, t) \/ Resume(c, t)
  PROVE  Started(c, t)
<1>1. /\ turn \in [Turns -> TurnRecord] /\ turn[t] \in TurnRecord /\ Len(turn[t].ring) <= RingMax
      /\ client \in [Clients -> PageRecord] /\ resumable \in BOOLEAN /\ alone \in BOOLEAN
  BY DEF TypeInv
<1>2. PICK kind \in Kinds : Start(c, t, kind) /\ resumable' \in BOOLEAN
  <2>1. CASE Ask(c, t)
    <3>1. PICK kind \in {"ask", "plain"} : Start(c, t, kind)
      BY <2>1, Zenon DEF Ask
    <3>2. kind \in Kinds /\ resumable' \in BOOLEAN
      BY <1>1, <2>1 DEF Ask, Kinds
    <3>3. QED
      BY <3>1, <3>2
  <2>2. CASE Resume(c, t)
    BY <2>2, Zenon DEF Resume, Kinds
  <2>3. QED
    BY <2>1, <2>2
<1> DEFINE r == [turn[t] EXCEPT !.pc = "flagged", !.kind = kind]
           p == [Away EXCEPT !.pc = "asking", !.on = t]
<1>3. turn' = [turn EXCEPT ![t] = r] /\ client' = [client EXCEPT ![c] = p]
  BY <1>1, <1>2 DEF Start
<1>4. /\ r \in TurnRecord /\ Len(r.ring) <= RingMax /\ r.pc = "flagged" /\ r.ix = turn[t].ix
      /\ r.ring = turn[t].ring /\ r.terminal = turn[t].terminal /\ r.outcome = turn[t].outcome
      /\ r.stored = turn[t].stored /\ r.base = turn[t].base
  BY <1>1 DEF TurnRecord, TurnPcs
<1>5. /\ p \in PageRecord /\ Len(p.queue) <= QueueMax /\ p.pc = "asking" /\ p.on = t
      /\ p.queue = <<>> /\ p.told = "none" /\ p.after = 0
  BY AwayTyped DEF PageRecord, PagePcs
<1> HIDE DEF r, p
<1>6. /\ turn' \in [Turns -> TurnRecord] /\ \A u \in Turns : Len(turn'[u].ring) <= RingMax
      /\ turn'[t] = r /\ \A u \in Turns \ {t} : turn'[u] = turn[u]
  BY <1>3, <1>4, OneTurnMoves
<1>7. /\ client' \in [Clients -> PageRecord] /\ \A d \in Clients : Len(client'[d].queue) <= QueueMax
      /\ client'[c] = p /\ \A d \in Clients \ {c} : client'[d] = client[d]
  BY <1>3, <1>5, OnePageMoves
<1>8. /\ turn[t].pc = "new" /\ client[c].pc = "away" /\ active' = TRUE /\ stopped' = FALSE
      /\ alone' = (alone /\ \A u \in Turns \ {t} : turn[u].pc \in {"new", "finished"})
      /\ UNCHANGED <<logged, current, anchor, seen, stopAt, happened>>
  BY <1>2 DEF Start
<1>9. active' \in BOOLEAN /\ stopped' \in BOOLEAN /\ alone' \in BOOLEAN
  BY <1>1, <1>8, Zenon
<1>10. QED
  BY <1>2, <1>4, <1>5, <1>6, <1>7, <1>8, <1>9, Zenon DEF Started

\* A turn is registered: what nobody refers to is forgotten.
Registered(t) ==
  /\ turn[t].pc = "flagged"
  /\ turn' \in [Turns -> TurnRecord] /\ \A u \in Turns : Len(turn'[u].ring) <= RingMax
  /\ turn'[t].pc = "registered" /\ turn'[t].kind = turn[t].kind
  /\ turn'[t].base \in Nat /\ turn'[t].base <= logged
  /\ turn'[t].base = logged \/ "unread" \in happened'
  /\ happened \subseteq happened'
  /\ turn'[t].ix = turn[t].ix /\ turn'[t].ring = turn[t].ring /\ turn'[t].terminal = turn[t].terminal
  /\ turn'[t].outcome = turn[t].outcome /\ turn'[t].stored = turn[t].stored
  /\ \A u \in Turns \ {t} :
       /\ Unreferenced(u) => turn'[u] = [NoTurn EXCEPT !.pc = "finished"]
       /\ ~Unreferenced(u) => turn'[u] = turn[u]
  /\ client' \in [Clients -> PageRecord]
  /\ \A c \in Clients :
       /\ Len(client'[c].queue) <= QueueMax
       /\ client'[c].on = client[c].on /\ client'[c].queue = client[c].queue
       /\ client'[c].after = client[c].after /\ client'[c].cutoff = client[c].cutoff
       /\ client'[c].got = client[c].got /\ client'[c].told = client[c].told
       /\ \/ client'[c].pc = client[c].pc /\ ~(client[c].pc = "asking" /\ client[c].on = t)
          \/ client[c].pc = "asking" /\ client[c].on = t /\ client'[c].pc = "attached"
  /\ current' = t
  /\ seen' \in [Clients -> SUBSET (Turns \X Nat)]
  /\ seen' = [c \in Clients |-> {p \in seen[c] : ~Unreferenced(p[1])}]
  /\ UNCHANGED <<logged, resumable, active, stopped, anchor, stopAt, alone>>

LEMMA RegisterDoes ==
  ASSUME TypeInv, NEW t \in Turns, Register(t)
  PROVE  Registered(t)
<1>1. /\ turn \in [Turns -> TurnRecord] /\ \A u \in Turns : Len(turn[u].ring) <= RingMax
      /\ client \in [Clients -> PageRecord] /\ \A c \in Clients : Len(client[c].queue) <= QueueMax
      /\ seen \in [Clients -> SUBSET (Turns \X Nat)] /\ logged \in Nat
  BY DEF TypeInv
<1>2. PICK base \in {logged, 0} :
        /\ turn' = [u \in Turns |->
             CASE u = t -> [turn[t] EXCEPT !.pc = "registered", !.base = base]
               [] u # t /\ Unreferenced(u) -> [NoTurn EXCEPT !.pc = "finished"]
               [] OTHER -> turn[u]]
        /\ IF base = logged THEN UNCHANGED happened ELSE Happens("unread")
  BY Zenon DEF Register
<1> DEFINE r == [turn[t] EXCEPT !.pc = "registered", !.base = base]
           gone == [NoTurn EXCEPT !.pc = "finished"]
           p(c) == [client[c] EXCEPT !.pc = "attached"]
<1>3. /\ turn' = [u \in Turns |-> CASE u = t -> r
                                    [] u # t /\ Unreferenced(u) -> gone
                                    [] OTHER -> turn[u]]
      /\ client' = [c \in Clients |-> IF client[c].pc = "asking" /\ client[c].on = t
                                      THEN p(c) ELSE client[c]]
      /\ turn[t].pc = "flagged" /\ current' = t
      /\ seen' = [c \in Clients |-> {q \in seen[c] : ~Unreferenced(q[1])}]
      /\ UNCHANGED <<logged, resumable, active, stopped, anchor, stopAt, alone>>
  BY <1>2 DEF Register, flagVars, history
<1>4. base \in Nat /\ base <= logged
  BY <1>1
<1>5. (base = logged \/ "unread" \in happened') /\ happened \subseteq happened'
  BY <1>2 DEF Happens
<1>6. /\ r \in TurnRecord /\ Len(r.ring) <= RingMax /\ r.pc = "registered" /\ r.base = base
      /\ r.kind = turn[t].kind /\ r.ix = turn[t].ix /\ r.ring = turn[t].ring
      /\ r.terminal = turn[t].terminal /\ r.outcome = turn[t].outcome /\ r.stored = turn[t].stored
  BY <1>1, <1>4 DEF TurnRecord, TurnPcs
<1>7. gone \in TurnRecord /\ Len(gone.ring) <= RingMax
  <2>1. RingMax \in Nat /\ <<>> \in Seq(Events) /\ Len(<<>>) = 0
    BY LiveTurnsAssumption
  <2>2. NoTurn \in TurnRecord /\ NoTurn.ring = <<>>
    BY <2>1, Zenon DEF NoTurn, TurnRecord, TurnPcs, Kinds
  <2>3. gone \in TurnRecord /\ gone.ring = <<>>
    BY <2>2 DEF TurnRecord, TurnPcs
  <2>4. QED
    BY <2>1, <2>3
<1>8. ASSUME NEW c \in Clients
      PROVE  /\ p(c) \in PageRecord /\ p(c).pc = "attached" /\ p(c).on = client[c].on
             /\ p(c).queue = client[c].queue /\ p(c).after = client[c].after
             /\ p(c).cutoff = client[c].cutoff /\ p(c).got = client[c].got /\ p(c).told = client[c].told
  BY <1>1 DEF PageRecord, PagePcs
<1> HIDE DEF r, gone, p
<1>9. /\ turn'[t] = r
      /\ \A u \in Turns \ {t} : /\ Unreferenced(u) => turn'[u] = gone
                                /\ ~Unreferenced(u) => turn'[u] = turn[u]
  BY <1>3
<1>10. turn' \in [Turns -> TurnRecord] /\ \A u \in Turns : Len(turn'[u].ring) <= RingMax
  BY <1>1, <1>3, <1>6, <1>7
<1>11. client' \in [Clients -> PageRecord]
  BY <1>1, <1>3, <1>8
<1>12. ASSUME NEW c \in Clients
      PROVE  /\ Len(client'[c].queue) <= QueueMax
             /\ client'[c].on = client[c].on /\ client'[c].queue = client[c].queue
             /\ client'[c].after = client[c].after /\ client'[c].cutoff = client[c].cutoff
             /\ client'[c].got = client[c].got /\ client'[c].told = client[c].told
             /\ \/ client'[c].pc = client[c].pc /\ ~(client[c].pc = "asking" /\ client[c].on = t)
                \/ client[c].pc = "asking" /\ client[c].on = t /\ client'[c].pc = "attached"
  BY <1>1, <1>3, <1>8
<1>13. seen' \in [Clients -> SUBSET (Turns \X Nat)]
  BY <1>1, <1>3
<1>14. QED
  BY <1>3, <1>6, <1>4, <1>5, <1>9, <1>10, <1>11, <1>12, <1>13 DEF Registered, gone

\* A turn is over.
Finished(t) ==
  /\ turn[t].pc = "ended"
  /\ turn' \in [Turns -> TurnRecord] /\ \A u \in Turns : Len(turn'[u].ring) <= RingMax
  /\ \A u \in Turns \ {t} : turn'[u] = turn[u]
  /\ turn'[t].pc = "finished" /\ turn'[t].ix = turn[t].ix /\ turn'[t].ring = turn[t].ring
  /\ turn'[t].terminal = turn[t].terminal /\ turn'[t].base = turn[t].base
  /\ turn'[t].kind = turn[t].kind /\ turn'[t].drafts = turn[t].drafts
  /\ turn'[t].outcome = turn[t].outcome /\ turn'[t].stored = turn[t].stored
  /\ FanOut(t, End)
  /\ UNCHANGED <<logged, resumable, current, active, stopped, anchor, stopAt, alone, happened>>

LEMMA FinishDoes ==
  ASSUME TypeInv, NEW t \in Turns, Finish(t)
  PROVE  Finished(t)
<1>1. turn \in [Turns -> TurnRecord] /\ turn[t] \in TurnRecord /\ Len(turn[t].ring) <= RingMax
  BY DEF TypeInv
<1> DEFINE r == [turn[t] EXCEPT !.pc = "finished"]
<1>2. turn' = [turn EXCEPT ![t] = r]
  BY <1>1 DEF Finish
<1>3. /\ r \in TurnRecord /\ Len(r.ring) <= RingMax /\ r.pc = "finished" /\ r.ix = turn[t].ix
      /\ r.ring = turn[t].ring /\ r.terminal = turn[t].terminal /\ r.base = turn[t].base
      /\ r.kind = turn[t].kind /\ r.drafts = turn[t].drafts /\ r.outcome = turn[t].outcome
      /\ r.stored = turn[t].stored
  BY <1>1 DEF TurnRecord, TurnPcs
<1> HIDE DEF r
<1>4. /\ turn' \in [Turns -> TurnRecord] /\ \A u \in Turns : Len(turn'[u].ring) <= RingMax
      /\ turn'[t] = r /\ \A u \in Turns \ {t} : turn'[u] = turn[u]
  BY <1>2, <1>3, OneTurnMoves
<1>5. /\ turn[t].pc = "ended" /\ FanOut(t, End)
      /\ UNCHANGED <<logged, resumable, current, active, stopped, anchor, stopAt, alone, happened>>
  BY DEF Finish, flagVars, history
<1>6. QED
  BY <1>3, <1>4, <1>5 DEF Finished

\* The steps of a connection.
PageStep(c) == Reconnect(c) \/ Stream(c) \/ Drop(c)

\* What none of them touches.
OnlyPage(c) ==
  /\ client' \in [Clients -> PageRecord] /\ \A d \in Clients : Len(client'[d].queue) <= QueueMax
  /\ anchor' \in [Clients -> Nat] /\ seen' \in [Clients -> SUBSET (Turns \X Nat)]
  /\ \A d \in Clients \ {c} : /\ client'[d] = client[d] /\ anchor'[d] = anchor[d]
                              /\ seen'[d] = seen[d]
  /\ UNCHANGED <<logged, resumable, turn, current, active, stopped, stopAt, alone>>
  /\ happened \subseteq happened'

Reconnected(c) ==
  /\ client[c].pc = "away" /\ current \in Turns
  /\ client'[c].pc = "attached" /\ client'[c].on = current /\ client'[c].queue = <<>>
  /\ client'[c].after \in {0, anchor[c]} /\ client'[c].told = "none"
  /\ UNCHANGED <<anchor, seen>>

Subscribed(c) ==
  /\ client[c].pc = "attached"
  /\ client'[c].pc = "replay" /\ client'[c].on = client[c].on
  /\ client'[c].queue = client[c].queue /\ client'[c].after = client[c].after
  /\ client'[c].told = client[c].told
  /\ UNCHANGED <<anchor, seen>>

\* c was sent the events es.
WasSent(c, es) ==
  /\ seen'[c] = seen[c] \cup Numbered(client[c].on, es)
  /\ anchor[c] <= anchor'[c] /\ \A e \in es : e.seq <= anchor'[c]
  /\ anchor'[c] = anchor[c] \/ \E e \in es : anchor'[c] = e.seq

WasReplayed(c) ==
  LET ring == turn[client[c].on].ring
      es == ToSet(Replayed(ring, client[c].after))
  IN  /\ client[c].pc = "replay" /\ client'[c].pc = "check" /\ client'[c].on = client[c].on
      /\ client'[c].queue = client[c].queue /\ client'[c].cutoff = Cutoff(ring, client[c].after)
      /\ client'[c].got = client[c].got \cup Positions(es)
      /\ \/ client'[c].told = client[c].told /\ \A e \in es : ~IsTerminal(e)
         \/ \E e \in es : IsTerminal(e) /\ client'[c].told = e.what
      /\ WasSent(c, es)

WentLive(c) ==
  /\ client[c].pc = "check" /\ turn[client[c].on].pc # "finished" /\ client'[c].pc = "live"
  /\ client'[c].on = client[c].on /\ client'[c].queue = client[c].queue
  /\ client'[c].cutoff = client[c].cutoff /\ client'[c].got = client[c].got
  /\ client'[c].told = client[c].told
  /\ UNCHANGED <<anchor, seen>>

\* The stream ended without an event that ends the turn.
WasOver(c) ==
  LET r == client[c]
  IN  /\ \/ r.pc = "check" /\ turn[r.on].pc = "finished"
         \/ r.pc = "live" /\ End \in ToSet(r.queue)
      /\ client'[c].pc = "away" /\ client'[c].on = r.on /\ client'[c].queue = <<>>
      /\ client'[c].told = IF r.told # "none" THEN r.told
                           ELSE IF turn[r.on].terminal # "none" THEN turn[r.on].terminal
                           ELSE "last answer"
      /\ UNCHANGED <<anchor, seen>>

WasSkipped(c) ==
  LET r == client[c]
  IN  /\ r.pc = "live" /\ r.queue # <<>> /\ Head(r.queue) # End /\ Head(r.queue).ix <= r.cutoff
      /\ client'[c].pc = "live" /\ client'[c].on = r.on /\ client'[c].queue = Tail(r.queue)
      /\ client'[c].cutoff = r.cutoff /\ client'[c].got = r.got /\ client'[c].told = r.told
      /\ UNCHANGED <<anchor, seen>>

WasReceived(c) ==
  LET r == client[c]
      e == Head(r.queue)
  IN  /\ r.pc = "live" /\ r.queue # <<>> /\ e # End /\ e.ix > r.cutoff
      /\ client'[c].on = r.on
      /\ \/ /\ ~IsTerminal(e) /\ client'[c].pc = "live" /\ client'[c].queue = Tail(r.queue)
            /\ client'[c].cutoff = r.cutoff /\ client'[c].got = r.got \cup Positions({e})
            /\ client'[c].told = r.told
         \/ /\ IsTerminal(e) /\ client'[c].pc = "away" /\ client'[c].queue = <<>>
            /\ client'[c].told = e.what
      /\ WasSent(c, {e})

WasDropped(c) ==
  /\ client'[c].pc = "away" /\ client'[c].queue = <<>> /\ client'[c].on = 0
  /\ client'[c].told = "none"
  /\ UNCHANGED <<anchor, seen>>

PageDone(c) == Reconnected(c) \/ Subscribed(c) \/ WasReplayed(c) \/ WentLive(c) \/ WasOver(c)
                 \/ WasSkipped(c) \/ WasReceived(c) \/ WasDropped(c)

LEMMA PageStepDoes ==
  ASSUME TypeInv, NEW c \in Clients, PageFits(c), PageStep(c)
  PROVE  OnlyPage(c) /\ PageDone(c)
<1>1. /\ client \in [Clients -> PageRecord] /\ client[c] \in PageRecord /\ Len(client[c].queue) <= QueueMax
      /\ client[c].queue \in Seq(Events) /\ turn \in [Turns -> TurnRecord]
      /\ anchor \in [Clients -> Nat] /\ anchor[c] \in Nat /\ seen \in [Clients -> SUBSET (Turns \X Nat)]
      /\ current \in Turns \cup {0}
  BY DEF TypeInv, PageRecord
<1>2. ASSUME NEW r \in PageRecord, Len(r.queue) <= QueueMax,
             client' = [client EXCEPT ![c] = r],
             UNCHANGED <<logged, resumable, turn, current, active, stopped, stopAt, alone, anchor, seen>>,
             happened \subseteq happened'
      PROVE  OnlyPage(c) /\ client'[c] = r
  BY <1>1, <1>2, OnePageMoves DEF OnlyPage
<1>3. CASE Reconnect(c)
  <2>1. PICK after \in {0, anchor[c]} :
          /\ client' = [client EXCEPT ![c] = [Away EXCEPT !.pc = "attached", !.on = current,
                                                          !.after = after]]
          /\ IF client[c].told = "none" /\ after = anchor[c] THEN UNCHANGED happened
             ELSE after = 0 /\ Happens("reload")
    BY <1>3, Zenon DEF Reconnect
  <2>2. /\ client[c].pc = "away" /\ current # 0
        /\ UNCHANGED <<logged, resumable, turn, current, active, stopped, stopAt, alone, anchor, seen>>
    BY <1>3 DEF Reconnect, flagVars, history
  <2> DEFINE r == [Away EXCEPT !.pc = "attached", !.on = current, !.after = after]
  <2>3. /\ r \in PageRecord /\ Len(r.queue) <= QueueMax /\ r.pc = "attached" /\ r.on = current
        /\ r.queue = <<>> /\ r.told = "none" /\ r.after = after
    BY <1>1, AwayTyped DEF PageRecord, PagePcs
  <2>4. client' = [client EXCEPT ![c] = r]
    BY <2>1
  <2> HIDE DEF r
  <2>5. happened \subseteq happened'
    BY <2>1 DEF Happens
  <2>6. OnlyPage(c) /\ client'[c] = r
    BY <1>2, <2>2, <2>3, <2>4, <2>5
  <2>7. Reconnected(c)
    BY <1>1, <2>2, <2>3, <2>6 DEF Reconnected
  <2>8. QED
    BY <2>6, <2>7 DEF PageDone
<1>4. CASE Subscribe(c)
  <2> DEFINE r == [client[c] EXCEPT !.pc = "replay"]
  <2>1. /\ r \in PageRecord /\ r.pc = "replay" /\ r.on = client[c].on /\ r.queue = client[c].queue
        /\ r.after = client[c].after /\ r.told = client[c].told
    BY <1>1 DEF PageRecord, PagePcs
  <2>2. client' = [client EXCEPT ![c] = r]
    BY <1>1, <1>4 DEF Subscribe
  <2> HIDE DEF r
  <2>3. /\ client[c].pc = "attached" /\ happened \subseteq happened'
        /\ UNCHANGED <<logged, resumable, turn, current, active, stopped, stopAt, alone, anchor, seen>>
    BY <1>4 DEF Subscribe, flagVars, history
  <2>4. OnlyPage(c) /\ client'[c] = r
    BY <1>1, <1>2, <2>1, <2>2, <2>3
  <2>5. Subscribed(c)
    BY <2>1, <2>3, <2>4 DEF Subscribed
  <2>6. QED
    BY <2>4, <2>5 DEF PageDone
<1>5. CASE Replay(c)
  <2> DEFINE ring == turn[client[c].on].ring
             after == client[c].after
             r == [client[c] EXCEPT !.pc = "check", !.after = 0, !.cutoff = Cutoff(ring, after)]
             es == Replayed(ring, after)
  <2>1. /\ client[c].pc = "replay" /\ Send(c, r, es) /\ happened \subseteq happened'
        /\ UNCHANGED <<logged, resumable, turn, current, active, stopped, stopAt, alone>>
    BY <1>5 DEF Replay, flagVars, history
  <2>2. client[c].on \in Turns
    BY <2>1 DEF PageFits
  <2>3. ring \in Seq(Events) /\ after \in Nat
    BY <1>1, <2>2 DEF TurnRecord, PageRecord
  <2> HIDE DEF ring, after
  <2>4. es \in Seq(Events) /\ Cutoff(ring, after) \in Nat
    BY <2>3, ReplayedIs
  <2>5. /\ r \in PageRecord /\ r.pc = "check" /\ r.on = client[c].on /\ r.queue = client[c].queue
        /\ r.cutoff = Cutoff(ring, after) /\ r.got = client[c].got /\ r.told = client[c].told
    BY <1>1, <2>4 DEF PageRecord, PagePcs
  <2> HIDE DEF r, es
  <2>6. SentTo(c, r, ToSet(es))
    BY <1>1, <2>1, <2>2, <2>4, <2>5, SendDoes
  <2>7. OnlyPage(c)
    BY <2>1, <2>6 DEF OnlyPage, SentTo
  <2>8. WasReplayed(c)
    BY <2>1, <2>5, <2>6 DEF WasReplayed, WasSent, SentTo, ring, after, es
  <2>9. QED
    BY <2>7, <2>8 DEF PageDone
<1>6. ASSUME NEW r \in PageRecord, r.on \in Turns, r.on = client[c].on, r.told = client[c].told
      PROVE  /\ Over(r) \in PageRecord /\ Len(Over(r).queue) <= QueueMax
             /\ Over(r).pc = "away" /\ Over(r).on = client[c].on /\ Over(r).queue = <<>>
             /\ Over(r).told = IF client[c].told # "none" THEN client[c].told
                               ELSE IF turn[client[c].on].terminal # "none"
                                    THEN turn[client[c].on].terminal ELSE "last answer"
  <2> DEFINE told == IF r.told # "none" THEN r.told
                     ELSE IF turn[r.on].terminal # "none" THEN turn[r.on].terminal ELSE "last answer"
  <2>1. told \in Outcomes \cup {"none", "last answer"}
    BY <1>1, <1>6 DEF PageRecord, TurnRecord
  <2>2. Over(r) = [Away EXCEPT !.on = r.on, !.told = told]
    BY DEF Over
  <2> HIDE DEF told
  <2>3. /\ Over(r) \in PageRecord /\ Len(Over(r).queue) <= QueueMax
        /\ Over(r).pc = "away" /\ Over(r).on = client[c].on /\ Over(r).queue = <<>>
        /\ Over(r).told = told
    BY <1>6, <2>1, <2>2, AwayTyped DEF PageRecord
  <2>4. QED
    BY <1>6, <2>3 DEF told
<1>7. CASE LookFinished(c)
  <2>1. /\ client[c].pc = "check" /\ happened \subseteq happened'
        /\ UNCHANGED <<logged, resumable, turn, current, active, stopped, stopAt, alone, anchor, seen>>
    BY <1>7 DEF LookFinished, flagVars, history
  <2>2. client[c].on \in Turns
    BY <2>1 DEF PageFits
  <2>3. CASE turn[client[c].on].pc = "finished"
    <3>1. client' = [client EXCEPT ![c] = Over(client[c])]
      BY <1>7, <2>3 DEF LookFinished
    <3>2. OnlyPage(c) /\ client'[c] = Over(client[c])
      BY <1>1, <1>2, <1>6, <2>1, <2>2, <3>1
    <3>3. WasOver(c)
      BY <1>1, <1>6, <2>1, <2>2, <2>3, <3>2 DEF WasOver
    <3>4. QED
      BY <3>2, <3>3 DEF PageDone
  <2>4. CASE turn[client[c].on].pc # "finished"
    <3> DEFINE r == [client[c] EXCEPT !.pc = "live"]
    <3>1. client' = [client EXCEPT ![c] = r]
      BY <1>7, <2>4 DEF LookFinished
    <3>2. /\ r \in PageRecord /\ r.pc = "live" /\ r.on = client[c].on /\ r.queue = client[c].queue
          /\ r.cutoff = client[c].cutoff /\ r.got = client[c].got /\ r.told = client[c].told
      BY <1>1 DEF PageRecord, PagePcs
    <3> HIDE DEF r
    <3>3. OnlyPage(c) /\ client'[c] = r
      BY <1>1, <1>2, <2>1, <3>1, <3>2
    <3>4. WentLive(c)
      BY <2>1, <2>4, <3>2, <3>3 DEF WentLive
    <3>5. QED
      BY <3>3, <3>4 DEF PageDone
  <2>5. QED
    BY <2>3, <2>4
<1>8. CASE Receive(c)
  <2> DEFINE q == client[c].queue
             e == Head(q)
             r == [client[c] EXCEPT !.queue = Tail(@)]
  <2>1. /\ client[c].pc = "live" /\ q # <<>> /\ happened \subseteq happened'
        /\ UNCHANGED <<logged, resumable, turn, current, active, stopped, stopAt, alone>>
    BY <1>8 DEF Receive, flagVars, history
  <2>2. client[c].on \in Turns
    BY <2>1 DEF PageFits
  <2>3. Tail(q) \in Seq(Events) /\ Len(Tail(q)) <= QueueMax /\ e \in Events /\ e \in ToSet(q)
    <3>1. QueueMax \in Nat /\ Len(q) \in Nat
      BY <1>1, LiveTurnsAssumption
    <3>2. Tail(q) \in Seq(Events) /\ Len(Tail(q)) <= Len(q) /\ e \in Events /\ e \in ToSet(q)
          /\ Len(Tail(q)) \in Nat
      BY <1>1, <2>1, TailDoes
    <3>3. QED
      BY <1>1, <3>1, <3>2
  <2>4. CASE e = End
    <3>1. client' = [client EXCEPT ![c] = Over(r)] /\ UNCHANGED <<anchor, seen>>
      BY <1>8, <2>4 DEF Receive
    <3>2. r \in PageRecord /\ r.on = client[c].on /\ r.told = client[c].told
      BY <1>1, <2>3 DEF PageRecord
    <3> HIDE DEF r
    <3>3. OnlyPage(c) /\ client'[c] = Over(r)
      BY <1>2, <1>6, <2>1, <2>2, <3>1, <3>2
    <3>4. WasOver(c)
      BY <1>6, <2>1, <2>2, <2>3, <2>4, <3>1, <3>2, <3>3 DEF WasOver
    <3>5. QED
      BY <3>3, <3>4 DEF PageDone
  <2>5. /\ r \in PageRecord /\ r.on = client[c].on /\ r.told = client[c].told /\ r.pc = "live"
        /\ r.queue = Tail(q) /\ r.cutoff = client[c].cutoff /\ r.got = client[c].got
    BY <1>1, <2>1, <2>3 DEF PageRecord
  <2>6. CASE e # End /\ e.ix <= r.cutoff
    <3>1. client' = [client EXCEPT ![c] = r] /\ UNCHANGED <<anchor, seen>>
      BY <1>8, <2>6 DEF Receive
    <3> HIDE DEF r
    <3>2. OnlyPage(c) /\ client'[c] = r
      BY <1>2, <2>1, <2>3, <2>5, <3>1
    <3>3. WasSkipped(c)
      BY <2>1, <2>5, <2>6, <3>1, <3>2 DEF WasSkipped
    <3>4. QED
      BY <3>2, <3>3 DEF PageDone
  <2>7. CASE e # End /\ ~(e.ix <= r.cutoff)
    <3> DEFINE p == IF IsTerminal(e) THEN [Away EXCEPT !.on = r.on] ELSE r
    <3>1. Send(c, p, <<e>>)
      BY <1>8, <2>7 DEF Receive
    <3> HIDE DEF r
    <3>2. [Away EXCEPT !.on = r.on] \in PageRecord /\ [Away EXCEPT !.on = r.on].on = r.on
          /\ [Away EXCEPT !.on = r.on].pc = "away" /\ [Away EXCEPT !.on = r.on].queue = <<>>
          /\ Len([Away EXCEPT !.on = r.on].queue) <= QueueMax
      BY <2>2, <2>5, AwayTyped DEF PageRecord
    <3>3. /\ p \in PageRecord /\ p.on = client[c].on /\ Len(p.queue) <= QueueMax
          /\ IsTerminal(e) => p.pc = "away" /\ p.queue = <<>>
          /\ ~IsTerminal(e) => p = r
      BY <2>3, <2>5, <3>2
    <3> HIDE DEF p, e, q
    <3>4. <<e>> \in Seq(Events) /\ ToSet(<<e>>) = {e}
      <4>1. <<e>> \in Seq(Events) /\ DOMAIN <<e>> = {1} /\ <<e>>[1] = e
        BY <2>3
      <4>2. QED
        BY <4>1 DEF ToSet
    <3> DEFINE es == <<e>>
    <3>a. es \in Seq(Events) /\ Send(c, p, es) /\ ToSet(es) = {e}
      BY <3>1, <3>4
    <3> HIDE DEF es
    <3>5. SentTo(c, p, {e})
      <4>1. p \in PageRecord /\ p.on \in Turns /\ Len(p.queue) <= QueueMax
        BY <2>2, <3>3
      <4>2. SentTo(c, p, ToSet(es))
        BY <3>a, <4>1, SendDoes
      <4>3. QED
        BY <3>a, <4>2
    <3>6. OnlyPage(c)
      BY <2>1, <3>5 DEF OnlyPage, SentTo
    <3>7. e.ix > client[c].cutoff
      <4>1. e.ix \in Nat
        BY <2>3 DEF Events
      <4>2. client[c].cutoff \in Nat
        BY <1>1 DEF PageRecord
      <4>3. r.cutoff = client[c].cutoff /\ ~(e.ix <= r.cutoff)
        BY <2>5, <2>7
      <4>4. QED
        BY <4>1, <4>2, <4>3
    <3>8. WasReceived(c)
      BY <2>1, <2>5, <2>7, <3>3, <3>5, <3>7 DEF WasReceived, WasSent, SentTo, e, q
    <3>9. QED
      BY <3>6, <3>8 DEF PageDone
  <2>8. QED
    BY <2>4, <2>6, <2>7
<1>9. CASE Drop(c)
  <2>1. /\ client' = [client EXCEPT ![c] = Away] /\ happened \subseteq happened'
        /\ UNCHANGED <<logged, resumable, turn, current, active, stopped, stopAt, alone, anchor, seen>>
    BY <1>9 DEF Drop, Happens, flagVars, history
  <2>2. OnlyPage(c) /\ client'[c] = Away
    BY <1>2, <2>1, AwayTyped
  <2>3. WasDropped(c)
    BY <2>1, <2>2, AwayTyped DEF WasDropped
  <2>4. QED
    BY <2>2, <2>3 DEF PageDone
<1>10. QED
  BY <1>3, <1>4, <1>5, <1>7, <1>8, <1>9 DEF PageStep, Stream

-----------------------------------------------------------------------------
(* The shapes a step can have                                              *)

Moving(t) ==
  /\ MovesOnly(t) /\ Moved(t)
  /\ UNCHANGED <<current, client, anchor, seen, stopAt, alone>>
  /\ logged' \in Nat /\ logged <= logged' /\ resumable' \in BOOLEAN
  /\ active' \in BOOLEAN /\ stopped' \in BOOLEAN
  /\ happened \subseteq happened'

Emitting(t, e) ==
  /\ Emitted(t, e) /\ StopCounts(t)
  /\ UNCHANGED <<logged, resumable, current, active, stopped, anchor, alone, happened>>

Paging(c) == OnlyPage(c) /\ PageDone(c)

\* What neither a turn nor a page does: a command, or the hub's forgetting.
Aside ==
  /\ UNCHANGED <<turn, client, anchor, seen, alone>>
  /\ logged' \in Nat /\ logged <= logged' /\ happened \subseteq happened'
  /\ current' \in {0, current}
  /\ resumable' \in BOOLEAN /\ active' \in BOOLEAN /\ stopped' \in BOOLEAN
  /\ stopped => stopped'
  /\ \/ stopAt' = stopAt
     \/ /\ stopped'
        /\ stopAt' = [t \in Turns |-> IF turn[t].pc \in {"running", "checking"} /\ stopAt[t] = Untaken
                                      THEN turn[t].ix ELSE stopAt[t]]

Shaped == \/ \E t \in Turns : Moving(t) \/ Registered(t) \/ Finished(t)
          \/ \E t \in Turns : \E e \in Events : Emitting(t, e)
          \/ \E t \in Turns : \E c \in Clients : Started(c, t)
          \/ \E c \in Clients : Paging(c)
          \/ Aside

LEMMA AsideDoes ==
  ASSUME TypeInv, Stop \/ SwitchMode \/ Forget \/ UNCHANGED vars
  PROVE  Aside
<1>1. logged \in Nat /\ resumable \in BOOLEAN /\ active \in BOOLEAN /\ stopped \in BOOLEAN
  BY DEF TypeInv
<1>2. CASE Stop
  <2>1. /\ UNCHANGED <<turn, client, anchor, seen, alone, logged, current, resumable, active>>
        /\ happened \subseteq happened' /\ stopped' = TRUE
        /\ stopAt' = [t \in Turns |-> IF turn[t].pc \in {"running", "checking"} /\ stopAt[t] = Untaken
                                      THEN turn[t].ix ELSE stopAt[t]]
    BY <1>2 DEF Stop, Happens, pageVars
  <2>2. logged' \in Nat /\ logged <= logged'
    BY <1>1, <2>1
  <2>3. QED
    BY <1>1, <2>1, <2>2, Zenon DEF Aside
<1>3. CASE SwitchMode
  <2>1. /\ UNCHANGED <<turn, client, anchor, seen, alone, stopAt, current, resumable, active, stopped>>
        /\ happened \subseteq happened' /\ logged' = logged + 1
    BY <1>3 DEF SwitchMode, Happens, pageVars, flagVars, history
  <2>2. logged' \in Nat /\ logged <= logged'
    <3>1. logged \in Nat /\ logged' = logged + 1
      BY <1>1, <2>1
    <3>2. QED
      BY <3>1
  <2>3. QED
    BY <1>1, <2>1, <2>2, Zenon DEF Aside
<1>4. CASE Forget
  <2>1. /\ UNCHANGED <<turn, client, anchor, seen, alone, stopAt, logged, resumable, active, stopped>>
        /\ happened \subseteq happened' /\ current' = 0
    BY <1>4 DEF Forget, Happens, pageVars, flagVars, history
  <2>2. logged' \in Nat /\ logged <= logged'
    BY <1>1, <2>1
  <2>3. QED
    BY <1>1, <2>1, <2>2, Zenon DEF Aside
<1>5. CASE UNCHANGED vars
  <2>1. /\ UNCHANGED <<turn, client, anchor, seen, alone, stopAt, logged, resumable, active, stopped>>
        /\ happened \subseteq happened' /\ UNCHANGED current
    BY <1>5 DEF vars, pageVars, flagVars, history
  <2>2. logged' \in Nat /\ logged <= logged'
    BY <1>1, <2>1
  <2>3. QED
    BY <1>1, <2>1, <2>2, Zenon DEF Aside
<1>6. QED
  BY <1>2, <1>3, <1>4, <1>5

LEMMA Shapes ==
  ASSUME TypeInv, StreamInv, [Next]_vars
  PROVE  Shaped
<1>1. ASSUME NEW t \in Turns, Move(t)
      PROVE  Moving(t)
  BY <1>1, MoveDoes DEF Moving
<1>2. ASSUME NEW t \in Turns, Emission(t)
      PROVE  \E e \in Events : Emitting(t, e)
  <2>1. TurnFits(t)
    BY DEF StreamInv
  <2>2. /\ \E e \in Events : Emitted(t, e)
        /\ StopCounts(t)
        /\ UNCHANGED <<logged, resumable, current, active, stopped, anchor, alone, happened>>
    BY <1>2, <2>1, EmissionDoes
  <2>3. QED
    BY <2>2 DEF Emitting
<1>3. ASSUME NEW c \in Clients, PageStep(c)
      PROVE  Paging(c)
  BY <1>3, PageStepDoes DEF Paging, StreamInv
<1>4. CASE \E t \in Turns : TurnStep(t) \/ Raise(t) \/ \E c \in Clients : Ask(c, t) \/ Resume(c, t)
  <2>1. PICK t \in Turns : TurnStep(t) \/ Raise(t) \/ \E c \in Clients : Ask(c, t) \/ Resume(c, t)
    BY <1>4, Zenon
  <2>2. CASE TurnStep(t) \/ Raise(t)
    <3>1. Move(t) \/ Emission(t) \/ Register(t) \/ Finish(t)
      BY <2>2, Zenon DEF TurnStep, Move, Emission
    <3>2. QED
      BY <1>1, <1>2, <3>1, RegisterDoes, FinishDoes DEF Shaped
  <2>3. CASE \E c \in Clients : Ask(c, t) \/ Resume(c, t)
    BY <2>3, StartDoes DEF Shaped
  <2>4. QED
    BY <2>1, <2>2, <2>3
<1>5. CASE Stop \/ SwitchMode \/ Forget \/ UNCHANGED vars
  BY <1>5, AsideDoes DEF Shaped
<1>6. CASE \E c \in Clients : Reconnect(c) \/ Stream(c) \/ Drop(c)
  BY <1>3, <1>6 DEF Shaped, PageStep
<1>7. QED
  BY <1>4, <1>5, <1>6 DEF Next

LEMMA TypeStep ==
  ASSUME TypeInv, StreamInv, Shaped
  PROVE  TypeInv'
<1>1. /\ logged \in Nat /\ current \in Turns \cup {0} /\ resumable \in BOOLEAN
      /\ active \in BOOLEAN /\ stopped \in BOOLEAN /\ alone \in BOOLEAN
      /\ turn \in [Turns -> TurnRecord] /\ \A t \in Turns : Len(turn[t].ring) <= RingMax
      /\ client \in [Clients -> PageRecord] /\ \A c \in Clients : Len(client[c].queue) <= QueueMax
      /\ anchor \in [Clients -> Nat] /\ seen \in [Clients -> SUBSET (Turns \X Nat)]
      /\ stopAt \in [Turns -> Nat \cup {Untaken}]
  BY DEF TypeInv
<1>2. ASSUME NEW t \in Turns, Moving(t)
      PROVE  TypeInv'
  BY <1>1, <1>2 DEF TypeInv, Moving, MovesOnly
<1>3. ASSUME NEW t \in Turns, Registered(t)
      PROVE  TypeInv'
  BY <1>1, <1>3 DEF TypeInv, Registered
<1>4. ASSUME NEW t \in Turns, Finished(t)
      PROVE  TypeInv'
  <2>1. /\ client' \in [Clients -> PageRecord] /\ \A c \in Clients : Len(client'[c].queue) <= QueueMax
        /\ seen' \in [Clients -> SUBSET (Turns \X Nat)]
    BY <1>4, EndIsEvent, FanOutDoes DEF Finished
  <2>2. QED
    BY <1>1, <1>4, <2>1 DEF TypeInv, Finished
<1>5. ASSUME NEW t \in Turns, NEW e \in Events, Emitting(t, e)
      PROVE  TypeInv'
  <2>1. /\ client' \in [Clients -> PageRecord] /\ \A c \in Clients : Len(client'[c].queue) <= QueueMax
        /\ seen' \in [Clients -> SUBSET (Turns \X Nat)]
    BY <1>5, FanOutDoes DEF Emitting, Emitted
  <2>2. stopAt' \in [Turns -> Nat \cup {Untaken}]
    BY <1>1, <1>5 DEF Emitting, StopCounts
  <2>3. QED
    BY <1>1, <1>5, <2>1, <2>2 DEF TypeInv, Emitting, Emitted
<1>6. ASSUME NEW t \in Turns, NEW c \in Clients, Started(c, t)
      PROVE  TypeInv'
  BY <1>1, <1>6 DEF TypeInv, Started
<1>7. ASSUME NEW c \in Clients, Paging(c)
      PROVE  TypeInv'
  BY <1>1, <1>7 DEF TypeInv, Paging, OnlyPage
<1>8. CASE Aside
  <2>1. stopAt' \in [Turns -> Nat \cup {Untaken}]
    <3>1. \A t \in Turns : turn[t].ix \in Nat
      BY <1>1 DEF TurnRecord
    <3>2. QED
      BY <1>1, <1>8, <3>1 DEF Aside
  <2>2. current' \in Turns \cup {0}
    BY <1>1, <1>8 DEF Aside
  <2>3. QED
    BY <1>1, <1>8, <2>1, <2>2 DEF TypeInv, Aside
<1>9. QED
  BY <1>2, <1>3, <1>4, <1>5, <1>6, <1>7, <1>8 DEF Shaped

-----------------------------------------------------------------------------
(* What a step does to the numbers and the events of a turn                *)

LEMMA HeldEvents ==
  ASSUME TypeInv, NEW t \in Turns
  PROVE  /\ Held(t) \subseteq Events /\ ToSet(turn[t].ring) \subseteq Held(t)
         /\ \A c \in Clients : client[c].on = t => ToSet(client[c].queue) \subseteq Held(t)
         /\ \A e \in Held(t) : e.ix \in Nat /\ e.seq \in Nat
<1>1. turn[t].ring \in Seq(Events) /\ \A c \in Clients : client[c].queue \in Seq(Events)
  BY DEF TypeInv, TurnRecord, PageRecord
<1>2. ToSet(turn[t].ring) \subseteq Events /\ \A c \in Clients : ToSet(client[c].queue) \subseteq Events
  BY <1>1 DEF ToSet
<1>3. Held(t) \subseteq Events
  BY <1>2 DEF Held
<1>4. \A e \in Events : e.ix \in Nat /\ e.seq \in Nat
  BY DEF Events
<1>5. ToSet(turn[t].ring) \subseteq Held(t)
      /\ \A c \in Clients : client[c].on = t => ToSet(client[c].queue) \subseteq Held(t)
  BY DEF Held
<1>6. QED
  BY <1>3, <1>4, <1>5

LEMMA TopIs ==
  ASSUME TypeInv, NEW t \in Turns, TurnFits(t)
  PROVE  Top(t) \in Nat /\ turn[t].base <= Top(t) /\ turn[t].base \in Nat /\ turn[t].ix \in Nat
<1>1. turn[t].base \in Nat /\ turn[t].drafts \in Nat /\ turn[t].ix \in Nat
  BY DEF TypeInv, TurnRecord
<1>2. QED
  BY <1>1 DEF Top, TurnFits, Looping

\* A turn that goes on gives out larger numbers, if any.
LEMMA TopMoves ==
  ASSUME TypeInv, NEW t \in Turns, TurnFits(t), Moving(t)
  PROVE  Top(t)' \in Nat /\ Top(t) <= Top(t)'
<1>1. /\ turn[t].base \in Nat /\ turn[t].drafts \in Nat /\ turn[t].ix \in Nat
      /\ turn'[t].drafts \in Nat /\ turn'[t].base = turn[t].base /\ turn'[t].ix = turn[t].ix
  BY DEF TypeInv, TurnRecord, Moving, MovesOnly
<1>2. "none" \notin Outcomes
  BY DEF Outcomes
<1>3. Moved(t)
  BY DEF Moving
<1>4. CASE turn'[t].pc = "closing"
  <2>1. turn[t].pc \in Looping /\ turn[t].outcome = "none" /\ turn'[t].outcome # "none"
        /\ turn'[t].drafts > turn[t].drafts
    BY <1>2, <1>3, <1>4 DEF Moved, TurnFits, Looping
  <2>2. /\ Top(t)' = turn[t].base + turn'[t].drafts - 1
        /\ Top(t) \in {turn[t].base, turn[t].base + turn[t].drafts}
    BY <1>1, <1>4, <2>1 DEF Top
  <2>3. QED
    BY <1>1, <2>1, <2>2
<1>5. CASE turn'[t].pc # "closing"
  <2>1. /\ turn'[t].outcome = turn[t].outcome
        /\ turn'[t].pc \in Looping => turn'[t].pc = "running"
        /\ \/ turn[t].pc = "registered" /\ turn[t].ix = 0 /\ turn[t].outcome = "none"
           \/ turn[t].pc = "checking" /\ turn'[t].pc = "running" /\ turn'[t].drafts = turn[t].drafts
           \/ turn[t].pc = "closed" /\ turn'[t].pc = "ended" /\ turn[t].outcome # "none"
              /\ turn'[t].drafts = turn[t].drafts
           \/ turn[t].pc = "running" /\ turn[t].ix = 0 /\ turn[t].outcome = "none"
    BY <1>3, <1>5 DEF Moved, TurnFits, Quiet, Looping
  <2>2. CASE turn[t].ix = 0 /\ turn[t].outcome = "none"
    <3>1. Top(t)' = turn[t].base /\ Top(t) = turn[t].base
      BY <1>1, <2>1, <2>2 DEF Top, Looping
    <3>2. QED
      BY <1>1, <3>1
  <2>3. CASE turn[t].pc = "checking" /\ turn'[t].pc = "running" /\ turn'[t].drafts = turn[t].drafts
    <3>1. Top(t)' = Top(t) /\ Top(t) \in {turn[t].base, turn[t].base + turn[t].drafts}
      BY <1>1, <2>1, <2>3 DEF Top, TurnFits, Looping
    <3>2. QED
      BY <1>1, <3>1
  <2>4. CASE turn[t].pc = "closed" /\ turn'[t].pc = "ended" /\ turn[t].outcome # "none"
             /\ turn'[t].drafts = turn[t].drafts
    <3>1. Top(t)' = turn[t].base + turn[t].drafts /\ Top(t) = turn[t].base + turn[t].drafts
      BY <1>1, <1>5, <2>1, <2>4 DEF Top
    <3>2. QED
      BY <1>1, <3>1
  <2>5. QED
    BY <2>1, <2>2, <2>3, <2>4
<1>6. QED
  BY <1>4, <1>5

\* An event's number is larger than those before it.
LEMMA TopEmits ==
  ASSUME TypeInv, NEW t \in Turns, TurnFits(t), NEW e \in Events, Emitting(t, e)
  PROVE  /\ Top(t)' \in Nat /\ Top(t) <= Top(t)' /\ e.seq <= Top(t)'
         /\ e.seq # 0 => Top(t) < e.seq
<1>1. /\ turn[t].base \in Nat /\ turn[t].drafts \in Nat /\ turn[t].ix \in Nat
      /\ turn'[t].drafts \in Nat /\ turn'[t].base = turn[t].base /\ turn'[t].ix = turn[t].ix + 1
      /\ turn'[t].outcome = turn[t].outcome
  BY DEF TypeInv, TurnRecord, Emitting, Emitted
<1>2. \/ /\ turn[t].pc = "running" /\ turn'[t].pc \in Looping
         /\ \/ e.seq = 0 /\ turn'[t].drafts = turn[t].drafts
            \/ e.seq = turn[t].base + turn'[t].drafts /\ turn'[t].drafts = turn[t].drafts + 1
      \/ /\ turn[t].pc = "closing" /\ turn'[t].pc = "closed"
         /\ e.seq = turn[t].base + turn'[t].drafts /\ turn'[t].drafts = turn[t].drafts
      \/ /\ turn[t].pc = "raised" /\ turn'[t].pc = "ended"
         /\ e.seq = 0 /\ turn'[t].drafts = turn[t].drafts
  BY DEF Emitting, Emitted
<1>3. CASE turn[t].pc = "running"
  <2>1. turn[t].outcome = "none" /\ turn'[t].pc \in Looping /\ turn'[t].ix > 0
    BY <1>1, <1>2, <1>3 DEF TurnFits, Looping
  <2>2. Top(t)' = turn[t].base + turn'[t].drafts
    BY <1>1, <2>1 DEF Top
  <2>3. Top(t) = IF turn[t].ix > 0 THEN turn[t].base + turn[t].drafts ELSE turn[t].base
    BY <1>3, <2>1 DEF Top, Looping
  <2>4. QED
    BY <1>1, <1>2, <1>3, <2>2, <2>3
<1>4. CASE turn[t].pc = "closing"
  <2>1. turn[t].outcome # "none" /\ turn'[t].pc = "closed" /\ turn[t].drafts >= 1
    BY <1>2, <1>4 DEF TurnFits
  <2>2. Top(t)' = turn[t].base + turn'[t].drafts /\ Top(t) = turn[t].base + turn[t].drafts - 1
    BY <1>1, <1>4, <2>1 DEF Top, Looping
  <2>3. QED
    BY <1>1, <1>2, <1>4, <2>1, <2>2
<1>5. CASE turn[t].pc = "raised"
  <2>1. turn[t].outcome = "none" /\ turn'[t].pc = "ended" /\ e.seq = 0
    BY <1>2, <1>5 DEF TurnFits, Quiet
  <2>2. Top(t)' = turn[t].base /\ Top(t) = turn[t].base
    BY <1>1, <1>5, <2>1 DEF Top, Looping
  <2>3. QED
    BY <1>1, <2>1, <2>2
<1>6. QED
  BY <1>2, <1>3, <1>4, <1>5

\* Nothing new is held, and the numbers given out do not go back.
LEMMA EventsStay ==
  ASSUME TypeInv, NEW t \in Turns, EventsFit(t), Held(t)' \subseteq Held(t),
         ToSet(turn'[t].ring) \subseteq ToSet(turn[t].ring),
         turn'[t].ix = turn[t].ix, turn'[t].base = turn[t].base, turn'[t].terminal = turn[t].terminal,
         Top(t) \in Nat, Top(t)' \in Nat, Top(t) <= Top(t)',
         turn[t].pc = "finished" => turn'[t].pc = "finished"
  PROVE  EventsFit(t)'
<1>1. ASSUME NEW e \in Held(t)'
      PROVE  EventFits(t, e)' \/ (e = End /\ turn'[t].pc = "finished")
  <2>1. e \in Held(t) /\ e.seq \in Nat
    BY HeldEvents
  <2>2. EventFits(t, e) \/ (e = End /\ turn[t].pc = "finished")
    BY <2>1 DEF EventsFit
  <2>3. EventFits(t, e) => EventFits(t, e)'
    BY <2>1 DEF EventFits
  <2>4. QED
    BY <2>2, <2>3
<1>2. \A e, f \in Held(t)' : Agree(e, f)
  BY DEF EventsFit
<1>3. End \notin ToSet(turn'[t].ring)
  BY DEF EventsFit
<1>4. QED
  BY <1>1, <1>2, <1>3 DEF EventsFit

\* The same turn, and what is held of it is held still.
LEMMA EventsSame ==
  ASSUME TypeInv, NEW t \in Turns, TurnFits(t), EventsFit(t), Held(t)' \subseteq Held(t),
         turn'[t] = turn[t]
  PROVE  EventsFit(t)'
<1>1. Top(t) \in Nat
  BY TopIs
<1>2. Top(t)' = Top(t)
  BY DEF Top
<1>3. QED
  BY <1>1, <1>2, EventsStay

\* A turn of which nothing is held.
LEMMA EventsNone ==
  ASSUME NEW t \in Turns, Held(t)' = {}
  PROVE  EventsFit(t)'
<1>1. ToSet(turn'[t].ring) = {}
  BY DEF Held
<1>2. QED
  BY <1>1 DEF EventsFit

LEMMA TurnStays ==
  ASSUME TypeInv, NEW t \in Turns, TurnFits(t), turn'[t] = turn[t], logged' \in Nat, logged <= logged',
         happened \subseteq happened',
         turn[t].pc = "finished" /\ (current' = t \/ \E c \in Clients : client'[c].on = t)
           => current = t \/ \E c \in Clients : client[c].on = t,
         current' = t => current = t \/ turn[t].pc \notin {"new", "flagged"}
  PROVE  TurnFits(t)'
<1>1. turn[t].base \in Nat /\ turn[t].drafts \in Nat /\ logged \in Nat
  BY DEF TypeInv, TurnRecord
<1>2. turn[t].base <= logged => turn[t].base <= logged'
  BY <1>1
<1>3. turn[t].base + turn[t].drafts <= logged => turn[t].base + turn[t].drafts <= logged'
  <2>1. turn[t].base + turn[t].drafts \in Nat
    BY <1>1
  <2>2. QED
    BY <1>1, <2>1
<1>4. QED
  BY <1>2, <1>3 DEF TurnFits

\* The connection as it was; its turn has not gone back.
LEMMA PageStays ==
  ASSUME TypeInv, NEW c \in Clients, PageFits(c), client'[c] = client[c], anchor'[c] = anchor[c],
         client[c].on \in Turns =>
           /\ turn[client[c].on].pc \notin {"new", "flagged"}
                => turn'[client[c].on].pc \notin {"new", "flagged"}
           /\ turn[client[c].on].ix <= turn'[client[c].on].ix
           /\ turn'[client[c].on].ix \in Nat
           /\ client[c].told # "none" => turn'[client[c].on].terminal = turn[client[c].on].terminal
  PROVE  PageFits(c)'
<1>1. client[c].cutoff \in Nat /\ \A t \in Turns : turn[t].ix \in Nat
  BY DEF TypeInv, PageRecord, TurnRecord
<1>2. CASE client[c].on \in Turns
  <2> DEFINE t == client[c].on
  <2>1. client[c].pc \in {"check", "live"} => client[c].cutoff <= turn[t].ix
    BY DEF PageFits
  <2>2. client[c].pc \in {"check", "live"} => client[c].cutoff <= turn'[t].ix
    <3>1. t \in Turns /\ turn[t].ix \in Nat /\ turn'[t].ix \in Nat /\ turn[t].ix <= turn'[t].ix
      BY <1>1, <1>2
    <3>2. QED
      BY <1>1, <2>1, <3>1
  <2>3. client'[c].told # "none" => client'[c].told = turn'[t].terminal
    BY <1>2 DEF PageFits
  <2>4. QED
    BY <1>2, <2>2, <2>3 DEF PageFits, Following
<1>3. CASE client[c].on \notin Turns
  BY <1>3 DEF PageFits, Following
<1>4. QED
  BY <1>2, <1>3

LEMMA HeldGoes ==
  ASSUME NEW t \in Turns, ToSet(turn'[t].ring) \subseteq ToSet(turn[t].ring),
         \A c \in Clients : \/ client'[c].queue = <<>>
                            \/ /\ client'[c].on = client[c].on
                               /\ ToSet(client'[c].queue) \subseteq ToSet(client[c].queue)
  PROVE  Held(t)' \subseteq Held(t)
<1>1. ToSet(<<>>) = {}
  BY DEF ToSet
<1>2. ASSUME NEW e \in Held(t)'
      PROVE  e \in Held(t)
  <2>1. CASE e \in ToSet(turn'[t].ring)
    BY <2>1 DEF Held
  <2>2. CASE \E c \in Clients : client'[c].on = t /\ e \in ToSet(client'[c].queue)
    BY <1>1, <2>2 DEF Held
  <2>3. QED
    BY <1>2, <2>1, <2>2 DEF Held
<1>3. QED
  BY <1>2

LEMMA HeldOffered ==
  ASSUME TypeInv, NEW t \in Turns, NEW e \in Events, FanOut(t, e),
         turn'[t].ring = turn[t].ring \/ turn'[t].ring = Keep(turn[t].ring, e),
         \A u \in Turns \ {t} : turn'[u] = turn[u]
  PROVE  /\ ToSet(turn'[t].ring) \subseteq ToSet(turn[t].ring) \cup {e}
         /\ Held(t)' \subseteq Held(t) \cup {e}
         /\ \A u \in Turns \ {t} : Held(u)' \subseteq Held(u)
<1>1. turn[t].ring \in Seq(Events) /\ Len(turn[t].ring) <= RingMax
      /\ \A c \in Clients : client[c].queue \in Seq(Events) /\ Len(client[c].queue) <= QueueMax
  BY DEF TypeInv, TurnRecord, PageRecord
<1>2. ToSet(turn'[t].ring) \subseteq ToSet(turn[t].ring) \cup {e}
  BY <1>1, KeepDoes
<1>3. ASSUME NEW c \in Clients
      PROVE  /\ client'[c].on = client[c].on
             /\ ToSet(client'[c].queue) \subseteq ToSet(client[c].queue) \cup {e}
             /\ client[c].on # t => client'[c] = client[c]
  <2>1. /\ client'[c].on = client[c].on
        /\ ~Follows(c, t) => client'[c] = client[c]
        /\ Follows(c, t) => client'[c].queue = Offer(client[c].queue, e)
    BY FanOutDoes
  <2>2. ToSet(Offer(client[c].queue, e)) \subseteq ToSet(client[c].queue) \cup {e}
    BY <1>1, OfferDoes
  <2>3. QED
    BY <2>1, <2>2 DEF Follows
<1>4. Held(t)' \subseteq Held(t) \cup {e}
  <2> SUFFICES ASSUME NEW d \in Held(t)', d # e
               PROVE  d \in Held(t)
    OBVIOUS
  <2>1. CASE d \in ToSet(turn'[t].ring)
    BY <1>2, <2>1 DEF Held
  <2>2. CASE \E c \in Clients : client'[c].on = t /\ d \in ToSet(client'[c].queue)
    BY <1>3, <2>2 DEF Held
  <2>3. QED
    BY <2>1, <2>2 DEF Held
<1>5. ASSUME NEW u \in Turns \ {t}
      PROVE  Held(u)' \subseteq Held(u)
  <2> SUFFICES ASSUME NEW d \in Held(u)'
               PROVE  d \in Held(u)
    OBVIOUS
  <2>1. CASE d \in ToSet(turn'[u].ring)
    BY <2>1 DEF Held
  <2>2. CASE \E c \in Clients : client'[c].on = u /\ d \in ToSet(client'[c].queue)
    BY <1>3, <2>2 DEF Held
  <2>3. QED
    BY <2>1, <2>2 DEF Held
<1>6. QED
  BY <1>2, <1>4, <1>5

\* An event that ended the turn is the last one; none is held of a turn that
\* has not ended.
LEMMA NotEnded ==
  ASSUME TypeInv, NEW t \in Turns, EventsFit(t), turn[t].terminal = "none"
  PROVE  \A e \in Held(t) : ~IsTerminal(e)
<1>1. "none" \notin Outcomes /\ ~IsTerminal(End)
  BY EndIsEvent DEF Outcomes
<1>2. QED
  BY <1>1 DEF EventsFit, EventFits, IsTerminal

\* What is held of a turn is the end marker or an event it emitted.
LEMMA HeldFits ==
  ASSUME TypeInv, NEW t \in Turns, EventsFit(t), NEW d \in Held(t)
  PROVE  /\ d.ix \in Nat /\ d.seq \in Nat /\ turn[t].ix \in Nat
         /\ d # End => EventFits(t, d) /\ 1 <= d.ix /\ d.ix <= turn[t].ix
         /\ d = End => turn[t].pc = "finished"
<1>1. d.ix \in Nat /\ d.seq \in Nat /\ turn[t].ix \in Nat
  BY HeldEvents DEF TypeInv, TurnRecord
<1>2. EventFits(t, d) \/ (d = End /\ turn[t].pc = "finished")
  BY DEF EventsFit
<1>3. EventFits(t, d) => 1 <= d.ix /\ d.ix <= turn[t].ix
  BY <1>1 DEF EventFits
<1>4. QED
  BY <1>1, <1>2, <1>3, EndIsEvent

\* Before it starts, nothing is held of a turn and nobody follows it.
LEMMA NothingHeld ==
  ASSUME StreamInv, NEW t \in Turns, turn[t].pc \in {"new", "flagged"}
  PROVE  Held(t) = {} /\ \A c \in Clients : ~Follows(c, t)
                      /\ (client[c].on = t => client[c].pc \notin Following \cup {"attached"})
<1>1. turn[t].ring = <<>>
  BY DEF StreamInv, TurnFits, Quiet
<1>2. ASSUME NEW c \in Clients, client[c].on = t
      PROVE  client[c].pc \notin Following \cup {"attached"} /\ client[c].queue = <<>>
  BY <1>2 DEF StreamInv, PageFits, Following
<1>3. ToSet(<<>>) = {}
  BY DEF ToSet
<1>4. Held(t) = {}
  BY <1>1, <1>2, <1>3 DEF Held
<1>5. QED
  BY <1>2, <1>4 DEF Follows, Following

LEMMA EmptyRises == Rising(<<>>)
  BY DEF Rising

-----------------------------------------------------------------------------
(* The stream                                                              *)

LEMMA StreamMoving ==
  ASSUME TypeInv, StreamInv, NEW t \in Turns, Moving(t)
  PROVE  StreamInv'
<1>1. /\ MovesOnly(t) /\ Moved(t) /\ UNCHANGED <<current, client, anchor>>
      /\ logged' \in Nat /\ logged <= logged' /\ happened \subseteq happened' /\ logged \in Nat
  BY DEF Moving, TypeInv
<1>2. /\ \A u \in Turns \ {t} : turn'[u] = turn[u]
      /\ turn'[t].ix = turn[t].ix /\ turn'[t].ring = turn[t].ring
      /\ turn'[t].terminal = turn[t].terminal /\ turn'[t].base = turn[t].base
  BY <1>1 DEF MovesOnly
<1>3. /\ turn[t].base \in Nat /\ turn[t].drafts \in Nat /\ turn'[t].drafts \in Nat
      /\ \A u \in Turns : turn[u].ix \in Nat
  BY <1>1 DEF TypeInv, TurnRecord, MovesOnly
<1>4. \A u \in Turns : Held(u)' \subseteq Held(u)
  BY <1>1, <1>2, HeldGoes
<1>5. turn[t].ix = 0 => turn[t].ring = <<>>
  <2> SUFFICES ASSUME turn[t].ix = 0, turn[t].ring # <<>>
               PROVE  FALSE
    OBVIOUS
  <2>1. turn[t].ring \in Seq(Events)
    BY DEF TypeInv, TurnRecord
  <2>2. turn[t].ring[1] \in ToSet(turn[t].ring)
    BY <2>1 DEF ToSet
  <2>3. EventFits(t, turn[t].ring[1]) /\ turn[t].ring[1].ix \in Nat
    BY <2>2, HeldEvents DEF StreamInv, EventsFit
  <2>4. QED
    BY <2>3 DEF EventFits
<1>6. TurnFits(t) /\ EventsFit(t)
  BY DEF StreamInv
<1>7. TurnFits(t)'
  <2>1. turn'[t].base <= logged'
    <3>1. turn[t].base <= logged
      BY <1>6 DEF TurnFits
    <3>2. QED
      BY <1>1, <1>2, <1>3, <3>1
  <2>2. CASE turn'[t].pc = "closing"
    <3>1. /\ turn[t].pc \in Looping /\ turn'[t].drafts > turn[t].drafts
          /\ turn'[t].outcome \in Outcomes
          /\ (turn'[t].stored /\ logged' = logged + turn'[t].drafts) \/ "unstored" \in happened'
      BY <1>1, <2>2 DEF Moved
    <3>2. turn'[t].outcome # "none" /\ turn[t].terminal = "none" /\ turn'[t].drafts >= 1
      BY <1>3, <1>6, <3>1 DEF TurnFits, Outcomes, Looping
    <3>3. "unstored" \notin happened' => turn'[t].base + turn'[t].drafts <= logged'
      <4>1. turn[t].base <= logged
        BY <1>6 DEF TurnFits
      <4>2. logged' = logged + turn'[t].drafts => turn[t].base + turn'[t].drafts <= logged'
        BY <1>1, <1>3, <4>1
      <4>3. QED
        BY <1>2, <3>1, <4>2
    <3>4. turn'[t].stored \/ "unstored" \in happened'
      BY <3>1, Zenon
    <3>5. QED
      BY <1>2, <2>1, <2>2, <3>2, <3>3, <3>4 DEF TurnFits, Quiet, Looping
  <2>3. CASE turn'[t].pc # "closing"
    <3>1. /\ turn'[t].outcome = turn[t].outcome
          /\ turn'[t].stored = turn[t].stored
          /\ \/ turn[t].pc = "registered" /\ turn'[t].pc = "running" /\ turn'[t].drafts >= 1
             \/ turn[t].pc = "checking" /\ turn'[t].pc = "running" /\ turn'[t].drafts = turn[t].drafts
             \/ turn[t].pc = "closed" /\ turn'[t].pc = "ended" /\ turn'[t].drafts = turn[t].drafts
             \/ (turn[t].pc = "registered" \/ (turn[t].pc = "running" /\ turn[t].ix = 0))
                /\ turn'[t].pc = "raised" /\ turn'[t].drafts = turn[t].drafts
      BY <1>1, <2>3 DEF Moved
    <3>2. current' = t => turn'[t].pc \notin {"new", "flagged"}
      BY <3>1
    <3>3. turn[t].outcome # "none" /\ "unstored" \notin happened'
            => turn'[t].base + turn'[t].drafts <= logged'
      <4> SUFFICES ASSUME turn[t].outcome # "none", "unstored" \notin happened'
                   PROVE  turn'[t].base + turn'[t].drafts <= logged'
        OBVIOUS
      <4>1. turn[t].pc = "closed" /\ turn'[t].drafts = turn[t].drafts
        BY <1>6, <3>1 DEF TurnFits, Quiet, Looping
      <4>2. turn[t].base + turn[t].drafts <= logged
        BY <1>1, <1>6 DEF TurnFits
      <4>3. QED
        BY <1>1, <1>2, <1>3, <4>1, <4>2
    <3>4. turn'[t].pc = "running" => turn'[t].drafts >= 1
      BY <1>6, <3>1 DEF TurnFits, Looping
    <3>5. turn'[t].outcome = "none" \/ turn'[t].stored \/ "unstored" \in happened'
      BY <1>1, <1>6, <3>1, Zenon DEF TurnFits
    <3>6. turn'[t].pc \in Quiet => turn'[t].ix = 0 /\ turn'[t].ring = <<>>
      BY <1>2, <1>5, <1>6, <3>1 DEF TurnFits, Quiet
    <3>7. /\ turn'[t].pc \in Quiet \cup {"running"} => turn'[t].terminal = "none" /\ turn'[t].outcome = "none"
          /\ turn'[t].pc = "ended" => turn'[t].terminal # "none"
      BY <1>2, <1>6, <3>1 DEF TurnFits, Quiet, Looping
    <3>8. turn'[t].pc \in {"running", "ended", "raised"}
      BY <3>1
    <3>9. QED
      BY <1>2, <2>1, <3>1, <3>3, <3>4, <3>5, <3>6, <3>7, <3>8 DEF TurnFits, Quiet, Looping
  <2>4. QED
    BY <2>2, <2>3
<1>8. EventsFit(t)'
  <2>1. Top(t) \in Nat /\ Top(t)' \in Nat /\ Top(t) <= Top(t)'
    BY <1>6, TopIs, TopMoves
  <2>2. turn[t].pc # "finished"
    BY <1>1 DEF Moved, Looping
  <2>3. QED
    BY <1>2, <1>4, <1>6, <2>1, <2>2, EventsStay
<1>9. ASSUME NEW u \in Turns \ {t}
      PROVE  TurnFits(u)' /\ EventsFit(u)'
  <2>1. TurnFits(u) /\ EventsFit(u) /\ turn'[u] = turn[u]
    BY <1>2 DEF StreamInv
  <2>2. QED
    BY <1>1, <1>4, <2>1, TurnStays, EventsSame
<1>10. ASSUME NEW c \in Clients
       PROVE  PageFits(c)' /\ Rising(client'[c].queue)
  <2>1. PageFits(c) /\ client'[c] = client[c] /\ anchor'[c] = anchor[c] /\ Rising(client[c].queue)
    BY <1>1 DEF StreamInv
  <2>2. turn'[t].pc \notin {"new", "flagged"}
    BY <1>1 DEF Moved
  <2>3. QED
    BY <1>2, <1>3, <2>1, <2>2, PageStays
<1>11. ASSUME NEW u \in Turns
       PROVE  Rising(turn'[u].ring)
  <2>1. turn'[u].ring = turn[u].ring /\ Rising(turn[u].ring)
    BY <1>2 DEF StreamInv
  <2>2. QED
    BY <2>1
<1>12. QED
  BY <1>7, <1>8, <1>9, <1>10, <1>11 DEF StreamInv

\* The pages of a turn that is offering e, which comes after all it emitted.
LEMMA PagesOffered ==
  ASSUME TypeInv, StreamInv, NEW t \in Turns, NEW e \in Events, FanOut(t, e), anchor' = anchor,
         \A u \in Turns \ {t} : turn'[u] = turn[u],
         turn[t].pc \notin {"new", "flagged", "finished"}, turn'[t].pc \notin {"new", "flagged"},
         turn'[t].ix \in Nat, turn[t].ix <= turn'[t].ix,
         turn[t].terminal # "none" => turn'[t].terminal = turn[t].terminal,
         e = End \/ turn[t].ix < e.ix
  PROVE  \A c \in Clients : PageFits(c)' /\ Rising(client'[c].queue)
<1>1. \A d \in Held(t) : d # End /\ d.ix \in Nat /\ d.ix <= turn[t].ix
  BY HeldFits DEF StreamInv
<1>2. turn[t].ix \in Nat /\ e.ix \in Nat /\ \A u \in Turns : turn[u].ix \in Nat
  BY DEF TypeInv, TurnRecord, Events
<1>3. ASSUME NEW c \in Clients
      PROVE  PageFits(c)' /\ Rising(client'[c].queue)
  <2>1. PageFits(c) /\ Rising(client[c].queue)
    BY DEF StreamInv
  <2>2. /\ client'[c].pc = client[c].pc /\ client'[c].on = client[c].on
        /\ client'[c].after = client[c].after /\ client'[c].cutoff = client[c].cutoff
        /\ client'[c].told = client[c].told
        /\ ~Follows(c, t) => client'[c] = client[c]
        /\ Follows(c, t) => client'[c].queue = Offer(client[c].queue, e)
    BY FanOutDoes
  <2>3. CASE ~Follows(c, t)
    <3>1. client'[c] = client[c] /\ anchor'[c] = anchor[c]
      BY <2>2, <2>3
    <3>2. client[c].on \in Turns =>
           /\ turn[client[c].on].pc \notin {"new", "flagged"}
                => turn'[client[c].on].pc \notin {"new", "flagged"}
           /\ turn[client[c].on].ix <= turn'[client[c].on].ix
           /\ turn'[client[c].on].ix \in Nat
           /\ client[c].told # "none" => turn'[client[c].on].terminal = turn[client[c].on].terminal
      BY <1>2, <2>1 DEF PageFits
    <3>3. QED
      BY <2>1, <3>1, <3>2, PageStays
  <2>4. CASE Follows(c, t)
    <3>1. client[c].on = t /\ client[c].pc \in Following
      BY <2>4 DEF Follows, Following
    <3>2. client[c].queue \in Seq(Events) /\ Len(client[c].queue) <= QueueMax /\ client[c].cutoff \in Nat
      BY DEF TypeInv, PageRecord
    <3>3. \A d \in ToSet(client[c].queue) : d # End /\ (e = End \/ d.ix < e.ix)
      <4>1. ToSet(client[c].queue) \subseteq Held(t)
        BY <3>1, HeldEvents
      <4>2. QED
        BY <1>1, <1>2, <4>1
    <3>4. Rising(Offer(client[c].queue, e))
      BY <2>1, <3>2, <3>3, OfferDoes
    <3>5. client'[c].queue = Offer(client[c].queue, e)
      BY <2>2, <2>4
    <3>6. client'[c].pc \in {"check", "live"} => client'[c].cutoff <= turn'[t].ix
      <4>1. client[c].pc \in {"check", "live"} => client[c].cutoff <= turn[t].ix
        BY <2>1, <3>1 DEF PageFits
      <4>2. QED
        BY <1>2, <2>2, <3>2, <4>1
    <3>7. client'[c].told # "none" => client'[c].told = turn'[t].terminal
      BY <2>1, <2>2, <3>1 DEF PageFits
    <3>8. PageFits(c)'
      BY <2>1, <2>2, <3>1, <3>6, <3>7 DEF PageFits
    <3>9. QED
      BY <3>4, <3>5, <3>8
  <2>5. QED
    BY <2>3, <2>4
<1>4. QED
  BY <1>3

LEMMA StreamEmitting ==
  ASSUME TypeInv, StreamInv, NEW t \in Turns, NEW e \in Events, Emitting(t, e)
  PROVE  StreamInv'
<1>1. /\ Emitted(t, e) /\ UNCHANGED <<logged, current, anchor, happened>> /\ logged \in Nat
      /\ FanOut(t, e) /\ \A u \in Turns \ {t} : turn'[u] = turn[u]
      /\ e.ix = turn[t].ix + 1 /\ turn'[t].ix = turn[t].ix + 1
      /\ turn'[t].base = turn[t].base /\ turn'[t].outcome = turn[t].outcome
      /\ turn'[t].stored = turn[t].stored
      /\ turn'[t].ring = Keep(turn[t].ring, e) \/ turn'[t].ring = turn[t].ring
  BY DEF Emitting, Emitted, TypeInv
<1>2. \/ /\ turn[t].pc = "running" /\ turn'[t].pc \in Looping /\ ~IsTerminal(e)
         /\ turn'[t].terminal = turn[t].terminal
         /\ turn'[t].drafts \in {turn[t].drafts, turn[t].drafts + 1}
      \/ /\ turn[t].pc = "closing" /\ turn'[t].pc = "closed" /\ IsTerminal(e)
         /\ turn'[t].terminal = e.what /\ turn'[t].drafts = turn[t].drafts
      \/ /\ turn[t].pc = "raised" /\ turn'[t].pc = "ended" /\ IsTerminal(e)
         /\ turn'[t].terminal = e.what /\ turn'[t].drafts = turn[t].drafts
  BY <1>1 DEF Emitted
<1>3. TurnFits(t) /\ EventsFit(t) /\ Rising(turn[t].ring)
  BY DEF StreamInv
<1>4. turn[t].terminal = "none" /\ turn[t].pc \notin {"new", "flagged", "finished"}
      /\ turn'[t].pc \notin {"new", "flagged", "finished"}
  BY <1>2, <1>3 DEF TurnFits, Quiet, Looping
<1>5. turn[t].ix \in Nat /\ turn[t].drafts \in Nat /\ turn[t].base \in Nat
      /\ turn'[t].ix \in Nat /\ turn[t].ix <= turn'[t].ix /\ turn[t].ix < e.ix
  BY <1>1 DEF TypeInv, TurnRecord
<1>6. \A c \in Clients : PageFits(c)' /\ Rising(client'[c].queue)
  BY <1>1, <1>4, <1>5, PagesOffered
<1>7. /\ Held(t)' \subseteq Held(t) \cup {e} /\ \A u \in Turns \ {t} : Held(u)' \subseteq Held(u)
      /\ ToSet(turn'[t].ring) \subseteq ToSet(turn[t].ring) \cup {e}
  BY <1>1, HeldOffered
<1>8. \A c \in Clients : client'[c].on = client[c].on
  BY <1>1, FanOutDoes
<1>9. TurnFits(t)'
  <2>1. IsTerminal(e) => e.what # "none"
    BY DEF IsTerminal, Outcomes
  <2>2. turn[t].base <= logged /\ (turn[t].outcome = "none" \/ turn[t].stored \/ "unstored" \in happened)
    BY <1>3, Zenon DEF TurnFits, Looping
  <2>3. CASE turn[t].pc = "running"
    <3>1. turn'[t].pc \in Looping /\ turn'[t].terminal = "none" /\ turn'[t].outcome = "none"
          /\ turn'[t].drafts >= 1 /\ turn'[t].ix >= 1
      BY <1>1, <1>2, <1>3, <1>4, <1>5, <2>3 DEF TurnFits, Looping
    <3>2. QED
      BY <1>1, <2>2, <3>1 DEF TurnFits, Quiet, Looping
  <2>4. CASE turn[t].pc = "closing"
    <3>1. turn'[t].pc = "closed" /\ turn'[t].terminal # "none" /\ turn'[t].outcome # "none"
          /\ turn'[t].drafts = turn[t].drafts
      BY <1>1, <1>2, <1>3, <2>1, <2>4 DEF TurnFits, Looping
    <3>2. "unstored" \notin happened => turn[t].base + turn[t].drafts <= logged
      BY <1>3, <2>4 DEF TurnFits, Looping
    <3>3. QED
      BY <1>1, <2>2, <3>1, <3>2 DEF TurnFits, Quiet, Looping
  <2>5. CASE turn[t].pc = "raised"
    <3>1. turn'[t].pc = "ended" /\ turn'[t].terminal # "none" /\ turn'[t].outcome = "none"
      BY <1>1, <1>2, <1>3, <2>1, <2>5 DEF TurnFits, Quiet, Looping
    <3>2. QED
      BY <1>1, <2>2, <3>1 DEF TurnFits, Quiet, Looping
  <2>6. QED
    BY <1>2, <2>3, <2>4, <2>5
<1>10. EventsFit(t)'
  <2>1. /\ Top(t)' \in Nat /\ Top(t) \in Nat /\ Top(t) <= Top(t)' /\ e.seq <= Top(t)'
        /\ e.seq # 0 => Top(t) < e.seq
        /\ turn[t].base <= Top(t)
    BY <1>3, TopEmits, TopIs
  <2>2. e.seq \in Nat
    BY DEF Events
  <2>3. ASSUME NEW d \in Held(t)
        PROVE  /\ EventFits(t, d) /\ ~IsTerminal(d) /\ d.ix \in Nat /\ d.seq \in Nat
               /\ 1 <= d.ix /\ d.ix <= turn[t].ix
    BY <1>3, <1>4, HeldFits, NotEnded
  <2>4. EventFits(t, e)'
    <3>1. e.ix \in 1 .. turn'[t].ix /\ e.ix = turn'[t].ix
      BY <1>1, <1>5
    <3>2. e.seq # 0 => turn'[t].base < e.seq
      BY <1>1, <1>5, <2>1, <2>2
    <3>3. IsTerminal(e) => e.what = turn'[t].terminal
      BY <1>2
    <3>4. QED
      BY <2>1, <3>1, <3>2, <3>3 DEF EventFits
  <2>5. ASSUME NEW d \in Held(t)
        PROVE  EventFits(t, d)'
    <3>1. d.ix \in 1 .. turn'[t].ix
      BY <1>5, <2>3 DEF EventFits
    <3>2. d.seq # 0 => turn'[t].base < d.seq /\ d.seq <= Top(t)'
      BY <1>1, <2>1, <2>3 DEF EventFits
    <3>3. QED
      BY <2>3, <3>1, <3>2 DEF EventFits
  <2>6. ASSUME NEW d \in Held(t)
        PROVE  Agree(d, e) /\ Agree(e, d)
    <3>1. d.ix < e.ix
      BY <1>1, <1>5, <2>3
    <3>2. d.seq # 0 /\ e.seq # 0 => d.seq < e.seq
      BY <2>1, <2>2, <2>3 DEF EventFits
    <3>3. e.ix \in Nat /\ d.ix # e.ix /\ ~(e.ix < d.ix)
      BY <1>1, <1>5, <2>3, <3>1
    <3>4. QED
      BY <3>2, <3>3 DEF Agree
  <2>7. Agree(e, e)
    BY DEF Agree, Events
  <2>8. e # End
    BY <1>1, <1>5, EndIsEvent
  <2>9. \A d, f \in Held(t)' : Agree(d, f)
    <3> SUFFICES ASSUME NEW d \in Held(t)', NEW f \in Held(t)'
                 PROVE  Agree(d, f)
      OBVIOUS
    <3>1. (d \in Held(t) \/ d = e) /\ (f \in Held(t) \/ f = e)
      BY <1>7
    <3>2. d \in Held(t) /\ f \in Held(t) => Agree(d, f)
      BY <1>3 DEF EventsFit
    <3>3. QED
      BY <2>6, <2>7, <3>1, <3>2
  <2>10. \A d \in Held(t)' : EventFits(t, d)'
    BY <1>7, <2>4, <2>5
  <2>11. End \notin ToSet(turn'[t].ring)
    BY <1>3, <1>7, <2>8 DEF EventsFit
  <2>12. QED
    BY <2>9, <2>10, <2>11 DEF EventsFit
<1>11. Rising(turn'[t].ring)
  <2>1. turn[t].ring \in Seq(Events) /\ Len(turn[t].ring) <= RingMax
    BY DEF TypeInv, TurnRecord
  <2>2. \A d \in ToSet(turn[t].ring) : d # End /\ d.ix < e.ix
    <3> SUFFICES ASSUME NEW d \in ToSet(turn[t].ring)
                 PROVE  d # End /\ d.ix < e.ix
      OBVIOUS
    <3>1. d \in Held(t)
      BY HeldEvents
    <3>2. d # End /\ d.ix \in Nat /\ d.ix <= turn[t].ix
      BY <1>3, <1>4, <3>1, HeldFits
    <3>3. QED
      BY <1>1, <1>5, <3>2
  <2>3. Rising(Keep(turn[t].ring, e))
    BY <1>3, <2>1, <2>2, KeepDoes
  <2>4. QED
    BY <1>1, <1>3, <2>3
<1>12. ASSUME NEW u \in Turns \ {t}
       PROVE  TurnFits(u)' /\ EventsFit(u)' /\ Rising(turn'[u].ring)
  <2>1. TurnFits(u) /\ EventsFit(u) /\ Rising(turn[u].ring) /\ turn'[u] = turn[u]
    BY <1>1 DEF StreamInv
  <2>2. TurnFits(u)'
    BY <1>1, <1>8, <2>1, TurnStays
  <2>3. EventsFit(u)'
    BY <1>7, <2>1, EventsSame
  <2>4. QED
    BY <2>1, <2>2, <2>3
<1>13. QED
  BY <1>6, <1>9, <1>10, <1>11, <1>12 DEF StreamInv

LEMMA StreamFinished ==
  ASSUME TypeInv, StreamInv, NEW t \in Turns, Finished(t)
  PROVE  StreamInv'
<1>1. /\ turn[t].pc = "ended" /\ turn'[t].pc = "finished" /\ FanOut(t, End)
      /\ UNCHANGED <<logged, current, anchor, happened>> /\ logged \in Nat
      /\ \A u \in Turns \ {t} : turn'[u] = turn[u]
      /\ turn'[t].ix = turn[t].ix /\ turn'[t].ring = turn[t].ring
      /\ turn'[t].terminal = turn[t].terminal /\ turn'[t].base = turn[t].base
      /\ turn'[t].drafts = turn[t].drafts /\ turn'[t].outcome = turn[t].outcome
      /\ turn'[t].stored = turn[t].stored
  BY DEF Finished, TypeInv
<1>2. TurnFits(t) /\ EventsFit(t) /\ Rising(turn[t].ring) /\ turn[t].ix \in Nat
  BY DEF StreamInv, TypeInv, TurnRecord
<1>3. End \in Events /\ End.ix = 0 /\ End.seq = 0
  BY EndIsEvent
<1>4. \A c \in Clients : PageFits(c)' /\ Rising(client'[c].queue)
  BY <1>1, <1>2, <1>3, PagesOffered
<1>5. Held(t)' \subseteq Held(t) \cup {End} /\ \A u \in Turns \ {t} : Held(u)' \subseteq Held(u)
  BY <1>1, <1>3, HeldOffered
<1>6. \A c \in Clients : client'[c].on = client[c].on
  BY <1>1, <1>3, FanOutDoes
<1>7. TurnFits(t)'
  <2>1. turn[t].terminal # "none"
    BY <1>1, <1>2 DEF TurnFits
  <2>2. QED
    BY <1>1, <1>2, <2>1 DEF TurnFits, Quiet, Looping
<1>8. EventsFit(t)'
  <2>1. Top(t)' = Top(t)
    BY <1>1 DEF Top, Looping
  <2>2. ASSUME NEW d \in Held(t)
        PROVE  EventFits(t, d) /\ EventFits(t, d)' /\ d.ix \in Nat /\ 1 <= d.ix
    <3>1. EventFits(t, d) /\ d.ix \in Nat /\ 1 <= d.ix
      BY <1>1, <1>2, HeldFits
    <3>2. QED
      BY <1>1, <2>1, <3>1 DEF EventFits
  <2>3. \A d \in Held(t)' : EventFits(t, d)' \/ (d = End /\ turn'[t].pc = "finished")
    BY <1>1, <1>5, <2>2
  <2>4. ASSUME NEW d \in Held(t)', NEW f \in Held(t)'
        PROVE  Agree(d, f)
    <3>1. CASE d \in Held(t) /\ f \in Held(t)
      BY <1>2, <3>1 DEF EventsFit
    <3>2. CASE d = End /\ f = End
      BY <1>3, <3>2 DEF Agree
    <3>3. CASE d = End /\ f \in Held(t)
      BY <1>3, <2>2, <3>3 DEF Agree
    <3>4. CASE f = End /\ d \in Held(t)
      BY <1>3, <2>2, <3>4 DEF Agree
    <3>5. QED
      BY <1>5, <3>1, <3>2, <3>3, <3>4
  <2>5. End \notin ToSet(turn'[t].ring)
    BY <1>1, <1>2 DEF EventsFit
  <2>6. QED
    BY <2>3, <2>4, <2>5 DEF EventsFit
<1>9. ASSUME NEW u \in Turns \ {t}
      PROVE  TurnFits(u)' /\ EventsFit(u)' /\ Rising(turn'[u].ring)
  <2>1. TurnFits(u) /\ EventsFit(u) /\ Rising(turn[u].ring) /\ turn'[u] = turn[u]
    BY <1>1 DEF StreamInv
  <2>2. TurnFits(u)'
    BY <1>1, <1>6, <2>1, TurnStays
  <2>3. EventsFit(u)'
    BY <1>5, <2>1, EventsSame
  <2>4. QED
    BY <2>1, <2>2, <2>3
<1>10. Rising(turn'[t].ring)
  BY <1>1, <1>2
<1>11. QED
  BY <1>4, <1>7, <1>8, <1>9, <1>10 DEF StreamInv

LEMMA StreamRegistered ==
  ASSUME TypeInv, StreamInv, NEW t \in Turns, Registered(t)
  PROVE  StreamInv'
<1>1. /\ turn[t].pc = "flagged" /\ turn'[t].pc = "registered" /\ turn'[t].base <= logged
      /\ turn'[t].ix = turn[t].ix /\ turn'[t].ring = turn[t].ring
      /\ turn'[t].terminal = turn[t].terminal /\ turn'[t].outcome = turn[t].outcome
      /\ turn'[t].stored = turn[t].stored /\ current' = t
      /\ UNCHANGED <<logged, anchor>> /\ logged \in Nat /\ happened \subseteq happened'
  BY DEF Registered, TypeInv
<1>2. ASSUME NEW c \in Clients
      PROVE  /\ client'[c].on = client[c].on /\ client'[c].queue = client[c].queue
             /\ client'[c].after = client[c].after /\ client'[c].cutoff = client[c].cutoff
             /\ client'[c].told = client[c].told
             /\ \/ client'[c].pc = client[c].pc /\ ~(client[c].pc = "asking" /\ client[c].on = t)
                \/ client[c].pc = "asking" /\ client[c].on = t /\ client'[c].pc = "attached"
             /\ PageFits(c) /\ Rising(client[c].queue)
  BY DEF Registered, StreamInv
<1>3. ASSUME NEW u \in Turns \ {t}
      PROVE  /\ Unreferenced(u) => turn'[u] = [NoTurn EXCEPT !.pc = "finished"]
             /\ ~Unreferenced(u) => turn'[u] = turn[u]
  BY DEF Registered
<1>4. TurnFits(t) /\ turn[t].ix = 0 /\ turn[t].ring = <<>> /\ turn[t].terminal = "none"
      /\ turn[t].outcome = "none"
  BY <1>1 DEF StreamInv, TurnFits, Quiet
<1>5. Held(t) = {} /\ \A c \in Clients : client[c].on = t => client[c].pc \notin Following \cup {"attached"}
  BY <1>1, NothingHeld
<1>6. TurnFits(t)'
  BY <1>1, <1>4 DEF TurnFits, Quiet, Looping
<1>7. ToSet(<<>>) = {}
  BY DEF ToSet
<1>8. EventsFit(t)' /\ Rising(turn'[t].ring)
  <2>1. Held(t)' \subseteq Held(t)
    BY <1>1, <1>2, HeldGoes
  <2>2. QED
    BY <1>1, <1>4, <1>5, <2>1, EventsNone, EmptyRises
<1>9. ASSUME NEW u \in Turns \ {t}, Unreferenced(u)
      PROVE  TurnFits(u)' /\ EventsFit(u)' /\ Rising(turn'[u].ring)
  <2>1. /\ turn'[u].pc = "finished" /\ turn'[u].ix = 0 /\ turn'[u].ring = <<>> /\ turn'[u].base = 0
        /\ turn'[u].outcome = "none" /\ turn'[u].terminal = "none"
    BY <1>3, <1>9 DEF NoTurn
  <2>2. \A c \in Clients : client'[c].on # u
    BY <1>2, <1>9 DEF Unreferenced
  <2>3. 0 <= logged
    BY <1>1
  <2>4. TurnFits(u)'
    BY <1>1, <2>1, <2>2, <2>3 DEF TurnFits, Quiet, Looping
  <2>5. Held(u)' = {}
    BY <1>7, <2>1, <2>2 DEF Held
  <2>6. QED
    BY <2>1, <2>4, <2>5, EventsNone, EmptyRises
<1>10. ASSUME NEW u \in Turns \ {t}, ~Unreferenced(u)
       PROVE  TurnFits(u)' /\ EventsFit(u)' /\ Rising(turn'[u].ring)
  <2>1. TurnFits(u) /\ EventsFit(u) /\ Rising(turn[u].ring) /\ turn'[u] = turn[u]
    BY <1>3, <1>10 DEF StreamInv
  <2>2. TurnFits(u)'
    <3>1. current' # u /\ logged' \in Nat /\ logged <= logged' /\ happened \subseteq happened'
      BY <1>1
    <3>2. QED
      BY <1>2, <2>1, <3>1, TurnStays
  <2>3. Held(u)' \subseteq Held(u)
    BY <1>2, <2>1, HeldGoes
  <2>4. QED
    BY <2>1, <2>2, <2>3, EventsSame
<1>11. ASSUME NEW c \in Clients
       PROVE  PageFits(c)' /\ Rising(client'[c].queue)
  <2>1. Rising(client'[c].queue)
    BY <1>2
  <2>2. CASE client[c].pc = "asking" /\ client[c].on = t
    <3>1. client'[c].pc = "attached" /\ client[c].queue = <<>> /\ client[c].after <= anchor[c]
      BY <1>2, <2>2 DEF PageFits, Following
    <3>2. client[c].told # "none" => client[c].told = turn[t].terminal
      BY <1>2, <2>2 DEF PageFits
    <3>3. QED
      BY <1>1, <1>2, <2>1, <2>2, <3>1, <3>2 DEF PageFits, Following
  <2>3. CASE ~(client[c].pc = "asking" /\ client[c].on = t)
    <3>1. client'[c].pc = client[c].pc
      BY <1>2, <2>3
    <3>2. CASE client[c].on = t
      <4>1. client[c].pc \notin Following \cup {"attached"}
        BY <1>5, <3>2
      <4>2. client[c].told # "none" => client[c].told = turn'[t].terminal
        BY <1>1, <1>2, <3>2 DEF PageFits
      <4>3. QED
        BY <1>1, <1>2, <2>1, <3>1, <3>2, <4>1, <4>2 DEF PageFits, Following
    <3>3. CASE client[c].on \in Turns \ {t}
      <4>1. turn'[client[c].on] = turn[client[c].on]
        BY <1>3, <3>3 DEF Unreferenced
      <4>2. QED
        BY <1>1, <1>2, <2>1, <3>1, <4>1 DEF PageFits
    <3>4. CASE client[c].on \notin Turns
      BY <1>1, <1>2, <2>1, <3>1, <3>4 DEF PageFits, Following
    <3>5. QED
      BY <3>2, <3>3, <3>4
  <2>4. QED
    BY <2>2, <2>3
<1>12. QED
  BY <1>6, <1>8, <1>9, <1>10, <1>11 DEF StreamInv

LEMMA StreamStarted ==
  ASSUME TypeInv, StreamInv, NEW t \in Turns, NEW c \in Clients, Started(c, t)
  PROVE  StreamInv'
<1>1. /\ turn[t].pc = "new" /\ turn'[t].pc = "flagged"
      /\ \A u \in Turns \ {t} : turn'[u] = turn[u]
      /\ turn'[t].ix = turn[t].ix /\ turn'[t].ring = turn[t].ring
      /\ turn'[t].terminal = turn[t].terminal /\ turn'[t].outcome = turn[t].outcome
      /\ turn'[t].stored = turn[t].stored /\ turn'[t].base = turn[t].base
      /\ \A d \in Clients \ {c} : client'[d] = client[d]
      /\ client'[c].pc = "asking" /\ client'[c].on = t /\ client'[c].queue = <<>>
      /\ client'[c].told = "none" /\ client'[c].after = 0
      /\ UNCHANGED <<logged, current, anchor, happened>> /\ logged \in Nat
      /\ anchor[c] \in Nat
  BY DEF Started, TypeInv
<1>2. TurnFits(t) /\ turn[t].ix = 0 /\ turn[t].ring = <<>> /\ turn[t].terminal = "none"
      /\ turn[t].outcome = "none" /\ turn[t].base <= logged /\ current # t
  BY <1>1 DEF StreamInv, TurnFits, Quiet
<1>3. \A u \in Turns : Held(u)' \subseteq Held(u)
  BY <1>1, HeldGoes
<1>4. TurnFits(t)'
  BY <1>1, <1>2 DEF TurnFits, Quiet, Looping
<1>5. EventsFit(t)' /\ Rising(turn'[t].ring)
  <2>1. Held(t) = {}
    BY <1>1, NothingHeld
  <2>2. QED
    BY <1>1, <1>2, <1>3, <2>1, EventsNone, EmptyRises
<1>6. ASSUME NEW u \in Turns \ {t}
      PROVE  TurnFits(u)' /\ EventsFit(u)' /\ Rising(turn'[u].ring)
  <2>1. TurnFits(u) /\ EventsFit(u) /\ Rising(turn[u].ring) /\ turn'[u] = turn[u]
    BY <1>1 DEF StreamInv
  <2>2. TurnFits(u)'
    BY <1>1, <2>1, TurnStays
  <2>3. EventsFit(u)'
    BY <1>3, <2>1, EventsSame
  <2>4. QED
    BY <2>1, <2>2, <2>3
<1>7. PageFits(c)' /\ Rising(client'[c].queue)
  BY <1>1, EmptyRises DEF PageFits, Following
<1>8. ASSUME NEW d \in Clients \ {c}
      PROVE  PageFits(d)' /\ Rising(client'[d].queue)
  <2>1. PageFits(d) /\ Rising(client[d].queue) /\ client'[d] = client[d] /\ anchor'[d] = anchor[d]
    BY <1>1 DEF StreamInv
  <2>2. \A u \in Turns : turn'[u].ix = turn[u].ix /\ turn[u].ix \in Nat
                         /\ turn'[u].terminal = turn[u].terminal
    BY <1>1 DEF TypeInv, TurnRecord
  <2>3. QED
    BY <1>1, <2>1, <2>2, PageStays
<1>9. QED
  BY <1>4, <1>5, <1>6, <1>7, <1>8 DEF StreamInv

LEMMA StreamAside ==
  ASSUME TypeInv, StreamInv, Aside
  PROVE  StreamInv'
<1>1. /\ UNCHANGED <<turn, client, anchor>> /\ logged' \in Nat /\ logged <= logged'
      /\ happened \subseteq happened' /\ current' \in {0, current}
  BY DEF Aside
<1>2. 0 \notin Turns
  BY LiveTurnsAssumption
<1>3. \A u \in Turns : Held(u)' \subseteq Held(u)
  BY <1>1, HeldGoes
<1>4. ASSUME NEW u \in Turns
      PROVE  TurnFits(u)' /\ EventsFit(u)' /\ Rising(turn'[u].ring)
  <2>1. TurnFits(u) /\ EventsFit(u) /\ Rising(turn[u].ring) /\ turn'[u] = turn[u]
    BY <1>1 DEF StreamInv
  <2>2. TurnFits(u)'
    BY <1>1, <1>2, <2>1, TurnStays
  <2>3. EventsFit(u)'
    BY <1>3, <2>1, EventsSame
  <2>4. QED
    BY <2>1, <2>2, <2>3
<1>5. ASSUME NEW d \in Clients
      PROVE  PageFits(d)' /\ Rising(client'[d].queue)
  <2>1. PageFits(d) /\ Rising(client[d].queue) /\ client'[d] = client[d] /\ anchor'[d] = anchor[d]
    BY <1>1 DEF StreamInv
  <2>2. \A u \in Turns : turn'[u] = turn[u] /\ turn[u].ix \in Nat
    BY <1>1 DEF TypeInv, TurnRecord
  <2>3. QED
    BY <2>1, <2>2, PageStays
<1>6. QED
  BY <1>4, <1>5 DEF StreamInv

\* What a page's step leaves of its queue was there before.
LEMMA PagingHolds ==
  ASSUME TypeInv, NEW c \in Clients, Paging(c)
  PROVE  /\ \/ client'[c].queue = <<>>
            \/ client'[c].on = client[c].on /\ client'[c].queue = client[c].queue
            \/ client'[c].on = client[c].on /\ client[c].queue # <<>>
               /\ client'[c].queue = Tail(client[c].queue)
         /\ \A u \in Turns : Held(u)' \subseteq Held(u)
<1>1. \/ client'[c].queue = <<>>
      \/ client'[c].on = client[c].on /\ client'[c].queue = client[c].queue
      \/ client'[c].on = client[c].on /\ client[c].queue # <<>>
         /\ client'[c].queue = Tail(client[c].queue)
  BY DEF Paging, PageDone, Reconnected, Subscribed, WasReplayed, WentLive, WasOver, WasSkipped,
         WasReceived, WasDropped
<1>2. client[c].queue \in Seq(Events)
  BY DEF TypeInv, PageRecord
<1>3. client[c].queue # <<>> => ToSet(Tail(client[c].queue)) \subseteq ToSet(client[c].queue)
  <2> SUFFICES ASSUME client[c].queue # <<>>
               PROVE  ToSet(Tail(client[c].queue)) \subseteq ToSet(client[c].queue)
    OBVIOUS
  <2>1. ToSet(client[c].queue) = ToSet(Tail(client[c].queue)) \cup {Head(client[c].queue)}
    BY <1>2, TailDoes
  <2>2. QED
    BY <2>1
<1>4. ASSUME NEW d \in Clients
      PROVE  \/ client'[d].queue = <<>>
             \/ client'[d].on = client[d].on /\ ToSet(client'[d].queue) \subseteq ToSet(client[d].queue)
  <2>1. CASE d = c
    BY <1>1, <1>3, <2>1
  <2>2. CASE d # c
    BY <2>2 DEF Paging, OnlyPage
  <2>3. QED
    BY <2>1, <2>2
<1>5. turn' = turn
  BY DEF Paging, OnlyPage
<1>6. \A u \in Turns : Held(u)' \subseteq Held(u)
  BY <1>4, <1>5, HeldGoes
<1>7. QED
  BY <1>1, <1>6

\* The cut is no later than the turn is.
LEMMA CutFits ==
  ASSUME TypeInv, StreamInv, NEW t \in Turns, NEW after \in Nat
  PROVE  Cutoff(turn[t].ring, after) \in Nat /\ Cutoff(turn[t].ring, after) <= turn[t].ix
<1> DEFINE ring == turn[t].ring
           k == Cut(ring, after)
<1>1. ring \in Seq(Events) /\ turn[t].ix \in Nat
  BY DEF TypeInv, TurnRecord
<1>2. /\ k \in 0 .. Len(ring) /\ Cutoff(ring, after) \in Nat
      /\ k = 0 => Cutoff(ring, after) = 0
      /\ k # 0 => Cutoff(ring, after) = ring[k].ix
  BY <1>1, ReplayedIs
<1>3. k # 0 => ring[k] \in ToSet(ring)
  <2>1. k # 0 => k \in DOMAIN ring
    BY <1>1, <1>2
  <2> HIDE DEF k, ring
  <2>2. QED
    BY <2>1 DEF ToSet
<1>4. EventsFit(t)
  BY DEF StreamInv
<1>5. \A d \in ToSet(ring) : d \in Held(t) /\ d # End
  BY <1>4, HeldEvents DEF EventsFit
<1>6. \A d \in ToSet(ring) : d.ix <= turn[t].ix
  BY <1>4, <1>5, HeldFits
<1> HIDE DEF k, ring
<1>7. QED
  BY <1>1, <1>2, <1>3, <1>6 DEF ring

LEMMA StreamPaging ==
  ASSUME TypeInv, StreamInv, NEW c \in Clients, Paging(c)
  PROVE  StreamInv'
<1>1. /\ turn' = turn /\ current' = current /\ logged' = logged /\ happened \subseteq happened'
      /\ \A d \in Clients \ {c} : client'[d] = client[d] /\ anchor'[d] = anchor[d]
      /\ logged \in Nat /\ anchor[c] \in Nat /\ PageDone(c)
  BY DEF Paging, OnlyPage, TypeInv
<1>2. /\ client[c].queue \in Seq(Events) /\ client[c].cutoff \in Nat /\ client[c].after \in Nat
      /\ \A u \in Turns : turn[u].ix \in Nat
      /\ PageFits(c) /\ Rising(client[c].queue)
  BY DEF TypeInv, PageRecord, TurnRecord, StreamInv
<1>3. \A u \in Turns : Held(u)' \subseteq Held(u)
  BY PagingHolds
<1>4. client'[c].on \in {0, client[c].on} \/ (client'[c].on = current /\ current \in Turns)
  BY <1>1 DEF PageDone, Reconnected, Subscribed, WasReplayed, WentLive, WasOver, WasSkipped,
              WasReceived, WasDropped
<1>5. 0 \notin Turns
  BY LiveTurnsAssumption
<1>6. ASSUME NEW u \in Turns
      PROVE  TurnFits(u)' /\ EventsFit(u)' /\ Rising(turn'[u].ring)
  <2>1. TurnFits(u) /\ EventsFit(u) /\ Rising(turn[u].ring) /\ turn'[u] = turn[u]
    BY <1>1 DEF StreamInv
  <2>2. (\E d \in Clients : client'[d].on = u) => current = u \/ \E d \in Clients : client[d].on = u
    BY <1>1, <1>4, <1>5
  <2>3. TurnFits(u)'
    BY <1>1, <2>1, <2>2, TurnStays
  <2>4. EventsFit(u)'
    BY <1>3, <2>1, EventsSame
  <2>5. QED
    BY <2>1, <2>3, <2>4
<1>7. ASSUME NEW d \in Clients \ {c}
      PROVE  PageFits(d)' /\ Rising(client'[d].queue)
  <2>1. PageFits(d) /\ Rising(client[d].queue) /\ client'[d] = client[d] /\ anchor'[d] = anchor[d]
    BY <1>1 DEF StreamInv
  <2>2. QED
    BY <1>1, <1>2, <2>1, PageStays
<1>8. Rising(client'[c].queue)
  <2>1. client[c].queue # <<>> => Rising(Tail(client[c].queue))
    BY <1>2, TailDoes
  <2>2. QED
    BY <1>2, <2>1, PagingHolds, EmptyRises
<1>9. PageFits(c)'
  <2> DEFINE t == client[c].on
  <2>1. CASE Reconnected(c)
    <3>1. TurnFits(current)
      BY <2>1 DEF Reconnected, StreamInv
    <3>2. turn[current].pc \notin {"new", "flagged"}
      BY <3>1 DEF TurnFits
    <3>3. client'[c].after <= anchor[c]
      BY <1>1, <2>1 DEF Reconnected
    <3>4. QED
      BY <1>1, <2>1, <3>2, <3>3 DEF PageFits, Following, Reconnected
  <2>2. CASE Subscribed(c)
    BY <1>1, <1>2, <2>2 DEF PageFits, Following, Subscribed
  <2>3. CASE WasReplayed(c)
    <3> DEFINE es == ToSet(Replayed(turn[t].ring, client[c].after))
    <3>1. /\ client[c].pc = "replay" /\ client'[c].pc = "check" /\ client'[c].on = t
          /\ client'[c].cutoff = Cutoff(turn[t].ring, client[c].after)
          /\ \/ client'[c].told = client[c].told /\ \A e \in es : ~IsTerminal(e)
             \/ \E e \in es : IsTerminal(e) /\ client'[c].told = e.what
      BY <2>3 DEF WasReplayed
    <3>2. t \in Turns /\ turn[t].pc \notin {"new", "flagged"}
          /\ (client[c].told # "none" => client[c].told = turn[t].terminal)
      BY <1>2, <3>1 DEF PageFits, Following
    <3>3. client'[c].cutoff <= turn[t].ix
      BY <1>2, <3>1, <3>2, CutFits
    <3>4. es \subseteq ToSet(turn[t].ring)
      <4>1. turn[t].ring \in Seq(Events)
        BY <3>2 DEF TypeInv, TurnRecord
      <4> HIDE DEF t
      <4>2. es = {turn[t].ring[i] : i \in {j \in DOMAIN turn[t].ring : j > Cut(turn[t].ring, client[c].after)}}
        BY <1>2, <4>1, ReplayedIs
      <4>3. QED
        BY <4>2 DEF ToSet
    <3>5. \A e \in ToSet(turn[t].ring) : IsTerminal(e) => e.what = turn[t].terminal
      <4>1. EventsFit(t)
        BY <3>2 DEF StreamInv
      <4>2. \A e \in ToSet(turn[t].ring) : EventFits(t, e)
        BY <3>2, <4>1, HeldEvents DEF EventsFit
      <4>3. QED
        BY <4>2 DEF EventFits
    <3> HIDE DEF es
    <3>6. client'[c].told # "none" => client'[c].told = turn[t].terminal
      BY <3>1, <3>2, <3>4, <3>5
    <3>7. QED
      BY <1>1, <3>1, <3>2, <3>3, <3>6 DEF PageFits, Following
  <2>4. CASE WentLive(c)
    BY <1>1, <1>2, <2>4 DEF PageFits, Following, WentLive
  <2>5. CASE WasOver(c)
    <3>1. t \in Turns
      BY <1>2, <2>5 DEF WasOver, PageFits
    <3>2. turn[t].pc = "finished"
      <4>1. CASE client[c].pc = "live" /\ End \in ToSet(client[c].queue)
        <5>1. End \in Held(t) /\ EventsFit(t)
          BY <3>1, <4>1, HeldEvents DEF StreamInv
        <5>2. QED
          BY <3>1, <5>1, HeldFits
      <4>2. QED
        BY <2>5, <4>1 DEF WasOver
    <3>3. turn[t].terminal # "none"
      BY <3>1, <3>2 DEF StreamInv, TurnFits
    <3>4. client'[c].told = turn[t].terminal
      BY <1>2, <2>5, <3>3 DEF WasOver, PageFits
    <3>5. QED
      BY <1>1, <2>5, <3>1, <3>4 DEF WasOver, PageFits, Following
  <2>6. CASE WasSkipped(c)
    BY <1>1, <1>2, <2>6 DEF PageFits, Following, WasSkipped
  <2>7. CASE WasReceived(c)
    <3> DEFINE e == Head(client[c].queue)
    <3>1. t \in Turns /\ client[c].pc = "live" /\ client[c].queue # <<>> /\ e # End /\ client'[c].on = t
      BY <1>2, <2>7 DEF WasReceived, PageFits
    <3>2. CASE IsTerminal(e)
      <4>1. client'[c].pc = "away" /\ client'[c].queue = <<>> /\ client'[c].told = e.what
        BY <2>7, <3>2 DEF WasReceived
      <4>2. e \in Held(t) /\ EventsFit(t)
        <5>1. e \in ToSet(client[c].queue)
          BY <1>2, <3>1, TailDoes
        <5>2. QED
          BY <3>1, <5>1, HeldEvents DEF StreamInv
      <4>3. e.what = turn[t].terminal
        BY <3>1, <3>2, <4>2, HeldFits DEF EventFits
      <4>4. QED
        BY <1>1, <3>1, <4>1, <4>3 DEF PageFits, Following
    <3>3. CASE ~IsTerminal(e)
      BY <1>1, <1>2, <2>7, <3>1, <3>3 DEF PageFits, Following, WasReceived
    <3>4. QED
      BY <3>2, <3>3
  <2>8. CASE WasDropped(c)
    BY <1>1, <2>8 DEF PageFits, Following, WasDropped
  <2>9. QED
    BY <1>1, <2>1, <2>2, <2>3, <2>4, <2>5, <2>6, <2>7, <2>8 DEF PageDone
<1>10. QED
  BY <1>6, <1>7, <1>8, <1>9 DEF StreamInv

LEMMA StreamStep ==
  ASSUME TypeInv, StreamInv, Shaped
  PROVE  StreamInv'
BY StreamMoving, StreamRegistered, StreamFinished, StreamEmitting, StreamStarted, StreamPaging,
   StreamAside DEF Shaped

-----------------------------------------------------------------------------
(* Nothing falls between the replay and the live stream                    *)

\* An event that is offered, or was waiting, waits or is recorded as lost.
LEMMA OfferedOrLost ==
  ASSUME TypeInv, NEW t \in Turns, NEW e \in Events, FanOut(t, e), NEW c \in Clients, Follows(c, t)
  PROVE  /\ client[c].got \subseteq client'[c].got /\ seen[c] \subseteq seen'[c]
         /\ \A d \in ToSet(client[c].queue) \cup {e} :
              /\ d.ix \in client'[c].got \cup Positions(ToSet(client'[c].queue))
              /\ d.seq # 0 => <<t, d.ix>> \in seen'[c] \/ d.ix \in Positions(ToSet(client'[c].queue))
<1> DEFINE q == client[c].queue
<1>1. /\ client'[c].queue = Offer(q, e)
      /\ client'[c].got = client[c].got \cup Positions(Lost(q, e))
      /\ seen'[c] = seen[c] \cup Numbered(t, Lost(q, e))
  BY FanOutDoes
<1>2. q \in Seq(Events)
  BY DEF TypeInv, PageRecord
<1> HIDE DEF q
<1>3. /\ Lost(q, e) \in SUBSET Events
      /\ \A d \in ToSet(q) \cup {e} : d \in ToSet(Offer(q, e)) \/ d \in Lost(q, e)
  BY <1>2, LostIs
<1>4. /\ \A d \in Lost(q, e) : d.ix \in Positions(Lost(q, e))
      /\ \A d \in Lost(q, e) : d.seq # 0 => <<t, d.ix>> \in Numbered(t, Lost(q, e))
  BY <1>3, SetsOfEvents
<1>5. \A d \in ToSet(Offer(q, e)) : d.ix \in Positions(ToSet(Offer(q, e)))
  BY DEF Positions
<1>6. ASSUME NEW d \in ToSet(q) \cup {e}
      PROVE  /\ d.ix \in client'[c].got \cup Positions(ToSet(client'[c].queue))
             /\ d.seq # 0 => <<t, d.ix>> \in seen'[c] \/ d.ix \in Positions(ToSet(client'[c].queue))
  <2>1. d \in ToSet(Offer(q, e)) \/ d \in Lost(q, e)
    BY <1>3
  <2>2. CASE d \in ToSet(Offer(q, e))
    BY <1>1, <1>5, <2>2
  <2>3. CASE d \in Lost(q, e)
    BY <1>1, <1>4, <2>3
  <2>4. QED
    BY <2>1, <2>2, <2>3
<1>7. QED
  BY <1>1, <1>6 DEF q

\* Same ring, same connection.
LEMMA DeliveredSame ==
  ASSUME NEW c \in Clients, Delivered(c), client'[c] = client[c],
         client[c].pc \in {"check", "live"} => turn'[client[c].on].ring = turn[client[c].on].ring
  PROVE  Delivered(c)'
BY DEF Delivered

LEMMA DeliveredOffered ==
  ASSUME TypeInv, StreamInv, DeliveredInv, NEW t \in Turns, NEW e \in Events, FanOut(t, e),
         turn'[t].ring = turn[t].ring \/ turn'[t].ring = Keep(turn[t].ring, e),
         \A u \in Turns \ {t} : turn'[u] = turn[u]
  PROVE  DeliveredInv'
<1>1. ToSet(turn'[t].ring) \subseteq ToSet(turn[t].ring) \cup {e}
  BY HeldOffered
<1>2. ASSUME NEW c \in Clients
      PROVE  Delivered(c)'
  <2>1. /\ client'[c].pc = client[c].pc /\ client'[c].on = client[c].on
        /\ client'[c].cutoff = client[c].cutoff
        /\ ~Follows(c, t) => client'[c] = client[c]
    BY FanOutDoes
  <2>2. CASE Follows(c, t)
    <3> SUFFICES ASSUME client[c].pc \in {"check", "live"}, NEW d \in ToSet(turn'[t].ring),
                        d.ix > client[c].cutoff
                 PROVE  d.ix \in client'[c].got \cup Positions(ToSet(client'[c].queue))
      BY <2>1, <2>2 DEF Delivered, Follows
    <3>1. /\ client[c].got \subseteq client'[c].got
          /\ \A f \in ToSet(client[c].queue) \cup {e} :
               f.ix \in client'[c].got \cup Positions(ToSet(client'[c].queue))
      BY <2>2, OfferedOrLost
    <3>2. CASE d = e
      BY <3>1, <3>2
    <3>3. CASE d \in ToSet(turn[t].ring)
      <4>1. d.ix \in client[c].got \cup Positions(ToSet(client[c].queue))
        BY <2>2, <3>3 DEF DeliveredInv, Delivered, Follows
      <4>2. CASE d.ix \in client[c].got
        BY <3>1, <4>2
      <4>3. CASE d.ix \in Positions(ToSet(client[c].queue))
        <5>1. PICK f \in ToSet(client[c].queue) : f.ix = d.ix
          BY <4>3 DEF Positions
        <5>2. QED
          BY <3>1, <5>1
      <4>4. QED
        BY <4>1, <4>2, <4>3
    <3>4. QED
      BY <1>1, <3>2, <3>3
  <2>3. CASE ~Follows(c, t)
    <3>1. client[c].pc \in {"check", "live"} => client[c].on \in Turns \ {t}
      BY <2>3 DEF Follows, StreamInv, PageFits
    <3>2. Delivered(c) /\ client'[c] = client[c]
      BY <2>1, <2>3 DEF DeliveredInv
    <3>3. QED
      BY <3>1, <3>2, DeliveredSame
  <2>4. QED
    BY <2>2, <2>3
<1>3. QED
  BY <1>2 DEF DeliveredInv

\* What follows the cut in the ring, and what does not.
LEMMA CutSplits ==
  ASSUME TypeInv, StreamInv, NEW t \in Turns, NEW after \in Nat, NEW e \in ToSet(turn[t].ring)
  PROVE  /\ e \in ToSet(Replayed(turn[t].ring, after)) \/ e.ix <= Cutoff(turn[t].ring, after)
         /\ e \in ToSet(Replayed(turn[t].ring, after)) \/ e.seq = 0 \/ e.seq <= after
<1> DEFINE ring == turn[t].ring
           k == Cut(ring, after)
           es == ToSet(Replayed(ring, after))
<1>1. ring \in Seq(Events) /\ Rising(ring) /\ EventsFit(t)
  BY DEF TypeInv, TurnRecord, StreamInv
<1>2. /\ k \in 0 .. Len(ring)
      /\ es = {ring[i] : i \in {j \in DOMAIN ring : j > k}}
      /\ k # 0 => Cutoff(ring, after) = ring[k].ix /\ ring[k].seq # 0 /\ ring[k].seq <= after
  BY <1>1, ReplayedIs
<1>3. PICK i \in DOMAIN ring : e = ring[i]
  BY DEF ToSet
<1>4. ring[i] \in Held(t) /\ ring[i] # End /\ ring[i].ix \in Nat /\ ring[i].seq \in Nat
  <2>1. e \in Held(t)
    BY HeldEvents
  <2>2. e.ix \in Nat /\ e.seq \in Nat /\ e # End
    BY <1>1, <2>1, HeldEvents DEF EventsFit
  <2>3. QED
    BY <1>3, <2>1, <2>2
<1>5. k # 0 => k \in DOMAIN ring /\ ring[k] \in Held(t) /\ ring[k].ix \in Nat /\ ring[k].seq \in Nat
  <2>1. k # 0 => k \in DOMAIN ring
    BY <1>1, <1>2
  <2> HIDE DEF k
  <2>2. k # 0 => ring[k] \in ToSet(ring)
    BY <2>1 DEF ToSet
  <2>3. k # 0 => ring[k] \in Held(t)
    BY <2>2, HeldEvents
  <2>4. QED
    BY <2>1, <2>3, HeldEvents
<1>6. i \in 1 .. Len(ring)
  BY <1>1, <1>3
<1>7. CASE i > k
  <2>1. ring[i] \in es
    BY <1>2, <1>3, <1>7
  <2>2. QED
    BY <1>3, <2>1
<1>8. CASE ~(i > k)
  <2>1. k # 0 /\ k \in 1 .. Len(ring) /\ (i = k \/ i < k)
    BY <1>2, <1>6, <1>8
  <2>2. CASE i = k
    BY <1>2, <1>3, <1>5, <2>1, <2>2
  <2>3. CASE i < k
    <3> HIDE DEF k, es, ring
    <3>1. ring[k] # End
      <4>1. ring[k] \in ToSet(ring)
        BY <1>5, <2>1 DEF ToSet
      <4>2. QED
        BY <1>1, <4>1 DEF EventsFit, ring
    <3>2. ring[i].ix < ring[k].ix
      BY <1>1, <1>3, <1>5, <2>1, <2>3, <3>1 DEF Rising
    <3>3. Agree(ring[i], ring[k])
      BY <1>1, <1>4, <1>5, <2>1 DEF EventsFit
    <3>4. ring[i].seq # 0 => ring[i].seq < ring[k].seq
      BY <1>2, <2>1, <3>2, <3>3 DEF Agree
    <3>5. e.ix <= Cutoff(ring, after)
      BY <1>2, <1>3, <1>4, <1>5, <2>1, <3>2
    <3>6. e.seq = 0 \/ e.seq <= after
      BY <1>2, <1>3, <1>4, <1>5, <2>1, <3>4
    <3>7. QED
      BY <3>5, <3>6 DEF ring
  <2>4. QED
    BY <2>1, <2>2, <2>3
<1>9. QED
  BY <1>7, <1>8

LEMMA DeliveredPaging ==
  ASSUME TypeInv, StreamInv, DeliveredInv, NEW c \in Clients, Paging(c)
  PROVE  DeliveredInv'
<1> DEFINE t == client[c].on
           ring == turn[t].ring
<1>1. /\ turn' = turn /\ PageDone(c) /\ \A d \in Clients \ {c} : client'[d] = client[d]
      /\ PageFits(c) /\ Delivered(c)
      /\ client[c].after \in Nat /\ client[c].cutoff \in Nat /\ client[c].queue \in Seq(Events)
  BY DEF Paging, OnlyPage, StreamInv, DeliveredInv, TypeInv, PageRecord
<1>2. ASSUME NEW d \in Clients \ {c}
      PROVE  Delivered(d)'
  BY <1>1, DeliveredSame DEF DeliveredInv
<1>3. ASSUME WasReplayed(c)
      PROVE  Delivered(c)'
  <2> DEFINE es == ToSet(Replayed(ring, client[c].after))
  <2>1. /\ client'[c].on = t /\ client'[c].cutoff = Cutoff(ring, client[c].after)
        /\ client'[c].got = client[c].got \cup Positions(es) /\ t \in Turns
    BY <1>1, <1>3 DEF WasReplayed, PageFits
  <2>2. ASSUME NEW e \in ToSet(ring), e.ix > client'[c].cutoff
        PROVE  e.ix \in client'[c].got
    <3>1. e \in es \/ e.ix <= Cutoff(ring, client[c].after)
      BY <1>1, <2>1, CutSplits
    <3>2. e.ix \in Nat /\ Cutoff(ring, client[c].after) \in Nat
      BY <1>1, <2>1, HeldEvents, CutFits
    <3> HIDE DEF es, ring
    <3>3. e \in es
      BY <2>1, <2>2, <3>1, <3>2
    <3>4. QED
      BY <2>1, <3>3 DEF Positions
  <2>3. QED
    BY <1>1, <2>1, <2>2 DEF Delivered
<1>4. ASSUME WentLive(c)
      PROVE  Delivered(c)'
  BY <1>1, <1>4 DEF WentLive, Delivered
<1>5. ASSUME WasSkipped(c) \/ (WasReceived(c) /\ client'[c].pc = "live")
      PROVE  Delivered(c)'
  <2> DEFINE q == client[c].queue
             h == Head(q)
  <2>1. /\ client[c].pc = "live" /\ q # <<>> /\ client'[c].queue = Tail(q) /\ client'[c].on = t
        /\ client'[c].cutoff = client[c].cutoff
        /\ h.ix <= client[c].cutoff \/ h.ix \in client'[c].got
        /\ client[c].got \subseteq client'[c].got
    BY <1>5 DEF WasSkipped, WasReceived, Positions
  <2>2. ToSet(q) = ToSet(Tail(q)) \cup {h} /\ h \in Events
    BY <1>1, <2>1, TailDoes
  <2>3. h.ix \in Nat
    BY <2>2 DEF Events
  <2> HIDE DEF h, q
  <2>4. \A x \in Positions(ToSet(q)) : x = h.ix \/ x \in Positions(ToSet(Tail(q)))
    BY <2>2 DEF Positions
  <2>5. ASSUME NEW e \in ToSet(ring), e.ix > client'[c].cutoff
        PROVE  e.ix \in client'[c].got \cup Positions(ToSet(client'[c].queue))
    <3>1. t \in Turns
      BY <1>1, <2>1 DEF PageFits
    <3>2. e.ix \in Nat
      BY <3>1, HeldEvents
    <3>3. e.ix \in client[c].got \cup Positions(ToSet(q))
      BY <1>1, <2>1, <2>5 DEF Delivered, q
    <3>4. CASE e.ix = h.ix
      BY <1>1, <2>1, <2>3, <2>5, <3>4
    <3>5. CASE e.ix # h.ix
      BY <2>1, <2>4, <3>3, <3>5
    <3>6. QED
      BY <3>4, <3>5
  <2>6. QED
    BY <1>1, <2>1, <2>5 DEF Delivered
<1>6. ASSUME client'[c].pc \notin {"check", "live"}
      PROVE  Delivered(c)'
  BY <1>6 DEF Delivered
<1>7. Delivered(c)'
  BY <1>1, <1>3, <1>4, <1>5, <1>6 DEF PageDone, Reconnected, Subscribed, WasOver, WasReceived, WasDropped
<1>8. QED
  BY <1>2, <1>7 DEF DeliveredInv

LEMMA DeliveredStep ==
  ASSUME TypeInv, StreamInv, DeliveredInv, Shaped
  PROVE  DeliveredInv'
<1>1. ASSUME NEW c \in Clients, client[c].pc \in {"check", "live"}
      PROVE  client[c].on \in Turns /\ turn[client[c].on].pc \notin {"new", "flagged"}
  BY <1>1 DEF StreamInv, PageFits, Following
<1>2. ASSUME NEW t \in Turns, Moving(t)
      PROVE  DeliveredInv'
  <2>1. client' = client /\ \A u \in Turns : turn'[u].ring = turn[u].ring
    BY <1>2 DEF Moving, MovesOnly
  <2>2. QED
    BY <1>1, <2>1, DeliveredSame DEF DeliveredInv
<1>3. ASSUME NEW t \in Turns, Registered(t)
      PROVE  DeliveredInv'
  <2>1. ASSUME NEW c \in Clients, client'[c].pc \in {"check", "live"}
        PROVE  client[c].pc = client'[c].pc /\ turn'[client[c].on].ring = turn[client[c].on].ring
    <3>1. client[c].pc = client'[c].pc
      BY <1>3, <2>1 DEF Registered
    <3>2. client[c].on \in Turns \ {t}
      BY <1>1, <1>3, <2>1, <3>1 DEF Registered
    <3>3. QED
      BY <1>3, <3>1, <3>2 DEF Registered, Unreferenced
  <2>2. QED
    BY <1>3, <2>1 DEF Registered, DeliveredInv, Delivered
<1>4. ASSUME NEW t \in Turns, Finished(t)
      PROVE  DeliveredInv'
  BY <1>4, EndIsEvent, DeliveredOffered DEF Finished
<1>5. ASSUME NEW t \in Turns, NEW e \in Events, Emitting(t, e)
      PROVE  DeliveredInv'
  BY <1>5, DeliveredOffered DEF Emitting, Emitted
<1>6. ASSUME NEW t \in Turns, NEW c \in Clients, Started(c, t)
      PROVE  DeliveredInv'
  <2>1. \A u \in Turns : turn'[u].ring = turn[u].ring
    BY <1>6 DEF Started
  <2>2. \A d \in Clients : client'[d].pc \notin {"check", "live"} \/ client'[d] = client[d]
    BY <1>6 DEF Started
  <2>3. QED
    BY <1>1, <2>1, <2>2 DEF DeliveredInv, Delivered
<1>7. CASE Aside
  BY <1>7 DEF Aside, DeliveredInv, Delivered
<1>8. QED
  BY <1>2, <1>3, <1>4, <1>5, <1>6, <1>7, DeliveredPaging DEF Shaped

LEMMA AloneStep ==
  ASSUME TypeInv, AloneInv, Shaped
  PROVE  AloneInv'
<1> DEFINE Idle == {"new", "finished"}
<1> SUFFICES ASSUME alone', NEW t \in Turns, NEW u \in Turns, t # u
             PROVE  turn'[t].pc \in Idle \/ turn'[u].pc \in Idle
  BY DEF AloneInv
<1>1. alone => turn[t].pc \in Idle \/ turn[u].pc \in Idle
  BY DEF AloneInv
<1>2. CASE \E v \in Turns : Moving(v)
  <2>1. PICK v \in Turns : Moving(v)
    BY <1>2
  <2>2. /\ alone' = alone /\ \A w \in Turns \ {v} : turn'[w] = turn[w]
        /\ turn[v].pc \notin Idle
    BY <2>1 DEF Moving, MovesOnly, Moved, Looping
  <2>3. QED
    BY <1>1, <2>2
<1>3. CASE \E v \in Turns : Registered(v)
  <2>1. PICK v \in Turns : Registered(v)
    BY <1>3
  <2>2. alone' = alone /\ turn[v].pc = "flagged"
    BY <2>1 DEF Registered
  <2>3. ASSUME NEW w \in Turns, turn[w].pc \in Idle
        PROVE  turn'[w].pc \in Idle
    <3>1. w # v
      BY <2>2, <2>3
    <3>2. turn'[w] = turn[w] \/ turn'[w] = [NoTurn EXCEPT !.pc = "finished"]
      BY <2>1, <3>1 DEF Registered
    <3>3. QED
      BY <2>3, <3>2 DEF NoTurn
  <2>4. QED
    BY <1>1, <2>2, <2>3
<1>4. CASE \E v \in Turns : Finished(v)
  BY <1>1, <1>4 DEF Finished
<1>5. CASE \E v \in Turns : \E e \in Events : Emitting(v, e)
  <2>1. PICK v \in Turns, e \in Events : Emitting(v, e)
    BY <1>5
  <2>2. /\ alone' = alone /\ \A w \in Turns \ {v} : turn'[w] = turn[w]
        /\ turn[v].pc \notin Idle
    BY <2>1 DEF Emitting, Emitted
  <2>3. QED
    BY <1>1, <2>2
<1>6. CASE \E v \in Turns : \E c \in Clients : Started(c, v)
  <2>1. PICK v \in Turns, c \in Clients : Started(c, v)
    BY <1>6
  <2>2. /\ \A w \in Turns \ {v} : turn'[w] = turn[w]
        /\ alone' = (alone /\ \A w \in Turns \ {v} : turn[w].pc \in Idle)
    BY <2>1 DEF Started
  <2>3. \A w \in Turns \ {v} : turn[w].pc \in Idle
    BY <2>2, Zenon
  <2>4. QED
    BY <2>2, <2>3
<1>7. CASE \E c \in Clients : Paging(c)
  BY <1>1, <1>7 DEF Paging, OnlyPage
<1>8. CASE Aside
  BY <1>1, <1>8 DEF Aside
<1>9. QED
  BY <1>2, <1>3, <1>4, <1>5, <1>6, <1>7, <1>8 DEF Shaped

-----------------------------------------------------------------------------
(* The numbers of turns that wait for each other                           *)

LEMMA OrderlyStays ==
  ASSUME Shaped, Orderly'
  PROVE  Orderly
<1>1. alone' => alone
  <2>1. CASE \E t \in Turns : \E c \in Clients : Started(c, t)
    BY <2>1, Zenon DEF Started
  <2>2. CASE alone' = alone
    BY <2>2
  <2>3. QED
    BY <2>1, <2>2 DEF Shaped, Moving, Registered, Finished, Emitting, Paging, OnlyPage, Aside
<1>2. happened \subseteq happened'
  BY DEF Shaped, Moving, Registered, Finished, Emitting, Started, Paging, OnlyPage, Aside
<1>3. QED
  BY <1>1, <1>2 DEF Orderly

\* Only what is published or ends a stream is new in what is held.
LEMMA HeldStep ==
  ASSUME TypeInv, Shaped
  PROVE  \/ \A u \in Turns : Held(u)' \subseteq Held(u)
         \/ \E t \in Turns : /\ Finished(t) /\ Held(t)' \subseteq Held(t) \cup {End}
                             /\ \A u \in Turns \ {t} : Held(u)' \subseteq Held(u)
         \/ \E t \in Turns : \E e \in Events :
              /\ Emitting(t, e) /\ Held(t)' \subseteq Held(t) \cup {e}
              /\ \A u \in Turns \ {t} : Held(u)' \subseteq Held(u)
<1>1. ASSUME NEW t \in Turns, Moving(t)
      PROVE  \A u \in Turns : Held(u)' \subseteq Held(u)
  <2>1. client' = client /\ \A u \in Turns : turn'[u].ring = turn[u].ring
    BY <1>1 DEF Moving, MovesOnly
  <2>2. QED
    BY <2>1, HeldGoes
<1>2. ASSUME NEW t \in Turns, Registered(t)
      PROVE  \A u \in Turns : Held(u)' \subseteq Held(u)
  <2>1. \A c \in Clients : client'[c].on = client[c].on /\ client'[c].queue = client[c].queue
    BY <1>2 DEF Registered
  <2>2. ToSet(<<>>) = {}
    BY DEF ToSet
  <2>3. ASSUME NEW u \in Turns
        PROVE  ToSet(turn'[u].ring) \subseteq ToSet(turn[u].ring)
    <3>1. turn'[u].ring = turn[u].ring \/ turn'[u] = [NoTurn EXCEPT !.pc = "finished"]
      BY <1>2 DEF Registered
    <3>2. turn'[u].ring = turn[u].ring \/ turn'[u].ring = <<>>
      BY <3>1 DEF NoTurn
    <3>3. QED
      BY <2>2, <3>2
  <2>4. QED
    BY <2>1, <2>3, HeldGoes
<1>3. ASSUME NEW t \in Turns, NEW c \in Clients, Started(c, t)
      PROVE  \A u \in Turns : Held(u)' \subseteq Held(u)
  <2>1. /\ \A u \in Turns : turn'[u].ring = turn[u].ring
        /\ \A d \in Clients : client'[d].queue = <<>> \/ client'[d] = client[d]
    BY <1>3 DEF Started
  <2>2. QED
    BY <2>1, HeldGoes
<1>4. CASE Aside
  <2>1. turn' = turn /\ client' = client
    BY <1>4 DEF Aside
  <2>2. \A u \in Turns : Held(u)' \subseteq Held(u)
    BY <2>1, HeldGoes
  <2>3. QED
    BY <2>2
<1>5. ASSUME NEW t \in Turns, Finished(t)
      PROVE  Held(t)' \subseteq Held(t) \cup {End} /\ \A u \in Turns \ {t} : Held(u)' \subseteq Held(u)
  BY <1>5, EndIsEvent, HeldOffered DEF Finished
<1>6. ASSUME NEW t \in Turns, NEW e \in Events, Emitting(t, e)
      PROVE  Held(t)' \subseteq Held(t) \cup {e} /\ \A u \in Turns \ {t} : Held(u)' \subseteq Held(u)
  BY <1>6, HeldOffered DEF Emitting, Emitted
<1>7. QED
  BY <1>1, <1>2, <1>3, <1>4, <1>5, <1>6, PagingHolds DEF Shaped

\* While t is under way no other turn is.
LEMMA OnlyOne ==
  ASSUME AloneInv, alone, NEW t \in Turns, turn[t].pc \notin {"new", "finished"}
  PROVE  \A u \in Turns \ {t} : turn[u].pc \in {"new", "finished"} /\ ~Busy(u)
BY DEF AloneInv, Busy

\* A turn that is over is in the log with all its numbers.
LEMMA TopLogged ==
  ASSUME TypeInv, NEW t \in Turns, TurnFits(t), "unstored" \notin happened, turn[t].pc = "ended"
  PROVE  Top(t) <= logged
<1>1. turn[t].base \in Nat /\ turn[t].drafts \in Nat /\ logged \in Nat
  BY DEF TypeInv, TurnRecord
<1>2. QED
  BY <1>1 DEF Top, TurnFits

LEMMA BoundedStays ==
  ASSUME TypeInv, StreamInv, AloneInv, Orderly, Orderly', Shaped, NEW x \in Nat, Bounded(x)
  PROVE  Bounded(x)'
<1>1. logged \in Nat /\ alone /\ "unstored" \notin happened
  BY DEF TypeInv, Orderly
<1>2. ASSUME NEW u \in Turns
      PROVE  /\ TurnFits(u) /\ Top(u) \in Nat
             /\ turn'[u] = turn[u] => Top(u)' = Top(u) /\ (Busy(u)' <=> Busy(u))
  <2>1. TurnFits(u)
    BY DEF StreamInv
  <2>2. turn'[u] = turn[u] => Top(u)' = Top(u) /\ (Busy(u)' <=> Busy(u))
    BY DEF Top, Busy
  <2>3. QED
    BY <2>1, <2>2, TopIs
<1>3. ASSUME NEW t \in Turns, Busy(t), Busy(t)', Top(t)' \in Nat, Top(t) <= Top(t)',
             \A u \in Turns \ {t} : turn'[u] = turn[u]
      PROVE  Bounded(x)'
  <2>1. ASSUME NEW u \in Turns, Busy(u)'
        PROVE  x <= Top(u)'
    <3>1. CASE u = t
      <4>1. x <= Top(t)
        BY <1>3 DEF Bounded
      <4>2. QED
        BY <1>2, <1>3, <3>1, <4>1
    <3>2. CASE u # t
      <4>1. Busy(u) /\ Top(u)' = Top(u)
        BY <1>2, <1>3, <2>1, <3>2
      <4>2. QED
        BY <4>1 DEF Bounded
    <3>3. QED
      BY <3>1, <3>2
  <2>2. QED
    BY <1>3, <2>1 DEF Bounded
<1>4. ASSUME logged' \in Nat, logged <= logged', \A u \in Turns : (Busy(u)' <=> Busy(u)) /\ (Busy(u) => Top(u)' = Top(u))
      PROVE  Bounded(x)'
  <2>1. \A u \in Turns : Busy(u)' => x <= Top(u)'
    BY <1>4 DEF Bounded
  <2>2. (\A u \in Turns : ~Busy(u)') => x <= logged'
    <3>1. x <= logged => x <= logged'
      BY <1>1, <1>4
    <3>2. QED
      BY <1>4, <3>1 DEF Bounded
  <2>3. QED
    BY <2>1, <2>2 DEF Bounded
<1>5. ASSUME NEW t \in Turns, Moving(t)
      PROVE  Bounded(x)'
  <2>1. Busy(t) /\ Busy(t)' /\ \A u \in Turns \ {t} : turn'[u] = turn[u]
    BY <1>5 DEF Moving, MovesOnly, Moved, Busy, Looping
  <2>2. QED
    BY <1>2, <1>3, <1>5, <2>1, TopMoves
<1>6. ASSUME NEW t \in Turns, NEW e \in Events, Emitting(t, e)
      PROVE  Bounded(x)'
  <2>1. Busy(t) /\ Busy(t)' /\ \A u \in Turns \ {t} : turn'[u] = turn[u]
    BY <1>6 DEF Emitting, Emitted, Busy, Looping
  <2>2. QED
    BY <1>2, <1>3, <1>6, <2>1, TopEmits
<1>7. ASSUME NEW t \in Turns, Registered(t)
      PROVE  Bounded(x)'
  <2>1. /\ turn[t].pc = "flagged" /\ turn'[t].pc = "registered" /\ turn'[t].base = logged
        /\ turn'[t].outcome = turn[t].outcome /\ logged' = logged
    BY <1>7 DEF Registered, Orderly
  <2>2. \A u \in Turns \ {t} : turn[u].pc \in {"new", "finished"} /\ ~Busy(u)
    BY <1>1, <2>1, OnlyOne
  <2>3. x <= logged
    BY <2>1, <2>2 DEF Bounded, Busy
  <2>4. turn'[t].outcome = "none"
    BY <1>2, <2>1 DEF TurnFits, Quiet
  <2>5. Top(t)' = logged
    BY <2>1, <2>4 DEF Top, Looping
  <2>6. ASSUME NEW u \in Turns \ {t}
        PROVE  ~Busy(u)'
    <3>1. turn'[u] = turn[u] \/ turn'[u] = [NoTurn EXCEPT !.pc = "finished"]
      BY <1>7 DEF Registered
    <3>2. turn'[u].pc \in {"new", "finished"}
      BY <2>2, <3>1 DEF NoTurn
    <3>3. QED
      BY <3>2 DEF Busy
  <2>7. Busy(t)'
    BY <2>1 DEF Busy
  <2>8. QED
    BY <2>3, <2>5, <2>6, <2>7 DEF Bounded
<1>8. ASSUME NEW t \in Turns, Finished(t)
      PROVE  Bounded(x)'
  <2>1. /\ turn[t].pc = "ended" /\ turn'[t].pc = "finished" /\ logged' = logged
        /\ \A u \in Turns \ {t} : turn'[u] = turn[u]
    BY <1>8 DEF Finished
  <2>2. x <= Top(t) /\ Top(t) <= logged /\ Top(t) \in Nat
    BY <1>1, <1>2, <2>1, TopLogged DEF Bounded, Busy
  <2>3. x <= logged'
    BY <1>1, <2>1, <2>2
  <2>4. ASSUME NEW u \in Turns, Busy(u)'
        PROVE  x <= Top(u)'
    <3>1. u # t
      BY <2>1, <2>4 DEF Busy
    <3>2. Busy(u) /\ Top(u)' = Top(u)
      BY <1>2, <2>1, <2>4, <3>1
    <3>3. QED
      BY <3>2 DEF Bounded
  <2>5. QED
    BY <2>3, <2>4 DEF Bounded
<1>9. ASSUME NEW t \in Turns, NEW c \in Clients, Started(c, t)
      PROVE  Bounded(x)'
  <2>1. /\ logged' = logged /\ turn[t].pc = "new" /\ turn'[t].pc = "flagged"
        /\ \A u \in Turns \ {t} : turn'[u] = turn[u]
    BY <1>9 DEF Started
  <2>2. ~Busy(t) /\ ~Busy(t)'
    BY <2>1 DEF Busy
  <2>3. QED
    BY <1>1, <1>2, <1>4, <2>1, <2>2
<1>10. ASSUME turn' = turn, logged' \in Nat, logged <= logged'
       PROVE  Bounded(x)'
  BY <1>2, <1>4, <1>10
<1>11. ASSUME NEW c \in Clients, Paging(c)
       PROVE  Bounded(x)'
  BY <1>1, <1>10, <1>11 DEF Paging, OnlyPage
<1>12. CASE Aside
  BY <1>1, <1>10, <1>12 DEF Aside
<1>13. QED
  BY <1>5, <1>6, <1>7, <1>8, <1>9, <1>11, <1>12 DEF Shaped

LEMMA ReplayedHeld ==
  ASSUME TypeInv, NEW t \in Turns, NEW after \in Nat
  PROVE  ToSet(Replayed(turn[t].ring, after)) \subseteq ToSet(turn[t].ring)
<1> DEFINE ring == turn[t].ring
<1>1. ring \in Seq(Events)
  BY DEF TypeInv, TurnRecord
<1> HIDE DEF ring
<1>2. ToSet(Replayed(ring, after)) = {ring[i] : i \in {j \in DOMAIN ring : j > Cut(ring, after)}}
  BY <1>1, ReplayedIs
<1>3. ToSet(Replayed(ring, after)) \subseteq ToSet(ring)
  BY <1>2 DEF ToSet
<1>4. QED
  BY <1>3 DEF ring

\* An anchor moves to the number of something held of the page's turn.
LEMMA AnchorFrom ==
  ASSUME TypeInv, StreamInv, NEW c \in Clients, Paging(c)
  PROVE  \/ anchor'[c] = anchor[c]
         \/ /\ WasReplayed(c) \/ WasReceived(c)
            /\ client[c].on \in Turns /\ \E e \in Held(client[c].on) : anchor'[c] = e.seq
<1> DEFINE t == client[c].on
<1>1. /\ PageDone(c) /\ PageFits(c) /\ client[c].after \in Nat /\ client[c].queue \in Seq(Events)
  BY DEF Paging, StreamInv, TypeInv, PageRecord
<1>2. CASE WasReplayed(c)
  <2>1. t \in Turns
    BY <1>1, <1>2 DEF WasReplayed, PageFits
  <2>2. ToSet(Replayed(turn[t].ring, client[c].after)) \subseteq Held(t)
    BY <1>1, <2>1, ReplayedHeld, HeldEvents
  <2>3. QED
    BY <1>2, <2>1, <2>2 DEF WasReplayed, WasSent
<1>3. CASE WasReceived(c)
  <2>1. t \in Turns /\ client[c].queue # <<>>
    BY <1>1, <1>3 DEF WasReceived, PageFits
  <2>2. Head(client[c].queue) \in ToSet(client[c].queue)
    BY <1>1, <2>1, TailDoes
  <2>3. Head(client[c].queue) \in Held(t)
    BY <2>1, <2>2, HeldEvents
  <2>4. QED
    BY <1>3, <2>1, <2>3 DEF WasReceived, WasSent
<1>4. CASE anchor' = anchor
  BY <1>4
<1>5. QED
  BY <1>1, <1>2, <1>3, <1>4 DEF PageDone, Reconnected, Subscribed, WentLive, WasOver, WasSkipped,
                             WasDropped

LEMMA NumbersStep ==
  ASSUME TypeInv, StreamInv, AloneInv, NumbersInv, Shaped
  PROVE  NumbersInv'
<1> SUFFICES ASSUME Orderly'
             PROVE  /\ \A c \in Clients : Bounded(anchor[c])'
                    /\ \A t \in Turns : \A e \in Held(t)' : Bounded(e.seq)'
                    /\ \A t \in Turns : Busy(t)' => current' \in {0, t}
                    /\ current' # 0 => \A t \in Turns \ {current'} : \A e \in Held(t)' :
                                         e.seq <= turn'[current'].base
  BY DEF NumbersInv
<1>1. Orderly /\ alone /\ logged \in Nat /\ anchor \in [Clients -> Nat] /\ current \in Turns \cup {0}
  BY OrderlyStays DEF Orderly, TypeInv
<1>2. /\ \A c \in Clients : Bounded(anchor[c])
      /\ \A t \in Turns : \A e \in Held(t) : Bounded(e.seq)
      /\ \A t \in Turns : Busy(t) => current \in {0, t}
      /\ current # 0 => \A t \in Turns \ {current} : \A e \in Held(t) : e.seq <= turn[current].base
  BY <1>1 DEF NumbersInv
<1>3. \A x \in Nat : Bounded(x) => Bounded(x)'
  BY <1>1, BoundedStays
<1>4. \A t \in Turns : \A e \in Held(t) : e.seq \in Nat /\ Bounded(e.seq)'
  BY <1>2, <1>3, HeldEvents
<1>5. ASSUME NEW c \in Clients
      PROVE  Bounded(anchor[c])'
  <2>1. \/ anchor'[c] = anchor[c]
        \/ \E t \in Turns : \E e \in Held(t) : anchor'[c] = e.seq
    <3>1. CASE \E d \in Clients : Paging(d)
      <4>1. PICK d \in Clients : Paging(d)
        BY <3>1
      <4>2. CASE d = c
        BY <4>1, <4>2, AnchorFrom
      <4>3. CASE d # c
        BY <4>1, <4>3 DEF Paging, OnlyPage
      <4>4. QED
        BY <4>2, <4>3
    <3>2. CASE anchor' = anchor
      BY <3>2
    <3>3. QED
      BY <3>1, <3>2 DEF Shaped, Moving, Registered, Finished, Emitting, Started, Aside
  <2>2. CASE anchor'[c] = anchor[c]
    <3>1. anchor[c] \in Nat /\ Bounded(anchor[c])
      BY <1>1, <1>2
    <3>2. QED
      BY <1>3, <2>2, <3>1 DEF Bounded
  <2>3. CASE \E t \in Turns : \E e \in Held(t) : anchor'[c] = e.seq
    <3>1. PICK t \in Turns : \E e \in Held(t) : anchor'[c] = e.seq
      BY <2>3
    <3>2. PICK e \in Held(t) : anchor'[c] = e.seq
      BY <3>1
    <3>3. Bounded(e.seq)'
      BY <1>4
    <3>4. QED
      BY <3>2, <3>3 DEF Bounded
  <2>4. QED
    BY <2>1, <2>2, <2>3
<1>6. ASSUME NEW t \in Turns, NEW e \in Events, Emitting(t, e)
      PROVE  Bounded(e.seq)'
  <2>1. /\ turn[t].pc \notin {"new", "finished"} /\ Busy(t)'
        /\ \A u \in Turns \ {t} : turn'[u] = turn[u]
    BY <1>6 DEF Emitting, Emitted, Busy, Looping
  <2>2. \A u \in Turns \ {t} : ~Busy(u)'
    BY <1>1, <2>1, OnlyOne DEF Busy
  <2>3. e.seq <= Top(t)'
    BY <1>6, TopEmits DEF StreamInv
  <2>4. QED
    BY <2>1, <2>2, <2>3 DEF Bounded
<1>7. Bounded(0)'
  <2>1. \A u \in Turns : Top(u) \in Nat
    BY TopIs DEF StreamInv
  <2>2. 0 <= logged /\ \A u \in Turns : 0 <= Top(u)
    BY <1>1, <2>1
  <2>3. Bounded(0)
    BY <2>2 DEF Bounded
  <2>4. QED
    BY <1>3, <2>3
<1>8. ASSUME NEW t \in Turns, NEW e \in Held(t)'
      PROVE  Bounded(e.seq)'
  <2>1. CASE e \in Held(t)
    BY <1>4, <2>1
  <2>2. CASE e = End
    BY <1>7, <2>2, EndIsEvent
  <2>3. CASE e \in Events /\ Emitting(t, e)
    BY <1>6, <2>3
  <2>4. QED
    BY <1>8, <2>1, <2>2, <2>3, HeldStep
<1>9. ASSUME NEW t \in Turns, Busy(t)'
      PROVE  current' \in {0, t}
  <2>1. ASSUME NEW u \in Turns, Registered(u)
        PROVE  current' \in {0, t}
    <3>1. turn[u].pc = "flagged" /\ current' = u
      BY <2>1 DEF Registered
    <3>2. CASE t # u
      <4>1. turn[t].pc \in {"new", "finished"}
        BY <1>1, <3>1, <3>2, OnlyOne
      <4>2. turn'[t] = turn[t] \/ turn'[t] = [NoTurn EXCEPT !.pc = "finished"]
        BY <2>1, <3>2 DEF Registered
      <4>3. turn'[t].pc \in {"new", "finished"}
        BY <4>1, <4>2 DEF NoTurn
      <4>4. QED
        BY <1>9, <4>3 DEF Busy
    <3>3. QED
      BY <3>1, <3>2
  <2>2. CASE Busy(t) /\ current' \in {0, current}
    BY <1>2, <2>2
  <2>3. QED
    BY <1>9, <2>1, <2>2 DEF Looping, Shaped, Moving, MovesOnly, Moved, Finished, Emitting, Emitted, Started,
                            Paging, OnlyPage, Aside, Busy
<1>10. ASSUME current' # 0, NEW t \in Turns \ {current'}, NEW e \in Held(t)'
       PROVE  e.seq <= turn'[current'].base
  <2>1. CASE \E u \in Turns : Registered(u)
    <3>1. PICK u \in Turns : Registered(u)
      BY <2>1
    <3>2. /\ turn[u].pc = "flagged" /\ current' = u /\ turn'[u].base = logged
          /\ turn'[u].pc = "registered"
      BY <3>1 DEF Registered, Orderly
    <3>3. \A v \in Turns : ~Busy(v)
      BY <1>1, <3>2, OnlyOne DEF Busy
    <3>4. e \in Held(t)
      BY <1>10, <3>2, HeldStep DEF Finished, Emitting, Emitted
    <3>5. e.seq <= logged
      BY <1>2, <3>3, <3>4 DEF Bounded
    <3>6. QED
      BY <3>2, <3>5
  <2>2. CASE current' = current /\ \A u \in Turns : turn'[u].base = turn[u].base
    <3>1. e \in Held(t)
      <4>1. ASSUME NEW u \in Turns, Busy(u)
            PROVE  u = current
        BY <1>2, <1>10, <2>2, <4>1
      <4>2. \A u \in Turns : Finished(u) => Busy(u)
        BY DEF Finished, Busy
      <4>3. \A u \in Turns : \A f \in Events : Emitting(u, f) => Busy(u)
        BY DEF Emitting, Emitted, Busy
      <4>4. QED
        BY <1>10, <2>2, <4>1, <4>2, <4>3, HeldStep
    <3>2. QED
      BY <1>1, <1>2, <1>10, <2>2, <3>1
  <2>3. ~(\E u \in Turns : Registered(u)) => current' = current /\ \A u \in Turns : turn'[u].base = turn[u].base
    BY <1>10 DEF Shaped, Moving, MovesOnly, Finished, Emitting, Emitted, Started, Paging, OnlyPage, Aside
  <2>4. QED
    BY <2>1, <2>2, <2>3
<1>11. QED
  BY <1>5, <1>8, <1>9, <1>10

-----------------------------------------------------------------------------
(* What an anchor says was seen                                            *)

LEMMA SeenOffered ==
  ASSUME TypeInv, StreamInv, SeenInv, Orderly, NEW t \in Turns, NEW e \in Events, FanOut(t, e),
         turn'[t].ring = turn[t].ring \/ turn'[t].ring = Keep(turn[t].ring, e),
         \A u \in Turns \ {t} : turn'[u] = turn[u],
         UNCHANGED <<current, anchor>>,
         e.seq # 0 => turn[t].ix < e.ix /\ \A c \in Clients : anchor[c] < e.seq
  PROVE  SeenInv'
<1>1. /\ ToSet(turn'[t].ring) \subseteq ToSet(turn[t].ring) \cup {e}
      /\ e.ix \in Nat /\ e.seq \in Nat /\ turn[t].ix \in Nat /\ EventsFit(t)
      /\ \A c \in Clients : anchor[c] \in Nat
  BY HeldOffered DEF Events, TypeInv, TurnRecord, StreamInv
<1>2. ASSUME NEW c \in Clients
      PROVE  /\ client'[c].pc = client[c].pc /\ client'[c].on = client[c].on
             /\ client'[c].cutoff = client[c].cutoff
             /\ ~Follows(c, t) => client'[c] = client[c] /\ seen'[c] = seen[c]
             /\ seen[c] \subseteq seen'[c]
             /\ SeenOrQueued(c) /\ \A u \in Turns : SeenBefore(c, u)
  <2>1. /\ client'[c].pc = client[c].pc /\ client'[c].on = client[c].on
        /\ client'[c].cutoff = client[c].cutoff
        /\ ~Follows(c, t) => client'[c] = client[c] /\ seen'[c] = seen[c]
    BY FanOutDoes
  <2>2. seen[c] \subseteq seen'[c]
    BY <2>1, OfferedOrLost
  <2>3. QED
    BY <2>1, <2>2 DEF SeenInv
<1>3. ASSUME NEW c \in Clients
      PROVE  SeenOrQueued(c)'
  <2>1. CASE Follows(c, t)
    <3> SUFFICES ASSUME client[c].pc \in {"check", "live"}, NEW d \in ToSet(turn'[t].ring), d.seq # 0
                 PROVE  /\ \/ <<t, d.ix>> \in seen'[c]
                           \/ d.ix \in Positions(ToSet(client'[c].queue))
                        /\ d.ix <= client[c].cutoff => <<t, d.ix>> \in seen'[c]
      BY <1>2, <2>1 DEF SeenOrQueued, Follows
    <3>1. \A f \in ToSet(client[c].queue) \cup {e} :
            f.seq # 0 => <<t, f.ix>> \in seen'[c] \/ f.ix \in Positions(ToSet(client'[c].queue))
      BY <2>1, OfferedOrLost
    <3>2. client[c].on = t
      BY <2>1 DEF Follows
    <3>3. CASE d = e
      <4>1. client[c].cutoff <= turn[t].ix /\ client[c].cutoff \in Nat
        BY <3>2 DEF StreamInv, PageFits, TypeInv, PageRecord
      <4>2. ~(e.ix <= client[c].cutoff)
        BY <1>1, <3>3, <4>1
      <4>3. QED
        BY <3>1, <3>3, <4>2
    <3>4. CASE d \in ToSet(turn[t].ring)
      <4>1. /\ <<t, d.ix>> \in seen[c] \/ d.ix \in Positions(ToSet(client[c].queue))
            /\ d.ix <= client[c].cutoff => <<t, d.ix>> \in seen[c]
        BY <1>2, <3>2, <3>4 DEF SeenOrQueued
      <4>2. ASSUME d.ix \in Positions(ToSet(client[c].queue))
            PROVE  <<t, d.ix>> \in seen'[c] \/ d.ix \in Positions(ToSet(client'[c].queue))
        <5>1. PICK f \in ToSet(client[c].queue) : f.ix = d.ix
          BY <4>2 DEF Positions
        <5>2. f \in Held(t) /\ d \in Held(t)
          BY <3>2, <3>4, HeldEvents
        <5>3. f.seq # 0
          BY <1>1, <5>1, <5>2 DEF EventsFit, Agree
        <5>4. QED
          BY <3>1, <5>1, <5>3
      <4>3. QED
        BY <1>2, <4>1, <4>2
    <3>5. QED
      BY <1>1, <3>3, <3>4
  <2>2. CASE ~Follows(c, t)
    <3>1. client[c].pc \in {"check", "live"} => client[c].on \in Turns \ {t}
      BY <2>2 DEF Follows, StreamInv, PageFits
    <3>2. QED
      BY <1>2, <2>2, <3>1 DEF SeenOrQueued
  <2>3. QED
    BY <2>1, <2>2
<1>4. ASSUME NEW c \in Clients, NEW u \in Turns
      PROVE  SeenBefore(c, u)'
  <2>1. Joined(c, u)' <=> Joined(c, u)
    BY <1>2 DEF Joined
  <2>2. SeenBefore(c, u) /\ seen[c] \subseteq seen'[c]
    BY <1>2
  <2>3. CASE u = t
    <3>1. e.seq # 0 => ~(e.seq <= anchor[c])
      BY <1>1
    <3>2. QED
      BY <1>1, <2>1, <2>2, <2>3, <3>1 DEF SeenBefore
  <2>4. CASE u # t
    BY <2>1, <2>2, <2>4 DEF SeenBefore
  <2>5. QED
    BY <2>3, <2>4
<1>5. QED
  BY <1>3, <1>4 DEF SeenInv

LEMMA SeenRegistered ==
  ASSUME TypeInv, StreamInv, SeenInv, Orderly, NEW t \in Turns, Registered(t)
  PROVE  SeenInv'
<1>1. turn[t].pc = "flagged" /\ turn[t].ring = <<>> /\ turn'[t].ring = <<>> /\ current' = t /\ anchor' = anchor
  BY DEF Registered, StreamInv, TurnFits, Quiet
<1>2. ToSet(<<>>) = {}
  BY DEF ToSet
<1>3. ASSUME NEW c \in Clients
      PROVE  /\ client'[c].on = client[c].on /\ client'[c].queue = client[c].queue
             /\ client'[c].cutoff = client[c].cutoff
             /\ client'[c].pc \in {"check", "live"} => client[c].pc = client'[c].pc
             /\ client'[c].pc # "away" => client[c].pc # "away"
             /\ SeenOrQueued(c) /\ \A u \in Turns : SeenBefore(c, u)
  BY DEF Registered, SeenInv
<1>4. ASSUME NEW c \in Clients, NEW u \in Turns \ {t}, client[c].on = u
      PROVE  turn'[u] = turn[u] /\ \A x : <<u, x>> \in seen[c] => <<u, x>> \in seen'[c]
  <2>1. ~Unreferenced(u)
    BY <1>4 DEF Unreferenced
  <2>2. seen'[c] = {p \in seen[c] : ~Unreferenced(p[1])}
    BY DEF Registered
  <2>3. QED
    BY <2>1, <2>2 DEF Registered
<1>5. ASSUME NEW c \in Clients
      PROVE  SeenOrQueued(c)'
  <2> SUFFICES ASSUME client'[c].pc \in {"check", "live"}
               PROVE  SeenOrQueued(c)'
    BY DEF SeenOrQueued
  <2>1. client[c].on \in Turns \ {t}
    BY <1>1, <1>3 DEF StreamInv, PageFits, Following
  <2>2. /\ turn'[client[c].on] = turn[client[c].on]
        /\ \A x : <<client[c].on, x>> \in seen[c] => <<client[c].on, x>> \in seen'[c]
    BY <1>4, <2>1
  <2>3. QED
    BY <1>3, <2>2 DEF SeenOrQueued
<1>6. ASSUME NEW c \in Clients, NEW u \in Turns
      PROVE  SeenBefore(c, u)'
  <2>1. CASE u = t
    BY <1>1, <1>2, <2>1 DEF SeenBefore
  <2>2. CASE u # t
    <3> SUFFICES ASSUME Joined(c, u)'
                 PROVE  SeenBefore(c, u)'
      BY DEF SeenBefore
    <3>1. client[c].on = u /\ client[c].pc # "away"
      BY <1>1, <1>3, <2>2 DEF Joined
    <3>2. Joined(c, u) /\ SeenBefore(c, u)
      BY <1>3, <3>1 DEF Joined
    <3>3. turn'[u] = turn[u] /\ \A x : <<u, x>> \in seen[c] => <<u, x>> \in seen'[c]
      BY <1>4, <2>2, <3>1
    <3>4. QED
      BY <1>1, <3>2, <3>3 DEF SeenBefore
  <2>3. QED
    BY <2>1, <2>2
<1>7. QED
  BY <1>5, <1>6 DEF SeenInv

\* After the replay everything numbered in the ring was seen.
LEMMA ReplayShowsAll ==
  ASSUME TypeInv, StreamInv, NEW c \in Clients, \A u \in Turns : SeenBefore(c, u), WasReplayed(c)
  PROVE  \A d \in ToSet(turn[client[c].on].ring) : d.seq # 0 => <<client[c].on, d.ix>> \in seen'[c]
<1> DEFINE t == client[c].on
           es == ToSet(Replayed(turn[t].ring, client[c].after))
<1>1. /\ client[c].pc = "replay" /\ seen'[c] = seen[c] \cup Numbered(t, es)
      /\ client[c].after \in Nat /\ anchor[c] \in Nat
  BY DEF WasReplayed, WasSent, TypeInv, PageRecord
<1>2. t \in Turns /\ client[c].after <= anchor[c]
  BY <1>1 DEF StreamInv, PageFits
<1>3. es \subseteq ToSet(turn[t].ring) /\ ToSet(turn[t].ring) \subseteq Events
  <2>1. es \subseteq ToSet(turn[t].ring)
    BY <1>1, <1>2, ReplayedHeld
  <2>2. ToSet(turn[t].ring) \subseteq Events
    BY <1>2, HeldEvents
  <2>3. QED
    BY <2>1, <2>2
<1>4. ASSUME NEW d \in ToSet(turn[t].ring), d.seq # 0
      PROVE  <<t, d.ix>> \in seen'[c]
  <2>1. d \in es \/ d.seq <= client[c].after
    BY <1>1, <1>2, <1>4, CutSplits
  <2>2. CASE d \in es
    <3>1. es \in SUBSET Events
      BY <1>3
    <3> HIDE DEF es
    <3>2. <<t, d.ix>> \in Numbered(t, es)
      BY <1>2, <1>4, <2>2, <3>1, SetsOfEvents
    <3>3. QED
      BY <1>1, <3>2
  <2>3. CASE d.seq <= client[c].after
    <3>1. d.seq \in Nat
      BY <1>2, HeldEvents
    <3>2. d.seq <= anchor[c]
      BY <1>1, <1>2, <2>3, <3>1
    <3>3. Joined(c, t)
      BY <1>1 DEF Joined
    <3>4. QED
      BY <1>1, <1>2, <1>4, <3>2, <3>3 DEF SeenBefore
  <2>4. QED
    BY <2>1, <2>2, <2>3
<1>5. QED
  BY <1>4

\* An event that is not in the queue any longer once its head is taken was the
\* head, or was seen.
LEMMA ReceiveShows ==
  ASSUME TypeInv, StreamInv, NEW c \in Clients, SeenOrQueued(c), WasReceived(c),
         NEW d \in ToSet(turn[client[c].on].ring), d.seq # 0
  PROVE  /\ \/ <<client[c].on, d.ix>> \in seen'[c]
            \/ /\ d.ix \in Positions(ToSet(Tail(client[c].queue)))
               /\ Head(client[c].queue).ix < d.ix
         /\ d.ix <= client[c].cutoff => <<client[c].on, d.ix>> \in seen'[c]
<1> DEFINE t == client[c].on
           q == client[c].queue
           h == Head(q)
<1>1. /\ client[c].pc = "live" /\ q # <<>> /\ seen'[c] = seen[c] \cup Numbered(t, {h})
      /\ q \in Seq(Events) /\ Rising(q)
  BY DEF WasReceived, WasSent, TypeInv, PageRecord, StreamInv
<1>2. t \in Turns
  BY <1>1 DEF StreamInv, PageFits
<1>3. /\ ToSet(q) = ToSet(Tail(q)) \cup {h} /\ h \in Events
      /\ \A e \in ToSet(Tail(q)) : e = End \/ h.ix < e.ix
  BY <1>1, TailDoes
<1>4. /\ <<t, d.ix>> \in seen[c] \/ d.ix \in Positions(ToSet(q))
      /\ d.ix <= client[c].cutoff => <<t, d.ix>> \in seen[c]
  BY <1>1 DEF SeenOrQueued
<1>5. d \in Held(t) /\ EventsFit(t) /\ d # End
  BY <1>2, HeldEvents DEF StreamInv, EventsFit
<1>6. 1 <= d.ix /\ d.ix \in Nat
  BY <1>2, <1>5, HeldFits
<1>7. ASSUME d.ix \in Positions(ToSet(q))
      PROVE  \/ <<t, d.ix>> \in seen'[c]
             \/ d.ix \in Positions(ToSet(Tail(q))) /\ h.ix < d.ix
  <2>1. PICK f \in ToSet(q) : f.ix = d.ix
    BY <1>7 DEF Positions
  <2>2. f \in Held(t)
    BY <1>2, HeldEvents
  <2>3. CASE f = h
    <3>1. h.seq # 0
      BY <1>5, <2>1, <2>2, <2>3 DEF EventsFit, Agree
    <3>2. <<t, h.ix>> \in Numbered(t, {h})
      BY <3>1 DEF Numbered
    <3>3. QED
      BY <1>1, <2>1, <2>3, <3>2
  <2>4. CASE f \in ToSet(Tail(q))
    <3>1. f # End
      BY <1>6, <2>1, EndIsEvent
    <3>2. QED
      BY <1>3, <2>1, <2>4, <3>1 DEF Positions
  <2>5. QED
    BY <1>3, <2>3, <2>4
<1>8. QED
  BY <1>1, <1>4, <1>7

LEMMA SeenPaging ==
  ASSUME TypeInv, StreamInv, NumbersInv, SeenInv, Orderly, NEW c \in Clients, Paging(c)
  PROVE  SeenInv'
<1> DEFINE t == client[c].on
           q == client[c].queue
           h == Head(q)
<1>1. /\ turn' = turn /\ current' = current /\ PageDone(c) /\ PageFits(c)
      /\ \A d \in Clients \ {c} : client'[d] = client[d] /\ anchor'[d] = anchor[d] /\ seen'[d] = seen[d]
      /\ current \in Turns \cup {0} /\ anchor[c] \in Nat
  BY DEF Paging, OnlyPage, StreamInv, TypeInv
<1>2. SeenOrQueued(c) /\ \A u \in Turns : SeenBefore(c, u)
  BY DEF SeenInv
<1>3. seen[c] \subseteq seen'[c]
  BY <1>1 DEF PageDone, Reconnected, Subscribed, WasReplayed, WentLive, WasOver, WasSkipped,
              WasReceived, WasDropped, WasSent
<1>4. ASSUME NEW d \in Clients \ {c}
      PROVE  SeenOrQueued(d)' /\ \A u \in Turns : SeenBefore(d, u)'
  BY <1>1 DEF SeenInv, SeenOrQueued, SeenBefore, Joined
<1>5. ASSUME NEW u \in Turns, Joined(c, u)'
      PROVE  Joined(c, u)
  BY <1>1, <1>5 DEF Joined, PageDone, Reconnected, Subscribed, WasReplayed, WentLive, WasOver,
                    WasSkipped, WasReceived, WasDropped
<1>6. SeenOrQueued(c)'
  <2>1. ASSUME WasReplayed(c)
        PROVE  SeenOrQueued(c)'
    <3>1. \A d \in ToSet(turn[t].ring) : d.seq # 0 => <<t, d.ix>> \in seen'[c]
      BY <1>2, <2>1, ReplayShowsAll
    <3>2. client'[c].on = t
      BY <2>1 DEF WasReplayed
    <3>3. QED
      BY <1>1, <3>1, <3>2 DEF SeenOrQueued
  <2>2. ASSUME WentLive(c)
        PROVE  SeenOrQueued(c)'
    BY <1>1, <1>2, <2>2 DEF WentLive, SeenOrQueued
  <2>3. ASSUME WasSkipped(c)
        PROVE  SeenOrQueued(c)'
    <3>1. /\ client[c].pc = "live" /\ q # <<>> /\ h.ix <= client[c].cutoff /\ client'[c].on = t
          /\ client'[c].queue = Tail(q) /\ client'[c].cutoff = client[c].cutoff /\ seen' = seen
          /\ q \in Seq(Events)
      BY <2>3 DEF WasSkipped, TypeInv, PageRecord
    <3>2. ToSet(q) = ToSet(Tail(q)) \cup {h}
      BY <3>1, TailDoes
    <3> HIDE DEF h, q
    <3>3. \A x \in Positions(ToSet(q)) : x = h.ix \/ x \in Positions(ToSet(Tail(q)))
      BY <3>2 DEF Positions
    <3>4. ASSUME NEW d \in ToSet(turn[t].ring), d.seq # 0
          PROVE  /\ <<t, d.ix>> \in seen[c] \/ d.ix \in Positions(ToSet(Tail(q)))
                 /\ d.ix <= client[c].cutoff => <<t, d.ix>> \in seen[c]
      <4>1. /\ <<t, d.ix>> \in seen[c] \/ d.ix \in Positions(ToSet(q))
            /\ d.ix <= client[c].cutoff => <<t, d.ix>> \in seen[c]
        BY <1>2, <3>1, <3>4 DEF SeenOrQueued, q
      <4>2. QED
        BY <3>1, <3>3, <4>1
    <3>5. QED
      BY <1>1, <3>1, <3>4 DEF SeenOrQueued
  <2>4. ASSUME WasReceived(c)
        PROVE  SeenOrQueued(c)'
    <3> SUFFICES ASSUME client'[c].pc \in {"check", "live"}
                 PROVE  SeenOrQueued(c)'
      BY DEF SeenOrQueued
    <3>1. client'[c].on = t /\ client'[c].queue = Tail(q) /\ client'[c].cutoff = client[c].cutoff
      BY <2>4 DEF WasReceived
    <3>2. \A d \in ToSet(turn[t].ring) : d.seq # 0 =>
            /\ <<t, d.ix>> \in seen'[c] \/ d.ix \in Positions(ToSet(Tail(q)))
            /\ d.ix <= client[c].cutoff => <<t, d.ix>> \in seen'[c]
      BY <1>2, <2>4, ReceiveShows
    <3>3. QED
      BY <1>1, <3>1, <3>2 DEF SeenOrQueued
  <2>5. ASSUME client'[c].pc \notin {"check", "live"}
        PROVE  SeenOrQueued(c)'
    BY <2>5 DEF SeenOrQueued
  <2>6. QED
    BY <1>1, <2>1, <2>2, <2>3, <2>4, <2>5 DEF PageDone, Reconnected, Subscribed, WasOver, WasDropped
<1>7. ASSUME NEW u \in Turns
      PROVE  SeenBefore(c, u)'
  <2> SUFFICES ASSUME Joined(c, u), NEW d \in ToSet(turn[u].ring), d.seq # 0, d.seq <= anchor'[c],
                      Joined(c, u)'
               PROVE  <<u, d.ix>> \in seen'[c]
    BY <1>1, <1>5 DEF SeenBefore
  <2>1. d \in Held(u) /\ d.seq \in Nat /\ d.ix \in Nat /\ EventsFit(u) /\ d # End
    BY HeldEvents DEF StreamInv, EventsFit
  <2>2. CASE anchor'[c] = anchor[c]
    BY <1>2, <1>3, <2>2 DEF SeenBefore
  <2>3. CASE anchor'[c] # anchor[c]
    <3>1. WasReplayed(c) \/ WasReceived(c)
      BY <2>3, AnchorFrom
    <3>2. t \in Turns
      BY <2>3, AnchorFrom
    <3>3. PICK f \in Held(t) : anchor'[c] = f.seq
      BY <2>3, AnchorFrom
    <3>4. CASE u # t
      <4>1. u = current /\ current # 0
        <5>1. client'[c].on = t
          BY <3>1 DEF WasReplayed, WasReceived
        <5>2. 0 \notin Turns
          BY LiveTurnsAssumption
        <5>3. QED
          BY <1>1, <3>4, <5>1, <5>2 DEF Joined
      <4>2. f.seq <= turn[u].base
        BY <3>2, <3>4, <4>1 DEF NumbersInv
      <4>3. turn[u].base < d.seq
        BY <2>1, HeldFits DEF EventFits
      <4>4. f.seq \in Nat /\ turn[u].base \in Nat
        BY <3>2, <3>3, HeldEvents DEF TypeInv, TurnRecord
      <4>5. QED
        BY <2>1, <3>3, <4>2, <4>3, <4>4
    <3>5. CASE u = t /\ WasReplayed(c)
      BY <1>2, <3>5, ReplayShowsAll
    <3>6. CASE u = t /\ WasReceived(c)
      <4>1. /\ client[c].pc = "live" /\ q # <<>> /\ anchor'[c] = h.seq /\ q \in Seq(Events)
        BY <2>3, <3>6 DEF WasReceived, WasSent, TypeInv, PageRecord
      <4>2. h \in ToSet(q)
        BY <4>1, TailDoes
      <4>3. h \in Held(t)
        BY <3>2, <4>2, HeldEvents
      <4>4. h.seq \in Nat /\ h.ix \in Nat
        BY <3>2, <4>3, HeldEvents
      <4> HIDE DEF h
      <4>5. ~(h.ix < d.ix)
        <5>1. Agree(h, d)
          BY <2>1, <3>6, <4>3 DEF EventsFit
        <5>2. d.seq <= h.seq /\ h.seq # 0
          BY <2>1, <4>1, <4>4
        <5>3. ~(h.seq < d.seq)
          BY <2>1, <4>4, <5>2
        <5>4. QED
          BY <5>1, <5>2, <5>3 DEF Agree
      <4>6. \/ <<t, d.ix>> \in seen'[c]
            \/ d.ix \in Positions(ToSet(Tail(q))) /\ h.ix < d.ix
        BY <1>2, <3>6, ReceiveShows DEF h
      <4>7. QED
        BY <3>6, <4>5, <4>6
    <3>7. QED
      BY <3>1, <3>4, <3>5, <3>6
  <2>4. QED
    BY <2>2, <2>3
<1>8. QED
  BY <1>4, <1>6, <1>7 DEF SeenInv

LEMMA SeenStep ==
  ASSUME TypeInv, StreamInv, NumbersInv, SeenInv, Shaped
  PROVE  SeenInv'
<1> SUFFICES ASSUME Orderly'
             PROVE  SeenInv'
  BY DEF SeenInv
<1>1. Orderly
  BY OrderlyStays
<1>2. \A c \in Clients : SeenOrQueued(c) /\ \A u \in Turns : SeenBefore(c, u)
  BY <1>1 DEF SeenInv
<1>3. ASSUME NEW t \in Turns, Moving(t)
      PROVE  SeenInv'
  <2>1. UNCHANGED <<client, current, anchor, seen>> /\ \A u \in Turns : turn'[u].ring = turn[u].ring
    BY <1>3 DEF Moving, MovesOnly
  <2>2. \A c \in Clients : client[c].pc \in {"check", "live"} => client[c].on \in Turns
    BY DEF StreamInv, PageFits
  <2>3. QED
    BY <1>2, <2>1, <2>2 DEF SeenInv, SeenOrQueued, SeenBefore, Joined
<1>4. ASSUME NEW t \in Turns, Finished(t)
      PROVE  SeenInv'
  BY <1>1, <1>4, EndIsEvent, SeenOffered DEF Finished
<1>5. ASSUME NEW t \in Turns, NEW e \in Events, Emitting(t, e)
      PROVE  SeenInv'
  <2>1. /\ FanOut(t, e) /\ \A u \in Turns \ {t} : turn'[u] = turn[u]
        /\ turn'[t].ring = turn[t].ring \/ turn'[t].ring = Keep(turn[t].ring, e)
        /\ UNCHANGED <<current, anchor>> /\ e.ix = turn[t].ix + 1 /\ Busy(t)
    BY <1>5 DEF Emitting, Emitted, Busy
  <2>2. Top(t) \in Nat /\ turn[t].ix \in Nat /\ e.seq \in Nat /\ (e.seq # 0 => Top(t) < e.seq)
    BY <1>5, TopIs, TopEmits DEF StreamInv, Events
  <2>3. \A c \in Clients : anchor[c] <= Top(t) /\ anchor[c] \in Nat
    BY <1>1, <2>1 DEF NumbersInv, Bounded, TypeInv
  <2>4. e.seq # 0 => turn[t].ix < e.ix /\ \A c \in Clients : anchor[c] < e.seq
    BY <2>1, <2>2, <2>3
  <2>5. QED
    BY <1>1, <2>1, <2>4, SeenOffered
<1>6. ASSUME NEW t \in Turns, NEW c \in Clients, Started(c, t)
      PROVE  SeenInv'
  <2>1. /\ UNCHANGED <<current, anchor, seen>> /\ \A u \in Turns : turn'[u].ring = turn[u].ring
        /\ \A d \in Clients \ {c} : client'[d] = client[d]
        /\ client'[c].on = t /\ client'[c].pc = "asking" /\ turn[t].pc = "new"
    BY <1>6 DEF Started
  <2>2. \A d \in Clients : client[d].pc \in {"check", "live"} => client[d].on \in Turns
    BY DEF StreamInv, PageFits
  <2>3. ToSet(turn[t].ring) = {}
    BY <2>1 DEF StreamInv, TurnFits, Quiet, ToSet
  <2>4. \A d \in Clients : SeenOrQueued(d)'
    BY <1>2, <2>1, <2>2 DEF SeenOrQueued
  <2>5. ASSUME NEW d \in Clients, NEW u \in Turns
        PROVE  SeenBefore(d, u)'
    <3>1. CASE u = t
      BY <2>1, <2>3, <3>1 DEF SeenBefore
    <3>2. CASE u # t
      BY <1>2, <2>1, <3>2 DEF SeenBefore, Joined
    <3>3. QED
      BY <3>1, <3>2
  <2>6. QED
    BY <2>4, <2>5 DEF SeenInv
<1>7. CASE Aside
  <2>1. UNCHANGED <<client, anchor, seen, turn>> /\ current' \in {0, current} /\ 0 \notin Turns
    BY <1>7, LiveTurnsAssumption DEF Aside
  <2>2. QED
    BY <1>2, <2>1 DEF SeenInv, SeenOrQueued, SeenBefore, Joined
<1>8. QED
  BY <1>1, <1>3, <1>4, <1>5, <1>6, <1>7, SeenRegistered, SeenPaging DEF Shaped

-----------------------------------------------------------------------------
(* Stops                                                                   *)

LEMMA StopsElsewhere ==
  ASSUME NEW u \in Turns, StopFits(u), turn'[u].pc \in {"new", "finished"},
         turn'[u].pc = "new" => turn[u].pc = "new", stopAt'[u] = stopAt[u]
  PROVE  StopFits(u)'
BY DEF StopFits

LEMMA StopStep ==
  ASSUME TypeInv, StreamInv, AloneInv, StopInv, Shaped
  PROVE  StopInv'
<1> SUFFICES ASSUME alone'
             PROVE  \A u \in Turns : StopFits(u)'
  BY DEF StopInv
<1>1. alone /\ \A u \in Turns : StopFits(u)
  <2>1. alone
    <3>1. CASE \E t \in Turns : \E c \in Clients : Started(c, t)
      BY <3>1, Zenon DEF Started
    <3>2. CASE alone' = alone
      BY <3>2
    <3>3. QED
      BY <3>1, <3>2 DEF Shaped, Moving, Registered, Finished, Emitting, Paging, OnlyPage, Aside
  <2>2. QED
    BY <2>1 DEF StopInv
<1>2. /\ \A u \in Turns : turn[u].ix \in Nat
      /\ \A u \in Turns : stopAt[u] # Untaken => stopAt[u] \in Nat
  BY DEF TypeInv, TurnRecord
<1>3. ASSUME NEW t \in Turns, turn[t].pc \notin {"new", "finished"},
             \A u \in Turns \ {t} : turn'[u] = turn[u] /\ stopAt'[u] = stopAt[u], StopFits(t)'
      PROVE  \A u \in Turns : StopFits(u)'
  <2>1. \A u \in Turns \ {t} : turn[u].pc \in {"new", "finished"}
    BY <1>1, <1>3, OnlyOne
  <2>2. QED
    BY <1>1, <1>3, <2>1, StopsElsewhere
<1>4. ASSUME NEW t \in Turns, Moving(t)
      PROVE  \A u \in Turns : StopFits(u)'
  <2>1. /\ Moved(t) /\ stopAt' = stopAt /\ turn'[t].ix = turn[t].ix /\ turn'[t].kind = turn[t].kind
        /\ \A u \in Turns \ {t} : turn'[u] = turn[u]
    BY <1>4 DEF Moving, MovesOnly
  <2>2. turn[t].pc \notin {"new", "finished"}
    BY <2>1 DEF Moved, Looping
  <2>3. CASE turn[t].pc = "registered"
    <3>1. stopAt'[t] = Untaken /\ turn'[t].pc \in {"running", "raised"}
      BY <1>1, <2>1, <2>3 DEF StopFits, Moved, Looping
    <3>2. StopFits(t)'
      BY <3>1 DEF StopFits
    <3>3. QED
      BY <1>3, <2>1, <2>2, <3>2
  <2>4. CASE turn[t].pc = "checking" /\ turn'[t].pc = "running"
    <3>1. ~(stopped /\ turn[t].kind = "ask")
      BY <2>1, <2>4 DEF Moved
    <3>2. turn[t].kind # "ask" \/ stopAt[t] = Untaken
      BY <1>1, <2>4, <3>1 DEF StopFits
    <3>3. StopFits(t)'
      BY <2>1, <2>4, <3>2 DEF StopFits
    <3>4. QED
      BY <1>3, <2>1, <2>2, <3>3
  <2>5. CASE turn[t].pc \in Looping /\ turn'[t].pc = "closing"
    <3>1. stopAt[t] # Untaken /\ turn[t].kind = "ask" => turn[t].ix <= stopAt[t] + 1
      <4> SUFFICES ASSUME stopAt[t] # Untaken, turn[t].kind = "ask"
                   PROVE  turn[t].ix <= stopAt[t] + 1
        OBVIOUS
      <4>1. turn[t].ix <= stopAt[t] \/ turn[t].ix <= stopAt[t] + 1
        BY <1>1, <2>5 DEF StopFits, Looping
      <4>2. stopAt[t] \in Nat /\ turn[t].ix \in Nat
        BY <1>2
      <4>3. QED
        BY <4>1, <4>2
    <3>2. StopFits(t)'
      BY <2>1, <2>5, <3>1 DEF StopFits
    <3>3. QED
      BY <1>3, <2>1, <2>2, <3>2
  <2>6. CASE turn'[t].pc \in {"ended", "raised"}
    <3>1. StopFits(t)'
      BY <2>6 DEF StopFits
    <3>2. QED
      BY <1>3, <2>1, <2>2, <3>1
  <2>7. QED
    BY <2>1, <2>3, <2>4, <2>5, <2>6 DEF Moved
<1>5. ASSUME NEW t \in Turns, NEW e \in Events, Emitting(t, e)
      PROVE  \A u \in Turns : StopFits(u)'
  <2>1. /\ stopped' = stopped /\ turn'[t].kind = turn[t].kind
        /\ turn'[t].ix = turn[t].ix + 1
        /\ \A u \in Turns \ {t} : turn'[u] = turn[u] /\ stopAt'[u] = stopAt[u]
        /\ IF turn'[t].pc = "running"
           THEN stopAt'[t] = IF stopAt[t] = Untaken THEN Untaken ELSE 1
           ELSE stopAt'[t] = stopAt[t]
        /\ \/ turn[t].pc = "running" /\ turn[t].ix = 0 /\ turn'[t].pc = "running"
           \/ turn[t].pc = "running" /\ turn'[t].pc \in {"checking", "answering"}
           \/ turn[t].pc \in {"closing", "raised"} /\ turn'[t].pc \in {"closed", "ended"}
    BY <1>5 DEF Emitting, Emitted, StopCounts, Looping, TypeInv
  <2>2. CASE turn[t].pc = "running" /\ turn[t].ix = 0 /\ turn'[t].pc = "running"
    <3>1. StopFits(t)'
      BY <1>1, <2>1, <2>2 DEF StopFits
    <3>2. QED
      BY <1>3, <2>1, <2>2, <3>1
  <2>3. CASE turn[t].pc = "running" /\ turn'[t].pc \in {"checking", "answering"}
    <3> SUFFICES ASSUME stopAt[t] # Untaken, turn[t].kind = "ask"
                 PROVE  stopped /\ turn[t].ix + 1 <= stopAt[t] + 1
      <4>1. StopFits(t)'
        BY <2>1, <2>3 DEF StopFits
      <4>2. QED
        BY <1>3, <2>1, <2>3, <4>1
    <3>1. stopped
      BY <1>1, <2>3 DEF StopFits
    <3>2. turn[t].ix <= stopAt[t] /\ turn[t].ix \in Nat /\ stopAt[t] \in Nat
      BY <1>1, <1>2, <2>3 DEF StopFits
    <3>3. turn[t].ix + 1 <= stopAt[t] + 1
      BY <3>2
    <3>4. QED
      BY <3>1, <3>3
  <2>4. CASE turn[t].pc \in {"closing", "raised"} /\ turn'[t].pc \in {"closed", "ended"}
    <3>1. StopFits(t)'
      BY <2>4 DEF StopFits
    <3>2. QED
      BY <1>3, <2>1, <2>4, <3>1
  <2>5. QED
    BY <2>1, <2>2, <2>3, <2>4
<1>6. ASSUME NEW t \in Turns, Registered(t)
      PROVE  \A u \in Turns : StopFits(u)'
  <2>1. /\ turn[t].pc = "flagged" /\ turn'[t].pc = "registered" /\ stopAt' = stopAt
        /\ \A u \in Turns \ {t} : turn'[u] = turn[u] \/ turn'[u] = [NoTurn EXCEPT !.pc = "finished"]
    BY <1>6 DEF Registered
  <2>2. stopAt[t] = Untaken
    BY <1>1, <2>1 DEF StopFits
  <2>3. StopFits(t)'
    BY <2>1, <2>2 DEF StopFits
  <2>4. ASSUME NEW u \in Turns \ {t}
        PROVE  StopFits(u)'
    <3>1. turn[u].pc \in {"new", "finished"}
      BY <1>1, <2>1, OnlyOne
    <3>2. turn'[u].pc \in {"new", "finished"} /\ (turn'[u].pc = "new" => turn[u].pc = "new")
      BY <2>1, <3>1 DEF NoTurn
    <3>3. QED
      BY <1>1, <2>1, <3>2, StopsElsewhere
  <2>5. QED
    BY <2>3, <2>4
<1>7. ASSUME NEW t \in Turns, Finished(t)
      PROVE  \A u \in Turns : StopFits(u)'
  <2>1. /\ turn[t].pc = "ended" /\ turn'[t].pc = "finished" /\ stopAt' = stopAt
        /\ \A u \in Turns \ {t} : turn'[u] = turn[u]
    BY <1>7 DEF Finished
  <2>2. StopFits(t)'
    BY <2>1 DEF StopFits
  <2>3. QED
    BY <1>3, <2>1, <2>2
<1>8. ASSUME NEW t \in Turns, NEW c \in Clients, Started(c, t)
      PROVE  \A u \in Turns : StopFits(u)'
  <2>1. /\ turn[t].pc = "new" /\ turn'[t].pc = "flagged" /\ stopAt' = stopAt
        /\ \A u \in Turns \ {t} : turn'[u] = turn[u]
        /\ alone' = (alone /\ \A u \in Turns \ {t} : turn[u].pc \in {"new", "finished"})
    BY <1>8 DEF Started
  <2>2. \A u \in Turns \ {t} : turn[u].pc \in {"new", "finished"}
    BY <2>1, Zenon
  <2>3. StopFits(t)'
    BY <1>1, <2>1 DEF StopFits
  <2>4. QED
    BY <1>1, <2>1, <2>2, <2>3, StopsElsewhere
<1>9. ASSUME NEW c \in Clients, Paging(c)
      PROVE  \A u \in Turns : StopFits(u)'
  BY <1>1, <1>9 DEF Paging, OnlyPage, StopFits
<1>10. CASE Aside
  <2>1. turn' = turn /\ (stopped => stopped')
    BY <1>10 DEF Aside
  <2>2. CASE stopAt' = stopAt
    BY <1>1, <2>1, <2>2 DEF StopFits
  <2>3. CASE /\ stopped'
             /\ stopAt' = [t \in Turns |-> IF turn[t].pc \in {"running", "checking"} /\ stopAt[t] = Untaken
                                           THEN turn[t].ix ELSE stopAt[t]]
    <3> SUFFICES ASSUME NEW u \in Turns
                 PROVE  StopFits(u)'
      OBVIOUS
    <3>1. CASE turn[u].pc \in {"running", "checking"} /\ stopAt[u] = Untaken
      <4>1. stopAt'[u] = turn[u].ix /\ turn[u].ix \in Nat
        BY <1>2, <2>3, <3>1
      <4>2. turn[u].ix <= turn[u].ix /\ turn[u].ix <= turn[u].ix + 1
        BY <4>1
      <4>3. stopped'
        BY <2>3
      <4>4. QED
        BY <2>1, <3>1, <4>1, <4>2, <4>3 DEF StopFits
    <3>2. CASE ~(turn[u].pc \in {"running", "checking"} /\ stopAt[u] = Untaken)
      <4>1. stopAt'[u] = stopAt[u]
        BY <2>3, <3>2
      <4>2. QED
        BY <1>1, <2>1, <4>1 DEF StopFits
    <3>3. QED
      BY <3>1, <3>2
  <2>4. QED
    BY <1>10, <2>2, <2>3 DEF Aside
<1>11. QED
  BY <1>4, <1>5, <1>6, <1>7, <1>8, <1>9, <1>10 DEF Shaped

-----------------------------------------------------------------------------
(* Ends                                                                    *)

\* Same connection; its turn is as far from its end as it was.
LEMMA WaitSame ==
  ASSUME NEW c \in Clients, WaitFits(c), anchor'[c] = anchor[c],
         client'[c].pc = client[c].pc, client'[c].on = client[c].on,
         client'[c].queue = client[c].queue, client'[c].cutoff = client[c].cutoff,
         client[c].pc \in Following =>
           /\ turn'[client[c].on].terminal = turn[client[c].on].terminal
           /\ turn'[client[c].on].pc = "finished" <=> turn[client[c].on].pc = "finished"
  PROVE  WaitFits(c)'
<1>1. Terminals(c)' = Terminals(c)
  BY DEF Terminals
<1>2. QED
  BY <1>1 DEF WaitFits, Following

LEMMA WaitNot ==
  ASSUME NEW c \in Clients, client'[c].pc \notin Following
  PROVE  WaitFits(c)'
BY DEF WaitFits, Following

LEMMA WaitEmitting ==
  ASSUME TypeInv, StreamInv, NumbersInv, WaitInv, Orderly, NEW t \in Turns, NEW e \in Events,
         Emitting(t, e)
  PROVE  WaitInv'
<1>1. /\ FanOut(t, e) /\ anchor' = anchor /\ e.ix = turn[t].ix + 1
      /\ \A u \in Turns \ {t} : turn'[u] = turn[u]
      /\ turn[t].pc \in {"running", "closing", "raised"} /\ turn'[t].pc # "finished" /\ Busy(t)
      /\ IsTerminal(e) \/ turn'[t].terminal = turn[t].terminal
  BY DEF Emitting, Emitted, Busy, Looping
<1>2. turn[t].terminal = "none"
  BY <1>1 DEF StreamInv, TurnFits, Quiet, Looping
<1>3. \A d \in Held(t) : ~IsTerminal(d)
  BY <1>2, NotEnded DEF StreamInv
<1>4. e.seq # 0 => \A c \in Clients : anchor[c] < e.seq
  <2>1. Top(t) \in Nat /\ e.seq \in Nat /\ (e.seq # 0 => Top(t) < e.seq)
    BY TopIs, TopEmits DEF StreamInv, Events
  <2>2. \A c \in Clients : anchor[c] <= Top(t) /\ anchor[c] \in Nat
    BY <1>1 DEF NumbersInv, Bounded, TypeInv
  <2>3. QED
    BY <2>1, <2>2
<1>5. ASSUME NEW c \in Clients
      PROVE  WaitFits(c)'
  <2>1. /\ client'[c].pc = client[c].pc /\ client'[c].on = client[c].on
        /\ client'[c].cutoff = client[c].cutoff
        /\ ~Follows(c, t) => client'[c] = client[c]
        /\ Follows(c, t) => client'[c].queue = Offer(client[c].queue, e)
    BY <1>1, FanOutDoes
  <2>2. WaitFits(c) /\ PageFits(c) /\ client[c].cutoff \in Nat /\ turn[t].ix \in Nat
        /\ client[c].queue \in Seq(Events) /\ Len(client[c].queue) <= QueueMax
    BY DEF WaitInv, StreamInv, TypeInv, PageRecord, TurnRecord
  <2>3. CASE Follows(c, t)
    <3>1. client[c].on = t /\ client[c].pc \in Following
      BY <2>3 DEF Follows, Following
    <3>2. /\ ToSet(client'[c].queue) \subseteq ToSet(client[c].queue) \cup {e}
          /\ IsTerminal(e) => e \in ToSet(client'[c].queue)
      BY <2>1, <2>2, <2>3, OfferDoes
    <3>3. Terminals(c)' \subseteq {e}
      <4>1. ToSet(client[c].queue) \subseteq Held(t)
        BY <3>1, HeldEvents
      <4>2. QED
        BY <1>3, <3>2, <4>1 DEF Terminals
    <3>4. turn'[t].terminal # "none" => Terminals(c)' # {}
      BY <1>1, <1>2, <3>2 DEF Terminals
    <3>5. client[c].pc \in {"check", "live"} => e.ix > client[c].cutoff
      BY <1>1, <2>2, <3>1 DEF PageFits
    <3>6. e.seq = 0 \/ e.seq > anchor[c]
      BY <1>4
    <3>7. QED
      BY <1>1, <2>1, <3>1, <3>3, <3>4, <3>5, <3>6 DEF WaitFits
  <2>4. CASE ~Follows(c, t)
    <3>1. client[c].pc \in Following => client[c].on \in Turns \ {t}
      BY <2>2, <2>4 DEF Follows, Following, PageFits
    <3>2. QED
      BY <1>1, <2>1, <2>2, <2>4, <3>1, WaitSame
  <2>5. QED
    BY <2>3, <2>4
<1>6. QED
  BY <1>5 DEF WaitInv

LEMMA WaitFinished ==
  ASSUME TypeInv, StreamInv, WaitInv, Orderly, NEW t \in Turns, Finished(t)
  PROVE  WaitInv'
<1>1. /\ FanOut(t, End) /\ anchor' = anchor /\ turn[t].pc = "ended" /\ turn'[t].pc = "finished"
      /\ \A u \in Turns \ {t} : turn'[u] = turn[u]
      /\ turn[t].terminal # "none" /\ End \in Events /\ ~IsTerminal(End)
  BY EndIsEvent DEF Finished, StreamInv, TurnFits
<1>2. ASSUME NEW c \in Clients
      PROVE  WaitFits(c)'
  <2>1. /\ client'[c].pc = client[c].pc /\ client'[c].on = client[c].on
        /\ client'[c].cutoff = client[c].cutoff
        /\ ~Follows(c, t) => client'[c] = client[c]
        /\ Follows(c, t) => client'[c].queue = Offer(client[c].queue, End)
    BY <1>1, FanOutDoes
  <2>2. WaitFits(c) /\ PageFits(c)
        /\ client[c].queue \in Seq(Events) /\ Len(client[c].queue) <= QueueMax
    BY DEF WaitInv, StreamInv, TypeInv, PageRecord
  <2>3. CASE Follows(c, t)
    <3>1. client[c].on = t /\ client[c].pc \in Following
      BY <2>3 DEF Follows, Following
    <3>2. /\ ToSet(client'[c].queue) \subseteq ToSet(client[c].queue) \cup {End}
          /\ ToSet(client[c].queue) \subseteq ToSet(client'[c].queue)
          /\ client[c].queue = <<>> => End \in ToSet(client'[c].queue)
      BY <1>1, <2>1, <2>2, <2>3, OfferDoes
    <3>3. Terminals(c)' = Terminals(c)
      BY <1>1, <3>2 DEF Terminals
    <3>4. client[c].queue = <<>> \/ Terminals(c) # {}
      BY <1>1, <2>2, <3>1 DEF WaitFits
    <3>5. End \in ToSet(client'[c].queue) \/ Terminals(c)' # {}
      BY <3>2, <3>3, <3>4
    <3>6. QED
      BY <1>1, <2>1, <2>2, <3>1, <3>3, <3>5 DEF WaitFits
  <2>4. CASE ~Follows(c, t)
    <3>1. client[c].pc \in Following => client[c].on \in Turns \ {t}
      BY <2>2, <2>4 DEF Follows, Following, PageFits
    <3>2. QED
      BY <1>1, <2>1, <2>2, <2>4, <3>1, WaitSame
  <2>5. QED
    BY <2>3, <2>4
<1>3. QED
  BY <1>2 DEF WaitInv

\* What ended the turn is not cut off by a replay.
LEMMA ReplayKeepsEnd ==
  ASSUME TypeInv, StreamInv, NEW c \in Clients, WaitFits(c), WasReplayed(c)
  PROVE  \A e \in Terminals(c) : e.ix > client'[c].cutoff
<1> DEFINE t == client[c].on
           ring == turn[t].ring
           k == Cut(ring, client[c].after)
<1>1. /\ client[c].pc = "replay" /\ client'[c].cutoff = Cutoff(ring, client[c].after)
      /\ client[c].after \in Nat /\ anchor[c] \in Nat
  BY DEF WasReplayed, TypeInv, PageRecord
<1>2. t \in Turns /\ client[c].after <= anchor[c]
  BY <1>1 DEF StreamInv, PageFits
<1>3. ring \in Seq(Events) /\ EventsFit(t)
  BY <1>2 DEF TypeInv, TurnRecord, StreamInv
<1>4. /\ k \in 0 .. Len(ring)
      /\ k = 0 => Cutoff(ring, client[c].after) = 0
      /\ k # 0 => /\ Cutoff(ring, client[c].after) = ring[k].ix
                  /\ ring[k].seq # 0 /\ ring[k].seq <= client[c].after
  BY <1>1, <1>3, ReplayedIs
<1>5. k # 0 => ring[k] \in Held(t) /\ ring[k] # End
  <2>1. k # 0 => k \in DOMAIN ring
    BY <1>3, <1>4
  <2> HIDE DEF k
  <2>2. k # 0 => ring[k] \in ToSet(ring)
    BY <2>1 DEF ToSet
  <2>3. QED
    BY <1>2, <1>3, <2>2, HeldEvents DEF EventsFit
<1>6. ASSUME NEW e \in Terminals(c)
      PROVE  e.ix > client'[c].cutoff
  <2>1. e \in Held(t) /\ IsTerminal(e) /\ e # End
    BY <1>2, HeldEvents, EndIsEvent DEF Terminals
  <2>2. EventFits(t, e) /\ 1 <= e.ix /\ e.ix \in Nat /\ e.seq \in Nat /\ e.ix = turn[t].ix
    BY <1>2, <1>3, <2>1, HeldFits DEF EventFits
  <2>3. CASE k = 0
    BY <1>1, <1>4, <2>2, <2>3
  <2>4. CASE k # 0
    <3> HIDE DEF k, ring
    <3>1. ring[k].ix <= turn[t].ix /\ ring[k].ix \in Nat /\ ring[k].seq \in Nat
      BY <1>2, <1>3, <1>5, <2>4, HeldFits
    <3>2. Agree(ring[k], e)
      BY <1>3, <1>5, <2>1, <2>4 DEF EventsFit
    <3>3. e.seq = 0 \/ e.seq > anchor[c]
      BY <1>1 DEF WaitFits
    <3>4. ring[k].ix = e.ix => FALSE
      <4> SUFFICES ASSUME ring[k].ix = e.ix
                   PROVE  FALSE
        OBVIOUS
      <4>1. ring[k].seq = e.seq
        BY <3>2 DEF Agree
      <4>2. e.seq # 0 /\ e.seq <= client[c].after
        BY <1>4, <2>4, <4>1
      <4>3. QED
        BY <1>1, <1>2, <2>2, <3>3, <4>2
    <3>5. QED
      BY <1>1, <1>4, <2>2, <2>4, <3>1, <3>4
  <2>5. QED
    BY <2>3, <2>4
<1>7. QED
  BY <1>6

\* The head of a queue that is taken, and is not what ends the turn.
LEMMA WaitTail ==
  ASSUME TypeInv, NEW c \in Clients, WaitFits(c), turn' = turn,
         client[c].pc = "live", client[c].queue # <<>>,
         Head(client[c].queue) # End, ~IsTerminal(Head(client[c].queue)),
         client'[c].pc = "live", client'[c].on = client[c].on,
         client'[c].queue = Tail(client[c].queue), client'[c].cutoff = client[c].cutoff
  PROVE  WaitFits(c)'
<1>1. client[c].queue \in Seq(Events)
  BY DEF TypeInv, PageRecord
<1>2. ToSet(client[c].queue) = ToSet(client'[c].queue) \cup {Head(client[c].queue)}
  BY <1>1, TailDoes
<1>3. Terminals(c)' = Terminals(c)
  BY <1>2 DEF Terminals
<1>4. End \in ToSet(client[c].queue) => End \in ToSet(client'[c].queue)
  BY <1>2
<1>5. QED
  BY <1>3, <1>4 DEF WaitFits, Following

LEMMA WaitPaging ==
  ASSUME TypeInv, StreamInv, WaitInv, Orderly, NEW c \in Clients, Paging(c)
  PROVE  WaitInv'
<1>1. /\ turn' = turn /\ PageDone(c) /\ PageFits(c) /\ WaitFits(c)
      /\ \A d \in Clients \ {c} : client'[d] = client[d] /\ anchor'[d] = anchor[d]
  BY DEF Paging, OnlyPage, StreamInv, WaitInv
<1>2. ASSUME NEW d \in Clients \ {c}
      PROVE  WaitFits(d)'
  <2>1. WaitFits(d)
    BY DEF WaitInv
  <2>2. QED
    BY <1>1, <2>1, WaitSame
<1>3. WaitFits(c)'
  <2>1. CASE client'[c].pc \notin Following
    BY <2>1, WaitNot
  <2>2. CASE Subscribed(c)
    <3>1. /\ client'[c].pc = "replay" /\ client'[c].queue = client[c].queue
          /\ client[c].pc = "attached"
      BY <2>2 DEF Subscribed
    <3>2. client'[c].queue = <<>>
      BY <1>1, <3>1 DEF PageFits, Following
    <3>3. Terminals(c)' = {}
      BY <3>2 DEF Terminals, ToSet
    <3>4. QED
      BY <3>1, <3>2, <3>3 DEF WaitFits
  <2>3. CASE WasReplayed(c)
    <3>1. /\ client'[c].pc = "check" /\ client'[c].queue = client[c].queue
          /\ client[c].pc = "replay" /\ client'[c].on = client[c].on
      BY <2>3 DEF WasReplayed
    <3>2. Terminals(c)' = Terminals(c)
      BY <3>1 DEF Terminals
    <3>3. \A e \in Terminals(c) : e.ix > client'[c].cutoff
      BY <1>1, <2>3, ReplayKeepsEnd
    <3>4. QED
      BY <1>1, <3>1, <3>2, <3>3 DEF WaitFits, Following
  <2>4. CASE WentLive(c)
    <3>1. /\ client'[c].pc = "live" /\ client'[c].queue = client[c].queue
          /\ client[c].pc = "check" /\ client'[c].on = client[c].on
          /\ client'[c].cutoff = client[c].cutoff /\ turn[client[c].on].pc # "finished"
      BY <2>4 DEF WentLive
    <3>2. Terminals(c)' = Terminals(c)
      BY <3>1 DEF Terminals
    <3>3. QED
      BY <1>1, <3>1, <3>2 DEF WaitFits, Following
  <2>5. CASE WasSkipped(c)
    <3>1. /\ client[c].pc = "live" /\ client[c].queue # <<>> /\ Head(client[c].queue) # End
          /\ Head(client[c].queue).ix <= client[c].cutoff
          /\ client'[c].pc = "live" /\ client'[c].on = client[c].on
          /\ client'[c].queue = Tail(client[c].queue) /\ client'[c].cutoff = client[c].cutoff
      BY <2>5 DEF WasSkipped
    <3>2. ~IsTerminal(Head(client[c].queue))
      <4>1. client[c].queue \in Seq(Events) /\ client[c].cutoff \in Nat
        BY DEF TypeInv, PageRecord
      <4>2. Head(client[c].queue) \in ToSet(client[c].queue) /\ Head(client[c].queue) \in Events
        BY <3>1, <4>1, TailDoes
      <4>3. ~(Head(client[c].queue).ix > client[c].cutoff)
        BY <3>1, <4>1, <4>2 DEF Events
      <4>4. QED
        BY <1>1, <3>1, <4>2, <4>3 DEF WaitFits, Terminals
    <3>3. QED
      BY <1>1, <3>1, <3>2, WaitTail
  <2>6. CASE WasReceived(c) /\ client'[c].pc \in Following
    <3>1. /\ client[c].pc = "live" /\ client[c].queue # <<>> /\ Head(client[c].queue) # End
          /\ ~IsTerminal(Head(client[c].queue))
          /\ client'[c].pc = "live" /\ client'[c].on = client[c].on
          /\ client'[c].queue = Tail(client[c].queue) /\ client'[c].cutoff = client[c].cutoff
      BY <2>6 DEF WasReceived, Following
    <3>2. QED
      BY <1>1, <3>1, WaitTail
  <2>7. CASE Reconnected(c) \/ WasOver(c) \/ WasDropped(c)
    <3>1. client'[c].pc \notin Following
      BY <2>7 DEF Reconnected, WasOver, WasDropped, Following
    <3>2. QED
      BY <2>1, <3>1
  <2>8. QED
    BY <1>1, <2>1, <2>2, <2>3, <2>4, <2>5, <2>6, <2>7 DEF PageDone
<1>4. QED
  BY <1>2, <1>3 DEF WaitInv

LEMMA WaitStep ==
  ASSUME TypeInv, StreamInv, NumbersInv, WaitInv, Shaped
  PROVE  WaitInv'
<1> SUFFICES ASSUME Orderly'
             PROVE  WaitInv'
  BY DEF WaitInv
<1>1. Orderly
  BY OrderlyStays
<1>2. \A c \in Clients : WaitFits(c) /\ PageFits(c)
  BY <1>1 DEF WaitInv, StreamInv
<1>3. ASSUME NEW t \in Turns, Moving(t)
      PROVE  WaitInv'
  <2>1. UNCHANGED <<client, anchor>> /\ \A u \in Turns \ {t} : turn'[u] = turn[u]
    BY <1>3 DEF Moving, MovesOnly
  <2>2. /\ turn'[t].terminal = turn[t].terminal /\ turn[t].pc # "finished"
        /\ turn'[t].pc # "finished"
    BY <1>3 DEF Moving, MovesOnly, Moved, Looping
  <2>3. ASSUME NEW c \in Clients
        PROVE  WaitFits(c)'
    <3>1. \A u \in Turns : /\ turn'[u].terminal = turn[u].terminal
                           /\ turn'[u].pc = "finished" <=> turn[u].pc = "finished"
      BY <2>1, <2>2
    <3>2. client[c].pc \in Following => client[c].on \in Turns
      BY <1>2 DEF PageFits, Following
    <3>3. QED
      BY <1>2, <2>1, <3>1, <3>2, WaitSame
  <2>4. QED
    BY <2>3 DEF WaitInv
<1>4. ASSUME NEW t \in Turns, Registered(t)
      PROVE  WaitInv'
  <2>1. ASSUME NEW c \in Clients
        PROVE  WaitFits(c)'
    <3>1. /\ client'[c].on = client[c].on /\ client'[c].queue = client[c].queue
          /\ client'[c].cutoff = client[c].cutoff /\ anchor'[c] = anchor[c]
          /\ \/ client'[c].pc = client[c].pc
             \/ client'[c].pc = "attached"
      BY <1>4 DEF Registered
    <3>2. CASE client[c].pc \in Following /\ client'[c].pc = client[c].pc
      <4>1. client[c].on \in Turns \ {t} /\ ~Unreferenced(client[c].on)
        BY <1>2, <1>4, <3>2 DEF PageFits, Following, Registered, Unreferenced
      <4>2. turn'[client[c].on] = turn[client[c].on]
        BY <1>4, <4>1 DEF Registered
      <4>3. QED
        BY <1>2, <3>1, <3>2, <4>2, WaitSame
    <3>3. CASE client'[c].pc \notin Following
      BY <3>3, WaitNot
    <3>4. QED
      BY <3>1, <3>2, <3>3 DEF Following
  <2>2. QED
    BY <2>1 DEF WaitInv
<1>5. ASSUME NEW t \in Turns, NEW c \in Clients, Started(c, t)
      PROVE  WaitInv'
  <2>1. /\ \A u \in Turns \ {t} : turn'[u] = turn[u]
        /\ \A d \in Clients \ {c} : client'[d] = client[d]
        /\ anchor' = anchor /\ turn[t].pc = "new" /\ client'[c].pc = "asking"
    BY <1>5 DEF Started
  <2>2. ASSUME NEW d \in Clients
        PROVE  WaitFits(d)'
    <3>1. CASE d = c
      BY <2>1, <3>1, WaitNot DEF Following
    <3>2. CASE d # c
      <4>1. client[d].pc \in Following => client[d].on \in Turns \ {t}
        BY <1>2, <2>1 DEF PageFits, Following
      <4>2. QED
        BY <1>2, <2>1, <3>2, <4>1, WaitSame
    <3>3. QED
      BY <3>1, <3>2
  <2>3. QED
    BY <2>2 DEF WaitInv
<1>6. CASE Aside
  <2>1. UNCHANGED <<client, anchor, turn>>
    BY <1>6 DEF Aside
  <2>2. \A c \in Clients : WaitFits(c)'
    BY <1>2, <2>1, WaitSame
  <2>3. QED
    BY <2>2 DEF WaitInv
<1>7. QED
  BY <1>1, <1>3, <1>4, <1>5, <1>6, WaitEmitting, WaitFinished, WaitPaging DEF Shaped

-----------------------------------------------------------------------------
(* The invariant holds                                                     *)

LEMMA NoTurnTyped == NoTurn \in TurnRecord /\ Len(NoTurn.ring) <= RingMax
<1>1. RingMax \in Nat /\ <<>> \in Seq(Events) /\ Len(<<>>) = 0
  BY LiveTurnsAssumption
<1>2. QED
  BY <1>1 DEF NoTurn, TurnRecord, TurnPcs, Kinds

\* The conversation before its first turn.
LEMMA Begins ==
  ASSUME Init
  PROVE  IInv
<1>1. /\ \A t \in Turns : turn[t] = NoTurn
      /\ \A c \in Clients : client[c] = Away /\ anchor[c] = 0 /\ seen[c] = {}
      /\ \A t \in Turns : stopAt[t] = Untaken
      /\ current = 0 /\ logged = 0 /\ 0 \notin Turns
  BY LiveTurnsAssumption DEF Init
<1>2. TypeInv
  <2>1. /\ turn \in [Turns -> TurnRecord] /\ \A t \in Turns : Len(turn[t].ring) <= RingMax
        /\ client \in [Clients -> PageRecord] /\ \A c \in Clients : Len(client[c].queue) <= QueueMax
    BY NoTurnTyped, AwayTyped DEF Init
  <2>2. /\ logged \in Nat /\ resumable \in BOOLEAN /\ current \in Turns \cup {0}
        /\ active \in BOOLEAN /\ stopped \in BOOLEAN /\ alone \in BOOLEAN
        /\ anchor \in [Clients -> Nat] /\ seen \in [Clients -> SUBSET (Turns \X Nat)]
        /\ stopAt \in [Turns -> Nat \cup {Untaken}]
    BY DEF Init
  <2>3. QED
    BY <2>1, <2>2 DEF TypeInv
<1>3. /\ NoTurn.pc = "new" /\ NoTurn.ix = 0 /\ NoTurn.ring = <<>> /\ NoTurn.terminal = "none"
      /\ NoTurn.outcome = "none" /\ NoTurn.base = 0
  BY DEF NoTurn
<1>4. \A t \in Turns : Held(t) = {}
  BY <1>1, <1>3, AwayTyped DEF Held, ToSet
<1>5. StreamInv
  <2>1. \A t \in Turns : TurnFits(t)
    BY <1>1, <1>3 DEF TurnFits, Quiet, Looping
  <2>2. \A t \in Turns : EventsFit(t) /\ Rising(turn[t].ring)
    BY <1>1, <1>3, <1>4, EmptyRises DEF EventsFit, ToSet
  <2>3. \A c \in Clients : PageFits(c) /\ Rising(client[c].queue)
    BY <1>1, AwayTyped, EmptyRises DEF PageFits, Following
  <2>4. QED
    BY <2>1, <2>2, <2>3 DEF StreamInv
<1>6. DeliveredInv /\ AloneInv
  BY <1>1, <1>3, AwayTyped DEF DeliveredInv, Delivered, AloneInv
<1>7. NumbersInv
  BY <1>1, <1>3, <1>4 DEF NumbersInv, Bounded, Busy
<1>8. SeenInv
  BY <1>1, <1>3, AwayTyped DEF SeenInv, SeenOrQueued, SeenBefore, ToSet
<1>9. StopInv /\ WaitInv
  BY <1>1, <1>3, AwayTyped DEF StopInv, StopFits, WaitInv, WaitFits, Following
<1>10. QED
  BY <1>2, <1>5, <1>6, <1>7, <1>8, <1>9 DEF IInv

\* Every step keeps the invariant, one layer after the other.
LEMMA Keeps ==
  ASSUME IInv, [Next]_vars
  PROVE  IInv'
<1>1. TypeInv /\ StreamInv /\ DeliveredInv /\ AloneInv /\ NumbersInv /\ SeenInv /\ StopInv /\ WaitInv
  BY DEF IInv
<1>2. Shaped
  BY <1>1, Shapes
<1>3. QED
  BY <1>1, <1>2, TypeStep, StreamStep, DeliveredStep, AloneStep, NumbersStep, SeenStep, StopStep,
     WaitStep DEF IInv

\* The invariant of a conversation (live_turns.LiveTurn, chat._live_stream):
\* what rings, queues and anchors hold of what the turns have emitted.
THEOREM LiveTurnsInvariant == Spec => []IInv
<1>1. Init => IInv
  BY Begins
<1>2. IInv /\ [Next]_vars => IInv'
  BY Keeps
<1>3. QED
  BY <1>1, <1>2, PTL DEF Spec

-----------------------------------------------------------------------------
(* What the runs check of it                                               *)

\* Every variable keeps its type, and neither a ring (LiveTurn.ring, a deque of
\* LIVE_RING_MAX_EVENTS) nor a queue (SUBSCRIBER_QUEUE_MAX) outgrows its bound.
THEOREM LiveTurnsTypes == Spec => []TypeOK
<1>1. ASSUME IInv
      PROVE  TypeOK
  <2>1. TypeInv
    BY <1>1 DEF IInv
  <2>2. ASSUME NEW t \in Turns
        PROVE  /\ turn[t].ring \in Seq(Events) /\ Len(turn[t].ring) <= RingMax
               /\ turn[t].base \in Nat /\ turn[t].drafts \in Nat
               /\ turn[t].outcome \in Outcomes \cup {"none"}
               /\ turn[t].terminal \in Outcomes \cup {"none"}
    BY <2>1 DEF TypeInv, TurnRecord
  <2>3. ASSUME NEW c \in Clients
        PROVE  /\ client[c].queue \in Seq(Events) /\ Len(client[c].queue) <= QueueMax
               /\ client[c].told \in Outcomes \cup {"none", "last answer"}
    BY <2>1 DEF TypeInv, PageRecord
  <2>4. QED
    BY <2>1, <2>2, <2>3 DEF TypeOK, TypeInv
<1>2. QED
  BY <1>1, LiveTurnsInvariant, PTL

\* Nothing falls between the replay and the live stream: the snapshot of the
\* ring is taken after the subscription (live_turns.subscribe, replay), so what
\* the ring holds past the cut was sent, was lost to a full queue, or waits in it.
THEOREM LiveTurnsRingIsDelivered == Spec => []RingIsDelivered
<1>1. ASSUME IInv
      PROVE  RingIsDelivered
  <2> SUFFICES ASSUME NEW c \in Clients, client[c].pc = "live",
                      NEW i \in DOMAIN turn[client[c].on].ring,
                      turn[client[c].on].ring[i].ix > client[c].cutoff
               PROVE  turn[client[c].on].ring[i].ix
                        \in client[c].got \cup Positions(ToSet(client[c].queue))
    BY DEF RingIsDelivered
  <2>1. Delivered(c)
    BY <1>1 DEF IInv, DeliveredInv
  <2>2. turn[client[c].on].ring[i] \in ToSet(turn[client[c].on].ring)
    BY DEF ToSet
  <2>3. QED
    BY <2>1, <2>2 DEF Delivered
<1>2. QED
  BY <1>1, LiveTurnsInvariant, PTL

\* Of turns that wait for each other, are numbered from what the log has and are
\* stored, the numbers of one never pass for those of another: what a page that
\* comes back with its anchor (chat._live_stream, LiveTurn.replay) is not sent
\* again, it was sent before.  (A turn whose base could not be read,
\* chat._last_event_seq, is excepted: its numbers may lie below the anchor.)
THEOREM LiveTurnsAnchorSkipsOnlySeen == Spec => []AnchorSkipsOnlySeen
<1>1. ASSUME IInv
      PROVE  AnchorSkipsOnlySeen
  <2> SUFFICES ASSUME Orderly, NEW c \in Clients, client[c].pc \in {"check", "live"},
                      NEW i \in DOMAIN turn[client[c].on].ring,
                      turn[client[c].on].ring[i].ix <= client[c].cutoff,
                      turn[client[c].on].ring[i].seq # 0
               PROVE  <<client[c].on, turn[client[c].on].ring[i].ix>> \in seen[c]
    BY DEF AnchorSkipsOnlySeen
  <2>1. SeenOrQueued(c)
    BY <1>1 DEF IInv, SeenInv
  <2>2. turn[client[c].on].ring[i] \in ToSet(turn[client[c].on].ring)
    BY DEF ToSet
  <2>3. QED
    BY <2>1, <2>2 DEF SeenOrQueued
<1>2. QED
  BY <1>1, LiveTurnsInvariant, PTL

\* A page is told how its own turn ended (the terminal event, or the one a stream
\* that finds its turn over is closed with), and the turn is in the log by then,
\* unless the write failed or the turn never got to draft its end.
THEOREM LiveTurnsToldHowItEnded == Spec => []ToldHowItEnded
<1>1. ASSUME IInv
      PROVE  ToldHowItEnded
  <2> SUFFICES ASSUME NEW c \in Clients, client[c].told # "none"
               PROVE  /\ client[c].told = turn[client[c].on].terminal
                      /\ \/ turn[client[c].on].stored
                         \/ "unstored" \in happened
                         \/ turn[client[c].on].outcome = "none"
    BY DEF ToldHowItEnded
  <2>1. PageFits(c) /\ \A t \in Turns : TurnFits(t)
    BY <1>1 DEF IInv, StreamInv
  <2>2. client[c].on \in Turns /\ client[c].told = turn[client[c].on].terminal
    BY <2>1 DEF PageFits
  <2>3. QED
    BY <2>1, <2>2 DEF TurnFits
<1>2. QED
  BY <1>1, LiveTurnsInvariant, PTL

\* An accepted /stop (TurnControl.request_stop) lets through at most the event
\* that was on its way, after the word on the compressed history if nothing was
\* sent yet, for a turn of the agent that answers a question and runs alone.
THEOREM LiveTurnsStopIsHeeded == Spec => []StopIsHeeded
<1>1. ASSUME IInv
      PROVE  StopIsHeeded
  <2> SUFFICES ASSUME alone, NEW t \in Turns, turn[t].kind = "ask", stopAt[t] # Untaken,
                      turn[t].terminal = "none"
               PROVE  turn[t].ix <= stopAt[t] + 1
    BY DEF StopIsHeeded
  <2>1. TurnFits(t) /\ StopFits(t)
    BY <1>1 DEF IInv, StreamInv, StopInv
  <2>2. turn[t].pc \in TurnPcs /\ turn[t].ix \in Nat /\ stopAt[t] \in Nat
    BY <1>1 DEF IInv, TypeInv, TurnRecord
  <2>3. CASE turn[t].ix = 0
    BY <2>2, <2>3
  <2>4. CASE turn[t].pc = "running"
    <3>1. turn[t].ix <= stopAt[t]
      BY <2>1, <2>4 DEF StopFits
    <3>2. QED
      BY <2>2, <3>1
  <2>5. CASE turn[t].pc \in {"checking", "answering", "closing"}
    BY <2>1, <2>5 DEF StopFits
  <2>6. QED
    BY <2>1, <2>2, <2>3, <2>4, <2>5 DEF TurnFits, TurnPcs, Quiet
<1>2. QED
  BY <1>1, LiveTurnsInvariant, PTL

\* No page waits for a turn that is over, however full its queue was: what ends
\* the turn pushes out an older event (LiveTurn.publish), and what marks the end
\* of the stream (LiveTurn.finish) is lost only to a queue that holds the former,
\* past the cut, so that the page does not skip it.
THEOREM LiveTurnsNobodyWaitsForever == Spec => []NobodyWaitsForever
<1>1. ASSUME IInv
      PROVE  NobodyWaitsForever
  <2> SUFFICES ASSUME Orderly, NEW c \in Clients, client[c].pc = "live",
                      turn[client[c].on].pc = "finished"
               PROVE  \E e \in ToSet(client[c].queue) :
                        e = End \/ (IsTerminal(e) /\ e.ix > client[c].cutoff)
    BY DEF NobodyWaitsForever
  <2>1. WaitFits(c)
    BY <1>1 DEF IInv, WaitInv
  <2>2. End \in ToSet(client[c].queue) \/ Terminals(c) # {}
    BY <2>1 DEF WaitFits
  <2>3. \A e \in Terminals(c) : e.ix > client[c].cutoff
    BY <2>1 DEF WaitFits
  <2>4. QED
    BY <2>2, <2>3 DEF Terminals
<1>2. QED
  BY <1>1, LiveTurnsInvariant, PTL
=============================================================================
