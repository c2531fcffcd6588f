-------------------------- MODULE SchedulesProofs --------------------------
(***************************************************************************)
(* What the compare-and-set of Schedules gives for every number of server  *)
(* processes, requests and slots: a cron schedule nobody edits runs each   *)
(* slot at most once, because arming moves next_run_at strictly forward,   *)
(* so that everything armed so far lies before it; and it arms no schedule *)
(* that is off, because a row that is off has no next run to compare with. *)
(***************************************************************************)
EXTENDS Schedules, TLAPS

\* A request that is about to write its row has been counted as an edit.
EditsAreCounted ==
    /\ left.edit <= Budget.edit
    /\ \A u \in Users : edit[u] # None => ~Untouched

\* A scan moves the schedule forward: the slot it read is due, the one it will
\* write lies behind it.
ScansGoForward ==
    \A p \in Scanners :
        scan[p].pc # "rest" =>
            /\ scan[p].next \in Times /\ scan[p].following \in Times
            /\ scan[p].enabled
            /\ scan[p].next < scan[p].following

\* The slots that are armed or queued lie before the next one, and no slot is
\* both or is armed twice.
FiredBeforeNext ==
    Untouched =>
        /\ row \in Rows /\ row.next \in Times
        /\ \A s \in Times : queued[s] <= 1 /\ (queued[s] > 0 => s < row.next)
        /\ \A p \in Scanners : scan[p].pc = "enqueue" =>
              /\ scan[p].next < row.next
              /\ queued[scan[p].next] = 0
              /\ \A q \in Scanners \ {p} :
                    scan[q].pc = "enqueue" => scan[q].next # scan[p].next

\* The inductive invariant of a cron schedule.
IInv == TypeOK /\ EditsAreCounted /\ ScansGoForward /\ FiredBeforeNext

USE ScheduleAssumption DEF Times, Events

\* A new schedule satisfies the invariant.
LEMMA InitEstablishesIInv ==
  ASSUME Kinds = {"cron"}, Init
  PROVE  IInv
<1>1. PICK w \in Whens : row = [kind |-> w.kind, runAt |-> w.runAt, enabled |-> TRUE,
                                next |-> FirstRun(w.kind, w.runAt, 0)]
  BY DEF Init
<1>2. w.kind = "cron" /\ w.runAt = None
  BY <1>1 DEF Whens
<1>3. row = [kind |-> "cron", runAt |-> None, enabled |-> TRUE, next |-> 1]
  BY <1>1, <1>2 DEF FirstRun
<1>4. TypeOK
  BY <1>3 DEF Init, TypeOK, Rows, Resting
<1>5. EditsAreCounted /\ ScansGoForward
  BY DEF Init, EditsAreCounted, ScansGoForward, Resting
<1>6. FiredBeforeNext
  BY <1>3, <1>4 DEF Init, FiredBeforeNext, Resting, Rows
<1>7. QED
  BY <1>4, <1>5, <1>6 DEF IInv

\* A step of the schedule loop keeps the invariant.
LEMMA LoopKeepsIInv ==
  ASSUME Kinds = {"cron"}, IInv, NEW p \in Scanners, Loop(p) \/ ScanFails(p)
  PROVE  IInv'
<1> USE DEF IInv
<1>1. CASE Scan(p)
  <2>1. /\ row \in Rows /\ row.next \in Times /\ row.next <= now /\ row.kind = "cron"
        /\ UNCHANGED <<now, row, edit, queued, manual, left>>
    BY <1>1 DEF Scan, Due, TypeOK, Rows
  <2>2. scan' = [scan EXCEPT ![p] = [pc |-> "arm", next |-> row.next, enabled |-> TRUE,
                                     following |-> now + 1]]
    BY <1>1, <2>1 DEF Scan, FirstRun
  <2>3. TypeOK'
    BY <2>1, <2>2 DEF TypeOK
  <2>4. EditsAreCounted' /\ ScansGoForward'
    BY <2>1, <2>2 DEF TypeOK, EditsAreCounted, ScansGoForward, Untouched
  <2>5. FiredBeforeNext'
    BY <2>1, <2>2 DEF TypeOK, FiredBeforeNext, Untouched
  <2>6. QED
    BY <2>3, <2>4, <2>5
<1>2. CASE Arm(p)
  <2>1. CASE row # None /\ row.next = scan[p].next
    <3>1. /\ row' = [row EXCEPT !.next = scan[p].following, !.enabled = scan[p].enabled]
          /\ scan' = [scan EXCEPT ![p].pc = "enqueue"]
          /\ UNCHANGED <<now, edit, queued, manual, left>>
      BY <1>2, <2>1 DEF Arm
    <3>2. /\ scan[p].next \in Times /\ scan[p].following \in Times
          /\ scan[p].enabled
          /\ scan[p].next < scan[p].following
      BY <1>2 DEF Arm, ScansGoForward
    <3>3. row' \in Rows /\ row'.next = scan[p].following
      BY <2>1, <3>1, <3>2 DEF TypeOK, Rows
    <3>4. scan' \in [Scanners -> [pc : {"rest", "arm", "enqueue"}, next : Times \cup {None},
                                  following : Times \cup {None}, enabled : BOOLEAN]]
      BY <3>1 DEF TypeOK
    <3>5. TypeOK'
      BY <3>1, <3>3, <3>4 DEF TypeOK
    <3>6. EditsAreCounted' /\ ScansGoForward'
      BY <3>1, <3>2 DEF TypeOK, EditsAreCounted, ScansGoForward, Untouched
    <3>7. FiredBeforeNext'
      <4> SUFFICES ASSUME Untouched
                   PROVE  FiredBeforeNext'
        BY <3>1 DEF FiredBeforeNext, Untouched
      <4>1. \A s \in Times : queued'[s] <= 1 /\ (queued'[s] > 0 => s < row'.next)
        BY <2>1, <3>1, <3>2, <3>3 DEF FiredBeforeNext, TypeOK
      <4>2. ASSUME NEW q \in Scanners, scan'[q].pc = "enqueue"
            PROVE  /\ scan'[q].next < row'.next
                   /\ queued'[scan'[q].next] = 0
                   /\ q # p => scan'[q].next < scan[p].next
        <5>1. row.next = scan[p].next /\ \A s \in Times : queued[s] > 0 => s < row.next
          BY <2>1 DEF FiredBeforeNext
        <5>2. CASE q = p
          <6>1. scan'[q].next = scan[p].next
            BY <3>1, <5>2 DEF TypeOK
          <6>2. queued[scan[p].next] = 0
            BY <3>2, <5>1 DEF TypeOK
          <6>3. QED
            BY <3>1, <3>2, <3>3, <5>2, <6>1, <6>2
        <5>3. CASE q # p
          <6>1. scan'[q] = scan[q]
            BY <3>1, <5>3 DEF TypeOK
          <6>2. scan[q].next < row.next /\ queued[scan[q].next] = 0
            BY <4>2, <6>1 DEF FiredBeforeNext
          <6>3. scan[q].next \in Times
            BY <4>2, <6>1 DEF ScansGoForward
          <6>4. QED
            BY <3>1, <3>2, <3>3, <5>1, <6>1, <6>2, <6>3
        <5>4. QED
          BY <5>2, <5>3
      <4>3. ASSUME NEW q \in Scanners, NEW r \in Scanners \ {q},
                   scan'[q].pc = "enqueue", scan'[r].pc = "enqueue"
            PROVE  scan'[r].next # scan'[q].next
        <5>1. CASE q = p \/ r = p
          BY <3>1, <3>2, <4>2, <4>3, <5>1 DEF TypeOK
        <5>2. CASE q # p /\ r # p
          BY <3>1, <4>3, <5>2 DEF TypeOK, FiredBeforeNext
        <5>3. QED
          BY <5>1, <5>2
      <4>4. QED
        BY <3>2, <3>3, <4>1, <4>2, <4>3 DEF FiredBeforeNext
    <3>8. QED
      BY <3>5, <3>6, <3>7
  <2>2. CASE ~(row # None /\ row.next = scan[p].next)
    <3>1. scan' = [scan EXCEPT ![p] = Resting] /\ UNCHANGED <<now, row, edit, queued, manual, left>>
      BY <1>2, <2>2 DEF Arm
    <3>2. QED
      BY <3>1 DEF TypeOK, EditsAreCounted, ScansGoForward, FiredBeforeNext, Untouched, Resting
  <2>3. QED
    BY <2>1, <2>2
<1>3. CASE Enqueue(p)
  <2>1. /\ scan[p].pc = "enqueue" /\ scan[p].next \in Times
        /\ queued' = [queued EXCEPT ![scan[p].next] = @ + 1]
        /\ scan' = [scan EXCEPT ![p] = Resting]
        /\ UNCHANGED <<now, row, edit, manual, left>>
    BY <1>3 DEF Enqueue, ScansGoForward
  <2>2. TypeOK'
    BY <2>1 DEF TypeOK, Resting
  <2>3. EditsAreCounted' /\ ScansGoForward'
    BY <2>1 DEF TypeOK, EditsAreCounted, ScansGoForward, Untouched, Resting
  <2>4. FiredBeforeNext'
    <3> SUFFICES ASSUME Untouched
                 PROVE  FiredBeforeNext'
      BY <2>1 DEF FiredBeforeNext, Untouched
    <3>1. scan[p].next < row.next /\ queued[scan[p].next] = 0
      BY <2>1 DEF FiredBeforeNext
    <3>2. /\ queued'[scan[p].next] = 1
          /\ \A s \in Times \ {scan[p].next} : queued'[s] = queued[s]
      BY <2>1, <3>1 DEF TypeOK
    <3>3. \A s \in Times : queued'[s] <= 1 /\ (queued'[s] > 0 => s < row'.next)
      BY <2>1, <3>1, <3>2 DEF FiredBeforeNext
    <3>4. ASSUME NEW q \in Scanners, scan'[q].pc = "enqueue"
          PROVE  /\ q # p /\ scan'[q] = scan[q]
                 /\ scan[q].next < row.next
                 /\ queued'[scan[q].next] = 0
      <4>1. q # p /\ scan'[q] = scan[q]
        BY <2>1, <3>4 DEF TypeOK, Resting
      <4>2. /\ scan[q].next < row.next /\ queued[scan[q].next] = 0
            /\ scan[q].next # scan[p].next
        BY <2>1, <3>4, <4>1 DEF FiredBeforeNext
      <4>3. scan[q].next \in Times
        BY <3>4, <4>1 DEF ScansGoForward
      <4>4. QED
        BY <3>2, <4>1, <4>2, <4>3
    <3>5. QED
      BY <2>1, <3>3, <3>4 DEF FiredBeforeNext
  <2>5. QED
    BY <2>2, <2>3, <2>4
<1>4. CASE ScanFails(p)
  <2>1. /\ scan' = [scan EXCEPT ![p] = Resting]
        /\ left["fault"] > 0 /\ left' = [left EXCEPT !["fault"] = @ - 1]
        /\ UNCHANGED <<now, row, edit, queued, manual>>
    BY <1>4 DEF ScanFails, Spend
  <2>2. TypeOK' /\ left'.edit = left.edit
    BY <2>1 DEF TypeOK, Resting
  <2>3. QED
    BY <2>1, <2>2 DEF TypeOK, EditsAreCounted, ScansGoForward, FiredBeforeNext, Untouched, Resting
<1>5. QED
  BY <1>1, <1>2, <1>3, <1>4 DEF Loop

\* The row a request is going to write has the type of the row it read.
LEMMA RequestIsTyped ==
  ASSUME TypeOK, NEW u \in Users, Request(u)
  PROVE  /\ TypeOK'
         /\ left.edit > 0 /\ left'.edit = left.edit - 1
         /\ UNCHANGED <<now, scan, queued>>
<1> DEFINE Begun(r) == /\ row # None /\ r \in Rows
                       /\ Begin(u, r)
<1>1. ASSUME NEW r, Begun(r)
      PROVE  /\ TypeOK'
             /\ left.edit > 0 /\ left'.edit = left.edit - 1
             /\ UNCHANGED <<now, scan, queued>>
  BY <1>1 DEF Begin, Spend, TypeOK
<1>2. ASSUME Rename(u)
      PROVE  Begun(row)
  BY <1>2 DEF Rename, Begin, TypeOK
<1>3. ASSUME NEW kind \in Kinds, NEW runAt \in Times \cup {None}, NEW at \in 0 .. LastSlot
      PROVE  FirstRun(kind, runAt, at) \in Times \cup {None}
  BY DEF FirstRun
<1>4. ASSUME NEW enabled \in BOOLEAN, SetEnabled(u, enabled)
      PROVE  \E r : Begun(r)
  <2> DEFINE r == [row EXCEPT !.enabled = enabled,
                     !.next = IF enabled THEN FirstRun(row.kind, row.runAt, now) ELSE None]
  <2>1. /\ row \in Rows /\ now \in 0 .. LastSlot
        /\ row.kind \in Kinds /\ row.runAt \in Times \cup {None}
    BY <1>4 DEF SetEnabled, Begin, TypeOK, Rows
  <2>2. FirstRun(row.kind, row.runAt, now) \in Times \cup {None}
    BY <1>3, <2>1
  <2>3. r \in Rows
    BY <2>1, <2>2 DEF Rows
  <2>4. Begun(r)
    BY <1>4, <2>3 DEF SetEnabled, Begin
  <2>5. QED
    BY <2>4
<1>5. ASSUME NEW w \in Whens, Retime(u, w)
      PROVE  \E r : Begun(r)
  <2> DEFINE r == [row EXCEPT !.kind = w.kind, !.runAt = w.runAt,
                     !.next = IF row.enabled THEN FirstRun(w.kind, w.runAt, now) ELSE None]
  <2>1. /\ row \in Rows /\ now \in 0 .. LastSlot
        /\ w.kind \in Kinds /\ w.runAt \in Times \cup {None}
    BY <1>5 DEF Retime, Begin, TypeOK, Whens
  <2>2. FirstRun(w.kind, w.runAt, now) \in Times \cup {None}
    BY <1>3, <2>1
  <2>3. r \in Rows
    BY <2>1, <2>2 DEF Rows
  <2>4. Begun(r)
    BY <1>5, <2>3 DEF Retime, Begin
  <2>5. QED
    BY <2>4
<1>6. CASE Delete(u) \/ RunNow(u)
  BY <1>6 DEF Delete, RunNow, Spend, TypeOK
<1>7. QED
  BY <1>1, <1>2, <1>4, <1>5, <1>6 DEF Request

\* A request and the write it ends with keep the invariant: from the first
\* request on the schedule counts as touched.
LEMMA RequestKeepsIInv ==
  ASSUME Kinds = {"cron"}, IInv, NEW u \in Users, Request(u) \/ Write(u)
  PROVE  IInv'
<1> USE DEF IInv
<1>1. CASE Request(u)
  <2>1. /\ TypeOK'
        /\ left.edit > 0 /\ left'.edit = left.edit - 1
        /\ UNCHANGED <<now, scan, queued>>
    BY <1>1, RequestIsTyped
  <2>2. left.edit \in Nat /\ Budget.edit \in Nat
    BY DEF TypeOK
  <2>3. ~Untouched' /\ left'.edit <= Budget.edit
    BY <2>1, <2>2 DEF EditsAreCounted, Untouched
  <2>4. QED
    BY <2>1, <2>3 DEF EditsAreCounted, ScansGoForward, FiredBeforeNext
<1>2. CASE Write(u)
  <2>1. /\ edit[u] # None /\ edit' = [edit EXCEPT ![u] = None]
        /\ row' = IF row = None THEN None ELSE edit[u]
        /\ UNCHANGED <<now, scan, queued, manual, left>>
    BY <1>2 DEF Write
  <2>2. ~Untouched'
    BY <2>1 DEF EditsAreCounted, Untouched
  <2>3. TypeOK'
    BY <2>1 DEF TypeOK
  <2>4. QED
    BY <2>1, <2>2, <2>3 DEF TypeOK, EditsAreCounted, ScansGoForward, FiredBeforeNext
<1>3. QED
  BY <1>1, <1>2

\* The invariant of a cron schedule, over all processes, requests and faults.
THEOREM ScheduleInvariant ==
  ASSUME Kinds = {"cron"}
  PROVE  Spec => []IInv
<1>1. Init => IInv
  BY InitEstablishesIInv
<1>2. IInv /\ [Next]_vars => IInv'
  <2> SUFFICES ASSUME IInv, [Next]_vars
               PROVE  IInv'
    OBVIOUS
  <2>1. CASE Tick
    BY <2>1 DEF Tick, IInv, TypeOK, EditsAreCounted, ScansGoForward, FiredBeforeNext, Untouched
  <2>2. ASSUME NEW p \in Scanners, Loop(p) \/ ScanFails(p)
        PROVE  IInv'
    BY <2>2, LoopKeepsIInv
  <2>3. ASSUME NEW u \in Users, Request(u) \/ Write(u)
        PROVE  IInv'
    BY <2>3, RequestKeepsIInv
  <2>4. CASE UNCHANGED vars
    BY <2>4 DEF vars, IInv, TypeOK, EditsAreCounted, ScansGoForward, FiredBeforeNext, Untouched
  <2>5. QED
    BY <2>1, <2>2, <2>3, <2>4 DEF Next
<1>3. QED
  BY <1>1, <1>2, PTL DEF Spec

\* However many processes scan a cron schedule, no slot is run twice unless a
\* user's request interferes: the compare-and-set of arm_scheduled_task.
THEOREM CronSlotFiresOnce ==
  ASSUME Kinds = {"cron"}
  PROVE  Spec => []EachSlotFiresOnce
<1>1. IInv => EachSlotFiresOnce
  BY DEF IInv, FiredBeforeNext, EachSlotFiresOnce
<1>2. QED
  BY <1>1, ScheduleInvariant, PTL

\* A schedule of any kind and everything read from it keep their types: no run
\* is planned beyond the slot after the last one the clock reaches.
THEOREM ScheduleTypeCorrect == Spec => []TypeOK
<1> DEFINE Scans == [pc : {"rest", "arm", "enqueue"}, next : Times \cup {None},
                     following : Times \cup {None}, enabled : BOOLEAN]
<1>1. Init => TypeOK
  <2> SUFFICES ASSUME Init
               PROVE  TypeOK
    OBVIOUS
  <2>1. PICK w \in Whens : row = [kind |-> w.kind, runAt |-> w.runAt, enabled |-> TRUE,
                                  next |-> FirstRun(w.kind, w.runAt, 0)]
    BY DEF Init
  <2>2. /\ w.kind \in Kinds /\ w.runAt \in Times \cup {None}
        /\ FirstRun(w.kind, w.runAt, 0) \in Times \cup {None}
    BY DEF Whens, FirstRun
  <2>3. row \in Rows
    BY <2>1, <2>2 DEF Rows
  <2>4. QED
    BY <2>3 DEF Init, TypeOK, Resting
<1>2. TypeOK /\ [Next]_vars => TypeOK'
  <2> SUFFICES ASSUME TypeOK, [Next]_vars
               PROVE  TypeOK'
    OBVIOUS
  <2>1. ASSUME NEW p \in Scanners, Scan(p)
        PROVE  TypeOK'
    <3>1. row \in Rows /\ now \in 0 .. LastSlot /\ UNCHANGED <<now, row, edit, queued, manual, left>>
      BY <2>1 DEF Scan, Due, TypeOK
    <3>2. FirstRun(row.kind, row.runAt, now) \in Times \cup {None}
      BY <3>1 DEF FirstRun, Rows
    <3> DEFINE s == [pc |-> "arm", next |-> row.next, enabled |-> row.kind # "once",
                     following |-> IF row.kind = "once" THEN row.next
                                   ELSE FirstRun(row.kind, row.runAt, now)]
    <3>3. s \in Scans
      BY <3>1, <3>2 DEF Rows
    <3>4. scan' = [scan EXCEPT ![p] = s]
      BY <2>1 DEF Scan
    <3> HIDE DEF s
    <3>5. scan' \in [Scanners -> Scans]
      BY <3>3, <3>4 DEF TypeOK
    <3>6. QED
      BY <3>1, <3>5 DEF TypeOK
  <2>2. ASSUME NEW p \in Scanners, Arm(p)
        PROVE  TypeOK'
    <3>1. CASE row # None /\ row.next = scan[p].next
      <4>1. row' \in Rows
        BY <2>2, <3>1 DEF Arm, TypeOK, Rows
      <4>2. scan' \in [Scanners -> Scans]
        <5> DEFINE s == [scan[p] EXCEPT !.pc = "enqueue"]
        <5>1. scan' = [scan EXCEPT ![p] = s] /\ scan \in [Scanners -> Scans]
          BY <2>2, <3>1 DEF Arm, TypeOK
        <5>2. s \in Scans
          BY <5>1
        <5> HIDE DEF s
        <5>3. QED
          BY <5>1, <5>2
      <4>3. QED
        BY <2>2, <3>1, <4>1, <4>2 DEF Arm, TypeOK
    <3>2. CASE ~(row # None /\ row.next = scan[p].next)
      <4>1. /\ scan' = [scan EXCEPT ![p] = Resting]
            /\ UNCHANGED <<now, row, edit, queued, manual, left>>
        BY <2>2, <3>2 DEF Arm
      <4>2. QED
        BY <4>1 DEF TypeOK, Resting
    <3>3. QED
      BY <3>1, <3>2
  <2>3. ASSUME NEW p \in Scanners, Enqueue(p)
        PROVE  TypeOK'
    <3>1. queued' \in [Times -> Nat]
      <4>1. /\ queued' = [queued EXCEPT ![scan[p].next] = @ + 1]
            /\ queued \in [Times -> Nat]
        BY <2>3 DEF Enqueue, TypeOK
      <4>2. CASE scan[p].next \in Times
        <5>1. queued[scan[p].next] + 1 \in Nat
          BY <4>1, <4>2
        <5>2. QED
          BY <4>1, <5>1
      <4>3. CASE scan[p].next \notin Times
        <5>1. queued' = queued
          BY <4>1, <4>3
        <5>2. QED
          BY <4>1, <5>1
      <4>4. QED
        BY <4>2, <4>3
    <3>2. QED
      BY <2>3, <3>1 DEF Enqueue, TypeOK, Resting
  <2>4. ASSUME NEW p \in Scanners, ScanFails(p)
        PROVE  TypeOK'
    BY <2>4 DEF ScanFails, Spend, TypeOK, Resting
  <2>5. ASSUME NEW u \in Users, Write(u)
        PROVE  TypeOK'
    BY <2>5 DEF Write, TypeOK
  <2>6. CASE Tick \/ UNCHANGED vars
    BY <2>6 DEF Tick, vars, TypeOK
  <2>7. QED
    BY <2>1, <2>2, <2>3, <2>4, <2>5, <2>6, RequestIsTyped DEF Next, Loop
<1>3. QED
  BY <1>1, <1>2, PTL DEF Spec

\* A row has a next run only if it is enabled: the one in the table, and those
\* the requests are going to write back.
Planned(r) == r # None /\ r.next # None => r.enabled
PlannedInv == Planned(row) /\ \A u \in Users : Planned(edit[u])

\* The first run of a cron expression exists, so arming leaves the row planned;
\* and whatever a request changes, it takes the next run off with the switch.
LEMMA StepKeepsPlanned ==
  ASSUME Kinds = {"cron"}, IInv, PlannedInv, [Next]_vars
  PROVE  PlannedInv'
<1>1. row \in Rows \cup {None} /\ edit \in [Users -> Rows \cup {None}]
  BY DEF IInv, TypeOK
<1>2. ASSUME UNCHANGED <<row, edit>>
      PROVE  PlannedInv'
  BY <1>2 DEF PlannedInv, Planned
<1>3. ASSUME NEW p \in Scanners, Arm(p)
      PROVE  PlannedInv'
  <2>1. CASE row # None /\ row.next = scan[p].next
    <3>1. row' = [row EXCEPT !.next = scan[p].following, !.enabled = scan[p].enabled]
          /\ UNCHANGED edit
      BY <1>3, <2>1 DEF Arm
    <3>2. scan[p].enabled
      BY <1>3 DEF Arm, IInv, ScansGoForward
    <3>3. row'.enabled
      BY <1>1, <2>1, <3>1, <3>2 DEF Rows
    <3>4. QED
      BY <3>1, <3>3 DEF PlannedInv, Planned
  <2>2. CASE ~(row # None /\ row.next = scan[p].next)
    BY <1>2, <1>3, <2>2 DEF Arm
  <2>3. QED
    BY <2>1, <2>2
<1>4. ASSUME NEW u \in Users, NEW r, Begin(u, r), Planned(r)
      PROVE  PlannedInv'
  BY <1>1, <1>4 DEF Begin, PlannedInv, Planned
<1>5. ASSUME NEW u \in Users, Request(u)
      PROVE  PlannedInv'
  <2>1. CASE Rename(u)
    BY <1>4, <2>1 DEF Rename, PlannedInv
  <2>2. ASSUME NEW enabled \in BOOLEAN, SetEnabled(u, enabled)
        PROVE  PlannedInv'
    <3> DEFINE r == [row EXCEPT !.enabled = enabled,
                       !.next = IF enabled THEN FirstRun(row.kind, row.runAt, now) ELSE None]
    <3>1. row \in Rows /\ Begin(u, r)
      BY <1>1, <2>2 DEF SetEnabled, Begin
    <3>2. Planned(r)
      BY <3>1 DEF Planned, Rows
    <3>3. QED
      BY <1>4, <3>1, <3>2
  <2>3. ASSUME NEW w \in Whens, Retime(u, w)
        PROVE  PlannedInv'
    <3> DEFINE r == [row EXCEPT !.kind = w.kind, !.runAt = w.runAt,
                       !.next = IF row.enabled THEN FirstRun(w.kind, w.runAt, now) ELSE None]
    <3>1. row \in Rows /\ Begin(u, r)
      BY <1>1, <2>3 DEF Retime, Begin
    <3>2. Planned(r)
      BY <3>1 DEF Planned, Rows
    <3>3. QED
      BY <1>4, <3>1, <3>2
  <2>4. CASE Delete(u)
    BY <2>4 DEF Delete, PlannedInv, Planned
  <2>5. CASE RunNow(u)
    BY <1>2, <2>5 DEF RunNow
  <2>6. QED
    BY <1>5, <2>1, <2>2, <2>3, <2>4, <2>5 DEF Request
<1>6. ASSUME NEW u \in Users, Write(u)
      PROVE  PlannedInv'
  <2>1. /\ edit' = [edit EXCEPT ![u] = None]
        /\ row' = IF row = None THEN None ELSE edit[u]
    BY <1>6 DEF Write
  <2>2. \A v \in Users : edit'[v] = None \/ edit'[v] = edit[v]
    BY <1>1, <2>1
  <2>3. QED
    BY <2>1, <2>2 DEF PlannedInv, Planned
<1>7. CASE Tick \/ UNCHANGED vars
  BY <1>2, <1>7 DEF Tick, vars
<1>8. ASSUME NEW p \in Scanners, Scan(p) \/ Enqueue(p) \/ ScanFails(p)
      PROVE  PlannedInv'
  BY <1>2, <1>8 DEF Scan, Enqueue, ScanFails
<1>9. QED
  BY <1>3, <1>5, <1>6, <1>7, <1>8 DEF Next, Loop

\* A cron schedule that is switched off or deleted by the time a scan gets to
\* arm it is not run (arm_scheduled_task compares next_run_at only, never the
\* switch): what a scan compares with is a moment, and a row that has one is
\* enabled.
THEOREM CronOnlyEnabledIsArmed ==
  ASSUME Kinds = {"cron"}
  PROVE  Spec => OnlyEnabledIsArmed
<1>1. Init => PlannedInv
  BY DEF Init, PlannedInv, Planned
<1>2. IInv /\ PlannedInv /\ [Next]_vars => PlannedInv'
  BY StepKeepsPlanned
<1>3. ASSUME IInv, PlannedInv, [Next]_vars
      PROVE  [\A p \in Scanners : scan[p].pc = "arm" /\ scan'[p].pc = "enqueue"
                                  => row # None /\ row.enabled]_vars
  <2> SUFFICES ASSUME NEW p \in Scanners, scan[p].pc = "arm", scan'[p].pc = "enqueue"
               PROVE  row # None /\ row.enabled
    OBVIOUS
  <2>1. scan \in [Scanners -> [pc : {"rest", "arm", "enqueue"}, next : Times \cup {None},
                               following : Times \cup {None}, enabled : BOOLEAN]]
    BY <1>3 DEF IInv, TypeOK
  <2>2. Arm(p)
    <3>1. ASSUME NEW q \in Scanners, Loop(q) \/ ScanFails(q)
          PROVE  q = p /\ Arm(p)
      <4>1. CASE Scan(q)
        BY <2>1, <4>1 DEF Scan
      <4>2. CASE Arm(q)
        BY <2>1, <4>2 DEF Arm
      <4>3. CASE Enqueue(q) \/ ScanFails(q)
        BY <2>1, <4>3 DEF Enqueue, ScanFails, Resting
      <4>4. QED
        BY <3>1, <4>1, <4>2, <4>3 DEF Loop
    <3>2. CASE Tick \/ UNCHANGED vars
      BY <3>2 DEF Tick, vars
    <3>3. ASSUME NEW u \in Users, Request(u) \/ Write(u)
          PROVE  UNCHANGED scan
      BY <3>3 DEF Request, Rename, SetEnabled, Retime, Begin, Delete, RunNow, Write
    <3>4. QED
      BY <1>3, <3>1, <3>2, <3>3 DEF Next
  <2>3. row # None /\ row.next = scan[p].next
    BY <2>1, <2>2 DEF Arm, Resting
  <2>4. row.next # None
    BY <1>3, <2>3 DEF IInv, ScansGoForward
  <2>5. QED
    BY <1>3, <2>3, <2>4 DEF PlannedInv, Planned
<1>4. QED
  BY <1>1, <1>2, <1>3, ScheduleInvariant, PTL DEF Spec, OnlyEnabledIsArmed
=============================================================================
