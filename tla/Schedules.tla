----------------------------- MODULE Schedules -----------------------------
(***************************************************************************)
(* One scheduled task and who writes its row: the schedule loops of the    *)
(* server processes, which arm it with a compare-and-set on next_run_at and *)
(* then enqueue a task, and users, whose requests read the row and write   *)
(* all of it back (services/schedules.py).                                 *)
(*                                                                         *)
(* Within a process a scan is one uninterrupted call on the event loop, so *)
(* a scanner stands for a process; requests are served in threads.  Time   *)
(* is a number of slots; a cron expression is "every slot".                *)
(***************************************************************************)
EXTENDS Naturals

CONSTANTS
    Scanners,  \* processes that scan for due schedules
    Users,     \* requests served at the same time
    Kinds,     \* kinds a schedule may have, from {"cron", "once"}
    LastSlot,  \* bound on the time
    Budget,    \* Budget[k]: how often k happens, for k in Events
    None       \* NULL; also the row that does not exist any more

Events == {"edit", "fault"}
Times  == 0 .. (LastSlot + 1)

ASSUME ScheduleAssumption ==
    /\ Kinds \subseteq {"cron", "once"}
    /\ LastSlot \in Nat
    /\ None \notin Times
    /\ Budget \in [Events -> Nat]

VARIABLES
    now,     \* the current slot
    row,     \* the row of scheduled_tasks
    scan,    \* scan[p]: what the loop of p is doing, with the row it read
    edit,    \* edit[u]: the row u is about to write, None if there is none
    queued,  \* queued[s]: tasks put into the queue for the slot s
    manual,  \* tasks put into the queue by hand
    left     \* left[k]: how often k may still happen

vars == <<now, row, scan, edit, queued, manual, left>>

\* What a schedule may be set to: a cron expression, or one moment.
Whens == {[kind |-> k, runAt |-> IF k = "once" THEN r ELSE None] : k \in Kinds, r \in 1 .. LastSlot}

Resting == [pc |-> "rest", next |-> None, following |-> None, enabled |-> FALSE]

\* Mutant: the slot right after the moment is left out.
FirstRunTooLate(kind, runAt, at) ==
    IF kind = "once" THEN (IF runAt > at THEN runAt ELSE None) ELSE at + 2

\* The next run strictly after the moment `at`.
FirstRun(kind, runAt, at) ==
    IF kind = "once" THEN (IF runAt > at THEN runAt ELSE None) ELSE at + 1

Init ==
    /\ now = 0
    /\ \E w \in Whens :
         row = [kind |-> w.kind, runAt |-> w.runAt, enabled |-> TRUE,
                next |-> FirstRun(w.kind, w.runAt, 0)]
    /\ scan = [p \in Scanners |-> Resting]
    /\ edit = [u \in Users |-> None]
    /\ queued = [s \in Times |-> 0]
    /\ manual = 0
    /\ left = Budget

Spend(k) == left[k] > 0 /\ left' = [left EXCEPT ![k] = @ - 1]

Tick ==
    /\ now < LastSlot
    /\ now' = now + 1
    /\ UNCHANGED <<row, scan, edit, queued, manual, left>>

-----------------------------------------------------------------------------
(* The schedule loop *)

Due == row # None /\ row.enabled /\ row.next # None /\ row.next <= now

\* The row is read, and where it will be moved is worked out from what was
\* read and from the moment of the scan: a one-off stays where it is and is
\* switched off, the others go on to their next slot.
Scan(p) ==
    /\ scan[p].pc = "rest"
    /\ Due
    /\ scan' = [scan EXCEPT ![p] =
         [pc |-> "arm", next |-> row.next, enabled |-> row.kind # "once",
          following |-> IF row.kind = "once" THEN row.next
                        ELSE FirstRun(row.kind, row.runAt, now)]]
    /\ UNCHANGED <<now, row, edit, queued, manual, left>>

\* Mutant: the row is written without comparing it with what was read.
ArmBlindly(p) ==
    /\ scan[p].pc = "arm"
    /\ IF row # None
       THEN /\ row' = [row EXCEPT !.next = scan[p].following, !.enabled = scan[p].enabled]
            /\ scan' = [scan EXCEPT ![p].pc = "enqueue"]
       ELSE scan' = [scan EXCEPT ![p] = Resting] /\ UNCHANGED row
    /\ UNCHANGED <<now, edit, queued, manual, left>>

\* The compare-and-set: only next_run_at is compared.
Arm(p) ==
    /\ scan[p].pc = "arm"
    /\ IF row # None /\ row.next = scan[p].next
       THEN /\ row' = [row EXCEPT !.next = scan[p].following, !.enabled = scan[p].enabled]
            /\ scan' = [scan EXCEPT ![p].pc = "enqueue"]
       ELSE scan' = [scan EXCEPT ![p] = Resting] /\ UNCHANGED row
    /\ UNCHANGED <<now, edit, queued, manual, left>>

\* Mutant: nothing is enqueued behind a late arm.
EnqueueInTime(p) ==
    /\ scan[p].pc = "enqueue"
    /\ queued' = IF scan[p].next = now THEN [queued EXCEPT ![scan[p].next] = @ + 1] ELSE queued
    /\ scan' = [scan EXCEPT ![p] = Resting]
    /\ UNCHANGED <<now, row, edit, manual, left>>

Enqueue(p) ==
    /\ scan[p].pc = "enqueue"
    /\ queued' = [queued EXCEPT ![scan[p].next] = @ + 1]
    /\ scan' = [scan EXCEPT ![p] = Resting]
    /\ UNCHANGED <<now, row, edit, manual, left>>

\* A statement of the scan fails (it is logged, and the loop goes on), or the
\* process dies and another one takes its place.
ScanFails(p) ==
    /\ scan[p].pc # "rest"
    /\ Spend("fault")
    /\ scan' = [scan EXCEPT ![p] = Resting]
    /\ UNCHANGED <<now, row, edit, queued, manual>>

-----------------------------------------------------------------------------
(* Requests of users *)

Begin(u, changed) ==
    /\ row # None /\ edit[u] = None
    /\ Spend("edit")
    /\ edit' = [edit EXCEPT ![u] = changed]
    /\ UNCHANGED <<now, row, scan, queued, manual>>

\* Another name, prompt or model: the time columns are written back as read.
Rename(u) == Begin(u, row)

\* Mutant: a disabled schedule keeps its next run.
KeepNextRun(u, enabled) ==
    Begin(u, [row EXCEPT !.enabled = enabled,
                         !.next = IF enabled THEN FirstRun(row.kind, row.runAt, now) ELSE @])

SetEnabled(u, enabled) ==
    Begin(u, [row EXCEPT !.enabled = enabled,
                         !.next = IF enabled THEN FirstRun(row.kind, row.runAt, now) ELSE None])

Retime(u, w) ==
    Begin(u, [row EXCEPT !.kind = w.kind, !.runAt = w.runAt,
                         !.next = IF row.enabled THEN FirstRun(w.kind, w.runAt, now) ELSE None])

\* update_scheduled_task writes every column, whatever the row holds by now.
Write(u) ==
    /\ edit[u] # None
    /\ row' = IF row = None THEN None ELSE edit[u]
    /\ edit' = [edit EXCEPT ![u] = None]
    /\ UNCHANGED <<now, scan, queued, manual, left>>

Delete(u) ==
    /\ row # None /\ edit[u] = None
    /\ Spend("edit")
    /\ row' = None
    /\ UNCHANGED <<now, scan, edit, queued, manual>>

RunNow(u) ==
    /\ row # None /\ edit[u] = None
    /\ Spend("edit")
    /\ manual' = manual + 1
    /\ UNCHANGED <<now, row, scan, edit, queued>>

Loop(p) == Scan(p) \/ Arm(p) \/ Enqueue(p)

Request(u) ==
    \/ Rename(u) \/ \E enabled \in BOOLEAN : SetEnabled(u, enabled)
    \/ \E w \in Whens : Retime(u, w)
    \/ Delete(u) \/ RunNow(u)

Next ==
    \/ Tick
    \/ \E p \in Scanners : Loop(p) \/ ScanFails(p)
    \/ \E u \in Users : Request(u) \/ Write(u)

Spec == Init /\ [][Next]_vars

\* Every loop keeps scanning and every request is served.
FairSpec ==
    /\ Spec
    /\ \A p \in Scanners : WF_vars(Loop(p))
    /\ \A u \in Users : WF_vars(Write(u))

-----------------------------------------------------------------------------
(* Properties *)

Rows == [kind : Kinds, runAt : Times \cup {None}, enabled : BOOLEAN, next : Times \cup {None}]

\* Every variable keeps its type; in particular no run is planned beyond the
\* slot after the last one the clock may reach.
TypeOK ==
    /\ now \in 0 .. LastSlot
    /\ row \in Rows \cup {None}
    /\ scan \in [Scanners -> [pc : {"rest", "arm", "enqueue"}, next : Times \cup {None},
                              following : Times \cup {None}, enabled : BOOLEAN]]
    /\ edit \in [Users -> Rows \cup {None}]
    /\ queued \in [Times -> Nat]
    /\ manual \in Nat
    /\ left \in [Events -> Nat]

\* No user has touched the schedule; and no scan has failed either.
Untouched == left.edit = Budget.edit
Undisturbed == left = Budget

\* Whichever processes see the schedule due at the same time, a slot is run at
\* most once - as long as no user's request interferes.
EachSlotFiresOnce == Untouched => \A s \in Times : queued[s] <= 1

\* A schedule that is switched off or deleted by the time a scan gets to it is
\* not run, whatever the requests and the scans that overlap.
OnlyEnabledIsArmed ==
    [][\A p \in Scanners : scan[p].pc = "arm" /\ scan'[p].pc = "enqueue"
                           => row # None /\ row.enabled]_vars

\* A schedule that is due is run, late if need be and by whichever process.
DueIsRun ==
    \A s \in Times : Due /\ row.next = s ~> queued[s] > 0 \/ ~Undisturbed
=============================================================================
