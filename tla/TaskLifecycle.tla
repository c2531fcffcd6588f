--------------------------- MODULE TaskLifecycle ---------------------------
(***************************************************************************)
(* What the task table promises the rest of KYLAB, without owners, leases, *)
(* clocks or consumers: a task that was submitted waits, is started at most *)
(* MaxAttempts times, goes back to waiting only while a start is left, and *)
(* once it has ended it never moves again.  TaskQueue implements it.       *)
(***************************************************************************)
EXTENDS Naturals

CONSTANTS
    Tasks,        \* task ids
    MaxAttempts   \* MaxAttempts[t]: how often t may be started

VARIABLES
    phase,        \* phase[t]: "absent", "waiting", "started" or "ended"
    starts        \* starts[t]: how often t was started

vars == <<phase, starts>>

Init ==
    /\ phase = [t \in Tasks |-> "absent"]
    /\ starts = [t \in Tasks |-> 0]

\* Each step lets any set of tasks make a move of the same kind: a cancel, a
\* delete or a reclaim of the implementation touches several rows at once.
Submit(t) ==
    /\ phase[t] = "absent"
    /\ phase' = [phase EXCEPT ![t] = "waiting"]
    /\ UNCHANGED starts

Start(t) ==
    /\ phase[t] = "waiting"
    /\ starts[t] < MaxAttempts[t]
    /\ phase' = [phase EXCEPT ![t] = "started"]
    /\ starts' = [starts EXCEPT ![t] = @ + 1]

MayReturn == {t \in Tasks : phase[t] = "started" /\ starts[t] < MaxAttempts[t]}
MayEnd    == {t \in Tasks : phase[t] \in {"waiting", "started"}}

Settle(back, over) ==
    /\ back \subseteq MayReturn
    /\ over \subseteq MayEnd
    /\ phase' = [t \in Tasks |-> IF t \in back THEN "waiting"
                                 ELSE IF t \in over THEN "ended"
                                 ELSE phase[t]]
    /\ UNCHANGED starts

Next ==
    \/ \E t \in Tasks : Submit(t) \/ Start(t)
    \/ \E back, over \in SUBSET Tasks : Settle(back, over)

Spec == Init /\ [][Next]_vars
=============================================================================
