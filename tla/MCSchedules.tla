---------------------------- MODULE MCSchedules ----------------------------
(* Constants of the runs of Schedules. *)
EXTENDS Schedules, TLC

CONSTANTS p1, p2, u1, u2, Edits, Faults

MCScanners == {p1, p2}
MCUsers == {u1, u2}
MCCron == {"cron"}
MCBudget == [edit |-> Edits, fault |-> Faults]
=============================================================================
