---------------------------- MODULE MCTaskQueue ----------------------------
(* Constants of the runs of TaskQueue: t1 and t2 belong to one document (an *)
(* ingest and a questions task, say), t3 to none.                           *)
EXTENDS TaskQueue, TLC

CONSTANTS t1, t2, t3, d1, w1, w2

MCOwners == {w1, w2}
MCDocs == {d1}
OwnerSymmetry == Permutations(MCOwners)

MCTasks == {t1, t2, t3}
MCDocOf == (t1 :> d1) @@ (t2 :> d1) @@ (t3 :> NoDoc)
MCMaxAttempts == (t1 :> 2) @@ (t2 :> 1) @@ (t3 :> 2)
=============================================================================
