---------------------------- MODULE MCTaskWorker ----------------------------
(* Constants of the runs of TaskWorker: two consumers in one process with a *)
(* document task, or with a document task and another one.                  *)
EXTENDS TaskWorker, TLC

CONSTANTS t1, t2, d1, w1, w2

MCOwners == {w1, w2}
MCDocs == {d1}

OneTask == {t1}
OneDocOf == t1 :> d1
OneMaxAttempts == t1 :> 2

MCTasks == {t1, t2}
MCDocOf == (t1 :> d1) @@ (t2 :> NoDoc)
MCMaxAttempts == (t1 :> 2) @@ (t2 :> 1)
=============================================================================
