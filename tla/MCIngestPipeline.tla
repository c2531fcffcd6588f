-------------------------- MODULE MCIngestPipeline --------------------------
(* Constants of the runs of IngestPipeline: how often each event may        *)
(* happen, and how many runners, requests and contents there are.           *)
EXTENDS IngestPipeline, TLC

CONSTANTS t1, t2, r1, r2, c1, c2, v1, v2,
          Attempts, Crashes, Lapses, Errors, Rejects, Misses, Cancels, Edits

MCTasks == {t1, t2}
MCRunners == {r1, r2}
MCOneRunner == {r1}
MCClients == {c1, c2}
MCOneClient == {c1}
MCVersions == {v1, v2}
MCOneVersion == {v1}
MCMaxAttempts == [t \in Tasks |-> Attempts]
MCBudget == [crash |-> Crashes, lapse |-> Lapses, error |-> Errors,
             reject |-> Rejects, miss |-> Misses, cancel |-> Cancels, edit |-> Edits]
Symmetry == Permutations(Tasks) \cup Permutations(Runners) \cup Permutations(Versions)
            \cup Permutations(Clients)
=============================================================================
