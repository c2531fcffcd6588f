---------------------------- MODULE MCLiveTurns ----------------------------
(* Constants of the runs of LiveTurns. *)
EXTENDS LiveTurns, TLC

CONSTANTS c1, LastTurn, First, Second

MCTurns == 1 .. LastTurn
MCOnePage == {c1}
MCMaxEvents == [t \in Turns |-> IF t = 1 THEN First ELSE Second]
=============================================================================
