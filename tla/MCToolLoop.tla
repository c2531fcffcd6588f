----------------------------- MODULE MCToolLoop -----------------------------
(* A small instance of ToolLoop: one thread that runs two turns, each of the *)
(* one conversation or of none.  What others do to the registry, the rules   *)
(* and the mode is OpenElsewhere and the edits.                              *)
EXTENDS ToolLoop, TLC

MCTurnsOf == [c \in Loops |-> 2]
MCStepsOf == [c \in Loops |-> 2]
MCBatchOf == [c \in Loops |-> 2]
=============================================================================
