----------------------------- MODULE MCLibrary -----------------------------
(***************************************************************************)
(* One content that two knowledge bases share is enough for documents to   *)
(* compete for one original; the two bases make two different requests.    *)
(***************************************************************************)
EXTENDS Library, TLC

Symmetry == Permutations(Threads) \union Permutations(Kbs)
=============================================================================
