----------------------------- MODULE MCAIAnalysis -----------------------------
(***************************************************************************)
(* Small instances of AIAnalysis for TLC.                                  *)
(***************************************************************************)
EXTENDS AIAnalysis, TLC

Symmetry == Permutations(Clients) \union Permutations(Workers)
=============================================================================
