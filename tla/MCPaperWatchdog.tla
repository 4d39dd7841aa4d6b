--------------------------- MODULE MCPaperWatchdog ---------------------------
(* Model-checking instances of PaperWatchdog.                              *)
EXTENDS PaperWatchdog, TLC

Symmetry == Permutations(Collectors) \union Permutations(Supervisors)
=============================================================================
