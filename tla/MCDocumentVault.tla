--------------------------- MODULE MCDocumentVault ---------------------------
(* Instance of DocumentVault for TLC: names are interchangeable.           *)
EXTENDS DocumentVault, TLC

Symmetry == Permutations(Procs) \cup Permutations(Paths)
              \cup Permutations(Dongles) \cup Permutations(Docs)
=============================================================================
