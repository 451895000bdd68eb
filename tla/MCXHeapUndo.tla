---------------------------- MODULE MCXHeapUndo ----------------------------
(* XHeapUndo for TLC: backends are interchangeable, and so are workers.    *)
EXTENDS XHeapUndo, TLC

Symmetry == Permutations(Backends) \cup Permutations(Workers)
=============================================================================
