---------------------------- MODULE MCSaveFaults ----------------------------
(* Inputs are interchangeable, and so are the bytes of the map.             *)
EXTENDS SaveFaults, TLC

Symmetry == Permutations(Inputs) \cup Permutations(Edges)
=============================================================================
