---------------------------- MODULE MCHS2Client ----------------------------
(* HS2Client on small sets of pointers, connections and handles.            *)
EXTENDS HS2Client, TLC

Symmetry ==
  Permutations(Conns) \cup Permutations(SessionPtrs)
    \cup Permutations(OperationPtrs) \cup Permutations(SessionHandles)
    \cup Permutations(OperationHandles)
=============================================================================
