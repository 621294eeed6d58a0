--------------------------- MODULE MCSharingSteps ---------------------------
(***************************************************************************)
(* Small instances of SharingSteps for TLC.                                 *)
(***************************************************************************)
EXTENDS StepClaims, TLC

Symmetry ==
    Permutations(User) \cup Permutations(Client) \cup Permutations(Filename) \cup Permutations(Chunk)
=============================================================================
