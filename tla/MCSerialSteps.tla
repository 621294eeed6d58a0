--------------------------- MODULE MCSerialSteps ----------------------------
(***************************************************************************)
(* Small instances of SerialSteps for TLC.                                  *)
(***************************************************************************)
EXTENDS SerialSteps, TLC

Symmetry ==
    Permutations(User) \cup Permutations(Filename) \cup Permutations(Chunk)
=============================================================================
