----------------------------- MODULE MCSharing -----------------------------
(***************************************************************************)
(* Small instances of Sharing for TLC.                                      *)
(***************************************************************************)
EXTENDS SharingClaims, Blocks, TLC

\* No operation and no property tells two users, two file names or two chunks apart.
Symmetry == Permutations(User) \cup Permutations(Filename) \cup Permutations(Chunk)
=============================================================================
