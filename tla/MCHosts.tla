------------------------------ MODULE MCHosts ------------------------------
(***************************************************************************)
(* Small instances of Hosts for TLC.                                        *)
(***************************************************************************)
EXTENDS Hosts, TLC

\* All names but default are alike.
Symmetry ==
    Permutations(Process) \cup Permutations(Name \ {Default}) \cup Permutations(Server)
    \cup Permutations(User) \cup Permutations(Password)
=============================================================================
