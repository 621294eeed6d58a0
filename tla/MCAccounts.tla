----------------------------- MODULE MCAccounts -----------------------------
(***************************************************************************)
(* Small instances of Accounts for TLC.                                     *)
(***************************************************************************)
EXTENDS Accounts, TLC

Symmetry == Permutations(Client) \cup Permutations(User) \cup Permutations(Password)
=============================================================================
