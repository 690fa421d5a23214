----------------------------- MODULE MCAccounts -----------------------------
EXTENDS Accounts, TLC

CONSTANTS root, ann, near, far

(* Addresses are only told apart. *)
Addresses == Permutations({near, far})
=============================================================================
