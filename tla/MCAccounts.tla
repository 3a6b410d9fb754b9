----------------------------- MODULE MCAccounts -----------------------------
(***************************************************************************)
(* Instances of Accounts for TLC.  Users, tenants, passwords, calls,       *)
(* sessions and tokens are each interchangeable.                           *)
(***************************************************************************)
EXTENDS Accounts, TLC

Symmetry == Permutations(Users) \cup Permutations(Orgs) \cup Permutations(Passwords)
              \cup Permutations(Calls) \cup Permutations(Sessions) \cup Permutations(Tokens)
=============================================================================
