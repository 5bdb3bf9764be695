----------------------------- MODULE MCAccounts -----------------------------
(* Two operations at a time, an email that is taken or free, and three     *)
(* passwords: one replaced and two that compete to replace it.             *)
EXTENDS Accounts, TLC

Symmetry == Permutations(Passwords) \cup Permutations(Operations)
=============================================================================
