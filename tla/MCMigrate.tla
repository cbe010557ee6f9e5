----------------------------- MODULE MCMigrate -----------------------------
(***************************************************************************)
(* Migrate for TLC: processes differ in nothing but their names.           *)
(***************************************************************************)
EXTENDS Migrate, TLC

MCSymmetry == Permutations(Processes)
=============================================================================
