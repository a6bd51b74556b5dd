-------------------------- MODULE MCServiceCatalog --------------------------
(* ServiceCatalog for TLC. *)
EXTENDS ServiceCatalog, TLC

PatchSymmetry == Permutations(Admins) \cup Permutations(SuperAdmins)
=============================================================================
