-------------------------- MODULE MCProfessionals --------------------------
(* Professionals for TLC. *)
EXTENDS Professionals, TLC

StaffSymmetry == Permutations(Staff) \cup Permutations(SuperAdmins) \cup Permutations(Contacts) \cup Permutations(Pros)
=============================================================================
