---------------------------- MODULE MCPartnerAccess ---------------------------
(* PartnerAccess with few callers. *)
EXTENDS PartnerAccess, TLC

Symmetry ==
  Permutations(Handlers) \union Permutations(Keys) \union Permutations(Fields)
=============================================================================
