------------------------- MODULE MCProductionApproval -------------------------
(***************************************************************************)
(* Small instances of ProductionApproval.                                  *)
(***************************************************************************)
EXTENDS ProductionApproval, TLC

Callers == Permutations(Users) \union Permutations(Admins)
             \union Permutations(Corridors)
===============================================================================
