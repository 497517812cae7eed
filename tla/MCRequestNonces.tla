--------------------------- MODULE MCRequestNonces ---------------------------
(***************************************************************************)
(* Small instances of RequestNonces.                                       *)
(***************************************************************************)
EXTENDS RequestNonces, TLC

Alike == Permutations(Handlers) \union Permutations(Hashes)
=============================================================================
