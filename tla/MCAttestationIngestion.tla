----------------------- MODULE MCAttestationIngestion -----------------------
(***************************************************************************)
(* A small instance of AttestationIngestion: the attestations a partner    *)
(* has signed, delivered in any order, any of them more than once.         *)
(***************************************************************************)
EXTENDS AttestationIngestion

CONSTANTS r1, r2, i1, i2, a1, a2, h1, h2, k1, never, unwritten

Assign(r, i, a, s) ==
  [revocation |-> FALSE, recipient |-> r, identifier |-> i, address |-> a,
   sequence |-> s, effectiveFrom |-> 0, expiresAt |-> Never]
Revoke(r, i, a, s) == [Assign(r, i, a, s) EXCEPT !.revocation = TRUE,
                                                 !.expiresAt = 1]

(* Two recipients: an assignment of each, one of them for a limited time;  *)
(* then both identifiers change hands, with an assignment and a revocation *)
(* that bear the same sequence number; and an assignment that brings r2    *)
(* back to its first address, with a number that r1 may have used.         *)
Signed ==
  {Assign(r1, i1, a1, 1),
   [Assign(r2, i2, a2, 2) EXCEPT !.expiresAt = 1],
   Assign(r2, i1, a1, 3),
   Revoke(r1, i2, a1, 3),
   Assign(r2, i2, a2, 1)}
=============================================================================
