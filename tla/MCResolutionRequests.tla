------------------------ MODULE MCResolutionRequests ------------------------
(***************************************************************************)
(* Small instances of ResolutionRequests.                                  *)
(***************************************************************************)
EXTENDS ResolutionRequests, TLC

CONSTANTS s1, a1, a2

Verify(s, a) == [type |-> "VERIFY_ADDRESS", subject |-> s, provided |-> a]

(* One request whose answer is a match, a mismatch or unverified.          *)
OneLookup == {Verify(s1, a1)}

(* The server's request slots are interchangeable.                         *)
Slots == Permutations(Handlers)
=============================================================================
