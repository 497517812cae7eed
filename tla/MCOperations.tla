----------------------------- MODULE MCOperations -----------------------------
(***************************************************************************)
(* A small instance of Operations.                                         *)
(***************************************************************************)
EXTENDS Operations

Finding(direction, supported, destinations, matches) ==
  [direction |-> direction, identified |-> TRUE, supported |-> supported,
   destinations |-> destinations, matches |-> matches, platforms |-> 1,
   platformGiven |-> TRUE]

\* One finding that is safe and one that is not; rows that fail count as blocked.
SafeAndUnsupported ==
  {Finding("BY_RECIPIENT", TRUE, 1, TRUE), Finding("BY_ADDRESS", FALSE, 0, FALSE)}
===============================================================================
