---------------------------- MODULE LookupVerdicts ----------------------------
(***************************************************************************)
(* What a lookup concludes from what it found in the registry: the         *)
(* decisions of lookupVerifiedDestination, lookupRecipientConfirmation and *)
(* the two evaluate functions of resolution.service.ts.                    *)
(*                                                                         *)
(* A lookup reads the identifier, the asset network and the destinations   *)
(* in statements of their own, while the registry changes; so what it      *)
(* found may be any combination, and is an input here.  Abstracted: names, *)
(* platforms and addresses of the answer, and its flags, which are empty   *)
(* exactly if the risk is LOW.                                             *)
(***************************************************************************)
EXTENDS Naturals

Found ==
  [direction : {"BY_RECIPIENT", "BY_ADDRESS"},
   identified : BOOLEAN,           \* a RESOLVABLE identifier in use
   supported : BOOLEAN,            \* an active asset network
   destinations : 0 .. 2,          \* in force; 2 stands for several
   matches : BOOLEAN,              \* the one in force is the address given
   platforms : 1 .. 2,             \* of the partners that attest the address
   platformGiven : BOOLEAN]

Risks == {"LOW", "HIGH", "CRITICAL"}

Verdict ==
  [outcome : {"RESOLVED", "MISMATCH", "UNVERIFIED", "AMBIGUOUS", "NO_MATCH", "ERROR"},
   risk : Risks,
   recommendation :
     {"safe_to_send", "do_not_send", "recipient_not_found", "address_not_confirmed",
      "unsupported_asset_network", "no_verified_destination",
      "manual_review_required", "select_platform", "invalid_request"},
   verified : BOOLEAN]

Refusal(outcome, risk, recommendation) ==
  [outcome |-> outcome, risk |-> risk, recommendation |-> recommendation,
   verified |-> FALSE]

Safe ==
  [outcome |-> "RESOLVED", risk |-> "LOW", recommendation |-> "safe_to_send",
   verified |-> TRUE]

Unsupported == Refusal("UNVERIFIED", "HIGH", "unsupported_asset_network")
Several == Refusal("AMBIGUOUS", "CRITICAL", "manual_review_required")

\* evaluateVerifyLookup.  The identifier is looked for before the network.
VerifyVerdict(found) ==
  CASE ~found.identified -> Refusal("NO_MATCH", "HIGH", "recipient_not_found")
    [] found.identified /\ ~found.supported -> Unsupported
    [] found.identified /\ found.supported ->
         CASE found.destinations = 0 ->
                Refusal("UNVERIFIED", "HIGH", "no_verified_destination")
           [] found.destinations > 1 -> Several
           [] found.destinations = 1 /\ found.matches -> Safe
           [] found.destinations = 1 /\ ~found.matches ->
                Refusal("MISMATCH", "HIGH", "do_not_send")

\* evaluateConfirmLookup, which looks destinations up by the address.
ConfirmVerdict(found) ==
  CASE ~found.supported -> Unsupported
    [] found.supported /\ found.destinations = 0 ->
         Refusal("NO_MATCH", "HIGH", "address_not_confirmed")
    [] found.supported /\ found.destinations = 1 -> Safe
    [] found.supported /\ found.destinations > 1 ->
         IF ~found.platformGiven /\ found.platforms > 1
         THEN Refusal("AMBIGUOUS", "HIGH", "select_platform") ELSE Several

VerdictOn(found) ==
  IF found.direction = "BY_RECIPIENT" THEN VerifyVerdict(found)
  ELSE ConfirmVerdict(found)

Dangerous(verdict) == verdict.risk \in {"HIGH", "CRITICAL"}
===============================================================================
