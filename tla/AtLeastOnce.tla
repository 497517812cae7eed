----------------------------- MODULE AtLeastOnce -----------------------------
(***************************************************************************)
(* What the webhooks of a partner promise, without tables, calls or time:  *)
(* every announcement to an endpoint is open until it is delivered or      *)
(* given up; it is delivered only if the receiver took it, given up only   *)
(* after the allowed number of attempts, and neither is ever taken back,   *)
(* but for a delivery whose deliverer is left in doubt whether it was      *)
(* recorded: it may be treated as a failed attempt once, or left alone.    *)
(* Endpoints that have been disabled are excused from all but one of these *)
(* promises: that delivered means taken.                                   *)
(***************************************************************************)
EXTENDS Naturals

CONSTANTS
  Deliveries,   \* announcements, each to one endpoint
  MaxAttempts   \* attempts before one may be given up

VARIABLES
  standing,     \* "none", "open", "delivered" or "givenUp"
  attempted,    \* attempts made
  received,     \* requests the receiver took
  excused,      \* deliveries whose endpoint has been disabled
  doubted       \* deliveries recorded by someone who does not know it

vars == <<standing, attempted, received, excused, doubted>>

Init ==
  /\ standing = [d \in Deliveries |-> "none"]
  /\ attempted = [d \in Deliveries |-> 0]
  /\ received = [d \in Deliveries |-> 0]
  /\ excused = {}
  /\ doubted = {}

Set(D, s) == standing' = [d \in Deliveries |-> IF d \in D THEN s ELSE standing[d]]

\* Deliveries of one event are announced at once.
Announce(D) ==
  /\ \A d \in D : standing[d] = "none"
  /\ Set(D, "open")
  /\ UNCHANGED <<attempted, received, excused, doubted>>

Attempt(d) ==
  /\ standing[d] = "open"
  /\ attempted' = [attempted EXCEPT ![d] = @ + 1]
  /\ UNCHANGED <<standing, received, excused, doubted>>

Open(d) == standing[d] = "open" \/ (d \in excused /\ standing[d] # "none")

Receive(d) ==
  /\ Open(d)
  /\ attempted[d] > 0
  /\ received' = [received EXCEPT ![d] = @ + 1]
  /\ UNCHANGED <<standing, attempted, excused, doubted>>

Deliver(d) ==
  /\ Open(d)
  /\ received[d] > 0
  /\ Set({d}, "delivered")
  /\ UNCHANGED <<attempted, received, excused, doubted>>

\* The record of the delivery is made, but whoever made it is not told.
DeliverInDoubt(d) ==
  /\ Open(d)
  /\ received[d] > 0
  /\ Set({d}, "delivered")
  /\ doubted' = doubted \union {d}
  /\ UNCHANGED <<attempted, received, excused>>

Spent(d) == attempted[d] >= MaxAttempts \/ d \in excused

GiveUp(d) ==
  /\ Open(d)
  /\ Spent(d)
  /\ Set({d}, "givenUp")
  /\ UNCHANGED <<attempted, received, excused, doubted>>

\* Whoever is in doubt takes the attempt for a failed one.
TakeBack(d) ==
  /\ d \in doubted
  /\ standing[d] = "delivered" \/ Open(d)
  /\ \/ Set({d}, "open")
     \/ Spent(d) /\ Set({d}, "givenUp")
  /\ doubted' = doubted \ {d}
  /\ UNCHANGED <<attempted, received, excused>>

\* Or does not come to do so.
LeaveAlone(d) ==
  /\ d \in doubted
  /\ doubted' = doubted \ {d}
  /\ UNCHANGED <<standing, attempted, received, excused>>

\* A late failure reopens what was given up for a disabled endpoint.
Reopen(d) ==
  /\ d \in excused
  /\ standing[d] # "none"
  /\ Set({d}, "open")
  /\ UNCHANGED <<attempted, received, excused, doubted>>

\* An endpoint is disabled; open deliveries are given up with it.
Excuse(D, G) ==
  /\ \A d \in G : standing[d] = "open"
  /\ excused' = excused \union D
  /\ G \subseteq excused'
  /\ Set(G, "givenUp")
  /\ UNCHANGED <<attempted, received, doubted>>

Next ==
  \/ \E D \in SUBSET Deliveries : Announce(D)
  \/ \E d \in Deliveries :
       \/ Attempt(d) \/ Receive(d) \/ Deliver(d) \/ GiveUp(d) \/ Reopen(d)
       \/ DeliverInDoubt(d) \/ TakeBack(d) \/ LeaveAlone(d)
  \/ \E D, G \in SUBSET Deliveries : Excuse(D, G)

Spec == Init /\ [][Next]_vars
=============================================================================
