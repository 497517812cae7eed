------------------------- MODULE MCWebhookDelivery -------------------------
(* Instances of WebhookDelivery for TLC. *)
EXTENDS WebhookDelivery

CONSTANTS e1, e2, w1, w2, p1, a1

OneEndpoint == {e1}
TwoEndpoints == {e1, e2}
TwoWorkers == {w1, w2}

=============================================================================
