----------------------------- MODULE MCWebhook -----------------------------
(* Small instances of WebhookDelivery for TLC. *)
EXTENDS WebhookDelivery, TLC

CONSTANTS w1, w2, s1, s2

Everything == {"fanOutEvent", "executeDelivery", "replay", "patch", "delete"}
Due == {"PENDING", "RETRY_SCHEDULED"}
Unsettled == {"PENDING", "RETRY_SCHEDULED", "IN_FLIGHT"}
AnyState == States \ {"NONE"}

WorkerSymmetry == Permutations({w1, w2})
=============================================================================
