----------------------------- MODULE MCWebhooks -----------------------------
(***************************************************************************)
(* One endpoint that may filter, two messages, two dispatchers, in four    *)
(* environments: batches overlap, endpoints refuse; everything goes wrong  *)
(* in batches that do not overlap; only requests fail, or are refused.     *)
(***************************************************************************)
EXTENDS Webhooks, TLC
CONSTANTS e1, m1, m2, k1, k2
MCEndpoints == {e1}
MCMessages == {m1, m2}
MCFilters == {{}, {m1}}
MCDispatchers == {k1, k2}
MCWebhookSettings == {{"overlap", "refused"}, WebhookFaults \ {"overlap"},
               {"refused", "answerLost"}, {"refused"}}
=============================================================================
