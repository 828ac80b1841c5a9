----------------------------- MODULE MCWebhooks -----------------------------
(* Model-checks Webhooks: a delivery of three attempts, a webhook with a   *)
(* log of two entries, and two restarts from any earlier snapshot          *)
(* (MCWebhooks.cfg).  Deliveries meet in nothing but the log of a webhook,  *)
(* where the attempts of one, abandoned or not, meet as well.              *)
(* MCWebhooksLogs.cfg shows what LogsAreOfTheirWebhook says violated: a     *)
(* delivery whose id is given again after a restart.                       *)
EXTENDS Webhooks
=============================================================================
