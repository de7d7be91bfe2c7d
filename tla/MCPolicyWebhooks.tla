--------------------------- MODULE MCPolicyWebhooks ---------------------------
(* PolicyWebhooks with the webhooks of one or two policies. *)
EXTENDS PolicyWebhooks
===============================================================================
