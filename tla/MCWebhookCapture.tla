-------------------------- MODULE MCWebhookCapture --------------------------
(* Values of WebhookCapture's constants for TLC. *)
EXTENDS WebhookCapture, TLC

MCPrice == [r \in Refs |-> 5]
=============================================================================
