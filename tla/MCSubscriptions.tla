-------------------------- MODULE MCSubscriptions --------------------------
(* Small times and few messages, for checking Subscriptions with TLC.      *)
EXTENDS Subscriptions

=============================================================================
