----------------------------- MODULE MCRosNode -----------------------------
(* A clock of a few slots, for checking RosNode with TLC.                  *)
EXTENDS RosNode

=============================================================================
