---------------------------- MODULE MCModelParam ----------------------------
(* A model with one link and a joint of each kind, for checking ModelParam *)
(* with TLC.                                                               *)
EXTENDS ModelParam

Degrees == [j \in Joint |-> CASE j = "fixed" -> 0
                              [] j = "hinge" -> 1
                              [] OTHER -> 2]

=============================================================================
