----------------------- MODULE MCGazeboApplyCommander -----------------------
(* The instance of GazeboApplyCommander that TLC checks.                   *)
EXTENDS GazeboApplyCommander

Body(model, part) == [model |-> model, part |-> part, axis |-> 0]

\* Two links of a model and a joint whose names tell them apart under every key.
DistinctLinks == {Body("cart", "bob"), Body("cart", "tip")}
OneJoint == {Body("cart", "slide")}

\* One that an update between handler and insertion lets expire, one it does not.
ShortAndLong == {1, 2}

=============================================================================
