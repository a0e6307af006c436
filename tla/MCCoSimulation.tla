--------------------------- MODULE MCCoSimulation ---------------------------
(* The instances of CoSimulation that TLC checks.                          *)
EXTENDS CoSimulation

\* A client that holds the co-simulation, and one that wants it or only steps.
TwoClients == {"holder", "other"}

\* A grant and a renewal, or the co-simulations of both clients.
TwoLeases == 2

\* One more, for a wait that outlives the lease it was armed for.
ThreeLeases == 3

\* A step that is the last of a request, and one that is not.
TwoSteps == 2

=============================================================================
