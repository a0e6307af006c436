------------------------ MODULE MCCoSimulationStatus ------------------------
(* Model values for checking CoSimulationStatus with TLC.                  *)
EXTENDS CoSimulationStatus

=============================================================================
