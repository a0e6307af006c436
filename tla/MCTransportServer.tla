------------------------ MODULE MCTransportServer ------------------------
(* The instance of TransportServer that TLC checks.                        *)
EXTENDS TransportServer

\* Two runs: the second finds what the first shutdown has left.
TwoRuns == 2

=============================================================================
