-------------------------- MODULE MCRequestReply --------------------------
(* The instance of RequestReply that TLC checks.                           *)
EXTENDS RequestReply

\* A request that times out, one that finds its late reply, one that runs into
\* the next, and one after things have settled.
FourRequests == 4

=============================================================================
