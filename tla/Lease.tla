------------------------------- MODULE Lease -------------------------------
(***************************************************************************)
(* What the co-simulation status of the Gazebo server promises to its      *)
(* clients: at most one client holds the simulator, only that client can   *)
(* renew or give back the lease, and a lease runs out only if it was last  *)
(* asked for with a finite duration, or if the deadline of an earlier one  *)
(* is late: a finite lease that is renewed, given back or ended may leave  *)
(* its deadline behind.                                                    *)
(*                                                                         *)
(* The module has no deadline timer: CoSimulationStatus implements it with *)
(* a boost deadline timer and a service thread.                            *)
(***************************************************************************)
CONSTANTS
  Client,    \* the client IDs that may ask for co-simulation
  NoClient   \* stands for "nobody", and is not a client

VARIABLES
  holder,    \* the client that holds the lease, or NoClient
  timed,     \* was the current lease last asked for with a finite duration?
  late,      \* may the deadline of an earlier lease still come?
  last       \* the last event at the interface: a call and its result, or an expiry

vars == <<holder, timed, late, last>>

Event(call, id, ok) == [call |-> call, id |-> id, ok |-> ok]

TypeOK ==
  /\ holder \in Client \cup {NoClient}
  /\ timed \in BOOLEAN /\ late \in BOOLEAN
  /\ last \in [call : {"none", "start", "stop", "expire"},
               id : Client \cup {NoClient}, ok : BOOLEAN]

Init ==
  /\ holder = NoClient
  /\ timed = FALSE /\ late = FALSE
  /\ last = Event("none", NoClient, FALSE)

\* The lease is free for c: nobody holds it, or c does.
FreeFor(c) == holder \in {NoClient, c}

\* A lease that is replaced or ends may leave its deadline behind.
LeaveDeadline == late' \in {FALSE, timed \/ late}

\* c asks for the lease, or renews it; a finite duration makes it timed.
Start(c, finite) ==
  /\ last' = Event("start", c, FreeFor(c))
  /\ IF FreeFor(c) THEN holder' = c /\ timed' = finite /\ LeaveDeadline
                   ELSE UNCHANGED <<holder, timed, late>>

\* c gives the lease back; giving back a lease nobody holds succeeds.
Stop(c) ==
  /\ last' = Event("stop", c, FreeFor(c))
  /\ IF FreeFor(c) THEN holder' = NoClient /\ timed' = FALSE /\ LeaveDeadline
                   ELSE UNCHANGED <<holder, timed, late>>

\* A deadline comes, the lease's own or a late one; it ends the lease, if any.
Expire ==
  /\ timed \/ late
  /\ holder' = NoClient
  /\ timed' = FALSE
  /\ LeaveDeadline
  /\ \E c \in Client \cup {NoClient} :
       /\ holder # NoClient => c = holder
       /\ last' = Event("expire", c, TRUE)

\* A deadline that was left behind is gone after all.
Forget ==
  /\ late
  /\ late' = FALSE
  /\ UNCHANGED <<holder, timed, last>>

Next ==
  \/ \E c \in Client, finite \in BOOLEAN : Start(c, finite)
  \/ \E c \in Client : Stop(c)
  \/ Expire
  \/ Forget

Spec == Init /\ [][Next]_vars

=============================================================================
