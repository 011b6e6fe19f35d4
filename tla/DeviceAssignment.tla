--------------------------- MODULE DeviceAssignment ---------------------------
(***************************************************************************)
(* What the job repository promises to the machines it serves, with states,*)
(* leases, the manifest and restarts left out: a device has at most one    *)
(* job at a time, a job is given to one device once and for good, and when *)
(* it is over it never comes back.  Losing the store is the only way to    *)
(* lose an assignment that is not over.                                    *)
(***************************************************************************)
CONSTANTS
  JobId, DeviceId,
  Nobody,          \* not a job
  MayLoseStore     \* whether the store can be lost

VARIABLES
  assigned,   \* the job each device is to run, or Nobody
  drawn       \* the jobs ever drawn up

assignmentVars == <<assigned, drawn>>

AssignmentInit ==
  /\ assigned = [d \in DeviceId |-> Nobody]
  /\ drawn = {}

\* A job is drawn up and given to a free device, or turned down.
Assign(d, j) ==
  /\ j \in JobId \ drawn
  /\ assigned[d] = Nobody
  /\ assigned' = [assigned EXCEPT ![d] = j]
  /\ drawn' = drawn \cup {j}

TurnDown(j) ==
  /\ j \in JobId \ drawn
  /\ drawn' = drawn \cup {j}
  /\ UNCHANGED assigned

\* The job of a device is over, or is deleted.
Release(d) ==
  /\ assigned[d] # Nobody
  /\ assigned' = [assigned EXCEPT ![d] = Nobody]
  /\ UNCHANGED drawn

\* The store is lost; a job being drawn up is lost with it.
LoseStore ==
  /\ MayLoseStore
  /\ assigned' = [d \in DeviceId |-> Nobody]
  /\ \/ UNCHANGED drawn
     \/ \E j \in JobId : drawn' = drawn \cup {j}

AssignmentNext ==
  \/ \E d \in DeviceId, j \in JobId : Assign(d, j)
  \/ \E j \in JobId : TurnDown(j)
  \/ \E d \in DeviceId : Release(d)
  \/ LoseStore

AssignmentSpec == AssignmentInit /\ [][AssignmentNext]_assignmentVars
===============================================================================
