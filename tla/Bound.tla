-------------------------------- MODULE Bound --------------------------------
(***************************************************************************)
(* The faults of a behaviour: an error of a database, of Redis or of an    *)
(* external service, or the death of the process that serves a request.   *)
(* Shared by the service modules.                                          *)
(***************************************************************************)
EXTENDS Naturals, FiniteSets, Sequences

CONSTANT MaxFaults     \* bound: faults in a behaviour
ASSUME BoundAssumption == MaxFaults \in Nat

VARIABLES
  faults,      \* faults so far
  focus        \* the service a behaviour follows

Fault == faults < MaxFaults /\ faults' = faults + 1
NoFault == UNCHANGED faults
=============================================================================
