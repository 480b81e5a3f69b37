----------------------------- MODULE LeaderLock -----------------------------
(***************************************************************************)
(* RedisLock.Run (pkg/leader): take the lease, run a body while the lease  *)
(* is renewed, cancel the body when it is not.  A lease runs out when it   *)
(* is not renewed: under a running body only if Redis or the process is    *)
(* held up, which counts as a fault.                                       *)
(***************************************************************************)
EXTENDS Bound

CONSTANT Pods

ASSUME LockAssumption == "none" \notin Pods

VARIABLES
  lease,       \* the owner in Redis, or "none"
  pod,         \* pod -> where its Run is
  early        \* bodies whose lease was gone before they ended (history)

lockVars == <<lease, pod, early>>

PodState == {"seeking", "leading", "stopping", "draining", "gone"}
Bodies == {p \in Pods : pod[p] \in {"leading", "stopping", "draining"}}
PodTo(p, state) == pod' = [pod EXCEPT ![p] = state]
Release(p) == lease' = IF lease = p THEN "none" ELSE lease

\* SET without NX
TryAcquireBug(p) ==
  /\ pod[p] = "seeking"
  /\ lease' = p /\ PodTo(p, "leading") /\ NoFault
  /\ UNCHANGED early

\* SETNX; an error leaves it open whether the lease is taken.
TryAcquire(p) ==
  /\ pod[p] = "seeking"
  /\ \/ lease = "none" /\ lease' = p /\ PodTo(p, "leading") /\ NoFault
     \/ lease = "none" /\ Fault /\ lease' = p /\ UNCHANGED pod
  /\ UNCHANGED early

\* The TTL runs out.
Expire ==
  /\ lease # "none"
  /\ lease' = "none"
  /\ IF lease \in Bodies
       THEN Fault /\ early' = early \cup {lease}
       ELSE NoFault /\ UNCHANGED early
  /\ UNCHANGED pod

\* A renewal that fails, or finds another owner, cancels the body.
Renew(p) ==
  /\ pod[p] = "leading"
  /\ (lease # p /\ NoFault) \/ (lease = p /\ Fault)
  /\ PodTo(p, "stopping")
  /\ UNCHANGED <<lease, early>>

\* not waited for, and the lease given back whoever holds it
BodyStopsBug(p) ==
  /\ pod[p] = "stopping"
  /\ lease' = "none" /\ PodTo(p, "seeking")
  /\ early' = early \ {p}
  /\ NoFault

\* The cancelled body has been waited for.
BodyStops(p) ==
  /\ pod[p] = "stopping"
  /\ Release(p) /\ PodTo(p, "seeking")
  /\ early' = early \ {p}
  /\ NoFault

\* The process is told to stop: the lease is given back and nobody waits.
Shutdown(p) ==
  /\ pod[p] \in {"seeking", "leading"} /\ Fault
  /\ IF pod[p] = "leading"
       THEN Release(p) /\ PodTo(p, "draining") /\ early' = early \cup {p}
       ELSE PodTo(p, "gone") /\ UNCHANGED <<lease, early>>

Gone(p) == PodTo(p, "gone") /\ early' = early \ {p} /\ UNCHANGED lease

Exit(p) == pod[p] = "draining" /\ Gone(p) /\ NoFault
Crash(p) == pod[p] # "gone" /\ Gone(p) /\ Fault
Restart(p) == pod[p] = "gone" /\ PodTo(p, "seeking") /\ NoFault /\ UNCHANGED <<lease, early>>

-----------------------------------------------------------------------------
LockInit == lease = "none" /\ pod = [p \in Pods |-> "seeking"] /\ early = {}

-----------------------------------------------------------------------------
LockTypeOK ==
  /\ lease \in Pods \cup {"none"} /\ pod \in [Pods -> PodState] /\ early \subseteq Bodies

\* A body runs beside the lease holder's only when its own lease was lost before
\* it noticed (redis.go:130) or given back at shutdown before it had ended
\* (redis.go:121): nobody takes, renews or releases the lease of another.
OneBody ==
  \A p \in Bodies : lease = p \/ p \in early
=============================================================================
