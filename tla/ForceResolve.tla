---------------------------- MODULE ForceResolve ----------------------------
(***************************************************************************)
(* Dual control of a forced resolution (service/saga_admin): a second      *)
(* person issues a token, the initiator uses it up, and a saga rests after *)
(* a resolution.  What the engine does with it is Saga.ForceResolve.  The  *)
(* stores are atomic one by one and not together.                          *)
(***************************************************************************)
EXTENDS Bound

CONSTANTS
  Cases,        \* sagas to resolve
  Tokens,
  Staff,
  Nets,         \* the /24 or /48 networks they call from
  V6            \* those of them that are IPv6

ASSUME ForceAssumption == V6 \subseteq Nets

VARIABLES
  token,        \* token -> what it says
  cooling,      \* sagas with a resolution marked in the last 30 minutes
  bid,          \* initiator -> the call it waits for
  resolved,     \* resolutions carried out (history)
  recorded,     \* resolutions in the audit log
  lately,       \* sagas resolved in the last 30 minutes (history)
  gap           \* sagas whose cooldown was missed by an overlap or a failure

forceVars == <<token, cooling, bid, resolved, recorded, lately, gap>>

NoBid == [pc |-> "idle"]
BidAt(i, pc) == bid[i].pc = pc
BidTo(i, pc) == bid' = [bid EXCEPT ![i].pc = pc]
BidEnds(i) == bid' = [bid EXCEPT ![i] = NoBid]
\* the initiator, its call and the token it used, as they are audited
Event(i) == [case |-> bid[i].case, by |-> i, from |-> bid[i].net, tok |-> bid[i].tok]

-----------------------------------------------------------------------------
\* One new token is as good as another.
IssueApproverToken(t, c, s, n) ==
  /\ token[t].state = "none" /\ t = CHOOSE u \in Tokens : token[u].state = "none"
  /\ token' = [token EXCEPT ![t] = [state |-> "fresh", case |-> c, by |-> s, from |-> n]]
  /\ NoFault /\ UNCHANGED <<cooling, bid, resolved, recorded, lately, gap>>

\* Five minutes, or thirty: TokenTTL and Cooldown run out.
TimePasses(rested) ==
  /\ token' = [t \in Tokens |-> IF token[t].state = "fresh" THEN [token[t] EXCEPT !.state = "expired"] ELSE token[t]]
  /\ cooling' = IF rested THEN {} ELSE cooling
  /\ lately' = IF rested THEN {} ELSE lately
  /\ <<token, cooling>>' # <<token, cooling>>
  /\ NoFault /\ UNCHANGED <<bid, resolved, recorded, gap>>

\* LastForceResolveAt: the call goes on with a token when the saga has rested,
ForceResolveBy(i, c, n, t) ==
  /\ bid[i] = NoBid
  /\ c \notin cooling
  /\ bid' = [bid EXCEPT ![i] = [pc |-> "consume", case |-> c, net |-> n, tok |-> t]]
  /\ NoFault /\ UNCHANGED <<token, cooling, resolved, recorded, lately, gap>>

\* same24: two IPv6 addresses are never the same network.
Same24(n, m) == n = m /\ n \notin V6

UsableBy(i) ==
  LET t == token[bid[i].tok] IN t.state = "fresh" /\ t.case = bid[i].case
TwoPersons(i) ==
  LET t == token[bid[i].tok] IN t.by # i /\ ~Same24(bid[i].net, t.from)

\* checked, but not marked as used
ConsumeBug(i) ==
  /\ BidAt(i, "consume")
  /\ IF UsableBy(i) /\ TwoPersons(i) THEN BidTo(i, "resolve") ELSE BidEnds(i)
  /\ NoFault /\ UNCHANGED <<token, cooling, resolved, recorded, lately, gap>>

\* uses the token up, even when the two persons then turn out to be one,
Consume(i) ==
  /\ BidAt(i, "consume")
  /\ IF UsableBy(i)
       THEN /\ token' = [token EXCEPT ![bid[i].tok].state = "consumed"]
            /\ IF TwoPersons(i) THEN BidTo(i, "resolve") ELSE BidEnds(i)
       ELSE BidEnds(i) /\ UNCHANGED token
  /\ NoFault /\ UNCHANGED <<cooling, resolved, recorded, lately, gap>>

Overlapped(i) == \E j \in Staff \ {i} : bid[j] # NoBid /\ bid[j].case = bid[i].case
Gap(i) == gap' = IF Overlapped(i) THEN gap \cup {bid[i].case} ELSE gap

\* resolves,
Resolve(i) ==
  /\ BidAt(i, "resolve")
  /\ resolved' = resolved \cup {Event(i)}
  /\ lately' = lately \cup {bid[i].case} /\ Gap(i)
  /\ BidTo(i, "mark")
  /\ NoFault /\ UNCHANGED <<token, cooling, recorded>>

\* nothing is marked
MarkBug(i) ==
  /\ BidAt(i, "mark")
  /\ BidTo(i, "audit")
  /\ UNCHANGED cooling
  /\ Gap(i)
  /\ NoFault /\ UNCHANGED <<token, resolved, recorded, lately>>

\* starts the cooldown
Mark(i) ==
  /\ BidAt(i, "mark")
  /\ cooling' = cooling \cup {bid[i].case}
  /\ BidTo(i, "audit")
  /\ Gap(i)
  /\ NoFault /\ UNCHANGED <<token, resolved, recorded, lately>>

\* one record is kept
AuditBug(i) ==
  /\ BidAt(i, "audit")
  /\ recorded' = IF recorded = {} THEN {Event(i)} ELSE recorded
  /\ BidEnds(i)
  /\ NoFault /\ UNCHANGED <<token, cooling, resolved, lately, gap>>

\* and writes the audit record.
Audit(i) ==
  /\ BidAt(i, "audit")
  /\ recorded' = recorded \cup {Event(i)}
  /\ BidEnds(i)
  /\ NoFault /\ UNCHANGED <<token, cooling, resolved, lately, gap>>

\* A store, the engine or the audit fails, or the process dies: the call ends
\* where it is.
ForceFails(i) ==
  /\ bid[i] # NoBid
  /\ Fault
  /\ gap' = IF BidAt(i, "mark") THEN gap \cup {bid[i].case} ELSE gap
  /\ BidEnds(i)
  /\ UNCHANGED <<token, cooling, resolved, recorded, lately>>

-----------------------------------------------------------------------------
\* ValidateForceResolve of the engine, as far as the service keeps its data.
ValidateForceResolve(e) ==
  /\ token[e.tok].case = e.case
  /\ token[e.tok].by # e.by
  /\ token[e.tok].from # e.from

-----------------------------------------------------------------------------
ForceInit ==
  /\ token = [t \in Tokens |-> [state |-> "none"]]
  /\ cooling = {} /\ bid = [i \in Staff |-> NoBid]
  /\ resolved = {} /\ recorded = {} /\ lately = {} /\ gap = {}

ForceNext ==
  \/ \E t \in Tokens, c \in Cases, s \in Staff, n \in Nets : IssueApproverToken(t, c, s, n)
  \/ \E rested \in BOOLEAN : TimePasses(rested)
  \/ \E i \in Staff :
       \/ \E c \in Cases, n \in Nets, t \in Tokens : ForceResolveBy(i, c, n, t)
       \/ Consume(i) \/ Resolve(i) \/ Mark(i) \/ Audit(i) \/ ForceFails(i)

-----------------------------------------------------------------------------
ForceTypeOK ==
  /\ \A t \in Tokens : token[t].state \in {"none", "fresh", "expired", "consumed"}
  /\ cooling \subseteq Cases /\ recorded \subseteq resolved

\* Every resolution is the engine's idea of dual control, but for two IPv6
\* addresses of one network, and no two of them share a token, however many
\* calls present it at once (saga_admin.go:154).
DualControl ==
  /\ \A e \in resolved : ValidateForceResolve(e) \/ (e.from \in V6 /\ token[e.tok].by # e.by)
  /\ \A e, f \in resolved : e.tok = f.tok => e = f

\* A saga is resolved twice in thirty minutes only by calls that overlapped, or
\* behind one that failed to mark its resolution (saga_admin.go:144).
Cooldown ==
  [][\A c \in lately :
       (\E e \in resolved' \ resolved : e.case = c) => c \in gap']_forceVars

\* A resolution that is not audited is still under way or was cut short.
Audited ==
  faults = 0 => \A e \in resolved \ recorded :
    \E i \in Staff : bid[i] # NoBid /\ bid[i].pc \in {"mark", "audit"} /\ Event(i) = e
=============================================================================
