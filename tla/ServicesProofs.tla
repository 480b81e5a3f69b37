--------------------------- MODULE ServicesProofs ---------------------------
(***************************************************************************)
(* Proofs about the services.  A step of Services is a step of the service *)
(* the behaviour follows and leaves the variables of the others alone, so  *)
(* each invariant is proved of the actions of its own module.              *)
(***************************************************************************)
EXTENDS Services, TLAPS, WellFoundedInduction

-----------------------------------------------------------------------------
(* The leader lock.                                                        *)

LEMMA LockFrame == [Next]_vars => ReportNext \/ UNCHANGED lockVars
  BY DEF Next, vars, dispatchVars

LockInv == LockTypeOK /\ OneBody

\* Nobody takes, renews or releases the lease of another.
LEMMA LockStepInv == LockInv /\ ReportNext => LockInv'
<1> SUFFICES ASSUME LockInv, ReportNext PROVE LockInv'
  OBVIOUS
<1> USE LockAssumption DEF LockInv, LockTypeOK, OneBody, Bodies, PodState, PodTo
<1>1. CASE UNCHANGED lockVars
  BY <1>1 DEF lockVars
<1>2. ASSUME NEW p \in Pods, TryAcquire(p) PROVE LockInv'
  BY <1>2 DEF TryAcquire
<1>3. ASSUME NEW p \in Pods, Renew(p) PROVE LockInv'
  BY <1>3 DEF Renew
<1>4. ASSUME NEW p \in Pods, BodyStops(p) PROVE LockInv'
  BY <1>4 DEF BodyStops, Release
<1>5. ASSUME NEW p \in Pods, Shutdown(p) PROVE LockInv'
  BY <1>5 DEF Shutdown, Release
<1>6. ASSUME NEW p \in Pods, Restart(p) PROVE LockInv'
  BY <1>6 DEF Restart
<1>7. ASSUME NEW p \in Pods, Exit(p) \/ Crash(p) PROVE LockInv'
  BY <1>7 DEF Exit, Crash, Gone
<1>8. CASE Expire
  BY <1>8 DEF Expire
<1>9. ASSUME NEW p \in Pods, DispatchOnce(p) \/ UpdateLost(p) PROVE UNCHANGED lockVars
  BY <1>9 DEF DispatchOnce, UpdateLost, ListPending, SubmitReport, UpdateFailed,
              UpdateSubmitted, Stamp
<1>10. ASSUME NEW e \in Events, NEW d \in {"block", "pass"},
              RecordEvent(e, d) \/ AdminReview(e, d) \/ QueueReport(e) \/ QueueOwed(e)
       PROVE  UNCHANGED lockVars
  BY <1>10 DEF RecordEvent, AdminReview, QueueReport, QueueOwed
<1>11. ASSUME NEW r \in ReportIds, RetryReport(r) PROVE UNCHANGED lockVars
  BY <1>11 DEF RetryReport
<1> QED
  BY <1>1, <1>2, <1>3, <1>4, <1>5, <1>6, <1>7, <1>8, <1>9, <1>10, <1>11
  DEF ReportNext, LockStep

LEMMA LockHolds == Spec => []LockInv
<1>1. Init => LockInv
  BY LockAssumption DEF Init, ReportInit, LockInit, LockInv, LockTypeOK, OneBody, Bodies, PodState
<1>2. LockInv /\ [Next]_vars => LockInv'
  <2>1. LockInv /\ UNCHANGED lockVars => LockInv'
    BY DEF LockInv, LockTypeOK, OneBody, Bodies, PodState, lockVars
  <2> QED
    BY <2>1, LockFrame, LockStepInv
<1> QED
  BY <1>1, <1>2, PTL DEF Spec

\* For any number of processes, with expired leases, failed renewals, crashes
\* and shutdowns, a body runs beside the lease holder's only when its own lease
\* was lost before it noticed or given back before it had ended (RedisLock.Run).
THEOREM OneBodyCorrect == Spec => []OneBody
<1>1. LockInv => OneBody
  BY DEF LockInv
<1> QED
  BY <1>1, LockHolds, PTL

-----------------------------------------------------------------------------
(* Dual control.  A call that has used its token up is past it; a token is  *)
(* held by one such call or by one resolution, and says what they say.      *)

TokenRow == {[state |-> "none"]} \cup
  [state : {"fresh", "expired", "consumed"}, case : Cases, by : Staff, from : Nets]
BidRow == [pc : {"consume", "resolve", "mark", "audit"}, case : Cases, net : Nets, tok : Tokens]
ForceShape == token \in [Tokens -> TokenRow] /\ bid \in [Staff -> {NoBid} \cup BidRow]

Past(i) == bid[i] # NoBid /\ bid[i].pc \in {"resolve", "mark", "audit"}
Backed(e) ==
  /\ e.tok \in Tokens /\ token[e.tok].state = "consumed"
  /\ token[e.tok].case = e.case /\ token[e.tok].by # e.by
  /\ token[e.tok].from # e.from \/ e.from \in V6

PastBacked == \A i \in Staff : Past(i) => Backed(Event(i))
PastApart == \A i, j \in Staff : Past(i) /\ Past(j) /\ bid[i].tok = bid[j].tok => i = j
ResolvedBacked == \A e \in resolved : Backed(e)
ResolvedApart == \A e, f \in resolved : e.tok = f.tok => e = f
NotYet == \A i \in Staff, e \in resolved : Past(i) /\ bid[i].pc = "resolve" => e.tok # bid[i].tok

ForceInv == ForceShape /\ PastBacked /\ PastApart /\ ResolvedBacked /\ ResolvedApart /\ NotYet

\* What a call does behind its token changes no call but its own.
LEMMA BidStep ==
  ASSUME ForceShape, NEW i \in Staff, bid[i] # NoBid,
         NEW pc \in {"consume", "resolve", "mark", "audit"}, BidTo(i, pc) \/ BidEnds(i)
  PROVE  /\ bid' \in [Staff -> {NoBid} \cup BidRow]
         /\ \A j \in Staff \ {i} : bid'[j] = bid[j]
         /\ \/ bid'[i] = NoBid
            \/ /\ bid'[i] # NoBid /\ bid'[i].pc = pc /\ bid'[i].tok = bid[i].tok
               /\ bid'[i].case = bid[i].case /\ bid'[i].net = bid[i].net
<1>1. bid[i] \in BidRow /\ NoBid \notin BidRow
  BY DEF ForceShape, NoBid, BidRow
<1>2. CASE BidTo(i, pc)
  <2>1. bid' = [bid EXCEPT ![i] = [bid[i] EXCEPT !.pc = pc]]
    BY <1>2 DEF BidTo
  <2>2. [bid[i] EXCEPT !.pc = pc] \in BidRow
    BY <1>1 DEF BidRow
  <2> QED
    BY <1>1, <2>1, <2>2 DEF ForceShape, BidRow
<1>3. CASE BidEnds(i)
  BY <1>3 DEF BidEnds, ForceShape
<1> QED
  BY <1>2, <1>3

LEMMA ForceFrame == [Next]_vars => ForceNext \/ UNCHANGED forceVars
  BY DEF Next, vars

\* A new token is nobody's.
LEMMA IssueInv ==
  ASSUME ForceInv, NEW t \in Tokens, NEW c \in Cases, NEW s \in Staff, NEW n \in Nets,
         IssueApproverToken(t, c, s, n)
  PROVE  ForceInv'
<1>1. /\ token' = [token EXCEPT ![t] = [state |-> "fresh", case |-> c, by |-> s, from |-> n]]
      /\ token[t].state = "none" /\ bid' = bid /\ resolved' = resolved
  BY DEF IssueApproverToken
<1>2. token' \in [Tokens -> TokenRow] /\ \A k \in Tokens \ {t} : token'[k] = token[k]
  BY <1>1 DEF ForceInv, ForceShape, TokenRow
<1>3. \A e : Backed(e) => Backed(e)'
  BY <1>1, <1>2 DEF Backed
<1> QED
  BY <1>1, <1>2, <1>3
  DEF ForceInv, ForceShape, PastBacked, PastApart, ResolvedBacked, ResolvedApart, NotYet, Past, Event

\* A token that ran out had not been used.
LEMMA ExpiryInv ==
  ASSUME ForceInv, NEW rested \in BOOLEAN, TimePasses(rested)
  PROVE  ForceInv'
<1>1. /\ \A k \in Tokens : token'[k] =
           IF token[k].state = "fresh" THEN [token[k] EXCEPT !.state = "expired"] ELSE token[k]
      /\ DOMAIN token' = Tokens /\ token' = [k \in Tokens |-> token'[k]]
      /\ bid' = bid /\ resolved' = resolved
  BY DEF TimePasses
<1>2. token' \in [Tokens -> TokenRow]
  <2>1. ASSUME NEW k \in Tokens PROVE token'[k] \in TokenRow
    <3>1. token[k] \in TokenRow
      BY DEF ForceInv, ForceShape
    <3> QED
      BY <1>1, <3>1 DEF TokenRow
  <2> QED
    BY <1>1, <2>1
<1>3. \A e : Backed(e) => Backed(e)'
  BY <1>1 DEF Backed
<1> QED
  BY <1>1, <1>2, <1>3
  DEF ForceInv, ForceShape, PastBacked, PastApart, ResolvedBacked, ResolvedApart, NotYet, Past, Event

\* A new call has not used its token yet.
LEMMA BidInv ==
  ASSUME ForceInv, NEW i \in Staff, NEW c \in Cases, NEW n \in Nets, NEW t \in Tokens,
         ForceResolveBy(i, c, n, t)
  PROVE  ForceInv'
<1>1. /\ bid' = [bid EXCEPT ![i] = [pc |-> "consume", case |-> c, net |-> n, tok |-> t]]
      /\ token' = token /\ resolved' = resolved
  BY DEF ForceResolveBy
<1>2. bid' \in [Staff -> {NoBid} \cup BidRow]
  BY <1>1 DEF ForceInv, ForceShape, BidRow
<1>3. ~Past(i)' /\ \A j \in Staff \ {i} : bid'[j] = bid[j]
  BY <1>1 DEF ForceInv, ForceShape, Past
<1> QED
  BY <1>1, <1>2, <1>3
  DEF ForceInv, ForceShape, PastBacked, PastApart, ResolvedBacked, ResolvedApart, NotYet, Past,
      Event, Backed

\* A token that is used now was fresh, so nobody is past it and nothing was
\* resolved with it.
LEMMA ConsumeInv ==
  ASSUME ForceInv, NEW i \in Staff, Consume(i)
  PROVE  ForceInv'
<1> DEFINE t == bid[i].tok
<1>1. bid[i] \in BidRow /\ bid[i] # NoBid /\ t \in Tokens /\ bid[i].pc = "consume"
  BY DEF ForceInv, ForceShape, Consume, BidAt, BidRow, NoBid
<1>2. resolved' = resolved /\ (BidTo(i, "resolve") \/ BidEnds(i))
  BY DEF Consume
<1>3. /\ bid' \in [Staff -> {NoBid} \cup BidRow]
      /\ \A j \in Staff \ {i} : bid'[j] = bid[j]
      /\ \/ bid'[i] = NoBid
         \/ /\ bid'[i] # NoBid /\ bid'[i].pc = "resolve" /\ bid'[i].tok = bid[i].tok
            /\ bid'[i].case = bid[i].case /\ bid'[i].net = bid[i].net
  BY <1>1, <1>2, BidStep DEF ForceInv
<1>4. CASE ~UsableBy(i)
  <2>1. token' = token /\ bid' = [bid EXCEPT ![i] = NoBid]
    BY <1>4 DEF Consume, BidEnds
  <2>2. ~Past(i)'
    BY <2>1 DEF Past, ForceInv, ForceShape
  <2> QED
    BY <1>2, <1>3, <2>1, <2>2
    DEF ForceInv, ForceShape, PastBacked, PastApart, ResolvedBacked, ResolvedApart, NotYet, Past,
        Event, Backed
<1>5. CASE UsableBy(i)
  <2>1. /\ token' = [token EXCEPT ![t].state = "consumed"]
        /\ token[t].state = "fresh" /\ token[t].case = bid[i].case
    BY <1>5 DEF Consume, UsableBy
  <2>2. token[t] \in TokenRow /\ token[t].state # "none"
    BY <1>1, <2>1 DEF ForceInv, ForceShape
  <2>3. token' = [token EXCEPT ![t] = [token[t] EXCEPT !.state = "consumed"]]
    BY <2>1
  <2>4. /\ token' \in [Tokens -> TokenRow] /\ \A k \in Tokens \ {t} : token'[k] = token[k]
        /\ token'[t].state = "consumed" /\ token'[t].case = token[t].case
        /\ token'[t].by = token[t].by /\ token'[t].from = token[t].from
    <3>1. [token[t] EXCEPT !.state = "consumed"] \in TokenRow
      BY <2>2 DEF TokenRow
    <3>2. /\ [token[t] EXCEPT !.state = "consumed"].state = "consumed"
          /\ [token[t] EXCEPT !.state = "consumed"].case = token[t].case
          /\ [token[t] EXCEPT !.state = "consumed"].by = token[t].by
          /\ [token[t] EXCEPT !.state = "consumed"].from = token[t].from
      BY <2>1, <2>2 DEF TokenRow
    <3> QED
      BY <1>1, <2>3, <3>1, <3>2 DEF ForceInv, ForceShape
  <2>5. \A e : Backed(e) => e.tok # t /\ Backed(e)'
    BY <2>1, <2>4 DEF Backed
  <2>6. \A j \in Staff : Past(j) => bid[j].tok # t
    <3>1. SUFFICES ASSUME NEW j \in Staff, Past(j) PROVE bid[j].tok # t
      OBVIOUS
    <3>2. Backed(Event(j)) /\ Event(j).tok = bid[j].tok
      BY <3>1 DEF ForceInv, PastBacked, Event
    <3> QED
      BY <2>5, <3>2
  <2>7. \A j \in Staff \ {i} : (Past(j)' <=> Past(j)) /\ Event(j)' = Event(j)
    BY <1>3 DEF Past, Event
  <2>8. Past(i)' => Backed(Event(i))'
    <3>1. SUFFICES ASSUME Past(i)' PROVE Backed(Event(i))'
      OBVIOUS
    <3>2. bid'[i] # NoBid
      BY <3>1 DEF Past
    <3>3. TwoPersons(i)
      BY <1>5, <3>2, <1>1 DEF Consume, BidEnds, ForceInv, ForceShape
    <3>4. token[t].by # i /\ (token[t].from # bid[i].net \/ bid[i].net \in V6)
      BY <3>3 DEF TwoPersons, Same24
    <3> QED
      BY <1>1, <1>3, <2>1, <2>4, <3>2, <3>4 DEF Backed, Event
  <2>9. PastBacked'
    BY <2>5, <2>7, <2>8 DEF ForceInv, PastBacked
  <2>10. PastApart'
    BY <1>3, <2>6, <2>7 DEF ForceInv, PastApart, Past
  <2>11. ResolvedBacked' /\ ResolvedApart' /\ NotYet'
    BY <1>2, <1>3, <2>5, <2>7 DEF ForceInv, ResolvedBacked, ResolvedApart, NotYet, Past
  <2> QED
    BY <1>3, <2>4, <2>9, <2>10, <2>11 DEF ForceInv, ForceShape
<1> QED
  BY <1>4, <1>5

\* A resolution is that of the one call past its token.
LEMMA ResolveInv ==
  ASSUME ForceInv, NEW i \in Staff, Resolve(i)
  PROVE  ForceInv'
<1>1. bid[i] # NoBid /\ bid[i].pc = "resolve" /\ Past(i)
  BY DEF Resolve, BidAt, NoBid, Past
<1>2. token' = token /\ resolved' = resolved \cup {Event(i)} /\ BidTo(i, "mark")
  BY DEF Resolve
<1>3. /\ bid' \in [Staff -> {NoBid} \cup BidRow]
      /\ \A j \in Staff \ {i} : bid'[j] = bid[j]
      /\ bid'[i] = NoBid \/
           /\ bid'[i] # NoBid /\ bid'[i].pc = "mark" /\ bid'[i].tok = bid[i].tok
           /\ bid'[i].case = bid[i].case /\ bid'[i].net = bid[i].net
  BY <1>1, <1>2, BidStep DEF ForceInv
<1>4. Event(i).tok = bid[i].tok /\ Backed(Event(i))
  BY <1>1 DEF ForceInv, PastBacked, Event
<1>5. \A j \in Staff : Past(j)' => Past(j) /\ Event(j)' = Event(j) /\ bid'[j].tok = bid[j].tok
  BY <1>1, <1>3 DEF Past, Event
<1>6. \A e : Backed(e)' <=> Backed(e)
  BY <1>2 DEF Backed
<1>7. PastBacked'
  BY <1>5, <1>6 DEF ForceInv, PastBacked
<1>8. PastApart'
  BY <1>5 DEF ForceInv, PastApart
<1>9. ResolvedBacked'
  BY <1>2, <1>4, <1>6 DEF ForceInv, ResolvedBacked
<1>10. ResolvedApart'
  BY <1>1, <1>2, <1>4 DEF ForceInv, ResolvedApart, NotYet
<1>11. NotYet'
  <2>1. SUFFICES ASSUME NEW j \in Staff, NEW e \in resolved', Past(j)', bid'[j].pc = "resolve"
                 PROVE  e.tok # bid'[j].tok
    BY DEF NotYet
  <2>2. j # i
    BY <1>1, <1>3, <2>1 DEF Past
  <2>3. Past(j) /\ bid'[j] = bid[j] /\ bid[j].tok # bid[i].tok
    BY <1>1, <1>3, <1>5, <2>1, <2>2 DEF ForceInv, PastApart
  <2>4. CASE e \in resolved
    BY <2>1, <2>3, <2>4 DEF ForceInv, NotYet
  <2>5. CASE e = Event(i)
    BY <1>4, <2>3, <2>5
  <2> QED
    BY <1>2, <2>1, <2>4, <2>5
<1> QED
  BY <1>2, <1>3, <1>7, <1>8, <1>9, <1>10, <1>11 DEF ForceInv, ForceShape

\* A call that only goes on behind its resolution, or ends.
LEMMA OnwardInv ==
  ASSUME ForceInv, NEW i \in Staff, bid[i] # NoBid, UNCHANGED <<token, resolved>>,
         BidEnds(i) \/ (BidTo(i, "audit") /\ BidAt(i, "mark"))
  PROVE  ForceInv'
<1>1. /\ bid' \in [Staff -> {NoBid} \cup BidRow]
      /\ \A j \in Staff \ {i} : bid'[j] = bid[j]
      /\ bid'[i] = NoBid \/
           /\ bid'[i] # NoBid /\ bid'[i].pc = "audit" /\ bid'[i].tok = bid[i].tok
           /\ bid'[i].case = bid[i].case /\ bid'[i].net = bid[i].net
  BY BidStep DEF ForceInv
<1>2. bid'[i] # NoBid => bid[i].pc = "mark"
  <2>1. CASE BidEnds(i)
    BY <2>1 DEF BidEnds, ForceInv, ForceShape
  <2> QED
    BY <2>1 DEF BidAt
<1>3. \A j \in Staff :
        Past(j)' => /\ Past(j) /\ Event(j)' = Event(j) /\ bid'[j].tok = bid[j].tok
                    /\ bid'[j].pc = "resolve" => bid[j].pc = "resolve"
  BY <1>1, <1>2 DEF Past, Event
<1>4. \A e : Backed(e)' <=> Backed(e)
  BY DEF Backed
<1> QED
  BY <1>1, <1>3, <1>4
  DEF ForceInv, ForceShape, PastBacked, PastApart, ResolvedBacked, ResolvedApart, NotYet

LEMMA ForceStepInv == ForceInv /\ ForceNext => ForceInv'
<1> SUFFICES ASSUME ForceInv, ForceNext PROVE ForceInv'
  OBVIOUS
<1>1. ASSUME NEW i \in Staff, Mark(i) \/ Audit(i) \/ ForceFails(i) PROVE ForceInv'
  <2>1. bid[i] # NoBid /\ UNCHANGED <<token, resolved>>
    BY <1>1 DEF Mark, Audit, ForceFails, BidAt, NoBid
  <2>2. BidEnds(i) \/ (BidTo(i, "audit") /\ BidAt(i, "mark"))
    BY <1>1 DEF Mark, Audit, ForceFails
  <2> QED
    BY <2>1, <2>2, OnwardInv
<1> QED
  BY <1>1, IssueInv, ExpiryInv, BidInv, ConsumeInv, ResolveInv DEF ForceNext

LEMMA ForceHolds == Spec => []ForceInv
<1>1. Init => ForceInv
  BY DEF Init, ForceInit, ForceInv, ForceShape, TokenRow, PastBacked, PastApart, ResolvedBacked,
         ResolvedApart, NotYet, Past
<1>2. ForceInv /\ [Next]_vars => ForceInv'
  <2>1. ForceInv /\ UNCHANGED forceVars => ForceInv'
    BY DEF forceVars, ForceInv, ForceShape, PastBacked, PastApart, ResolvedBacked, ResolvedApart,
           NotYet, Past, Event, Backed
  <2> QED
    BY <2>1, ForceFrame, ForceStepInv
<1> QED
  BY <1>1, <1>2, PTL DEF Spec

\* However many calls present a token at once, and wherever they fail, every
\* forced resolution has the consent of a second person on another network (two
\* IPv6 addresses are taken for two networks), who gave it for this saga, and
\* this consent is used for one resolution only (Service.ForceResolve).
THEOREM DualControlCorrect == Spec => []DualControl
<1>1. ForceInv => DualControl
  BY DEF ForceInv, DualControl, ResolvedBacked, ResolvedApart, Backed, ValidateForceResolve
<1> QED
  BY <1>1, ForceHolds, PTL

-----------------------------------------------------------------------------
(* The cooldown and the audit log.  What a call was told before its token   *)
(* holds when it resolves, or an overlapping call has put it on record.     *)

\* A call that has not resolved yet was not started during a cooldown, or the
\* resolution that began the cooldown overlapped it.
Rested ==
  \A i \in Staff : bid[i] # NoBid /\ bid[i].pc \in {"consume", "resolve"} =>
    bid[i].case \notin cooling \/ bid[i].case \in gap

\* What was resolved lately cools, is about to, or missed it.
Cooling ==
  \A c \in lately :
    \/ c \in cooling \cup gap
    \/ \E i \in Staff : bid[i] # NoBid /\ bid[i].pc = "mark" /\ bid[i].case = c

CooldownInv == ForceInv /\ Rested /\ Cooling

\* What a step of a call does to bids, cooldowns and gaps.
LEMMA CallMoves ==
  ASSUME ForceShape, NEW i \in Staff, Consume(i) \/ Resolve(i) \/ Mark(i) \/ Audit(i) \/ ForceFails(i)
  PROVE  /\ bid[i] \in BidRow /\ bid[i] # NoBid
         /\ \A j \in Staff \ {i} : bid'[j] = bid[j]
         /\ \/ bid'[i] = NoBid
            \/ /\ bid'[i] # NoBid /\ bid'[i].case = bid[i].case
               /\ \/ Consume(i) /\ bid'[i].pc = "resolve"
                  \/ Resolve(i) /\ bid'[i].pc = "mark"
                  \/ Mark(i) /\ bid'[i].pc = "audit"
<1>1. bid[i] # NoBid /\ bid[i] \in BidRow
  BY DEF Consume, Resolve, Mark, Audit, ForceFails, BidAt, NoBid, ForceShape, BidRow
<1>2. CASE BidEnds(i)
  BY <1>1, <1>2 DEF BidEnds, ForceShape
<1>3. CASE Consume(i) /\ BidTo(i, "resolve")
  BY <1>1, <1>3, BidStep
<1>4. CASE Resolve(i)
  <2>1. BidTo(i, "mark")
    BY <1>4 DEF Resolve
  <2>2. bid'[i] # NoBid
    BY <1>1, <2>1 DEF BidTo, ForceShape, BidRow, NoBid
  <2> QED
    BY <1>1, <1>4, <2>1, <2>2, BidStep
<1>5. CASE Mark(i)
  <2>1. BidTo(i, "audit")
    BY <1>5 DEF Mark
  <2> QED
    BY <1>1, <1>5, <2>1, BidStep
<1> QED
  BY <1>2, <1>3, <1>4, <1>5 DEF Consume, Audit, ForceFails

\* Every step keeps the two, and none resolves what cools without a gap.
LEMMA CooldownStep ==
  ASSUME CooldownInv, ForceNext
  PROVE  /\ Rested' /\ Cooling'
         /\ \A c \in lately : (\E e \in resolved' \ resolved : e.case = c) => c \in gap'
<1>0. ForceShape
  BY DEF CooldownInv, ForceInv
<1>1. ASSUME NEW t \in Tokens, NEW c \in Cases, NEW s \in Staff, NEW n \in Nets,
             IssueApproverToken(t, c, s, n)
      PROVE  UNCHANGED <<cooling, bid, resolved, lately, gap>>
  BY <1>1 DEF IssueApproverToken
<1>2. ASSUME NEW rested \in BOOLEAN, TimePasses(rested)
      PROVE  /\ UNCHANGED <<bid, resolved, gap>>
             /\ \/ UNCHANGED <<cooling, lately>>
                \/ cooling' = {} /\ lately' = {}
  BY <1>2 DEF TimePasses
<1>3. ASSUME NEW i \in Staff, NEW c \in Cases, NEW n \in Nets, NEW t \in Tokens,
             ForceResolveBy(i, c, n, t)
      PROVE  /\ UNCHANGED <<cooling, resolved, lately, gap>>
             /\ bid[i] = NoBid /\ bid'[i].case = c /\ c \notin cooling
             /\ \A j \in Staff \ {i} : bid'[j] = bid[j]
  BY <1>0, <1>3 DEF ForceResolveBy, ForceShape
<1>4. ASSUME NEW i \in Staff, Consume(i) \/ Resolve(i) \/ Mark(i) \/ Audit(i) \/ ForceFails(i)
      PROVE  Rested' /\ Cooling'
             /\ \A c \in lately : (\E e \in resolved' \ resolved : e.case = c) => c \in gap'
  <2> DEFINE c == bid[i].case
  <2>1. /\ bid[i] \in BidRow /\ bid[i] # NoBid
        /\ \A j \in Staff \ {i} : bid'[j] = bid[j]
        /\ \/ bid'[i] = NoBid
           \/ /\ bid'[i] # NoBid /\ bid'[i].case = c
              /\ \/ Consume(i) /\ bid'[i].pc = "resolve"
                 \/ Resolve(i) /\ bid'[i].pc = "mark"
                 \/ Mark(i) /\ bid'[i].pc = "audit"
    BY <1>0, <1>4, CallMoves
  <2>2. Rested /\ Cooling
    BY DEF CooldownInv
  <2>3. CASE Consume(i) \/ Audit(i)
    <3>1. UNCHANGED <<cooling, resolved, lately, gap>> /\ bid[i].pc \in {"consume", "audit"}
      BY <2>3 DEF Consume, Audit, BidAt
    <3>2. bid'[i] # NoBid => bid[i].pc = "consume" /\ bid'[i].pc = "resolve"
      BY <2>1, <2>3 DEF Consume, Resolve, Mark, Audit, BidAt
    <3>3. Rested'
      BY <2>1, <2>2, <3>1, <3>2 DEF Rested
    <3>4. Cooling'
      BY <2>1, <2>2, <3>1, <3>2 DEF Cooling
    <3> QED
      BY <3>1, <3>3, <3>4
  <2>4. CASE Resolve(i)
    <3>1. /\ bid[i].pc = "resolve" /\ cooling' = cooling /\ lately' = lately \cup {c}
          /\ gap' = IF Overlapped(i) THEN gap \cup {c} ELSE gap
          /\ resolved' = resolved \cup {Event(i)} /\ Event(i).case = c /\ bid' = [bid EXCEPT ![i].pc = "mark"]
      BY <2>4 DEF Resolve, BidAt, Gap, Event, BidTo
    <3>2. bid'[i] # NoBid /\ bid'[i].pc = "mark"
      BY <1>0, <2>1, <3>1 DEF ForceShape, NoBid, BidRow
    <3>3. Rested'
      BY <2>1, <2>2, <3>1, <3>2 DEF Rested
    <3>4. Cooling'
      <4>1. SUFFICES ASSUME NEW k \in lately'
                     PROVE  \/ k \in cooling' \cup gap'
                            \/ \E j \in Staff : bid'[j] # NoBid /\ bid'[j].pc = "mark" /\ bid'[j].case = k
        BY DEF Cooling
      <4>2. CASE k = c
        BY <2>1, <3>2, <4>2
      <4>3. CASE k \in lately
        BY <2>1, <2>2, <3>1, <4>3 DEF Cooling
      <4> QED
        BY <3>1, <4>1, <4>2, <4>3
    <3>5. c \in lately => c \in gap'
      <4>1. SUFFICES ASSUME c \in lately, c \notin gap PROVE Overlapped(i)
        BY <3>1
      <4>2. c \notin cooling
        BY <2>1, <2>2, <3>1, <4>1 DEF Rested
      <4>3. PICK j \in Staff : bid[j] # NoBid /\ bid[j].pc = "mark" /\ bid[j].case = c
        BY <2>2, <4>1, <4>2 DEF Cooling
      <4> QED
        BY <3>1, <4>3 DEF Overlapped
    <3> QED
      BY <3>1, <3>3, <3>4, <3>5
  <2>5. CASE Mark(i)
    <3>1. /\ bid[i].pc = "mark" /\ cooling' = cooling \cup {c} /\ UNCHANGED <<lately, resolved>>
          /\ gap' = IF Overlapped(i) THEN gap \cup {c} ELSE gap
      BY <2>5 DEF Mark, BidAt, Gap
    <3>2. bid'[i] # NoBid => bid'[i].pc = "audit"
      BY <2>1, <2>5, <3>1 DEF Consume, Resolve, BidAt
    <3>3. ASSUME NEW j \in Staff \ {i}, bid[j] # NoBid, bid[j].case = c PROVE c \in gap'
      BY <3>1, <3>3 DEF Overlapped
    <3>4. Rested'
      BY <2>1, <2>2, <3>1, <3>2, <3>3 DEF Rested
    <3>5. Cooling'
      BY <2>1, <2>2, <3>1 DEF Cooling
    <3> QED
      BY <3>1, <3>4, <3>5
  <2>6. CASE ForceFails(i)
    <3>1. /\ UNCHANGED <<cooling, resolved, lately>> /\ bid' = [bid EXCEPT ![i] = NoBid]
          /\ gap' = IF bid[i].pc = "mark" THEN gap \cup {c} ELSE gap
      BY <2>6 DEF ForceFails, BidEnds, BidAt
    <3>2. bid'[i] = NoBid
      BY <1>0, <3>1 DEF ForceShape
    <3>3. Rested'
      BY <2>1, <2>2, <3>1, <3>2 DEF Rested
    <3>4. Cooling'
      BY <2>1, <2>2, <3>1, <3>2 DEF Cooling
    <3> QED
      BY <3>1, <3>3, <3>4
  <2> QED
    BY <1>4, <2>3, <2>4, <2>5, <2>6
<1>5. CASE UNCHANGED <<cooling, bid, resolved, lately, gap>>
  BY <1>5 DEF CooldownInv, Rested, Cooling
<1>6. ASSUME NEW rested \in BOOLEAN, TimePasses(rested)
      PROVE  Rested' /\ Cooling' /\ resolved' = resolved
  BY <1>2, <1>6 DEF CooldownInv, Rested, Cooling
<1>7. ASSUME NEW i \in Staff, NEW c \in Cases, NEW n \in Nets, NEW t \in Tokens,
             ForceResolveBy(i, c, n, t)
      PROVE  Rested' /\ Cooling' /\ resolved' = resolved
  <2>1. Rested'
    BY <1>3, <1>7 DEF CooldownInv, Rested
  <2>2. Cooling'
    BY <1>3, <1>7 DEF CooldownInv, Cooling
  <2> QED
    BY <1>3, <1>7, <2>1, <2>2
<1> QED
  BY <1>1, <1>4, <1>5, <1>6, <1>7 DEF ForceNext

\* Whoever overlaps and wherever they fail, a saga is resolved a second time
\* within the cooldown only if the gap is on record: a call overlapped the
\* resolution, or the mark of it was never made (Service.ForceResolve).
THEOREM CooldownCorrect == Spec => Cooldown
<1>1. Init => CooldownInv
  BY DEF Init, ForceInit, CooldownInv, ForceInv, ForceShape, TokenRow, PastBacked, PastApart,
         ResolvedBacked, ResolvedApart, NotYet, Past, Rested, Cooling
<1>2. CooldownInv /\ [Next]_vars =>
        /\ CooldownInv'
        /\ \A c \in lately : (\E e \in resolved' \ resolved : e.case = c) => c \in gap'
  <2> SUFFICES ASSUME CooldownInv, [Next]_vars
               PROVE  /\ CooldownInv'
                      /\ \A c \in lately : (\E e \in resolved' \ resolved : e.case = c) => c \in gap'
    OBVIOUS
  <2>1. CASE ForceNext
    BY <2>1, CooldownStep, ForceStepInv DEF CooldownInv
  <2>2. CASE UNCHANGED forceVars
    BY <2>2 DEF forceVars, CooldownInv, ForceInv, ForceShape, PastBacked, PastApart,
       ResolvedBacked, ResolvedApart, NotYet, Past, Event, Backed, Rested, Cooling
  <2> QED
    BY <2>1, <2>2, ForceFrame
<1> QED
  BY <1>1, <1>2, PTL DEF Spec, Cooldown

\* Without a fault, what is not audited yet is in somebody's hands.
AuditedInv ==
  /\ ForceShape
  /\ focus = "force" => faults \in Nat /\ Audited
  /\ focus # "force" => resolved = {}

\* A call keeps its event until it is written down.
LEMMA AuditedStep ==
  ASSUME ForceInv, faults \in Nat, Audited, ForceNext
  PROVE  faults' \in Nat /\ Audited'
<1>0. ForceShape
  BY DEF ForceInv
<1>1. ASSUME NEW t \in Tokens, NEW c \in Cases, NEW s \in Staff, NEW n \in Nets,
             IssueApproverToken(t, c, s, n)
      PROVE  UNCHANGED <<faults, bid, resolved, recorded>>
  BY <1>1 DEF IssueApproverToken, NoFault
<1>2. ASSUME NEW rested \in BOOLEAN, TimePasses(rested)
      PROVE  UNCHANGED <<faults, bid, resolved, recorded>>
  BY <1>2 DEF TimePasses, NoFault
<1>3. CASE UNCHANGED <<faults, bid, resolved, recorded>>
  BY <1>3 DEF Audited, Event
<1>4. ASSUME NEW i \in Staff, NEW c \in Cases, NEW n \in Nets, NEW t \in Tokens,
             ForceResolveBy(i, c, n, t)
      PROVE  faults' \in Nat /\ Audited'
  <2>1. /\ UNCHANGED <<faults, resolved, recorded>> /\ bid[i] = NoBid
        /\ \A j \in Staff \ {i} : bid'[j] = bid[j]
    BY <1>0, <1>4 DEF ForceResolveBy, NoFault, ForceShape
  <2> QED
    BY <2>1 DEF Audited, Event
<1>5. ASSUME NEW i \in Staff, Consume(i) \/ Resolve(i) \/ Mark(i) \/ Audit(i)
      PROVE  faults' \in Nat /\ Audited'
  <2>1. /\ bid[i] # NoBid /\ \A j \in Staff \ {i} : bid'[j] = bid[j]
    BY <1>0, <1>5, CallMoves
  <2>2. faults' = faults
    BY <1>5 DEF Consume, Resolve, Mark, Audit, NoFault
  <2>3. SUFFICES ASSUME faults = 0, NEW e \in resolved' \ recorded'
                 PROVE  \E j \in Staff : /\ bid'[j] # NoBid /\ bid'[j].pc \in {"mark", "audit"}
                                         /\ Event(j)' = e
    BY <2>2 DEF Audited
  <2>4. ASSUME NEW j \in Staff \ {i} PROVE Event(j)' = Event(j)
    BY <2>1, <2>4 DEF Event
  <2>5. CASE Consume(i)
    BY <2>1, <2>3, <2>4, <2>5 DEF Audited, Consume, BidAt
  <2>6. CASE Resolve(i)
    <3>1. /\ bid[i].pc = "resolve" /\ bid' = [bid EXCEPT ![i] = [bid[i] EXCEPT !.pc = "mark"]]
          /\ resolved' = resolved \cup {Event(i)} /\ recorded' = recorded
      BY <2>6 DEF Resolve, BidAt, BidTo
    <3>2. bid[i] \in BidRow
      BY <1>0, <2>1 DEF ForceShape
    <3>3. bid'[i].pc = "mark" /\ bid'[i] # NoBid /\ Event(i)' = Event(i)
      BY <1>0, <3>1, <3>2 DEF ForceShape, BidRow, NoBid, Event
    <3> QED
      BY <2>1, <2>3, <2>4, <3>1, <3>3 DEF Audited
  <2>7. CASE Mark(i)
    <3>1. /\ bid[i].pc = "mark" /\ bid' = [bid EXCEPT ![i] = [bid[i] EXCEPT !.pc = "audit"]]
          /\ resolved' = resolved /\ recorded' = recorded
      BY <2>7 DEF Mark, BidAt, BidTo
    <3>2. bid[i] \in BidRow
      BY <1>0, <2>1 DEF ForceShape
    <3>3. bid'[i].pc = "audit" /\ bid'[i] # NoBid /\ Event(i)' = Event(i)
      BY <1>0, <3>1, <3>2 DEF ForceShape, BidRow, NoBid, Event
    <3> QED
      BY <2>1, <2>3, <2>4, <3>1, <3>3 DEF Audited
  <2>8. CASE Audit(i)
    <3>1. resolved' = resolved /\ recorded' = recorded \cup {Event(i)}
      BY <2>8 DEF Audit
    <3> QED
      BY <2>1, <2>3, <2>4, <3>1 DEF Audited
  <2> QED
    BY <1>5, <2>5, <2>6, <2>7, <2>8
<1>6. ASSUME NEW i \in Staff, ForceFails(i) PROVE faults' \in Nat /\ Audited'
  <2>1. faults' = faults + 1 /\ faults + 1 \in Nat /\ faults + 1 # 0
    BY <1>6 DEF ForceFails, Fault
  <2> QED
    BY <2>1 DEF Audited
<1>7. faults \in Nat /\ Audited => (UNCHANGED <<faults, bid, resolved, recorded>> => faults' \in Nat /\ Audited')
  BY <1>3
<1> QED
  BY <1>1, <1>2, <1>4, <1>5, <1>6, <1>7 DEF ForceNext

\* Without a fault, a forced resolution that is not in the audit log is one whose
\* call is still about to write it: no overlap of calls loses a record
\* (Service.ForceResolve).
THEOREM AuditedCorrect == Spec => []Audited
<1>1. Init => ForceInv /\ AuditedInv
  BY DEF Init, ForceInit, AuditedInv, ForceInv, ForceShape, TokenRow, PastBacked, PastApart,
         ResolvedBacked, ResolvedApart, NotYet, Past, Audited
<1>2. ForceInv /\ AuditedInv /\ [Next]_vars => ForceInv' /\ AuditedInv'
  <2> SUFFICES ASSUME ForceInv, AuditedInv, [Next]_vars PROVE ForceInv' /\ AuditedInv'
    OBVIOUS
  <2>1. CASE focus = "force" /\ ForceNext
    <3>1. focus' = focus
      BY <2>1 DEF Next, vars
    <3>2. ForceInv'
      BY <2>1, ForceStepInv
    <3>3. faults' \in Nat /\ Audited'
      BY <2>1, AuditedStep DEF AuditedInv
    <3> QED
      BY <2>1, <3>1, <3>2, <3>3 DEF AuditedInv, ForceInv
  <2>2. CASE focus # "force" /\ UNCHANGED <<focus, forceVars>>
    BY <2>2 DEF forceVars, AuditedInv, ForceInv, ForceShape, PastBacked, PastApart,
       ResolvedBacked, ResolvedApart, NotYet, Past, Event, Backed
  <2>3. CASE UNCHANGED <<focus, faults, forceVars>>
    BY <2>3 DEF forceVars, AuditedInv, ForceInv, ForceShape, PastBacked, PastApart,
       ResolvedBacked, ResolvedApart, NotYet, Past, Event, Backed, Audited
  <2> QED
    BY <2>1, <2>2, <2>3 DEF Next, vars
<1>3. ForceInv /\ AuditedInv => Audited
  BY DEF AuditedInv, Audited
<1> QED
  BY <1>1, <1>2, <1>3, PTL DEF Spec

-----------------------------------------------------------------------------
(* Fapiao.  Of an application nobody overlapped on, one call at most is     *)
(* under way, and its status says how far the gateway has got with it.      *)

ClerkCall ==
       [invoice : Invoices, pc : {"mark", "decide"}, to : {"issuing", "rejected"}]
  \cup [invoice : Invoices, pc : {"issue", "request"}]
  \cup [invoice : Invoices, pc : {"issued"}, serial : Nat \ {0}]
  \cup [invoice : Invoices, pc : {"flushing", "flush", "complete", "flushed"}, request : Nat \ {0}]
InvoiceShape ==
  /\ invoice \in [Invoices -> [status : InvoiceStatus, serial : Nat]]
  /\ clerk \in [Clerks -> {Away} \cup ClerkCall]
  /\ blue \in [Invoices -> Nat] /\ red \in [Invoices -> Nat]
  /\ flush \in [Invoices -> Seq({"pending", "completed"})]

On(i) == {c \in Clerks : clerk[c] # Away /\ Handles(c) = i}
Was(i, statuses) == invoice[i].status \in statuses
Completed(i, k) == k \in DOMAIN flush[i] /\ flush[i][k] = "completed"

\* What the status of an application stands for,
Carries(i) ==
  /\ Was(i, {"issued", "red_flushing", "red_flushed"}) \/ red[i] > 0 => invoice[i].serial > 0
  /\ Was(i, {"red_flushed"}) => red[i] > 0 /\ \E k \in DOMAIN flush[i] : Completed(i, k)

\* and a call that red-flushes it.
Warranted(c) ==
  LET i == Handles(c) pc == clerk[c].pc IN
  /\ pc \in {"request", "flushing", "flush", "complete", "flushed"} => invoice[i].serial > 0
  /\ pc \in {"flushing", "flush", "complete"} => clerk[c].request \in DOMAIN flush[i]
  /\ pc \in {"complete", "flushed"} => red[i] > 0
  /\ pc = "flushed" => Completed(i, clerk[c].request)

\* The status a call alone on its application has left there.
Fits(c) ==
  LET i == Handles(c) pc == clerk[c].pc IN
  /\ pc = "mark" => Was(i, {"applied"})
  /\ pc = "decide" => Was(i, {"reviewing", "issuing"})
  /\ pc \in {"issue", "issued"} => Was(i, {"issuing"})
  /\ pc \in {"request", "flushing"} => Was(i, {"issued"})
  /\ pc \in {"flush", "complete", "flushed"} => Was(i, {"red_flushing"})

\* The gateway has made what the status or the call in hand says, and once.
Single(i) ==
  /\ \A c, d \in On(i) : c = d
  /\ \A c \in On(i) : Fits(c)
  /\ blue[i] \in {0, 1} /\ red[i] \in {0, 1}
  /\ blue[i] = 1 => \/ Was(i, {"issued", "red_flushing", "red_flushed"})
                    \/ \E c \in On(i) : clerk[c].pc = "issued"
  /\ red[i] = 1 => \/ Was(i, {"red_flushed"})
                   \/ \E c \in On(i) : clerk[c].pc \in {"complete", "flushed"}

Whole(i) == Carries(i) /\ (\A c \in On(i) : Warranted(c)) /\ (i \notin tangled => Single(i))
InvoiceInv == InvoiceShape /\ \A i \in Invoices : Whole(i)

\* What was made or completed stays so.
Grows(i) ==
  /\ invoice[i].serial > 0 => invoice'[i].serial > 0
  /\ red[i] > 0 => red'[i] > 0
  /\ \A k \in DOMAIN flush[i] : k \in DOMAIN flush'[i]
  /\ \A k \in DOMAIN flush[i] : Completed(i, k) => Completed(i, k)'

\* A step of one call touches one application.
Touches(c, i) ==
  /\ \A d \in Clerks \ {c} : clerk'[d] = clerk[d]
  /\ clerk[c] = Away \/ Handles(c) = i
  /\ clerk'[c] = Away \/ clerk'[c].invoice = i
  /\ \A j \in Invoices \ {i} :
       invoice'[j] = invoice[j] /\ blue'[j] = blue[j] /\ red'[j] = red[j] /\ flush'[j] = flush[j]
  /\ tangled \subseteq tangled' /\ tangled' \subseteq tangled \cup {i}

\* What such a step has to show: the rest of the invariant follows.
LEMMA TouchedInv ==
  ASSUME InvoiceInv, InvoiceShape', NEW c \in Clerks, NEW i \in Invoices, Touches(c, i),
         Grows(i), Carries(i)', c \in On(i)' => Warranted(c)',
         i \notin tangled' => i \notin tangled /\ Single(i)'
  PROVE  InvoiceInv'
<1>1. ASSUME NEW j \in Invoices \ {i} PROVE Whole(j)'
  <2>1. /\ On(j)' = On(j) /\ c \notin On(j)
        /\ \A d \in On(j) : clerk'[d] = clerk[d] /\ Handles(d) = j
    BY DEF Touches, On, Handles
  <2>2. /\ invoice'[j] = invoice[j] /\ blue'[j] = blue[j] /\ red'[j] = red[j]
        /\ flush'[j] = flush[j] /\ (j \in tangled' <=> j \in tangled)
    BY DEF Touches
  <2>3. Whole(j)
    BY DEF InvoiceInv
  <2>4. Carries(j)'
    BY <2>2, <2>3 DEF Whole, Carries, Was, Completed
  <2>5. \A d \in On(j)' : Warranted(d)'
    BY <2>1, <2>2, <2>3 DEF Whole, Warranted, Handles, Completed
  <2>6. Single(j) => Single(j)'
    BY <2>1, <2>2 DEF Single, Fits, Was, Handles
  <2> QED
    BY <2>2, <2>3, <2>4, <2>5, <2>6 DEF Whole
<1>2. ASSUME NEW d \in On(i)', d # c PROVE Warranted(d)'
  <2>1. d \in On(i) /\ clerk'[d] = clerk[d] /\ Handles(d) = i /\ Handles(d)' = i
    BY <1>2 DEF Touches, On, Handles
  <2>2. Warranted(d)
    BY <2>1 DEF InvoiceInv, Whole
  <2> QED
    BY <2>1, <2>2 DEF Warranted, Grows, Completed
<1> QED
  BY <1>1, <1>2 DEF InvoiceInv, Whole

\* A call in hand has its application to itself if nobody overlapped on it.
LEMMA CallAlone ==
  ASSUME InvoiceInv, NEW c \in Clerks, clerk[c] # Away
  PROVE  /\ clerk[c] \in ClerkCall /\ Handles(c) \in Invoices /\ c \in On(Handles(c))
         /\ Warranted(c) /\ Whole(Handles(c))
         /\ Handles(c) \notin tangled =>
              Single(Handles(c)) /\ Fits(c) /\ \A d \in On(Handles(c)) : d = c
<1>1. clerk[c] \in ClerkCall
  BY DEF InvoiceInv, InvoiceShape
<1>2. Handles(c) \in Invoices /\ c \in On(Handles(c))
  BY <1>1 DEF Handles, On, ClerkCall
<1> QED
  BY <1>1, <1>2 DEF InvoiceInv, Whole, Single

\* A step that keeps the call: what it does to its row.
LEMMA CallGoes ==
  ASSUME InvoiceInv, NEW c \in Clerks, NEW i \in Invoices, clerk[c] # Away, i = Handles(c),
         NEW job \in ClerkCall \cup {Away}, job = Away \/ job.invoice = i,
         clerk' = [clerk EXCEPT ![c] = job]
  PROVE  /\ clerk' \in [Clerks -> {Away} \cup ClerkCall] /\ clerk'[c] = job
         /\ \A d \in Clerks \ {c} : clerk'[d] = clerk[d]
         /\ \A d \in On(i)' : d = c \/ d \in On(i)
         /\ job = Away => c \notin On(i)'
         /\ job # Away => c \in On(i)'
<1>1. /\ clerk' \in [Clerks -> {Away} \cup ClerkCall] /\ clerk'[c] = job
      /\ \A d \in Clerks \ {c} : clerk'[d] = clerk[d]
  BY DEF InvoiceInv, InvoiceShape
<1> QED
  BY <1>1 DEF On, Handles

LEMMA ApplyInv ==
  ASSUME InvoiceInv, NEW i \in Invoices, Apply(i)
  PROVE  InvoiceInv'
<1>1. /\ invoice' = [invoice EXCEPT ![i] = [invoice[i] EXCEPT !.status = "applied"]]
      /\ invoice[i].status = "none" /\ UNCHANGED <<clerk, blue, red, flush, tangled>>
  BY DEF Apply
<1>2. /\ invoice[i] \in [status : InvoiceStatus, serial : Nat] /\ "applied" \in InvoiceStatus
      /\ InvoiceShape /\ Whole(i)
  BY DEF InvoiceInv, InvoiceShape, InvoiceStatus, InvoiceMoves
<1>3. /\ invoice' \in [Invoices -> [status : InvoiceStatus, serial : Nat]]
      /\ invoice'[i].status = "applied" /\ invoice'[i].serial = invoice[i].serial
      /\ \A j \in Invoices \ {i} : invoice'[j] = invoice[j]
  BY <1>1, <1>2 DEF InvoiceShape
<1>4. InvoiceShape'
  BY <1>1, <1>2, <1>3 DEF InvoiceShape
<1>5. ASSUME NEW j \in Invoices \ {i} PROVE Whole(j)'
  <2>1. Whole(j) /\ invoice'[j] = invoice[j] /\ On(j)' = On(j)
    BY <1>1, <1>3 DEF InvoiceInv, On, Handles
  <2>2. \A d \in On(j) : Handles(d) = j /\ Handles(d)' = j
    BY <1>1 DEF On, Handles
  <2>3. Carries(j)' /\ (j \in tangled' <=> j \in tangled)
    BY <1>1, <2>1 DEF Whole, Carries, Was, Completed
  <2>4. \A d \in On(j)' : Warranted(d)'
    BY <1>1, <2>1, <2>2 DEF Whole, Warranted, Completed
  <2>5. Single(j) => Single(j)'
    BY <1>1, <2>1, <2>2 DEF Single, Fits, Was
  <2> QED
    BY <2>1, <2>3, <2>4, <2>5 DEF Whole
<1>6. Whole(i)'
  <2>1. On(i)' = On(i) /\ \A d \in On(i) : Handles(d) = i /\ Handles(d)' = i
    BY <1>1 DEF On, Handles
  <2>2. Carries(i)'
    BY <1>1, <1>2, <1>3 DEF Whole, Carries, Was
  <2>3. \A d \in On(i)' : Warranted(d)'
    BY <1>1, <1>2, <1>3, <2>1 DEF Whole, Warranted, Completed
  <2>4. ASSUME i \notin tangled PROVE Single(i)'
    <3>1. Single(i)
      BY <1>2, <2>4 DEF Whole
    <3>2. ASSUME NEW d \in On(i) PROVE FALSE
      <4>1. Fits(d) /\ Handles(d) = i /\ clerk[d] \in ClerkCall
        BY <2>1, <3>1, <3>2, <1>2 DEF Single, On, InvoiceShape
      <4> QED
        BY <1>1, <4>1 DEF Fits, Was, ClerkCall
    <3> QED
      BY <1>1, <1>3, <2>1, <3>1, <3>2 DEF Single, Was
  <2> QED
    BY <1>1, <2>2, <2>3, <2>4 DEF Whole
<1> QED
  BY <1>4, <1>5, <1>6 DEF InvoiceInv

\* A call that takes a row nobody has in hand finds there what it takes it for.
LEMMA TakesInv ==
  ASSUME InvoiceInv, NEW c \in Clerks, NEW i \in Invoices, NEW job \in ClerkCall,
         job.invoice = i, Takes(c, job),
         job.pc = "mark" => Was(i, {"applied"}),
         job.pc = "decide" => Was(i, {"reviewing", "issuing"}),
         job.pc = "issue" => Was(i, {"issuing"}),
         job.pc = "request" => Was(i, {"issued"}),
         job.pc \in {"mark", "decide", "issue", "request"}
  PROVE  InvoiceInv'
<1>1. /\ clerk[c] = Away /\ clerk' = [clerk EXCEPT ![c] = job]
      /\ UNCHANGED <<invoice, blue, red, flush>>
  BY DEF Takes
<1>2. InvoiceShape /\ Whole(i)
  BY DEF InvoiceInv
<1>3. /\ clerk' \in [Clerks -> {Away} \cup ClerkCall] /\ clerk'[c] = job
      /\ \A d \in Clerks \ {c} : clerk'[d] = clerk[d]
  BY <1>1, <1>2 DEF InvoiceShape
<1>4. /\ tangled \subseteq tangled' /\ tangled' \subseteq tangled \cup {i}
      /\ i \notin tangled' => i \notin tangled /\ On(i) = {}
  BY DEF Takes, Tangle, On
<1>5. InvoiceShape'
  BY <1>1, <1>2, <1>3 DEF InvoiceShape
<1>6. Touches(c, i) /\ Grows(i)
  BY <1>1, <1>3, <1>4 DEF Touches, Grows, Completed
<1>7. Carries(i)'
  BY <1>1, <1>2 DEF Whole, Carries, Was, Completed
<1>8. Warranted(c)'
  BY <1>1, <1>2, <1>3 DEF Warranted, Handles, Whole, Carries, Was
<1>9. ASSUME i \notin tangled' PROVE Single(i)'
  <2>1. Single(i) /\ On(i) = {}
    BY <1>2, <1>4, <1>9 DEF Whole
  <2>2. \A d \in On(i)' : d = c
    BY <1>3, <2>1 DEF On, Handles
  <2>3. Fits(c)'
    BY <1>1, <1>3 DEF Fits, Handles, Was
  <2>4. \A d \in On(i)' : Fits(d)'
    BY <2>2, <2>3
  <2>5. /\ blue'[i] \in {0, 1} /\ red'[i] \in {0, 1}
        /\ blue'[i] = 1 => Was(i, {"issued", "red_flushing", "red_flushed"})'
        /\ red'[i] = 1 => Was(i, {"red_flushed"})'
    BY <1>1, <2>1 DEF Single, Was
  <2> QED
    BY <2>2, <2>4, <2>5 DEF Single
<1> QED
  BY <1>4, <1>5, <1>6, <1>7, <1>8, <1>9, TouchedInv

\* What a call in hand has to show of the row it is about to leave: the paper,
\* the red fapiao and the requests behind it,
Due(job, paper, undone, requests) ==
  /\ job.pc \in {"request", "flushing", "flush", "complete", "flushed"} => paper.serial > 0
  /\ job.pc \in {"flushing", "flush", "complete"} => job.request \in DOMAIN requests
  /\ job.pc \in {"complete", "flushed"} => undone > 0
  /\ job.pc = "flushed" => job.request \in DOMAIN requests /\ requests[job.request] = "completed"

\* and that its status fits if nobody overlapped.
Fitting(job, status) ==
  /\ job.pc = "mark" => status = "applied"
  /\ job.pc = "decide" => status \in {"reviewing", "issuing"}
  /\ job.pc \in {"issue", "issued"} => status = "issuing"
  /\ job.pc \in {"request", "flushing"} => status = "issued"
  /\ job.pc \in {"flush", "complete", "flushed"} => status = "red_flushing"

\* What a call finds on its application.
LEMMA FoundThere ==
  ASSUME InvoiceInv, NEW c \in Clerks, NEW i \in Invoices, clerk[c] # Away, i = Handles(c)
  PROVE  /\ clerk[c] \in ClerkCall /\ invoice[i] \in [status : InvoiceStatus, serial : Nat]
         /\ blue[i] \in Nat /\ red[i] \in Nat /\ flush[i] \in Seq({"pending", "completed"})
         /\ invoice[i].status \in {"issued", "red_flushing", "red_flushed"} \/ red[i] > 0 =>
              invoice[i].serial > 0
         /\ invoice[i].status = "red_flushed" =>
              red[i] > 0 /\ \E k \in DOMAIN flush[i] : flush[i][k] = "completed"
         /\ Due(clerk[c], invoice[i], red[i], flush[i])
         /\ i \notin tangled =>
              /\ Fitting(clerk[c], invoice[i].status)
              /\ blue[i] \in {0, 1} /\ red[i] \in {0, 1}
              /\ blue[i] = 1 => \/ invoice[i].status \in {"issued", "red_flushing", "red_flushed"}
                                \/ clerk[c].pc = "issued"
              /\ red[i] = 1 => \/ invoice[i].status = "red_flushed"
                               \/ clerk[c].pc \in {"complete", "flushed"}
<1>1. /\ clerk[c] \in ClerkCall /\ i \in Invoices /\ Warranted(c) /\ Whole(i)
      /\ i \notin tangled => Single(i) /\ Fits(c) /\ \A d \in On(i) : d = c
  BY CallAlone
<1>2. /\ invoice[i] \in [status : InvoiceStatus, serial : Nat] /\ blue[i] \in Nat
      /\ red[i] \in Nat /\ flush[i] \in Seq({"pending", "completed"})
  BY DEF InvoiceInv, InvoiceShape
<1>3. Carries(i)
  BY <1>1 DEF Whole
<1>4. Due(clerk[c], invoice[i], red[i], flush[i])
  BY <1>1 DEF Due, Warranted, Completed
<1>5. Fits(c) => Fitting(clerk[c], invoice[i].status)
  BY DEF Fits, Fitting, Was
<1> QED
  BY <1>1, <1>2, <1>3, <1>4, <1>5 DEF Single, Carries, Was, Completed

\* What a step of a call writes: its own state and the row it has in hand.
Writes(c, i, job, paper, made, undone, requests) ==
  /\ job \in ClerkCall \cup {Away} /\ (job = Away \/ job.invoice = i)
  /\ paper \in [status : InvoiceStatus, serial : Nat] /\ made \in Nat /\ undone \in Nat
  /\ requests \in Seq({"pending", "completed"})
  /\ clerk' = [clerk EXCEPT ![c] = job] /\ invoice' = [invoice EXCEPT ![i] = paper]
  /\ blue' = [blue EXCEPT ![i] = made] /\ red' = [red EXCEPT ![i] = undone]
  /\ flush' = [flush EXCEPT ![i] = requests] /\ tangled' \in {tangled, tangled \cup {i}}

\* What it has to show: nothing made is forgotten, the new row holds together,
Keeps(i, paper, undone, requests) ==
  /\ invoice[i].serial > 0 => paper.serial > 0
  /\ red[i] > 0 => undone > 0
  /\ \A k \in DOMAIN flush[i] :
       k \in DOMAIN requests /\ (flush[i][k] = "completed" => requests[k] = "completed")
  /\ paper.status \in {"issued", "red_flushing", "red_flushed"} \/ undone > 0 => paper.serial > 0
  /\ paper.status = "red_flushed" =>
       undone > 0 /\ \E k \in DOMAIN requests : requests[k] = "completed"

\* and without an overlap it counts what the gateway made.
Counts(job, paper, made, undone) ==
  /\ job # Away => Fitting(job, paper.status)
  /\ made \in {0, 1} /\ undone \in {0, 1}
  /\ made = 1 => \/ paper.status \in {"issued", "red_flushing", "red_flushed"}
                 \/ job # Away /\ job.pc = "issued"
  /\ undone = 1 => \/ paper.status = "red_flushed"
                   \/ job # Away /\ job.pc \in {"complete", "flushed"}

LEMMA CallInv ==
  ASSUME InvoiceInv, NEW c \in Clerks, NEW i \in Invoices, clerk[c] # Away, i = Handles(c),
         NEW job, NEW paper, NEW made, NEW undone, NEW requests,
         Writes(c, i, job, paper, made, undone, requests), Keeps(i, paper, undone, requests),
         job # Away => Due(job, paper, undone, requests),
         i \notin tangled' => Counts(job, paper, made, undone)
  PROVE  InvoiceInv'
<1> USE DEF Writes, Keeps, Counts
<1>1. /\ clerk' \in [Clerks -> {Away} \cup ClerkCall] /\ clerk'[c] = job
      /\ \A d \in Clerks \ {c} : clerk'[d] = clerk[d]
      /\ \A d \in On(i)' : d = c \/ d \in On(i)
      /\ job = Away => c \notin On(i)'
      /\ job # Away => c \in On(i)'
  BY CallGoes
<1>2. InvoiceShape
  BY DEF InvoiceInv
<1>3. /\ InvoiceShape' /\ invoice'[i] = paper /\ blue'[i] = made /\ red'[i] = undone
      /\ flush'[i] = requests
  BY <1>1, <1>2 DEF InvoiceShape
<1>4. Touches(c, i)
  BY <1>1, <1>2 DEF Touches, InvoiceShape
<1>5. ASSUME i \notin tangled' PROVE i \notin tangled /\ Single(i)'
  <2>1. i \notin tangled /\ \A d \in On(i) : d = c
    BY <1>5, CallAlone
  <2>2. \A d \in On(i)' : d = c
    BY <1>1, <2>1
  <2>3. \A d \in On(i)' : Fits(d)'
    <3>1. job # Away => Fits(c)'
      BY <1>1, <1>3, <1>5 DEF Fits, Fitting, Was, Handles
    <3> QED
      BY <1>1, <2>2, <3>1
  <2>4. /\ blue'[i] \in {0, 1} /\ red'[i] \in {0, 1}
        /\ blue'[i] = 1 => \/ Was(i, {"issued", "red_flushing", "red_flushed"})'
                           \/ \E d \in On(i)' : clerk'[d].pc = "issued"
        /\ red'[i] = 1 => \/ Was(i, {"red_flushed"})'
                          \/ \E d \in On(i)' : clerk'[d].pc \in {"complete", "flushed"}
    BY <1>1, <1>3, <1>5 DEF Was
  <2> QED
    BY <2>1, <2>2, <2>3, <2>4 DEF Single
<1>6. c \in On(i)' => Warranted(c)'
  BY <1>1, <1>3 DEF Warranted, Due, Handles, Completed
<1>7. Grows(i)
  BY <1>3 DEF Grows, Completed
<1>8. Carries(i)'
  BY <1>3 DEF Carries, Was, Completed
<1> QED
  BY <1>3, <1>4, <1>5, <1>6, <1>7, <1>8, TouchedInv

\* Marking and deciding a review.
LEMMA ReviewInv ==
  ASSUME InvoiceInv, NEW c \in Clerks, NEW i \in Invoices, clerk[c] # Away, i = Handles(c),
         MarkReviewing(c) \/ DecideReview(c)
  PROVE  InvoiceInv'
<1>1. /\ clerk[c] \in ClerkCall /\ invoice[i] \in [status : InvoiceStatus, serial : Nat]
      /\ blue[i] \in Nat /\ red[i] \in Nat /\ flush[i] \in Seq({"pending", "completed"})
      /\ invoice[i].status \in {"issued", "red_flushing", "red_flushed"} \/ red[i] > 0 =>
           invoice[i].serial > 0
      /\ clerk[c].pc \in {"mark", "decide"} /\ clerk[c].invoice = i
      /\ i \notin tangled =>
           Fitting(clerk[c], invoice[i].status) /\ blue[i] = 0 /\ red[i] = 0
  BY FoundThere DEF MarkReviewing, DecideReview, Handles, Fitting
<1>2. /\ blue' = [blue EXCEPT ![i] = blue[i]] /\ red' = [red EXCEPT ![i] = red[i]]
      /\ flush' = [flush EXCEPT ![i] = flush[i]] /\ tangled' = tangled
  BY DEF MarkReviewing, DecideReview, InvoiceInv, InvoiceShape
<1>3. CASE MarkReviewing(c)
  <2>1. PICK job : job = [clerk[c] EXCEPT !.pc = "decide"]
    OBVIOUS
  <2>2. PICK paper : paper = [invoice[i] EXCEPT !.status = "reviewing"]
    OBVIOUS
  <2>3. job \in ClerkCall /\ job.pc = "decide" /\ job.invoice = i
    BY <1>1, <1>3, <2>1 DEF ClerkCall, MarkReviewing
  <2>4. /\ paper \in [status : InvoiceStatus, serial : Nat]
        /\ paper.status = "reviewing" /\ paper.serial = invoice[i].serial
    BY <1>1, <2>2 DEF InvoiceStatus, InvoiceMoves
  <2>5. clerk' = [clerk EXCEPT ![c] = job] /\ invoice' = [invoice EXCEPT ![i] = paper]
    BY <1>3, <2>1, <2>2 DEF MarkReviewing, Goes, SetInvoice
  <2> QED
    <3>1. Writes(c, i, job, paper, blue[i], red[i], flush[i])
      BY <1>1, <1>2, <2>3, <2>4, <2>5 DEF Writes
    <3>2. Keeps(i, paper, red[i], flush[i]) /\ Due(job, paper, red[i], flush[i])
      BY <1>1, <2>3, <2>4 DEF Keeps, Due
    <3>3. i \notin tangled' => Counts(job, paper, blue[i], red[i])
      BY <1>1, <1>2, <2>3, <2>4 DEF Counts, Fitting
    <3> QED
      BY <3>1, <3>2, <3>3, CallInv
<1>4. CASE DecideReview(c)
  <2>1. PICK paper : paper = [invoice[i] EXCEPT !.status = clerk[c].to]
    OBVIOUS
  <2>2. clerk[c].to \in {"issuing", "rejected"}
    BY <1>1, <1>4 DEF ClerkCall, DecideReview
  <2>3. /\ paper \in [status : InvoiceStatus, serial : Nat]
        /\ paper.status \in {"issuing", "rejected"} /\ paper.serial = invoice[i].serial
    BY <1>1, <2>1, <2>2 DEF InvoiceStatus, InvoiceMoves
  <2>4. clerk' = [clerk EXCEPT ![c] = Away] /\ invoice' = [invoice EXCEPT ![i] = paper]
    BY <1>4, <2>1 DEF DecideReview, Leaves, SetInvoice
  <2> QED
    <3>1. Writes(c, i, Away, paper, blue[i], red[i], flush[i])
      BY <1>1, <1>2, <2>3, <2>4 DEF Writes
    <3>2. Keeps(i, paper, red[i], flush[i])
      BY <1>1, <2>3 DEF Keeps
    <3>3. i \notin tangled' => Counts(Away, paper, blue[i], red[i])
      BY <1>1, <1>2, <2>3 DEF Counts
    <3> QED
      BY <3>1, <3>2, <3>3, CallInv
<1> QED
  BY <1>3, <1>4

\* The gateway makes a fapiao of an application that had none, as far as nobody
\* overlapped on it.
LEMMA GatewayIssueInv ==
  ASSUME InvoiceInv, NEW c \in Clerks, NEW i \in Invoices, clerk[c] # Away, i = Handles(c),
         GatewayIssue(c)
  PROVE  InvoiceInv'
<1>1. /\ clerk[c] \in ClerkCall /\ invoice[i] \in [status : InvoiceStatus, serial : Nat]
      /\ blue[i] \in Nat /\ red[i] \in Nat /\ flush[i] \in Seq({"pending", "completed"})
      /\ invoice[i].status \in {"issued", "red_flushing", "red_flushed"} \/ red[i] > 0 =>
           invoice[i].serial > 0
      /\ invoice[i].status = "red_flushed" =>
           red[i] > 0 /\ \E k \in DOMAIN flush[i] : flush[i][k] = "completed"
      /\ i \notin tangled => invoice[i].status = "issuing" /\ blue[i] = 0 /\ red[i] = 0
  BY FoundThere DEF GatewayIssue, Fitting
<1>2. /\ invoice' = [invoice EXCEPT ![i] = invoice[i]] /\ red' = [red EXCEPT ![i] = red[i]]
      /\ flush' = [flush EXCEPT ![i] = flush[i]]
  BY DEF GatewayIssue, InvoiceInv, InvoiceShape
<1>3. Keeps(i, invoice[i], red[i], flush[i])
  BY <1>1 DEF Keeps
<1>4. CASE /\ blue' = [blue EXCEPT ![i] = @ + 1] /\ tangled' = tangled
           /\ clerk' = [clerk EXCEPT ![c] = [invoice |-> i, pc |-> "issued", serial |-> blue[i] + 1]]
  <2>1. PICK job : job = [invoice |-> i, pc |-> "issued", serial |-> blue[i] + 1]
    OBVIOUS
  <2>2. /\ job \in ClerkCall /\ job.pc = "issued" /\ job.invoice = i
        /\ clerk' = [clerk EXCEPT ![c] = job]
    BY <1>1, <1>4, <2>1 DEF ClerkCall
  <2>3. blue' = [blue EXCEPT ![i] = blue[i] + 1] /\ blue[i] + 1 \in Nat
    BY <1>1, <1>4
  <2>4. i \notin tangled => blue[i] + 1 = 1
    BY <1>1
  <2> QED
    <3>1. Writes(c, i, job, invoice[i], blue[i] + 1, red[i], flush[i])
      BY <1>1, <1>2, <1>4, <2>2, <2>3 DEF Writes
    <3>2. Due(job, invoice[i], red[i], flush[i])
      BY <2>2 DEF Due
    <3>3. i \notin tangled' => Counts(job, invoice[i], blue[i] + 1, red[i])
      BY <1>1, <1>4, <2>2, <2>4 DEF Counts, Fitting, Away
    <3> QED
      BY <1>3, <3>1, <3>2, <3>3, CallInv
<1>5. CASE clerk' = [clerk EXCEPT ![c] = Away] /\ UNCHANGED <<blue, tangled>>
  <2>1. blue' = [blue EXCEPT ![i] = blue[i]]
    BY <1>5 DEF InvoiceInv, InvoiceShape
  <2> QED
    <3>1. Writes(c, i, Away, invoice[i], blue[i], red[i], flush[i])
      BY <1>1, <1>2, <1>5, <2>1 DEF Writes
    <3>2. i \notin tangled' => Counts(Away, invoice[i], blue[i], red[i])
      BY <1>1, <1>5 DEF Counts
    <3> QED
      BY <1>3, <3>1, <3>2, CallInv
<1>6. CASE /\ blue' = [blue EXCEPT ![i] = @ + 1] /\ clerk' = [clerk EXCEPT ![c] = Away]
           /\ tangled' = tangled \cup {i}
  <2>1. blue' = [blue EXCEPT ![i] = blue[i] + 1] /\ blue[i] + 1 \in Nat /\ i \in tangled'
    BY <1>1, <1>6
  <2> QED
    <3>1. Writes(c, i, Away, invoice[i], blue[i] + 1, red[i], flush[i])
      BY <1>1, <1>2, <1>6, <2>1 DEF Writes
    <3> QED
      BY <1>3, <2>1, <3>1, CallInv
<1> QED
  BY <1>4, <1>5, <1>6 DEF GatewayIssue, Leaves, Tangle, NoFault

\* The serial of an issued application is that of a fapiao.
LEMMA MarkIssuedInv ==
  ASSUME InvoiceInv, NEW c \in Clerks, NEW i \in Invoices, clerk[c] # Away, i = Handles(c),
         MarkIssued(c)
  PROVE  InvoiceInv'
<1>1. /\ clerk[c] \in ClerkCall /\ clerk[c].pc = "issued"
      /\ blue[i] \in Nat /\ red[i] \in Nat /\ flush[i] \in Seq({"pending", "completed"})
      /\ i \notin tangled => invoice[i].status = "issuing" /\ blue[i] \in {0, 1} /\ red[i] = 0
  BY FoundThere DEF MarkIssued, Fitting
<1>2. PICK paper : paper = [status |-> "issued", serial |-> clerk[c].serial]
  OBVIOUS
<1>3. /\ paper \in [status : InvoiceStatus, serial : Nat] /\ paper.status = "issued"
      /\ paper.serial > 0 /\ invoice' = [invoice EXCEPT ![i] = paper]
  BY <1>1, <1>2 DEF ClerkCall, InvoiceStatus, InvoiceMoves, MarkIssued
<1>4. /\ clerk' = [clerk EXCEPT ![c] = Away] /\ blue' = [blue EXCEPT ![i] = blue[i]]
      /\ red' = [red EXCEPT ![i] = red[i]] /\ flush' = [flush EXCEPT ![i] = flush[i]]
      /\ tangled' = tangled
  BY DEF MarkIssued, Leaves, InvoiceInv, InvoiceShape
<1>5. Writes(c, i, Away, paper, blue[i], red[i], flush[i])
  BY <1>1, <1>3, <1>4 DEF Writes
<1>6. Keeps(i, paper, red[i], flush[i])
  BY <1>1, <1>3 DEF Keeps
<1>7. i \notin tangled' => Counts(Away, paper, blue[i], red[i])
  BY <1>1, <1>3, <1>4 DEF Counts
<1> QED
  BY <1>5, <1>6, <1>7, CallInv

\* A red-flush request is inserted behind the others,
LEMMA InsertRedFlushInv ==
  ASSUME InvoiceInv, NEW c \in Clerks, NEW i \in Invoices, clerk[c] # Away, i = Handles(c),
         InsertRedFlush(c)
  PROVE  InvoiceInv'
<1>1. /\ invoice[i] \in [status : InvoiceStatus, serial : Nat]
      /\ blue[i] \in Nat /\ red[i] \in Nat /\ flush[i] \in Seq({"pending", "completed"})
      /\ invoice[i].serial > 0
      /\ invoice[i].status = "red_flushed" =>
           red[i] > 0 /\ \E k \in DOMAIN flush[i] : flush[i][k] = "completed"
      /\ i \notin tangled => invoice[i].status = "issued" /\ blue[i] \in {0, 1} /\ red[i] = 0
  BY FoundThere DEF InsertRedFlush, Fitting, Due
<1>2. PICK job : job = [invoice |-> i, pc |-> "flushing", request |-> Len(flush[i]) + 1]
  OBVIOUS
<1>3. PICK requests : requests = Append(flush[i], "pending")
  OBVIOUS
<1>4. /\ job \in ClerkCall /\ job.pc = "flushing" /\ job.invoice = i /\ job # Away
      /\ job.request = Len(flush[i]) + 1
  BY <1>1, <1>2 DEF ClerkCall, Away
<1>5. /\ requests \in Seq({"pending", "completed"}) /\ job.request \in DOMAIN requests
      /\ \A k \in DOMAIN flush[i] : k \in DOMAIN requests /\ requests[k] = flush[i][k]
  BY <1>1, <1>3, <1>4
<1>6. /\ clerk' = [clerk EXCEPT ![c] = job] /\ invoice' = [invoice EXCEPT ![i] = invoice[i]]
      /\ blue' = [blue EXCEPT ![i] = blue[i]] /\ red' = [red EXCEPT ![i] = red[i]]
      /\ flush' = [flush EXCEPT ![i] = requests] /\ tangled' = tangled
  BY <1>2, <1>3 DEF InsertRedFlush, InvoiceInv, InvoiceShape
<1>7. Writes(c, i, job, invoice[i], blue[i], red[i], requests)
  BY <1>1, <1>4, <1>5, <1>6 DEF Writes
<1>8. Keeps(i, invoice[i], red[i], requests) /\ Due(job, invoice[i], red[i], requests)
  BY <1>1, <1>4, <1>5 DEF Keeps, Due
<1>9. i \notin tangled' => Counts(job, invoice[i], blue[i], red[i])
  BY <1>1, <1>4, <1>6 DEF Counts, Fitting
<1> QED
  BY <1>7, <1>8, <1>9, CallInv

\* the application is red_flushing, and red_flushed in the end.
LEMMA MarkFlushInv ==
  ASSUME InvoiceInv, NEW c \in Clerks, NEW i \in Invoices, clerk[c] # Away, i = Handles(c),
         MarkFlushing(c) \/ MarkFlushed(c)
  PROVE  InvoiceInv'
<1>1. /\ clerk[c] \in ClerkCall /\ invoice[i] \in [status : InvoiceStatus, serial : Nat]
      /\ blue[i] \in Nat /\ red[i] \in Nat /\ flush[i] \in Seq({"pending", "completed"})
      /\ invoice[i].serial > 0 /\ Due(clerk[c], invoice[i], red[i], flush[i])
      /\ i \notin tangled =>
           /\ blue[i] \in {0, 1} /\ red[i] \in {0, 1}
           /\ clerk[c].pc = "flushing" => red[i] = 0
  BY FoundThere DEF MarkFlushing, MarkFlushed, Fitting, Due
<1>2. /\ blue' = [blue EXCEPT ![i] = blue[i]] /\ red' = [red EXCEPT ![i] = red[i]]
      /\ flush' = [flush EXCEPT ![i] = flush[i]] /\ tangled' = tangled
  BY DEF MarkFlushing, MarkFlushed, InvoiceInv, InvoiceShape
<1>3. CASE MarkFlushing(c)
  <2>1. PICK job : job = [clerk[c] EXCEPT !.pc = "flush"]
    OBVIOUS
  <2>2. PICK paper : paper = [invoice[i] EXCEPT !.status = "red_flushing"]
    OBVIOUS
  <2>3. /\ job \in ClerkCall /\ job.pc = "flush" /\ job.invoice = i
        /\ job.request = clerk[c].request
    BY <1>1, <1>3, <2>1 DEF ClerkCall, MarkFlushing, Handles
  <2>4. /\ paper \in [status : InvoiceStatus, serial : Nat]
        /\ paper.status = "red_flushing" /\ paper.serial = invoice[i].serial
    BY <1>1, <2>2 DEF InvoiceStatus, InvoiceMoves
  <2>5. clerk' = [clerk EXCEPT ![c] = job] /\ invoice' = [invoice EXCEPT ![i] = paper]
    BY <1>3, <2>1, <2>2 DEF MarkFlushing, Goes, SetInvoice
  <2>6. clerk[c].pc = "flushing"
    BY <1>3 DEF MarkFlushing
  <2>7. Writes(c, i, job, paper, blue[i], red[i], flush[i])
    BY <1>1, <1>2, <2>3, <2>4, <2>5 DEF Writes
  <2>8. Keeps(i, paper, red[i], flush[i]) /\ Due(job, paper, red[i], flush[i])
    BY <1>1, <2>3, <2>4, <2>6 DEF Keeps, Due
  <2>9. i \notin tangled' => Counts(job, paper, blue[i], red[i])
    BY <1>1, <1>2, <2>3, <2>4, <2>6 DEF Counts, Fitting
  <2> QED
    BY <2>7, <2>8, <2>9, CallInv
<1>4. CASE MarkFlushed(c)
  <2>1. PICK paper : paper = [invoice[i] EXCEPT !.status = "red_flushed"]
    OBVIOUS
  <2>2. /\ paper \in [status : InvoiceStatus, serial : Nat]
        /\ paper.status = "red_flushed" /\ paper.serial = invoice[i].serial
    BY <1>1, <2>1 DEF InvoiceStatus, InvoiceMoves
  <2>3. clerk' = [clerk EXCEPT ![c] = Away] /\ invoice' = [invoice EXCEPT ![i] = paper]
    BY <1>4, <2>1 DEF MarkFlushed, Leaves, SetInvoice
  <2>4. clerk[c].pc = "flushed"
    BY <1>4 DEF MarkFlushed
  <2>5. Writes(c, i, Away, paper, blue[i], red[i], flush[i])
    BY <1>1, <1>2, <2>2, <2>3 DEF Writes
  <2>6. Keeps(i, paper, red[i], flush[i])
    BY <1>1, <2>2, <2>4 DEF Keeps, Due
  <2>7. i \notin tangled' => Counts(Away, paper, blue[i], red[i])
    BY <1>1, <1>2, <2>2 DEF Counts
  <2> QED
    BY <2>5, <2>6, <2>7, CallInv
<1> QED
  BY <1>3, <1>4

\* The gateway makes a red fapiao of an application that had none, as far as
\* nobody overlapped on it,
LEMMA GatewayFlushInv ==
  ASSUME InvoiceInv, NEW c \in Clerks, NEW i \in Invoices, clerk[c] # Away, i = Handles(c),
         GatewayRedFlush(c)
  PROVE  InvoiceInv'
<1>1. /\ clerk[c] \in ClerkCall /\ invoice[i] \in [status : InvoiceStatus, serial : Nat]
      /\ blue[i] \in Nat /\ red[i] \in Nat /\ flush[i] \in Seq({"pending", "completed"})
      /\ invoice[i].serial > 0 /\ Due(clerk[c], invoice[i], red[i], flush[i])
      /\ invoice[i].status = "red_flushed" =>
           red[i] > 0 /\ \E k \in DOMAIN flush[i] : flush[i][k] = "completed"
      /\ clerk[c].pc = "flush"
      /\ i \notin tangled =>
           invoice[i].status = "red_flushing" /\ blue[i] \in {0, 1} /\ red[i] = 0
  BY FoundThere DEF GatewayRedFlush, Fitting, Due
<1>2. /\ invoice' = [invoice EXCEPT ![i] = invoice[i]] /\ blue' = [blue EXCEPT ![i] = blue[i]]
      /\ flush' = [flush EXCEPT ![i] = flush[i]]
  BY DEF GatewayRedFlush, InvoiceInv, InvoiceShape
<1>3. Keeps(i, invoice[i], red[i], flush[i]) /\ Keeps(i, invoice[i], red[i] + 1, flush[i])
  BY <1>1 DEF Keeps
<1>4. CASE red' = [red EXCEPT ![i] = @ + 1] /\ Goes(c, "complete") /\ tangled' = tangled
  <2>1. PICK job : job = [clerk[c] EXCEPT !.pc = "complete"]
    OBVIOUS
  <2>2. /\ job \in ClerkCall /\ job.pc = "complete" /\ job.invoice = i
        /\ job.request = clerk[c].request
    BY <1>1, <2>1 DEF ClerkCall, Handles
  <2>3. /\ clerk' = [clerk EXCEPT ![c] = job]
        /\ red' = [red EXCEPT ![i] = red[i] + 1] /\ red[i] + 1 \in Nat /\ red[i] + 1 > 0
    BY <1>1, <1>4, <2>1 DEF Goes
  <2>4. Writes(c, i, job, invoice[i], blue[i], red[i] + 1, flush[i])
    BY <1>1, <1>2, <1>4, <2>2, <2>3 DEF Writes
  <2>5. Due(job, invoice[i], red[i] + 1, flush[i])
    BY <1>1, <2>2, <2>3 DEF Due
  <2>6. i \notin tangled' => Counts(job, invoice[i], blue[i], red[i] + 1)
    BY <1>1, <1>4, <2>2 DEF Counts, Fitting, Away
  <2> QED
    BY <1>3, <2>4, <2>5, <2>6, CallInv
<1>5. CASE clerk' = [clerk EXCEPT ![c] = Away] /\ UNCHANGED <<red, tangled>>
  <2>1. red' = [red EXCEPT ![i] = red[i]]
    BY <1>5 DEF InvoiceInv, InvoiceShape
  <2>2. Writes(c, i, Away, invoice[i], blue[i], red[i], flush[i])
    BY <1>1, <1>2, <1>5, <2>1 DEF Writes
  <2>3. i \notin tangled' => Counts(Away, invoice[i], blue[i], red[i])
    BY <1>1, <1>5 DEF Counts
  <2> QED
    BY <1>3, <2>2, <2>3, CallInv
<1>6. CASE /\ red' = [red EXCEPT ![i] = @ + 1] /\ clerk' = [clerk EXCEPT ![c] = Away]
           /\ tangled' = tangled \cup {i}
  <2>1. red' = [red EXCEPT ![i] = red[i] + 1] /\ red[i] + 1 \in Nat /\ i \in tangled'
    BY <1>1, <1>6
  <2>2. Writes(c, i, Away, invoice[i], blue[i], red[i] + 1, flush[i])
    BY <1>1, <1>2, <1>6, <2>1 DEF Writes
  <2> QED
    BY <1>3, <2>1, <2>2, CallInv
<1> QED
  BY <1>4, <1>5, <1>6 DEF GatewayRedFlush, Leaves, Tangle, NoFault

\* and the request is completed behind it.
LEMMA CompleteInv ==
  ASSUME InvoiceInv, NEW c \in Clerks, NEW i \in Invoices, clerk[c] # Away, i = Handles(c),
         CompleteRedFlush(c)
  PROVE  InvoiceInv'
<1>1. /\ clerk[c] \in ClerkCall /\ invoice[i] \in [status : InvoiceStatus, serial : Nat]
      /\ blue[i] \in Nat /\ red[i] \in Nat /\ flush[i] \in Seq({"pending", "completed"})
      /\ invoice[i].serial > 0 /\ red[i] > 0 /\ clerk[c].request \in DOMAIN flush[i]
      /\ invoice[i].status = "red_flushed" => \E k \in DOMAIN flush[i] : flush[i][k] = "completed"
      /\ clerk[c].pc = "complete"
      /\ i \notin tangled =>
           invoice[i].status = "red_flushing" /\ blue[i] \in {0, 1} /\ red[i] \in {0, 1}
  BY FoundThere DEF CompleteRedFlush, Fitting, Due
<1>2. PICK job : job = [clerk[c] EXCEPT !.pc = "flushed"]
  OBVIOUS
<1>3. PICK requests : requests = [flush[i] EXCEPT ![clerk[c].request] = "completed"]
  OBVIOUS
<1>4. /\ job \in ClerkCall /\ job.pc = "flushed" /\ job.invoice = i /\ job # Away
      /\ job.request = clerk[c].request
  BY <1>1, <1>2 DEF ClerkCall, Handles, Away
<1>5. /\ requests \in Seq({"pending", "completed"}) /\ DOMAIN requests = DOMAIN flush[i]
      /\ \A k \in DOMAIN flush[i] : flush[i][k] = "completed" => requests[k] = "completed"
      /\ requests[clerk[c].request] = "completed"
  BY <1>1, <1>3
<1>6. /\ clerk' = [clerk EXCEPT ![c] = job] /\ invoice' = [invoice EXCEPT ![i] = invoice[i]]
      /\ blue' = [blue EXCEPT ![i] = blue[i]] /\ red' = [red EXCEPT ![i] = red[i]]
      /\ flush' = [flush EXCEPT ![i] = requests] /\ tangled' = tangled
  BY <1>2, <1>3 DEF CompleteRedFlush, Goes, InvoiceInv, InvoiceShape
<1>7. Writes(c, i, job, invoice[i], blue[i], red[i], requests)
  BY <1>1, <1>4, <1>5, <1>6 DEF Writes
<1>8. Keeps(i, invoice[i], red[i], requests) /\ Due(job, invoice[i], red[i], requests)
  BY <1>1, <1>4, <1>5 DEF Keeps, Due
<1>9. i \notin tangled' => Counts(job, invoice[i], blue[i], red[i])
  BY <1>1, <1>4, <1>6 DEF Counts, Fitting
<1> QED
  BY <1>7, <1>8, <1>9, CallInv

\* A call that dies leaves the row as it is.
LEMMA ClerkFailsInv ==
  ASSUME InvoiceInv, NEW c \in Clerks, NEW i \in Invoices, clerk[c] # Away, i = Handles(c),
         ClerkFails(c)
  PROVE  InvoiceInv'
<1>1. /\ invoice[i] \in [status : InvoiceStatus, serial : Nat]
      /\ blue[i] \in Nat /\ red[i] \in Nat /\ flush[i] \in Seq({"pending", "completed"})
      /\ invoice[i].status \in {"issued", "red_flushing", "red_flushed"} \/ red[i] > 0 =>
           invoice[i].serial > 0
      /\ invoice[i].status = "red_flushed" =>
           red[i] > 0 /\ \E k \in DOMAIN flush[i] : flush[i][k] = "completed"
  BY FoundThere
<1>2. /\ clerk' = [clerk EXCEPT ![c] = Away] /\ invoice' = [invoice EXCEPT ![i] = invoice[i]]
      /\ blue' = [blue EXCEPT ![i] = blue[i]] /\ red' = [red EXCEPT ![i] = red[i]]
      /\ flush' = [flush EXCEPT ![i] = flush[i]] /\ tangled' = tangled \cup {i}
  BY DEF ClerkFails, Leaves, Tangle, InvoiceInv, InvoiceShape
<1>3. Writes(c, i, Away, invoice[i], blue[i], red[i], flush[i])
  BY <1>1, <1>2 DEF Writes
<1>4. Keeps(i, invoice[i], red[i], flush[i])
  BY <1>1 DEF Keeps
<1> QED
  BY <1>2, <1>3, <1>4, CallInv

\* Every step of the invoices keeps the invariant.
LEMMA InvoiceStepInv == InvoiceInv /\ InvoiceNext => InvoiceInv'
<1> SUFFICES ASSUME InvoiceInv, InvoiceNext PROVE InvoiceInv'
  OBVIOUS
<1>1. ASSUME NEW c \in Clerks, NEW i \in Invoices,
             (\E to \in {"issuing", "rejected"} : Review(c, i, to)) \/ Issue(c, i) \/ RedFlush(c, i)
      PROVE  InvoiceInv'
  <2>1. PICK job \in ClerkCall :
          /\ job.invoice = i /\ Takes(c, job)
          /\ \/ job.pc = "mark" /\ Was(i, {"applied"})
             \/ job.pc = "decide" /\ Was(i, {"reviewing", "issuing"})
             \/ job.pc = "issue" /\ Was(i, {"issuing"})
             \/ job.pc = "request" /\ Was(i, {"issued"})
    <3>1. ASSUME NEW to \in {"issuing", "rejected"}, Review(c, i, to)
          PROVE  \E job \in ClerkCall :
                   /\ job.invoice = i /\ Takes(c, job)
                   /\ \/ job.pc = "mark" /\ Was(i, {"applied"})
                      \/ job.pc = "decide" /\ Was(i, {"reviewing", "issuing"})
      <4>1. CASE invoice[i].status = "applied" /\ Takes(c, [invoice |-> i, pc |-> "mark", to |-> to])
        <5>1. [invoice |-> i, pc |-> "mark", to |-> to] \in ClerkCall
          BY DEF ClerkCall
        <5> QED
          BY <4>1, <5>1 DEF Was
      <4>2. CASE /\ MayMove(invoice[i].status, to)
                 /\ Takes(c, [invoice |-> i, pc |-> "decide", to |-> to])
        <5>1. [invoice |-> i, pc |-> "decide", to |-> to] \in ClerkCall
          BY DEF ClerkCall
        <5>2. Was(i, {"reviewing", "issuing"})
          BY <4>2 DEF MayMove, InvoiceMoves, Was
        <5> QED
          BY <4>2, <5>1, <5>2
      <4> QED
        BY <3>1, <4>1, <4>2 DEF Review
    <3>2. CASE Issue(c, i)
      <4>1. [invoice |-> i, pc |-> "issue"] \in ClerkCall
        BY DEF ClerkCall
      <4> QED
        BY <3>2, <4>1 DEF Issue, Was
    <3>3. CASE RedFlush(c, i)
      <4>1. [invoice |-> i, pc |-> "request"] \in ClerkCall
        BY DEF ClerkCall
      <4> QED
        BY <3>3, <4>1 DEF RedFlush, Was
    <3> QED
      BY <1>1, <3>1, <3>2, <3>3
  <2> QED
    BY <2>1, TakesInv
<1>2. ASSUME NEW c \in Clerks,
             \/ MarkReviewing(c) \/ DecideReview(c) \/ GatewayIssue(c) \/ MarkIssued(c)
             \/ InsertRedFlush(c) \/ MarkFlushing(c) \/ GatewayRedFlush(c)
             \/ CompleteRedFlush(c) \/ MarkFlushed(c) \/ ClerkFails(c)
      PROVE  InvoiceInv'
  <2>1. clerk[c] # Away
    BY <1>2 DEF MarkReviewing, DecideReview, GatewayIssue, MarkIssued, InsertRedFlush, MarkFlushing,
                GatewayRedFlush, CompleteRedFlush, MarkFlushed, ClerkFails, Away
  <2>2. PICK i \in Invoices : i = Handles(c)
    BY <2>1, CallAlone
  <2> QED
    BY <1>2, <2>1, <2>2, ReviewInv, GatewayIssueInv, MarkIssuedInv, InsertRedFlushInv, MarkFlushInv,
       GatewayFlushInv, CompleteInv, ClerkFailsInv
<1> QED
  BY <1>1, <1>2, ApplyInv DEF InvoiceNext

LEMMA InvoiceFrame == [Next]_vars => InvoiceNext \/ UNCHANGED invoiceVars
  BY DEF Next, vars

LEMMA InvoiceHolds == Spec => []InvoiceInv
<1>1. Init => InvoiceInv
  BY DEF Init, InvoiceInit, InvoiceInv, InvoiceShape, InvoiceStatus, InvoiceMoves, Whole, Carries,
         Was, On, Single
<1>2. InvoiceInv /\ [Next]_vars => InvoiceInv'
  <2>1. InvoiceInv /\ UNCHANGED invoiceVars => InvoiceInv'
    BY DEF invoiceVars, InvoiceInv, InvoiceShape, Whole, Carries, Warranted, Single, Fits, Was, On,
           Handles, Completed
  <2> QED
    BY <2>1, InvoiceFrame, InvoiceStepInv
<1> QED
  BY <1>1, <1>2, PTL DEF Spec

\* For any number of applications and of calls at a time, with lost answers and
\* writes: an application gets a second blue or red fapiao only behind an overlap or a
\* loss, and its status never claims a fapiao that was not made (Service.Issue, RedFlush).
THEOREM FapiaoHoldsCorrect == Spec => []FapiaoHolds
<1>1. InvoiceInv => FapiaoHolds
  <2> SUFFICES ASSUME InvoiceInv, NEW i \in Invoices
               PROVE  /\ blue[i] > 1 \/ red[i] > 1 => i \in tangled
                      /\ Carries(i)
    BY DEF FapiaoHolds, OneFapiao, FapiaoBacksStatus, Carries, Was, Completed
  <2> QED
    BY DEF InvoiceInv, Whole, Single
<1> QED
  BY <1>1, InvoiceHolds, PTL

-----------------------------------------------------------------------------
(* The message queue.                                                      *)

Deliveries == [pc : {"handle", "delete"}, msg : Msgs, copy : Copies, count : Nat]
MnsShape ==
  /\ publish \in [Msgs -> [state : {"none", "trying", "ok", "failed"}, tries : Nat]]
  /\ queue \in [Msgs -> [Copies -> [at : {"nowhere", "visible"} \cup Consumers, dequeued : Nat]]]
  /\ held \in [Consumers -> {Empty} \cup Deliveries]
  /\ outcome \in [Msgs -> SUBSET {"handled", "dead_letter", "dropped"}]

\* A try that is still to be made has a copy to be; what is deleted, something
\* became of.
TriesLeft == \A m \in Msgs : publish[m].state \in {"none", "trying"} => publish[m].tries + 1 \in Copies
DeletedLast == \A c \in Consumers : held[c].pc = "delete" => outcome[held[c].msg] # {}

MnsInv == MnsShape /\ TriesLeft /\ DeletedLast /\ NothingVanishes

LEMMA PublishInv ==
  ASSUME MnsInv, NEW m \in Msgs, Publish(m) \/ Register(m) PROVE MnsInv'
<1>1. CASE Publish(m)
  <2>1. publish' = [publish EXCEPT ![m] = [publish[m] EXCEPT !.state = "trying"]]
    BY <1>1 DEF Publish
  <2>2. [publish[m] EXCEPT !.state = "trying"] \in [state : {"none", "trying", "ok", "failed"}, tries : Nat]
    BY DEF MnsInv, MnsShape
  <2>3. /\ publish' \in [Msgs -> [state : {"none", "trying", "ok", "failed"}, tries : Nat]]
        /\ publish'[m].state = "trying" /\ publish'[m].tries = publish[m].tries /\ publish[m].state = "none"
        /\ \A k \in Msgs \ {m} : publish'[k] = publish[k]
    BY <1>1, <2>1, <2>2 DEF MnsInv, MnsShape, Publish
  <2> QED
    <3>1. MnsShape'
      BY <1>1, <2>3 DEF Publish, MnsInv, MnsShape
    <3>2. TriesLeft'
      BY <2>3 DEF MnsInv, TriesLeft
    <3>3. DeletedLast' /\ NothingVanishes'
      BY <1>1, <2>3 DEF Publish, MnsInv, DeletedLast, NothingVanishes, Inside
    <3> QED
      BY <3>1, <3>2, <3>3 DEF MnsInv
<1>2. CASE Register(m)
  BY <1>2 DEF Register, MnsInv, MnsShape, TriesLeft, DeletedLast, NothingVanishes, Inside
<1> QED
  BY <1>1, <1>2

LEMMA SendInv ==
  ASSUME MnsInv, NEW m \in Msgs, DoSend(m) PROVE MnsInv'
<1> DEFINE try == publish[m].tries
           CopyRow == [at : {"nowhere", "visible"} \cup Consumers, dequeued : Nat]
           Attempts == [state : {"none", "trying", "ok", "failed"}, tries : Nat]
<1>0. /\ publish[m].state = "trying" /\ try \in Nat /\ try + 1 \in Copies /\ publish[m] \in Attempts
      /\ UNCHANGED <<held, handlers, outcome>>
  BY DEF DoSend, MnsInv, MnsShape, TriesLeft
<1>1. \/ queue' = queue
      \/ Enqueue(m)
  BY DEF DoSend
<1>2. ASSUME Enqueue(m)
      PROVE  /\ queue' \in [Msgs -> [Copies -> CopyRow]]
             /\ queue'[m][try + 1].at = "visible"
             /\ \A k \in Msgs, i \in Copies : queue[k][i].at # "nowhere" => queue'[k][i].at # "nowhere"
  <2>1. PICK new : new = [queue[m][try + 1] EXCEPT !.at = "visible"]
    OBVIOUS
  <2>2. new \in CopyRow /\ new.at = "visible"
    <3>1. queue[m][try + 1] \in CopyRow
      BY <1>0 DEF MnsInv, MnsShape
    <3> QED
      BY <2>1, <3>1
  <2>3. PICK all : all = [queue[m] EXCEPT ![try + 1] = new]
    OBVIOUS
  <2>4. /\ all \in [Copies -> CopyRow] /\ all[try + 1] = new
        /\ \A i \in Copies \ {try + 1} : all[i] = queue[m][i]
    BY <1>0, <2>2, <2>3 DEF MnsInv, MnsShape
  <2>5. queue' = [queue EXCEPT ![m] = all]
    BY <1>2, <2>1, <2>3 DEF Enqueue
  <2>6. queue \in [Msgs -> [Copies -> CopyRow]]
    BY DEF MnsInv, MnsShape
  <2> HIDE DEF CopyRow, try
  <2> QED
    BY <1>0, <2>2, <2>4, <2>5, <2>6
<1>3. \/ publish' = [publish EXCEPT ![m] = [publish[m] EXCEPT !.state = "ok"]] /\ Enqueue(m)
      \/ publish' = [publish EXCEPT ![m] = [publish[m] EXCEPT !.state = "failed"]]
      \/ publish' = [publish EXCEPT ![m] = [state |-> IF try + 1 = MaxTries THEN "failed" ELSE "trying",
                                            tries |-> try + 1]]
  <2>1. publish[m] = [state |-> publish[m].state, tries |-> publish[m].tries]
    BY <1>0
  <2> QED
    BY <1>0, <2>1 DEF DoSend, MnsInv, MnsShape
<1>4. /\ publish' \in [Msgs -> Attempts] /\ \A k \in Msgs \ {m} : publish'[k] = publish[k]
      /\ publish'[m].state = "ok" => Enqueue(m)
      /\ publish'[m].state = "none" => FALSE
      /\ publish'[m].state = "trying" => publish'[m].tries = try + 1 /\ try + 1 # MaxTries
  BY <1>0, <1>3 DEF MnsInv, MnsShape
<1>5. MnsShape'
  BY <1>0, <1>1, <1>2, <1>4 DEF MnsInv, MnsShape
<1>6. TriesLeft'
  BY <1>0, <1>4, MnsAssumption DEF MnsInv, TriesLeft, Copies
<1>7. DeletedLast'
  BY <1>0 DEF MnsInv, DeletedLast
<1>8. NothingVanishes'
  <2> SUFFICES ASSUME NEW k \in Msgs, publish'[k].state = "ok"
               PROVE  outcome'[k] # {} \/ \E i \in Copies : queue'[k][i].at # "nowhere"
    BY DEF NothingVanishes, Inside
  <2>1. CASE k = m
    BY <1>0, <1>2, <1>4, <2>1
  <2>2. CASE k # m
    <3>1. outcome[k] # {} \/ \E i \in Copies : queue[k][i].at # "nowhere"
      BY <1>4, <2>2 DEF MnsInv, NothingVanishes, Inside
    <3>2. CASE queue' = queue
      BY <1>0, <3>1, <3>2
    <3>3. CASE Enqueue(m)
      BY <1>0, <1>2, <3>1, <3>3
    <3> QED
      BY <1>1, <3>2, <3>3
  <2> QED
    BY <2>1, <2>2
<1> QED
  BY <1>5, <1>6, <1>7, <1>8 DEF MnsInv

\* A copy that is taken or shown again stays somewhere.
LEMMA CopyInv ==
  ASSUME MnsInv, NEW m \in Msgs, NEW i \in Copies, NEW at \in {"visible"} \cup Consumers,
         NEW n \in Nat, queue' = [queue EXCEPT ![m][i] = [at |-> at, dequeued |-> n]],
         held' \in [Consumers -> {Empty} \cup Deliveries],
         \A c \in Consumers : held'[c] = held[c] \/ held'[c].pc = "handle",
         UNCHANGED <<publish, outcome>>
  PROVE  MnsInv'
<1> DEFINE CopyRow == [at : {"nowhere", "visible"} \cup Consumers, dequeued : Nat]
<1>1. PICK new : new = [at |-> at, dequeued |-> n]
  OBVIOUS
<1>2. new \in CopyRow /\ new.at # "nowhere"
  BY <1>1, MnsAssumption
<1>3. PICK all : all = [queue[m] EXCEPT ![i] = new]
  OBVIOUS
<1>4. queue \in [Msgs -> [Copies -> CopyRow]]
  BY DEF MnsInv, MnsShape
<1>5. all \in [Copies -> CopyRow] /\ all[i] = new /\ \A j \in Copies \ {i} : all[j] = queue[m][j]
  BY <1>2, <1>3, <1>4
<1>6. queue' = [queue EXCEPT ![m] = all]
  BY <1>1, <1>3
<1>7. /\ queue' \in [Msgs -> [Copies -> CopyRow]]
      /\ \A k \in Msgs, j \in Copies : queue[k][j].at # "nowhere" => queue'[k][j].at # "nowhere"
  <2> HIDE DEF CopyRow
  <2> QED
    BY <1>2, <1>4, <1>5, <1>6
<1>8. MnsShape'
  BY <1>7 DEF MnsInv, MnsShape
<1>9. NothingVanishes'
  BY <1>7 DEF MnsInv, NothingVanishes, Inside
<1> QED
  BY <1>8, <1>9 DEF MnsInv, TriesLeft, DeletedLast

LEMMA ReceiveInv ==
  ASSUME MnsInv, NEW c \in Consumers, NEW m \in Msgs, NEW i \in Copies, ReceiveMessage(c, m, i)
  PROVE  MnsInv'
<1>1. PICK n : n = IF queue[m][i].dequeued < DlqThreshold THEN queue[m][i].dequeued + 1 ELSE queue[m][i].dequeued
  OBVIOUS
<1>2. n \in Nat
  BY <1>1 DEF MnsInv, MnsShape
<1>3. queue' = [queue EXCEPT ![m][i] = [at |-> c, dequeued |-> n]]
  BY <1>1 DEF ReceiveMessage, MnsInv, MnsShape
<1>4. queue'[m][i].dequeued = n
  BY <1>3 DEF MnsInv, MnsShape
<1>5. PICK d : d = [pc |-> "handle", msg |-> m, copy |-> i, count |-> n]
  OBVIOUS
<1>6. d \in Deliveries /\ d.pc = "handle" /\ held' = [held EXCEPT ![c] = d]
  BY <1>2, <1>4, <1>5 DEF ReceiveMessage, Deliveries
<1>7. /\ held' \in [Consumers -> {Empty} \cup Deliveries]
      /\ \A k \in Consumers : held'[k] = held[k] \/ held'[k].pc = "handle"
  BY <1>6 DEF MnsInv, MnsShape
<1>8. UNCHANGED <<publish, outcome>>
  BY DEF ReceiveMessage
<1> QED
  BY <1>2, <1>3, <1>7, <1>8, CopyInv

LEMMA TimeoutInv ==
  ASSUME MnsInv, NEW m \in Msgs, NEW i \in Copies, VisibilityTimeout(m, i)
  PROVE  MnsInv'
<1>1. PICK n : n = queue[m][i].dequeued
  OBVIOUS
<1>2. n \in Nat /\ [queue[m][i] EXCEPT !.at = "visible"] = [at |-> "visible", dequeued |-> n]
  BY <1>1 DEF MnsInv, MnsShape
<1>3. queue' = [queue EXCEPT ![m][i] = [at |-> "visible", dequeued |-> n]]
  BY <1>2 DEF VisibilityTimeout, MnsInv, MnsShape
<1>4. held' = held /\ UNCHANGED <<publish, outcome>> /\ held \in [Consumers -> {Empty} \cup Deliveries]
  BY DEF VisibilityTimeout, MnsInv, MnsShape
<1> QED
  BY <1>2, <1>3, <1>4, CopyInv

\* What is taken out of the queue, something became of.
LEMMA TickInv ==
  ASSUME MnsInv, NEW c \in Consumers, HandleOne(c) \/ DeleteMessage(c) \/ ConsumerDies(c)
  PROVE  MnsInv'
<1>0. held[c] \in Deliveries /\ held[c].pc \in {"handle", "delete"} /\ held[c] # Empty
  BY DEF HandleOne, DeleteMessage, ConsumerDies, HeldAt, MnsInv, MnsShape, Empty, Deliveries
<1> DEFINE m == held[c].msg i == held[c].copy
<1>1. m \in Msgs /\ i \in Copies
  BY <1>0 DEF Deliveries
<1>2. CASE HandleOne(c)
  <2>1. /\ UNCHANGED <<publish, queue>>
        /\ \/ HeldTo(c, "delete") /\ \E what \in {"dead_letter", "dropped", "handled"} : Became(m, what)
           \/ Leave(c) /\ UNCHANGED outcome
    BY <1>2 DEF HandleOne
  <2>2. CASE Leave(c) /\ UNCHANGED outcome
    <3>1. held' \in [Consumers -> {Empty} \cup Deliveries] /\ \A k \in Consumers : held'[k] = held[k] \/ held'[k].pc = "idle"
      BY <2>2 DEF Leave, MnsInv, MnsShape, Empty
    <3> QED
      BY <2>1, <2>2, <3>1 DEF MnsInv, MnsShape, TriesLeft, DeletedLast, NothingVanishes, Inside
  <2>3. ASSUME HeldTo(c, "delete"), NEW what \in {"dead_letter", "dropped", "handled"}, Became(m, what)
        PROVE  MnsInv'
    <3>1. PICK d : d = [held[c] EXCEPT !.pc = "delete"]
      OBVIOUS
    <3>2. d \in Deliveries /\ d.msg = m
      BY <1>0, <3>1 DEF Deliveries
    <3>3. held' = [held EXCEPT ![c] = d]
      BY <2>3, <3>1 DEF HeldTo
    <3>4. held' \in [Consumers -> {Empty} \cup Deliveries] /\ held'[c] = d /\ \A k \in Consumers \ {c} : held'[k] = held[k]
      BY <3>2, <3>3 DEF MnsInv, MnsShape
    <3>5. outcome' \in [Msgs -> SUBSET {"handled", "dead_letter", "dropped"}]
      BY <1>1, <2>3 DEF Became, MnsInv, MnsShape
    <3>6. what \in outcome'[m] /\ \A k \in Msgs : outcome[k] \subseteq outcome'[k]
      BY <1>1, <2>3 DEF Became, MnsInv, MnsShape
    <3>7. MnsShape'
      BY <2>1, <3>4, <3>5 DEF MnsInv, MnsShape
    <3>8. DeletedLast'
      <4> SUFFICES ASSUME NEW k \in Consumers, held'[k].pc = "delete" PROVE outcome'[held'[k].msg] # {}
        BY DEF DeletedLast
      <4>1. CASE k = c
        BY <4>1, <3>2, <3>4, <3>6
      <4>2. CASE k # c
        <5>1. held'[k] = held[k] /\ outcome[held[k].msg] # {}
          BY <4>2, <3>4 DEF MnsInv, DeletedLast
        <5>2. held[k].msg \in Msgs
          BY <5>1 DEF MnsInv, MnsShape, Deliveries, Empty
        <5> QED
          BY <5>1, <5>2, <3>6
      <4> QED
        BY <4>1, <4>2
    <3>9. NothingVanishes' /\ TriesLeft'
      BY <2>1, <3>6 DEF MnsInv, NothingVanishes, Inside, TriesLeft
    <3> QED
      BY <3>7, <3>8, <3>9 DEF MnsInv
  <2> QED
    BY <2>1, <2>2, <2>3
<1>3. CASE DeleteMessage(c) \/ ConsumerDies(c)
  <2>1. /\ Leave(c) /\ UNCHANGED <<publish, outcome>>
        /\ \/ queue' = queue
           \/ queue' = [queue EXCEPT ![m][i] = NoCopy] /\ outcome[m] # {}
    BY <1>3 DEF DeleteMessage, ConsumerDies, MnsInv, DeletedLast, HeldAt
  <2>2. held' \in [Consumers -> {Empty} \cup Deliveries] /\ \A k \in Consumers : held'[k] = held[k] \/ held'[k].pc = "idle"
    BY <2>1 DEF Leave, MnsInv, MnsShape, Empty
  <2>3. DeletedLast' /\ TriesLeft'
    BY <2>1, <2>2 DEF MnsInv, DeletedLast, TriesLeft
  <2>4. queue' \in [Msgs -> [Copies -> [at : {"nowhere", "visible"} \cup Consumers, dequeued : Nat]]]
    <3> DEFINE CopyRow == [at : {"nowhere", "visible"} \cup Consumers, dequeued : Nat]
    <3>1. queue \in [Msgs -> [Copies -> CopyRow]] /\ NoCopy \in CopyRow
      BY DEF MnsInv, MnsShape, NoCopy
    <3>2. PICK all : all = [queue[m] EXCEPT ![i] = NoCopy]
      OBVIOUS
    <3>3. all \in [Copies -> CopyRow]
      BY <1>1, <3>1, <3>2
    <3>4. queue' = queue \/ queue' = [queue EXCEPT ![m] = all]
      BY <2>1, <3>2
    <3> HIDE DEF CopyRow, m, i
    <3>5. queue' \in [Msgs -> [Copies -> CopyRow]]
      BY <1>1, <3>1, <3>3, <3>4
    <3> QED
      BY <3>5 DEF CopyRow
  <2>5. \A k \in Msgs : queue'[k] = queue[k] \/ (k = m /\ outcome[m] # {})
    BY <1>1, <2>1 DEF MnsInv, MnsShape
  <2>6. NothingVanishes'
    BY <2>1, <2>5 DEF MnsInv, NothingVanishes, Inside
  <2> QED
    BY <2>1, <2>2, <2>3, <2>4, <2>6 DEF MnsInv, MnsShape
<1> QED
  BY <1>2, <1>3

LEMMA MnsStepInv == MnsInv /\ MnsNext => MnsInv'
  BY PublishInv, SendInv, ReceiveInv, TimeoutInv, TickInv DEF MnsNext, Tick

LEMMA MnsFrame == [Next]_vars => MnsNext \/ UNCHANGED mnsVars
  BY DEF Next, vars

LEMMA MnsAtRest == MnsInv /\ UNCHANGED mnsVars => MnsInv'
  BY DEF mnsVars, MnsInv, MnsShape, TriesLeft, DeletedLast, NothingVanishes, Inside

LEMMA MnsStart == MnsInit => MnsInv
<1>1. 1 \in Copies
  BY MnsAssumption DEF Copies
<1> QED
  BY <1>1 DEF MnsInit, MnsInv, MnsShape, TriesLeft, DeletedLast, NothingVanishes, Inside, NoCopy, Empty

-----------------------------------------------------------------------------
(* Notifications.  A note nobody overlapped on is in one hand at most, and  *)
(* once it has arrived that hand is about to mark it, or it is marked.      *)

Queued == [status : {"pending", "sent", "dead_letter"}, adapter : BOOLEAN, retries : Nat]
Batches(rows) == UNION {[S -> Nat] : S \in (SUBSET rows) \ {{}}}
Hand == [pc : {"send", "sent", "failed"}, rows : Batches(Notes)]
NoteShape ==
  /\ note \in [Notes -> {NotQueued} \cup Queued]
  /\ sending \in [Dispatchers -> {Idle} \cup Hand]
  /\ arrived \in [Notes -> {"no", "once", "again"}]

HeldQueued == \A d \in Dispatchers : \A n \in InHand(d) : note[n] # NotQueued
SentFirst == \A d \in Dispatchers : sending[d].pc = "sent" => arrived[NoteRow(d)] # "no"
\* A note no mishap is known of.
Sole(n) ==
  /\ arrived[n] # "again"
  /\ \A d, e \in Dispatchers : n \in InHand(d) /\ n \in InHand(e) => d = e
  /\ arrived[n] = "once" =>
       \/ \E d \in Dispatchers : sending[d].pc = "sent" /\ NoteRow(d) = n
       \/ note[n].status = "sent" /\ \A d \in Dispatchers : n \notin InHand(d)
MarkedArrived == \A n \in Notes : note[n].status = "sent" => arrived[n] # "no"

NoteInv ==
  /\ NoteShape /\ HeldQueued /\ SentFirst /\ MarkedArrived
  /\ \A n \in Notes : n \notin unsure => Sole(n)

AnyOf(S) == CHOOSE n \in S : TRUE

LEMMA BatchRows ==
  ASSUME NEW rows, NEW f
  PROVE  /\ f \in Batches(rows) => DOMAIN f # {} /\ DOMAIN f \subseteq rows /\ f \in [DOMAIN f -> Nat]
         /\ \A S \in SUBSET rows : S # {} /\ f \in [S -> Nat] => f \in Batches(rows) /\ DOMAIN f = S
  BY DEF Batches

LEMMA InHandRow ==
  ASSUME NoteShape, NEW d \in Dispatchers
  PROVE  /\ sending[d] = Idle => InHand(d) = {} /\ sending[d].pc = "idle"
         /\ sending[d] # Idle => NoteRow(d) \in InHand(d) /\ sending[d] \in Hand /\ InHand(d) = DOMAIN sending[d].rows
         /\ InHand(d) \subseteq Notes
         /\ NoteRow(d) = AnyOf(InHand(d))
<1>1. sending[d] \in {Idle} \cup Hand
  BY DEF NoteShape
<1>2. CASE sending[d] = Idle
  BY <1>2 DEF InHand, Idle, NoteRow, AnyOf
<1>3. CASE sending[d] # Idle
  <2>1. sending[d].rows \in Batches(Notes)
    BY <1>1, <1>3 DEF Hand
  <2>2. DOMAIN sending[d].rows # {} /\ DOMAIN sending[d].rows \subseteq Notes
    BY <2>1, BatchRows
  <2>3. InHand(d) = DOMAIN sending[d].rows
    BY <1>3 DEF InHand
  <2>4. NoteRow(d) \in InHand(d)
    BY <2>2, <2>3 DEF NoteRow
  <2> QED
    BY <1>1, <1>3, <2>2, <2>3, <2>4 DEF NoteRow, AnyOf
<1> QED
  BY <1>2, <1>3

\* What is not moved keeps its rows.
LEMMA SameHand ==
  ASSUME NEW d, sending'[d] = sending[d]
  PROVE  InHand(d)' = InHand(d) /\ NoteRow(d)' = NoteRow(d)
<1>1. InHand(d)' = InHand(d)
  BY DEF InHand
<1>2. NoteRow(d) = AnyOf(InHand(d)) /\ NoteRow(d)' = AnyOf(InHand(d)')
  BY DEF NoteRow, AnyOf
<1> QED
  BY <1>1, <1>2

LEMMA HandMoves ==
  ASSUME NoteShape, NEW d \in Dispatchers, sending[d] # Idle,
         NEW pc \in {"sent", "failed"}, SendingTo(d, pc)
  PROVE  /\ sending' \in [Dispatchers -> {Idle} \cup Hand]
         /\ sending'[d].pc = pc /\ \A e \in Dispatchers \ {d} : sending'[e] = sending[e]
         /\ \A e \in Dispatchers : InHand(e)' = InHand(e) /\ NoteRow(e)' = NoteRow(e)
<1>1. PICK h : h = [sending[d] EXCEPT !.pc = pc]
  OBVIOUS
<1>2. sending[d] \in Hand
  BY InHandRow
<1>3. h \in Hand /\ h.pc = pc /\ h.rows = sending[d].rows /\ h # Idle
  BY <1>1, <1>2 DEF Hand, Idle
<1>4. sending' = [sending EXCEPT ![d] = h]
  BY <1>1 DEF SendingTo
<1>5. /\ sending' \in [Dispatchers -> {Idle} \cup Hand]
      /\ sending'[d] = h /\ \A e \in Dispatchers \ {d} : sending'[e] = sending[e]
  BY <1>3, <1>4 DEF NoteShape
<1>6. InHand(d)' = InHand(d)
  BY <1>3, <1>5 DEF InHand
<1>7. NoteRow(d) = AnyOf(InHand(d)) /\ NoteRow(d)' = AnyOf(InHand(d)')
  BY DEF NoteRow, AnyOf
<1> QED
  BY <1>3, <1>5, <1>6, <1>7, SameHand

\* A hand goes on without its row, or lets everything go.
LEMMA HandLeaves ==
  ASSUME NoteShape, NEW d \in Dispatchers, sending[d] # Idle,
         NextNote(d) \/ sending' = [sending EXCEPT ![d] = Idle]
  PROVE  /\ sending' \in [Dispatchers -> {Idle} \cup Hand]
         /\ sending'[d].pc # "sent" /\ \A e \in Dispatchers \ {d} : sending'[e] = sending[e]
         /\ InHand(d)' \subseteq InHand(d) \ {NoteRow(d)}
         /\ \A e \in Dispatchers \ {d} : InHand(e)' = InHand(e) /\ NoteRow(e)' = NoteRow(e)
<1> DEFINE rest == InHand(d) \ {NoteRow(d)}
<1>0. sending[d] \in Hand /\ InHand(d) \subseteq Notes /\ InHand(d) = DOMAIN sending[d].rows
  BY InHandRow
<1>1. CASE sending' = [sending EXCEPT ![d] = Idle]
  <2>1. sending'[d] = Idle /\ sending' \in [Dispatchers -> {Idle} \cup Hand]
        /\ \A e \in Dispatchers \ {d} : sending'[e] = sending[e]
    BY <1>1 DEF NoteShape
  <2>2. InHand(d)' = {}
    BY <2>1 DEF InHand
  <2> QED
    BY <2>1, <2>2, SameHand DEF Idle
<1>2. CASE NextNote(d) /\ rest # {}
  <2>1. PICK f : f = [n \in rest |-> sending[d].rows[n]]
    OBVIOUS
  <2>2. sending[d].rows \in Batches(Notes)
    BY <1>0 DEF Hand
  <2>3. f \in [rest -> Nat]
    <3>1. sending[d].rows \in [DOMAIN sending[d].rows -> Nat]
      BY <2>2, BatchRows
    <3> QED
      BY <1>0, <2>1, <3>1
  <2>4. f \in Batches(Notes) /\ DOMAIN f = rest
    BY <1>0, <1>2, <2>3, BatchRows
  <2>5. PICK h : h = [pc |-> "send", rows |-> f]
    OBVIOUS
  <2>6. h \in Hand /\ h # Idle /\ h.pc = "send" /\ h.rows = f
    BY <2>4, <2>5 DEF Hand, Idle
  <2>7. sending' = [sending EXCEPT ![d] = h]
    BY <1>2, <2>1, <2>5 DEF NextNote
  <2>8. /\ sending' \in [Dispatchers -> {Idle} \cup Hand]
        /\ sending'[d] = h /\ \A e \in Dispatchers \ {d} : sending'[e] = sending[e]
    BY <2>6, <2>7 DEF NoteShape
  <2>9. InHand(d)' = rest
    BY <2>4, <2>6, <2>8 DEF InHand
  <2> QED
    BY <2>6, <2>8, <2>9, SameHand
<1>3. CASE NextNote(d) /\ rest = {}
  <2>1. sending' = [sending EXCEPT ![d] = Idle]
    BY <1>3 DEF NextNote
  <2> QED
    BY <1>1, <2>1
<1> QED
  BY <1>1, <1>2, <1>3

LEMMA QueueNoteInv ==
  ASSUME NoteInv, NEW n \in Notes, NEW adapter \in BOOLEAN, SendNote(n, adapter) PROVE NoteInv'
<1>1. PICK q : q = [status |-> "pending", adapter |-> adapter, retries |-> 0]
  OBVIOUS
<1>2. q \in Queued /\ q.status = "pending" /\ q # NotQueued
  BY <1>1 DEF Queued, NotQueued
<1>3. note' = [note EXCEPT ![n] = q] /\ note[n] = NotQueued /\ UNCHANGED <<sending, arrived, unsure>>
  BY <1>1 DEF SendNote
<1>4. /\ note' \in [Notes -> {NotQueued} \cup Queued] /\ note'[n] = q
      /\ \A k \in Notes \ {n} : note'[k] = note[k]
  BY <1>2, <1>3 DEF NoteInv, NoteShape
<1>5. \A d \in Dispatchers : InHand(d)' = InHand(d) /\ NoteRow(d)' = NoteRow(d) /\ InHand(d) \subseteq Notes
  BY <1>3, SameHand, InHandRow DEF NoteInv
<1>6. note[n].status = "none"
  BY <1>3 DEF NotQueued
<1>7. NoteShape' /\ HeldQueued' /\ SentFirst' /\ MarkedArrived'
  BY <1>2, <1>3, <1>4, <1>5 DEF NoteInv, NoteShape, HeldQueued, SentFirst, MarkedArrived
<1>8. ASSUME NEW k \in Notes, k \notin unsure' PROVE Sole(k)'
  <2>1. Sole(k)
    BY <1>3, <1>8 DEF NoteInv
  <2> QED
    BY <1>2, <1>3, <1>4, <1>5, <1>6, <2>1 DEF Sole
<1> QED
  BY <1>7, <1>8 DEF NoteInv

\* A hand takes what is pending.
LEMMA Claimed ==
  ASSUME NoteInv, NEW d \in Dispatchers, ClaimPending(d)
  PROVE  /\ sending' \in [Dispatchers -> {Idle} \cup Hand]
         /\ sending'[d].pc = "send" /\ \A e \in Dispatchers \ {d} : sending'[e] = sending[e]
         /\ InHand(d)' = {n \in Notes : note[n].status = "pending"}
<1> DEFINE due == {n \in Notes : note[n].status = "pending"}
<1>1. PICK f : f = [n \in due |-> note[n].retries]
  OBVIOUS
<1>2. /\ sending[d] = Idle /\ due # {} /\ UNCHANGED <<note, arrived>>
      /\ unsure' = unsure \cup (due \cap UNION {InHand(e) : e \in Dispatchers \ {d}})
  BY DEF ClaimPending
<1>3. \A n \in due : note[n] \in Queued /\ note[n].retries \in Nat
  BY DEF NoteInv, NoteShape, NotQueued, Queued
<1>4. f \in Batches(Notes) /\ DOMAIN f = due
  <2>1. f \in [due -> Nat]
    BY <1>1, <1>3
  <2> HIDE DEF due
  <2>2. due \subseteq Notes
    BY DEF due
  <2> QED
    BY <1>2, <2>1, <2>2, BatchRows
<1>5. PICK h : h = [pc |-> "send", rows |-> f]
  OBVIOUS
<1>6. h \in Hand /\ h # Idle /\ h.pc = "send" /\ h.rows = f
  BY <1>4, <1>5 DEF Hand, Idle
<1>7. sending' = [sending EXCEPT ![d] = h]
  BY <1>1, <1>5 DEF ClaimPending
<1>8. /\ sending' \in [Dispatchers -> {Idle} \cup Hand]
      /\ sending'[d] = h /\ \A e \in Dispatchers \ {d} : sending'[e] = sending[e]
  BY <1>6, <1>7 DEF NoteInv, NoteShape
<1>9. InHand(d)' = due
  BY <1>4, <1>6, <1>8 DEF InHand
<1> QED
  BY <1>6, <1>8, <1>9

\* What is claimed beside another hand is put on record.
LEMMA ClaimInv ==
  ASSUME NoteInv, NEW d \in Dispatchers, ClaimPending(d) PROVE NoteInv'
<1> DEFINE due == {n \in Notes : note[n].status = "pending"}
<1>2. /\ sending[d] = Idle /\ due # {} /\ UNCHANGED <<note, arrived>>
      /\ unsure' = unsure \cup (due \cap UNION {InHand(e) : e \in Dispatchers \ {d}})
  BY DEF ClaimPending
<1>3. \A n \in due : note[n] \in Queued /\ note[n].retries \in Nat
  BY DEF NoteInv, NoteShape, NotQueued, Queued
<1>8. /\ sending' \in [Dispatchers -> {Idle} \cup Hand]
      /\ sending'[d].pc = "send" /\ \A e \in Dispatchers \ {d} : sending'[e] = sending[e]
  BY Claimed
<1>9. InHand(d)' = due
  BY Claimed
<1>10. \A e \in Dispatchers \ {d} : InHand(e)' = InHand(e) /\ NoteRow(e)' = NoteRow(e)
  BY <1>8, SameHand
<1>11. InHand(d) = {} /\ sending[d].pc = "idle"
  BY <1>2, InHandRow DEF NoteInv
<1>12. NoteShape' /\ SentFirst' /\ MarkedArrived'
  BY <1>2, <1>8, <1>10 DEF NoteInv, NoteShape, SentFirst, MarkedArrived
<1>13. HeldQueued'
  BY <1>2, <1>3, <1>9, <1>10 DEF NoteInv, HeldQueued, Queued, NotQueued
<1>14. ASSUME NEW k \in Notes, k \notin unsure' PROVE Sole(k)'
  <2>1. Sole(k) /\ (k \in due => \A e \in Dispatchers \ {d} : k \notin InHand(e))
    BY <1>2, <1>14 DEF NoteInv
  <2>2. \A e, g \in Dispatchers : k \in InHand(e)' /\ k \in InHand(g)' => e = g
    <3> HIDE DEF due
    <3> QED
      BY <1>9, <1>10, <2>1 DEF Sole
  <2>3. ASSUME arrived'[k] = "once"
        PROVE  \/ \E e \in Dispatchers : sending'[e].pc = "sent" /\ NoteRow(e)' = k
               \/ note'[k].status = "sent" /\ \A e \in Dispatchers : k \notin InHand(e)'
    <3>1. CASE \E e \in Dispatchers : sending[e].pc = "sent" /\ NoteRow(e) = k
      BY <1>8, <1>10, <1>11, <3>1
    <3>2. CASE note[k].status = "sent" /\ \A e \in Dispatchers : k \notin InHand(e)
      BY <1>2, <1>9, <1>10, <3>2
    <3> QED
      BY <1>2, <2>1, <2>3, <3>1, <3>2 DEF Sole
  <2> QED
    BY <1>2, <2>1, <2>2, <2>3 DEF Sole
<1> QED
  BY <1>12, <1>13, <1>14 DEF NoteInv

\* What only one dispatcher has in hand arrives once.
LEMMA ArriveInv ==
  ASSUME NoteInv, NEW d \in Dispatchers, ChannelSend(d) PROVE NoteInv'
<1> DEFINE n == NoteRow(d)
<1>1. sending[d].pc = "send" /\ sending[d] # Idle /\ note' = note
  BY DEF ChannelSend, Idle
<1>2. n \in InHand(d) /\ n \in Notes
  BY <1>1, InHandRow DEF NoteInv
<1>3. /\ arrived' = arrived \/ Arrive(n)
      /\ SendingTo(d, "sent") \/ SendingTo(d, "failed")
      /\ SendingTo(d, "sent") /\ ~ SendingTo(d, "failed") => Arrive(n)
      /\ unsure' = unsure \/ unsure' = unsure \cup {n}
      /\ Arrive(n) /\ n \notin unsure' => SendingTo(d, "sent") \/ arrived' = arrived
  BY DEF ChannelSend
<1>4. /\ arrived' \in [Notes -> {"no", "once", "again"}]
      /\ \A k \in Notes \ {n} : arrived'[k] = arrived[k]
      /\ Arrive(n) => arrived'[n] = IF arrived[n] = "no" THEN "once" ELSE "again"
      /\ arrived[n] # "no" => arrived'[n] # "no"
  <2>1. arrived \in [Notes -> {"no", "once", "again"}]
    BY DEF NoteInv, NoteShape
  <2> HIDE DEF n
  <2> QED
    BY <1>2, <1>3, <2>1 DEF Arrive
<1>5. PICK pc \in {"sent", "failed"} :
        /\ SendingTo(d, pc)
        /\ pc = "sent" => Arrive(n) /\ unsure' = unsure
        /\ pc = "failed" => arrived' = arrived \/ n \in unsure'
  BY DEF ChannelSend
<1>6. /\ sending' \in [Dispatchers -> {Idle} \cup Hand]
      /\ sending'[d].pc = pc /\ \A e \in Dispatchers \ {d} : sending'[e] = sending[e]
      /\ \A e \in Dispatchers : InHand(e)' = InHand(e) /\ NoteRow(e)' = NoteRow(e)
  BY <1>1, <1>5, HandMoves DEF NoteInv
<1>7. NoteShape' /\ HeldQueued' /\ MarkedArrived'
  BY <1>1, <1>4, <1>6 DEF NoteInv, NoteShape, HeldQueued, MarkedArrived
<1>8. SentFirst'
  <2> SUFFICES ASSUME NEW e \in Dispatchers, sending'[e].pc = "sent" PROVE arrived'[NoteRow(e)'] # "no"
    BY DEF SentFirst
  <2>1. CASE e = d
    BY <1>4, <1>5, <1>6, <2>1
  <2>2. CASE e # d
    <3>1. arrived[NoteRow(e)] # "no" /\ NoteRow(e) \in Notes
      BY <1>6, <2>2, InHandRow DEF NoteInv, SentFirst, Idle
    <3> QED
      BY <1>4, <1>6, <3>1
  <2> QED
    BY <2>1, <2>2
<1>9. ASSUME NEW k \in Notes, k \notin unsure' PROVE Sole(k)'
  <2>1. k \notin unsure /\ Sole(k)
    BY <1>3, <1>9 DEF NoteInv
  <2>2. CASE k = n
    <3>1. arrived[n] = "no"
      BY <1>1, <1>2, <2>1, <2>2, InHandRow DEF NoteInv, Sole, Idle, NoteShape
    <3>2. CASE pc = "sent"
      BY <1>2, <1>4, <1>5, <1>6, <2>1, <2>2, <3>1, <3>2 DEF Sole
    <3>3. CASE pc = "failed"
      BY <1>4, <1>5, <1>6, <1>9, <2>1, <2>2, <3>1, <3>3 DEF Sole
    <3> QED
      BY <3>2, <3>3
  <2>3. CASE k # n
    <3>1. arrived'[k] = arrived[k] /\ note'[k] = note[k]
      BY <1>1, <1>4, <2>3
    <3>2. \A e \in Dispatchers : sending[e].pc = "sent" /\ NoteRow(e) = k => sending'[e].pc = "sent" /\ NoteRow(e)' = k
      BY <1>1, <1>6, <2>3
    <3> QED
      BY <1>6, <2>1, <3>1, <3>2 DEF Sole
  <2> QED
    BY <2>2, <2>3
<1> QED
  BY <1>7, <1>8, <1>9 DEF NoteInv

\* A mark, or its loss: the row in hand is let go.
LEMMA MarkInv ==
  ASSUME NoteInv, NEW d \in Dispatchers, MarkSent(d) \/ MarkFailed(d) \/ MarkLost(d) PROVE NoteInv'
<1> DEFINE n == NoteRow(d)
<1>1. /\ sending[d] # Idle /\ arrived' = arrived
      /\ NextNote(d) \/ sending' = [sending EXCEPT ![d] = Idle]
      /\ unsure \subseteq unsure'
  BY DEF MarkSent, MarkFailed, MarkLost, Idle
<1>2. n \in InHand(d) /\ n \in Notes /\ note[n] \in Queued
  BY <1>1, InHandRow DEF NoteInv, HeldQueued, NoteShape
<1>3. /\ sending' \in [Dispatchers -> {Idle} \cup Hand]
      /\ sending'[d].pc # "sent" /\ \A e \in Dispatchers \ {d} : sending'[e] = sending[e]
      /\ InHand(d)' \subseteq InHand(d) \ {n}
      /\ \A e \in Dispatchers \ {d} : InHand(e)' = InHand(e) /\ NoteRow(e)' = NoteRow(e)
  BY <1>1, HandLeaves DEF NoteInv
<1>4. \E q \in Queued :
        /\ note' = [note EXCEPT ![n] = q]
        /\ q.status = "sent" => sending[d].pc = "sent" \/ note' = note
        /\ sending[d].pc = "sent" => q.status = "sent" \/ n \in unsure'
  <2>1. CASE MarkSent(d)
    <3>1. [note[n] EXCEPT !.status = "sent"] \in Queued
      BY <1>2 DEF Queued
    <3> QED
      BY <2>1, <3>1, <1>2 DEF MarkSent, Queued
  <2>2. CASE MarkFailed(d)
    <3>1. PICK status : status = IF sending[d].rows[n] >= NoteRetries THEN "dead_letter" ELSE "pending"
      OBVIOUS
    <3>2. PICK q : q = [note[n] EXCEPT !.retries = @ + 1, !.status = status]
      OBVIOUS
    <3>3. status \in {"pending", "dead_letter"} /\ q \in Queued /\ q.status = status
      <4>1. status \in {"pending", "dead_letter"}
        BY <3>1
      <4>2. q = [status |-> status, adapter |-> note[n].adapter, retries |-> note[n].retries + 1]
        BY <1>2, <3>2 DEF Queued
      <4>3. note[n].adapter \in BOOLEAN /\ note[n].retries + 1 \in Nat
        BY <1>2 DEF Queued
      <4> QED
        BY <4>1, <4>2, <4>3 DEF Queued
    <3>4. note' = [note EXCEPT ![n] = q]
      BY <1>2, <2>2, <3>1, <3>2 DEF MarkFailed, Queued, NoteInv, NoteShape
    <3>5. sending[d].pc = "failed"
      BY <2>2 DEF MarkFailed
    <3> QED
      BY <3>3, <3>4, <3>5
  <2>3. CASE MarkLost(d)
    <3>1. note' = note /\ (sending[d].pc = "sent" => n \in unsure')
      BY <2>3 DEF MarkLost
    <3>2. note' = [note EXCEPT ![n] = note[n]]
      BY <1>2, <3>1 DEF NoteInv, NoteShape
    <3> QED
      BY <1>2, <3>1, <3>2
  <2> QED
    BY <2>1, <2>2, <2>3
<1>5. PICK q \in Queued :
        /\ note' = [note EXCEPT ![n] = q]
        /\ q.status = "sent" => sending[d].pc = "sent" \/ note' = note
        /\ sending[d].pc = "sent" => q.status = "sent" \/ n \in unsure'
  BY <1>4
<1>6. /\ note' \in [Notes -> {NotQueued} \cup Queued] /\ note'[n] = q /\ q # NotQueued
      /\ \A k \in Notes \ {n} : note'[k] = note[k]
  BY <1>2, <1>5 DEF NoteInv, NoteShape, NotQueued, Queued
<1>7. NoteShape'
  BY <1>1, <1>3, <1>6 DEF NoteInv, NoteShape
<1>8. HeldQueued'
  <2>1. \A e \in Dispatchers : InHand(e)' \subseteq InHand(e) /\ InHand(e) \subseteq Notes
    BY <1>3, InHandRow DEF NoteInv
  <2> HIDE DEF n
  <2> QED
    BY <1>6, <2>1 DEF NoteInv, HeldQueued
<1>9. SentFirst'
  BY <1>1, <1>3 DEF NoteInv, SentFirst
<1>10. MarkedArrived'
  BY <1>1, <1>5, <1>6 DEF NoteInv, MarkedArrived, SentFirst
<1>11. ASSUME NEW k \in Notes, k \notin unsure' PROVE Sole(k)'
  <2>1. Sole(k)
    BY <1>1, <1>11 DEF NoteInv
  <2>2. \A e, g \in Dispatchers : k \in InHand(e)' /\ k \in InHand(g)' => e = g
    BY <1>3, <2>1 DEF Sole
  <2>3. ASSUME arrived'[k] = "once"
        PROVE  \/ \E e \in Dispatchers : sending'[e].pc = "sent" /\ NoteRow(e)' = k
               \/ note'[k].status = "sent" /\ \A e \in Dispatchers : k \notin InHand(e)'
    <3>1. CASE \E e \in Dispatchers \ {d} : sending[e].pc = "sent" /\ NoteRow(e) = k
      BY <1>3, <3>1
    <3>2. CASE sending[d].pc = "sent" /\ n = k
      <4>1. note'[k].status = "sent"
        BY <1>5, <1>6, <1>11, <3>2
      <4>2. \A e \in Dispatchers : k \notin InHand(e)'
        BY <1>2, <1>3, <2>1, <3>2 DEF Sole
      <4> QED
        BY <4>1, <4>2
    <3>3. CASE note[k].status = "sent" /\ \A e \in Dispatchers : k \notin InHand(e)
      BY <1>2, <1>3, <1>6, <3>3
    <3> QED
      BY <1>1, <2>1, <2>3, <3>1, <3>2, <3>3 DEF Sole
  <2> QED
    BY <1>1, <2>1, <2>2, <2>3 DEF Sole
<1> QED
  BY <1>7, <1>8, <1>9, <1>10, <1>11 DEF NoteInv

LEMMA NoteStepInv == NoteInv /\ NoteNext => NoteInv'
  BY QueueNoteInv, ClaimInv, ArriveInv, MarkInv DEF NoteNext, Dispatch

LEMMA NoteFrame == [Next]_vars => NoteNext \/ UNCHANGED noteVars
  BY DEF Next, vars

LEMMA NoteAtRest ==
  NoteInv /\ UNCHANGED noteVars => NoteInv'
<1> SUFFICES ASSUME NoteInv, UNCHANGED noteVars PROVE NoteInv'
  OBVIOUS
<1>1. \A d \in Dispatchers : InHand(d)' = InHand(d) /\ NoteRow(d)' = NoteRow(d)
  BY SameHand DEF noteVars
<1>2. NoteShape' /\ HeldQueued' /\ SentFirst' /\ MarkedArrived' /\ unsure' = unsure
  BY <1>1 DEF noteVars, NoteInv, NoteShape, HeldQueued, SentFirst, MarkedArrived
<1>3. \A n \in Notes : Sole(n) => Sole(n)'
  BY <1>1 DEF noteVars, Sole
<1> QED
  BY <1>2, <1>3 DEF NoteInv

LEMMA NoteStart == NoteInit => NoteInv
<1> SUFFICES ASSUME NoteInit PROVE NoteInv
  OBVIOUS
<1>1. \A d \in Dispatchers : InHand(d) = {} /\ sending[d].pc = "idle"
  BY DEF NoteInit, InHand, Idle
<1> QED
  BY <1>1 DEF NoteInit, NoteInv, NoteShape, HeldQueued, SentFirst, MarkedArrived, Sole, NotQueued

-----------------------------------------------------------------------------
(* Reports.  One nobody doubts is in one dispatch at most, and once the     *)
(* authority has it that dispatch is about to write so, or it is written.   *)

ReportRow == [status : {"pending", "submitted", "dead_letter"}, of : Events, retries : Nat]
Stage == [pc : {"submit", "sent", "failed", "stamp"}, rows : Batches(ReportIds)]
ReportShape ==
  /\ event \in [Events -> [disposition : {"none", "block", "pass"}, reported : BOOLEAN]]
  /\ report \in [ReportIds -> {NoReport} \cup ReportRow]
  /\ received \in [ReportIds -> {"no", "once", "again"}]
  /\ run \in [Pods -> {NotRunning} \cup Stage]

InBody == \A p \in Pods : run[p] # NotRunning => p \in Bodies
ListedExist == \A p \in Pods : \A r \in Listed(p) : report[r] # NoReport
ReceivedFirst == \A p \in Pods : run[p].pc \in {"sent", "stamp"} => received[Row(p)] # "no"
\* A report no mishap is known of.
Clear(r) ==
  /\ received[r] # "again"
  /\ \A p, q \in Pods : r \in Listed(p) /\ r \in Listed(q) => p = q
  /\ received[r] = "once" =>
       \/ \E p \in Pods : run[p].pc = "sent" /\ Row(p) = r
       \/ /\ report[r].status = "submitted"
          /\ \A p \in Pods : r \in Listed(p) => run[p].pc = "stamp" /\ Row(p) = r

DispatchInv ==
  /\ ReportShape /\ ListedExist /\ ReceivedFirst
  /\ BlockedIsReported /\ SubmittedIsReceived
  /\ \A r \in ReportIds : r \notin doubt => Clear(r)

LeastOf(S) == CHOOSE r \in S : \A q \in S : r <= q

\* A nonempty set of numbers has a least one.
LEMMA LeastId ==
  ASSUME NEW T \in SUBSET Nat, T # {}
  PROVE  LeastOf(T) \in T
<1> DEFINE R == {p \in Nat \X Nat : p[1] < p[2]}
<1>1. IsWellFoundedOn(R, Nat)
  BY NatLessThanWellFounded DEF OpToRel
<1>2. PICK x \in T : \A y \in T : <<y, x>> \notin R
  <2> HIDE DEF R
  <2>1. \E x \in T : \A y \in T : ~ (<<y, x>> \in R)
    BY <1>1, WFMin
  <2> QED
    BY <2>1
<1>3. \A y \in T : x \in Nat /\ y \in Nat /\ ~ (y < x)
  BY <1>2
<1>4. \A y \in T : x <= y
  BY <1>3
<1> QED
  BY <1>4 DEF LeastOf

LEMMA ListedRow ==
  ASSUME ReportShape, NEW p \in Pods
  PROVE  /\ run[p] = NotRunning => Listed(p) = {} /\ run[p].pc = "idle"
         /\ run[p] # NotRunning => Row(p) \in Listed(p) /\ run[p] \in Stage /\ Listed(p) = DOMAIN run[p].rows
         /\ Listed(p) \subseteq ReportIds
         /\ Row(p) = LeastOf(Listed(p))
<1>1. run[p] \in {NotRunning} \cup Stage
  BY DEF ReportShape
<1>2. Row(p) = LeastOf(Listed(p))
  BY DEF Row, LeastOf
<1>3. CASE run[p] = NotRunning
  BY <1>2, <1>3 DEF Listed, NotRunning
<1>4. CASE run[p] # NotRunning
  <2>1. run[p].rows \in Batches(ReportIds) /\ run[p] \in Stage
    BY <1>1, <1>4 DEF Stage
  <2>2. Listed(p) = DOMAIN run[p].rows
    BY <1>4 DEF Listed
  <2>3. Listed(p) # {} /\ Listed(p) \subseteq ReportIds
    BY <2>1, <2>2, BatchRows
  <2>4. LeastOf(Listed(p)) \in Listed(p)
    BY <2>3, LeastId, ReportAssumption
  <2> QED
    BY <1>2, <1>4, <2>1, <2>2, <2>3, <2>4
<1> QED
  BY <1>3, <1>4

\* A dispatch that is not moved keeps its rows.
LEMMA SameStage ==
  ASSUME NEW p, run'[p] = run[p]
  PROVE  Listed(p)' = Listed(p) /\ Row(p)' = Row(p)
<1>1. Listed(p)' = Listed(p)
  BY DEF Listed
<1>2. Row(p) = LeastOf(Listed(p)) /\ Row(p)' = LeastOf(Listed(p)')
  BY DEF Row, LeastOf
<1> QED
  BY <1>1, <1>2

\* What a move of p to a stage changes: no rows, and the stage of p alone.
Moved(p, pc) ==
  /\ run' \in [Pods -> {NotRunning} \cup Stage]
  /\ run'[p].pc = pc /\ \A q \in Pods \ {p} : run'[q] = run[q]
  /\ \A q \in Pods : Listed(q)' = Listed(q) /\ Row(q)' = Row(q)

LEMMA StageMoves ==
  ASSUME ReportShape, NEW p \in Pods, run[p] # NotRunning,
         NEW pc \in {"sent", "failed", "stamp"}, RunTo(p, pc)
  PROVE  Moved(p, pc)
<1>1. PICK h : h = [run[p] EXCEPT !.pc = pc]
  OBVIOUS
<1>2. run[p] \in Stage
  BY ListedRow
<1>3. h \in Stage /\ h.pc = pc /\ h.rows = run[p].rows /\ h # NotRunning
  BY <1>1, <1>2 DEF Stage, NotRunning
<1>4. run' = [run EXCEPT ![p] = h]
  BY <1>1 DEF RunTo
<1>5. /\ run' \in [Pods -> {NotRunning} \cup Stage]
      /\ run'[p] = h /\ \A q \in Pods \ {p} : run'[q] = run[q]
  BY <1>3, <1>4 DEF ReportShape
<1>6. Listed(p)' = Listed(p)
  BY <1>3, <1>5 DEF Listed
<1>7. Row(p) = LeastOf(Listed(p)) /\ Row(p)' = LeastOf(Listed(p)')
  BY DEF Row, LeastOf
<1> QED
  BY <1>3, <1>5, <1>6, <1>7, SameStage DEF Moved

\* What p lets go, at the least its row.
Dropped(p) ==
  /\ run' \in [Pods -> {NotRunning} \cup Stage]
  /\ run'[p].pc \in {"idle", "submit"} /\ \A q \in Pods \ {p} : run'[q] = run[q]
  /\ Listed(p)' \subseteq Listed(p) \ {Row(p)}
  /\ \A q \in Pods \ {p} : Listed(q)' = Listed(q) /\ Row(q)' = Row(q)

LEMMA StageLeaves ==
  ASSUME ReportShape, NEW p \in Pods,
         (run[p] # NotRunning /\ Following(p)) \/ run' = [run EXCEPT ![p] = NotRunning]
  PROVE  Dropped(p)
<1> DEFINE rest == Listed(p) \ {Row(p)}
<1>1. CASE run' = [run EXCEPT ![p] = NotRunning]
  <2>1. run'[p] = NotRunning /\ run' \in [Pods -> {NotRunning} \cup Stage]
        /\ \A q \in Pods \ {p} : run'[q] = run[q]
    BY <1>1 DEF ReportShape
  <2>2. Listed(p)' = {}
    BY <2>1 DEF Listed
  <2> QED
    BY <2>1, <2>2, SameStage DEF Dropped, NotRunning
<1>2. CASE run[p] # NotRunning /\ Following(p) /\ rest # {}
  <2>0. run[p] \in Stage /\ Listed(p) \subseteq ReportIds /\ Listed(p) = DOMAIN run[p].rows
    BY <1>2, ListedRow
  <2>1. PICK f : f = [r \in rest |-> run[p].rows[r]]
    OBVIOUS
  <2>2. run[p].rows \in Batches(ReportIds)
    BY <2>0 DEF Stage
  <2>3. f \in [rest -> Nat]
    <3>1. run[p].rows \in [DOMAIN run[p].rows -> Nat]
      BY <2>2, BatchRows
    <3> QED
      BY <2>0, <2>1, <3>1
  <2>4. f \in Batches(ReportIds) /\ DOMAIN f = rest
    BY <1>2, <2>0, <2>3, BatchRows
  <2>5. PICK h : h = [pc |-> "submit", rows |-> f]
    OBVIOUS
  <2>6. h \in Stage /\ h # NotRunning /\ h.pc = "submit" /\ h.rows = f
    BY <2>4, <2>5 DEF Stage, NotRunning
  <2>7. run' = [run EXCEPT ![p] = h]
    BY <1>2, <2>1, <2>5 DEF Following
  <2>8. /\ run' \in [Pods -> {NotRunning} \cup Stage]
        /\ run'[p] = h /\ \A q \in Pods \ {p} : run'[q] = run[q]
    BY <2>6, <2>7 DEF ReportShape
  <2>9. Listed(p)' = rest
    BY <2>4, <2>6, <2>8 DEF Listed
  <2> QED
    BY <2>6, <2>8, <2>9, SameStage DEF Dropped
<1>3. CASE run[p] # NotRunning /\ Following(p) /\ rest = {}
  <2>1. run' = [run EXCEPT ![p] = NotRunning]
    BY <1>3 DEF Following
  <2> QED
    BY <1>1, <2>1
<1> QED
  BY <1>1, <1>2, <1>3

\* Rows are written; they stay, and of the same event.
Rewritten == \A r \in ReportIds :
  report[r] # NoReport => report'[r] # NoReport /\ report'[r].of = report[r].of

\* Reports are queued, and dispositions changed, beside the dispatches.
LEMMA RecordInv ==
  ASSUME DispatchInv, NEW e \in Events,
         \/ \E d \in {"block", "pass"} : RecordEvent(e, d) \/ AdminReview(e, d)
         \/ QueueReport(e) \/ QueueOwed(e)
  PROVE  DispatchInv'
<1>1. /\ UNCHANGED <<received, run>> /\ doubt \subseteq doubt'
      /\ \/ report' = report
         \/ \E r \in NextId : report' = [report EXCEPT ![r] = Pending(e)]
      /\ \/ owing \subseteq owing'
         \/ /\ owing' = owing \ {e}
            /\ e \in doubt' \/ \E r \in NextId : report' = [report EXCEPT ![r] = Pending(e)]
  BY DEF RecordEvent, AdminReview, QueueReport, QueueOwed, InsertReport
<1>2. \/ event' = event
      \/ \E d \in {"block", "pass"} :
           /\ event' = [event EXCEPT ![e].disposition = d]
           /\ d = "block" => e \in doubt' \cup owing'
  BY DEF RecordEvent, AdminReview, QueueReport, QueueOwed
<1>3. Pending(e) \in ReportRow /\ Pending(e) # NoReport /\ Pending(e).of = e /\ Pending(e).status = "pending"
  BY DEF Pending, ReportRow, NoReport
<1>4. /\ report' \in [ReportIds -> {NoReport} \cup ReportRow] /\ Rewritten
      /\ \A r \in ReportIds : report'[r] = report[r] \/ (report[r] = NoReport /\ report'[r] = Pending(e))
      /\ (\E r \in NextId : report' = [report EXCEPT ![r] = Pending(e)]) =>
           \E r \in ReportIds : report'[r] = Pending(e)
  <2> HIDE DEF Pending
  <2> QED
    BY <1>1, <1>3 DEF DispatchInv, ReportShape, NextId, Rewritten
<1>5. \A p \in Pods : Listed(p)' = Listed(p) /\ Row(p)' = Row(p) /\ Listed(p) \subseteq ReportIds
  BY <1>1, SameStage, ListedRow DEF DispatchInv
<1>6. /\ event' \in [Events -> [disposition : {"none", "block", "pass"}, reported : BOOLEAN]]
      /\ \A g \in Events : event'[g].reported = event[g].reported
      /\ \A g \in Events : event'[g].disposition = "block" =>
           \/ event[g].disposition = "block"
           \/ g \in doubt' \cup owing'
  <2>1. CASE event' = event
    BY <2>1 DEF DispatchInv, ReportShape
  <2>2. ASSUME NEW d \in {"block", "pass"}, event' = [event EXCEPT ![e].disposition = d],
               d = "block" => e \in doubt' \cup owing'
        PROVE  <1>6!:
    <3>1. PICK h : h = [event[e] EXCEPT !.disposition = d]
      OBVIOUS
    <3>2. /\ h \in [disposition : {"none", "block", "pass"}, reported : BOOLEAN]
          /\ h.disposition = d /\ h.reported = event[e].reported
      BY <3>1 DEF DispatchInv, ReportShape
    <3>3. event' = [event EXCEPT ![e] = h]
      BY <2>2, <3>1
    <3>4. /\ event' \in [Events -> [disposition : {"none", "block", "pass"}, reported : BOOLEAN]]
          /\ event'[e] = h /\ \A g \in Events \ {e} : event'[g] = event[g]
      BY <3>2, <3>3 DEF DispatchInv, ReportShape
    <3> QED
      BY <1>4, <2>2, <3>2, <3>4
  <2> QED
    BY <1>2, <2>1, <2>2
<1>7. ReportShape'
  BY <1>1, <1>4, <1>6 DEF DispatchInv, ReportShape
<1>8. ListedExist' /\ ReceivedFirst'
  BY <1>1, <1>4, <1>5 DEF DispatchInv, ListedExist, ReceivedFirst, Rewritten
<1>9. BlockedIsReported'
  <2> SUFFICES ASSUME NEW g \in Events, event'[g].disposition = "block"
               PROVE  g \in doubt' \cup owing' \/ \E r \in ReportIds : report'[r] # NoReport /\ report'[r].of = g
    BY DEF BlockedIsReported
  <2>1. CASE event[g].disposition = "block" /\ g \in owing \ owing'
    <3>1. g = e /\ (e \in doubt' \/ \E r \in ReportIds : report'[r] = Pending(e))
      BY <1>1, <1>4, <2>1
    <3> QED
      BY <1>3, <3>1
  <2>2. CASE event[g].disposition = "block" /\ g \notin owing \ owing'
    BY <1>1, <1>4, <2>2 DEF DispatchInv, BlockedIsReported, Rewritten
  <2> QED
    BY <1>6, <2>1, <2>2
<1>10. SubmittedIsReceived'
  <2>1. \A r \in ReportIds : report'[r].status = "submitted" => report[r].status = "submitted"
    BY <1>3, <1>4
  <2> QED
    BY <1>1, <1>4, <1>6, <2>1 DEF DispatchInv, SubmittedIsReceived, Rewritten
<1>11. ASSUME NEW r \in ReportIds, r \notin doubt' PROVE Clear(r)'
  <2>1. Clear(r) /\ (report[r].status = "submitted" => report'[r] = report[r])
    BY <1>1, <1>4, <1>11 DEF DispatchInv, NoReport
  <2> QED
    BY <1>1, <1>5, <2>1 DEF Clear
<1> QED
  BY <1>7, <1>8, <1>9, <1>10, <1>11 DEF DispatchInv

\* A failed report is tried again by hand.
LEMMA RetryInv ==
  ASSUME DispatchInv, NEW r \in ReportIds, RetryReport(r) PROVE DispatchInv'
<1>1. PICK new : new = [report[r] EXCEPT !.status = "pending"]
  OBVIOUS
<1>2. /\ report[r].status = "dead_letter" /\ report' = [report EXCEPT ![r] = new]
      /\ UNCHANGED <<event, owing, received, run, doubt>> /\ report[r] \in ReportRow
  BY <1>1 DEF RetryReport, UpdateReport, DispatchInv, ReportShape
<1>3. new \in ReportRow /\ new # NoReport /\ new.of = report[r].of /\ new.status = "pending"
  BY <1>1, <1>2 DEF ReportRow, NoReport
<1>4. /\ report' \in [ReportIds -> {NoReport} \cup ReportRow]
      /\ report'[r] = new /\ \A q \in ReportIds \ {r} : report'[q] = report[q]
  BY <1>2, <1>3 DEF DispatchInv, ReportShape
<1>5. \A p \in Pods : Listed(p)' = Listed(p) /\ Row(p)' = Row(p) /\ Listed(p) \subseteq ReportIds
  BY <1>2, SameStage, ListedRow DEF DispatchInv
<1>6. ReportShape' /\ ListedExist' /\ ReceivedFirst'
  BY <1>2, <1>3, <1>4, <1>5 DEF DispatchInv, ReportShape, ListedExist, ReceivedFirst
<1>7. BlockedIsReported' /\ SubmittedIsReceived'
  BY <1>2, <1>3, <1>4 DEF DispatchInv, BlockedIsReported, SubmittedIsReceived
<1>8. \A q \in ReportIds : Clear(q) => Clear(q)'
  BY <1>2, <1>3, <1>4, <1>5 DEF Clear
<1> QED
  BY <1>2, <1>6, <1>7, <1>8 DEF DispatchInv

\* A dispatch lists what is pending.
LEMMA ListedDue ==
  ASSUME DispatchInv, NEW p \in Pods, ListPending(p)
  PROVE  /\ run' \in [Pods -> {NotRunning} \cup Stage]
         /\ run'[p].pc = "submit" /\ \A q \in Pods \ {p} : run'[q] = run[q]
         /\ Listed(p)' = {r \in ReportIds : report[r].status = "pending"}
<1> DEFINE due == {r \in ReportIds : report[r].status = "pending"}
<1>1. PICK f : f = [r \in due |-> report[r].retries]
  OBVIOUS
<1>2. /\ run[p] = NotRunning /\ due # {} /\ UNCHANGED <<event, report, received>>
      /\ doubt' = doubt \cup (due \cap UNION {Listed(q) : q \in Pods \ {p}})
  BY DEF ListPending
<1>3. \A r \in due : report[r] # NoReport /\ report[r].retries \in Nat
  BY DEF DispatchInv, ReportShape, NoReport, ReportRow
<1>4. f \in Batches(ReportIds) /\ DOMAIN f = due
  <2>1. f \in [due -> Nat]
    BY <1>1, <1>3
  <2>2. due \subseteq ReportIds
    OBVIOUS
  <2> HIDE DEF due
  <2> QED
    BY <1>2, <2>1, <2>2, BatchRows
<1>5. PICK h : h = [pc |-> "submit", rows |-> f]
  OBVIOUS
<1>6. h \in Stage /\ h # NotRunning /\ h.pc = "submit" /\ h.rows = f
  BY <1>4, <1>5 DEF Stage, NotRunning
<1>7. run' = [run EXCEPT ![p] = h]
  BY <1>1, <1>5 DEF ListPending
<1>8. /\ run' \in [Pods -> {NotRunning} \cup Stage]
      /\ run'[p] = h /\ \A q \in Pods \ {p} : run'[q] = run[q]
  BY <1>6, <1>7 DEF DispatchInv, ReportShape
<1>9. Listed(p)' = due
  BY <1>4, <1>6, <1>8 DEF Listed
<1> QED
  BY <1>6, <1>8, <1>9

\* What is listed beside another dispatch is put on record.
LEMMA ListInv ==
  ASSUME DispatchInv, NEW p \in Pods, ListPending(p) PROVE DispatchInv'
<1> DEFINE due == {r \in ReportIds : report[r].status = "pending"}
<1>2. /\ run[p] = NotRunning /\ due # {} /\ UNCHANGED <<event, owing, report, received>>
      /\ doubt' = doubt \cup (due \cap UNION {Listed(q) : q \in Pods \ {p}})
  BY DEF ListPending
<1>3. \A r \in due : report[r] # NoReport /\ report[r].retries \in Nat
  BY DEF DispatchInv, ReportShape, NoReport, ReportRow
<1>8. /\ run' \in [Pods -> {NotRunning} \cup Stage]
      /\ run'[p].pc = "submit" /\ \A q \in Pods \ {p} : run'[q] = run[q]
  BY ListedDue
<1>9. Listed(p)' = due
  BY ListedDue
<1>10. \A q \in Pods \ {p} : Listed(q)' = Listed(q) /\ Row(q)' = Row(q)
  BY <1>8, SameStage
<1>11. Listed(p) = {} /\ run[p].pc = "idle"
  BY <1>2, ListedRow DEF DispatchInv
<1>12. ReportShape' /\ ReceivedFirst' /\ BlockedIsReported' /\ SubmittedIsReceived'
  BY <1>2, <1>8, <1>10
  DEF DispatchInv, ReportShape, ReceivedFirst, BlockedIsReported, SubmittedIsReceived
<1>13. ListedExist'
  BY <1>2, <1>3, <1>9, <1>10 DEF DispatchInv, ListedExist
<1>14. ASSUME NEW r \in ReportIds, r \notin doubt' PROVE Clear(r)'
  <2>1. Clear(r) /\ (r \in due => \A q \in Pods \ {p} : r \notin Listed(q))
    BY <1>2, <1>14 DEF DispatchInv
  <2>2. \A q, s \in Pods : r \in Listed(q)' /\ r \in Listed(s)' => q = s
    <3> HIDE DEF due
    <3> QED
      BY <1>9, <1>10, <2>1 DEF Clear
  <2>3. ASSUME received'[r] = "once"
        PROVE  \/ \E q \in Pods : run'[q].pc = "sent" /\ Row(q)' = r
               \/ /\ report'[r].status = "submitted"
                  /\ \A q \in Pods : r \in Listed(q)' => run'[q].pc = "stamp" /\ Row(q)' = r
    <3>1. CASE \E q \in Pods : run[q].pc = "sent" /\ Row(q) = r
      BY <1>8, <1>10, <1>11, <3>1
    <3>2. CASE /\ report[r].status = "submitted"
               /\ \A q \in Pods : r \in Listed(q) => run[q].pc = "stamp" /\ Row(q) = r
      BY <1>2, <1>8, <1>9, <1>10, <3>2
    <3> QED
      BY <1>2, <2>1, <2>3, <3>1, <3>2 DEF Clear
  <2> QED
    BY <1>2, <2>1, <2>2, <2>3 DEF Clear
<1> QED
  BY <1>12, <1>13, <1>14 DEF DispatchInv

\* What one dispatch has in hand is received once.
LEMMA SubmitInv ==
  ASSUME DispatchInv, NEW p \in Pods, SubmitReport(p) PROVE DispatchInv'
<1> DEFINE r == Row(p)
<1>1. run[p].pc = "submit" /\ run[p] # NotRunning /\ UNCHANGED <<event, owing, report>> /\ doubt \subseteq doubt'
  BY DEF SubmitReport, RunIs, NotRunning
<1>2. r \in Listed(p) /\ r \in ReportIds
  BY <1>1, ListedRow DEF DispatchInv
<1>3. PICK pc \in {"sent", "failed"} :
        /\ RunTo(p, pc) /\ (received' = received \/ Receive(r))
        /\ pc = "sent" => Receive(r)
        /\ pc = "failed" => received' = received \/ r \in doubt'
  BY DEF SubmitReport
<1>4. /\ received' \in [ReportIds -> {"no", "once", "again"}]
      /\ \A q \in ReportIds \ {r} : received'[q] = received[q]
      /\ Receive(r) => received'[r] = IF received[r] = "no" THEN "once" ELSE "again"
      /\ received[r] # "no" => received'[r] # "no"
  <2>1. received \in [ReportIds -> {"no", "once", "again"}]
    BY DEF DispatchInv, ReportShape
  <2> HIDE DEF r
  <2> QED
    BY <1>2, <1>3, <2>1 DEF Receive
<1>5. Moved(p, pc)
  BY <1>1, <1>3, StageMoves DEF DispatchInv
<1>6. ReportShape' /\ ListedExist' /\ BlockedIsReported'
  BY <1>1, <1>4, <1>5 DEF Moved, DispatchInv, ReportShape, ListedExist, BlockedIsReported
<1>7. SubmittedIsReceived'
  BY <1>1, <1>4 DEF DispatchInv, SubmittedIsReceived
<1>8. ReceivedFirst'
  <2> SUFFICES ASSUME NEW q \in Pods, run'[q].pc \in {"sent", "stamp"} PROVE received'[Row(q)'] # "no"
    BY DEF ReceivedFirst
  <2>1. CASE q = p
    BY <1>3, <1>4, <1>5, <2>1 DEF Moved
  <2>2. CASE q # p
    <3>1. received[Row(q)] # "no" /\ Row(q) \in ReportIds
      BY <1>5, <2>2, ListedRow DEF Moved, DispatchInv, ReceivedFirst, NotRunning
    <3> QED
      BY <1>4, <1>5, <3>1 DEF Moved
  <2> QED
    BY <2>1, <2>2
<1>9. ASSUME NEW k \in ReportIds, k \notin doubt' PROVE Clear(k)'
  <2>1. Clear(k)
    BY <1>1, <1>9 DEF DispatchInv
  <2>2. CASE k = r
    <3>1. received[r] = "no"
      BY <1>1, <1>2, <2>1, <2>2, ListedRow DEF DispatchInv, Clear, NotRunning, ReportShape
    <3>2. CASE pc = "sent"
      BY <1>2, <1>3, <1>4, <1>5, <2>1, <2>2, <3>1, <3>2 DEF Clear, Moved
    <3>3. CASE pc = "failed"
      BY <1>3, <1>4, <1>5, <1>9, <2>1, <2>2, <3>1, <3>3 DEF Clear, Moved
    <3> QED
      BY <3>2, <3>3
  <2>3. CASE k # r
    <3>1. received'[k] = received[k] /\ report'[k] = report[k]
      BY <1>1, <1>4, <2>3
    <3>2. /\ \A q \in Pods : run[q].pc = "sent" /\ Row(q) = k => run'[q].pc = "sent" /\ Row(q)' = k
          /\ \A q \in Pods : run[q].pc = "stamp" /\ Row(q) = k => run'[q].pc = "stamp" /\ Row(q)' = k
      BY <1>1, <1>5, <2>3 DEF Moved
    <3>3. \A q \in Pods : Listed(q)' = Listed(q)
      BY <1>5 DEF Moved
    <3> QED
      BY <2>1, <3>1, <3>2, <3>3 DEF Clear
  <2> QED
    BY <2>2, <2>3
<1> QED
  BY <1>6, <1>7, <1>8, <1>9 DEF DispatchInv

\* A submission is written down, or that is lost.
LEMMA SubmittedInv ==
  ASSUME DispatchInv, NEW p \in Pods, run[p].pc = "sent", UpdateSubmitted(p) \/ UpdateLost(p)
  PROVE  DispatchInv'
<1> DEFINE r == Row(p)
<1>1. run[p] # NotRunning /\ RunTo(p, "stamp") /\ UNCHANGED <<event, owing, received>> /\ doubt \subseteq doubt'
  BY DEF UpdateSubmitted, UpdateLost, RunIs, NotRunning
<1>2. r \in Listed(p) /\ r \in ReportIds /\ report[r] \in ReportRow /\ received[r] # "no"
  BY <1>1, ListedRow DEF DispatchInv, ListedExist, ReportShape, ReceivedFirst
<1>3. Moved(p, "stamp")
  BY <1>1, StageMoves DEF DispatchInv
<1>4. PICK new \in ReportRow :
        /\ report' = [report EXCEPT ![r] = new] /\ new.of = report[r].of
        /\ new.status = "submitted" \/ (new = report[r] /\ r \in doubt')
  <2>1. CASE UpdateSubmitted(p)
    <3>1. PICK new : new = [report[r] EXCEPT !.status = "submitted"]
      OBVIOUS
    <3>2. new \in ReportRow /\ new.of = report[r].of /\ new.status = "submitted"
      BY <1>2, <3>1 DEF ReportRow
    <3> QED
      BY <2>1, <3>1, <3>2 DEF UpdateSubmitted, UpdateReport
  <2>2. CASE UpdateLost(p)
    <3>1. report' = report /\ r \in doubt'
      BY <2>2 DEF UpdateLost
    <3>2. report' = [report EXCEPT ![r] = report[r]]
      BY <1>2, <3>1 DEF DispatchInv, ReportShape
    <3> QED
      BY <1>2, <3>1, <3>2
  <2> QED
    BY <2>1, <2>2
<1>5. /\ report' \in [ReportIds -> {NoReport} \cup ReportRow]
      /\ report'[r] = new /\ \A q \in ReportIds \ {r} : report'[q] = report[q]
  BY <1>2, <1>4 DEF DispatchInv, ReportShape
<1>6. report[r] # NoReport /\ new # NoReport
  BY <1>2 DEF ReportRow, NoReport
<1>7. \A q \in Pods : Listed(q) \subseteq ReportIds
  BY ListedRow DEF DispatchInv
<1>8. ReportShape' /\ ListedExist' /\ BlockedIsReported'
  BY <1>1, <1>3, <1>4, <1>5, <1>6, <1>7
  DEF Moved, DispatchInv, ReportShape, ListedExist, BlockedIsReported
<1>9. SubmittedIsReceived'
  BY <1>1, <1>2, <1>4, <1>5, <1>6 DEF DispatchInv, SubmittedIsReceived
<1>10. ReceivedFirst'
  <2> SUFFICES ASSUME NEW q \in Pods, run'[q].pc \in {"sent", "stamp"} PROVE received'[Row(q)'] # "no"
    BY DEF ReceivedFirst
  <2>1. CASE q = p
    BY <1>1, <1>2, <1>3, <2>1 DEF Moved
  <2>2. CASE q # p
    BY <1>1, <1>3, <2>2 DEF Moved, DispatchInv, ReceivedFirst
  <2> QED
    BY <2>1, <2>2
<1>11. ASSUME NEW k \in ReportIds, k \notin doubt' PROVE Clear(k)'
  <2>1. Clear(k)
    BY <1>1, <1>11 DEF DispatchInv
  <2>2. /\ \A q \in Pods : run[q].pc = "stamp" /\ Row(q) = k => run'[q].pc = "stamp" /\ Row(q)' = k
        /\ \A q \in Pods : Listed(q)' = Listed(q)
    BY <1>3 DEF Moved
  <2>3. CASE k = r
    <3>1. report'[k].status = "submitted"
      BY <1>4, <1>5, <1>11, <2>3
    <3>2. \A q \in Pods : k \in Listed(q)' => run'[q].pc = "stamp" /\ Row(q)' = k
      BY <1>2, <1>3, <2>1, <2>3 DEF Clear, Moved
    <3> QED
      BY <1>1, <2>1, <2>2, <3>1, <3>2 DEF Clear
  <2>4. CASE k # r
    <3>1. received'[k] = received[k] /\ report'[k] = report[k]
      BY <1>1, <1>5, <2>4
    <3>2. \A q \in Pods : run[q].pc = "sent" /\ Row(q) = k => run'[q].pc = "sent" /\ Row(q)' = k
      BY <1>3, <2>4 DEF Moved
    <3> QED
      BY <2>1, <2>2, <3>1, <3>2 DEF Clear
  <2> QED
    BY <2>3, <2>4
<1> QED
  BY <1>8, <1>9, <1>10, <1>11 DEF DispatchInv

\* A dispatch is through with its row, or ends.
LEMMA LeaveInv ==
  ASSUME DispatchInv, NEW p \in Pods,
         \/ UpdateFailed(p) \/ Stamp(p) \/ (run[p].pc # "sent" /\ UpdateLost(p))
         \/ Abandon(p)
  PROVE  DispatchInv'
<1> DEFINE r == Row(p)
<1>1. /\ UNCHANGED <<owing, received>> /\ doubt \subseteq doubt'
      /\ run[p].pc = "sent" => r \in doubt'
      /\ (run[p] # NotRunning /\ Following(p)) \/ run' = [run EXCEPT ![p] = NotRunning]
  BY DEF UpdateFailed, Stamp, UpdateLost, Abandon, RunIs, NotRunning
<1>2. Dropped(p)
  BY <1>1, StageLeaves DEF DispatchInv
<1>3. \/ event' = event
      \/ /\ run[p].pc = "stamp" /\ event' = [event EXCEPT ![report[r].of].reported = TRUE]
         /\ report' = report
  BY DEF UpdateFailed, Stamp, UpdateLost, Abandon, RunIs
<1>4. run[p].pc \in {"stamp", "failed"} => r \in Listed(p) /\ r \in ReportIds /\ report[r] \in ReportRow
  BY ListedRow DEF DispatchInv, ListedExist, ReportShape, NotRunning
<1>5. /\ report' \in [ReportIds -> {NoReport} \cup ReportRow] /\ Rewritten
      /\ \A k \in ReportIds : report'[k].status = "submitted" => report'[k] = report[k]
      /\ \A k \in ReportIds : report'[k] = report[k] \/ (k = r /\ run[p].pc = "failed" /\ r \in Listed(p))
  <2>1. CASE report' = report
    BY <2>1 DEF DispatchInv, ReportShape, Rewritten
  <2>2. CASE UpdateFailed(p)
    <3>1. run[p].pc = "failed"
      BY <2>2 DEF UpdateFailed, RunIs
    <3>2. PICK status : status = IF run[p].rows[r] + 1 >= MaxRetries THEN "dead_letter" ELSE "pending"
      OBVIOUS
    <3>3. PICK new : new = [report[r] EXCEPT !.retries = @ + 1, !.status = status]
      OBVIOUS
    <3>4. new = [status |-> status, of |-> report[r].of, retries |-> report[r].retries + 1]
      BY <1>4, <3>1, <3>3 DEF ReportRow
    <3>5. status \in {"pending", "dead_letter"}
      BY <3>2
    <3>6. new \in ReportRow /\ new.of = report[r].of /\ new.status # "submitted" /\ new # NoReport
      BY <1>4, <3>1, <3>4, <3>5 DEF ReportRow, NoReport
    <3>7. report' = [report EXCEPT ![r] = new]
      BY <2>2, <3>2, <3>3 DEF UpdateFailed, UpdateReport
    <3>8. /\ report' \in [ReportIds -> {NoReport} \cup ReportRow]
          /\ report'[r] = new /\ \A q \in ReportIds \ {r} : report'[q] = report[q]
      BY <1>4, <3>1, <3>6, <3>7 DEF DispatchInv, ReportShape
    <3> QED
      BY <1>4, <3>1, <3>6, <3>8 DEF Rewritten
  <2> QED
    BY <2>1, <2>2 DEF Stamp, UpdateLost, Abandon
<1>6. /\ event' \in [Events -> [disposition : {"none", "block", "pass"}, reported : BOOLEAN]]
      /\ \A e \in Events :
           /\ event'[e].disposition = event[e].disposition
           /\ event'[e].reported =>
                event[e].reported \/ (run[p].pc = "stamp" /\ e = report[r].of /\ report' = report)
  <2>1. CASE event' = event
    BY <2>1 DEF DispatchInv, ReportShape
  <2>2. CASE /\ run[p].pc = "stamp" /\ event' = [event EXCEPT ![report[r].of].reported = TRUE]
             /\ report' = report
    <3>1. PICK e \in Events : e = report[r].of
      BY <1>4, <2>2 DEF ReportRow
    <3>2. PICK h : h = [event[e] EXCEPT !.reported = TRUE]
      OBVIOUS
    <3>3. /\ h \in [disposition : {"none", "block", "pass"}, reported : BOOLEAN]
          /\ h.disposition = event[e].disposition
      BY <3>2 DEF DispatchInv, ReportShape
    <3>4. event' = [event EXCEPT ![e] = h]
      BY <2>2, <3>1, <3>2
    <3>5. /\ event' \in [Events -> [disposition : {"none", "block", "pass"}, reported : BOOLEAN]]
          /\ event'[e] = h /\ \A g \in Events \ {e} : event'[g] = event[g]
      BY <3>3, <3>4 DEF DispatchInv, ReportShape
    <3> QED
      BY <2>2, <3>1, <3>3, <3>5
  <2> QED
    BY <1>3, <2>1, <2>2
<1>7. ReportShape'
  BY <1>1, <1>2, <1>5, <1>6 DEF Dropped, DispatchInv, ReportShape
<1>8. ListedExist'
  <2>1. \A q \in Pods : Listed(q)' \subseteq Listed(q) /\ Listed(q) \subseteq ReportIds
    BY <1>2, ListedRow DEF Dropped, DispatchInv
  <2> QED
    BY <1>5, <2>1 DEF DispatchInv, ListedExist, Rewritten
<1>9. ReceivedFirst'
  BY <1>1, <1>2 DEF Dropped, DispatchInv, ReceivedFirst
<1>10. BlockedIsReported'
  BY <1>1, <1>5, <1>6 DEF DispatchInv, BlockedIsReported, Rewritten
<1>11. SubmittedIsReceived'
  <2>1. \A k \in ReportIds : report'[k].status = "submitted" => received'[k] # "no"
    BY <1>1, <1>5 DEF DispatchInv, SubmittedIsReceived
  <2>2. ASSUME NEW e \in Events, event'[e].reported
        PROVE  \E k \in ReportIds : report'[k] # NoReport /\ report'[k].of = e /\ received'[k] # "no"
    <3>1. CASE event[e].reported
      BY <1>1, <1>5, <3>1 DEF DispatchInv, SubmittedIsReceived, Rewritten
    <3>2. CASE run[p].pc = "stamp" /\ e = report[r].of /\ report' = report
      BY <1>1, <1>4, <3>2 DEF DispatchInv, ReceivedFirst, NoReport, ReportRow
    <3> QED
      BY <1>6, <2>2, <3>1, <3>2
  <2> QED
    BY <2>1, <2>2 DEF SubmittedIsReceived
<1>12. ASSUME NEW k \in ReportIds, k \notin doubt' PROVE Clear(k)'
  <2>1. Clear(k)
    BY <1>1, <1>12 DEF DispatchInv
  <2>2. \A q, s \in Pods : k \in Listed(q)' /\ k \in Listed(s)' => q = s
    BY <1>2, <2>1 DEF Dropped, Clear
  <2>3. ASSUME received'[k] = "once"
        PROVE  \/ \E q \in Pods : run'[q].pc = "sent" /\ Row(q)' = k
               \/ /\ report'[k].status = "submitted"
                  /\ \A q \in Pods : k \in Listed(q)' => run'[q].pc = "stamp" /\ Row(q)' = k
    <3>1. CASE \E q \in Pods : run[q].pc = "sent" /\ Row(q) = k
      BY <1>1, <1>2, <1>12, <3>1 DEF Dropped
    <3>2. CASE /\ report[k].status = "submitted"
               /\ \A q \in Pods : k \in Listed(q) => run[q].pc = "stamp" /\ Row(q) = k
      BY <1>2, <1>5, <3>2 DEF Dropped
    <3> QED
      BY <1>1, <2>1, <2>3, <3>1, <3>2 DEF Clear
  <2> QED
    BY <1>1, <2>1, <2>2, <2>3 DEF Clear
<1> QED
  BY <1>7, <1>8, <1>9, <1>10, <1>11, <1>12 DEF DispatchInv

LEMMA DispatchAtRest == DispatchInv /\ UNCHANGED reportVars => DispatchInv'
<1> SUFFICES ASSUME DispatchInv, UNCHANGED reportVars PROVE DispatchInv'
  OBVIOUS
<1>1. \A p \in Pods : Listed(p)' = Listed(p) /\ Row(p)' = Row(p)
  BY SameStage DEF reportVars
<1>2. ReportShape' /\ ListedExist' /\ ReceivedFirst' /\ BlockedIsReported' /\ SubmittedIsReceived'
  BY <1>1 DEF reportVars, DispatchInv, ReportShape, ListedExist, ReceivedFirst,
              BlockedIsReported, SubmittedIsReceived
<1>3. \A r \in ReportIds : Clear(r) => Clear(r)'
  BY <1>1 DEF reportVars, Clear
<1> QED
  BY <1>2, <1>3 DEF reportVars, DispatchInv

LEMMA DispatchStepInv == DispatchInv /\ ReportNext => DispatchInv'
  BY RecordInv, RetryInv, ListInv, SubmitInv, SubmittedInv, LeaveInv, DispatchAtRest
  DEF ReportNext, DispatchOnce, UpdateSubmitted, RunIs

\* A dispatch runs in a body, whichever way the process loses the lease.
LEMMA InBodyStep ==
  ASSUME LockInv, ReportShape, InBody, ReportNext
  PROVE  InBody'
<1>0. LockTypeOK
  BY DEF LockInv
<1>1. ASSUME NEW p \in Pods, DispatchOnce(p) \/ UpdateLost(p) PROVE InBody'
  <2>1. UNCHANGED lockVars /\ p \in Bodies
    BY <1>1 DEF DispatchOnce, UpdateLost, ListPending, SubmitReport, UpdateFailed, UpdateSubmitted,
                Stamp, RunIs, InBody, NotRunning, Bodies
  <2>2. \A q \in Pods \ {p} : run'[q] = run[q]
    BY <1>1 DEF DispatchOnce, UpdateLost, ListPending, SubmitReport, UpdateFailed, UpdateSubmitted,
                Stamp, RunTo, Following, ReportShape
  <2> QED
    BY <2>1, <2>2 DEF InBody, Bodies, lockVars
<1>2. ASSUME NEW p \in Pods, LockStep(p) /\ UNCHANGED reportVars PROVE InBody'
  BY <1>0, <1>2 DEF LockStep, TryAcquire, Renew, Shutdown, Restart, BodyStops, PodTo, LockTypeOK,
                    PodState, InBody, Bodies, reportVars
<1>3. ASSUME NEW p \in Pods, (Exit(p) \/ Crash(p)) /\ Abandon(p) PROVE InBody'
  BY <1>0, <1>3 DEF Exit, Crash, Gone, Abandon, PodTo, LockTypeOK, PodState, InBody, Bodies, ReportShape
<1>4. CASE Expire /\ UNCHANGED reportVars
  BY <1>4 DEF Expire, reportVars, InBody, Bodies
<1>5. CASE UNCHANGED <<lockVars, run>>
  BY <1>5 DEF lockVars, InBody, Bodies
<1> QED
  BY <1>1, <1>2, <1>3, <1>4, <1>5 
  DEF ReportNext, RecordEvent, AdminReview, QueueReport, QueueOwed, RetryReport

\* Two bodies beside each other: one of them had lost its lease.
LEMMA ListedOnceHolds == LockInv /\ ReportShape /\ InBody => ListedOnce
<1> SUFFICES ASSUME LockInv, ReportShape, InBody, NEW p \in Pods, NEW q \in Pods, p # q,
                    Listed(p) \cap Listed(q) # {}
             PROVE  p \in early \/ q \in early
  BY DEF ListedOnce
<1>1. run[p] # NotRunning /\ run[q] # NotRunning
  BY DEF Listed
<1> QED
  BY <1>1 DEF InBody, LockInv, OneBody

DeliverInv == LockInv /\ InBody /\ DispatchInv /\ NoteInv /\ MnsInv

LEMMA DeliverHolds == Spec => []DeliverInv
<1>1. Init => DeliverInv
  <2>1. Init => LockInv
    BY LockAssumption DEF Init, ReportInit, LockInit, LockInv, LockTypeOK, OneBody, Bodies, PodState
  <2>2. Init => InBody /\ DispatchInv
    <3> SUFFICES ASSUME ReportInit PROVE InBody /\ DispatchInv
      BY DEF Init
    <3>1. \A p \in Pods : Listed(p) = {} /\ run[p].pc = "idle" /\ run[p] = NotRunning
      BY DEF ReportInit, Listed, NotRunning
    <3> QED
      BY <3>1 DEF ReportInit, InBody, DispatchInv, ReportShape, ListedExist, ReceivedFirst,
                  BlockedIsReported, SubmittedIsReceived, Clear, NoReport
  <2> QED
    BY <2>1, <2>2, NoteStart, MnsStart DEF DeliverInv, Init
<1>2. DeliverInv /\ [Next]_vars => DeliverInv'
  <2> SUFFICES ASSUME DeliverInv, [Next]_vars PROVE DeliverInv'
    OBVIOUS
  <2>1. NoteInv' /\ MnsInv'
    BY NoteFrame, NoteStepInv, NoteAtRest, MnsFrame, MnsStepInv, MnsAtRest DEF DeliverInv
  <2>2. CASE ReportNext
    BY <2>1, <2>2, LockStepInv, InBodyStep, DispatchStepInv DEF DeliverInv, DispatchInv
  <2>3. CASE UNCHANGED dispatchVars
    <3>1. LockInv' /\ InBody'
      BY <2>3 DEF DeliverInv, dispatchVars, lockVars, reportVars, LockInv, LockTypeOK, OneBody, Bodies,
                  PodState, InBody
    <3> QED
      BY <2>1, <2>3, <3>1, DispatchAtRest DEF DeliverInv, dispatchVars
  <2>4. ReportNext \/ UNCHANGED dispatchVars
    BY DEF Next, vars
  <2> QED
    BY <2>2, <2>3, <2>4
<1> QED
  BY <1>1, <1>2, PTL DEF Spec

\* For any pods, events, reports, notes, dispatchers, messages, consumers and
\* faults: what is blocked has a report, what is marked submitted, stamped or
\* sent was received, once unless a cause named is on record; two dispatches
\* have a report in hand, or a body runs beside the leader's, only when one lost
\* its lease; and no published message is lost (content_safety, notification,
\* outbox, leader).
THEOREM DeliveredCorrect == Spec => []Delivered
<1>1. DeliverInv => Delivered
  <2> SUFFICES ASSUME DeliverInv PROVE Delivered
    OBVIOUS
  <2>1. BlockedIsReported /\ SubmittedIsReceived /\ ReceivedOnce
    BY DEF DeliverInv, DispatchInv, Clear, ReceivedOnce
  <2>2. ListedOnce
    BY ListedOnceHolds DEF DeliverInv, DispatchInv
  <2>3. SentHasArrived
    BY DEF DeliverInv, NoteInv, MarkedArrived, Sole, SentHasArrived
  <2>4. NothingVanishes /\ OneBody
    BY DEF DeliverInv, MnsInv, LockInv
  <2> QED
    BY <2>1, <2>2, <2>3, <2>4 DEF Delivered
<1> QED
  BY <1>1, DeliverHolds, PTL

-----------------------------------------------------------------------------
(* Both queues implement Delivery.  What is in hand, and no mishap is known *)
(* of, is still to be sent.                                                 *)

PendingHeld == \A d \in Dispatchers : \A n \in InHand(d) : n \in unsure \/ note[n].status = "pending"

\* One item moves as Delivery lets it, or items are excused.
LEMMA NoteMoves ==
  ASSUME NEW n \in Notes, \A k \in Notes \ {n} : NoteItem(k)' = NoteItem(k),
         <<NoteItem(n), NoteItem(n)'>> \in NotesSent!Moves
  PROVE  NotesSent!Next
<1> DEFINE old == [k \in Notes |-> NoteItem(k)]
           new == [k \in Notes |-> NoteItem(k)']
<1>1. NoteItem(n)' \in NotesSent!States
  BY DEF NotesSent!Moves, NotesSent!States
<1>2. new = [old EXCEPT ![n] = NoteItem(n)']
  OBVIOUS
<1>3. <<old[n], NoteItem(n)'>> \in NotesSent!Moves
  OBVIOUS
<1> QED
  BY <1>1, <1>2, <1>3 DEF NotesSent!Next, NotesSent!Move

LEMMA NotesExcused ==
  ASSUME \A k \in Notes : NoteItem(k)' = NoteItem(k) \/ NoteItem(k)' = "excused"
  PROVE  NotesSent!Next
<1> DEFINE old == [k \in Notes |-> NoteItem(k)]
           new == [k \in Notes |-> NoteItem(k)']
           S == {k \in Notes : NoteItem(k)' = "excused"}
<1>1. new = [k \in Notes |-> IF k \in S THEN "excused" ELSE old[k]]
  OBVIOUS
<1>2. S \in SUBSET Notes
  OBVIOUS
<1> HIDE DEF S
<1>3. NotesSent!Excuse(S)
  BY <1>1 DEF NotesSent!Excuse
<1> QED
  BY <1>2, <1>3 DEF NotesSent!Next

\* Queueing and claiming.
LEMMA NoteQueued ==
  ASSUME NoteInv, PendingHeld, NEW n \in Notes, NEW adapter \in BOOLEAN, SendNote(n, adapter)
  PROVE  PendingHeld' /\ NotesSent!Next
<1>1. PICK q : q = [status |-> "pending", adapter |-> adapter, retries |-> 0]
  OBVIOUS
<1>2. note' = [note EXCEPT ![n] = q] /\ note[n] = NotQueued /\ UNCHANGED <<sending, arrived, unsure>>
  BY <1>1 DEF SendNote
<1>3. note'[n] = q /\ q.status = "pending" /\ \A k \in Notes \ {n} : note'[k] = note[k]
  BY <1>1, <1>2 DEF NoteInv, NoteShape
<1>4. \A d \in Dispatchers : InHand(d)' = InHand(d) /\ InHand(d) \subseteq Notes
  BY <1>2, SameHand, InHandRow DEF NoteInv
<1>5. PendingHeld'
  BY <1>2, <1>3, <1>4 DEF PendingHeld
<1>6. \A k \in Notes \ {n} : NoteItem(k)' = NoteItem(k)
  BY <1>2, <1>3 DEF NoteItem
<1>7. CASE n \in unsure
  <2>1. NoteItem(n)' = NoteItem(n)
    BY <1>2, <1>7 DEF NoteItem
  <2> QED
    BY <1>5, <1>6, <2>1, NotesExcused
<1>8. CASE n \notin unsure
  <2>1. note[n].status = "none"
    BY <1>2 DEF NotQueued
  <2>2. Sole(n) /\ \A d \in Dispatchers : n \notin InHand(d)
    BY <1>2, <1>8 DEF NoteInv, HeldQueued
  <2>3. \A d \in Dispatchers : sending[d].pc = "sent" => NoteRow(d) \in InHand(d)
    BY InHandRow DEF NoteInv, Idle
  <2>4. arrived[n] = "no"
    BY <2>1, <2>2, <2>3 DEF Sole, NoteInv, NoteShape
  <2>5. NoteItem(n) = "none" /\ NoteItem(n)' = "queued"
    BY <1>2, <1>3, <1>8, <2>1, <2>4 DEF NoteItem
  <2> QED
    BY <1>5, <1>6, <2>5, NoteMoves DEF NotesSent!Moves
<1> QED
  BY <1>5, <1>7, <1>8

LEMMA NoteClaimed ==
  ASSUME NoteInv, PendingHeld, NEW d \in Dispatchers, ClaimPending(d)
  PROVE  PendingHeld' /\ NotesSent!Next
<1>1. UNCHANGED <<note, arrived>> /\ unsure \subseteq unsure'
  BY DEF ClaimPending
<1>2. \A e \in Dispatchers \ {d} : InHand(e)' = InHand(e)
  BY Claimed, SameHand
<1>3. PendingHeld'
  BY <1>1, <1>2, Claimed DEF PendingHeld
<1>4. \A k \in Notes : NoteItem(k)' = NoteItem(k) \/ NoteItem(k)' = "excused"
  BY <1>1 DEF NoteItem
<1> QED
  BY <1>3, <1>4, NotesExcused

\* A row that is sent was pending, and had not arrived.
LEMMA NoteArrives ==
  ASSUME NoteInv, PendingHeld, NEW d \in Dispatchers, ChannelSend(d)
  PROVE  PendingHeld' /\ NotesSent!Next
<1>0. PICK n : n = NoteRow(d)
  OBVIOUS
<1>1. sending[d].pc = "send" /\ sending[d] # Idle /\ note' = note /\ unsure \subseteq unsure'
  BY DEF ChannelSend, Idle
<1>2. n \in InHand(d) /\ n \in Notes
  BY <1>0, <1>1, InHandRow DEF NoteInv
<1>3. PICK pc \in {"sent", "failed"} :
        /\ SendingTo(d, pc)
        /\ arrived' = arrived \/ Arrive(n)
        /\ pc = "sent" => Arrive(n) /\ unsure' = unsure
        /\ pc = "failed" => arrived' = arrived \/ n \in unsure'
  BY <1>0 DEF ChannelSend
<1>4. /\ \A k \in Notes \ {n} : arrived'[k] = arrived[k]
      /\ Arrive(n) => arrived'[n] # "no"
  <2>1. arrived \in [Notes -> {"no", "once", "again"}]
    BY DEF NoteInv, NoteShape
  <2> QED
    BY <1>2, <1>3, <2>1 DEF Arrive
<1>5. \A e \in Dispatchers : InHand(e)' = InHand(e)
  BY <1>1, <1>3, HandMoves DEF NoteInv
<1>6. PendingHeld'
  BY <1>1, <1>5 DEF PendingHeld
<1>7. \A k \in Notes \ {n} : NoteItem(k)' = NoteItem(k) \/ NoteItem(k)' = "excused"
  BY <1>1, <1>4 DEF NoteItem
<1>8. CASE n \in unsure' \/ arrived' = arrived
  <2>1. NoteItem(n)' = NoteItem(n) \/ NoteItem(n)' = "excused"
    BY <1>1, <1>8 DEF NoteItem
  <2> QED
    BY <1>6, <1>7, <2>1, NotesExcused
<1>9. CASE n \notin unsure' /\ arrived' # arrived
  <2>1. Arrive(n) /\ unsure' = unsure /\ n \notin unsure
    BY <1>3, <1>9
  <2>2. note[n].status = "pending" /\ Sole(n)
    BY <1>2, <2>1 DEF PendingHeld, NoteInv
  <2>3. arrived[n] = "no"
    BY <1>1, <1>2, <2>2, InHandRow DEF NoteInv, Sole, Idle, NoteShape
  <2>4. NoteItem(n) = "queued" /\ NoteItem(n)' = "arrived"
    BY <1>1, <1>4, <2>1, <2>2, <2>3 DEF NoteItem
  <2>5. \A k \in Notes \ {n} : NoteItem(k)' = NoteItem(k)
    BY <1>1, <1>4, <2>1 DEF NoteItem
  <2>6. <<"queued", "arrived">> \in NotesSent!Moves
    BY DEF NotesSent!Moves
  <2> QED
    BY <1>2, <1>6, <2>4, <2>5, <2>6, NoteMoves
<1> QED
  BY <1>8, <1>9

\* A mark writes its row as it found it, or nobody is sure of it.
LEMMA NoteMarked ==
  ASSUME NoteInv, PendingHeld, NEW d \in Dispatchers, MarkSent(d) \/ MarkFailed(d) \/ MarkLost(d)
  PROVE  PendingHeld' /\ NotesSent!Next
<1>0. PICK n : n = NoteRow(d)
  OBVIOUS
<1>1. /\ sending[d] # Idle /\ arrived' = arrived /\ unsure \subseteq unsure'
      /\ NextNote(d) \/ sending' = [sending EXCEPT ![d] = Idle]
  BY DEF MarkSent, MarkFailed, MarkLost, Idle
<1>2. n \in InHand(d) /\ n \in Notes /\ note[n] \in Queued
  BY <1>0, <1>1, InHandRow DEF NoteInv, HeldQueued, NoteShape
<1>3. /\ InHand(d)' \subseteq InHand(d) \ {n}
      /\ \A e \in Dispatchers \ {d} : InHand(e)' = InHand(e)
      /\ \A e \in Dispatchers : InHand(e) \subseteq Notes
  BY <1>0, <1>1, HandLeaves, InHandRow DEF NoteInv
<1>4. /\ \A k \in Notes \ {n} : note'[k] = note[k]
      /\ \/ note' = note
         \/ sending[d].pc = "sent" /\ note'[n].status = "sent" /\ unsure' = unsure
         \/ sending[d].pc = "failed" /\ note'[n].status \in {"pending", "dead_letter"} /\ unsure' = unsure
  <2>1. CASE MarkSent(d)
    <3>1. PICK q : q = [note[n] EXCEPT !.status = "sent"]
      OBVIOUS
    <3>2. q.status = "sent"
      BY <1>2, <3>1 DEF Queued
    <3>3. note' = [note EXCEPT ![n] = q] /\ sending[d].pc = "sent" /\ unsure' = unsure
      BY <1>0, <2>1, <3>1 DEF MarkSent
    <3> QED
      BY <1>2, <3>2, <3>3 DEF NoteInv, NoteShape
  <2>2. CASE MarkFailed(d)
    <3>1. PICK status : status = IF sending[d].rows[n] >= NoteRetries THEN "dead_letter" ELSE "pending"
      OBVIOUS
    <3>2. PICK q : q = [note[n] EXCEPT !.retries = @ + 1, !.status = status]
      OBVIOUS
    <3>3. q.status = status /\ status \in {"pending", "dead_letter"}
      BY <1>2, <3>1, <3>2 DEF Queued
    <3>4. note' = [note EXCEPT ![n] = q] /\ sending[d].pc = "failed" /\ unsure' = unsure
      BY <1>0, <1>2, <2>2, <3>1, <3>2 DEF MarkFailed, Queued, NoteInv, NoteShape
    <3> QED
      BY <1>2, <3>3, <3>4 DEF NoteInv, NoteShape
  <2>3. CASE MarkLost(d)
    BY <2>3 DEF MarkLost
  <2> QED
    BY <2>1, <2>2, <2>3
<1>5. PendingHeld'
  <2> SUFFICES ASSUME NEW e \in Dispatchers, NEW k \in InHand(e)', k \notin unsure'
               PROVE  note'[k].status = "pending"
    BY DEF PendingHeld
  <2>1. k \in InHand(e) /\ k \in Notes /\ k \notin unsure /\ (e = d => k # n)
    BY <1>1, <1>3
  <2>2. Sole(k) /\ note[k].status = "pending"
    BY <2>1 DEF NoteInv, PendingHeld
  <2>3. k # n
    BY <1>2, <2>1, <2>2 DEF Sole
  <2> QED
    BY <1>4, <2>1, <2>2, <2>3
<1>6. CASE note' = note
  <2>1. \A k \in Notes : NoteItem(k)' = NoteItem(k) \/ NoteItem(k)' = "excused"
    BY <1>1, <1>6 DEF NoteItem
  <2> QED
    BY <1>5, <2>1, NotesExcused
<1>7. CASE note' # note
  <2>1. unsure' = unsure /\ \A k \in Notes \ {n} : NoteItem(k)' = NoteItem(k)
    BY <1>1, <1>4, <1>7 DEF NoteItem
  <2>2. CASE n \in unsure
    <3>1. NoteItem(n)' = NoteItem(n)
      BY <2>1, <2>2 DEF NoteItem
    <3> QED
      BY <1>5, <2>1, <3>1, NotesExcused
  <2>3. CASE n \notin unsure
    <3>1. note[n].status = "pending" /\ Sole(n)
      BY <1>2, <2>3 DEF NoteInv, PendingHeld
    <3>2. CASE sending[d].pc = "sent"
      <4>1. note'[n].status = "sent" /\ arrived[n] # "no"
        BY <1>0, <1>4, <1>7, <3>2 DEF NoteInv, SentFirst
      <4>2. NoteItem(n) = "arrived" /\ NoteItem(n)' = "sent"
        BY <1>1, <2>1, <2>3, <3>1, <4>1 DEF NoteItem
      <4>3. <<"arrived", "sent">> \in NotesSent!Moves
        BY DEF NotesSent!Moves
      <4> QED
        BY <1>2, <1>5, <2>1, <4>2, <4>3, NoteMoves
    <3>3. CASE sending[d].pc = "failed"
      <4>1. note'[n].status \in {"pending", "dead_letter"}
        BY <1>4, <1>7, <3>3
      <4>2. arrived[n] = "no"
        BY <1>1, <1>2, <3>1, <3>3, InHandRow DEF NoteInv, Sole, Idle, NoteShape
      <4>3. NoteItem(n) = "queued" /\ NoteItem(n)' \in {"queued", "given_up"}
        BY <1>1, <2>1, <2>3, <3>1, <4>1, <4>2 DEF NoteItem
      <4>4. <<"queued", "given_up">> \in NotesSent!Moves
        BY DEF NotesSent!Moves
      <4> QED
        BY <1>2, <1>5, <2>1, <4>3, <4>4, NoteMoves, NotesExcused
    <3> QED
      BY <1>4, <1>7, <3>2, <3>3
  <2> QED
    BY <2>2, <2>3
<1> QED
  BY <1>6, <1>7

LEMMA NoteDelivers ==
  NoteInv /\ PendingHeld /\ NoteNext => PendingHeld' /\ NotesSent!Next
  BY NoteQueued, NoteClaimed, NoteArrives, NoteMarked DEF NoteNext, Dispatch

\* What a dispatch lists, and no mishap is known of, is still to be submitted, or
\* it was by this dispatch, which is about to stamp it.
PendingListed ==
  \A p \in Pods : \A r \in Listed(p) :
    \/ r \in doubt \/ report[r].status = "pending"
    \/ run[p].pc = "stamp" /\ Row(p) = r

LEMMA ReportMoves ==
  ASSUME NEW r \in ReportIds, \A k \in ReportIds \ {r} : ReportItem(k)' = ReportItem(k),
         <<ReportItem(r), ReportItem(r)'>> \in ReportsSent!Moves
  PROVE  ReportsSent!Next
<1> DEFINE old == [k \in ReportIds |-> ReportItem(k)]
           new == [k \in ReportIds |-> ReportItem(k)']
<1>1. ReportItem(r)' \in ReportsSent!States
  BY DEF ReportsSent!Moves, ReportsSent!States
<1>2. new = [old EXCEPT ![r] = ReportItem(r)']
  OBVIOUS
<1>3. <<old[r], ReportItem(r)'>> \in ReportsSent!Moves
  OBVIOUS
<1> QED
  BY <1>1, <1>2, <1>3 DEF ReportsSent!Next, ReportsSent!Move

LEMMA ReportsExcused ==
  ASSUME \A k \in ReportIds : ReportItem(k)' = ReportItem(k) \/ ReportItem(k)' = "excused"
  PROVE  ReportsSent!Next
<1> DEFINE old == [k \in ReportIds |-> ReportItem(k)]
           new == [k \in ReportIds |-> ReportItem(k)']
           S == {k \in ReportIds : ReportItem(k)' = "excused"}
<1>1. new = [k \in ReportIds |-> IF k \in S THEN "excused" ELSE old[k]]
  OBVIOUS
<1>2. S \in SUBSET ReportIds
  OBVIOUS
<1> HIDE DEF S
<1>3. ReportsSent!Excuse(S)
  BY <1>1 DEF ReportsSent!Excuse
<1> QED
  BY <1>2, <1>3 DEF ReportsSent!Next

\* A report nobody lists has been received only if it is marked submitted.
LEMMA Unlisted ==
  ASSUME DispatchInv, NEW r \in ReportIds, r \notin doubt, \A p \in Pods : r \notin Listed(p),
         report[r].status # "submitted"
  PROVE  received[r] = "no"
<1>1. Clear(r)
  BY DEF DispatchInv
<1>2. \A p \in Pods : run[p].pc = "sent" => Row(p) \in Listed(p)
  BY ListedRow DEF DispatchInv, NotRunning
<1> QED
  BY <1>1, <1>2 DEF Clear, DispatchInv, ReportShape

\* Events and their reports are filed, and dispositions changed.
LEMMA ReportQueued ==
  ASSUME DispatchInv, PendingListed, NEW e \in Events,
         \/ \E d \in {"block", "pass"} : RecordEvent(e, d) \/ AdminReview(e, d)
         \/ QueueReport(e) \/ QueueOwed(e)
  PROVE  PendingListed' /\ ReportsSent!Next
<1>1. /\ UNCHANGED <<received, run>> /\ doubt \subseteq doubt'
      /\ \/ report' = report
         \/ doubt' = doubt /\ \E r \in NextId : report' = [report EXCEPT ![r] = Pending(e)]
  BY DEF RecordEvent, AdminReview, QueueReport, QueueOwed, InsertReport
<1>2. \A p \in Pods : Listed(p)' = Listed(p) /\ Row(p)' = Row(p) /\ Listed(p) \subseteq ReportIds
  BY <1>1, SameStage, ListedRow DEF DispatchInv
<1>3. CASE report' = report
  <2>1. PendingListed'
    BY <1>1, <1>2, <1>3 DEF PendingListed
  <2>2. \A k \in ReportIds : ReportItem(k)' = ReportItem(k) \/ ReportItem(k)' = "excused"
    BY <1>1, <1>3 DEF ReportItem
  <2> QED
    BY <2>1, <2>2, ReportsExcused
<1>4. ASSUME doubt' = doubt, NEW r \in NextId, report' = [report EXCEPT ![r] = Pending(e)]
      PROVE  PendingListed' /\ ReportsSent!Next
  <2>1. r \in ReportIds /\ report[r] = NoReport
    BY <1>4 DEF NextId
  <2>2. PICK new : new = Pending(e)
    OBVIOUS
  <2>3. report'[r] = new /\ new.status = "pending" /\ \A k \in ReportIds \ {r} : report'[k] = report[k]
    BY <1>4, <2>1, <2>2 DEF DispatchInv, ReportShape, Pending
  <2>4. \A p \in Pods : r \notin Listed(p)
    BY <2>1 DEF DispatchInv, ListedExist
  <2>5. PendingListed'
    BY <1>1, <1>2, <1>4, <2>3, <2>4 DEF PendingListed
  <2>6. \A k \in ReportIds \ {r} : ReportItem(k)' = ReportItem(k)
    BY <1>1, <1>4, <2>3 DEF ReportItem
  <2>7. CASE r \in doubt
    <3>1. ReportItem(r)' = ReportItem(r)
      BY <1>4, <2>7 DEF ReportItem
    <3> QED
      BY <2>5, <2>6, <3>1, ReportsExcused
  <2>8. CASE r \notin doubt
    <3>1. report[r].status = "none"
      BY <2>1 DEF NoReport
    <3>2. received[r] = "no"
      BY <2>1, <2>4, <2>8, <3>1, Unlisted
    <3>3. ReportItem(r) = "none" /\ ReportItem(r)' = "queued"
      BY <1>1, <1>4, <2>3, <2>8, <3>1, <3>2 DEF ReportItem
    <3>4. <<"none", "queued">> \in ReportsSent!Moves
      BY DEF ReportsSent!Moves
    <3> QED
      BY <2>1, <2>5, <2>6, <3>3, <3>4, ReportMoves
  <2> QED
    BY <2>7, <2>8
<1> QED
  BY <1>1, <1>3, <1>4

\* A report given up that no mishap is known of has not been received.
LEMMA ReportRetried ==
  ASSUME DispatchInv, PendingListed, NEW r \in ReportIds, RetryReport(r)
  PROVE  PendingListed' /\ ReportsSent!Next
<1>1. PICK new : new = [report[r] EXCEPT !.status = "pending"]
  OBVIOUS
<1>2. /\ report[r].status = "dead_letter" /\ report' = [report EXCEPT ![r] = new]
      /\ UNCHANGED <<received, run, doubt>> /\ report[r] \in ReportRow
  BY <1>1 DEF RetryReport, UpdateReport, DispatchInv, ReportShape
<1>3. report'[r] = new /\ new.status = "pending" /\ \A k \in ReportIds \ {r} : report'[k] = report[k]
  BY <1>1, <1>2 DEF DispatchInv, ReportShape, ReportRow
<1>4. \A p \in Pods : Listed(p)' = Listed(p) /\ Row(p)' = Row(p) /\ Listed(p) \subseteq ReportIds
  BY <1>2, SameStage, ListedRow DEF DispatchInv
<1>5. PendingListed'
  BY <1>2, <1>3, <1>4 DEF PendingListed
<1>6. \A k \in ReportIds \ {r} : ReportItem(k)' = ReportItem(k)
  BY <1>2, <1>3 DEF ReportItem
<1>7. CASE r \in doubt
  <2>1. ReportItem(r)' = ReportItem(r)
    BY <1>2, <1>7 DEF ReportItem
  <2> QED
    BY <1>5, <1>6, <2>1, ReportsExcused
<1>8. CASE r \notin doubt
  <2>1. Clear(r)
    BY <1>8 DEF DispatchInv
  <2>2. \A p \in Pods : run[p].pc = "sent" => Row(p) \in Listed(p)
    BY ListedRow DEF DispatchInv, NotRunning
  <2>3. received[r] = "no"
    BY <1>2, <1>8, <2>1, <2>2 DEF Clear, PendingListed, DispatchInv, ReportShape
  <2>4. ReportItem(r) = "given_up" /\ ReportItem(r)' = "queued"
    BY <1>2, <1>3, <1>8, <2>3 DEF ReportItem
  <2>5. <<"given_up", "queued">> \in ReportsSent!Moves
    BY DEF ReportsSent!Moves
  <2> QED
    BY <1>5, <1>6, <2>4, <2>5, ReportMoves
<1> QED
  BY <1>7, <1>8

LEMMA ReportListed ==
  ASSUME DispatchInv, PendingListed, NEW p \in Pods, ListPending(p)
  PROVE  PendingListed' /\ ReportsSent!Next
<1>1. UNCHANGED <<report, received>> /\ doubt \subseteq doubt'
  BY DEF ListPending
<1>2. \A q \in Pods \ {p} : run'[q] = run[q] /\ Listed(q)' = Listed(q) /\ Row(q)' = Row(q)
  BY ListedDue, SameStage
<1>3. PendingListed'
  BY <1>1, <1>2, ListedDue DEF PendingListed
<1>4. \A k \in ReportIds : ReportItem(k)' = ReportItem(k) \/ ReportItem(k)' = "excused"
  BY <1>1 DEF ReportItem
<1> QED
  BY <1>3, <1>4, ReportsExcused

\* A report that is submitted was pending, and had not been received.
LEMMA ReportSubmitted ==
  ASSUME DispatchInv, PendingListed, NEW p \in Pods, SubmitReport(p)
  PROVE  PendingListed' /\ ReportsSent!Next
<1>0. PICK r : r = Row(p)
  OBVIOUS
<1>1. run[p].pc = "submit" /\ run[p] # NotRunning /\ report' = report /\ doubt \subseteq doubt'
  BY DEF SubmitReport, RunIs, NotRunning
<1>2. r \in Listed(p) /\ r \in ReportIds
  BY <1>0, <1>1, ListedRow DEF DispatchInv
<1>3. PICK pc \in {"sent", "failed"} :
        /\ RunTo(p, pc)
        /\ received' = received \/ Receive(r)
        /\ pc = "sent" => Receive(r) /\ doubt' = doubt
        /\ pc = "failed" => received' = received \/ r \in doubt'
  BY <1>0 DEF SubmitReport
<1>4. /\ \A k \in ReportIds \ {r} : received'[k] = received[k]
      /\ Receive(r) => received'[r] # "no"
  BY <1>2, <1>3 DEF Receive, DispatchInv, ReportShape
<1>5. Moved(p, pc)
  BY <1>1, <1>3, StageMoves DEF DispatchInv
<1>6. PendingListed'
  BY <1>1, <1>5 DEF PendingListed, Moved
<1>7. \A k \in ReportIds \ {r} : ReportItem(k)' = ReportItem(k) \/ ReportItem(k)' = "excused"
  BY <1>1, <1>4 DEF ReportItem
<1>8. CASE r \in doubt' \/ received' = received
  <2>1. ReportItem(r)' = ReportItem(r) \/ ReportItem(r)' = "excused"
    BY <1>1, <1>8 DEF ReportItem
  <2> QED
    BY <1>6, <1>7, <2>1, ReportsExcused
<1>9. CASE r \notin doubt' /\ received' # received
  <2>1. Receive(r) /\ doubt' = doubt /\ r \notin doubt
    BY <1>3, <1>9
  <2>2. report[r].status = "pending" /\ Clear(r)
    BY <1>1, <1>2, <2>1 DEF PendingListed, DispatchInv
  <2>3. received[r] = "no"
    <3>1. \A q \in Pods : run[q].pc = "sent" => Row(q) \in Listed(q)
      BY ListedRow DEF DispatchInv, NotRunning
    <3> QED
      BY <1>1, <1>2, <2>2, <3>1 DEF Clear, DispatchInv, ReportShape
  <2>4. ReportItem(r) = "queued" /\ ReportItem(r)' = "arrived"
    BY <1>1, <1>4, <2>1, <2>2, <2>3 DEF ReportItem
  <2>5. \A k \in ReportIds \ {r} : ReportItem(k)' = ReportItem(k)
    BY <1>1, <1>4, <2>1 DEF ReportItem
  <2>6. <<"queued", "arrived">> \in ReportsSent!Moves
    BY DEF ReportsSent!Moves
  <2> QED
    BY <1>2, <1>6, <2>4, <2>5, <2>6, ReportMoves
<1> QED
  BY <1>8, <1>9

\* The submission is written to the row, which was pending and received.
LEMMA ReportUpdated ==
  ASSUME DispatchInv, PendingListed, NEW p \in Pods, UpdateSubmitted(p)
  PROVE  PendingListed' /\ ReportsSent!Next
<1>0. PICK r : r = Row(p)
  OBVIOUS
<1>1. /\ run[p].pc = "sent" /\ run[p] # NotRunning /\ RunTo(p, "stamp")
      /\ UNCHANGED <<received, doubt>>
  BY DEF UpdateSubmitted, RunIs, NotRunning
<1>2. r \in Listed(p) /\ r \in ReportIds /\ report[r] \in ReportRow /\ received[r] # "no"
  BY <1>0, <1>1, ListedRow DEF DispatchInv, ListedExist, ReportShape, ReceivedFirst
<1>3. Moved(p, "stamp")
  BY <1>1, StageMoves DEF DispatchInv
<1>4. PICK new : new = [report[r] EXCEPT !.status = "submitted"]
  OBVIOUS
<1>5. report' = [report EXCEPT ![r] = new] /\ new.status = "submitted"
  BY <1>0, <1>2, <1>4 DEF UpdateSubmitted, UpdateReport, ReportRow
<1>6. report'[r] = new /\ \A k \in ReportIds \ {r} : report'[k] = report[k]
  BY <1>2, <1>5 DEF DispatchInv, ReportShape
<1>7. PendingListed'
  <2> SUFFICES ASSUME NEW q \in Pods, NEW k \in Listed(q)', k \notin doubt'
               PROVE  report'[k].status = "pending" \/ (run'[q].pc = "stamp" /\ Row(q)' = k)
    BY DEF PendingListed
  <2>1. k \in Listed(q) /\ k \in ReportIds /\ k \notin doubt /\ Row(q)' = Row(q)
    BY <1>1, <1>3, ListedRow DEF Moved, DispatchInv
  <2>2. Clear(k) /\ (report[k].status = "pending" \/ (run[q].pc = "stamp" /\ Row(q) = k))
    BY <2>1 DEF DispatchInv, PendingListed
  <2>3. CASE k = r
    <3>1. q = p
      BY <1>2, <2>1, <2>2, <2>3 DEF Clear
    <3> QED
      BY <1>0, <1>3, <2>1, <2>3, <3>1 DEF Moved
  <2>4. CASE k # r
    BY <1>0, <1>1, <1>3, <1>6, <2>1, <2>2, <2>4 DEF Moved
  <2> QED
    BY <2>3, <2>4
<1>8. \A k \in ReportIds \ {r} : ReportItem(k)' = ReportItem(k)
  BY <1>1, <1>6 DEF ReportItem
<1>9. CASE r \in doubt
  <2>1. ReportItem(r)' = ReportItem(r)
    BY <1>1, <1>9 DEF ReportItem
  <2> QED
    BY <1>7, <1>8, <2>1, ReportsExcused
<1>10. CASE r \notin doubt
  <2>1. report[r].status = "pending"
    BY <1>1, <1>2, <1>10 DEF PendingListed
  <2>2. ReportItem(r) = "arrived" /\ ReportItem(r)' = "sent"
    BY <1>1, <1>2, <1>5, <1>6, <1>10, <2>1 DEF ReportItem
  <2>3. <<"arrived", "sent">> \in ReportsSent!Moves
    BY DEF ReportsSent!Moves
  <2> QED
    BY <1>2, <1>7, <1>8, <2>2, <2>3, ReportMoves
<1> QED
  BY <1>9, <1>10

\* A failure is written to a row that is pending and was not received.
LEMMA ReportFailed ==
  ASSUME DispatchInv, PendingListed, NEW p \in Pods, UpdateFailed(p)
  PROVE  PendingListed' /\ ReportsSent!Next
<1>0. PICK r : r = Row(p)
  OBVIOUS
<1>1. /\ run[p].pc = "failed" /\ run[p] # NotRunning /\ Following(p)
      /\ UNCHANGED <<received, doubt>>
  BY DEF UpdateFailed, RunIs, NotRunning
<1>2. r \in Listed(p) /\ r \in ReportIds /\ report[r] \in ReportRow
  BY <1>0, <1>1, ListedRow DEF DispatchInv, ListedExist, ReportShape
<1>3. Dropped(p)
  BY <1>1, StageLeaves DEF DispatchInv
<1>4. PICK status : status = IF run[p].rows[r] + 1 >= MaxRetries THEN "dead_letter" ELSE "pending"
  OBVIOUS
<1>5. PICK new : new = [report[r] EXCEPT !.retries = @ + 1, !.status = status]
  OBVIOUS
<1>6. new.status = status /\ status \in {"pending", "dead_letter"}
  BY <1>2, <1>4, <1>5 DEF ReportRow
<1>7. report' = [report EXCEPT ![r] = new]
  BY <1>0, <1>4, <1>5 DEF UpdateFailed, UpdateReport
<1>8. report'[r] = new /\ \A k \in ReportIds \ {r} : report'[k] = report[k]
  BY <1>2, <1>7 DEF DispatchInv, ReportShape
<1>9. PendingListed'
  <2> SUFFICES ASSUME NEW q \in Pods, NEW k \in Listed(q)', k \notin doubt'
               PROVE  report'[k].status = "pending" \/ (run'[q].pc = "stamp" /\ Row(q)' = k)
    BY DEF PendingListed
  <2>1. k \in Listed(q) /\ k \in ReportIds /\ k \notin doubt /\ (q = p => k # r)
    BY <1>0, <1>1, <1>3, ListedRow DEF Dropped, DispatchInv
  <2>2. Clear(k) /\ (report[k].status = "pending" \/ (run[q].pc = "stamp" /\ Row(q) = k))
    BY <2>1 DEF DispatchInv, PendingListed
  <2>3. k # r
    BY <1>2, <2>1, <2>2 DEF Clear
  <2> QED
    BY <1>1, <1>3, <1>8, <2>1, <2>2, <2>3 DEF Dropped
<1>10. \A k \in ReportIds \ {r} : ReportItem(k)' = ReportItem(k)
  BY <1>1, <1>8 DEF ReportItem
<1>11. CASE r \in doubt
  <2>1. ReportItem(r)' = ReportItem(r)
    BY <1>1, <1>11 DEF ReportItem
  <2> QED
    BY <1>9, <1>10, <2>1, ReportsExcused
<1>12. CASE r \notin doubt
  <2>1. report[r].status = "pending" /\ Clear(r)
    BY <1>1, <1>2, <1>12 DEF PendingListed, DispatchInv
  <2>2. received[r] = "no"
    <3>1. \A q \in Pods : run[q].pc = "sent" => Row(q) \in Listed(q)
      BY ListedRow DEF DispatchInv, NotRunning
    <3> QED
      BY <1>1, <1>2, <2>1, <3>1 DEF Clear, DispatchInv, ReportShape
  <2>3. ReportItem(r) = "queued" /\ ReportItem(r)' \in {"queued", "given_up"}
    BY <1>1, <1>6, <1>8, <1>12, <2>1, <2>2 DEF ReportItem
  <2>4. <<"queued", "given_up">> \in ReportsSent!Moves
    BY DEF ReportsSent!Moves
  <2> QED
    BY <1>2, <1>9, <1>10, <2>3, <2>4, ReportMoves, ReportsExcused
<1> QED
  BY <1>11, <1>12

\* Rows stay as they are: a stamp, an update that is lost, a process that ends.
LEMMA ReportLeft ==
  ASSUME DispatchInv, PendingListed, NEW p \in Pods, Stamp(p) \/ UpdateLost(p) \/ Abandon(p)
  PROVE  PendingListed' /\ ReportsSent!Next
<1>1. /\ UNCHANGED <<report, received>> /\ doubt \subseteq doubt'
      /\ \/ (run[p] # NotRunning /\ Following(p)) \/ run' = [run EXCEPT ![p] = NotRunning]
         \/ run[p] # NotRunning /\ run[p].pc = "sent" /\ RunTo(p, "stamp")
  BY DEF Stamp, UpdateLost, Abandon, RunIs, NotRunning
<1>2. Dropped(p) \/ (Moved(p, "stamp") /\ run[p].pc = "sent")
  BY <1>1, StageLeaves, StageMoves DEF DispatchInv
<1>3. PendingListed'
  <2> SUFFICES ASSUME NEW q \in Pods, NEW k \in Listed(q)', k \notin doubt'
               PROVE  report'[k].status = "pending" \/ (run'[q].pc = "stamp" /\ Row(q)' = k)
    BY DEF PendingListed
  <2>1. k \in Listed(q) /\ k \notin doubt
    BY <1>1, <1>2 DEF Dropped, Moved
  <2>2. report[k].status = "pending" \/ (run[q].pc = "stamp" /\ Row(q) = k)
    BY <2>1 DEF PendingListed
  <2> QED
    BY <1>1, <1>2, <2>2 DEF Dropped, Moved
<1>4. \A k \in ReportIds : ReportItem(k)' = ReportItem(k) \/ ReportItem(k)' = "excused"
  BY <1>1 DEF ReportItem
<1> QED
  BY <1>3, <1>4, ReportsExcused

LEMMA ReportsRest ==
  PendingListed /\ UNCHANGED <<report, received, run, doubt>> => PendingListed' /\ ReportsSent!Next
<1> SUFFICES ASSUME PendingListed, UNCHANGED <<report, received, run, doubt>>
             PROVE  PendingListed' /\ ReportsSent!Next
  OBVIOUS
<1>1. \A p \in Pods : Listed(p)' = Listed(p) /\ Row(p)' = Row(p)
  BY SameStage
<1>2. \A k \in ReportIds : ReportItem(k)' = ReportItem(k)
  BY DEF ReportItem
<1> QED
  BY <1>1, <1>2, ReportsExcused DEF PendingListed

LEMMA ReportDelivers ==
  DispatchInv /\ PendingListed /\ ReportNext => PendingListed' /\ ReportsSent!Next
  BY ReportQueued, ReportRetried, ReportListed, ReportSubmitted, ReportUpdated, ReportFailed,
     ReportLeft, ReportsRest
  DEF ReportNext, DispatchOnce, reportVars

-----------------------------------------------------------------------------
(* The message queue implements AtLeastOnce.  What a consumer is to handle  *)
(* is in the queue, or something became of it in another's hands.           *)

HeldInside == \A c \in Consumers : HeldAt(c, "handle") => outcome[held[c].msg] # {} \/ Inside(held[c].msg)

\* One copy is written.
LEMMA OneCopyWritten ==
  ASSUME MnsInv, NEW m \in Msgs, NEW i \in Copies, NEW entry, queue' = [queue EXCEPT ![m][i] = entry]
  PROVE  /\ \A k \in Msgs \ {m} : Inside(k)' <=> Inside(k)
         /\ entry.at # "nowhere" => Inside(m)'
<1>1. PICK all : all = [queue[m] EXCEPT ![i] = entry]
  OBVIOUS
<1>2. all[i] = entry
  BY <1>1 DEF MnsInv, MnsShape
<1>3. queue' = [queue EXCEPT ![m] = all]
  BY <1>1
<1>4. queue'[m] = all /\ \A k \in Msgs \ {m} : queue'[k] = queue[k]
  BY <1>3 DEF MnsInv, MnsShape
<1> QED
  BY <1>2, <1>4 DEF Inside

\* What is handled stays kept while no message is lost.
LEMMA HeldStays ==
  ASSUME MnsInv, HeldInside,
         \A k \in Msgs : outcome[k] \subseteq outcome'[k] /\ (Inside(k) => Inside(k)' \/ outcome'[k] # {}),
         \A c \in Consumers : \/ held'[c] = held[c]
                              \/ held'[c].pc # "handle"
                              \/ \E k \in Msgs : held'[c].msg = k /\ Inside(k)'
  PROVE  HeldInside'
<1>1. ASSUME NEW c \in Consumers, held'[c].pc = "handle"
      PROVE  \E k \in Msgs : held'[c].msg = k /\ (outcome'[k] # {} \/ Inside(k)')
  <2>1. CASE held'[c] = held[c]
    <3>1. held[c].msg \in Msgs
      BY <1>1, <2>1 DEF MnsInv, MnsShape, Deliveries, Empty
    <3>2. outcome[held[c].msg] # {} \/ Inside(held[c].msg)
      BY <1>1, <2>1 DEF HeldInside, HeldAt
    <3>3. PICK k : k = held[c].msg
      OBVIOUS
    <3>4. held'[c].msg = k /\ (outcome'[k] # {} \/ Inside(k)')
      BY <2>1, <3>1, <3>2, <3>3
    <3> QED
      BY <3>1, <3>3, <3>4
  <2> QED
    BY <1>1, <2>1
<1> QED
  BY <1>1 DEF HeldInside, HeldAt, Inside

\* What the sender is told, and what is in the queue, of other messages than m
\* stays: the abstract queue takes m in, or nothing happens to it.
LEMMA MessagePut ==
  ASSUME NEW m \in Msgs, publish[m].state # "ok", outcome' = outcome,
         \A k \in Msgs \ {m} : publish'[k] = publish[k] /\ (Inside(k)' <=> Inside(k)),
         \/ Inside(m)'
         \/ publish'[m].state # "ok" /\ (Inside(m)' <=> Inside(m))
  PROVE  [MessagesKept!Next]_(MessagesKept!atLeastOnceVars)
<1> DEFINE told == {k \in Msgs : publish[k].state = "ok"}
           inside == {k \in Msgs : Inside(k)}
<1>1. CASE Inside(m)'
  <2>1. {k \in Msgs : Inside(k)}' = inside \cup {m}
    BY <1>1
  <2>2. told' = told \/ told' = told \cup {m}
    OBVIOUS
  <2>3. m \notin told
    OBVIOUS
  <2>4. MessagesKept!Put(m)
    BY <2>1, <2>2, <2>3 DEF MessagesKept!Put
  <2> QED
    BY <2>4 DEF MessagesKept!Next
<1>2. CASE publish'[m].state # "ok" /\ (Inside(m)' <=> Inside(m))
  <2>1. told' = told
    BY <1>2
  <2>2. inside' = inside
    BY <1>2
  <2> QED
    BY <2>1, <2>2 DEF MessagesKept!atLeastOnceVars
<1> QED
  BY <1>1, <1>2

\* Nothing the abstract queue knows changes.
LEMMA MessagesRest ==
  ASSUME \A k \in Msgs : publish'[k].state = "ok" <=> publish[k].state = "ok",
         \A k \in Msgs : Inside(k)' <=> Inside(k), outcome' = outcome
  PROVE  UNCHANGED MessagesKept!atLeastOnceVars
<1>1. {k \in Msgs : publish[k].state = "ok"}' = {k \in Msgs : publish[k].state = "ok"}
  OBVIOUS
<1>2. {k \in Msgs : Inside(k)}' = {k \in Msgs : Inside(k)}
  OBVIOUS
<1> QED
  BY <1>1, <1>2 DEF MessagesKept!atLeastOnceVars

LEMMA MessagePublished ==
  ASSUME MnsInv, HeldInside, NEW m \in Msgs, Publish(m) \/ Register(m)
  PROVE  HeldInside' /\ [MessagesKept!Next]_(MessagesKept!atLeastOnceVars)
<1>1. UNCHANGED <<queue, held, outcome>> /\ \A k \in Msgs : publish'[k].state = "ok" <=> publish[k].state = "ok"
  <2>1. CASE Publish(m)
    <3>1. publish'[m].state = "trying" /\ publish[m].state = "none" /\ \A k \in Msgs \ {m} : publish'[k] = publish[k]
      BY <2>1 DEF Publish, MnsInv, MnsShape
    <3> QED
      BY <2>1, <3>1 DEF Publish
  <2>2. CASE Register(m)
    BY <2>2 DEF Register
  <2> QED
    BY <2>1, <2>2
<1>2. \A k \in Msgs : Inside(k)' <=> Inside(k)
  BY <1>1 DEF Inside
<1>3. HeldInside'
  BY <1>1, <1>2, HeldStays
<1> QED
  BY <1>1, <1>2, <1>3, MessagesRest

\* The sender is told with the copy in the queue.
LEMMA MessageSent ==
  ASSUME MnsInv, HeldInside, NEW m \in Msgs, DoSend(m)
  PROVE  HeldInside' /\ [MessagesKept!Next]_(MessagesKept!atLeastOnceVars)
<1>1. /\ publish[m].state = "trying" /\ publish[m].tries + 1 \in Copies
      /\ UNCHANGED <<held, outcome>>
      /\ Enqueue(m) \/ queue' = queue
  BY DEF DoSend, MnsInv, TriesLeft
<1>2. /\ \A k \in Msgs \ {m} : publish'[k] = publish[k]
      /\ ~Enqueue(m) => publish'[m].state # "ok"
  BY DEF DoSend, MnsInv, MnsShape
<1>3. ASSUME Enqueue(m)
      PROVE  Inside(m)' /\ \A k \in Msgs \ {m} : Inside(k)' <=> Inside(k)
  <2>1. PICK entry : entry = [queue[m][publish[m].tries + 1] EXCEPT !.at = "visible"]
    OBVIOUS
  <2>2. entry.at # "nowhere"
    BY <1>1, <2>1 DEF MnsInv, MnsShape
  <2>3. queue' = [queue EXCEPT ![m][publish[m].tries + 1] = entry]
    BY <1>3, <2>1 DEF Enqueue
  <2> QED
    BY <1>1, <2>2, <2>3, OneCopyWritten
<1>4. queue' = queue => \A k \in Msgs : Inside(k)' <=> Inside(k)
  BY DEF Inside
<1>5. \A k \in Msgs : Inside(k) => Inside(k)'
  BY <1>1, <1>3, <1>4
<1>6. HeldInside'
  BY <1>1, <1>5, HeldStays
<1>7. \A k \in Msgs \ {m} : publish'[k] = publish[k] /\ (Inside(k)' <=> Inside(k))
  BY <1>1, <1>2, <1>3, <1>4
<1>8. \/ Inside(m)'
      \/ publish'[m].state # "ok" /\ (Inside(m)' <=> Inside(m))
  BY <1>1, <1>2, <1>3, <1>4
<1> QED
  BY <1>1, <1>6, <1>7, <1>8, MessagePut

\* A copy is taken into a hand, or shown again.
LEMMA MessageShown ==
  ASSUME MnsInv, HeldInside, NEW m \in Msgs, NEW i \in Copies,
         VisibilityTimeout(m, i) \/ \E c \in Consumers : ReceiveMessage(c, m, i)
  PROVE  HeldInside' /\ [MessagesKept!Next]_(MessagesKept!atLeastOnceVars)
<1>1. /\ UNCHANGED <<publish, outcome>> /\ Inside(m)
      /\ \E entry : queue' = [queue EXCEPT ![m][i] = entry] /\ entry.at # "nowhere"
      /\ \A c \in Consumers : held'[c] = held[c] \/ held'[c].msg = m
  <2>1. CASE VisibilityTimeout(m, i)
    <3>1. PICK entry : entry = [queue[m][i] EXCEPT !.at = "visible"]
      OBVIOUS
    <3>2. entry.at # "nowhere" /\ queue' = [queue EXCEPT ![m][i] = entry]
      BY <2>1, <3>1 DEF VisibilityTimeout, MnsInv, MnsShape
    <3> QED
      BY <2>1, <3>2, MnsAssumption DEF VisibilityTimeout, Inside
  <2>2. ASSUME NEW c \in Consumers, ReceiveMessage(c, m, i)
        PROVE  /\ UNCHANGED <<publish, outcome>> /\ Inside(m)
               /\ \E entry : queue' = [queue EXCEPT ![m][i] = entry] /\ entry.at # "nowhere"
               /\ \A d \in Consumers : held'[d] = held[d] \/ held'[d].msg = m
    <3>1. PICK n : n = IF queue[m][i].dequeued < DlqThreshold THEN queue[m][i].dequeued + 1 ELSE queue[m][i].dequeued
      OBVIOUS
    <3>2. PICK entry : entry = [at |-> c, dequeued |-> n]
      OBVIOUS
    <3>3. entry.at # "nowhere" /\ queue' = [queue EXCEPT ![m][i] = entry]
      BY <2>2, <3>1, <3>2, MnsAssumption DEF ReceiveMessage, MnsInv, MnsShape
    <3>4. PICK d : d = [pc |-> "handle", msg |-> m, copy |-> i, count |-> queue'[m][i].dequeued]
      OBVIOUS
    <3>5. d.msg = m /\ held' = [held EXCEPT ![c] = d]
      BY <2>2, <3>4 DEF ReceiveMessage
    <3>6. \A k \in Consumers : held'[k] = held[k] \/ held'[k].msg = m
      BY <3>5 DEF MnsInv, MnsShape
    <3> QED
      BY <2>2, <3>3, <3>6 DEF ReceiveMessage, Inside
  <2> QED
    BY <2>1, <2>2
<1>2. \A k \in Msgs : Inside(k)' <=> Inside(k)
  BY <1>1, OneCopyWritten
<1>3. Inside(m)'
  BY <1>1, <1>2
<1>4. HeldInside'
  <2>1. \A c \in Consumers : held'[c] = held[c] \/ \E k \in Msgs : held'[c].msg = k /\ Inside(k)'
    BY <1>1, <1>3
  <2> QED
    BY <1>1, <1>2, <2>1, HeldStays
<1> QED
  BY <1>1, <1>2, <1>4, MessagesRest

\* Something becomes only of what is in the queue, or has become before.
LEMMA MessageHandled ==
  ASSUME MnsInv, HeldInside, NEW c \in Consumers, HandleOne(c)
  PROVE  HeldInside' /\ [MessagesKept!Next]_(MessagesKept!atLeastOnceVars)
<1>0. PICK m : m = held[c].msg
  OBVIOUS
<1>1. m \in Msgs /\ HeldAt(c, "handle") /\ UNCHANGED <<publish, queue>> /\ held[c] # Empty
  BY <1>0 DEF HandleOne, HeldAt, MnsInv, MnsShape, Deliveries, Empty
<1>2. \A k \in Msgs : Inside(k)' <=> Inside(k)
  BY <1>1 DEF Inside
<1>3. CASE UNCHANGED outcome /\ Leave(c)
  <2>1. \A k \in Consumers : held'[k] = held[k] \/ held'[k].pc # "handle"
    BY <1>3 DEF Leave, Empty, MnsInv, MnsShape
  <2>2. HeldInside'
    BY <1>2, <1>3, <2>1, HeldStays
  <2> QED
    BY <1>1, <1>2, <1>3, <2>2, MessagesRest
<1>4. ASSUME NEW fate \in {"handled", "dropped"} \cup IF HasDlq THEN {"dead_letter"} ELSE {},
             Became(m, fate), HeldTo(c, "delete")
      PROVE  HeldInside' /\ [MessagesKept!Next]_(MessagesKept!atLeastOnceVars)
  <2>1. PICK d : d = [held[c] EXCEPT !.pc = "delete"]
    OBVIOUS
  <2>2. d.pc # "handle" /\ held' = [held EXCEPT ![c] = d]
    BY <1>1, <1>4, <2>1 DEF HeldTo, MnsInv, MnsShape, Deliveries
  <2>3. \A k \in Consumers : held'[k] = held[k] \/ held'[k].pc # "handle"
    BY <2>2 DEF MnsInv, MnsShape
  <2>4. \A k \in Msgs : outcome[k] \subseteq outcome'[k]
    BY <1>4 DEF Became, MnsInv, MnsShape
  <2>5. HeldInside'
    BY <1>2, <2>3, <2>4, HeldStays
  <2>6. Inside(m) \/ outcome[m] # {}
    BY <1>0, <1>1 DEF HeldInside
  <2>7. UNCHANGED <<{k \in Msgs : publish[k].state = "ok"}, {k \in Msgs : Inside(k)}>>
    BY <1>1, <1>2
  <2>8. MessagesKept!Become(m, fate)
    BY <1>1, <1>4, <2>6, <2>7 DEF MessagesKept!Become, Became
  <2> QED
    BY <1>1, <1>4, <2>5, <2>8 DEF MessagesKept!Next
<1>5. \/ UNCHANGED outcome /\ Leave(c)
      \/ \E fate \in {"handled", "dropped"} \cup IF HasDlq THEN {"dead_letter"} ELSE {} :
           Became(m, fate) /\ HeldTo(c, "delete")
  BY <1>0 DEF HandleOne, Poisoned
<1> QED
  BY <1>3, <1>4, <1>5

\* What is deleted, something became of.
LEMMA MessageTaken ==
  ASSUME MnsInv, HeldInside, NEW c \in Consumers, DeleteMessage(c) \/ ConsumerDies(c)
  PROVE  HeldInside' /\ [MessagesKept!Next]_(MessagesKept!atLeastOnceVars)
<1>0. PICK m, i : m = held[c].msg /\ i = held[c].copy
  OBVIOUS
<1>1. /\ held[c] \in Deliveries /\ m \in Msgs /\ i \in Copies
      /\ Leave(c) /\ UNCHANGED <<publish, outcome>>
      /\ queue' = queue \/ (queue' = [queue EXCEPT ![m][i] = NoCopy] /\ outcome[m] # {})
  <2>1. held[c] \in Deliveries
    BY DEF DeleteMessage, ConsumerDies, HeldAt, MnsInv, MnsShape, Empty
  <2> QED
    BY <1>0, <2>1 DEF DeleteMessage, ConsumerDies, HeldAt, MnsInv, DeletedLast, Deliveries
<1>2. /\ \A k \in Msgs \ {m} : Inside(k)' <=> Inside(k)
      /\ outcome[m] # {} \/ (Inside(m)' <=> Inside(m))
  <2>1. CASE queue' = queue
    BY <2>1 DEF Inside
  <2>2. CASE queue' = [queue EXCEPT ![m][i] = NoCopy] /\ outcome[m] # {}
    BY <1>1, <2>2, OneCopyWritten
  <2> QED
    BY <1>1, <2>1, <2>2
<1>3. \A k \in Consumers : held'[k] = held[k] \/ held'[k].pc # "handle"
  BY <1>1 DEF Leave, Empty, MnsInv, MnsShape
<1>4. HeldInside'
  BY <1>1, <1>2, <1>3, HeldStays
<1>5. CASE Inside(m)' <=> Inside(m)
  BY <1>1, <1>2, <1>4, <1>5, MessagesRest
<1>6. CASE ~(Inside(m)' <=> Inside(m))
  <2>1. outcome[m] # {}
    BY <1>2, <1>6
  <2>2. CASE Inside(m)'
    <3>1. \A k \in Msgs \ {m} : publish'[k] = publish[k]
      BY <1>1
    <3>2. queue' = [queue EXCEPT ![m][i] = NoCopy]
      BY <1>1, <1>6 DEF Inside
    <3>3. PICK j \in Copies : queue'[m][j].at # "nowhere"
      BY <2>2 DEF Inside
    <3>4. PICK all : all = [queue[m] EXCEPT ![i] = NoCopy]
      OBVIOUS
    <3>5. queue'[m] = all /\ (all[j] = NoCopy \/ all[j] = queue[m][j])
      BY <1>1, <3>2, <3>4 DEF MnsInv, MnsShape
    <3>6. queue[m][j].at # "nowhere"
      BY <3>3, <3>5 DEF NoCopy
    <3> QED
      BY <1>6, <2>2, <3>6 DEF Inside
  <2>3. CASE ~Inside(m)'
    <3>1. {k \in Msgs : Inside(k)}' = {k \in Msgs : Inside(k)} \ {m}
      BY <1>2, <2>3
    <3>2. UNCHANGED {k \in Msgs : publish[k].state = "ok"}
      BY <1>1
    <3>3. MessagesKept!Take(m)
      BY <1>1, <2>1, <3>1, <3>2 DEF MessagesKept!Take
    <3> QED
      BY <1>1, <1>4, <3>3 DEF MessagesKept!Next
  <2> QED
    BY <2>2, <2>3
<1> QED
  BY <1>5, <1>6

LEMMA MessageKeeps ==
  MnsInv /\ HeldInside /\ MnsNext => HeldInside' /\ [MessagesKept!Next]_(MessagesKept!atLeastOnceVars)
  BY MessagePublished, MessageSent, MessageShown, MessageHandled, MessageTaken DEF MnsNext, Tick

LEMMA MessagesStill ==
  HeldInside /\ UNCHANGED mnsVars => HeldInside' /\ UNCHANGED MessagesKept!atLeastOnceVars
<1> SUFFICES ASSUME HeldInside, UNCHANGED mnsVars
             PROVE  HeldInside' /\ UNCHANGED MessagesKept!atLeastOnceVars
  OBVIOUS
<1>1. \A k \in Msgs : Inside(k)' <=> Inside(k)
  BY DEF mnsVars, Inside
<1>2. HeldInside'
  BY DEF mnsVars, HeldInside, HeldAt, Inside
<1> QED
  BY <1>1, <1>2, MessagesRest DEF mnsVars

-----------------------------------------------------------------------------
\* For any notes, dispatchers, events, reports, pods, messages, consumers, retry
\* limits and faults, both queues of rows implement Delivery: a row whose sending
\* was not in doubt arrives once, is marked sent behind that or given up without
\* it, and stays so but for RetryReport (notification, content_safety).  The
\* message queue implements AtLeastOnce: a message is out of it only once
\* something became of it (outbox).
THEOREM QueuesDeliverCorrect == Spec => QueuesDeliver
<1> DEFINE HeldInv == PendingHeld /\ PendingListed /\ HeldInside
           Sends == /\ [NotesSent!Next]_([n \in Notes |-> NoteItem(n)])
                    /\ [ReportsSent!Next]_([r \in ReportIds |-> ReportItem(r)])
                    /\ [MessagesKept!Next]_(MessagesKept!atLeastOnceVars)
<1>1. Init => HeldInv /\ NotesSent!Init /\ ReportsSent!Init /\ MessagesKept!Init
  <2> SUFFICES ASSUME NoteInit, ReportInit, MnsInit
               PROVE  HeldInv /\ NotesSent!Init /\ ReportsSent!Init /\ MessagesKept!Init
    BY DEF Init
  <2>1. HeldInv
    BY DEF NoteInit, ReportInit, MnsInit, PendingHeld, PendingListed, InHand, Listed, HeldInside, HeldAt, Empty
  <2>2. (\A n \in Notes : NoteItem(n) = "none") /\ \A r \in ReportIds : ReportItem(r) = "none"
    BY DEF NoteInit, ReportInit, NoteItem, ReportItem, NotQueued, NoReport
  <2>3. \A m \in Msgs : publish[m].state # "ok" /\ ~Inside(m)
    BY DEF MnsInit, Inside, NoCopy
  <2>4. {m \in Msgs : publish[m].state = "ok"} = {} /\ {m \in Msgs : Inside(m)} = {}
    BY <2>3
  <2> QED
    BY <2>1, <2>2, <2>4 DEF NotesSent!Init, ReportsSent!Init, MessagesKept!Init, MnsInit
<1>2. DeliverInv /\ HeldInv /\ [Next]_vars => HeldInv' /\ Sends
  <2> SUFFICES ASSUME DeliverInv, HeldInv, [Next]_vars PROVE HeldInv' /\ Sends
    OBVIOUS
  <2>1. PendingHeld' /\ [NotesSent!Next]_([n \in Notes |-> NoteItem(n)])
    <3>1. CASE NoteNext
      BY <3>1, NoteDelivers DEF DeliverInv
    <3>2. CASE UNCHANGED noteVars
      <4>1. \A d \in Dispatchers : InHand(d)' = InHand(d)
        BY <3>2, SameHand DEF noteVars
      <4>2. \A n \in Notes : NoteItem(n)' = NoteItem(n)
        BY <3>2 DEF noteVars, NoteItem
      <4>3. PendingHeld'
        BY <3>2, <4>1 DEF noteVars, PendingHeld
      <4> QED
        BY <4>2, <4>3, NotesExcused
    <3> QED
      BY <3>1, <3>2, NoteFrame
  <2>2. PendingListed' /\ [ReportsSent!Next]_([r \in ReportIds |-> ReportItem(r)])
    <3>1. ReportNext \/ UNCHANGED dispatchVars
      BY DEF Next, vars
    <3> QED
      BY <3>1, ReportDelivers, ReportsRest DEF DeliverInv, dispatchVars, reportVars
  <2>3. HeldInside' /\ [MessagesKept!Next]_(MessagesKept!atLeastOnceVars)
    BY MnsFrame, MessageKeeps, MessagesStill DEF DeliverInv
  <2> QED
    BY <2>1, <2>2, <2>3
<1> HIDE DEF HeldInv
<1> QED
  BY <1>1, <1>2, DeliverHolds, PTL
  DEF Spec, QueuesDeliver, NotesSent!Spec, ReportsSent!Spec, MessagesKept!Spec

-----------------------------------------------------------------------------
(* Rows move as their tables have it.                                      *)

InvoiceAdvance(i) ==
  LET was == invoice[i].status IN
  invoice'[i].status # was =>
    was = "none" \/ MayMove(was, invoice'[i].status) \/ i \in tangled'

\* A write of the status by a call that is alone on its application.
LEMMA InvoiceWrites ==
  ASSUME InvoiceInv, NEW c \in Clerks, clerk[c] # Away,
         MarkReviewing(c) \/ DecideReview(c) \/ MarkIssued(c) \/ MarkFlushing(c) \/ MarkFlushed(c)
  PROVE  \A i \in Invoices : InvoiceAdvance(i)
<1>1. PICK i \in Invoices : i = Handles(c)
  BY CallAlone
<1>2. PICK to :
        /\ to = CASE clerk[c].pc = "mark" -> "reviewing" [] clerk[c].pc = "decide" -> clerk[c].to
                  [] clerk[c].pc = "issued" -> "issued" [] clerk[c].pc = "flushing" -> "red_flushing"
                  [] OTHER -> "red_flushed"
  OBVIOUS
<1>3. /\ \A j \in Invoices \ {i} : invoice'[j] = invoice[j]
      /\ invoice'[i].status = to /\ tangled' = tangled
      /\ clerk[c].pc \in {"mark", "decide", "issued", "flushing", "flushed"}
  <2>1. invoice \in [Invoices -> [status : InvoiceStatus, serial : Nat]]
    BY DEF InvoiceInv, InvoiceShape
  <2>2. CASE SetInvoice(c, to) /\ ~MarkIssued(c)
    <3>1. invoice' = [invoice EXCEPT ![i] = [invoice[i] EXCEPT !.status = to]]
      BY <1>1, <2>2 DEF SetInvoice
    <3>2. invoice'[i] = [invoice[i] EXCEPT !.status = to] /\ invoice[i] \in [status : InvoiceStatus, serial : Nat]
      BY <2>1, <3>1
    <3> QED
      BY <2>1, <2>2, <3>1, <3>2 DEF MarkReviewing, DecideReview, MarkFlushing, MarkFlushed
  <2>3. CASE MarkIssued(c)
    <3>1. to = "issued"
      BY <1>2, <2>3 DEF MarkIssued
    <3> QED
      BY <1>1, <2>1, <2>3, <3>1 DEF MarkIssued
  <2> QED
    BY <1>2, <2>2, <2>3 DEF MarkReviewing, DecideReview, MarkFlushing, MarkFlushed, MarkIssued
<1>4. ASSUME i \notin tangled PROVE InvoiceAdvance(i)
  <2>1. Fits(c) /\ clerk[c] \in ClerkCall
    BY <1>1, <1>4, CallAlone
  <2>2. clerk[c].pc = "decide" => to \in {"issuing", "rejected"}
    BY <1>2, <2>1 DEF ClerkCall
  <2>3. \/ invoice[i].status = "applied" /\ to = "reviewing"
        \/ invoice[i].status \in {"reviewing", "issuing"} /\ to \in {"issuing", "rejected"}
        \/ invoice[i].status = "issuing" /\ to = "issued"
        \/ invoice[i].status = "issued" /\ to = "red_flushing"
        \/ invoice[i].status = "red_flushing" /\ to = "red_flushed"
    BY <1>1, <1>2, <1>3, <2>1, <2>2 DEF Fits, Was
  <2> QED
    BY <1>3, <2>3 DEF InvoiceAdvance, MayMove, InvoiceMoves
<1> QED
  BY <1>3, <1>4 DEF InvoiceAdvance

LEMMA InvoiceAdvancesStep ==
  ASSUME InvoiceInv, InvoiceNext
  PROVE  \A i \in Invoices : InvoiceAdvance(i)
<1>1. ASSUME NEW i \in Invoices, Apply(i) PROVE \A j \in Invoices : InvoiceAdvance(j)
  <2>1. /\ invoice[i].status = "none" /\ \A j \in Invoices \ {i} : invoice'[j] = invoice[j]
    BY <1>1 DEF Apply, InvoiceInv, InvoiceShape
  <2> QED
    BY <2>1 DEF InvoiceAdvance
<1>2. ASSUME NEW c \in Clerks,
             MarkReviewing(c) \/ DecideReview(c) \/ MarkIssued(c) \/ MarkFlushing(c) \/ MarkFlushed(c)
      PROVE  \A i \in Invoices : InvoiceAdvance(i)
  <2>1. clerk[c] # Away
    BY <1>2 DEF MarkReviewing, DecideReview, MarkIssued, MarkFlushing, MarkFlushed, Away
  <2> QED
    BY <1>2, <2>1, InvoiceWrites
<1>3. CASE UNCHANGED invoice
  BY <1>3 DEF InvoiceAdvance
<1> QED
  BY <1>1, <1>2, <1>3 DEF InvoiceNext, Review, Issue, RedFlush, Takes, GatewayIssue, InsertRedFlush,
     GatewayRedFlush, CompleteRedFlush, ClerkFails

\* Tickets.
TicketRow == [status : TicketStatus \cup {"none"}, replies : Nat]
AgentCall ==
  [pc : {"reply", "write"}, ticket : Tickets, sender : {"partner", "staff", "none"},
   read : TicketStatus, to : TicketStatus]
\* A call writes a status its ticket may have from the one it read, or the one a
\* reply of the staff leaves.
Chosen(c) ==
  canMove(c.read, c.to) \/ (c.sender = "staff" /\ c.to = "responding")
TicketInv ==
  /\ ticket \in [Tickets -> TicketRow]
  /\ \A t \in Tickets : Filed(t) => ticket[t].status \in TicketStatus
  /\ agent \in [Agents -> {OffDuty} \cup AgentCall]
  /\ \A a \in Agents : agent[a] # OffDuty =>
       Chosen(agent[a]) /\ ticket[agent[a].ticket].status \in TicketStatus
MovesOn(t) ==
  Filed(t) /\ ~canMove(ticket[t].status, ticket'[t].status) =>
    \E a \in Agents :
      /\ agent[a].pc = "write" /\ agent'[a] = OffDuty /\ agent[a].ticket = t
      /\ Overtaken(a) \/ (agent[a].sender = "staff" /\ ticket'[t].status = "responding")
TicketStep == \A t \in Tickets : MovesOn(t)

\* A ticket that stays as it is.
LEMMA TicketAtRest ==
  ASSUME TicketInv, UNCHANGED ticket
  PROVE  TicketStep
  BY DEF TicketStep, MovesOn, canMove

LEMMA TicketStatuses ==
  TicketStatus = {"open", "assigned", "responding", "waiting_user", "resolved", "reopened", "closed"}
  BY DEF TicketStatus, TicketMoves

LEMMA TicketBegins ==
  ASSUME TicketInv, NEW a \in Agents, NEW t \in Tickets, NEW job \in AgentCall, Works(a, t, job),
         Chosen(job), job.ticket = t
  PROVE  TicketInv' /\ TicketStep
<1>1. ticket' = ticket /\ agent' = [agent EXCEPT ![a] = job]
  BY DEF Works
<1>2. ticket[t].status \in TicketStatus
  BY DEF Works, TicketInv
<1>3. TicketInv'
  BY <1>1, <1>2 DEF TicketInv, Filed
<1> QED
  BY <1>1, <1>3, TicketAtRest

LEMMA TicketStepInv ==
  ASSUME TicketInv, TicketNext
  PROVE  TicketInv' /\ TicketStep
<1>0. /\ ticket \in [Tickets -> TicketRow] /\ agent \in [Agents -> {OffDuty} \cup AgentCall]
      /\ \A t \in Tickets : ticket[t].replies \in Nat
  BY DEF TicketInv, TicketRow
<1>1. ASSUME NEW t \in Tickets, FileTicket(t) PROVE TicketInv' /\ TicketStep
  <2>1. PICK n \in {0, 1} : ticket' = [ticket EXCEPT ![t] = [status |-> "open", replies |-> n]]
    BY <1>1 DEF FileTicket
  <2>2. ~Filed(t) /\ agent' = agent /\ ticket[t].replies = 0
    BY <1>1 DEF FileTicket, Filed, NoTicket
  <2>4. /\ ticket'[t].replies = n /\ ticket'[t].status = "open" /\ ticket' \in [Tickets -> TicketRow]
        /\ \A s \in Tickets \ {t} : ticket'[s] = ticket[s]
    BY <1>0, <2>1, TicketStatuses DEF TicketRow
  <2>7. \A b \in Agents : agent[b] # OffDuty =>
           agent[b].ticket \in Tickets /\ ticket'[agent[b].ticket].status \in TicketStatus
    BY <1>0, <2>4, TicketStatuses DEF TicketInv, AgentCall
  <2>3. TicketInv'
    BY <1>0, <2>2, <2>4, <2>7, TicketStatuses DEF TicketInv, Filed
  <2>6. \A s \in Tickets : MovesOn(s)
    BY <2>2, <2>4 DEF MovesOn, canMove
  <2> QED
    BY <2>3, <2>6 DEF TicketStep
<1>2. ASSUME NEW a \in Agents, NEW t \in Tickets, NEW sender \in {"partner", "staff"},
             Filed(t), BeginReply(a, t, sender)
      PROVE  TicketInv' /\ TicketStep
  <2> DEFINE job == [pc |-> "reply", ticket |-> t, sender |-> sender, read |-> ticket[t].status,
                     to |-> AfterReply(ticket[t].status, sender)]
  <2>1. ticket[t].status \in TicketStatus
    BY <1>2 DEF TicketInv
  <2>2. AfterReply(ticket[t].status, sender) \in TicketStatus
    BY <2>1, TicketStatuses DEF AfterReply
  <2>3. job \in AgentCall
    BY <2>1, <2>2 DEF AgentCall
  <2>4. Chosen(job)
    BY <2>1 DEF Chosen, AfterReply, canMove, TicketMoves
  <2> QED
    BY <1>2, <2>3, <2>4, TicketBegins DEF BeginReply
<1>3. ASSUME NEW a \in Agents, NEW t \in Tickets, NEW to \in TicketStatus, Transition(a, t, to)
      PROVE  TicketInv' /\ TicketStep
  <2> DEFINE job == [pc |-> "write", ticket |-> t, sender |-> "none", read |-> ticket[t].status, to |-> to]
  <2>1. ticket[t].status \in TicketStatus
    BY <1>3 DEF TicketInv, Transition
  <2>2. job \in AgentCall
    BY <2>1 DEF AgentCall
  <2>3. Chosen(job)
    BY <1>3 DEF Chosen, Transition
  <2> QED
    BY <1>3, <2>2, <2>3, TicketBegins DEF Transition
<1>4. ASSUME NEW a \in Agents, InsertReply(a) PROVE TicketInv' /\ TicketStep
  <2>1. agent[a] # OffDuty /\ agent[a] \in AgentCall
    BY <1>0, <1>4 DEF InsertReply, OffDuty
  <2>2. PICK t \in Tickets : t = agent[a].ticket
    BY <2>1 DEF AgentCall
  <2>3. /\ ticket' = [ticket EXCEPT ![t] = [ticket[t] EXCEPT !.replies = ticket[t].replies + 1]]
        /\ agent' = [agent EXCEPT ![a] = [agent[a] EXCEPT !.pc = "write"]]
    BY <1>4, <2>2 DEF InsertReply
  <2>4. /\ [agent[a] EXCEPT !.pc = "write"] \in AgentCall /\ Chosen([agent[a] EXCEPT !.pc = "write"])
    BY <2>1 DEF AgentCall, TicketInv, Chosen
  <2>5. /\ ticket'[t] = [ticket[t] EXCEPT !.replies = ticket[t].replies + 1]
        /\ \A s \in Tickets \ {t} : ticket'[s] = ticket[s]
    BY <1>0, <2>3
  <2>6. /\ ticket'[t].status = ticket[t].status /\ ticket'[t].replies = ticket[t].replies + 1
        /\ ticket' \in [Tickets -> TicketRow]
    BY <1>0, <2>3, <2>5 DEF TicketRow
  <2>7. \A s \in Tickets : ticket'[s].status = ticket[s].status
    BY <1>0, <2>5, <2>6
  <2>8. /\ agent' \in [Agents -> {OffDuty} \cup AgentCall] /\ agent'[a] # OffDuty
        /\ agent'[a].ticket = t /\ Chosen(agent'[a])
        /\ \A b \in Agents \ {a} : agent'[b] = agent[b]
    BY <1>0, <2>1, <2>2, <2>3, <2>4 DEF AgentCall, OffDuty
  <2>9. ticket[t].status \in TicketStatus
    BY <2>1, <2>2 DEF TicketInv
  <2>11. \A b \in Agents : agent'[b] # OffDuty =>
            Chosen(agent'[b]) /\ ticket'[agent'[b].ticket].status \in TicketStatus
    <3>1. ASSUME NEW b \in Agents \ {a}, agent[b] # OffDuty
          PROVE  Chosen(agent[b]) /\ ticket'[agent[b].ticket].status \in TicketStatus
      <4>1. agent[b].ticket \in Tickets
        BY <1>0, <3>1 DEF AgentCall
      <4> QED
        BY <2>7, <3>1, <4>1 DEF TicketInv
    <3> QED
      BY <2>6, <2>8, <2>9, <3>1
  <2>12. \A s \in Tickets : Filed(s)' => ticket'[s].status \in TicketStatus
    BY <2>5, <2>6, <2>9 DEF TicketInv, Filed
  <2>13. TicketInv'
    BY <2>6, <2>8, <2>11, <2>12 DEF TicketInv
  <2>10. \A s \in Tickets : MovesOn(s)
    BY <2>7 DEF MovesOn, canMove
  <2> QED
    BY <2>10, <2>13 DEF TicketStep
<1>5. ASSUME NEW a \in Agents, WriteTicket(a) PROVE TicketInv' /\ TicketStep
  <2>1. agent[a] # OffDuty /\ agent[a] \in AgentCall /\ agent[a].pc = "write"
    BY <1>0, <1>5 DEF WriteTicket, OffDuty
  <2>2. PICK t \in Tickets : t = agent[a].ticket
    BY <2>1 DEF AgentCall
  <2>3. PICK to \in TicketStatus : to = agent[a].to
    BY <2>1 DEF AgentCall
  <2>4. /\ ticket' = [ticket EXCEPT ![t] = [ticket[t] EXCEPT !.status = to]]
        /\ agent' = [agent EXCEPT ![a] = OffDuty]
    BY <1>5, <2>2, <2>3 DEF WriteTicket
  <2>5. /\ ticket'[t].status = to /\ ticket'[t].replies = ticket[t].replies
        /\ \A s \in Tickets \ {t} : ticket'[s] = ticket[s]
        /\ ticket' \in [Tickets -> TicketRow]
        /\ agent'[a] = OffDuty
    BY <1>0, <2>4 DEF TicketRow
  <2>10. \A b \in Agents \ {a} : agent[b] # OffDuty =>
            agent[b].ticket \in Tickets /\ ticket'[agent[b].ticket].status \in TicketStatus
    BY <1>0, <2>3, <2>5 DEF TicketInv, AgentCall
  <2>11. agent' \in [Agents -> {OffDuty} \cup AgentCall] /\ \A b \in Agents \ {a} : agent'[b] = agent[b]
    BY <1>0, <2>4
  <2>6. TicketInv'
    BY <2>3, <2>5, <2>10, <2>11 DEF TicketInv, Filed
  <2>8. MovesOn(t)
    <3>1. Chosen(agent[a])
      BY <2>1 DEF TicketInv
    <3>2. ~canMove(ticket[t].status, to) => Overtaken(a) \/ (agent[a].sender = "staff" /\ to = "responding")
      BY <2>1, <2>2, <2>3, <3>1 DEF Chosen, Overtaken
    <3> QED
      BY <2>1, <2>2, <2>5, <3>2 DEF MovesOn
  <2>9. \A s \in Tickets : MovesOn(s)
    BY <2>5, <2>8 DEF MovesOn, canMove
  <2> QED
    BY <2>6, <2>9 DEF TicketStep
<1>6. ASSUME NEW a \in Agents, AgentFails(a) PROVE TicketInv' /\ TicketStep
  <2>1. ticket' = ticket /\ agent' = [agent EXCEPT ![a] = OffDuty]
    BY <1>6 DEF AgentFails
  <2>2. TicketInv'
    BY <2>1 DEF TicketInv, Filed
  <2> QED
    BY <2>1, <2>2, TicketAtRest
<1> QED
  BY <1>1, <1>2, <1>3, <1>4, <1>5, <1>6 DEF TicketNext

\* KYC: a row is rejected at most once, for it is not decided a second time.
Undecided == [legal : LegalIds, status : {"submitted", "under_review"}, rejects : {0}]
Decided == [legal : LegalIds, status : {"approved", "rejected"}, rejects : {0, 1}]
DraftRow == [legal : LegalIds, status : {"draft"}, rejects : {0}]
Submission == [pc : {"legal", "insert"}, user : Applicants, app : DraftRow]
Verdict == [pc : {"decide", "link"}, user : Applicants, verdict : {"approved", "rejected"}]
RejectsInv ==
  /\ app \in [Applicants -> {NoApp} \cup Undecided \cup Decided]
  /\ call \in [Officers -> {NoCall} \cup Submission \cup Verdict]
VerdictStands(u) ==
  /\ app[u].status \in {"approved", "rejected"} => app'[u].status \in {app[u].status, "none"}
  /\ app'[u].status # "none" => app'[u].rejects <= 1

LEMMA AppKinds ==
  ASSUME RejectsInv, NEW u \in Applicants
  PROVE  /\ app[u].status \in {"submitted", "under_review"} => app[u] \in Undecided
         /\ app[u].status # "none" => app[u] \in Undecided \cup Decided /\ app[u].rejects <= 1
         /\ app[u].status = "none" => app[u] = NoApp
  BY DEF RejectsInv, Undecided, Decided, NoApp

LEMMA AppsStay ==
  ASSUME RejectsInv, UNCHANGED app, call' \in [Officers -> {NoCall} \cup Submission \cup Verdict]
  PROVE  RejectsInv' /\ \A u \in Applicants : VerdictStands(u)
<1>1. \A u \in Applicants : VerdictStands(u)
  BY AppKinds DEF VerdictStands
<1> QED
  BY <1>1 DEF RejectsInv

\* A row is inserted or updated.
LEMMA AppChanges ==
  ASSUME RejectsInv, NEW u \in Applicants, NEW new \in Undecided \cup Decided,
         app' = [app EXCEPT ![u] = new],
         app[u].status \in {"approved", "rejected"} => new = app[u],
         call' \in [Officers -> {NoCall} \cup Submission \cup Verdict]
  PROVE  RejectsInv' /\ \A v \in Applicants : VerdictStands(v)
<1>1. /\ app'[u] = new /\ (\A v \in Applicants \ {u} : app'[v] = app[v]) /\ RejectsInv'
  BY DEF RejectsInv
<1>2. new.rejects <= 1
  BY DEF Undecided, Decided
<1>3. VerdictStands(u)
  BY <1>1, <1>2 DEF VerdictStands
<1>4. \A v \in Applicants \ {u} : VerdictStands(v)
  BY <1>1, AppKinds DEF VerdictStands
<1> QED
  BY <1>1, <1>3, <1>4

LEMMA CallsKept ==
  ASSUME RejectsInv, NEW w \in Officers
  PROVE  /\ CallEnds(w) => call' \in [Officers -> {NoCall} \cup Submission \cup Verdict]
         /\ CallIs(w, "legal") /\ CallTo(w, "insert") =>
              call' \in [Officers -> {NoCall} \cup Submission \cup Verdict]
         /\ CallIs(w, "decide") /\ CallTo(w, "link") =>
              call' \in [Officers -> {NoCall} \cup Submission \cup Verdict]
         /\ CallIs(w, "insert") => call[w] \in Submission
         /\ CallIs(w, "decide") => call[w] \in Verdict
<1>1. /\ call[w].pc \in {"legal", "insert"} => call[w] \in Submission
      /\ call[w].pc \in {"decide", "link"} => call[w] \in Verdict
  BY DEF RejectsInv, Submission, Verdict, NoCall
<1>2. CallEnds(w) => call' \in [Officers -> {NoCall} \cup Submission \cup Verdict]
  BY DEF CallEnds, RejectsInv
<1>3. ASSUME CallIs(w, "legal"), CallTo(w, "insert")
      PROVE  call' \in [Officers -> {NoCall} \cup Submission \cup Verdict]
  <2>1. call' = [call EXCEPT ![w] = [call[w] EXCEPT !.pc = "insert"]]
    BY <1>3 DEF CallTo
  <2>2. [call[w] EXCEPT !.pc = "insert"] \in Submission
    BY <1>1, <1>3 DEF CallIs, Submission
  <2> QED
    BY <2>1, <2>2 DEF RejectsInv
<1>4. ASSUME CallIs(w, "decide"), CallTo(w, "link")
      PROVE  call' \in [Officers -> {NoCall} \cup Submission \cup Verdict]
  <2>1. call' = [call EXCEPT ![w] = [call[w] EXCEPT !.pc = "link"]]
    BY <1>4 DEF CallTo
  <2>2. [call[w] EXCEPT !.pc = "link"] \in Verdict
    BY <1>1, <1>4 DEF CallIs, Verdict
  <2> QED
    BY <2>1, <2>2 DEF RejectsInv
<1> QED
  BY <1>1, <1>2, <1>3, <1>4 DEF CallIs

LEMMA RejectsStep ==
  ASSUME RejectsInv, KycNext
  PROVE  RejectsInv' /\ \A u \in Applicants : VerdictStands(u)
<1>1. ASSUME NEW w \in Officers, NEW in \in SubmitInput, SubmitKyc(w, in)
      PROVE  RejectsInv' /\ \A u \in Applicants : VerdictStands(u)
  <2> DEFINE c == [pc |-> "legal", user |-> in.user, app |-> EncryptInto(in)]
  <2>1. c \in Submission
    BY DEF Submission, DraftRow, EncryptInto, SubmitInput
  <2>2. call' = [call EXCEPT ![w] = c] /\ app' = app
    BY <1>1 DEF SubmitKyc
  <2> HIDE DEF c
  <2> QED
    BY <2>1, <2>2, AppsStay DEF RejectsInv
<1>2. ASSUME NEW w \in Officers, LookupLegal(w) \/ Link(w) \/ KycFails(w)
      PROVE  RejectsInv' /\ \A u \in Applicants : VerdictStands(u)
  BY <1>2, CallsKept, AppsStay DEF LookupLegal, Link, KycFails
<1>3. ASSUME NEW w \in Officers, NEW u \in Applicants, NEW verdict \in {"approved", "rejected"},
             ReviewKyc(w, u, verdict)
      PROVE  RejectsInv' /\ \A v \in Applicants : VerdictStands(v)
  <2> DEFINE c == [pc |-> "decide", user |-> u, verdict |-> verdict]
  <2>1. c \in Verdict
    BY DEF Verdict
  <2>2. call' = [call EXCEPT ![w] = c] /\ app' = app
    BY <1>3 DEF ReviewKyc
  <2> HIDE DEF c
  <2> QED
    BY <2>1, <2>2, AppsStay DEF RejectsInv
<1>4. ASSUME NEW w \in Officers, InsertApp(w)
      PROVE  RejectsInv' /\ \A u \in Applicants : VerdictStands(u)
  <2>1. call[w] \in Submission /\ call' \in [Officers -> {NoCall} \cup Submission \cup Verdict]
    BY <1>4, CallsKept DEF InsertApp
  <2>2. PICK u \in Applicants : u = call[w].user
    BY <2>1 DEF Submission
  <2>3. PICK new \in Undecided : new = [call[w].app EXCEPT !.status = "submitted"]
    BY <2>1 DEF Submission, DraftRow, Undecided
  <2>4. CASE UNCHANGED app
    BY <2>1, <2>4, AppsStay
  <2>5. CASE ~Refused(u) /\ app' = [app EXCEPT ![u] = new]
    <3>1. app[u].status = "none"
      BY <2>5 DEF Refused, Exists
    <3> QED
      BY <2>1, <2>5, <3>1, AppChanges
  <2> QED
    BY <1>4, <2>2, <2>3, <2>4, <2>5 DEF InsertApp
<1>5. ASSUME NEW w \in Officers, Decide(w)
      PROVE  RejectsInv' /\ \A u \in Applicants : VerdictStands(u)
  <2>1. call[w] \in Verdict /\ call' \in [Officers -> {NoCall} \cup Submission \cup Verdict]
    BY <1>5, CallsKept DEF Decide
  <2>2. PICK u \in Applicants : u = call[w].user
    BY <2>1 DEF Verdict
  <2>3. PICK new : /\ UpdateApp(u, new)
                   /\ \/ app[u].status \notin {"submitted", "under_review"} /\ new = app[u]
                      \/ /\ app[u].status \in {"submitted", "under_review"}
                         /\ \/ new = [app[u] EXCEPT !.status = "approved"]
                            \/ new = [app[u] EXCEPT !.status = "rejected", !.rejects = app[u].rejects + 1]
    BY <1>5, <2>2 DEF Decide
  <2>4. app' = [app EXCEPT ![u] = new] /\ app[u].status # "none"
    BY <2>3 DEF UpdateApp, Exists
  <2>5. new \in Undecided \cup Decided
    <3>1. CASE app[u].status \in {"submitted", "under_review"}
      <4>1. app[u] \in Undecided /\ app[u].rejects = 0
        BY <3>1, AppKinds DEF Undecided
      <4>2. CASE new = [app[u] EXCEPT !.status = "approved"]
        BY <4>1, <4>2 DEF Undecided, Decided
      <4>3. CASE new = [app[u] EXCEPT !.status = "rejected", !.rejects = app[u].rejects + 1]
        <5>1. new = [app[u] EXCEPT !.status = "rejected", !.rejects = 1]
          BY <4>1, <4>3
        <5> QED
          BY <4>1, <5>1 DEF Undecided, Decided
      <4> QED
        BY <2>3, <3>1, <4>2, <4>3
    <3>2. CASE app[u].status \notin {"submitted", "under_review"}
      BY <2>3, <2>4, <3>2, AppKinds
    <3> QED
      BY <3>1, <3>2
  <2> QED
    BY <2>1, <2>3, <2>4, <2>5, AppChanges
<1>6. ASSUME NEW u \in Applicants, MarkUnderReview(u)
      PROVE  RejectsInv' /\ \A v \in Applicants : VerdictStands(v)
  <2>1. /\ app[u].status = "submitted" /\ app' = [app EXCEPT ![u] = [app[u] EXCEPT !.status = "under_review"]]
        /\ call' = call
    BY <1>6 DEF MarkUnderReview, UpdateApp
  <2>2. PICK new \in Undecided : new = [app[u] EXCEPT !.status = "under_review"]
    BY <2>1, AppKinds DEF Undecided
  <2> QED
    BY <2>1, <2>2, AppChanges DEF RejectsInv
<1>7. ASSUME NEW batch \in SUBSET Applicants, PurgeColdExpired(batch)
      PROVE  RejectsInv' /\ \A u \in Applicants : VerdictStands(u)
  <2>1. /\ app' = [u \in Applicants |-> IF u \in batch THEN NoApp ELSE app[u]]
        /\ call' = [w \in Officers |-> IF CallIs(w, "decide") /\ call[w].user \in batch THEN NoCall ELSE call[w]]
    BY <1>7 DEF PurgeColdExpired
  <2>2. RejectsInv'
    BY <2>1 DEF RejectsInv
  <2>3. \A u \in Applicants : app'[u] = NoApp \/ app'[u] = app[u]
    BY <2>1
  <2>4. NoApp.status = "none"
    BY DEF NoApp
  <2> QED
    BY <2>2, <2>3, <2>4, AppKinds DEF VerdictStands
<1> QED
  BY <1>1, <1>2, <1>3, <1>4, <1>5, <1>6, <1>7 DEF KycNext

\* Staff: whoever is about to change a role has been a super_admin and had
\* stepped up when it was checked, and no later step-up ends earlier.
MemberRow == [role : Roles \cup {"none"}, status : {"none", "active", "barred"}, elevated : Nat]
RoleChange == [pc : {"write"}, of : Members, role : Roles, at : Nat]
StaffShape ==
  /\ member \in [Members -> MemberRow] /\ minute \in Nat \ {0}
  /\ change \in [Members -> {NoChange} \cup RoleChange]
  /\ promoted \subseteq Members
NotAhead == \A s \in Members : member[s].elevated <= minute + StepUpWindow
Ranked == \A s \in Members : member[s].role = "super_admin" \/ IsSuper(s) => s \in promoted
Entitled ==
  \A a \in Members : change[a] # NoChange =>
    a \in promoted /\ change[a].at <= member[a].elevated
RolesInv == StaffShape /\ NotAhead /\ Ranked /\ Entitled
RoleBacked(s) ==
  member[s] # NotHired /\ member'[s].role # member[s].role =>
    \E a \in promoted :
      /\ change[a] # NoChange /\ change'[a] = NoChange /\ change[a].of = s
      /\ change[a].at <= member[a].elevated
RolesGoOn == RolesInv' /\ \A t \in Members : RoleBacked(t)

\* A row of a member is written, by a call that had a change behind its check or
\* without a word about roles.
LEMMA MemberWritten ==
  ASSUME RolesInv, NEW s \in Members, NEW m \in MemberRow, member' = [member EXCEPT ![s] = m],
         UNCHANGED <<minute, badge>>, promoted' \in {promoted, promoted \cup {s}},
         m.role = "super_admin" => s \in promoted',
         m.elevated <= minute + StepUpWindow, m.elevated >= member[s].elevated,
         change' = change \/ \E a \in Members : change' = [change EXCEPT ![a] = NoChange],
         \/ member[s] = NotHired \/ m.role = member[s].role
         \/ \E a \in Members : change[a] # NoChange /\ change'[a] = NoChange /\ change[a].of = s
  PROVE  RolesGoOn
<1>0. StaffShape
  BY DEF RolesInv
<1>1. /\ member' \in [Members -> MemberRow] /\ member'[s] = m
      /\ \A t \in Members \ {s} : member'[t] = member[t]
  BY <1>0 DEF StaffShape
<1>2. \A t \in Members : member[t].elevated \in Nat /\ member'[t].elevated \in Nat
  BY <1>0, <1>1 DEF StaffShape, MemberRow
<1>3. \A t \in Members : /\ member'[t].elevated <= minute + StepUpWindow
                         /\ member'[t].elevated >= member[t].elevated
  <2>1. ASSUME NEW t \in Members PROVE member'[t].elevated <= minute + StepUpWindow
                                       /\ member'[t].elevated >= member[t].elevated
    <3>1. CASE t = s
      BY <1>1, <3>1
    <3>2. CASE t # s
      BY <1>1, <1>2, <3>2 DEF RolesInv, NotAhead
    <3> QED
      BY <3>1, <3>2
  <2> QED
    BY <2>1
<1>4. /\ change' \in [Members -> {NoChange} \cup RoleChange]
      /\ \A a \in Members : change'[a] \in {change[a], NoChange}
  BY <1>0 DEF StaffShape
<1>5. StaffShape' /\ NotAhead'
  BY <1>0, <1>1, <1>3, <1>4 DEF StaffShape, NotAhead
<1>6. Ranked'
  BY <1>0, <1>1 DEF StaffShape, RolesInv, Ranked, IsSuper
<1>7. Entitled'
  <2>1. SUFFICES ASSUME NEW a \in Members, change'[a] # NoChange
                 PROVE  a \in promoted' /\ change'[a].at <= member'[a].elevated
    BY DEF Entitled
  <2>2. change'[a] = change[a] /\ change[a] # NoChange
    BY <1>4, <2>1
  <2>3. change[a] \in RoleChange
    BY <1>0, <2>2 DEF StaffShape
  <2>4. change[a].at \in Nat /\ change[a].at <= member[a].elevated /\ a \in promoted
    BY <2>2, <2>3 DEF RoleChange, RolesInv, Entitled
  <2> QED
    BY <1>2, <1>3, <2>2, <2>4
<1>8. \A t \in Members : RoleBacked(t)
  BY <1>1 DEF RoleBacked, RolesInv, Entitled
<1> QED
  BY <1>5, <1>6, <1>7, <1>8 DEF RolesInv, RolesGoOn

LEMMA RolesStep ==
  ASSUME RolesInv, StaffNext
  PROVE  RolesGoOn
<1>0. /\ StaffShape /\ StepUpWindow \in Nat /\ minute \in Nat \ {0}
      /\ member \in [Members -> MemberRow] /\ change \in [Members -> {NoChange} \cup RoleChange]
  BY StaffAssumption DEF RolesInv, StaffShape
<1>1. ASSUME NEW a \in Members, NEW s \in Members, NEW role \in Roles, CreateStaff(a, s, role)
      PROVE  RolesGoOn
  <2> DEFINE m == [role |-> role, status |-> "active", elevated |-> Never]
  <2>1. m \in MemberRow /\ m.elevated = 0 /\ m.role = role
    BY DEF MemberRow, Never
  <2>2. /\ member' = [member EXCEPT ![s] = m] /\ UNCHANGED <<minute, badge, change>>
        /\ member[s] = NotHired /\ member[s].elevated = 0
        /\ promoted' \in {promoted, promoted \cup {s}} /\ (role = "super_admin" => s \in promoted')
    BY <1>1 DEF CreateStaff, NotHired, Never, Promote
  <2> HIDE DEF m
  <2>3. m.elevated <= minute + StepUpWindow /\ m.elevated >= member[s].elevated
    BY <1>0, <2>1, <2>2
  <2> QED
    BY <2>1, <2>2, <2>3, MemberWritten
<1>2. ASSUME NEW a \in Members, NEW s \in Members, NEW role \in Roles, SetRole(a, s, role)
      PROVE  RolesGoOn
  <2> DEFINE c == [pc |-> "write", of |-> s, role |-> role, at |-> minute]
  <2>1. c \in RoleChange /\ c.at = minute
    BY <1>0 DEF RoleChange
  <2>2. /\ change' = [change EXCEPT ![a] = c] /\ UNCHANGED <<member, minute, badge, promoted>>
        /\ minute <= member[a].elevated /\ a \in promoted
    BY <1>2 DEF SetRole, ToWrite, Elevated, RolesInv, Ranked
  <2> HIDE DEF c
  <2>3. StaffShape'
    BY <1>0, <2>1, <2>2 DEF StaffShape
  <2>4. Entitled'
    BY <1>0, <2>1, <2>2 DEF RolesInv, Entitled
  <2>5. RolesInv'
    BY <2>2, <2>3, <2>4 DEF RolesInv, NotAhead, Ranked, IsSuper
  <2> QED
    BY <2>2, <2>5 DEF RoleBacked, RolesGoOn
<1>3. ASSUME NEW a \in Members, WriteRole(a) PROVE RolesGoOn
  <2>1. /\ change[a] \in RoleChange /\ change[a] # NoChange /\ UNCHANGED <<minute, badge>>
        /\ change' = [change EXCEPT ![a] = NoChange]
    BY <1>0, <1>3 DEF WriteRole
  <2>2. PICK s \in Members : s = change[a].of
    BY <2>1 DEF RoleChange
  <2>7. PICK role \in Roles : role = change[a].role
    BY <2>1 DEF RoleChange
  <2>3. /\ member' = [member EXCEPT ![s] = [member[s] EXCEPT !.role = role]]
        /\ promoted' \in {promoted, promoted \cup {s}} /\ (role = "super_admin" => s \in promoted')
    BY <1>3, <2>2, <2>7 DEF WriteRole, Promote
  <2>4. PICK m \in MemberRow : m = [member[s] EXCEPT !.role = role]
    BY <1>0, <2>7 DEF MemberRow
  <2>5. m.elevated = member[s].elevated /\ m.elevated \in Nat /\ m.role = role
    BY <1>0, <2>4 DEF MemberRow
  <2>6. m.elevated <= minute + StepUpWindow /\ m.elevated >= member[s].elevated
    BY <2>5 DEF RolesInv, NotAhead
  <2>8. change'[a] = NoChange
    BY <1>0, <2>1
  <2> QED
    BY <2>1, <2>2, <2>3, <2>4, <2>5, <2>6, <2>8, MemberWritten
<1>4. ASSUME NEW a \in Members, NEW s \in Members, NEW status \in {"active", "barred"}, SetStatus(a, s, status)
      PROVE  RolesGoOn
  <2>1. /\ member' = [member EXCEPT ![s] = [member[s] EXCEPT !.status = status]]
        /\ UNCHANGED <<minute, badge, change, promoted>>
    BY <1>4 DEF SetStatus
  <2>2. PICK m \in MemberRow : m = [member[s] EXCEPT !.status = status]
    BY <1>0 DEF MemberRow
  <2>3. m.elevated = member[s].elevated /\ m.elevated \in Nat /\ m.role = member[s].role
    BY <1>0, <2>2 DEF MemberRow
  <2>4. m.elevated <= minute + StepUpWindow /\ m.elevated >= member[s].elevated
    BY <2>3 DEF RolesInv, NotAhead
  <2>5. m.role = "super_admin" => s \in promoted
    BY <2>3 DEF RolesInv, Ranked
  <2> QED
    BY <2>1, <2>2, <2>3, <2>4, <2>5, MemberWritten
<1>5. ASSUME NEW s \in Members, MarkStepUpPassed(s) PROVE RolesGoOn
  <2>1. /\ member' = [member EXCEPT ![s] = [member[s] EXCEPT !.elevated = minute + StepUpWindow]]
        /\ UNCHANGED <<minute, badge, change, promoted>>
    BY <1>5 DEF MarkStepUpPassed
  <2>5. PICK e \in Nat : e = minute + StepUpWindow
    BY <1>0
  <2>2. PICK m \in MemberRow : m = [member[s] EXCEPT !.elevated = minute + StepUpWindow]
    BY <1>0, <2>5 DEF MemberRow
  <2>3. m.elevated = minute + StepUpWindow /\ m.role = member[s].role
    BY <1>0, <2>2 DEF MemberRow
  <2>4. m.elevated <= minute + StepUpWindow /\ m.elevated >= member[s].elevated
    BY <1>0, <2>3 DEF RolesInv, NotAhead
  <2>6. m.role = "super_admin" => s \in promoted
    BY <2>3 DEF RolesInv, Ranked
  <2> QED
    BY <2>1, <2>2, <2>3, <2>4, <2>6, MemberWritten
<1>6. CASE Minute
  <2>1. minute' = minute + 1 /\ UNCHANGED <<member, badge, change, promoted>>
    BY <1>6 DEF Minute
  <2>2. \A s \in Members : member[s].elevated \in Nat /\ member[s].elevated <= minute + StepUpWindow
    BY <1>0 DEF RolesInv, NotAhead, MemberRow
  <2>3. minute' \in Nat \ {0} /\ \A s \in Members : member'[s].elevated <= minute' + StepUpWindow
    BY <1>0, <2>1, <2>2
  <2>4. RolesInv'
    BY <1>0, <2>1, <2>3 DEF RolesInv, StaffShape, NotAhead, Ranked, IsSuper, Entitled
  <2> QED
    BY <2>1, <2>4 DEF RoleBacked, RolesGoOn
<1>7. ASSUME NEW s \in Members, BadgeIssued(s) PROVE RolesGoOn
  <2>1. UNCHANGED <<member, minute, change, promoted>> /\ badge' = [badge EXCEPT ![s] = member[s].role]
    BY <1>7 DEF BadgeIssued
  <2>2. \A t \in Members : badge'[t] = "super_admin" => t \in promoted
    BY <2>1 DEF RolesInv, Ranked, IsSuper
  <2>3. RolesInv'
    BY <2>1, <2>2 DEF RolesInv, StaffShape, NotAhead, Ranked, IsSuper, Entitled
  <2> QED
    BY <2>1, <2>3 DEF RoleBacked, RolesGoOn
<1> QED
  BY <1>1, <1>2, <1>3, <1>4, <1>5, <1>6, <1>7 DEF StaffNext

LEMMA RolesBegin == Init => RolesInv
  BY StaffAssumption
  DEF Init, StaffInit, RolesInv, StaffShape, NotAhead, Ranked, Entitled, IsSuper, MemberRow, Roles, Never,
      NotHired

LEMMA RolesRest == RolesInv /\ UNCHANGED staffVars => RolesInv'
  BY DEF staffVars, RolesInv, StaffShape, NotAhead, Ranked, Entitled, IsSuper

LEMMA MovesFrame ==
  [Next]_vars =>
    /\ TicketNext \/ UNCHANGED ticketVars
    /\ KycNext \/ UNCHANGED kycVars
    /\ StaffNext \/ UNCHANGED staffVars
  BY DEF Next, vars

\* For any rows, calls at a time and faults: invoices, tickets and applications
\* move as their tables allow, but for calls that overlapped and replies of the
\* staff; nobody is rejected twice, and a role changes only by one who has been a
\* super_admin, behind a step-up (invoice.go:253, ticket.go:194, kyc.go:206,
\* staff.go:191).
THEOREM StatusMovesCorrect == Spec => StatusMoves
<1>1. Init => InvoiceInv /\ TicketInv /\ RejectsInv /\ RolesInv
  <2> SUFFICES ASSUME Init PROVE InvoiceInv /\ TicketInv /\ RejectsInv /\ RolesInv
    OBVIOUS
  <2>1. InvoiceInv
    BY DEF Init, InvoiceInit, InvoiceInv, InvoiceShape, InvoiceStatus, InvoiceMoves, Whole, Carries,
           Was, On, Single
  <2>2. TicketInv
    BY DEF Init, TicketInit, TicketInv, TicketRow, NoTicket, Filed
  <2>3. RejectsInv
    BY DEF Init, KycInit, RejectsInv
  <2>4. RolesInv
    BY RolesBegin
  <2> QED
    BY <2>1, <2>2, <2>3, <2>4
<1>2. InvoiceInv /\ [Next]_vars => InvoiceInv' /\ \A i \in Invoices : InvoiceAdvance(i)
  <2>1. InvoiceInv /\ UNCHANGED invoiceVars => InvoiceInv' /\ \A i \in Invoices : InvoiceAdvance(i)
    BY DEF invoiceVars, InvoiceInv, InvoiceShape, Whole, Carries, Warranted, Single, Fits, Was, On,
           Handles, Completed, InvoiceAdvance
  <2> QED
    BY <2>1, InvoiceFrame, InvoiceStepInv, InvoiceAdvancesStep
<1>3. TicketInv /\ [Next]_vars => TicketInv' /\ TicketStep
  <2>1. ASSUME TicketInv, UNCHANGED ticketVars PROVE TicketInv' /\ TicketStep
    BY <2>1, TicketAtRest DEF ticketVars, TicketInv, Filed
  <2> QED
    BY <2>1, MovesFrame, TicketStepInv
<1>4. RejectsInv /\ [Next]_vars => RejectsInv' /\ \A u \in Applicants : VerdictStands(u)
  <2>1. ASSUME RejectsInv, UNCHANGED kycVars PROVE RejectsInv' /\ \A u \in Applicants : VerdictStands(u)
    BY <2>1, AppsStay DEF kycVars, RejectsInv
  <2> QED
    BY <2>1, MovesFrame, RejectsStep
<1>5. RolesInv /\ [Next]_vars => RolesInv' /\ \A s \in Members : RoleBacked(s)
  <2>1. ASSUME RolesInv, UNCHANGED staffVars PROVE RolesGoOn
    BY <2>1, RolesRest DEF RolesGoOn, staffVars, RoleBacked
  <2> QED
    BY <2>1, MovesFrame, RolesStep DEF RolesGoOn
<1>6. Spec => InvoiceAdvances
  <2>1. (\A i \in Invoices : InvoiceAdvance(i)) =>
          [\A i \in Invoices :
             LET was == invoice[i].status IN
             invoice'[i].status # was =>
               \/ was = "none" \/ MayMove(was, invoice'[i].status)
               \/ i \in tangled']_invoiceVars
    BY DEF InvoiceAdvance
  <2> QED
    BY <1>1, <1>2, <2>1, PTL DEF Spec, InvoiceAdvances
<1>7. Spec => TicketMovesOn
  <2>1. TicketStep =>
          \A t \in Tickets :
            Filed(t) /\ ~canMove(ticket[t].status, ticket'[t].status) =>
              \E a \in Agents :
                /\ agent[a].pc = "write" /\ agent'[a] = OffDuty /\ agent[a].ticket = t
                /\ Overtaken(a) \/ (agent[a].sender = "staff" /\ ticket'[t].status = "responding")
    BY DEF TicketStep, MovesOn
  <2> QED
    BY <1>1, <1>3, <2>1, PTL DEF Spec, TicketMovesOn
<1>8. Spec => NotFrozen
  <2>1. (\A u \in Applicants : VerdictStands(u)) =>
          \A u \in Applicants :
            /\ app[u].status \in {"approved", "rejected"} => app'[u].status \in {app[u].status, "none"}
            /\ Exists(u)' => app'[u].rejects <= 1
    BY DEF VerdictStands, Exists
  <2> QED
    BY <1>1, <1>4, <2>1, PTL DEF Spec, NotFrozen
<1>9. Spec => RoleNeedsStepUp
  <2>1. (\A s \in Members : RoleBacked(s)) =>
          \A s \in Members :
            member[s] # NotHired /\ member'[s].role # member[s].role =>
              \E a \in promoted :
                /\ change[a] # NoChange /\ change'[a] = NoChange /\ change[a].of = s
                /\ change[a].at <= member[a].elevated
    BY DEF RoleBacked
  <2> QED
    BY <1>1, <1>5, <2>1, PTL DEF Spec, RoleNeedsStepUp
<1> QED
  BY <1>6, <1>7, <1>8, <1>9 DEF StatusMoves
=============================================================================
