----------------------------- MODULE AuditProofs -----------------------------
(* Theorems about AuditSeal for every number of sealers, batch size, buffer *)
(* and bound on faults.                                                     *)
EXTENDS AuditSeal, Integers, FiniteSetTheorems, WellFoundedInduction, TLAPS

USE AuditAssumption DEF Ids, Chained, Committed, IdleSink, Down, Store, GiveUp

-----------------------------------------------------------------------------
(* Every variable keeps its shape.                                         *)

LEMMA SinkType ==
  ASSUME TypeOK, NEW w \in Pods, NEW queued \in 0 .. Buffer, NEW try \in 0 .. Retries,
         NEW id \in 0 .. MaxId,
         SetSink(w, queued, try, id)
  PROVE  sink' \in [Pods -> [queued : 0 .. Buffer, try : 0 .. Retries, id : 0 .. MaxId]]
  BY DEF TypeOK, SetSink

SealerType == sealer \in [Sealers -> [pc : {"down", "idle", "fetched", "hashed", "appended"},
                                      rows : SUBSET (1 .. MaxId), prev : 0 .. MaxId]]

LEMMA SealerTypeStep ==
  ASSUME TypeOK, NEW p \in Sealers,
         NEW pc \in {"down", "idle", "fetched", "hashed", "appended"},
         NEW rows \in SUBSET (1 .. MaxId), NEW prev \in 0 .. MaxId,
         SetSealer(p, pc, rows, prev)
  PROVE  SealerType'
  BY DEF TypeOK, SealerType, SetSealer

-----------------------------------------------------------------------------
(* The greatest element of a set below a bound.                            *)

LEMMA Least ==
  ASSUME NEW T \in SUBSET Nat, T # {}
  PROVE  \E x \in T : \A y \in T : x <= y
<1> DEFINE R == {p \in Nat \X Nat : p[1] < p[2]}
<1>1. IsWellFoundedOn(R, Nat)
  BY NatLessThanWellFounded DEF OpToRel
<1>2. PICK x \in T : \A y \in T : <<y, x>> \notin R
  <2> HIDE DEF R
  <2>1. \E x \in T : \A y \in T : ~ (<<y, x>> \in R)
    BY <1>1, WFMin
  <2> QED
    BY <2>1
<1>3. \A y \in T : x \in Nat /\ y \in Nat /\ ~ (y < x)
  BY <1>2
<1> QED
  BY <1>3

\* Last of a nonempty set of ids is its maximum.
LEMMA LastIsMax ==
  ASSUME NEW T \in SUBSET (1 .. MaxId), T # {}
  PROVE  Last(T) \in T /\ \A k \in T : k <= Last(T)
<1> DEFINE D == {MaxId - k : k \in T}
<1>0. \A k \in T : MaxId - k \in Nat
  OBVIOUS
<1>1. D \in SUBSET Nat /\ D # {}
  BY <1>0
<1>2. PICK d \in D : \A e \in D : d <= e
  <2> HIDE DEF D
  <2> QED
    BY <1>1, Least
<1>3. PICK m \in T : d = MaxId - m
  BY <1>2
<1>4. \A k \in T : k <= m
  BY <1>2, <1>3
<1> QED
  BY <1>4 DEF Last

LEMMA LastUnique ==
  ASSUME NEW T \in SUBSET (1 .. MaxId), NEW m \in T, \A k \in T : k <= m
  PROVE  Last(T) = m
<1>1. T # {} /\ Last(T) \in T /\ \A k \in T : k <= Last(T)
  BY LastIsMax
<1>2. m \in 1 .. MaxId /\ Last(T) \in 1 .. MaxId
  BY <1>1
<1>3. m <= Last(T) /\ Last(T) <= m
  BY <1>1
<1> QED
  BY <1>2, <1>3

LEMMA LastType ==
  ASSUME NEW T \in SUBSET (1 .. MaxId)
  PROVE  Last(T) \in 0 .. MaxId
<1>1. CASE T = {}
  <2>1. Last(T) = 0
    BY <1>1 DEF Last
  <2> QED
    BY <2>1
<1>2. CASE T # {}
  <2>1. Last(T) \in 1 .. MaxId
    BY <1>2, LastIsMax
  <2> QED
    BY <2>1
<1> QED
  BY <1>1, <1>2

LEMMA TypeStep == TypeOK /\ [Next]_vars => TypeOK'
<1> SUFFICES ASSUME TypeOK, [Next]_vars PROVE TypeOK'
  OBVIOUS
<1> USE DEF TypeOK, Fault, NoFault, Work, Count, Busy, Load
<1>1. ASSUME NEW w \in Pods, Send(w) PROVE TypeOK'
  BY <1>1, SinkType DEF Send
<1>2. ASSUME NEW w \in Pods, Take(w) PROVE TypeOK'
  <2>1. sink[w].queued - 1 \in 0 .. Buffer
    BY <1>2 DEF Take
  <2> QED
    BY <1>2, <2>1, SinkType DEF Take
<1>3. ASSUME NEW w \in Pods, Insert(w) PROVE TypeOK'
  BY <1>3, SinkType DEF Insert
<1>4. ASSUME NEW w \in Pods, CommitInsert(w) PROVE TypeOK'
  <2>1. sink[w].id \in 0 .. MaxId /\ sink[w].id > 0
    BY <1>4 DEF CommitInsert
  <2>2. sink[w].id \in 1 .. MaxId /\ sink[w].queued \in 0 .. Buffer
    BY <2>1
  <2>3. sink' \in [Pods -> [queued : 0 .. Buffer, try : 0 .. Retries, id : 0 .. MaxId]]
    BY <1>4, <2>2, SinkType DEF CommitInsert
  <2> QED
    BY <1>4, <2>2, <2>3 DEF CommitInsert
<1>5. ASSUME NEW w \in Pods, InsertFails(w) PROVE TypeOK'
  <2>1. sink[w].try \in 0 .. Retries /\ Retries \in Nat
    OBVIOUS
  <2>2. sink[w].try < Retries => sink[w].try + 1 \in 0 .. Retries
    BY <2>1
  <2>3. {sink[w].id} \ {0} \subseteq 1 .. MaxId
    OBVIOUS
  <2>4. adrift' \subseteq 1 .. MaxId
    BY <1>5, <2>3 DEF InsertFails
  <2>5. sink' \in [Pods -> [queued : 0 .. Buffer, try : 0 .. Retries, id : 0 .. MaxId]]
    BY <1>5, <2>2, SinkType DEF InsertFails
  <2> QED
    BY <1>5, <2>4, <2>5 DEF InsertFails
<1>6. ASSUME NEW w \in Pods, PodStops(w) PROVE TypeOK'
  <2>1. sink[w].queued + Busy(w) \in Nat
    OBVIOUS
  <2>2. tally' \in [sent : 0 .. MaxSent, dropped : Nat, lost : Nat]
    BY <1>6, <2>1 DEF PodStops
  <2>3. {sink[w].id} \ {0} \subseteq 1 .. MaxId
    OBVIOUS
  <2>4. adrift' \subseteq 1 .. MaxId
    BY <1>6, <2>3 DEF PodStops
  <2>5. sink' \in [Pods -> [queued : 0 .. Buffer, try : 0 .. Retries, id : 0 .. MaxId]]
    BY <1>6, SinkType DEF PodStops
  <2> QED
    BY <1>6, <2>2, <2>4, <2>5 DEF PodStops
<1>7. ASSUME NEW p \in Sealers, Start(p) PROVE TypeOK'
  <2>1. SealerType'
    BY <1>7, SealerTypeStep DEF Start
  <2> QED
    BY <1>7, <2>1 DEF Start, SealerType
<1>8. ASSUME NEW p \in Sealers, Fetch(p) PROVE TypeOK'
  <2>1. SealerType'
    BY <1>8, SealerTypeStep DEF Fetch
  <2> QED
    BY <1>8, <2>1 DEF Fetch, SealerType
<1>9. ASSUME NEW p \in Sealers, ReadLast(p) PROVE TypeOK'
  <2>1. Last(DOMAIN sealed) \in 0 .. MaxId
    BY LastType
  <2>2. SealerType'
    BY <1>9, <2>1, SealerTypeStep DEF ReadLast
  <2> QED
    BY <1>9, <2>2 DEF ReadLast, SealerType
<1>10. ASSUME NEW p \in Sealers, Append(p) PROVE TypeOK'
  <2>1. sealer[p].rows \subseteq 1 .. MaxId /\ sealer[p].prev \in 0 .. MaxId
    OBVIOUS
  <2>2. \A i \in sealer[p].rows : Link(i, sealer[p].rows, sealer[p].prev) \in 0 .. MaxId
    BY <2>1, LastType DEF Link, Below
  <2>3. SealerType'
    BY <1>10, <2>1, SealerTypeStep DEF Append
  <2> QED
    BY <1>10, <2>1, <2>2, <2>3 DEF Append, SealerType
<1>11. ASSUME NEW p \in Sealers, Delete(p) PROVE TypeOK'
  <2>1. SealerType'
    BY <1>11, SealerTypeStep DEF Delete
  <2> QED
    BY <1>11, <2>1 DEF Delete, SealerType
<1>12. ASSUME NEW p \in Sealers, Exit(p), NoFault \/ Fault PROVE TypeOK'
  <2>1. SealerType'
    BY <1>12, SealerTypeStep DEF Exit
  <2> QED
    BY <1>12, <2>1 DEF Exit, SealerType
<1>13. ASSUME NEW p \in Sealers, SealerCrash(p) PROVE TypeOK'
  <2>1. SealerType'
    BY <1>13, SealerTypeStep DEF SealerCrash
  <2> QED
    BY <1>13, <2>1 DEF SealerCrash, SealerType
<1>14. ASSUME NEW i \in adrift, CommitAdrift(i) PROVE TypeOK'
  BY <1>14 DEF CommitAdrift
<1>15. CASE LeaseExpires
  BY <1>15 DEF LeaseExpires
<1>16. CASE UNCHANGED vars
  BY <1>16 DEF vars
<1> QED
  BY <1>1, <1>2, <1>3, <1>4, <1>5, <1>6, <1>7, <1>8, <1>9, <1>10, <1>11, <1>12,
     <1>13, <1>14, <1>15, <1>16 DEF Next, Worker, SealOnce, DuplicateKey, DatabaseError

-----------------------------------------------------------------------------
(* Nothing is lost: a batch about to be deleted is in the chain.           *)

Holds(p) == sealer[p].pc = "appended" => sealer[p].rows \subseteq Chained

LossInv == TypeOK /\ \A p \in Sealers : Holds(p)

\* A step of p leaves the other sealers as they are.
Others(p) == \A q \in Sealers \ {p} : sealer'[q] = sealer[q]

LEMMA LossStep == LossInv /\ [Next]_vars => LossInv' /\ Committed \subseteq Committed'
<1> SUFFICES ASSUME LossInv, [Next]_vars PROVE LossInv' /\ Committed \subseteq Committed'
  OBVIOUS
<1>0. TypeOK /\ TypeOK' /\ \A p \in Sealers : Holds(p)
  BY TypeStep DEF LossInv
<1> USE <1>0
<1>a. ASSUME NEW p \in Sealers, NEW pc \in {"down", "idle", "fetched", "hashed", "appended"},
             NEW rows, NEW prev, SetSealer(p, pc, rows, prev),
             DOMAIN sealed \subseteq DOMAIN sealed',
             pc = "appended" => rows \subseteq DOMAIN sealed'
      PROVE  LossInv'
  <2>1. ASSUME NEW q \in Sealers PROVE Holds(q)'
    BY <1>a DEF SetSealer, Holds, TypeOK
  <2> QED
    BY <2>1 DEF LossInv
<1>b. ASSUME UNCHANGED sealer, DOMAIN sealed \subseteq DOMAIN sealed' PROVE LossInv'
  BY <1>b DEF LossInv, Holds
<1>1. ASSUME NEW w \in Pods,
             Send(w) \/ Take(w) \/ Insert(w) \/ CommitInsert(w) \/ InsertFails(w) \/ PodStops(w)
      PROVE  LossInv' /\ Committed \subseteq Committed'
  <2>1. UNCHANGED <<sealer, sealed>> /\ unsealed \subseteq unsealed'
    BY <1>1 DEF Send, Take, Insert, CommitInsert, InsertFails, PodStops
  <2> QED
    BY <1>b, <2>1
<1>2. ASSUME NEW p \in Sealers, Start(p) \/ Fetch(p) \/ ReadLast(p) \/ Exit(p) \/ SealerCrash(p)
      PROVE  LossInv' /\ Committed \subseteq Committed'
  <2>1. UNCHANGED <<sealed, unsealed>>
    BY <1>2 DEF Start, Fetch, ReadLast, Exit, SealerCrash
  <2>2. \E pc \in {"down", "idle", "fetched", "hashed"} :
          \E rows, prev : SetSealer(p, pc, rows, prev)
    BY <1>2 DEF Start, Fetch, ReadLast, Exit, SealerCrash
  <2> QED
    BY <1>a, <2>1, <2>2
<1>3. ASSUME NEW p \in Sealers, Append(p) PROVE LossInv' /\ Committed \subseteq Committed'
  <2>1. DOMAIN sealed' = DOMAIN sealed \cup sealer[p].rows /\ unsealed' = unsealed
    BY <1>3 DEF Append
  <2> QED
    BY <1>3, <1>a, <2>1 DEF Append
<1>4. ASSUME NEW p \in Sealers, Delete(p) PROVE LossInv' /\ Committed \subseteq Committed'
  <2>1. sealer[p].rows \subseteq DOMAIN sealed
    BY <1>4 DEF Delete, Work, Holds
  <2>2. unsealed' = unsealed \ sealer[p].rows /\ sealed' = sealed
    BY <1>4 DEF Delete
  <2>3. Committed \subseteq Committed'
    BY <2>1, <2>2
  <2> QED
    BY <1>4, <1>a, <2>2, <2>3 DEF Delete
<1>5. CASE LeaseExpires \/ UNCHANGED vars
  BY <1>5, <1>b DEF LeaseExpires, vars
<1>6. ASSUME NEW i \in adrift, CommitAdrift(i) PROVE LossInv' /\ Committed \subseteq Committed'
  <2>1. UNCHANGED <<sealer, sealed>> /\ unsealed \subseteq unsealed'
    BY <1>6 DEF CommitAdrift
  <2> QED
    BY <1>b, <2>1
<1> QED
  BY <1>1, <1>2, <1>3, <1>4, <1>5, <1>6
  DEF Next, Worker, SealOnce, DuplicateKey, DatabaseError

-----------------------------------------------------------------------------
(* Nothing is lost silently.  An event in a sink is counted as a pair of    *)
(* its pod and its place there, so that a sink's step adds or removes the   *)
(* pairs between the old and the new load of its pod.                       *)

Loads == [w \in Pods |-> Load(w)]
Places == Pods \X (1 .. Buffer + 1)
Held(f) == {e \in Places : e[2] <= f[e[1]]}

LEMMA HeldFinite == ASSUME NEW f PROVE IsFiniteSet(Held(f))
<1>1. 1 \in Int /\ Buffer + 1 \in Int /\ IsFiniteSet(Pods)
  OBVIOUS
<1>2. IsFiniteSet(1 .. Buffer + 1)
  BY <1>1, FS_Interval, Zenon
<1>3. IsFiniteSet(Places)
  BY <1>1, <1>2, FS_Product DEF Places
<1> QED
  BY <1>3, FS_Subset DEF Held

\* A load of w that falls from f[w] to g[w] takes as many events away.
LEMMA HeldFalls ==
  ASSUME NEW f \in [Pods -> 0 .. Buffer + 1], NEW g \in [Pods -> 0 .. Buffer + 1],
         NEW w \in Pods, \A v \in Pods \ {w} : f[v] = g[v], g[w] <= f[w]
  PROVE  /\ Cardinality(Held(f)) = Cardinality(Held(g)) + (f[w] - g[w])
         /\ Cardinality(Held(f)) \in Nat /\ Cardinality(Held(g)) \in Nat
<1>1. PICK m \in 0 .. Buffer + 1, n \in 0 .. Buffer + 1 : m = g[w] /\ n = f[w] /\ m <= n
  OBVIOUS
<1> DEFINE Gone == {w} \X (m + 1 .. n)
<1>2. Gone \subseteq Held(f)
  BY <1>1 DEF Held, Places
<1>3. Held(g) = Held(f) \ Gone
  <2>1. ASSUME NEW e \in Places PROVE e \in Held(g) <=> e \in Held(f) /\ e \notin Gone
    <3>1. CASE e[1] = w
      BY <1>1, <3>1 DEF Held, Places
    <3>2. CASE e[1] # w
      BY <3>2 DEF Held, Places
    <3> QED
      BY <3>1, <3>2
  <2> QED
    BY <2>1 DEF Held
<1>4. IsFiniteSet(Gone) /\ Cardinality(Gone) = n - m
  <2>1. m + 1 \in Int /\ n \in Int /\ m \in Nat /\ n \in Nat
    BY <1>1
  <2>2. /\ IsFiniteSet(m + 1 .. n)
        /\ Cardinality(m + 1 .. n) = IF m + 1 > n THEN 0 ELSE n - (m + 1) + 1
    BY <2>1, FS_Interval, Zenon
  <2>3. Cardinality(m + 1 .. n) = n - m
    BY <1>1, <2>1, <2>2
  <2>4. IsFiniteSet({w}) /\ Cardinality({w}) = 1
    BY FS_Singleton, Zenon
  <2>5. /\ IsFiniteSet(Gone)
        /\ Cardinality(Gone) = Cardinality({w}) * Cardinality(m + 1 .. n)
    BY <2>2, <2>4, FS_Product, Zenon
  <2> QED
    BY <2>1, <2>3, <2>4, <2>5
<1> HIDE DEF Gone
<1>5. IsFiniteSet(Held(f)) /\ IsFiniteSet(Held(g))
  BY HeldFinite
<1>6. Held(f) \cap Gone = Gone
  BY <1>2
<1>7. Cardinality(Held(g)) = Cardinality(Held(f)) - Cardinality(Gone)
  BY <1>3, <1>5, <1>6, FS_Difference
<1>8. Cardinality(Held(f)) \in Nat /\ Cardinality(Held(g)) \in Nat
  BY <1>5, FS_CardinalityType
<1> QED
  BY <1>1, <1>4, <1>7, <1>8

\* The pairs of the sinks s are those of their loads.
LEMMA LoadsHeld ==
  ASSUME NEW s \in [Pods -> [queued : 0 .. Buffer, try : 0 .. Retries, id : 0 .. MaxId]],
         NEW f, f = [w \in Pods |-> s[w].queued + (IF s[w].try > 0 THEN 1 ELSE 0)]
  PROVE  /\ f \in [Pods -> 0 .. Buffer + 1]
         /\ Held(f) = {e \in Pods \X (1 .. Buffer + 1) :
                        e[2] <= s[e[1]].queued + (IF s[e[1]].try > 0 THEN 1 ELSE 0)}
<1>1. ASSUME NEW w \in Pods
      PROVE  s[w].queued + (IF s[w].try > 0 THEN 1 ELSE 0) \in 0 .. Buffer + 1
  OBVIOUS
<1>2. f \in [Pods -> 0 .. Buffer + 1]
  BY <1>1
<1>3. ASSUME NEW e \in Places
      PROVE  f[e[1]] = s[e[1]].queued + (IF s[e[1]].try > 0 THEN 1 ELSE 0)
  BY DEF Places
<1> QED
  BY <1>2, <1>3 DEF Held, Places

\* Ids in hand are new and differ, and sealers work on rows that are stored.
Used == Committed \cup adrift
Drawn ==
  /\ \A i \in Used : i < nextId
  /\ \A w \in Pods : /\ sink[w].id < nextId
                     /\ sink[w].id > 0 => sink[w].try > 0 /\ sink[w].id \notin Used
  /\ \A v, w \in Pods : sink[v].id > 0 /\ sink[v].id = sink[w].id => v = w
  /\ \A p \in Sealers : sealer[p].rows \subseteq Committed

CountInv == LossInv /\ Drawn /\ Accounted

LEMMA IdsFinite ==
  ASSUME NEW T \in SUBSET (1 .. MaxId)
  PROVE  IsFiniteSet(T) /\ Cardinality(T) \in Nat
<1>1. 1 \in Int /\ MaxId \in Int
  OBVIOUS
<1>2. IsFiniteSet(1 .. MaxId)
  BY <1>1, FS_Interval, Zenon
<1> QED
  BY <1>2, FS_Subset, FS_CardinalityType

\* A pod's step keeps the account when what its sink holds, what is stored and
\* what is gone grow together by what it sent.
LEMMA PodCounts ==
  ASSUME TypeOK, TypeOK', Accounted,
         NEW w \in Pods, \A v \in Pods \ {w} : sink'[v] = sink[v],
         NEW n \in Int, n = Load(w)',
         NEW c \in Int, c = Cardinality(Answered),
         NEW d \in Int, d = Cardinality(Answered'),
         n + d + tally'.dropped + tally'.lost - tally'.sent
           = Load(w) + c + tally.dropped + tally.lost - tally.sent
  PROVE  Accounted'
<1>1. PICK f \in [Pods -> 0 .. Buffer + 1], g \in [Pods -> 0 .. Buffer + 1] :
        f = Loads /\ g = Loads' /\ InSinks = Held(f) /\ InSinks' = Held(g)
  <2>1. Loads \in [Pods -> 0 .. Buffer + 1] /\ InSinks = Held(Loads)
    BY LoadsHeld DEF Loads, InSinks, Load, Busy, TypeOK
  <2>2. Loads' \in [Pods -> 0 .. Buffer + 1] /\ InSinks' = Held(Loads')
    BY LoadsHeld DEF Loads, InSinks, Load, Busy, TypeOK
  <2> QED
    BY <2>1, <2>2
<1>2. f[w] = Load(w) /\ g[w] = n /\ \A v \in Pods \ {w} : f[v] = g[v]
  BY <1>1 DEF Loads, Load, Busy
<1>3. f[w] \in Int /\ g[w] \in Int
  BY <1>1
<1>4. PICK x, y : x = Cardinality(Held(f)) /\ y = Cardinality(Held(g))
  OBVIOUS
<1>5. x \in Nat /\ y \in Nat /\ x - y = f[w] - g[w]
  <2>1. CASE g[w] <= f[w]
    BY <1>2, <1>4, <2>1, HeldFalls
  <2>2. CASE f[w] <= g[w]
    BY <1>2, <1>4, <2>2, HeldFalls
  <2> QED
    BY <1>3, <2>1, <2>2
<1>6. /\ tally.sent \in Int /\ tally.dropped \in Int /\ tally.lost \in Int
      /\ tally'.sent \in Int /\ tally'.dropped \in Int /\ tally'.lost \in Int
  BY DEF TypeOK
<1>7. tally.sent = x + c + tally.dropped + tally.lost
  BY <1>1, <1>4 DEF Accounted
<1>8. Cardinality(InSinks') = y
  BY <1>1, <1>4
<1>9. tally'.sent = y + d + tally'.dropped + tally'.lost
  <2>1. PICK l \in Int, s \in Int, p \in Int, s1 \in Int, p1 \in Int, o \in Int, o1 \in Int :
          /\ l = Load(w) /\ s = tally.sent /\ p = tally.dropped /\ o = tally.lost
          /\ s1 = tally'.sent /\ p1 = tally'.dropped /\ o1 = tally'.lost
    BY <1>2, <1>3, <1>6
  <2>2. x - y = l - n /\ n + d + p1 + o1 - s1 = l + c + p + o - s /\ s = x + c + p + o
    BY <1>2, <1>5, <1>7, <2>1
  <2>3. s1 = y + d + p1 + o1
    BY <1>5, <2>2
  <2> QED
    BY <2>1, <2>3
<1> QED
  BY <1>8, <1>9 DEF Accounted

LEMMA CountStep == CountInv /\ [Next]_vars => CountInv'
<1> SUFFICES ASSUME CountInv, [Next]_vars PROVE CountInv'
  OBVIOUS
<1>0. /\ LossInv /\ TypeOK /\ Drawn /\ Accounted
      /\ LossInv' /\ TypeOK' /\ Committed \subseteq Committed'
  BY LossStep DEF CountInv, LossInv
<1>c. PICK c \in Nat, d \in Nat : c = Cardinality(Answered) /\ d = Cardinality(Answered')
  <2>1. Answered \subseteq 1 .. MaxId /\ Answered' \subseteq 1 .. MaxId
    BY <1>0 DEF TypeOK, Answered
  <2>2. Cardinality(Answered) \in Nat /\ Cardinality(Answered') \in Nat
    BY <2>1, IdsFinite
  <2> QED
    BY <2>1, <2>2
<1>s. ASSUME NEW w \in Pods, NEW q \in Nat, NEW try \in Nat, NEW id, SetSink(w, q, try, id)
      PROVE  /\ \A v \in Pods \ {w} : sink'[v] = sink[v]
             /\ Load(w)' = (IF try > 0 THEN q + 1 ELSE q)
  BY <1>0, <1>s DEF SetSink, TypeOK, Load, Busy
<1>t. /\ tally.sent \in Int /\ tally.dropped \in Int /\ tally.lost \in Int
      /\ \A w \in Pods : Load(w) \in Nat /\ sink[w].queued \in Nat /\ sink[w].try \in Nat
      /\ nextId \in Nat /\ \A w \in Pods : sink[w].id \in Nat
      /\ \A i \in Committed : i \in Nat
  BY <1>0 DEF TypeOK, Load, Busy
<1>d. ASSUME NEW w \in Pods, NEW n \in Int, n = Load(w)',
             \A v \in Pods \ {w} : sink'[v] = sink[v],
             n + d + tally'.dropped + tally'.lost - tally'.sent
               = Load(w) + c + tally.dropped + tally.lost - tally.sent
      PROVE  Accounted'
  <2>1. c \in Int /\ d \in Int
    OBVIOUS
  <2> QED
    BY <1>0, <1>c, <1>d, <2>1, PodCounts
\* of a pod that draws no id
<1>a. ASSUME NEW w \in Pods, NEW q, NEW try, SetSink(w, q, try, 0), Committed' = Committed,
             adrift' \subseteq adrift \cup ({sink[w].id} \ {0}),
             UNCHANGED <<nextId, sealer>>
      PROVE  Drawn'
  <2>1. ASSUME NEW v \in Pods
        PROVE  /\ v = w => sink'[v].id = 0
               /\ v # w => sink'[v] = sink[v]
    BY <1>0, <1>a DEF SetSink, TypeOK
  <2>2. \A i \in Used' : i < nextId'
    BY <1>0, <1>a DEF Drawn, Used
  <2>3. ASSUME NEW v \in Pods
        PROVE  /\ sink'[v].id < nextId'
               /\ sink'[v].id > 0 => sink'[v].try > 0 /\ sink'[v].id \notin Used'
    <3>1. CASE v = w
      BY <1>0, <1>a, <1>t, <2>1, <3>1 DEF TypeOK
    <3>2. CASE v # w
      BY <1>0, <1>a, <2>1, <3>2 DEF Drawn, Used
    <3> QED
      BY <3>1, <3>2
  <2>4. \A u, v \in Pods : sink'[v].id > 0 /\ sink'[v].id = sink'[u].id => v = u
    BY <1>0, <1>t, <2>1 DEF Drawn
  <2>5. \A p \in Sealers : sealer'[p].rows \subseteq Committed'
    BY <1>0, <1>a DEF Drawn
  <2> QED
    BY <2>2, <2>3, <2>4, <2>5 DEF Drawn
\* an id that is given up was not answered
<1>g. ASSUME NEW w \in Pods, GiveUp(w), Committed' = Committed PROVE Answered' = Answered
  <2>1. {sink[w].id} \ {0} \subseteq {sink[w].id} /\ (sink[w].id # 0 => sink[w].id \notin Committed)
    BY <1>0, <1>t DEF Drawn, Used
  <2> QED
    BY <1>g, <2>1 DEF Answered
\* of a sealer
<1>b. ASSUME UNCHANGED <<sink, nextId, tally, adrift>>, Committed' = Committed,
             \A p \in Sealers : sealer'[p].rows \subseteq Committed
      PROVE  CountInv'
  <2>1. Accounted'
    BY <1>0, <1>b DEF Accounted, Answered, InSinks, Load, Busy
  <2>2. Drawn'
    BY <1>0, <1>b DEF Drawn, Used
  <2> QED
    BY <1>0, <2>1, <2>2 DEF CountInv
<1>1. ASSUME NEW w \in Pods, Send(w) PROVE CountInv'
  <2>1. Committed' = Committed /\ UNCHANGED <<nextId, sealer, adrift>> /\ c = d
    BY <1>1, <1>c DEF Send, Answered
  <2>2. CASE sink[w].queued < Buffer
    <3>1. /\ SetSink(w, sink[w].queued + 1, sink[w].try, sink[w].id)
          /\ tally' = [sent |-> tally.sent + 1, dropped |-> tally.dropped + 0, lost |-> tally.lost + 0]
      BY <1>1, <2>2 DEF Send, Count
    <3>2. Drawn'
      BY <1>0, <2>1, <3>1 DEF Drawn, Used, SetSink, TypeOK
    <3>3. Accounted'
      <4>1. PICK n \in Int : n = Load(w)' /\ n = Load(w) + 1 /\ \A v \in Pods \ {w} : sink'[v] = sink[v]
        <5>1. sink[w].queued + 1 \in Nat /\ sink[w].try \in Nat
          BY <1>t
        <5>2. /\ \A v \in Pods \ {w} : sink'[v] = sink[v]
              /\ Load(w)' = (IF sink[w].try > 0 THEN sink[w].queued + 1 + 1 ELSE sink[w].queued + 1)
          BY <1>s, <3>1, <5>1
        <5> QED
          BY <1>t, <3>1, <5>1, <5>2 DEF Load, Busy
      <4>2. n + d + tally'.dropped + tally'.lost - tally'.sent
              = Load(w) + c + tally.dropped + tally.lost - tally.sent
        BY <1>t, <2>1, <3>1, <4>1
      <4> QED
        BY <4>1, <4>2, <1>d
    <3> QED
      BY <1>0, <3>2, <3>3 DEF CountInv
  <2>3. CASE ~(sink[w].queued < Buffer)
    <3>1. /\ UNCHANGED sink
          /\ tally' = [sent |-> tally.sent + 1, dropped |-> tally.dropped + 1, lost |-> tally.lost + 0]
      BY <1>1, <2>3 DEF Send, Count
    <3>2. Drawn'
      BY <1>0, <2>1, <3>1 DEF Drawn, Used
    <3>3. InSinks' = InSinks
      BY <3>1 DEF InSinks, Load, Busy
    <3>4. PICK x : x = Cardinality(InSinks)
      OBVIOUS
    <3>5. Accounted'
      <4>1. tally.sent = x + c + tally.dropped + tally.lost /\ x \in Nat
        <5>1. x \in Nat
          BY <1>0, <3>4, LoadsHeld, HeldFinite, FS_CardinalityType
          DEF Loads, InSinks, Load, Busy, TypeOK
        <5> QED
          BY <1>0, <1>c, <3>4, <5>1 DEF Accounted
      <4>2. tally'.sent = x + d + tally'.dropped + tally'.lost
        BY <1>t, <2>1, <3>1, <4>1
      <4> QED
        BY <1>c, <3>3, <3>4, <4>2 DEF Accounted
    <3> QED
      BY <1>0, <3>2, <3>5 DEF CountInv
  <2> QED
    BY <2>2, <2>3
<1>2. ASSUME NEW w \in Pods, Take(w) PROVE CountInv'
  <2>1. /\ Committed' = Committed /\ UNCHANGED <<nextId, sealer, tally, adrift>> /\ c = d
        /\ SetSink(w, sink[w].queued - 1, 1, 0) /\ sink[w].try = 0
    BY <1>2, <1>c DEF Take, Answered
  <2>2. Drawn'
    BY <1>a, <2>1
  <2>3. Accounted'
    <3>1. PICK n \in Int : n = Load(w)' /\ n = Load(w) /\ \A v \in Pods \ {w} : sink'[v] = sink[v]
      <4>1. sink[w].queued - 1 \in Nat
        BY <1>t, <1>2 DEF Take
      <4>2. /\ \A v \in Pods \ {w} : sink'[v] = sink[v]
            /\ Load(w)' = sink[w].queued - 1 + 1
        BY <1>s, <2>1, <4>1
      <4> QED
        BY <1>t, <2>1, <4>2 DEF Load, Busy
    <3>2. n + d + tally'.dropped + tally'.lost - tally'.sent
            = Load(w) + c + tally.dropped + tally.lost - tally.sent
      BY <1>t, <2>1, <3>1
    <3> QED
      BY <3>1, <3>2, <1>d
  <2> QED
    BY <1>0, <2>2, <2>3 DEF CountInv
<1>3. ASSUME NEW w \in Pods, Insert(w) PROVE CountInv'
  <2>1. /\ Committed' = Committed /\ UNCHANGED <<sealer, tally, adrift>> /\ c = d
        /\ nextId' = nextId + 1
        /\ SetSink(w, sink[w].queued, sink[w].try, nextId) /\ sink[w].try > 0
    BY <1>3, <1>c DEF Insert, Answered
  <2>2. Drawn'
    <3>1. \A i \in Used : i \in Nat
      BY <1>0 DEF TypeOK, Used
    <3> QED
      BY <1>0, <1>t, <2>1, <3>1 DEF Drawn, Used, SetSink, TypeOK
  <2>3. Accounted'
    <3>1. PICK n \in Int : n = Load(w)' /\ n = Load(w) /\ \A v \in Pods \ {w} : sink'[v] = sink[v]
      BY <1>s, <1>t, <2>1 DEF Load, Busy
    <3>2. n + d + tally'.dropped + tally'.lost - tally'.sent
            = Load(w) + c + tally.dropped + tally.lost - tally.sent
      BY <1>t, <2>1, <3>1
    <3> QED
      BY <3>1, <3>2, <1>d
  <2> QED
    BY <1>0, <2>2, <2>3 DEF CountInv
<1>4. ASSUME NEW w \in Pods, CommitInsert(w) PROVE CountInv'
  <2>1. PICK i \in Nat : i = sink[w].id
    BY <1>t
  <2>2. /\ Committed' = Committed \cup {i} /\ UNCHANGED <<nextId, sealer, tally, adrift>>
        /\ SetSink(w, sink[w].queued, 0, 0) /\ i > 0
    BY <1>4, <2>1 DEF CommitInsert
  <2>3. i \notin Committed /\ i \notin adrift /\ sink[w].try > 0 /\ i < nextId
    BY <1>0, <2>1, <2>2 DEF Drawn, Used
  <2>4. d = c + 1
    <3>1. IsFiniteSet(Answered)
      BY <1>0, IdsFinite DEF TypeOK, Answered
    <3>2. Answered' = Answered \cup {i} /\ i \notin Answered
      BY <2>2, <2>3 DEF Answered
    <3> QED
      BY <1>c, <3>1, <3>2, FS_AddElement
  <2>5. Drawn'
    <3>1. ASSUME NEW v \in Pods
          PROVE  /\ v = w => sink'[v].id = 0
                 /\ v # w => sink'[v] = sink[v]
      BY <1>0, <2>2 DEF SetSink, TypeOK
    <3> HIDE DEF Committed
    <3>2. \A v \in Pods : v # w /\ sink[v].id > 0 => sink[v].id # i
      BY <1>0, <2>1 DEF Drawn
    <3>3. \A j \in Used' : j < nextId'
      BY <1>0, <2>2, <2>3 DEF Drawn, Used
    <3>4. ASSUME NEW v \in Pods
          PROVE  /\ sink'[v].id < nextId'
                 /\ sink'[v].id > 0 => sink'[v].try > 0 /\ sink'[v].id \notin Used'
      BY <1>0, <1>t, <2>2, <2>3, <3>1, <3>2 DEF Drawn, Used
    <3>5. \A v, u \in Pods : sink'[v].id > 0 /\ sink'[v].id = sink'[u].id => v = u
      BY <1>0, <1>t, <3>1 DEF Drawn
    <3>6. \A p \in Sealers : sealer'[p].rows \subseteq Committed'
      BY <1>0, <2>2 DEF Drawn
    <3> QED
      BY <3>3, <3>4, <3>5, <3>6 DEF Drawn
  <2>6. Accounted'
    <3>1. PICK n \in Int : n = Load(w)' /\ n = Load(w) - 1 /\ \A v \in Pods \ {w} : sink'[v] = sink[v]
      BY <1>s, <1>t, <2>2, <2>3 DEF Load, Busy
    <3>2. n + d + tally'.dropped + tally'.lost - tally'.sent
            = Load(w) + c + tally.dropped + tally.lost - tally.sent
      BY <1>t, <2>2, <2>3, <2>4, <3>1
    <3> QED
      BY <3>1, <3>2, <1>d
  <2> QED
    BY <1>0, <2>5, <2>6 DEF CountInv
<1>5. ASSUME NEW w \in Pods, InsertFails(w) PROVE CountInv'
  <2>1. /\ Committed' = Committed /\ UNCHANGED <<nextId, sealer>> /\ c = d
        /\ sink[w].try > 0 /\ adrift' = adrift \cup ({sink[w].id} \ {0})
    BY <1>g, <1>0, <1>5, <1>c DEF InsertFails, Drawn
  <2>2. PICK try \in Nat : SetSink(w, sink[w].queued, try, 0)
                           /\ (\/ try > 0 /\ tally' = tally
                               \/ /\ try = 0
                                  /\ tally' = [sent |-> tally.sent + 0, dropped |-> tally.dropped + 1,
                                               lost |-> tally.lost + 0])
    BY <1>t, <1>5 DEF InsertFails, Count
  <2>3. Drawn'
    BY <1>a, <2>1, <2>2
  <2>4. Accounted'
    <3>1. PICK n \in Int : n = Load(w)' /\ n = (IF try > 0 THEN Load(w) ELSE Load(w) - 1) /\ \A v \in Pods \ {w} : sink'[v] = sink[v]
      BY <1>s, <1>t, <2>1, <2>2 DEF Load, Busy
    <3>2. n + d + tally'.dropped + tally'.lost - tally'.sent
            = Load(w) + c + tally.dropped + tally.lost - tally.sent
      BY <1>t, <2>1, <2>2, <3>1
    <3> QED
      BY <3>1, <3>2, <1>d
  <2> QED
    BY <1>0, <2>3, <2>4 DEF CountInv
<1>6. ASSUME NEW w \in Pods, PodStops(w) PROVE CountInv'
  <2>1. /\ Committed' = Committed /\ UNCHANGED <<nextId, sealer>> /\ c = d
        /\ SetSink(w, 0, 0, 0) /\ adrift' = adrift \cup ({sink[w].id} \ {0})
        /\ tally' = [sent |-> tally.sent + 0, dropped |-> tally.dropped + 0, lost |-> tally.lost + Load(w)]
    BY <1>g, <1>6, <1>c DEF PodStops, Count
  <2>2. Drawn'
    BY <1>a, <2>1
  <2>3. Accounted'
    <3>1. PICK n \in Int : n = Load(w)' /\ n = 0 /\ \A v \in Pods \ {w} : sink'[v] = sink[v]
      <4>1. 0 \in Nat /\ 0 \in Nat
        BY <1>t
      <4>2. /\ \A v \in Pods \ {w} : sink'[v] = sink[v]
            /\ Load(w)' = (IF 0 > 0 THEN 0 + 1 ELSE 0)
        BY <1>s, <2>1, <4>1
      <4> QED
        BY <1>t, <2>1, <4>1, <4>2 DEF Load, Busy
    <3>2. n + d + tally'.dropped + tally'.lost - tally'.sent
            = Load(w) + c + tally.dropped + tally.lost - tally.sent
      BY <1>t, <2>1, <3>1
    <3> QED
      BY <3>1, <3>2, <1>d
  <2> QED
    BY <1>0, <2>2, <2>3 DEF CountInv
<1>7. ASSUME NEW p \in Sealers, NEW pc, NEW rows, NEW prev, SetSealer(p, pc, rows, prev),
             rows \subseteq Committed, Committed' = Committed,
             UNCHANGED <<sink, nextId, tally, adrift>>
      PROVE  CountInv'
  <2>1. \A q \in Sealers : sealer'[q].rows \subseteq Committed
    BY <1>0, <1>7 DEF SetSealer, Drawn, TypeOK
  <2> QED
    BY <1>7, <1>b, <2>1
<1>8. ASSUME NEW p \in Sealers, Start(p) \/ Exit(p) \/ SealerCrash(p) PROVE CountInv'
  BY <1>7, <1>8 DEF Start, Exit, SealerCrash
<1>9. ASSUME NEW p \in Sealers, Fetch(p) PROVE CountInv'
  BY <1>7, <1>9 DEF Fetch
<1>10. ASSUME NEW p \in Sealers, ReadLast(p) PROVE CountInv'
  BY <1>0, <1>7, <1>10 DEF ReadLast, Drawn
<1>11. ASSUME NEW p \in Sealers, Append(p) PROVE CountInv'
  <2>1. Committed' = Committed
    BY <1>0, <1>11 DEF Append, Drawn
  <2> QED
    BY <1>0, <1>7, <1>11, <2>1 DEF Append, Drawn
<1>12. ASSUME NEW p \in Sealers, Delete(p) PROVE CountInv'
  <2>1. Committed' = Committed
    BY <1>0, <1>12 DEF Delete, Work, LossInv, Holds
  <2> QED
    BY <1>7, <1>12, <2>1 DEF Delete
<1>13. CASE LeaseExpires \/ UNCHANGED vars
  BY <1>0, <1>13, <1>b DEF LeaseExpires, vars, Drawn
<1>14. ASSUME NEW i \in adrift, CommitAdrift(i) PROVE CountInv'
  <2>1. UNCHANGED <<sink, nextId, tally, adrift, sealer>> /\ Committed' = Committed \cup {i}
    BY <1>14 DEF CommitAdrift
  <2>2. Answered' = Answered /\ Used' = Used
    BY <2>1 DEF Answered, Used
  <2>3. Drawn'
    BY <1>0, <2>1, <2>2 DEF Drawn
  <2>4. Accounted'
    BY <1>0, <2>1, <2>2 DEF Accounted, InSinks, Load, Busy
  <2> QED
    BY <1>0, <2>3, <2>4 DEF CountInv
<1> QED
  BY <1>1, <1>2, <1>3, <1>4, <1>5, <1>6, <1>8, <1>9, <1>10, <1>11, <1>12, <1>13, <1>14
  DEF Next, Worker, SealOnce, DuplicateKey, DatabaseError

LEMMA CountInit == Init => CountInv
<1> SUFFICES ASSUME Init PROVE CountInv
  OBVIOUS
<1>1. LossInv
  <2>1. late \in BOOLEAN
    BY DEF Init
  <2>2. TypeOK
    BY <2>1 DEF Init, TypeOK
  <2> QED
    BY <2>2 DEF Init, LossInv, Holds
<1>2. Drawn
  BY DEF Init, Drawn, Used
<1>3. Accounted
  <2>1. \A w \in Pods : Load(w) = 0
    BY DEF Init, Load, Busy
  <2>2. InSinks = {}
    BY <2>1 DEF InSinks
  <2>3. Answered = {}
    BY DEF Init, Answered
  <2>4. Cardinality({}) = 0
    BY FS_EmptySet
  <2> QED
    BY <2>2, <2>3, <2>4 DEF Init, Accounted
<1> QED
  BY <1>1, <1>2, <1>3 DEF CountInv

-----------------------------------------------------------------------------
(* The chain.  As long as ids become visible in order, a batch that no      *)
(* other sealer has appended is an initial segment of the rows that are not *)
(* in the chain, and the last hash it read is still the last one; any other *)
(* batch is refused by the primary key.                                     *)

Waiting == unsealed \ Chained
Fresh(p) == sealer[p].pc \in {"fetched", "hashed"} /\ sealer[p].rows \cap Chained = {}

\* The chain is a prefix of what is visible.
Prefix == \A i \in Chained, j \in Waiting : i < j

Segment(p) ==
  Fresh(p) =>
    /\ sealer[p].rows # {} /\ sealer[p].rows \subseteq Waiting
    /\ \A i \in sealer[p].rows, j \in Waiting : j < i => j \in sealer[p].rows
    /\ sealer[p].pc = "hashed" => sealer[p].prev = Last(Chained)

InOrder == Prefix /\ ChainIntact /\ \A p \in Sealers : Segment(p)

\* A step that leaves both tables alone.
LEMMA SealerFrame ==
  ASSUME InOrder, NEW p \in Sealers, Others(p), Segment(p)', UNCHANGED <<unsealed, sealed>>
  PROVE  InOrder'
<1>1. ASSUME NEW q \in Sealers PROVE Segment(q)'
  <2>1. CASE q = p
    BY <2>1
  <2>2. CASE q # p
    BY <2>2 DEF InOrder, Others, Segment, Fresh, Waiting
  <2> QED
    BY <2>1, <2>2
<1> QED
  BY <1>1 DEF InOrder, Prefix, Waiting, ChainIntact

LEMMA OthersSame ==
  ASSUME NEW p \in Sealers, NEW pc, NEW rows, NEW prev, TypeOK, SetSealer(p, pc, rows, prev)
  PROVE  /\ Others(p) /\ sealer'[p].pc = pc
         /\ sealer'[p].rows = rows /\ sealer'[p].prev = prev
  BY DEF SetSealer, Others, TypeOK

\* The rows Fetch takes are an initial segment of audit_log_unsealed.
LEMMA FetchSegment ==
  ASSUME TypeOK, unsealed # {},
         NEW rows, rows = {i \in unsealed : Cardinality(Below(i, unsealed)) < Batch}
  PROVE  /\ rows # {} /\ rows \subseteq unsealed
         /\ \A i \in rows, j \in unsealed : j < i => j \in rows
<1>1. unsealed \in SUBSET Nat /\ IsFiniteSet(unsealed)
  <2>1. unsealed \subseteq 1 .. MaxId
    BY DEF TypeOK
  <2>2. 1 \in Int /\ MaxId \in Int
    OBVIOUS
  <2>3. IsFiniteSet(1 .. MaxId)
    BY <2>2, FS_Interval, Zenon
  <2>4. IsFiniteSet(unsealed)
    BY <2>1, <2>3, FS_Subset
  <2>5. unsealed \in SUBSET Nat
    BY <2>1
  <2> QED
    BY <2>4, <2>5
<1>2. PICK m \in unsealed : \A j \in unsealed : m <= j
  BY <1>1, Least
<1>3. m \in rows
  <2>1. Below(m, unsealed) = {}
    <3>1. \A k \in unsealed : k \in Int /\ m \in Int
      BY <1>1, <1>2
    <3>2. \A k \in unsealed : ~(k < m)
      BY <1>2, <3>1
    <3> QED
      BY <3>2 DEF Below
  <2>2. Cardinality({}) = 0
    BY FS_EmptySet
  <2>3. 0 < Batch
    OBVIOUS
  <2> QED
    BY <2>1, <2>2, <2>3
<1>4. ASSUME NEW i \in rows, NEW j \in unsealed, j < i PROVE j \in rows
  <2>1. Below(j, unsealed) \subseteq Below(i, unsealed)
    <3>1. i \in Int /\ j \in Int /\ \A k \in unsealed : k \in Int
      BY <1>1, <1>4
    <3>2. \A k \in unsealed : k < j => k < i
      BY <1>4, <3>1
    <3> QED
      BY <3>2 DEF Below
  <2>2. IsFiniteSet(Below(i, unsealed))
    BY <1>1, FS_Subset DEF Below
  <2>3. /\ Cardinality(Below(j, unsealed)) <= Cardinality(Below(i, unsealed))
        /\ Cardinality(Below(i, unsealed)) \in Nat
        /\ Cardinality(Below(j, unsealed)) \in Nat
    BY <2>1, <2>2, FS_Subset, FS_CardinalityType
  <2> QED
    BY <1>4, <2>3
<1> QED
  BY <1>3, <1>4

\* Appending a fresh batch keeps the chain intact.
LEMMA AppendLinks ==
  ASSUME TypeOK, InOrder, NEW p \in Sealers, Append(p)
  PROVE  ChainIntact'
<1> DEFINE rows == sealer[p].rows
           prev == sealer[p].prev
<1>1. /\ rows \subseteq 1 .. MaxId /\ Chained \subseteq 1 .. MaxId
      /\ Chained' = Chained \cup rows
      /\ prev = Last(Chained)
      /\ \A i \in Chained, j \in rows : i < j
      /\ rows # {} /\ rows \cap Chained = {}
  BY DEF Append, Work, InOrder, TypeOK, Segment, Fresh, Prefix, Waiting
<1>2. ASSUME NEW i \in Chained PROVE sealed'[i] = Last(Below(i, Chained'))
  <2>1. Below(i, Chained') = Below(i, Chained)
    BY <1>1, <1>2 DEF Below
  <2>2. sealed'[i] = sealed[i]
    BY <1>2 DEF Append
  <2>3. sealed[i] = Last(Below(i, Chained))
    BY <1>2 DEF InOrder, ChainIntact
  <2> QED
    BY <2>1, <2>2, <2>3
<1>3. ASSUME NEW i \in rows PROVE sealed'[i] = Last(Below(i, Chained'))
  <2>1. Below(i, Chained') = Chained \cup Below(i, rows)
    BY <1>1, <1>3 DEF Below
  <2>2. sealed'[i] = Link(i, rows, prev)
    BY <1>1, <1>3 DEF Append
  <2>3. CASE Below(i, rows) = {}
    BY <1>1, <2>1, <2>2, <2>3 DEF Link
  <2>4. CASE Below(i, rows) # {}
    <3> DEFINE m == Last(Below(i, rows))
    <3>1. Below(i, rows) \in SUBSET (1 .. MaxId)
      BY <1>1 DEF Below
    <3>2. m \in Below(i, rows) /\ \A k \in Below(i, rows) : k <= m
      BY <2>4, <3>1, LastIsMax
    <3>3. Below(i, Chained') \in SUBSET (1 .. MaxId)
      BY <1>1, <2>1, <3>1
    <3>4. m \in Below(i, Chained') /\ \A k \in Below(i, Chained') : k <= m
      <4>1. m \in rows
        BY <3>2 DEF Below
      <4>2. \A k \in Chained : k < m /\ k \in Int /\ m \in Int
        BY <1>1, <4>1
      <4> QED
        BY <2>1, <3>2, <4>2
    <3>5. Last(Below(i, Chained')) = m
      <4> HIDE DEF m
      <4> QED
        BY <3>3, <3>4, LastUnique
    <3> QED
      BY <2>2, <2>4, <3>5 DEF Link
  <2> QED
    BY <2>3, <2>4
<1> QED
  BY <1>1, <1>2, <1>3 DEF ChainIntact

LEMMA ChainStep == CountInv /\ InOrder /\ [Next]_vars => late' \/ InOrder'
<1> SUFFICES ASSUME CountInv, InOrder, [Next]_vars, ~late' PROVE InOrder'
  OBVIOUS
<1>0. LossInv /\ TypeOK /\ Drawn
  BY DEF CountInv, LossInv
<1> USE <1>0
<1>a. ASSUME UNCHANGED <<sealer, sealed, unsealed>> PROVE InOrder'
  BY <1>a DEF InOrder, Prefix, Waiting, Segment, Fresh, ChainIntact
<1>1. ASSUME NEW w \in Pods, Send(w) \/ Take(w) \/ Insert(w) \/ InsertFails(w) \/ PodStops(w)
      PROVE  InOrder'
  BY <1>1, <1>a DEF Send, Take, Insert, InsertFails, PodStops
<1>2. ASSUME NEW new \in Nat, Store(new), new \notin Committed, UNCHANGED <<sealer, sealed>>
      PROVE  InOrder'
  <2>1. unsealed' = unsealed \cup {new} /\ \A i \in Committed : i < new
    <3>1. \A i \in Committed : i \in Nat /\ i # new
      BY <1>2 DEF TypeOK
    <3>2. \A i \in Committed : ~(new < i)
      BY <1>2
    <3> QED
      BY <1>2, <3>1, <3>2
  <2>2. Waiting' = Waiting \cup {new} /\ Chained' = Chained
    BY <1>2, <2>1 DEF Waiting
  <2>3. Prefix'
    BY <2>1, <2>2 DEF InOrder, Prefix
  <2>4. ASSUME NEW p \in Sealers PROVE Segment(p)'
    <3>1. \A i \in Waiting : i < new /\ i \in Int
      BY <2>1 DEF Waiting, TypeOK
    <3> QED
      BY <1>2, <2>1, <2>2, <3>1 DEF InOrder, Segment, Fresh
  <2>5. ChainIntact'
    BY <1>2, <2>1 DEF InOrder, ChainIntact
  <2> QED
    BY <2>3, <2>4, <2>5 DEF InOrder
<1>3. ASSUME NEW p \in Sealers, Start(p) \/ Exit(p) \/ SealerCrash(p) PROVE InOrder'
  <2>1. UNCHANGED <<unsealed, sealed>>
    BY <1>3 DEF Start, Exit, SealerCrash
  <2>2. \E pc \in {"down", "idle"} : SetSealer(p, pc, {}, 0)
    BY <1>3 DEF Start, Exit, SealerCrash
  <2>3. Others(p) /\ sealer'[p].pc \in {"down", "idle"}
    BY <2>2, OthersSame
  <2>4. Segment(p)'
    BY <2>3 DEF Segment, Fresh
  <2> QED
    BY <2>1, <2>3, <2>4, SealerFrame
<1>4. ASSUME NEW p \in Sealers, Fetch(p) PROVE InOrder'
  <2> DEFINE rows == {i \in unsealed : Cardinality(Below(i, unsealed)) < Batch}
  <2>1. UNCHANGED <<unsealed, sealed>> /\ unsealed # {}
    BY <1>4 DEF Fetch
  <2>2. Others(p) /\ sealer'[p].pc = "fetched" /\ sealer'[p].rows = rows
    BY <1>4, OthersSame DEF Fetch
  <2>3. /\ rows # {} /\ rows \subseteq unsealed
        /\ \A i \in rows, j \in unsealed : j < i => j \in rows
    BY <2>1, FetchSegment
  <2> HIDE DEF rows
  <2>4. Segment(p)'
    BY <2>1, <2>2, <2>3 DEF Segment, Fresh, Waiting
  <2> QED
    BY <2>1, <2>2, <2>4, SealerFrame
<1>5. ASSUME NEW p \in Sealers, ReadLast(p) PROVE InOrder'
  <2>1. UNCHANGED <<unsealed, sealed>> /\ sealer[p].pc = "fetched"
    BY <1>5 DEF ReadLast, Work
  <2>2. /\ Others(p) /\ sealer'[p].pc = "hashed" /\ sealer'[p].rows = sealer[p].rows
        /\ sealer'[p].prev = Last(Chained)
    BY <1>5, OthersSame DEF ReadLast
  <2>3. Segment(p)'
    BY <2>1, <2>2 DEF InOrder, Segment, Fresh, Waiting
  <2> QED
    BY <2>1, <2>2, <2>3, SealerFrame
<1>6. ASSUME NEW p \in Sealers, Append(p) PROVE InOrder'
  <2> DEFINE rows == sealer[p].rows
  <2>1. /\ UNCHANGED unsealed /\ Chained' = Chained \cup rows
        /\ rows # {} /\ rows \subseteq Waiting
        /\ \A i \in rows, j \in Waiting : j < i => j \in rows
    BY <1>6 DEF Append, Work, InOrder, Segment, Fresh
  <2>2. Others(p) /\ sealer'[p].pc = "appended"
    BY <1>6, OthersSame DEF Append
  <2>3. Waiting' = Waiting \ rows /\ Committed' = Committed
    BY <2>1 DEF Waiting
  <2>5. Prefix'
    <3>1. ASSUME NEW i \in rows, NEW j \in Waiting \ rows PROVE i < j
      <4>1. i \in Waiting /\ j \in Waiting /\ i # j /\ ~(j < i)
        BY <2>1, <3>1
      <4>2. \A k \in Waiting : k \in Int
        BY DEF Waiting, TypeOK
      <4> QED
        BY <4>1, <4>2
    <3> QED
      BY <2>1, <2>3, <3>1 DEF InOrder, Prefix
  <2>6. ASSUME NEW q \in Sealers PROVE Segment(q)'
    <3>1. CASE q = p
      BY <2>2, <3>1 DEF Segment, Fresh
    <3>2. CASE q # p
      <4>1. sealer'[q] = sealer[q]
        BY <2>2, <3>2 DEF Others
      <4>2. Fresh(q) => rows \cap sealer[q].rows # {}
        <5> SUFFICES ASSUME Fresh(q) PROVE \E k \in rows : k \in sealer[q].rows
          OBVIOUS
        <5>1. PICK i \in rows, j \in sealer[q].rows : i \in Waiting /\ j \in Waiting
          BY <2>1 DEF InOrder, Segment
        <5>2. i \in Int /\ j \in Int
          BY <5>1 DEF Waiting, TypeOK
        <5>3. CASE i <= j
          BY <5>1, <5>2, <5>3 DEF InOrder, Segment
        <5>4. CASE j < i
          BY <2>1, <5>1, <5>4
        <5> QED
          BY <5>2, <5>3, <5>4
      <4>3. ~ Fresh(q)'
        BY <2>1, <4>1, <4>2 DEF Fresh
      <4> QED
        BY <4>3 DEF Segment
    <3> QED
      BY <3>1, <3>2
  <2>7. ChainIntact'
    BY <1>6, AppendLinks
  <2> QED
    BY <2>5, <2>6, <2>7 DEF InOrder
<1>7. ASSUME NEW p \in Sealers, Delete(p) PROVE InOrder'
  <2>1. /\ UNCHANGED sealed /\ unsealed' = unsealed \ sealer[p].rows
        /\ sealer[p].rows \subseteq Chained
    BY <1>7 DEF Delete, Work, LossInv, Holds
  <2>2. Others(p) /\ sealer'[p].pc = "idle"
    BY <1>7, OthersSame DEF Delete
  <2>3. Waiting' = Waiting /\ Chained' = Chained /\ Committed' = Committed
    BY <2>1 DEF Waiting
  <2>4. ASSUME NEW q \in Sealers PROVE Segment(q)'
    <3>1. CASE q = p
      BY <2>2, <3>1 DEF Segment, Fresh
    <3>2. CASE q # p
      BY <2>2, <2>3, <3>2 DEF InOrder, Others, Segment, Fresh
    <3> QED
      BY <3>1, <3>2
  <2> QED
    BY <2>1, <2>3, <2>4 DEF InOrder, Prefix, ChainIntact
<1>8. CASE LeaseExpires \/ UNCHANGED vars
  BY <1>8, <1>a DEF LeaseExpires, vars
<1>9. ASSUME NEW w \in Pods, CommitInsert(w) PROVE InOrder'
  <2>1. sink[w].id \in Nat /\ sink[w].id \notin Committed
    BY <1>9 DEF CommitInsert, Drawn, Used, TypeOK
  <2> QED
    BY <1>2, <1>9, <2>1 DEF CommitInsert
<1>10. ASSUME NEW i \in adrift, CommitAdrift(i) PROVE InOrder'
  <2>1. i \in Nat
    BY DEF TypeOK
  <2> QED
    BY <1>2, <1>10, <2>1 DEF CommitAdrift
<1> QED
  BY <1>1, <1>3, <1>4, <1>5, <1>6, <1>7, <1>8, <1>9, <1>10
  DEF Next, Worker, SealOnce, DuplicateKey, DatabaseError

-----------------------------------------------------------------------------
(* The theorems.                                                           *)

LEMMA LossInvariant == Spec => []LossInv
<1>1. Init => LossInv
  BY CountInit DEF CountInv
<1> QED
  BY <1>1, LossStep, PTL DEF Spec

LEMMA CountInvariant == Spec => []CountInv
  BY CountInit, CountStep, PTL DEF Spec

\* The sinks, the tables and the sealers keep their shape.
THEOREM TypeCorrect == Spec => []TypeOK
  BY LossInvariant, PTL DEF LossInv

\* For any number of pods, sealers and faults an inserted row stays in one of
\* the two tables (SealOnce deletes only what it appended).
THEOREM NothingLostCorrect == Spec => NothingLost
<1>1. LossInv /\ [Next]_vars => [Committed \subseteq Committed']_vars
  BY LossStep
<1> QED
  BY <1>1, LossInvariant, PTL DEF Spec, NothingLost

\* For any number of pods and any buffer, every event sent is in a sink, stored by
\* an INSERT that was answered, counted as dropped or lost with its pod (Send,
\* flushOne).
THEOREM AccountedCorrect == Spec => []Accounted
<1>1. CountInv => Accounted
  BY DEF CountInv
<1> QED
  BY <1>1, CountInvariant, PTL

\* Of a row that is not the first one walked, the row before it is walked too.
LEMMA WalkedBefore ==
  ASSUME TypeOK, NEW since \in 0 .. MaxId, NEW i \in Walked(since),
         Below(i, Walked(since)) # {}
  PROVE  Last(Below(i, Walked(since))) = Last(Below(i, Chained))
<1> DEFINE T == Below(i, Chained)
           W == Below(i, Walked(since))
           m == Last(W)
<1>1. Chained \in SUBSET (1 .. MaxId)
  BY DEF TypeOK, Ids
<1>2. T \in SUBSET (1 .. MaxId) /\ W \in SUBSET (1 .. MaxId) /\ W \subseteq T
  BY <1>1 DEF Below, Walked
<1> HIDE DEF T, W
<1>3. m \in W /\ \A k \in W : k <= m
  BY <1>2, LastIsMax DEF W
<1>4. ASSUME NEW k \in T PROVE k <= m
  <2>1. since < m /\ m \in Nat /\ k \in Nat /\ since \in Nat
    BY <1>2, <1>3 DEF W, Below, Walked
  <2>2. CASE k > since
    BY <2>2, <1>3, <1>1 DEF T, W, Below, Walked
  <2>3. CASE ~(k > since)
    BY <2>1, <2>3
  <2> QED
    BY <2>2, <2>3
<1>5. Last(T) = m
  BY <1>2, <1>3, <1>4, LastUnique
<1> QED
  BY <1>5 DEF T, W

LEMMA ChainVerifies == TypeOK /\ (late \/ ChainIntact) => Verifies
<1> SUFFICES ASSUME TypeOK, ChainIntact, NEW since \in 0 .. MaxId, NEW i \in Walked(since),
                    ~(since > 0 /\ Below(i, Walked(since)) = {})
             PROVE  sealed[i] = Last(Below(i, Walked(since)))
  BY DEF Verifies, Verify
<1>1. i \in Chained /\ sealed[i] = Last(Below(i, Chained))
  BY DEF ChainIntact, Walked
<1>2. CASE Below(i, Walked(since)) # {}
  BY <1>1, <1>2, WalkedBefore
<1>3. CASE Below(i, Walked(since)) = {}
  <2>1. since = 0 /\ Chained \subseteq 1 .. MaxId
    BY <1>3 DEF TypeOK, Ids
  <2>2. Walked(since) = Chained
    BY <2>1 DEF Walked
  <2> QED
    BY <1>1, <2>2
<1> QED
  BY <1>2, <1>3

\* Whatever sealers overlap, Verify accepts the chain as long as rows become
\* visible in the order of their ids: the primary key of audit_log, not the
\* lease, is what keeps it intact.
THEOREM ChainCorrect == Spec => []Verifies
<1>1. Init => InOrder
  BY DEF Init, InOrder, Prefix, Waiting, Segment, Fresh, ChainIntact
<1>2. CountInv /\ (late \/ InOrder) /\ [Next]_vars => (late \/ InOrder)'
  <2>1. late /\ [Next]_vars => late'
    BY DEF Next, Send, Worker, Take, Insert, CommitInsert, CommitAdrift, InsertFails, PodStops, Start,
           SealOnce, Fetch, ReadLast, Append, Delete, DuplicateKey, DatabaseError, Exit,
           SealerCrash, LeaseExpires, vars
  <2> QED
    BY <2>1, ChainStep
<1>3. CountInv /\ (late \/ InOrder) => Verifies
  BY ChainVerifies DEF CountInv, LossInv, InOrder
<1> QED
  BY <1>1, <1>2, <1>3, CountInvariant, PTL DEF Spec

\* With one API pod the ids do become visible in order.
OnePod == \A v, w \in Pods : v = w
Ascending == \A w \in Pods : sink[w].id > 0 => \A i \in Used : i < sink[w].id
AdriftStored == adrift \cap Committed # {}

\* The condition of ChainCorrect is met by one API pod, whose worker has one INSERT
\* open at a time (EnqueueSink.run), until an INSERT commits that it gave up.
THEOREM OnePodInOrder ==
  ASSUME OnePod
  PROVE  Spec => [](late => AdriftStored)
<1> DEFINE Inv == Ascending /\ (late => AdriftStored)
<1>1. Init => Inv
  BY DEF Init, Ascending
<1>2. CountInv /\ CountInv' /\ Inv /\ [Next]_vars => Inv'
  <2> SUFFICES ASSUME CountInv, CountInv', Inv, [Next]_vars PROVE Inv'
    OBVIOUS
  <2>0. /\ TypeOK /\ TypeOK' /\ Drawn /\ Ascending /\ (late => AdriftStored)
        /\ Committed \subseteq Committed'
    BY LossStep DEF CountInv, LossInv
  <2>a. adrift \subseteq adrift' /\ AdriftStored => AdriftStored'
    BY <2>0 DEF AdriftStored
  <2>1. ASSUME NEW w \in Pods, Send(w) \/ Take(w) PROVE Inv'
    <3>1. \A v \in Pods : sink'[v].id \in {0, sink[v].id}
      BY <2>0, <2>1 DEF Send, Take, SetSink, TypeOK
    <3>2. UNCHANGED <<unsealed, sealed, late, adrift>>
      BY <2>1 DEF Send, Take
    <3> QED
      BY <2>0, <3>1, <3>2 DEF Ascending, Used, AdriftStored
  <2>2. ASSUME NEW w \in Pods, Insert(w) PROVE Inv'
    <3>1. \A v \in Pods : sink'[v].id = nextId
      BY <2>0, <2>2 DEF Insert, SetSink, TypeOK, OnePod
    <3>2. UNCHANGED <<unsealed, sealed, late, adrift>>
      BY <2>2 DEF Insert
    <3> QED
      BY <2>0, <3>1, <3>2 DEF Ascending, Drawn, Used, AdriftStored
  <2>3. ASSUME NEW w \in Pods, CommitInsert(w) PROVE Inv'
    <3>1. \A v \in Pods : sink'[v].id = 0
      BY <2>0, <2>3 DEF CommitInsert, SetSink, TypeOK, OnePod
    <3>2. \A i \in Committed : i \in Nat /\ sink[w].id \in Nat /\ i < sink[w].id
      BY <2>0, <2>3 DEF CommitInsert, Ascending, Used, TypeOK
    <3>3. ~(\E i \in Committed : sink[w].id < i)
      BY <3>2
    <3>4. adrift' = adrift /\ (late' => late)
      BY <2>3, <3>3 DEF CommitInsert
    <3> QED
      BY <2>0, <2>a, <3>1, <3>4 DEF Ascending
  <2>4. ASSUME UNCHANGED <<sink, late, adrift>>, Committed' = Committed PROVE Inv'
    BY <2>0, <2>4 DEF Ascending, Used, AdriftStored
  <2>5. ASSUME NEW p \in Sealers, Start(p) \/ Fetch(p) \/ ReadLast(p) \/ Exit(p) \/ SealerCrash(p)
        PROVE  Inv'
    BY <2>4, <2>5 DEF Start, Fetch, ReadLast, Exit, SealerCrash
  <2>6. ASSUME NEW p \in Sealers, Append(p) PROVE Inv'
    BY <2>0, <2>4, <2>6 DEF Append, Drawn
  <2>7. ASSUME NEW p \in Sealers, Delete(p) PROVE Inv'
    <3>1. sealer[p].rows \subseteq Chained
      BY <2>7 DEF CountInv, LossInv, Holds, Delete, Work
    <3> QED
      BY <2>4, <2>7, <3>1 DEF Delete
  <2>8. CASE LeaseExpires \/ UNCHANGED vars
    BY <2>4, <2>8 DEF LeaseExpires, vars
  <2>9. ASSUME NEW w \in Pods, InsertFails(w) \/ PodStops(w) PROVE Inv'
    <3>1. \A v \in Pods : sink'[v].id = 0
      BY <2>0, <2>9 DEF InsertFails, PodStops, SetSink, TypeOK, OnePod
    <3>2. UNCHANGED <<unsealed, sealed, late>> /\ adrift \subseteq adrift'
      BY <2>9 DEF InsertFails, PodStops
    <3> QED
      BY <2>0, <2>a, <3>1, <3>2 DEF Ascending
  <2>10. ASSUME NEW i \in adrift, CommitAdrift(i) PROVE Inv'
    <3>1. UNCHANGED <<sink, adrift>> /\ i \in Committed'
      BY <2>10 DEF CommitAdrift
    <3>2. Used' = Used
      BY <2>10 DEF CommitAdrift, Used
    <3> QED
      BY <2>0, <3>1, <3>2 DEF Ascending, AdriftStored
  <2> QED
    BY <2>1, <2>2, <2>3, <2>5, <2>6, <2>7, <2>8, <2>9, <2>10
    DEF Next, Worker, SealOnce, DuplicateKey, DatabaseError
<1> QED
  BY <1>1, <1>2, CountInvariant, PTL DEF Spec
=============================================================================
