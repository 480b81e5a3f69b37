---------------------------- MODULE AccountProofs ----------------------------
(***************************************************************************)
(* Proofs about accounts and payments: tokens are exchanged once and       *)
(* logins accounted for, identities are held once and approved users       *)
(* linked, what is booked was settled and stays booked, top-ups advance,   *)
(* refunds are paid out in order and a dispute has one of them, but for    *)
(* what the properties name.  At the end, the types of all services.       *)
(***************************************************************************)
EXTENDS ServicesProofs, FiniteSetTheorems

-----------------------------------------------------------------------------
(* Sessions.                                                               *)

VisitRow ==
  {Out} \cup [pc : {"password", "reset", "sign", "list"}] \cup [pc : {"rotate"}, of : Jtis]
        \cup [pc : {"otp"}, of : Resets] \cup [pc : {"revoke"}, left : SUBSET Jtis, all : SUBSET Pairs]
ResetRow == [status : {"none", "open", "void", "consumed"}, failed : Nat]
Rotating(v, k) == visit[v].pc = "rotate" /\ visit[v].of = k
Confirming(v, r) == visit[v].pc = "otp" /\ visit[v].of = r

SessionShape ==
  /\ visit \in [Visitors -> VisitRow] /\ resets \in [Resets -> ResetRow]
  /\ taken \in [Jtis \cup Resets -> Nat] /\ issued \in [Pairs -> {"none", "login", "refresh"}]
  /\ listed \subseteq Pairs /\ revoked \subseteq Jtis

\* a token nobody overlapped on is exchanged once, by the only call that has it,
RotatedOnce ==
  \A k \in Jtis \ crowded :
    /\ taken[k] <= 1 /\ (taken[k] > 0 => k \in revoked)
    /\ \A v \in Visitors : Rotating(v, k) => taken[k] = 0 /\ \A u \in Visitors : Rotating(u, k) => u = v
ConfirmedOnce ==
  \A r \in Resets \ crowded :
    /\ taken[r] <= 1 /\ (taken[r] > 0 => resets[r].status = "consumed")
    /\ \A v \in Visitors : Confirming(v, r) => taken[r] = 0 /\ \A u \in Visitors : Confirming(u, r) => u = v
\* and a sign-out has revoked what it is through with.
SignedOut ==
  \A v \in Visitors : visit[v].pc = "revoke" =>
    Signed(visit[v].all) \ visit[v].left \subseteq revoked \cup lapsed

SessionInv == SessionShape /\ RotatedOnce /\ ConfirmedOnce /\ SignedOut /\ LoginsAccounted

LEMMA VisitKinds ==
  ASSUME SessionShape, NEW v \in Visitors
  PROVE  /\ visit[v].pc = "rotate" => visit[v] \in [pc : {"rotate"}, of : Jtis]
         /\ visit[v].pc = "otp" => visit[v] \in [pc : {"otp"}, of : Resets]
         /\ visit[v].pc = "revoke" =>
              visit[v] \in [pc : {"revoke"}, left : SUBSET Jtis, all : SUBSET Pairs]
         /\ Out.pc = "gone"
  BY DEF SessionShape, VisitRow, Out

\* A call goes on to something that has no token in hand.
LEMMA HandsOff ==
  ASSUME SessionInv, NEW v \in Visitors, NEW to,
         to \in {Out} \cup [pc : {"password", "reset", "sign", "list"}],
         visit' = [visit EXCEPT ![v] = to],
         issued' \in [Pairs -> {"none", "login", "refresh"}], listed' \subseteq Pairs,
         revoked' = revoked, lapsed' = lapsed, resets' \in [Resets -> ResetRow],
         \A r \in Resets : resets[r].status = "consumed" => resets'[r].status = "consumed",
         UNCHANGED <<taken, crowded>>, LoginsAccounted'
  PROVE  SessionInv'
<1>1. /\ visit \in [Visitors -> VisitRow] /\ to \in VisitRow /\ to.pc \notin {"rotate", "otp", "revoke"}
  BY DEF SessionInv, SessionShape, VisitRow, Out
<1>2. /\ visit' \in [Visitors -> VisitRow] /\ visit'[v] = to
      /\ \A u \in Visitors \ {v} : visit'[u] = visit[u]
  BY <1>1
<1>3. SessionShape'
  BY <1>2 DEF SessionInv, SessionShape
<1>4. \A u \in Visitors : /\ \A p : Rotating(u, p)' => Rotating(u, p)
                          /\ \A r : Confirming(u, r)' => Confirming(u, r)
                          /\ visit'[u].pc = "revoke" => visit'[u] = visit[u]
  BY <1>1, <1>2 DEF Rotating, Confirming
<1>5. RotatedOnce'
  BY <1>4 DEF SessionInv, RotatedOnce
<1>6. ConfirmedOnce'
  BY <1>4 DEF SessionInv, ConfirmedOnce
<1>7. SignedOut'
  BY <1>4 DEF SessionInv, SignedOut
<1> QED
  BY <1>3, <1>5, <1>6, <1>7 DEF SessionInv

LEMMA RefreshInv ==
  ASSUME SessionInv, NEW v \in Visitors, NEW k \in Jtis, Refresh(v, k)
  PROVE  SessionInv'
<1>1. CASE k \notin revoked /\ Starts(v, [pc |-> "rotate", of |-> k]) /\ Crowd(k, {"rotate"})
  <2> DEFINE to == [pc |-> "rotate", of |-> k]
  <2>1. /\ visit' = [visit EXCEPT ![v] = to] /\ visit \in [Visitors -> VisitRow] /\ to \in VisitRow
    BY <1>1 DEF Starts, SessionInv, SessionShape, VisitRow
  <2>2. /\ visit' \in [Visitors -> VisitRow] /\ visit'[v] = to
        /\ \A u \in Visitors \ {v} : visit'[u] = visit[u]
    BY <2>1
  <2>3. /\ crowded \subseteq crowded' /\ issued' = issued /\ listed' = listed /\ revoked' = revoked
        /\ resets' = resets /\ taken' = taken /\ slipped' = slipped /\ lapsed' = lapsed
        /\ k \notin crowded' => \A u \in Visitors : ~Rotating(u, k)
    BY <1>1 DEF Refresh, Crowd, HasIn, Rotating
  <2>4. SessionShape' /\ LoginsAccounted'
    BY <2>2, <2>3 DEF SessionInv, SessionShape, LoginsAccounted
  <2>5. ConfirmedOnce' /\ SignedOut'
    BY <2>2, <2>3 DEF SessionInv, ConfirmedOnce, SignedOut, Confirming
  <2>6. RotatedOnce'
    <3>1. ASSUME NEW q \in Jtis \ crowded', q # k
          PROVE  \A u \in Visitors : Rotating(u, q)' => Rotating(u, q)
      BY <2>2, <3>1 DEF Rotating
    <3>2. ASSUME NEW q \in Jtis \ crowded', q # k
          PROVE  /\ taken'[q] <= 1 /\ (taken'[q] > 0 => q \in revoked')
                 /\ \A w \in Visitors : Rotating(w, q)' =>
                      taken'[q] = 0 /\ \A u \in Visitors : Rotating(u, q)' => u = w
      BY <2>3, <3>1, <3>2 DEF SessionInv, RotatedOnce
    <3>3. ASSUME k \notin crowded'
          PROVE  /\ taken'[k] = 0
                 /\ \A u \in Visitors : Rotating(u, k)' => u = v
      <4>1. taken[k] = 0
        BY <1>1, <2>3, <3>3 DEF SessionInv, SessionShape, RotatedOnce
      <4> QED
        BY <2>2, <2>3, <3>3, <4>1 DEF Rotating
    <3> QED
      BY <3>2, <3>3 DEF RotatedOnce
  <2> QED
    BY <2>4, <2>5, <2>6 DEF SessionInv
<1>2. CASE k \in revoked /\ Starts(v, [pc |-> "list"]) /\ UNCHANGED crowded
  BY <1>2, HandsOff DEF Refresh, Starts, SessionInv, SessionShape, LoginsAccounted
<1> QED
  BY <1>1, <1>2 DEF Refresh

LEMMA RotateInv ==
  ASSUME SessionInv, NEW v \in Visitors, Rotate(v)
  PROVE  SessionInv'
<1>0. PICK k \in Jtis : k = visit[v].of
  BY VisitKinds DEF Rotate, SessionInv
<1>1. visit[v].pc = "rotate" /\ k \in Jtis /\ k = visit[v].of
  BY <1>0 DEF Rotate
<1>2. /\ visit' = [visit EXCEPT ![v] = [pc |-> "sign"]] /\ revoked' = revoked \cup {k}
      /\ taken' = [taken EXCEPT ![k] = taken[k] + 1]
      /\ issued' = issued /\ listed' = listed /\ resets' = resets /\ crowded' = crowded /\ slipped' = slipped /\ lapsed' = lapsed
  BY <1>0 DEF Rotate
<1>3. /\ visit \in [Visitors -> VisitRow] /\ [pc |-> "sign"] \in VisitRow
      /\ taken \in [Jtis \cup Resets -> Nat] /\ k \notin Resets
  BY <1>1, SessionAssumption DEF SessionInv, SessionShape, VisitRow
<1>4. /\ visit' \in [Visitors -> VisitRow] /\ visit'[v].pc = "sign"
      /\ \A u \in Visitors \ {v} : visit'[u] = visit[u]
      /\ taken' \in [Jtis \cup Resets -> Nat] /\ taken'[k] = taken[k] + 1
      /\ \A x \in (Jtis \cup Resets) \ {k} : taken'[x] = taken[x]
  BY <1>1, <1>2, <1>3
<1>5. SessionShape' /\ LoginsAccounted'
  BY <1>1, <1>2, <1>4 DEF SessionInv, SessionShape, LoginsAccounted
<1>6. ConfirmedOnce' /\ SignedOut'
  BY <1>2, <1>3, <1>4 DEF SessionInv, ConfirmedOnce, SignedOut, Confirming
<1>7. RotatedOnce'
  <2>1. \A u \in Visitors, q \in Jtis : Rotating(u, q)' => Rotating(u, q) /\ u # v
    BY <1>4 DEF Rotating
  <2>2. Rotating(v, k)
    BY <1>1 DEF Rotating
  <2>3. ASSUME NEW q \in Jtis \ crowded', q # k
        PROVE  /\ taken'[q] <= 1 /\ (taken'[q] > 0 => q \in revoked')
               /\ \A w \in Visitors : Rotating(w, q)' =>
                    taken'[q] = 0 /\ \A u \in Visitors : Rotating(u, q)' => u = w
    BY <1>2, <1>4, <2>1, <2>3 DEF SessionInv, RotatedOnce
  <2>4. ASSUME k \notin crowded'
        PROVE  taken'[k] <= 1 /\ k \in revoked' /\ \A u \in Visitors : ~Rotating(u, k)'
    <3>1. taken[k] = 0 /\ \A u \in Visitors : Rotating(u, k) => u = v
      BY <1>1, <1>2, <2>2, <2>4 DEF SessionInv, RotatedOnce
    <3> QED
      BY <1>1, <1>2, <1>4, <2>1, <3>1
  <2> QED
    BY <2>3, <2>4 DEF RotatedOnce
<1> QED
  BY <1>5, <1>6, <1>7 DEF SessionInv

\* A revocation that lapses leaves no exchange behind.
LEMMA LapseInv ==
  ASSUME SessionInv, NEW k \in Jtis, Lapse(k)
  PROVE  SessionInv'
<1>1. /\ revoked' = revoked \ {k} /\ lapsed' = lapsed \cup {k} /\ taken' = [taken EXCEPT ![k] = 0]
      /\ UNCHANGED <<issued, listed, resets, visit, crowded, slipped>>
  BY DEF Lapse
<1>2. taken \in [Jtis \cup Resets -> Nat] /\ k \notin Resets
  BY SessionAssumption DEF SessionInv, SessionShape
<1>3. /\ taken' \in [Jtis \cup Resets -> Nat] /\ taken'[k] = 0
      /\ \A x \in (Jtis \cup Resets) \ {k} : taken'[x] = taken[x]
  BY <1>1, <1>2
<1>4. revoked' \cup lapsed' = revoked \cup lapsed \cup {k} /\ revoked' \subseteq revoked
  BY <1>1
<1>5. SessionShape' /\ LoginsAccounted'
  BY <1>1, <1>3, <1>4 DEF SessionInv, SessionShape, LoginsAccounted
<1>6. ConfirmedOnce' /\ SignedOut'
  BY <1>1, <1>2, <1>3, <1>4 DEF SessionInv, ConfirmedOnce, SignedOut, Confirming
<1>7. RotatedOnce'
  BY <1>1, <1>3 DEF SessionInv, RotatedOnce, Rotating
<1> QED
  BY <1>5, <1>6, <1>7 DEF SessionInv

LEMMA SignOutInv ==
  ASSUME SessionInv, NEW v \in Visitors, ListActiveJTIs(v) \/ RevokeNext(v)
  PROVE  SessionInv'
<1>1. PICK left \in SUBSET Jtis, all \in SUBSET Pairs :
        /\ visit' = [visit EXCEPT ![v] = [pc |-> "revoke", left |-> left, all |-> all]]
        /\ revoked \subseteq revoked' /\ revoked' \subseteq Jtis
        /\ Signed(all) \ left \subseteq revoked' \cup lapsed
  <2>1. CASE ListActiveJTIs(v)
    <3>1. listed \in SUBSET Pairs /\ revoked \subseteq Jtis /\ Signed(listed) \in SUBSET Jtis
      BY DEF SessionInv, SessionShape, Signed, Jtis
    <3>2. /\ visit' = [visit EXCEPT ![v] = [pc |-> "revoke", left |-> Signed(listed), all |-> listed]]
          /\ revoked' = revoked
      BY <2>1 DEF ListActiveJTIs
    <3> QED
      BY <3>1, <3>2
  <2>2. CASE RevokeNext(v)
    <3>1. PICK k \in visit[v].left :
            /\ revoked' = revoked \cup {k}
            /\ visit' = [visit EXCEPT ![v] = [visit[v] EXCEPT !.left = visit[v].left \ {k}]]
      BY <2>2 DEF RevokeNext
    <3>2. visit[v] \in [pc : {"revoke"}, left : SUBSET Jtis, all : SUBSET Pairs]
      BY <2>2, VisitKinds DEF RevokeNext, SessionInv
    <3>3. [visit[v] EXCEPT !.left = visit[v].left \ {k}]
            = [pc |-> "revoke", left |-> visit[v].left \ {k}, all |-> visit[v].all]
      BY <3>2
    <3>4. Signed(visit[v].all) \ visit[v].left \subseteq revoked \cup lapsed /\ revoked \subseteq Jtis
      BY <3>2 DEF SessionInv, SignedOut, SessionShape
    <3>5. /\ visit[v].left \ {k} \in SUBSET Jtis /\ visit[v].all \in SUBSET Pairs
          /\ Signed(visit[v].all) \ (visit[v].left \ {k}) \subseteq revoked' \cup lapsed
          /\ revoked \subseteq revoked' /\ revoked' \subseteq Jtis
      BY <3>1, <3>2, <3>4
    <3> QED
      BY <3>1, <3>3, <3>5
  <2> QED
    BY <2>1, <2>2
<1> DEFINE to == [pc |-> "revoke", left |-> left, all |-> all]
<1>2. visit \in [Visitors -> VisitRow] /\ to \in VisitRow
  BY DEF SessionInv, SessionShape, VisitRow
<1>3. /\ visit' \in [Visitors -> VisitRow] /\ visit'[v] = to
      /\ \A u \in Visitors \ {v} : visit'[u] = visit[u]
  BY <1>1, <1>2
<1>4. UNCHANGED <<issued, listed, resets, taken, crowded, slipped, lapsed>>
  BY DEF ListActiveJTIs, RevokeNext
<1>5. SessionShape' /\ LoginsAccounted'
  BY <1>1, <1>3, <1>4 DEF SessionInv, SessionShape, LoginsAccounted
<1>6. \A u \in Visitors : /\ \A p : Rotating(u, p)' => Rotating(u, p)
                          /\ \A r : Confirming(u, r)' => Confirming(u, r)
  BY <1>3 DEF Rotating, Confirming
<1>7. RotatedOnce'
  BY <1>1, <1>4, <1>6 DEF SessionInv, RotatedOnce
<1>8. ConfirmedOnce'
  BY <1>4, <1>6 DEF SessionInv, ConfirmedOnce
<1>9. SignedOut'
  BY <1>1, <1>3, <1>4 DEF SessionInv, SignedOut
<1> QED
  BY <1>5, <1>7, <1>8, <1>9 DEF SessionInv

LEMMA FindResetInv ==
  ASSUME SessionInv, NEW v \in Visitors, NEW r \in Resets, FindReset(v, r)
  PROVE  SessionInv'
<1> DEFINE to == [pc |-> "otp", of |-> r]
<1>1. /\ visit' = [visit EXCEPT ![v] = to] /\ visit \in [Visitors -> VisitRow] /\ to \in VisitRow
  BY DEF FindReset, Starts, SessionInv, SessionShape, VisitRow
<1>2. /\ visit' \in [Visitors -> VisitRow] /\ visit'[v] = to
      /\ \A u \in Visitors \ {v} : visit'[u] = visit[u]
  BY <1>1
<1>3. /\ crowded \subseteq crowded' /\ issued' = issued /\ listed' = listed /\ revoked' = revoked
      /\ resets' = resets /\ taken' = taken /\ slipped' = slipped /\ lapsed' = lapsed /\ resets[r].status = "open"
      /\ r \notin crowded' => \A u \in Visitors : ~Confirming(u, r)
  BY DEF FindReset, Crowd, HasIn, Confirming, IsUsable
<1>4. SessionShape' /\ LoginsAccounted'
  BY <1>2, <1>3 DEF SessionInv, SessionShape, LoginsAccounted
<1>5. RotatedOnce' /\ SignedOut'
  BY <1>2, <1>3 DEF SessionInv, RotatedOnce, SignedOut, Rotating
<1>6. ConfirmedOnce'
  <2>1. ASSUME NEW q \in Resets \ crowded', q # r
        PROVE  \A u \in Visitors : Confirming(u, q)' => Confirming(u, q)
    BY <1>2, <2>1 DEF Confirming
  <2>2. ASSUME NEW q \in Resets \ crowded', q # r
        PROVE  /\ taken'[q] <= 1 /\ (taken'[q] > 0 => resets'[q].status = "consumed")
               /\ \A w \in Visitors : Confirming(w, q)' =>
                    taken'[q] = 0 /\ \A u \in Visitors : Confirming(u, q)' => u = w
    BY <1>3, <2>1, <2>2 DEF SessionInv, ConfirmedOnce
  <2>3. ASSUME r \notin crowded'
        PROVE  /\ taken'[r] = 0
               /\ \A u \in Visitors : Confirming(u, r)' => u = v
    <3>1. taken[r] = 0
      BY <1>3, <2>3 DEF SessionInv, SessionShape, ConfirmedOnce
    <3> QED
      BY <1>2, <1>3, <2>3, <3>1 DEF Confirming
  <2> QED
    BY <2>2, <2>3 DEF ConfirmedOnce
<1> QED
  BY <1>4, <1>5, <1>6 DEF SessionInv

LEMMA ResetAppliedInv ==
  ASSUME SessionInv, NEW v \in Visitors, ApplyPasswordReset(v)
  PROVE  SessionInv'
<1>0. PICK r \in Resets : r = visit[v].of
  BY VisitKinds DEF ApplyPasswordReset, SessionInv
<1>1. visit[v].pc = "otp" /\ r \in Resets /\ r = visit[v].of
  BY <1>0 DEF ApplyPasswordReset
<1>2. /\ visit' = [visit EXCEPT ![v] = [pc |-> "list"]] /\ revoked' = revoked
      /\ taken' = [taken EXCEPT ![r] = taken[r] + 1]
      /\ resets' = [resets EXCEPT ![r] = [status |-> "consumed", failed |-> 0]]
      /\ issued' = issued /\ listed' = listed /\ crowded' = crowded /\ slipped' = slipped /\ lapsed' = lapsed
  BY <1>0 DEF ApplyPasswordReset
<1>3. /\ visit \in [Visitors -> VisitRow] /\ [pc |-> "list"] \in VisitRow
      /\ taken \in [Jtis \cup Resets -> Nat] /\ r \notin Jtis /\ resets \in [Resets -> ResetRow]
      /\ [status |-> "consumed", failed |-> 0] \in ResetRow
  BY <1>1, SessionAssumption DEF SessionInv, SessionShape, VisitRow, ResetRow
<1>4. /\ visit' \in [Visitors -> VisitRow] /\ visit'[v].pc = "list"
      /\ \A u \in Visitors \ {v} : visit'[u] = visit[u]
      /\ taken' \in [Jtis \cup Resets -> Nat] /\ taken'[r] = taken[r] + 1
      /\ \A x \in (Jtis \cup Resets) \ {r} : taken'[x] = taken[x]
      /\ resets' \in [Resets -> ResetRow] /\ resets'[r].status = "consumed"
      /\ \A q \in Resets \ {r} : resets'[q] = resets[q]
  BY <1>1, <1>2, <1>3
<1>5. SessionShape' /\ LoginsAccounted'
  BY <1>2, <1>4 DEF SessionInv, SessionShape, LoginsAccounted
<1>6. RotatedOnce' /\ SignedOut'
  BY <1>2, <1>3, <1>4 DEF SessionInv, RotatedOnce, SignedOut, Rotating
<1>7. ConfirmedOnce'
  <2>1. \A u \in Visitors, q \in Resets : Confirming(u, q)' => Confirming(u, q) /\ u # v
    BY <1>4 DEF Confirming
  <2>2. Confirming(v, r)
    BY <1>1 DEF Confirming
  <2>3. ASSUME NEW q \in Resets \ crowded', q # r
        PROVE  /\ taken'[q] <= 1 /\ (taken'[q] > 0 => resets'[q].status = "consumed")
               /\ \A w \in Visitors : Confirming(w, q)' =>
                    taken'[q] = 0 /\ \A u \in Visitors : Confirming(u, q)' => u = w
    BY <1>2, <1>4, <2>1, <2>3 DEF SessionInv, ConfirmedOnce
  <2>4. ASSUME r \notin crowded'
        PROVE  taken'[r] <= 1 /\ \A u \in Visitors : ~Confirming(u, r)'
    <3>1. taken[r] = 0 /\ \A u \in Visitors : Confirming(u, r) => u = v
      BY <1>1, <1>2, <2>2, <2>4 DEF SessionInv, ConfirmedOnce
    <3> QED
      BY <1>1, <1>4, <2>1, <3>1
  <2> QED
    BY <1>4, <2>3, <2>4 DEF ConfirmedOnce
<1> QED
  BY <1>5, <1>6, <1>7 DEF SessionInv

\* A reset token moves on, but never back from its consumption.
LEMMA ResetMoves ==
  ASSUME SessionInv, NEW r \in Resets,
         InitiateReset(r) \/ ExpireReset(r) \/ \E v \in Visitors : WrongOTP(v) /\ visit[v].of = r
  PROVE  /\ resets' \in [Resets -> ResetRow]
         /\ \A q \in Resets : resets[q].status = "consumed" => resets'[q].status = "consumed"
<1>1. resets \in [Resets -> ResetRow] /\ Void \in ResetRow /\ resets[r].failed + 1 \in Nat
  BY DEF SessionInv, SessionShape, ResetRow, Void
<1>2. CASE InitiateReset(r)
  <2>1. resets' = [resets EXCEPT ![r] = [resets[r] EXCEPT !.status = "open"]] /\ resets[r].status = "none"
    BY <1>2 DEF InitiateReset
  <2>2. [resets[r] EXCEPT !.status = "open"] \in ResetRow
    BY <1>1 DEF ResetRow
  <2> QED
    BY <1>1, <2>1, <2>2
<1>3. CASE ExpireReset(r)
  BY <1>1, <1>3 DEF ExpireReset
<1>4. CASE \E v \in Visitors : WrongOTP(v) /\ visit[v].of = r
  <2> DEFINE old == resets[r]
             new == IF old.status # "open" THEN old
                    ELSE IF old.failed + 1 >= MaxAttempts THEN Void
                    ELSE [status |-> "open", failed |-> old.failed + 1]
  <2>0. PICK v \in Visitors : WrongOTP(v) /\ visit[v].of = r
    BY <1>4
  <2>1. resets' = [resets EXCEPT ![r] = new]
    BY <2>0 DEF WrongOTP
  <2>2. new \in ResetRow /\ (old.status = "consumed" => new.status = "consumed")
    BY <1>1 DEF ResetRow
  <2> HIDE DEF new
  <2> QED
    BY <1>1, <2>1, <2>2
<1> QED
  BY <1>2, <1>3, <1>4

LEMMA SessionStepInv == SessionInv /\ SessionNext => SessionInv'
<1> SUFFICES ASSUME SessionInv, SessionNext PROVE SessionInv'
  OBVIOUS
<1>0. SessionShape /\ LoginsAccounted
  BY DEF SessionInv
<1>1. ASSUME NEW v \in Visitors, Login(v) PROVE SessionInv'
  <2>1. [pc |-> "password"] \in [pc : {"password", "reset", "sign", "list"}]
    OBVIOUS
  <2> QED
    BY <1>0, <1>1, <2>1, HandsOff DEF Login, Starts, SessionShape, LoginsAccounted
<1>2. ASSUME NEW v \in Visitors, LoginRefused(v) \/ ResetFailedAttempts(v) \/ VisitFails(v)
      PROVE  SessionInv'
  BY <1>0, <1>2, HandsOff
  DEF LoginRefused, ResetFailedAttempts, VisitFails, Ends, SessionShape, LoginsAccounted
<1>3. ASSUME NEW v \in Visitors, NEW p \in Pairs, CreateSession(v, p) PROVE SessionInv'
  <2>1. /\ visit' = [visit EXCEPT ![v] = [pc |-> "reset"]] /\ issued' = [issued EXCEPT ![p] = "login"]
        /\ listed' = listed \cup {p} /\ UNCHANGED <<revoked, resets, taken, crowded, slipped, lapsed>>
    BY <1>3 DEF CreateSession, IssuePair
  <2>2. issued' \in [Pairs -> {"none", "login", "refresh"}] /\ listed' \subseteq Pairs /\ LoginsAccounted'
    BY <1>0, <2>1 DEF SessionShape, LoginsAccounted
  <2>3. [pc |-> "reset"] \in [pc : {"password", "reset", "sign", "list"}]
    OBVIOUS
  <2> QED
    BY <1>0, <2>1, <2>2, <2>3, HandsOff DEF SessionShape
<1>4. ASSUME NEW v \in Visitors, NEW p \in Pairs, SignNew(v, p) PROVE SessionInv'
  <2>1. /\ visit' = [visit EXCEPT ![v] = Out] /\ issued' = [issued EXCEPT ![p] = "refresh"]
        /\ UNCHANGED <<listed, revoked, resets, taken, crowded, slipped, lapsed>>
    BY <1>4 DEF SignNew, IssuePair, Ends
  <2>2. issued' \in [Pairs -> {"none", "login", "refresh"}] /\ LoginsAccounted'
    BY <1>0, <2>1 DEF SessionShape, LoginsAccounted
  <2> QED
    BY <1>0, <2>1, <2>2, HandsOff DEF SessionShape
<1>5. ASSUME NEW v \in Visitors, CloseAllSessions(v) PROVE SessionInv'
  <2>1. /\ visit[v].pc = "revoke" /\ visit[v].left = {} /\ visit' = [visit EXCEPT ![v] = Out]
        /\ slipped' = slipped \cup (listed \ visit[v].all) /\ listed' = {}
        /\ UNCHANGED <<issued, revoked, resets, taken, crowded, lapsed>>
    BY <1>5 DEF CloseAllSessions, Ends
  <2>2. Signed(visit[v].all) \subseteq revoked \cup lapsed
    BY <2>1 DEF SessionInv, SignedOut
  <2>3. ASSUME NEW k \in Jtis, k[1] \in visit[v].all PROVE k \in Signed(visit[v].all)
    BY <2>3 DEF Signed, Jtis
  <2>4. LoginsAccounted'
    BY <1>0, <2>1, <2>2, <2>3 DEF LoginsAccounted
  <2> QED
    BY <1>0, <2>1, <2>4, HandsOff DEF SessionShape
<1>6. ASSUME NEW v \in Visitors, WrongOTP(v) PROVE SessionInv'
  <2>1. visit[v].of \in Resets
    BY <1>0, <1>6, VisitKinds DEF WrongOTP
  <2>2. /\ resets' \in [Resets -> ResetRow]
        /\ \A q \in Resets : resets[q].status = "consumed" => resets'[q].status = "consumed"
    BY <1>6, <2>1, ResetMoves
  <2>3. visit' = [visit EXCEPT ![v] = Out] /\ UNCHANGED <<issued, listed, revoked, taken, crowded, slipped, lapsed>>
    BY <1>6 DEF WrongOTP, Ends
  <2> QED
    BY <1>0, <2>2, <2>3, HandsOff DEF SessionShape, LoginsAccounted
<1>7. ASSUME NEW r \in Resets, InitiateReset(r) \/ ExpireReset(r) PROVE SessionInv'
  <2>1. /\ resets' \in [Resets -> ResetRow]
        /\ \A q \in Resets : resets[q].status = "consumed" => resets'[q].status = "consumed"
    BY <1>7, ResetMoves
  <2>2. UNCHANGED <<visit, issued, listed, revoked, taken, crowded, slipped, lapsed>>
    BY <1>7 DEF InitiateReset, ExpireReset
  <2>3. SessionShape' /\ LoginsAccounted'
    BY <1>0, <2>1, <2>2 DEF SessionShape, LoginsAccounted
  <2>4. RotatedOnce' /\ SignedOut'
    BY <2>2 DEF SessionInv, RotatedOnce, SignedOut, Rotating
  <2>5. ConfirmedOnce'
    BY <2>1, <2>2 DEF SessionInv, ConfirmedOnce, Confirming
  <2> QED
    BY <2>3, <2>4, <2>5 DEF SessionInv
<1> QED
  BY <1>1, <1>2, <1>3, <1>4, <1>5, <1>6, <1>7, RefreshInv, RotateInv, LapseInv,
     SignOutInv, FindResetInv, ResetAppliedInv
  DEF SessionNext

LEMMA SessionHolds == Spec => []SessionInv
<1>1. Init => SessionInv
  <2> SUFFICES ASSUME Init PROVE SessionInv
    OBVIOUS
  <2>1. /\ \A v \in Visitors : visit[v].pc = "gone"
        /\ visit \in [Visitors -> VisitRow]
    BY DEF Init, SessionInit, VisitRow, Out
  <2>2. \A k \in Jtis : k \in Jtis \cup Resets /\ k[1] \in Pairs
    BY DEF Jtis, Signed
  <2>3. /\ taken = [x \in Jtis \cup Resets |-> 0] /\ issued = [p \in Pairs |-> "none"]
        /\ resets = [r \in Resets |-> [status |-> "none", failed |-> 0]]
        /\ listed = {} /\ revoked = {} /\ crowded = {}
    BY DEF Init, SessionInit
  <2> HIDE DEF Jtis
  <2>4. SessionShape
    BY <2>1, <2>3 DEF SessionShape, ResetRow
  <2>5. RotatedOnce /\ ConfirmedOnce
    BY <2>1, <2>2, <2>3 DEF RotatedOnce, ConfirmedOnce, Rotating, Confirming
  <2>6. SignedOut /\ LoginsAccounted
    BY <2>1, <2>2, <2>3 DEF SignedOut, LoginsAccounted
  <2> QED
    BY <2>4, <2>5, <2>6 DEF SessionInv
<1>2. SessionInv /\ [Next]_vars => SessionInv'
  <2>1. [Next]_vars => SessionNext \/ UNCHANGED sessionVars
    BY DEF Next, vars
  <2>2. SessionInv /\ UNCHANGED sessionVars => SessionInv'
    BY DEF sessionVars, SessionInv, SessionShape, RotatedOnce, ConfirmedOnce, SignedOut, LoginsAccounted,
       Rotating, Confirming
  <2> QED
    BY <2>1, <2>2, SessionStepInv
<1> QED
  BY <1>1, <1>2, PTL DEF Spec

\* Until its revocation lapses a token is exchanged once, and a reset token changes
\* the password once, but for two calls that had it at a time; a token of a login is
\* in an open row, revoked, or was so until that lapsed, but for a login a sign-out
\* overlapped (auth.go:226, :235, password_reset.go:58).
THEOREM SessionsHoldCorrect == Spec => []SessionsHold
<1>1. SessionInv => SessionsHold
  <2> SUFFICES ASSUME SessionInv PROVE SessionsHold
    OBVIOUS
  <2>1. \A x \in Jtis \cup Resets : taken[x] \in Nat
    BY DEF SessionInv, SessionShape
  <2>2. ExchangedOnce
    BY <2>1 DEF SessionInv, RotatedOnce, ExchangedOnce
  <2>3. ResetOnce
    BY <2>1 DEF SessionInv, ConfirmedOnce, ResetOnce
  <2> QED
    BY <2>2, <2>3 DEF SessionInv, SessionsHold
<1> QED
  BY <1>1, SessionHolds, PTL

-----------------------------------------------------------------------------
(* KYC.                                                                    *)

AppRow ==
  {NoApp} \cup [legal : LegalIds, status : {"submitted", "under_review", "approved", "rejected"},
                rejects : Nat]
Draft == [legal : LegalIds, status : {"draft"}, rejects : {0}]
CallRow ==
  {NoCall} \cup [pc : {"legal", "insert"}, user : Applicants, app : Draft]
           \cup [pc : {"decide", "link"}, user : Applicants, verdict : {"approved", "rejected"}]
Linking(w, u) == CallIs(w, "link") /\ call[w].user = u
Inserting(w, l) == CallIs(w, "insert") /\ call[w].app.legal = l
Holds(u, l) == Exists(u) /\ app[u].legal = l

KycShape == app \in [Applicants -> AppRow] /\ call \in [Officers -> CallRow]

\* one identity, one row or one insertion under way
HeldOnce ==
  \A l \in LegalIds \ mishap :
    /\ \A u, v \in Applicants : Holds(u, l) /\ Holds(v, l) => u = v
    /\ \A w \in Officers : Inserting(w, l) =>
         /\ \A v \in Applicants : Holds(v, l) => v = call[w].user
         /\ \A o \in Officers : Inserting(o, l) => o = w

KycInv == KycShape /\ HeldOnce /\ ApprovedIsLinked

LEMMA CallKinds ==
  ASSUME KycShape, NEW w \in Officers
  PROVE  /\ call[w].pc \in {"legal", "insert"} =>
              call[w] \in [pc : {"legal", "insert"}, user : Applicants, app : Draft]
         /\ call[w].pc \in {"decide", "link"} =>
              call[w] \in [pc : {"decide", "link"}, user : Applicants, verdict : {"approved", "rejected"}]
         /\ call = [v \in Officers |-> call[v]] /\ NoCall.pc = "idle" /\ NoCall \in CallRow
  BY DEF KycShape, CallRow, NoCall

\* A row that exists has an identity.
LEMMA RowKinds ==
  ASSUME KycShape, NEW u \in Applicants
  PROVE  /\ Exists(u) => app[u] \in [legal : LegalIds, rejects : Nat,
                                     status : {"submitted", "under_review", "approved", "rejected"}]
         /\ NoApp \in AppRow /\ NoApp.status = "none"
  BY DEF KycShape, AppRow, Exists, NoApp

\* A step that inserts no row and begins no insertion.
LEMMA NothingInserted ==
  ASSUME KycInv, KycShape', mishap \subseteq mishap',
         \A u \in Applicants : Exists(u)' => Exists(u) /\ app'[u].legal = app[u].legal,
         \A w \in Officers : CallIs(w, "insert")' => call'[w] = call[w],
         \A u \in Applicants : app'[u].status = "approved" =>
           u \in linked' \cup mishap' \/ \E w \in Officers : Linking(w, u)'
  PROVE  KycInv'
<1>1. \A u \in Applicants : \A l : Holds(u, l)' => Holds(u, l)
  BY DEF Holds
<1>2. \A w \in Officers : \A l : Inserting(w, l)' => Inserting(w, l) /\ call'[w] = call[w]
  BY DEF Inserting, CallIs
<1>3. HeldOnce'
  BY <1>1, <1>2 DEF KycInv, HeldOnce
<1>4. ApprovedIsLinked'
  BY DEF ApprovedIsLinked, Linking
<1> QED
  BY <1>3, <1>4 DEF KycInv

\* A call goes on, and no row changes.
LEMMA OfficerGoes ==
  ASSUME KycInv, NEW w \in Officers, NEW c \in CallRow, c.pc # "insert",
         call' = [call EXCEPT ![w] = c], app' = app, mishap \subseteq mishap', linked \subseteq linked',
         CallIs(w, "link") => call[w].user \in linked' \cup mishap'
  PROVE  KycInv'
<1>1. call' \in [Officers -> CallRow] /\ call'[w] = c /\ \A v \in Officers \ {w} : call'[v] = call[v]
  BY DEF KycInv, KycShape
<1>2. KycShape' /\ \A v \in Officers : CallIs(v, "insert")' => call'[v] = call[v]
  BY <1>1 DEF KycInv, KycShape, CallIs
<1>3. ASSUME NEW u \in Applicants, app'[u].status = "approved"
      PROVE  u \in linked' \cup mishap' \/ \E v \in Officers : Linking(v, u)'
  <2>1. CASE u \in linked \cup mishap
    BY <2>1
  <2>2. CASE \E v \in Officers : Linking(v, u)
    <3>1. PICK v \in Officers : Linking(v, u)
      BY <2>2
    <3>2. CASE v = w
      BY <3>1, <3>2 DEF Linking
    <3>3. CASE v # w
      BY <1>1, <3>1, <3>3 DEF Linking, CallIs
    <3> QED
      BY <3>2, <3>3
  <2> QED
    BY <1>3, <2>1, <2>2 DEF KycInv, ApprovedIsLinked, Linking
<1>4. \A u \in Applicants : Exists(u)' => Exists(u) /\ app'[u].legal = app[u].legal
  BY DEF Exists
<1> QED
  BY <1>2, <1>3, <1>4, NothingInserted

\* A submission passes the lookup of its identity.
LEMMA LookupPasses ==
  ASSUME KycInv, NEW w \in Officers, CallIs(w, "legal"), CallTo(w, "insert"), app' = app, linked' = linked,
         NEW l \in LegalIds, l = call[w].app.legal,
         \/ mishap' = mishap \cup {l}
         \/ /\ mishap' = mishap /\ ~FindByLegalID(l, call[w].user)
            /\ \A v \in Officers \ {w} : ~Inserting(v, l)
  PROVE  KycInv'
<1>1. call[w] \in [pc : {"legal", "insert"}, user : Applicants, app : Draft]
  BY CallKinds DEF KycInv, CallIs
<1>2. call' = [call EXCEPT ![w] = [call[w] EXCEPT !.pc = "insert"]]
  BY DEF CallTo
<1>3. /\ [call[w] EXCEPT !.pc = "insert"] \in CallRow
      /\ [call[w] EXCEPT !.pc = "insert"].app = call[w].app
      /\ [call[w] EXCEPT !.pc = "insert"].user = call[w].user
      /\ [call[w] EXCEPT !.pc = "insert"].pc = "insert"
  BY <1>1 DEF CallRow
<1>4. /\ call' \in [Officers -> CallRow] /\ call'[w].pc = "insert"
      /\ call'[w].app = call[w].app /\ call'[w].user = call[w].user
      /\ \A v \in Officers \ {w} : call'[v] = call[v]
  BY <1>2, <1>3 DEF KycInv, KycShape
<1>5. KycShape'
  BY <1>4 DEF KycInv, KycShape
<1>6. ApprovedIsLinked'
  <2>1. \A v \in Officers, u \in Applicants : Linking(v, u) => Linking(v, u)'
    BY <1>4 DEF Linking, CallIs
  <2> QED
    BY <2>1 DEF KycInv, ApprovedIsLinked, Linking
<1>7. /\ \A u : \A k : Holds(u, k)' <=> Holds(u, k)
      /\ \A v \in Officers \ {w} : \A k : Inserting(v, k)' <=> Inserting(v, k)
      /\ \A k : Inserting(w, k)' => k = l
  BY <1>4 DEF Holds, Exists, Inserting, CallIs
<1>8. HeldOnce'
  <2>1. ASSUME NEW k \in LegalIds \ mishap', k # l
        PROVE  /\ \A u, v \in Applicants : Holds(u, k)' /\ Holds(v, k)' => u = v
               /\ \A o \in Officers : Inserting(o, k)' =>
                    /\ \A v \in Applicants : Holds(v, k)' => v = call'[o].user
                    /\ \A v \in Officers : Inserting(v, k)' => v = o
    <3>1. k \in LegalIds \ mishap
      OBVIOUS
    <3>2. \A o \in Officers : Inserting(o, k)' => o # w /\ Inserting(o, k) /\ call'[o] = call[o]
      BY <1>4, <1>7, <2>1
    <3> QED
      BY <1>7, <3>1, <3>2 DEF KycInv, HeldOnce
  <2>2. ASSUME l \notin mishap'
        PROVE  /\ \A u, v \in Applicants : Holds(u, l)' /\ Holds(v, l)' => u = v
               /\ \A o \in Officers : Inserting(o, l)' =>
                    /\ \A v \in Applicants : Holds(v, l)' => v = call'[o].user
                    /\ \A v \in Officers : Inserting(v, l)' => v = o
    <3>1. /\ l \notin mishap /\ ~FindByLegalID(l, call[w].user)
          /\ \A v \in Officers \ {w} : ~Inserting(v, l)
      BY <2>2
    <3>2. \A v \in Applicants : Holds(v, l) => v = call[w].user
      BY <3>1 DEF FindByLegalID, Holds
    <3> QED
      BY <1>4, <1>7, <3>1, <3>2
  <2> QED
    BY <2>1, <2>2 DEF HeldOnce
<1> QED
  BY <1>5, <1>6, <1>8 DEF KycInv

\* A row is inserted.
LEMMA RowInserted ==
  ASSUME KycInv, NEW w \in Officers, CallIs(w, "insert"), NEW u \in Applicants, u = call[w].user,
         NEW new, new = [call[w].app EXCEPT !.status = "submitted"], ~Exists(u),
         app' = [app EXCEPT ![u] = new], linked' = linked \ {u}, mishap' = mishap \ {u},
         call' = [call EXCEPT ![w] = NoCall]
  PROVE  KycInv'
<1>1. PICK l \in LegalIds : call[w].app.legal = l /\ call[w].app \in Draft
  BY CallKinds DEF KycInv, CallIs, Draft
<1>2. new \in AppRow /\ new.legal = l /\ new.status = "submitted"
  BY <1>1 DEF Draft, AppRow
<1>3. /\ app' \in [Applicants -> AppRow] /\ app'[u] = new /\ \A v \in Applicants \ {u} : app'[v] = app[v]
      /\ call' \in [Officers -> CallRow] /\ call'[w] = NoCall
      /\ \A v \in Officers \ {w} : call'[v] = call[v]
  BY <1>2, CallKinds DEF KycInv, KycShape
<1>4. KycShape'
  BY <1>3 DEF KycShape
<1>5. ApprovedIsLinked'
  <2>1. SUFFICES ASSUME NEW v \in Applicants, app'[v].status = "approved"
                 PROVE  v \in linked' \cup mishap' \/ \E o \in Officers : Linking(o, v)'
    BY DEF ApprovedIsLinked, Linking
  <2>2. v # u /\ app[v].status = "approved"
    BY <1>2, <1>3, <2>1
  <2>3. v \in linked \cup mishap \/ \E o \in Officers : Linking(o, v)
    BY <2>2 DEF KycInv, ApprovedIsLinked, Linking
  <2>4. \A o \in Officers : Linking(o, v) => Linking(o, v)'
    BY <1>3 DEF Linking, CallIs
  <2> QED
    BY <2>2, <2>3, <2>4
<1>6. /\ \A v \in Applicants \ {u} : \A k : Holds(v, k)' <=> Holds(v, k)
      /\ \A k : Holds(u, k)' => k = l
      /\ \A o \in Officers : \A k : Inserting(o, k)' => o # w /\ Inserting(o, k) /\ call'[o] = call[o]
  BY <1>2, <1>3, CallKinds DEF Holds, Exists, Inserting, CallIs, KycInv
<1>7. \A k \in LegalIds \ mishap' : k \notin mishap
  BY KycAssumption
<1>8. Inserting(w, l) /\ ~Holds(u, l)
  BY <1>1 DEF Inserting, Holds
<1>9. HeldOnce'
  <2>1. SUFFICES ASSUME NEW k \in LegalIds \ mishap'
                 PROVE  /\ \A v, o \in Applicants : Holds(v, k)' /\ Holds(o, k)' => v = o
                        /\ \A o \in Officers : Inserting(o, k)' =>
                             /\ \A v \in Applicants : Holds(v, k)' => v = call'[o].user
                             /\ \A v \in Officers : Inserting(v, k)' => v = o
    BY DEF HeldOnce
  <2>2. k \in LegalIds \ mishap
    BY <1>7
  <2>3. CASE k # l
    <3>1. \A v \in Applicants : Holds(v, k)' => Holds(v, k)
      BY <1>6, <2>3
    <3> QED
      BY <1>6, <2>2, <3>1 DEF KycInv, HeldOnce
  <2>4. CASE k = l
    <3>1. /\ \A v \in Applicants : Holds(v, l) => v = u
          /\ \A o \in Officers : Inserting(o, l) => o = w
      BY <1>8, <2>2, <2>4 DEF KycInv, HeldOnce
    <3> QED
      BY <1>6, <2>4, <3>1
  <2> QED
    BY <2>3, <2>4
<1> QED
  BY <1>4, <1>5, <1>9 DEF KycInv

\* A verdict or a review changes a row and keeps its identity.
LEMMA RowChanges ==
  ASSUME KycInv, NEW u \in Applicants, NEW status \in {"submitted", "under_review", "approved", "rejected"},
         NEW new, new \in AppRow, new.status = status, new.legal = app[u].legal, UpdateApp(u, new),
         linked' = linked, mishap' = mishap, call' \in [Officers -> CallRow],
         \A w \in Officers : CallIs(w, "insert")' => call'[w] = call[w],
         \A w \in Officers, v \in Applicants : Linking(w, v) => Linking(w, v)',
         status = "approved" => app[u].status = "approved" \/ \E w \in Officers : Linking(w, u)'
  PROVE  KycInv'
<1>1. /\ app' \in [Applicants -> AppRow] /\ app'[u] = new /\ Exists(u)
      /\ \A v \in Applicants \ {u} : app'[v] = app[v]
  BY DEF UpdateApp, KycInv, KycShape
<1>2. \A v \in Applicants : Exists(v)' => Exists(v) /\ app'[v].legal = app[v].legal
  BY <1>1 DEF Exists
<1>3. ASSUME NEW v \in Applicants, app'[v].status = "approved"
      PROVE  v \in linked' \cup mishap' \/ \E w \in Officers : Linking(w, v)'
  <2>1. CASE app[v].status = "approved"
    <3>1. v \in linked \cup mishap \/ \E w \in Officers : Linking(w, v)
      BY <2>1 DEF KycInv, ApprovedIsLinked, Linking
    <3> QED
      BY <3>1
  <2>2. CASE app[v].status # "approved"
    <3>1. v = u /\ status = "approved"
      BY <1>1, <1>3, <2>2
    <3> QED
      BY <2>2, <3>1
  <2> QED
    BY <2>1, <2>2
<1> QED
  BY <1>1, <1>2, <1>3, NothingInserted DEF KycShape

LEMMA DecideInv ==
  ASSUME KycInv, NEW w \in Officers, Decide(w)
  PROVE  KycInv'
<1>1. call[w] \in [pc : {"decide", "link"}, user : Applicants, verdict : {"approved", "rejected"}]
      /\ call[w].pc = "decide"
  BY CallKinds DEF KycInv, Decide, CallIs
<1>2. PICK u \in Applicants : u = call[w].user
  BY <1>1
<1> DEFINE old == app[u]
           decided == IF old.status \notin {"submitted", "under_review"} THEN old
                      ELSE IF call[w].verdict = "approved" THEN [old EXCEPT !.status = "approved"]
                      ELSE [old EXCEPT !.status = "rejected", !.rejects = old.rejects + 1]
<1>3. /\ UpdateApp(u, decided) /\ linked' = linked /\ mishap' = mishap
      /\ IF decided.status = "approved" THEN CallTo(w, "link") ELSE CallEnds(w)
  BY <1>2 DEF Decide
<1>4. Exists(u)
  BY <1>3 DEF UpdateApp
<1>5. old \in [legal : LegalIds, rejects : Nat,
               status : {"submitted", "under_review", "approved", "rejected"}]
  BY <1>4, RowKinds DEF KycInv
<1>6. /\ decided \in AppRow /\ decided.legal = old.legal
      /\ decided.status \in {"submitted", "under_review", "approved", "rejected"}
  <2>1. CASE old.status \notin {"submitted", "under_review"}
    BY <1>5, <2>1 DEF AppRow
  <2>2. CASE old.status \in {"submitted", "under_review"} /\ call[w].verdict = "approved"
    <3>1. [old EXCEPT !.status = "approved"] \in AppRow
      BY <1>5 DEF AppRow
    <3>2. decided = [old EXCEPT !.status = "approved"]
      BY <2>2
    <3> QED
      BY <1>5, <3>1, <3>2
  <2>3. CASE old.status \in {"submitted", "under_review"} /\ call[w].verdict # "approved"
    <3> DEFINE new == [old EXCEPT !.status = "rejected", !.rejects = old.rejects + 1]
    <3>0. old.legal \in LegalIds /\ old.rejects \in Nat
      BY <1>5
    <3>1. PICK more \in Nat : more = old.rejects + 1
      BY <3>0
    <3>3. [old EXCEPT !.status = "rejected", !.rejects = more] \in AppRow
      BY <1>5 DEF AppRow
    <3>4. new \in AppRow /\ new.legal = old.legal /\ new.status = "rejected"
      BY <1>5, <3>1, <3>3
    <3>2. decided = new
      BY <2>3
    <3> QED
      BY <3>2, <3>4
  <2> QED
    BY <2>1, <2>2, <2>3
<1> HIDE DEF decided, old
<1>7. CASE decided.status = "approved"
  <2>1. call' = [call EXCEPT ![w] = [call[w] EXCEPT !.pc = "link"]]
    BY <1>3, <1>7 DEF CallTo
  <2>2. [call[w] EXCEPT !.pc = "link"] \in CallRow /\ [call[w] EXCEPT !.pc = "link"].user = u
        /\ [call[w] EXCEPT !.pc = "link"].pc = "link"
    BY <1>1, <1>2 DEF CallRow
  <2>3. /\ call' \in [Officers -> CallRow] /\ call'[w].pc = "link" /\ call'[w].user = u
        /\ \A v \in Officers \ {w} : call'[v] = call[v]
    BY <2>1, <2>2 DEF KycInv, KycShape
  <2>4. /\ \A v \in Officers : CallIs(v, "insert")' => call'[v] = call[v]
        /\ \A v \in Officers, x \in Applicants : Linking(v, x) => Linking(v, x)'
        /\ Linking(w, u)'
    BY <1>1, <2>3 DEF CallIs, Linking
  <2> QED
    BY <1>3, <1>6, <2>3, <2>4, RowChanges DEF old
<1>8. CASE decided.status # "approved"
  <2>1. call' = [call EXCEPT ![w] = NoCall]
    BY <1>3, <1>8 DEF CallEnds
  <2>2. /\ call' \in [Officers -> CallRow] /\ call'[w] = NoCall
        /\ \A v \in Officers \ {w} : call'[v] = call[v]
    BY <2>1, CallKinds DEF KycInv, KycShape
  <2>3. /\ \A v \in Officers : CallIs(v, "insert")' => call'[v] = call[v]
        /\ \A v \in Officers, x \in Applicants : Linking(v, x) => Linking(v, x)'
    BY <1>1, <2>2, CallKinds DEF CallIs, Linking, KycInv
  <2> QED
    BY <1>3, <1>6, <1>8, <2>2, <2>3, RowChanges DEF old
<1> QED
  BY <1>7, <1>8

LEMMA PurgeInv ==
  ASSUME KycInv, NEW batch \in SUBSET Applicants, PurgeColdExpired(batch)
  PROVE  KycInv'
<1>1. /\ app' = [u \in Applicants |-> IF u \in batch THEN NoApp ELSE app[u]]
      /\ call' = [w \in Officers |-> IF CallIs(w, "decide") /\ call[w].user \in batch THEN NoCall ELSE call[w]]
      /\ linked' = linked /\ mishap' = mishap
  BY DEF PurgeColdExpired
<1>2. NoApp \in AppRow /\ NoApp.status = "none" /\ NoCall \in CallRow /\ NoCall.pc = "idle"
  BY DEF AppRow, CallRow, NoApp, NoCall
<1>3. KycShape'
  BY <1>1, <1>2 DEF KycInv, KycShape
<1>4. \A u \in Applicants : /\ Exists(u)' => Exists(u) /\ app'[u] = app[u]
                            /\ app'[u].status = "approved" => app[u].status = "approved"
  BY <1>1, <1>2 DEF Exists
<1>5. /\ \A w \in Officers : CallIs(w, "insert")' => call'[w] = call[w]
      /\ \A w \in Officers, u \in Applicants : Linking(w, u) => Linking(w, u)'
  BY <1>1, <1>2 DEF CallIs, Linking
<1>6. \A u \in Applicants : app[u].status = "approved" =>
        u \in linked \cup mishap \/ \E w \in Officers : Linking(w, u)
  BY DEF KycInv, ApprovedIsLinked, Linking
<1> QED
  BY <1>1, <1>3, <1>4, <1>5, <1>6, NothingInserted

LEMMA KycStepInv == KycInv /\ KycNext => KycInv'
<1> SUFFICES ASSUME KycInv, KycNext PROVE KycInv'
  OBVIOUS
<1>0. NoCall \in CallRow /\ NoCall.pc = "idle"
  BY DEF CallRow, NoCall
<1>1. ASSUME NEW w \in Officers, NEW in \in SubmitInput, SubmitKyc(w, in) PROVE KycInv'
  <2> DEFINE c == [pc |-> "legal", user |-> in.user, app |-> EncryptInto(in)]
  <2>1. c \in CallRow /\ c.pc # "insert"
    BY DEF CallRow, Draft, EncryptInto, SubmitInput
  <2>2. /\ call' = [call EXCEPT ![w] = c] /\ app' = app /\ linked' = linked /\ mishap' = mishap
        /\ ~CallIs(w, "link")
    BY <1>1 DEF SubmitKyc, CallIs
  <2> HIDE DEF c
  <2> QED
    BY <2>1, <2>2, OfficerGoes
<1>2. ASSUME NEW w \in Officers, LookupLegal(w) PROVE KycInv'
  <2>1. PICK l \in LegalIds : l = call[w].app.legal
    BY <1>2, CallKinds DEF LookupLegal, CallIs, KycInv, Draft
  <2>2. CallIs(w, "legal") /\ app' = app /\ linked' = linked /\ ~CallIs(w, "link")
    BY <1>2 DEF LookupLegal, CallIs
  <2>3. CASE CallEnds(w) /\ UNCHANGED mishap
    BY <1>0, <2>2, <2>3, OfficerGoes DEF CallEnds
  <2>4. CASE CallTo(w, "insert") /\ Mishap(l)
    BY <2>1, <2>2, <2>4, LookupPasses DEF Mishap
  <2>5. CASE /\ CallTo(w, "insert") /\ UNCHANGED mishap /\ ~FindByLegalID(l, call[w].user)
             /\ \A v \in Officers \ {w} : ~Inserting(v, l)
    BY <2>1, <2>2, <2>5, LookupPasses
  <2> QED
    BY <1>2, <2>1, <2>3, <2>4, <2>5 DEF LookupLegal, Inserting
<1>3. ASSUME NEW w \in Officers, InsertApp(w) PROVE KycInv'
  <2>1. PICK u \in Applicants : u = call[w].user
    BY <1>3, CallKinds DEF InsertApp, CallIs, KycInv
  <2>2. CallIs(w, "insert") /\ ~CallIs(w, "link") /\ call' = [call EXCEPT ![w] = NoCall]
    BY <1>3 DEF InsertApp, CallIs, CallEnds
  <2>3. CASE UNCHANGED <<app, linked, mishap>>
    BY <1>0, <2>2, <2>3, OfficerGoes
  <2>4. CASE ~UNCHANGED <<app, linked, mishap>>
    <3>1. /\ app' = [app EXCEPT ![u] = [call[w].app EXCEPT !.status = "submitted"]]
          /\ linked' = linked \ {u} /\ mishap' = mishap \ {u} /\ ~Exists(u)
      BY <1>3, <2>1, <2>4 DEF InsertApp, Refused
    <3> QED
      BY <2>1, <2>2, <3>1, RowInserted
  <2> QED
    BY <2>3, <2>4
<1>4. ASSUME NEW w \in Officers, NEW u \in Applicants, NEW verdict \in {"approved", "rejected"},
             ReviewKyc(w, u, verdict)
      PROVE  KycInv'
  <2> DEFINE c == [pc |-> "decide", user |-> u, verdict |-> verdict]
  <2>1. c \in CallRow /\ c.pc # "insert"
    BY DEF CallRow
  <2>2. /\ call' = [call EXCEPT ![w] = c] /\ app' = app /\ linked' = linked /\ mishap' = mishap
        /\ ~CallIs(w, "link")
    BY <1>4 DEF ReviewKyc, CallIs
  <2> HIDE DEF c
  <2> QED
    BY <2>1, <2>2, OfficerGoes
<1>5. ASSUME NEW w \in Officers, Link(w) \/ KycFails(w) PROVE KycInv'
  <2>1. /\ call' = [call EXCEPT ![w] = NoCall] /\ app' = app
        /\ mishap \subseteq mishap' /\ linked \subseteq linked'
        /\ CallIs(w, "link") => call[w].user \in linked' \cup mishap'
    BY <1>5 DEF Link, KycFails, CallEnds, Mishap
  <2> QED
    BY <1>0, <2>1, OfficerGoes
<1>6. ASSUME NEW u \in Applicants, MarkUnderReview(u) PROVE KycInv'
  <2> DEFINE new == [app[u] EXCEPT !.status = "under_review"]
  <2>1. /\ UpdateApp(u, new) /\ UNCHANGED <<call, linked, mishap>>
    BY <1>6 DEF MarkUnderReview
  <2>2. app[u] \in [legal : LegalIds, rejects : Nat,
                    status : {"submitted", "under_review", "approved", "rejected"}]
    BY <2>1, RowKinds DEF UpdateApp, KycInv
  <2>3. new \in AppRow /\ new.status = "under_review" /\ new.legal = app[u].legal
    BY <2>2 DEF AppRow
  <2> HIDE DEF new
  <2>4. /\ call' \in [Officers -> CallRow] /\ \A w \in Officers : CallIs(w, "insert")' => call'[w] = call[w]
        /\ \A w \in Officers, v \in Applicants : Linking(w, v) => Linking(w, v)'
    BY <2>1 DEF KycInv, KycShape, Linking, CallIs
  <2> QED
    BY <2>1, <2>3, <2>4, RowChanges
<1> QED
  BY <1>1, <1>2, <1>3, <1>4, <1>5, <1>6, DecideInv, PurgeInv DEF KycNext

LEMMA IdentityHolds == Spec => []KycInv
<1>1. Init => KycInv
  BY DEF Init, KycInit, KycInv, KycShape, AppRow, CallRow, HeldOnce, ApprovedIsLinked, Holds, Exists,
     Inserting, CallIs, NoApp, NoCall
<1>2. KycInv /\ [Next]_vars => KycInv'
  <2>1. [Next]_vars => KycNext \/ UNCHANGED kycVars
    BY DEF Next, vars
  <2>2. KycInv /\ UNCHANGED kycVars => KycInv'
    BY DEF kycVars, KycInv, KycShape, HeldOnce, ApprovedIsLinked, Holds, Exists, Inserting, CallIs
  <2> QED
    BY <2>1, <2>2, KycStepInv
<1> QED
  BY <1>1, <1>2, PTL DEF Spec

\* Two users hold an identity, or an approved user is not linked, only after the
\* overlap, the failed lookup or the failed linker named (kyc.go:158, :226).
THEOREM KycHoldsCorrect == Spec => []KycHolds
<1>1. KycInv => KycHolds
  <2> SUFFICES ASSUME KycInv PROVE KycHolds
    OBVIOUS
  <2>1. \A u \in Applicants : Exists(u) => app[u].legal \in LegalIds
    BY RowKinds DEF KycInv
  <2>2. OneIdentity
    BY <2>1 DEF KycInv, HeldOnce, Holds, OneIdentity
  <2> QED
    BY <2>2 DEF KycInv, KycHolds
<1> QED
  BY <1>1, IdentityHolds, PTL

-----------------------------------------------------------------------------
(* Payment intents.                                                        *)

HookRow ==
  {Resting} \cup [pc : {"provider"}, trade : Trades]
            \cup [pc : {"claim", "lookup", "write"}, notice : Notice, trade : Trades]
IntentShape ==
  /\ intent \in [Trades -> IntentState]
  /\ provider \in [Trades -> {"none", "open", "settled"}]
  /\ sent \subseteq Notice /\ hook \in [Hooks -> HookRow]

\* a payment is asked for once,
Opening ==
  \A w \in Hooks : At(w, "provider") =>
    /\ provider[hook[w].trade] = "none" /\ intent[hook[w].trade] # "none"
    /\ \A v \in Hooks : At(v, "provider") /\ hook[v].trade = hook[w].trade => v = w
Untouched == \A t \in Trades : intent[t] = "none" => provider[t] = "none"
\* the provider sends a success that fits when it has settled it,
SuccessIsSettled ==
  \A n \in sent : n.status = "success" /\ n.fits => provider[n.trade] = "settled"
\* and a request has one of its notices, which fits when it is written.
NoticeInHand ==
  \A w \in Hooks :
    /\ hook[w].pc \in {"claim", "lookup", "write"} =>
         hook[w].notice \in sent /\ hook[w].notice.trade = hook[w].trade
    /\ At(w, "write") => hook[w].notice.fits

IntentInv == IntentShape /\ Opening /\ Untouched /\ SuccessIsSettled /\ NoticeInHand /\ PaidIsSettled

LEMMA IntentFrame == [Next]_vars => IntentNext \/ UNCHANGED intentVars
  BY DEF Next, vars

LEMMA HookTyped ==
  ASSUME IntentShape, NEW w \in Hooks
  PROVE  /\ At(w, "idle") => hook[w] = Resting
         /\ At(w, "provider") => hook[w] \in [pc : {"provider"}, trade : Trades]
         /\ hook[w].pc \in {"claim", "lookup", "write"} =>
              hook[w] \in [pc : {"claim", "lookup", "write"}, notice : Notice, trade : Trades]
         /\ hook[w].pc \in {"idle", "provider", "claim", "lookup", "write"}
  BY DEF IntentShape, HookRow, At, Resting

\* A request that ends or goes on with its notice.
LEMMA HookStep ==
  ASSUME IntentInv, NEW w \in Hooks, UNCHANGED <<intent, provider, sent>>,
         \/ Rest(w)
         \/ /\ \E pc \in {"lookup", "write"} : To(w, pc) /\ (pc = "write" => hook[w].notice.fits)
            /\ hook[w].pc \in {"claim", "lookup"}
  PROVE  IntentInv'
<1>1. hook[w] \in HookRow /\ hook \in [Hooks -> HookRow]
  BY DEF IntentInv, IntentShape
<1>2. CASE Rest(w)
  <2>1. hook' = [hook EXCEPT ![w] = Resting]
    BY <1>2 DEF Rest
  <2> QED
    BY <1>1, <2>1
    DEF IntentInv, IntentShape, Opening, Untouched, SuccessIsSettled, NoticeInHand, PaidIsSettled, Booked,
        HookRow, Resting, At
<1>3. ASSUME NEW pc \in {"lookup", "write"}, To(w, pc), pc = "write" => hook[w].notice.fits,
             hook[w].pc \in {"claim", "lookup"}
      PROVE  IntentInv'
  <2>1. hook[w] \in [pc : {"claim", "lookup", "write"}, notice : Notice, trade : Trades]
    BY <1>3, HookTyped DEF IntentInv
  <2>2. hook' = [hook EXCEPT ![w] = [hook[w] EXCEPT !.pc = pc]]
    BY <1>3 DEF To
  <2>3. /\ [hook[w] EXCEPT !.pc = pc] \in HookRow
        /\ [hook[w] EXCEPT !.pc = pc].pc = pc
        /\ [hook[w] EXCEPT !.pc = pc].notice = hook[w].notice
        /\ [hook[w] EXCEPT !.pc = pc].trade = hook[w].trade
    BY <2>1 DEF HookRow
  <2>4. /\ hook' \in [Hooks -> HookRow] /\ \A v \in Hooks \ {w} : hook'[v] = hook[v]
        /\ hook'[w].pc = pc /\ hook'[w].notice = hook[w].notice /\ hook'[w].trade = hook[w].trade
    BY <1>1, <2>2, <2>3
  <2>5. Opening'
    BY <1>3, <2>4 DEF IntentInv, Opening, At
  <2>6. NoticeInHand'
    BY <1>3, <2>4 DEF IntentInv, NoticeInHand, At
  <2> QED
    BY <2>4, <2>5, <2>6 DEF IntentInv, IntentShape, Untouched, SuccessIsSettled, PaidIsSettled, Booked
<1> QED
  BY <1>2, <1>3

LEMMA IntentStepInv == IntentInv /\ IntentNext => IntentInv'
<1> SUFFICES ASSUME IntentInv, IntentNext PROVE IntentInv'
  OBVIOUS
<1>0. IntentShape
  BY DEF IntentInv
<1>1. ASSUME NEW w \in Hooks, NEW t \in Trades, CreateTopup(w, t) PROVE IntentInv'
  <2>1. /\ hook' = [hook EXCEPT ![w] = [pc |-> "provider", trade |-> t]]
        /\ intent' = [intent EXCEPT ![t] = "created"] /\ intent[t] = "none" /\ At(w, "idle")
        /\ provider' = provider /\ sent' = sent
    BY <1>1 DEF CreateTopup
  <2>2. IntentShape'
    BY <1>0, <2>1 DEF IntentShape, HookRow, IntentState
  <2>3. hook[w] = Resting /\ provider[t] = "none"
    BY <1>0, <2>1, HookTyped DEF IntentInv, Untouched
  <2>4. \A v \in Hooks : At(v, "provider") => hook[v].trade # t
    BY <2>1 DEF IntentInv, Opening
  <2>5. /\ \A v \in Hooks \ {w} : hook'[v] = hook[v] /\ (At(v, "provider")' <=> At(v, "provider"))
        /\ hook'[w].pc = "provider" /\ hook'[w].trade = t
    BY <1>0, <2>1 DEF IntentShape, At
  <2>6. Opening'
    BY <1>0, <2>1, <2>3, <2>4, <2>5 DEF IntentInv, Opening, IntentShape, At
  <2>7. NoticeInHand'
    BY <2>1, <2>5 DEF IntentInv, NoticeInHand, At
  <2>8. Untouched' /\ SuccessIsSettled' /\ PaidIsSettled'
    BY <1>0, <2>1 DEF IntentInv, Untouched, SuccessIsSettled, PaidIsSettled, Booked, IntentShape
  <2> QED
    BY <2>2, <2>6, <2>7, <2>8 DEF IntentInv
<1>2. ASSUME NEW w \in Hooks, ProviderTopup(w) PROVE IntentInv'
  <2> DEFINE t == hook[w].trade
  <2>1. /\ hook[w] \in [pc : {"provider"}, trade : Trades] /\ At(w, "provider")
        /\ hook' = [hook EXCEPT ![w] = Resting] /\ intent' = intent /\ sent' = sent
        /\ provider' = [provider EXCEPT ![t] = "open"] \/ provider' = provider
    BY <1>0, <1>2, HookTyped DEF ProviderTopup, Rest
  <2>2. t \in Trades /\ provider[t] = "none" /\ intent[t] # "none" /\ ~Booked(t)
    BY <2>1 DEF IntentInv, Opening, PaidIsSettled
  <2>3. IntentShape'
    BY <1>0, <2>1, <2>2 DEF IntentShape, HookRow
  <2>4. \A v \in Hooks \ {w} : hook'[v] = hook[v] /\ (At(v, "provider") => hook[v].trade # t)
    BY <1>0, <2>1 DEF IntentInv, Opening, IntentShape
  <2>5. hook'[w] = Resting /\ ~At(w, "provider")'
    BY <1>0, <2>1 DEF IntentShape, At, Resting
  <2>6. Opening'
    BY <1>0, <2>1, <2>2, <2>4, <2>5, HookTyped DEF IntentInv, Opening, At, IntentShape
  <2>7. NoticeInHand'
    BY <2>1, <2>4, <2>5 DEF IntentInv, NoticeInHand, At, Resting
  <2>8. Untouched' /\ PaidIsSettled'
    BY <1>0, <2>1, <2>2 DEF IntentInv, Untouched, PaidIsSettled, Booked, IntentShape
  <2>9. SuccessIsSettled'
    BY <1>0, <2>1, <2>2 DEF IntentInv, SuccessIsSettled, IntentShape, Notice
  <2> QED
    BY <2>3, <2>6, <2>7, <2>8, <2>9 DEF IntentInv
<1>3. ASSUME NEW n \in Notice, Notify(n) PROVE IntentInv'
  BY <1>3 DEF Notify, IntentInv, IntentShape, Opening, Untouched, SuccessIsSettled, NoticeInHand,
              PaidIsSettled, Booked, At
<1>4. ASSUME NEW t \in Trades, Settle(t) PROVE IntentInv'
  <2>1. Success(t) \in Notice /\ Success(t).trade = t
    BY IntentAssumption DEF Success, Notice
  <2>2. /\ intent' = intent /\ hook' = hook /\ sent' = sent \cup {Success(t)}
        /\ provider' = [provider EXCEPT ![t] = "settled"] /\ provider[t] = "open"
    BY <1>4 DEF Settle
  <2>3. IntentShape'
    BY <1>0, <2>1, <2>2 DEF IntentShape
  <2>4. Opening' /\ Untouched' /\ PaidIsSettled'
    BY <1>0, <2>2, HookTyped
    DEF IntentInv, IntentShape, Opening, Untouched, PaidIsSettled, Booked, At
  <2>5. SuccessIsSettled' /\ NoticeInHand'
    BY <1>0, <2>1, <2>2 DEF IntentInv, IntentShape, SuccessIsSettled, NoticeInHand, At, Notice
  <2> QED
    BY <2>3, <2>4, <2>5 DEF IntentInv
<1>5. ASSUME NEW w \in Hooks, NEW n \in Notice, Deliver(w, n) PROVE IntentInv'
  <2>1. /\ hook' = [hook EXCEPT ![w] = [pc |-> "claim", notice |-> n, trade |-> n.trade]]
        /\ n \in sent /\ n.trade \in Trades /\ UNCHANGED <<intent, provider, sent>>
    BY <1>5 DEF Deliver, Notice
  <2>2. /\ hook' \in [Hooks -> HookRow] /\ \A v \in Hooks \ {w} : hook'[v] = hook[v]
        /\ hook'[w] = [pc |-> "claim", notice |-> n, trade |-> n.trade]
    BY <1>0, <2>1 DEF IntentShape, HookRow
  <2>3. Opening' /\ NoticeInHand'
    BY <2>1, <2>2 DEF IntentInv, Opening, NoticeInHand, At
  <2> QED
    BY <2>1, <2>2, <2>3
    DEF IntentInv, IntentShape, Untouched, SuccessIsSettled, PaidIsSettled, Booked
<1>6. ASSUME NEW w \in Hooks, Claim(w) \/ Lookup(w) \/ HookFails(w) PROVE IntentInv'
  <2>1. /\ UNCHANGED <<intent, provider, sent>>
        /\ \/ Rest(w)
           \/ /\ \E pc \in {"lookup", "write"} : To(w, pc) /\ (pc = "write" => hook[w].notice.fits)
              /\ hook[w].pc \in {"claim", "lookup"}
    BY <1>6 DEF Claim, Lookup, HookFails, Answer, VerifyCallback, At
  <2> QED
    BY <2>1, HookStep
<1>7. ASSUME NEW w \in Hooks, UpdateState(w) PROVE IntentInv'
  <2> DEFINE n == hook[w].notice
  <2>1. /\ At(w, "write") /\ provider' = provider /\ sent' = sent
        /\ hook' = [hook EXCEPT ![w] = Resting]
        /\ intent' = [intent EXCEPT ![n.trade] = IF n.status = "success" THEN "paid" ELSE "failed"]
    BY <1>7 DEF UpdateState, Answer, Rest
  <2>2. n \in sent /\ n.fits /\ n \in Notice /\ n.trade \in Trades
    BY <1>0, <2>1 DEF IntentInv, NoticeInHand, At, IntentShape, Notice
  <2>3. n.status = "success" => provider[n.trade] = "settled"
    BY <2>2 DEF IntentInv, SuccessIsSettled
  <2>4. IntentShape'
    BY <1>0, <2>1, <2>2 DEF IntentShape, HookRow, IntentState
  <2>5. /\ \A v \in Hooks \ {w} : hook'[v] = hook[v] /\ hook'[w] = Resting
        /\ \A t \in Trades \ {n.trade} : intent'[t] = intent[t]
        /\ intent'[n.trade] = IF n.status = "success" THEN "paid" ELSE "failed"
    BY <1>0, <2>1, <2>2 DEF IntentShape
  <2>6. Opening' /\ NoticeInHand'
    BY <1>0, <2>1, <2>2, <2>5, HookTyped DEF IntentInv, Opening, NoticeInHand, At, Resting
  <2>7. Untouched' /\ SuccessIsSettled' /\ PaidIsSettled'
    BY <2>1, <2>2, <2>3, <2>5 DEF IntentInv, Untouched, SuccessIsSettled, PaidIsSettled, Booked
  <2> QED
    BY <2>4, <2>6, <2>7 DEF IntentInv
<1>8. ASSUME NEW t \in Trades, MarkFunded(t) PROVE IntentInv'
  BY <1>0, <1>8 DEF MarkFunded, IntentInv, IntentShape, IntentState, Opening, Untouched,
     SuccessIsSettled, NoticeInHand, PaidIsSettled, Booked, At
<1> QED
  BY <1>1, <1>2, <1>3, <1>4, <1>5, <1>6, <1>7, <1>8 DEF IntentNext, HandleCallback

LEMMA IntentHolds == Spec => []IntentInv
<1>1. Init => IntentInv
  BY DEF Init, IntentInit, IntentInv, IntentShape, HookRow, IntentState, Opening, Untouched,
     SuccessIsSettled, NoticeInHand, PaidIsSettled, Booked, At, Resting
<1>2. IntentInv /\ [Next]_vars => IntentInv'
  <2>1. IntentInv /\ UNCHANGED intentVars => IntentInv'
    BY DEF intentVars, IntentInv, IntentShape, Opening, Untouched, SuccessIsSettled, NoticeInHand,
       PaidIsSettled, Booked, At
  <2> QED
    BY <2>1, IntentFrame, IntentStepInv
<1> QED
  BY <1>1, <1>2, PTL DEF Spec

-----------------------------------------------------------------------------
(* Refunds.  Tails are what a refund has still to do, Before what it has    *)
(* behind it.                                                              *)

R3 == <<"wallet", "repay", "notify">>
R2 == <<"repay", "notify">>
R1 == <<"notify">>
Tails == {RefundSteps, R3, R2, R1, <<>>}
Doings == {"reverse", "wallet", "repay", "notify"}
Before(steps) ==
  IF steps = RefundSteps THEN {} ELSE IF steps = R3 THEN {"reverse"}
  ELSE IF steps = R2 THEN {"reverse", "wallet"}
  ELSE IF steps = R1 THEN {"reverse", "wallet", "repay"} ELSE Doings

LEMMA Lengths ==
  /\ Len(RefundSteps) = 4 /\ Len(R3) = 3 /\ Len(R2) = 2 /\ Len(R1) = 1 /\ Len(<<>>) = 0
  /\ Head(RefundSteps) = "reverse" /\ Head(R3) = "wallet" /\ Head(R2) = "repay" /\ Head(R1) = "notify"
  BY DEF RefundSteps, R3, R2, R1

LEMMA TailsOf ==
  Tail(RefundSteps) = R3 /\ Tail(R3) = R2 /\ Tail(R2) = R1 /\ Tail(R1) = <<>>
  BY DEF RefundSteps, R3, R2, R1

LEMMA RefundGoesOn ==
  ASSUME NEW steps \in Tails, steps # <<>>
  PROVE  /\ Tail(steps) \in Tails /\ Head(steps) \in Doings \ Before(steps)
         /\ Before(Tail(steps)) = Before(steps) \cup {Head(steps)}
         /\ Len(steps) = 1 <=> Tail(steps) = <<>>
         /\ Head(steps) = "repay" => Before(steps) = {"reverse", "wallet"}
         /\ Before(<<>>) = Doings
<1>1. /\ RefundSteps # R3 /\ RefundSteps # R2 /\ RefundSteps # R1 /\ RefundSteps # <<>>
      /\ R3 # R2 /\ R3 # R1 /\ R3 # <<>> /\ R2 # R1 /\ R2 # <<>> /\ R1 # <<>>
  BY Lengths
<1>2. /\ Before(RefundSteps) = {} /\ Before(R3) = {"reverse"} /\ Before(R2) = {"reverse", "wallet"}
      /\ Before(R1) = {"reverse", "wallet", "repay"} /\ Before(<<>>) = Doings
  BY <1>1 DEF Before
<1>3. CASE steps = RefundSteps
  <2>1. Head(steps) = "reverse" /\ Tail(steps) = R3 /\ Len(steps) = 4
    BY <1>3, Lengths, TailsOf
  <2>2. Tail(steps) \in Tails /\ (Len(steps) = 1 <=> Tail(steps) = <<>>)
    BY <1>1, <2>1 DEF Tails
  <2>3. Head(steps) \in Doings \ Before(steps)
    BY <1>2, <1>3, <2>1 DEF Doings
  <2>4. Before(Tail(steps)) = Before(steps) \cup {Head(steps)}
    BY <1>2, <1>3, <2>1 DEF Doings
  <2> QED
    BY <1>2, <1>3, <2>1, <2>2, <2>3, <2>4
<1>4. CASE steps = R3
  <2>1. Head(steps) = "wallet" /\ Tail(steps) = R2 /\ Len(steps) = 3
    BY <1>4, Lengths, TailsOf
  <2>2. Tail(steps) \in Tails /\ (Len(steps) = 1 <=> Tail(steps) = <<>>)
    BY <1>1, <2>1 DEF Tails
  <2>3. Head(steps) \in Doings \ Before(steps)
    BY <1>2, <1>4, <2>1 DEF Doings
  <2>4. Before(Tail(steps)) = Before(steps) \cup {Head(steps)}
    BY <1>2, <1>4, <2>1 DEF Doings
  <2> QED
    BY <1>2, <1>4, <2>1, <2>2, <2>3, <2>4
<1>5. CASE steps = R2
  <2>1. Head(steps) = "repay" /\ Tail(steps) = R1 /\ Len(steps) = 2
    BY <1>5, Lengths, TailsOf
  <2>2. Tail(steps) \in Tails /\ (Len(steps) = 1 <=> Tail(steps) = <<>>)
    BY <1>1, <2>1 DEF Tails
  <2>3. Head(steps) \in Doings \ Before(steps)
    BY <1>2, <1>5, <2>1 DEF Doings
  <2>4. Before(Tail(steps)) = Before(steps) \cup {Head(steps)}
    BY <1>2, <1>5, <2>1 DEF Doings
  <2> QED
    BY <1>2, <1>5, <2>1, <2>2, <2>3, <2>4
<1>6. CASE steps = R1
  <2>1. Head(steps) = "notify" /\ Tail(steps) = <<>> /\ Len(steps) = 1
    BY <1>6, Lengths, TailsOf
  <2>2. Tail(steps) \in Tails /\ (Len(steps) = 1 <=> Tail(steps) = <<>>)
    BY <1>1, <2>1 DEF Tails
  <2>3. Head(steps) \in Doings \ Before(steps)
    BY <1>2, <1>6, <2>1 DEF Doings
  <2>4. Before(Tail(steps)) = Before(steps) \cup {Head(steps)}
    BY <1>2, <1>6, <2>1 DEF Doings
  <2> QED
    BY <1>2, <1>6, <2>1, <2>2, <2>3, <2>4
<1> QED
  BY <1>3, <1>4, <1>5, <1>6 DEF Tails

Pcs == {"read", "start", "call", "commit", "fail", "end"}
TopupHand(h) ==
  \E steps : h \in [op : {"initiate", "callback", "fund"}, saga : Topups, steps : {steps},
                    pc : Pcs, ok : BOOLEAN]
ReaderHand == [op : {"accept"}, pc : {"accept"}, dispute : Disputes]
RefundHand ==
  [op : {"accept"}, pc : Pcs, dispute : Disputes, saga : Refunds, steps : Tails, ok : BOOLEAN]
HandRow(h) == h = Free \/ TopupHand(h) \/ h \in ReaderHand \/ h \in RefundHand
Refunding(w) == hand[w] \in RefundHand

RefundShape ==
  /\ hand = [w \in Hands |-> hand[w]] /\ \A w \in Hands : HandRow(hand[w])
  /\ row \in [Sagas -> [StepNames -> StepStatus]]
  /\ done = [s \in Sagas |-> done[s]] /\ \A s \in Refunds : done[s] \subseteq Doings
  /\ dispute \in [Disputes -> DisputeStatus] /\ launched \in [Disputes -> SUBSET Refunds]

\* a launch has its saga to itself, has done what is behind it and, when it
\* ends well, everything;
OnItsWay ==
  \A w \in Hands : Refunding(w) =>
    /\ hand[w].saga \in launched[hand[w].dispute]
    /\ Before(hand[w].steps) \subseteq done[hand[w].saga]
    /\ hand[w].pc = "commit" => Head(hand[w].steps) \in done[hand[w].saga]
    /\ hand[w].pc # "end" => hand[w].steps # <<>>
    /\ hand[w].pc = "end" /\ hand[w].ok => hand[w].steps = <<>>
    /\ \A v \in Hands : Refunding(v) /\ hand[v].saga = hand[w].saga => v = w
\* a row is committed behind its operation;
RowsBacked == \A s \in Refunds, x \in Doings : row[s][x] = "committed" => x \in done[s]
\* a dispute has no launch before it is accepted, and one afterwards,
OneLaunch ==
  \A d \in Disputes :
    /\ dispute[d] \in {"none", "submitted", "reviewing", "rejected"} => launched[d] = {}
    /\ \E s : launched[d] \subseteq {s}
\* which did everything when the dispute is closed.
ClosedIsRepaid ==
  \A d \in Disputes : dispute[d] = "refunded" => \E s \in launched[d] : Doings \subseteq done[s]
RefundInv ==
  RefundShape /\ OnItsWay /\ RowsBacked /\ OneLaunch /\ ClosedIsRepaid /\ RefundInOrder

\* A hand that is not at a refund, and stays away, changes no refund.
LEMMA AsideInv ==
  ASSUME RefundInv, NEW w \in Hands, hand' = [v \in Hands |-> hand'[v]],
         \A v \in Hands \ {w} : hand'[v] = hand[v], HandRow(hand'[w]), hand'[w] \notin RefundHand,
         row' \in [Sagas -> [StepNames -> StepStatus]], done' = [s \in Sagas |-> done'[s]],
         \A s \in Refunds : row'[s] = row[s] /\ done'[s] = done[s], UNCHANGED disputeVars
  PROVE  RefundInv'
<1>1. RefundShape'
  BY DEF RefundInv, RefundShape, disputeVars
<1>2. \A v \in Hands : Refunding(v)' => Refunding(v) /\ hand'[v] = hand[v] /\ hand[v].saga \in Refunds
  BY DEF Refunding, RefundHand
<1>3. OnItsWay'
  <2>1. SUFFICES ASSUME NEW v \in Hands, Refunding(v)'
                 PROVE  /\ hand[v].saga \in launched[hand[v].dispute]
                        /\ Before(hand[v].steps) \subseteq done'[hand[v].saga]
                        /\ hand[v].pc = "commit" => Head(hand[v].steps) \in done'[hand[v].saga]
                        /\ hand[v].pc # "end" => hand[v].steps # <<>>
                        /\ hand[v].pc = "end" /\ hand[v].ok => hand[v].steps = <<>>
                        /\ \A u \in Hands : Refunding(u) /\ hand[u].saga = hand[v].saga => u = v
    BY <1>2 DEF OnItsWay, disputeVars
  <2>2. Refunding(v) /\ hand[v].saga \in Refunds
    BY <1>2, <2>1
  <2> QED
    BY <2>2 DEF RefundInv, OnItsWay
<1>4. \A s \in Refunds : row'[s] = row[s] /\ done'[s] = done[s]
  OBVIOUS
<1>5. dispute' = dispute /\ launched' = launched
  BY DEF disputeVars
<1>6. RowsBacked' /\ RefundInOrder'
  BY <1>4 DEF RefundInv, RowsBacked, RefundInOrder
<1>7. OneLaunch'
  BY <1>5 DEF RefundInv, OneLaunch
<1>8. ClosedIsRepaid'
  BY <1>4, <1>5 DEF RefundInv, RefundShape, ClosedIsRepaid
<1> QED
  BY <1>1, <1>3, <1>6, <1>7, <1>8 DEF RefundInv

\* A hand at a refund goes on.
MovedOn(w, pc, steps, ok) ==
  /\ hand' = [v \in Hands |-> hand'[v]] /\ \A v \in Hands \ {w} : hand'[v] = hand[v]
  /\ hand'[w] \in RefundHand
  /\ hand'[w].pc = pc /\ hand'[w].steps = steps /\ hand'[w].ok = ok
  /\ hand'[w].saga = hand[w].saga /\ hand'[w].dispute = hand[w].dispute

LEMMA OneHandMoves ==
  ASSUME RefundInv, NEW w \in Hands, Refunding(w)
  PROVE  /\ \A pc \in Pcs : Turn(w, pc) => MovedOn(w, pc, hand[w].steps, hand[w].ok)
         /\ Give(w) => MovedOn(w, "end", hand[w].steps, FALSE)
         /\ Further(w) /\ hand[w].pc # "end" =>
              MovedOn(w, IF Tail(hand[w].steps) = <<>> THEN "end" ELSE "read", Tail(hand[w].steps), hand[w].ok)
<1>1. hand = [v \in Hands |-> hand[v]] /\ hand[w] \in RefundHand
  BY DEF RefundInv, RefundShape, Refunding
<1>2. ASSUME NEW pc \in Pcs, Turn(w, pc) PROVE MovedOn(w, pc, hand[w].steps, hand[w].ok)
  <2>1. hand' = [hand EXCEPT ![w] = [hand[w] EXCEPT !.pc = pc]]
    BY <1>2 DEF Turn
  <2>2. [hand[w] EXCEPT !.pc = pc] \in RefundHand
    BY <1>1 DEF RefundHand
  <2> QED
    BY <1>1, <2>1, <2>2 DEF MovedOn, RefundHand
<1>3. ASSUME Give(w) PROVE MovedOn(w, "end", hand[w].steps, FALSE)
  <2>1. hand' = [hand EXCEPT ![w] = [hand[w] EXCEPT !.pc = "end", !.ok = FALSE]]
    BY <1>3 DEF Give
  <2>2. [hand[w] EXCEPT !.pc = "end", !.ok = FALSE] \in RefundHand
    BY <1>1 DEF RefundHand, Pcs
  <2> QED
    BY <1>1, <2>1, <2>2 DEF MovedOn, RefundHand
<1>4. ASSUME Further(w), hand[w].pc # "end"
      PROVE  MovedOn(w, IF Tail(hand[w].steps) = <<>> THEN "end" ELSE "read", Tail(hand[w].steps), hand[w].ok)
  <2> DEFINE steps == hand[w].steps
             h == [hand[w] EXCEPT !.steps = Tail(steps), !.pc = IF Len(steps) = 1 THEN "end" ELSE "read"]
  <2>1. hand' = [hand EXCEPT ![w] = h]
    BY <1>4 DEF Further
  <2>2. steps \in Tails /\ steps # <<>>
    BY <1>1, <1>4 DEF RefundInv, OnItsWay, RefundHand, Refunding
  <2>3. Tail(steps) \in Tails /\ (Len(steps) = 1 <=> Tail(steps) = <<>>)
    BY <2>2, RefundGoesOn
  <2>4. h \in RefundHand /\ h.pc = (IF Len(steps) = 1 THEN "end" ELSE "read") /\ h.steps = Tail(steps)
        /\ h.ok = hand[w].ok /\ h.saga = hand[w].saga /\ h.dispute = hand[w].dispute
    BY <1>1, <2>3 DEF RefundHand, Pcs
  <2> HIDE DEF h
  <2> QED
    BY <1>1, <2>1, <2>3, <2>4 DEF MovedOn
<1> QED
  BY <1>2, <1>3, <1>4

\* What a refund must see to when it goes on.
LEMMA RefundMoves ==
  ASSUME RefundInv, NEW w \in Hands, Refunding(w), NEW r, r = hand[w].saga,
         NEW pc \in Pcs, NEW steps \in Tails, NEW ok \in BOOLEAN, MovedOn(w, pc, steps, ok),
         row' \in [Sagas -> [StepNames -> StepStatus]], done' = [s \in Sagas |-> done'[s]],
         \A s \in Refunds \ {r} : row'[s] = row[s] /\ done'[s] = done[s], UNCHANGED disputeVars,
         done[r] \subseteq done'[r], done'[r] \subseteq Doings,
         \A x \in Doings : row'[r][x] = "committed" => x \in done'[r],
         Before(steps) \subseteq done'[r], pc = "commit" => Head(steps) \in done'[r],
         pc # "end" => steps # <<>>, pc = "end" /\ ok => steps = <<>>,
         "repay" \in done'[r] => {"reverse", "wallet"} \subseteq done'[r]
  PROVE  RefundInv'
<1>1. /\ hand' = [v \in Hands |-> hand'[v]] /\ \A v \in Hands \ {w} : hand'[v] = hand[v]
      /\ hand'[w] \in RefundHand /\ hand'[w].pc = pc /\ hand'[w].steps = steps /\ hand'[w].ok = ok
      /\ hand'[w].saga = r /\ hand'[w].dispute = hand[w].dispute
  BY DEF MovedOn
<1>2. dispute' = dispute /\ launched' = launched /\ r \in Refunds
  BY DEF disputeVars, Refunding, RefundHand
<1>3. \A s \in Refunds : done[s] \subseteq done'[s] /\ done'[s] \subseteq Doings
  BY DEF RefundInv, RefundShape
<1>4. RefundShape'
  BY <1>1, <1>2, <1>3 DEF RefundInv, RefundShape, HandRow
<1>5. \A v \in Hands : Refunding(v)' =>
        Refunding(v) /\ hand'[v].saga = hand[v].saga /\ hand[v].saga \in Refunds
  BY <1>1 DEF Refunding, RefundHand
<1>6. OnItsWay'
  <2>1. SUFFICES ASSUME NEW v \in Hands, Refunding(v)'
                 PROVE  /\ hand'[v].saga \in launched[hand'[v].dispute]
                        /\ Before(hand'[v].steps) \subseteq done'[hand'[v].saga]
                        /\ hand'[v].pc = "commit" => Head(hand'[v].steps) \in done'[hand'[v].saga]
                        /\ hand'[v].pc # "end" => hand'[v].steps # <<>>
                        /\ hand'[v].pc = "end" /\ hand'[v].ok => hand'[v].steps = <<>>
                        /\ \A u \in Hands : Refunding(u)' /\ hand'[u].saga = hand'[v].saga => u = v
    BY <1>2 DEF OnItsWay
  <2>2. \A u \in Hands : Refunding(u)' /\ hand'[u].saga = hand'[v].saga => u = v
    BY <1>5, <2>1 DEF RefundInv, OnItsWay
  <2>3. CASE v = w
    BY <1>1, <2>2, <2>3 DEF RefundInv, OnItsWay
  <2>4. CASE v # w
    <3>1. hand'[v] = hand[v] /\ Refunding(v) /\ hand[v].saga \in Refunds
      BY <1>1, <1>5, <2>1, <2>4
    <3> QED
      BY <1>3, <2>2, <3>1 DEF RefundInv, OnItsWay
  <2> QED
    BY <2>3, <2>4
<1>7. RowsBacked' /\ RefundInOrder'
  BY DEF RefundInv, RowsBacked, RefundInOrder
<1>8. OneLaunch' /\ ClosedIsRepaid'
  <2>1. OneLaunch'
    BY <1>2 DEF RefundInv, OneLaunch
  <2>2. ASSUME NEW d \in Disputes, dispute[d] = "refunded" PROVE \E s \in launched[d] : Doings \subseteq done'[s]
    <3>1. PICK s \in launched[d] : Doings \subseteq done[s]
      BY <2>2 DEF RefundInv, ClosedIsRepaid
    <3>2. s \in Refunds
      BY DEF RefundInv, RefundShape
    <3> QED
      BY <1>3, <3>1, <3>2
  <2> QED
    BY <1>2, <2>1, <2>2 DEF ClosedIsRepaid
<1> QED
  BY <1>4, <1>6, <1>7, <1>8 DEF RefundInv

LEMMA RefundRuns ==
  ASSUME RefundInv, NEW w \in Hands, Refunding(w), RunSaga(w) \/ StoreFails(w), UNCHANGED disputeVars
  PROVE  RefundInv'
<1> DEFINE r == hand[w].saga  steps == hand[w].steps  ok == hand[w].ok  x == Step(w)
           done2 == done[r] \cup {x}
<1>1. /\ hand[w] \in RefundHand /\ r \in Refunds /\ r \in Sagas /\ steps \in Tails /\ ok \in BOOLEAN
      /\ hand[w].pc \in Pcs
  BY DEF Refunding, RefundHand, Sagas
<1>2. /\ Before(steps) \subseteq done[r] /\ done[r] \subseteq Doings
      /\ \A y \in Doings : row[r][y] = "committed" => y \in done[r]
      /\ "repay" \in done[r] => {"reverse", "wallet"} \subseteq done[r]
      /\ hand[w].pc # "end" => steps # <<>>
      /\ hand[w].pc = "commit" => x \in done[r]
      /\ row \in [Sagas -> [StepNames -> StepStatus]] /\ done = [s \in Sagas |-> done[s]]
  BY <1>1 DEF RefundInv, RefundShape, OnItsWay, RowsBacked, RefundInOrder, Step
<1>3. hand[w].pc \in {"read", "start", "call", "commit", "fail"} /\ steps # <<>>
  BY <1>2 DEF RunSaga, StoreFails, ReadRow, SaveStart, CallStep, SaveCommit, SaveFail, Is
<1>4. /\ x \in Doings /\ x \in StepNames /\ Tail(steps) \in Tails
      /\ Before(Tail(steps)) = Before(steps) \cup {x}
      /\ x = "repay" => Before(steps) = {"reverse", "wallet"}
      /\ Tail(steps) = <<>> \/ Tail(steps) # <<>>
  BY <1>1, <1>3, RefundGoesOn DEF Step, Doings, StepNames
<1>5. ASSUME NEW v \in StepStatus, SetRow(w, v), v = "committed" => x \in done[r]
      PROVE  /\ row' \in [Sagas -> [StepNames -> StepStatus]]
             /\ \A s \in Refunds \ {r} : row'[s] = row[s]
             /\ \A y \in Doings : row'[r][y] = "committed" => y \in done[r]
  <2>1. row' = [row EXCEPT ![r] = [row[r] EXCEPT ![x] = v]]
    BY <1>5 DEF SetRow
  <2>2. [row[r] EXCEPT ![x] = v] \in [StepNames -> StepStatus]
    BY <1>1, <1>2
  <2>3. row' \in [Sagas -> [StepNames -> StepStatus]] /\ (\A s \in Refunds \ {r} : row'[s] = row[s])
        /\ row'[r] = [row[r] EXCEPT ![x] = v]
    BY <1>1, <1>2, <2>1, <2>2 DEF Sagas
  <2> QED
    BY <1>1, <1>2, <1>4, <1>5, <2>3 DEF Doings, StepNames
<1>6. ASSUME Effect(w)
      PROVE  /\ done' = [s \in Sagas |-> done'[s]] /\ \A s \in Refunds \ {r} : done'[s] = done[s]
             /\ done'[r] = done2
  <2>1. done' = [done EXCEPT ![r] = done2]
    BY <1>6 DEF Effect
  <2> HIDE DEF done2, r
  <2> QED
    BY <1>1, <1>2, <2>1 DEF Sagas
<1>7. /\ done[r] \subseteq done2 /\ done2 \subseteq Doings /\ x \in done2
      /\ "repay" \in done2 => {"reverse", "wallet"} \subseteq done2
      /\ Before(steps) \subseteq done2
  BY <1>2, <1>4
<1>8. Further(w) => MovedOn(w, IF Tail(steps) = <<>> THEN "end" ELSE "read", Tail(steps), ok)
  BY <1>3, OneHandMoves
<1>9. Give(w) => MovedOn(w, "end", steps, FALSE)
  BY OneHandMoves
<1>10. \A pc \in Pcs : Turn(w, pc) => MovedOn(w, pc, steps, ok)
  BY OneHandMoves
<1> HIDE DEF r, steps, ok, x, done2
<1>11. ASSUME Further(w), x \in done[r], UNCHANGED done,
              row' \in [Sagas -> [StepNames -> StepStatus]],
              \A s \in Refunds \ {r} : row'[s] = row[s],
              \A y \in Doings : row'[r][y] = "committed" => y \in done[r]
       PROVE  RefundInv'
  <2> DEFINE next == Tail(steps)
  <2>1. Before(next) \subseteq done[r] /\ next \in Tails
    BY <1>2, <1>4, <1>11
  <2>2. next = <<>> => MovedOn(w, "end", next, ok)
    BY <1>8, <1>11
  <2>3. next # <<>> => MovedOn(w, "read", next, ok)
    BY <1>8, <1>11
  <2> HIDE DEF next
  <2>4. ASSUME NEW none \in Tails, none = <<>>, MovedOn(w, "end", none, ok), Before(none) \subseteq done[r]
        PROVE  RefundInv'
    BY <1>1, <1>2, <1>11, <2>4, RefundMoves DEF r, Pcs
  <2>5. CASE next # <<>>
    <3>1. "read" \in Pcs /\ "read" # "commit" /\ "read" # "end" /\ MovedOn(w, "read", next, ok)
      BY <2>3, <2>5 DEF Pcs
    <3> QED
      BY <1>1, <1>2, <1>11, <2>1, <2>5, <3>1, RefundMoves DEF r
  <2> QED
    BY <2>1, <2>2, <2>4, <2>5
<1>12. CASE ReadRow(w)
  <2>1. ASSUME row[r][x] = "committed", Further(w), UNCHANGED <<row, done>> PROVE RefundInv'
    BY <1>2, <1>4, <1>11, <2>1
  <2>2. ASSUME Give(w), UNCHANGED <<row, done>> PROVE RefundInv'
    BY <1>1, <1>2, <1>9, <2>2, RefundMoves DEF Pcs, r
  <2>3. ASSUME Turn(w, "start"), UNCHANGED <<row, done>> PROVE RefundInv'
    BY <1>1, <1>2, <1>3, <1>10, <2>3, RefundMoves DEF Pcs, r
  <2> QED
    BY <1>12, <2>1, <2>2, <2>3 DEF ReadRow, r, x
<1>17. CASE SaveStart(w)
  <2>1. SetRow(w, "in_progress") /\ Turn(w, "call") /\ UNCHANGED done
    BY <1>17 DEF SaveStart
  <2> QED
    BY <1>1, <1>2, <1>3, <1>5, <1>10, <2>1, RefundMoves DEF Pcs, StepStatus, r
<1>13. CASE CallStep(w)
  <2>1. ASSUME Effect(w), Turn(w, "commit") \/ Turn(w, "fail"), UNCHANGED row PROVE RefundInv'
    <3>1. x = Head(steps)
      BY DEF x, steps, Step
    <3>2. PICK pc \in {"commit", "fail"} : Turn(w, pc)
      BY <2>1
    <3>3. /\ pc \in Pcs /\ MovedOn(w, pc, steps, ok) /\ r = hand[w].saga
          /\ pc # "end" /\ steps # <<>> /\ Head(steps) \in done2
      BY <1>3, <1>7, <1>10, <3>1, <3>2 DEF Pcs, r
    <3>4. /\ done' = [s \in Sagas |-> done'[s]] /\ done'[r] = done2 /\ row' = row
          /\ \A s \in Refunds \ {r} : row'[s] = row[s] /\ done'[s] = done[s]
      BY <1>6, <2>1
    <3>5. /\ row' \in [Sagas -> [StepNames -> StepStatus]]
          /\ \A y \in Doings : row'[r][y] = "committed" => y \in done'[r]
      BY <1>2, <1>7, <3>4
    <3>6. /\ done[r] \subseteq done'[r] /\ done'[r] \subseteq Doings
          /\ Before(steps) \subseteq done'[r] /\ Head(steps) \in done'[r]
          /\ "repay" \in done'[r] => {"reverse", "wallet"} \subseteq done'[r]
      BY <1>7, <3>3, <3>4
    <3> QED
      BY <1>1, <3>3, <3>4, <3>5, <3>6, RefundMoves
  <2>2. ASSUME Turn(w, "fail"), UNCHANGED <<row, done>> PROVE RefundInv'
    BY <1>1, <1>2, <1>3, <1>10, <2>2, RefundMoves DEF Pcs, r
  <2> QED
    BY <1>13, <2>1, <2>2 DEF CallStep
<1>14. CASE SaveCommit(w)
  <2>1. /\ SetRow(w, "committed") /\ UNCHANGED done /\ hand[w].pc = "commit"
        /\ Further(w) \/ Give(w)
    BY <1>14 DEF SaveCommit, Is
  <2>2. CASE Further(w)
    BY <1>2, <1>5, <1>11, <2>1, <2>2 DEF StepStatus
  <2>3. CASE Give(w)
    BY <1>1, <1>2, <1>5, <1>9, <2>1, <2>3, RefundMoves DEF Pcs, StepStatus, r
  <2> QED
    BY <2>1, <2>2, <2>3
<1>15. CASE SaveFail(w)
  <2>1. UNCHANGED done /\ Give(w) /\ (SetRow(w, "failed") \/ SetRow(w, "escalated"))
    BY <1>15 DEF SaveFail
  <2>2. PICK v \in {"failed", "escalated"} : SetRow(w, v)
    BY <2>1
  <2> QED
    BY <1>1, <1>2, <1>5, <1>9, <2>1, <2>2, RefundMoves DEF Pcs, StepStatus, r
<1>16. CASE StoreFails(w)
  BY <1>1, <1>2, <1>9, <1>16, RefundMoves DEF StoreFails, Pcs, r
<1> QED
  BY <1>12, <1>13, <1>14, <1>15, <1>16, <1>17 DEF RunSaga

\* The kinds of hands are told apart by what they are at.
LEMMA HandKinds ==
  ASSUME RefundInv, NEW w \in Hands
  PROVE  /\ hand[w] # Free /\ hand[w].pc \in Pcs => Refunding(w) \/ TopupHand(hand[w])
         /\ hand[w] # Free /\ hand[w].pc = "accept" => hand[w] \in ReaderHand
         /\ hand[w] # Free /\ hand[w].op = "accept" /\ hand[w].pc \in Pcs => Refunding(w)
         /\ hand = [v \in Hands |-> hand[v]]
  BY DEF RefundInv, RefundShape, HandRow, Refunding, TopupHand, ReaderHand, RefundHand, Pcs, Free

\* What a top-up does to the rows and effects of refunds: nothing.
LEMMA TopupRuns ==
  ASSUME RefundInv, NEW w \in Hands, TopupHand(hand[w]), RunSaga(w) \/ StoreFails(w),
         UNCHANGED disputeVars
  PROVE  /\ RefundInv' /\ \A s \in Refunds : row'[s] = row[s]
         /\ hand[w] \notin RefundHand /\ hand'[w] \notin RefundHand
         /\ \A v \in Hands \ {w} : hand'[v] = hand[v]
<1>1. PICK steps : hand[w] \in [op : {"initiate", "callback", "fund"}, saga : Topups, steps : {steps},
                               pc : Pcs, ok : BOOLEAN]
  BY DEF TopupHand
<1>2. /\ hand = [v \in Hands |-> hand[v]] /\ row \in [Sagas -> [StepNames -> StepStatus]]
      /\ done = [s \in Sagas |-> done[s]] /\ hand[w].saga \in Sagas /\ hand[w].saga \notin Refunds
  BY <1>1, StepAssumption DEF RefundInv, RefundShape, Sagas
<1>3. \/ \E pc \in Pcs : Turn(w, pc)
      \/ Give(w) \/ Further(w)
  BY DEF RunSaga, StoreFails, ReadRow, SaveStart, CallStep, SaveCommit, SaveFail, Pcs
<1>4. \E h : hand' = [hand EXCEPT ![w] = h] /\ TopupHand(h)
  <2>1. ASSUME NEW pc \in Pcs, Turn(w, pc) PROVE \E h : hand' = [hand EXCEPT ![w] = h] /\ TopupHand(h)
    <3>1. TopupHand([hand[w] EXCEPT !.pc = pc])
      BY <1>1 DEF TopupHand
    <3> QED
      BY <2>1, <3>1 DEF Turn
  <2>2. CASE Give(w)
    <3>1. TopupHand([hand[w] EXCEPT !.pc = "end", !.ok = FALSE])
      BY <1>1 DEF TopupHand, Pcs
    <3> QED
      BY <2>2, <3>1 DEF Give
  <2>3. CASE Further(w)
    <3> DEFINE next == IF Len(hand[w].steps) = 1 THEN "end" ELSE "read"
               rest == Tail(hand[w].steps)
    <3>1. next \in Pcs
      BY DEF Pcs
    <3>2. hand' = [hand EXCEPT ![w] = [hand[w] EXCEPT !.steps = rest, !.pc = next]]
      BY <2>3 DEF Further
    <3> HIDE DEF next, rest
    <3>3. [hand[w] EXCEPT !.steps = rest, !.pc = next]
            \in [op : {"initiate", "callback", "fund"}, saga : Topups, steps : {rest}, pc : Pcs, ok : BOOLEAN]
      BY <1>1, <3>1
    <3> QED
      BY <3>2, <3>3 DEF TopupHand
  <2> QED
    BY <1>3, <2>1, <2>2, <2>3
<1>5. PICK h : hand' = [hand EXCEPT ![w] = h] /\ TopupHand(h)
  BY <1>4
<1>6. h \notin RefundHand /\ HandRow(h)
  BY <1>5 DEF TopupHand, RefundHand, HandRow
<1>7. row' \in [Sagas -> [StepNames -> StepStatus]] /\ \A s \in Refunds : row'[s] = row[s]
  <2>1. ASSUME NEW v \in StepStatus, SetRow(w, v) 
        PROVE  row' \in [Sagas -> [StepNames -> StepStatus]] /\ \A s \in Refunds : row'[s] = row[s]
    <3>1. row' = [row EXCEPT ![hand[w].saga] = [row[hand[w].saga] EXCEPT ![Step(w)] = v]]
      BY <2>1 DEF SetRow
    <3>2. [row[hand[w].saga] EXCEPT ![Step(w)] = v] \in [StepNames -> StepStatus]
      BY <1>2
    <3> QED
      BY <1>2, <3>1, <3>2 DEF Sagas
  <2>2. row' = row \/ \E v \in StepStatus : SetRow(w, v)
    BY DEF RunSaga, StoreFails, ReadRow, SaveStart, CallStep, SaveCommit, SaveFail, StepStatus
  <2> QED
    BY <1>2, <2>1, <2>2
<1>8. done' = [s \in Sagas |-> done'[s]] /\ \A s \in Refunds : done'[s] = done[s]
  <2>1. done' = done \/ Effect(w)
    BY DEF RunSaga, StoreFails, ReadRow, SaveStart, CallStep, SaveCommit, SaveFail
  <2> QED
    BY <1>2, <2>1 DEF Effect, Sagas
<1>9. hand[w] \notin RefundHand
  BY <1>1 DEF RefundHand
<1>10. /\ hand' = [v \in Hands |-> hand'[v]] /\ hand'[w] = h
       /\ \A v \in Hands \ {w} : hand'[v] = hand[v]
  BY <1>2, <1>5
<1> QED
  BY <1>2, <1>6, <1>7, <1>8, <1>9, <1>10, AsideInv

LEMMA FreeHand == HandRow(Free) /\ Free \notin RefundHand
  BY DEF HandRow, Free, RefundHand

\* A request begins, ends or dies.
LEMMA BeginsAside ==
  ASSUME RefundInv, NEW w \in Hands, NEW h, HandRow(h), h \notin RefundHand,
         hand' = [hand EXCEPT ![w] = h], UNCHANGED <<row, done, disputeVars>>
  PROVE  RefundInv'
<1>1. /\ hand = [v \in Hands |-> hand[v]] /\ row \in [Sagas -> [StepNames -> StepStatus]]
      /\ done = [s \in Sagas |-> done[s]]
  BY DEF RefundInv, RefundShape
<1>2. hand' = [v \in Hands |-> hand'[v]] /\ (\A v \in Hands \ {w} : hand'[v] = hand[v]) /\ hand'[w] = h
  BY <1>1
<1> QED
  BY <1>1, <1>2, AsideInv

LEMMA TopupBegins ==
  ASSUME NEW w \in Hands, NEW s \in Topups, Initiate(w, s) \/ OnCallback(w, s) \/ Fund(w, s)
  PROVE  /\ \E h : HandRow(h) /\ h \notin RefundHand /\ hand' = [hand EXCEPT ![w] = h]
         /\ UNCHANGED <<row, done>>
<1>0. PICK op \in {"initiate", "callback", "fund"} : \E steps : Begin(w, op, s, steps)
  BY DEF Initiate, OnCallback, Fund
<1>1. PICK steps : Begin(w, op, s, steps)
  BY <1>0
<1> DEFINE h == [op |-> op, saga |-> s, steps |-> steps, pc |-> "read", ok |-> TRUE]
<1>2. hand' = [hand EXCEPT ![w] = h]
  BY <1>1 DEF Begin
<1>3. TopupHand(h)
  BY DEF TopupHand, Pcs
<1>4. HandRow(h) /\ h \notin RefundHand
  BY <1>3 DEF HandRow, RefundHand
<1> QED
  BY <1>2, <1>4 DEF Initiate, OnCallback, Fund

LEMMA Escalation ==
  ASSUME RefundInv, NEW s \in Sagas, NEW step \in StepNames, Escalate(s, step), UNCHANGED disputeVars
  PROVE  RefundInv'
<1>1. /\ row' = [row EXCEPT ![s] = [row[s] EXCEPT ![step] = "escalated"]] /\ hand' = hand /\ done' = done
      /\ row \in [Sagas -> [StepNames -> StepStatus]]
  BY DEF Escalate, RefundInv, RefundShape
<1>2. [row[s] EXCEPT ![step] = "escalated"] \in [StepNames -> StepStatus]
  BY <1>1 DEF StepStatus
<1>3. row' \in [Sagas -> [StepNames -> StepStatus]]
  BY <1>1, <1>2
<1>4. \A r \in Refunds, x \in Doings : row'[r][x] = "committed" => row[r][x] = "committed"
  BY <1>1 DEF Sagas, Doings, StepNames
<1>5. RowsBacked'
  BY <1>1, <1>4 DEF RefundInv, RowsBacked
<1> QED
  BY <1>1, <1>3, <1>5
  DEF disputeVars, RefundInv, RefundShape, OnItsWay, Refunding, OneLaunch, ClosedIsRepaid, RefundInOrder

\* The status of a dispute moves while it has no launch.
LEMMA DisputeMoves ==
  ASSUME RefundInv, NEW d \in Disputes, NEW from \in {"none", "submitted", "reviewing"},
         NEW to \in {"submitted", "reviewing", "rejected"}, UpdateStatus(d, from, to),
         UNCHANGED <<launched, stepVars>>
  PROVE  RefundInv'
<1>1. /\ dispute' = [dispute EXCEPT ![d] = to] /\ dispute[d] = from /\ launched' = launched
      /\ row' = row /\ done' = done /\ hand' = hand /\ dispute \in [Disputes -> DisputeStatus]
  BY DEF UpdateStatus, stepVars, RefundInv, RefundShape
<1>2. RefundShape'
  BY <1>1 DEF RefundInv, RefundShape, DisputeStatus
<1>3. OneLaunch' /\ ClosedIsRepaid'
  BY <1>1 DEF RefundInv, OneLaunch, ClosedIsRepaid
<1> QED
  BY <1>1, <1>2, <1>3 DEF RefundInv, OnItsWay, RowsBacked, Refunding, RefundInOrder

LEMMA DisputeCloses ==
  ASSUME RefundInv, NEW w \in Hands, Close(w)
  PROVE  RefundInv'
<1> DEFINE d == hand[w].dispute
<1>1. /\ hand[w] # Free /\ hand[w].pc = "end" /\ hand[w].op = "accept" /\ hand' = [hand EXCEPT ![w] = Free]
      /\ row' = row /\ done' = done /\ launched' = launched
  BY DEF Close, Is
<1>2. Refunding(w) /\ d \in Disputes /\ hand[w].saga \in Refunds
  BY <1>1, HandKinds DEF Pcs, Refunding, RefundHand
<1>3. CASE UNCHANGED dispute
  BY <1>1, <1>3, BeginsAside, FreeHand DEF disputeVars
<1>4. CASE hand[w].ok /\ UpdateStatus(d, "accepted", "refunded")
  <2>1. dispute' = [dispute EXCEPT ![d] = "refunded"] /\ dispute[d] = "accepted"
    BY <1>4 DEF UpdateStatus
  <2>2. hand[w].saga \in launched[d] /\ Before(<<>>) \subseteq done[hand[w].saga]
    BY <1>1, <1>2, <1>4 DEF RefundInv, OnItsWay
  <2>3. Before(<<>>) = Doings
    BY Lengths DEF Before
  <2>4. /\ hand' = [v \in Hands |-> hand'[v]] /\ (\A v \in Hands \ {w} : hand'[v] = hand[v])
        /\ HandRow(hand'[w]) /\ ~Refunding(w)'
    BY <1>1, FreeHand DEF RefundInv, RefundShape, Refunding
  <2>5. dispute' \in [Disputes -> DisputeStatus]
    BY <1>2, <2>1 DEF RefundInv, RefundShape, DisputeStatus
  <2>6. RefundShape'
    BY <1>1, <2>4, <2>5 DEF RefundInv, RefundShape
  <2>7. OnItsWay'
    <3>1. \A v \in Hands : Refunding(v)' => Refunding(v) /\ hand'[v] = hand[v]
      BY <2>4 DEF Refunding
    <3> QED
      BY <1>1, <3>1 DEF RefundInv, OnItsWay
  <2>8. OneLaunch' /\ ClosedIsRepaid'
    <3>1. \A e \in Disputes \ {d} : dispute'[e] = dispute[e]
      BY <2>1 DEF RefundInv, RefundShape
    <3>2. dispute'[d] = "refunded"
      BY <1>2, <2>1 DEF RefundInv, RefundShape
    <3> QED
      BY <1>1, <2>2, <2>3, <3>1, <3>2 DEF RefundInv, OneLaunch, ClosedIsRepaid
  <2> QED
    BY <1>1, <2>6, <2>7, <2>8 DEF RefundInv, RowsBacked, RefundInOrder
<1> QED
  BY <1>3, <1>4 DEF Close

LEMMA DisputeLaunches ==
  ASSUME RefundInv, NEW w \in Hands, Accept(w)
  PROVE  RefundInv'
<1> DEFINE d == hand[w].dispute
<1>1. hand[w] # Free /\ hand[w].pc = "accept" /\ row' = row /\ done' = done
  BY DEF Accept, Is
<1>2. hand[w] \in ReaderHand /\ d \in Disputes
  BY <1>1, HandKinds DEF ReaderHand
<1>3. CASE hand' = [hand EXCEPT ![w] = Free] /\ UNCHANGED disputeVars
  BY <1>1, <1>3, BeginsAside, FreeHand
<1>4. ASSUME UpdateStatus(d, "reviewing", "accepted"),
             NEW s \in Refunds \ UNION {launched[e] : e \in Disputes},
             launched' = [launched EXCEPT ![d] = @ \cup {s}],
             hand' = [hand EXCEPT ![w] = [op |-> "accept", pc |-> "read", dispute |-> d,
                                          saga |-> s, steps |-> RefundSteps, ok |-> TRUE]]
      PROVE  RefundInv'
  <2> DEFINE h == [op |-> "accept", pc |-> "read", dispute |-> d, saga |-> s, steps |-> RefundSteps, ok |-> TRUE]
  <2>1. /\ h \in RefundHand /\ HandRow(h) /\ h.saga = s /\ h.dispute = d /\ h.steps = RefundSteps /\ h.pc = "read"
    BY <1>2 DEF RefundHand, HandRow, Pcs, Tails
  <2>2. /\ hand' = [v \in Hands |-> hand'[v]] /\ (\A v \in Hands \ {w} : hand'[v] = hand[v]) /\ hand'[w] = h
    BY <1>4 DEF RefundInv, RefundShape
  <2> HIDE DEF h
  <2>3. /\ dispute[d] = "reviewing" /\ dispute' = [dispute EXCEPT ![d] = "accepted"]
        /\ launched[d] = {} /\ dispute \in [Disputes -> DisputeStatus] /\ launched \in [Disputes -> SUBSET Refunds]
    BY <1>2, <1>4 DEF UpdateStatus, RefundInv, OneLaunch, RefundShape
  <2>4. /\ dispute' \in [Disputes -> DisputeStatus] /\ launched' \in [Disputes -> SUBSET Refunds]
        /\ dispute'[d] = "accepted" /\ launched'[d] = {s}
        /\ \A e \in Disputes \ {d} : dispute'[e] = dispute[e] /\ launched'[e] = launched[e]
    BY <1>2, <1>4, <2>3 DEF DisputeStatus
  <2>5. RefundShape'
    BY <1>1, <2>1, <2>2, <2>4 DEF RefundInv, RefundShape
  <2>6. \A v \in Hands \ {w} : Refunding(v) => hand[v].dispute \in Disputes /\ hand[v].saga # s
                                                /\ hand[v].dispute # d
    BY <1>4, <2>3 DEF RefundInv, OnItsWay, Refunding, RefundHand
  <2>7. Before(RefundSteps) = {} /\ RefundSteps # <<>>
    BY Lengths DEF Before
  <2>8. OnItsWay'
    <3>1. SUFFICES ASSUME NEW v \in Hands, Refunding(v)'
                   PROVE  /\ hand'[v].saga \in launched'[hand'[v].dispute]
                          /\ Before(hand'[v].steps) \subseteq done'[hand'[v].saga]
                          /\ hand'[v].pc = "commit" => Head(hand'[v].steps) \in done'[hand'[v].saga]
                          /\ hand'[v].pc # "end" => hand'[v].steps # <<>>
                          /\ hand'[v].pc = "end" /\ hand'[v].ok => hand'[v].steps = <<>>
                          /\ \A u \in Hands : Refunding(u)' /\ hand'[u].saga = hand'[v].saga => u = v
      BY DEF OnItsWay
    <3>2. CASE v = w
      BY <2>1, <2>2, <2>4, <2>6, <2>7, <3>1, <3>2 DEF Refunding
    <3>3. CASE v # w
      <4>1. Refunding(v) /\ hand'[v] = hand[v] /\ hand[v].saga # s
            /\ hand[v].dispute # d /\ hand[v].dispute \in Disputes
        BY <2>2, <2>6, <3>1, <3>3 DEF Refunding
      <4>2. \A u \in Hands : Refunding(u)' /\ hand'[u].saga = hand'[v].saga => u = v
        <5>1. SUFFICES ASSUME NEW u \in Hands, Refunding(u)', hand'[u].saga = hand'[v].saga PROVE u = v
          OBVIOUS
        <5>2. u # w
          BY <2>1, <2>2, <4>1, <5>1
        <5> QED
          BY <2>2, <4>1, <5>1, <5>2 DEF Refunding, RefundInv, OnItsWay
      <4> QED
        BY <1>1, <2>4, <4>1, <4>2 DEF RefundInv, OnItsWay
    <3> QED
      BY <3>2, <3>3
  <2>9. OneLaunch' /\ ClosedIsRepaid'
    BY <1>1, <2>4 DEF RefundInv, OneLaunch, ClosedIsRepaid
  <2> QED
    BY <1>1, <2>5, <2>8, <2>9 DEF RefundInv, RowsBacked, RefundInOrder
<1> QED
  BY <1>3, <1>4 DEF Accept

LEMMA RefundStepInv ==
  ASSUME RefundInv, DisputeNext \/ (TopupNext /\ UNCHANGED disputeVars)
  PROVE  RefundInv'
<1>1. ASSUME NEW w \in Hands, RunSaga(w) \/ StoreFails(w), UNCHANGED disputeVars PROVE RefundInv'
  <2>1. hand[w] # Free /\ hand[w].pc \in Pcs
    BY <1>1 DEF RunSaga, ReadRow, SaveStart, CallStep, SaveCommit, SaveFail, StoreFails, Is, Pcs
  <2>2. Refunding(w) \/ TopupHand(hand[w])
    BY <2>1, HandKinds
  <2> QED
    BY <1>1, <2>2, RefundRuns, TopupRuns
<1>2. ASSUME NEW w \in Hands, Dies(w) \/ Reply(w), UNCHANGED disputeVars PROVE RefundInv'
  BY <1>2, FreeHand, BeginsAside DEF Dies, Reply
<1>3. ASSUME NEW w \in Hands, NEW s \in Topups, Initiate(w, s) \/ OnCallback(w, s) \/ Fund(w, s),
             UNCHANGED disputeVars
      PROVE  RefundInv'
  BY <1>3, TopupBegins, BeginsAside
<1>4. ASSUME NEW s \in Sagas, NEW step \in StepNames, Escalate(s, step), UNCHANGED disputeVars
      PROVE  RefundInv'
  BY <1>4, Escalation
<1>5. CASE TopupNext /\ UNCHANGED disputeVars
  BY <1>1, <1>2, <1>3, <1>4, <1>5 DEF TopupNext, StepFails, Sagas
<1>6. ASSUME NEW d \in Disputes, Submit(d) \/ StartReview(d) \/ FinalizeReject(d) PROVE RefundInv'
  BY <1>6, DisputeMoves DEF Submit, StartReview, FinalizeReject
<1>7. ASSUME NEW w \in Hands, NEW d \in Disputes, FinalizeAccept(w, d) PROVE RefundInv'
  <2> DEFINE h == [op |-> "accept", pc |-> "accept", dispute |-> d]
  <2>1. hand' = [hand EXCEPT ![w] = h] /\ UNCHANGED <<row, done, disputeVars>>
    BY <1>7 DEF FinalizeAccept
  <2>2. HandRow(h) /\ h \notin RefundHand
    BY DEF HandRow, ReaderHand, RefundHand
  <2> QED
    BY <2>1, <2>2, BeginsAside
<1>8. CASE DisputeNext
  BY <1>1, <1>2, <1>4, <1>6, <1>7, <1>8, DisputeLaunches, DisputeCloses
  DEF DisputeNext, StepFails, Sagas
<1> QED
  BY <1>5, <1>8

-----------------------------------------------------------------------------
(* While nothing has failed, a launch goes through.                        *)

\* the rows of the steps ahead are still to be written,
Smoothly(w) ==
  /\ hand[w].ok /\ hand[w].pc # "fail"
  /\ \A x \in Doings \ Before(hand[w].steps) :
       hand[w].pc = "read" \/ x # Head(hand[w].steps) => row[hand[w].saga][x] = "none"
Going ==
  /\ \A w \in Hands : Refunding(w) => Smoothly(w)
  /\ \A d \in Disputes : dispute[d] = "accepted" =>
       \E w \in Hands : Refunding(w) /\ hand[w].dispute = d
\* and so are those of sagas nobody launched.
Fresh ==
  \A s \in Refunds : (\A d \in Disputes : s \notin launched[d]) => \A x \in Doings : row[s][x] = "none"
Smooth ==
  /\ focus # "disputes" => \A d \in Disputes : dispute[d] = "none"
  /\ focus = "disputes" => faults \in Nat /\ (faults = 0 => Going /\ Fresh)

LEMMA GoesAside ==
  ASSUME RefundInv, Going, Fresh, NEW w \in Hands, hand[w] \notin RefundHand, hand'[w] \notin RefundHand,
         \A v \in Hands \ {w} : hand'[v] = hand[v], \A s \in Refunds : row'[s] = row[s],
         UNCHANGED disputeVars
  PROVE  Going' /\ Fresh'
<1>1. \A v \in Hands : (Refunding(v)' <=> Refunding(v)) /\ (Refunding(v) => hand'[v] = hand[v])
  BY DEF Refunding
<1>2. \A v \in Hands : Refunding(v) => hand[v].saga \in Refunds
  BY DEF Refunding, RefundHand
<1>3. ASSUME NEW v \in Hands, Refunding(v)' PROVE Smoothly(v)'
  <2>1. Smoothly(v) /\ hand'[v] = hand[v] /\ row'[hand[v].saga] = row[hand[v].saga]
    BY <1>1, <1>2, <1>3 DEF Going
  <2> QED
    BY <2>1 DEF Smoothly
<1> QED
  BY <1>1, <1>3 DEF Going, Fresh, disputeVars

LEMMA GoesOn ==
  ASSUME RefundInv, Going, Fresh, NEW w \in Hands, Refunding(w), NEW pc \in Pcs \ {"fail"},
         NEW steps \in Tails, MovedOn(w, pc, steps, TRUE), UNCHANGED disputeVars,
         \A s \in Refunds \ {hand[w].saga} : row'[s] = row[s],
         \A x \in Doings \ Before(steps) :
           pc = "read" \/ x # Head(steps) => row'[hand[w].saga][x] = "none"
  PROVE  Going' /\ Fresh'
<1>1. /\ \A v \in Hands \ {w} : hand'[v] = hand[v]
      /\ hand'[w] \in RefundHand /\ hand'[w].pc = pc /\ hand'[w].steps = steps /\ hand'[w].ok
      /\ hand'[w].saga = hand[w].saga /\ hand'[w].dispute = hand[w].dispute
  BY DEF MovedOn
<1>2. \A v \in Hands : Refunding(v)' <=> Refunding(v)
  BY <1>1 DEF Refunding
<1>3. ASSUME NEW v \in Hands, Refunding(v)' PROVE Smoothly(v)'
  <2>1. CASE v = w
    BY <1>1, <2>1 DEF Smoothly
  <2>2. CASE v # w
    <3>1. Smoothly(v) /\ hand'[v] = hand[v] /\ hand[v].saga \in Refunds \ {hand[w].saga}
      BY <1>1, <1>2, <1>3, <2>2 DEF Going, RefundInv, OnItsWay, Refunding, RefundHand
    <3> QED
      BY <3>1 DEF Smoothly
  <2> QED
    BY <2>1, <2>2
<1>4. \A d \in Disputes : dispute'[d] = "accepted" =>
        \E v \in Hands : Refunding(v)' /\ hand'[v].dispute = d
  BY <1>1, <1>2 DEF Going, disputeVars
<1>5. Fresh'
  <2>1. hand[w].saga \in launched[hand[w].dispute] /\ hand[w].dispute \in Disputes
    BY DEF RefundInv, OnItsWay, Refunding, RefundHand
  <2> QED
    BY <2>1 DEF Fresh, disputeVars
<1> QED
  BY <1>3, <1>4, <1>5 DEF Going

LEMMA RunsSmoothly ==
  ASSUME RefundInv, Going, Fresh, NEW w \in Hands, Refunding(w), RunSaga(w), UNCHANGED disputeVars,
         faults = 0, faults' = 0
  PROVE  Going' /\ Fresh'
<1> DEFINE r == hand[w].saga  steps == hand[w].steps  x == Step(w)
<1>1. /\ hand[w] \in RefundHand /\ r \in Refunds /\ steps \in Tails /\ hand[w].ok = TRUE
      /\ hand[w].pc \in {"read", "start", "call", "commit"} /\ steps # <<>>
      /\ \A y \in Doings \ Before(steps) : hand[w].pc = "read" \/ y # x => row[r][y] = "none"
      /\ row \in [Sagas -> [StepNames -> StepStatus]] /\ r \in Sagas
  BY DEF RunSaga, ReadRow, SaveStart, CallStep, SaveCommit, SaveFail, Is, Going, Smoothly, Refunding,
         RefundHand, RefundInv, OnItsWay, RefundShape, Step, Sagas
<1>2. /\ x \in Doings \ Before(steps) /\ x \in StepNames /\ Tail(steps) \in Tails /\ x = Head(steps)
      /\ Before(Tail(steps)) = Before(steps) \cup {x}
  BY <1>1, RefundGoesOn DEF Step, Doings, StepNames
<1>3. ~Fault
  BY DEF Fault
<1>4. Further(w) => MovedOn(w, IF Tail(steps) = <<>> THEN "end" ELSE "read", Tail(steps), TRUE)
  BY <1>1, OneHandMoves
<1>5. \A pc \in Pcs : Turn(w, pc) => MovedOn(w, pc, steps, TRUE)
  BY <1>1, OneHandMoves
<1>6. ASSUME NEW v, SetRow(w, v)
      PROVE  /\ \A s \in Refunds \ {r} : row'[s] = row[s]
             /\ \A y \in Doings \ {x} : row'[r][y] = row[r][y]
  <2>1. row' = [row EXCEPT ![r] = [row[r] EXCEPT ![x] = v]]
    BY <1>6 DEF SetRow
  <2> QED
    BY <1>1, <1>2, <2>1 DEF Sagas, Doings, StepNames
<1> HIDE DEF r, steps, x
<1>7. CASE ReadRow(w)
  <2>1. row[r][x] = "none" /\ hand[w].pc = "read"
    BY <1>1, <1>2, <1>7 DEF ReadRow, Is
  <2>2. Turn(w, "start") /\ row' = row
    BY <1>7, <2>1 DEF ReadRow, r, x
  <2>3. MovedOn(w, "start", steps, TRUE)
    BY <1>5, <2>2 DEF Pcs
  <2>4. \A y \in Doings \ Before(steps) : y # Head(steps) => row'[r][y] = "none"
    BY <1>1, <1>2, <2>1, <2>2
  <2> QED
    BY <1>1, <2>2, <2>3, <2>4, GoesOn DEF r, Pcs
<1>10. CASE SaveStart(w)
  <2>1. SetRow(w, "in_progress") /\ Turn(w, "call")
    BY <1>10 DEF SaveStart
  <2>2. MovedOn(w, "call", steps, TRUE)
    BY <1>5, <2>1 DEF Pcs
  <2>3. \A y \in Doings \ Before(steps) : y # Head(steps) => row'[r][y] = "none"
    <3>1. hand[w].pc = "start"
      BY <1>10 DEF SaveStart, Is
    <3> QED
      BY <1>1, <1>2, <1>6, <2>1, <3>1
  <2> QED
    BY <1>1, <1>6, <2>1, <2>2, <2>3, GoesOn DEF r, Pcs
<1>8. CASE CallStep(w)
  <2>1. Turn(w, "commit") /\ row' = row
    BY <1>3, <1>8 DEF CallStep
  <2>2. MovedOn(w, "commit", steps, TRUE)
    BY <1>5, <2>1 DEF Pcs
  <2> QED
    BY <1>1, <1>2, <2>1, <2>2, GoesOn DEF r, Pcs
<1>9. CASE SaveCommit(w)
  <2> DEFINE next == Tail(steps)  pc == IF next = <<>> THEN "end" ELSE "read"
  <2>1. SetRow(w, "committed") /\ MovedOn(w, pc, next, TRUE)
    BY <1>3, <1>4, <1>9 DEF SaveCommit
  <2>2. pc \in Pcs \ {"fail"}
    BY DEF Pcs
  <2>3. \A y \in Doings \ Before(next) : row'[r][y] = "none"
    BY <1>1, <1>2, <1>6, <2>1
  <2>4. next \in Tails
    BY <1>2
  <2> HIDE DEF next, pc
  <2> QED
    BY <1>6, <2>1, <2>2, <2>3, <2>4, GoesOn DEF r
<1> QED
  BY <1>1, <1>7, <1>8, <1>9, <1>10 DEF RunSaga, SaveFail, Is

LEMMA LaunchesSmoothly ==
  ASSUME RefundInv, RefundInv', Going, Fresh, NEW w \in Hands, Accept(w)
  PROVE  Going' /\ Fresh'
<1> DEFINE d == hand[w].dispute
<1>1. hand[w] # Free /\ hand[w].pc = "accept" /\ row' = row
  BY DEF Accept, Is
<1>2. hand[w] \in ReaderHand /\ d \in Disputes /\ hand[w] \notin RefundHand
  BY <1>1, HandKinds DEF ReaderHand, RefundHand, Pcs
<1>3. CASE hand' = [hand EXCEPT ![w] = Free] /\ UNCHANGED disputeVars
  <2>1. hand'[w] = Free /\ \A v \in Hands \ {w} : hand'[v] = hand[v]
    BY <1>3 DEF RefundInv, RefundShape
  <2> QED
    BY <1>1, <1>2, <1>3, <2>1, FreeHand, GoesAside
<1>4. ASSUME UpdateStatus(d, "reviewing", "accepted"),
             NEW s \in Refunds \ UNION {launched[e] : e \in Disputes},
             launched' = [launched EXCEPT ![d] = @ \cup {s}],
             hand' = [hand EXCEPT ![w] = [op |-> "accept", pc |-> "read", dispute |-> d,
                                          saga |-> s, steps |-> RefundSteps, ok |-> TRUE]]
      PROVE  Going' /\ Fresh'
  <2> DEFINE h == [op |-> "accept", pc |-> "read", dispute |-> d, saga |-> s, steps |-> RefundSteps, ok |-> TRUE]
  <2>1. h \in RefundHand /\ h.saga = s /\ h.dispute = d /\ h.pc = "read" /\ h.ok
    BY <1>2 DEF RefundHand, Pcs, Tails
  <2>2. (\A v \in Hands \ {w} : hand'[v] = hand[v]) /\ hand'[w] = h
    BY <1>4 DEF RefundInv, RefundShape
  <2> HIDE DEF h
  <2>3. /\ dispute' = [dispute EXCEPT ![d] = "accepted"] /\ dispute \in [Disputes -> DisputeStatus]
        /\ launched \in [Disputes -> SUBSET Refunds]
    BY <1>4 DEF UpdateStatus, RefundInv, RefundShape
  <2>4. /\ \A e \in Disputes \ {d} : dispute'[e] = dispute[e] /\ launched'[e] = launched[e]
        /\ launched'[d] = launched[d] \cup {s}
    BY <1>2, <1>4, <2>3
  <2>5. \A x \in Doings : row[s][x] = "none"
    BY <1>4 DEF Fresh
  <2>6. \A v \in Hands : Refunding(v)' => Smoothly(v)'
    <3>1. Smoothly(w)'
      BY <1>1, <2>1, <2>2, <2>5 DEF Smoothly
    <3>2. \A v \in Hands \ {w} : Refunding(v)' => Smoothly(v)'
      BY <1>1, <2>2 DEF Going, Smoothly, Refunding
    <3> QED
      BY <3>1, <3>2
  <2>7. \A e \in Disputes : dispute'[e] = "accepted" =>
          \E v \in Hands : Refunding(v)' /\ hand'[v].dispute = e
    <3>1. Refunding(w)' /\ hand'[w].dispute = d
      BY <2>1, <2>2 DEF Refunding
    <3>2. ASSUME NEW e \in Disputes \ {d}, dispute'[e] = "accepted"
          PROVE  \E v \in Hands : Refunding(v)' /\ hand'[v].dispute = e
      <4>1. PICK v \in Hands : Refunding(v) /\ hand[v].dispute = e
        BY <2>4, <3>2 DEF Going
      <4>2. v # w
        BY <1>2, <4>1 DEF Refunding
      <4> QED
        BY <2>2, <4>1, <4>2 DEF Refunding
    <3> QED
      BY <3>1, <3>2
  <2>8. Fresh'
    <3>1. \A e \in Disputes : launched[e] \subseteq launched'[e]
      BY <2>4
    <3> QED
      BY <1>1, <3>1 DEF Fresh
  <2> QED
    BY <2>6, <2>7, <2>8 DEF Going
<1> QED
  BY <1>3, <1>4 DEF Accept

LEMMA ClosesSmoothly ==
  ASSUME RefundInv, Going, Fresh, NEW w \in Hands, Close(w)
  PROVE  Going' /\ Fresh'
<1> DEFINE d == hand[w].dispute
<1>1. /\ hand[w] # Free /\ hand[w].pc = "end" /\ hand[w].op = "accept"
      /\ hand' = [hand EXCEPT ![w] = Free] /\ row' = row /\ launched' = launched
  BY DEF Close, Is
<1>2. Refunding(w) /\ d \in Disputes /\ hand[w].ok
  BY <1>1, HandKinds DEF Pcs, Refunding, RefundHand, Going, Smoothly
<1>3. dispute' = [dispute EXCEPT ![d] = "refunded"] /\ dispute \in [Disputes -> DisputeStatus]
  BY <1>2 DEF Close, UpdateStatus, RefundInv, RefundShape
<1>4. /\ \A e \in Disputes \ {d} : dispute'[e] = dispute[e] /\ dispute'[d] = "refunded"
      /\ \A v \in Hands \ {w} : hand'[v] = hand[v]
      /\ hand'[w] \notin RefundHand
  BY <1>1, <1>2, <1>3, FreeHand DEF RefundInv, RefundShape
<1>5. \A v \in Hands : Refunding(v)' => Smoothly(v)'
  BY <1>1, <1>4 DEF Going, Smoothly, Refunding
<1>6. \A e \in Disputes : dispute'[e] = "accepted" =>
        \E v \in Hands : Refunding(v)' /\ hand'[v].dispute = e
  <2>1. SUFFICES ASSUME NEW e \in Disputes, dispute'[e] = "accepted"
                 PROVE  \E v \in Hands : Refunding(v)' /\ hand'[v].dispute = e
    OBVIOUS
  <2>2. e # d /\ dispute[e] = "accepted"
    BY <1>2, <1>3, <1>4, <2>1
  <2>3. PICK v \in Hands : Refunding(v) /\ hand[v].dispute = e
    BY <2>1, <2>2 DEF Going
  <2> QED
    BY <1>4, <2>2, <2>3 DEF Refunding
<1> QED
  BY <1>1, <1>5, <1>6 DEF Going, Fresh

LEMMA SmoothStep ==
  ASSUME RefundInv, RefundInv', Going, Fresh, DisputeNext, faults = 0, faults' = 0
  PROVE  Going' /\ Fresh'
<1>1. ~Fault
  BY DEF Fault
<1>2. ASSUME NEW w \in Hands, RunSaga(w), UNCHANGED disputeVars PROVE Going' /\ Fresh'
  <2>1. hand[w] # Free /\ hand[w].pc \in Pcs
    BY <1>2 DEF RunSaga, ReadRow, SaveStart, CallStep, SaveCommit, SaveFail, Is, Pcs
  <2>2. CASE Refunding(w)
    BY <1>2, <2>2, RunsSmoothly
  <2>3. CASE TopupHand(hand[w])
    BY <1>2, <2>3, TopupRuns, GoesAside
  <2> QED
    BY <2>1, <2>2, <2>3, HandKinds
<1>3. ASSUME NEW w \in Hands, StepFails(w) PROVE FALSE
  BY <1>1, <1>3 DEF StepFails, StoreFails, Dies
<1>4. ASSUME NEW s \in Refunds, NEW step \in StepNames, Escalate(s, step), UNCHANGED disputeVars
      PROVE  Going' /\ Fresh'
  <2>1. /\ row[s][step] # "none" /\ row' = [row EXCEPT ![s] = [row[s] EXCEPT ![step] = "escalated"]]
        /\ hand' = hand /\ row \in [Sagas -> [StepNames -> StepStatus]]
    BY <1>4 DEF Escalate, RefundInv, RefundShape
  <2>2. \A r \in Refunds, x \in Doings : row[r][x] = "none" => row'[r][x] = "none"
    BY <2>1 DEF Sagas, Doings, StepNames
  <2>3. \A w \in Hands : Refunding(w)' => Smoothly(w)'
    BY <2>1, <2>2 DEF Going, Smoothly, Refunding, RefundHand
  <2>4. \A e \in Disputes : dispute'[e] = "accepted" =>
          \E v \in Hands : Refunding(v)' /\ hand'[v].dispute = e
    BY <1>4, <2>1 DEF Going, Refunding, disputeVars
  <2> QED
    BY <1>4, <2>2, <2>3, <2>4 DEF Going, Fresh, disputeVars
<1>5. ASSUME NEW d \in Disputes, Submit(d) \/ StartReview(d) \/ FinalizeReject(d) PROVE Going' /\ Fresh'
  <2>1. PICK from \in DisputeStatus, to \in DisputeStatus \ {"accepted"} :
          UpdateStatus(d, from, to) /\ UNCHANGED <<launched, stepVars>>
    BY <1>5 DEF Submit, StartReview, FinalizeReject, DisputeStatus
  <2>2. /\ \A e \in Disputes : dispute'[e] = "accepted" => dispute[e] = "accepted"
        /\ launched' = launched /\ row' = row /\ hand' = hand
    BY <2>1 DEF UpdateStatus, RefundInv, RefundShape, stepVars
  <2> QED
    BY <2>2 DEF Going, Fresh, Smoothly, Refunding
<1>6. ASSUME NEW w \in Hands, NEW d \in Disputes, FinalizeAccept(w, d) PROVE Going' /\ Fresh'
  <2> DEFINE h == [op |-> "accept", pc |-> "accept", dispute |-> d]
  <2>1. hand[w] = Free /\ hand' = [hand EXCEPT ![w] = h] /\ UNCHANGED <<row, disputeVars>>
    BY <1>6 DEF FinalizeAccept
  <2>2. h \notin RefundHand
    BY DEF RefundHand
  <2>3. hand'[w] = h /\ \A v \in Hands \ {w} : hand'[v] = hand[v]
    BY <2>1 DEF RefundInv, RefundShape
  <2> QED
    BY <2>1, <2>2, <2>3, FreeHand, GoesAside
<1> QED
  BY <1>2, <1>3, <1>4, <1>5, <1>6, LaunchesSmoothly, ClosesSmoothly DEF DisputeNext

LEMMA Counted == DisputeNext => faults' \in {faults, faults + 1}
  BY DEF DisputeNext, Submit, StartReview, FinalizeReject, FinalizeAccept, Accept, Close, RunSaga, ReadRow,
     SaveStart, CallStep, SaveCommit, SaveFail, StepFails, StoreFails, Dies, Escalate, Fault, NoFault

LEMMA DisputeFrame ==
  [Next]_vars =>
    /\ focus' = focus
    /\ \/ focus = "disputes" /\ DisputeNext
       \/ focus # "disputes" /\ TopupNext /\ UNCHANGED disputeVars
       \/ focus # "disputes" /\ UNCHANGED sagaVars
       \/ UNCHANGED <<faults, sagaVars>>
  BY DEF Next, vars

LEMMA RefundsUnmoved ==
  ASSUME RefundInv, UNCHANGED sagaVars
  PROVE  RefundInv'
  BY DEF sagaVars, stepVars, disputeVars, RefundInv, RefundShape, OnItsWay, RowsBacked, OneLaunch,
     ClosedIsRepaid, RefundInOrder, Refunding

LEMMA RefundCorrect == Spec => [](RefundInv /\ Smooth)
<1>1. Init => RefundInv /\ Smooth
  <2> SUFFICES ASSUME Init PROVE RefundInv /\ Smooth
    OBVIOUS
  <2>1. /\ row = [s \in Sagas |-> [x \in StepNames |-> "none"]] /\ done = [s \in Sagas |-> {}]
        /\ hand = [w \in Hands |-> Free] /\ faults = 0
        /\ dispute = [d \in Disputes |-> "none"] /\ launched = [d \in Disputes |-> {}]
    BY DEF Init, StepInit, DisputeInit
  <2>2. \A w \in Hands : hand[w] = Free /\ ~Refunding(w) /\ HandRow(hand[w])
    BY <2>1, FreeHand DEF Refunding
  <2>3. RefundShape
    BY <2>1, <2>2 DEF RefundShape, StepStatus, DisputeStatus, Sagas
  <2>4. RowsBacked /\ RefundInOrder
    BY <2>1 DEF RowsBacked, RefundInOrder, Sagas, Doings, StepNames
  <2>5. OnItsWay /\ OneLaunch /\ ClosedIsRepaid
    BY <2>1, <2>2 DEF OnItsWay, OneLaunch, ClosedIsRepaid
  <2>6. Smooth
    BY <2>1, <2>2 DEF Smooth, Going, Fresh, Sagas, Doings, StepNames
  <2> QED
    BY <2>3, <2>4, <2>5, <2>6 DEF RefundInv
<1>2. RefundInv /\ Smooth /\ [Next]_vars => RefundInv' /\ Smooth'
  <2> SUFFICES ASSUME RefundInv, Smooth, [Next]_vars PROVE RefundInv' /\ Smooth'
    OBVIOUS
  <2>1. CASE focus = "disputes" /\ DisputeNext
    <3>1. RefundInv' /\ focus' = focus
      BY <2>1, RefundStepInv, DisputeFrame
    <3>2. faults \in Nat /\ faults' \in Nat /\ (faults' = 0 => faults = 0)
      BY <2>1, Counted DEF Smooth
    <3>3. faults' = 0 => Going' /\ Fresh'
      BY <2>1, <3>1, <3>2, SmoothStep DEF Smooth
    <3> QED
      BY <2>1, <3>1, <3>2, <3>3 DEF Smooth
  <2>2. CASE focus # "disputes" /\ TopupNext /\ UNCHANGED disputeVars
    <3>1. RefundInv'
      BY <2>2, RefundStepInv
    <3> QED
      BY <2>2, <3>1, DisputeFrame DEF Smooth, disputeVars
  <2>3. CASE focus # "disputes" /\ UNCHANGED sagaVars
    BY <2>3, DisputeFrame, RefundsUnmoved DEF Smooth, sagaVars, disputeVars
  <2>4. CASE UNCHANGED <<faults, sagaVars>>
    <3>1. Going /\ Fresh => Going' /\ Fresh'
      BY <2>4 DEF Going, Fresh, Smoothly, Refunding, sagaVars, stepVars, disputeVars
    <3> QED
      BY <2>4, <3>1, DisputeFrame, RefundsUnmoved DEF Smooth, sagaVars, disputeVars
  <2> QED
    BY <2>1, <2>2, <2>3, <2>4, DisputeFrame
<1> QED
  BY <1>1, <1>2, PTL DEF Spec

\* What the invariants give: one refund at most is carried out for a dispute,
\* and one that is accepted is in somebody's hands.
LEMMA RefundPromises ==
  ASSUME RefundInv, Smooth
  PROVE  RefundInOrder /\ RefundedOnce /\ RefundedIsRepaid
<1>1. ASSUME NEW d \in Disputes PROVE Cardinality({s \in launched[d] : done[s] # {}}) <= 1
  <2> DEFINE carried == {s \in launched[d] : done[s] # {}}
  <2>1. PICK s : launched[d] \subseteq {s}
    BY DEF RefundInv, OneLaunch
  <2>2. carried = {} \/ carried = {s}
    BY <2>1
  <2>3. Cardinality({}) = 0 /\ Cardinality({s}) = 1
    BY FS_EmptySet, FS_Singleton
  <2> QED
    BY <2>2, <2>3
<1>2. Doings = {RefundSteps[i] : i \in DOMAIN RefundSteps}
  BY DEF Doings, RefundSteps
<1>3. ASSUME NEW d \in Disputes, dispute[d] = "refunded"
      PROVE  \E s \in launched[d] : done[s] = {RefundSteps[i] : i \in DOMAIN RefundSteps}
  <2>1. PICK s \in launched[d] : Doings \subseteq done[s]
    BY <1>3 DEF RefundInv, ClosedIsRepaid
  <2>2. s \in Refunds /\ done[s] = Doings
    BY <2>1 DEF RefundInv, RefundShape
  <2> QED
    BY <1>2, <2>2
<1>4. ASSUME NEW d \in Disputes, dispute[d] = "accepted", faults = 0
      PROVE  \E w \in Hands : hand[w].op = "accept" /\ hand[w].dispute = d
  <2>1. Going
    BY <1>4 DEF Smooth
  <2>2. PICK w \in Hands : Refunding(w) /\ hand[w].dispute = d
    BY <1>4, <2>1 DEF Going
  <2> QED
    BY <2>2 DEF Refunding, RefundHand
<1> QED
  BY <1>1, <1>3, <1>4 DEF RefundInv, RefundedOnce, RefundedIsRepaid

\* Money moves once and behind what it stands for: an intent is paid by what the
\* provider settled (payment/service.go:98), a refund is paid out behind its
\* reversal and roll-back (saga_refund/service.go:95), and a dispute has one
\* refund (dispute/service.go:160), whatever overlaps or fails.
THEOREM MoneyBackedCorrect == Spec => []MoneyBacked
<1>1. RefundInv /\ Smooth => RefundInOrder /\ RefundedOnce /\ RefundedIsRepaid
  BY RefundPromises
<1>3. IntentInv => PaidIsSettled
  BY DEF IntentInv
<1>2. PaidIsSettled /\ RefundInOrder /\ RefundedOnce /\ RefundedIsRepaid => MoneyBacked
  BY DEF MoneyBacked
<1> QED
  BY <1>1, <1>2, <1>3, IntentHolds, RefundCorrect, PTL

-----------------------------------------------------------------------------
(* Payments do not go back.  Who is about to write over a booked intent      *)
(* overlapped with the call that booked it.                                  *)

SlipsShape == slips \in [Trades -> SUBSET {"overlap", "lost"}]
OverlapNoted ==
  \A w \in Hooks : At(w, "write") /\ Booked(hook[w].trade) => "overlap" \in slips[hook[w].trade]
PaidInv == IntentInv /\ SlipsShape /\ OverlapNoted
NotTakenBack(t) == Booked(t) /\ intent'[t] = "failed" => "overlap" \in slips'[t]

LEMMA SlipAdds ==
  ASSUME SlipsShape, NEW t \in Trades, NEW what \in {"overlap", "lost"}, Slip(t, what)
  PROVE  /\ SlipsShape' /\ what \in slips'[t] /\ \A s \in Trades : slips[s] \subseteq slips'[s]
<1>1. slips' = [slips EXCEPT ![t] = slips[t] \cup {what}]
  BY DEF Slip
<1> QED
  BY <1>1 DEF SlipsShape

\* The write of a callback.
LEMMA UpdatePaid ==
  ASSUME PaidInv, NEW w \in Hooks, UpdateState(w)
  PROVE  SlipsShape' /\ OverlapNoted' /\ \A t \in Trades : NotTakenBack(t)
<1>1. At(w, "write") /\ hook' = [hook EXCEPT ![w] = Resting] /\ IntentShape
  BY DEF UpdateState, Answer, Rest, PaidInv, IntentInv
<1>2. PICK t \in Trades : t = hook[w].trade /\ t = hook[w].notice.trade
  BY <1>1, HookTyped DEF At, PaidInv, IntentInv, NoticeInHand
<1>3. \A s \in Trades \ {t} : intent'[s] = intent[s]
  BY <1>1, <1>2 DEF UpdateState, IntentShape
<1>4. /\ hook'[w] = Resting /\ \A v \in Hooks \ {w} : hook'[v] = hook[v]
  BY <1>1 DEF IntentShape
<1>5. /\ SlipsShape' /\ \A s \in Trades : slips[s] \subseteq slips'[s]
      /\ Writing(t) # {w} => "overlap" \in slips'[t]
  <2>1. CASE Slip(t, "overlap")
    BY <2>1, SlipAdds DEF PaidInv
  <2>2. CASE Writing(t) = {w} /\ UNCHANGED slips
    BY <2>2 DEF PaidInv, SlipsShape
  <2> QED
    BY <1>2, <2>1, <2>2 DEF UpdateState
<1>6. OverlapNoted'
  <2>1. SUFFICES ASSUME NEW v \in Hooks, At(v, "write")', intent'[hook'[v].trade] \in {"paid", "funded"}
                 PROVE  "overlap" \in slips'[hook'[v].trade]
    BY DEF OverlapNoted, Booked
  <2>2. v # w /\ hook'[v] = hook[v] /\ At(v, "write")
    BY <1>4, <2>1 DEF At, Resting
  <2>3. hook[v].trade \in Trades
    BY <1>1, <2>2, HookTyped DEF At
  <2>4. CASE hook[v].trade = t
    BY <1>5, <2>2, <2>4 DEF Writing
  <2>5. CASE hook[v].trade # t
    BY <1>3, <1>5, <2>1, <2>2, <2>3, <2>5 DEF Booked, PaidInv, OverlapNoted
  <2> QED
    BY <2>4, <2>5
<1>7. ASSUME NEW s \in Trades PROVE NotTakenBack(s)
  <2>1. CASE s = t
    BY <1>1, <1>2, <1>5, <2>1 DEF NotTakenBack, PaidInv, OverlapNoted
  <2>2. CASE s # t
    BY <1>3, <2>2 DEF NotTakenBack, Booked
  <2> QED
    BY <2>1, <2>2
<1> QED
  BY <1>5, <1>6, <1>7

\* The other steps book nothing, and write nothing over what is booked.
LEMMA OthersPaid ==
  ASSUME PaidInv, SlipsShape', \A t \in Trades : slips[t] \subseteq slips'[t],
         \A t \in Trades : (Booked(t)' => Booked(t)) /\ (Booked(t) => intent'[t] # "failed"),
         \A v \in Hooks : At(v, "write")' =>
           /\ hook'[v].trade = hook[v].trade /\ hook[v].trade \in Trades
           /\ At(v, "write") \/ ~Booked(hook[v].trade)
  PROVE  OverlapNoted' /\ \A t \in Trades : NotTakenBack(t)
<1>1. SUFFICES ASSUME NEW v \in Hooks, At(v, "write")', intent'[hook'[v].trade] \in {"paid", "funded"}
               PROVE  "overlap" \in slips'[hook'[v].trade]
  BY DEF OverlapNoted, NotTakenBack, Booked
<1>2. hook'[v].trade = hook[v].trade /\ hook[v].trade \in Trades /\ Booked(hook[v].trade)
  <2>1. PICK t \in Trades : t = hook[v].trade /\ t = hook'[v].trade
    BY <1>1
  <2> QED
    BY <1>1, <2>1 DEF Booked
<1>3. At(v, "write")
  BY <1>1, <1>2
<1> QED
  BY <1>2, <1>3 DEF PaidInv, OverlapNoted

LEMMA PaidStep ==
  ASSUME PaidInv, IntentNext
  PROVE  PaidInv' /\ \A t \in Trades : NotTakenBack(t)
<1>0. IntentShape /\ SlipsShape
  BY DEF PaidInv, IntentInv
<1>1. ASSUME NEW w \in Hooks, NEW t \in Trades, CreateTopup(w, t)
      PROVE  SlipsShape' /\ OverlapNoted' /\ \A s \in Trades : NotTakenBack(s)
  <2>1. /\ hook' = [hook EXCEPT ![w] = [pc |-> "provider", trade |-> t]]
        /\ intent' = [intent EXCEPT ![t] = "created"] /\ intent[t] = "none" /\ slips' = slips
    BY <1>1 DEF CreateTopup
  <2>2. /\ hook'[w].pc = "provider" /\ \A v \in Hooks \ {w} : hook'[v] = hook[v]
        /\ intent'[t] = "created" /\ \A s \in Trades \ {t} : intent'[s] = intent[s]
    BY <1>0, <2>1 DEF IntentShape
  <2>3. \A v \in Hooks : At(v, "write")' => hook'[v] = hook[v] /\ At(v, "write") /\ hook[v].trade \in Trades
    BY <1>0, <2>2, HookTyped DEF At
  <2> QED
    BY <1>0, <2>1, <2>2, <2>3, OthersPaid DEF Booked, SlipsShape
<1>2. ASSUME NEW w \in Hooks, ProviderTopup(w) \/ HookFails(w) \/ Claim(w)
                              \/ (\E n \in Notice : Deliver(w, n))
      PROVE  SlipsShape' /\ OverlapNoted' /\ \A s \in Trades : NotTakenBack(s)
  <2>1. intent' = intent
    BY <1>2 DEF ProviderTopup, HookFails, Claim, Deliver
  <2>2. SlipsShape' /\ \A s \in Trades : slips[s] \subseteq slips'[s]
    <3>1. CASE UNCHANGED slips
      BY <1>0, <3>1 DEF SlipsShape
    <3>2. CASE hook[w].pc \in {"claim", "lookup", "write"} /\ Slip(hook[w].notice.trade, "lost")
      <4>1. hook[w].notice.trade \in Trades
        BY <1>0, <3>2, HookTyped DEF Notice
      <4> QED
        BY <1>0, <3>2, <4>1, SlipAdds
    <3> QED
      BY <1>2, <3>1, <3>2 DEF ProviderTopup, HookFails, Claim, Deliver, Losing, At
  <2>3. \E h : h.pc # "write" /\ hook' = [hook EXCEPT ![w] = h]
    <3>1. Resting.pc # "write"
      BY DEF Resting
    <3>2. CASE Rest(w)
      BY <3>1, <3>2 DEF Rest
    <3>3. CASE To(w, "lookup") /\ At(w, "claim")
      <4>1. hook[w] \in [pc : {"claim", "lookup", "write"}, notice : Notice, trade : Trades]
        BY <1>0, <3>3, HookTyped DEF At
      <4>2. [hook[w] EXCEPT !.pc = "lookup"].pc # "write"
        BY <4>1
      <4> QED
        BY <3>3, <4>2 DEF To
    <3>4. ASSUME NEW n \in Notice, Deliver(w, n) PROVE \E h : h.pc # "write" /\ hook' = [hook EXCEPT ![w] = h]
      <4>1. [pc |-> "claim", notice |-> n, trade |-> n.trade].pc # "write"
        OBVIOUS
      <4> QED
        BY <3>4, <4>1 DEF Deliver
    <3> QED
      BY <1>2, <3>2, <3>3, <3>4 DEF ProviderTopup, HookFails, Claim, Answer
  <2>4. PICK h : h.pc # "write" /\ hook' = [hook EXCEPT ![w] = h]
    BY <2>3
  <2>5. \A v \in Hooks : At(v, "write")' => hook'[v] = hook[v] /\ At(v, "write") /\ hook[v].trade \in Trades
    BY <1>0, <2>4, HookTyped DEF At, IntentShape
  <2> QED
    BY <2>1, <2>2, <2>5, OthersPaid DEF Booked
<1>3. ASSUME NEW w \in Hooks, Lookup(w)
      PROVE  SlipsShape' /\ OverlapNoted' /\ \A s \in Trades : NotTakenBack(s)
  <2>1. /\ hook[w] \in [pc : {"claim", "lookup", "write"}, notice : Notice, trade : Trades]
        /\ intent' = intent /\ slips' = slips
    BY <1>0, <1>3, HookTyped DEF Lookup, At
  <2>2. \/ hook' = [hook EXCEPT ![w] = Resting]
        \/ ~Booked(hook[w].trade) /\ hook' = [hook EXCEPT ![w] = [hook[w] EXCEPT !.pc = "write"]]
    BY <1>3 DEF Lookup, Answer, Rest, To
  <2>3. \A v \in Hooks \ {w} : hook'[v] = hook[v]
    BY <1>0, <2>2 DEF IntentShape
  <2>4. hook'[w] = Resting \/ (hook'[w].trade = hook[w].trade /\ ~Booked(hook[w].trade))
    BY <1>0, <2>1, <2>2 DEF IntentShape
  <2>5. \A v \in Hooks : At(v, "write")' =>
          /\ hook'[v].trade = hook[v].trade /\ hook[v].trade \in Trades
          /\ At(v, "write") \/ ~Booked(hook[v].trade)
    BY <1>0, <2>1, <2>3, <2>4, HookTyped DEF At, Resting
  <2> QED
    BY <1>0, <2>1, <2>5, OthersPaid DEF Booked, SlipsShape
<1>4. ASSUME NEW t \in Trades, MarkFunded(t)
      PROVE  SlipsShape' /\ OverlapNoted' /\ \A s \in Trades : NotTakenBack(s)
  <2>1. /\ intent[t] = "paid" /\ intent'[t] = "funded" /\ \A s \in Trades \ {t} : intent'[s] = intent[s]
        /\ hook' = hook /\ slips' = slips
    BY <1>0, <1>4 DEF MarkFunded, IntentShape
  <2>2. \A s \in Trades : (Booked(s)' => Booked(s)) /\ (Booked(s) => intent'[s] # "failed")
    BY <2>1 DEF Booked
  <2>3. \A v \in Hooks : At(v, "write")' => At(v, "write") /\ hook[v].trade \in Trades
    BY <1>0, <2>1, HookTyped DEF At
  <2> QED
    BY <1>0, <2>1, <2>2, <2>3, OthersPaid DEF SlipsShape
<1>5. ASSUME UNCHANGED <<intent, hook, slips>>
      PROVE  SlipsShape' /\ OverlapNoted' /\ \A s \in Trades : NotTakenBack(s)
  <2>1. \A v \in Hooks : At(v, "write")' => At(v, "write") /\ hook[v].trade \in Trades
    BY <1>0, <1>5, HookTyped DEF At
  <2> QED
    BY <1>0, <1>5, <2>1, OthersPaid DEF SlipsShape, Booked
<1>6. SlipsShape' /\ OverlapNoted' /\ \A s \in Trades : NotTakenBack(s)
  <2>1. ASSUME NEW n \in Notice, Notify(n) PROVE UNCHANGED <<intent, hook, slips>>
    BY <2>1 DEF Notify
  <2>2. ASSUME NEW t \in Trades, Settle(t) PROVE UNCHANGED <<intent, hook, slips>>
    BY <2>2 DEF Settle
  <2> QED
    BY <1>1, <1>2, <1>3, <1>4, <1>5, <2>1, <2>2, UpdatePaid DEF IntentNext, HandleCallback
<1>7. IntentInv'
  BY IntentStepInv DEF PaidInv
<1> QED
  BY <1>6, <1>7 DEF PaidInv

\* Top-ups.  Plan has what is left of a request when it is at a step.
I2 == <<"intent", "provider">>
I1 == <<"provider">>
C1 == <<"callback">>
F3 == <<"fy", "funded", "notify">>
F2 == <<"funded", "notify">>
Plan(op) ==
  IF op = "initiate" THEN {I2, I1, <<>>} ELSE IF op = "callback" THEN {C1, <<>>} ELSE {F3, F2, R1, <<>>}
Words(op) ==
  IF op = "initiate" THEN {"intent", "provider"} ELSE IF op = "callback" THEN {"callback"}
  ELSE {"fy", "funded", "notify"}
TopupOps == {"initiate", "callback", "fund"}

LEMMA PlanGoesOn ==
  ASSUME NEW op \in TopupOps, NEW steps \in Plan(op), steps # <<>>
  PROVE  /\ Tail(steps) \in Plan(op) /\ Head(steps) \in Words(op)
         /\ Len(steps) = 1 <=> Tail(steps) = <<>>
<1>1. /\ Len(I2) = 2 /\ Len(I1) = 1 /\ Len(C1) = 1 /\ Len(F3) = 3 /\ Len(F2) = 2 /\ Len(R1) = 1
      /\ Head(I2) = "intent" /\ Head(I1) = "provider" /\ Head(C1) = "callback" /\ Head(F3) = "fy"
      /\ Head(F2) = "funded" /\ Head(R1) = "notify" /\ Len(<<>>) = 0
  BY DEF I2, I1, C1, F3, F2, R1
<1>2. /\ Tail(I2) = I1 /\ Tail(I1) = <<>> /\ Tail(C1) = <<>> /\ Tail(F3) = F2 /\ Tail(F2) = R1
      /\ Tail(R1) = <<>>
  BY DEF I2, I1, C1, F3, F2, R1
<1>3. CASE op = "initiate"
  <2>1. steps = I2 \/ steps = I1
    BY <1>3 DEF Plan
  <2> QED
    BY <1>1, <1>2, <1>3, <2>1 DEF Plan, Words
<1>4. CASE op = "callback"
  <2>1. steps = C1
    BY <1>4 DEF Plan
  <2> QED
    BY <1>1, <1>2, <1>4, <2>1 DEF Plan, Words
<1>5. CASE op = "fund"
  <2>1. steps = F3 \/ steps = F2 \/ steps = R1
    BY <1>5 DEF Plan
  <2> QED
    BY <1>1, <1>2, <1>5, <2>1 DEF Plan, Words
<1> QED
  BY <1>3, <1>4, <1>5 DEF TopupOps

\* A request is where its plan has it, and behind what its kind waits for.
HandSound(w) ==
  LET h == hand[w] IN
  /\ h.steps \in Plan(h.op)
  /\ h.pc # "end" => h.steps # <<>>
  /\ h.pc = "commit" => Head(h.steps) \in done[h.saga]
  /\ h.op = "initiate" /\ h.steps # I2 => "intent" \in done[h.saga]
  /\ h.op = "callback" => "provider" \in done[h.saga]
  /\ h.op = "fund" => h.saga \in hasty \/ "callback" \in done[h.saga]
\* Operations take effect in the order of the saga, and behind committed rows.
Ordered(s) ==
  /\ \A x \in StepNames : row[s][x] = "committed" => x \in done[s]
  /\ "provider" \in done[s] => "intent" \in done[s]
  /\ "callback" \in done[s] => "provider" \in done[s]
  /\ "funded" \in done[s] => s \in hasty \/ "callback" \in done[s]
\* A write of the intent is behind its row or the request about to save it, and
\* the only request at its step has it still to do.
Marks == {"intent", "callback", "funded"}
InStep(s, x) ==
  /\ x \in done[s] =>
       row[s][x] \in {"committed", "escalated"} \/ \E w \in Engaged(s, x) : hand[w].pc = "commit"
  /\ \A w \in Engaged(s, x) : Engaged(s, x) \subseteq {w} /\ (hand[w].pc # "commit" => x \notin done[s])
Undoubted(s) == s \notin doubted => \A x \in Marks : InStep(s, x)
\* The intent is where the writes that took effect brought it.
Reached(s) ==
  IF "funded" \in done[s] THEN "funded" ELSE IF "callback" \in done[s] THEN "paid"
  ELSE IF "intent" \in done[s] THEN "created" ELSE "none"
Staged(s) == s \notin doubted \cup hasty => stage[s] = Reached(s)
TopupShape == stage \in [Topups -> IntentStage] /\ doubted \subseteq Topups /\ hasty \subseteq Topups
TopupInv ==
  /\ TopupShape /\ \A w \in Hands : TopupHand(hand[w]) => HandSound(w)
  /\ \A s \in Topups : Ordered(s) /\ Undoubted(s) /\ Staged(s)
Advances(s) ==
  stage'[s] # stage[s] =>
    \/ stage[s] = "none" /\ stage'[s] = "created"
    \/ CanAdvance(stage[s], stage'[s])
    \/ s \in doubted' \cup hasty'

LEMMA WritesAre ==
  /\ DOMAIN IntentWrites = Marks /\ Marks \subseteq StepNames
  /\ IntentWrites["intent"] = "created" /\ IntentWrites["callback"] = "paid" /\ IntentWrites["funded"] = "funded"
<1>1. DOMAIN IntentWrites = {"intent", "callback", "funded"}
  BY DEF IntentWrites
<1> QED
  BY <1>1 DEF IntentWrites, Marks, StepNames

LEMMA EngagedIs ==
  \A s, x, v :
    v \in Engaged(s, x) <=>
      /\ v \in Hands /\ hand[v] # Free /\ hand[v].pc \in {"start", "call", "commit", "fail"}
      /\ hand[v].saga = s /\ Head(hand[v].steps) = x
  BY DEF Engaged, Working, Is, Step

\* One request moves, and leaves the steps alone that it is not at.
Untouching(w, s, x) ==
  /\ w \notin Engaged(s, x) /\ w \notin Engaged(s, x)'
  /\ row'[s][x] = row[s][x] /\ (x \in done'[s] <=> x \in done[s])

LEMMA WritesKept ==
  ASSUME TopupInv, NEW w \in Hands, \A v \in Hands \ {w} : hand'[v] = hand[v], doubted \subseteq doubted',
         \A t \in Topups, y \in Marks : t \in doubted' \/ InStep(t, y)' \/ Untouching(w, t, y)
  PROVE  \A s \in Topups : Undoubted(s)'
<1>1. SUFFICES ASSUME NEW s \in Topups, s \notin doubted', NEW y \in Marks, Untouching(w, s, y)
               PROVE  InStep(s, y)'
  BY DEF Undoubted
<1>2. \A v : v \in Engaged(s, y)' <=> v \in Engaged(s, y)
  <2>1. \A v \in Hands \ {w} : v \in Engaged(s, y)' <=> v \in Engaged(s, y)
    BY EngagedIs DEF Engaged, Is, Step
  <2> QED
    BY <1>1, <2>1 DEF Engaged, Untouching
<1>3. Engaged(s, y)' = Engaged(s, y) /\ \A v \in Engaged(s, y) : hand'[v] = hand[v]
  <2>1. \A v \in Engaged(s, y) : v \in Hands \ {w}
    BY <1>1 DEF Engaged, Untouching
  <2> QED
    BY <1>2, <2>1
<1>4. InStep(s, y) /\ row'[s][y] = row[s][y] /\ (y \in done'[s] <=> y \in done[s])
  BY <1>1 DEF TopupInv, Undoubted, Untouching
<1> QED
  BY <1>3, <1>4 DEF InStep

\* What a step without effect at the intent has to show.
LEMMA TopupMoves ==
  ASSUME TopupInv, NEW w \in Hands, \A v \in Hands \ {w} : hand'[v] = hand[v],
         TopupHand(hand'[w]) => HandSound(w)', stage' = stage,
         \A s \in Topups : done'[s] = done[s], doubted \subseteq doubted', hasty \subseteq hasty',
         doubted' \subseteq Topups, hasty' \subseteq Topups,
         \A s \in Topups, y \in StepNames : row'[s][y] = "committed" => y \in done[s],
         \A s \in Topups : Undoubted(s)'
  PROVE  TopupInv' /\ \A s \in Topups : Advances(s)
<1>1. ASSUME NEW v \in Hands, TopupHand(hand'[v]), v # w PROVE HandSound(v)'
  <2>1. hand'[v] = hand[v] /\ HandSound(v) /\ hand[v].saga \in Topups
    BY <1>1 DEF TopupInv, TopupHand
  <2> QED
    BY <2>1 DEF HandSound
<1>2. \A v \in Hands : TopupHand(hand'[v]) => HandSound(v)'
  BY <1>1
<1>3. ASSUME NEW s \in Topups PROVE Ordered(s)' /\ Staged(s)'
  BY DEF TopupInv, Ordered, Staged, Reached
<1>4. TopupInv'
  BY <1>2, <1>3 DEF TopupInv, TopupShape
<1> QED
  BY <1>4 DEF Advances

\* A request that is not at a write of a top-up, before or after.
LEMMA TopupQuiet ==
  ASSUME TopupInv, NEW w \in Hands, \A v \in Hands \ {w} : hand'[v] = hand[v],
         TopupHand(hand'[w]) => HandSound(w)', stage' = stage,
         \A s \in Topups : row'[s] = row[s] /\ done'[s] = done[s],
         doubted' = doubted, hasty \subseteq hasty', hasty' \subseteq Topups,
         \A t \in Topups, y \in Marks : w \notin Engaged(t, y) /\ w \notin Engaged(t, y)'
  PROVE  TopupInv' /\ \A s \in Topups : Advances(s)
<1>3. \A s \in Topups : Undoubted(s)'
  <2>1. \A t \in Topups, y \in Marks : Untouching(w, t, y)
    BY DEF Untouching
  <2> QED
    BY <2>1, WritesKept
<1>4. doubted \subseteq doubted' /\ doubted' \subseteq Topups
  BY DEF TopupInv, TopupShape
<1>5. \A s \in Topups, y \in StepNames : row'[s][y] = "committed" => y \in done[s]
  BY DEF TopupInv, Ordered
<1> QED
  BY <1>3, <1>4, <1>5, TopupMoves

\* The hand after a step of Run.
LEMMA TopupTurns ==
  ASSUME RefundInv, NEW w \in Hands, TopupHand(hand[w])
  PROVE  /\ \A pc \in Pcs : Turn(w, pc) => hand' = [hand EXCEPT ![w] = [hand[w] EXCEPT !.pc = pc]]
         /\ \A pc \in Pcs : Turn(w, pc) =>
              /\ hand'[w].pc = pc /\ hand'[w].steps = hand[w].steps /\ hand'[w].ok = hand[w].ok
              /\ hand'[w].op = hand[w].op /\ hand'[w].saga = hand[w].saga
         /\ Give(w) =>
              /\ hand'[w].pc = "end" /\ hand'[w].steps = hand[w].steps /\ hand'[w].ok = FALSE
              /\ hand'[w].op = hand[w].op /\ hand'[w].saga = hand[w].saga
         /\ Further(w) =>
              /\ hand'[w].pc = (IF Len(hand[w].steps) = 1 THEN "end" ELSE "read")
              /\ hand'[w].steps = Tail(hand[w].steps) /\ hand'[w].ok = hand[w].ok
              /\ hand'[w].op = hand[w].op /\ hand'[w].saga = hand[w].saga
         /\ hand[w].op \in TopupOps /\ hand[w].saga \in Topups /\ hand[w].pc \in Pcs
<1>1. PICK steps : hand[w] \in [op : TopupOps, saga : Topups, steps : {steps}, pc : Pcs, ok : BOOLEAN]
  BY DEF TopupHand, TopupOps
<1>2. hand = [v \in Hands |-> hand[v]]
  BY DEF RefundInv, RefundShape
<1>3. ASSUME NEW pc \in Pcs, Turn(w, pc)
      PROVE  /\ hand'[w].pc = pc /\ hand'[w].steps = hand[w].steps /\ hand'[w].ok = hand[w].ok
             /\ hand'[w].op = hand[w].op /\ hand'[w].saga = hand[w].saga
             /\ hand' = [hand EXCEPT ![w] = [hand[w] EXCEPT !.pc = pc]]
  <2>1. hand' = [hand EXCEPT ![w] = [hand[w] EXCEPT !.pc = pc]]
    BY <1>3 DEF Turn
  <2>2. hand'[w] = [hand[w] EXCEPT !.pc = pc]
    BY <1>2, <2>1
  <2> QED
    BY <1>1, <2>1, <2>2
<1>4. ASSUME Give(w)
      PROVE  /\ hand'[w].pc = "end" /\ hand'[w].steps = hand[w].steps /\ hand'[w].ok = FALSE
             /\ hand'[w].op = hand[w].op /\ hand'[w].saga = hand[w].saga
  <2>1. hand'[w] = [hand[w] EXCEPT !.pc = "end", !.ok = FALSE]
    BY <1>2, <1>4 DEF Give
  <2> QED
    BY <1>1, <2>1
<1>5. ASSUME Further(w)
      PROVE  /\ hand'[w].pc = (IF Len(hand[w].steps) = 1 THEN "end" ELSE "read")
             /\ hand'[w].steps = Tail(hand[w].steps) /\ hand'[w].ok = hand[w].ok
             /\ hand'[w].op = hand[w].op /\ hand'[w].saga = hand[w].saga
  <2> DEFINE next == IF Len(hand[w].steps) = 1 THEN "end" ELSE "read"
             rest == Tail(hand[w].steps)
  <2>1. hand' = [hand EXCEPT ![w] = [hand[w] EXCEPT !.steps = rest, !.pc = next]]
    BY <1>5 DEF Further
  <2> HIDE DEF next, rest
  <2>2. hand'[w] = [hand[w] EXCEPT !.steps = rest, !.pc = next]
    BY <1>2, <2>1
  <2>3. /\ hand'[w].pc = next /\ hand'[w].steps = rest /\ hand'[w].ok = hand[w].ok
        /\ hand'[w].op = hand[w].op /\ hand'[w].saga = hand[w].saga
    BY <1>1, <2>2
  <2> QED
    BY <2>3 DEF next, rest
<1> QED
  BY <1>1, <1>3, <1>4, <1>5

\* The request at a write, when it is the only one.
LEMMA AloneInStep ==
  ASSUME NEW w \in Hands, \A v \in Hands \ {w} : hand'[v] = hand[v], NEW r, NEW x,
         Engaged(r, x) \subseteq {w},
         w \in Engaged(r, x)' => hand'[w].pc = "commit" \/ x \notin done'[r],
         w \notin Engaged(r, x)' /\ x \in done'[r] => row'[r][x] \in {"committed", "escalated"}
  PROVE  InStep(r, x)'
<1>1. \A v \in Hands \ {w} : v \in Engaged(r, x)' <=> v \in Engaged(r, x)
  BY EngagedIs DEF Engaged, Is, Step
<1>2. Engaged(r, x)' \subseteq {w}
  BY <1>1 DEF Engaged
<1>3. CASE w \in Engaged(r, x)'
  BY <1>2, <1>3 DEF InStep
<1>4. CASE w \notin Engaged(r, x)'
  BY <1>2, <1>4 DEF InStep
<1> QED
  BY <1>3, <1>4

LEMMA TopupRunStep ==
  ASSUME RefundInv, TopupInv, NEW w \in Hands, TopupHand(hand[w]), RunSaga(w) \/ StoreFails(w),
         \A v \in Hands \ {w} : hand'[v] = hand[v]
  PROVE  TopupInv' /\ \A s \in Topups : Advances(s)
<1>1. PICK r \in Topups : r = hand[w].saga
  BY TopupTurns
<1>2. PICK op \in TopupOps : op = hand[w].op
  BY TopupTurns
<1>3. PICK x : x = Head(hand[w].steps)
  OBVIOUS
<1>4. PICK steps : steps = hand[w].steps
  OBVIOUS
<1>5. PICK pc \in {"read", "start", "call", "commit", "fail"} : hand[w].pc = pc
  BY DEF RunSaga, StoreFails, ReadRow, SaveStart, CallStep, SaveCommit, SaveFail, Is
<1>6. /\ row \in [Sagas -> [StepNames -> StepStatus]] /\ done = [s \in Sagas |-> done[s]]
      /\ Topups \subseteq Sagas /\ hand[w] # Free
  BY DEF RefundInv, RefundShape, Sagas, RunSaga, StoreFails, ReadRow, SaveStart, CallStep, SaveCommit,
         SaveFail, Is
<1>7. HandSound(w) /\ Ordered(r) /\ Undoubted(r) /\ Staged(r) /\ TopupShape
  BY <1>1 DEF TopupInv
<1>8. steps \in Plan(op) /\ steps # <<>> /\ x = Head(steps)
  BY <1>2, <1>3, <1>4, <1>5, <1>7 DEF HandSound
<1>9. Tail(steps) \in Plan(op) /\ x \in Words(op) /\ (Len(steps) = 1 <=> Tail(steps) = <<>>)
  BY <1>8, PlanGoesOn
<1>10. /\ op = "fund" => r \in hasty \/ "callback" \in done[r]
       /\ op = "callback" => "provider" \in done[r]
       /\ op = "initiate" /\ steps # I2 => "intent" \in done[r]
       /\ pc = "commit" => x \in done[r]
  BY <1>1, <1>2, <1>3, <1>4, <1>5, <1>7 DEF HandSound
<1>11. /\ x \in StepNames
       /\ x = "intent" \/ x = "provider" => op = "initiate"
       /\ x = "callback" => op = "callback"
       /\ x = "funded" => op = "fund"
       /\ x = "provider" => steps # I2
  <2>1. x = "provider" => steps # I2
    BY <1>8 DEF I2
  <2> QED
    BY <1>9, <2>1 DEF Words, TopupOps, StepNames
<1>12. op = "initiate" /\ x # "intent" => steps # I2
  BY <1>8 DEF I2
<1>13. \A t \in Topups, y \in Marks : w \in Engaged(t, y) => t = r /\ y = x /\ pc # "read"
  BY <1>1, <1>3, <1>5, EngagedIs
<1>14. pc # "read" => w \in Engaged(r, x)
  BY <1>1, <1>3, <1>5, <1>6, EngagedIs
<1>15. x \in Marks /\ r \notin doubted /\ pc # "read" =>
         Engaged(r, x) \subseteq {w} /\ (pc # "commit" => x \notin done[r])
  BY <1>5, <1>7, <1>14 DEF Undoubted, InStep
<1>16. \A p \in Pcs : Turn(w, p) =>
         hand'[w].pc = p /\ hand'[w].steps = steps /\ hand'[w].op = op /\ hand'[w].saga = r
  BY <1>1, <1>2, <1>4, TopupTurns
<1>17. Give(w) => hand'[w].pc = "end" /\ hand'[w].steps = steps /\ hand'[w].op = op /\ hand'[w].saga = r
  BY <1>1, <1>2, <1>4, TopupTurns
<1>18. Further(w) =>
         /\ hand'[w].pc \in {"read", "end"} /\ (hand'[w].pc = "read" => Tail(steps) # <<>>)
         /\ hand'[w].steps = Tail(steps) /\ hand'[w].op = op /\ hand'[w].saga = r
  <2>1. Further(w) =>
          /\ hand'[w].pc = (IF Len(steps) = 1 THEN "end" ELSE "read")
          /\ hand'[w].steps = Tail(steps) /\ hand'[w].op = op /\ hand'[w].saga = r
    BY <1>1, <1>2, <1>4, TopupTurns
  <2> QED
    BY <1>9, <2>1
<1>19. ASSUME Give(w), UNCHANGED <<done, hasty>> PROVE HandSound(w)'
  BY <1>8, <1>10, <1>17, <1>19 DEF HandSound
<1>20. ASSUME Further(w), UNCHANGED <<done, hasty>>, x \in done[r] PROVE HandSound(w)'
  <2>1. op = "initiate" => "intent" \in done[r]
    BY <1>10, <1>12, <1>20
  <2> QED
    BY <1>9, <1>10, <1>18, <1>20, <2>1 DEF HandSound
<1>21. ASSUME NEW p \in Pcs \ {"end"}, Turn(w, p), done[r] \subseteq done'[r], UNCHANGED hasty,
              p = "commit" => x \in done'[r]
       PROVE  HandSound(w)'
  BY <1>8, <1>10, <1>16, <1>21 DEF HandSound
<1>22. Give(w) \/ Further(w) => \A t, y : w \notin Engaged(t, y)'
  BY <1>17, <1>18, EngagedIs DEF Engaged, Working, Is
<1>23. \A p \in Pcs : Turn(w, p) => \A t, y : w \in Engaged(t, y)' => t = r /\ y = x
  <2>1. ASSUME NEW p \in Pcs, Turn(w, p), NEW t, NEW y, w \in Engaged(t, y)' PROVE t = r /\ y = x
    <3>1. hand'[w].saga = t /\ Head(hand'[w].steps) = y
      BY <2>1 DEF Engaged, Is, Step
    <3> QED
      BY <1>8, <1>16, <2>1, <3>1
  <2> QED
    BY <2>1
<1>24. ASSUME NEW v \in StepStatus, SetRow(w, v)
       PROVE  /\ \A t \in Topups, y \in StepNames : t # r \/ y # x => row'[t][y] = row[t][y]
              /\ row'[r][x] = v
  <2>1. row' = [row EXCEPT ![r] = [row[r] EXCEPT ![x] = v]]
    BY <1>1, <1>3, <1>24 DEF SetRow, Step
  <2>2. /\ \A t \in Topups \ {r} : row'[t] = row[t]
        /\ row'[r] = [row[r] EXCEPT ![x] = v] /\ row[r] \in [StepNames -> StepStatus]
    BY <1>6, <2>1
  <2> QED
    BY <1>11, <2>2
\* no effect at the port
<1>25. ASSUME UNCHANGED <<stage, done, hasty>>, doubted' = doubted \/ Doubt(w), HandSound(w)',
              row' = row \/ \E v \in StepStatus : SetRow(w, v) /\ (v = "committed" => x \in done[r]),
              Give(w) \/ Further(w) \/ \E p \in Pcs : Turn(w, p),
              x \in Marks /\ r \notin doubted' => InStep(r, x)'
       PROVE  TopupInv' /\ \A s \in Topups : Advances(s)
  <2>1. doubted \subseteq doubted' /\ doubted' \subseteq Topups
    BY <1>1, <1>7, <1>25 DEF Doubt, TopupShape
  <2>2. \A t \in Topups, y \in Marks : w \in Engaged(t, y) \/ w \in Engaged(t, y)' => t = r /\ y = x
    BY <1>13, <1>22, <1>23, <1>25
  <2>3. \A t \in Topups, y \in StepNames : t # r \/ y # x => row'[t][y] = row[t][y]
    BY <1>24, <1>25
  <2>4. row'[r][x] = "committed" => x \in done[r]
    BY <1>7, <1>11, <1>24, <1>25 DEF Ordered
  <2>5. \A s \in Topups : Undoubted(s)'
    <3>1. \A t \in Topups, y \in Marks :
            t # r \/ y # x => row'[t][y] = row[t][y] /\ (y \in done'[t] <=> y \in done[t])
      BY <1>25, <2>3, WritesAre
    <3>2. ASSUME NEW t \in Topups, NEW y \in Marks, t \notin doubted'
          PROVE  InStep(t, y)' \/ Untouching(w, t, y)
      <4>1. CASE t = r /\ y = x
        BY <1>25, <3>2, <4>1
      <4>2. CASE t # r \/ y # x
        BY <2>2, <3>1, <4>2 DEF Untouching
      <4> QED
        BY <4>1, <4>2
    <3> QED
      BY <2>1, <3>2, WritesKept
  <2>6. \A s \in Topups, y \in StepNames : row'[s][y] = "committed" => y \in done[s]
    BY <2>3, <2>4 DEF TopupInv, Ordered
  <2> QED
    BY <1>7, <1>25, <2>1, <2>5, <2>6, TopupMoves DEF TopupShape
<1>26. CASE ReadRow(w)
  <2>1. row[r][x] = "committed" => x \in done[r]
    BY <1>7, <1>11 DEF Ordered
  <2>2. pc = "read" /\ UNCHANGED <<row, done, stage, hasty>>
    BY <1>5, <1>26 DEF ReadRow, Is
  <2>3. ASSUME Give(w) \/ (Further(w) /\ x \in done[r]), UNCHANGED doubted
        PROVE  TopupInv' /\ \A s \in Topups : Advances(s)
    <3>1. HandSound(w)'
      BY <1>19, <1>20, <2>2, <2>3
    <3>2. \A t \in Topups, y \in Marks : w \notin Engaged(t, y) /\ w \notin Engaged(t, y)'
      BY <1>13, <1>22, <2>2, <2>3
    <3> QED
      BY <1>7, <2>2, <2>3, <3>1, <3>2, TopupQuiet DEF TopupShape
  <2>4. ASSUME row[r][x] \notin {"committed", "escalated"}, Turn(w, "start"),
               IF Engaged(r, x) = {} THEN UNCHANGED doubted ELSE Doubt(w)
        PROVE  TopupInv' /\ \A s \in Topups : Advances(s)
    <3>1. HandSound(w)' /\ "start" \in Pcs
      BY <1>21, <2>2, <2>4 DEF Pcs
    <3>2. ASSUME x \in Marks, r \notin doubted' PROVE InStep(r, x)'
      <4>1. Engaged(r, x) = {} /\ r \notin doubted
        BY <1>1, <1>3, <2>4, <3>2, WritesAre DEF Doubt, Step
      <4>2. x \notin done[r]
        BY <1>7, <2>4, <3>2, <4>1 DEF Undoubted, InStep
      <4>3. w \in Engaged(r, x)'
        <5>1. hand'[w] # Free
          BY <1>16, <2>4, <3>1 DEF Free, Pcs, TopupOps
        <5> QED
          BY <1>8, <1>16, <2>4, <3>1, <5>1 DEF Engaged, Working, Is, Step
      <4> QED
        BY <2>2, <4>1, <4>2, <4>3, AloneInStep
    <3> QED
      BY <1>25, <2>2, <2>4, <3>1, <3>2
  <2> QED
    BY <1>1, <1>3, <1>26, <2>1, <2>3, <2>4 DEF ReadRow, Step
<1>27. CASE SaveStart(w)
  <2>1. /\ SetRow(w, "in_progress") /\ Turn(w, "call") /\ UNCHANGED <<done, stage, doubted, hasty>>
        /\ pc = "start"
    BY <1>5, <1>27 DEF SaveStart, Is, topupVars
  <2>2. HandSound(w)' /\ "call" \in Pcs
    BY <1>21, <2>1 DEF Pcs
  <2>3. ASSUME x \in Marks, r \notin doubted' PROVE InStep(r, x)'
    <3>1. Engaged(r, x) \subseteq {w} /\ x \notin done'[r]
      BY <1>15, <2>1, <2>3
    <3>2. w \in Engaged(r, x)'
      <4>1. hand'[w] # Free
        BY <1>16, <2>1, <2>2 DEF Free, TopupOps
      <4> QED
        BY <1>8, <1>16, <2>1, <2>2, <4>1 DEF Engaged, Working, Is, Step
    <3> QED
      BY <3>1, <3>2, AloneInStep
  <2>4. "in_progress" \in StepStatus
    BY DEF StepStatus
  <2> QED
    BY <1>25, <2>1, <2>2, <2>3, <2>4
<1>28. CASE CallStep(w)
  <2>1. pc = "call" /\ UNCHANGED <<row, hasty>>
    BY <1>5, <1>28 DEF CallStep, Is
  <2>2. ASSUME Turn(w, "fail"), UNCHANGED <<done, stage, doubted>>
        PROVE  TopupInv' /\ \A s \in Topups : Advances(s)
    <3>1. HandSound(w)' /\ "fail" \in Pcs
      BY <1>21, <2>1, <2>2 DEF Pcs
    <3>2. ASSUME x \in Marks, r \notin doubted' PROVE InStep(r, x)'
      <4>1. Engaged(r, x) \subseteq {w} /\ x \notin done'[r]
        BY <1>15, <2>1, <2>2, <3>2
      <4>2. w \in Engaged(r, x)'
        <5>1. hand'[w] # Free
          BY <1>16, <2>2, <3>1 DEF Free, TopupOps
        <5> QED
          BY <1>8, <1>16, <2>2, <3>1, <5>1 DEF Engaged, Working, Is, Step
      <4> QED
        BY <4>1, <4>2, AloneInStep
    <3> QED
      BY <1>25, <2>1, <2>2, <3>1, <3>2
  <2>3. ASSUME Effect(w), NEW p \in {"commit", "fail"}, Turn(w, p), doubted' = doubted \/ Doubt(w),
               p = "fail" => Doubt(w)
        PROVE  TopupInv' /\ \A s \in Topups : Advances(s)
    <3>1. done' = [done EXCEPT ![r] = done[r] \cup {x}]
      BY <1>1, <1>3, <2>3 DEF Effect, Step
    <3>2. done'[r] = done[r] \cup {x} /\ \A s \in Topups \ {r} : done'[s] = done[s]
      BY <1>6, <3>1
    <3>3. /\ x \notin Marks => stage' = stage
          /\ x \in Marks => stage' = [stage EXCEPT ![r] = IntentWrites[x]]
      BY <1>1, <1>3, <2>3, WritesAre DEF Effect, Step
    <3>4. /\ \A s \in Topups \ {r} : stage'[s] = stage[s]
          /\ x \in Marks => stage'[r] = IntentWrites[x]
          /\ stage' \in [Topups -> IntentStage]
      <4>1. x \in Marks => IntentWrites[x] \in IntentStage
        BY WritesAre DEF Marks, IntentStage
      <4> QED
        BY <1>7, <3>3, <4>1 DEF TopupShape
    <3>5. doubted \subseteq doubted' /\ doubted' \subseteq Topups
      BY <1>1, <1>7, <2>3 DEF Doubt, TopupShape
    <3>6. HandSound(w)' /\ p \in Pcs
      BY <1>21, <2>1, <2>3, <3>2 DEF Pcs
    <3>7. Ordered(r)'
      <4>1. \A y \in StepNames : row'[r][y] = "committed" => y \in done'[r]
        BY <1>7, <2>1, <3>2 DEF Ordered
      <4>2. /\ x = "provider" => "intent" \in done[r]
            /\ x = "callback" => "provider" \in done[r]
            /\ x = "funded" => r \in hasty \/ "callback" \in done[r]
        BY <1>10, <1>11
      <4> QED
        BY <1>7, <2>1, <3>2, <4>1, <4>2 DEF Ordered
    <3>8. ASSUME x \in Marks, r \notin doubted'
          PROVE  p = "commit" /\ r \notin doubted /\ x \notin done[r] /\ Engaged(r, x) \subseteq {w}
      <4>1. p = "commit"
        BY <1>1, <1>3, <2>3, <3>8, WritesAre DEF Doubt, Step
      <4> QED
        BY <1>15, <2>1, <3>5, <3>8, <4>1
    <3>9. Staged(r)' /\ Advances(r)
      <4>1. CASE x \notin Marks
        <5>1. Reached(r)' = Reached(r) /\ stage' = stage
          BY <3>2, <3>3, <4>1 DEF Reached, Marks
        <5> QED
          BY <1>7, <2>1, <3>5, <5>1 DEF Staged, Advances
      <4>2. CASE x \in Marks /\ r \notin doubted' \cup hasty
        <5>1. stage[r] = Reached(r) /\ x \notin done[r] /\ stage'[r] = IntentWrites[x]
          BY <1>7, <3>4, <3>8, <4>2 DEF Staged
        <5>2. x = "intent" => stage[r] = "none" /\ stage'[r] = "created" /\ Reached(r)' = "created"
          BY <1>7, <3>2, <4>2, <5>1, WritesAre DEF Reached, Ordered
        <5>3. x = "callback" => stage[r] = "created" /\ stage'[r] = "paid" /\ Reached(r)' = "paid"
          BY <1>7, <1>10, <1>11, <3>2, <4>2, <5>1, WritesAre DEF Reached, Ordered
        <5>4. x = "funded" => stage[r] = "paid" /\ stage'[r] = "funded" /\ Reached(r)' = "funded"
          BY <1>7, <1>10, <1>11, <3>2, <4>2, <5>1, WritesAre DEF Reached, Ordered
        <5> QED
          BY <4>2, <5>2, <5>3, <5>4 DEF Marks, Staged, Advances, CanAdvance
      <4>3. CASE r \in doubted' \cup hasty
        BY <2>1, <4>3 DEF Staged, Advances
      <4> QED
        BY <4>1, <4>2, <4>3
    <3>10. \A s \in Topups : Undoubted(s)'
      <4>1. ASSUME x \in Marks, r \notin doubted' PROVE InStep(r, x)'
        <5>1. hand'[w] # Free /\ hand'[w].pc = "commit"
          BY <1>16, <2>3, <3>6, <3>8, <4>1 DEF Free, TopupOps
        <5>2. w \in Engaged(r, x)'
          BY <1>8, <1>16, <2>3, <3>6, <5>1 DEF Engaged, Working, Is, Step
        <5> QED
          BY <3>8, <4>1, <5>1, <5>2, AloneInStep
      <4>2. \A t \in Topups, y \in Marks : w \in Engaged(t, y) \/ w \in Engaged(t, y)' => t = r /\ y = x
        BY <1>13, <1>23, <2>3, <3>6
      <4>3. \A t \in Topups, y \in Marks :
              t # r \/ y # x => row'[t][y] = row[t][y] /\ (y \in done'[t] <=> y \in done[t])
        BY <2>1, <3>2
      <4>4. ASSUME NEW t \in Topups, NEW y \in Marks, t \notin doubted'
            PROVE  InStep(t, y)' \/ Untouching(w, t, y)
        <5>1. CASE t = r /\ y = x
          BY <4>1, <4>4, <5>1
        <5>2. CASE t # r \/ y # x
          BY <4>2, <4>3, <5>2 DEF Untouching
        <5> QED
          BY <5>1, <5>2
      <4> QED
        BY <3>5, <4>4, WritesKept
    <3>11. ASSUME NEW s \in Topups \ {r} PROVE Ordered(s)' /\ Staged(s)' /\ Advances(s)
      <4>1. done'[s] = done[s] /\ stage'[s] = stage[s] /\ Ordered(s) /\ Staged(s)
        BY <3>2, <3>4 DEF TopupInv
      <4> QED
        BY <2>1, <3>5, <4>1 DEF Ordered, Staged, Reached, Advances
    <3>12. ASSUME NEW v \in Hands, TopupHand(hand'[v]) PROVE HandSound(v)'
      <4>1. CASE v # w
        <5>1. hand'[v] = hand[v] /\ HandSound(v) /\ hand[v].saga \in Topups
          BY <3>12, <4>1 DEF TopupInv, TopupHand
        <5>2. done[hand[v].saga] \subseteq done'[hand[v].saga]
          BY <3>2, <5>1
        <5> QED
          BY <2>1, <5>1, <5>2 DEF HandSound
      <4> QED
        BY <3>6, <4>1
    <3>13. TopupShape'
      BY <1>7, <2>1, <3>4, <3>5 DEF TopupShape
    <3> QED
      BY <3>7, <3>9, <3>10, <3>11, <3>12, <3>13 DEF TopupInv
  <2> QED
    BY <1>28, <2>2, <2>3 DEF CallStep
<1>29. CASE SaveCommit(w)
  <2>1. /\ SetRow(w, "committed") /\ (Further(w) \/ Give(w)) /\ UNCHANGED <<done, stage, doubted, hasty>>
        /\ x \in done[r] /\ pc = "commit"
    BY <1>5, <1>10, <1>29 DEF SaveCommit, Is, topupVars
  <2>2. HandSound(w)' /\ "committed" \in StepStatus
    BY <1>19, <1>20, <2>1 DEF StepStatus
  <2>3. ASSUME x \in Marks, r \notin doubted' PROVE InStep(r, x)'
    BY <1>15, <1>22, <1>24, <2>1, <2>2, <2>3, AloneInStep
  <2> QED
    BY <1>25, <2>1, <2>2, <2>3
<1>30. CASE SaveFail(w)
  <2>1. PICK v \in {"failed", "escalated"} : SetRow(w, v)
    BY <1>30 DEF SaveFail
  <2>2. Give(w) /\ UNCHANGED <<done, stage, doubted, hasty>> /\ pc = "fail" /\ v \in StepStatus
    BY <1>5, <1>30 DEF SaveFail, Is, topupVars, StepStatus
  <2>3. HandSound(w)'
    BY <1>19, <2>2
  <2>4. ASSUME x \in Marks, r \notin doubted' PROVE InStep(r, x)'
    BY <1>15, <1>22, <2>2, <2>4, AloneInStep
  <2> QED
    BY <1>25, <2>1, <2>2, <2>3, <2>4
<1>31. CASE StoreFails(w)
  <2>1. Give(w) /\ Unsaved(w) /\ UNCHANGED <<row, done, stage, hasty>>
    BY <1>31 DEF StoreFails
  <2>2. HandSound(w)' /\ (doubted' = doubted \/ Doubt(w))
    BY <1>19, <2>1 DEF Unsaved
  <2>3. CASE pc = "read"
    <3>1. doubted' = doubted
      BY <1>5, <2>1, <2>3 DEF Unsaved, Is
    <3>2. \A t \in Topups, y \in Marks : w \notin Engaged(t, y) /\ w \notin Engaged(t, y)'
      BY <1>13, <1>22, <2>1, <2>3
    <3> QED
      BY <1>7, <2>1, <2>2, <3>1, <3>2, TopupQuiet DEF TopupShape
  <2>4. CASE pc # "read"
    <3>1. ASSUME x \in Marks, r \notin doubted' PROVE InStep(r, x)'
      <4>1. r \notin doubted /\ pc # "commit"
        BY <1>1, <1>3, <1>5, <1>6, <2>1, <2>2, <3>1, WritesAre DEF Unsaved, Doubt, Is, Step
      <4> QED
        BY <1>15, <1>22, <2>1, <2>4, <3>1, <4>1, AloneInStep
    <3> QED
      BY <1>25, <2>1, <2>2, <3>1
  <2> QED
    BY <2>3, <2>4
<1> QED
  BY <1>26, <1>27, <1>28, <1>29, <1>30, <1>31 DEF RunSaga

\* A refund at a step touches no top-up.
LEMMA RefundAside ==
  ASSUME RefundInv, TopupInv, NEW w \in Hands, Refunding(w), RunSaga(w) \/ StoreFails(w) \/ Dies(w)
  PROVE  TopupInv' /\ \A s \in Topups : Advances(s)
<1>1. PICK r \in Refunds : r = hand[w].saga
  BY DEF Refunding, RefundHand
<1>2. /\ r \notin Topups /\ r \in Sagas /\ row \in [Sagas -> [StepNames -> StepStatus]]
      /\ done = [s \in Sagas |-> done[s]] /\ Topups \subseteq Sagas
  BY <1>1, StepAssumption DEF RefundInv, RefundShape, Sagas
<1>3. /\ \A s \in Topups : row'[s] = row[s]
      /\ \A s \in Topups : done'[s] = done[s]
  <2>1. row' = row \/ \E v : SetRow(w, v)
    BY DEF RunSaga, StoreFails, Dies, ReadRow, SaveStart, CallStep, SaveCommit, SaveFail
  <2>2. ASSUME NEW v, SetRow(w, v) PROVE \A s \in Topups : row'[s] = row[s]
    <3>1. row' = [row EXCEPT ![r] = [row[r] EXCEPT ![Step(w)] = v]]
      BY <1>1, <2>2 DEF SetRow
    <3> QED
      BY <1>2, <3>1
  <2>3. done' = done \/ done' = [done EXCEPT ![r] = done[r] \cup {Step(w)}]
    BY <1>1 DEF RunSaga, StoreFails, Dies, ReadRow, SaveStart, CallStep, SaveCommit, SaveFail, Effect
  <2> QED
    BY <1>2, <2>1, <2>2, <2>3
<1>4. stage' = stage /\ doubted' = doubted /\ hasty' = hasty
  <2>1. hand[w].pc # "end" => Step(w) \notin DOMAIN IntentWrites
    <3>1. hand[w].pc # "end" => hand[w].steps \in Tails /\ hand[w].steps # <<>>
      BY DEF RefundInv, OnItsWay, Refunding, RefundHand
    <3>2. hand[w].pc # "end" => Step(w) \in Doings
      BY <3>1, RefundGoesOn DEF Step
    <3> QED
      BY <3>2, WritesAre DEF Doings, Marks
  <2>2. hand[w].pc # "end" => (Doubt(w) => doubted' = doubted) /\ (Effect(w) => stage' = stage)
    BY <2>1 DEF Doubt, Effect
  <2> QED
    BY <2>2 DEF RunSaga, StoreFails, Dies, Unsaved, ReadRow, SaveStart, CallStep, SaveCommit, SaveFail, Is,
       topupVars
<1>5. /\ hand'[w].op # "initiate" /\ hand'[w].op # "callback" /\ hand'[w].op # "fund"
      /\ hand'[w] = Free \/ hand'[w].saga = r
      /\ \A v \in Hands \ {w} : hand'[v] = hand[v]
  <2>1. hand = [v \in Hands |-> hand[v]] /\ hand[w] \in RefundHand
    BY DEF RefundInv, RefundShape, Refunding
  <2>2. \/ \E pc : Turn(w, pc)
        \/ Give(w) \/ Further(w) \/ hand' = [hand EXCEPT ![w] = Free]
    BY DEF RunSaga, StoreFails, Dies, ReadRow, SaveStart, CallStep, SaveCommit, SaveFail
  <2>3. ASSUME NEW pc, Turn(w, pc)
        PROVE  \E h : h.op = "accept" /\ h.saga = r /\ hand' = [hand EXCEPT ![w] = h]
    <3>1. hand' = [hand EXCEPT ![w] = [hand[w] EXCEPT !.pc = pc]]
      BY <2>3 DEF Turn
    <3>2. [hand[w] EXCEPT !.pc = pc].op = "accept" /\ [hand[w] EXCEPT !.pc = pc].saga = r
      BY <1>1, <2>1 DEF RefundHand
    <3> QED
      BY <3>1, <3>2
  <2>4. ASSUME Give(w) PROVE \E h : h.op = "accept" /\ h.saga = r /\ hand' = [hand EXCEPT ![w] = h]
    <3> DEFINE h == [hand[w] EXCEPT !.pc = "end", !.ok = FALSE]
    <3>1. hand' = [hand EXCEPT ![w] = h]
      BY <2>4 DEF Give
    <3>2. h.op = "accept" /\ h.saga = r
      BY <1>1, <2>1 DEF RefundHand
    <3> QED
      BY <3>1, <3>2
  <2>5. ASSUME Further(w) PROVE \E h : h.op = "accept" /\ h.saga = r /\ hand' = [hand EXCEPT ![w] = h]
    <3> DEFINE next == IF Len(hand[w].steps) = 1 THEN "end" ELSE "read"
               rest == Tail(hand[w].steps)
    <3>1. hand' = [hand EXCEPT ![w] = [hand[w] EXCEPT !.steps = rest, !.pc = next]]
      BY <2>5 DEF Further
    <3> HIDE DEF next, rest
    <3> DEFINE h == [hand[w] EXCEPT !.steps = rest, !.pc = next]
    <3>2. h.op = "accept" /\ h.saga = r
      BY <1>1, <2>1 DEF RefundHand
    <3> QED
      BY <3>1, <3>2
  <2>6. CASE hand' = [hand EXCEPT ![w] = Free]
    <3>1. Free.op = "free" /\ hand'[w] = Free
      BY <2>1, <2>6 DEF Free
    <3> QED
      BY <2>1, <2>6, <3>1
  <2>7. ASSUME NEW h, h.op = "accept", h.saga = r, hand' = [hand EXCEPT ![w] = h]
        PROVE  /\ hand'[w].op = "accept" /\ hand'[w].saga = r
               /\ \A v \in Hands \ {w} : hand'[v] = hand[v]
    BY <2>1, <2>7
  <2> QED
    BY <2>2, <2>3, <2>4, <2>5, <2>6, <2>7
<1>6. ~TopupHand(hand'[w])
  BY <1>5 DEF TopupHand
<1>7. \A t \in Topups, y \in Marks : w \notin Engaged(t, y) /\ w \notin Engaged(t, y)'
  BY <1>1, <1>2, <1>5 DEF Engaged, Is
<1>8. hasty \subseteq hasty' /\ hasty' \subseteq Topups
  BY <1>4 DEF TopupInv, TopupShape
<1> QED
  BY <1>3, <1>4, <1>5, <1>6, <1>7, <1>8, TopupQuiet

\* A step that leaves the hands alone, or not one of them with a step to do.
LEMMA TopupAside ==
  ASSUME RefundInv, TopupInv, NEW w \in Hands, NEW h, hand' = [hand EXCEPT ![w] = h],
         UNCHANGED <<row, done, stage, doubted>>, hasty \subseteq hasty', hasty' \subseteq Topups,
         hand[w] = Free \/ hand[w].pc \in {"accept", "read", "end"},
         h = Free \/ h.pc \in {"accept", "read"}, TopupHand(h) => HandSound(w)'
  PROVE  TopupInv' /\ \A s \in Topups : Advances(s)
<1>1. hand = [v \in Hands |-> hand[v]]
  BY DEF RefundInv, RefundShape
<1>2. hand'[w] = h /\ \A v \in Hands \ {w} : hand'[v] = hand[v]
  BY <1>1
<1>3. \A t \in Topups, y \in Marks : w \notin Engaged(t, y) /\ w \notin Engaged(t, y)'
  BY <1>2 DEF Engaged, Working, Is
<1> QED
  BY <1>2, <1>3, TopupQuiet

LEMMA TopupStill ==
  ASSUME RefundInv, TopupInv, UNCHANGED <<hand, done, topupVars>>,
         \A s \in Topups, y \in StepNames : row'[s][y] # row[s][y] => row'[s][y] = "escalated"
  PROVE  TopupInv' /\ \A s \in Topups : Advances(s)
<1>1. stage' = stage /\ doubted' = doubted /\ hasty' = hasty /\ hand' = hand /\ done' = done
  BY DEF topupVars
<1>2. \A w \in Hands : TopupHand(hand'[w]) => HandSound(w)'
  BY <1>1 DEF TopupInv, HandSound
<1>3. ASSUME NEW s \in Topups PROVE Ordered(s)' /\ Undoubted(s)' /\ Staged(s)'
  <2>1. Ordered(s)' /\ Staged(s)'
    BY <1>1 DEF TopupInv, Ordered, Staged, Reached
  <2>2. ASSUME NEW x \in Marks, InStep(s, x) PROVE InStep(s, x)'
    <3>1. Engaged(s, x)' = Engaged(s, x)
      BY <1>1 DEF Engaged, Is, Step
    <3>2. row'[s][x] = row[s][x] \/ row'[s][x] = "escalated"
      BY WritesAre
    <3> QED
      BY <1>1, <2>2, <3>1, <3>2 DEF InStep
  <2> QED
    BY <1>1, <2>1, <2>2 DEF TopupInv, Undoubted
<1> QED
  BY <1>1, <1>2, <1>3 DEF TopupInv, TopupShape, Advances

LEMMA RequestBegins ==
  ASSUME RefundInv, TopupInv, NEW w \in Hands, NEW s \in Topups,
         Initiate(w, s) \/ OnCallback(w, s) \/ Fund(w, s)
  PROVE  TopupInv' /\ \A t \in Topups : Advances(t)
<1>0. PICK op \in TopupOps :
        /\ \E steps \in Plan(op) : steps # <<>> /\ Begin(w, op, s, steps) /\ (op = "initiate" => steps = I2)
        /\ op = "fund" => s \in hasty' \/ "callback" \in done[s]
        /\ op = "callback" => "provider" \in done[s]
  <2>1. CASE Initiate(w, s)
    <3>1. I2 \in Plan("initiate") /\ I2 # <<>> /\ "initiate" \in TopupOps
      BY DEF Plan, I2, TopupOps
    <3> QED
      BY <2>1, <3>1 DEF Initiate, I2
  <2>2. CASE OnCallback(w, s)
    <3>1. C1 \in Plan("callback") /\ C1 # <<>> /\ "callback" \in TopupOps
      BY DEF Plan, C1, TopupOps
    <3> QED
      BY <2>2, <3>1 DEF OnCallback, C1
  <2>3. CASE Fund(w, s)
    <3>1. F3 \in Plan("fund") /\ F3 # <<>> /\ "fund" \in TopupOps
      BY DEF Plan, F3, TopupOps
    <3>2. s \in hasty' \/ "callback" \in done[s]
      BY <2>3 DEF Fund
    <3> QED
      BY <2>3, <3>1, <3>2 DEF Fund, F3
  <2> QED
    BY <2>1, <2>2, <2>3
<1>1. PICK steps \in Plan(op) : steps # <<>> /\ Begin(w, op, s, steps) /\ (op = "initiate" => steps = I2)
  BY <1>0
<1>2. UNCHANGED <<row, done, stage, doubted>> /\ hasty \subseteq hasty' /\ hasty' \subseteq Topups
  BY DEF Initiate, OnCallback, Fund, topupVars, TopupInv, TopupShape
<1> DEFINE h == [op |-> op, saga |-> s, steps |-> steps, pc |-> "read", ok |-> TRUE]
<1>3. hand' = [hand EXCEPT ![w] = h] /\ hand = [v \in Hands |-> hand[v]] /\ hand[w] = Free
  BY <1>1 DEF Begin, RefundInv, RefundShape
<1>4. h.op = op /\ h.saga = s /\ h.steps = steps /\ h.pc = "read"
  OBVIOUS
<1> HIDE DEF h
<1>5. hand'[w] = h
  BY <1>3
<1>6. HandSound(w)'
  BY <1>0, <1>1, <1>2, <1>4, <1>5 DEF HandSound
<1> QED
  BY <1>2, <1>3, <1>4, <1>6, TopupAside

\* A top-up dies: whether it had still to save a write is in doubt.
LEMMA TopupDies ==
  ASSUME RefundInv, TopupInv, NEW w \in Hands, TopupHand(hand[w]), Dies(w)
  PROVE  TopupInv' /\ \A t \in Topups : Advances(t)
<1>1. PICK r \in Topups : r = hand[w].saga
  BY TopupTurns
<1>2. PICK x : x = Head(hand[w].steps)
  OBVIOUS
<1>3. /\ hand' = [hand EXCEPT ![w] = Free] /\ hand[w] # Free /\ ~TopupHand(Free) /\ Unsaved(w)
      /\ UNCHANGED <<row, done, stage, hasty>>
  BY DEF Dies, TopupHand, Free
<1>4. hand'[w] = Free /\ \A v \in Hands \ {w} : hand'[v] = hand[v]
  BY <1>3 DEF RefundInv, RefundShape
<1>5. \A t, y : w \notin Engaged(t, y)'
  BY <1>4 DEF Engaged, Is
<1>6. /\ doubted \subseteq doubted' /\ doubted' \subseteq Topups
      /\ hand[w].pc = "commit" /\ x \in Marks => r \in doubted'
  BY <1>1, <1>2, <1>3, WritesAre DEF Unsaved, Doubt, Is, Step, TopupInv, TopupShape
<1>7. ASSUME x \in Marks, r \notin doubted' PROVE InStep(r, x)'
  <2>1. hand[w].pc # "commit" /\ InStep(r, x)
    BY <1>6, <1>7 DEF TopupInv, Undoubted
  <2>2. CASE w \in Engaged(r, x)
    <3>1. Engaged(r, x) \subseteq {w} /\ x \notin done'[r]
      BY <1>3, <2>1, <2>2 DEF InStep
    <3> QED
      BY <1>4, <1>5, <3>1, AloneInStep
  <2>3. CASE w \notin Engaged(r, x)
    <3>1. \A v : v \in Engaged(r, x)' <=> v \in Engaged(r, x)
      BY <1>4, <1>5, <2>3 DEF Engaged, Is, Step
    <3>2. Engaged(r, x)' = Engaged(r, x) /\ \A v \in Engaged(r, x) : hand'[v] = hand[v]
      BY <1>4, <2>3, <3>1 DEF Engaged
    <3> QED
      BY <1>3, <2>1, <3>2 DEF InStep
  <2> QED
    BY <2>2, <2>3
<1>8. \A s \in Topups : Undoubted(s)'
  <2>1. \A t \in Topups, y \in Marks : w \in Engaged(t, y) \/ w \in Engaged(t, y)' => t = r /\ y = x
    BY <1>1, <1>2, <1>5, EngagedIs
  <2>2. \A t \in Topups, y \in Marks :
          t # r \/ y # x => row'[t][y] = row[t][y] /\ (y \in done'[t] <=> y \in done[t])
    BY <1>3
  <2>3. ASSUME NEW t \in Topups, NEW y \in Marks, t \notin doubted'
        PROVE  InStep(t, y)' \/ Untouching(w, t, y)
    <3>1. CASE t = r /\ y = x
      BY <1>7, <2>3, <3>1
    <3>2. CASE t # r \/ y # x
      BY <2>1, <2>2, <3>2 DEF Untouching
    <3> QED
      BY <3>1, <3>2
  <2> QED
    BY <1>4, <1>6, <2>3, WritesKept
<1> QED
  BY <1>3, <1>4, <1>6, <1>8, TopupMoves DEF TopupInv, TopupShape, Ordered

LEMMA RequestEnds ==
  ASSUME RefundInv, TopupInv, NEW w \in Hands, Dies(w) \/ Reply(w)
  PROVE  TopupInv' /\ \A t \in Topups : Advances(t)
<1>1. hand[w] # Free /\ hand' = [hand EXCEPT ![w] = Free] /\ ~TopupHand(Free)
  BY DEF Dies, Reply, Is, TopupHand, Free
<1>2. HandRow(hand[w])
  BY DEF RefundInv, RefundShape
<1>3. CASE Dies(w) /\ Refunding(w)
  BY <1>3, RefundAside
<1>4. CASE Dies(w) /\ TopupHand(hand[w])
  BY <1>4, TopupDies
<1>5. CASE Dies(w) /\ hand[w] \in ReaderHand
  <2>1. hand[w].pc = "accept" /\ UNCHANGED <<row, done, stage, doubted, hasty>>
    BY <1>5 DEF ReaderHand, Dies, Unsaved, Is
  <2> QED
    BY <1>1, <2>1, TopupAside DEF TopupInv, TopupShape
<1>6. CASE Reply(w)
  <2>1. hand[w].pc = "end" /\ UNCHANGED <<row, done, stage, doubted, hasty>>
    BY <1>6 DEF Reply, Is, topupVars
  <2> QED
    BY <1>1, <2>1, TopupAside DEF TopupInv, TopupShape
<1> QED
  BY <1>1, <1>2, <1>3, <1>4, <1>5, <1>6 DEF HandRow, Refunding

LEMMA TopupEscalation ==
  ASSUME RefundInv, TopupInv, NEW s \in Sagas, NEW step \in StepNames, Escalate(s, step)
  PROVE  TopupInv' /\ \A t \in Topups : Advances(t)
<1>1. /\ row' = [row EXCEPT ![s] = [row[s] EXCEPT ![step] = "escalated"]]
      /\ UNCHANGED <<hand, done, topupVars>>
      /\ row \in [Sagas -> [StepNames -> StepStatus]] /\ Topups \subseteq Sagas
  BY DEF Escalate, RefundInv, RefundShape, Sagas
<1>2. ASSUME NEW t \in Topups, NEW y \in StepNames PROVE row'[t][y] = row[t][y] \/ row'[t][y] = "escalated"
  <2>1. CASE t # s
    BY <1>1, <2>1
  <2>2. CASE t = s
    <3>1. row'[t] = [row[t] EXCEPT ![step] = "escalated"] /\ row[t] \in [StepNames -> StepStatus]
      BY <1>1, <2>2
    <3> QED
      BY <3>1
  <2> QED
    BY <2>1, <2>2
<1> QED
  BY <1>1, <1>2, TopupStill

LEMMA TopupStep ==
  ASSUME RefundInv, TopupInv, DisputeNext \/ (TopupNext /\ UNCHANGED disputeVars)
  PROVE  TopupInv' /\ \A t \in Topups : Advances(t)
<1>1. ASSUME NEW w \in Hands, RunSaga(w) \/ StoreFails(w), UNCHANGED disputeVars
      PROVE  TopupInv' /\ \A t \in Topups : Advances(t)
  <2>1. hand[w] # Free /\ hand[w].pc \in Pcs
    BY <1>1 DEF RunSaga, ReadRow, SaveStart, CallStep, SaveCommit, SaveFail, StoreFails, Is, Pcs
  <2>2. CASE Refunding(w)
    BY <1>1, <2>2, RefundAside
  <2>3. CASE TopupHand(hand[w])
    <3>1. \A v \in Hands \ {w} : hand'[v] = hand[v]
      BY <1>1, <2>3, TopupRuns
    <3> QED
      BY <1>1, <2>3, <3>1, TopupRunStep
  <2> QED
    BY <2>1, <2>2, <2>3, HandKinds
<1>2. CASE TopupNext /\ UNCHANGED disputeVars
  <2>1. ASSUME NEW s \in Topups, NEW step \in StepNames, Escalate(s, step)
        PROVE  TopupInv' /\ \A t \in Topups : Advances(t)
    BY <2>1, TopupEscalation DEF Sagas
  <2> QED
    BY <1>1, <1>2, <2>1, RequestEnds, RequestBegins DEF TopupNext, StepFails
<1>3. ASSUME NEW d \in Disputes, Submit(d) \/ StartReview(d) \/ FinalizeReject(d)
      PROVE  TopupInv' /\ \A t \in Topups : Advances(t)
  BY <1>3, TopupStill DEF Submit, StartReview, FinalizeReject, stepVars
<1>4. ASSUME NEW w \in Hands, (\E d \in Disputes : FinalizeAccept(w, d)) \/ Accept(w) \/ Close(w)
      PROVE  TopupInv' /\ \A t \in Topups : Advances(t)
  <2>1. \E h : /\ hand' = [hand EXCEPT ![w] = h]
               /\ h = Free \/ (h.op = "accept" /\ h.pc \in {"accept", "read"})
    BY <1>4 DEF FinalizeAccept, Accept, Close
  <2>2. PICK h : /\ hand' = [hand EXCEPT ![w] = h]
                 /\ h = Free \/ (h.op = "accept" /\ h.pc \in {"accept", "read"})
    BY <2>1
  <2>3. ~TopupHand(h) /\ UNCHANGED <<row, done, stage, doubted, hasty>>
    BY <1>4, <2>2 DEF TopupHand, Free, FinalizeAccept, Accept, Close, topupVars
  <2>4. hand[w] = Free \/ hand[w].pc \in {"accept", "read", "end"}
    BY <1>4 DEF FinalizeAccept, Accept, Close, Is
  <2> QED
    BY <2>2, <2>3, <2>4, TopupAside DEF TopupInv, TopupShape
<1>5. CASE DisputeNext
  <2>1. ASSUME NEW s \in Refunds, NEW step \in StepNames, Escalate(s, step)
        PROVE  TopupInv' /\ \A t \in Topups : Advances(t)
    BY <2>1, TopupEscalation DEF Sagas
  <2> QED
    BY <1>1, <1>3, <1>4, <1>5, <2>1, RequestEnds DEF DisputeNext, StepFails
<1> QED
  BY <1>2, <1>5

LEMMA TopupHolds == Spec => []TopupInv
<1>1. Init => TopupInv
  <2> SUFFICES ASSUME Init PROVE TopupInv
    OBVIOUS
  <2>1. /\ row = [s \in Sagas |-> [x \in StepNames |-> "none"]] /\ done = [s \in Sagas |-> {}]
        /\ hand = [w \in Hands |-> Free] /\ stage = [s \in Topups |-> "none"] /\ doubted = {} /\ hasty = {}
    BY DEF Init, StepInit
  <2>2. \A w \in Hands : ~TopupHand(hand[w])
    BY <2>1 DEF TopupHand, Free
  <2>3. TopupShape
    BY <2>1 DEF TopupShape, IntentStage
  <2>4. ASSUME NEW s \in Topups PROVE Ordered(s) /\ Undoubted(s) /\ Staged(s)
    <3>1. row[s] = [x \in StepNames |-> "none"] /\ done[s] = {} /\ stage[s] = "none"
      BY <2>1 DEF Sagas
    <3>2. \A x : Engaged(s, x) = {}
      BY <2>1 DEF Engaged, Is
    <3> QED
      BY <3>1, <3>2 DEF Ordered, Undoubted, InStep, Staged, Reached
  <2> QED
    BY <2>2, <2>3, <2>4 DEF TopupInv
<1>2. RefundInv /\ TopupInv /\ [Next]_vars => TopupInv'
  <2>1. RefundInv /\ TopupInv /\ UNCHANGED sagaVars => TopupInv'
    BY TopupStill DEF sagaVars, stepVars
  <2> QED
    BY <2>1, DisputeFrame, TopupStep
<1> QED
  BY <1>1, <1>2, RefundCorrect, PTL DEF Spec

\* For any intents, top-ups, requests and faults: a booked intent is taken back
\* only by a callback that overlapped the one that booked it (payment/service.go:98),
\* and the intent of a top-up leaves the path of CanAdvance only when a write of it
\* was repeated or may have been lost, or Fund came first (saga_topup/service.go:190).
THEOREM PaymentsAdvanceCorrect == Spec => PaymentsAdvance
<1>1. Init => PaidInv
  BY DEF Init, IntentInit, PaidInv, SlipsShape, OverlapNoted, IntentInv, IntentShape, HookRow, IntentState,
     Opening, Untouched, SuccessIsSettled, NoticeInHand, PaidIsSettled, Booked, At, Resting
<1>2. PaidInv /\ [Next]_vars =>
        /\ PaidInv'
        /\ \A t \in Trades : Booked(t) /\ intent'[t] = "failed" => "overlap" \in slips'[t]
  <2> SUFFICES ASSUME PaidInv, [Next]_vars PROVE PaidInv' /\ \A t \in Trades : NotTakenBack(t)
    BY DEF NotTakenBack
  <2>1. CASE UNCHANGED intentVars
    BY <2>1 DEF intentVars, PaidInv, SlipsShape, OverlapNoted, IntentInv, IntentShape, Opening, Untouched,
       SuccessIsSettled, NoticeInHand, PaidIsSettled, Booked, At, NotTakenBack
  <2> QED
    BY <2>1, IntentFrame, PaidStep
<1>3. RefundInv /\ TopupInv /\ [Next]_vars =>
        /\ TopupInv'
        /\ \A s \in Topups :
             stage'[s] # stage[s] =>
               \/ stage[s] = "none" /\ stage'[s] = "created"
               \/ CanAdvance(stage[s], stage'[s])
               \/ s \in doubted' \cup hasty'
  <2> SUFFICES ASSUME RefundInv, TopupInv, [Next]_vars PROVE TopupInv' /\ \A s \in Topups : Advances(s)
    BY DEF Advances
  <2>1. CASE UNCHANGED sagaVars
    BY <2>1, TopupStill DEF sagaVars, stepVars
  <2> QED
    BY <2>1, DisputeFrame, TopupStep
<1> QED
  BY <1>1, <1>2, <1>3, RefundCorrect, TopupHolds, PTL DEF Spec, PaymentsAdvance, PaidStays, IntentAdvances

-----------------------------------------------------------------------------
(* Types.  The invariants above hold most of them; these are the others.   *)

\* What is marked or written down was resolved.
Marked ==
  /\ cooling \subseteq Cases /\ recorded \subseteq resolved
  /\ \A i \in Staff : bid[i].pc \in {"mark", "audit"} => Event(i) \in resolved

LEMMA MarkedStep ==
  ASSUME ForceInv, Marked, ForceNext PROVE Marked'
<1>0. ForceShape
  BY DEF ForceInv
<1>1. ASSUME NEW t \in Tokens, NEW c \in Cases, NEW s \in Staff, NEW n \in Nets,
             IssueApproverToken(t, c, s, n)
      PROVE  Marked'
  BY <1>1 DEF IssueApproverToken, Marked, Event
<1>2. ASSUME NEW rested \in BOOLEAN, TimePasses(rested) PROVE Marked'
  BY <1>2 DEF TimePasses, Marked, Event
<1>3. ASSUME NEW i \in Staff, NEW c \in Cases, NEW n \in Nets, NEW t \in Tokens,
             ForceResolveBy(i, c, n, t)
      PROVE  Marked'
  <2>1. /\ UNCHANGED <<cooling, resolved, recorded>> /\ bid'[i].pc = "consume"
        /\ \A j \in Staff \ {i} : bid'[j] = bid[j]
    BY <1>0, <1>3 DEF ForceResolveBy, ForceShape
  <2> QED
    BY <2>1 DEF Marked, Event
<1>4. ASSUME NEW i \in Staff, Consume(i) \/ Resolve(i) \/ Mark(i) \/ Audit(i) \/ ForceFails(i)
      PROVE  Marked'
  <2>1. /\ bid[i] \in BidRow /\ bid[i] # NoBid /\ \A j \in Staff \ {i} : bid'[j] = bid[j]
    BY <1>0, <1>4, CallMoves
  <2>2. bid[i].case \in Cases /\ \A j \in Staff \ {i} : Event(j)' = Event(j)
    BY <2>1 DEF BidRow, Event
  <2>3. CASE Consume(i)
    <3>1. UNCHANGED <<cooling, resolved, recorded>>
      BY <2>3 DEF Consume
    <3>2. bid'[i].pc \in {"idle", "resolve"}
      BY <1>0, <2>3, <2>1 DEF Consume, BidTo, BidEnds, NoBid, ForceShape, BidRow
    <3> QED
      BY <2>1, <2>2, <3>1, <3>2 DEF Marked
  <2>4. CASE Resolve(i)
    <3>1. /\ bid' = [bid EXCEPT ![i] = [bid[i] EXCEPT !.pc = "mark"]]
          /\ resolved' = resolved \cup {Event(i)} /\ UNCHANGED <<cooling, recorded>>
      BY <2>4 DEF Resolve, BidTo
    <3>2. Event(i)' = Event(i)
      BY <1>0, <2>1, <3>1 DEF ForceShape, BidRow, Event
    <3> QED
      BY <2>1, <2>2, <3>1, <3>2 DEF Marked
  <2>5. CASE Mark(i)
    <3>1. /\ bid' = [bid EXCEPT ![i] = [bid[i] EXCEPT !.pc = "audit"]] /\ bid[i].pc = "mark"
          /\ cooling' = cooling \cup {bid[i].case} /\ UNCHANGED <<resolved, recorded>>
      BY <2>5 DEF Mark, BidTo, BidAt
    <3>2. Event(i)' = Event(i)
      BY <1>0, <2>1, <3>1 DEF ForceShape, BidRow, Event
    <3> QED
      BY <2>1, <2>2, <3>1, <3>2 DEF Marked
  <2>6. CASE Audit(i) \/ ForceFails(i)
    <3>1. /\ bid'[i] = NoBid /\ UNCHANGED <<cooling, resolved>>
          /\ recorded' = recorded \/ (bid[i].pc = "audit" /\ recorded' = recorded \cup {Event(i)})
      BY <1>0, <2>6 DEF Audit, ForceFails, BidEnds, BidAt, ForceShape
    <3> QED
      BY <2>1, <2>2, <3>1 DEF Marked, NoBid
  <2> QED
    BY <1>4, <2>3, <2>4, <2>5, <2>6
<1> QED
  BY <1>1, <1>2, <1>3, <1>4 DEF ForceNext

LEMMA ForceTyped == Spec => []ForceTypeOK
<1>1. Init => Marked
  BY DEF Init, ForceInit, Marked, NoBid
<1>2. ForceInv /\ Marked /\ [Next]_vars => Marked'
  <2>1. Marked /\ UNCHANGED forceVars => Marked'
    BY DEF Marked, forceVars, Event
  <2> QED
    BY <2>1, ForceFrame, MarkedStep
<1>3. ForceInv /\ Marked => ForceTypeOK
  BY DEF ForceInv, ForceShape, TokenRow, Marked, ForceTypeOK
<1> QED
  BY <1>1, <1>2, <1>3, ForceHolds, PTL DEF Spec

\* The queue counts no further than the threshold.
DequeuesBounded == \A m \in Msgs, i \in Copies : queue[m][i].dequeued \in 0..DlqThreshold

LEMMA CopyWritten ==
  ASSUME MnsShape, DequeuesBounded, NEW m \in Msgs, NEW i \in Copies, NEW c,
         c.dequeued \in 0..DlqThreshold, queue' = [queue EXCEPT ![m] = [queue[m] EXCEPT ![i] = c]]
  PROVE  DequeuesBounded'
  BY DEF MnsShape, DequeuesBounded

LEMMA DequeuesStep ==
  ASSUME MnsInv, DequeuesBounded, MnsNext PROVE DequeuesBounded'
<1>0. /\ MnsShape /\ DlqThreshold \in Nat \ {0} /\ TriesLeft
      /\ \A m \in Msgs, i \in Copies : queue[m][i].dequeued \in 0..DlqThreshold
  BY MnsAssumption DEF MnsInv, DequeuesBounded
<1>1. ASSUME UNCHANGED queue PROVE DequeuesBounded'
  BY <1>1 DEF DequeuesBounded
<1>2. ASSUME NEW m \in Msgs, NEW i \in Copies, NEW at,
             queue' = [queue EXCEPT ![m] = [queue[m] EXCEPT ![i] = [queue[m][i] EXCEPT !.at = at]]]
      PROVE  DequeuesBounded'
  <2>1. [queue[m][i] EXCEPT !.at = at].dequeued = queue[m][i].dequeued
    BY <1>0 DEF MnsShape
  <2> QED
    BY <1>0, <1>2, <2>1, CopyWritten
<1>3. ASSUME NEW m \in Msgs, DoSend(m) PROVE DequeuesBounded'
  <2>1. CASE Enqueue(m)
    <3>1. PICK i \in Copies : i = publish[m].tries + 1
      BY <1>0, <1>3 DEF DoSend, TriesLeft
    <3> QED
      BY <1>2, <2>1, <3>1 DEF Enqueue
  <2> QED
    BY <1>1, <1>3, <2>1 DEF DoSend
<1>4. ASSUME NEW m \in Msgs, NEW i \in Copies, VisibilityTimeout(m, i) PROVE DequeuesBounded'
  BY <1>2, <1>4 DEF VisibilityTimeout
<1>5. ASSUME NEW c \in Consumers, NEW m \in Msgs, NEW i \in Copies, ReceiveMessage(c, m, i)
      PROVE  DequeuesBounded'
  <2>1. PICK n : /\ n = IF queue[m][i].dequeued < DlqThreshold THEN queue[m][i].dequeued + 1
                        ELSE queue[m][i].dequeued
    OBVIOUS
  <2>2. n \in 0..DlqThreshold
    BY <1>0, <2>1
  <2> DEFINE copy == [at |-> c, dequeued |-> n]
  <2>3. queue' = [queue EXCEPT ![m] = [queue[m] EXCEPT ![i] = copy]]
    BY <1>5, <2>1 DEF ReceiveMessage
  <2>4. copy.dequeued \in 0..DlqThreshold
    BY <2>2
  <2> HIDE DEF copy
  <2> QED
    BY <1>0, <2>3, <2>4, CopyWritten
<1>6. ASSUME NEW c \in Consumers, DeleteMessage(c) PROVE DequeuesBounded'
  <2>1. held[c].msg \in Msgs /\ held[c].copy \in Copies
    BY <1>0, <1>6 DEF DeleteMessage, HeldAt, MnsShape, Deliveries, Empty
  <2>2. NoCopy.dequeued \in 0..DlqThreshold
    BY <1>0 DEF NoCopy
  <2>3. CASE queue' = [queue EXCEPT ![held[c].msg] = [queue[held[c].msg] EXCEPT ![held[c].copy] = NoCopy]]
    BY <1>0, <2>1, <2>2, <2>3, CopyWritten
  <2> QED
    BY <1>1, <1>6, <2>3 DEF DeleteMessage
<1>7. CASE UNCHANGED queue
  BY <1>1, <1>7
<1> QED
  BY <1>3, <1>4, <1>5, <1>6, <1>7 DEF MnsNext, Tick, Publish, Register, HandleOne, ConsumerDies

\* What is delivered keeps its shape: the lease, reports, notes and messages.
LEMMA DeliveriesTyped == Spec => [](LockTypeOK /\ ReportTypeOK /\ NoteTypeOK /\ MnsTypeOK)
<1>1. Init => DequeuesBounded
  BY MnsAssumption DEF Init, MnsInit, DequeuesBounded, NoCopy
<1>2. DeliverInv /\ DequeuesBounded /\ [Next]_vars => DequeuesBounded'
  <2>1. DequeuesBounded /\ UNCHANGED mnsVars => DequeuesBounded'
    BY DEF DequeuesBounded, mnsVars
  <2> QED
    BY <2>1, MnsFrame, DequeuesStep DEF DeliverInv
<1>3. DeliverInv /\ DequeuesBounded => LockTypeOK /\ ReportTypeOK /\ NoteTypeOK /\ MnsTypeOK
  <2> SUFFICES ASSUME DeliverInv, DequeuesBounded
               PROVE  LockTypeOK /\ ReportTypeOK /\ NoteTypeOK /\ MnsTypeOK
    OBVIOUS
  <2>1. LockTypeOK
    BY DEF DeliverInv, LockInv
  <2>2. ReportTypeOK
    BY DEF DeliverInv, DispatchInv, ReportShape, ReportRow, ReportTypeOK
  <2>3. NoteTypeOK
    BY DEF DeliverInv, NoteInv, NoteShape, Queued, NotQueued, NoteTypeOK
  <2>4. MnsTypeOK
    BY DEF DeliverInv, MnsInv, MnsShape, DequeuesBounded, MnsTypeOK
  <2> QED
    BY <2>1, <2>2, <2>3, <2>4
<1> QED
  BY <1>1, <1>2, <1>3, DeliverHolds, PTL DEF Spec

\* A serial is the number of a fapiao that was made.
SerialsMade ==
  /\ \A i \in Invoices : invoice[i].serial <= blue[i]
  /\ \A c \in Clerks : clerk[c].pc = "issued" => clerk[c].serial <= blue[Handles(c)]

\* A call that writes no serial, and makes none but the one it then has.
LEMMA SerialsKept ==
  ASSUME InvoiceShape, SerialsMade, NEW c \in Clerks,
         \A d \in Clerks \ {c} : clerk'[d] = clerk[d],
         \A i \in Invoices : blue'[i] \in Nat /\ blue'[i] >= blue[i],
         \A i \in Invoices : invoice'[i].serial = invoice[i].serial,
         clerk'[c].pc = "issued" => clerk'[c].serial <= blue'[Handles(c)']
  PROVE  SerialsMade'
<1>1. ASSUME NEW i \in Invoices PROVE invoice'[i].serial <= blue'[i]
  <2>1. invoice[i].serial \in Nat /\ blue[i] \in Nat /\ invoice[i].serial <= blue[i]
    BY DEF InvoiceShape, SerialsMade
  <2> QED
    BY <2>1
<1>2. ASSUME NEW d \in Clerks \ {c}, clerk[d].pc = "issued"
      PROVE  clerk[d].serial <= blue'[Handles(d)]
  <2>0. clerk[d] \in [invoice : Invoices, pc : {"issued"}, serial : Nat \ {0}]
    <3>1. clerk[d] \in {Away} \cup ClerkCall
      BY DEF InvoiceShape
    <3>2. clerk[d] \in ClerkCall
      BY <1>2, <3>1 DEF Away
    <3>3. clerk[d] \notin [invoice : Invoices, pc : {"mark", "decide"}, to : {"issuing", "rejected"}]
      BY <1>2
    <3>4. /\ clerk[d] \notin [invoice : Invoices, pc : {"issue", "request"}]
          /\ clerk[d] \notin [invoice : Invoices, pc : {"flushing", "flush", "complete", "flushed"}, request : Nat \ {0}]
      BY <1>2
    <3> QED
      BY <3>2, <3>3, <3>4 DEF ClerkCall
  <2>1. clerk[d].serial \in Nat /\ Handles(d) \in Invoices /\ clerk[d].serial <= blue[Handles(d)]
    BY <1>2, <2>0 DEF Handles, SerialsMade
  <2>2. blue[Handles(d)] \in Nat /\ blue'[Handles(d)] \in Nat /\ blue'[Handles(d)] >= blue[Handles(d)]
    BY <2>1 DEF InvoiceShape
  <2> QED
    BY <2>1, <2>2
<1> QED
  BY <1>1, <1>2 DEF SerialsMade, Handles

LEMMA SerialsStep ==
  ASSUME InvoiceShape, SerialsMade, InvoiceNext PROVE SerialsMade'
<1>0. /\ \A i \in Invoices : blue[i] \in Nat /\ blue[i] >= blue[i]
      /\ invoice \in [Invoices -> [status : InvoiceStatus, serial : Nat]]
      /\ clerk \in [Clerks -> {Away} \cup ClerkCall] /\ blue \in [Invoices -> Nat]
  BY DEF InvoiceShape
<1>1. ASSUME NEW i \in Invoices, Apply(i) PROVE SerialsMade'
  <2>1. \A j \in Invoices : invoice'[j].serial = invoice[j].serial
    BY <1>0, <1>1 DEF Apply
  <2> QED
    BY <1>1, <2>1 DEF Apply, SerialsMade, Handles
<1>2. ASSUME NEW c \in Clerks, NEW h, clerk' = [clerk EXCEPT ![c] = h], h.pc # "issued",
             \A i \in Invoices : invoice'[i].serial = invoice[i].serial,
             \A i \in Invoices : blue'[i] \in Nat /\ blue'[i] >= blue[i]
      PROVE  SerialsMade'
  BY <1>0, <1>2, SerialsKept
<1>3. ASSUME NEW c \in Clerks, NEW task, Takes(c, task), task.pc # "issued" PROVE SerialsMade'
  BY <1>0, <1>2, <1>3 DEF Takes
<1>4. ASSUME NEW c \in Clerks, NEW status, SetInvoice(c, status), clerk[c] # Away
      PROVE  \A i \in Invoices : invoice'[i].serial = invoice[i].serial
  BY <1>0, <1>4 DEF SetInvoice
<1>5. ASSUME NEW c \in Clerks, NEW pc, Goes(c, pc), clerk[c] # Away, pc # "issued"
      PROVE  \E h : clerk' = [clerk EXCEPT ![c] = h] /\ h.pc # "issued"
  <2>1. clerk' = [clerk EXCEPT ![c] = [clerk[c] EXCEPT !.pc = pc]]
    BY <1>5 DEF Goes
  <2>2. [clerk[c] EXCEPT !.pc = pc].pc # "issued"
    BY <1>0, <1>5 DEF ClerkCall
  <2> QED
    BY <2>1, <2>2
<1>6. ASSUME NEW c \in Clerks, Leaves(c) PROVE \E h : clerk' = [clerk EXCEPT ![c] = h] /\ h.pc # "issued"
  <2>1. clerk' = [clerk EXCEPT ![c] = Away] /\ Away.pc # "issued"
    BY <1>6 DEF Leaves, Away
  <2> QED
    BY <2>1
<1>7. ASSUME NEW c \in Clerks, MarkReviewing(c) \/ MarkFlushing(c) \/ DecideReview(c) \/ MarkFlushed(c)
      PROVE  SerialsMade'
  <2>1. clerk[c] # Away /\ blue' = blue /\ \E status : SetInvoice(c, status)
    BY <1>7 DEF MarkReviewing, MarkFlushing, DecideReview, MarkFlushed, Away
  <2>2. \E h : clerk' = [clerk EXCEPT ![c] = h] /\ h.pc # "issued"
    BY <1>5, <1>6, <1>7, <2>1 DEF MarkReviewing, MarkFlushing, DecideReview, MarkFlushed
  <2> QED
    BY <1>0, <1>2, <1>4, <2>1, <2>2
<1>8. ASSUME NEW c \in Clerks, InsertRedFlush(c) \/ GatewayRedFlush(c) \/ CompleteRedFlush(c) \/ ClerkFails(c)
      PROVE  SerialsMade'
  <2>1. clerk[c] # Away /\ UNCHANGED <<blue, invoice>>
    BY <1>8 DEF InsertRedFlush, GatewayRedFlush, CompleteRedFlush, ClerkFails, Away
  <2>2. \E h : clerk' = [clerk EXCEPT ![c] = h] /\ h.pc # "issued"
    BY <1>5, <1>6, <1>8, <2>1 DEF InsertRedFlush, GatewayRedFlush, CompleteRedFlush, ClerkFails
  <2> QED
    BY <1>0, <1>2, <2>1, <2>2
<1>9. ASSUME NEW c \in Clerks, GatewayIssue(c) PROVE SerialsMade'
  <2>1. PICK i \in Invoices : i = Handles(c)
    BY <1>0, <1>9 DEF GatewayIssue, ClerkCall, Away, Handles
  <2>2. PICK n \in Nat : n = blue[i] + 1
    BY <1>0
  <2>3. invoice' = invoice /\ (blue' = blue \/ blue' = [blue EXCEPT ![i] = n])
    BY <1>9, <2>1, <2>2 DEF GatewayIssue
  <2>4. \A j \in Invoices : blue'[j] \in Nat /\ blue'[j] >= blue[j]
    BY <1>0, <2>2, <2>3
  <2>5. CASE Leaves(c)
    BY <1>2, <1>6, <2>3, <2>4, <2>5
  <2>6. CASE ~Leaves(c)
    <3>1. /\ clerk' = [clerk EXCEPT ![c] = [invoice |-> i, pc |-> "issued", serial |-> n]]
          /\ blue' = [blue EXCEPT ![i] = n]
      BY <1>9, <2>1, <2>2, <2>6 DEF GatewayIssue
    <3>2. clerk'[c].serial <= blue'[Handles(c)'] /\ \A d \in Clerks \ {c} : clerk'[d] = clerk[d]
      BY <1>0, <2>2, <3>1 DEF Handles
    <3> QED
      BY <2>3, <2>4, <3>2, SerialsKept
  <2> QED
    BY <2>5, <2>6
<1>10. ASSUME NEW c \in Clerks, MarkIssued(c) PROVE SerialsMade'
  <2>1. PICK i \in Invoices : i = Handles(c)
    BY <1>0, <1>10 DEF MarkIssued, ClerkCall, Away, Handles
  <2>2. /\ invoice' = [invoice EXCEPT ![i] = [status |-> "issued", serial |-> clerk[c].serial]]
        /\ clerk' = [clerk EXCEPT ![c] = Away] /\ blue' = blue /\ clerk[c].pc = "issued"
    BY <1>10, <2>1 DEF MarkIssued, Leaves
  <2>3. \A j \in Invoices : invoice'[j].serial <= blue[j]
    BY <1>0, <2>1, <2>2 DEF SerialsMade
  <2>4. \A d \in Clerks : clerk'[d].pc = "issued" => clerk'[d] = clerk[d]
    BY <1>0, <2>2 DEF Away
  <2> QED
    BY <2>2, <2>3, <2>4 DEF SerialsMade, Handles
<1>11. ASSUME NEW c \in Clerks, NEW i \in Invoices,
              (\E to \in {"issuing", "rejected"} : Review(c, i, to)) \/ Issue(c, i) \/ RedFlush(c, i)
       PROVE  SerialsMade'
  BY <1>3, <1>11 DEF Review, Issue, RedFlush
<1> QED
  BY <1>1, <1>7, <1>8, <1>9, <1>10, <1>11 DEF InvoiceNext

LEMMA InvoiceTyped == Spec => []InvoiceTypeOK
<1>1. Init => SerialsMade
  BY DEF Init, InvoiceInit, SerialsMade, Away
<1>2. InvoiceInv /\ SerialsMade /\ [Next]_vars => SerialsMade'
  <2>1. SerialsMade /\ UNCHANGED invoiceVars => SerialsMade'
    BY DEF SerialsMade, invoiceVars, Handles
  <2> QED
    BY <2>1, InvoiceFrame, SerialsStep DEF InvoiceInv
<1>3. InvoiceInv /\ SerialsMade => InvoiceTypeOK
  <2> SUFFICES ASSUME InvoiceInv, SerialsMade, NEW i \in Invoices
               PROVE  /\ invoice[i].status \in InvoiceStatus /\ invoice[i].serial \in 0..blue[i]
                      /\ \A k \in DOMAIN flush[i] : flush[i][k] \in {"pending", "completed"}
    BY DEF InvoiceTypeOK
  <2>1. invoice[i].status \in InvoiceStatus /\ invoice[i].serial \in 0..blue[i]
    BY DEF InvoiceInv, InvoiceShape, SerialsMade
  <2>2. flush[i] \in Seq({"pending", "completed"})
    BY DEF InvoiceInv, InvoiceShape
  <2> QED
    BY <2>1, <2>2
<1> QED
  BY <1>1, <1>2, <1>3, InvoiceHolds, PTL DEF Spec

\* Replies stop at their bound,
RepliesBounded == \A t \in Tickets : ticket[t].replies <= MaxReplies

LEMMA RepliesStep ==
  ASSUME TicketInv, RepliesBounded, TicketNext PROVE RepliesBounded'
<1>0. /\ ticket \in [Tickets -> TicketRow] /\ agent \in [Agents -> {OffDuty} \cup AgentCall]
      /\ \A t \in Tickets : ticket[t].replies \in Nat /\ ticket[t].replies <= MaxReplies
      /\ MaxReplies \in Nat \ {0}
  BY TicketAssumption DEF TicketInv, TicketRow, RepliesBounded
<1>1. ASSUME NEW t \in Tickets, NEW new, ticket' = [ticket EXCEPT ![t] = new], new.replies <= MaxReplies
      PROVE  RepliesBounded'
  BY <1>0, <1>1 DEF RepliesBounded
<1>2. ASSUME NEW t \in Tickets, FileTicket(t) PROVE RepliesBounded'
  <2>1. PICK n \in {0, 1} : ticket' = [ticket EXCEPT ![t] = [status |-> "open", replies |-> n]]
    BY <1>2 DEF FileTicket
  <2>2. [status |-> "open", replies |-> n].replies <= MaxReplies
    BY <1>0
  <2> QED
    BY <1>1, <2>1, <2>2
<1>3. ASSUME NEW a \in Agents, InsertReply(a) \/ WriteTicket(a) PROVE RepliesBounded'
  <2>1. PICK t \in Tickets : t = agent[a].ticket
    BY <1>0, <1>3 DEF InsertReply, WriteTicket, OffDuty, AgentCall
  <2>2. CASE InsertReply(a)
    <3>1. PICK n \in Nat : n = ticket[t].replies + 1
      BY <1>0
    <3>2. /\ ticket' = [ticket EXCEPT ![t] = [ticket[t] EXCEPT !.replies = n]]
          /\ ticket[t].replies < MaxReplies
      BY <2>1, <2>2, <3>1 DEF InsertReply
    <3>3. [ticket[t] EXCEPT !.replies = n].replies <= MaxReplies
      BY <1>0, <3>1, <3>2 DEF TicketRow
    <3> QED
      BY <1>1, <3>2, <3>3
  <2>3. CASE WriteTicket(a)
    <3>1. ticket' = [ticket EXCEPT ![t] = [ticket[t] EXCEPT !.status = agent[a].to]]
      BY <2>1, <2>3 DEF WriteTicket
    <3>2. [ticket[t] EXCEPT !.status = agent[a].to].replies <= MaxReplies
      BY <1>0 DEF TicketRow
    <3> QED
      BY <1>1, <3>1, <3>2
  <2> QED
    BY <1>3, <2>2, <2>3
<1>4. CASE UNCHANGED ticket
  BY <1>4 DEF RepliesBounded
<1> QED
  BY <1>2, <1>3, <1>4 DEF TicketNext, BeginReply, Transition, Works, AgentFails

\* and whoever is hired has a role.
Hired == minute <= MaxMinutes /\ \A s \in Members : member[s] # NotHired => member[s].role \in Roles

LEMMA HiredStep ==
  ASSUME RolesInv, Hired, StaffNext PROVE Hired'
<1>0. /\ member \in [Members -> MemberRow] /\ minute \in Nat /\ MaxMinutes \in Nat /\ minute <= MaxMinutes
      /\ \A s \in Members : member[s] # NotHired => member[s].role \in Roles
  BY StaffAssumption DEF RolesInv, StaffShape, Hired
<1>1. ASSUME NEW s \in Members, NEW new, member' = [member EXCEPT ![s] = new], minute' = minute,
             new.role \in Roles
      PROVE  Hired'
  BY <1>0, <1>1 DEF Hired
<1>2. ASSUME NEW a \in Members, NEW s \in Members, NEW role \in Roles, CreateStaff(a, s, role) PROVE Hired'
  <2> DEFINE new == [role |-> role, status |-> "active", elevated |-> Never]
  <2>1. new.role \in Roles
    OBVIOUS
  <2>2. member' = [member EXCEPT ![s] = new] /\ minute' = minute
    BY <1>2 DEF CreateStaff
  <2> HIDE DEF new
  <2> QED
    BY <1>1, <2>1, <2>2
<1>3. ASSUME NEW a \in Members, NEW s \in Members, NEW status \in {"active", "barred"}, SetStatus(a, s, status)
      PROVE  Hired'
  <2>1. /\ member' = [member EXCEPT ![s] = [member[s] EXCEPT !.status = status]] /\ minute' = minute
        /\ member[s].role \in Roles
    BY <1>0, <1>3 DEF SetStatus
  <2>2. [member[s] EXCEPT !.status = status].role = member[s].role
    BY <1>0 DEF MemberRow
  <2> QED
    BY <1>1, <2>1, <2>2
<1>4. ASSUME NEW s \in Members, MarkStepUpPassed(s) PROVE Hired'
  <2>1. /\ member' = [member EXCEPT ![s] = [member[s] EXCEPT !.elevated = minute + StepUpWindow]]
        /\ minute' = minute /\ member[s].role \in Roles
    BY <1>0, <1>4 DEF MarkStepUpPassed
  <2>2. [member[s] EXCEPT !.elevated = minute + StepUpWindow].role = member[s].role
    BY <1>0 DEF MemberRow
  <2> QED
    BY <1>1, <2>1, <2>2
<1>5. ASSUME NEW a \in Members, WriteRole(a) PROVE Hired'
  <2>1. change[a] \in RoleChange
    BY <1>5 DEF WriteRole, RolesInv, StaffShape
  <2>2. /\ change[a].of \in Members /\ change[a].role \in Roles /\ minute' = minute
        /\ member' = [member EXCEPT ![change[a].of] = [member[change[a].of] EXCEPT !.role = change[a].role]]
    BY <1>5, <2>1 DEF WriteRole, RoleChange
  <2>3. [member[change[a].of] EXCEPT !.role = change[a].role].role \in Roles
    BY <1>0, <2>2 DEF MemberRow
  <2> QED
    BY <1>1, <2>2, <2>3
<1>6. CASE Minute
  BY <1>0, <1>6 DEF Minute, Hired
<1>7. CASE UNCHANGED <<member, minute>>
  BY <1>7 DEF Hired
<1> QED
  BY <1>2, <1>3, <1>4, <1>5, <1>6, <1>7 DEF StaffNext, SetRole, ToWrite, BadgeIssued

LEMMA RowsTyped == Spec => [](TicketTypeOK /\ StaffTypeOK)
<1>1. Init => TicketInv /\ RolesInv
  <2>1. Init => TicketInv
    BY DEF Init, TicketInit, TicketInv, TicketRow, NoTicket, Filed
  <2>2. Init => RolesInv
    BY RolesBegin
  <2> QED
    BY <2>1, <2>2
<1>2. Init => RepliesBounded /\ Hired
  <2>1. Init => RepliesBounded
    BY TicketAssumption DEF Init, TicketInit, RepliesBounded, NoTicket
  <2>2. Init => Hired
    BY StaffAssumption DEF Init, StaffInit, Hired, Roles
  <2> QED
    BY <2>1, <2>2
<1>3. TicketInv /\ RepliesBounded /\ [Next]_vars => TicketInv' /\ RepliesBounded'
  <2>1. TicketInv /\ RepliesBounded /\ UNCHANGED ticketVars => TicketInv' /\ RepliesBounded'
    BY TicketAtRest DEF ticketVars, TicketInv, Filed, RepliesBounded
  <2> QED
    BY <2>1, MovesFrame, TicketStepInv, RepliesStep
<1>4. RolesInv /\ Hired /\ [Next]_vars => RolesInv' /\ Hired'
  <2>1. RolesInv /\ Hired /\ UNCHANGED staffVars => RolesInv' /\ Hired'
    BY RolesRest DEF staffVars, Hired
  <2> QED
    BY <2>1, MovesFrame, RolesStep, HiredStep DEF RolesGoOn
<1>5. TicketInv /\ RepliesBounded => TicketTypeOK
  BY DEF TicketInv, RepliesBounded, TicketTypeOK
<1>6. RolesInv /\ Hired => StaffTypeOK
  <2> SUFFICES ASSUME RolesInv, Hired PROVE StaffTypeOK
    OBVIOUS
  <2>1. minute \in 1..MaxMinutes /\ StepUpWindow \in Nat
    BY StaffAssumption DEF RolesInv, StaffShape, Hired
  <2>2. \A s \in Members : member[s].elevated \in 0..(minute + StepUpWindow)
    BY <2>1 DEF RolesInv, StaffShape, NotAhead, MemberRow
  <2> QED
    BY <2>1, <2>2 DEF Hired, StaffTypeOK
<1> QED
  BY <1>1, <1>2, <1>3, <1>4, <1>5, <1>6, PTL DEF Spec

\* Only what was sent is claimed or answered.
NoticesKnown == answered \subseteq sent /\ claimed \subseteq sent

LEMMA NoticesStep ==
  ASSUME IntentInv, NoticesKnown, IntentNext PROVE NoticesKnown'
<1>1. ASSUME NEW w \in Hooks, HandleCallback(w) PROVE NoticesKnown'
  <2>1. sent' = sent /\ hook[w].notice \in sent
    BY <1>1 DEF HandleCallback, Claim, Lookup, UpdateState, At, IntentInv, NoticeInHand
  <2>2. answered' \subseteq answered \cup {hook[w].notice} /\ claimed' \subseteq claimed \cup {hook[w].notice}
    BY <1>1 DEF HandleCallback, Claim, Lookup, UpdateState, Answer
  <2> QED
    BY <2>1, <2>2 DEF NoticesKnown
<1>2. CASE UNCHANGED <<answered, claimed>> /\ sent \subseteq sent'
  BY <1>2 DEF NoticesKnown
<1> QED
  BY <1>1, <1>2 DEF IntentNext, CreateTopup, ProviderTopup, Deliver, HookFails, Settle, MarkFunded, Notify

LEMMA IntentTyped == Spec => []IntentTypeOK
<1>1. Init => NoticesKnown
  BY DEF Init, IntentInit, NoticesKnown
<1>2. IntentInv /\ NoticesKnown /\ [Next]_vars => NoticesKnown'
  <2>1. NoticesKnown /\ UNCHANGED intentVars => NoticesKnown'
    BY DEF NoticesKnown, intentVars
  <2> QED
    BY <2>1, IntentFrame, NoticesStep
<1>3. IntentInv /\ NoticesKnown => IntentTypeOK
  BY DEF IntentInv, IntentShape, NoticesKnown, IntentTypeOK
<1> QED
  BY <1>1, <1>2, <1>3, IntentHolds, PTL DEF Spec

\* The linker hears of applicants only.
LEMMA KycTyped == Spec => []KycTypeOK
<1>1. Init => linked \subseteq Applicants
  BY DEF Init, KycInit
<1>2. KycInv /\ linked \subseteq Applicants /\ [Next]_vars => (linked \subseteq Applicants)'
  <2> SUFFICES ASSUME KycInv, linked \subseteq Applicants, KycNext PROVE linked' \subseteq Applicants
    BY DEF Next, vars, kycVars
  <2>1. ASSUME NEW w \in Officers, Link(w) PROVE linked' \subseteq Applicants
    <3>1. call[w].user \in Applicants
      BY <2>1, CallKinds DEF KycInv, Link, CallIs
    <3> QED
      BY <2>1, <3>1 DEF Link
  <2>2. ASSUME NEW w \in Officers, InsertApp(w) PROVE linked' \subseteq Applicants
    BY <2>2 DEF InsertApp
  <2>3. CASE linked' = linked
    BY <2>3
  <2> QED
    BY <2>1, <2>2, <2>3 DEF KycNext, SubmitKyc, LookupLegal, ReviewKyc, Decide, KycFails, MarkUnderReview,
       PurgeColdExpired
<1>3. KycInv /\ linked \subseteq Applicants => KycTypeOK
  <2> SUFFICES ASSUME KycInv, linked \subseteq Applicants, NEW u \in Applicants, Exists(u)
               PROVE  /\ app[u].status \in {"submitted", "under_review", "approved", "rejected"}
                      /\ app[u].legal \in LegalIds
    BY DEF KycTypeOK
  <2> QED
    BY RowKinds DEF KycInv
<1> QED
  BY <1>1, <1>2, <1>3, IdentityHolds, PTL DEF Spec

\* An account counts failures, or is locked.
AccountTyped == account \in [failed : Nat, locked : BOOLEAN]

LEMMA SessionTyped == Spec => []SessionTypeOK
<1>1. Init => AccountTyped
  BY DEF Init, SessionInit, AccountTyped
<1>2. AccountTyped /\ [Next]_vars => AccountTyped'
  <2> SUFFICES ASSUME AccountTyped, SessionNext PROVE AccountTyped'
    BY DEF Next, vars, sessionVars, AccountTyped
  <2>1. ASSUME NEW v \in Visitors, LoginRefused(v) PROVE AccountTyped'
    <3>1. PICK n \in Nat : n = account.failed + 1
      BY DEF AccountTyped
    <3>2. account' \in {Locked, [account EXCEPT !.failed = n]}
      BY <2>1, <3>1 DEF LoginRefused
    <3>3. Locked \in [failed : Nat, locked : BOOLEAN]
      BY DEF Locked
    <3>4. [account EXCEPT !.failed = n] \in [failed : Nat, locked : BOOLEAN]
      BY DEF AccountTyped
    <3> QED
      BY <3>2, <3>3, <3>4 DEF AccountTyped
  <2>2. ASSUME NEW v \in Visitors, ResetFailedAttempts(v) PROVE AccountTyped'
    BY <2>2 DEF ResetFailedAttempts, AccountTyped
  <2>3. ASSUME NEW v \in Visitors, ApplyPasswordReset(v) PROVE AccountTyped'
    BY <2>3 DEF ApplyPasswordReset, AccountTyped
  <2>4. CASE account' = account
    BY <2>4 DEF AccountTyped
  <2> QED
    BY <2>1, <2>2, <2>3, <2>4 DEF SessionNext, Login, Rotate, ListActiveJTIs, RevokeNext, CloseAllSessions,
       WrongOTP, VisitFails, CreateSession, Refresh, SignNew, FindReset, InitiateReset, ExpireReset,
       Lapse
<1>3. SessionInv /\ AccountTyped => SessionTypeOK
  BY DEF SessionInv, SessionShape, AccountTyped, SessionTypeOK
<1> QED
  BY <1>1, <1>2, <1>3, SessionHolds, PTL DEF Spec

\* Top-ups do what their plans name.
EffectsNamed == \A s \in Topups : done[s] \subseteq StepNames

LEMMA EffectsStep ==
  ASSUME RefundInv, TopupInv, EffectsNamed, DisputeNext \/ (TopupNext /\ UNCHANGED disputeVars)
  PROVE  EffectsNamed'
<1>1. ASSUME NEW w \in Hands, CallStep(w) PROVE EffectsNamed'
  <2>1. hand[w] # Free /\ hand[w].pc = "call"
    BY <1>1 DEF CallStep, Is
  <2>2. done' = done \/ done' = [done EXCEPT ![hand[w].saga] = done[hand[w].saga] \cup {Step(w)}]
    BY <1>1 DEF CallStep, Effect
  <2>3. CASE Refunding(w)
    <3>1. hand[w].saga \notin Topups
      BY <2>3, StepAssumption DEF Refunding, RefundHand
    <3>2. \A s \in Topups : done'[s] = done[s]
      BY <2>2, <3>1 DEF RefundInv, RefundShape, Sagas
    <3> QED
      BY <2>1, <3>2 DEF EffectsNamed
  <2>4. CASE TopupHand(hand[w])
    <3>1. hand[w].op \in TopupOps /\ hand[w].steps \in Plan(hand[w].op) /\ hand[w].steps # <<>>
      BY <2>1, <2>4 DEF TopupInv, HandSound, TopupHand, TopupOps
    <3>2. Step(w) \in StepNames
      BY <3>1 DEF Step, Plan, TopupOps, I1, I2, C1, F2, F3, R1, StepNames
    <3>3. \A s \in Topups : done'[s] \subseteq done[s] \cup {Step(w)}
      BY <2>2 DEF RefundInv, RefundShape, Sagas
    <3> QED
      BY <2>1, <3>2, <3>3 DEF EffectsNamed
  <2> QED
    BY <2>1, <2>3, <2>4, HandKinds DEF Pcs
<1>3. CASE UNCHANGED done
  BY <1>3 DEF EffectsNamed
<1>4. ASSUME NEW w \in Hands, RunSaga(w) \/ StepFails(w) PROVE CallStep(w) \/ UNCHANGED done
  BY <1>4 DEF RunSaga, ReadRow, SaveStart, SaveCommit, SaveFail, StepFails, StoreFails, Dies
<1>5. CASE TopupNext
  BY <1>1, <1>3, <1>4, <1>5 DEF TopupNext, Initiate, OnCallback, Fund, Reply, Escalate
<1>6. CASE DisputeNext
  BY <1>1, <1>3, <1>4, <1>6 DEF DisputeNext, Submit, StartReview, FinalizeReject, FinalizeAccept, Accept,
     Close, Escalate, stepVars
<1> QED
  BY <1>5, <1>6

LEMMA StepsTyped == Spec => [](StepTypeOK /\ DisputeTypeOK)
<1>1. Init => EffectsNamed
  BY DEF Init, StepInit, EffectsNamed, Sagas
<1>2. RefundInv /\ TopupInv /\ EffectsNamed /\ [Next]_vars => EffectsNamed'
  <2>1. EffectsNamed /\ UNCHANGED sagaVars => EffectsNamed'
    BY DEF EffectsNamed, sagaVars, stepVars
  <2> QED
    BY <2>1, DisputeFrame, EffectsStep
<1>3. RefundInv /\ TopupInv /\ EffectsNamed => StepTypeOK /\ DisputeTypeOK
  <2> SUFFICES ASSUME RefundInv, TopupInv, EffectsNamed PROVE StepTypeOK /\ DisputeTypeOK
    OBVIOUS
  <2>1. Doings \subseteq StepNames
    BY DEF Doings, StepNames
  <2>2. \A s \in Sagas : done[s] \in SUBSET StepNames
    BY <2>1 DEF RefundInv, RefundShape, EffectsNamed, Sagas
  <2>3. done = [s \in Sagas |-> done[s]]
    BY DEF RefundInv, RefundShape
  <2>4. done \in [Sagas -> SUBSET StepNames]
    BY <2>2, <2>3
  <2> QED
    BY <2>4 DEF RefundInv, RefundShape, TopupInv, TopupShape, StepTypeOK, DisputeTypeOK
<1> QED
  BY <1>1, <1>2, <1>3, RefundCorrect, TopupHolds, PTL DEF Spec

\* For every value of the constants, each variable of the services keeps its shape and
\* each row a status its code knows: a serial is that of a fapiao made, an audited
\* resolution was carried out, an answered notice was sent.
THEOREM TypeCorrect == Spec => []TypeOK
<1>1. /\ IntentTypeOK /\ StepTypeOK /\ DisputeTypeOK /\ KycTypeOK /\ ForceTypeOK
      /\ LockTypeOK /\ ReportTypeOK /\ NoteTypeOK /\ MnsTypeOK
      /\ InvoiceTypeOK /\ TicketTypeOK /\ StaffTypeOK /\ SessionTypeOK
      => TypeOK
  BY DEF TypeOK
<1> QED
  BY <1>1, IntentTyped, StepsTyped, KycTyped, ForceTyped, DeliveriesTyped, InvoiceTyped, RowsTyped,
     SessionTyped, PTL
=============================================================================
