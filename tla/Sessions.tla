------------------------------- MODULE Sessions -------------------------------
(***************************************************************************)
(* Login, refresh, sign-out and password reset of one account              *)
(* (service/auth).  Tokens are signed and known to no table; the session   *)
(* rows list those of a login, the revocation store those that do not      *)
(* count for now.  A token is its jti.  Refresh looks at neither the       *)
(* expiry nor the kind of the token it is given, so that only revocations  *)
(* have an end here.                                                       *)
(***************************************************************************)
EXTENDS Bound

CONSTANTS
  Pairs,         \* access and refresh tokens issued together
  Resets,        \* password-reset tokens
  Visitors,      \* requests served at the same time
  MaxAttempts,   \* 5 in the code
  MaxIssued      \* bound: pairs and reset tokens made in a behaviour

Signed(P) == P \X {"access", "refresh"}
Jtis == Signed(Pairs)

ASSUME SessionAssumption == MaxAttempts \in Nat \ {0} /\ Jtis \cap Resets = {}

VARIABLES
  account,     \* [failed: attempts while it counts them, locked]
  issued,      \* pair -> how it came about
  listed,      \* pairs in open session rows
  revoked,     \* tokens the revocation store refuses
  resets,      \* reset token -> [status, failed]
  visit,       \* visitor -> the call in progress
  taken,       \* token or reset token -> how often it was exchanged (history)
  crowded,     \* tokens and reset tokens two calls had at a time (history)
  slipped,     \* pairs whose login a sign-out overlapped (history)
  lapsed       \* tokens whose revocation was over once (history)

sessionVars ==
  <<account, issued, listed, revoked, resets, visit, taken, crowded, slipped, lapsed>>

Out == [pc |-> "gone"]
Ends(v) == visit' = [visit EXCEPT ![v] = Out]
Locked == [failed |-> 0, locked |-> TRUE]
\* One free visitor is as good as another.
Starts(v, call) ==
  /\ visit[v] = Out /\ v = CHOOSE u \in Visitors : visit[u] = Out
  /\ visit' = [visit EXCEPT ![v] = call]
HasIn(x, pcs) == {v \in Visitors : visit[v].pc \in pcs /\ visit[v].of = x}
Crowd(x, pcs) == crowded' = IF HasIn(x, pcs) = {} THEN crowded ELSE crowded \cup {x}
AnotherOne ==
  Cardinality({p \in Pairs : issued[p] # "none"})
    + Cardinality({r \in Resets : resets[r].status # "none"}) < MaxIssued
\* One new pair is as good as another.
IssuePair(p, how) ==
  /\ AnotherOne
  /\ issued[p] = "none" /\ p = CHOOSE q \in Pairs : issued[q] = "none"
  /\ issued' = [issued EXCEPT ![p] = how]

-----------------------------------------------------------------------------
(* Login.                                                                  *)

\* FindCredentials: a locked account is refused.
Login(v) ==
  /\ ~account.locked /\ Starts(v, [pc |-> "password"])
  /\ NoFault /\ UNCHANGED <<account, issued, listed, revoked, resets, taken, crowded, slipped, lapsed>>

\* IncFailedAttempts
LoginRefused(v) ==
  /\ visit[v].pc = "password" /\ Ends(v)
  /\ account' = IF account.locked \/ account.failed + 1 >= MaxAttempts THEN Locked
                ELSE [account EXCEPT !.failed = @ + 1]
  /\ NoFault /\ UNCHANGED <<issued, listed, revoked, resets, taken, crowded, slipped, lapsed>>

\* Signs a pair and inserts the session row.
CreateSession(v, p) ==
  /\ visit[v].pc = "password" /\ IssuePair(p, "login")
  /\ listed' = listed \cup {p}
  /\ visit' = [visit EXCEPT ![v] = [pc |-> "reset"]]
  /\ NoFault /\ UNCHANGED <<account, revoked, resets, taken, crowded, slipped, lapsed>>

\* Its error is ignored: VisitFails.
ResetFailedAttempts(v) ==
  /\ visit[v].pc = "reset" /\ Ends(v)
  /\ account' = [account EXCEPT !.failed = 0]
  /\ NoFault /\ UNCHANGED <<issued, listed, revoked, resets, taken, crowded, slipped, lapsed>>

-----------------------------------------------------------------------------
(* Refresh.                                                                *)

\* the revocation store is not asked
RefreshBug(v, k) ==
  /\ issued[k[1]] # "none"
  /\ Starts(v, [pc |-> "rotate", of |-> k]) /\ Crowd(k, {"rotate"})
  /\ NoFault
  /\ UNCHANGED <<account, issued, listed, revoked, resets, taken, slipped, lapsed>>

\* IsRevoked: a used token signs its account out everywhere.
Refresh(v, k) ==
  /\ issued[k[1]] # "none"
  /\ \/ k \notin revoked /\ Starts(v, [pc |-> "rotate", of |-> k]) /\ Crowd(k, {"rotate"})
     \/ k \in revoked /\ Starts(v, [pc |-> "list"]) /\ UNCHANGED crowded
  /\ NoFault
  /\ UNCHANGED <<account, issued, listed, revoked, resets, taken, slipped, lapsed>>

\* Revokes the old token,
Rotate(v) ==
  LET k == visit[v].of IN
  /\ visit[v].pc = "rotate"
  /\ revoked' = revoked \cup {k}
  /\ taken' = [taken EXCEPT ![k] = @ + 1]
  /\ visit' = [visit EXCEPT ![v] = [pc |-> "sign"]]
  /\ NoFault /\ UNCHANGED <<account, issued, listed, resets, crowded, slipped, lapsed>>

\* and signs a new pair, which no session row lists.
SignNew(v, p) ==
  /\ visit[v].pc = "sign" /\ IssuePair(p, "refresh") /\ Ends(v)
  /\ NoFault /\ UNCHANGED <<account, listed, revoked, resets, taken, crowded, slipped, lapsed>>

\* refreshTTL has passed since the token was revoked: it counts again.  It is no
\* mishap, but is bounded with the faults.
Lapse(k) ==
  /\ k \in revoked
  /\ revoked' = revoked \ {k} /\ lapsed' = lapsed \cup {k}
  /\ taken' = [taken EXCEPT ![k] = 0]
  /\ Fault /\ UNCHANGED <<account, issued, listed, resets, visit, crowded, slipped>>

-----------------------------------------------------------------------------
(* LogoutAll, also at the end of PasswordResetConfirm.                     *)

ListActiveJTIs(v) ==
  /\ visit[v].pc = "list"
  /\ visit' = [visit EXCEPT ![v] = [pc |-> "revoke", left |-> Signed(listed), all |-> listed]]
  /\ NoFault /\ UNCHANGED <<account, issued, listed, revoked, resets, taken, crowded, slipped, lapsed>>

\* One after the other.
RevokeNext(v) ==
  LET k == CHOOSE k \in visit[v].left : TRUE IN
  /\ visit[v].pc = "revoke" /\ visit[v].left # {}
  /\ revoked' = revoked \cup {k}
  /\ visit' = [visit EXCEPT ![v].left = @ \ {k}]
  /\ NoFault /\ UNCHANGED <<account, issued, listed, resets, taken, crowded, slipped, lapsed>>

\* the rows are closed before the last token is revoked
CloseAllSessionsBug(v) ==
  /\ visit[v].pc = "revoke" /\ Cardinality(visit[v].left) <= 1 /\ Ends(v)
  /\ slipped' = slipped \cup (listed \ visit[v].all)
  /\ listed' = {}
  /\ NoFault /\ UNCHANGED <<account, issued, revoked, resets, taken, crowded, lapsed>>

\* Closes every open row, also those inserted since they were listed.
CloseAllSessions(v) ==
  /\ visit[v].pc = "revoke" /\ visit[v].left = {} /\ Ends(v)
  /\ slipped' = slipped \cup (listed \ visit[v].all)
  /\ listed' = {}
  /\ NoFault /\ UNCHANGED <<account, issued, revoked, resets, taken, crowded, lapsed>>

-----------------------------------------------------------------------------
(* Password reset.                                                         *)

InitiateReset(r) ==
  /\ AnotherOne /\ resets[r].status = "none"
  /\ resets' = [resets EXCEPT ![r].status = "open"]
  /\ NoFault /\ UNCHANGED <<account, issued, listed, revoked, visit, taken, crowded, slipped, lapsed>>

Void == [status |-> "void", failed |-> 0]
\* the consumption is not looked at
IsUsableBug(r) == resets[r].status \in {"open", "consumed"}
\* not consumed, not invalidated (nor expired: ExpireReset)
IsUsable(r) == resets[r].status = "open"

\* its time is over
ExpireReset(r) ==
  /\ resets[r].status = "open"
  /\ resets' = [resets EXCEPT ![r] = Void]
  /\ NoFault /\ UNCHANGED <<account, issued, listed, revoked, visit, taken, crowded, slipped, lapsed>>

FindReset(v, r) ==
  /\ IsUsable(r) /\ Starts(v, [pc |-> "otp", of |-> r]) /\ Crowd(r, {"otp"})
  /\ NoFault /\ UNCHANGED <<account, issued, listed, revoked, resets, taken, slipped, lapsed>>

\* IncResetFailedAttempts: of a token consumed since it makes no difference
WrongOTP(v) ==
  /\ visit[v].pc = "otp" /\ Ends(v)
  /\ resets' = [resets EXCEPT ![visit[v].of] =
                  IF @.status # "open" THEN @
                  ELSE IF @.failed + 1 >= MaxAttempts THEN Void
                  ELSE [status |-> "open", failed |-> @.failed + 1]]
  /\ NoFault /\ UNCHANGED <<account, issued, listed, revoked, taken, crowded, slipped, lapsed>>

\* Consumes the token, whatever it has become, unlocks and signs out.
ApplyPasswordReset(v) ==
  LET r == visit[v].of IN
  /\ visit[v].pc = "otp"
  /\ resets' = [resets EXCEPT ![r] = [status |-> "consumed", failed |-> 0]]
  /\ account' = [failed |-> 0, locked |-> FALSE]
  /\ taken' = [taken EXCEPT ![r] = @ + 1]
  /\ visit' = [visit EXCEPT ![v] = [pc |-> "list"]]
  /\ NoFault /\ UNCHANGED <<issued, listed, revoked, crowded, slipped, lapsed>>

\* An error of a store, or the death of the process, behind a first effect.
VisitFails(v) ==
  /\ visit[v].pc \in {"reset", "sign", "list", "revoke"} /\ Fault /\ Ends(v)
  /\ UNCHANGED <<account, issued, listed, revoked, resets, taken, crowded, slipped, lapsed>>

-----------------------------------------------------------------------------
SessionInit ==
  /\ account = [failed |-> 0, locked |-> FALSE]
  /\ issued = [p \in Pairs |-> "none"] /\ listed = {} /\ revoked = {}
  /\ resets = [r \in Resets |-> [status |-> "none", failed |-> 0]]
  /\ visit = [v \in Visitors |-> Out]
  /\ taken = [x \in Jtis \cup Resets |-> 0] /\ crowded = {} /\ slipped = {} /\ lapsed = {}

SessionNext ==
  \/ \E v \in Visitors :
       \/ Login(v) \/ LoginRefused(v) \/ ResetFailedAttempts(v)
       \/ Rotate(v) \/ ListActiveJTIs(v) \/ RevokeNext(v) \/ CloseAllSessions(v)
       \/ WrongOTP(v) \/ ApplyPasswordReset(v) \/ VisitFails(v)
       \/ \E p \in Pairs : CreateSession(v, p) \/ SignNew(v, p)
       \/ \E k \in Jtis : Refresh(v, k)
       \/ \E r \in Resets : FindReset(v, r)
  \/ \E r \in Resets : InitiateReset(r) \/ ExpireReset(r)
  \/ \E k \in Jtis : Lapse(k)

-----------------------------------------------------------------------------
SessionTypeOK ==
  /\ account.locked \in BOOLEAN /\ account.failed \in Nat
  /\ issued \in [Pairs -> {"none", "login", "refresh"}]
  /\ listed \subseteq Pairs /\ revoked \subseteq Jtis

\* Until its revocation lapses a token is exchanged once, unless two refreshes
\* asked the store before either had revoked it (auth.go:235).
ExchangedOnce == \A k \in Jtis : taken[k] > 1 => k \in crowded

\* A reset token changes the password once, unless two confirmations found it
\* before either had consumed it (password_reset.go:58).
ResetOnce == \A r \in Resets : taken[r] > 1 => r \in crowded

\* The tokens of a login stay in an open session row until they are revoked, also
\* when a sign-out everywhere fails half-way, and are refused until the revocation
\* lapses; the sign-out misses those of a login that came between its listing and
\* its closing (auth.go:226).
LoginsAccounted ==
  \A k \in Jtis : issued[k[1]] = "login" =>
    k[1] \in listed \cup slipped \/ k \in revoked \cup lapsed
=============================================================================
