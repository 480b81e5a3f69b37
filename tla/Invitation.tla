----------------------------- MODULE Invitation -----------------------------
(***************************************************************************)
(* Invitation codes (internal/service/invitation): issued, resolved,       *)
(* consumed in three separate steps, revoked.  Part of Onboarding: the     *)
(* calls in flight and the faults that cut them short are declared here,   *)
(* since every other part issues or uses codes.                            *)
(***************************************************************************)
EXTENDS Naturals, FiniteSets, Sequences

CONSTANTS
  Workers,    \* requests served at the same time
  Codes,      \* what randomCode may draw
  Limits,     \* usage limits of new codes, 0 for a permanent one
  Stores,     \* repositories in use: "mysql", or "memory" without a database
  MaxCalls,   \* bound: calls in a behaviour
  MaxFaults   \* bound: errors and crashes in a behaviour

ASSUME InvitationAssumption ==
  /\ Stores \subseteq {"mysql", "memory"} /\ Limits \subseteq Nat
  /\ MaxCalls \in Nat /\ MaxFaults \in Nat /\ IsFiniteSet(Workers)

VARIABLES
  store,    \* what buildW1aDeps chose at start-up
  code,     \* issued code -> its row
  call,     \* worker -> the call it serves
  calls,    \* calls begun so far
  faults    \* faults so far

callVars == <<call, calls, faults>>

\* chk_invitation_status does not list "used_up".
CodeStatus == {"active", "revoked"} \cup (IF store = "mysql" THEN {} ELSE {"used_up"})
CodeRow == [partner : Nat \ {0}, limit : Nat, used : Nat, status : CodeStatus,
            expires : {"never", "later", "past"}]
Idle == [op |-> "idle"]
Serving(w, op, pc) == call[w].op = op /\ call[w].pc = pc
Goto(w, pc) == call' = [call EXCEPT ![w].pc = pc] /\ UNCHANGED <<calls, faults>>
Return(w) == call' = [call EXCEPT ![w] = Idle] /\ UNCHANGED <<calls, faults>>
Start(w, c) ==
  /\ call[w] = Idle /\ calls < MaxCalls
  /\ call' = [call EXCEPT ![w] = c]
  /\ calls' = calls + 1 /\ UNCHANGED faults
\* A call of one step.
Once(w) == Start(w, Idle)

-----------------------------------------------------------------------------
\* GenerateWith: a drawn code that exists is drawn again.  Codes of limited use
\* are given a date; a date that is never reached is as good as none.
Generate(p, limit) ==
  \E c \in Codes \ DOMAIN code :
    code' = [d \in DOMAIN code \cup {c} |->
      IF d = c THEN [partner |-> p, limit |-> limit, used |-> 0,
                     status |-> "active",
                     expires |-> IF limit = 0 THEN "never" ELSE "later"]
               ELSE code[d]]

\* Resolve accepts the code.
Usable(c) ==
  /\ c \in DOMAIN code
  /\ code[c].status = "active" /\ code[c].expires # "past"
  /\ code[c].limit > 0 => code[c].used < code[c].limit

\* the database does not look at the limit either
MayIncrementBug(c) == TRUE

\* IncUsedCount: the database repeats the check of the limit, not of the status.
MayIncrement(c) ==
  store = "mysql" /\ code[c].limit > 0 => code[c].used < code[c].limit
IncUsedCount(c) == code' = [code EXCEPT ![c].used = @ + 1]
LastUse(c) == code[c].limit > 0 /\ code[c].used + 1 >= code[c].limit

\* the status is in the list
MayMarkUsedUpBug == TRUE

\* The database refuses the update of the last use.
MayMarkUsedUp == "used_up" \in CodeStatus
SetStatus(c, status) == code' = [code EXCEPT ![c].status = status]

Revoke(w, c) ==
  /\ Once(w) /\ c \in DOMAIN code
  /\ SetStatus(c, "revoked")

Expire(c) ==
  /\ c \in DOMAIN code /\ code[c].expires = "later"
  /\ code' = [code EXCEPT ![c].expires = "past"]
  /\ UNCHANGED callVars

InvitationTypeOK ==
  /\ store \in Stores
  /\ DOMAIN code \subseteq Codes
  /\ \A c \in DOMAIN code : code[c] \in CodeRow
  /\ calls \in 0 .. MaxCalls /\ faults \in 0 .. MaxFaults
=============================================================================
