-------------------------------- MODULE StaffRoles -----------------------------
(***************************************************************************)
(* Staff accounts (service/staff).  The caller's role is the one in its    *)
(* access token, set when it logged in; the step-up time is read from its  *)
(* row, before the row of the target is written.                           *)
(***************************************************************************)
EXTENDS Bound

CONSTANTS
  Members,         \* staff ids
  Founder,         \* the first super_admin, seeded with the database
  OtherRoles,      \* roles but super_admin
  StepUpWindow,    \* 15 minutes in the code
  MaxMinutes       \* bound: the clock

ASSUME StaffAssumption == Founder \in Members /\ StepUpWindow \in Nat /\ MaxMinutes \in Nat \ {0}

VARIABLES
  member,      \* staff id -> its row
  badge,       \* staff id -> role in its access token, "none" without
  minute,      \* the clock, from 1
  change,      \* staff id -> its change of a role behind the check, if any
  promoted     \* staff ids whose row ever had super_admin (history)

staffVars == <<member, badge, minute, change, promoted>>

Roles == {"super_admin"} \cup OtherRoles
Never == 0
NotHired == [role |-> "none", status |-> "none", elevated |-> Never]
NoChange == [pc |-> "none"]
IsSuper(s) == badge[s] = "super_admin"
\* requireStepUp
Elevated(s) == minute <= member[s].elevated
Promote(s, role) == promoted' = IF role = "super_admin" THEN promoted \cup {s} ELSE promoted

-----------------------------------------------------------------------------
CreateStaff(a, s, role) ==
  /\ IsSuper(a) /\ member[s] = NotHired
  /\ member' = [member EXCEPT ![s] = [role |-> role, status |-> "active", elevated |-> Never]]
  /\ Promote(s, role)
  /\ UNCHANGED <<badge, minute, change>>

\* Bound: an administrator has one change behind its check at a time; two of
\* them may have one each, of the same target too.
ToWrite(a, s, role) ==
  /\ member[s] # NotHired /\ change[a] = NoChange
  /\ change' = [change EXCEPT ![a] = [pc |-> "write", of |-> s, role |-> role, at |-> minute]]
  /\ UNCHANGED <<member, badge, minute, promoted>>

\* the step-up time is not compared with the clock
SetRoleBug(a, s, role) == IsSuper(a) /\ member[a].elevated # Never /\ ToWrite(a, s, role)

\* the role of the caller is not looked at
SetRoleAnyoneBug(a, s, role) == Elevated(a) /\ ToWrite(a, s, role)

SetRole(a, s, role) == IsSuper(a) /\ Elevated(a) /\ ToWrite(a, s, role)

WriteRole(a) ==
  /\ change[a] # NoChange
  /\ member' = [member EXCEPT ![change[a].of].role = change[a].role]
  /\ change' = [change EXCEPT ![a] = NoChange]
  /\ Promote(change[a].of, change[a].role)
  /\ UNCHANGED <<badge, minute>>

\* Without a step-up, and of the last active super_admin too; barred stands for
\* suspended and for disabled.
SetStatus(a, s, status) ==
  /\ IsSuper(a) /\ member[s] # NotHired
  /\ member' = [member EXCEPT ![s].status = status]
  /\ UNCHANGED <<badge, minute, change, promoted>>

MarkStepUpPassed(s) ==
  /\ member[s] # NotHired /\ badge[s] # "none"
  /\ member' = [member EXCEPT ![s].elevated = minute + StepUpWindow]
  /\ UNCHANGED <<badge, minute, change, promoted>>

-----------------------------------------------------------------------------
\* Login and the life of the token: external.
BadgeIssued(s) ==
  /\ member[s].status = "active"
  /\ badge' = [badge EXCEPT ![s] = member[s].role]
  /\ UNCHANGED <<member, minute, change, promoted>>

Minute == minute < MaxMinutes /\ minute' = minute + 1 /\ UNCHANGED <<member, badge, change, promoted>>

-----------------------------------------------------------------------------
StaffInit ==
  /\ member = [s \in Members |-> IF s = Founder
                 THEN [role |-> "super_admin", status |-> "active", elevated |-> Never] ELSE NotHired]
  /\ badge = [s \in Members |-> "none"] /\ minute = 1
  /\ change = [s \in Members |-> NoChange] /\ promoted = {Founder}

StaffNext ==
  /\ \/ \E a \in Members, s \in Members :
          \/ \E role \in Roles : CreateStaff(a, s, role) \/ SetRole(a, s, role)
          \/ \E status \in {"active", "barred"} : SetStatus(a, s, status)
     \/ Minute
     \/ \E s \in Members : WriteRole(s) \/ MarkStepUpPassed(s) \/ BadgeIssued(s)
  /\ NoFault

-----------------------------------------------------------------------------
StaffTypeOK ==
  /\ \A s \in Members : member[s] # NotHired => member[s].role \in Roles
  /\ minute \in 1..MaxMinutes
  /\ \A s \in Members : member[s].elevated \in 0..(minute + StepUpWindow)

\* A role changes only by the call of one who has been a super_admin, checked
\* within the window of its step-up (staff.go:191, :197): the write may come
\* after the window, and after the caller was barred or had its role taken.
RoleNeedsStepUp ==
  [][\A s \in Members :
       member[s] # NotHired /\ member'[s].role # member[s].role =>
         \E a \in promoted :
           /\ change[a] # NoChange /\ change'[a] = NoChange /\ change[a].of = s
           /\ change[a].at <= member[a].elevated]_staffVars
=============================================================================
