------------------------------- MODULE Partner -------------------------------
(***************************************************************************)
(* Partners (internal/service/partner): application, review, suspension    *)
(* and termination, which orphans the partner's customers in a second      *)
(* step.  Repository.Update locks the row, so a status change is atomic.   *)
(***************************************************************************)
EXTENDS Customer

CONSTANTS Applicants     \* e-mail addresses of applicants

VARIABLES
  partner,   \* rows, in the order of their ids
  members,   \* partner -> customers it had when it was last terminated
  uncertain  \* partners with an application or termination cut short (history)

partnerVars == <<partner, members, uncertain>>

PartnerStatus ==
  {"applied", "approved", "rejected", "frozen", "suspended", "terminated"}
PartnerRow == [email : Applicants, status : PartnerStatus, column : BOOLEAN]
Has(p, status) == p \in DOMAIN partner /\ partner[p].status = status
Becomes(p, status) == partner' = [partner EXCEPT ![p].status = status]
HasCode(p) == \E c \in DOMAIN code : code[c].partner = p

-----------------------------------------------------------------------------
(* Apply: look the address up, insert, generate the code.                  *)

Registered(e) == {p \in DOMAIN partner : partner[p].email = e}

Apply(w, e) ==
  /\ Registered(e) = {}
  /\ Start(w, [op |-> "apply", pc |-> "insert", email |-> e])
  /\ UNCHANGED <<code, partnerVars>>

\* The unique keys: the address, and the invitation_code column, which Apply
\* leaves empty.
Conflict(e) ==
  store = "mysql" /\ \E p \in DOMAIN partner : partner[p].email = e \/ ~partner[p].column

\* the application is accepted without its code
ApplyInsertBug(w) ==
  /\ Serving(w, "apply", "insert")
  /\ partner' = Append(partner, [email |-> call[w].email, status |-> "applied", column |-> FALSE])
  /\ members' = Append(members, {})
  /\ Return(w)
  /\ UNCHANGED <<code, uncertain>>

ApplyInsert(w) ==
  LET e == call[w].email IN
  /\ Serving(w, "apply", "insert")
  /\ IF Conflict(e)
       THEN Return(w) /\ UNCHANGED <<partner, members>>
       ELSE /\ partner' = Append(partner, [email |-> e, status |-> "applied", column |-> FALSE])
            /\ members' = Append(members, {})
            /\ call' = [call EXCEPT ![w] =
                 [op |-> "apply", pc |-> "generate", partner |-> Len(partner) + 1]]
            /\ UNCHANGED <<calls, faults>>
  /\ UNCHANGED <<code, uncertain>>

ApplyGenerate(w) ==
  /\ Serving(w, "apply", "generate")
  /\ Generate(call[w].partner, 0)
  /\ Return(w)
  /\ UNCHANGED partnerVars

GenerateWith(w, p, limit) ==
  /\ Once(w) /\ p \in DOMAIN partner
  /\ Generate(p, limit)
  /\ UNCHANGED partnerVars

-----------------------------------------------------------------------------
(* Reviews and status changes: an updater that does not apply leaves the   *)
(* row as it is, and the caller gets ErrInvalidTransition.                 *)

Approve(w, p) ==
  /\ Once(w) /\ Has(p, "applied")
  /\ Becomes(p, "approved")
  /\ UNCHANGED <<code, members, uncertain>>

Reject(w, p) ==
  /\ Once(w) /\ Has(p, "applied")
  /\ Becomes(p, "rejected")
  /\ UNCHANGED <<code, members, uncertain>>

TransitionFrozen(w, p, target) ==
  /\ Once(w) /\ Has(p, "approved")
  /\ Becomes(p, target)
  /\ UNCHANGED <<code, members, uncertain>>

Suspend(w, p) == TransitionFrozen(w, p, "suspended")
Freeze(w, p) == TransitionFrozen(w, p, "frozen")

Members(p) == ListByPartner(p, "active")

\* a partner that is terminated already needs nothing more
TerminateBug(w, p) ==
  /\ p \in DOMAIN partner
  /\ IF Has(p, "terminated") THEN Once(w)
     ELSE Start(w, [op |-> "terminate", pc |-> "orphan", partner |-> p])
  /\ Becomes(p, "terminated")
  /\ members' = [members EXCEPT ![p] = Members(p)]
  /\ UNCHANGED <<code, uncertain>>

\* From every status, "terminated" included: the customers are orphaned again.
Terminate(w, p) ==
  /\ Start(w, [op |-> "terminate", pc |-> "orphan", partner |-> p])
  /\ p \in DOMAIN partner
  /\ Becomes(p, "terminated")
  /\ members' = [members EXCEPT ![p] = Members(p)]
  /\ UNCHANGED <<code, uncertain>>

TerminateOrphans(w) ==
  /\ Serving(w, "terminate", "orphan")
  /\ OrphanByPartner(call[w].partner)
  /\ Return(w)
  /\ UNCHANGED <<code, log, fyGroup, erased, registered, unsure, partnerVars>>

-----------------------------------------------------------------------------
PartnerCalls(w) ==
  \/ \E e \in Applicants : Apply(w, e)
  \/ ApplyInsert(w) \/ ApplyGenerate(w)
  \/ \E p \in DOMAIN partner :
       \/ \E limit \in Limits : GenerateWith(w, p, limit)
       \/ Approve(w, p) \/ Reject(w, p) \/ Suspend(w, p) \/ Freeze(w, p)
       \/ Terminate(w, p)

PartnerTypeOK ==
  /\ partner \in Seq(PartnerRow)
  /\ members \in [DOMAIN partner -> SUBSET DOMAIN customer]
  /\ uncertain \subseteq DOMAIN partner
=============================================================================
