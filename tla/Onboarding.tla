----------------------------- MODULE Onboarding -----------------------------
(***************************************************************************)
(* Partners, their invitation codes and their customers together, as the   *)
(* services of cmd/server call each other: a registration resolves and     *)
(* consumes a code, an application issues one, a termination orphans.      *)
(* A call is cut short by a repository or Fy-api error, or a crash, before *)
(* any of its steps; what it wrote stays.                                  *)
(***************************************************************************)
EXTENDS Partner

CONSTANTS FirstPartners, FirstCodes, FirstCustomers, FirstLog   \* rows already there

\* What is there has been there for long: every partner has its code, no code is
\* used beyond its limit, and the transfers are under way.
ASSUME OnboardingAssumption ==
  /\ FirstPartners \in Seq(PartnerRow) /\ FirstCustomers \in Seq(CustomerRow)
  /\ FirstLog \in Seq([id : DOMAIN FirstCustomers, to : Nat \ {0}, status : LogStatus \ {"completed"}])
  /\ DOMAIN FirstCodes \subseteq Codes
  /\ FirstCodes \in [DOMAIN FirstCodes ->
       [partner : Nat \ {0}, limit : Nat, used : Nat, status : {"active", "revoked"},
        expires : {"never", "later", "past"}]]
  /\ \A c \in DOMAIN FirstCodes : FirstCodes[c].limit > 0 => FirstCodes[c].used <= FirstCodes[c].limit
  /\ \A p \in DOMAIN FirstPartners : \E c \in DOMAIN FirstCodes : FirstCodes[c].partner = p

vars == <<store, code, call, calls, faults, customer, log, fyGroup, erased,
          registered, unsure, partner, members, uncertain>>

Init ==
  /\ store \in Stores /\ code = FirstCodes
  /\ call = [w \in Workers |-> Idle] /\ calls = 0 /\ faults = 0
  /\ customer = FirstCustomers /\ log = FirstLog
  /\ fyGroup = [u \in Users |-> 0] /\ erased = {}
  /\ registered = {} /\ unsure = {}
  /\ partner = FirstPartners /\ members = [p \in DOMAIN FirstPartners |-> {}]
  /\ uncertain = {}

Fail(w) ==
  /\ call[w] # Idle
  /\ faults < MaxFaults /\ faults' = faults + 1
  /\ call' = [call EXCEPT ![w] = Idle]
  /\ unsure' = IF call[w].op \in {"advance", "erase"} THEN unsure \cup {call[w].id} ELSE unsure
  /\ uncertain' = IF call[w].op = "terminate" \/ Serving(w, "apply", "generate")
                    THEN uncertain \cup {call[w].partner} ELSE uncertain
  /\ UNCHANGED <<store, code, calls, customer, log, fyGroup, erased, registered,
                 partner, members>>

Next ==
  \/ \E w \in Workers :
       \/ CustomerCalls(w) /\ UNCHANGED <<store, partnerVars>>
       \/ /\ \E i \in DOMAIN customer, p \in DOMAIN partner :
               SubmitErase(w, i, p) \/ \E to \in DOMAIN partner : RequestTransfer(w, i, p, to)
          /\ UNCHANGED <<store, partnerVars>>
       \/ PartnerCalls(w) /\ UNCHANGED <<store, customerVars>>
       \/ TerminateOrphans(w) /\ UNCHANGED store
       \/ \E c \in DOMAIN code : Revoke(w, c) /\ UNCHANGED <<store, customerVars, partnerVars>>
       \/ Fail(w)
  \/ \E c \in DOMAIN code : Expire(c) /\ UNCHANGED <<store, customerVars, partnerVars>>

Spec == Init /\ [][Next]_vars

-----------------------------------------------------------------------------
(* Properties.                                                             *)

\* Every variable keeps its shape and the database its CHECK constraints.
TypeOK == InvitationTypeOK /\ CustomerTypeOK /\ PartnerTypeOK

\* Every registration reported as done has been counted on its code, and in
\* the database the count never passes the limit, however many registrations
\* share the last use (invitation_mysql.go:72).
UsesCounted ==
  \A c \in DOMAIN code :
    /\ Cardinality({r \in registered : r.code = c}) <= code[c].used
    /\ store = "mysql" /\ code[c].limit > 0 => code[c].used <= code[c].limit

\* A completed transfer leaves the customer and its Fy-api user in the group
\* of its partner, after any number of transfers, repeated advances and
\* refused reloads, unless two transfers of it were applied at the same time
\* or one was cut short (transfer.go:94).
TransferSettles ==
  \A i \in DOMAIN customer :
    (/\ i \notin unsure /\ Applying(i) = {}
     /\ \E l \in DOMAIN log : log[l].id = i /\ log[l].status = "completed"
     /\ FindByFyUserID(customer[i].user) = {i})
      => /\ customer[i].group = customer[i].partner
         /\ fyGroup[customer[i].user] = customer[i].partner

\* Only a completed transfer brings an erased customer back, whatever is
\* terminated, orphaned or registered meanwhile (transfer.go:117).
ErasureHolds ==
  \A i \in DOMAIN customer :
    customer[i].user \in erased /\ FindByFyUserID(customer[i].user) = {i} =>
      \/ customer[i].status = "deleted"
      \/ \E l \in DOMAIN log : log[l].id = i /\ log[l].status = "completed"

Settled(p) == \A w \in Workers : call[w].op = "terminate" => call[w].partner # p

\* When Terminate reports success, the customers its partner had when it began
\* are no longer active there, unless a transfer brought them back: also those
\* that registered after an earlier termination (partner.go:287).
NoMemberLeft ==
  \A p \in DOMAIN partner : p \notin uncertain /\ Settled(p) =>
    \A i \in members[p] :
      \/ i \notin Members(p)
      \/ \E l \in DOMAIN log : log[l].id = i /\ log[l].to = p /\ log[l].status = "completed"

\* An applicant is left without an invitation code only by an application cut
\* short, which can never be repeated: its address is taken (partner.go:163).
ApplicantHasCode ==
  \A p \in DOMAIN partner :
    p \notin uncertain => \/ HasCode(p)
                          \/ \E w \in Workers : Serving(w, "apply", "generate") /\ call[w].partner = p

\* Codes are counted, kept within their limits and given to every applicant.
CodesHold == UsesCounted /\ ApplicantHasCode

\* A sole registration that fails leaves nothing behind: "当 type=one_time 或
\* used_count == usage_limit 时把状态改成 used_up" (invitation.go:158) is part
\* of a successful Consume.
SoleRegistrationReported ==
  faults = 0 /\ (\A w \in Workers : call[w] = Idle) =>
    \A i \in DOMAIN customer \ DOMAIN FirstCustomers :
      customer[i].status # "direct" => \E r \in registered : r.id = i
=============================================================================
