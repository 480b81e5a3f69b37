--------------------------------- MODULE Kyc ---------------------------------
(***************************************************************************)
(* KYC applications (service/kyc) on either repository: one row per user,  *)
(* a look at the identity before the insertion, a review, the link of the  *)
(* approved user, the removal of rows whose retention is over.  The yearly *)
(* freeze is left out: nothing takes a rejected application back, so its   *)
(* count never passes one (NotFrozen says so).                             *)
(***************************************************************************)
EXTENDS Bound

CONSTANTS
  Applicants,
  LegalIds,     \* blind indexes of legal_person_id
  NoAccount,    \* the applicants that give no bank account; the others' differ
  Officers      \* requests served at the same time

ASSUME KycAssumption == NoAccount \subseteq Applicants /\ Applicants \cap LegalIds = {}

VARIABLES
  app,         \* user -> application
  inTable,     \* the applications are in MySQL, not in memory
  call,        \* request -> what it does
  linked,      \* users the linker was told of, since they applied
  mishap       \* what went wrong: legal ids and users (history)

kycVars == <<app, inTable, call, linked, mishap>>

NoApp == [status |-> "none"]
NoCall == [pc |-> "idle"]
CallIs(w, pc) == call[w].pc = pc
CallTo(w, pc) == call' = [call EXCEPT ![w].pc = pc]
CallEnds(w) == call' = [call EXCEPT ![w] = NoCall]
Exists(u) == app[u].status # "none"
Mishap(x) == mishap' = mishap \cup {x}

-----------------------------------------------------------------------------
(* Submission.                                                             *)

SubmitInput ==
  [user : Applicants, legal : LegalIds, type : {"enterprise", "individual"}, license : BOOLEAN,
   liveness : BOOLEAN, consents : SUBSET {"pii", "biometric"}, verified : BOOLEAN]

ValidInput(in) == in.type = "enterprise" => in.license
Consented(in) == "pii" \in in.consents /\ (in.liveness => "biometric" \in in.consents)
Uploaded(in) == in.verified

\* encryptInto: what is kept of the input; the cipher texts are not.
EncryptInto(in) == [legal |-> in.legal, status |-> "draft", rejects |-> 0]

SubmitKyc(w, in) ==
  /\ CallIs(w, "idle")
  /\ ValidInput(in) /\ Consented(in) /\ Uploaded(in)
  /\ call' = [call EXCEPT ![w] = [pc |-> "legal", user |-> in.user, app |-> EncryptInto(in)]]
  /\ NoFault /\ UNCHANGED <<app, inTable, linked, mishap>>

FindByLegalID(l, u) == \E v \in Applicants \ {u} : Exists(v) /\ app[v].legal = l

\* own and other rows are not told from none
LookupLegalBug(w) ==
  /\ CallIs(w, "legal")
  /\ CallTo(w, "insert") /\ UNCHANGED mishap
  /\ NoFault /\ UNCHANGED <<app, inTable, linked>>

\* An error of the lookup counts as "not found".
LookupLegal(w) ==
  LET c == call[w] IN
  /\ CallIs(w, "legal")
  /\ \/ /\ FindByLegalID(c.app.legal, c.user)
        /\ CallEnds(w)
        /\ NoFault /\ UNCHANGED mishap
     \/ /\ ~FindByLegalID(c.app.legal, c.user)
        /\ CallTo(w, "insert")
        /\ IF \E v \in Officers \ {w} : CallIs(v, "insert") /\ call[v].app.legal = c.app.legal
             THEN Mishap(c.app.legal) ELSE UNCHANGED mishap
        /\ NoFault
     \/ Fault /\ CallTo(w, "insert") /\ Mishap(c.app.legal)
  /\ UNCHANGED <<app, inTable, linked>>

\* One row per user; one per bank account in MySQL, where "" is an account too.
Refused(u) ==
  \/ Exists(u)
  \/ inTable /\ u \in NoAccount /\ \E v \in NoAccount : Exists(v)

\* the row keeps the status it was drafted with
InsertAppBug(w) ==
  LET c == call[w] IN
  /\ CallIs(w, "insert")
  /\ app' = IF Refused(c.user) THEN app ELSE [app EXCEPT ![c.user] = c.app]
  /\ CallEnds(w)
  /\ NoFault /\ UNCHANGED <<inTable, linked, mishap>>

InsertApp(w) ==
  LET c == call[w] IN
  /\ CallIs(w, "insert")
  /\ IF Refused(c.user) THEN UNCHANGED <<app, linked, mishap>>
     ELSE /\ app' = [app EXCEPT ![c.user] = [c.app EXCEPT !.status = "submitted"]]
          /\ linked' = linked \ {c.user} /\ mishap' = mishap \ {c.user}
  /\ CallEnds(w)
  /\ NoFault /\ UNCHANGED inTable

-----------------------------------------------------------------------------
(* Review.                                                                 *)

\* writes an existing row
UpdateApp(u, new) == Exists(u) /\ app' = [app EXCEPT ![u] = new]

MarkUnderReview(u) ==
  /\ app[u].status = "submitted"
  /\ UpdateApp(u, [app[u] EXCEPT !.status = "under_review"])
  /\ NoFault /\ UNCHANGED <<inTable, call, linked, mishap>>

\* Any application can be reviewed; its count is read first,
ReviewKyc(w, u, verdict) ==
  /\ CallIs(w, "idle") /\ Exists(u)
  /\ verdict = "rejected" => app[u].rejects + 1 < 3
  /\ call' = [call EXCEPT ![w] = [pc |-> "decide", user |-> u, verdict |-> verdict]]
  /\ NoFault /\ UNCHANGED <<app, inTable, linked, mishap>>

\* the status is not looked at again
DecideBug(w) ==
  LET c == call[w] IN
  /\ CallIs(w, "decide")
  /\ UpdateApp(c.user, [app[c.user] EXCEPT !.status = c.verdict])
  /\ IF c.verdict = "approved" THEN CallTo(w, "link") ELSE CallEnds(w)
  /\ NoFault /\ UNCHANGED <<inTable, linked, mishap>>

\* the linker only hears of a review that reads the approved row
DecideLinkBug(w) ==
  LET c == call[w] IN
  /\ CallIs(w, "decide")
  /\ UpdateApp(c.user, [app[c.user] EXCEPT !.status = IF @ \in {"submitted", "under_review"} THEN c.verdict ELSE @])
  /\ IF app[c.user].status = "approved" THEN CallTo(w, "link") ELSE CallEnds(w)
  /\ NoFault /\ UNCHANGED <<inTable, linked, mishap>>

\* then the verdict is written if it is still undecided; the linker is called
\* whenever the row is approved, by this review or before it.
Decide(w) ==
  LET c == call[w]
      decided == IF app[c.user].status \notin {"submitted", "under_review"} THEN app[c.user]
                 ELSE IF c.verdict = "approved" THEN [app[c.user] EXCEPT !.status = "approved"]
                 ELSE [app[c.user] EXCEPT !.status = "rejected", !.rejects = @ + 1]
  IN /\ CallIs(w, "decide")
     /\ UpdateApp(c.user, decided)
     /\ IF decided.status = "approved" THEN CallTo(w, "link") ELSE CallEnds(w)
     /\ NoFault /\ UNCHANGED <<inTable, linked, mishap>>

\* OnKYCApproved.
Link(w) ==
  /\ CallIs(w, "link")
  /\ linked' = linked \cup {call[w].user} /\ CallEnds(w)
  /\ NoFault /\ UNCHANGED <<app, inTable, mishap>>

-----------------------------------------------------------------------------
\* A request ends by an error of the repository or the linker, or dies.
KycFails(w) ==
  /\ call[w] # NoCall
  /\ Fault
  /\ IF CallIs(w, "link") THEN Mishap(call[w].user) ELSE UNCHANGED mishap
  /\ CallEnds(w)
  /\ UNCHANGED <<app, inTable, linked>>

\* The retention of these applications is over; a review under way finds no row.
PurgeColdExpired(batch) ==
  /\ batch # {} /\ \A u \in batch : Exists(u)
  /\ app' = [u \in Applicants |-> IF u \in batch THEN NoApp ELSE app[u]]
  /\ call' = [w \in Officers |-> IF CallIs(w, "decide") /\ call[w].user \in batch THEN NoCall ELSE call[w]]
  /\ NoFault /\ UNCHANGED <<inTable, linked, mishap>>

-----------------------------------------------------------------------------
KycInit ==
  /\ app = [u \in Applicants |-> NoApp] /\ inTable \in BOOLEAN
  /\ call = [w \in Officers |-> NoCall]
  /\ linked = {} /\ mishap = {}

KycNext ==
  \/ \E w \in Officers :
       \/ \E in \in SubmitInput : SubmitKyc(w, in)
       \/ LookupLegal(w) \/ InsertApp(w)
       \/ \E u \in Applicants, verdict \in {"approved", "rejected"} : ReviewKyc(w, u, verdict)
       \/ Decide(w) \/ Link(w) \/ KycFails(w)
  \/ \E u \in Applicants : MarkUnderReview(u)
  \/ \E batch \in SUBSET Applicants : PurgeColdExpired(batch)

-----------------------------------------------------------------------------
KycTypeOK ==
  /\ \A u \in Applicants : Exists(u) =>
       app[u].status \in {"submitted", "under_review", "approved", "rejected"} /\ app[u].legal \in LegalIds
  /\ linked \subseteq Applicants

\* Two users hold the same identity only if their submissions overlapped or the
\* lookup of the identity failed, which counts as "not found" (kyc.go:158).
OneIdentity ==
  \A u, v \in Applicants :
    u # v /\ Exists(u) /\ Exists(v) /\ app[u].legal = app[v].legal => app[u].legal \in mishap

\* The verdict of the first review stands, whatever reviews overlap it, until
\* the row is purged; so nobody is rejected twice and the yearly freeze of
\* three rejections is never reached (kyc.go:199, :206).
NotFrozen ==
  [][\A u \in Applicants :
       /\ app[u].status \in {"approved", "rejected"} => app'[u].status \in {app[u].status, "none"}
       /\ Exists(u)' => app'[u].rejects <= 1]_kycVars

\* Every approved user is linked or about to be, unless the linker failed, which
\* nothing but another review makes good (kyc.go:226).
ApprovedIsLinked ==
  \A u \in Applicants : app[u].status = "approved" =>
    u \in linked \cup mishap \/ \E w \in Officers : CallIs(w, "link") /\ call[w].user = u
=============================================================================
