------------------------------ MODULE Customer ------------------------------
(***************************************************************************)
(* Customers (internal/service/customer): registration with a code or      *)
(* direct, the transfer to another partner by way of its change log, and   *)
(* the erasure, over a repository whose statements are atomic one by one.  *)
(* Fy-api is the external service that keeps a user's group.               *)
(* Partners are numbers; 0 is none, and the default group.                 *)
(***************************************************************************)
EXTENDS Invitation

CONSTANTS Users, Stages     \* Fy-api users; stages a transfer is advanced to

ASSUME CustomerAssumption ==
  /\ "completed" \in Stages
  /\ Stages \subseteq {"pending_a", "pending_b", "pending_staff", "completed", "rejected"}

VARIABLES
  customer,     \* rows, in the order of their ids
  log,          \* change log rows, in the order of their ids
  fyGroup,      \* Fy-api: user -> group
  erased,       \* Fy-api: users erased
  registered,   \* registrations reported done: the customer and its code
  unsure        \* customers with a call cut short, or two transfers applied
                \* at the same time (history)

customerVars == <<customer, log, fyGroup, erased, registered, unsure>>

CustomerStatus == {"active", "orphaned", "direct", "deleted"}
LogStatus == {"pending_a", "pending_b", "pending_staff", "completed", "rejected"}
FindByFyUserID(u) == {i \in DOMAIN customer : customer[i].user = u}
OfPartner(i, p) == customer[i].partner = p /\ p # 0
ListByPartner(p, status) ==
  {i \in DOMAIN customer : OfPartner(i, p) /\ customer[i].status = status}

CustomerRow == [user : Users, partner : Nat, status : CustomerStatus, group : Nat]
ChangeLogRow == [id : DOMAIN customer, to : Nat \ {0}, status : LogStatus]
\* Update and UpdateChangeLog lock the row for the updater.
Update(i, row) == customer' = [customer EXCEPT ![i] = row]
UpdateChangeLog(l, status) == log' = [log EXCEPT ![l].status = status]

-----------------------------------------------------------------------------
(* Register: find, resolve, insert, then Consume: resolve, count, mark.    *)

Insert(u, p, status) ==
  customer' = Append(customer, [user |-> u, partner |-> p, status |-> status, group |-> p])
\* uk_customer_fy_user
Duplicate(u) == store = "mysql" /\ FindByFyUserID(u) # {}

Register(w, u, c) ==
  /\ FindByFyUserID(u) = {}
  /\ Start(w, [op |-> "register", pc |-> "resolve", user |-> u, code |-> c, id |-> 0])
  /\ UNCHANGED <<code, customerVars>>

RegisterResolve(w) ==
  /\ Serving(w, "register", "resolve")
  /\ IF Usable(call[w].code) THEN Goto(w, "insert") ELSE Return(w)
  /\ UNCHANGED <<code, customerVars>>

RegisterInsert(w) ==
  LET r == call[w] IN
  /\ Serving(w, "register", "insert")
  /\ IF Duplicate(r.user)
       THEN Return(w) /\ UNCHANGED customer
       ELSE /\ Insert(r.user, code[r.code].partner, "active")
            /\ call' = [call EXCEPT ![w].pc = "consume", ![w].id = Len(customer) + 1]
            /\ UNCHANGED <<calls, faults>>
  /\ UNCHANGED <<code, log, fyGroup, erased, registered, unsure>>

Consume(w) ==
  /\ Serving(w, "register", "consume")
  /\ IF Usable(call[w].code) THEN Goto(w, "count") ELSE Return(w)
  /\ UNCHANGED <<code, customerVars>>

Done(w) ==
  /\ registered' = registered \cup {[id |-> call[w].id, code |-> call[w].code]}
  /\ Return(w)

Count(w) ==
  LET c == call[w].code IN
  /\ Serving(w, "register", "count")
  /\ \/ /\ ~MayIncrement(c)
        /\ Return(w) /\ UNCHANGED <<code, registered>>
     \/ /\ MayIncrement(c) /\ IncUsedCount(c)
        /\ IF LastUse(c) THEN Goto(w, "mark") /\ UNCHANGED registered ELSE Done(w)
  /\ UNCHANGED <<customer, log, fyGroup, erased, unsure>>

MarkUsedUp(w) ==
  /\ Serving(w, "register", "mark")
  /\ IF MayMarkUsedUp
       THEN SetStatus(call[w].code, "used_up") /\ Done(w)
       ELSE Return(w) /\ UNCHANGED <<code, registered>>
  /\ UNCHANGED <<customer, log, fyGroup, erased, unsure>>

RegisterDirect(w, u) ==
  /\ FindByFyUserID(u) = {}
  /\ Start(w, [op |-> "direct", pc |-> "insert", user |-> u])
  /\ UNCHANGED <<code, customerVars>>

InsertDirect(w) ==
  /\ Serving(w, "direct", "insert")
  /\ IF Duplicate(call[w].user) THEN UNCHANGED customer ELSE Insert(call[w].user, 0, "direct")
  /\ Return(w)
  /\ UNCHANGED <<code, log, fyGroup, erased, registered, unsure>>

-----------------------------------------------------------------------------
(* Transfer to another partner.                                            *)

RequestTransfer(w, i, from, to) ==
  /\ i \in DOMAIN customer
  /\ OfPartner(i, from) /\ customer[i].status # "deleted" /\ from # to
  /\ Start(w, [op |-> "request", pc |-> "insert", id |-> i, to |-> to])
  /\ UNCHANGED <<code, customerVars>>

InsertChangeLog(w) ==
  /\ Serving(w, "request", "insert")
  /\ log' = Append(log, [id |-> call[w].id, to |-> call[w].to, status |-> "pending_a"])
  /\ Return(w)
  /\ UNCHANGED <<code, customer, fyGroup, erased, registered, unsure>>

\* a completed log is not advanced again
AdvanceBug(w, l, stage) ==
  /\ l \in DOMAIN log /\ log[l].status \notin {"completed", "rejected"}
  /\ UpdateChangeLog(l, stage)
  /\ IF stage = "completed"
       THEN Start(w, [op |-> "advance", pc |-> "apply", id |-> log[l].id, to |-> log[l].to])
       ELSE Once(w)
  /\ UNCHANGED <<code, customer, fyGroup, erased, registered, unsure>>

\* AdvanceTransferStage: a closed log keeps its status, and is applied again
\* if that status is "completed".
Advance(w, l, stage) ==
  LET next == IF log[l].status \in {"completed", "rejected"} THEN log[l].status ELSE stage IN
  /\ l \in DOMAIN log
  /\ UpdateChangeLog(l, next)
  /\ IF next = "completed"
       THEN Start(w, [op |-> "advance", pc |-> "apply", id |-> log[l].id, to |-> log[l].to])
       ELSE Once(w)
  /\ UNCHANGED <<code, customer, fyGroup, erased, registered, unsure>>

Applying(i) == {w \in Workers : call[w].op = "advance" /\ call[w].id = i}

\* the group is left to the call to Fy-api
ApplyTransferBug(w) ==
  LET a == call[w] IN
  /\ Serving(w, "advance", "apply")
  /\ Update(a.id, [customer[a.id] EXCEPT !.partner = a.to, !.status = "active"])
  /\ unsure' = IF Applying(a.id) = {w} THEN unsure ELSE unsure \cup {a.id}
  /\ Goto(w, "reload")
  /\ UNCHANGED <<code, log, fyGroup, erased, registered>>

ApplyTransfer(w) ==
  LET a == call[w] IN
  /\ Serving(w, "advance", "apply")
  /\ Update(a.id, [customer[a.id] EXCEPT !.partner = a.to, !.group = a.to, !.status = "active"])
  /\ unsure' = IF Applying(a.id) = {w} THEN unsure ELSE unsure \cup {a.id}
  /\ Goto(w, "reload")
  /\ UNCHANGED <<code, log, fyGroup, erased, registered>>

\* The group that will be sent is the one read here.
Reload(w) ==
  /\ Serving(w, "advance", "reload")
  /\ IF OfPartner(call[w].id, call[w].to) THEN Goto(w, "group") ELSE Return(w)
  /\ UNCHANGED <<code, customerVars>>

UpdateUserGroup(w) ==
  /\ Serving(w, "advance", "group")
  /\ fyGroup' = [fyGroup EXCEPT ![customer[call[w].id].user] = call[w].to]
  /\ Return(w)
  /\ UNCHANGED <<code, customer, log, erased, registered, unsure>>

-----------------------------------------------------------------------------
(* Erasure.  A customer that is "deleted" already is reported as done.     *)

SubmitErase(w, i, p) ==
  /\ i \in DOMAIN customer /\ OfPartner(i, p)
  /\ IF customer[i].status = "deleted" THEN Once(w)
                                       ELSE Start(w, [op |-> "erase", pc |-> "mark", id |-> i])
  /\ UNCHANGED <<code, customerVars>>

MarkDeleted(w) ==
  /\ Serving(w, "erase", "mark")
  /\ Update(call[w].id, [customer[call[w].id] EXCEPT !.status = "deleted"])
  /\ Goto(w, "fyapi")
  /\ UNCHANGED <<code, log, fyGroup, erased, registered, unsure>>

EraseUser(w) ==
  /\ Serving(w, "erase", "fyapi")
  /\ erased' = erased \cup {customer[call[w].id].user}
  /\ Return(w)
  /\ UNCHANGED <<code, customer, log, fyGroup, registered, unsure>>

\* whatever the status of the customers
OrphanByPartnerBug(p) ==
  customer' = [i \in DOMAIN customer |->
    IF OfPartner(i, p) THEN [customer[i] EXCEPT !.status = "orphaned"] ELSE customer[i]]

OrphanByPartner(p) ==
  customer' = [i \in DOMAIN customer |->
    IF OfPartner(i, p) /\ customer[i].status = "active"
      THEN [customer[i] EXCEPT !.status = "orphaned"] ELSE customer[i]]

-----------------------------------------------------------------------------
CustomerCalls(w) ==
  \/ \E u \in Users : RegisterDirect(w, u) \/ \E c \in DOMAIN code : Register(w, u, c)
  \/ RegisterResolve(w) \/ RegisterInsert(w) \/ Consume(w) \/ Count(w) \/ MarkUsedUp(w)
  \/ InsertDirect(w)
  \/ InsertChangeLog(w)
  \/ \E l \in DOMAIN log, stage \in Stages : Advance(w, l, stage)
  \/ ApplyTransfer(w) \/ Reload(w) \/ UpdateUserGroup(w)
  \/ MarkDeleted(w) \/ EraseUser(w)

CustomerTypeOK ==
  /\ customer \in Seq(CustomerRow) /\ log \in Seq(ChangeLogRow)
  /\ fyGroup \in [Users -> Nat] /\ erased \subseteq Users
  /\ registered \subseteq [id : DOMAIN customer, code : Codes]
  /\ unsure \subseteq DOMAIN customer
=============================================================================
