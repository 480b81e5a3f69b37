-------------------------- MODULE OnboardingProofs --------------------------
(***************************************************************************)
(* Proofs about partners, codes and customers.  A step is described first  *)
(* by what it makes of the call of one worker (Now), then by the rows it   *)
(* changes; an invariant is proved of the few kinds of steps that concern  *)
(* it, the others being calm (no code counted or issued) or plain (no      *)
(* customer, log or termination touched).                                  *)
(***************************************************************************)
EXTENDS Onboarding, FiniteSetTheorems, TLAPS

-----------------------------------------------------------------------------
(* Shapes.                                                                 *)

RegisterCall == [op : {"register"}, pc : {"resolve", "insert", "consume", "count", "mark"},
                 user : Users, code : Codes, id : Nat]
DirectCall == [op : {"direct"}, pc : {"insert"}, user : Users]
RequestCall == [op : {"request"}, pc : {"insert"}, id : Nat, to : Nat \ {0}]
AdvanceCall == [op : {"advance"}, pc : {"apply", "reload", "group"}, id : Nat, to : Nat \ {0}]
EraseCall == [op : {"erase"}, pc : {"mark", "fyapi"}, id : Nat]
ApplyCall == [op : {"apply"}, pc : {"insert"}, email : Applicants]
GenerateCall == [op : {"apply"}, pc : {"generate"}, partner : Nat \ {0}]
TerminateCall == [op : {"terminate"}, pc : {"orphan"}, partner : Nat \ {0}]
AnyCall == {Idle} \cup RegisterCall \cup DirectCall \cup RequestCall \cup AdvanceCall \cup EraseCall
           \cup ApplyCall \cup GenerateCall \cup TerminateCall

LogRow == [id : Nat, to : Nat \ {0}, status : LogStatus]
Served == call \in [Workers -> AnyCall]
Shape ==
  /\ Served /\ calls \in 0 .. MaxCalls /\ faults \in 0 .. MaxFaults
  /\ store \in Stores /\ DOMAIN code \subseteq Codes /\ code \in [DOMAIN code -> CodeRow]
  /\ customer \in Seq(CustomerRow)
  /\ log \in Seq(LogRow)
  /\ fyGroup \in [Users -> Nat] /\ erased \subseteq Users
  /\ registered \subseteq [id : Nat, code : Codes]
  /\ partner \in Seq(PartnerRow)
  /\ members \in Seq(SUBSET Nat) /\ Len(members) = Len(partner)

\* What a call, a log or a record names is there.
Names(c) ==
  /\ c.op = "register" =>
       c.code \in DOMAIN code /\ (c.pc \in {"consume", "count", "mark"} => c.id \in DOMAIN customer)
  /\ c.op \in {"request", "advance", "erase"} => c.id \in DOMAIN customer
  /\ c.op = "terminate" \/ (c.op = "apply" /\ c.pc = "generate") => c.partner \in DOMAIN partner
Refers ==
  /\ \A w \in Workers : Names(call[w])
  /\ \A l \in DOMAIN log : log[l].id \in DOMAIN customer
  /\ \A p \in DOMAIN members : members[p] \subseteq DOMAIN customer
  /\ \A r \in registered : r.id \in DOMAIN customer
  /\ unsure \subseteq DOMAIN customer /\ uncertain \subseteq DOMAIN partner

TypeInv == Shape /\ Refers

LEMMA Appended ==
  ASSUME NEW S, NEW s \in Seq(S), NEW e \in S
  PROVE  /\ Append(s, e) \in Seq(S) /\ Len(Append(s, e)) = Len(s) + 1
         /\ DOMAIN s = 1 .. Len(s) /\ DOMAIN Append(s, e) = 1 .. (Len(s) + 1)
         /\ Append(s, e)[Len(s) + 1] = e /\ \A i \in DOMAIN s : Append(s, e)[i] = s[i]
         /\ Len(s) \in Nat
  OBVIOUS

LEMMA Changed ==
  ASSUME NEW S, NEW s \in Seq(S), NEW i \in DOMAIN s, NEW e \in S
  PROVE  /\ [s EXCEPT ![i] = e] \in Seq(S) /\ DOMAIN [s EXCEPT ![i] = e] = DOMAIN s
         /\ Len([s EXCEPT ![i] = e]) = Len(s)
         /\ [s EXCEPT ![i] = e][i] = e /\ \A j \in DOMAIN s \ {i} : [s EXCEPT ![i] = e][j] = s[j]
  OBVIOUS

\* A call is of the kind its operation says.
LEMMA Kinds ==
  ASSUME NEW c \in AnyCall
  PROVE  /\ c.op = "register" => c \in RegisterCall
         /\ c.op = "direct" => c \in DirectCall
         /\ c.op = "request" => c \in RequestCall
         /\ c.op = "advance" => c \in AdvanceCall
         /\ c.op = "erase" => c \in EraseCall
         /\ c.op = "apply" /\ c.pc = "insert" => c \in ApplyCall
         /\ c.op = "apply" /\ c.pc = "generate" => c \in GenerateCall
         /\ c.op = "terminate" => c \in TerminateCall
         /\ c.op = "idle" => c = Idle
  BY DEF AnyCall, RegisterCall, DirectCall, RequestCall, AdvanceCall, EraseCall, ApplyCall,
         GenerateCall, TerminateCall, Idle

\* What a step makes of the call of w.
Now(w, c) ==
  /\ call' \in [Workers -> AnyCall] /\ call'[w] = c
  /\ \A v \in Workers \ {w} : call'[v] = call[v]

LEMMA Starts ==
  ASSUME Served, NEW w \in Workers, NEW c \in AnyCall, Start(w, c)
  PROVE  Now(w, c) /\ call[w] = Idle
  BY DEF Served, Start, Now

LEMMA Returns ==
  ASSUME Served, NEW w \in Workers, Return(w)
  PROVE  Now(w, Idle)
<1>1. Idle \in AnyCall
  BY DEF AnyCall
<1> QED
  BY <1>1 DEF Served, Return, Now

LEMMA Goes ==
  ASSUME Served, NEW w \in Workers, NEW pc, Goto(w, pc),
         \/ call[w].op = "register" /\ pc \in {"insert", "consume", "count", "mark"}
         \/ call[w].op = "advance" /\ pc \in {"reload", "group"}
         \/ call[w].op = "erase" /\ pc = "fyapi"
  PROVE  \E c \in AnyCall :
           /\ Now(w, c) /\ c.op = call[w].op /\ c.pc = pc
           /\ c.op = "register" => c.user = call[w].user /\ c.code = call[w].code /\ c.id = call[w].id
           /\ c.op = "advance" => c.id = call[w].id /\ c.to = call[w].to
           /\ c.op = "erase" => c.id = call[w].id
<1>0. call[w] \in AnyCall
  BY DEF Served
<1>1. PICK c : c = [call[w] EXCEPT !.pc = pc]
  OBVIOUS
<1>2. c \in AnyCall /\ c.op = call[w].op /\ c.pc = pc
      /\ (c.op = "register" => c.user = call[w].user /\ c.code = call[w].code /\ c.id = call[w].id)
      /\ (c.op = "advance" => c.id = call[w].id /\ c.to = call[w].to)
      /\ (c.op = "erase" => c.id = call[w].id)
  <2>1. CASE call[w].op = "register"
    <3>1. call[w] \in RegisterCall
      BY <1>0, <2>1, Kinds
    <3> QED
      BY <1>1, <2>1, <3>1 DEF RegisterCall, AnyCall
  <2>2. CASE call[w].op = "advance"
    <3>1. call[w] \in AdvanceCall
      BY <1>0, <2>2, Kinds
    <3> QED
      BY <1>1, <2>2, <3>1 DEF AdvanceCall, AnyCall
  <2>3. CASE call[w].op = "erase"
    <3>1. call[w] \in EraseCall
      BY <1>0, <2>3, Kinds
    <3> QED
      BY <1>1, <2>3, <3>1 DEF EraseCall, AnyCall
  <2> QED
    BY <2>1, <2>2, <2>3
<1>3. call' = [call EXCEPT ![w] = c]
  BY <1>1 DEF Goto
<1> QED
  BY <1>2, <1>3 DEF Served, Now

-----------------------------------------------------------------------------
(* Steps of one call.                                                      *)

\* Nothing goes: what was named still is.
Grows ==
  /\ store' = store /\ DOMAIN customer \subseteq DOMAIN customer'
  /\ DOMAIN partner \subseteq DOMAIN partner' /\ DOMAIN code \subseteq DOMAIN code'
\* Every call is what it was or names what is there.
Called ==
  /\ call' \in [Workers -> AnyCall]
  /\ \A v \in Workers : call'[v] = call[v] \/ \E c : call'[v] = c /\ Names(c)'

LEMMA RefersOn ==
  ASSUME TypeInv, Shape', Grows, Called,
         \A l \in DOMAIN log' : log'[l].id \in DOMAIN customer',
         \A p \in DOMAIN members' : members'[p] \subseteq DOMAIN customer',
         \A r \in registered' : r.id \in DOMAIN customer',
         unsure' \subseteq DOMAIN customer', uncertain' \subseteq DOMAIN partner'
  PROVE  TypeInv'
<1>1. \A d : Names(d) => Names(d)'
  BY DEF Names, Grows
<1>2. \A v \in Workers : Names(call[v])'
  <2> SUFFICES ASSUME NEW v \in Workers PROVE Names(call[v])'
    OBVIOUS
  <2>1. PICK d : d = call'[v]
    OBVIOUS
  <2>2. Names(d)'
    BY <1>1, <2>1 DEF Called, TypeInv, Refers
  <2> QED
    BY <2>1, <2>2 DEF Names
<1>3. Refers'
  BY <1>2 DEF Refers
<1> QED
  BY <1>3 DEF TypeInv

LEMMA NowCalled ==
  ASSUME NEW w \in Workers, NEW c, Now(w, c), Names(c)'
  PROVE  Called
  BY DEF Now, Called

\* Only the call changes, and the counters of calls.
Kept == UNCHANGED <<store, code, customerVars, partnerVars>>
Counters == calls' \in 0 .. MaxCalls /\ faults' \in 0 .. MaxFaults

LEMMA CountersKept ==
  ASSUME TypeInv, NEW w \in Workers
  PROVE  /\ Return(w) => Counters
         /\ \A pc : Goto(w, pc) => Counters
         /\ \A c : Start(w, c) => Counters
         /\ UNCHANGED callVars => Counters
  BY InvitationAssumption DEF Return, Goto, Start, Counters, TypeInv, Shape, callVars

LEMMA RowsKept == store' = store => CodeRow' = CodeRow
  BY DEF CodeRow, CodeStatus

LEMMA QuietType ==
  ASSUME TypeInv, Kept, NEW w \in Workers, NEW c \in AnyCall, Now(w, c), Names(c), Counters
  PROVE  TypeInv'
<1>1. Shape'
  BY RowsKept DEF TypeInv, Shape, Served, Kept, Now, Counters, customerVars, partnerVars
<1>2. Names(c)'
  BY DEF Names, Kept, customerVars, partnerVars
<1> QED
  BY <1>1, <1>2, RefersOn, NowCalled DEF Grows, TypeInv, Refers, Kept, customerVars, partnerVars

\* The quiet steps of a call: what it is afterwards.
LEMMA QuietSteps ==
  ASSUME TypeInv, NEW w \in Workers
  PROVE  /\ \A u \in Users : RegisterDirect(w, u) => \E c \in DirectCall : Now(w, c) /\ call[w] = Idle
         /\ \A u \in Users, k \in DOMAIN code : Register(w, u, k) =>
              \E c \in RegisterCall : Now(w, c) /\ call[w] = Idle /\ c.pc = "resolve" /\ c.code = k
         /\ \A i \in DOMAIN customer, p, to \in DOMAIN partner : RequestTransfer(w, i, p, to) =>
              \E c \in RequestCall : Now(w, c) /\ call[w] = Idle /\ c.id = i
         /\ \A i \in DOMAIN customer, p \in DOMAIN partner : SubmitErase(w, i, p) =>
              \E c \in EraseCall \cup {Idle} : Now(w, c) /\ call[w] = Idle /\ (c # Idle => c.pc = "mark" /\ c.id = i)
         /\ \A e \in Applicants : Apply(w, e) => \E c \in ApplyCall : Now(w, c) /\ call[w] = Idle
         /\ \A c : Once(w) => Now(w, Idle) /\ call[w] = Idle
<1>0. Served /\ Idle \in AnyCall
  BY DEF TypeInv, Shape, AnyCall
<1>1. ASSUME NEW u \in Users, RegisterDirect(w, u) PROVE \E c \in DirectCall : Now(w, c) /\ call[w] = Idle
  <2>1. PICK c : c = [op |-> "direct", pc |-> "insert", user |-> u]
    OBVIOUS
  <2>2. c \in DirectCall /\ c \in AnyCall
    BY <2>1 DEF DirectCall, AnyCall
  <2> QED
    BY <1>0, <1>1, <2>1, <2>2, Starts DEF RegisterDirect
<1>2. ASSUME NEW u \in Users, NEW k \in DOMAIN code, Register(w, u, k)
      PROVE  \E c \in RegisterCall : Now(w, c) /\ call[w] = Idle /\ c.pc = "resolve" /\ c.code = k
  <2>1. PICK c : c = [op |-> "register", pc |-> "resolve", user |-> u, code |-> k, id |-> 0]
    OBVIOUS
  <2>2. c \in RegisterCall /\ c \in AnyCall /\ c.pc = "resolve" /\ c.code = k
    BY <2>1 DEF RegisterCall, AnyCall, TypeInv, Shape
  <2> QED
    BY <1>0, <1>2, <2>1, <2>2, Starts DEF Register
<1>3. ASSUME NEW i \in DOMAIN customer, NEW p \in DOMAIN partner, NEW to \in DOMAIN partner,
             RequestTransfer(w, i, p, to)
      PROVE  \E c \in RequestCall : Now(w, c) /\ call[w] = Idle /\ c.id = i
  <2>1. PICK c : c = [op |-> "request", pc |-> "insert", id |-> i, to |-> to]
    OBVIOUS
  <2>2. i \in Nat /\ to \in Nat \ {0}
    BY DEF TypeInv, Shape
  <2>3. c \in RequestCall /\ c \in AnyCall /\ c.id = i
    BY <2>1, <2>2 DEF RequestCall, AnyCall
  <2> QED
    BY <1>0, <1>3, <2>1, <2>3, Starts DEF RequestTransfer
<1>4. ASSUME NEW i \in DOMAIN customer, NEW p \in DOMAIN partner, SubmitErase(w, i, p)
      PROVE  \E c \in EraseCall \cup {Idle} : Now(w, c) /\ call[w] = Idle /\ (c # Idle => c.pc = "mark" /\ c.id = i)
  <2>1. PICK c : c = [op |-> "erase", pc |-> "mark", id |-> i]
    OBVIOUS
  <2>2. i \in Nat
    BY DEF TypeInv, Shape
  <2>3. c \in EraseCall /\ c \in AnyCall /\ c.pc = "mark" /\ c.id = i
    BY <2>1, <2>2 DEF EraseCall, AnyCall
  <2>4. Start(w, c) \/ Start(w, Idle)
    BY <1>4, <2>1 DEF SubmitErase, Once
  <2> QED
    BY <1>0, <2>3, <2>4, Starts
<1>5. ASSUME NEW e \in Applicants, Apply(w, e) PROVE \E c \in ApplyCall : Now(w, c) /\ call[w] = Idle
  <2>1. PICK c : c = [op |-> "apply", pc |-> "insert", email |-> e]
    OBVIOUS
  <2>2. c \in ApplyCall /\ c \in AnyCall
    BY <2>1 DEF ApplyCall, AnyCall
  <2> QED
    BY <1>0, <1>5, <2>1, <2>2, Starts DEF Apply
<1>6. Once(w) => Now(w, Idle) /\ call[w] = Idle
  BY <1>0, Starts DEF Once
<1> QED
  BY <1>1, <1>2, <1>3, <1>4, <1>5, <1>6

-----------------------------------------------------------------------------
(* Registrations, transfers and erasures.                                  *)

\* Registrations: the code is looked at, a customer added, the use counted.
Looks(w, c, from, to) ==
  /\ call[w] \in RegisterCall /\ call[w].pc = from /\ Now(w, c)
  /\ c = Idle \/ (c \in RegisterCall /\ c.pc = to /\ c.code = call[w].code /\ c.id = call[w].id)

LEMMA LookSteps ==
  ASSUME TypeInv, NEW w \in Workers, NEW from, NEW to \in {"insert", "count", "mark"},
         Serving(w, "register", from), Goto(w, to) \/ Return(w)
  PROVE  \E c : Looks(w, c, from, to) /\ (Return(w) => c = Idle) /\ (Goto(w, to) => c # Idle)
<1>0. Served /\ call[w] \in AnyCall /\ call[w].op = "register" /\ call[w].pc = from
  BY DEF TypeInv, Shape, Served, Serving
<1>1. call[w] \in RegisterCall /\ call[w] # Idle
  BY <1>0, Kinds DEF Idle
<1>2. CASE Return(w)
  <2>1. Now(w, Idle)
    BY <1>0, <1>2, Returns
  <2>2. ~ Goto(w, to)
    <3>1. CASE Goto(w, to)
      <4>1. PICK c \in AnyCall : Now(w, c) /\ c.op = "register"
        BY <1>0, <3>1, Goes
      <4> QED
        BY <2>1, <4>1 DEF Now, Idle
    <3> QED
      BY <3>1
  <2> QED
    BY <1>0, <1>1, <2>1, <2>2 DEF Looks
<1>3. CASE Goto(w, to)
  <2>1. PICK c \in AnyCall : /\ Now(w, c) /\ c.op = call[w].op /\ c.pc = to
                             /\ c.op = "register" => c.code = call[w].code /\ c.id = call[w].id
    BY <1>0, <1>3, Goes
  <2>2. c \in RegisterCall /\ c # Idle
    BY <1>0, <2>1, Kinds DEF Idle
  <2>3. ~ Return(w)
    BY <1>0, <2>1, <2>2, Returns DEF Now
  <2> QED
    BY <1>0, <1>1, <2>1, <2>2, <2>3 DEF Looks
<1> QED
  BY <1>2, <1>3

Joins == \E row \in CustomerRow : customer' = Append(customer, row)

LEMMA JoinSteps ==
  ASSUME TypeInv, NEW w \in Workers, RegisterInsert(w)
  PROVE  /\ call[w] \in RegisterCall /\ call[w].pc = "insert"
         /\ \/ Now(w, Idle) /\ customer' = customer
            \/ /\ Joins
               /\ \E c \in RegisterCall : /\ Now(w, c) /\ c.pc = "consume" /\ c.code = call[w].code
                                          /\ c.id = Len(customer) + 1
<1>0. /\ Served /\ call[w] \in AnyCall /\ Names(call[w])
      /\ call[w].op = "register" /\ call[w].pc = "insert"
  BY DEF TypeInv, Shape, Served, Refers, RegisterInsert, Serving
<1>1. call[w] \in RegisterCall
  BY <1>0, Kinds
<1>2. CASE Duplicate(call[w].user)
  BY <1>0, <1>1, <1>2, Returns DEF RegisterInsert
<1>3. CASE ~Duplicate(call[w].user)
  <2>1. PICK row : row = [user |-> call[w].user, partner |-> code[call[w].code].partner,
                          status |-> "active", group |-> code[call[w].code].partner]
    OBVIOUS
  <2>2. code[call[w].code] \in CodeRow
    BY <1>0, <1>1 DEF Names, TypeInv, Shape
  <2>3. row \in CustomerRow
    BY <1>1, <2>1, <2>2 DEF CustomerRow, CustomerStatus, CodeRow, RegisterCall
  <2>4. customer' = Append(customer, row)
    BY <1>3, <2>1 DEF RegisterInsert, Insert
  <2>5. PICK c : c = [op |-> "register", pc |-> "consume", user |-> call[w].user, code |-> call[w].code,
                      id |-> Len(customer) + 1]
    OBVIOUS
  <2>6. Len(customer) \in Nat
    BY DEF TypeInv, Shape
  <2>7. c \in RegisterCall /\ c \in AnyCall
    BY <1>1, <2>5, <2>6 DEF RegisterCall, AnyCall
  <2>8. call' = [call EXCEPT ![w] = c]
    <3>1. PICK d : d = [call[w] EXCEPT !.pc = "consume", !.id = Len(customer) + 1]
      OBVIOUS
    <3>2. call' = [call EXCEPT ![w] = d]
      BY <1>0, <1>3, <3>1 DEF RegisterInsert, Served
    <3>3. d = [op |-> "register", pc |-> "consume", user |-> call[w].user, code |-> call[w].code,
               id |-> Len(customer) + 1]
      BY <1>0, <1>1, <3>1 DEF RegisterCall
    <3> QED
      BY <2>5, <3>2, <3>3
  <2>9. Now(w, c)
    BY <1>0, <2>7, <2>8 DEF Now, Served
  <2> QED
    BY <1>0, <1>1, <2>3, <2>4, <2>5, <2>7, <2>9 DEF Joins
<1> QED
  BY <1>2, <1>3

LEMMA DirectSteps ==
  ASSUME TypeInv, NEW w \in Workers, InsertDirect(w)
  PROVE  call[w] \in DirectCall /\ Now(w, Idle) /\ (customer' = customer \/ Joins)
<1>0. Served /\ call[w] \in AnyCall
  BY DEF TypeInv, Shape, Served
<1>1. call[w].op = "direct" /\ call[w] \in DirectCall
  BY <1>0, Kinds DEF InsertDirect, Serving
<1>2. PICK row : row = [user |-> call[w].user, partner |-> 0, status |-> "direct", group |-> 0]
  OBVIOUS
<1>3. row \in CustomerRow
  BY <1>1, <1>2 DEF CustomerRow, CustomerStatus, DirectCall
<1>4. customer' = customer \/ customer' = Append(customer, row)
  BY <1>2 DEF InsertDirect, Insert
<1>5. Now(w, Idle)
  BY <1>0, Returns DEF InsertDirect
<1> QED
  BY <1>1, <1>3, <1>4, <1>5 DEF Joins

\* The end of a registration counts the code.
Credits(w) == registered' = registered \cup {[id |-> call[w].id, code |-> call[w].code]}
Used(w, c) ==
  \/ c = Idle /\ UNCHANGED <<code, registered>>
  \/ /\ MayIncrement(call[w].code) /\ IncUsedCount(call[w].code)
     /\ IF c = Idle THEN Credits(w) ELSE registered' = registered

LEMMA CountSteps ==
  ASSUME TypeInv, NEW w \in Workers, Count(w)
  PROVE  \E c : Looks(w, c, "count", "mark") /\ Used(w, c)
<1>1. Serving(w, "register", "count") /\ (Goto(w, "mark") \/ Return(w))
  BY DEF Count, Done
<1>2. PICK c : /\ Looks(w, c, "count", "mark")
               /\ Return(w) => c = Idle
               /\ Goto(w, "mark") => c # Idle
  BY <1>1, LookSteps
<1>3. Used(w, c)
  BY <1>2 DEF Count, Done, Used, Credits
<1> QED
  BY <1>2, <1>3

LEMMA MarkSteps ==
  ASSUME TypeInv, NEW w \in Workers, MarkUsedUp(w)
  PROVE  /\ call[w] \in RegisterCall /\ call[w].pc = "mark" /\ Now(w, Idle)
         /\ \/ UNCHANGED <<code, registered>>
            \/ MayMarkUsedUp /\ SetStatus(call[w].code, "used_up") /\ Credits(w)
<1>0. Served /\ call[w] \in AnyCall
  BY DEF TypeInv, Shape, Served
<1>1. call[w].op = "register" /\ call[w].pc = "mark" /\ Return(w)
  BY DEF MarkUsedUp, Serving, Done
<1>2. call[w] \in RegisterCall /\ Now(w, Idle)
  BY <1>0, <1>1, Kinds, Returns
<1> QED
  BY <1>1, <1>2 DEF MarkUsedUp, Done, Credits

\* Transfers and erasures.
Advances(w, l, status) ==
  /\ l \in DOMAIN log /\ status \in LogStatus /\ UpdateChangeLog(l, status)
  /\ log[l].status \in {"completed", "rejected"} => status = log[l].status

LEMMA AdvanceSteps ==
  ASSUME TypeInv, NEW w \in Workers, NEW l \in DOMAIN log, NEW stage \in Stages, Advance(w, l, stage)
  PROVE  /\ call[w] = Idle
         /\ \E c \in AdvanceCall \cup {Idle}, status \in LogStatus :
              /\ Now(w, c) /\ Advances(w, l, status)
              /\ c # Idle <=> status = "completed"
              /\ c # Idle => c.pc = "apply" /\ c.id = log[l].id /\ c.to = log[l].to
<1>0. Served /\ Idle \in AnyCall
  BY DEF TypeInv, Shape, AnyCall
<1>1. PICK status : status = IF log[l].status \in {"completed", "rejected"} THEN log[l].status ELSE stage
  OBVIOUS
<1>2. status \in LogStatus /\ Advances(w, l, status)
  BY <1>1, CustomerAssumption DEF Advance, Advances, LogStatus
<1>3. PICK c : c = [op |-> "advance", pc |-> "apply", id |-> log[l].id, to |-> log[l].to]
  OBVIOUS
<1>4. c \in AdvanceCall /\ c \in AnyCall /\ c # Idle /\ c.pc = "apply" /\ c.id = log[l].id /\ c.to = log[l].to
  <2>1. log[l] \in LogRow
    <3>1. log \in Seq(LogRow)
      BY DEF TypeInv, Shape
    <3> HIDE DEF LogRow
    <3> QED
      BY <3>1
  <2>2. log[l].id \in Nat /\ log[l].to \in Nat \ {0}
    BY <2>1 DEF LogRow
  <2> QED
    BY <1>3, <2>2 DEF AdvanceCall, AnyCall, Idle
<1>5. IF status = "completed" THEN Start(w, c) ELSE Start(w, Idle)
  BY <1>1, <1>3 DEF Advance, Once
<1>6. CASE status = "completed"
  BY <1>0, <1>2, <1>4, <1>5, <1>6, Starts
<1>7. CASE status # "completed"
  BY <1>0, <1>2, <1>5, <1>7, Starts
<1> QED
  BY <1>6, <1>7

Transfers(i, to) ==
  customer' = [customer EXCEPT ![i] = [customer[i] EXCEPT !.partner = to, !.group = to, !.status = "active"]]
Deletes(i) == customer' = [customer EXCEPT ![i] = [customer[i] EXCEPT !.status = "deleted"]]

\* An advance goes from the apply to the reload, and to the group.
Proceeds(w, from, to) ==
  /\ call[w] \in AdvanceCall /\ call[w].pc = from
  /\ \E c \in AdvanceCall : Now(w, c) /\ c.pc = to /\ c.id = call[w].id /\ c.to = call[w].to

LEMMA ProceedSteps ==
  ASSUME TypeInv, NEW w \in Workers, NEW from, NEW to \in {"reload", "group"},
         Serving(w, "advance", from), Goto(w, to)
  PROVE  Proceeds(w, from, to)
<1>0. Served /\ call[w] \in AnyCall /\ call[w].op = "advance" /\ call[w].pc = from
  BY DEF TypeInv, Shape, Served, Serving
<1>1. PICK c \in AnyCall : /\ Now(w, c) /\ c.op = "advance" /\ c.pc = to
                           /\ c.id = call[w].id /\ c.to = call[w].to
  BY <1>0, Goes
<1> QED
  BY <1>0, <1>1, Kinds DEF Proceeds

LEMMA EraseSteps ==
  ASSUME TypeInv, NEW w \in Workers, MarkDeleted(w)
  PROVE  /\ call[w] \in EraseCall /\ Deletes(call[w].id)
         /\ \E c \in EraseCall : Now(w, c) /\ c.pc = "fyapi" /\ c.id = call[w].id
<1>0. Served /\ call[w] \in AnyCall /\ call[w].op = "erase" /\ Goto(w, "fyapi")
  BY DEF TypeInv, Shape, Served, MarkDeleted, Serving
<1>1. PICK c \in AnyCall : Now(w, c) /\ c.op = "erase" /\ c.pc = "fyapi" /\ c.id = call[w].id
  BY <1>0, Goes
<1>2. Deletes(call[w].id)
  BY DEF MarkDeleted, Update, Deletes
<1> QED
  BY <1>0, <1>1, <1>2, Kinds

\* Calls that end.
LEMMA EndSteps ==
  ASSUME TypeInv, NEW w \in Workers, NEW op, NEW pc, Serving(w, op, pc), Return(w)
  PROVE  Now(w, Idle) /\ call[w].op = op /\ call[w].pc = pc /\ call[w] \in AnyCall /\ Names(call[w])
  BY Returns DEF TypeInv, Shape, Served, Serving, Refers

-----------------------------------------------------------------------------
(* Rows that keep their types.                                             *)

LEMMA IdleNames == Idle \in AnyCall /\ Names(Idle) /\ Names(Idle)'
  BY DEF Idle, AnyCall, Names

\* Customers are added.
LEMMA JoinType ==
  ASSUME TypeInv, Called, Counters, customer' = customer \/ Joins,
         UNCHANGED <<store, code, log, fyGroup, erased, registered, unsure, partnerVars>>
  PROVE  TypeInv'
<1>1. CASE customer' = customer
  <2>1. Shape'
    BY <1>1, RowsKept DEF TypeInv, Shape, Served, Called, Counters, partnerVars
  <2> QED
    BY <1>1, <2>1, RefersOn DEF TypeInv, Refers, Grows, partnerVars
<1>2. ASSUME NEW row \in CustomerRow, customer' = Append(customer, row) PROVE TypeInv'
  <2>1. customer' \in Seq(CustomerRow) /\ DOMAIN customer \subseteq DOMAIN customer'
    <3>1. customer \in Seq(CustomerRow)
      BY DEF TypeInv, Shape
    <3> QED
      BY <1>2, <3>1, Appended
  <2>2. Shape'
    BY <2>1, RowsKept DEF TypeInv, Shape, Served, Called, Counters, partnerVars
  <2> QED
    BY <2>1, <2>2, RefersOn DEF TypeInv, Refers, Grows, partnerVars
<1> QED
  BY <1>1, <1>2 DEF Joins

\* Codes are added or counted, and registrations reported.
LEMMA CodeType ==
  ASSUME TypeInv, Called, Counters,
         DOMAIN code \subseteq DOMAIN code', DOMAIN code' \subseteq Codes,
         code' \in [DOMAIN code' -> CodeRow'],
         \A r \in registered' : r \in registered \/ (r \in [id : Nat, code : Codes] /\ r.id \in DOMAIN customer),
         UNCHANGED <<store, customer, log, fyGroup, erased, unsure, partnerVars>>
  PROVE  TypeInv'
<1>1. Shape'
  BY DEF TypeInv, Shape, Served, Called, Counters, partnerVars
<1> QED
  BY <1>1, RefersOn DEF TypeInv, Refers, Grows, partnerVars

\* Customers and logs are updated.
LEMMA RowType ==
  ASSUME TypeInv, Called, Counters,
         customer' \in Seq(CustomerRow), DOMAIN customer' = DOMAIN customer,
         log' \in Seq(LogRow), \A l \in DOMAIN log' : log'[l].id \in DOMAIN customer,
         fyGroup' \in [Users -> Nat], erased' \subseteq Users, unsure' \subseteq DOMAIN customer,
         UNCHANGED <<store, code, registered, partnerVars>>
  PROVE  TypeInv'
<1>1. Shape'
  BY RowsKept DEF TypeInv, Shape, Served, Called, Counters, partnerVars
<1> QED
  BY <1>1, RefersOn DEF TypeInv, Refers, Grows, partnerVars

\* Partners are added and updated, and their members taken down.
LEMMA PartnerType ==
  ASSUME TypeInv, Called, Counters,
         partner' \in Seq(PartnerRow), DOMAIN partner \subseteq DOMAIN partner',
         members' \in Seq(SUBSET Nat), Len(members') = Len(partner'),
         \A p \in DOMAIN members' : members'[p] \subseteq DOMAIN customer,
         uncertain' \subseteq DOMAIN partner,
         UNCHANGED <<store, code, customerVars>>
  PROVE  TypeInv'
<1>1. Shape'
  BY RowsKept DEF TypeInv, Shape, Served, Called, Counters, customerVars
<1> QED
  BY <1>1, RefersOn DEF TypeInv, Refers, Grows, customerVars

-----------------------------------------------------------------------------
\* What Generate, IncUsedCount and SetStatus make of the codes.
LEMMA CodeRows ==
  ASSUME TypeInv, store' = store
  PROVE  /\ code \in [DOMAIN code -> CodeRow] /\ CodeRow' = CodeRow /\ DOMAIN code \subseteq Codes
         /\ \A k \in DOMAIN code : code[k] \in CodeRow
  BY RowsKept DEF TypeInv, Shape

\* Of a code its use, status or date changes.
SameCode(k) == code'[k].partner = code[k].partner /\ code'[k].limit = code[k].limit
LEMMA Counting ==
  ASSUME TypeInv, store' = store, NEW k \in DOMAIN code, IncUsedCount(k)
  PROVE  /\ DOMAIN code' = DOMAIN code /\ code' \in [DOMAIN code' -> CodeRow']
         /\ SameCode(k) /\ code'[k].used = code[k].used + 1
         /\ \A d \in DOMAIN code \ {k} : code'[d] = code[d]
<1>1. PICK row : row = [code[k] EXCEPT !.used = @ + 1]
  OBVIOUS
<1>2. code[k] \in CodeRow
  BY CodeRows
<1>3. row \in CodeRow /\ row.partner = code[k].partner /\ row.limit = code[k].limit /\ row.used = code[k].used + 1
  BY <1>1, <1>2 DEF CodeRow
<1>4. code' = [code EXCEPT ![k] = row]
  BY <1>1 DEF IncUsedCount
<1> HIDE DEF CodeRow
<1> QED
  BY <1>3, <1>4, CodeRows DEF SameCode

LEMMA Marking ==
  ASSUME TypeInv, store' = store, NEW k \in DOMAIN code, NEW status \in CodeStatus, SetStatus(k, status)
  PROVE  /\ DOMAIN code' = DOMAIN code /\ code' \in [DOMAIN code' -> CodeRow']
         /\ SameCode(k) /\ code'[k].used = code[k].used
         /\ \A d \in DOMAIN code \ {k} : code'[d] = code[d]
<1>1. PICK row : row = [code[k] EXCEPT !.status = status]
  OBVIOUS
<1>2. code[k] \in CodeRow
  BY CodeRows
<1>3. row \in CodeRow /\ row.partner = code[k].partner /\ row.limit = code[k].limit /\ row.used = code[k].used
  BY <1>1, <1>2 DEF CodeRow
<1>4. code' = [code EXCEPT ![k] = row]
  BY <1>1 DEF SetStatus
<1> HIDE DEF CodeRow
<1> QED
  BY <1>3, <1>4, CodeRows DEF SameCode

LEMMA Expiring ==
  ASSUME TypeInv, store' = store, NEW k \in DOMAIN code, Expire(k)
  PROVE  /\ DOMAIN code' = DOMAIN code /\ code' \in [DOMAIN code' -> CodeRow']
         /\ SameCode(k) /\ code'[k].used = code[k].used
         /\ \A d \in DOMAIN code \ {k} : code'[d] = code[d]
<1>1. PICK row : row = [code[k] EXCEPT !.expires = "past"]
  OBVIOUS
<1>2. code[k] \in CodeRow
  BY CodeRows
<1>3. row \in CodeRow /\ row.partner = code[k].partner /\ row.limit = code[k].limit /\ row.used = code[k].used
  BY <1>1, <1>2 DEF CodeRow
<1>4. code' = [code EXCEPT ![k] = row]
  BY <1>1 DEF Expire
<1> HIDE DEF CodeRow
<1> QED
  BY <1>3, <1>4, CodeRows DEF SameCode

LEMMA Generating ==
  ASSUME TypeInv, store' = store, NEW p \in DOMAIN partner, NEW limit \in Nat, Generate(p, limit)
  PROVE  \E k \in Codes \ DOMAIN code :
           /\ DOMAIN code' = DOMAIN code \cup {k} /\ code' \in [DOMAIN code' -> CodeRow']
           /\ code'[k].partner = p /\ code'[k].limit = limit /\ code'[k].used = 0
           /\ \A d \in DOMAIN code : code'[d] = code[d]
<1>1. PICK row : row = [partner |-> p, limit |-> limit, used |-> 0, status |-> "active",
                        expires |-> IF limit = 0 THEN "never" ELSE "later"]
  OBVIOUS
<1>2. p \in Nat \ {0}
  BY DEF TypeInv, Shape
<1>3. row \in CodeRow /\ row.partner = p /\ row.limit = limit /\ row.used = 0
  BY <1>1, <1>2 DEF CodeRow, CodeStatus
<1>4. PICK k \in Codes \ DOMAIN code :
        code' = [d \in DOMAIN code \cup {k} |-> IF d = k THEN row ELSE code[d]]
  BY <1>1 DEF Generate
<1> HIDE DEF CodeRow
<1> QED
  BY <1>3, <1>4, CodeRows

-----------------------------------------------------------------------------
(* Every step keeps the types.                                             *)

\* Calls that begin, and steps of theirs that change nothing else.
Quiet(w) ==
  \/ \E u \in Users : RegisterDirect(w, u) \/ \E k \in DOMAIN code : Register(w, u, k)
  \/ RegisterResolve(w) \/ Consume(w) \/ Reload(w)
  \/ \E i \in DOMAIN customer, p \in DOMAIN partner :
        SubmitErase(w, i, p) \/ \E to \in DOMAIN partner : RequestTransfer(w, i, p, to)

LEMMA QuietCalls ==
  ASSUME TypeInv, NEW w \in Workers, store' = store, UNCHANGED partnerVars, Quiet(w)
  PROVE  Kept /\ Counters /\ \E c \in AnyCall : Now(w, c) /\ Names(c)
<1>0. Kept
  BY DEF Quiet, Kept, RegisterDirect, Register, RegisterResolve, Consume, Reload, SubmitErase, RequestTransfer
<1>1. ASSUME NEW u \in Users, RegisterDirect(w, u)
      PROVE  Counters /\ \E c \in AnyCall : Now(w, c) /\ Names(c)
  <2>1. PICK c \in DirectCall : Now(w, c)
    BY <1>1, QuietSteps
  <2>2. Names(c) /\ c \in AnyCall
    BY <2>1 DEF DirectCall, Names, AnyCall
  <2>3. Counters
    BY <1>1, CountersKept DEF RegisterDirect
  <2> QED
    BY <2>1, <2>2, <2>3
<1>2. ASSUME NEW u \in Users, NEW k \in DOMAIN code, Register(w, u, k)
      PROVE  Counters /\ \E c \in AnyCall : Now(w, c) /\ Names(c)
  <2>1. PICK c \in RegisterCall : Now(w, c) /\ c.pc = "resolve" /\ c.code = k
    BY <1>2, QuietSteps
  <2>2. Names(c) /\ c \in AnyCall
    BY <2>1 DEF RegisterCall, Names, AnyCall
  <2>3. Counters
    BY <1>2, CountersKept DEF Register
  <2> QED
    BY <2>1, <2>2, <2>3
<1>3. ASSUME RegisterResolve(w) PROVE Counters /\ \E c \in AnyCall : Now(w, c) /\ Names(c)
  <2>0. Goto(w, "insert") \/ Return(w)
    BY <1>3 DEF RegisterResolve
  <2>1. PICK c : Looks(w, c, "resolve", "insert")
    BY <1>3, <2>0, LookSteps DEF RegisterResolve
  <2>2. Names(c) /\ c \in AnyCall
    <3>1. CASE c = Idle
      BY <3>1, IdleNames
    <3>2. CASE c # Idle
      BY <2>1, <3>2 DEF Looks, RegisterCall, Names, AnyCall, TypeInv, Refers
    <3> QED
      BY <3>1, <3>2
  <2>3. Counters
    BY <2>0, CountersKept
  <2> QED
    BY <2>1, <2>2, <2>3 DEF Looks
<1>4. ASSUME Consume(w) PROVE Counters /\ \E c \in AnyCall : Now(w, c) /\ Names(c)
  <2>0. Goto(w, "count") \/ Return(w)
    BY <1>4 DEF Consume
  <2>1. PICK c : Looks(w, c, "consume", "count")
    BY <1>4, <2>0, LookSteps DEF Consume
  <2>2. Names(c) /\ c \in AnyCall
    <3>1. CASE c = Idle
      BY <3>1, IdleNames
    <3>2. CASE c # Idle
      BY <2>1, <3>2 DEF Looks, RegisterCall, Names, AnyCall, TypeInv, Refers
    <3> QED
      BY <3>1, <3>2
  <2>3. Counters
    BY <2>0, CountersKept
  <2> QED
    BY <2>1, <2>2, <2>3 DEF Looks
<1>5. ASSUME Reload(w) PROVE Counters /\ \E c \in AnyCall : Now(w, c) /\ Names(c)
  <2>0. Serving(w, "advance", "reload") /\ (Goto(w, "group") \/ Return(w))
    BY <1>5 DEF Reload
  <2>1. Counters
    BY <2>0, CountersKept
  <2>2. CASE Goto(w, "group")
    <3>1. PICK c \in AdvanceCall : Now(w, c) /\ c.id = call[w].id /\ call[w] \in AdvanceCall
      BY <2>0, <2>2, ProceedSteps DEF Proceeds
    <3>2. Names(c) /\ c \in AnyCall
      BY <3>1 DEF AdvanceCall, Names, AnyCall, TypeInv, Refers
    <3> QED
      BY <2>1, <3>1, <3>2
  <2>3. CASE Return(w)
    BY <2>0, <2>1, <2>3, EndSteps, IdleNames
  <2> QED
    BY <2>0, <2>2, <2>3
<1>6. ASSUME NEW i \in DOMAIN customer, NEW p \in DOMAIN partner, SubmitErase(w, i, p)
      PROVE  Counters /\ \E c \in AnyCall : Now(w, c) /\ Names(c)
  <2>1. PICK c \in EraseCall \cup {Idle} : Now(w, c) /\ (c # Idle => c.id = i)
    BY <1>6, QuietSteps
  <2>2. Names(c) /\ c \in AnyCall
    <3>1. CASE c = Idle
      BY <3>1, IdleNames
    <3>2. CASE c # Idle
      BY <2>1, <3>2 DEF EraseCall, Names, AnyCall
    <3> QED
      BY <3>1, <3>2
  <2>3. Counters
    BY <1>6, CountersKept DEF SubmitErase, Once
  <2> QED
    BY <2>1, <2>2, <2>3
<1>7. ASSUME NEW i \in DOMAIN customer, NEW p \in DOMAIN partner, NEW to \in DOMAIN partner,
             RequestTransfer(w, i, p, to)
      PROVE  Counters /\ \E c \in AnyCall : Now(w, c) /\ Names(c)
  <2>1. PICK c \in RequestCall : Now(w, c) /\ c.id = i
    BY <1>7, QuietSteps
  <2>2. Names(c) /\ c \in AnyCall
    BY <2>1 DEF RequestCall, Names, AnyCall
  <2>3. Counters
    BY <1>7, CountersKept DEF RequestTransfer
  <2> QED
    BY <2>1, <2>2, <2>3
<1> QED
  BY <1>0, <1>1, <1>2, <1>3, <1>4, <1>5, <1>6, <1>7 DEF Quiet

LEMMA QuietStepType ==
  ASSUME TypeInv, NEW w \in Workers, store' = store, UNCHANGED partnerVars, Quiet(w)
  PROVE  TypeInv' /\ Kept
  BY QuietCalls, QuietType

-----------------------------------------------------------------------------
\* A call that returns.
LEMMA EndCalled ==
  ASSUME TypeInv, NEW w \in Workers, Now(w, Idle)
  PROVE  Called
  BY IdleNames, NowCalled

LEMMA JoinStepType ==
  ASSUME TypeInv, NEW w \in Workers, UNCHANGED <<store, partnerVars>>,
         RegisterInsert(w) \/ InsertDirect(w)
  PROVE  TypeInv'
<1>1. CASE InsertDirect(w)
  <2>1. Called
    BY <1>1, DirectSteps, EndCalled
  <2>2. Counters
    BY <1>1, CountersKept DEF InsertDirect
  <2> QED
    BY <1>1, <2>1, <2>2, DirectSteps, JoinType DEF InsertDirect
<1>2. CASE RegisterInsert(w)
  <2>1. Counters
    <3>1. Return(w) \/ UNCHANGED <<calls, faults>>
      BY <1>2 DEF RegisterInsert
    <3> QED
      BY <3>1, CountersKept DEF Counters, TypeInv, Shape
  <2>2. Called /\ (customer' = customer \/ Joins)
    <3>1. CASE Now(w, Idle) /\ customer' = customer
      BY <3>1, EndCalled
    <3>2. ASSUME Joins, NEW c \in RegisterCall, Now(w, c), c.pc = "consume", c.code = call[w].code,
                 c.id = Len(customer) + 1
          PROVE  Called
      <4>1. c.code \in DOMAIN code'
        <5>1. call[w].op = "register" /\ code' = code
          BY <1>2 DEF RegisterInsert, Serving
        <5> QED
          BY <3>2, <5>1 DEF TypeInv, Refers, Names
      <4>2. c.id \in DOMAIN customer'
        <5>1. customer \in Seq(CustomerRow)
          BY DEF TypeInv, Shape
        <5> QED
          BY <3>2, <5>1, Appended DEF Joins
      <4>3. Names(c)'
        BY <4>1, <4>2 DEF Names, RegisterCall
      <4> QED
        BY <3>2, <4>3, NowCalled
    <3> QED
      BY <1>2, <3>1, <3>2, JoinSteps
  <2> QED
    BY <1>2, <2>1, <2>2, JoinType DEF RegisterInsert
<1> QED
  BY <1>1, <1>2

\* The code a registration counts.
LEMMA RegisterCode ==
  ASSUME TypeInv, NEW w \in Workers, call[w] \in RegisterCall
  PROVE  /\ call[w].code \in DOMAIN code /\ call[w].code \in Codes /\ call[w] # Idle
         /\ call[w].pc \in {"consume", "count", "mark"} =>
              call[w].id \in DOMAIN customer
              /\ [id |-> call[w].id, code |-> call[w].code] \in [id : Nat, code : Codes]
<1>1. call[w].op = "register" /\ Names(call[w]) /\ DOMAIN code \subseteq Codes
  BY DEF RegisterCall, TypeInv, Refers, Shape
<1>2. call[w].id \in Nat /\ call[w].code \in DOMAIN code /\ call[w] # Idle
  BY <1>1 DEF RegisterCall, Names, Idle
<1> QED
  BY <1>1, <1>2 DEF Names

LEMMA RegisteredStill ==
  ASSUME TypeInv, NEW w \in Workers, call[w] \in RegisterCall, call[w].pc \in {"count", "mark"},
         registered' = registered \/ Credits(w)
  PROVE  \A r \in registered' : r \in registered \/ (r \in [id : Nat, code : Codes] /\ r.id \in DOMAIN customer)
BY RegisterCode DEF Credits

LEMMA CountType ==
  ASSUME TypeInv, NEW w \in Workers, UNCHANGED <<store, partnerVars>>, Count(w)
  PROVE  TypeInv'
<1>1. PICK c : Looks(w, c, "count", "mark") /\ Used(w, c)
  BY CountSteps
<1>2. call[w] \in RegisterCall /\ call[w].pc = "count" /\ Now(w, c)
  BY <1>1 DEF Looks
<1>3. /\ DOMAIN code' = DOMAIN code /\ code' \in [DOMAIN code' -> CodeRow']
      /\ registered' = registered \/ Credits(w)
  BY <1>1, <1>2, CodeRows, Counting, RegisterCode DEF Used
<1>4. Called
  <2>1. CASE c = Idle
    BY <1>2, <2>1, EndCalled
  <2>2. CASE c # Idle
    <3>1. c \in RegisterCall /\ c.code \in DOMAIN code' /\ c.id \in DOMAIN customer'
      BY <1>1, <1>2, <1>3, <2>2, RegisterCode DEF Looks, Count
    <3>2. Names(c)'
      BY <3>1 DEF Names, RegisterCall
    <3> QED
      BY <1>2, <3>2, NowCalled
  <2> QED
    BY <2>1, <2>2
<1>5. Counters
  <2>1. Return(w) \/ Goto(w, "mark")
    BY DEF Count, Done
  <2> QED
    BY <2>1, CountersKept
<1>6. DOMAIN code' \subseteq Codes
  BY <1>3 DEF TypeInv, Shape
<1>7. \A r \in registered' : r \in registered \/ (r \in [id : Nat, code : Codes] /\ r.id \in DOMAIN customer)
  BY <1>2, <1>3, RegisteredStill
<1> QED
  BY <1>3, <1>4, <1>5, <1>6, <1>7, CodeType DEF Count

LEMMA MarkType ==
  ASSUME TypeInv, NEW w \in Workers, UNCHANGED <<store, partnerVars>>, MarkUsedUp(w)
  PROVE  TypeInv'
<1>1. /\ call[w] \in RegisterCall /\ call[w].pc = "mark" /\ Now(w, Idle)
      /\ \/ UNCHANGED <<code, registered>>
         \/ MayMarkUsedUp /\ SetStatus(call[w].code, "used_up") /\ Credits(w)
  BY MarkSteps
<1>2. /\ DOMAIN code' = DOMAIN code /\ code' \in [DOMAIN code' -> CodeRow']
      /\ registered' = registered \/ Credits(w)
  BY <1>1, CodeRows, Marking, RegisterCode DEF MayMarkUsedUp
<1>3. Called /\ Counters
  <2>1. Return(w)
    BY DEF MarkUsedUp, Done
  <2> QED
    BY <1>1, <2>1, EndCalled, CountersKept
<1>4. DOMAIN code' \subseteq Codes
  BY <1>2 DEF TypeInv, Shape
<1>5. \A r \in registered' : r \in registered \/ (r \in [id : Nat, code : Codes] /\ r.id \in DOMAIN customer)
  BY <1>1, <1>2, RegisteredStill
<1> QED
  BY <1>2, <1>3, <1>4, <1>5, CodeType DEF MarkUsedUp

\* Codes are issued.
LEMMA IssueType ==
  ASSUME TypeInv, NEW w \in Workers, UNCHANGED <<store, customerVars, partnerVars>>, Now(w, Idle), Counters,
         NEW p \in DOMAIN partner, NEW limit \in Nat, Generate(p, limit)
  PROVE  TypeInv'
<1>1. PICK k \in Codes \ DOMAIN code :
        DOMAIN code' = DOMAIN code \cup {k} /\ code' \in [DOMAIN code' -> CodeRow']
  BY Generating
<1>2. DOMAIN code \subseteq DOMAIN code' /\ DOMAIN code' \subseteq Codes
  BY <1>1 DEF TypeInv, Shape
<1>3. \A r \in registered' : r \in registered
  BY DEF customerVars
<1> QED
  BY <1>1, <1>2, <1>3, EndCalled, CodeType DEF customerVars

LEMMA GenerateType ==
  ASSUME TypeInv, NEW w \in Workers, UNCHANGED <<store, customerVars>>,
         ApplyGenerate(w) \/ \E p \in DOMAIN partner, limit \in Limits : GenerateWith(w, p, limit)
  PROVE  TypeInv'
<1>1. ASSUME NEW p \in DOMAIN partner, NEW limit \in Limits, GenerateWith(w, p, limit) PROVE TypeInv'
  <2>1. Now(w, Idle) /\ Counters
    BY <1>1, QuietSteps, CountersKept DEF GenerateWith, Once
  <2>2. limit \in Nat
    BY InvitationAssumption
  <2> QED
    BY <1>1, <2>1, <2>2, IssueType DEF GenerateWith
<1>2. CASE ApplyGenerate(w)
  <2>1. Now(w, Idle) /\ Counters /\ call[w].op = "apply" /\ call[w].pc = "generate" /\ Names(call[w])
    BY <1>2, EndSteps, CountersKept DEF ApplyGenerate
  <2>2. call[w].partner \in DOMAIN partner
    BY <2>1 DEF Names
  <2> QED
    BY <1>2, <2>1, <2>2, IssueType DEF ApplyGenerate
<1> QED
  BY <1>1, <1>2

LEMMA CodeStepType ==
  ASSUME TypeInv, UNCHANGED <<store, customerVars, partnerVars>>, NEW k \in DOMAIN code,
         Expire(k) \/ \E w \in Workers : Revoke(w, k)
  PROVE  TypeInv'
<1>1. /\ DOMAIN code' = DOMAIN code /\ code' \in [DOMAIN code' -> CodeRow']
  BY Marking, Expiring DEF Revoke, CodeStatus
<1>2. Called /\ Counters
  <2>1. CASE Expire(k)
    BY <2>1, CountersKept DEF Expire, Called, TypeInv, Shape, Served, Counters, callVars
  <2>2. ASSUME NEW w \in Workers, Revoke(w, k) PROVE Called /\ Counters
    BY <2>2, QuietSteps, EndCalled, CountersKept DEF Revoke, Once
  <2> QED
    BY <2>1, <2>2
<1>3. DOMAIN code' \subseteq Codes
  BY <1>1 DEF TypeInv, Shape
<1>4. \A r \in registered' : r \in registered
  BY DEF customerVars
<1> QED
  BY <1>1, <1>2, <1>3, <1>4, CodeType DEF customerVars

LEMMA Rows ==
  ASSUME TypeInv
  PROVE  /\ customer \in Seq(CustomerRow) /\ log \in Seq(LogRow)
         /\ \A i \in DOMAIN customer : customer[i] \in CustomerRow
         /\ \A l \in DOMAIN log : log[l] \in LogRow /\ log[l].id \in DOMAIN customer
         /\ DOMAIN customer \subseteq Nat
<1>1. customer \in Seq(CustomerRow) /\ log \in Seq(LogRow)
  BY DEF TypeInv, Shape
<1>2. \A l \in DOMAIN log : log[l].id \in DOMAIN customer
  BY DEF TypeInv, Refers
<1> HIDE DEF CustomerRow, LogRow
<1> QED
  BY <1>1, <1>2

\* What an update makes of the row of i.
Updated(i, row) ==
  /\ customer' \in Seq(CustomerRow) /\ DOMAIN customer' = DOMAIN customer
  /\ customer'[i] = row /\ \A j \in DOMAIN customer \ {i} : customer'[j] = customer[j]

LEMMA Updating ==
  ASSUME TypeInv, NEW i \in DOMAIN customer, NEW row \in CustomerRow, customer' = [customer EXCEPT ![i] = row]
  PROVE  Updated(i, row)
<1> HIDE DEF CustomerRow
<1> QED
  BY Rows, Changed DEF Updated

LEMMA Transferring ==
  ASSUME TypeInv, NEW i \in DOMAIN customer, NEW to \in Nat, Transfers(i, to)
  PROVE  \E row \in CustomerRow :
           /\ Updated(i, row) /\ row.user = customer[i].user
           /\ row.partner = to /\ row.group = to /\ row.status = "active"
<1>1. PICK row : row = [customer[i] EXCEPT !.partner = to, !.group = to, !.status = "active"]
  OBVIOUS
<1>2. customer[i] \in CustomerRow
  BY Rows
<1>3. row \in CustomerRow /\ row.user = customer[i].user /\ row.partner = to /\ row.group = to /\ row.status = "active"
  BY <1>1, <1>2 DEF CustomerRow, CustomerStatus
<1>4. customer' = [customer EXCEPT ![i] = row]
  BY <1>1 DEF Transfers
<1> QED
  BY <1>3, <1>4, Updating

LEMMA Deleting ==
  ASSUME TypeInv, NEW i \in DOMAIN customer, Deletes(i)
  PROVE  \E row \in CustomerRow :
           /\ Updated(i, row) /\ row.user = customer[i].user
           /\ row.partner = customer[i].partner /\ row.group = customer[i].group /\ row.status = "deleted"
<1>1. PICK row : row = [customer[i] EXCEPT !.status = "deleted"]
  OBVIOUS
<1>2. customer[i] \in CustomerRow
  BY Rows
<1>3. row \in CustomerRow /\ row.user = customer[i].user /\ row.partner = customer[i].partner
      /\ row.group = customer[i].group /\ row.status = "deleted"
  BY <1>1, <1>2 DEF CustomerRow, CustomerStatus
<1>4. customer' = [customer EXCEPT ![i] = row]
  BY <1>1 DEF Deletes
<1> QED
  BY <1>3, <1>4, Updating

LEMMA Orphaning ==
  ASSUME TypeInv, NEW p, OrphanByPartner(p)
  PROVE  /\ customer' \in Seq(CustomerRow) /\ DOMAIN customer' = DOMAIN customer
         /\ \A i \in DOMAIN customer :
              /\ customer'[i].user = customer[i].user /\ customer'[i].partner = customer[i].partner
              /\ customer'[i].group = customer[i].group
              /\ \/ customer'[i].status = customer[i].status
                 \/ customer[i].status = "active" /\ customer'[i].status = "orphaned"
              /\ OfPartner(i, p) => customer'[i].status # "active"
              /\ ~OfPartner(i, p) => customer'[i] = customer[i]
<1>1. customer \in Seq(CustomerRow) /\ \A i \in DOMAIN customer : customer[i] \in CustomerRow
  BY Rows
<1>2. PICK f : f = [i \in DOMAIN customer |-> [customer[i] EXCEPT !.status = "orphaned"]]
  OBVIOUS
<1>3. \A i \in DOMAIN customer :
        /\ f[i] \in CustomerRow
        /\ f[i].user = customer[i].user /\ f[i].partner = customer[i].partner
        /\ f[i].group = customer[i].group /\ f[i].status = "orphaned"
  BY <1>1, <1>2 DEF CustomerRow, CustomerStatus
<1>4. customer' = [i \in DOMAIN customer |->
        IF OfPartner(i, p) /\ customer[i].status = "active" THEN f[i] ELSE customer[i]]
  BY <1>2 DEF OrphanByPartner
<1>5. DOMAIN customer' = DOMAIN customer /\ \A i \in DOMAIN customer :
        customer'[i] = IF OfPartner(i, p) /\ customer[i].status = "active" THEN f[i] ELSE customer[i]
  BY <1>4
<1>6. customer' \in Seq(CustomerRow)
  <2> HIDE DEF CustomerRow
  <2> QED
    BY <1>1, <1>3, <1>4
<1> DEFINE Fits(i) ==
      /\ customer'[i].user = customer[i].user /\ customer'[i].partner = customer[i].partner
      /\ customer'[i].group = customer[i].group
      /\ \/ customer'[i].status = customer[i].status
         \/ customer[i].status = "active" /\ customer'[i].status = "orphaned"
      /\ OfPartner(i, p) => customer'[i].status # "active"
      /\ ~OfPartner(i, p) => customer'[i] = customer[i]
<1>7. ASSUME NEW i \in DOMAIN customer PROVE Fits(i)
  <2>1. CASE OfPartner(i, p) /\ customer[i].status = "active"
    <3>1. customer'[i] = f[i]
      BY <1>5, <2>1
    <3> QED
      BY <1>3, <2>1, <3>1
  <2>2. CASE ~(OfPartner(i, p) /\ customer[i].status = "active")
    BY <1>5, <2>2
  <2> QED
    BY <2>1, <2>2
<1> QED
  BY <1>5, <1>6, <1>7

-----------------------------------------------------------------------------
LEMMA LogType ==
  ASSUME TypeInv, NEW w \in Workers, UNCHANGED <<store, partnerVars>>, InsertChangeLog(w)
  PROVE  /\ TypeInv' /\ Now(w, Idle)
         /\ \E row \in LogRow : log' = Append(log, row) /\ row.status = "pending_a"
<1>1. Now(w, Idle) /\ call[w].op = "request" /\ call[w] \in AnyCall /\ Names(call[w]) /\ Counters
  BY EndSteps, CountersKept DEF InsertChangeLog
<1>2. call[w] \in RequestCall
  BY <1>1, Kinds
<1>3. PICK row : row = [id |-> call[w].id, to |-> call[w].to, status |-> "pending_a"]
  OBVIOUS
<1>4. row \in LogRow /\ row.id \in DOMAIN customer /\ row.status = "pending_a"
  BY <1>1, <1>2, <1>3 DEF LogRow, LogStatus, RequestCall, Names
<1>5. log' = Append(log, row)
  BY <1>3 DEF InsertChangeLog
<1>6. log' \in Seq(LogRow) /\ \A l \in DOMAIN log' : log'[l].id \in DOMAIN customer
  <2> HIDE DEF LogRow
  <2>1. log \in Seq(LogRow)
    BY Rows
  <2>2. \A l \in DOMAIN log' : l \in DOMAIN log \/ l = Len(log) + 1
    BY <1>4, <1>5, <2>1, Appended
  <2> QED
    BY <1>4, <1>5, <2>1, <2>2, Appended, Rows
<1>7. TypeInv'
  BY <1>1, <1>6, EndCalled, RowType DEF InsertChangeLog, TypeInv, Shape, Refers
<1> QED
  BY <1>1, <1>4, <1>5, <1>7

\* What an advance makes of the logs.
LEMMA Advancing ==
  ASSUME TypeInv, NEW w \in Workers, NEW l \in DOMAIN log, NEW status, Advances(w, l, status)
  PROVE  /\ log' \in Seq(LogRow) /\ DOMAIN log' = DOMAIN log
         /\ log'[l].id = log[l].id /\ log'[l].to = log[l].to /\ log'[l].status = status
         /\ \A m \in DOMAIN log \ {l} : log'[m] = log[m]
<1>1. PICK row : row = [log[l] EXCEPT !.status = status]
  OBVIOUS
<1>2. log[l] \in LogRow
  BY Rows
<1>3. row \in LogRow /\ row.id = log[l].id /\ row.to = log[l].to /\ row.status = status
  BY <1>1, <1>2 DEF LogRow, Advances
<1>4. log' = [log EXCEPT ![l] = row]
  BY <1>1 DEF Advances, UpdateChangeLog
<1> HIDE DEF LogRow
<1> QED
  BY <1>3, <1>4, Rows, Changed

LEMMA AdvanceType ==
  ASSUME TypeInv, NEW w \in Workers, UNCHANGED <<store, partnerVars>>,
         NEW l \in DOMAIN log, NEW stage \in Stages, Advance(w, l, stage)
  PROVE  TypeInv'
<1>1. PICK c \in AdvanceCall \cup {Idle}, status \in LogStatus :
        Now(w, c) /\ Advances(w, l, status) /\ (c # Idle => c.id = log[l].id)
  BY AdvanceSteps
<1>2. Called
  <2>1. CASE c = Idle
    BY <1>1, <2>1, EndCalled
  <2>2. CASE c # Idle
    <3>1. c \in AdvanceCall /\ c.id \in DOMAIN customer'
      BY <1>1, <2>2, Rows DEF Advance
    <3>2. Names(c)'
      BY <3>1 DEF Names, AdvanceCall
    <3> QED
      BY <1>1, <3>2, NowCalled
  <2> QED
    BY <2>1, <2>2
<1>3. Counters
  BY CountersKept DEF Advance, Once
<1>4. log' \in Seq(LogRow) /\ \A m \in DOMAIN log' : log'[m].id \in DOMAIN customer
  BY <1>1, Advancing, Rows
<1> QED
  BY <1>2, <1>3, <1>4, RowType DEF Advance, TypeInv, Shape, Refers

LEMMA ApplyStep ==
  ASSUME TypeInv, NEW w \in Workers, ApplyTransfer(w)
  PROVE  /\ Proceeds(w, "apply", "reload")
         /\ Transfers(call[w].id, call[w].to) /\ call[w].id \in DOMAIN customer /\ call[w].to \in Nat \ {0}
<1>1. Proceeds(w, "apply", "reload")
  BY ProceedSteps DEF ApplyTransfer
<1>2. call[w].op = "advance" /\ Names(call[w])
  BY DEF ApplyTransfer, Serving, TypeInv, Refers
<1>3. call[w].id \in DOMAIN customer /\ call[w].to \in Nat \ {0}
  BY <1>1, <1>2 DEF Proceeds, AdvanceCall, Names
<1> QED
  BY <1>1, <1>3 DEF ApplyTransfer, Update, Transfers

LEMMA ProceedCalled ==
  ASSUME TypeInv, NEW w \in Workers, NEW from, NEW to, Proceeds(w, from, to),
         DOMAIN customer' = DOMAIN customer
  PROVE  Called
<1>1. PICK c \in AdvanceCall : Now(w, c) /\ c.id = call[w].id /\ call[w] \in AdvanceCall
  BY DEF Proceeds
<1>2. c.id \in DOMAIN customer'
  BY <1>1 DEF TypeInv, Refers, Names, AdvanceCall
<1>3. Names(c)'
  BY <1>1, <1>2 DEF Names, AdvanceCall
<1> QED
  BY <1>1, <1>3, NowCalled

LEMMA ApplyType ==
  ASSUME TypeInv, NEW w \in Workers, UNCHANGED <<store, partnerVars>>, ApplyTransfer(w)
  PROVE  TypeInv'
<1>1. /\ Proceeds(w, "apply", "reload")
      /\ Transfers(call[w].id, call[w].to) /\ call[w].id \in DOMAIN customer /\ call[w].to \in Nat
  BY ApplyStep
<1>2. customer' \in Seq(CustomerRow) /\ DOMAIN customer' = DOMAIN customer
  BY <1>1, Transferring DEF Updated
<1>3. Called
  BY <1>1, <1>2, ProceedCalled
<1>4. Counters
  BY CountersKept DEF ApplyTransfer
<1>5. unsure' \subseteq DOMAIN customer
  BY <1>1 DEF ApplyTransfer, TypeInv, Refers
<1> QED
  BY <1>2, <1>3, <1>4, <1>5, RowType DEF ApplyTransfer, TypeInv, Shape, Refers

LEMMA MarkDeletedType ==
  ASSUME TypeInv, NEW w \in Workers, UNCHANGED <<store, partnerVars>>, MarkDeleted(w)
  PROVE  TypeInv'
<1>1. PICK c \in EraseCall : Now(w, c) /\ c.id = call[w].id /\ Deletes(call[w].id) /\ call[w] \in EraseCall
  BY EraseSteps
<1>2. call[w].id \in DOMAIN customer
  BY <1>1 DEF TypeInv, Refers, Names, EraseCall
<1>3. customer' \in Seq(CustomerRow) /\ DOMAIN customer' = DOMAIN customer
  BY <1>1, <1>2, Deleting DEF Updated
<1>4. Names(c)'
  BY <1>1, <1>2, <1>3 DEF Names, EraseCall
<1>5. Called
  BY <1>1, <1>4, NowCalled
<1>6. Counters
  BY CountersKept DEF MarkDeleted
<1> QED
  BY <1>3, <1>5, <1>6, RowType DEF MarkDeleted, TypeInv, Shape, Refers

LEMMA FyType ==
  ASSUME TypeInv, NEW w \in Workers, UNCHANGED <<store, partnerVars>>,
         UpdateUserGroup(w) \/ EraseUser(w)
  PROVE  TypeInv'
<1>1. /\ Now(w, Idle) /\ call[w] \in AnyCall /\ Names(call[w]) /\ Counters
      /\ call[w].op \in {"advance", "erase"}
      /\ UpdateUserGroup(w) => call[w].op = "advance"
  <2>1. CASE UpdateUserGroup(w)
    BY <2>1, EndSteps, CountersKept DEF UpdateUserGroup
  <2>2. CASE EraseUser(w) /\ ~UpdateUserGroup(w)
    BY <2>2, EndSteps, CountersKept DEF EraseUser
  <2> QED
    BY <2>1, <2>2
<1>2. call[w].id \in DOMAIN customer
  BY <1>1 DEF Names
<1>3. customer[call[w].id].user \in Users
  BY <1>2, Rows DEF CustomerRow
<1>4. UpdateUserGroup(w) => call[w].to \in Nat
  BY <1>1, Kinds DEF AdvanceCall
<1>5. fyGroup' \in [Users -> Nat] /\ erased' \subseteq Users
  BY <1>3, <1>4 DEF UpdateUserGroup, EraseUser, TypeInv, Shape
<1>6. UNCHANGED <<code, registered, customer, log, unsure>>
  BY DEF UpdateUserGroup, EraseUser
<1> QED
  BY <1>1, <1>5, <1>6, EndCalled, RowType DEF TypeInv, Shape, Refers

LEMMA OrphanType ==
  ASSUME TypeInv, NEW w \in Workers, store' = store, TerminateOrphans(w)
  PROVE  TypeInv'
<1>1. Now(w, Idle) /\ Counters
  BY EndSteps, CountersKept DEF TerminateOrphans
<1>2. customer' \in Seq(CustomerRow) /\ DOMAIN customer' = DOMAIN customer
  BY Orphaning DEF TerminateOrphans
<1> QED
  BY <1>1, <1>2, EndCalled, RowType DEF TerminateOrphans, TypeInv, Shape, Refers

LEMMA PartnerRows ==
  ASSUME TypeInv
  PROVE  /\ partner \in Seq(PartnerRow) /\ members \in Seq(SUBSET Nat)
         /\ \A p \in DOMAIN partner : partner[p] \in PartnerRow
         /\ DOMAIN members = DOMAIN partner /\ DOMAIN partner \subseteq Nat \ {0}
         /\ \A p \in DOMAIN members : members[p] \subseteq DOMAIN customer
         /\ Len(members) = Len(partner)
<1>1. partner \in Seq(PartnerRow) /\ members \in Seq(SUBSET Nat) /\ Len(members) = Len(partner)
  BY DEF TypeInv, Shape
<1>2. \A p \in DOMAIN members : members[p] \subseteq DOMAIN customer
  BY DEF TypeInv, Refers
<1> HIDE DEF PartnerRow
<1>3. DOMAIN members = DOMAIN partner
  <2>1. DOMAIN partner = 1 .. Len(partner) /\ DOMAIN members = 1 .. Len(members)
    BY <1>1
  <2> QED
    BY <1>1, <2>1
<1> QED
  BY <1>1, <1>2, <1>3

LEMMA Becoming ==
  ASSUME TypeInv, NEW p \in DOMAIN partner, NEW status \in PartnerStatus, Becomes(p, status)
  PROVE  partner' \in Seq(PartnerRow) /\ DOMAIN partner' = DOMAIN partner /\ Len(partner') = Len(partner)
<1>1. PICK row : row = [partner[p] EXCEPT !.status = status]
  OBVIOUS
<1>2. partner[p] \in PartnerRow
  BY PartnerRows
<1>3. row \in PartnerRow
  BY <1>1, <1>2 DEF PartnerRow
<1>4. partner' = [partner EXCEPT ![p] = row]
  BY <1>1 DEF Becomes
<1> HIDE DEF PartnerRow
<1> QED
  BY <1>3, <1>4, PartnerRows, Changed

LEMMA ReviewType ==
  ASSUME TypeInv, NEW w \in Workers, UNCHANGED <<store, customerVars>>, NEW p \in DOMAIN partner,
         Approve(w, p) \/ Reject(w, p) \/ Suspend(w, p) \/ Freeze(w, p)
  PROVE  TypeInv'
<1>1. Now(w, Idle) /\ Counters
  <2>1. Once(w)
    BY DEF Approve, Reject, Suspend, Freeze, TransitionFrozen
  <2> QED
    BY <2>1, QuietSteps, CountersKept DEF Once
<1>2. \E status \in PartnerStatus : Becomes(p, status)
  BY DEF Approve, Reject, Suspend, Freeze, TransitionFrozen, PartnerStatus
<1>3. UNCHANGED <<code, members, uncertain>>
  BY DEF Approve, Reject, Suspend, Freeze, TransitionFrozen
<1>4. partner' \in Seq(PartnerRow) /\ DOMAIN partner' = DOMAIN partner /\ Len(partner') = Len(partner)
  BY <1>2, Becoming
<1> QED
  BY <1>1, <1>3, <1>4, EndCalled, PartnerRows, PartnerType DEF TypeInv, Refers

\* What a termination begins with.
Terminates(w, p) ==
  /\ call[w] = Idle
  /\ \E c \in TerminateCall : Now(w, c) /\ c.partner = p
  /\ DOMAIN partner' = DOMAIN partner
  /\ members' \in Seq(SUBSET Nat) /\ DOMAIN members' = DOMAIN members /\ members'[p] = Members(p)
  /\ \A q \in DOMAIN members \ {p} : members'[q] = members[q]

LEMMA Terminating ==
  ASSUME TypeInv, NEW w \in Workers, NEW p \in DOMAIN partner, Terminate(w, p)
  PROVE  Terminates(w, p) /\ partner' \in Seq(PartnerRow) /\ Len(members') = Len(partner')
<1>0. Served
  BY DEF TypeInv, Shape
<1>1. PICK c : c = [op |-> "terminate", pc |-> "orphan", partner |-> p]
  OBVIOUS
<1>2. c \in TerminateCall /\ c \in AnyCall /\ c.partner = p
  BY <1>1, PartnerRows DEF TerminateCall, AnyCall
<1>3. Now(w, c) /\ call[w] = Idle
  BY <1>0, <1>1, <1>2, Starts DEF Terminate
<1>4. partner' \in Seq(PartnerRow) /\ DOMAIN partner' = DOMAIN partner /\ Len(partner') = Len(partner)
  BY Becoming DEF Terminate, PartnerStatus
<1>5. Members(p) \in SUBSET Nat
  BY Rows DEF Members, ListByPartner
<1>6. /\ members' \in Seq(SUBSET Nat) /\ DOMAIN members' = DOMAIN members /\ Len(members') = Len(members)
      /\ members'[p] = Members(p) /\ \A q \in DOMAIN members \ {p} : members'[q] = members[q]
  <2>1. PICK m : m = Members(p)
    OBVIOUS
  <2>2. members' = [members EXCEPT ![p] = m] /\ m \in SUBSET Nat
    BY <1>5, <2>1 DEF Terminate
  <2> QED
    BY <2>1, <2>2, PartnerRows, Changed
<1> QED
  BY <1>2, <1>3, <1>4, <1>6, PartnerRows DEF Terminates

LEMMA TerminateType ==
  ASSUME TypeInv, NEW w \in Workers, UNCHANGED <<store, customerVars>>, NEW p \in DOMAIN partner,
         Terminate(w, p)
  PROVE  TypeInv'
<1>1. Terminates(w, p) /\ partner' \in Seq(PartnerRow) /\ Len(members') = Len(partner')
  BY Terminating
<1>2. PICK c \in TerminateCall : Now(w, c) /\ c.partner = p
  BY <1>1 DEF Terminates
<1>3. Names(c)'
  BY <1>1, <1>2 DEF Names, TerminateCall, Terminates
<1>4. Called /\ Counters
  BY <1>2, <1>3, NowCalled, CountersKept DEF Terminate
<1>5. \A q \in DOMAIN members' : members'[q] \subseteq DOMAIN customer
  <2>1. Members(p) \subseteq DOMAIN customer
    BY DEF Members, ListByPartner
  <2> QED
    BY <1>1, <2>1, PartnerRows DEF Terminates
<1>6. uncertain' \subseteq DOMAIN partner /\ UNCHANGED <<store, code, customerVars>>
  BY DEF Terminate, TypeInv, Refers
<1> QED
  BY <1>1, <1>4, <1>5, <1>6, PartnerType DEF Terminates

\* An applicant is added, and the call goes on to its code.
Applies(w) ==
  /\ \E row \in PartnerRow : partner' = Append(partner, row)
  /\ members' = Append(members, {})
  /\ \E c \in GenerateCall : Now(w, c) /\ c.partner = Len(partner) + 1

LEMMA ApplyInsertStep ==
  ASSUME TypeInv, NEW w \in Workers, ApplyInsert(w)
  PROVE  /\ call[w] \in ApplyCall
         /\ Applies(w) \/ (Now(w, Idle) /\ UNCHANGED <<partner, members>>)
<1>0. Served /\ call[w] \in AnyCall /\ call[w].op = "apply" /\ call[w].pc = "insert"
  BY DEF TypeInv, Shape, Served, ApplyInsert, Serving
<1>1. call[w] \in ApplyCall
  BY <1>0, Kinds
<1>2. CASE Conflict(call[w].email)
  BY <1>0, <1>1, <1>2, Returns DEF ApplyInsert
<1>3. CASE ~Conflict(call[w].email)
  <2>1. PICK row : row = [email |-> call[w].email, status |-> "applied", column |-> FALSE]
    OBVIOUS
  <2>2. row \in PartnerRow
    BY <1>1, <2>1 DEF PartnerRow, PartnerStatus, ApplyCall
  <2>3. PICK c : c = [op |-> "apply", pc |-> "generate", partner |-> Len(partner) + 1]
    OBVIOUS
  <2>4. Len(partner) \in Nat
    BY DEF TypeInv, Shape
  <2>5. c \in GenerateCall /\ c \in AnyCall /\ c.partner = Len(partner) + 1
    BY <2>3, <2>4 DEF GenerateCall, AnyCall
  <2>6. Now(w, c)
    BY <1>0, <1>3, <2>3, <2>5 DEF ApplyInsert, Now, Served
  <2>7. partner' = Append(partner, row) /\ members' = Append(members, {})
    BY <1>3, <2>1 DEF ApplyInsert
  <2> QED
    BY <1>1, <2>2, <2>5, <2>6, <2>7 DEF Applies
<1> QED
  BY <1>2, <1>3

LEMMA ApplyingRows ==
  ASSUME TypeInv, NEW w \in Workers, Applies(w)
  PROVE  /\ partner' \in Seq(PartnerRow) /\ DOMAIN partner' = DOMAIN partner \cup {Len(partner) + 1}
         /\ members' \in Seq(SUBSET Nat) /\ Len(members') = Len(partner') /\ DOMAIN members' = DOMAIN partner'
         /\ members'[Len(partner) + 1] = {} /\ \A p \in DOMAIN partner : members'[p] = members[p]
         /\ Len(partner) + 1 \notin DOMAIN partner
<1>1. PICK row \in PartnerRow : partner' = Append(partner, row)
  BY DEF Applies
<1>2. {} \in SUBSET Nat
  OBVIOUS
<1>3. /\ partner' \in Seq(PartnerRow) /\ Len(partner') = Len(partner) + 1 /\ Len(partner) \in Nat
      /\ DOMAIN partner = 1 .. Len(partner) /\ DOMAIN partner' = 1 .. (Len(partner) + 1)
  <2> HIDE DEF PartnerRow
  <2> QED
    BY <1>1, PartnerRows, Appended
<1>4. /\ members' \in Seq(SUBSET Nat) /\ Len(members') = Len(partner) + 1
      /\ DOMAIN members' = 1 .. (Len(partner) + 1)
      /\ members'[Len(partner) + 1] = {} /\ \A p \in DOMAIN members : members'[p] = members[p]
  BY <1>2, PartnerRows, Appended DEF Applies
<1> QED
  BY <1>3, <1>4, PartnerRows

LEMMA ApplyInsertType ==
  ASSUME TypeInv, NEW w \in Workers, UNCHANGED <<store, customerVars>>, ApplyInsert(w)
  PROVE  TypeInv'
<1>0. UNCHANGED <<code, uncertain>> /\ Counters
  <2>1. Return(w) \/ UNCHANGED <<calls, faults>>
    BY DEF ApplyInsert
  <2> QED
    BY <2>1, CountersKept DEF ApplyInsert, Counters, TypeInv, Shape
<1>1. CASE Applies(w)
  <2>1. /\ partner' \in Seq(PartnerRow) /\ DOMAIN partner' = DOMAIN partner \cup {Len(partner) + 1}
        /\ members' \in Seq(SUBSET Nat) /\ Len(members') = Len(partner') /\ DOMAIN members' = DOMAIN partner'
        /\ members'[Len(partner) + 1] = {} /\ \A p \in DOMAIN partner : members'[p] = members[p]
    BY <1>1, ApplyingRows
  <2>2. PICK c \in GenerateCall : Now(w, c) /\ c.partner = Len(partner) + 1
    BY <1>1 DEF Applies
  <2>3. Names(c)'
    BY <2>1, <2>2 DEF Names, GenerateCall
  <2>4. Called
    BY <2>2, <2>3, NowCalled
  <2>5. \A p \in DOMAIN members' : members'[p] \subseteq DOMAIN customer
    BY <2>1, PartnerRows
  <2> QED
    BY <1>0, <2>1, <2>4, <2>5, PartnerType DEF TypeInv, Refers
<1>2. CASE Now(w, Idle) /\ UNCHANGED <<partner, members>>
  BY <1>0, <1>2, EndCalled, PartnerRows, PartnerType DEF TypeInv, Refers
<1> QED
  BY <1>1, <1>2, ApplyInsertStep

LEMMA FailStep ==
  ASSUME TypeInv, NEW w \in Workers, Fail(w)
  PROVE  /\ Now(w, Idle) /\ call[w] \in AnyCall /\ Counters /\ Names(call[w])
         /\ unsure' \subseteq DOMAIN customer /\ uncertain' \subseteq DOMAIN partner
<1>1. call[w] \in AnyCall /\ Names(call[w]) /\ unsure \subseteq DOMAIN customer /\ uncertain \subseteq DOMAIN partner
  BY DEF TypeInv, Shape, Served, Refers
<1>2. Now(w, Idle)
  BY IdleNames DEF Fail, Now, TypeInv, Shape, Served
<1>3. Counters
  BY InvitationAssumption DEF Fail, Counters, TypeInv, Shape
<1>4. unsure' \subseteq DOMAIN customer
  BY <1>1 DEF Fail, Names
<1>5. uncertain' \subseteq DOMAIN partner
  BY <1>1 DEF Fail, Names, Serving
<1> QED
  BY <1>1, <1>2, <1>3, <1>4, <1>5

LEMMA FailType ==
  ASSUME TypeInv, NEW w \in Workers, Fail(w)
  PROVE  TypeInv'
<1>1. /\ Now(w, Idle) /\ Counters
      /\ unsure' \subseteq DOMAIN customer /\ uncertain' \subseteq DOMAIN partner
  BY FailStep
<1>2. UNCHANGED <<store, code, customer, log, fyGroup, erased, registered, partner, members>>
  BY DEF Fail
<1>3. Called
  BY <1>1, EndCalled
<1>4. Shape'
  BY <1>1, <1>2, <1>3, RowsKept DEF TypeInv, Shape, Served, Called, Counters
<1> QED
  BY <1>1, <1>2, <1>3, <1>4, RefersOn DEF TypeInv, Refers, Grows

LEMMA StillType ==
  ASSUME TypeInv, UNCHANGED vars
  PROVE  TypeInv'
<1>1. Called /\ Counters
  BY DEF Called, Counters, TypeInv, Shape, Served, vars
<1>2. Shape'
  BY <1>1, RowsKept DEF TypeInv, Shape, Served, Called, Counters, vars
<1> QED
  BY <1>1, <1>2, RefersOn DEF TypeInv, Refers, Grows, vars

LEMMA TypeStep ==
  ASSUME TypeInv, [Next]_vars
  PROVE  TypeInv'
<1>1. ASSUME NEW w \in Workers, CustomerCalls(w) /\ UNCHANGED <<store, partnerVars>> PROVE TypeInv'
  BY <1>1, QuietStepType, JoinStepType, CountType, MarkType, LogType, AdvanceType, ApplyType, FyType,
     MarkDeletedType DEF CustomerCalls, Quiet
<1>2. ASSUME NEW w \in Workers, NEW i \in DOMAIN customer, NEW p \in DOMAIN partner,
             SubmitErase(w, i, p) \/ \E to \in DOMAIN partner : RequestTransfer(w, i, p, to),
             UNCHANGED <<store, partnerVars>>
      PROVE  TypeInv'
  BY <1>2, QuietStepType DEF Quiet
<1>3. ASSUME NEW w \in Workers, PartnerCalls(w) /\ UNCHANGED <<store, customerVars>> PROVE TypeInv'
  <2>1. ASSUME NEW e \in Applicants, Apply(w, e) PROVE TypeInv'
    <3>1. PICK c \in ApplyCall : Now(w, c)
      BY <2>1, QuietSteps
    <3>2. c \in AnyCall /\ Names(c)
      BY <3>1 DEF ApplyCall, AnyCall, Names
    <3>3. Kept /\ Counters
      BY <1>3, <2>1, CountersKept DEF Apply, Kept
    <3> QED
      BY <3>1, <3>2, <3>3, QuietType
  <2> QED
    BY <1>3, <2>1, ApplyInsertType, GenerateType, ReviewType, TerminateType DEF PartnerCalls
<1>4. ASSUME NEW w \in Workers, TerminateOrphans(w) /\ UNCHANGED store PROVE TypeInv'
  BY <1>4, OrphanType
<1>5. ASSUME NEW k \in DOMAIN code, UNCHANGED <<store, customerVars, partnerVars>>,
             Expire(k) \/ \E w \in Workers : Revoke(w, k)
      PROVE  TypeInv'
  BY <1>5, CodeStepType
<1>6. ASSUME NEW w \in Workers, Fail(w) PROVE TypeInv'
  BY <1>6, FailType
<1> QED
  BY <1>1, <1>2, <1>3, <1>4, <1>5, <1>6, StillType DEF Next

-----------------------------------------------------------------------------
(* Codes: the steps that neither count nor issue one.                      *)

AtMark(c) == c.op = "register" /\ c.pc = "mark"
AtGenerate(c) == c.op = "apply" /\ c.pc = "generate"

\* A step that has to do neither with the count of a code nor with its issue.
Calm ==
  /\ UNCHANGED <<store, code, registered>> /\ uncertain \subseteq uncertain'
  /\ \A v \in Workers : AtMark(call'[v]) => call'[v] = call[v]
  /\ \A v \in Workers : AtGenerate(call[v]) => call'[v] = call[v] \/ call[v].partner \in uncertain'
  /\ \A p \in DOMAIN partner' \ DOMAIN partner :
       \E v \in Workers : AtGenerate(call'[v]) /\ call'[v].partner = p

LEMMA CalmNow ==
  ASSUME TypeInv, UNCHANGED <<store, code, registered>>, uncertain \subseteq uncertain',
         DOMAIN partner' = DOMAIN partner,
         NEW w \in Workers, NEW c \in AnyCall, Now(w, c), ~AtMark(c),
         AtGenerate(call[w]) => call[w].partner \in uncertain'
  PROVE  Calm
<1>1. \A v \in Workers : v = w \/ call'[v] = call[v]
  BY DEF Now
<1>2. call'[w] = c
  BY DEF Now
<1> QED
  BY <1>1, <1>2 DEF Calm

LEMMA IdleCalm ==
  /\ ~AtMark(Idle) /\ ~AtGenerate(Idle) /\ Idle \in AnyCall
  /\ \A c \in RegisterCall : ~AtGenerate(c) /\ (c.pc # "mark" => ~AtMark(c)) /\ c \in AnyCall
  /\ \A c \in DirectCall \cup RequestCall \cup AdvanceCall \cup EraseCall \cup ApplyCall \cup TerminateCall :
       ~AtMark(c) /\ ~AtGenerate(c) /\ c \in AnyCall
  /\ \A c \in GenerateCall : ~AtMark(c) /\ AtGenerate(c) /\ c \in AnyCall
BY DEF Idle, AtMark, AtGenerate, AnyCall, RegisterCall, DirectCall, RequestCall, AdvanceCall, EraseCall,
       ApplyCall, TerminateCall, GenerateCall

LEMMA QuietCalm ==
  ASSUME TypeInv, NEW w \in Workers, UNCHANGED <<store, partnerVars>>, Quiet(w)
  PROVE  Calm
<1>1. Kept
  BY QuietStepType
<1>2. UNCHANGED <<store, code, registered>> /\ uncertain' = uncertain /\ partner' = partner
  BY <1>1 DEF Kept, customerVars, partnerVars
<1>3. ASSUME NEW u \in Users, RegisterDirect(w, u) PROVE Calm
  BY <1>2, <1>3, QuietSteps, IdleCalm, CalmNow
<1>4. ASSUME NEW u \in Users, NEW k \in DOMAIN code, Register(w, u, k) PROVE Calm
  <2>1. PICK c \in RegisterCall : Now(w, c) /\ call[w] = Idle /\ c.pc = "resolve"
    BY <1>4, QuietSteps
  <2>2. ~AtMark(c) /\ c \in AnyCall /\ ~AtGenerate(call[w])
    BY <2>1, IdleCalm
  <2> QED
    BY <1>2, <2>1, <2>2, CalmNow
<1>5. ASSUME RegisterResolve(w) \/ Consume(w) PROVE Calm
  <2>1. \E c, from, to : Looks(w, c, from, to) /\ to # "mark"
    BY <1>5, LookSteps DEF RegisterResolve, Consume
  <2>2. PICK c, from, to : Looks(w, c, from, to) /\ to # "mark"
    BY <2>1
  <2>3. ~AtMark(c) /\ c \in AnyCall /\ Now(w, c) /\ ~AtGenerate(call[w])
    BY <2>2, IdleCalm DEF Looks
  <2> QED
    BY <1>2, <2>3, CalmNow
<1>6. ASSUME Reload(w) PROVE Calm
  <2>1. CASE Goto(w, "group")
    <3>1. Proceeds(w, "reload", "group")
      BY <1>6, <2>1, ProceedSteps DEF Reload
    <3> QED
      BY <1>2, <3>1, IdleCalm, CalmNow DEF Proceeds
  <2>2. CASE Return(w)
    <3>1. Now(w, Idle) /\ ~AtGenerate(call[w])
      BY <1>6, <2>2, EndSteps DEF Reload, AtGenerate
    <3> QED
      BY <1>2, <3>1, IdleCalm, CalmNow
  <2> QED
    BY <1>6, <2>1, <2>2 DEF Reload
<1>7. ASSUME NEW i \in DOMAIN customer, NEW p \in DOMAIN partner, SubmitErase(w, i, p) PROVE Calm
  <2>1. PICK c \in EraseCall \cup {Idle} : Now(w, c) /\ call[w] = Idle
    BY <1>7, QuietSteps
  <2> QED
    BY <1>2, <2>1, IdleCalm, CalmNow
<1>8. ASSUME NEW i \in DOMAIN customer, NEW p \in DOMAIN partner, NEW to \in DOMAIN partner,
             RequestTransfer(w, i, p, to)
      PROVE  Calm
  <2>1. PICK c \in RequestCall : Now(w, c) /\ call[w] = Idle
    BY <1>8, QuietSteps
  <2> QED
    BY <1>2, <2>1, IdleCalm, CalmNow
<1> QED
  BY <1>3, <1>4, <1>5, <1>6, <1>7, <1>8 DEF Quiet

LEMMA CustomerCalm ==
  ASSUME TypeInv, NEW w \in Workers, UNCHANGED <<store, partnerVars>>,
         \/ RegisterInsert(w) \/ InsertDirect(w) \/ InsertChangeLog(w)
         \/ \E l \in DOMAIN log, stage \in Stages : Advance(w, l, stage)
         \/ ApplyTransfer(w) \/ UpdateUserGroup(w) \/ MarkDeleted(w) \/ EraseUser(w)
  PROVE  Calm
<1>1. UNCHANGED <<store, code, registered>> /\ uncertain' = uncertain /\ partner' = partner
  BY DEF RegisterInsert, InsertDirect, InsertChangeLog, Advance, ApplyTransfer, UpdateUserGroup,
         MarkDeleted, EraseUser, partnerVars
<1>2. ASSUME RegisterInsert(w) PROVE Calm
  <2>1. PICK c \in RegisterCall \cup {Idle} : Now(w, c) /\ (c # Idle => c.pc = "consume")
    BY <1>2, JoinSteps
  <2>2. ~AtMark(c) /\ c \in AnyCall /\ ~AtGenerate(call[w])
    BY <1>2, <2>1, JoinSteps, IdleCalm
  <2> QED
    BY <1>1, <2>1, <2>2, CalmNow
<1>3. ASSUME InsertDirect(w) \/ InsertChangeLog(w) \/ UpdateUserGroup(w) \/ EraseUser(w) PROVE Calm
  <2>1. Now(w, Idle) /\ ~AtGenerate(call[w])
    BY <1>3, EndSteps DEF InsertDirect, InsertChangeLog, UpdateUserGroup, EraseUser, AtGenerate
  <2> QED
    BY <1>1, <2>1, IdleCalm, CalmNow
<1>4. ASSUME NEW l \in DOMAIN log, NEW stage \in Stages, Advance(w, l, stage) PROVE Calm
  <2>1. PICK c \in AdvanceCall \cup {Idle} : Now(w, c) /\ call[w] = Idle
    BY <1>4, AdvanceSteps
  <2> QED
    BY <1>1, <2>1, IdleCalm, CalmNow
<1>5. ASSUME ApplyTransfer(w) PROVE Calm
  <2>1. Proceeds(w, "apply", "reload")
    BY <1>5, ApplyStep
  <2> QED
    BY <1>1, <2>1, IdleCalm, CalmNow DEF Proceeds
<1>6. ASSUME MarkDeleted(w) PROVE Calm
  <2>1. PICK c \in EraseCall : Now(w, c) /\ call[w] \in EraseCall
    BY <1>6, EraseSteps
  <2> QED
    BY <1>1, <2>1, IdleCalm, CalmNow
<1> QED
  BY <1>2, <1>3, <1>4, <1>5, <1>6

LEMMA PartnerCalm ==
  ASSUME TypeInv, NEW w \in Workers, UNCHANGED <<store, customerVars>>,
         \/ \E e \in Applicants : Apply(w, e)
         \/ ApplyInsert(w)
         \/ \E p \in DOMAIN partner :
              Approve(w, p) \/ Reject(w, p) \/ Suspend(w, p) \/ Freeze(w, p) \/ Terminate(w, p)
  PROVE  Calm
<1>1. UNCHANGED <<store, code, registered>> /\ uncertain' = uncertain
  BY DEF Apply, ApplyInsert, Approve, Reject, Suspend, Freeze, TransitionFrozen, Terminate,
         customerVars, partnerVars
<1>2. ASSUME NEW e \in Applicants, Apply(w, e) PROVE Calm
  <2>1. PICK c \in ApplyCall : Now(w, c) /\ call[w] = Idle
    BY <1>2, QuietSteps
  <2>2. partner' = partner
    BY <1>2 DEF Apply, partnerVars
  <2> QED
    BY <1>1, <2>1, <2>2, IdleCalm, CalmNow
<1>3. ASSUME ApplyInsert(w) PROVE Calm
  <2>0. ~AtGenerate(call[w])
    BY <1>3, ApplyInsertStep, IdleCalm
  <2>1. CASE Applies(w)
    <3>1. PICK c \in GenerateCall : Now(w, c) /\ c.partner = Len(partner) + 1
      BY <2>1 DEF Applies
    <3>2. DOMAIN partner' = DOMAIN partner \cup {Len(partner) + 1}
      BY <2>1, ApplyingRows
    <3>3. AtGenerate(c) /\ ~AtMark(c)
      BY <3>1, IdleCalm
    <3>4. call'[w] = c /\ \A v \in Workers : v = w \/ call'[v] = call[v]
      BY <3>1 DEF Now
    <3> QED
      BY <1>1, <2>0, <3>1, <3>2, <3>3, <3>4 DEF Calm
  <2>2. CASE Now(w, Idle) /\ UNCHANGED <<partner, members>>
    BY <1>1, <2>0, <2>2, IdleCalm, CalmNow
  <2> QED
    BY <1>3, <2>1, <2>2, ApplyInsertStep
<1>4. ASSUME NEW p \in DOMAIN partner, Approve(w, p) \/ Reject(w, p) \/ Suspend(w, p) \/ Freeze(w, p)
      PROVE  Calm
  <2>1. Once(w) /\ \E status : Becomes(p, status)
    BY <1>4 DEF Approve, Reject, Suspend, Freeze, TransitionFrozen
  <2>2. DOMAIN partner' = DOMAIN partner
    BY <2>1 DEF Becomes
  <2> QED
    BY <1>1, <2>1, <2>2, QuietSteps, IdleCalm, CalmNow
<1>5. ASSUME NEW p \in DOMAIN partner, Terminate(w, p) PROVE Calm
  <2>1. Terminates(w, p)
    BY <1>5, Terminating
  <2> QED
    BY <1>1, <2>1, IdleCalm, CalmNow DEF Terminates
<1> QED
  BY <1>2, <1>3, <1>4, <1>5

LEMMA EndCalm ==
  ASSUME TypeInv
  PROVE  /\ \A w \in Workers : Fail(w) => Calm
         /\ \A w \in Workers : TerminateOrphans(w) /\ store' = store => Calm
         /\ UNCHANGED vars => Calm
<1>1. ASSUME NEW w \in Workers, Fail(w) PROVE Calm
  <2>1. Now(w, Idle)
    BY <1>1, FailStep
  <2>2. UNCHANGED <<store, code, registered, partner>>
    BY <1>1 DEF Fail
  <2>3. uncertain \subseteq uncertain' /\ (AtGenerate(call[w]) => call[w].partner \in uncertain')
    BY <1>1 DEF Fail, AtGenerate, Serving
  <2> QED
    BY <2>1, <2>2, <2>3, IdleCalm, CalmNow
<1>2. ASSUME NEW w \in Workers, TerminateOrphans(w), store' = store PROVE Calm
  <2>1. Now(w, Idle) /\ ~AtGenerate(call[w])
    BY <1>2, EndSteps DEF TerminateOrphans, AtGenerate
  <2> QED
    BY <1>2, <2>1, IdleCalm, CalmNow DEF TerminateOrphans, partnerVars
<1>3. ASSUME UNCHANGED vars PROVE Calm
  BY <1>3 DEF Calm, vars
<1> QED
  BY <1>1, <1>2, <1>3

\* The steps that are not.
LEMMA Steps ==
  ASSUME TypeInv, [Next]_vars
  PROVE  \/ Calm
         \/ \E w \in Workers : (Count(w) \/ MarkUsedUp(w)) /\ UNCHANGED <<store, partnerVars>>
         \/ \E w \in Workers :
              /\ ApplyGenerate(w) \/ \E p \in DOMAIN partner, limit \in Limits : GenerateWith(w, p, limit)
              /\ UNCHANGED <<store, customerVars>>
         \/ /\ \E k \in DOMAIN code : Expire(k) \/ \E w \in Workers : Revoke(w, k)
            /\ UNCHANGED <<store, customerVars, partnerVars>>
<1>1. ASSUME NEW w \in Workers, CustomerCalls(w) /\ UNCHANGED <<store, partnerVars>>
      PROVE  Calm \/ Count(w) \/ MarkUsedUp(w)
  BY <1>1, QuietCalm, CustomerCalm DEF CustomerCalls, Quiet
<1>2. ASSUME NEW w \in Workers, NEW i \in DOMAIN customer, NEW p \in DOMAIN partner,
             SubmitErase(w, i, p) \/ \E to \in DOMAIN partner : RequestTransfer(w, i, p, to),
             UNCHANGED <<store, partnerVars>>
      PROVE  Calm
  BY <1>2, QuietCalm DEF Quiet
<1>3. ASSUME NEW w \in Workers, PartnerCalls(w) /\ UNCHANGED <<store, customerVars>>
      PROVE  \/ Calm \/ ApplyGenerate(w)
             \/ \E p \in DOMAIN partner, limit \in Limits : GenerateWith(w, p, limit)
  BY <1>3, PartnerCalm DEF PartnerCalls
<1> QED
  BY <1>1, <1>2, <1>3, EndCalm DEF Next

-----------------------------------------------------------------------------
(* Codes: what is counted.                                                 *)

Reported(k) == {r \in registered : r.code = k}
Markers(k) == {w \in Workers : AtMark(call[w]) /\ call[w].code = k}

\* A use is counted before it is reported, and what is at "mark" has counted it.
UsesInv ==
  /\ IsFiniteSet(registered) /\ \A r \in registered : r.code \in DOMAIN code
  /\ \A k \in DOMAIN code :
       /\ Cardinality(Reported(k)) + Cardinality(Markers(k)) <= code[k].used
       /\ store = "mysql" /\ code[k].limit > 0 => code[k].used <= code[k].limit
GivenInv ==
  \A p \in DOMAIN partner :
    p \notin uncertain => \/ HasCode(p)
                          \/ \E w \in Workers : AtGenerate(call[w]) /\ call[w].partner = p

LEMMA Finite ==
  ASSUME UsesInv
  PROVE  \A k : /\ IsFiniteSet(Reported(k)) /\ Cardinality(Reported(k)) \in Nat
                /\ IsFiniteSet(Markers(k)) /\ Cardinality(Markers(k)) \in Nat
<1>1. IsFiniteSet(Workers) /\ IsFiniteSet(registered)
  BY InvitationAssumption DEF UsesInv
<1> SUFFICES ASSUME NEW k
             PROVE  /\ IsFiniteSet(Reported(k)) /\ Cardinality(Reported(k)) \in Nat
                    /\ IsFiniteSet(Markers(k)) /\ Cardinality(Markers(k)) \in Nat
  OBVIOUS
<1>2. Reported(k) \subseteq registered /\ Markers(k) \subseteq Workers
  BY DEF Reported, Markers
<1> QED
  BY <1>1, <1>2, FS_Subset, FS_CardinalityType

LEMMA CodeNumbers ==
  ASSUME TypeInv
  PROVE  \A k \in DOMAIN code : code[k].used \in Nat /\ code[k].limit \in Nat
<1> SUFFICES ASSUME NEW k \in DOMAIN code PROVE code[k].used \in Nat /\ code[k].limit \in Nat
  OBVIOUS
<1>1. code[k] \in CodeRow
  <2> HIDE DEF CodeRow
  <2> QED
    BY DEF TypeInv, Shape
<1> QED
  BY <1>1 DEF CodeRow

\* No step of a call that starts to mark, and nothing reported.
LEMMA NoMore ==
  ASSUME UsesInv, registered' = registered,
         \A v \in Workers : AtMark(call'[v]) => call'[v] = call[v]
  PROVE  \A k : /\ Reported(k)' = Reported(k) /\ Markers(k)' \subseteq Markers(k)
                /\ IsFiniteSet(Markers(k)') /\ Cardinality(Markers(k)') <= Cardinality(Markers(k))
                /\ Cardinality(Markers(k)') \in Nat
<1> SUFFICES ASSUME NEW k
             PROVE  /\ Reported(k)' = Reported(k) /\ Markers(k)' \subseteq Markers(k)
                    /\ IsFiniteSet(Markers(k)') /\ Cardinality(Markers(k)') <= Cardinality(Markers(k))
                    /\ Cardinality(Markers(k)') \in Nat
  OBVIOUS
<1>1. Reported(k)' = Reported(k) /\ Markers(k)' \subseteq Markers(k)
  BY DEF Reported, Markers
<1> QED
  BY <1>1, Finite, FS_Subset, FS_CardinalityType

LEMMA CalmUses ==
  ASSUME TypeInv, UsesInv, Calm
  PROVE  UsesInv'
<1>1. \A k \in DOMAIN code' : Cardinality(Reported(k)') + Cardinality(Markers(k)') <= code'[k].used
  <2> SUFFICES ASSUME NEW k \in DOMAIN code
               PROVE  Cardinality(Reported(k)') + Cardinality(Markers(k)') <= code[k].used
    BY DEF Calm
  <2>1. /\ Reported(k)' = Reported(k) /\ Cardinality(Markers(k)') <= Cardinality(Markers(k))
        /\ Cardinality(Markers(k)') \in Nat
    BY NoMore DEF Calm
  <2>2. Cardinality(Reported(k)) \in Nat /\ Cardinality(Markers(k)) \in Nat /\ code[k].used \in Nat
    BY Finite, CodeNumbers
  <2>3. Cardinality(Reported(k)) + Cardinality(Markers(k)) <= code[k].used
    BY DEF UsesInv
  <2> QED
    BY <2>1, <2>2, <2>3
<1> QED
  BY <1>1 DEF UsesInv, Calm

\* A new code has no uses and is nobody's yet.
LEMMA IssueUses ==
  ASSUME TypeInv, UsesInv, UNCHANGED <<store, registered>>,
         \A v \in Workers : AtMark(call'[v]) => call'[v] = call[v],
         NEW k \in Codes \ DOMAIN code, NEW p, NEW limit \in Nat,
         DOMAIN code' = DOMAIN code \cup {k}, code'[k].limit = limit, code'[k].used = 0,
         \A d \in DOMAIN code : code'[d] = code[d]
  PROVE  UsesInv'
<1>1. Reported(k)' = {} /\ Markers(k)' = {}
  <2>1. Reported(k) = {}
    BY DEF UsesInv, Reported
  <2>2. Markers(k) = {}
    BY DEF Markers, AtMark, TypeInv, Refers, Names
  <2> QED
    BY <2>1, <2>2, NoMore
<1>2. \A d \in DOMAIN code' : Cardinality(Reported(d)') + Cardinality(Markers(d)') <= code'[d].used
  <2> SUFFICES ASSUME NEW d \in DOMAIN code'
               PROVE  Cardinality(Reported(d)') + Cardinality(Markers(d)') <= code'[d].used
    OBVIOUS
  <2>1. CASE d = k
    <3>1. Reported(d)' = {} /\ Markers(d)' = {}
      BY <1>1, <2>1 DEF Reported, Markers
    <3>2. Cardinality({}) = 0
      BY FS_EmptySet
    <3>3. Cardinality(Reported(d)') = 0 /\ Cardinality(Markers(d)') = 0 /\ code'[d].used = 0
      BY <2>1, <3>1, <3>2
    <3> QED
      BY <3>3
  <2>2. CASE d \in DOMAIN code
    <3>1. /\ Reported(d)' = Reported(d) /\ Cardinality(Markers(d)') <= Cardinality(Markers(d))
          /\ Cardinality(Markers(d)') \in Nat
      BY NoMore
    <3>2. Cardinality(Reported(d)) \in Nat /\ Cardinality(Markers(d)) \in Nat /\ code[d].used \in Nat
      BY <2>2, Finite, CodeNumbers
    <3>3. Cardinality(Reported(d)) + Cardinality(Markers(d)) <= code[d].used
      BY <2>2 DEF UsesInv
    <3> QED
      BY <2>2, <3>1, <3>2, <3>3
  <2> QED
    BY <2>1, <2>2
<1>3. \A d \in DOMAIN code' : store' = "mysql" /\ code'[d].limit > 0 => code'[d].used <= code'[d].limit
  BY DEF UsesInv
<1> QED
  BY <1>2, <1>3 DEF UsesInv

\* The codes keep their uses.
LEMMA SameUses ==
  ASSUME TypeInv, UsesInv, UNCHANGED <<store, registered>>,
         \A v \in Workers : AtMark(call'[v]) => call'[v] = call[v],
         DOMAIN code' = DOMAIN code,
         \A d \in DOMAIN code : code'[d].used = code[d].used /\ code'[d].limit = code[d].limit
  PROVE  UsesInv'
<1>1. ASSUME NEW d \in DOMAIN code
      PROVE  Cardinality(Reported(d)') + Cardinality(Markers(d)') <= code'[d].used
  <2>1. /\ Reported(d)' = Reported(d) /\ Cardinality(Markers(d)') <= Cardinality(Markers(d))
        /\ Cardinality(Markers(d)') \in Nat
    BY NoMore
  <2>2. Cardinality(Reported(d)) \in Nat /\ Cardinality(Markers(d)) \in Nat /\ code[d].used \in Nat
    BY Finite, CodeNumbers
  <2>3. Cardinality(Reported(d)) + Cardinality(Markers(d)) <= code[d].used
    BY DEF UsesInv
  <2> QED
    BY <2>1, <2>2, <2>3
<1> QED
  BY <1>1 DEF UsesInv

\* What the end of a registration reports.
LEMMA Crediting ==
  ASSUME TypeInv, UsesInv, NEW w \in Workers, call[w] \in RegisterCall, Credits(w)
  PROVE  /\ \A k : k # call[w].code => Reported(k)' = Reported(k)
         /\ IsFiniteSet(registered')
         /\ \A k : /\ IsFiniteSet(Reported(k)') /\ Cardinality(Reported(k)') \in Nat
                   /\ Cardinality(Reported(k)') <= Cardinality(Reported(k)) + 1
<1>1. PICK x : x = [id |-> call[w].id, code |-> call[w].code]
  OBVIOUS
<1>2. registered' = registered \cup {x} /\ x.code = call[w].code
  BY <1>1 DEF Credits
<1>3. IsFiniteSet(registered')
  BY <1>2, FS_AddElement DEF UsesInv
<1>4. \A k : k # call[w].code => Reported(k)' = Reported(k)
  BY <1>2 DEF Reported
<1>5. ASSUME NEW k
      PROVE  /\ IsFiniteSet(Reported(k)') /\ Cardinality(Reported(k)') \in Nat
             /\ Cardinality(Reported(k)') <= Cardinality(Reported(k)) + 1
  <2>1. Reported(k)' = Reported(k) \/ Reported(k)' = Reported(k) \cup {x}
    BY <1>2 DEF Reported
  <2>2. IsFiniteSet(Reported(k)) /\ Cardinality(Reported(k)) \in Nat
    BY Finite
  <2>3. /\ IsFiniteSet(Reported(k) \cup {x})
        /\ \/ Cardinality(Reported(k) \cup {x}) = Cardinality(Reported(k))
           \/ Cardinality(Reported(k) \cup {x}) = Cardinality(Reported(k)) + 1
    BY <2>2, FS_AddElement
  <2>4. CASE Reported(k)' = Reported(k)
    BY <2>2, <2>4
  <2>5. CASE Reported(k)' = Reported(k) \cup {x}
    BY <2>2, <2>3, <2>5
  <2> QED
    BY <2>1, <2>4, <2>5
<1> QED
  BY <1>3, <1>4, <1>5

\* Who is at "mark" when w leaves to c.
LEMMA MarkersNow ==
  ASSUME TypeInv, UsesInv, NEW w \in Workers, NEW c, Now(w, c)
  PROVE  \A k : /\ (AtMark(c) /\ c.code = k) => Markers(k)' = Markers(k) \cup {w}
                /\ ~(AtMark(c) /\ c.code = k) => Markers(k)' = Markers(k) \ {w}
<1> SUFFICES ASSUME NEW k
             PROVE  /\ (AtMark(c) /\ c.code = k) => Markers(k)' = Markers(k) \cup {w}
                    /\ ~(AtMark(c) /\ c.code = k) => Markers(k)' = Markers(k) \ {w}
  OBVIOUS
<1>1. call'[w] = c /\ \A v \in Workers : v # w => call'[v] = call[v]
  BY DEF Now
<1>2. \A v : v \in Markers(k)' <=> v \in Workers /\ AtMark(call'[v]) /\ call'[v].code = k
  BY DEF Markers, AtMark
<1>3. \A v : v \in Markers(k) <=> v \in Workers /\ AtMark(call[v]) /\ call[v].code = k
  BY DEF Markers
<1> HIDE DEF AtMark
<1> QED
  BY <1>1, <1>2, <1>3

LEMMA CountUses ==
  ASSUME TypeInv, UsesInv, NEW w \in Workers, UNCHANGED <<store, partnerVars>>, Count(w)
  PROVE  UsesInv'
<1>1. PICK c : Looks(w, c, "count", "mark") /\ Used(w, c)
  BY CountSteps
<1>2. /\ call[w] \in RegisterCall /\ Now(w, c) /\ call[w].code \in DOMAIN code /\ ~AtMark(call[w])
      /\ c # Idle => AtMark(c) /\ c.code = call[w].code
  BY <1>1, RegisterCode, IdleCalm DEF Looks, AtMark, RegisterCall
<1>3. CASE c = Idle /\ UNCHANGED <<code, registered>>
  <2>1. \A v \in Workers : AtMark(call'[v]) => call'[v] = call[v]
    <3>1. call'[w] = Idle /\ \A v \in Workers : v # w => call'[v] = call[v]
      BY <1>2, <1>3 DEF Now
    <3> QED
      BY <3>1, IdleCalm
  <2> QED
    BY <1>3, <2>1, SameUses
<1>4. CASE MayIncrement(call[w].code) /\ IncUsedCount(call[w].code)
           /\ IF c = Idle THEN Credits(w) ELSE registered' = registered
  <2> DEFINE k == call[w].code
  <2>0. k \in DOMAIN code
    BY <1>2
  <2>1. /\ DOMAIN code' = DOMAIN code /\ SameCode(k) /\ code'[k].used = code[k].used + 1
        /\ \A d \in DOMAIN code \ {k} : code'[d] = code[d]
    BY <1>4, <2>0, Counting
  <2>2. \A d \in DOMAIN code : code[d].used \in Nat /\ code[d].limit \in Nat
    BY CodeNumbers
  <2>3. \A d \in DOMAIN code' : store' = "mysql" /\ code'[d].limit > 0 => code'[d].used <= code'[d].limit
    <3>1. store = "mysql" /\ code[k].limit > 0 => code[k].used < code[k].limit
      BY <1>4 DEF MayIncrement
    <3>2. store = "mysql" /\ code'[k].limit > 0 => code'[k].used <= code'[k].limit
      BY <2>0, <2>1, <2>2, <3>1 DEF SameCode
    <3> QED
      BY <2>1, <3>2 DEF UsesInv
  <2>4. w \notin Markers(k) /\ \A d : w \notin Markers(d)
    BY <1>2 DEF Markers
  <2>5. ASSUME NEW d \in DOMAIN code
        PROVE  Cardinality(Reported(d)') + Cardinality(Markers(d)') <= code'[d].used
    <3>0. /\ IsFiniteSet(Markers(d)) /\ Cardinality(Markers(d)) \in Nat /\ Cardinality(Reported(d)) \in Nat
          /\ Cardinality(Reported(d)) + Cardinality(Markers(d)) <= code[d].used
          /\ code[d].used \in Nat
      BY <2>2, Finite DEF UsesInv
    <3>1. CASE c = Idle
      <4>1. Credits(w)
        BY <1>4, <3>1
      <4>2. Markers(d)' = Markers(d)
        <5>1. Markers(d)' = Markers(d) \ {w}
          BY <1>2, <3>1, IdleCalm, MarkersNow
        <5> QED
          BY <2>4, <5>1
      <4>3. CASE d = k
        <5>1. Cardinality(Reported(d)') \in Nat /\ Cardinality(Reported(d)') <= Cardinality(Reported(d)) + 1
          BY <1>2, <4>1, Crediting
        <5>2. code'[d].used = code[d].used + 1
          BY <2>1, <4>3
        <5> HIDE DEF k
        <5> QED
          BY <3>0, <4>2, <5>1, <5>2
      <4>4. CASE d # k
        <5>1. Reported(d)' = Reported(d)
          BY <1>2, <4>1, <4>4, Crediting
        <5>2. code'[d] = code[d]
          BY <2>1, <4>4
        <5> QED
          BY <3>0, <4>2, <5>1, <5>2
      <4> QED
        BY <4>3, <4>4
    <3>2. CASE c # Idle
      <4>1. Reported(d)' = Reported(d)
        BY <1>4, <3>2 DEF Reported
      <4>2. CASE d = k
        <5>1. Markers(d)' = Markers(d) \cup {w}
          BY <1>2, <3>2, <4>2, MarkersNow
        <5>2. Cardinality(Markers(d) \cup {w}) = Cardinality(Markers(d)) + 1
          BY <2>4, <3>0, FS_AddElement
        <5>3. code'[d].used = code[d].used + 1
          BY <2>1, <4>2
        <5> HIDE DEF k
        <5>4. Cardinality(Markers(d)') = Cardinality(Markers(d)) + 1
          BY <5>1, <5>2
        <5> QED
          BY <3>0, <4>1, <5>3, <5>4
      <4>3. CASE d # k
        <5>1. Markers(d)' = Markers(d) \ {w}
          BY <1>2, <3>2, <4>3, MarkersNow
        <5>2. Markers(d)' = Markers(d)
          BY <2>4, <5>1
        <5>3. code'[d] = code[d]
          BY <2>1, <4>3
        <5> QED
          BY <3>0, <4>1, <5>2, <5>3
      <4> QED
        BY <4>2, <4>3
    <3> QED
      BY <3>1, <3>2
  <2>6. IsFiniteSet(registered') /\ \A r \in registered' : r.code \in DOMAIN code'
    <3>1. CASE registered' = registered
      BY <2>1, <3>1 DEF UsesInv
    <3>2. CASE Credits(w)
      <4>1. IsFiniteSet(registered')
        BY <1>2, <3>2, Crediting
      <4>2. \A r \in registered' : r \in registered \/ r.code = k
        BY <3>2 DEF Credits
      <4> QED
        BY <2>0, <2>1, <4>1, <4>2 DEF UsesInv
    <3> QED
      BY <1>4, <3>1, <3>2
  <2> HIDE DEF k
  <2> QED
    BY <2>1, <2>3, <2>5, <2>6 DEF UsesInv
<1> QED
  BY <1>1, <1>3, <1>4 DEF Used

LEMMA MarkUses ==
  ASSUME TypeInv, UsesInv, NEW w \in Workers, UNCHANGED <<store, partnerVars>>, MarkUsedUp(w)
  PROVE  UsesInv'
<1>1. /\ call[w] \in RegisterCall /\ call[w].pc = "mark" /\ Now(w, Idle)
      /\ \/ UNCHANGED <<code, registered>>
         \/ MayMarkUsedUp /\ SetStatus(call[w].code, "used_up") /\ Credits(w)
  BY MarkSteps
<1>2. CASE UNCHANGED <<code, registered>>
  <2>1. \A v \in Workers : AtMark(call'[v]) => call'[v] = call[v]
    <3>1. call'[w] = Idle /\ \A v \in Workers : v # w => call'[v] = call[v]
      BY <1>1 DEF Now
    <3> QED
      BY <3>1, IdleCalm
  <2> QED
    BY <1>2, <2>1, SameUses
<1>3. CASE MayMarkUsedUp /\ SetStatus(call[w].code, "used_up") /\ Credits(w)
  <2> DEFINE k == call[w].code
  <2>0. k \in DOMAIN code /\ AtMark(call[w])
    BY <1>1, RegisterCode DEF AtMark, RegisterCall
  <2>1. /\ DOMAIN code' = DOMAIN code /\ SameCode(k) /\ code'[k].used = code[k].used
        /\ \A d \in DOMAIN code \ {k} : code'[d] = code[d]
    BY <1>3, <2>0, Marking DEF MayMarkUsedUp
  <2>2. ASSUME NEW d \in DOMAIN code
        PROVE  Cardinality(Reported(d)') + Cardinality(Markers(d)') <= code'[d].used
    <3>0. /\ IsFiniteSet(Markers(d)) /\ Cardinality(Markers(d)) \in Nat /\ Cardinality(Reported(d)) \in Nat
          /\ Cardinality(Reported(d)) + Cardinality(Markers(d)) <= code[d].used
          /\ code[d].used \in Nat /\ code'[d].used = code[d].used
      BY <2>1, CodeNumbers, Finite DEF UsesInv
    <3>1. Markers(d)' = Markers(d) \ {w}
      BY <1>1, IdleCalm, MarkersNow
    <3>2. CASE d = k
      <4>1. w \in Markers(d)
        BY <2>0, <3>2 DEF Markers
      <4>2. Cardinality(Markers(d) \ {w}) = Cardinality(Markers(d)) - 1
        BY <3>0, <4>1, FS_RemoveElement
      <4>3. Cardinality(Reported(d)') \in Nat /\ Cardinality(Reported(d)') <= Cardinality(Reported(d)) + 1
        BY <1>1, <1>3, Crediting
      <4>4. Cardinality(Markers(d)') = Cardinality(Markers(d)) - 1
        BY <3>1, <4>2
      <4> HIDE DEF k
      <4> QED
        BY <3>0, <4>3, <4>4
    <3>3. CASE d # k
      <4>1. w \notin Markers(d)
        BY <3>3 DEF Markers
      <4>2. Reported(d)' = Reported(d) /\ Markers(d)' = Markers(d)
        BY <1>1, <1>3, <3>1, <3>3, <4>1, Crediting
      <4> QED
        BY <3>0, <4>2
    <3> QED
      BY <3>2, <3>3
  <2>3. IsFiniteSet(registered') /\ \A r \in registered' : r.code \in DOMAIN code'
    <3>1. IsFiniteSet(registered')
      BY <1>1, <1>3, Crediting
    <3>2. \A r \in registered' : r \in registered \/ r.code = k
      BY <1>3 DEF Credits
    <3> QED
      BY <2>0, <2>1, <3>1, <3>2 DEF UsesInv
  <2>4. \A d \in DOMAIN code' : store' = "mysql" /\ code'[d].limit > 0 => code'[d].used <= code'[d].limit
    BY <2>0, <2>1 DEF UsesInv, SameCode
  <2> HIDE DEF k
  <2> QED
    BY <2>1, <2>2, <2>3, <2>4 DEF UsesInv
<1> QED
  BY <1>1, <1>2, <1>3

CodesInv == UsesInv /\ GivenInv

\* Codes stay and keep their partner.
CodesStay == \A k \in DOMAIN code : k \in DOMAIN code' /\ code'[k].partner = code[k].partner

LEMMA GivenOn ==
  ASSUME GivenInv, CodesStay, uncertain \subseteq uncertain',
         \A v \in Workers : AtGenerate(call[v]) =>
           \/ call'[v] = call[v] \/ call[v].partner \in uncertain'
           \/ \E k \in DOMAIN code' : code'[k].partner = call[v].partner,
         \A p \in DOMAIN partner' \ DOMAIN partner :
           \E v \in Workers : AtGenerate(call'[v]) /\ call'[v].partner = p
  PROVE  GivenInv'
<1> SUFFICES ASSUME NEW p \in DOMAIN partner', p \notin uncertain'
             PROVE  \/ \E k \in DOMAIN code' : code'[k].partner = p
                    \/ \E v \in Workers : AtGenerate(call'[v]) /\ call'[v].partner = p
  BY DEF GivenInv, HasCode, AtGenerate
<1>1. CASE p \notin DOMAIN partner
  BY <1>1
<1>2. ASSUME p \in DOMAIN partner, HasCode(p) PROVE \E k \in DOMAIN code' : code'[k].partner = p
  BY <1>2 DEF HasCode, CodesStay
<1>3. ASSUME p \in DOMAIN partner, NEW v \in Workers, AtGenerate(call[v]), call[v].partner = p
      PROVE  \/ \E k \in DOMAIN code' : code'[k].partner = p
             \/ \E x \in Workers : AtGenerate(call'[x]) /\ call'[x].partner = p
  BY <1>3
<1> QED
  BY <1>1, <1>2, <1>3 DEF GivenInv

LEMMA CodesStep ==
  ASSUME TypeInv, CodesInv, [Next]_vars
  PROVE  CodesInv'
<1>1. CASE Calm
  <2>1. CodesStay
    BY <1>1 DEF Calm, CodesStay
  <2> QED
    BY <1>1, <2>1, CalmUses, GivenOn DEF CodesInv, Calm
<1>2. ASSUME NEW w \in Workers, Count(w) \/ MarkUsedUp(w), UNCHANGED <<store, partnerVars>> PROVE CodesInv'
  <2>1. /\ call[w] \in RegisterCall /\ \E c : Now(w, c)
        /\ \/ code' = code \/ IncUsedCount(call[w].code)
           \/ MayMarkUsedUp /\ SetStatus(call[w].code, "used_up")
    <3>1. CASE Count(w)
      BY <3>1, CountSteps DEF Looks, Used
    <3>2. CASE MarkUsedUp(w)
      BY <3>2, MarkSteps
    <3> QED
      BY <1>2, <3>1, <3>2
  <2>2. call[w].code \in DOMAIN code /\ ~AtGenerate(call[w])
    BY <2>1, RegisterCode, IdleCalm
  <2>3. CodesStay
    <3>1. CASE code' = code
      BY <3>1 DEF CodesStay
    <3>2. CASE IncUsedCount(call[w].code)
      BY <1>2, <2>2, <3>2, Counting DEF CodesStay, SameCode
    <3>3. CASE MayMarkUsedUp /\ SetStatus(call[w].code, "used_up")
      BY <1>2, <2>2, <3>3, Marking DEF CodesStay, SameCode, MayMarkUsedUp
    <3> QED
      BY <2>1, <3>1, <3>2, <3>3
  <2>4. \A v \in Workers : AtGenerate(call[v]) => call'[v] = call[v]
    BY <2>1, <2>2 DEF Now
  <2>5. UsesInv'
    BY <1>2, CountUses, MarkUses DEF CodesInv
  <2>6. uncertain' = uncertain /\ partner' = partner
    BY <1>2 DEF partnerVars
  <2> QED
    BY <2>3, <2>4, <2>5, <2>6, GivenOn DEF CodesInv
<1>3. ASSUME NEW w \in Workers, UNCHANGED <<store, customerVars>>,
             ApplyGenerate(w) \/ \E p \in DOMAIN partner, limit \in Limits : GenerateWith(w, p, limit)
      PROVE  CodesInv'
  <2>1. /\ Now(w, Idle)
        /\ \E p \in DOMAIN partner, limit \in Nat :
             Generate(p, limit) /\ (AtGenerate(call[w]) => p = call[w].partner)
    <3>1. CASE ApplyGenerate(w)
      <4>1. Now(w, Idle) /\ call[w].op = "apply" /\ call[w].pc = "generate" /\ Names(call[w])
        BY <3>1, EndSteps DEF ApplyGenerate
      <4> QED
        BY <3>1, <4>1 DEF ApplyGenerate, Names
    <3>2. ASSUME NEW p \in DOMAIN partner, NEW limit \in Limits, GenerateWith(w, p, limit)
          PROVE  Now(w, Idle) /\ Generate(p, limit) /\ ~AtGenerate(call[w]) /\ limit \in Nat
      BY <3>2, QuietSteps, IdleCalm, InvitationAssumption DEF GenerateWith
    <3> QED
      BY <1>3, <3>1, <3>2
  <2>2. PICK p \in DOMAIN partner, limit \in Nat :
          Generate(p, limit) /\ (AtGenerate(call[w]) => p = call[w].partner)
    BY <2>1
  <2>3. PICK k \in Codes \ DOMAIN code :
          /\ DOMAIN code' = DOMAIN code \cup {k} /\ code' \in [DOMAIN code' -> CodeRow']
          /\ code'[k].partner = p /\ code'[k].limit = limit /\ code'[k].used = 0
          /\ \A d \in DOMAIN code : code'[d] = code[d]
    <3>1. store' = store
      BY <1>3
    <3> QED
      BY <2>2, <3>1, Generating
  <2>4. call'[w] = Idle /\ \A v \in Workers : v # w => call'[v] = call[v]
    BY <2>1 DEF Now
  <2>5. \A v \in Workers : AtMark(call'[v]) => call'[v] = call[v]
    BY <2>4, IdleCalm
  <2>6. registered' = registered /\ UNCHANGED <<uncertain, partner>>
    BY <1>3 DEF customerVars, ApplyGenerate, GenerateWith, partnerVars
  <2>7. UsesInv'
    BY <1>3, <2>3, <2>5, <2>6, IssueUses DEF CodesInv
  <2>8. CodesStay
    BY <2>3 DEF CodesStay
  <2>9. \A v \in Workers : AtGenerate(call[v]) =>
           call'[v] = call[v] \/ \E d \in DOMAIN code' : code'[d].partner = call[v].partner
    BY <2>2, <2>3, <2>4
  <2> QED
    BY <2>6, <2>7, <2>8, <2>9, GivenOn DEF CodesInv
<1>4. ASSUME NEW k \in DOMAIN code, UNCHANGED <<store, customerVars, partnerVars>>,
             Expire(k) \/ \E w \in Workers : Revoke(w, k)
      PROVE  CodesInv'
  <2>1. /\ DOMAIN code' = DOMAIN code /\ SameCode(k) /\ code'[k].used = code[k].used
        /\ \A d \in DOMAIN code \ {k} : code'[d] = code[d]
    BY <1>4, Marking, Expiring DEF Revoke, CodeStatus
  <2>2. \A v \in Workers : call'[v] = call[v] \/ (call'[v] = Idle /\ call[v] = Idle)
    <3>1. CASE Expire(k)
      BY <3>1 DEF Expire, callVars
    <3>2. ASSUME NEW w \in Workers, Revoke(w, k) PROVE \A v \in Workers : call'[v] = call[v]
      BY <3>2, QuietSteps DEF Revoke, Now
    <3> QED
      BY <1>4, <3>1, <3>2
  <2>3. CodesStay /\ UNCHANGED <<registered, uncertain, partner>>
    BY <1>4, <2>1 DEF CodesStay, SameCode, customerVars, partnerVars
  <2>4. \A d \in DOMAIN code : code'[d].used = code[d].used /\ code'[d].limit = code[d].limit
    BY <2>1 DEF SameCode
  <2>5. UsesInv'
    BY <1>4, <2>1, <2>2, <2>3, <2>4, SameUses DEF CodesInv
  <2> QED
    BY <2>2, <2>3, <2>5, GivenOn DEF CodesInv
<1> QED
  BY <1>1, <1>2, <1>3, <1>4, Steps

LEMMA CodesGiven ==
  ASSUME CodesInv, TypeInv
  PROVE  CodesHold
<1>1. ApplicantHasCode
  BY DEF CodesInv, GivenInv, ApplicantHasCode, Serving, AtGenerate
<1>2. UsesCounted
  <2> SUFFICES ASSUME NEW k \in DOMAIN code
               PROVE  /\ Cardinality({r \in registered : r.code = k}) <= code[k].used
                      /\ store = "mysql" /\ code[k].limit > 0 => code[k].used <= code[k].limit
    BY DEF UsesCounted
  <2>1. Cardinality(Reported(k)) \in Nat /\ Cardinality(Markers(k)) \in Nat /\ code[k].used \in Nat
    BY Finite, CodeNumbers DEF CodesInv
  <2>2. /\ Cardinality(Reported(k)) + Cardinality(Markers(k)) <= code[k].used
        /\ store = "mysql" /\ code[k].limit > 0 => code[k].used <= code[k].limit
    BY DEF CodesInv, UsesInv
  <2>3. Cardinality(Reported(k)) <= code[k].used
    BY <2>1, <2>2
  <2> QED
    BY <2>2, <2>3 DEF Reported
<1> QED
  BY <1>1, <1>2 DEF CodesHold

LEMMA TypeGiven ==
  ASSUME TypeInv
  PROVE  TypeOK
<1>1. InvitationTypeOK
  BY CodeRows, RowsKept DEF InvitationTypeOK, TypeInv, Shape
<1>2. log \in Seq(ChangeLogRow)
  <2>1. \A l \in DOMAIN log : log[l] \in ChangeLogRow
    BY Rows DEF LogRow, ChangeLogRow
  <2> HIDE DEF ChangeLogRow, LogRow
  <2> QED
    BY <2>1, Rows
<1>3. CustomerTypeOK
  BY <1>2 DEF CustomerTypeOK, TypeInv, Shape, Refers
<1>4. members \in [DOMAIN partner -> SUBSET DOMAIN customer]
  <2>1. members \in Seq(SUBSET Nat) /\ DOMAIN members = DOMAIN partner
        /\ \A p \in DOMAIN members : members[p] \in SUBSET DOMAIN customer
    BY PartnerRows
  <2>2. members = [p \in DOMAIN members |-> members[p]]
    BY <2>1
  <2> QED
    BY <2>1, <2>2
<1> QED
  BY <1>1, <1>3, <1>4 DEF TypeOK, PartnerTypeOK, TypeInv, Shape, Refers

LEMMA Starting ==
  ASSUME Init
  PROVE  TypeInv /\ CodesInv
<1>1. Served /\ \A w \in Workers : call[w] = Idle
  BY IdleNames DEF Init, Served
<1>2. log \in Seq(LogRow) /\ \A l \in DOMAIN log : log[l].id \in DOMAIN customer
  <2>1. customer \in Seq(CustomerRow) /\ DOMAIN customer \subseteq Nat
    <3>1. customer \in Seq(CustomerRow)
      BY OnboardingAssumption DEF Init
    <3> HIDE DEF CustomerRow
    <3> QED
      BY <3>1
  <2> DEFINE Pending == [id : DOMAIN customer, to : Nat \ {0}, status : LogStatus \ {"completed"}]
  <2>2. log \in Seq(Pending)
    BY OnboardingAssumption DEF Init
  <2>3. \A l \in DOMAIN log : log[l] \in Pending
    <3> HIDE DEF Pending
    <3> QED
      BY <2>2
  <2>4. \A l \in DOMAIN log : log[l] \in LogRow /\ log[l].id \in DOMAIN customer
    BY <2>1, <2>3 DEF LogRow
  <2> HIDE DEF LogRow
  <2> QED
    BY <2>2, <2>4
<1>3. code \in [DOMAIN code -> CodeRow] /\ DOMAIN code \subseteq Codes
  <2>1. \A k \in DOMAIN code : code[k] \in
          [partner : Nat \ {0}, limit : Nat, used : Nat, status : {"active", "revoked"},
           expires : {"never", "later", "past"}]
    BY OnboardingAssumption DEF Init
  <2>2. \A k \in DOMAIN code : code[k] \in CodeRow
    BY <2>1 DEF CodeRow, CodeStatus
  <2>3. code = [k \in DOMAIN code |-> code[k]]
    BY OnboardingAssumption DEF Init
  <2> HIDE DEF CodeRow
  <2> QED
    BY <2>2, <2>3, OnboardingAssumption DEF Init
<1>4. /\ partner \in Seq(PartnerRow) /\ members \in Seq(SUBSET Nat) /\ Len(members) = Len(partner)
      /\ \A p \in DOMAIN members : members[p] = {}
  <2>1. partner \in Seq(PartnerRow) /\ members = [p \in DOMAIN partner |-> {}]
    BY OnboardingAssumption DEF Init
  <2> HIDE DEF PartnerRow
  <2>2. DOMAIN partner = 1 .. Len(partner) /\ Len(partner) \in Nat
    BY <2>1
  <2>3. members \in Seq(SUBSET Nat) /\ Len(members) = Len(partner)
    <3>1. members \in [1 .. Len(partner) -> SUBSET Nat]
      BY <2>1, <2>2
    <3> QED
      BY <2>2, <3>1
  <2> QED
    BY <2>1, <2>3
<1>5. Shape
  BY <1>1, <1>2, <1>3, <1>4, InvitationAssumption, OnboardingAssumption DEF Init, Shape
<1>6. TypeInv
  BY <1>1, <1>2, <1>4, <1>5, IdleNames DEF TypeInv, Refers, Init
<1>7. UsesInv
  <2>1. registered = {} /\ \A k : Reported(k) = {} /\ Markers(k) = {}
    BY <1>1, IdleCalm DEF Init, Reported, Markers
  <2>2. \A k \in DOMAIN code : Cardinality(Reported(k)) + Cardinality(Markers(k)) <= code[k].used
    BY <1>6, <2>1, FS_EmptySet, CodeNumbers
  <2> QED
    BY <2>1, <2>2, FS_EmptySet, OnboardingAssumption DEF UsesInv, Init
<1>8. GivenInv
  BY OnboardingAssumption DEF GivenInv, HasCode, Init
<1> QED
  BY <1>6, <1>7, <1>8 DEF CodesInv

\* Every variable keeps its shape, whatever is registered, transferred, erased,
\* applied for and terminated at the same time, and cut short.
THEOREM TypeCorrect == Spec => []TypeOK
<1>1. Init => TypeInv
  BY Starting
<1>2. TypeInv /\ [Next]_vars => TypeInv'
  BY TypeStep
<1>3. TypeInv => TypeOK
  BY TypeGiven
<1> QED
  BY <1>1, <1>2, <1>3, PTL DEF Spec

\* Uses are counted before they are reported and kept within their limit, and
\* every applicant has a code or was cut short, for any workers and codes.
THEOREM CodesCorrect == Spec => []CodesHold
<1>1. Init => TypeInv /\ CodesInv
  BY Starting
<1>2. TypeInv /\ CodesInv /\ [Next]_vars => (TypeInv /\ CodesInv)'
  BY TypeStep, CodesStep
<1>3. TypeInv /\ CodesInv => CodesHold
  BY CodesGiven
<1> QED
  BY <1>1, <1>2, <1>3, PTL DEF Spec

-----------------------------------------------------------------------------
(* Customers: the steps that touch them.                                   *)

\* Calls that neither apply a transfer, orphan customers nor have deleted one.
Neutral(c) == c.op \notin {"advance", "terminate"} /\ (c.op = "erase" => c.pc = "mark")

\* The logs go on, and none is completed.
LogsKept ==
  /\ DOMAIN log \subseteq DOMAIN log'
  /\ \A l \in DOMAIN log : /\ log'[l].id = log[l].id /\ log'[l].to = log[l].to
                           /\ log'[l].status = "completed" <=> log[l].status = "completed"
  /\ \A l \in DOMAIN log' \ DOMAIN log : log'[l].status # "completed"
MembersKept ==
  /\ DOMAIN partner \subseteq DOMAIN partner' /\ DOMAIN members = DOMAIN partner
  /\ \A p \in DOMAIN partner' :
       IF p \in DOMAIN partner THEN members'[p] = members[p] ELSE members'[p] = {}
RowsStay == DOMAIN customer \subseteq DOMAIN customer' /\ \A i \in DOMAIN customer : customer'[i] = customer[i]

\* A step that has to do with none of the three.
Plain ==
  /\ RowsStay /\ LogsKept /\ MembersKept /\ UNCHANGED <<fyGroup, erased, unsure>>
  /\ uncertain \subseteq uncertain'
  /\ \A v \in Workers : call'[v] = call[v] \/ (Neutral(call[v]) /\ Neutral(call'[v]))

LEMMA NeutralCalls ==
  /\ Neutral(Idle)
  /\ \A c \in RegisterCall \cup DirectCall \cup RequestCall \cup ApplyCall \cup GenerateCall : Neutral(c)
  /\ \A c \in EraseCall : c.pc = "mark" => Neutral(c)
BY DEF Idle, Neutral, RegisterCall, DirectCall, RequestCall, ApplyCall, GenerateCall, EraseCall

LEMMA KeptPlain ==
  ASSUME TypeInv
  PROVE  /\ log' = log => LogsKept
         /\ UNCHANGED <<partner, members>> => MembersKept
         /\ customer' = customer => RowsStay
         /\ customer' = customer \/ Joins => RowsStay
<1>1. customer \in Seq(CustomerRow) /\ DOMAIN members = DOMAIN partner
  BY Rows, PartnerRows
<1>2. ASSUME NEW row \in CustomerRow, customer' = Append(customer, row) PROVE RowsStay
  <2> HIDE DEF CustomerRow
  <2> QED
    BY <1>1, <1>2, Appended DEF RowsStay
<1>3. Joins => RowsStay
  BY <1>2 DEF Joins
<1> QED
  BY <1>1, <1>3 DEF LogsKept, MembersKept, RowsStay

LEMMA PlainNow ==
  ASSUME TypeInv, RowsStay, LogsKept, MembersKept, UNCHANGED <<fyGroup, erased, unsure>>,
         uncertain \subseteq uncertain',
         NEW w \in Workers, NEW c, Now(w, c), Neutral(c), Neutral(call[w])
  PROVE  Plain
<1>1. call'[w] = c /\ \A v \in Workers : v # w => call'[v] = call[v]
  BY DEF Now
<1> QED
  BY <1>1 DEF Plain

LEMMA QuietPlain ==
  ASSUME TypeInv, NEW w \in Workers, UNCHANGED <<store, partnerVars>>, Quiet(w)
  PROVE  Plain \/ Reload(w)
<1>1. Kept
  BY QuietStepType
<1>2. /\ RowsStay /\ LogsKept /\ MembersKept /\ UNCHANGED <<fyGroup, erased, unsure>>
      /\ uncertain \subseteq uncertain'
  BY <1>1, KeptPlain DEF Kept, customerVars, partnerVars
<1>3. ASSUME NEW u \in Users, RegisterDirect(w, u) PROVE Plain
  BY <1>2, <1>3, QuietSteps, NeutralCalls, PlainNow
<1>4. ASSUME NEW u \in Users, NEW k \in DOMAIN code, Register(w, u, k) PROVE Plain
  <2>1. PICK c \in RegisterCall : Now(w, c) /\ call[w] = Idle
    BY <1>4, QuietSteps
  <2> QED
    BY <1>2, <2>1, NeutralCalls, PlainNow
<1>5. ASSUME RegisterResolve(w) \/ Consume(w) PROVE Plain
  <2>1. \E c, from, to : Looks(w, c, from, to)
    BY <1>5, LookSteps DEF RegisterResolve, Consume
  <2>2. PICK c, from, to : Looks(w, c, from, to)
    BY <2>1
  <2> QED
    BY <1>2, <2>2, NeutralCalls, PlainNow DEF Looks
<1>6. ASSUME NEW i \in DOMAIN customer, NEW p \in DOMAIN partner, SubmitErase(w, i, p) PROVE Plain
  <2>1. PICK c \in EraseCall \cup {Idle} : Now(w, c) /\ call[w] = Idle /\ (c # Idle => c.pc = "mark")
    BY <1>6, QuietSteps
  <2> QED
    BY <1>2, <2>1, NeutralCalls, PlainNow
<1>7. ASSUME NEW i \in DOMAIN customer, NEW p \in DOMAIN partner, NEW to \in DOMAIN partner,
             RequestTransfer(w, i, p, to)
      PROVE  Plain
  <2>1. PICK c \in RequestCall : Now(w, c) /\ call[w] = Idle
    BY <1>7, QuietSteps
  <2> QED
    BY <1>2, <2>1, NeutralCalls, PlainNow
<1> QED
  BY <1>3, <1>4, <1>5, <1>6, <1>7 DEF Quiet

\* An advance that does not complete its log.
Completes(w, l) ==
  /\ \E c \in AdvanceCall : Now(w, c) /\ c.pc = "apply" /\ c.id = log[l].id /\ c.to = log[l].to
  /\ call[w] = Idle /\ Advances(w, l, "completed")
  /\ UNCHANGED <<customer, fyGroup, erased, unsure, partner, members, uncertain>>

LEMMA AdvancePlain ==
  ASSUME TypeInv, NEW w \in Workers, UNCHANGED <<store, partnerVars>>,
         NEW l \in DOMAIN log, NEW stage \in Stages, Advance(w, l, stage)
  PROVE  Plain \/ Completes(w, l)
<1>1. PICK c \in AdvanceCall \cup {Idle}, status \in LogStatus :
        /\ Now(w, c) /\ Advances(w, l, status) /\ call[w] = Idle
        /\ c # Idle <=> status = "completed"
        /\ c # Idle => c.pc = "apply" /\ c.id = log[l].id /\ c.to = log[l].to
  BY AdvanceSteps
<1>2. UNCHANGED <<customer, fyGroup, erased, unsure, partner, members, uncertain>>
  BY DEF Advance, partnerVars
<1>3. CASE c # Idle
  BY <1>1, <1>2, <1>3 DEF Completes
<1>4. CASE c = Idle
  <2>1. log[l].status # "completed" /\ status # "completed"
    BY <1>1, <1>4 DEF Advances
  <2>2. LogsKept
    BY <1>1, <2>1, Advancing DEF LogsKept
  <2> QED
    BY <1>1, <1>2, <1>4, <2>2, KeptPlain, NeutralCalls, PlainNow
<1> QED
  BY <1>3, <1>4

LEMMA LogPlain ==
  ASSUME TypeInv, NEW w \in Workers, UNCHANGED <<store, partnerVars>>, InsertChangeLog(w)
  PROVE  Plain
<1>1. PICK row \in LogRow : Now(w, Idle) /\ log' = Append(log, row) /\ row.status = "pending_a"
  BY LogType
<1>2. LogsKept
  <2>1. log \in Seq(LogRow) /\ row \in LogRow /\ row.status # "completed"
    BY <1>1, Rows
  <2> HIDE DEF LogRow
  <2>2. /\ DOMAIN log = 1 .. Len(log) /\ DOMAIN log' = 1 .. (Len(log) + 1) /\ Len(log) \in Nat
        /\ log'[Len(log) + 1] = row /\ \A l \in DOMAIN log : log'[l] = log[l]
    BY <1>1, <2>1, Appended
  <2>3. \A l \in DOMAIN log' \ DOMAIN log : l = Len(log) + 1
    BY <2>2
  <2> QED
    BY <2>1, <2>2, <2>3 DEF LogsKept
<1>3. Neutral(call[w])
  BY EndSteps DEF InsertChangeLog, Neutral
<1>4. UNCHANGED <<customer, fyGroup, erased, unsure, partner, members, uncertain>>
  BY DEF InsertChangeLog, partnerVars
<1> QED
  BY <1>1, <1>2, <1>3, <1>4, KeptPlain, NeutralCalls, PlainNow

LEMMA RegisterPlain ==
  ASSUME TypeInv, NEW w \in Workers, UNCHANGED <<store, partnerVars>>,
         RegisterInsert(w) \/ InsertDirect(w) \/ Count(w) \/ MarkUsedUp(w)
  PROVE  Plain
<1>1. UNCHANGED <<log, fyGroup, erased, unsure, partner, members, uncertain>>
  BY DEF RegisterInsert, InsertDirect, Count, MarkUsedUp, partnerVars
<1>2. customer' = customer \/ Joins
  BY JoinSteps, DirectSteps DEF Count, MarkUsedUp
<1>3. \E c \in RegisterCall \cup {Idle} : Now(w, c) /\ call[w] \in RegisterCall \cup DirectCall
  <2>1. CASE RegisterInsert(w)
    BY <2>1, JoinSteps
  <2>2. CASE InsertDirect(w)
    BY <2>2, DirectSteps
  <2>3. CASE Count(w)
    BY <2>3, CountSteps DEF Looks
  <2>4. CASE MarkUsedUp(w)
    BY <2>4, MarkSteps
  <2> QED
    BY <2>1, <2>2, <2>3, <2>4
<1> QED
  BY <1>1, <1>2, <1>3, KeptPlain, NeutralCalls, PlainNow

LEMMA PartnerPlain ==
  ASSUME TypeInv, NEW w \in Workers, UNCHANGED <<store, customerVars>>, PartnerCalls(w)
  PROVE  Plain \/ \E p \in DOMAIN partner : Terminate(w, p)
<1>1. /\ RowsStay /\ LogsKept /\ UNCHANGED <<fyGroup, erased, unsure>>
  BY KeptPlain DEF customerVars
<1>2. ASSUME NEW e \in Applicants, Apply(w, e) PROVE Plain
  <2>1. PICK c \in ApplyCall : Now(w, c) /\ call[w] = Idle
    BY <1>2, QuietSteps
  <2>2. MembersKept /\ uncertain \subseteq uncertain'
    BY <1>2, KeptPlain DEF Apply, partnerVars
  <2> QED
    BY <1>1, <2>1, <2>2, NeutralCalls, PlainNow
<1>3. ASSUME ApplyInsert(w) PROVE Plain
  <2>0. call[w] \in ApplyCall /\ uncertain' = uncertain
    BY <1>3, ApplyInsertStep DEF ApplyInsert
  <2>1. CASE Applies(w)
    <3>1. PICK c \in GenerateCall : Now(w, c)
      BY <2>1 DEF Applies
    <3>2. MembersKept
      BY <2>1, ApplyingRows, PartnerRows DEF MembersKept
    <3> QED
      BY <1>1, <2>0, <3>1, <3>2, NeutralCalls, PlainNow
  <2>2. CASE Now(w, Idle) /\ UNCHANGED <<partner, members>>
    BY <1>1, <2>0, <2>2, KeptPlain, NeutralCalls, PlainNow
  <2> QED
    BY <1>3, <2>1, <2>2, ApplyInsertStep
<1>4. ASSUME ApplyGenerate(w) PROVE Plain
  <2>1. Now(w, Idle) /\ Neutral(call[w])
    BY <1>4, EndSteps DEF ApplyGenerate, Neutral
  <2>2. MembersKept /\ uncertain \subseteq uncertain'
    BY <1>4, KeptPlain DEF ApplyGenerate, partnerVars
  <2> QED
    BY <1>1, <2>1, <2>2, NeutralCalls, PlainNow
<1>5. ASSUME NEW p \in DOMAIN partner, Once(w),
             \/ \E limit \in Limits : GenerateWith(w, p, limit)
             \/ Approve(w, p) \/ Reject(w, p) \/ Suspend(w, p) \/ Freeze(w, p)
      PROVE  Plain
  <2>1. Now(w, Idle) /\ call[w] = Idle
    BY <1>5, QuietSteps
  <2>2. members' = members /\ uncertain' = uncertain /\ DOMAIN partner' = DOMAIN partner
    BY <1>5 DEF GenerateWith, Approve, Reject, Suspend, Freeze, TransitionFrozen, Becomes, partnerVars
  <2>3. MembersKept
    BY <2>2, PartnerRows DEF MembersKept
  <2> QED
    BY <1>1, <2>1, <2>2, <2>3, NeutralCalls, PlainNow
<1>6. ASSUME NEW p \in DOMAIN partner,
             \/ \E limit \in Limits : GenerateWith(w, p, limit)
             \/ Approve(w, p) \/ Reject(w, p) \/ Suspend(w, p) \/ Freeze(w, p)
      PROVE  Once(w)
  BY <1>6 DEF GenerateWith, Approve, Reject, Suspend, Freeze, TransitionFrozen
<1> QED
  BY <1>2, <1>3, <1>4, <1>5, <1>6 DEF PartnerCalls

\* The others, one by one.
Named(w) ==
  \/ \E l \in DOMAIN log : Completes(w, l)
  \/ /\ ApplyTransfer(w) \/ Reload(w) \/ UpdateUserGroup(w) \/ MarkDeleted(w) \/ EraseUser(w)
     /\ UNCHANGED <<store, partnerVars>>
  \/ \E p \in DOMAIN partner : Terminate(w, p) /\ UNCHANGED <<store, customerVars>>
  \/ TerminateOrphans(w)
  \/ Fail(w)

LEMMA PlainSteps ==
  ASSUME TypeInv, [Next]_vars
  PROVE  Plain \/ \E w \in Workers : Named(w)
<1>1. ASSUME NEW w \in Workers, CustomerCalls(w) /\ UNCHANGED <<store, partnerVars>>
      PROVE  \/ Plain \/ \E l \in DOMAIN log : Completes(w, l)
             \/ ApplyTransfer(w) \/ Reload(w) \/ UpdateUserGroup(w) \/ MarkDeleted(w) \/ EraseUser(w)
  BY <1>1, QuietPlain, AdvancePlain, LogPlain, RegisterPlain DEF CustomerCalls, Quiet
<1>2. ASSUME NEW w \in Workers, NEW i \in DOMAIN customer, NEW p \in DOMAIN partner,
             SubmitErase(w, i, p) \/ \E to \in DOMAIN partner : RequestTransfer(w, i, p, to),
             UNCHANGED <<store, partnerVars>>
      PROVE  Plain \/ Reload(w)
  BY <1>2, QuietPlain DEF Quiet
<1>3. ASSUME NEW w \in Workers, PartnerCalls(w) /\ UNCHANGED <<store, customerVars>>
      PROVE  Plain \/ \E p \in DOMAIN partner : Terminate(w, p)
  BY <1>3, PartnerPlain
<1>4. ASSUME UNCHANGED vars PROVE Plain
  BY <1>4, KeptPlain DEF vars, Plain
<1>5. ASSUME NEW k \in DOMAIN code, UNCHANGED <<store, customerVars, partnerVars>>,
             Expire(k) \/ \E w \in Workers : Revoke(w, k)
      PROVE  Plain
  <2>1. /\ RowsStay /\ LogsKept /\ MembersKept /\ UNCHANGED <<fyGroup, erased, unsure>>
        /\ uncertain \subseteq uncertain'
    BY <1>5, KeptPlain DEF customerVars, partnerVars
  <2>2. \A v \in Workers : call'[v] = call[v]
    <3>1. CASE Expire(k)
      BY <3>1 DEF Expire, callVars
    <3>2. ASSUME NEW w \in Workers, Revoke(w, k) PROVE \A v \in Workers : call'[v] = call[v]
      BY <3>2, QuietSteps DEF Revoke, Now
    <3> QED
      BY <1>5, <3>1, <3>2
  <2> QED
    BY <2>1, <2>2 DEF Plain
<1> QED
  BY <1>1, <1>2, <1>3, <1>4, <1>5 DEF Next, Named

-----------------------------------------------------------------------------
(* Transfers behind their logs.                                            *)

Completed(i, p) == \E l \in DOMAIN log : log[l].id = i /\ log[l].to = p /\ log[l].status = "completed"
\* A transfer is applied behind its completed log.
Backed == \A w \in Workers : call[w].op = "advance" => Completed(call[w].id, call[w].to)

LEMMA LogsGo ==
  ASSUME TypeInv, LogsKept \/ \E w \in Workers, l \in DOMAIN log : Completes(w, l)
  PROVE  \A i, p : Completed(i, p) => Completed(i, p)'
<1>1. CASE LogsKept
  BY <1>1 DEF LogsKept, Completed
<1>2. ASSUME NEW w \in Workers, NEW l \in DOMAIN log, Completes(w, l)
      PROVE  \A i, p : Completed(i, p) => Completed(i, p)'
  <2>1. /\ DOMAIN log' = DOMAIN log
        /\ log'[l].id = log[l].id /\ log'[l].to = log[l].to /\ log'[l].status = "completed"
        /\ \A m \in DOMAIN log \ {l} : log'[m] = log[m]
    BY <1>2, Advancing DEF Completes
  <2> QED
    BY <2>1 DEF Completed
<1> QED
  BY <1>1, <1>2

LEMMA ReloadSteps ==
  ASSUME TypeInv, NEW w \in Workers, Reload(w)
  PROVE  /\ call[w] \in AdvanceCall /\ call[w].pc = "reload"
         /\ \/ Proceeds(w, "reload", "group") /\ OfPartner(call[w].id, call[w].to)
            \/ Now(w, Idle) /\ ~OfPartner(call[w].id, call[w].to)
<1>1. CASE OfPartner(call[w].id, call[w].to)
  BY <1>1, ProceedSteps DEF Reload, Proceeds
<1>2. CASE ~OfPartner(call[w].id, call[w].to)
  BY <1>2, EndSteps, Kinds DEF Reload
<1> QED
  BY <1>1, <1>2

LEMMA GroupSteps ==
  ASSUME TypeInv, NEW w \in Workers, UpdateUserGroup(w)
  PROVE  /\ call[w] \in AdvanceCall /\ call[w].pc = "group" /\ Now(w, Idle)
         /\ call[w].id \in DOMAIN customer
         /\ fyGroup' = [fyGroup EXCEPT ![customer[call[w].id].user] = call[w].to]
<1>1. Now(w, Idle) /\ call[w].op = "advance" /\ call[w].pc = "group" /\ call[w] \in AnyCall /\ Names(call[w])
  BY EndSteps DEF UpdateUserGroup
<1> QED
  BY <1>1, Kinds DEF UpdateUserGroup, Names

LEMMA EraseUserSteps ==
  ASSUME TypeInv, NEW w \in Workers, EraseUser(w)
  PROVE  /\ call[w] \in EraseCall /\ call[w].pc = "fyapi" /\ Now(w, Idle)
         /\ call[w].id \in DOMAIN customer
         /\ erased' = erased \cup {customer[call[w].id].user}
<1>1. Now(w, Idle) /\ call[w].op = "erase" /\ call[w].pc = "fyapi" /\ call[w] \in AnyCall /\ Names(call[w])
  BY EndSteps DEF EraseUser
<1> QED
  BY <1>1, Kinds DEF EraseUser, Names

LEMMA OrphanSteps ==
  ASSUME TypeInv, NEW w \in Workers, TerminateOrphans(w)
  PROVE  call[w] \in TerminateCall /\ Now(w, Idle) /\ OrphanByPartner(call[w].partner)
<1>1. Now(w, Idle) /\ call[w].op = "terminate" /\ call[w] \in AnyCall
  BY EndSteps DEF TerminateOrphans
<1> QED
  BY <1>1, Kinds DEF TerminateOrphans

\* What every named step leaves alone, and the calls it leads to.
LEMMA NamedCalls ==
  ASSUME TypeInv, NEW w \in Workers, Named(w)
  PROVE  /\ \E c \in AnyCall :
              /\ Now(w, c)
              /\ c.op = "advance" =>
                   \/ call[w].op = "advance" /\ c.id = call[w].id /\ c.to = call[w].to
                   \/ \E l \in DOMAIN log : Completes(w, l) /\ c.id = log[l].id /\ c.to = log[l].to
         /\ LogsKept \/ \E l \in DOMAIN log : Completes(w, l)
<1>1. ASSUME NEW l \in DOMAIN log, Completes(w, l)
      PROVE  \E c \in AnyCall : Now(w, c) /\ c.id = log[l].id /\ c.to = log[l].to
  <2>1. PICK c \in AdvanceCall : Now(w, c) /\ c.id = log[l].id /\ c.to = log[l].to
    BY <1>1 DEF Completes
  <2> QED
    BY <2>1, IdleCalm
<1>2. ASSUME NEW from, NEW to, Proceeds(w, from, to)
      PROVE  \E c \in AnyCall : Now(w, c) /\ call[w].op = "advance" /\ c.id = call[w].id /\ c.to = call[w].to
  <2>1. PICK c \in AdvanceCall : Now(w, c) /\ c.id = call[w].id /\ c.to = call[w].to /\ call[w] \in AdvanceCall
    BY <1>2 DEF Proceeds
  <2> QED
    BY <2>1, IdleCalm DEF AdvanceCall
<1>3. ASSUME Now(w, Idle) PROVE \E c \in AnyCall : Now(w, c) /\ c.op # "advance"
  BY <1>3, IdleCalm DEF Idle
<1>4. ASSUME NEW c \in EraseCall \cup TerminateCall, Now(w, c) PROVE \E d \in AnyCall : Now(w, d) /\ d.op # "advance"
  BY <1>4, IdleCalm DEF EraseCall, TerminateCall
<1>5. CASE ~\E l \in DOMAIN log : Completes(w, l)
  <2>1. log' = log
    BY <1>5 DEF Named, ApplyTransfer, Reload, UpdateUserGroup, MarkDeleted, EraseUser, TerminateOrphans,
                Fail, customerVars
  <2>2. LogsKept
    BY <2>1, KeptPlain
  <2>3. CASE ApplyTransfer(w)
    BY <1>2, <2>2, <2>3, ApplyStep
  <2>4. CASE Reload(w)
    BY <1>2, <1>3, <2>2, <2>4, ReloadSteps
  <2>5. CASE MarkDeleted(w)
    BY <1>4, <2>2, <2>5, EraseSteps
  <2>6. ASSUME NEW p \in DOMAIN partner, Terminate(w, p) PROVE \E d \in AnyCall : Now(w, d) /\ d.op # "advance"
    BY <1>4, <2>6, Terminating DEF Terminates
  <2>7. CASE UpdateUserGroup(w) \/ EraseUser(w) \/ TerminateOrphans(w) \/ Fail(w)
    BY <1>3, <2>2, <2>7, GroupSteps, EraseUserSteps, OrphanSteps, FailStep
  <2> QED
    BY <1>5, <2>2, <2>3, <2>4, <2>5, <2>6, <2>7 DEF Named
<1> QED
  BY <1>1, <1>5

BackedNow(v) == \E i, p : i = call'[v].id /\ p = call'[v].to /\ Completed(i, p)'
LEMMA BackedOn ==
  ASSUME \A v \in Workers : call'[v].op = "advance" => BackedNow(v)
  PROVE  Backed'
BY DEF Backed, BackedNow, Completed

LEMMA BackedStep ==
  ASSUME TypeInv, Backed, [Next]_vars
  PROVE  Backed' /\ \A i, p : Completed(i, p) => Completed(i, p)'
<1>1. CASE Plain
  <2>1. \A i, p : Completed(i, p) => Completed(i, p)'
    BY <1>1, LogsGo DEF Plain
  <2>2. \A v \in Workers : call'[v].op = "advance" => call'[v] = call[v]
    BY <1>1 DEF Plain, Neutral
  <2>3. ASSUME NEW v \in Workers, call'[v].op = "advance" PROVE BackedNow(v)
    <3>1. PICK i, p : i = call[v].id /\ p = call[v].to
      OBVIOUS
    <3>2. Completed(i, p)'
      BY <2>1, <2>2, <2>3, <3>1 DEF Backed
    <3> QED
      BY <2>2, <2>3, <3>1, <3>2 DEF BackedNow
  <2> QED
    BY <2>1, <2>3, BackedOn
<1>2. ASSUME NEW w \in Workers, Named(w) PROVE Backed' /\ \A i, p : Completed(i, p) => Completed(i, p)'
  <2>0. PICK c \in AnyCall :
          /\ Now(w, c)
          /\ c.op = "advance" =>
               \/ call[w].op = "advance" /\ c.id = call[w].id /\ c.to = call[w].to
               \/ \E l \in DOMAIN log : Completes(w, l) /\ c.id = log[l].id /\ c.to = log[l].to
    BY <1>2, NamedCalls
  <2>1. \A i, p : Completed(i, p) => Completed(i, p)'
    BY <1>2, NamedCalls, LogsGo
  <2>2. ASSUME NEW v \in Workers, call'[v].op = "advance" PROVE BackedNow(v)
    <3>1. PICK i, p : i = call'[v].id /\ p = call'[v].to
      OBVIOUS
    <3>2. CASE call[v].op = "advance" /\ i = call[v].id /\ p = call[v].to
      <4>1. Completed(i, p)'
        BY <2>1, <3>2 DEF Backed
      <4> QED
        BY <3>1, <4>1 DEF BackedNow
    <3>3. ASSUME NEW l \in DOMAIN log, Completes(w, l), i = log[l].id, p = log[l].to
          PROVE  BackedNow(v)
      <4>1. DOMAIN log' = DOMAIN log
            /\ log'[l].id = log[l].id /\ log'[l].to = log[l].to /\ log'[l].status = "completed"
        BY <3>3, Advancing DEF Completes
      <4> QED
        BY <3>1, <3>3, <4>1 DEF Completed, BackedNow
    <3>4. \/ call[v].op = "advance" /\ i = call[v].id /\ p = call[v].to
          \/ \E l \in DOMAIN log : Completes(w, l) /\ i = log[l].id /\ p = log[l].to
      <4>1. CASE v = w
        BY <2>0, <2>2, <3>1, <4>1 DEF Now
      <4>2. CASE v # w
        BY <2>0, <2>2, <3>1, <4>2 DEF Now
      <4> QED
        BY <4>1, <4>2
    <3> QED
      BY <3>2, <3>3, <3>4
  <2> QED
    BY <2>1, <2>2, BackedOn
<1> QED
  BY <1>1, <1>2, PlainSteps DEF Named

-----------------------------------------------------------------------------
(* Members of a terminated partner.                                        *)

Left(p) == \E w \in Workers : call[w].op = "terminate" /\ call[w].partner = p
IsMember(i, p) == customer[i].partner = p /\ p # 0 /\ customer[i].status = "active"
MemberInv ==
  \A p \in DOMAIN partner : p \notin uncertain /\ ~Left(p) =>
    \A i \in members[p] : IsMember(i, p) => Completed(i, p)

\* What keeps it: nobody becomes a member of a partner but behind a completed log.
LEMMA MembersOn ==
  ASSUME TypeInv, MemberInv, uncertain \subseteq uncertain',
         \A i, p : Completed(i, p) => Completed(i, p)',
         \A p \in DOMAIN partner' :
           \/ Left(p)'
           \/ members'[p] = {}
           \/ /\ p \in DOMAIN partner /\ members'[p] = members[p]
              /\ \/ p \in uncertain' \/ ~Left(p)
                 \/ \A i \in members[p] : ~IsMember(i, p)'
              /\ \A i \in members[p] : IsMember(i, p)' => IsMember(i, p) \/ Completed(i, p)
  PROVE  MemberInv'
<1> SUFFICES ASSUME NEW p \in DOMAIN partner', p \notin uncertain', ~Left(p)',
                    NEW i \in members'[p], IsMember(i, p)'
             PROVE  Completed(i, p)'
  BY DEF MemberInv
<1>1. /\ p \in DOMAIN partner /\ members'[p] = members[p] /\ ~Left(p)
      /\ IsMember(i, p) \/ Completed(i, p)
  OBVIOUS
<1>2. Completed(i, p)
  BY <1>1 DEF MemberInv
<1> QED
  BY <1>2

\* Rows that do not become active at another partner.
LEMMA MembersLess ==
  ASSUME TypeInv, NEW i \in DOMAIN customer, NEW p, customer'[i].partner = customer[i].partner,
         customer'[i].status = "active" => customer[i].status = "active"
  PROVE  IsMember(i, p)' => IsMember(i, p)
BY DEF IsMember

LEMMA MemberStep ==
  ASSUME TypeInv, MemberInv, Backed, [Next]_vars
  PROVE  MemberInv'
<1>0. /\ \A i, p : Completed(i, p) => Completed(i, p)'
      /\ \A p \in DOMAIN members : members[p] \subseteq DOMAIN customer
      /\ DOMAIN members = DOMAIN partner
  BY BackedStep, PartnerRows
<1>1. CASE Plain
  <2>1. \A p : Left(p)' <=> Left(p)
    <3>1. \A v \in Workers : call[v].op = "terminate" \/ call'[v].op = "terminate" => call'[v] = call[v]
      BY <1>1 DEF Plain, Neutral
    <3>2. ASSUME NEW p, Left(p) PROVE Left(p)'
      <4>1. PICK v \in Workers : call[v].op = "terminate" /\ call[v].partner = p
        BY <3>2 DEF Left
      <4> QED
        BY <3>1, <4>1 DEF Left
    <3>3. ASSUME NEW p, Left(p)' PROVE Left(p)
      <4>1. PICK v \in Workers : call'[v].op = "terminate" /\ call'[v].partner = p
        BY <3>3 DEF Left
      <4> QED
        BY <3>1, <4>1 DEF Left
    <3> QED
      BY <3>2, <3>3
  <2>2. \A p \in DOMAIN partner : \A i \in members[p] : IsMember(i, p)' => IsMember(i, p)
    BY <1>0, <1>1 DEF Plain, RowsStay, IsMember
  <2> QED
    BY <1>0, <1>1, <2>1, <2>2, MembersOn DEF Plain, MembersKept
<1>2. ASSUME NEW w \in Workers, call[w].op # "terminate", NEW c, Now(w, c), c.op # "terminate",
             UNCHANGED <<partner, members, uncertain>>, DOMAIN customer' = DOMAIN customer,
             \A i \in DOMAIN customer, p \in Nat : IsMember(i, p)' => IsMember(i, p) \/ Completed(i, p)
      PROVE  MemberInv'
  <2>1. \A p : Left(p)' <=> Left(p)
    BY <1>2 DEF Now, Left
  <2>2. \A p \in DOMAIN partner : \A i \in members[p] : IsMember(i, p)' => IsMember(i, p) \/ Completed(i, p)
    BY <1>0, <1>2, PartnerRows
  <2> QED
    BY <1>0, <1>2, <2>1, <2>2, MembersOn
<1>3. ASSUME NEW w \in Workers, NEW l \in DOMAIN log, Completes(w, l) PROVE MemberInv'
  <2>1. PICK c \in AdvanceCall : Now(w, c) /\ call[w] = Idle
    BY <1>3 DEF Completes
  <2> QED
    BY <1>2, <1>3, <2>1 DEF Completes, AdvanceCall, Idle, IsMember
<1>4. ASSUME NEW w \in Workers, Named(w), ApplyTransfer(w) PROVE MemberInv'
  <2>1. /\ Proceeds(w, "apply", "reload") /\ Transfers(call[w].id, call[w].to)
        /\ call[w].id \in DOMAIN customer /\ call[w].to \in Nat
    BY <1>4, ApplyStep
  <2>2. PICK c \in AdvanceCall : Now(w, c) /\ call[w] \in AdvanceCall
    BY <2>1 DEF Proceeds
  <2>3. PICK row \in CustomerRow : Updated(call[w].id, row) /\ row.partner = call[w].to
    BY <2>1, Transferring
  <2>4. call[w].op = "advance" /\ c.op = "advance"
    BY <2>2 DEF AdvanceCall
  <2>5. Completed(call[w].id, call[w].to)
    BY <2>4 DEF Backed
  <2>6. ASSUME NEW i \in DOMAIN customer, NEW p \in Nat, IsMember(i, p)'
        PROVE  IsMember(i, p) \/ Completed(i, p)
    <3>1. CASE i = call[w].id
      BY <2>3, <2>5, <2>6, <3>1 DEF Updated, IsMember
    <3>2. CASE i # call[w].id
      BY <2>3, <2>6, <3>2 DEF Updated, IsMember
    <3> QED
      BY <3>1, <3>2
  <2>7. UNCHANGED <<partner, members, uncertain>>
    BY <1>4 DEF Named, ApplyTransfer, Serving, Completes, Idle, TerminateOrphans, Terminate, Start, Fail,
                partnerVars
  <2>8. DOMAIN customer' = DOMAIN customer
    BY <2>3 DEF Updated
  <2> QED
    BY <1>2, <2>2, <2>4, <2>6, <2>7, <2>8
<1>5. ASSUME NEW w \in Workers, Reload(w), UNCHANGED partnerVars PROVE MemberInv'
  <2>1. customer' = customer /\ UNCHANGED <<partner, members, uncertain>>
    BY <1>5 DEF Reload, customerVars, partnerVars
  <2>2. PICK c \in AdvanceCall \cup {Idle} : Now(w, c) /\ call[w] \in AdvanceCall
    BY <1>5, ReloadSteps DEF Proceeds
  <2>3. call[w].op # "terminate" /\ c.op # "terminate"
    BY <2>2 DEF AdvanceCall, Idle
  <2> QED
    BY <1>2, <2>1, <2>2, <2>3 DEF IsMember
<1>6. ASSUME NEW w \in Workers, UpdateUserGroup(w) \/ EraseUser(w), UNCHANGED partnerVars PROVE MemberInv'
  <2>1. customer' = customer /\ UNCHANGED <<partner, members, uncertain>>
    BY <1>6 DEF UpdateUserGroup, EraseUser, partnerVars
  <2>2. Now(w, Idle) /\ call[w] \in AdvanceCall \cup EraseCall
    BY <1>6, GroupSteps, EraseUserSteps
  <2>3. call[w].op # "terminate" /\ Idle.op # "terminate"
    BY <2>2 DEF AdvanceCall, EraseCall, Idle
  <2> QED
    BY <1>2, <2>1, <2>2, <2>3 DEF IsMember
<1>7. ASSUME NEW w \in Workers, MarkDeleted(w), UNCHANGED partnerVars PROVE MemberInv'
  <2>1. PICK c \in EraseCall : Now(w, c) /\ call[w] \in EraseCall /\ Deletes(call[w].id)
    BY <1>7, EraseSteps
  <2>2. call[w].op = "erase" /\ c.op = "erase"
    BY <2>1 DEF EraseCall
  <2>3. call[w].id \in DOMAIN customer
    BY <2>2 DEF TypeInv, Refers, Names
  <2>4. PICK row \in CustomerRow : Updated(call[w].id, row) /\ row.status = "deleted"
    BY <2>1, <2>3, Deleting
  <2>5. \A i \in DOMAIN customer, p \in Nat : IsMember(i, p)' => IsMember(i, p)
    BY <2>4 DEF Updated, IsMember
  <2>6. DOMAIN customer' = DOMAIN customer /\ UNCHANGED <<partner, members, uncertain>>
    BY <1>7, <2>4 DEF Updated, partnerVars
  <2> QED
    BY <1>2, <2>1, <2>2, <2>5, <2>6
<1>8. ASSUME NEW w \in Workers, NEW p \in DOMAIN partner, Terminate(w, p), UNCHANGED customerVars PROVE MemberInv'
  <2>1. Terminates(w, p)
    BY <1>8, Terminating
  <2>2. PICK c \in TerminateCall : Now(w, c) /\ c.partner = p /\ call[w] = Idle
    BY <2>1 DEF Terminates
  <2>3. Left(p)' /\ \A q : q # p => (Left(q)' <=> Left(q))
    <3>1. Left(p)'
      BY <2>2 DEF Left, Now, TerminateCall
    <3>2. \A q : q # p => (Left(q)' <=> Left(q))
      BY <2>2 DEF Left, Now, TerminateCall, Idle
    <3> QED
      BY <3>1, <3>2
  <2>4. customer' = customer /\ uncertain' = uncertain
    BY <1>8 DEF customerVars, Terminate
  <2> QED
    BY <1>0, <2>1, <2>3, <2>4, MembersOn DEF Terminates, IsMember
<1>9. ASSUME NEW w \in Workers, TerminateOrphans(w) PROVE MemberInv'
  <2>1. call[w] \in TerminateCall /\ Now(w, Idle) /\ OrphanByPartner(call[w].partner)
    BY <1>9, OrphanSteps
  <2>2. UNCHANGED <<partner, members, uncertain>>
    BY <1>9 DEF TerminateOrphans, partnerVars
  <2>3. \A i \in DOMAIN customer :
          /\ customer'[i].partner = customer[i].partner
          /\ customer'[i].status = "active" => customer[i].status = "active"
          /\ OfPartner(i, call[w].partner) => customer'[i].status # "active"
    BY <2>1, Orphaning
  <2>4. \A i \in DOMAIN customer : \A p : IsMember(i, p)' => IsMember(i, p) /\ p # call[w].partner
    BY <2>3 DEF IsMember, OfPartner
  <2>5. \A p : p # call[w].partner => (Left(p)' <=> Left(p))
    BY <2>1 DEF Left, Now, TerminateCall, Idle
  <2>6. ASSUME NEW p \in DOMAIN partner'
        PROVE  /\ p \in DOMAIN partner /\ members'[p] = members[p]
               /\ Left(p)' \/ ~Left(p) \/ \A i \in members[p] : ~IsMember(i, p)'
               /\ \A i \in members[p] : IsMember(i, p)' => IsMember(i, p)
    BY <1>0, <2>2, <2>4, <2>5
  <2> QED
    BY <1>0, <2>2, <2>6, MembersOn
<1>10. ASSUME NEW w \in Workers, Fail(w) PROVE MemberInv'
  <2>1. Now(w, Idle)
    BY <1>10, FailStep
  <2>2. UNCHANGED <<customer, partner, members>>
    BY <1>10 DEF Fail
  <2>3. uncertain \subseteq uncertain' /\ (call[w].op = "terminate" => call[w].partner \in uncertain')
    BY <1>10 DEF Fail
  <2>4. \A p : Left(p) => Left(p)' \/ p \in uncertain'
    BY <2>1, <2>3 DEF Left, Now
  <2>5. ASSUME NEW p \in DOMAIN partner'
        PROVE  /\ p \in DOMAIN partner /\ members'[p] = members[p]
               /\ Left(p)' \/ p \in uncertain' \/ ~Left(p)
               /\ \A i \in members[p] : IsMember(i, p)' => IsMember(i, p)
    BY <2>2, <2>4 DEF IsMember
  <2> QED
    BY <1>0, <2>3, <2>5, MembersOn
<1> QED
  BY <1>1, <1>3, <1>4, <1>5, <1>6, <1>7, <1>8, <1>9, <1>10, PlainSteps DEF Named

-----------------------------------------------------------------------------
(* Erased customers.                                                       *)

\* Deleted, or brought back by a completed transfer: for ever.
Gone(i) == customer[i].status = "deleted" \/ \E p : Completed(i, p)
ErasureInv ==
  /\ \A i \in DOMAIN customer : customer[i].user \in erased /\ FindByFyUserID(customer[i].user) = {i} => Gone(i)
  /\ \A u \in erased : FindByFyUserID(u) # {}
  /\ \A w \in Workers : call[w].op = "erase" /\ call[w].pc = "fyapi" => Gone(call[w].id)

\* What a step makes of the customers: users stay, and who is gone stays gone.
LEMMA CustomersGo ==
  ASSUME TypeInv, Backed, [Next]_vars
  PROVE  /\ DOMAIN customer \subseteq DOMAIN customer'
         /\ \A i \in DOMAIN customer : customer'[i].user = customer[i].user /\ (Gone(i) => Gone(i)')
<1>0. \A i, p : Completed(i, p) => Completed(i, p)'
  BY BackedStep
<1>1. CASE Plain
  BY <1>0, <1>1 DEF Plain, RowsStay, Gone
<1>2. ASSUME customer' = customer
      PROVE  /\ DOMAIN customer \subseteq DOMAIN customer'
             /\ \A i \in DOMAIN customer : customer'[i].user = customer[i].user /\ (Gone(i) => Gone(i)')
  BY <1>0, <1>2 DEF Gone
<1>3. ASSUME NEW w \in Workers, ApplyTransfer(w)
      PROVE  /\ DOMAIN customer \subseteq DOMAIN customer'
             /\ \A i \in DOMAIN customer : customer'[i].user = customer[i].user /\ (Gone(i) => Gone(i)')
  <2>1. /\ Proceeds(w, "apply", "reload") /\ Transfers(call[w].id, call[w].to)
        /\ call[w].id \in DOMAIN customer /\ call[w].to \in Nat
    BY <1>3, ApplyStep
  <2>2. PICK row \in CustomerRow : Updated(call[w].id, row) /\ row.user = customer[call[w].id].user
    BY <2>1, Transferring
  <2>3. Completed(call[w].id, call[w].to)
    BY <2>1 DEF Backed, Proceeds, AdvanceCall
  <2>4. \A i \in DOMAIN customer : Gone(i) => Gone(i)'
    BY <1>0, <2>2, <2>3 DEF Gone, Updated
  <2> QED
    BY <2>2, <2>4 DEF Updated
<1>4. ASSUME NEW w \in Workers, MarkDeleted(w)
      PROVE  /\ DOMAIN customer \subseteq DOMAIN customer'
             /\ \A i \in DOMAIN customer : customer'[i].user = customer[i].user /\ (Gone(i) => Gone(i)')
  <2>1. call[w] \in EraseCall /\ Deletes(call[w].id)
    BY <1>4, EraseSteps
  <2>2. call[w].id \in DOMAIN customer
    BY <2>1 DEF TypeInv, Refers, Names, EraseCall
  <2>3. PICK row \in CustomerRow : /\ Updated(call[w].id, row) /\ row.user = customer[call[w].id].user
                                   /\ row.status = "deleted"
    BY <2>1, <2>2, Deleting
  <2>4. \A i \in DOMAIN customer : Gone(i) => Gone(i)'
    BY <1>0, <2>3 DEF Gone, Updated
  <2> QED
    BY <2>3, <2>4 DEF Updated
<1>5. ASSUME NEW w \in Workers, TerminateOrphans(w)
      PROVE  /\ DOMAIN customer \subseteq DOMAIN customer'
             /\ \A i \in DOMAIN customer : customer'[i].user = customer[i].user /\ (Gone(i) => Gone(i)')
  <2>1. /\ DOMAIN customer' = DOMAIN customer
        /\ \A i \in DOMAIN customer :
             /\ customer'[i].user = customer[i].user
             /\ customer[i].status = "deleted" => customer'[i].status = "deleted"
    <3>1. OrphanByPartner(call[w].partner)
      BY <1>5, OrphanSteps
    <3> QED
      BY <3>1, Orphaning
  <2> QED
    BY <1>0, <2>1 DEF Gone
<1>6. \A w \in Workers, l \in DOMAIN log : Completes(w, l) => customer' = customer
  BY DEF Completes
<1>7. \A w \in Workers, p \in DOMAIN partner :
        Reload(w) \/ UpdateUserGroup(w) \/ EraseUser(w) \/ Fail(w)
          \/ (Terminate(w, p) /\ UNCHANGED <<store, customerVars>>) => customer' = customer
  BY DEF Reload, UpdateUserGroup, EraseUser, Fail, customerVars
<1>8. \A w \in Workers : Reload(w) \/ UpdateUserGroup(w) \/ EraseUser(w) \/ Fail(w) => customer' = customer
  BY DEF Reload, UpdateUserGroup, EraseUser, Fail, customerVars
<1> QED
  BY <1>1, <1>2, <1>3, <1>4, <1>5, <1>6, <1>7, <1>8, PlainSteps DEF Named

\* The calls that are to erase a user, and the users erased.
LEMMA ErasureOn ==
  ASSUME TypeInv, ErasureInv,
         DOMAIN customer \subseteq DOMAIN customer',
         \A i \in DOMAIN customer : customer'[i].user = customer[i].user /\ (Gone(i) => Gone(i)'),
         \/ erased' = erased
         \/ \E i \in DOMAIN customer : Gone(i) /\ erased' = erased \cup {customer[i].user},
         \A v \in Workers : call'[v].op = "erase" /\ call'[v].pc = "fyapi" =>
           call'[v] = call[v] \/ \E i \in DOMAIN customer' : call'[v].id = i /\ Gone(i)'
  PROVE  ErasureInv'
<1> DEFINE With(u) == {i \in DOMAIN customer' : customer'[i].user = u}
<1>1. \A u \in erased' : FindByFyUserID(u)' # {}
  BY DEF ErasureInv, FindByFyUserID
<1>2. ASSUME NEW i \in DOMAIN customer', customer'[i].user \in erased', With(customer'[i].user) = {i}
      PROVE  Gone(i)'
  <2>1. i \in DOMAIN customer
    <3>1. PICK j \in DOMAIN customer : customer[j].user = customer'[i].user
      <4>1. CASE customer'[i].user \in erased
        BY <4>1 DEF ErasureInv, FindByFyUserID
      <4>2. CASE customer'[i].user \notin erased
        BY <1>2, <4>2
      <4> QED
        BY <4>1, <4>2
    <3>2. j \in With(customer'[i].user)
      BY <3>1
    <3> QED
      BY <1>2, <3>1, <3>2
  <2>2. FindByFyUserID(customer[i].user) = {i}
    BY <1>2, <2>1 DEF FindByFyUserID
  <2>3. CASE customer[i].user \in erased
    BY <2>1, <2>2, <2>3 DEF ErasureInv
  <2>4. ASSUME NEW j \in DOMAIN customer, Gone(j), customer[i].user = customer[j].user PROVE Gone(i)'
    BY <2>1, <2>2, <2>4 DEF FindByFyUserID
  <2> QED
    BY <1>2, <2>1, <2>3, <2>4
<1>3. ASSUME NEW v \in Workers, call'[v].op = "erase", call'[v].pc = "fyapi"
      PROVE  \E i : i = call'[v].id /\ Gone(i)'
  <2>1. CASE call'[v] = call[v]
    <3>1. Gone(call[v].id)
      BY <1>3, <2>1 DEF ErasureInv
    <3>2. call[v].id \in DOMAIN customer
      BY <1>3, <2>1 DEF TypeInv, Refers, Names
    <3> QED
      BY <2>1, <3>1, <3>2
  <2> QED
    BY <1>3, <2>1
<1>4. (\A i \in DOMAIN customer : customer[i].user \in erased /\ FindByFyUserID(customer[i].user) = {i} => Gone(i))'
  BY <1>2 DEF FindByFyUserID
<1>5. (\A w \in Workers : call[w].op = "erase" /\ call[w].pc = "fyapi" => Gone(call[w].id))'
  BY <1>3 DEF Gone, Completed
<1> QED
  BY <1>1, <1>4, <1>5 DEF ErasureInv

LEMMA ErasureStep ==
  ASSUME TypeInv, Backed, ErasureInv, [Next]_vars
  PROVE  ErasureInv'
<1>0. /\ DOMAIN customer \subseteq DOMAIN customer'
      /\ \A i \in DOMAIN customer : customer'[i].user = customer[i].user /\ (Gone(i) => Gone(i)')
  BY CustomersGo
<1>1. CASE Plain
  <2>1. \A v \in Workers : call'[v].op = "erase" /\ call'[v].pc = "fyapi" => call'[v] = call[v]
    BY <1>1 DEF Plain, Neutral
  <2> QED
    BY <1>0, <1>1, <2>1, ErasureOn DEF Plain
<1>2. ASSUME NEW w \in Workers, NEW c, Now(w, c), ~(c.op = "erase" /\ c.pc = "fyapi"), erased' = erased
      PROVE  ErasureInv'
  <2>1. \A v \in Workers : call'[v].op = "erase" /\ call'[v].pc = "fyapi" => call'[v] = call[v]
    BY <1>2 DEF Now
  <2> QED
    BY <1>0, <1>2, <2>1, ErasureOn
<1>3. ASSUME NEW w \in Workers, MarkDeleted(w) PROVE ErasureInv'
  <2>1. PICK c \in EraseCall : Now(w, c) /\ c.id = call[w].id /\ call[w] \in EraseCall /\ Deletes(call[w].id)
    BY <1>3, EraseSteps
  <2>2. call[w].id \in DOMAIN customer
    BY <2>1 DEF TypeInv, Refers, Names, EraseCall
  <2>3. PICK row \in CustomerRow : Updated(call[w].id, row) /\ row.status = "deleted"
    BY <2>1, <2>2, Deleting
  <2>4. PICK i : i = call[w].id
    OBVIOUS
  <2>5. Gone(i)' /\ i \in DOMAIN customer'
    BY <1>0, <2>2, <2>3, <2>4 DEF Gone, Updated
  <2>6. \A v \in Workers : call'[v] = call[v] \/ call'[v].id = i
    BY <2>1, <2>4 DEF Now
  <2>7. erased' = erased
    BY <1>3 DEF MarkDeleted
  <2> QED
    BY <1>0, <2>5, <2>6, <2>7, ErasureOn
<1>4. ASSUME NEW w \in Workers, EraseUser(w) PROVE ErasureInv'
  <2>1. /\ call[w] \in EraseCall /\ call[w].pc = "fyapi" /\ Now(w, Idle)
        /\ call[w].id \in DOMAIN customer
        /\ erased' = erased \cup {customer[call[w].id].user}
    BY <1>4, EraseUserSteps
  <2>2. Gone(call[w].id)
    BY <2>1 DEF ErasureInv, EraseCall
  <2>3. \A v \in Workers : call'[v].op = "erase" /\ call'[v].pc = "fyapi" => call'[v] = call[v]
    BY <2>1 DEF Now, Idle
  <2> QED
    BY <1>0, <2>1, <2>2, <2>3, ErasureOn
<1>5. ASSUME NEW w \in Workers, NEW l \in DOMAIN log, Completes(w, l) PROVE ErasureInv'
  BY <1>2, <1>5 DEF Completes, AdvanceCall
<1>6. ASSUME NEW w \in Workers, ApplyTransfer(w) PROVE ErasureInv'
  <2>1. erased' = erased
    BY <1>6 DEF ApplyTransfer
  <2> QED
    BY <1>2, <1>6, <2>1, ApplyStep DEF Proceeds, AdvanceCall
<1>7. ASSUME NEW w \in Workers, Reload(w) \/ UpdateUserGroup(w) \/ TerminateOrphans(w) \/ Fail(w) PROVE ErasureInv'
  <2>1. erased' = erased
    BY <1>7 DEF Reload, customerVars, UpdateUserGroup, TerminateOrphans, Fail
  <2>2. PICK c \in AdvanceCall \cup {Idle} : Now(w, c)
    BY <1>7, ReloadSteps, GroupSteps, OrphanSteps, FailStep DEF Proceeds
  <2>3. ~(c.op = "erase" /\ c.pc = "fyapi")
    BY <2>2 DEF AdvanceCall, Idle
  <2> QED
    BY <1>2, <2>1, <2>2, <2>3
<1>8. ASSUME NEW w \in Workers, NEW p \in DOMAIN partner, Terminate(w, p), UNCHANGED customerVars PROVE ErasureInv'
  <2>1. PICK c \in TerminateCall : Now(w, c)
    BY <1>8, Terminating DEF Terminates
  <2> QED
    BY <1>2, <1>8, <2>1 DEF TerminateCall, customerVars
<1> QED
  BY <1>1, <1>3, <1>4, <1>5, <1>6, <1>7, <1>8, PlainSteps DEF Named

-----------------------------------------------------------------------------
(* Transfers.                                                              *)

\* What a customer with no transfer cut short and never two applied at a time is.
Transferred(i) == \E p : Completed(i, p)
IsAt(i, v) == call[v].op = "advance" /\ call[v].id = i
Sound(i) ==
  /\ \A v \in Workers : IsAt(i, v) /\ call[v].pc # "apply" =>
       customer[i].partner = call[v].to /\ customer[i].group = call[v].to
  /\ (\A v \in Workers : ~IsAt(i, v)) /\ Transferred(i) /\ FindByFyUserID(customer[i].user) = {i} =>
       customer[i].group = customer[i].partner /\ fyGroup[customer[i].user] = customer[i].partner
SettleInv == \A i \in DOMAIN customer : i \notin unsure => Sound(i)

\* What leaves a customer as sound as it was.
SameRow(i) ==
  /\ customer'[i].partner = customer[i].partner /\ customer'[i].group = customer[i].group
SameCalls(i) == \A v \in Workers : IsAt(i, v) \/ IsAt(i, v)' => call'[v] = call[v]

\* The users of the customers stay.
UsersStay ==
  /\ DOMAIN customer \subseteq DOMAIN customer'
  /\ \A i \in DOMAIN customer : customer'[i].user = customer[i].user

LEMMA SoundOn ==
  ASSUME TypeInv, UsersStay, NEW i \in DOMAIN customer, Sound(i), SameRow(i), SameCalls(i),
         Transferred(i)' => Transferred(i),
         FindByFyUserID(customer[i].user) = {i} => fyGroup'[customer[i].user] = fyGroup[customer[i].user]
  PROVE  Sound(i)'
<1>1. ASSUME NEW v \in Workers, IsAt(i, v)', call'[v].pc # "apply"
      PROVE  customer'[i].partner = call'[v].to /\ customer'[i].group = call'[v].to
  <2>1. call'[v] = call[v]
    BY <1>1 DEF SameCalls
  <2>2. IsAt(i, v)
    BY <1>1, <2>1 DEF IsAt
  <2> QED
    BY <1>1, <2>1, <2>2 DEF Sound, SameRow
<1>2. ASSUME \A v \in Workers : ~IsAt(i, v)', Transferred(i)',
             {j \in DOMAIN customer' : customer'[j].user = customer'[i].user} = {i}
      PROVE  customer'[i].group = customer'[i].partner /\ fyGroup'[customer'[i].user] = customer'[i].partner
  <2>1. \A v \in Workers : ~IsAt(i, v)
    <3>1. \A v \in Workers : IsAt(i, v) => call'[v] = call[v]
      BY DEF SameCalls
    <3>2. \A v \in Workers : IsAt(i, v) => IsAt(i, v)'
      BY <3>1 DEF IsAt
    <3> QED
      BY <1>2, <3>2
  <2>2. FindByFyUserID(customer[i].user) = {i}
    BY <1>2 DEF FindByFyUserID, UsersStay
  <2> QED
    BY <1>2, <2>1, <2>2 DEF Sound, SameRow, UsersStay
<1> QED
  BY <1>1, <1>2 DEF Sound, FindByFyUserID

\* A customer that was not there has no transfer.
LEMMA NewSound ==
  ASSUME TypeInv, TypeInv', NEW i \in DOMAIN customer' \ DOMAIN customer, LogsKept,
         \A v \in Workers : call'[v] = call[v] \/ (Neutral(call[v]) /\ Neutral(call'[v]))
  PROVE  Sound(i)'
<1>1. ~Transferred(i)'
  BY DEF LogsKept, Transferred, Completed, TypeInv, Refers
<1>2. \A v \in Workers : ~IsAt(i, v)'
  BY DEF IsAt, Neutral, TypeInv, Refers, Names
<1> QED
  BY <1>1, <1>2 DEF Sound

LEMMA SameTransfers ==
  ASSUME LogsKept, NEW i
  PROVE  Transferred(i)' => Transferred(i)
BY DEF LogsKept, Transferred, Completed

\* Of a call that changes only the customer it is at is concerned.
LEMMA OtherCalls ==
  ASSUME NEW w \in Workers, NEW c, Now(w, c), NEW i, ~IsAt(i, w), ~(c.op = "advance" /\ c.id = i)
  PROVE  SameCalls(i)
<1>1. call'[w] = c /\ \A v \in Workers : v # w => call'[v] = call[v]
  BY DEF Now
<1> QED
  BY <1>1 DEF SameCalls, IsAt

\* A step that changes neither partners and groups nor Fy-api.
LEMMA CalmSound ==
  ASSUME TypeInv, SettleInv, NEW w \in Workers, NEW c, Now(w, c), UsersStay,
         DOMAIN customer' = DOMAIN customer, \A i \in DOMAIN customer : SameRow(i),
         fyGroup' = fyGroup, unsure \subseteq unsure', LogsKept,
         c.op # "advance", call[w].op = "advance" => call[w].id \in unsure'
  PROVE  SettleInv'
<1> SUFFICES ASSUME NEW i \in DOMAIN customer, i \notin unsure' PROVE Sound(i)'
  BY DEF SettleInv
<1>1. SameCalls(i)
  BY OtherCalls DEF IsAt
<1> QED
  BY <1>1, SoundOn, SameTransfers DEF SettleInv

LEMMA SettleStep ==
  ASSUME TypeInv, TypeInv', Backed, SettleInv, [Next]_vars
  PROVE  SettleInv'
<1>0. UsersStay
  BY CustomersGo DEF UsersStay
<1>1. CASE Plain
  <2> SUFFICES ASSUME NEW i \in DOMAIN customer', i \notin unsure' PROVE Sound(i)'
    BY DEF SettleInv
  <2>1. CASE i \notin DOMAIN customer
    BY <1>1, <2>1, NewSound DEF Plain
  <2>2. CASE i \in DOMAIN customer
    <3>1. SameCalls(i)
      BY <1>1 DEF Plain, SameCalls, IsAt, Neutral
    <3>2. SameRow(i) /\ Sound(i) /\ (Transferred(i)' => Transferred(i)) /\ fyGroup' = fyGroup
      BY <1>1, <2>2, SameTransfers DEF Plain, RowsStay, SameRow, SettleInv
    <3> QED
      BY <1>0, <2>2, <3>1, <3>2, SoundOn
  <2> QED
    BY <2>1, <2>2
<1>2. ASSUME NEW w \in Workers, NEW l \in DOMAIN log, Completes(w, l) PROVE SettleInv'
  <2>0. UNCHANGED <<customer, fyGroup, erased, unsure>> /\ call[w] = Idle /\ Advances(w, l, "completed")
    BY <1>2 DEF Completes
  <2>1. PICK c \in AdvanceCall : Now(w, c) /\ c.pc = "apply" /\ c.id = log[l].id
    BY <1>2 DEF Completes
  <2>2. /\ DOMAIN log' = DOMAIN log /\ log'[l].id = log[l].id
        /\ \A m \in DOMAIN log \ {l} : log'[m] = log[m]
    BY <2>0, Advancing
  <2> SUFFICES ASSUME NEW i \in DOMAIN customer, i \notin unsure PROVE Sound(i)'
    BY <2>0 DEF SettleInv
  <2>3. Sound(i)
    BY DEF SettleInv
  <2>4. call'[w] = c /\ \A v \in Workers : v # w => call'[v] = call[v]
    BY <2>1 DEF Now
  <2>5. CASE i = log[l].id
    <3>1. IsAt(i, w)'
      BY <2>1, <2>4, <2>5 DEF IsAt, AdvanceCall
    <3>2. ASSUME NEW v \in Workers, IsAt(i, v)', call'[v].pc # "apply"
          PROVE  customer[i].partner = call'[v].to /\ customer[i].group = call'[v].to
      <4>1. v # w /\ call'[v] = call[v]
        BY <2>1, <2>4, <3>2
      <4> QED
        BY <2>3, <3>2, <4>1 DEF Sound, IsAt
    <3> QED
      BY <2>0, <3>1, <3>2 DEF Sound
  <2>6. CASE i # log[l].id
    <3>1. SameCalls(i)
      BY <2>0, <2>1, <2>6, OtherCalls DEF IsAt, Idle
    <3>2. Transferred(i)' => Transferred(i)
      BY <2>2, <2>6 DEF Transferred, Completed
    <3> QED
      BY <1>0, <2>0, <2>3, <3>1, <3>2, SoundOn DEF SameRow
  <2> QED
    BY <2>5, <2>6
<1>3. ASSUME NEW w \in Workers, ApplyTransfer(w) PROVE SettleInv'
  <2>1. /\ Proceeds(w, "apply", "reload") /\ Transfers(call[w].id, call[w].to)
        /\ call[w].id \in DOMAIN customer /\ call[w].to \in Nat
    BY <1>3, ApplyStep
  <2>2. PICK row \in CustomerRow :
          Updated(call[w].id, row) /\ row.partner = call[w].to /\ row.group = call[w].to
    BY <2>1, Transferring
  <2>3. PICK c \in AdvanceCall : Now(w, c) /\ c.id = call[w].id /\ c.to = call[w].to /\ call[w] \in AdvanceCall
    BY <2>1 DEF Proceeds
  <2>4. /\ unsure' = IF Applying(call[w].id) = {w} THEN unsure ELSE unsure \cup {call[w].id}
        /\ log' = log /\ fyGroup' = fyGroup
    BY <1>3 DEF ApplyTransfer
  <2>5. call'[w] = c /\ \A v \in Workers : v # w => call'[v] = call[v]
    BY <2>3 DEF Now
  <2> SUFFICES ASSUME NEW i \in DOMAIN customer, i \notin unsure' PROVE Sound(i)'
    BY <2>2 DEF SettleInv, Updated
  <2>6. CASE i = call[w].id
    <3>1. IsAt(i, w)'
      BY <2>3, <2>5, <2>6 DEF IsAt, AdvanceCall
    <3>2. Applying(i) = {w}
      BY <2>4, <2>6
    <3>3. ASSUME NEW v \in Workers, IsAt(i, v)'
          PROVE  customer'[i].partner = call'[v].to /\ customer'[i].group = call'[v].to
      <4>1. v = w
        BY <2>5, <3>2, <3>3 DEF Applying, IsAt
      <4> QED
        BY <2>2, <2>3, <2>5, <2>6, <4>1 DEF Updated
    <3> QED
      BY <3>1, <3>3 DEF Sound
  <2>7. CASE i # call[w].id
    <3>1. SameCalls(i)
      BY <2>3, <2>7, OtherCalls DEF IsAt
    <3>2. SameRow(i) /\ Sound(i)
      BY <2>2, <2>4, <2>7 DEF Updated, SameRow, SettleInv
    <3>3. Transferred(i)' => Transferred(i)
      BY <2>4 DEF Transferred, Completed
    <3> QED
      BY <1>0, <2>4, <3>1, <3>2, <3>3, SoundOn
  <2> QED
    BY <2>6, <2>7
<1>4. ASSUME NEW w \in Workers, Reload(w) PROVE SettleInv'
  <2>0. UNCHANGED <<customer, log, fyGroup, unsure>>
    BY <1>4 DEF Reload, customerVars
  <2>1. call[w] \in AdvanceCall /\ call[w].pc = "reload"
    BY <1>4, ReloadSteps
  <2> SUFFICES ASSUME NEW i \in DOMAIN customer, i \notin unsure PROVE Sound(i)'
    BY <2>0 DEF SettleInv
  <2>2. Sound(i) /\ (Transferred(i)' => Transferred(i)) /\ SameRow(i)
    BY <2>0 DEF SettleInv, Transferred, Completed, SameRow
  <2>3. CASE i # call[w].id
    <3>1. PICK c \in AdvanceCall \cup {Idle} : Now(w, c) /\ (c # Idle => c.id = call[w].id)
      BY <1>4, ReloadSteps DEF Proceeds
    <3>2. SameCalls(i)
      BY <2>3, <3>1, OtherCalls DEF IsAt, Idle
    <3> QED
      BY <1>0, <2>0, <2>2, <3>2, SoundOn
  <2>4. CASE i = call[w].id
    <3>1. customer[i].partner = call[w].to /\ customer[i].group = call[w].to /\ call[w].to # 0
      BY <2>1, <2>2, <2>4 DEF Sound, IsAt, AdvanceCall
    <3>2. Proceeds(w, "reload", "group")
      BY <1>4, <2>4, <3>1, ReloadSteps DEF OfPartner
    <3>3. PICK c \in AdvanceCall : Now(w, c) /\ c.id = call[w].id /\ c.to = call[w].to
      BY <3>2 DEF Proceeds
    <3>4. call'[w] = c /\ \A v \in Workers : v # w => call'[v] = call[v]
      BY <3>3 DEF Now
    <3>5. IsAt(i, w)'
      BY <2>4, <3>3, <3>4 DEF IsAt, AdvanceCall
    <3>6. ASSUME NEW v \in Workers, IsAt(i, v)', call'[v].pc # "apply"
          PROVE  customer[i].partner = call'[v].to /\ customer[i].group = call'[v].to
      <4>1. CASE v = w
        BY <3>1, <3>3, <3>4, <4>1
      <4>2. CASE v # w
        BY <2>2, <3>4, <3>6, <4>2 DEF Sound, IsAt
      <4> QED
        BY <4>1, <4>2
    <3> QED
      BY <2>0, <3>5, <3>6 DEF Sound
  <2> QED
    BY <2>3, <2>4
<1>5. ASSUME NEW w \in Workers, UpdateUserGroup(w) PROVE SettleInv'
  <2>0. UNCHANGED <<customer, log, unsure>>
    BY <1>5 DEF UpdateUserGroup
  <2>1. /\ call[w] \in AdvanceCall /\ call[w].pc = "group" /\ Now(w, Idle)
        /\ call[w].id \in DOMAIN customer
        /\ fyGroup' = [fyGroup EXCEPT ![customer[call[w].id].user] = call[w].to]
    BY <1>5, GroupSteps
  <2>2. call'[w] = Idle /\ \A v \in Workers : v # w => call'[v] = call[v]
    BY <2>1 DEF Now
  <2> SUFFICES ASSUME NEW i \in DOMAIN customer, i \notin unsure PROVE Sound(i)'
    BY <2>0 DEF SettleInv
  <2>3. Sound(i) /\ (Transferred(i)' => Transferred(i)) /\ SameRow(i)
    BY <2>0 DEF SettleInv, Transferred, Completed, SameRow
  <2>4. CASE i # call[w].id
    <3>1. SameCalls(i)
      BY <2>1, <2>4, OtherCalls DEF IsAt, Idle
    <3>2. FindByFyUserID(customer[i].user) = {i} => fyGroup'[customer[i].user] = fyGroup[customer[i].user]
      BY <2>1, <2>4 DEF FindByFyUserID, TypeInv, Shape
    <3> QED
      BY <1>0, <2>3, <3>1, <3>2, SoundOn
  <2>5. CASE i = call[w].id
    <3>1. customer[i].partner = call[w].to /\ customer[i].group = call[w].to
      BY <2>1, <2>3, <2>5 DEF Sound, IsAt, AdvanceCall
    <3>2. fyGroup'[customer[i].user] = call[w].to
      <4>1. customer[i].user \in Users
        BY Rows DEF CustomerRow
      <4> QED
        BY <2>1, <2>5, <4>1 DEF TypeInv, Shape
    <3>3. ASSUME NEW v \in Workers, IsAt(i, v)', call'[v].pc # "apply"
          PROVE  customer[i].partner = call'[v].to /\ customer[i].group = call'[v].to
      <4>1. v # w
        BY <2>2, <3>3 DEF IsAt, Idle
      <4> QED
        BY <2>2, <2>3, <3>3, <4>1 DEF Sound, IsAt
    <3> QED
      BY <2>0, <3>1, <3>2, <3>3 DEF Sound
  <2> QED
    BY <2>4, <2>5
<1>6. ASSUME NEW w \in Workers, MarkDeleted(w) PROVE SettleInv'
  <2>1. PICK c \in EraseCall : Now(w, c) /\ call[w] \in EraseCall /\ Deletes(call[w].id)
    BY <1>6, EraseSteps
  <2>2. call[w].op = "erase" /\ c.op = "erase"
    BY <2>1 DEF EraseCall
  <2>3. call[w].id \in DOMAIN customer
    BY <2>2 DEF TypeInv, Refers, Names
  <2>4. PICK row \in CustomerRow : /\ Updated(call[w].id, row)
                                   /\ row.partner = customer[call[w].id].partner
                                   /\ row.group = customer[call[w].id].group
    BY <2>1, <2>3, Deleting
  <2>5. DOMAIN customer' = DOMAIN customer /\ \A i \in DOMAIN customer : SameRow(i)
    BY <2>4 DEF Updated, SameRow
  <2>6. fyGroup' = fyGroup /\ unsure' = unsure /\ LogsKept
    BY <1>6, KeptPlain DEF MarkDeleted
  <2> QED
    BY <1>0, <2>1, <2>2, <2>5, <2>6, CalmSound
<1>7. ASSUME NEW w \in Workers, TerminateOrphans(w) PROVE SettleInv'
  <2>1. call[w] \in TerminateCall /\ Now(w, Idle) /\ OrphanByPartner(call[w].partner)
    BY <1>7, OrphanSteps
  <2>2. DOMAIN customer' = DOMAIN customer /\ \A i \in DOMAIN customer : SameRow(i)
    BY <2>1, Orphaning DEF SameRow
  <2>3. fyGroup' = fyGroup /\ unsure' = unsure /\ LogsKept
    BY <1>7, KeptPlain DEF TerminateOrphans
  <2>4. call[w].op # "advance" /\ Idle.op # "advance"
    BY <2>1 DEF TerminateCall, Idle
  <2> QED
    BY <1>0, <2>1, <2>2, <2>3, <2>4, CalmSound
<1>8. ASSUME NEW w \in Workers, EraseUser(w) \/ Fail(w) PROVE SettleInv'
  <2>1. Now(w, Idle) /\ Idle.op # "advance"
    BY <1>8, EraseUserSteps, FailStep DEF Idle
  <2>2. UNCHANGED <<customer, fyGroup>> /\ LogsKept
    BY <1>8, KeptPlain DEF EraseUser, Fail
  <2>3. unsure \subseteq unsure' /\ (call[w].op = "advance" => call[w].id \in unsure')
    <3>1. CASE EraseUser(w)
      BY <3>1 DEF EraseUser, Serving
    <3>2. CASE Fail(w)
      BY <3>2 DEF Fail
    <3> QED
      BY <1>8, <3>1, <3>2
  <2> QED
    BY <1>0, <2>1, <2>2, <2>3, CalmSound DEF SameRow
<1>9. ASSUME NEW w \in Workers, NEW p \in DOMAIN partner, Terminate(w, p), UNCHANGED customerVars
      PROVE  SettleInv'
  <2>1. PICK c \in TerminateCall : Now(w, c) /\ call[w] = Idle
    BY <1>9, Terminating DEF Terminates
  <2>2. c.op # "advance" /\ call[w].op # "advance"
    BY <2>1 DEF TerminateCall, Idle
  <2>3. UNCHANGED <<customer, fyGroup, unsure>> /\ LogsKept
    BY <1>9, KeptPlain DEF customerVars
  <2> QED
    BY <1>0, <2>1, <2>2, <2>3, CalmSound DEF SameRow
<1> QED
  BY <1>1, <1>2, <1>3, <1>4, <1>5, <1>6, <1>7, <1>8, <1>9, PlainSteps DEF Named

-----------------------------------------------------------------------------
(* The theorems about customers.                                           *)

LEMMA RowsStart ==
  ASSUME Init
  PROVE  Backed /\ MemberInv /\ ErasureInv /\ SettleInv
<1>1. \A w \in Workers : call[w] = Idle
  BY DEF Init
<1>2. \A i, p : ~Completed(i, p)
  <2> DEFINE Pending == [id : DOMAIN FirstCustomers, to : Nat \ {0}, status : LogStatus \ {"completed"}]
  <2>1. log \in Seq(Pending)
    BY OnboardingAssumption DEF Init
  <2>2. \A l \in DOMAIN log : log[l] \in Pending
    <3> HIDE DEF Pending
    <3> QED
      BY <2>1
  <2>3. \A l \in DOMAIN log : log[l].status # "completed"
    BY <2>2
  <2> QED
    BY <2>3 DEF Completed
<1>3. Backed
  BY <1>1 DEF Backed, Idle
<1>4. MemberInv
  BY DEF MemberInv, Init
<1>5. ErasureInv
  BY <1>1 DEF ErasureInv, Init, Idle
<1>6. SettleInv
  BY <1>1, <1>2 DEF SettleInv, Sound, Transferred, IsAt, Idle
<1> QED
  BY <1>3, <1>4, <1>5, <1>6

LEMMA RowsGiven ==
  ASSUME TypeInv
  PROVE  /\ MemberInv => NoMemberLeft
         /\ ErasureInv => ErasureHolds
         /\ SettleInv => TransferSettles
<1>1. ASSUME MemberInv PROVE NoMemberLeft
  <2> SUFFICES ASSUME NEW p \in DOMAIN partner, p \notin uncertain, Settled(p), NEW i \in members[p], i \in Members(p)
               PROVE  \E l \in DOMAIN log : log[l].id = i /\ log[l].to = p /\ log[l].status = "completed"
    BY DEF NoMemberLeft
  <2>1. ~Left(p)
    BY DEF Settled, Left
  <2>2. IsMember(i, p)
    BY DEF Members, ListByPartner, OfPartner, IsMember
  <2> QED
    BY <1>1, <2>1, <2>2 DEF MemberInv, Completed
<1>2. ASSUME ErasureInv PROVE ErasureHolds
  BY <1>2 DEF ErasureInv, ErasureHolds, Gone, Completed
<1>3. ASSUME SettleInv PROVE TransferSettles
  <2> SUFFICES ASSUME NEW i \in DOMAIN customer, i \notin unsure, Applying(i) = {},
                      \E l \in DOMAIN log : log[l].id = i /\ log[l].status = "completed",
                      FindByFyUserID(customer[i].user) = {i}
               PROVE  /\ customer[i].group = customer[i].partner
                      /\ fyGroup[customer[i].user] = customer[i].partner
    BY DEF TransferSettles
  <2>1. Sound(i)
    BY <1>3 DEF SettleInv
  <2>2. Transferred(i)
    BY DEF Transferred, Completed
  <2>3. \A v \in Workers : ~IsAt(i, v)
    BY DEF Applying, IsAt
  <2> QED
    BY <2>1, <2>2, <2>3 DEF Sound
<1> QED
  BY <1>1, <1>2, <1>3

\* A transfer that was neither cut short nor overlapped settles the customer and
\* Fy-api's group, for any workers, customers, partners and faults.
THEOREM TransfersCorrect == Spec => []TransferSettles
<1>1. Init => TypeInv /\ Backed /\ SettleInv
  BY Starting, RowsStart
<1>2. TypeInv /\ Backed /\ SettleInv /\ [Next]_vars => (TypeInv /\ Backed /\ SettleInv)'
  BY TypeStep, BackedStep, SettleStep
<1>3. TypeInv /\ SettleInv => TransferSettles
  BY RowsGiven
<1> QED
  BY <1>1, <1>2, <1>3, PTL DEF Spec

\* An erased customer comes back only by a completed transfer, for any
\* interleaving of registrations, transfers, erasures and terminations.
THEOREM ErasureCorrect == Spec => []ErasureHolds
<1>1. Init => TypeInv /\ Backed /\ ErasureInv
  BY Starting, RowsStart
<1>2. TypeInv /\ Backed /\ ErasureInv /\ [Next]_vars => (TypeInv /\ Backed /\ ErasureInv)'
  BY TypeStep, BackedStep, ErasureStep
<1>3. TypeInv /\ ErasureInv => ErasureHolds
  BY RowsGiven
<1> QED
  BY <1>1, <1>2, <1>3, PTL DEF Spec

\* A termination that was reported as done leaves no active customer behind but
\* those that a transfer brought back, for any partners and customers.
THEOREM MembersCorrect == Spec => []NoMemberLeft
<1>1. Init => TypeInv /\ Backed /\ MemberInv
  BY Starting, RowsStart
<1>2. TypeInv /\ Backed /\ MemberInv /\ [Next]_vars => (TypeInv /\ Backed /\ MemberInv)'
  BY TypeStep, BackedStep, MemberStep
<1>3. TypeInv /\ MemberInv => NoMemberLeft
  BY RowsGiven
<1> QED
  BY <1>1, <1>2, <1>3, PTL DEF Spec
=============================================================================
