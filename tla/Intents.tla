------------------------------- MODULE Intents -------------------------------
(***************************************************************************)
(* Payment intents (service/payment) behind the webhook idempotency        *)
(* middleware.  The provider is external: it opens a payment, may report   *)
(* it pending or an attempt of it failed, settles it at most once, and     *)
(* repeats each notice until it is answered with 200.                      *)
(***************************************************************************)
EXTENDS Bound

CONSTANTS
  Trades,     \* out_trade_no
  Notices,    \* statuses of notices, "success" among them
  Hooks       \* requests served at the same time

ASSUME IntentAssumption == "success" \in Notices /\ Notices \subseteq {"success", "failed", "pending"}

VARIABLES
  intent,     \* trade -> state of its row
  provider,   \* trade -> the payment at the provider
  sent,       \* notices the provider has sent
  answered,   \* notices answered with 200
  claimed,    \* webhook keys in Redis
  hook,       \* worker -> the request it serves
  slips       \* trade -> what went wrong with it (history)

intentVars == <<intent, provider, sent, answered, claimed, hook, slips>>

IntentState == {"none", "created", "paid", "failed", "funded"}
Booked(t) == intent[t] \in {"paid", "funded"}
\* fits: merchant id, signature and amount are those of the intent
Notice == [trade : Trades, status : Notices, fits : BOOLEAN]
Resting == [pc |-> "idle"]
At(w, pc) == hook[w].pc = pc
To(w, pc) == hook' = [hook EXCEPT ![w].pc = pc]
Rest(w) == hook' = [hook EXCEPT ![w] = Resting]
Slip(t, what) == slips' = [slips EXCEPT ![t] = @ \cup {what}]

-----------------------------------------------------------------------------
(* CreateTopup.  The row is unique: a repeated request is refused.         *)

CreateTopup(w, t) ==
  /\ At(w, "idle") /\ intent[t] = "none"
  /\ intent' = [intent EXCEPT ![t] = "created"]
  /\ hook' = [hook EXCEPT ![w] = [pc |-> "provider", trade |-> t]]
  /\ NoFault /\ UNCHANGED <<provider, sent, answered, claimed, slips>>

\* The provider opens the payment, fails, or does both.
ProviderTopup(w) ==
  LET t == hook[w].trade IN
  /\ At(w, "provider")
  /\ \/ provider' = [provider EXCEPT ![t] = "open"] /\ (NoFault \/ Fault)
     \/ Fault /\ UNCHANGED provider
  /\ Rest(w)
  /\ UNCHANGED <<intent, sent, answered, claimed, slips>>

-----------------------------------------------------------------------------
(* The provider.                                                           *)

\* a notice of an attempt, or one that belongs to another merchant or amount
Notify(n) ==
  /\ provider[n.trade] = "open" /\ n \notin sent
  /\ n.fits <=> n.status # "success"
  /\ sent' = sent \cup {n}
  /\ NoFault /\ UNCHANGED <<intent, provider, answered, claimed, hook, slips>>

Success(t) == [trade |-> t, status |-> "success", fits |-> TRUE]
Settle(t) ==
  /\ provider[t] = "open"
  /\ provider' = [provider EXCEPT ![t] = "settled"]
  /\ sent' = sent \cup {Success(t)}
  /\ NoFault /\ UNCHANGED <<intent, answered, claimed, hook, slips>>

Deliver(w, n) ==
  /\ At(w, "idle") /\ n \in sent \ answered
  /\ hook' = [hook EXCEPT ![w] = [pc |-> "claim", notice |-> n, trade |-> n.trade]]
  /\ NoFault /\ UNCHANGED <<intent, provider, sent, answered, claimed, slips>>

-----------------------------------------------------------------------------
(* WebhookIdempotency and HandleCallback.                                  *)

\* the signature is the provider's, the amount that of the payment
VerifyCallback(n) == n.fits

Answer(w) == answered' = answered \cup {hook[w].notice} /\ Rest(w)

\* answered when it is claimed, before it is handled
ClaimBug(w) ==
  /\ At(w, "claim")
  /\ claimed' = claimed \cup {hook[w].notice} /\ Answer(w)
  /\ NoFault /\ UNCHANGED <<intent, provider, sent, slips>>

Losing(n) == IF n.status = "success" THEN Slip(n.trade, "lost") ELSE UNCHANGED slips

\* SETNX: a taken key is answered at once.  An error is answered with 503, for
\* which the provider repeats the notice, although the key may have been set.
Claim(w) ==
  /\ At(w, "claim")
  /\ \/ /\ hook[w].notice \in claimed
        /\ Answer(w)
        /\ NoFault /\ UNCHANGED <<claimed, slips>>
     \/ /\ hook[w].notice \notin claimed
        /\ claimed' = claimed \cup {hook[w].notice}
        /\ To(w, "lookup")
        /\ NoFault /\ UNCHANGED <<answered, slips>>
     \/ /\ hook[w].notice \notin claimed
        /\ claimed' = claimed \cup {hook[w].notice}
        /\ Losing(hook[w].notice)
        /\ Fault /\ Rest(w) /\ UNCHANGED answered
     \/ Fault /\ Rest(w) /\ UNCHANGED <<answered, claimed, slips>>
  /\ UNCHANGED <<intent, provider, sent>>

\* whatever the merchant, the signature and the amount
LookupBug(w) ==
  /\ At(w, "lookup")
  /\ IF Booked(hook[w].trade)
       THEN Answer(w)
       ELSE To(w, "write") /\ UNCHANGED answered
  /\ NoFault /\ UNCHANGED <<intent, provider, sent, claimed, slips>>

\* a booked intent is written again
LookupAgainBug(w) ==
  /\ At(w, "lookup")
  /\ IF VerifyCallback(hook[w].notice) THEN To(w, "write") ELSE Rest(w)
  /\ NoFault /\ UNCHANGED <<intent, provider, sent, answered, claimed, slips>>

Lookup(w) ==
  /\ At(w, "lookup")
  /\ \/ ~VerifyCallback(hook[w].notice) /\ Rest(w) /\ UNCHANGED answered
     \/ VerifyCallback(hook[w].notice) /\ Booked(hook[w].trade) /\ Answer(w)
     \/ VerifyCallback(hook[w].notice) /\ ~Booked(hook[w].trade) /\ To(w, "write") /\ UNCHANGED answered
  /\ NoFault /\ UNCHANGED <<intent, provider, sent, claimed, slips>>

Writing(t) == {w \in Hooks : At(w, "write") /\ hook[w].trade = t}

\* The state read by Lookup is not looked at again.
UpdateState(w) ==
  LET n == hook[w].notice IN
  /\ At(w, "write")
  /\ intent' = [intent EXCEPT ![n.trade] = IF n.status = "success" THEN "paid" ELSE "failed"]
  /\ IF Writing(n.trade) = {w} THEN UNCHANGED slips ELSE Slip(n.trade, "overlap")
  /\ Answer(w)
  /\ NoFault /\ UNCHANGED <<provider, sent, claimed>>

\* An error or the death of the process behind the claim, which stays.
HookFails(w) ==
  /\ At(w, "lookup") \/ At(w, "write")
  /\ Fault
  /\ Losing(hook[w].notice)
  /\ Rest(w)
  /\ UNCHANGED <<intent, provider, sent, answered, claimed>>

\* By the caller of HandleCallback: external.
MarkFunded(t) ==
  /\ intent[t] = "paid"
  /\ intent' = [intent EXCEPT ![t] = "funded"]
  /\ NoFault /\ UNCHANGED <<provider, sent, answered, claimed, hook, slips>>

-----------------------------------------------------------------------------
IntentInit ==
  /\ intent = [t \in Trades |-> "none"] /\ provider = [t \in Trades |-> "none"]
  /\ sent = {} /\ answered = {} /\ claimed = {}
  /\ hook = [w \in Hooks |-> Resting] /\ slips = [t \in Trades |-> {}]

HandleCallback(w) == Claim(w) \/ Lookup(w) \/ UpdateState(w)

IntentNext ==
  \/ \E w \in Hooks :
       \/ \E t \in Trades : CreateTopup(w, t)
       \/ ProviderTopup(w)
       \/ \E n \in Notice : Deliver(w, n)
       \/ HandleCallback(w) \/ HookFails(w)
  \/ \E t \in Trades : Settle(t) \/ MarkFunded(t)
  \/ \E n \in Notice : Notify(n)

\* Requests go on; the provider repeats a notice until it is answered.
IntentFairness ==
  /\ \A w \in Hooks :
       WF_intentVars(focus = "intents" /\ HandleCallback(w)) /\ WF_intentVars(focus = "intents" /\ ProviderTopup(w))
  /\ \A t \in Trades : WF_intentVars(focus = "intents" /\ \E w \in Hooks : Deliver(w, Success(t)))

-----------------------------------------------------------------------------
IntentTypeOK ==
  /\ intent \in [Trades -> IntentState]
  /\ provider \in [Trades -> {"none", "open", "settled"}]
  /\ answered \subseteq sent /\ sent \subseteq Notice /\ claimed \subseteq sent

\* An intent is booked as paid only when the provider has settled it, although
\* notices that do not fit, failed attempts and late notices arrive in between
\* (HandleCallback).
PaidIsSettled == \A t \in Trades : Booked(t) => provider[t] = "settled"

\* A booked intent is taken back to failed only by a callback that read it
\* before the other wrote it (service.go:98).
PaidStays ==
  [][\A t \in Trades : Booked(t) /\ intent'[t] = "failed" => "overlap" \in slips'[t]]_intentVars

\* What the provider has settled is booked in the end, unless its notice was
\* claimed in vain, by a handler that failed behind the claim or by a SETNX
\* whose answer was lost: nothing gives the key back, and the next notice is
\* answered already_processed (webhook_idempotency.go:53-62); or callbacks
\* overlapped.
SettledIsBooked ==
  \A t \in Trades : provider[t] = "settled" ~> Booked(t) \/ slips[t] # {}
=============================================================================
