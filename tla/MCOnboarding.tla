---------------------------- MODULE MCOnboarding ----------------------------
(* Instances of Onboarding for TLC.                                        *)
EXTENDS Onboarding, TLC

CONSTANTS u1, u2, u3

\* the workers are alike, and so are the users without a customer
Alike == {[x \in Workers \cup {u2, u3} |-> IF x \in Workers THEN f[x] ELSE g[x]] :
            f \in Permutations(Workers), g \in Permutations({u2, u3})}
Row(e, status) == [email |-> e, status |-> status, column |-> TRUE]
Of(p, limit) == [partner |-> p, limit |-> limit, used |-> 0, status |-> "active",
                 expires |-> IF limit = 0 THEN "never" ELSE "later"]

\* two approved partners, the second with a code for one use
TwoPartners == <<Row("a", "approved"), Row("b", "approved")>>
TwoCodes == [c \in {"k1", "k2"} |-> IF c = "k1" THEN Of(1, 0) ELSE Of(2, 1)]
LastingCodes == [c \in {"k1", "k2"} |-> [TwoCodes[c] EXCEPT !.expires = "never"]]
OneCustomer == <<[user |-> u1, partner |-> 1, status |-> "active", group |-> 1]>>
OneTransfer == <<[id |-> 1, to |-> 2, status |-> "pending_a"]>>
None == <<>>
=============================================================================
