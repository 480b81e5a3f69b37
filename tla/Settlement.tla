----------------------------- MODULE Settlement -----------------------------
(***************************************************************************)
(* The monthly settlement engine (internal/service/settlement/engine.go):  *)
(* what a partner is paid, and the statuses a settlement goes through.     *)
(***************************************************************************)
EXTENDS Integers

AtLeastZero(n) == IF n < 0 THEN 0 ELSE n

PersonalWithholdRate == 20

\* The settlement_item of a partner; amounts are quota units.
ComputeItem(kind, revenue, adjustments, cost) ==
  LET gross == revenue + adjustments
      net == AtLeastZero(gross - cost)
      fee == 0
      tax == IF kind = "personal" THEN ((net - fee) * PersonalWithholdRate) \div 100 ELSE 0
  IN [revenue |-> gross, cost |-> cost, fee |-> fee, tax |-> tax,
      payout |-> AtLeastZero(net - fee - tax)]

SettlementStatus == {"generating", "generated", "locked", "paying", "paid", "failed", "gate_failed",
             "partially_disputed"}

CanTransition(from, to) ==
  <<from, to>> \in {<<"generating", "generated">>, <<"generating", "gate_failed">>,
                    <<"generated", "locked">>, <<"generated", "gate_failed">>,
                    <<"locked", "paying">>,
                    <<"paying", "paid">>, <<"paying", "failed">>,
                    <<"paying", "partially_disputed">>,
                    <<"paid", "partially_disputed">>}
=============================================================================
