------------------------------ MODULE MonthEnd ------------------------------
(***************************************************************************)
(* The month-end run (internal/service/settlement/runner.go, RunMonthly)   *)
(* over a revenue feed that goes on working.  An item is the set of        *)
(* revenue rows it was computed from: ComputeItem is a function of them.   *)
(***************************************************************************)
EXTENDS Feed, Settlement

CONSTANTS
  Owner,        \* key -> the id of the partner that earns it
  Runners,
  GateRegion,   \* the region whose consumer answers the freshness gate
  PageSize,     \* the runner's batch
  MaxRuns       \* bound: runs of the period

ASSUME MonthEndAssumption ==
  /\ Owner \in [Keys -> Nat \ {0}]
  /\ PageSize \in Nat \ {0} /\ MaxRuns \in Nat

VARIABLES
  status,    \* settlement.status in the database
  item,      \* partner -> revenue rows in its settlement_item
  runner,    \* process -> where RunMonthly is
  covered,   \* history: revenue_log when the run began that locked the settlement
  overlap,   \* history: a run began before another one ended
  runs

settleVars == <<status, item, runner, covered, overlap, runs>>
vars == <<feedVars, settleVars>>

Earned(p, keys) == {k \in keys : Owner[k] = p}
Billed(keys) == {Owner[k] : k \in keys}

\* ListPartnerIDs with LIMIT and OFFSET, in the order of the ids
Page(keys, offset) ==
  {p \in Billed(keys) :
     Cardinality({q \in Billed(keys) : q < p}) \in offset .. offset + PageSize - 1}

Resting == [pc |-> "idle", status |-> "generating", page |-> {}, offset |-> 0,
            at |-> 0, rows |-> {}, base |-> {}]
Running(w, pc) == runner[w].pc = pc
Go(w, change) == runner' = [runner EXCEPT ![w] = change]
Rest(w) == Go(w, Resting)

-----------------------------------------------------------------------------
\* The caller passes the settlement of the period as it is stored.
Begin(w) ==
  /\ Running(w, "idle") /\ runs < MaxRuns
  /\ runs' = runs + 1
  /\ Go(w, [Resting EXCEPT !.pc = "list", !.status = status, !.base = revenue])
  /\ overlap' = (overlap \/ \E v \in Runners : ~Running(v, "idle"))
  /\ UNCHANGED <<status, item, covered>>

\* The next page of partners, unless it is empty.
ListPartnerIDs(w) ==
  /\ Running(w, "list")
  /\ LET page == Page(revenue, runner[w].offset) IN
       /\ page # {}
       /\ Go(w, [runner[w] EXCEPT !.pc = "load", !.page = page,
                                  !.offset = @ + Cardinality(page)])
  /\ UNCHANGED <<status, item, covered, overlap, runs>>

Load(w) ==
  /\ Running(w, "load")
  /\ \E p \in runner[w].page :
       Go(w, [runner[w] EXCEPT !.pc = "upsert", !.at = p, !.rows = Earned(p, revenue)])
  /\ UNCHANGED <<status, item, covered, overlap, runs>>

\* The partner is done; an exhausted page asks for the next one.
NextPartner(w) ==
  LET rest == runner[w].page \ {runner[w].at} IN
    Go(w, [runner[w] EXCEPT !.pc = IF rest = {} THEN "list" ELSE "load",
                             !.page = rest, !.at = 0, !.rows = {}])

\* the item of a partner is written once, and kept when it exists
UpsertItemBug(w) ==
  /\ Running(w, "upsert")
  /\ item' = [q \in DOMAIN item \cup {runner[w].at} |->
                IF q \in DOMAIN item THEN item[q] ELSE runner[w].rows]
  /\ NextPartner(w)
  /\ UNCHANGED <<status, covered, overlap, runs>>

UpsertItem(w) ==
  /\ Running(w, "upsert")
  /\ item' = [q \in DOMAIN item \cup {runner[w].at} |->
                IF q = runner[w].at THEN runner[w].rows ELSE item[q]]
  /\ NextPartner(w)
  /\ UNCHANGED <<status, covered, overlap, runs>>

\* every run may generate the settlement anew
GenerateBug(w) ==
  /\ Running(w, "list") /\ Page(revenue, runner[w].offset) = {}
  /\ status' = "generated"
  /\ Go(w, [runner[w] EXCEPT !.pc = "gate", !.status = "generated"])
  /\ UNCHANGED <<item, covered, overlap, runs>>

\* No partner is left: Transition to generated, or its error.
Generate(w) ==
  /\ Running(w, "list") /\ Page(revenue, runner[w].offset) = {}
  /\ IF CanTransition(runner[w].status, "generated")
       THEN /\ status' = "generated"
            /\ Go(w, [runner[w] EXCEPT !.pc = "gate", !.status = "generated"])
       ELSE Rest(w) /\ UNCHANGED status
  /\ UNCHANGED <<item, covered, overlap, runs>>

Gate(w) ==
  /\ Running(w, "gate")
  /\ IF Fresh(GateRegion)
       THEN Go(w, [runner[w] EXCEPT !.pc = "lock"]) /\ UNCHANGED status
       ELSE Rest(w) /\ status' = "gate_failed"
  /\ UNCHANGED <<item, covered, overlap, runs>>

Lock(w) ==
  /\ Running(w, "lock")
  /\ status' = "locked"
  /\ covered' = runner[w].base
  /\ Rest(w)
  /\ UNCHANGED <<item, overlap, runs>>

\* A query fails (a failing gate query counts as a failed gate) or the
\* process dies: the run ends where it is.
RunFails(w) ==
  /\ ~Running(w, "idle")
  /\ Fault
  /\ Rest(w)
  /\ status' \in {status} \cup (IF Running(w, "gate") THEN {"gate_failed"} ELSE {})
  /\ UNCHANGED <<item, covered, overlap, runs>>

-----------------------------------------------------------------------------
Init ==
  /\ FeedInit
  /\ status = "generating" /\ item = [p \in {} |-> {}]
  /\ runner = [w \in Runners |-> Resting]
  /\ covered = {} /\ overlap = FALSE /\ runs = 0

RunMonthly(w) ==
  \/ Begin(w) \/ ListPartnerIDs(w) \/ Load(w) \/ UpsertItem(w)
  \/ Generate(w) \/ Gate(w) \/ Lock(w)

Next ==
  \/ FeedNext /\ UNCHANGED settleVars
  \/ \E w \in Runners : RunMonthly(w) /\ UNCHANGED feedVars
  \/ \E w \in Runners : RunFails(w) /\ UNCHANGED <<row, retries, late, revenue, consumer>>

Spec == Init /\ [][Next]_vars

-----------------------------------------------------------------------------
(* Properties.                                                             *)

Partners == {Owner[k] : k \in Keys}
Paid(p) == IF p \in DOMAIN item THEN item[p] ELSE {}

TypeOK ==
  /\ FeedTypeOK
  /\ status \in SettlementStatus
  /\ DOMAIN item \subseteq Partners /\ \A p \in DOMAIN item : item[p] \subseteq Keys
  /\ runner \in [Runners -> [pc : {"idle", "list", "load", "upsert", "gate", "lock"},
                             status : SettlementStatus, page : SUBSET Partners,
                             offset : Nat, at : Partners \cup {0},
                             rows : SUBSET Keys, base : SUBSET Keys]]
  /\ covered \subseteq Keys /\ overlap \in BOOLEAN /\ runs \in 0 .. MaxRuns

\* A locked settlement pays every partner at least the revenue that was booked
\* when the run began, whatever arrives meanwhile, in whichever page it
\* shifts the partners, and however often earlier runs were cut short, as long
\* as no two runs overlap.
LockedCovers ==
  status = "locked" /\ ~overlap => \A p \in Partners : Earned(p, covered) \subseteq Paid(p)

\* A locked settlement stays locked (engine.go:7, CanTransition), as long as no
\* two runs overlap: each works on the status it was passed.
LockedForever == [][status = "locked" /\ ~overlap => status' = "locked"]_vars

\* "lock 后 settlement / settlement_item 字段不可改" (engine.go:16).
LockedItemsFixed == [][status = "locked" => item' = item]_vars
=============================================================================
