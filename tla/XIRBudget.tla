------------------------------ MODULE XIRBudget ------------------------------
(***************************************************************************)
(* Budget reservations of one run (src/xir_lab/execute/leases.py) under    *)
(* the run's persistent stop state (src/xir_lab/execute/controls.py).      *)
(*                                                                         *)
(* An attempt reserves the worst case of every stage of its route before   *)
(* its source transaction; each stage then binds one account nonce, which  *)
(* starts a lineage.  A lineage is identified by its attempt and stage.    *)
(* The same amounts are kept three times: per stage (sub), per attempt and *)
(* chain (row), and as running totals per chain and per batch and chain    *)
(* (totals, batchTotals).  Every method is one BEGIN IMMEDIATE transaction *)
(* of the evidence store, so every method is one action; a method that     *)
(* raises rolls back and is not a step.                                    *)
(*                                                                         *)
(* The methods are called by workers and by the collector in any order,    *)
(* also in orders the methods do not refuse though their callers should    *)
(* avoid them: a cancelled reservation may be cancelled again or started,  *)
(* and a lineage may be reported pending after it was reported included.   *)
(***************************************************************************)
EXTENDS Integers, FiniteSetsExt

CONSTANTS
    Attempts, Stages, Chains, Batches,
    ChainOf,          \* the chain of each stage
    BatchOf,          \* the batch of each attempt
    Worst,            \* the planned worst case of each stage of each attempt
    Nonces,           \* the account nonces of the runner
    Amounts,          \* the amounts a transaction may request or turn out to cost
    Balances,         \* the balances the runner's account may be observed to have
    MaxTransaction, MaxBatch, MaxRun, Floor     \* the immutable limits of each chain

Lineages == Attempts \X Stages

StagesOn(c) == {s \in Stages : ChainOf[s] = c}
RouteChains == {ChainOf[s] : s \in Stages}

Reserved(l) == Worst[l[1]][l[2]]
Chain(l) == ChainOf[l[2]]

(* The part of an attempt's complete-route reservation on one chain. *)
Requested(a, c) == MapThenSumSet(LAMBDA s : Worst[a][s], StagesOn(c))

ASSUME BudgetConstants ==
    /\ ChainOf \in [Stages -> Chains]
    /\ BatchOf \in [Attempts -> Batches]
    /\ Worst \in [Attempts -> [Stages -> Nat]]
    /\ Amounts \subseteq Nat /\ Balances \subseteq Nat /\ Nonces \subseteq Nat
    /\ MaxTransaction \in [Chains -> Nat] /\ MaxBatch \in [Chains -> Nat]
    /\ MaxRun \in [Chains -> Nat] /\ Floor \in [Chains -> Nat]
    /\ \A a \in Attempts, c \in Chains : Requested(a, c) \in Nat

Modes == {"running", "drain", "halted", "revoked"}
SubStates == {"none", "reserved", "active", "broadcast_unknown", "submitted", "included",
              "finalized", "released", "reopened"}
LeaseStates == {"none", "active", "broadcast_unknown", "submitted", "included",
                "finalized", "released"}
RowStates == {"none", "reserved", "in_flight", "settled", "released"}
Settled == {"finalized", "released"}

Total == [active : Nat, provisional : Nat, finalized : Nat]
Zero == [active |-> 0, provisional |-> 0, finalized |-> 0]

VARIABLES
    run,          \* runs.state
    mode,         \* run_controls.mode
    attempt,      \* attempts.state
    sub,          \* transaction_subreservations, one per lineage
    lease,        \* nonce_leases, one per lineage
    row,          \* budgets, one per attempt and chain
    releases,     \* how often unstarted_route_released was recorded for an
                  \* attempt; 2 stands for more than once
    totals,       \* budget_totals
    batchTotals,  \* batch_budget_totals; a missing row counts as zero
    observed,     \* budget_limits.observed_runner_balance_wei
    violations    \* the lineages with a budget_reorg_restore_failed violation

vars == <<run, mode, attempt, sub, lease, row, releases, totals, batchTotals, observed, violations>>
control == <<run, mode, violations>>
amounts == <<totals, batchTotals>>

Init ==
    /\ run = "running" /\ mode = "running"
    /\ attempt = [a \in Attempts |-> "planned"]
    /\ sub = [l \in Lineages |-> [state |-> "none", allocated |-> 0, provisional |-> 0, finalized |-> 0]]
    /\ lease = [l \in Lineages |-> [state |-> "none", locked |-> FALSE, nonce |-> 0]]
    /\ row = [a \in Attempts |-> [c \in Chains |->
                [state |-> "none", inFlight |-> FALSE, provisional |-> 0, finalized |-> 0]]]
    /\ releases = [a \in Attempts |-> 0]
    /\ totals = [c \in Chains |-> Zero]
    /\ batchTotals = [b \in Batches |-> [c \in Chains |-> Zero]]
    /\ observed \in [Chains -> Balances]
    /\ violations = {}

-----------------------------------------------------------------------------
(* Totals. *)

Delta(active, provisional, finalized) ==
    [active |-> active, provisional |-> provisional, finalized |-> finalized]

Plus(t, d) == Delta(t.active + d.active, t.provisional + d.provisional, t.finalized + d.finalized)

(* The schema refuses a negative total, which rolls the method back. *)
NonNegative(t) == t.active >= 0 /\ t.provisional >= 0 /\ t.finalized >= 0

ChangeTotals(b, d) ==
    /\ totals' = [c \in Chains |-> Plus(totals[c], d[c])]
    /\ batchTotals' = [batchTotals EXCEPT ![b] = [c \in Chains |-> Plus(batchTotals[b][c], d[c])]]
    /\ \A c \in Chains : NonNegative(Plus(totals[c], d[c])) /\ NonNegative(Plus(batchTotals[b][c], d[c]))

(* The totals change by d on the lineage's chain only. *)
ChangeLineageTotals(l, d) ==
    ChangeTotals(BatchOf[l[1]], [c \in Chains |-> IF c = Chain(l) THEN d ELSE Zero])

(* A change of the attempt's row on the lineage's chain. *)
ChangeRow(l, provisional, finalized) ==
    [row EXCEPT ![l[1]][Chain(l)].provisional = @ + provisional,
                ![l[1]][Chain(l)].finalized = @ + finalized]

AssertCapacity_IgnoreActive(b, c, requested, credit) ==
    /\ totals[c].finalized - credit + requested <= MaxRun[c]
    /\ batchTotals[b][c].finalized - credit + requested <= MaxBatch[c]
    /\ observed[c] - totals[c].active - requested >= Floor[c]

AssertCapacity(b, c, requested, credit) ==
    /\ totals[c].active + totals[c].finalized - credit + requested <= MaxRun[c]
    /\ batchTotals[b][c].active + batchTotals[b][c].finalized - credit + requested <= MaxBatch[c]
    /\ observed[c] - totals[c].active - requested >= Floor[c]

(* A budget row is settled once no stage on its chain holds a reservation. *)
SettleRows(a, rows, subs) ==
    [rows EXCEPT ![a] = [c \in Chains |->
        IF rows[a][c].state # "none" /\ \A s \in StagesOn(c) : subs[<<a, s>>].state \in Settled
        THEN [rows[a][c] EXCEPT !.state = "settled"] ELSE rows[a][c]]]

-----------------------------------------------------------------------------
(* Reservations. *)

ConfigureLimits(c, balance) ==
    /\ observed' = [observed EXCEPT ![c] = balance]
    /\ UNCHANGED <<control, attempt, sub, lease, row, releases, amounts>>

ReserveCompleteRoute(a) ==
    /\ attempt[a] = "planned"
    /\ run \notin {"drain", "halted", "revoked"}
    /\ \A c \in Chains : row[a][c].state = "none"
    /\ \A s \in Stages : Worst[a][s] <= MaxTransaction[ChainOf[s]]
    /\ \A c \in RouteChains : AssertCapacity(BatchOf[a], c, Requested(a, c), 0)
    /\ row' = [row EXCEPT ![a] = [c \in Chains |->
                 IF c \in RouteChains THEN [row[a][c] EXCEPT !.state = "reserved"] ELSE row[a][c]]]
    /\ sub' = [l \in Lineages |-> IF l[1] = a THEN [sub[l] EXCEPT !.state = "reserved"] ELSE sub[l]]
    /\ ChangeTotals(BatchOf[a], [c \in Chains |-> IF c \in RouteChains THEN Delta(Requested(a, c), 0, 0) ELSE Zero])
    /\ UNCHANGED <<control, attempt, lease, releases, observed>>

MarkSourceInFlight(a) ==
    /\ \E c \in Chains : row[a][c].state # "none"
    /\ \A c \in Chains : ~row[a][c].inFlight
    /\ run \notin {"drain", "halted", "revoked"}
    /\ attempt[a] = "planned"
    /\ row' = [row EXCEPT ![a] = [c \in Chains |->
                 IF row[a][c].state = "none" THEN row[a][c]
                 ELSE [row[a][c] EXCEPT !.state = "in_flight", !.inFlight = TRUE]]]
    /\ attempt' = [attempt EXCEPT ![a] = "in_flight"]
    /\ UNCHANGED <<control, sub, lease, releases, amounts, observed>>

ReleaseUnstartedRoute(a) ==
    /\ \E c \in Chains : row[a][c].state # "none"
    /\ \A c \in Chains : ~row[a][c].inFlight
    /\ releases' = [releases EXCEPT ![a] = IF @ = 2 THEN 2 ELSE @ + 1]
    /\ ChangeTotals(BatchOf[a], [c \in Chains |-> IF c \in RouteChains THEN Delta(-Requested(a, c), 0, 0) ELSE Zero])
    /\ sub' = [l \in Lineages |-> IF l[1] = a THEN [sub[l] EXCEPT !.state = "released"] ELSE sub[l]]
    /\ row' = [row EXCEPT ![a] = [c \in Chains |->
                 IF row[a][c].state = "none" THEN row[a][c] ELSE [row[a][c] EXCEPT !.state = "released"]]]
    /\ UNCHANGED <<control, attempt, lease, observed>>

-----------------------------------------------------------------------------
(* Lineages. *)

(* The stage has a nonce lease, without which the methods below know no    *)
(* such lineage.                                                           *)
Bound(l) == lease[l].state # "none"

AcquireNonceSubreservation(l, nonce, requested) ==
    /\ row[l[1]][Chain(l)].inFlight
    /\ requested <= Reserved(l)
    /\ requested <= MaxTransaction[Chain(l)]
    /\ \A m \in Lineages \ {l} : Bound(m) /\ Chain(m) = Chain(l) => lease[m].nonce # nonce
    /\ \/ /\ Bound(l) /\ lease[l].nonce = nonce     \* a replacement shares the nonce
          /\ sub' = [sub EXCEPT ![l].allocated = IF @ < requested THEN requested ELSE @]
          /\ UNCHANGED lease
       \/ /\ ~Bound(l)
          /\ lease' = [lease EXCEPT ![l] = [state |-> "active", locked |-> TRUE, nonce |-> nonce]]
          /\ sub' = [sub EXCEPT ![l].state = "active", ![l].allocated = requested]
    /\ UNCHANGED <<control, attempt, row, releases, amounts, observed>>

MarkLineagePending(l, state) ==
    /\ Bound(l) /\ sub[l].state \notin Settled
    /\ lease' = [lease EXCEPT ![l].state = state, ![l].locked = TRUE]
    /\ sub' = [sub EXCEPT ![l].state = state]
    /\ UNCHANGED <<control, attempt, row, releases, amounts, observed>>

RecordIncluded_Repeated(l, spent) ==
    /\ Bound(l) /\ sub[l].state \notin Settled
    /\ spent <= Reserved(l)
    /\ lease' = [lease EXCEPT ![l].state = "included", ![l].locked = TRUE]
    /\ sub' = [sub EXCEPT ![l].state = "included", ![l].provisional = spent]
    /\ row' = ChangeRow(l, spent, 0)
    /\ ChangeLineageTotals(l, Delta(0, spent, 0))
    /\ UNCHANGED <<control, attempt, releases, observed>>

RecordIncluded(l, spent) ==
    /\ Bound(l) /\ sub[l].state \notin Settled
    /\ spent <= Reserved(l)
    /\ lease' = [lease EXCEPT ![l].state = "included", ![l].locked = TRUE]
    /\ sub' = [sub EXCEPT ![l].state = "included", ![l].provisional = spent]
    /\ row' = ChangeRow(l, spent - sub[l].provisional, 0)
    /\ ChangeLineageTotals(l, Delta(0, spent - sub[l].provisional, 0))
    /\ UNCHANGED <<control, attempt, releases, observed>>

FinalizeLineage(l, spent) ==
    /\ Bound(l) /\ sub[l].state \notin Settled
    /\ spent <= Reserved(l)
    /\ lease' = [lease EXCEPT ![l].state = "finalized", ![l].locked = FALSE]
    /\ sub' = [sub EXCEPT ![l].state = "finalized", ![l].provisional = 0, ![l].finalized = spent]
    /\ row' = SettleRows(l[1], ChangeRow(l, -sub[l].provisional, spent), sub')
    /\ ChangeLineageTotals(l, Delta(-Reserved(l), -sub[l].provisional, spent))
    /\ UNCHANGED <<control, attempt, releases, observed>>

(* A dead lineage is released on a proof or on a manual decision, which    *)
(* the method takes on trust.                                              *)
ReleaseDeadLineage(l) ==
    /\ Bound(l) /\ sub[l].state \notin {"included", "finalized", "released"}
    /\ lease' = [lease EXCEPT ![l].state = "released", ![l].locked = FALSE]
    /\ sub' = [sub EXCEPT ![l].state = "released"]
    /\ row' = SettleRows(l[1], row, sub')
    /\ ChangeLineageTotals(l, Delta(-Reserved(l), 0, 0))
    /\ UNCHANGED <<control, attempt, releases, observed>>

ReopenIncluded(l) ==
    /\ Bound(l) /\ sub[l].state = "included"
    /\ lease' = [lease EXCEPT ![l].state = "active", ![l].locked = TRUE]
    /\ sub' = [sub EXCEPT ![l].state = "reopened", ![l].provisional = 0]
    /\ row' = ChangeRow(l, -sub[l].provisional, 0)
    /\ ChangeLineageTotals(l, Delta(0, -sub[l].provisional, 0))
    /\ UNCHANGED <<control, attempt, releases, observed>>

ReopenFinalized_Unlocked(l) ==
    /\ Bound(l) /\ sub[l].state = "finalized"
    /\ AssertCapacity(BatchOf[l[1]], Chain(l), Reserved(l), sub[l].finalized)
    /\ lease' = [lease EXCEPT ![l].state = "active"]
    /\ sub' = [sub EXCEPT ![l].state = "reopened", ![l].finalized = 0]
    /\ row' = [ChangeRow(l, 0, -sub[l].finalized) EXCEPT ![l[1]][Chain(l)].state = "in_flight"]
    /\ ChangeLineageTotals(l, Delta(Reserved(l), 0, -sub[l].finalized))
    /\ UNCHANGED <<control, attempt, releases, observed>>

ReopenFinalized(l) ==
    /\ Bound(l) /\ sub[l].state = "finalized"
    /\ AssertCapacity(BatchOf[l[1]], Chain(l), Reserved(l), sub[l].finalized)
    /\ lease' = [lease EXCEPT ![l].state = "active", ![l].locked = TRUE]
    /\ sub' = [sub EXCEPT ![l].state = "reopened", ![l].finalized = 0]
    /\ row' = [ChangeRow(l, 0, -sub[l].finalized) EXCEPT ![l[1]][Chain(l)].state = "in_flight"]
    /\ ChangeLineageTotals(l, Delta(Reserved(l), 0, -sub[l].finalized))
    /\ UNCHANGED <<control, attempt, releases, observed>>

(* The capacity was used again: the run halts, the lineage stays as it is. *)
ReopenRefused(l) ==
    /\ Bound(l) /\ sub[l].state = "finalized"
    /\ ~AssertCapacity(BatchOf[l[1]], Chain(l), Reserved(l), sub[l].finalized)
    /\ run' = "halted"
    /\ violations' = violations \cup {l}
    /\ UNCHANGED <<mode, attempt, sub, lease, row, releases, amounts, observed>>

ReopenAfterReorganization(l) ==
    ReopenIncluded(l) \/ ReopenFinalized(l) \/ ReopenRefused(l)

-----------------------------------------------------------------------------
(* Run control. *)

Transition(from, to) ==
    /\ mode \in from
    /\ mode' = to /\ run' = to
    /\ UNCHANGED <<attempt, sub, lease, row, releases, amounts, observed, violations>>

Drain == Transition({"running"}, "drain")
Halt == Transition({"running", "drain"}, "halted")
Revoke == Transition({"running", "drain", "halted"}, "revoked")
Resume == Transition({"drain", "halted"}, "running")

-----------------------------------------------------------------------------
Reservation(a) == ReserveCompleteRoute(a) \/ MarkSourceInFlight(a) \/ ReleaseUnstartedRoute(a)

Lineage(l) ==
    \/ \E n \in Nonces, w \in Amounts : AcquireNonceSubreservation(l, n, w)
    \/ \E s \in {"broadcast_unknown", "submitted"} : MarkLineagePending(l, s)
    \/ \E w \in Amounts : RecordIncluded(l, w) \/ FinalizeLineage(l, w)
    \/ ReleaseDeadLineage(l)
    \/ ReopenAfterReorganization(l)

Next ==
    \/ \E a \in Attempts : Reservation(a)
    \/ \E l \in Lineages : Lineage(l)
    \/ \E c \in Chains, w \in Balances : ConfigureLimits(c, w)
    \/ Drain \/ Halt \/ Revoke \/ Resume

Spec == Init /\ [][Next]_vars

-----------------------------------------------------------------------------
(* The type invariant: in particular, no total ever drops below zero. *)
TypeOK ==
    /\ run \in Modes /\ mode \in Modes
    /\ attempt \in [Attempts -> {"planned", "in_flight"}]
    /\ sub \in [Lineages -> [state : SubStates, allocated : Nat, provisional : Nat, finalized : Nat]]
    /\ lease \in [Lineages -> [state : LeaseStates, locked : BOOLEAN, nonce : Nat]]
    /\ row \in [Attempts -> [Chains -> [state : RowStates, inFlight : BOOLEAN, provisional : Int, finalized : Int]]]
    /\ releases \in [Attempts -> 0..2]
    /\ totals \in [Chains -> Total]
    /\ batchTotals \in [Batches -> [Chains -> Total]]
    /\ observed \in [Chains -> Balances]
    /\ violations \subseteq Lineages

Holds(l) == sub[l].state \notin {"none"} \cup Settled

SumOver(L, f(_)) == MapThenSumSet(f, L)
On(c) == {l \in Lineages : Chain(l) = c}
InBatch(b) == {l \in Lineages : BatchOf[l[1]] = b}
Of(a) == {l \in Lineages : l[1] = a}

TotalOf(L) ==
    Delta(SumOver({l \in L : Holds(l)}, Reserved),
          SumOver(L, LAMBDA l : sub[l].provisional),
          SumOver(L, LAMBDA l : sub[l].finalized))

(* The attempt's reservation was cancelled and then cancelled again or     *)
(* started, which release_unstarted_route and mark_source_in_flight do not *)
(* refuse.                                                                 *)
UsedAfterCancel(a) == releases[a] = 2 \/ (releases[a] = 1 /\ attempt[a] = "in_flight")

(* The totals t are those of the lineages L: what was spent always, what   *)
(* is reserved never more, and exactly unless a cancelled reservation of   *)
(* theirs was used again.                                                  *)
Accounted(t, L) ==
    LET u == TotalOf(L) IN
    /\ t.provisional = u.provisional /\ t.finalized = u.finalized
    /\ t.active <= u.active
    /\ t.active = u.active \/ \E l \in L : UsedAfterCancel(l[1])

(* The three copies of every amount agree: the totals of a chain, of a     *)
(* batch and of an attempt are the sums over their stages of what is still *)
(* reserved, provisionally spent and finally spent (_change_totals and the *)
(* updates of budgets), through replacements, repeated, late and           *)
(* contradicting reports, finalisation, release and reorganisation.        *)
LedgerBalanced ==
    \A c \in Chains :
        /\ Accounted(totals[c], On(c))
        /\ \A b \in Batches : Accounted(batchTotals[b][c], On(c) \cap InBatch(b))
        /\ \A a \in Attempts : LET t == TotalOf(On(c) \cap Of(a)) IN
              row[a][c].provisional = t.provisional /\ row[a][c].finalized = t.finalized

(* What is reserved and what is finally spent stay within the approved run *)
(* and batch limits of every chain (_assert_capacity), although a          *)
(* reorganisation turns spending back into a reservation.                  *)
WithinLimits ==
    \A c \in Chains :
        /\ totals[c].active + totals[c].finalized <= MaxRun[c]
        /\ \A b \in Batches : batchTotals[b][c].active + batchTotals[b][c].finalized <= MaxBatch[c]

(* A nonce is locked exactly while its lineage is unsettled, and the lease *)
(* and the sub-reservation never disagree about that, so that an expired   *)
(* work lease is not taken over while a transaction may still be mined     *)
(* (_attempt_has_unresolved_submission).                                   *)
LockedUntilSettled ==
    \A l \in Lineages : Bound(l) =>
        /\ lease[l].locked <=> sub[l].state \notin Settled
        /\ lease[l].state = IF sub[l].state = "reopened" THEN "active" ELSE sub[l].state

(* The row of a started reservation is settled exactly when every stage on *)
(* its chain is (_settle_completed_budget_rows), also after a finalised    *)
(* stage was reopened, unless the reservation had been cancelled.          *)
SettledTogether ==
    \A a \in Attempts, c \in RouteChains : row[a][c].inFlight /\ ~UsedAfterCancel(a) =>
        (row[a][c].state = "settled" <=> \A s \in StagesOn(c) : sub[<<a, s>>].state \in Settled)

(* A released stage has spent nothing: release_dead_lineage means to       *)
(* refuse a lineage that was included until that was resolved.             *)
ReleasedUnspent ==
    \A l \in Lineages :
        sub[l].state = "released" => sub[l].provisional = 0 /\ sub[l].finalized = 0

(* Reservations remain locked through ambiguous submission and approved    *)
(* finality (docs/architecture.md): the reservation of every lineage that  *)
(* may still be mined is part of the total that new reservations are       *)
(* checked against (active_reserved_wei).                                  *)
ReservationHeld ==
    \A c \in Chains :
        SumOver({l \in On(c) : lease[l].locked}, Reserved) <= totals[c].active

=============================================================================
