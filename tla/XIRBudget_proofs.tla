--------------------------- MODULE XIRBudget_proofs ---------------------------
(***************************************************************************)
(* Proofs about the budget reservations, for every set of attempts, routes *)
(* and limits.  That the totals are sums over the stages is induction over *)
(* a set and stays with TLC; that they respect the limits, that a nonce is *)
(* locked exactly while it must be and that a row settles with its stages  *)
(* need no sums.                                                           *)
(*                                                                         *)
(* The last two sections prove the stop policies of a run and the evidence *)
(* of a pair.                                                              *)
(***************************************************************************)
EXTENDS MC_XIRControl, FiniteSetTheorems, WellFoundedInduction, TLAPS

Change == [active : Int, provisional : Int, finalized : Int]

(* A nonce is bound only to a stage of a reservation that was started. *)
BoundInFlight ==
    \A l \in Lineages : Bound(l) => row[l[1]][Chain(l)].inFlight

(* Only an existing budget row is started, and with it its attempt. *)
StartedReserved ==
    \A a \in Attempts, c \in Chains :
        row[a][c].inFlight => row[a][c].state # "none" /\ attempt[a] = "in_flight"

(* The inductive invariant. *)
BudgetInv ==
    /\ TypeOK
    /\ WithinLimits
    /\ LockedUntilSettled
    /\ BoundInFlight
    /\ StartedReserved

-----------------------------------------------------------------------------
(* The parts of a lineage and what is reserved for it. *)
LEMMA LineageParts ==
    ASSUME NEW l \in Lineages
    PROVE  /\ l[1] \in Attempts /\ l[2] \in Stages
           /\ Chain(l) \in Chains
           /\ Reserved(l) \in Nat
           /\ BatchOf[l[1]] \in Batches
BY BudgetConstants DEF Lineages, Chain, Reserved

(* Totals that do not become negative keep their type (_change_totals). *)
LEMMA TotalsType ==
    ASSUME TypeOK, NEW b \in Batches, NEW d \in [Chains -> Change], ChangeTotals(b, d)
    PROVE  /\ totals' \in [Chains -> Total]
           /\ batchTotals' \in [Batches -> [Chains -> Total]]
<1>1. \A c \in Chains : Plus(totals[c], d[c]) \in Total /\ Plus(batchTotals[b][c], d[c]) \in Total
  BY DEF TypeOK, ChangeTotals, NonNegative, Plus, Delta, Total, Change
<1> QED
  BY <1>1 DEF TypeOK, ChangeTotals

(* A change stays within the limits when it frees capacity, or when the    *)
(* capacity was checked.                                                   *)
LEMMA TotalsWithin ==
    ASSUME TypeOK, WithinLimits, NEW b \in Batches, NEW d \in [Chains -> Change],
           ChangeTotals(b, d),
           \A c \in Chains :
               \/ d[c].active + d[c].finalized <= 0
               \/ /\ totals[c].active + totals[c].finalized + d[c].active + d[c].finalized <= MaxRun[c]
                  /\ batchTotals[b][c].active + batchTotals[b][c].finalized
                         + d[c].active + d[c].finalized <= MaxBatch[c]
    PROVE  WithinLimits'
<1> SUFFICES ASSUME NEW c \in Chains, NEW b2 \in Batches
             PROVE  /\ totals'[c].active + totals'[c].finalized <= MaxRun[c]
                    /\ batchTotals'[b2][c].active + batchTotals'[b2][c].finalized <= MaxBatch[c]
  BY DEF WithinLimits
<1>1. totals[c] \in Total /\ batchTotals[b][c] \in Total /\ batchTotals[b2][c] \in Total /\ d[c] \in Change
  BY DEF TypeOK
<1>2. MaxRun[c] \in Nat /\ MaxBatch[c] \in Nat
  BY BudgetConstants
<1>3. totals'[c] = Plus(totals[c], d[c])
  BY DEF ChangeTotals
<1>4. batchTotals'[b2][c] = IF b2 = b THEN Plus(batchTotals[b][c], d[c]) ELSE batchTotals[b2][c]
  BY DEF ChangeTotals, TypeOK
<1>5. totals'[c].active + totals'[c].finalized <= MaxRun[c]
  BY <1>1, <1>2, <1>3 DEF Plus, Delta, Total, Change, WithinLimits
<1>6. batchTotals'[b2][c].active + batchTotals'[b2][c].finalized <= MaxBatch[c]
  BY <1>1, <1>2, <1>4 DEF Plus, Delta, Total, Change, WithinLimits
<1> QED BY <1>5, <1>6

(* A change of the totals that the limits admit, or that only lowers them, *)
(* keeps the totals within the limits.                                     *)
LEMMA LineageTotals ==
    ASSUME TypeOK, WithinLimits, NEW l \in Lineages, NEW d \in Change,
           ChangeLineageTotals(l, d),
           \/ d.active + d.finalized <= 0
           \/ /\ totals[Chain(l)].active + totals[Chain(l)].finalized + d.active + d.finalized
                     <= MaxRun[Chain(l)]
              /\ batchTotals[BatchOf[l[1]]][Chain(l)].active + batchTotals[BatchOf[l[1]]][Chain(l)].finalized
                     + d.active + d.finalized <= MaxBatch[Chain(l)]
    PROVE  /\ totals' \in [Chains -> Total]
           /\ batchTotals' \in [Batches -> [Chains -> Total]]
           /\ WithinLimits'
<1> DEFINE e == [c \in Chains |-> IF c = Chain(l) THEN d ELSE Zero]
<1>1. e \in [Chains -> Change]
  BY DEF Change, Zero
<1>2. ChangeTotals(BatchOf[l[1]], e)
  BY DEF ChangeLineageTotals
<1>3. BatchOf[l[1]] \in Batches
  BY LineageParts
<1>4. \A c \in Chains :
               \/ e[c].active + e[c].finalized <= 0
               \/ /\ totals[c].active + totals[c].finalized + e[c].active + e[c].finalized <= MaxRun[c]
                  /\ batchTotals[BatchOf[l[1]]][c].active + batchTotals[BatchOf[l[1]]][c].finalized
                         + e[c].active + e[c].finalized <= MaxBatch[c]
  BY DEF Zero
<1> HIDE DEF e
<1> QED BY <1>1, <1>2, <1>3, <1>4, TotalsType, TotalsWithin

-----------------------------------------------------------------------------
(* Budget rows. *)

RowRecord == [state : RowStates, inFlight : BOOLEAN, provisional : Int, finalized : Int]
RowType == [Attempts -> [Chains ->
              [state : RowStates, inFlight : BOOLEAN, provisional : Int, finalized : Int]]]
SubType == [state : SubStates, allocated : Nat, provisional : Nat, finalized : Nat]
LeaseType == [state : LeaseStates, locked : BOOLEAN, nonce : Nat]

(* The rows q have the same reservations, started or not, as the rows r. *)
SameStart(r, q) ==
    \A a \in Attempts, c \in Chains :
        /\ q[a][c].inFlight = r[a][c].inFlight
        /\ r[a][c].state # "none" => q[a][c].state # "none"

(* Changing the amounts of a row starts or stops no attempt. *)
LEMMA ChangedRow ==
    ASSUME TypeOK, NEW l \in Lineages, NEW p \in Int, NEW f \in Int
    PROVE  ChangeRow(l, p, f) \in RowType /\ SameStart(row, ChangeRow(l, p, f))
<1>1. row \in RowType
  BY DEF TypeOK, RowType
<1>2. l[1] \in Attempts /\ Chain(l) \in Chains
  BY LineageParts
<1> DEFINE A == [state : RowStates, inFlight : BOOLEAN, provisional : Int, finalized : Int]
           r == row[l[1]][Chain(l)]
           q == [r EXCEPT !.provisional = r.provisional + p, !.finalized = r.finalized + f]
<1>3. r \in A /\ row[l[1]] \in [Chains -> A]
  BY <1>1, <1>2 DEF RowType
<1>4. q \in A /\ q.inFlight = r.inFlight /\ q.state = r.state
  <2> DEFINE x == [r EXCEPT !.provisional = r.provisional + p]
  <2> HIDE DEF r
  <2>1. r.provisional + p \in Int /\ r.finalized + f \in Int
    BY <1>3
  <2>2. x \in A /\ x.inFlight = r.inFlight /\ x.state = r.state
    BY <1>3, <2>1
  <2>3. q = [x EXCEPT !.finalized = r.finalized + f]
    BY <1>3
  <2> HIDE DEF x, q
  <2> QED BY <2>1, <2>2, <2>3
<1>5. ChangeRow(l, p, f) = [row EXCEPT ![l[1]] = [row[l[1]] EXCEPT ![Chain(l)] = q]]
  BY <1>1, <1>2, <1>3 DEF ChangeRow, RowType
<1> HIDE DEF q, r
<1>6. ChangeRow(l, p, f) \in RowType
  BY <1>1, <1>2, <1>3, <1>4, <1>5 DEF RowType
<1>7. SameStart(row, ChangeRow(l, p, f))
  BY <1>1, <1>2, <1>3, <1>4, <1>5 DEF RowType, SameStart, r
<1> QED BY <1>6, <1>7

(* Settling the rows of an attempt starts or stops none. *)
LEMMA SettledRows ==
    ASSUME NEW a \in Attempts, NEW rows \in RowType, NEW subs
    PROVE  SettleRows(a, rows, subs) \in RowType /\ SameStart(rows, SettleRows(a, rows, subs))
<1>1. "settled" \in RowStates
  BY DEF RowStates
<1>2. \A c \in Chains : rows[a][c] \in [state : RowStates, inFlight : BOOLEAN, provisional : Int, finalized : Int]
  BY DEF RowType
<1>3. \A c \in Chains :
        /\ [rows[a][c] EXCEPT !.state = "settled"] \in [state : RowStates, inFlight : BOOLEAN, provisional : Int, finalized : Int]
        /\ [rows[a][c] EXCEPT !.state = "settled"].inFlight = rows[a][c].inFlight
        /\ [rows[a][c] EXCEPT !.state = "settled"].state = "settled"
  BY <1>1, <1>2
<1>4. SettleRows(a, rows, subs) \in RowType
  BY <1>2, <1>3 DEF SettleRows, RowType
<1>5. SameStart(rows, SettleRows(a, rows, subs))
  BY <1>2, <1>3 DEF SettleRows, RowType, SameStart
<1> QED BY <1>4, <1>5

(* What every step of one lineage has to show.                             *)
LEMMA LineageStep ==
    ASSUME BudgetInv, NEW l \in Lineages, NEW s \in SubType, NEW n \in LeaseType,
           sub' = [sub EXCEPT ![l] = s], lease' = [lease EXCEPT ![l] = n],
           row' \in RowType, SameStart(row, row'),
           n.state # "none", row[l[1]][Chain(l)].inFlight,
           n.locked <=> s.state \notin Settled,
           n.state = IF s.state = "reopened" THEN "active" ELSE s.state,
           totals' \in [Chains -> Total], batchTotals' \in [Batches -> [Chains -> Total]],
           WithinLimits',
           UNCHANGED <<control, attempt, releases, observed>>
    PROVE  BudgetInv'
<1>0. TypeOK /\ l[1] \in Attempts /\ Chain(l) \in Chains
  BY LineageParts DEF BudgetInv
<1>1. TypeOK'
  <2>1. sub' \in [Lineages -> SubType] /\ lease' \in [Lineages -> LeaseType]
    BY <1>0 DEF TypeOK, SubType, LeaseType
  <2> QED
    BY <1>0, <2>1 DEF TypeOK, SubType, LeaseType, RowType, control
<1>2. \A m \in Lineages :
        /\ sub'[m] = IF m = l THEN s ELSE sub[m]
        /\ lease'[m] = IF m = l THEN n ELSE lease[m]
  BY <1>0 DEF TypeOK
<1>3. LockedUntilSettled'
  <2> SUFFICES ASSUME NEW m \in Lineages, Bound(m)'
               PROVE  /\ lease'[m].locked <=> sub'[m].state \notin Settled
                      /\ lease'[m].state = IF sub'[m].state = "reopened" THEN "active" ELSE sub'[m].state
    BY DEF LockedUntilSettled
  <2>1. CASE m = l BY <2>1, <1>2
  <2>2. CASE m # l BY <2>2, <1>2 DEF BudgetInv, LockedUntilSettled, Bound
  <2> QED BY <2>1, <2>2
<1>4. BoundInFlight'
  <2> SUFFICES ASSUME NEW m \in Lineages, Bound(m)'
               PROVE  row'[m[1]][Chain(m)].inFlight
    BY DEF BoundInFlight, Chain
  <2>1. row[m[1]][Chain(m)].inFlight
    BY <1>2 DEF BudgetInv, BoundInFlight, Bound
  <2> QED BY <2>1, LineageParts DEF SameStart
<1>6. StartedReserved'
  BY DEF StartedReserved, SameStart, BudgetInv
<1> QED BY <1>1, <1>3, <1>4, <1>6 DEF BudgetInv

(* The fields of a nonce lease after a change of state. *)
LEMMA LeaseChange ==
    ASSUME NEW n \in LeaseType, NEW st \in LeaseStates, NEW k \in BOOLEAN
    PROVE  LET m == [n EXCEPT !.state = st, !.locked = k]
           IN  m \in LeaseType /\ m.state = st /\ m.locked = k
<1> DEFINE x == [n EXCEPT !.state = st]
<1>1. x \in LeaseType /\ x.state = st
  BY DEF LeaseType
<1>2. [n EXCEPT !.state = st, !.locked = k] = [x EXCEPT !.locked = k]
  BY DEF LeaseType
<1> HIDE DEF x
<1> QED BY <1>1, <1>2 DEF LeaseType

(* The parts of the invariant that a step of a bound lineage starts from.  *)
LEMMA BoundFacts ==
    ASSUME BudgetInv, NEW l \in Lineages
    PROVE  /\ TypeOK /\ WithinLimits
           /\ sub[l] \in SubType /\ lease[l] \in LeaseType /\ row \in RowType
           /\ SameStart(row, row)
           /\ Bound(l) => row[l[1]][Chain(l)].inFlight
           /\ totals[Chain(l)] \in Total /\ batchTotals[BatchOf[l[1]]][Chain(l)] \in Total
BY LineageParts DEF BudgetInv, TypeOK, BoundInFlight, SubType, LeaseType, RowType, SameStart

-----------------------------------------------------------------------------
(* The steps of a lineage. *)

(* A lineage is reported submitted, or sent with an unknown answer. *)
LEMMA PendingStep ==
    ASSUME BudgetInv, NEW l \in Lineages, NEW st \in {"broadcast_unknown", "submitted"},
           MarkLineagePending(l, st)
    PROVE  BudgetInv'
<1> DEFINE s == [sub[l] EXCEPT !.state = st]
           n == [lease[l] EXCEPT !.state = st, !.locked = TRUE]
<1>1. sub' = [sub EXCEPT ![l] = s] /\ lease' = [lease EXCEPT ![l] = n]
  BY BoundFacts DEF MarkLineagePending, TypeOK
<1>0. sub[l] \in SubType /\ lease[l] \in LeaseType /\ st \in SubStates /\ st \in LeaseStates
  BY BoundFacts DEF SubStates, LeaseStates
<1>2. /\ s \in SubType /\ s.state = st /\ s.provisional = sub[l].provisional
      /\ s.finalized = sub[l].finalized
  BY <1>0 DEF SubType
<1>3. n \in LeaseType /\ n.state = st /\ n.locked = TRUE
  BY <1>0, LeaseChange
<1>5. UNCHANGED <<control, attempt, row, releases, amounts, observed>> /\ Bound(l)
  BY DEF MarkLineagePending
<1>6. WithinLimits' /\ totals' \in [Chains -> Total] /\ batchTotals' \in [Batches -> [Chains -> Total]]
  BY <1>5, BoundFacts DEF amounts, WithinLimits, TypeOK
<1> HIDE DEF s, n
<1> QED
  BY <1>1, <1>2, <1>3, <1>5, <1>6, BoundFacts, LineageStep DEF Settled

(* An inclusion moves the spent amount out of the reservation. *)
LEMMA IncludedStep ==
    ASSUME BudgetInv, NEW l \in Lineages, NEW spent \in Amounts,
           RecordIncluded(l, spent)
    PROVE  BudgetInv'
<1> DEFINE s == [sub[l] EXCEPT !.state = "included", !.provisional = spent]
           n == [lease[l] EXCEPT !.state = "included", !.locked = TRUE]
           d == Delta(0, spent - sub[l].provisional, 0)
<1>1. sub' = [sub EXCEPT ![l] = s] /\ lease' = [lease EXCEPT ![l] = n]
  BY BoundFacts DEF RecordIncluded, TypeOK
<1>2. /\ sub[l] \in SubType /\ lease[l] \in LeaseType /\ Bound(l)
      /\ "included" \in SubStates /\ "included" \in LeaseStates
      /\ Reserved(l) \in Nat /\ spent \in Nat /\ spent <= Reserved(l)
  BY BoundFacts, LineageParts, BudgetConstants DEF SubStates, LeaseStates, RecordIncluded
<1>3. s \in SubType /\ s.state = "included" /\ s.provisional = spent /\ s.finalized = sub[l].finalized
  BY <1>2 DEF SubType
<1>4. n \in LeaseType /\ n.state = "included" /\ n.locked = TRUE
  BY <1>2, LeaseChange
<1>6. d \in Change /\ ChangeLineageTotals(l, d)
  BY <1>2 DEF RecordIncluded, Change, Delta, SubType
<1>7. d.active + d.finalized <= 0
  BY <1>2 DEF Delta, SubType
<1>8. WithinLimits' /\ totals' \in [Chains -> Total] /\ batchTotals' \in [Batches -> [Chains -> Total]]
  <2> HIDE DEF d
  <2> QED BY <1>6, <1>7, BoundFacts, LineageTotals
<1>9. row' \in RowType /\ SameStart(row, row') /\ UNCHANGED <<control, attempt, releases, observed>>
  <2>1. TypeOK /\ spent - sub[l].provisional \in Int /\ 0 \in Int
    BY <1>2, BoundFacts DEF SubType
  <2> QED BY <2>1, ChangedRow DEF RecordIncluded
<1> HIDE DEF s, n, d
<1> QED
  BY <1>1, <1>2, <1>3, <1>4, <1>8, <1>9, BoundFacts, LineageStep DEF Settled

(* Finality moves the spent amount to the finalised total. *)
LEMMA FinalizedStep ==
    ASSUME BudgetInv, NEW l \in Lineages, NEW spent \in Amounts,
           FinalizeLineage(l, spent)
    PROVE  BudgetInv'
<1> DEFINE s == [sub[l] EXCEPT !.state = "finalized", !.provisional = 0, !.finalized = spent]
           n == [lease[l] EXCEPT !.state = "finalized", !.locked = FALSE]
           d == Delta(-Reserved(l), -sub[l].provisional, spent)
<1>1. sub' = [sub EXCEPT ![l] = s] /\ lease' = [lease EXCEPT ![l] = n]
  BY BoundFacts DEF FinalizeLineage, TypeOK
<1>2. /\ sub[l] \in SubType /\ lease[l] \in LeaseType /\ Bound(l)
      /\ "finalized" \in SubStates /\ "finalized" \in LeaseStates
      /\ Reserved(l) \in Nat /\ spent \in Nat /\ spent <= Reserved(l)
  BY BoundFacts, LineageParts, BudgetConstants DEF SubStates, LeaseStates, FinalizeLineage
<1>3. s \in SubType /\ s.state = "finalized" /\ s.provisional = 0 /\ s.finalized = spent
  BY <1>2 DEF SubType
<1>4. n \in LeaseType /\ n.state = "finalized" /\ n.locked = FALSE
  BY <1>2, LeaseChange
<1>6. d \in Change /\ ChangeLineageTotals(l, d)
  BY <1>2 DEF FinalizeLineage, Change, Delta, SubType
<1>7. d.active + d.finalized <= 0
  BY <1>2 DEF Delta, SubType
<1>8. WithinLimits' /\ totals' \in [Chains -> Total] /\ batchTotals' \in [Batches -> [Chains -> Total]]
  <2> HIDE DEF d
  <2> QED BY <1>6, <1>7, BoundFacts, LineageTotals
<1>9. row' \in RowType /\ SameStart(row, row') /\ UNCHANGED <<control, attempt, releases, observed>>
  <2> DEFINE r == ChangeRow(l, -sub[l].provisional, spent)
  <2>1. r \in RowType /\ SameStart(row, r)
    <3>1. TypeOK /\ -sub[l].provisional \in Int /\ spent \in Int
      BY <1>2, BoundFacts DEF SubType
    <3> QED BY <3>1, ChangedRow
  <2>2. row' = SettleRows(l[1], r, sub') /\ UNCHANGED <<control, attempt, releases, observed>>
    BY DEF FinalizeLineage
  <2> HIDE DEF r
  <2>3. SettleRows(l[1], r, sub') \in RowType /\ SameStart(r, SettleRows(l[1], r, sub'))
    BY <2>1, LineageParts, SettledRows
  <2> QED BY <2>1, <2>2, <2>3 DEF SameStart
<1> HIDE DEF s, n, d
<1> QED
  BY <1>1, <1>2, <1>3, <1>4, <1>8, <1>9, BoundFacts, LineageStep DEF Settled

(* A dead lineage gives its amount back. *)
LEMMA ReleasedStep ==
    ASSUME BudgetInv, NEW l \in Lineages,
           ReleaseDeadLineage(l)
    PROVE  BudgetInv'
<1> DEFINE s == [sub[l] EXCEPT !.state = "released"]
           n == [lease[l] EXCEPT !.state = "released", !.locked = FALSE]
           d == Delta(-Reserved(l), 0, 0)
<1>1. sub' = [sub EXCEPT ![l] = s] /\ lease' = [lease EXCEPT ![l] = n]
  BY BoundFacts DEF ReleaseDeadLineage, TypeOK
<1>2. /\ sub[l] \in SubType /\ lease[l] \in LeaseType /\ Bound(l)
      /\ "released" \in SubStates /\ "released" \in LeaseStates
      /\ Reserved(l) \in Nat
  BY BoundFacts, LineageParts DEF SubStates, LeaseStates, ReleaseDeadLineage
<1>3. s \in SubType /\ s.state = "released" /\ s.provisional = sub[l].provisional /\ s.finalized = sub[l].finalized
  BY <1>2 DEF SubType
<1>4. n \in LeaseType /\ n.state = "released" /\ n.locked = FALSE
  BY <1>2, LeaseChange
<1>6. d \in Change /\ ChangeLineageTotals(l, d)
  BY <1>2 DEF ReleaseDeadLineage, Change, Delta, SubType
<1>7. d.active + d.finalized <= 0
  BY <1>2 DEF Delta, SubType
<1>8. WithinLimits' /\ totals' \in [Chains -> Total] /\ batchTotals' \in [Batches -> [Chains -> Total]]
  <2> HIDE DEF d
  <2> QED BY <1>6, <1>7, BoundFacts, LineageTotals
<1>9. row' \in RowType /\ SameStart(row, row') /\ UNCHANGED <<control, attempt, releases, observed>>
  <2> DEFINE r == row
  <2>1. r \in RowType /\ SameStart(row, r)
    BY <1>2, BoundFacts
  <2>2. row' = SettleRows(l[1], r, sub') /\ UNCHANGED <<control, attempt, releases, observed>>
    BY DEF ReleaseDeadLineage
  <2> HIDE DEF r
  <2>3. SettleRows(l[1], r, sub') \in RowType /\ SameStart(r, SettleRows(l[1], r, sub'))
    BY <2>1, LineageParts, SettledRows
  <2> QED BY <2>1, <2>2, <2>3 DEF SameStart
<1> HIDE DEF s, n, d
<1> QED
  BY <1>1, <1>2, <1>3, <1>4, <1>8, <1>9, BoundFacts, LineageStep DEF Settled

(* A reorganisation takes an inclusion back. *)
LEMMA ReopenIncludedStep ==
    ASSUME BudgetInv, NEW l \in Lineages,
           ReopenIncluded(l)
    PROVE  BudgetInv'
<1> DEFINE s == [sub[l] EXCEPT !.state = "reopened", !.provisional = 0]
           n == [lease[l] EXCEPT !.state = "active", !.locked = TRUE]
           d == Delta(0, -sub[l].provisional, 0)
<1>1. sub' = [sub EXCEPT ![l] = s] /\ lease' = [lease EXCEPT ![l] = n]
  BY BoundFacts DEF ReopenIncluded, TypeOK
<1>2. /\ sub[l] \in SubType /\ lease[l] \in LeaseType /\ Bound(l)
      /\ "reopened" \in SubStates /\ "active" \in LeaseStates
      /\ Reserved(l) \in Nat
  BY BoundFacts, LineageParts DEF SubStates, LeaseStates, ReopenIncluded
<1>3. s \in SubType /\ s.state = "reopened" /\ s.provisional = 0 /\ s.finalized = sub[l].finalized
  BY <1>2 DEF SubType
<1>4. n \in LeaseType /\ n.state = "active" /\ n.locked = TRUE
  BY <1>2, LeaseChange
<1>6. d \in Change /\ ChangeLineageTotals(l, d)
  BY <1>2 DEF ReopenIncluded, Change, Delta, SubType
<1>7. d.active + d.finalized <= 0
  BY <1>2 DEF Delta, SubType
<1>8. WithinLimits' /\ totals' \in [Chains -> Total] /\ batchTotals' \in [Batches -> [Chains -> Total]]
  <2> HIDE DEF d
  <2> QED BY <1>6, <1>7, BoundFacts, LineageTotals
<1>9. row' \in RowType /\ SameStart(row, row') /\ UNCHANGED <<control, attempt, releases, observed>>
  <2>1. TypeOK /\ -sub[l].provisional \in Int /\ 0 \in Int
    BY <1>2, BoundFacts DEF SubType
  <2> QED BY <2>1, ChangedRow DEF ReopenIncluded
<1> HIDE DEF s, n, d
<1> QED
  BY <1>1, <1>2, <1>3, <1>4, <1>8, <1>9, BoundFacts, LineageStep DEF Settled

(* A reorganisation takes a finalised spending back. *)
LEMMA ReopenFinalizedStep ==
    ASSUME BudgetInv, NEW l \in Lineages,
           ReopenFinalized(l)
    PROVE  BudgetInv'
<1> DEFINE s == [sub[l] EXCEPT !.state = "reopened", !.finalized = 0]
           n == [lease[l] EXCEPT !.state = "active", !.locked = TRUE]
           d == Delta(Reserved(l), 0, -sub[l].finalized)
<1>1. sub' = [sub EXCEPT ![l] = s] /\ lease' = [lease EXCEPT ![l] = n]
  BY BoundFacts DEF ReopenFinalized, TypeOK
<1>2. /\ sub[l] \in SubType /\ lease[l] \in LeaseType /\ Bound(l)
      /\ "reopened" \in SubStates /\ "active" \in LeaseStates
      /\ Reserved(l) \in Nat
  BY BoundFacts, LineageParts DEF SubStates, LeaseStates, ReopenFinalized
<1>3. s \in SubType /\ s.state = "reopened" /\ s.provisional = sub[l].provisional /\ s.finalized = 0
  BY <1>2 DEF SubType
<1>4. n \in LeaseType /\ n.state = "active" /\ n.locked = TRUE
  BY <1>2, LeaseChange
<1>6. d \in Change /\ ChangeLineageTotals(l, d)
  BY <1>2 DEF ReopenFinalized, Change, Delta, SubType
<1>7. /\ totals[Chain(l)].active + totals[Chain(l)].finalized + d.active + d.finalized
            <= MaxRun[Chain(l)]
      /\ batchTotals[BatchOf[l[1]]][Chain(l)].active + batchTotals[BatchOf[l[1]]][Chain(l)].finalized
            + d.active + d.finalized <= MaxBatch[Chain(l)]
  <2>1. MaxRun[Chain(l)] \in Nat /\ MaxBatch[Chain(l)] \in Nat
    BY LineageParts, BudgetConstants
  <2> QED BY <1>2, <2>1, BoundFacts DEF Delta, SubType, Total, AssertCapacity, ReopenFinalized
<1>8. WithinLimits' /\ totals' \in [Chains -> Total] /\ batchTotals' \in [Batches -> [Chains -> Total]]
  <2> HIDE DEF d
  <2> QED BY <1>6, <1>7, BoundFacts, LineageTotals
<1>9. row' \in RowType /\ SameStart(row, row') /\ UNCHANGED <<control, attempt, releases, observed>>
  <2> DEFINE r == ChangeRow(l, 0, -sub[l].finalized)
             x == [r[l[1]][Chain(l)] EXCEPT !.state = "in_flight"]
  <2>0. l[1] \in Attempts /\ Chain(l) \in Chains
    BY LineageParts
  <2>1. r \in RowType /\ SameStart(row, r)
    <3>1. TypeOK /\ 0 \in Int /\ -sub[l].finalized \in Int
      BY <1>2, BoundFacts DEF SubType
    <3> QED BY <3>1, ChangedRow
  <2>2. /\ row' = [r EXCEPT ![l[1]][Chain(l)].state = "in_flight"]
        /\ UNCHANGED <<control, attempt, releases, observed>>
    BY DEF ReopenFinalized
  <2> HIDE DEF r
  <2>3. r[l[1]][Chain(l)] \in [state : RowStates, inFlight : BOOLEAN, provisional : Int, finalized : Int]
    BY <2>0, <2>1 DEF RowType
  <2>4. /\ x \in [state : RowStates, inFlight : BOOLEAN, provisional : Int, finalized : Int]
        /\ x.inFlight = r[l[1]][Chain(l)].inFlight /\ x.state = "in_flight"
    BY <2>3 DEF RowStates
  <2>5. row' = [r EXCEPT ![l[1]] = [r[l[1]] EXCEPT ![Chain(l)] = x]]
    BY <2>0, <2>1, <2>2 DEF RowType
  <2> HIDE DEF x
  <2>6. row' \in RowType
    BY <2>0, <2>1, <2>4, <2>5 DEF RowType
  <2>7. SameStart(r, row')
    BY <2>0, <2>1, <2>4, <2>5 DEF RowType, SameStart
  <2> QED BY <2>1, <2>2, <2>6, <2>7 DEF SameStart
<1> HIDE DEF s, n, d
<1> QED
  BY <1>1, <1>2, <1>3, <1>4, <1>8, <1>9, BoundFacts, LineageStep DEF Settled

(* A nonce and a part of the reservation are leased to a lineage. *)
LEMMA AcquireStep ==
    ASSUME BudgetInv, NEW l \in Lineages, NEW nonce \in Nonces, NEW requested \in Amounts,
           AcquireNonceSubreservation(l, nonce, requested)
    PROVE  BudgetInv'
<1>1. /\ sub[l] \in SubType /\ lease[l] \in LeaseType /\ sub \in [Lineages -> SubType]
      /\ lease \in [Lineages -> LeaseType] /\ nonce \in Nat /\ requested \in Nat
  BY BoundFacts, BudgetConstants DEF TypeOK, SubType, LeaseType
<1>2. /\ row' = row /\ UNCHANGED <<control, attempt, releases, observed>>
      /\ row[l[1]][Chain(l)].inFlight
      /\ totals' \in [Chains -> Total] /\ batchTotals' \in [Batches -> [Chains -> Total]]
      /\ WithinLimits'
  BY BoundFacts DEF AcquireNonceSubreservation, amounts, TypeOK, WithinLimits
<1>3. CASE Bound(l)
  <2> DEFINE w == IF sub[l].allocated < requested THEN requested ELSE sub[l].allocated
             s == [sub[l] EXCEPT !.allocated = w]
  <2>1. /\ s \in SubType /\ s.state = sub[l].state /\ s.provisional = sub[l].provisional
        /\ s.finalized = sub[l].finalized
    BY <1>1 DEF SubType
  <2>2. sub' = [sub EXCEPT ![l] = s] /\ lease' = [lease EXCEPT ![l] = lease[l]]
    BY <1>1, <1>3 DEF AcquireNonceSubreservation
  <2>3. /\ lease[l].state # "none"
        /\ lease[l].locked <=> s.state \notin Settled
        /\ lease[l].state = IF s.state = "reopened" THEN "active" ELSE s.state
    BY <1>3, <2>1 DEF BudgetInv, LockedUntilSettled, Bound
  <2> HIDE DEF s
  <2> QED BY <1>1, <1>2, <2>1, <2>2, <2>3, BoundFacts, LineageStep
<1>4. CASE ~Bound(l)
  <2> DEFINE s == [sub[l] EXCEPT !.state = "active", !.allocated = requested]
             n == [state |-> "active", locked |-> TRUE, nonce |-> nonce]
  <2>1. /\ s \in SubType /\ s.state = "active" /\ s.provisional = sub[l].provisional
        /\ s.finalized = sub[l].finalized
    BY <1>1 DEF SubType, SubStates
  <2>2. n \in LeaseType /\ n.state = "active" /\ n.locked = TRUE
    BY <1>1 DEF LeaseType, LeaseStates
  <2>3. sub' = [sub EXCEPT ![l] = s] /\ lease' = [lease EXCEPT ![l] = n]
    BY <1>1, <1>4 DEF AcquireNonceSubreservation
  <2> HIDE DEF s, n
  <2> QED BY <1>2, <2>1, <2>2, <2>3, BoundFacts, LineageStep DEF Settled
<1> QED BY <1>3, <1>4

-----------------------------------------------------------------------------
(* The steps of a reservation. *)

(* The fields of a reservation row after a change of state. *)
LEMMA RowChange ==
    ASSUME NEW x \in RowRecord,
           NEW st \in RowStates
    PROVE  /\ LET y == [x EXCEPT !.state = st]
              IN  /\ y \in RowRecord
                  /\ y.state = st /\ y.inFlight = x.inFlight
           /\ LET y == [x EXCEPT !.state = st, !.inFlight = TRUE]
              IN  /\ y \in RowRecord
                  /\ y.state = st /\ y.inFlight = TRUE
<1> DEFINE y == [x EXCEPT !.state = st]
<1>1. /\ y \in RowRecord
      /\ y.state = st /\ y.inFlight = x.inFlight
  BY DEF RowRecord
<1>2. [x EXCEPT !.state = st, !.inFlight = TRUE] = [y EXCEPT !.inFlight = TRUE]
  BY DEF RowRecord
<1>3. LET z == [y EXCEPT !.inFlight = TRUE]
      IN  /\ z \in RowRecord
          /\ z.state = st /\ z.inFlight = TRUE
  <2> HIDE DEF y
  <2> QED BY <1>1 DEF RowRecord
<1> QED BY <1>1, <1>2, <1>3

(* What a step of a reservation has to show whose attempt has bound no     *)
(* nonce.                                                                  *)
LEMMA ReservationStep ==
    ASSUME BudgetInv, NEW a \in Attempts, NEW st \in SubStates,
           \A l \in Lineages : l[1] = a => ~Bound(l),
           sub' = [l \in Lineages |-> IF l[1] = a THEN [sub[l] EXCEPT !.state = st] ELSE sub[l]],
           UNCHANGED <<control, attempt, lease, observed>>, releases' \in [Attempts -> 0..2],
           row' \in RowType,
           \A b \in Attempts, c \in Chains :
               /\ row'[b][c].inFlight = row[b][c].inFlight
               /\ row[b][c].state # "none" => row'[b][c].state # "none",
           totals' \in [Chains -> Total], batchTotals' \in [Batches -> [Chains -> Total]],
           WithinLimits'
    PROVE  BudgetInv'
<1>1. TypeOK /\ sub \in [Lineages -> SubType]
  BY DEF BudgetInv, TypeOK, SubType
<1>2. \A l \in Lineages :
        /\ [sub[l] EXCEPT !.state = st] \in SubType
        /\ [sub[l] EXCEPT !.state = st].provisional = sub[l].provisional
        /\ [sub[l] EXCEPT !.state = st].finalized = sub[l].finalized
  BY <1>1 DEF SubType
<1>3. TypeOK'
  <2>1. sub' \in [Lineages -> SubType]
    BY <1>1, <1>2
  <2> QED BY <1>1, <2>1 DEF TypeOK, SubType, RowType, control
<1>4. \A l \in Lineages : Bound(l) => sub'[l] = sub[l]
  OBVIOUS
<1>5. \A l \in Lineages : Bound(l)' <=> Bound(l)
  BY DEF Bound
<1>6. LockedUntilSettled'
  BY <1>4, <1>5 DEF LockedUntilSettled, BudgetInv
<1>7. BoundInFlight'
  BY <1>5, LineageParts DEF BoundInFlight, BudgetInv, Chain
<1>8. StartedReserved'
  BY DEF StartedReserved, BudgetInv
<1> QED BY <1>3, <1>6, <1>7, <1>8 DEF BudgetInv

(* A complete route is reserved within both limits. *)
LEMMA ReserveStep ==
    ASSUME BudgetInv, NEW a \in Attempts, ReserveCompleteRoute(a)
    PROVE  BudgetInv'
<1> DEFINE d == [c \in Chains |-> IF c \in RouteChains THEN Delta(Requested(a, c), 0, 0) ELSE Zero]
<1>1. TypeOK /\ WithinLimits /\ row \in RowType /\ BatchOf[a] \in Batches /\ "reserved" \in RowStates
      /\ "reserved" \in SubStates
  BY BudgetConstants DEF BudgetInv, TypeOK, RowType, RowStates, SubStates
<1>2. \A l \in Lineages : l[1] = a => ~Bound(l)
  BY LineageParts DEF ReserveCompleteRoute, BudgetInv, BoundInFlight, StartedReserved
<1>3. d \in [Chains -> Change] /\ ChangeTotals(BatchOf[a], d)
  BY BudgetConstants DEF ReserveCompleteRoute, Change, Delta, Zero
<1>4. \A c \in Chains :
               \/ d[c].active + d[c].finalized <= 0
               \/ /\ totals[c].active + totals[c].finalized + d[c].active + d[c].finalized <= MaxRun[c]
                  /\ batchTotals[BatchOf[a]][c].active + batchTotals[BatchOf[a]][c].finalized
                         + d[c].active + d[c].finalized <= MaxBatch[c]
  <2> SUFFICES ASSUME NEW c \in Chains, c \in RouteChains
               PROVE  /\ totals[c].active + totals[c].finalized + d[c].active + d[c].finalized <= MaxRun[c]
                      /\ batchTotals[BatchOf[a]][c].active + batchTotals[BatchOf[a]][c].finalized
                             + d[c].active + d[c].finalized <= MaxBatch[c]
    BY DEF Zero
  <2>1. AssertCapacity(BatchOf[a], c, Requested(a, c), 0)
    BY DEF ReserveCompleteRoute
  <2>2. /\ totals[c] \in Total /\ batchTotals[BatchOf[a]][c] \in Total /\ Requested(a, c) \in Nat
        /\ MaxRun[c] \in Nat /\ MaxBatch[c] \in Nat
    BY <1>1, BudgetConstants DEF TypeOK
  <2>3. d[c].active = Requested(a, c) /\ d[c].finalized = 0
    BY DEF Delta
  <2> HIDE DEF d
  <2> QED BY <2>1, <2>2, <2>3 DEF AssertCapacity, Total
<1>5. totals' \in [Chains -> Total] /\ batchTotals' \in [Batches -> [Chains -> Total]] /\ WithinLimits'
  <2> HIDE DEF d
  <2> QED BY <1>1, <1>3, <1>4, TotalsType, TotalsWithin
<1>6. \A c \in Chains :
        /\ row[a][c] \in RowRecord
        /\ [row[a][c] EXCEPT !.state = "reserved"] \in RowRecord
        /\ [row[a][c] EXCEPT !.state = "reserved"].inFlight = row[a][c].inFlight
        /\ [row[a][c] EXCEPT !.state = "reserved"].state = "reserved"
  <2>1. \A c \in Chains : row[a][c] \in RowRecord
    BY <1>1 DEF RowType, RowRecord
  <2> QED BY <1>1, <2>1 DEF RowRecord
<1>7. row' \in RowType
  BY <1>1, <1>6 DEF ReserveCompleteRoute, RowType, RowRecord
<1>8. \A b \in Attempts, c \in Chains :
               /\ row'[b][c].inFlight = row[b][c].inFlight
               /\ row[b][c].state # "none" => row'[b][c].state # "none"
  BY <1>1, <1>6 DEF ReserveCompleteRoute, RowType, RowRecord
<1>9. /\ sub' = [l \in Lineages |-> IF l[1] = a THEN [sub[l] EXCEPT !.state = "reserved"] ELSE sub[l]]
      /\ UNCHANGED <<control, attempt, lease, observed>> /\ releases' \in [Attempts -> 0..2]
  BY <1>1 DEF ReserveCompleteRoute, TypeOK
<1> QED BY <1>1, <1>2, <1>5, <1>7, <1>8, <1>9, ReservationStep

(* A route that has not started is released as a whole. *)
LEMMA CancelStep ==
    ASSUME BudgetInv, NEW a \in Attempts, ReleaseUnstartedRoute(a)
    PROVE  BudgetInv'
<1> DEFINE d == [c \in Chains |-> IF c \in RouteChains THEN Delta(-Requested(a, c), 0, 0) ELSE Zero]
<1>1. TypeOK /\ WithinLimits /\ row \in RowType /\ BatchOf[a] \in Batches /\ "released" \in RowStates
      /\ "released" \in SubStates
  BY BudgetConstants DEF BudgetInv, TypeOK, RowType, RowStates, SubStates
<1>2. \A l \in Lineages : l[1] = a => ~Bound(l)
  BY LineageParts DEF ReleaseUnstartedRoute, BudgetInv, BoundInFlight
<1>3. d \in [Chains -> Change] /\ ChangeTotals(BatchOf[a], d)
  BY BudgetConstants DEF ReleaseUnstartedRoute, Change, Delta, Zero
<1>4. \A c \in Chains : d[c].active + d[c].finalized <= 0
  BY BudgetConstants DEF Delta, Zero
<1>5. totals' \in [Chains -> Total] /\ batchTotals' \in [Batches -> [Chains -> Total]] /\ WithinLimits'
  <2> HIDE DEF d
  <2> QED BY <1>1, <1>3, <1>4, TotalsType, TotalsWithin
<1>6. \A c \in Chains :
        /\ row[a][c] \in RowRecord
        /\ [row[a][c] EXCEPT !.state = "released"] \in RowRecord
        /\ [row[a][c] EXCEPT !.state = "released"].inFlight = row[a][c].inFlight
        /\ [row[a][c] EXCEPT !.state = "released"].state = "released"
  <2>1. \A c \in Chains : row[a][c] \in RowRecord
    BY <1>1 DEF RowType, RowRecord
  <2> QED BY <1>1, <2>1 DEF RowRecord
<1>7. row' \in RowType
  BY <1>1, <1>6 DEF ReleaseUnstartedRoute, RowType, RowRecord
<1>8. \A b \in Attempts, c \in Chains :
               /\ row'[b][c].inFlight = row[b][c].inFlight
               /\ row[b][c].state # "none" => row'[b][c].state # "none"
  BY <1>1, <1>6 DEF ReleaseUnstartedRoute, RowType, RowRecord
<1>9. /\ sub' = [l \in Lineages |-> IF l[1] = a THEN [sub[l] EXCEPT !.state = "released"] ELSE sub[l]]
      /\ UNCHANGED <<control, attempt, lease, observed>>
  BY DEF ReleaseUnstartedRoute
<1>10. releases' \in [Attempts -> 0..2]
  <2>1. releases \in [Attempts -> 0..2]
    BY <1>1 DEF TypeOK
  <2>2. releases' = [releases EXCEPT ![a] = IF @ = 2 THEN 2 ELSE @ + 1]
    BY DEF ReleaseUnstartedRoute
  <2> QED BY <2>1, <2>2
<1> QED BY <1>1, <1>2, <1>5, <1>7, <1>8, <1>9, <1>10, ReservationStep

(* The source of a reserved route goes into flight. *)
LEMMA StartStep ==
    ASSUME BudgetInv, NEW a \in Attempts, MarkSourceInFlight(a)
    PROVE  BudgetInv'
<1>1. row \in RowType /\ "in_flight" \in RowStates
  BY DEF BudgetInv, TypeOK, RowType, RowStates
<1>2. /\ UNCHANGED <<control, sub, lease, releases, amounts, observed>>
      /\ attempt' = [attempt EXCEPT ![a] = "in_flight"]
  BY DEF MarkSourceInFlight
<1>3. /\ row' = [row EXCEPT ![a] = [c \in Chains |->
                   IF row[a][c].state = "none" THEN row[a][c]
                   ELSE [row[a][c] EXCEPT !.state = "in_flight", !.inFlight = TRUE]]]
  BY DEF MarkSourceInFlight
<1>4. \A c \in Chains :
        /\ row[a][c] \in RowRecord
        /\ [row[a][c] EXCEPT !.state = "in_flight", !.inFlight = TRUE] \in RowRecord
        /\ [row[a][c] EXCEPT !.state = "in_flight", !.inFlight = TRUE].inFlight = TRUE
        /\ [row[a][c] EXCEPT !.state = "in_flight", !.inFlight = TRUE].state = "in_flight"
  <2> SUFFICES ASSUME NEW c \in Chains
               PROVE  /\ row[a][c] \in RowRecord
                      /\ [row[a][c] EXCEPT !.state = "in_flight", !.inFlight = TRUE] \in RowRecord
                      /\ [row[a][c] EXCEPT !.state = "in_flight", !.inFlight = TRUE].inFlight = TRUE
                      /\ [row[a][c] EXCEPT !.state = "in_flight", !.inFlight = TRUE].state = "in_flight"
    OBVIOUS
  <2>1. row[a][c] \in RowRecord
    BY <1>1 DEF RowType, RowRecord
  <2> QED BY <1>1, <2>1, RowChange
<1>8. row' \in RowType
  BY <1>1, <1>3, <1>4 DEF RowType, RowRecord
<1>9. \A b \in Attempts, c \in Chains :
        /\ row[b][c].inFlight => row'[b][c].inFlight
        /\ row'[b][c].inFlight => row'[b][c].state # "none"
  <2> SUFFICES ASSUME NEW b \in Attempts, NEW c \in Chains
               PROVE  /\ row[b][c].inFlight => row'[b][c].inFlight
                      /\ row'[b][c].inFlight => row'[b][c].state # "none"
    OBVIOUS
  <2>1. row[b][c].inFlight => row[b][c].state # "none"
    BY DEF BudgetInv, StartedReserved
  <2>2. CASE b # a
    BY <1>1, <1>3, <2>1, <2>2 DEF RowType
  <2>3. CASE b = a
    <3>1. row'[a][c] = IF row[a][c].state = "none" THEN row[a][c]
                       ELSE [row[a][c] EXCEPT !.state = "in_flight", !.inFlight = TRUE]
      BY <1>1, <1>3 DEF RowType
    <3>2. CASE row[a][c].state = "none" BY <2>1, <2>3, <3>1, <3>2
    <3>3. CASE row[a][c].state # "none"
      <4>1. row'[a][c].inFlight = TRUE /\ row'[a][c].state = "in_flight"
        BY <1>4, <3>1, <3>3
      <4> QED BY <2>3, <4>1
    <3> QED BY <3>2, <3>3
  <2> QED BY <2>2, <2>3
<1>5. TypeOK'
  BY <1>2, <1>8 DEF BudgetInv, TypeOK, RowType, control, amounts
<1>6. WithinLimits' /\ LockedUntilSettled'
  BY <1>2 DEF BudgetInv, WithinLimits, LockedUntilSettled, Bound, amounts
<1>7. BoundInFlight' /\ StartedReserved'
  <2>1. BoundInFlight'
    BY <1>2, <1>9, LineageParts DEF BudgetInv, BoundInFlight, Bound, Chain
  <2>2. \A b \in Attempts : attempt'[b] = IF b = a THEN "in_flight" ELSE attempt[b]
    BY <1>2 DEF BudgetInv, TypeOK
  <2>3. \A b \in Attempts \ {a}, c \in Chains : row'[b][c] = row[b][c]
    BY <1>1, <1>3 DEF RowType
  <2>4. StartedReserved'
    BY <1>9, <2>2, <2>3 DEF BudgetInv, StartedReserved
  <2> QED BY <2>1, <2>4
<1> QED BY <1>5, <1>6, <1>7 DEF BudgetInv

-----------------------------------------------------------------------------
(* A step that leaves the accounts alone (run control, an observed balance,*)
(* a refused reorganisation).                                              *)
LEMMA ControlStep ==
    ASSUME BudgetInv, UNCHANGED <<attempt, sub, lease, row, releases, amounts>>,
           run' \in Modes, mode' \in Modes, observed' \in [Chains -> Balances],
           violations' \subseteq Lineages
    PROVE  BudgetInv'
BY DEF BudgetInv, TypeOK, WithinLimits, LockedUntilSettled, BoundInFlight, StartedReserved,
       Bound, amounts

(* Every step keeps the invariant. *)
LEMMA BudgetStep ==
    ASSUME BudgetInv, [Next]_vars
    PROVE  BudgetInv'
<1>0. /\ run \in Modes /\ mode \in Modes /\ observed \in [Chains -> Balances]
      /\ violations \subseteq Lineages
  BY DEF BudgetInv, TypeOK
<1>1. CASE UNCHANGED vars
  BY <1>0, <1>1, ControlStep DEF vars, amounts
<1>2. ASSUME NEW a \in Attempts, Reservation(a)
      PROVE  BudgetInv'
  BY <1>2, ReserveStep, StartStep, CancelStep DEF Reservation
<1>3. ASSUME NEW l \in Lineages, Lineage(l)
      PROVE  BudgetInv'
  <2>1. ASSUME NEW n \in Nonces, NEW w \in Amounts, AcquireNonceSubreservation(l, n, w)
        PROVE  BudgetInv'
    BY <2>1, AcquireStep
  <2>2. ASSUME NEW st \in {"broadcast_unknown", "submitted"}, MarkLineagePending(l, st)
        PROVE  BudgetInv'
    BY <2>2, PendingStep
  <2>3. ASSUME NEW w \in Amounts, RecordIncluded(l, w) \/ FinalizeLineage(l, w)
        PROVE  BudgetInv'
    BY <2>3, IncludedStep, FinalizedStep
  <2>4. CASE ReleaseDeadLineage(l)
    BY <2>4, ReleasedStep
  <2>5. CASE ReopenRefused(l)
    BY <1>0, <2>5, ControlStep DEF ReopenRefused, amounts, Modes
  <2>6. CASE ReopenIncluded(l) \/ ReopenFinalized(l)
    BY <2>6, ReopenIncludedStep, ReopenFinalizedStep
  <2> QED BY <1>3, <2>1, <2>2, <2>3, <2>4, <2>5, <2>6 DEF Lineage, ReopenAfterReorganization
<1>4. ASSUME NEW c \in Chains, NEW w \in Balances, ConfigureLimits(c, w)
      PROVE  BudgetInv'
  BY <1>0, <1>4, ControlStep DEF ConfigureLimits, control, amounts
<1>5. CASE Drain \/ Halt \/ Revoke \/ Resume
  BY <1>0, <1>5, ControlStep DEF Drain, Halt, Revoke, Resume, Transition, Modes, amounts
<1> QED BY <1>1, <1>2, <1>3, <1>4, <1>5 DEF Next

(* Nothing is reserved or leased at first. *)
LEMMA BudgetInit == Init => BudgetInv
<1> SUFFICES ASSUME Init PROVE BudgetInv
  OBVIOUS
<1>1. TypeOK
  BY DEF Init, TypeOK, Modes, SubStates, LeaseStates, RowStates, Total, Zero
<1>2. WithinLimits
  BY BudgetConstants DEF Init, WithinLimits, Zero
<1>3. \A l \in Lineages : ~Bound(l)
  BY DEF Init, Bound
<1>4. StartedReserved
  BY DEF Init, StartedReserved
<1> QED BY <1>1, <1>2, <1>3, <1>4 DEF BudgetInv, LockedUntilSettled, BoundInFlight

(* The inductive invariant of the accounts. *)
THEOREM BudgetInvariant == Spec => []BudgetInv
<1>1. BudgetInv /\ [Next]_vars => BudgetInv'
  BY BudgetStep
<1> QED BY BudgetInit, <1>1, PTL DEF Spec

(* No total of a chain or of a batch ever drops below zero, and rows,      *)
(* leases and control keep their types, whatever order the methods of      *)
(* LeaseManager and RunControlManager are called in.                       *)
THEOREM BudgetTypeCorrect == Spec => []TypeOK
<1>1. BudgetInv => TypeOK
  BY DEF BudgetInv
<1> QED BY BudgetInvariant, <1>1, PTL

(* What is reserved and what is finally spent never exceeds the approved   *)
(* limits of a run or of a batch (_assert_capacity), for every number of   *)
(* attempts, also when reservations are cancelled twice, receipts repeat   *)
(* and finalised spending is reorganised away.                             *)
THEOREM LimitsRespected == Spec => []WithinLimits
<1>1. BudgetInv => WithinLimits
  BY DEF BudgetInv
<1> QED BY BudgetInvariant, <1>1, PTL

(* A nonce is locked exactly while its lineage is unsettled                *)
(* (_attempt_has_unresolved_submission relies on it).                      *)
THEOREM LockMatchesLineage == Spec => []LockedUntilSettled
<1>1. BudgetInv => LockedUntilSettled
  BY DEF BudgetInv
<1> QED BY BudgetInvariant, <1>1, PTL

-----------------------------------------------------------------------------
(* When a row is settled.  A row is settled with its stages unless its     *)
(* reservation was cancelled before it was started, which leaves all its   *)
(* stages released.  The lemmas about the other reservations assume that   *)
(* the attempt has not been cancelled, not that nobody cancels.            *)

(* The rows of an attempt are created together and started together. *)
RowsTogether ==
    \A a \in Attempts, c, d \in RouteChains :
        /\ row[a][c].inFlight <=> row[a][d].inFlight
        /\ row[a][c].state = "none" <=> row[a][d].state = "none"

(* A reservation that was not started is whole, or cancelled as a whole. *)
UnstartedIsWhole ==
    \A a \in Attempts, c \in RouteChains : ~row[a][c].inFlight =>
        /\ row[a][c].state \in {"none", "reserved", "released"}
        /\ row[a][c].state = "released" => releases[a] # 0
        /\ row[a][c].state = "reserved" => \A s \in StagesOn(c) : sub[<<a, s>>].state = "reserved"

(* A stage of a started reservation waits for its nonce. *)
UnboundIsReserved ==
    \A l \in Lineages : releases[l[1]] = 0 /\ row[l[1]][Chain(l)].inFlight /\ ~Bound(l) =>
        sub[l].state = "reserved"

(* A row that was never cancelled is settled with its stages. *)
UncancelledSettle ==
    \A a \in Attempts, c \in RouteChains : releases[a] = 0 /\ row[a][c].inFlight =>
        (row[a][c].state = "settled" <=> \A s \in StagesOn(c) : sub[<<a, s>>].state \in Settled)

SettleInv == RowsTogether /\ UnstartedIsWhole /\ UnboundIsReserved /\ UncancelledSettle

(* Changing the amounts of a row leaves its state alone. *)
LEMMA ChangedRowState ==
    ASSUME TypeOK, NEW l \in Lineages, NEW p \in Int, NEW f \in Int,
           NEW a \in Attempts, NEW c \in Chains
    PROVE  /\ ChangeRow(l, p, f)[a][c].state = row[a][c].state
           /\ ChangeRow(l, p, f)[a][c].inFlight = row[a][c].inFlight
           /\ row[a][c] \in RowRecord /\ ChangeRow(l, p, f)[a][c] \in RowRecord
<1>1. row \in RowType /\ l[1] \in Attempts /\ Chain(l) \in Chains
  BY LineageParts DEF TypeOK, RowType
<1>2. row[a][c] \in RowRecord /\ ChangeRow(l, p, f)[a][c] \in RowRecord
  BY <1>1, ChangedRow DEF RowType, RowRecord
<1>3. ChangeRow(l, p, f)[a][c].inFlight = row[a][c].inFlight
  BY ChangedRow DEF SameStart
<1> DEFINE r == row[l[1]][Chain(l)]
           x == [r EXCEPT !.provisional = r.provisional + p]
           q == [x EXCEPT !.finalized = r.finalized + f]
<1>4. r \in RowRecord
  BY <1>1 DEF RowType, RowRecord
<1>5. q.state = r.state
  <2> HIDE DEF r
  <2> QED BY <1>4 DEF RowRecord
<1>6. ChangeRow(l, p, f) = [row EXCEPT ![l[1]] = [row[l[1]] EXCEPT ![Chain(l)] = q]]
  BY <1>1, <1>4 DEF ChangeRow, RowType, RowRecord
<1> HIDE DEF q
<1>7. ChangeRow(l, p, f)[a][c].state = row[a][c].state
  BY <1>1, <1>5, <1>6 DEF RowType, r
<1> QED BY <1>2, <1>3, <1>7

(* The chains of a route are chains, and each has a stage. *)
LEMMA RouteShape ==
    /\ RouteChains \subseteq Chains
    /\ \A c \in RouteChains : StagesOn(c) # {} /\ StagesOn(c) \subseteq Stages
    /\ \A c \in RouteChains, a \in Attempts : \A s \in StagesOn(c) :
          /\ <<a, s>> \in Lineages /\ <<a, s>>[1] = a /\ <<a, s>>[2] = s /\ Chain(<<a, s>>) = c
    /\ \A l \in Lineages : /\ l[1] \in Attempts /\ Chain(l) \in RouteChains
                            /\ l[2] \in StagesOn(Chain(l)) /\ l = <<l[1], l[2]>>
BY BudgetConstants DEF RouteChains, StagesOn, Lineages, Chain

(* Every stage of a on c is settled. *)
AllSettled(a, c) == \A s \in StagesOn(c) : sub[<<a, s>>].state \in Settled

(* What a step of one lineage has to show.                                 *)
LEMMA SettleLineage ==
    ASSUME SettleInv, NEW l \in Lineages,
           row[l[1]][Chain(l)].inFlight, Bound(l)',
           \A m \in Lineages \ {l} : sub'[m] = sub[m] /\ lease'[m] = lease[m], UNCHANGED releases,
           \A b \in Attempts, c \in RouteChains :
               /\ row'[b][c].inFlight <=> row[b][c].inFlight
               /\ row'[b][c].state = "none" <=> row[b][c].state = "none"
               /\ b # l[1] => row'[b][c].state = row[b][c].state,
           \A c \in RouteChains :
               releases[l[1]] = 0 => (row'[l[1]][c].state = "settled" <=> AllSettled(l[1], c)')
    PROVE  SettleInv'
<1>1. \A c \in RouteChains : row[l[1]][c].inFlight
  BY RouteShape DEF SettleInv, RowsTogether
<1>2. \A b \in Attempts, c \in RouteChains : \A s \in StagesOn(c) :
        b # l[1] => <<b, s>> \in Lineages \ {l} /\ sub'[<<b, s>>] = sub[<<b, s>>]
  BY RouteShape
<1>3. RowsTogether'
  BY DEF SettleInv, RowsTogether
<1>4. UnstartedIsWhole'
  BY <1>1, <1>2 DEF SettleInv, UnstartedIsWhole
<1>5. UnboundIsReserved'
  <2> SUFFICES ASSUME NEW m \in Lineages, releases'[m[1]] = 0, row'[m[1]][Chain(m)].inFlight, ~Bound(m)'
               PROVE  sub'[m].state = "reserved"
    BY DEF UnboundIsReserved, Chain
  <2>1. m # l /\ sub'[m] = sub[m] /\ ~Bound(m)
    BY DEF Bound
  <2>2. row[m[1]][Chain(m)].inFlight
    BY RouteShape
  <2> QED BY <2>1, <2>2 DEF SettleInv, UnboundIsReserved
<1>6. UncancelledSettle'
  <2> SUFFICES ASSUME NEW b \in Attempts, NEW c \in RouteChains, releases'[b] = 0, row'[b][c].inFlight
               PROVE  row'[b][c].state = "settled" <=> \A s \in StagesOn(c) : sub'[<<b, s>>].state \in Settled
    BY DEF UncancelledSettle
  <2>1. CASE b = l[1]
    BY <2>1 DEF AllSettled
  <2>2. CASE b # l[1]
    BY <1>2, <2>2 DEF SettleInv, UncancelledSettle
  <2> QED BY <2>1, <2>2
<1> QED BY <1>3, <1>4, <1>5, <1>6 DEF SettleInv

(* A stage that was unsettled and stays so settles no row. *)
LEMMA SettleUnsettled ==
    ASSUME SettleInv, NEW l \in Lineages,
           row[l[1]][Chain(l)].inFlight, Bound(l)',
           \A m \in Lineages \ {l} : sub'[m] = sub[m] /\ lease'[m] = lease[m], UNCHANGED releases,
           sub[l].state \notin Settled, sub'[l].state \notin Settled,
           \A b \in Attempts, c \in RouteChains :
               row'[b][c].inFlight = row[b][c].inFlight /\ row'[b][c].state = row[b][c].state
    PROVE  SettleInv'
<1>1. ASSUME NEW c \in RouteChains, releases[l[1]] = 0
      PROVE  row'[l[1]][c].state = "settled" <=> AllSettled(l[1], c)'
  <2>1. row[l[1]][c].inFlight
    BY RouteShape DEF SettleInv, RowsTogether
  <2>2. row[l[1]][c].state = "settled" <=> AllSettled(l[1], c)
    BY <1>1, <2>1, RouteShape DEF SettleInv, UncancelledSettle, AllSettled
  <2>3. CASE c = Chain(l)
    <3>1. ~AllSettled(l[1], c) /\ ~AllSettled(l[1], c)'
      BY <2>3, RouteShape DEF AllSettled
    <3> QED BY <2>2, <3>1, RouteShape
  <2>4. CASE c # Chain(l)
    <3>1. \A s \in StagesOn(c) : <<l[1], s>> \in Lineages \ {l}
      BY <2>4, RouteShape
    <3>2. AllSettled(l[1], c)' <=> AllSettled(l[1], c)
      BY <3>1 DEF AllSettled
    <3> QED BY <2>2, <3>2, RouteShape
  <2> QED BY <2>3, <2>4
<1> QED BY <1>1, SettleLineage

(* A stage that settles takes along every row whose stages are settled     *)
(* (_settle_completed_budget_rows).                                        *)
LEMMA SettleSettled ==
    ASSUME BudgetInv, SettleInv, NEW l \in Lineages, NEW rows \in RowType,
           row[l[1]][Chain(l)].inFlight, Bound(l)',
           \A m \in Lineages \ {l} : sub'[m] = sub[m] /\ lease'[m] = lease[m], UNCHANGED releases,
           sub[l].state \notin Settled,
           \A b \in Attempts, c \in Chains :
               rows[b][c].inFlight = row[b][c].inFlight /\ rows[b][c].state = row[b][c].state,
           row' = SettleRows(l[1], rows, sub')
    PROVE  SettleInv'
<1> DEFINE a == l[1]
<1>0. a \in Attempts /\ \A c \in Chains : rows[a][c] \in RowRecord
  BY LineageParts DEF RowType, RowRecord
<1>1. \A c \in Chains :
        row'[a][c] = IF rows[a][c].state # "none" /\ \A s \in StagesOn(c) : sub'[<<a, s>>].state \in Settled
                     THEN [rows[a][c] EXCEPT !.state = "settled"] ELSE rows[a][c]
  BY <1>0 DEF SettleRows, RowType
<1>2. \A b \in Attempts, c \in Chains : b # a => row'[b][c] = rows[b][c]
  BY <1>0 DEF SettleRows, RowType
<1>3. \A c \in Chains : [rows[a][c] EXCEPT !.state = "settled"].state = "settled"
  BY <1>0 DEF RowRecord
<1>4. \A c \in RouteChains : row[a][c].inFlight /\ row[a][c].state # "none"
  BY <1>0, RouteShape DEF SettleInv, RowsTogether, BudgetInv, StartedReserved
<1>5. ASSUME NEW c \in RouteChains, releases[a] = 0
      PROVE  row'[a][c].state = "settled" <=> AllSettled(a, c)'
  <2>0. c \in Chains /\ rows[a][c].state = row[a][c].state
    BY <1>0, RouteShape
  <2>1. CASE AllSettled(a, c)'
    <3>1. \A s \in StagesOn(c) : sub'[<<a, s>>].state \in Settled
      BY <2>1 DEF AllSettled
    <3>2. rows[a][c].state # "none"
      BY <1>4, <2>0
    <3>3. row'[a][c] = [rows[a][c] EXCEPT !.state = "settled"]
      BY <1>1, <2>0, <3>1, <3>2
    <3> QED BY <1>3, <2>0, <2>1, <3>3
  <2>2. CASE ~AllSettled(a, c)'
    <3>1. row'[a][c].state = row[a][c].state
      BY <1>1, <2>0, <2>2 DEF AllSettled
    <3>2. row[a][c].state = "settled" <=> AllSettled(a, c)
      BY <1>0, <1>4, <1>5 DEF SettleInv, UncancelledSettle, AllSettled
    <3>3. AllSettled(a, c) => AllSettled(a, c)'
      <4> SUFFICES ASSUME AllSettled(a, c), NEW s \in StagesOn(c)
                   PROVE  sub'[<<a, s>>].state \in Settled
        BY DEF AllSettled
      <4>1. <<a, s>> \in Lineages /\ sub[<<a, s>>].state \in Settled
        BY <1>0, RouteShape DEF AllSettled
      <4>2. <<a, s>> # l
        BY <4>1
      <4> QED BY <4>1, <4>2
    <3> QED BY <2>2, <3>1, <3>2, <3>3
  <2> QED BY <2>1, <2>2
<1>6. SameStart(rows, row')
  BY <1>0, SettledRows
<1>7. ASSUME NEW b \in Attempts, NEW c \in RouteChains
      PROVE  /\ row'[b][c].inFlight <=> row[b][c].inFlight
             /\ row'[b][c].state = "none" <=> row[b][c].state = "none"
             /\ b # l[1] => row'[b][c].state = row[b][c].state
  <2>1. c \in Chains
    BY RouteShape
  <2>2. row'[b][c].inFlight <=> row[b][c].inFlight
    BY <1>6, <2>1 DEF SameStart
  <2>3. CASE b # a
    BY <1>2, <2>1, <2>2, <2>3
  <2>4. CASE b = a
    <3>1. rows[a][c].state = row[a][c].state /\ row[a][c].state # "none"
      BY <1>0, <1>4, <2>1
    <3>2. row'[a][c].state # "none"
      BY <1>0, <1>6, <2>1, <3>1 DEF SameStart
    <3> QED BY <2>2, <2>4, <3>1, <3>2
  <2> QED BY <2>3, <2>4
<1> QED BY <1>5, <1>7, SettleLineage

(* Every step of a lineage keeps the rows in step with their stages. *)
LEMMA SettleLineageStep ==
    ASSUME BudgetInv, SettleInv, NEW l \in Lineages, Lineage(l)
    PROVE  SettleInv'
<1>0. /\ TypeOK /\ row \in RowType /\ sub[l] \in SubType /\ lease[l] \in LeaseType
      /\ sub \in [Lineages -> SubType] /\ lease \in [Lineages -> LeaseType]
      /\ Bound(l) => row[l[1]][Chain(l)].inFlight
      /\ l[1] \in Attempts /\ Chain(l) \in Chains /\ RouteChains \subseteq Chains
  BY BoundFacts, LineageParts, RouteShape DEF TypeOK, SubType, LeaseType
<1>9. UNCHANGED releases
  BY DEF Lineage, AcquireNonceSubreservation, MarkLineagePending, RecordIncluded, FinalizeLineage,
         ReleaseDeadLineage, ReopenAfterReorganization, ReopenIncluded, ReopenFinalized, ReopenRefused
<1>1. ASSUME NEW n \in Nonces, NEW w \in Amounts, AcquireNonceSubreservation(l, n, w)
      PROVE  SettleInv'
  <2>1. row[l[1]][Chain(l)].inFlight /\ UNCHANGED row
    BY <1>1 DEF AcquireNonceSubreservation
  <2>2. \A m \in Lineages \ {l} : sub'[m] = sub[m] /\ lease'[m] = lease[m]
    BY <1>0, <1>1 DEF AcquireNonceSubreservation
  <2>3. CASE Bound(l) /\ UNCHANGED lease /\ sub' = [sub EXCEPT ![l].allocated = IF @ < w THEN w ELSE @]
    <3>1. sub'[l].state = sub[l].state
      BY <1>0, <2>3 DEF SubType
    <3>2. Bound(l)'
      BY <2>3 DEF Bound
    <3>3. ASSUME NEW c \in RouteChains, releases[l[1]] = 0
          PROVE  row'[l[1]][c].state = "settled" <=> AllSettled(l[1], c)'
      <4>1. row[l[1]][c].inFlight
        BY <1>0, <2>1, RouteShape DEF SettleInv, RowsTogether
      <4>2. row[l[1]][c].state = "settled" <=> AllSettled(l[1], c)
        BY <1>0, <3>3, <4>1 DEF SettleInv, UncancelledSettle, AllSettled
      <4>3. \A s \in StagesOn(c) : <<l[1], s>> \in Lineages
        BY <1>0, RouteShape
      <4>4. \A s \in StagesOn(c) : sub'[<<l[1], s>>].state = sub[<<l[1], s>>].state
        BY <2>2, <3>1, <4>3
      <4>5. AllSettled(l[1], c)' <=> AllSettled(l[1], c)
        BY <4>4 DEF AllSettled
      <4> QED BY <2>1, <4>2, <4>5
    <3> QED BY <1>9, <2>1, <2>2, <3>2, <3>3, SettleLineage
  <2>4. CASE /\ ~Bound(l)
             /\ lease' = [lease EXCEPT ![l] = [state |-> "active", locked |-> TRUE, nonce |-> n]]
             /\ sub' = [sub EXCEPT ![l].state = "active", ![l].allocated = w]
    <3>2. sub'[l].state = "active"
      BY <1>0, <2>4 DEF SubType
    <3>3. Bound(l)'
      BY <1>0, <2>4 DEF Bound
    <3>4. CASE releases[l[1]] = 0
      <4>1. sub[l].state = "reserved"
        BY <2>1, <2>4, <3>4 DEF SettleInv, UnboundIsReserved
      <4> QED BY <1>9, <2>1, <2>2, <3>2, <3>3, <4>1, SettleUnsettled DEF Settled
    <3>5. CASE releases[l[1]] # 0
      BY <1>9, <2>1, <2>2, <3>3, <3>5, SettleLineage
    <3> QED BY <3>4, <3>5
  <2> QED BY <1>1, <2>3, <2>4 DEF AcquireNonceSubreservation
<1>2. ASSUME NEW st \in {"broadcast_unknown", "submitted"}, MarkLineagePending(l, st)
      PROVE  SettleInv'
  <2>1. /\ Bound(l) /\ sub[l].state \notin Settled /\ UNCHANGED row
        /\ \A m \in Lineages \ {l} : sub'[m] = sub[m] /\ lease'[m] = lease[m]
        /\ sub'[l].state = st /\ lease'[l].state = st
    BY <1>0, <1>2 DEF MarkLineagePending, SubType, LeaseType
  <2> QED BY <1>0, <1>9, <2>1, SettleUnsettled DEF Settled, Bound
<1>3. ASSUME NEW w \in Amounts, RecordIncluded(l, w)
      PROVE  SettleInv'
  <2>1. /\ Bound(l) /\ sub[l].state \notin Settled
        /\ \A m \in Lineages \ {l} : sub'[m] = sub[m] /\ lease'[m] = lease[m]
        /\ sub'[l].state = "included" /\ lease'[l].state = "included"
    BY <1>0, <1>3 DEF RecordIncluded, SubType, LeaseType
  <2>2. row' = ChangeRow(l, w - sub[l].provisional, 0) /\ w - sub[l].provisional \in Int
    BY <1>0, <1>3, BudgetConstants DEF RecordIncluded, SubType
  <2>3. \A b \in Attempts, c \in RouteChains :
          row'[b][c].inFlight = row[b][c].inFlight /\ row'[b][c].state = row[b][c].state
    BY <1>0, <2>2, ChangedRowState
  <2> QED BY <1>0, <1>9, <2>1, <2>3, SettleUnsettled DEF Settled, Bound
<1>4. CASE ReopenIncluded(l)
  <2>1. /\ Bound(l) /\ sub[l].state = "included"
        /\ \A m \in Lineages \ {l} : sub'[m] = sub[m] /\ lease'[m] = lease[m]
        /\ sub'[l].state = "reopened" /\ lease'[l].state = "active"
    BY <1>0, <1>4 DEF ReopenIncluded, SubType, LeaseType
  <2>2. row' = ChangeRow(l, -sub[l].provisional, 0) /\ -sub[l].provisional \in Int
    BY <1>0, <1>4 DEF ReopenIncluded, SubType
  <2>3. \A b \in Attempts, c \in RouteChains :
          row'[b][c].inFlight = row[b][c].inFlight /\ row'[b][c].state = row[b][c].state
    BY <1>0, <2>2, ChangedRowState
  <2> QED BY <1>0, <1>9, <2>1, <2>3, SettleUnsettled DEF Settled, Bound
<1>5. ASSUME NEW w \in Amounts, FinalizeLineage(l, w)
      PROVE  SettleInv'
  <2> DEFINE rows == ChangeRow(l, -sub[l].provisional, w)
  <2>1. /\ Bound(l) /\ sub[l].state \notin Settled
        /\ \A m \in Lineages \ {l} : sub'[m] = sub[m] /\ lease'[m] = lease[m]
        /\ lease'[l].state = "finalized"
    BY <1>0, <1>5 DEF FinalizeLineage, LeaseType
  <2>2. -sub[l].provisional \in Int /\ w \in Int /\ row' = SettleRows(l[1], rows, sub')
    BY <1>0, <1>5, BudgetConstants DEF FinalizeLineage, SubType
  <2>3. rows \in RowType
    BY <1>0, <2>2, ChangedRow
  <2>4. \A b \in Attempts, c \in Chains :
          rows[b][c].inFlight = row[b][c].inFlight /\ rows[b][c].state = row[b][c].state
    BY <1>0, <2>2, ChangedRowState
  <2>5. Bound(l)'
    BY <2>1 DEF Bound
  <2> HIDE DEF rows
  <2> QED BY <1>0, <1>9, <2>1, <2>2, <2>3, <2>4, <2>5, SettleSettled
<1>6. CASE ReleaseDeadLineage(l)
  <2>1. /\ Bound(l) /\ sub[l].state \notin Settled
        /\ \A m \in Lineages \ {l} : sub'[m] = sub[m] /\ lease'[m] = lease[m]
        /\ lease'[l].state = "released"
        /\ row' = SettleRows(l[1], row, sub')
    BY <1>0, <1>6 DEF ReleaseDeadLineage, LeaseType, Settled
  <2>2. Bound(l)'
    BY <2>1 DEF Bound
  <2> QED BY <1>0, <1>9, <2>1, <2>2, SettleSettled
<1>7. CASE ReopenFinalized(l)
  <2> DEFINE rows == ChangeRow(l, 0, -sub[l].finalized)
  <2>1. /\ Bound(l) /\ sub'[l].state = "reopened" /\ lease'[l].state = "active"
        /\ \A m \in Lineages \ {l} : sub'[m] = sub[m] /\ lease'[m] = lease[m]
    BY <1>0, <1>7 DEF ReopenFinalized, SubType, LeaseType
  <2>2. -sub[l].finalized \in Int /\ 0 \in Int
    BY <1>0 DEF SubType
  <2>3. rows \in RowType /\ rows[l[1]][Chain(l)] \in RowRecord
    BY <1>0, <2>2, ChangedRow DEF RowType, RowRecord
  <2>4. \A b \in Attempts, c \in Chains :
          rows[b][c].inFlight = row[b][c].inFlight /\ rows[b][c].state = row[b][c].state
    <3> SUFFICES ASSUME NEW b \in Attempts, NEW c \in Chains
                 PROVE  rows[b][c].inFlight = row[b][c].inFlight /\ rows[b][c].state = row[b][c].state
      OBVIOUS
    <3>1. TypeOK
      BY <1>0
    <3> QED BY <2>2, <3>1, ChangedRowState
  <2>5. row' = [rows EXCEPT ![l[1]] = [rows[l[1]] EXCEPT ![Chain(l)] =
                  [rows[l[1]][Chain(l)] EXCEPT !.state = "in_flight"]]]
    <3>1. row' = [rows EXCEPT ![l[1]][Chain(l)].state = "in_flight"]
      BY <1>7 DEF ReopenFinalized
    <3> HIDE DEF rows
    <3> QED BY <1>0, <2>3, <3>1 DEF RowType
  <2> HIDE DEF rows
  <2>6. \A b \in Attempts, c \in Chains :
          row'[b][c] = IF b = l[1] /\ c = Chain(l)
                       THEN [rows[b][c] EXCEPT !.state = "in_flight"] ELSE rows[b][c]
    BY <1>0, <2>3, <2>5 DEF RowType
  <2>7. /\ row'[l[1]][Chain(l)].state = "in_flight"
        /\ row'[l[1]][Chain(l)].inFlight = row[l[1]][Chain(l)].inFlight
    <3>1. row'[l[1]][Chain(l)] = [rows[l[1]][Chain(l)] EXCEPT !.state = "in_flight"]
      BY <1>0, <2>6
    <3>2. "in_flight" \in RowStates
      BY DEF RowStates
    <3>3. /\ [rows[l[1]][Chain(l)] EXCEPT !.state = "in_flight"].state = "in_flight"
          /\ [rows[l[1]][Chain(l)] EXCEPT !.state = "in_flight"].inFlight = rows[l[1]][Chain(l)].inFlight
      BY <2>3, <3>2, RowChange
    <3>4. rows[l[1]][Chain(l)].inFlight = row[l[1]][Chain(l)].inFlight
      BY <1>0, <2>4
    <3> QED BY <3>1, <3>3, <3>4
  <2>8. row[l[1]][Chain(l)].state # "none" /\ row[l[1]][Chain(l)].inFlight
    BY <1>0, <2>1 DEF BudgetInv, StartedReserved
  <2>9. ASSUME NEW b \in Attempts, NEW c \in RouteChains
        PROVE  /\ row'[b][c].inFlight <=> row[b][c].inFlight
               /\ row'[b][c].state = "none" <=> row[b][c].state = "none"
               /\ b # l[1] => row'[b][c].state = row[b][c].state
    <3>1. CASE b = l[1] /\ c = Chain(l)
      BY <2>7, <2>8, <3>1
    <3>2. CASE ~(b = l[1] /\ c = Chain(l))
      <4>1. c \in Chains
        BY <1>0
      <4>2. row'[b][c] = rows[b][c]
        BY <2>6, <3>2, <4>1
      <4> QED BY <2>4, <4>1, <4>2
    <3> QED BY <3>1, <3>2
  <2>10. ASSUME NEW c \in RouteChains, releases[l[1]] = 0
         PROVE  row'[l[1]][c].state = "settled" <=> AllSettled(l[1], c)'
    <3>1. CASE c = Chain(l)
      <4>1. ~AllSettled(l[1], c)'
        BY <2>1, <3>1, RouteShape DEF AllSettled, Settled
      <4> QED BY <2>7, <3>1, <4>1
    <3>2. CASE c # Chain(l)
      <4>1. \A s \in StagesOn(c) : <<l[1], s>> \in Lineages \ {l}
        BY <1>0, <3>2, RouteShape
      <4>2. AllSettled(l[1], c)' <=> AllSettled(l[1], c)
        BY <2>1, <4>1 DEF AllSettled
      <4>3. row[l[1]][c].inFlight
        BY <1>0, <2>8, RouteShape DEF SettleInv, RowsTogether
      <4>4. row[l[1]][c].state = "settled" <=> AllSettled(l[1], c)
        BY <1>0, <2>10, <4>3 DEF SettleInv, UncancelledSettle, AllSettled
      <4>5. row'[l[1]][c] = rows[l[1]][c] /\ rows[l[1]][c].state = row[l[1]][c].state
        <5>1. c \in Chains /\ l[1] \in Attempts
          BY <1>0
        <5> QED BY <2>4, <2>6, <3>2, <5>1
      <4> QED BY <4>2, <4>4, <4>5
    <3> QED BY <3>1, <3>2
  <2>11. Bound(l)'
    BY <2>1 DEF Bound
  <2> QED BY <1>9, <2>1, <2>8, <2>9, <2>10, <2>11, SettleLineage
<1>8. CASE ReopenRefused(l)
  BY <1>8, <1>9 DEF ReopenRefused, SettleInv, RowsTogether, UnstartedIsWhole, UnboundIsReserved,
              UncancelledSettle, Bound
<1> QED BY <1>1, <1>2, <1>3, <1>4, <1>5, <1>6, <1>7, <1>8 DEF Lineage, ReopenAfterReorganization

(* What a step of the reservation of an attempt has to show that has bound *)
(* no nonce: its rows move together, to a state that its stages have too.  *)
LEMMA SettleReservation ==
    ASSUME BudgetInv, SettleInv, NEW a \in Attempts, UNCHANGED lease,
           \A l \in Lineages : l[1] = a => ~Bound(l),
           \A l \in Lineages : l[1] # a => sub'[l] = sub[l],
           \A b \in Attempts, c \in RouteChains : b # a => row'[b][c] = row[b][c],
           NEW st \in {"reserved", "released", "in_flight"},
           \A c \in RouteChains : /\ row'[a][c].state = st
                                  /\ row'[a][c].inFlight <=> st = "in_flight",
           \A b \in Attempts \ {a} : releases'[b] = releases[b],
           st = "released" => releases'[a] # 0,
           st = "reserved" \/ (st = "in_flight" /\ releases'[a] = 0) =>
               \A c \in RouteChains : \A s \in StagesOn(c) : sub'[<<a, s>>].state = "reserved"
    PROVE  SettleInv'
<1>1. \A b \in Attempts, c \in RouteChains : \A s \in StagesOn(c) :
        b # a => sub'[<<b, s>>] = sub[<<b, s>>]
  BY RouteShape
<1>2. RowsTogether'
  BY DEF SettleInv, RowsTogether
<1>3. UnstartedIsWhole'
  BY <1>1 DEF SettleInv, UnstartedIsWhole
<1>4. UnboundIsReserved'
  <2> SUFFICES ASSUME NEW m \in Lineages, releases'[m[1]] = 0, row'[m[1]][Chain(m)].inFlight, ~Bound(m)'
               PROVE  sub'[m].state = "reserved"
    BY DEF UnboundIsReserved, Chain
  <2>1. /\ m[1] \in Attempts /\ Chain(m) \in RouteChains /\ m[2] \in StagesOn(Chain(m))
        /\ m = <<m[1], m[2]>> /\ ~Bound(m)
    BY RouteShape DEF Bound
  <2>2. CASE m[1] = a
    <3>1. st = "in_flight"
      BY <2>1, <2>2
    <3> QED BY <2>1, <2>2, <3>1
  <2>3. CASE m[1] # a
    BY <2>1, <2>3 DEF SettleInv, UnboundIsReserved
  <2> QED BY <2>2, <2>3
<1>5. UncancelledSettle'
  <2> SUFFICES ASSUME NEW b \in Attempts, NEW c \in RouteChains, releases'[b] = 0, row'[b][c].inFlight
               PROVE  row'[b][c].state = "settled" <=> \A s \in StagesOn(c) : sub'[<<b, s>>].state \in Settled
    BY DEF UncancelledSettle
  <2>1. CASE b = a
    <3>1. st = "in_flight" /\ row'[b][c].state = "in_flight"
      BY <2>1
    <3>2. PICK s \in StagesOn(c) : TRUE
      BY RouteShape
    <3>3. sub'[<<b, s>>].state \notin Settled
      BY <2>1, <3>1 DEF Settled
    <3> QED BY <3>1, <3>2, <3>3
  <2>2. CASE b # a
    BY <1>1, <2>2 DEF SettleInv, UncancelledSettle
  <2> QED BY <2>1, <2>2
<1> QED BY <1>2, <1>3, <1>4, <1>5 DEF SettleInv

(* The steps of a reservation. *)
LEMMA SettleReservationStep ==
    ASSUME BudgetInv, SettleInv, NEW a \in Attempts, Reservation(a)
    PROVE  SettleInv'
<1>0. /\ row \in RowType /\ sub \in [Lineages -> SubType] /\ RouteChains \subseteq Chains
      /\ \A c \in Chains : row[a][c] \in RowRecord
      /\ releases \in [Attempts -> 0..2]
  BY RouteShape DEF BudgetInv, TypeOK, RowType, RowRecord, SubType
<1>1. CASE ReserveCompleteRoute(a)
  <2>1. \A l \in Lineages : l[1] = a => ~Bound(l)
    BY <1>1, LineageParts DEF ReserveCompleteRoute, BudgetInv, BoundInFlight, StartedReserved
  <2>2. /\ \A l \in Lineages : l[1] # a => sub'[l] = sub[l]
        /\ \A l \in Lineages : l[1] = a => sub'[l].state = "reserved"
    BY <1>0, <1>1 DEF ReserveCompleteRoute, SubType
  <2>3. /\ \A b \in Attempts, c \in RouteChains : b # a => row'[b][c] = row[b][c]
        /\ \A c \in RouteChains : row'[a][c] = [row[a][c] EXCEPT !.state = "reserved"]
    BY <1>0, <1>1 DEF ReserveCompleteRoute, RowType
  <2>4. \A c \in RouteChains : row[a][c].inFlight = FALSE
    BY <1>0, <1>1 DEF ReserveCompleteRoute, BudgetInv, StartedReserved, RowRecord
  <2>5. \A c \in RouteChains : row'[a][c].state = "reserved" /\ row'[a][c].inFlight = FALSE
    BY <1>0, <2>3, <2>4 DEF RowRecord
  <2>6. \A c \in RouteChains : \A s \in StagesOn(c) : sub'[<<a, s>>].state = "reserved"
    BY <2>2, RouteShape
  <2>7. UNCHANGED <<lease, releases>>
    BY <1>1 DEF ReserveCompleteRoute
  <2> QED BY <2>1, <2>2, <2>3, <2>5, <2>6, <2>7, SettleReservation
<1>2. CASE MarkSourceInFlight(a)
  <2>1. /\ \E d \in Chains : row[a][d].state # "none"
        /\ \A c \in Chains : ~row[a][c].inFlight
        /\ row' = [row EXCEPT ![a] = [c \in Chains |->
                     IF row[a][c].state = "none" THEN row[a][c]
                     ELSE [row[a][c] EXCEPT !.state = "in_flight", !.inFlight = TRUE]]]
    BY <1>2 DEF MarkSourceInFlight
  <2>8. sub' = sub /\ lease' = lease /\ releases' = releases
    BY <1>2 DEF MarkSourceInFlight
  <2>2. \A l \in Lineages : l[1] = a => ~Bound(l)
    BY <2>1, LineageParts DEF BudgetInv, BoundInFlight
  <2>3. \A b \in Attempts, c \in Chains : b # a => row'[b][c] = row[b][c]
    BY <1>0, <2>1 DEF RowType
  <2>4. \A c \in Chains : row'[a][c] = IF row[a][c].state = "none" THEN row[a][c]
                            ELSE [row[a][c] EXCEPT !.state = "in_flight", !.inFlight = TRUE]
    BY <1>0, <2>1 DEF RowType
  <2>5. /\ \A c \in RouteChains : row[a][c].state \in {"none", "reserved", "released"}
        /\ releases[a] = 0 => \A c \in RouteChains : row[a][c].state \in {"none", "reserved"}
    BY <1>0, <2>1 DEF SettleInv, UnstartedIsWhole
  <2>6. CASE \A c \in RouteChains : row[a][c].state = "none"
    <3>1. \A b \in Attempts, c \in RouteChains : row'[b][c] = row[b][c]
      BY <1>0, <2>3, <2>4, <2>6
    <3>2. RowsTogether' /\ UnstartedIsWhole' /\ UncancelledSettle'
      BY <2>8, <3>1 DEF SettleInv, RowsTogether, UnstartedIsWhole, UncancelledSettle
    <3>3. UnboundIsReserved'
      <4> SUFFICES ASSUME NEW m \in Lineages, releases'[m[1]] = 0, row'[m[1]][Chain(m)].inFlight, ~Bound(m)'
                   PROVE  sub'[m].state = "reserved"
        BY DEF UnboundIsReserved, Chain
      <4>1. row[m[1]][Chain(m)].inFlight /\ ~Bound(m)
        BY <2>8, <3>1, RouteShape DEF Bound
      <4> QED BY <2>8, <4>1 DEF SettleInv, UnboundIsReserved
    <3> QED BY <3>2, <3>3 DEF SettleInv
  <2>7. CASE \E c \in RouteChains : row[a][c].state # "none"
    <3>1. \A c \in RouteChains : row[a][c].state # "none"
      BY <2>7 DEF SettleInv, RowsTogether
    <3>2. releases'[a] = 0 =>
            \A c \in RouteChains : \A s \in StagesOn(c) : sub'[<<a, s>>].state = "reserved"
      BY <1>0, <2>1, <2>5, <2>8, <3>1 DEF SettleInv, UnstartedIsWhole
    <3>3. \A c \in RouteChains : row'[a][c].state = "in_flight" /\ row'[a][c].inFlight = TRUE
      <4> SUFFICES ASSUME NEW c \in RouteChains
                   PROVE  row'[a][c].state = "in_flight" /\ row'[a][c].inFlight = TRUE
        OBVIOUS
      <4>1. row'[a][c] = [row[a][c] EXCEPT !.state = "in_flight", !.inFlight = TRUE]
        BY <1>0, <2>4, <3>1
      <4>2. row[a][c] \in RowRecord /\ "in_flight" \in RowStates
        BY <1>0 DEF RowStates
      <4>3. /\ [row[a][c] EXCEPT !.state = "in_flight", !.inFlight = TRUE].state = "in_flight"
            /\ [row[a][c] EXCEPT !.state = "in_flight", !.inFlight = TRUE].inFlight = TRUE
        BY <4>2, RowChange
      <4> QED BY <4>1, <4>3, Zenon
    <3>4. /\ \A b \in Attempts, c \in RouteChains : b # a => row'[b][c] = row[b][c]
          /\ \A l \in Lineages : l[1] # a => sub'[l] = sub[l]
          /\ UNCHANGED lease
      BY <1>0, <2>3, <2>8
    <3> QED BY <2>2, <2>8, <3>2, <3>3, <3>4, SettleReservation
  <2> QED BY <2>6, <2>7
<1>3. CASE ReleaseUnstartedRoute(a)
  <2>1. /\ \A c \in Chains : ~row[a][c].inFlight
        /\ row' = [row EXCEPT ![a] = [c \in Chains |->
                     IF row[a][c].state = "none" THEN row[a][c]
                     ELSE [row[a][c] EXCEPT !.state = "released"]]]
        /\ UNCHANGED lease
    BY <1>3 DEF ReleaseUnstartedRoute
  <2>8. releases'[a] # 0 /\ \A b \in Attempts \ {a} : releases'[b] = releases[b]
    BY <1>0, <1>3 DEF ReleaseUnstartedRoute
  <2>2. \A l \in Lineages : l[1] = a => ~Bound(l)
    BY <2>1, LineageParts DEF BudgetInv, BoundInFlight
  <2>3. \A l \in Lineages : l[1] # a => sub'[l] = sub[l]
    BY <1>3 DEF ReleaseUnstartedRoute
  <2>4. \A b \in Attempts, c \in Chains : b # a => row'[b][c] = row[b][c]
    BY <1>0, <2>1 DEF RowType
  <2>5. \A c \in Chains : row'[a][c] = IF row[a][c].state = "none" THEN row[a][c]
                            ELSE [row[a][c] EXCEPT !.state = "released"]
    BY <1>0, <2>1 DEF RowType
  <2>6. CASE \A c \in RouteChains : row[a][c].state = "none"
    <3>1. \A b \in Attempts, c \in RouteChains : row'[b][c] = row[b][c]
      BY <1>0, <2>4, <2>5, <2>6
    <3>2. \A c \in RouteChains : ~row[a][c].inFlight
      BY <1>0, <2>1
    <3>3. \A b \in Attempts, c \in RouteChains : \A s \in StagesOn(c) :
            b # a => sub'[<<b, s>>] = sub[<<b, s>>]
      BY <2>3, RouteShape
    <3>4. RowsTogether' /\ UncancelledSettle'
      BY <2>8, <3>1, <3>2, <3>3 DEF SettleInv, RowsTogether, UncancelledSettle
    <3>5. UnstartedIsWhole'
      BY <2>6, <2>8, <3>1, <3>3 DEF SettleInv, UnstartedIsWhole
    <3>6. UnboundIsReserved'
      BY <2>1, <2>3, <2>8, <3>1, <3>2, RouteShape DEF SettleInv, UnboundIsReserved, Bound, Chain
    <3> QED BY <3>4, <3>5, <3>6 DEF SettleInv
  <2>7. CASE \E c \in RouteChains : row[a][c].state # "none"
    <3>1. \A c \in RouteChains : row[a][c].state # "none" /\ row[a][c].inFlight = FALSE
      BY <1>0, <2>1, <2>7 DEF SettleInv, RowsTogether, RowRecord
    <3>2. \A c \in RouteChains : row'[a][c].state = "released" /\ row'[a][c].inFlight = FALSE
      BY <1>0, <2>5, <3>1 DEF RowRecord
    <3>3. \A b \in Attempts, c \in RouteChains : b # a => row'[b][c] = row[b][c]
      BY <1>0, <2>4
    <3> QED BY <2>1, <2>2, <2>3, <2>8, <3>2, <3>3, SettleReservation
  <2> QED BY <2>6, <2>7
<1> QED BY <1>1, <1>2, <1>3 DEF Reservation

(* The row of a started reservation is settled exactly when every stage on *)
(* its chain is (_settle_completed_budget_rows), also after a stage was    *)
(* reopened, for every route over any number of chains, except where the   *)
(* reservation had been cancelled before its start, which                  *)
(* mark_source_in_flight does not refuse.                                  *)
THEOREM RowsSettleTogether == Spec => []SettledTogether
<1>1. Init => SettleInv
  <2> SUFFICES ASSUME Init PROVE SettleInv
    OBVIOUS
  <2>1. \A a \in Attempts, c \in RouteChains : row[a][c].state = "none" /\ row[a][c].inFlight = FALSE
    BY RouteShape DEF Init
  <2> QED BY <2>1, RouteShape
          DEF SettleInv, RowsTogether, UnstartedIsWhole, UnboundIsReserved, UncancelledSettle
<1>2. BudgetInv /\ SettleInv /\ [Next]_vars => SettleInv'
  <2> SUFFICES ASSUME BudgetInv, SettleInv, [Next]_vars PROVE SettleInv'
    OBVIOUS
  <2>1. CASE UNCHANGED <<sub, lease, row, releases>>
    BY <2>1 DEF SettleInv, RowsTogether, UnstartedIsWhole, UnboundIsReserved, UncancelledSettle, Bound
  <2>2. CASE \E a \in Attempts : Reservation(a)
    BY <2>2, SettleReservationStep
  <2>3. CASE \E l \in Lineages : Lineage(l)
    BY <2>3, SettleLineageStep
  <2>4. CASE \/ \E c \in Chains, w \in Balances : ConfigureLimits(c, w)
             \/ Drain \/ Halt \/ Revoke \/ Resume
    BY <2>1, <2>4 DEF ConfigureLimits, Drain, Halt, Revoke, Resume, Transition
  <2> QED BY <2>1, <2>2, <2>3, <2>4 DEF Next, vars
<1>3. BudgetInv /\ SettleInv => SettledTogether
  <2> SUFFICES ASSUME BudgetInv, SettleInv, NEW a \in Attempts, NEW c \in RouteChains,
                      row[a][c].inFlight, ~UsedAfterCancel(a)
               PROVE  row[a][c].state = "settled" <=> \A s \in StagesOn(c) : sub[<<a, s>>].state \in Settled
    BY DEF SettledTogether
  <2>1. attempt[a] = "in_flight" /\ releases[a] \in 0..2
    BY RouteShape DEF BudgetInv, StartedReserved, TypeOK
  <2>2. releases[a] = 0
    BY <2>1 DEF UsedAfterCancel
  <2> QED BY <2>2 DEF SettleInv, UncancelledSettle
<1> QED BY <1>1, <1>2, <1>3, BudgetInvariant, PTL DEF Spec

-----------------------------------------------------------------------------
(* The stop policies (XIRStops, as MC_XIRControl has it).  The argument: a *)
(* process reads and stops a run it has already seen since its event, so   *)
(* that whatever it finds then, the run has been in a mode at least as     *)
(* strong as its policy asks (StopHeeds); a streak of the whole run always *)
(* triggers in the recorder that completes it, whatever the window is      *)
(* (StreakTriggers), and every mode that recorder sees afterwards is one   *)
(* the run has been in since that outcome (AboutToHalt).                   *)

(* The outcomes that are recorded, and a process that evaluates policies.  *)
Outcome == [failed : BOOLEAN, timedOut : BOOLEAN]
Engine == [pc : {"idle", "event", "state", "stop"}, code : {"pass", "triggered"},
           stop : {"drain", "halted"}, read : Stops!Modes]

(* A check that is going on in process e: only a triggered one goes past   *)
(* its event, and what it reads is a mode the run has had since then.      *)
CheckHolds(e) ==
    /\ engine[e].pc = "idle" => engine[e].code = "pass"
    /\ engine[e].pc \in {"state", "stop"} => engine[e].code = "triggered" /\ stopMode \in seen[e]
    /\ engine[e].pc = "stop" => engine[e].read \in seen[e]

(* The process that recorded the last outcome is about to halt the run,    *)
(* and what it has seen since its event the run has been in since then.    *)
AboutToHalt ==
    /\ engine[last].code = "triggered" /\ engine[last].stop = "halted"
    /\ engine[last].pc \in {"state", "stop"} => seen[last] \subseteq after

(* The type invariant of XIRStops, with that of the records it leaves out. *)
StopsTyped ==
    /\ stopMode \in Stops!Modes /\ outcomes \in Seq(Outcome)
    /\ engine \in [Engines -> Engine] /\ seen \in [Engines -> SUBSET Stops!Modes]
    /\ after \subseteq Stops!Modes /\ last \in Engines
    /\ unheeded = FALSE /\ missed \in BOOLEAN
    /\ controls \in 0..MaxControls /\ checks \in 0..MaxChecks
    /\ \A i \in 1..Len(outcomes) : outcomes[i].timedOut => outcomes[i].failed

(* A streak that reached the threshold has halted the run, will halt it, or *)
(* its process died.                                                       *)
StreakHeeded ==
    Stops!Streak(outcomes) >= Consecutive =>
        AboutToHalt \/ after \cap Stops!Strong("halted") # {} \/ missed

(* The inductive invariant. *)
StopsInv ==
    /\ StopsTyped
    /\ \A e \in Engines : CheckHolds(e)
    /\ outcomes # <<>> => stopMode \in after
    /\ StreakHeeded

(* A nonempty set of numbers has a least element.                          *)
LEMMA LeastOf ==
  ASSUME NEW S \in SUBSET Nat, S # {}
  PROVE  \E x \in S : \A y \in S : x <= y
<1> DEFINE R == {ss \in Nat \X Nat : ss[1] < ss[2]}
<1>1. IsWellFoundedOn(R, Nat)
  BY NatLessThanWellFounded, Zenon DEF OpToRel
<1> HIDE DEF R
<1>2. PICK x \in S : \A y \in S : ~(<<y, x>> \in R)
  BY <1>1, WFMin
<1>3. ASSUME NEW y \in S PROVE x <= y
  <2>1. x \in Nat /\ y \in Nat
    OBVIOUS
  <2>2. ~(<<y, x>>[1] < <<y, x>>[2])
    BY <1>2, <2>1 DEF R
  <2> QED
    BY <2>1, <2>2
<1> QED
  BY <1>3

(* The streak is the longest run of failures a sequence of outcomes ends with. *)
LEMMA StreakFacts ==
  ASSUME NEW s \in Seq(Outcome)
  PROVE  /\ Stops!Streak(s) \in 0..Len(s)
         /\ \A i \in (Len(s) - Stops!Streak(s) + 1)..Len(s) : s[i].failed
         /\ \A k \in 0..Len(s) :
              (\A i \in (Len(s) - k + 1)..Len(s) : s[i].failed) => k <= Stops!Streak(s)
<1> DEFINE n == Len(s)
<1> DEFINE FailedFrom(k) == \A i \in (n - k + 1)..n : s[i].failed
<1> DEFINE ends == {k \in 0..n : FailedFrom(k)}
<1> DEFINE starts == {m \in 0..n : FailedFrom(n - m)}
<1>1. n \in Nat
  OBVIOUS
<1>2. FailedFrom(0)
  BY <1>1
<1> HIDE DEF n, FailedFrom
<1>3. n \in starts /\ starts \in SUBSET Nat
  <2>1. n - n = 0 /\ n \in 0..n
    BY <1>1
  <2> QED
    BY <1>1, <1>2, <2>1
<1>4. PICK m \in starts : \A y \in starts : m <= y
  <2> HIDE DEF starts
  <2> QED
    BY <1>3, LeastOf
<1>5. n - m \in ends
  <2>1. n - m \in 0..n /\ FailedFrom(n - m)
    BY <1>1, <1>4
  <2> QED
    BY <2>1
<1>6. ASSUME NEW j \in ends PROVE j <= n - m
  <2>1. j \in 0..n /\ FailedFrom(j) /\ n - (n - j) = j /\ n - j \in 0..n
    BY <1>1
  <2>2. n - j \in starts
    BY <2>1
  <2>3. m <= n - j
    BY <1>4, <2>2
  <2>4. n \in Int /\ m \in Int /\ j \in Int
    BY <1>1, <1>4, <2>1
  <2> QED
    BY <2>3, <2>4
<1>7. Stops!Streak(s) = CHOOSE k \in ends : \A j \in ends : j <= k
  BY DEF Stops!Streak, n, FailedFrom
<1>8. Stops!Streak(s) \in ends /\ \A j \in ends : j <= Stops!Streak(s)
  <2> HIDE DEF ends
  <2> QED
    BY <1>5, <1>6, <1>7
<1>9. /\ Stops!Streak(s) \in 0..n /\ FailedFrom(Stops!Streak(s))
      /\ \A k \in 0..n : FailedFrom(k) => k <= Stops!Streak(s)
  BY <1>8
<1> QED
  BY <1>9 DEF n, FailedFrom

(* What is recent: the last Window outcomes, or all of them. *)
LEMMA RecentFacts ==
  ASSUME NEW s \in Seq(Outcome)
  PROVE  /\ Stops!Recent(s) \in Seq(Outcome)
         /\ Len(Stops!Recent(s)) = IF Len(s) > Window THEN Window ELSE Len(s)
         /\ \A i \in 1..Len(Stops!Recent(s)) :
              Stops!Recent(s)[i] = s[Len(s) - Len(Stops!Recent(s)) + i]
<1> DEFINE m == IF Len(s) > Window THEN Len(s) - Window + 1 ELSE 1
<1>1. Len(s) \in Nat /\ Window \in Nat /\ Window # 0
  BY PolicyAssumption
<1>2. m \in Nat /\ m >= 1 /\ m <= Len(s) + 1
  BY <1>1
<1>3. Stops!Recent(s) = SubSeq(s, m, Len(s))
  BY DEF Stops!Recent
<1>4. Len(s) - m + 1 = IF Len(s) > Window THEN Window ELSE Len(s)
  BY <1>1
<1> HIDE DEF m
<1>5. Len(SubSeq(s, m, Len(s))) = Len(s) - m + 1
  BY <1>1, <1>2
<1>6. \A i \in 1..(Len(s) - m + 1) : SubSeq(s, m, Len(s))[i] = s[m + i - 1]
  BY <1>1, <1>2
<1>7. SubSeq(s, m, Len(s)) \in Seq(Outcome)
  BY <1>1, <1>2
<1>8. \A i \in 1..(Len(s) - m + 1) : m + i - 1 = Len(s) - (Len(s) - m + 1) + i
  BY <1>1, <1>2
<1> QED
  BY <1>3, <1>4, <1>5, <1>6, <1>7, <1>8

(* A streak of the whole run that reaches the threshold triggers: it is a  *)
(* streak of the recent outcomes, or the whole window failed.              *)
LEMMA StreakTriggers ==
  ASSUME NEW s \in Seq(Outcome), Stops!Streak(s) >= Consecutive
  PROVE  Stops!OutcomeCode(s) \in {"consecutive_failures", "rolling_failure_rate"}
<1> DEFINE r == Stops!Recent(s)
<1> DEFINE k == Stops!Streak(s)
<1>1. /\ Len(s) \in Nat /\ Window \in Nat \ {0} /\ Consecutive \in Nat \ {0}
      /\ RateFailures \in 0..Window
  BY PolicyAssumption
<1>2. /\ r \in Seq(Outcome) /\ Len(r) = IF Len(s) > Window THEN Window ELSE Len(s)
      /\ \A i \in 1..Len(r) : r[i] = s[Len(s) - Len(r) + i]
  BY RecentFacts
<1>3. k \in 0..Len(s) /\ k >= Consecutive /\ \A i \in (Len(s) - k + 1)..Len(s) : s[i].failed
  BY StreakFacts
<1>4. Stops!OutcomeCode(s) =
        IF Stops!Streak(r) >= Consecutive THEN "consecutive_failures"
        ELSE IF Len(r) = Window /\ Stops!Failures(r) > 0 /\ Stops!Failures(r) >= RateFailures
        THEN "rolling_failure_rate"
        ELSE IF Stops!Timeouts(s) >= TimeoutCount THEN "timeout_count" ELSE "pass"
  BY DEF Stops!OutcomeCode
<1> HIDE DEF r, k
<1>a. Len(r) \in Nat /\ Len(r) <= Len(s) /\ k \in Nat /\ k <= Len(s) /\ k >= Consecutive
  BY <1>1, <1>2, <1>3
<1>5. CASE Consecutive <= Len(r)
  <2>1. Consecutive \in 0..Len(r) /\ Len(r) \in Nat
    BY <1>1, <1>2, <1>5
  <2>2. ASSUME NEW i \in (Len(r) - Consecutive + 1)..Len(r) PROVE r[i].failed
    <3>1. i \in Int /\ i >= Len(r) - Consecutive + 1 /\ i <= Len(r)
      BY <1>1, <1>a
    <3>2. i \in 1..Len(r) /\ Len(s) - Len(r) + i \in (Len(s) - k + 1)..Len(s)
      BY <1>1, <1>5, <1>a, <3>1
    <3> QED
      BY <1>2, <1>3, <3>2
  <2>3. Stops!Streak(r) >= Consecutive
    BY <1>2, <2>1, <2>2, StreakFacts
  <2> QED
    BY <1>4, <2>3
<1>6. CASE ~(Consecutive <= Len(r))
  <2>1. Len(r) = Window /\ Window < k
    BY <1>1, <1>2, <1>3, <1>6
  <2>2. ASSUME NEW i \in 1..Window PROVE r[i].failed
    <3>1. Len(s) - Len(r) + i \in (Len(s) - k + 1)..Len(s)
      <4>1. i \in Int /\ i >= 1 /\ i <= Len(r) /\ Len(r) < k
        BY <1>1, <1>a, <2>1
      <4> QED
        BY <1>1, <1>a, <4>1
    <3> QED
      BY <1>2, <1>3, <2>1, <3>1
  <2>3. {i \in DOMAIN r : r[i].failed} = 1..Window
    BY <1>2, <2>1, <2>2
  <2>4. Stops!Failures(r) = Window
    <3>1. Cardinality(1..Window) = Window
      BY <1>1, FS_Interval
    <3>2. Stops!Cardinality(1..Window) = Cardinality(1..Window)
      BY DEF Stops!Cardinality, Cardinality
    <3> QED
      BY <2>3, <3>1, <3>2 DEF Stops!Failures
  <2> QED
    BY <1>1, <1>4, <2>1, <2>4
<1> QED
  BY <1>5, <1>6

(* A mode is at least as strong as the policy asks, or it may be replaced. *)
LEMMA ModeFacts ==
  /\ Stops!Modes = {"running", "drain", "halted", "revoked"}
  /\ \A st \in {"drain", "halted"} : /\ st \in Stops!Strong(st) /\ st \in Stops!Modes
                                     /\ Stops!Strong("halted") \subseteq Stops!Strong(st)
                                     /\ \A m \in Stops!Modes : m \in Stops!AllowedFrom(st)
                                                               \/ m \in Stops!Strong(st)
BY DEF Stops!Modes, Stops!Strong, Stops!AllowedFrom

(* Nothing has been recorded while the streak is short. *)
LEMMA StreakNonempty ==
  ASSUME StopsTyped, Stops!Streak(outcomes) >= Consecutive
  PROVE  outcomes # <<>>
<1>1. outcomes \in Seq(Outcome) /\ Consecutive \in Nat \ {0}
  BY PolicyAssumption DEF StopsTyped
<1>2. Stops!Streak(outcomes) \in 0..Len(outcomes)
  BY <1>1, StreakFacts
<1>3. Len(outcomes) # 0
  BY <1>1, <1>2
<1> QED
  BY <1>3

(* A transition adds a mode to all that is remembered.                     *)
LEMMA TransitionKeeps ==
  ASSUME StopsInv, NEW to \in Stops!Modes, Stops!Transition(to),
         UNCHANGED <<outcomes, engine, last, unheeded, missed, checks>>,
         controls' \in 0..MaxControls
  PROVE  StopsInv'
<1>1. /\ stopMode' = to /\ seen' = [f \in Engines |-> seen[f] \cup {to}]
      /\ after' = after \cup {to}
  BY DEF Stops!Transition
<1>2. StopsTyped'
  BY <1>1 DEF StopsInv, StopsTyped
<1>3. \A f \in Engines : CheckHolds(f)'
  BY <1>1 DEF StopsInv, CheckHolds
<1>4. last \in Engines
  BY DEF StopsInv, StopsTyped
<1>5. StreakHeeded'
  BY <1>1, <1>4 DEF StopsInv, StreakHeeded, AboutToHalt
<1> QED
  BY <1>1, <1>2, <1>3, <1>5 DEF StopsInv

(* An operator stops, resumes or revokes (controls.py).                    *)
LEMMA DecideKeeps ==
  ASSUME StopsInv, NEW to \in Stops!Modes, Stops!Decide(to)
  PROVE  StopsInv'
<1>1. controls < MaxControls /\ controls' = controls + 1 /\ controls \in 0..MaxControls
  BY DEF Stops!Decide, StopsInv, StopsTyped
<1>2. controls' \in 0..MaxControls
  BY <1>1, PolicyAssumption
<1> QED
  BY <1>2, TransitionKeeps DEF Stops!Decide

(* A recorded evaluation. *)
LEMMA EvaluatedFacts ==
  ASSUME engine \in [Engines -> Engine], NEW e \in Engines, NEW code, Stops!Evaluated(e, code)
  PROVE  /\ engine' \in [Engines -> Engine]
         /\ engine'[e].pc = "event" /\ engine'[e].stop = Stops!TriggeredMode(code)
         /\ engine'[e].code = IF code = "pass" THEN "pass" ELSE "triggered"
         /\ \A f \in Engines : f # e => engine'[f] = engine[f]
<1> DEFINE E == [pc |-> "event", code |-> IF code = "pass" THEN "pass" ELSE "triggered",
                 stop |-> Stops!TriggeredMode(code), read |-> "running"]
<1>1. E \in Engine
  BY ModeFacts DEF Engine, Stops!TriggeredMode
<1>2. engine' = [engine EXCEPT ![e] = E]
  BY DEF Stops!Evaluated
<1>3. E.pc = "event" /\ E.stop = Stops!TriggeredMode(code)
      /\ E.code = IF code = "pass" THEN "pass" ELSE "triggered"
  OBVIOUS
<1> HIDE DEF E
<1> QED
  BY <1>1, <1>2, <1>3

(* An outcome that completes a streak is recorded by a process that will halt *)
(* the run, and the modes the run has been in are counted from it on.      *)
LEMMA RecordKeeps ==
  ASSUME StopsInv, NEW e \in Engines, NEW failed \in BOOLEAN, NEW timedOut \in BOOLEAN,
         timedOut => failed, Stops!RecordExecutionOutcome(e, failed, timedOut)
  PROVE  StopsInv'
<1> DEFINE o == [failed |-> failed, timedOut |-> timedOut]
<1>1. /\ outcomes' = Append(outcomes, o) /\ Stops!Evaluated(e, Stops!OutcomeCode(outcomes'))
      /\ after' = {stopMode} /\ last' = e
      /\ UNCHANGED <<stopMode, seen, unheeded, missed, controls, checks>>
  BY DEF Stops!RecordExecutionOutcome
<1>2. o \in Outcome /\ (o.timedOut => o.failed) /\ StopsTyped
  BY DEF Outcome, StopsInv
<1> HIDE DEF o
<1>3. /\ outcomes' \in Seq(Outcome) /\ outcomes' # <<>>
      /\ \A i \in 1..Len(outcomes') : outcomes'[i].timedOut => outcomes'[i].failed
  BY <1>1, <1>2 DEF StopsTyped
<1>4. /\ engine' \in [Engines -> Engine] /\ engine'[e].pc = "event"
      /\ engine'[e].stop = Stops!TriggeredMode(Stops!OutcomeCode(outcomes'))
      /\ engine'[e].code = IF Stops!OutcomeCode(outcomes') = "pass" THEN "pass" ELSE "triggered"
      /\ \A f \in Engines : f # e => engine'[f] = engine[f]
  BY <1>1, <1>2, EvaluatedFacts DEF StopsTyped
<1>5. StopsTyped'
  BY <1>1, <1>2, <1>3, <1>4 DEF StopsTyped
<1>6. \A f \in Engines : CheckHolds(f)'
  BY <1>1, <1>4 DEF StopsInv, CheckHolds
<1>7. StreakHeeded'
  <2> SUFFICES ASSUME Stops!Streak(outcomes') >= Consecutive PROVE AboutToHalt'
    BY DEF StreakHeeded
  <2>1. Stops!OutcomeCode(outcomes') \in {"consecutive_failures", "rolling_failure_rate"}
    BY <1>3, StreakTriggers
  <2>2. engine'[e].code = "triggered" /\ engine'[e].stop = "halted"
    BY <1>4, <2>1 DEF Stops!TriggeredMode
  <2> QED
    BY <1>1, <1>4, <2>2 DEF AboutToHalt
<1> QED
  BY <1>1, <1>5, <1>6, <1>7 DEF StopsInv

(* The last recorder keeps what it owes when another process takes a step, *)
(* and owes nothing while it is idle.                                      *)
LEMMA OthersKeep ==
  ASSUME StopsInv, NEW e \in Engines, StopsTyped', CheckHolds(e)',
         \A f \in Engines : f # e => engine'[f] = engine[f] /\ seen'[f] = seen[f],
         UNCHANGED <<stopMode, outcomes, after, last, missed>>,
         e = last => engine[e].pc = "idle"
  PROVE  StopsInv'
<1>1. \A f \in Engines : CheckHolds(f)'
  BY DEF StopsInv, CheckHolds
<1>2. last \in Engines
  BY DEF StopsInv, StopsTyped
<1>3. StreakHeeded'
  <2>1. AboutToHalt => e # last
    BY DEF AboutToHalt, StopsInv, CheckHolds
  <2>2. AboutToHalt => AboutToHalt'
    BY <1>2, <2>1 DEF AboutToHalt
  <2> QED
    BY <2>2 DEF StopsInv, StreakHeeded
<1> QED
  BY <1>1, <1>3 DEF StopsInv

(* A check other than an outcome begins in a process that owed nothing.    *)
LEMMA CheckKeeps ==
  ASSUME StopsInv, NEW e \in Engines, NEW code, Stops!Check(e, code)
  PROVE  StopsInv'
<1>1. /\ engine[e].pc = "idle" /\ checks < MaxChecks /\ checks' = checks + 1
      /\ Stops!Evaluated(e, code)
      /\ UNCHANGED <<stopMode, outcomes, seen, after, last, unheeded, missed, controls>>
  BY DEF Stops!Check, Stops!At
<1>2. StopsTyped
  BY DEF StopsInv
<1>3. /\ engine' \in [Engines -> Engine] /\ engine'[e].pc = "event"
      /\ \A f \in Engines : f # e => engine'[f] = engine[f]
  BY <1>1, <1>2, EvaluatedFacts DEF StopsTyped
<1>4. checks' \in 0..MaxChecks
  BY <1>1, <1>2, PolicyAssumption DEF StopsTyped
<1>5. StopsTyped'
  BY <1>1, <1>2, <1>3, <1>4 DEF StopsTyped
<1>6. CheckHolds(e)'
  BY <1>3 DEF CheckHolds
<1> QED
  BY <1>1, <1>3, <1>5, <1>6, OthersKeep

(* The event of the check is written: what the process has seen begins with *)
(* the present mode, which the run has been in since the last outcome.     *)
LEMMA RecordEventKeeps ==
  ASSUME StopsInv, NEW e \in Engines, Stops!RecordEvent(e)
  PROVE  StopsInv'
<1>1. /\ engine[e].pc = "event" /\ seen' = [seen EXCEPT ![e] = {stopMode}]
      /\ engine' = [engine EXCEPT ![e] = IF engine[e].code = "pass" THEN Stops!Idle
                                         ELSE [@ EXCEPT !.pc = "state"]]
      /\ UNCHANGED <<stopMode, outcomes, after, last, unheeded, missed, controls, checks>>
  BY DEF Stops!RecordEvent, Stops!At
<1>2. StopsTyped /\ engine[e] \in Engine
  BY DEF StopsInv, StopsTyped
<1>3. Stops!Idle \in Engine /\ Stops!Idle.pc = "idle" /\ Stops!Idle.code = "pass"
  BY ModeFacts DEF Stops!Idle, Engine
<1>4. CASE engine[e].code = "pass"
  <2>1. /\ engine' \in [Engines -> Engine] /\ engine'[e] = Stops!Idle
        /\ \A f \in Engines : f # e => engine'[f] = engine[f]
    BY <1>1, <1>2, <1>3, <1>4 DEF StopsTyped
  <2>2. /\ seen' \in [Engines -> SUBSET Stops!Modes]
        /\ \A f \in Engines : f # e => seen'[f] = seen[f]
    BY <1>1, <1>2 DEF StopsTyped
  <2>3. StopsTyped'
    BY <1>1, <1>2, <2>1, <2>2 DEF StopsTyped
  <2>4. \A f \in Engines : CheckHolds(f)'
    BY <1>1, <1>3, <2>1, <2>2 DEF StopsInv, CheckHolds
  <2>5. AboutToHalt => AboutToHalt'
    <3>1. AboutToHalt => last # e
      BY <1>4 DEF AboutToHalt
    <3> QED
      BY <1>1, <1>2, <2>1, <2>2, <3>1 DEF AboutToHalt, StopsTyped
  <2> QED
    BY <1>1, <2>3, <2>4, <2>5 DEF StopsInv, StreakHeeded
<1>5. CASE engine[e].code # "pass"
  <2>1. /\ engine' = [engine EXCEPT ![e] = [engine[e] EXCEPT !.pc = "state"]]
        /\ [engine[e] EXCEPT !.pc = "state"] \in Engine
    BY <1>1, <1>2, <1>5 DEF Engine
  <2>2. /\ engine' \in [Engines -> Engine]
        /\ engine'[e].pc = "state" /\ engine'[e].code = "triggered"
        /\ engine'[e].stop = engine[e].stop
        /\ \A f \in Engines : f # e => engine'[f] = engine[f]
    BY <1>2, <1>5, <2>1 DEF StopsTyped, Engine
  <2>3. /\ seen' \in [Engines -> SUBSET Stops!Modes] /\ seen'[e] = {stopMode}
        /\ \A f \in Engines : f # e => seen'[f] = seen[f]
    BY <1>1, <1>2 DEF StopsTyped
  <2>4. StopsTyped'
    BY <1>1, <1>2, <2>2, <2>3 DEF StopsTyped
  <2>5. \A f \in Engines : CheckHolds(f)'
    BY <1>1, <2>2, <2>3 DEF StopsInv, CheckHolds
  <2>6. Stops!Streak(outcomes) >= Consecutive => stopMode \in after
    BY <1>2, StreakNonempty DEF StopsInv
  <2>7. Stops!Streak(outcomes) >= Consecutive /\ AboutToHalt => AboutToHalt'
    <3>1. CASE last = e
      BY <1>1, <2>2, <2>3, <2>6, <3>1 DEF AboutToHalt
    <3>2. CASE last # e
      BY <1>1, <1>2, <2>2, <2>3, <3>2 DEF AboutToHalt, StopsTyped
    <3> QED
      BY <3>1, <3>2
  <2> QED
    BY <1>1, <2>4, <2>5, <2>7 DEF StopsInv, StreakHeeded
<1> QED
  BY <1>4, <1>5

(* The control state is read: it is a mode the run has had since the event. *)
LEMMA ReadStateKeeps ==
  ASSUME StopsInv, NEW e \in Engines, Stops!ReadState(e)
  PROVE  StopsInv'
<1>1. /\ engine[e].pc = "state" /\ engine' = [engine EXCEPT ![e].pc = "stop", ![e].read = stopMode]
      /\ UNCHANGED <<stopMode, outcomes, seen, after, last, unheeded, missed, controls, checks>>
  BY DEF Stops!ReadState, Stops!At
<1>2. StopsTyped /\ engine[e] \in Engine /\ CheckHolds(e) /\ stopMode \in Stops!Modes
  BY DEF StopsInv, StopsTyped
<1>3. /\ engine' \in [Engines -> Engine] /\ engine'[e].pc = "stop" /\ engine'[e].read = stopMode
      /\ engine'[e].code = engine[e].code /\ engine'[e].stop = engine[e].stop
      /\ \A f \in Engines : f # e => engine'[f] = engine[f]
  <2> DEFINE E == [engine[e] EXCEPT !.pc = "stop", !.read = stopMode]
  <2>1. /\ E \in Engine /\ E.pc = "stop" /\ E.read = stopMode
        /\ E.code = engine[e].code /\ E.stop = engine[e].stop
    BY <1>2 DEF Engine
  <2>2. engine' = [engine EXCEPT ![e] = E]
    BY <1>1, <1>2 DEF StopsTyped
  <2> HIDE DEF E
  <2> QED
    BY <1>2, <2>1, <2>2 DEF StopsTyped
<1>4. StopsTyped'
  BY <1>1, <1>2, <1>3 DEF StopsTyped
<1>5. \A f \in Engines : CheckHolds(f)'
  BY <1>1, <1>2, <1>3 DEF StopsInv, CheckHolds
<1>6. AboutToHalt => AboutToHalt'
  <2>1. CASE last = e
    BY <1>1, <1>3, <2>1 DEF AboutToHalt
  <2>2. CASE last # e
    BY <1>1, <1>2, <1>3, <2>2 DEF AboutToHalt, StopsTyped
  <2> QED
    BY <2>1, <2>2
<1> QED
  BY <1>1, <1>4, <1>5, <1>6 DEF StopsInv, StreakHeeded

(* Whatever the control state has become since it was read, the run has    *)
(* been as strongly stopped as the policy asks when the check ends.        *)
LEMMA StopHeeds ==
  ASSUME StopsInv, NEW e \in Engines, Stops!Stop(e)
  PROVE  seen'[e] \cap Stops!Strong(engine[e].stop) # {}
<1> DEFINE st == engine[e].stop
<1>1. /\ engine[e] \in Engine /\ stopMode \in Stops!Modes /\ seen \in [Engines -> SUBSET Stops!Modes]
      /\ engine[e].read \in seen[e] /\ stopMode \in seen[e]
  BY DEF StopsInv, StopsTyped, CheckHolds, Stops!Stop, Stops!At
<1>2. st \in {"drain", "halted"} /\ engine[e].read \in Stops!Modes
  BY <1>1 DEF Engine
<1>3. CASE Stops!Stops(e) /\ stopMode \in Stops!AllowedFrom(st)
  <2>1. seen' = [f \in Engines |-> seen[f] \cup {st}]
    BY <1>3 DEF Stops!Stop, Stops!Transition
  <2> QED
    BY <1>2, <2>1, ModeFacts
<1>4. CASE ~(Stops!Stops(e) /\ stopMode \in Stops!AllowedFrom(st))
  <2>1. seen' = seen
    BY <1>4 DEF Stops!Stop
  <2>2. stopMode \notin Stops!AllowedFrom(st) => stopMode \in Stops!Strong(st)
    BY <1>1, <1>2, ModeFacts
  <2>3. ~Stops!Stops(e) => engine[e].read \in Stops!Strong(st)
    BY <1>2, ModeFacts DEF Stops!Stops, Stops!Strong
  <2> QED
    BY <1>1, <1>4, <2>1, <2>2, <2>3
<1> QED
  BY <1>3, <1>4

(* A check that ends has seen the run stopped as strongly as it asks.      *)
LEMMA StopKeeps ==
  ASSUME StopsInv, NEW e \in Engines, Stops!Stop(e)
  PROVE  StopsInv'
<1> DEFINE st == engine[e].stop
<1>1. /\ engine[e].pc = "stop" /\ engine' = [engine EXCEPT ![e] = Stops!Idle]
      /\ unheeded' = (unheeded \/ seen'[e] \cap Stops!Strong(st) = {})
      /\ UNCHANGED <<outcomes, last, missed, controls, checks>>
  BY DEF Stops!Stop, Stops!At
<1>2. StopsTyped /\ engine[e] \in Engine /\ seen'[e] \cap Stops!Strong(st) # {}
  BY StopHeeds DEF StopsInv, StopsTyped
<1>3. st \in {"drain", "halted"}
  BY <1>2 DEF Engine
<1>4. Stops!Idle \in Engine /\ Stops!Idle.pc = "idle" /\ Stops!Idle.code = "pass"
  BY ModeFacts DEF Stops!Idle, Engine
<1>5. /\ engine' \in [Engines -> Engine] /\ engine'[e] = Stops!Idle
      /\ \A f \in Engines : f # e => engine'[f] = engine[f]
  BY <1>1, <1>2, <1>4 DEF StopsTyped
<1>6. unheeded' = FALSE
  BY <1>1, <1>2 DEF StopsTyped
<1>7. \/ /\ stopMode' = st /\ seen' = [f \in Engines |-> seen[f] \cup {st}]
         /\ after' = after \cup {st}
      \/ UNCHANGED <<stopMode, seen, after>>
  BY DEF Stops!Stop, Stops!Transition
<1>8. /\ stopMode' \in Stops!Modes /\ after' \subseteq Stops!Modes
      /\ seen' \in [Engines -> SUBSET Stops!Modes]
  <2>1. /\ st \in Stops!Modes /\ stopMode \in Stops!Modes /\ after \subseteq Stops!Modes
        /\ seen \in [Engines -> SUBSET Stops!Modes]
    BY <1>2, <1>3, ModeFacts DEF StopsTyped
  <2> HIDE DEF st
  <2> QED
    BY <1>7, <2>1
<1>9. StopsTyped'
  BY <1>1, <1>2, <1>5, <1>6, <1>8 DEF StopsTyped
<1>10. \A f \in Engines : /\ seen[f] \subseteq seen'[f] /\ (stopMode \in seen[f] => stopMode' \in seen'[f])
                          /\ (seen[f] \subseteq after => seen'[f] \subseteq after')
  BY <1>2, <1>7 DEF StopsTyped
<1>11. \A f \in Engines : CheckHolds(f)'
  BY <1>4, <1>5, <1>10 DEF StopsInv, CheckHolds
<1>12. outcomes' # <<>> => stopMode' \in after'
  BY <1>1, <1>7 DEF StopsInv
<1>13. after \cap Stops!Strong("halted") # {} => after' \cap Stops!Strong("halted") # {}
  BY <1>7
<1>14. AboutToHalt => AboutToHalt' \/ after' \cap Stops!Strong("halted") # {}
  <2>1. CASE last = e
    <3>1. AboutToHalt => st = "halted" /\ seen[e] \subseteq after
      BY <1>1, <2>1 DEF AboutToHalt
    <3> QED
      BY <1>2, <1>10, <3>1
  <2>2. CASE last # e
    <3>1. last \in Engines
      BY <1>2 DEF StopsTyped
    <3> QED
      BY <1>1, <1>5, <1>10, <2>2, <3>1 DEF AboutToHalt
  <2> QED
    BY <2>1, <2>2
<1> QED
  BY <1>1, <1>9, <1>11, <1>12, <1>13, <1>14 DEF StopsInv, StreakHeeded

(* A process that dies in a triggered check may leave a streak unheeded.   *)
LEMMA DieKeeps ==
  ASSUME StopsInv, NEW e \in Engines, Stops!Die(e)
  PROVE  StopsInv'
<1>1. /\ engine' = [engine EXCEPT ![e] = Stops!Idle] /\ missed' = (missed \/ engine[e].code # "pass")
      /\ checks < MaxChecks /\ checks' = checks + 1
      /\ UNCHANGED <<stopMode, outcomes, seen, after, last, unheeded, controls>>
  BY DEF Stops!Die
<1>2. StopsTyped
  BY DEF StopsInv
<1>3. Stops!Idle \in Engine /\ Stops!Idle.pc = "idle" /\ Stops!Idle.code = "pass"
  BY ModeFacts DEF Stops!Idle, Engine
<1>4. /\ engine' \in [Engines -> Engine] /\ engine'[e] = Stops!Idle
      /\ \A f \in Engines : f # e => engine'[f] = engine[f]
  BY <1>1, <1>2, <1>3 DEF StopsTyped
<1>5. checks' \in 0..MaxChecks
  BY <1>1, <1>2, PolicyAssumption DEF StopsTyped
<1>6. missed' \in BOOLEAN /\ (missed => missed')
  BY <1>1, <1>2 DEF StopsTyped
<1>7. StopsTyped'
  BY <1>1, <1>2, <1>4, <1>5, <1>6 DEF StopsTyped
<1>8. \A f \in Engines : CheckHolds(f)'
  BY <1>1, <1>3, <1>4 DEF StopsInv, CheckHolds
<1>9. AboutToHalt => AboutToHalt' \/ missed'
  <2>1. CASE last = e
    BY <1>1, <2>1 DEF AboutToHalt
  <2>2. CASE last # e
    <3>1. last \in Engines
      BY <1>2 DEF StopsTyped
    <3> QED
      BY <1>1, <1>4, <2>2, <3>1 DEF AboutToHalt
  <2> QED
    BY <2>1, <2>2
<1> QED
  BY <1>1, <1>6, <1>7, <1>8, <1>9 DEF StopsInv, StreakHeeded

(* Nothing has been recorded at the beginning.                             *)
LEMMA StopsInit ==
  ASSUME Stops!Init PROVE StopsInv
<1>1. /\ stopMode = "running" /\ outcomes = <<>> /\ engine = [e \in Engines |-> Stops!Idle]
      /\ seen = [e \in Engines |-> {}] /\ after = {} /\ last \in Engines
      /\ unheeded = FALSE /\ missed = FALSE /\ controls = 0 /\ checks = 0
  BY DEF Stops!Init
<1>2. Stops!Idle \in Engine /\ Stops!Idle.pc = "idle" /\ Stops!Idle.code = "pass"
  BY ModeFacts DEF Stops!Idle, Engine
<1>3. outcomes \in Seq(Outcome) /\ Len(outcomes) = 0
  BY <1>1
<1>4. controls \in 0..MaxControls /\ checks \in 0..MaxChecks /\ stopMode \in Stops!Modes
  BY <1>1, PolicyAssumption, ModeFacts
<1>5. StopsTyped
  <2>1. engine \in [Engines -> Engine] /\ seen \in [Engines -> SUBSET Stops!Modes]
    BY <1>1, <1>2
  <2>2. \A i \in 1..Len(outcomes) : outcomes[i].timedOut => outcomes[i].failed
    BY <1>3
  <2> QED
    BY <1>1, <1>3, <1>4, <2>1, <2>2 DEF StopsTyped
<1>6. \A e \in Engines : CheckHolds(e)
  BY <1>1, <1>2 DEF CheckHolds
<1>7. StreakHeeded
  BY <1>1, <1>5, StreakNonempty DEF StreakHeeded
<1> QED
  BY <1>1, <1>5, <1>6, <1>7 DEF StopsInv

(* A step of the other parts changes nothing here.                         *)
LEMMA StopsStutter ==
  ASSUME StopsInv, UNCHANGED svars
  PROVE  StopsInv'
BY DEF svars, StopsInv, StopsTyped, CheckHolds, StreakHeeded, AboutToHalt

(* Every step keeps the invariant of the stop policies.                    *)
LEMMA StopsNext ==
  ASSUME StopsInv, Stops!Next PROVE StopsInv'
<1>1. ASSUME NEW e \in Engines, Stops!CheckPolicy(e) PROVE StopsInv'
  BY <1>1, RecordKeeps, CheckKeeps
     DEF Stops!CheckPolicy, Stops!CheckBudget, Stops!CheckQuote, Stops!CheckNonceGap,
         Stops!CheckRpcAgreement, Stops!CheckReorganization, Stops!CheckEvidenceOperations
<1>2. ASSUME NEW to \in Stops!Modes, Stops!Decide(to) PROVE StopsInv'
  BY <1>2, DecideKeeps
<1>3. CASE \/ \E to \in {"drain", "halted"} : Stops!ManualStop(to)
           \/ Stops!Resume \/ Stops!Revoke
  BY <1>2, <1>3, ModeFacts DEF Stops!ManualStop, Stops!Resume, Stops!Revoke
<1> QED
  BY <1>1, <1>3, RecordEventKeeps, ReadStateKeeps, StopKeeps, DieKeeps DEF Stops!Next

(* In every reachable state of the stop policies, what a check will find   *)
(* is a mode the run has had since its event, and the process that         *)
(* recorded a streak halts the run or has died (stop_policies.py).         *)
THEOREM StopsInvariant == MCSpec => [](part = "stops" => StopsInv)
<1> DEFINE Inv == part = "stops" => StopsInv
<1>1. MCInit => Inv
  BY StopsInit DEF MCInit
<1>2. Inv /\ [MCNext]_<<part, vars, evars, svars>> => Inv'
  <2> SUFFICES ASSUME Inv, [MCNext]_<<part, vars, evars, svars>>, part' = "stops"
               PROVE  StopsInv'
    OBVIOUS
  <2>1. CASE part = "stops" /\ Stops!Next
    BY <2>1, StopsNext
  <2>2. CASE UNCHANGED <<part, vars, evars, svars>>
    BY <2>2, StopsStutter
  <2>3. CASE UNCHANGED <<part, svars>>
    BY <2>3, StopsStutter
  <2> QED
    BY <2>1, <2>2, <2>3 DEF MCNext
<1> QED
  BY <1>1, <1>2, PTL DEF MCSpec

(* No triggered check ends without the run having been stopped as strongly *)
(* as its policy asks, and no streak of failures goes unheeded unless the  *)
(* process that recorded it died: for every number of processes, every     *)
(* threshold and window, and every interleaving with the operator.         *)
THEOREM PoliciesSafe == MCSpec => []PoliciesHold
<1>1. StopsInv => Stops!TypeOK
  <2> SUFFICES ASSUME StopsInv PROVE Stops!TypeOK
    OBVIOUS
  <2>1. StopsTyped
    BY DEF StopsInv
  <2>2. DOMAIN outcomes = 1..Len(outcomes)
    BY <2>1 DEF StopsTyped
  <2>3. \A e \in Engines : /\ engine[e].pc \in {"idle", "event", "state", "stop"}
                           /\ engine[e].read \in Stops!Modes /\ engine[e].stop \in Stops!Modes
    <3>1. engine \in [Engines -> Engine] /\ {"drain", "halted"} \subseteq Stops!Modes
      BY <2>1, ModeFacts DEF StopsTyped
    <3> QED
      BY <3>1 DEF Engine
  <2> QED
    BY <2>1, <2>2, <2>3 DEF Stops!TypeOK, StopsTyped
<1>2. StopsInv => Stops!TriggerHeeded /\ Stops!StreakStops
  BY DEF StopsInv, StopsTyped, StreakHeeded, AboutToHalt, Stops!TriggerHeeded, Stops!StreakStops
<1> QED
  BY <1>1, <1>2, StopsInvariant, PTL DEF PoliciesHold
-----------------------------------------------------------------------------
(* The evidence of a pair (XIREvidence, as MC_XIRControl has it).  The     *)
(* argument: rows are only added, so that rows read before the backup are  *)
(* in it (FreezeHolds); a file is there before its row (StoreHolds); and   *)
(* what a report counts on - effects, rows, a finality observation, the    *)
(* freeze - is never taken back (Counted).                                 *)

(* The files, rows and putters of the raw store. *)
StoreHolds ==
    /\ rawrow \subseteq Evidence!Arms
    /\ \A a \in Evidence!Arms :
          /\ a \in rawrow => file[a] # "none"
          /\ putter[a] = "row" => file[a] # "none"

(* What a freeze in progress has read and written: its rows are in every   *)
(* later read of the rows, and nobody else writes its directory.           *)
FreezeHolds ==
    /\ frz.at = "backup" => frz.raw \subseteq rawrow
    /\ frz.at \in {"row", "manifest"} => frz.raw \subseteq frz.snap
    /\ frz.at # "off" => fdir # <<>> /\ ~fdir[1].manifest
    /\ frz.at \in {"row", "manifest"} => fdir[1].raw = frz.raw /\ fdir[1].snap = frz.snap
    /\ frz.at = "manifest" => frozen = <<[raw |-> frz.raw, snap |-> frz.snap]>>
    /\ frozen # <<>> => frozen[1].raw \subseteq frozen[1].snap
    /\ fdir # <<>> /\ fdir[1].manifest =>
           frozen = <<[raw |-> fdir[1].raw, snap |-> fdir[1].snap]>>

(* The evidence a report has counted the pair on. *)
Counted ==
    /\ effect["b"] # <<>> /\ effect["b"] = effect["x"]
    /\ \A a \in Evidence!Arms : a \in rawrow /\ final[a] # "none"
    /\ frozen # <<>>

(* A report counts the pair only after a freeze and on complete evidence.  *)
ReportsHold ==
    /\ rb.at = "values" => frozen # <<>>
    /\ (\E i \in DOMAIN rebuilds : rebuilds[i].values = "eligible") => Counted

(* Types of the freeze, its directory, the rebuilds and the reports.       *)
Verdicts == {"none", "eligible", "ineligible"}
Frz == [at : {"off", "backup", "row", "manifest"}, raw : SUBSET Evidence!Arms,
        snap : SUBSET Evidence!Arms, seen : {"none"}, first : {"none"}]
Fdir == [raw : SUBSET Evidence!Arms, snap : SUBSET Evidence!Arms, manifest : BOOLEAN]
Rebuild == [at : {"off", "report", "values"}, raw : {{}}, snap : {{}}, seen : Verdicts,
            first : Verdicts]
Report == [export : Verdicts, summary : Verdicts, values : Verdicts]

(* The type invariant of what the properties are about.                    *)
EvidenceTyped ==
    /\ file \in [Evidence!Arms -> {"none", "whole", "damaged"}]
    /\ putter \in [Evidence!Arms -> {"off", "row", "commit"}]
    /\ final \in [Evidence!Arms -> {"none", "finalized", "orphaned"}]
    /\ effect \in [Evidence!Arms -> {<<>>, <<"done">>, <<"undone">>}]
    /\ frz \in Frz /\ (fdir # <<>> => fdir[1] \in Fdir)
    /\ rb \in Rebuild /\ pair \in Verdicts /\ rebuilds \in Seq(Report)

(* The inductive invariant.                                                *)
EvidenceInv == EvidenceTyped /\ StoreHolds /\ FreezeHolds /\ ReportsHold

(* The baseline arm has been collected, and nothing is frozen or reported. *)
LEMMA EvidenceInit ==
  ASSUME Evidence!Init PROVE EvidenceInv
<1>1. /\ rawrow = {"b"} /\ file = [b |-> "whole", x |-> "none"] /\ frozen = <<>> /\ fdir = <<>>
      /\ final = [b |-> "finalized", x |-> "none"] /\ effect = [b |-> <<"done">>, x |-> <<>>]
      /\ putter = [a \in Evidence!Arms |-> "off"] /\ frz = Evidence!Idle /\ rb = Evidence!Idle
      /\ rebuilds = <<>> /\ pair = "none"
  BY DEF Evidence!Init
<1>2. EvidenceTyped
  <2>1. frz \in Frz /\ rb \in Rebuild
    BY <1>1 DEF Frz, Rebuild, Verdicts, Evidence!Idle
  <2> QED
    BY <1>1, <2>1 DEF EvidenceTyped, Evidence!Arms, Verdicts
<1>3. StoreHolds /\ FreezeHolds /\ ReportsHold
  BY <1>1 DEF StoreHolds, FreezeHolds, ReportsHold, Evidence!Arms, Evidence!Idle
<1> QED
  BY <1>2, <1>3 DEF EvidenceInv

(* What a step that leaves the freeze and the reports alone, and takes     *)
(* nothing back that was stored, keeps.                                    *)
LEMMA ObserversKeep ==
  ASSUME EvidenceInv, EvidenceTyped', StoreHolds',
         UNCHANGED <<frz, frozen, fdir, rb, pair, rebuilds>>, rawrow \subseteq rawrow',
         \A a \in Evidence!Arms : /\ effect[a] # <<>> => effect'[a] = effect[a]
                                  /\ final[a] # "none" => final'[a] # "none"
  PROVE  EvidenceInv'
<1>1. FreezeHolds'
  BY DEF EvidenceInv, FreezeHolds
<1>2. Counted => Counted'
  BY DEF Counted, Evidence!Arms
<1>3. ReportsHold'
  BY <1>2 DEF EvidenceInv, ReportsHold
<1> QED
  BY <1>1, <1>3 DEF EvidenceInv

(* Steps that touch neither the store nor an effect nor a finality.        *)
LEMMA RestKeeps ==
  ASSUME EvidenceInv,
         UNCHANGED <<file, rawrow, putter, final, effect, frz, frozen, fdir, rb, pair, rebuilds>>
  PROVE  EvidenceInv'
<1>1. EvidenceTyped' /\ StoreHolds'
  BY DEF EvidenceInv, EvidenceTyped, StoreHolds
<1> QED
  BY <1>1, ObserversKeep

(* put_raw: the file is there before its row, and nothing removes a file.  *)
LEMMA StoreKeeps ==
  ASSUME EvidenceInv, NEW a \in Evidence!Arms,
         \/ Evidence!WriteFile(a) \/ Evidence!RegisterRaw(a) \/ Evidence!CommitReceipt(a)
         \/ Evidence!CollectorDies(a) \/ Evidence!Damage(a)
  PROVE  EvidenceInv'
<1>1. UNCHANGED <<final, effect, frz, frozen, fdir, rb, pair, rebuilds>>
  BY DEF Evidence!WriteFile, Evidence!RegisterRaw, Evidence!CommitReceipt,
         Evidence!CollectorDies, Evidence!Damage, Evidence!Analyst, Evidence!Links
<1>2. EvidenceTyped /\ StoreHolds
  BY DEF EvidenceInv
<1>3. CASE Evidence!WriteFile(a)
  <2>1. /\ UNCHANGED rawrow
        /\ file' = [file EXCEPT ![a] = IF @ = "none" THEN "whole" ELSE @]
        /\ putter' = [putter EXCEPT ![a] = "row"]
    BY <1>3 DEF Evidence!WriteFile
  <2>2. EvidenceTyped'
    BY <1>1, <1>2, <2>1 DEF EvidenceTyped
  <2>3. StoreHolds'
    BY <1>2, <2>1 DEF StoreHolds, EvidenceTyped
  <2> QED
    BY <1>1, <2>1, <2>2, <2>3, ObserversKeep
<1>4. CASE Evidence!RegisterRaw(a)
  <2>1. /\ UNCHANGED file /\ putter[a] = "row" /\ rawrow' = rawrow \cup {a}
        /\ putter' = [putter EXCEPT ![a] = "commit"]
    BY <1>4 DEF Evidence!RegisterRaw
  <2>2. EvidenceTyped'
    BY <1>1, <1>2, <2>1 DEF EvidenceTyped
  <2>3. StoreHolds'
    BY <1>2, <2>1 DEF StoreHolds, EvidenceTyped
  <2> QED
    BY <1>1, <2>1, <2>2, <2>3, ObserversKeep
<1>5. CASE Evidence!CommitReceipt(a) \/ Evidence!CollectorDies(a)
  <2>1. UNCHANGED <<file, rawrow>> /\ putter' = [putter EXCEPT ![a] = "off"]
    BY <1>5 DEF Evidence!CommitReceipt, Evidence!CollectorDies
  <2>2. EvidenceTyped'
    BY <1>1, <1>2, <2>1 DEF EvidenceTyped
  <2>3. StoreHolds'
    BY <1>2, <2>1 DEF StoreHolds, EvidenceTyped
  <2> QED
    BY <1>1, <2>1, <2>2, <2>3, ObserversKeep
<1>6. CASE Evidence!Damage(a)
  <2>1. UNCHANGED <<rawrow, putter>> /\ file' = [file EXCEPT ![a] = "damaged"]
    BY <1>6 DEF Evidence!Damage
  <2>2. EvidenceTyped'
    BY <1>1, <1>2, <2>1 DEF EvidenceTyped
  <2>3. StoreHolds'
    BY <1>2, <2>1 DEF StoreHolds, EvidenceTyped
  <2> QED
    BY <1>1, <2>1, <2>2, <2>3, ObserversKeep
<1> QED
  BY <1>3, <1>4, <1>5, <1>6

(* An effect is recorded once.                                             *)
LEMMA EffectKeeps ==
  ASSUME EvidenceInv, NEW a \in Evidence!Arms, effect[a] = <<>>,
         NEW e \in {"done", "undone"}, effect' = [effect EXCEPT ![a] = <<e>>],
         UNCHANGED <<file, rawrow, putter, final, frz, frozen, fdir, rb, pair, rebuilds>>
  PROVE  EvidenceInv'
<1>1. EvidenceTyped /\ StoreHolds
  BY DEF EvidenceInv
<1>2. EvidenceTyped' /\ StoreHolds'
  BY <1>1 DEF EvidenceTyped, StoreHolds
<1>3. \A b \in Evidence!Arms : effect[b] # <<>> => effect'[b] = effect[b]
  BY <1>1 DEF EvidenceTyped
<1> QED
  BY <1>2, <1>3, ObserversKeep

(* Observers write at any time and take nothing back.                      *)
LEMMA ObserversNext ==
  ASSUME EvidenceInv, Evidence!Observers PROVE EvidenceInv'
<1>1. CASE Evidence!InsertRetry \/ Evidence!DropRetry
  BY <1>1, RestKeeps
     DEF Evidence!InsertRetry, Evidence!DropRetry, Evidence!Links, Evidence!Raw, Evidence!Analyst
<1>2. CASE Evidence!LinkTrace
  <2>1. /\ UNCHANGED <<file, rawrow, putter, final, frz, frozen, fdir, rb, pair, rebuilds>>
        /\ effect' = [effect EXCEPT !["x"] = IF @ = <<>> THEN <<"done">> ELSE @]
    BY <1>2 DEF Evidence!LinkTrace, Evidence!Raw, Evidence!Analyst
  <2>2. CASE effect["x"] = <<>>
    <3>1. "x" \in Evidence!Arms /\ effect' = [effect EXCEPT !["x"] = <<"done">>]
      BY <2>1, <2>2 DEF Evidence!Arms
    <3> QED
      BY <2>1, <2>2, <3>1, EffectKeeps
  <2>3. CASE effect["x"] # <<>>
    <3>1. effect' = effect
      BY <2>1, <2>3 DEF EvidenceInv, EvidenceTyped
    <3> QED
      BY <2>1, <3>1, RestKeeps
  <2> QED
    BY <2>2, <2>3
<1>3. ASSUME NEW a \in Evidence!Arms,
             \/ Evidence!NotSubmitted(a) \/ Evidence!Submit(a) \/ Evidence!Complete(a)
             \/ Evidence!TimeOut(a) \/ Evidence!SetState(a)
             \/ \E state \in {"pending", "resolved"} : Evidence!SetBackfill(a, state)
             \/ \E c \in Evidence!Arms, leg \in {0, 1} : Evidence!LinkCarrier(a, c, leg)
      PROVE  EvidenceInv'
  BY <1>3, RestKeeps
     DEF Evidence!NotSubmitted, Evidence!Submit, Evidence!Complete, Evidence!TimeOut,
         Evidence!SetState, Evidence!SetBackfill, Evidence!LinkCarrier,
         Evidence!Links, Evidence!Raw, Evidence!Analyst
<1>4. ASSUME NEW a \in Evidence!Arms, NEW what \in {"finalized", "orphaned"}, Evidence!Observe(a, what)
      PROVE  EvidenceInv'
  <2>1. /\ UNCHANGED <<file, rawrow, putter, effect, frz, frozen, fdir, rb, pair, rebuilds>>
        /\ final' = [final EXCEPT ![a] = what]
    BY <1>4 DEF Evidence!Observe, Evidence!Links, Evidence!Raw, Evidence!Analyst
  <2>2. EvidenceTyped' /\ StoreHolds'
    BY <2>1 DEF EvidenceInv, EvidenceTyped, StoreHolds
  <2>3. \A b \in Evidence!Arms : final[b] # "none" => final'[b] # "none"
    BY <2>1 DEF EvidenceInv, EvidenceTyped
  <2> QED
    BY <2>1, <2>2, <2>3, ObserversKeep
<1>5. ASSUME NEW a \in Evidence!Arms, NEW e \in {"done", "undone"}, Evidence!RecordEffect(a, e)
      PROVE  EvidenceInv'
  BY <1>5, EffectKeeps DEF Evidence!RecordEffect, Evidence!Raw, Evidence!Analyst
<1> QED
  BY <1>1, <1>2, <1>3, <1>4, <1>5, StoreKeeps DEF Evidence!Observers

(* create_freeze: the rows are read before the backup, and the row and the *)
(* manifest are written after it.                                          *)
LEMMA FreezeKeeps ==
  ASSUME EvidenceInv,
         \/ Evidence!ReadRows \/ Evidence!Backup \/ Evidence!FreezeRow
         \/ Evidence!FreezeManifest \/ Evidence!FreezeDies
  PROVE  EvidenceInv'
<1>1. UNCHANGED <<file, rawrow, putter, final, effect, rb, pair, rebuilds>>
  BY DEF Evidence!ReadRows, Evidence!Backup, Evidence!FreezeRow, Evidence!FreezeManifest,
         Evidence!FreezeDies, Evidence!Raw, Evidence!Links
<1>2. EvidenceTyped /\ StoreHolds /\ FreezeHolds /\ ReportsHold
  BY DEF EvidenceInv
<1>3. SUFFICES /\ frz' \in Frz /\ (fdir' # <<>> => fdir'[1] \in Fdir)
               /\ FreezeHolds' /\ (frozen # <<>> => frozen' # <<>>)
  <2>1. EvidenceTyped'
    BY <1>1, <1>2, <1>3 DEF EvidenceTyped
  <2>2. StoreHolds' /\ ReportsHold'
    BY <1>1, <1>2, <1>3 DEF StoreHolds, ReportsHold, Counted
  <2> QED
    BY <1>3, <2>1, <2>2 DEF EvidenceInv
<1>4. rawrow \subseteq Evidence!Arms /\ frz \in Frz
  BY <1>2 DEF StoreHolds, EvidenceTyped
<1>5. frz.at # "off" => fdir # <<>> /\ fdir[1] \in Fdir /\ ~fdir[1].manifest
  BY <1>2 DEF EvidenceTyped, FreezeHolds
<1>6. Evidence!Idle \in Frz /\ Evidence!Idle.at = "off"
  BY DEF Evidence!Idle, Frz
<1>7. CASE Evidence!ReadRows
  <2>1. /\ frz' = [Evidence!Idle EXCEPT !.at = "backup", !.raw = rawrow] /\ UNCHANGED frozen
        /\ fdir = <<>> /\ fdir' = <<[raw |-> {}, snap |-> {}, manifest |-> FALSE]>>
    BY <1>7 DEF Evidence!ReadRows
  <2>2. frz' \in Frz /\ frz'.at = "backup" /\ frz'.raw = rawrow
    BY <1>4, <1>6, <2>1 DEF Frz
  <2>3. /\ fdir'[1] = [raw |-> {}, snap |-> {}, manifest |-> FALSE] /\ fdir' # <<>>
    BY <2>1
  <2>4. fdir'[1] \in Fdir /\ ~fdir'[1].manifest
    BY <2>3 DEF Fdir
  <2> QED
    BY <1>1, <1>2, <2>1, <2>2, <2>3, <2>4 DEF FreezeHolds
<1>8. CASE Evidence!Backup
  <2>1. /\ frz.at = "backup" /\ frz' = [frz EXCEPT !.at = "row", !.snap = rawrow] /\ UNCHANGED frozen
        /\ fdir' = <<[fdir[1] EXCEPT !.raw = frz.raw, !.snap = rawrow]>>
    BY <1>8 DEF Evidence!Backup
  <2>2. frz.raw \subseteq rawrow /\ frz.raw \subseteq Evidence!Arms
    BY <1>2, <1>4, <2>1 DEF Frz, FreezeHolds
  <2>3. frz' \in Frz /\ frz'.at = "row" /\ frz'.raw = frz.raw /\ frz'.snap = rawrow
    BY <1>4, <2>1 DEF Frz
  <2>4. fdir'[1] = [fdir[1] EXCEPT !.raw = frz.raw, !.snap = rawrow] /\ fdir' # <<>>
    BY <2>1
  <2>5. /\ fdir'[1] \in Fdir /\ ~fdir'[1].manifest
        /\ fdir'[1].raw = frz.raw /\ fdir'[1].snap = rawrow
    BY <1>4, <1>5, <2>1, <2>2, <2>4 DEF Fdir
  <2> QED
    BY <1>2, <2>1, <2>2, <2>3, <2>4, <2>5 DEF FreezeHolds
<1>9. CASE Evidence!FreezeRow
  <2>1. /\ frz.at = "row" /\ frz' = [frz EXCEPT !.at = "manifest"] /\ UNCHANGED fdir
        /\ frozen' = <<[raw |-> frz.raw, snap |-> frz.snap]>>
    BY <1>9 DEF Evidence!FreezeRow
  <2>2. frz' \in Frz /\ frz'.at = "manifest" /\ frz'.raw = frz.raw /\ frz'.snap = frz.snap
    BY <1>4, <2>1 DEF Frz
  <2>3. frozen' # <<>> /\ frozen'[1].raw = frz.raw /\ frozen'[1].snap = frz.snap
    BY <2>1
  <2>4. frz.raw \subseteq frz.snap /\ fdir[1].raw = frz.raw /\ fdir[1].snap = frz.snap
    BY <1>2, <2>1 DEF FreezeHolds
  <2>5. frozen' = <<[raw |-> frz'.raw, snap |-> frz'.snap]>>
    BY <2>1, <2>2
  <2> QED
    BY <1>5, <2>1, <2>2, <2>3, <2>4, <2>5 DEF FreezeHolds
<1>10. CASE Evidence!FreezeManifest
  <2>1. /\ frz.at = "manifest" /\ frz' = Evidence!Idle /\ UNCHANGED frozen
        /\ fdir' = <<[fdir[1] EXCEPT !.manifest = TRUE]>>
    BY <1>10 DEF Evidence!FreezeManifest
  <2>2. fdir'[1] = [fdir[1] EXCEPT !.manifest = TRUE] /\ fdir' # <<>>
    BY <2>1
  <2>3. fdir'[1] \in Fdir /\ fdir'[1].raw = fdir[1].raw /\ fdir'[1].snap = fdir[1].snap
    BY <1>5, <2>1, <2>2 DEF Fdir
  <2>4. /\ frozen = <<[raw |-> frz.raw, snap |-> frz.snap]>>
        /\ fdir[1].raw = frz.raw /\ fdir[1].snap = frz.snap
        /\ (frozen # <<>> => frozen[1].raw \subseteq frozen[1].snap)
    BY <1>2, <2>1 DEF FreezeHolds
  <2> QED
    BY <1>6, <2>1, <2>2, <2>3, <2>4 DEF FreezeHolds
<1>11. CASE Evidence!FreezeDies
  <2>1. frz' = Evidence!Idle /\ UNCHANGED <<frozen, fdir>>
    BY <1>11 DEF Evidence!FreezeDies
  <2> QED
    BY <1>2, <1>6, <2>1 DEF FreezeHolds, EvidenceTyped
<1> QED
  BY <1>7, <1>8, <1>9, <1>10, <1>11

(* The report decides the pair on what is stored when it decides.          *)
LEMMA ReportKeeps ==
  ASSUME EvidenceInv, Evidence!Export \/ Evidence!Decide \/ Evidence!Values
  PROVE  EvidenceInv'
<1>1. UNCHANGED <<file, rawrow, putter, final, effect, frz, frozen, fdir>>
  BY DEF Evidence!Export, Evidence!Decide, Evidence!Values, Evidence!Raw, Evidence!Links
<1>2. EvidenceTyped /\ StoreHolds /\ FreezeHolds /\ ReportsHold
  BY DEF EvidenceInv
<1>3. SUFFICES rb' \in Rebuild /\ pair' \in Verdicts /\ rebuilds' \in Seq(Report) /\ ReportsHold'
  BY <1>1, <1>2, <1>3 DEF EvidenceInv, EvidenceTyped, StoreHolds, FreezeHolds
<1>4. rb \in Rebuild /\ pair \in Verdicts /\ rebuilds \in Seq(Report)
  BY <1>2 DEF EvidenceTyped
<1>5. Counted' <=> Counted
  BY <1>1 DEF Counted
<1>6. Evidence!Idle \in Rebuild /\ Evidence!Idle.at = "off"
  BY DEF Evidence!Idle, Rebuild, Verdicts
<1>7. Evidence!Decision \in Verdicts
  BY DEF Evidence!Decision, Verdicts
<1>8. CASE Evidence!Export
  <2>1. rb' = [Evidence!Idle EXCEPT !.at = "report", !.seen = pair] /\ UNCHANGED <<pair, rebuilds>>
    BY <1>8 DEF Evidence!Export
  <2>2. rb' \in Rebuild /\ rb'.at = "report"
    BY <1>4, <1>6, <2>1 DEF Rebuild
  <2> QED
    BY <1>2, <1>4, <1>5, <2>1, <2>2 DEF ReportsHold
<1>9. CASE Evidence!Decide
  <2>1. CASE frozen = <<>> \/ tainted
    BY <1>2, <1>4, <1>5, <1>6, <1>9, <2>1 DEF Evidence!Decide, ReportsHold
  <2>2. CASE ~(frozen = <<>> \/ tainted)
    <3>1. /\ pair' = Evidence!Decision /\ UNCHANGED rebuilds
          /\ rb' = [rb EXCEPT !.at = "values", !.first = Evidence!Decision]
      BY <1>9, <2>2 DEF Evidence!Decide
    <3>2. rb' \in Rebuild
      BY <1>4, <1>7, <3>1 DEF Rebuild
    <3> QED
      BY <1>1, <1>2, <1>4, <1>5, <1>7, <2>2, <3>1, <3>2 DEF ReportsHold
  <2> QED
    BY <2>1, <2>2
<1>10. CASE Evidence!Values
  <2> DEFINE new == [export |-> rb.seen, summary |-> rb.first, values |-> Evidence!Decision]
  <2>1. /\ rb.at = "values" /\ rb' = Evidence!Idle /\ rebuilds' = Append(rebuilds, new)
        /\ pair' = Evidence!Decision
    BY <1>10 DEF Evidence!Values
  <2>2. Evidence!Decision = "eligible" => Counted
    BY <1>2, <2>1 DEF Evidence!Decision, Evidence!EvidenceMissing, Counted, ReportsHold, Evidence!Arms
  <2>3. new \in Report /\ (new.values = "eligible" => Counted)
    BY <1>4, <1>7, <2>2 DEF Report, Rebuild
  <2> HIDE DEF new
  <2>4. /\ rebuilds' \in Seq(Report)
        /\ \A i \in DOMAIN rebuilds' : (i \in DOMAIN rebuilds /\ rebuilds'[i] = rebuilds[i])
                                       \/ rebuilds'[i] = new
    BY <1>4, <2>1, <2>3
  <2> QED
    BY <1>2, <1>5, <1>6, <1>7, <2>1, <2>3, <2>4 DEF ReportsHold
<1> QED
  BY <1>8, <1>9, <1>10

(* The analyst reconciles, validates, freezes, rebuilds and recommends.    *)
LEMMA AnalysesNext ==
  ASSUME EvidenceInv, Evidence!Analyses PROVE EvidenceInv'
<1>1. CASE \/ \E s \in Scopes : Evidence!DeclareScope(s)
           \/ \E retries \in {0, 1}, record \in BOOLEAN : Evidence!Reconcile(retries, record)
           \/ Evidence!ReadLedger \/ Evidence!ScanFiles \/ Evidence!Recommend
  BY <1>1, RestKeeps
     DEF Evidence!DeclareScope, Evidence!Reconcile, Evidence!ReadLedger, Evidence!ScanFiles,
         Evidence!Recommend, Evidence!Raw, Evidence!Links, Evidence!Analyst
<1> QED
  BY <1>1, FreezeKeeps, ReportKeeps DEF Evidence!Analyses

(* A step of the other parts changes nothing here.                         *)
LEMMA EvidenceStutter ==
  ASSUME EvidenceInv, UNCHANGED evars PROVE EvidenceInv'
BY RestKeeps DEF evars

(* In every reachable state of the evidence store, a freeze in progress    *)
(* owns its directory and has read rows that stay, and what a report has   *)
(* counted the pair on is stored for good.                                 *)
THEOREM EvidenceInvariant == MCSpec => [](part = "evidence" => EvidenceInv)
<1> DEFINE Inv == part = "evidence" => EvidenceInv
<1>1. MCInit => Inv
  BY EvidenceInit DEF MCInit
<1>2. Inv /\ [MCNext]_<<part, vars, evars, svars>> => Inv'
  <2> SUFFICES ASSUME Inv, [MCNext]_<<part, vars, evars, svars>>, part' = "evidence"
               PROVE  EvidenceInv'
    OBVIOUS
  <2>1. CASE part = "evidence" /\ Evidence!Next
    BY <2>1, ObserversNext, AnalysesNext DEF Evidence!Next
  <2>2. CASE UNCHANGED <<part, vars, evars, svars>>
    BY <2>2, EvidenceStutter
  <2>3. CASE UNCHANGED <<part, evars>>
    BY <2>3, EvidenceStutter
  <2> QED
    BY <2>1, <2>2, <2>3 DEF MCNext
<1> QED
  BY <1>1, <1>2, PTL DEF MCSpec

(* A registered blob has a file; what a freeze lists is in the database it *)
(* was taken with and in the row that names it; and a report counts the    *)
(* pair on complete evidence only (store.py, overhead.py), through deaths, *)
(* damaged files, reorganisations and observers that write in between.     *)
THEOREM EvidenceSafe == MCSpec => []EvidenceHolds
<1>1. EvidenceInv => Evidence!FreezeIsClosed
  BY DEF EvidenceInv, StoreHolds, FreezeHolds, Evidence!FreezeIsClosed
<1>2. EvidenceInv => Evidence!CountedIsComplete
  BY DEF EvidenceInv, ReportsHold, Counted, Evidence!CountedIsComplete
<1>3. (part = "evidence" => EvidenceInv) => EvidenceHolds
  BY <1>1, <1>2 DEF EvidenceHolds
<1> QED
  BY <1>3, EvidenceInvariant, PTL
=============================================================================
