----------------------------- MODULE XIRCollector -----------------------------
(***************************************************************************)
(* The read-only collectors of the testnet lab: receipts (collect/evm.py), *)
(* finality of transactions (collect/finality.py) and the bounded backfill *)
(* of events (collect/backfill.py), on a chain that reorganises.           *)
(*                                                                         *)
(* A worker runs one method at a time.  A method is split at every read of *)
(* the provider, every read of the store and every transaction of the      *)
(* store; the process may stop in between, and other workers and the chain *)
(* act in between.  A method that raises returns its worker to idle.       *)
(*                                                                         *)
(* The chain is external: a sequence of blocks with identities of their    *)
(* own, of which only the last Depth below the highest ever seen may be    *)
(* replaced.  This is what an approved finality policy stands for.         *)
(***************************************************************************)
EXTENDS Integers, Sequences, FiniteSets

CONSTANTS
    Txns,           \* transactions of the run
    Workers,
    Kinds,          \* finality policies: "confirmations", "finalized"
    Confirmations,  \* confirmation_count
    Depth,          \* external: the chain replaces fewer than this many blocks + 1
    Overlap,        \* overlap_blocks of the backfill
    MaxPages,       \* max_pages of one scan
    PageSize,       \* blocks of one page of the provider
    MaxBlocks,      \* bound: blocks ever produced
    MaxVersions,    \* bound: versions of the checkpoint
    MaxCrashes,     \* bound
    Assignments     \* which collector each worker runs: "finality" or "backfill"

None == "none"
Genesis == 0

ASSUME CollectorConstants ==
    /\ Kinds \subseteq {"confirmations", "finalized"}
    /\ Confirmations \in Nat /\ Depth \in Nat /\ Depth < Confirmations
    /\ Overlap \in Nat \ {0} /\ MaxPages \in Nat \ {0} /\ PageSize \in Nat \ {0}
    /\ MaxBlocks \in Nat /\ MaxVersions \in Nat /\ MaxCrashes \in Nat
    /\ None \notin Txns
    /\ Assignments \subseteq [Workers -> {"finality", "backfill"}]

VARIABLES
    policy,       \* finality_policies of the run's chain
    chain,        \* external: the canonical blocks, each with an identity and its transactions
    peak,         \* external: the greatest height seen
    produced,     \* external: how many blocks were ever produced
    receipt,      \* transaction_receipts: one row for each transaction
    latest,       \* transaction_finality_observations: the one not superseded
    txn,          \* transactions.state
    stage,        \* stages.state
    frozen,       \* audit_for_freeze has returned
    checkpoints,  \* collector_checkpoints of one collector key, by version
    events,       \* collector_chain_events: block and transaction
    role,         \* the collector of each worker
    worker,
    crashes

external == <<chain, peak, produced>>
finality == <<policy, receipt, latest, txn, stage, frozen>>
backfill == <<checkpoints, events>>
vars == <<policy, chain, peak, produced, receipt, latest, txn, stage, frozen,
          checkpoints, events, role, worker, crashes>>

NoBlock == [number |-> 0, id |-> 0]
NoObservation == [n |-> 0, state |-> None, block |-> NoBlock]
Idle == [pc |-> "idle", op |-> None, t |-> None, block |-> NoBlock, n |-> 0, todo |-> {}]

Init ==
    /\ policy = None
    /\ chain = <<>> /\ peak = 0 /\ produced = 0
    /\ receipt = [t \in Txns |-> NoBlock]
    /\ latest = [t \in Txns |-> NoObservation]
    /\ txn = [t \in Txns |-> "submitted"]
    /\ stage = [t \in Txns |-> "in_flight"]
    /\ frozen = FALSE
    /\ checkpoints = <<>> /\ events = {}
    /\ role \in Assignments
    /\ worker = [w \in Workers |-> Idle]
    /\ crashes = 0

-----------------------------------------------------------------------------
(* The chain.                                                              *)

Mined == UNION {chain[h].txns : h \in DOMAIN chain}
Height == Len(chain)
Final == IF peak > Depth THEN peak - Depth ELSE 0

Mine(S) ==
    /\ produced < MaxBlocks
    /\ S \cap Mined = {}
    /\ produced' = produced + 1
    /\ chain' = Append(chain, [id |-> produced + 1, txns |-> S])
    /\ peak' = IF Height + 1 > peak THEN Height + 1 ELSE peak
    /\ UNCHANGED <<finality, backfill, worker, crashes>>

Reorganise(h) ==
    /\ Final <= h /\ h < Height
    /\ chain' = SubSeq(chain, 1, h)
    /\ UNCHANGED <<peak, produced, finality, backfill, worker, crashes>>

(* canonical_block_hash of a number is the identity of that block, or nothing. *)
Canonical(b) == b.number \in DOMAIN chain /\ chain[b.number].id = b.id
Unavailable(b) == b.number \notin DOMAIN chain
BlockOf(t) == LET h == CHOOSE i \in DOMAIN chain : t \in chain[i].txns
              IN [number |-> h, id |-> chain[h].id]

-----------------------------------------------------------------------------
(* Steps of a worker.                                                      *)

At(w, pc) == worker[w].pc = pc
Go(w, r) == worker' = [worker EXCEPT ![w] = r]
Step(w, pc) == Go(w, [worker[w] EXCEPT !.pc = pc])
Done(w) == Go(w, Idle)

(* Policies are registered once and immutable. *)
RegisterPolicies(kind) ==
    /\ policy = None
    /\ policy' = kind
    /\ UNCHANGED <<external, receipt, latest, txn, stage, frozen, backfill, worker, crashes>>

(* collect_transaction: the receipt and its block are read, then recorded. *)
ReadReceipt(w, t) ==
    /\ At(w, "idle") /\ receipt[t] = NoBlock
    /\ t \in Mined
    /\ Go(w, [Idle EXCEPT !.pc = "collect", !.t = t, !.block = BlockOf(t)])
    /\ UNCHANGED <<external, finality, backfill, crashes>>

RecordReceipt(w) ==
    /\ At(w, "collect")
    /\ LET t == worker[w].t IN
       \/ /\ receipt[t] = NoBlock
          /\ receipt' = [receipt EXCEPT ![t] = worker[w].block]
          /\ txn' = [txn EXCEPT ![t] = IF @ \in {"included", "finalized"} THEN @ ELSE "included"]
       \/ receipt[t] # NoBlock /\ UNCHANGED <<receipt, txn>>
    /\ Done(w)
    /\ UNCHANGED <<external, policy, latest, stage, frozen, backfill, crashes>>

(* observe_included: the stored receipt against the chain, then the latest observation. *)
CheckReceipt(w, t, op) ==
    /\ At(w, "idle") /\ policy # None
    /\ receipt[t] # NoBlock /\ Canonical(receipt[t])
    /\ Go(w, [Idle EXCEPT !.pc = "latest", !.op = op, !.t = t, !.block = receipt[t]])
    /\ UNCHANGED <<external, finality, backfill, crashes>>

ReadLatest(w) ==
    /\ At(w, "latest")
    /\ LET o == latest[worker[w].t]
           known == o.state \in {"included", "finalized"} /\ o.block = worker[w].block IN
       \/ ~known /\ Go(w, [worker[w] EXCEPT !.pc = "included", !.n = o.n])
       \/ /\ known /\ o.state = "included" /\ worker[w].op = "finalize"
          /\ Go(w, [worker[w] EXCEPT !.pc = "head", !.n = o.n])
       \/ known /\ (o.state = "finalized" \/ worker[w].op = "observe") /\ Done(w)
    /\ UNCHANGED <<external, finality, backfill, crashes>>

(* An observation supersedes the one that was read; a second successor is refused. *)
AppendObservation(w, state, next) ==
    LET t == worker[w].t IN
    \/ /\ latest[t].n = worker[w].n
       /\ latest' = [latest EXCEPT ![t] = [n |-> worker[w].n + 1, state |-> state,
                                           block |-> worker[w].block]]
       /\ Go(w, [worker[w] EXCEPT !.pc = next, !.n = worker[w].n + 1])
    \/ latest[t].n # worker[w].n /\ Done(w) /\ UNCHANGED latest

AppendIncluded(w) ==
    /\ At(w, "included")
    /\ AppendObservation(w, "included", "set_included")
    /\ UNCHANGED <<external, policy, receipt, txn, stage, frozen, backfill, crashes>>

SetTransactionState(t, state, stageState) ==
    /\ txn' = [txn EXCEPT ![t] = state]
    /\ stage' = [stage EXCEPT ![t] = stageState]

SetIncluded(w) ==
    /\ At(w, "set_included")
    /\ SetTransactionState(worker[w].t, "included", stage[worker[w].t])
    /\ \/ worker[w].op = "finalize" /\ Step(w, "head")
       \/ worker[w].op = "observe" /\ Done(w)
    /\ UNCHANGED <<external, policy, receipt, latest, frozen, backfill, crashes>>

(* finalize: the head of the policy, the canonical block again, the observation. *)
Reached_OffByOne(number) ==
    \/ policy = "confirmations" /\ Height - number + 2 >= Confirmations
    \/ policy = "finalized" /\ Final >= number

Reached(number) ==
    \/ policy = "confirmations" /\ Height - number + 1 >= Confirmations
    \/ policy = "finalized" /\ Final >= number

ReadHead(w) ==
    /\ At(w, "head")
    /\ \/ Reached(worker[w].block.number) /\ Step(w, "confirm")
       \/ ~Reached(worker[w].block.number) /\ Done(w)
    /\ UNCHANGED <<external, finality, backfill, crashes>>

ConfirmCanonical(w) ==
    /\ At(w, "confirm")
    /\ \/ Canonical(worker[w].block) /\ Step(w, "finalized")
       \/ ~Canonical(worker[w].block) /\ Done(w)
    /\ UNCHANGED <<external, finality, backfill, crashes>>

AppendFinalized(w) ==
    /\ At(w, "finalized")
    /\ AppendObservation(w, "finalized", "set_finalized")
    /\ UNCHANGED <<external, policy, receipt, txn, stage, frozen, backfill, crashes>>

SetFinalized(w) ==
    /\ At(w, "set_finalized")
    /\ SetTransactionState(worker[w].t, "finalized", "completed")
    /\ Done(w)
    /\ UNCHANGED <<external, policy, receipt, latest, frozen, backfill, crashes>>

(* recheck_canonicality of all transactions, by itself or for the freeze audit. *)
StartRecheck(w, op) ==
    /\ At(w, "idle") /\ policy # None
    /\ Go(w, [Idle EXCEPT !.pc = "next", !.op = op, !.todo = Txns])
    /\ UNCHANGED <<external, finality, backfill, crashes>>

RecheckNext(w, t) ==
    /\ At(w, "next") /\ t \in worker[w].todo
    /\ LET r == [worker[w] EXCEPT !.todo = @ \ {t}] IN
       \/ latest[t].state \in {None, "orphaned"} /\ Go(w, r)
       \/ /\ latest[t].state \in {"included", "finalized"}
          /\ Go(w, [r EXCEPT !.pc = "recheck", !.t = t, !.n = latest[t].n, !.block = latest[t].block])
    /\ UNCHANGED <<external, finality, backfill, crashes>>

RecheckCanonical(w) ==
    /\ At(w, "recheck")
    /\ LET b == worker[w].block IN
       \/ Unavailable(b) /\ Done(w)
       \/ Canonical(b) /\ Step(w, "next")
       \/ ~Unavailable(b) /\ ~Canonical(b) /\ Step(w, "orphaned")
    /\ UNCHANGED <<external, finality, backfill, crashes>>

AppendOrphaned(w) ==
    /\ At(w, "orphaned")
    /\ AppendObservation(w, "orphaned", "set_orphaned")
    /\ UNCHANGED <<external, policy, receipt, txn, stage, frozen, backfill, crashes>>

(* The audit that found an orphan goes on and fails at its end. *)
SetOrphaned(w) ==
    /\ At(w, "set_orphaned")
    /\ SetTransactionState(worker[w].t, "orphaned", "collecting")
    /\ Go(w, [worker[w] EXCEPT !.pc = "next", !.op = "recheck"])
    /\ UNCHANGED <<external, policy, receipt, latest, frozen, backfill, crashes>>

EndRecheck(w) ==
    /\ At(w, "next") /\ worker[w].todo = {}
    /\ \/ worker[w].op = "audit" /\ (\A t \in Txns : txn[t] = "finalized") /\ Step(w, "audit")
       \/ worker[w].op = "recheck" /\ Done(w)
       \/ worker[w].op = "audit" /\ (\E t \in Txns : txn[t] # "finalized") /\ Done(w)
    /\ UNCHANGED <<external, finality, backfill, crashes>>

AuditForFreeze(w) ==
    /\ At(w, "audit")
    /\ frozen' = (frozen \/ \A t \in Txns : latest[t].state = "finalized")
    /\ Done(w)
    /\ UNCHANGED <<external, policy, receipt, latest, txn, stage, backfill, crashes>>

-----------------------------------------------------------------------------
(* Bounded backfill: worker.n is the checkpoint's version, block.number the *)
(* height of the last page, block.id the number of pages, todo the target. *)

CreateCheckpoint(height) ==
    /\ Len(checkpoints) < MaxVersions
    /\ checkpoints' = Append(checkpoints, [height |-> height, state |-> "ready"])

(* The operator's checkpoint: the first, or a new version after a backlog. *)
NewCheckpoint ==
    /\ \/ checkpoints = <<>> /\ CreateCheckpoint(Genesis)
       \/ /\ checkpoints # <<>> /\ checkpoints[Len(checkpoints)].state = "backlogged"
          /\ CreateCheckpoint(checkpoints[Len(checkpoints)].height)
    /\ UNCHANGED <<external, finality, events, worker, crashes>>

FromBlock(height) == IF height - Overlap + 1 > Genesis THEN height - Overlap + 1 ELSE Genesis + 1

(* scan: only the latest version, only if ready, up to a final block. *)
StartScan(w, target) ==
    /\ At(w, "idle") /\ checkpoints # <<>>
    /\ LET v == Len(checkpoints) IN
       /\ checkpoints[v].state = "ready"
       /\ checkpoints[v].height <= target /\ target <= Final
       /\ Go(w, [Idle EXCEPT !.pc = "page", !.n = v, !.todo = {target},
                             !.block = [number |-> FromBlock(checkpoints[v].height) - 1, id |-> 0]])
    /\ UNCHANGED <<external, finality, backfill, crashes>>

Target(w) == CHOOSE x \in worker[w].todo : TRUE
EventsIn(from, to) == UNION {{<<chain[h].id, t>> : t \in chain[h].txns} : h \in DOMAIN chain \cap from..to}

(* Queries by known hash find a transaction wherever it is mined. *)
ScanKnown(w, t, complete) ==
    /\ At(w, "page") /\ worker[w].block.id = 0
    /\ t \in Mined
    /\ events' = events \cup {<<BlockOf(t).id, t>>}
    /\ Step(w, IF complete THEN "page" ELSE "backlog")
    /\ UNCHANGED <<external, finality, checkpoints, crashes>>

(* One page of the filter; the pages are limited. *)
RecordPage_NoLimit(w, complete) ==
    /\ At(w, "page")
    /\ LET from == worker[w].block.number + 1
           to == IF from + PageSize - 1 < Target(w) THEN from + PageSize - 1 ELSE Target(w)
           pages == worker[w].block.id + 1
           next == IF ~complete THEN "backlog"
                   ELSE IF to >= Target(w) THEN "advance"
                   ELSE IF pages = MaxPages THEN "advance" ELSE "page" IN
       /\ events' = events \cup EventsIn(from, IF complete THEN to ELSE from - 1)
       /\ Go(w, [worker[w] EXCEPT !.pc = next, !.block = [number |-> to, id |-> pages]])
    /\ UNCHANGED <<external, finality, checkpoints, crashes>>

RecordPage(w, complete) ==
    /\ At(w, "page")
    /\ LET from == worker[w].block.number + 1
           to == IF from + PageSize - 1 < Target(w) THEN from + PageSize - 1 ELSE Target(w)
           pages == worker[w].block.id + 1
           next == IF ~complete THEN "backlog"
                   ELSE IF to >= Target(w) THEN "advance"
                   ELSE IF pages = MaxPages THEN "backlog" ELSE "page" IN
       /\ events' = events \cup EventsIn(from, IF complete THEN to ELSE from - 1)
       /\ Go(w, [worker[w] EXCEPT !.pc = next, !.block = [number |-> to, id |-> pages]])
    /\ UNCHANGED <<external, finality, checkpoints, crashes>>

Backlog(w) ==
    /\ At(w, "backlog")
    /\ checkpoints' = [checkpoints EXCEPT ![worker[w].n].state = "backlogged"]
    /\ Done(w)
    /\ UNCHANGED <<external, finality, events, crashes>>

AdvanceCheckpoint(w) ==
    /\ At(w, "advance")
    /\ CreateCheckpoint(Target(w))
    /\ Done(w)
    /\ UNCHANGED <<external, finality, events, crashes>>

Crash(w) ==
    /\ crashes < MaxCrashes /\ ~At(w, "idle")
    /\ crashes' = crashes + 1
    /\ Done(w)
    /\ UNCHANGED <<external, finality, backfill>>

-----------------------------------------------------------------------------
Observing(w) ==
    \/ \E t \in Txns : ReadReceipt(w, t)
    \/ \E t \in Txns, op \in {"observe", "finalize"} : CheckReceipt(w, t, op)
    \/ RecordReceipt(w) \/ ReadLatest(w) \/ AppendIncluded(w) \/ SetIncluded(w)
    \/ ReadHead(w) \/ ConfirmCanonical(w) \/ AppendFinalized(w) \/ SetFinalized(w)

Rechecking(w) ==
    \/ \E op \in {"recheck", "audit"} : StartRecheck(w, op)
    \/ \E t \in Txns : RecheckNext(w, t)
    \/ RecheckCanonical(w) \/ AppendOrphaned(w) \/ SetOrphaned(w)
    \/ EndRecheck(w) \/ AuditForFreeze(w)

Scanning(w) ==
    \/ \E target \in Genesis..Final : StartScan(w, target)
    \/ \E complete \in BOOLEAN : RecordPage(w, complete) \/ \E t \in Txns : ScanKnown(w, t, complete)
    \/ Backlog(w) \/ AdvanceCheckpoint(w)

Environment ==
    \/ \E S \in SUBSET Txns : Mine(S)
    \/ \E h \in Genesis..Height : Reorganise(h)
    \/ \E w \in Workers : Crash(w)

Collecting(w) ==
    \/ role[w] = "finality" /\ (Observing(w) \/ Rechecking(w) \/ \E kind \in Kinds : RegisterPolicies(kind))
    \/ role[w] = "backfill" /\ (NewCheckpoint \/ Scanning(w))

Next == (Environment \/ \E w \in Workers : Collecting(w)) /\ UNCHANGED role

Spec == Init /\ [][Next]_vars

-----------------------------------------------------------------------------
(* All rows, and the state of every method, keep their types. *)
TypeOK ==
    /\ policy \in Kinds \cup {None}
    /\ peak \in 0..MaxBlocks /\ produced \in 0..MaxBlocks /\ Len(chain) <= peak
    /\ \A t \in Txns :
          /\ latest[t].n \in Nat
          /\ latest[t].state \in {None, "included", "finalized", "orphaned"}
          /\ txn[t] \in {"submitted", "included", "finalized", "orphaned"}
          /\ stage[t] \in {"in_flight", "completed", "collecting"}
    /\ frozen \in BOOLEAN
    /\ \A v \in DOMAIN checkpoints : checkpoints[v].state \in {"ready", "backlogged"}
    /\ crashes \in 0..MaxCrashes

(* A transaction recorded as final is on the canonical chain, and stays    *)
(* there, although finalize reads the chain three times and the chain may  *)
(* reorganise between the reads (finality.py:153-189).                     *)
FinalIsCanonical == \A t \in Txns : latest[t].state = "finalized" => Canonical(latest[t].block)

(* Whatever other collectors write late, a completed stage has a final     *)
(* transaction, and a passed audit is about stages that are completed      *)
(* (audit_for_freeze, _set_transaction_state).                             *)
FreezeIsFinal ==
    /\ frozen => \A t \in Txns : stage[t] = "completed"
    /\ \A t \in Txns : stage[t] = "completed" => latest[t].state = "finalized"

(* Finality is final, for an observation and for a freeze.                 *)
FinalityHolds == FinalIsCanonical /\ FreezeIsFinal

(* A checkpoint's height is a promise: every event up to it was recorded,  *)
(* also when pages were incomplete or too many, scans ran concurrently and *)
(* processes died (scan, _record_page).                                    *)
CheckpointComplete ==
    \A v \in DOMAIN checkpoints : EventsIn(1, checkpoints[v].height) \subseteq events

=============================================================================
