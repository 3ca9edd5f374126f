# Specification and proofs of XIR

XIR carries one application record over several carriers and several chains and
keeps evidence of every hop. This directory holds TLA+ models of the parts of
the repository whose correctness depends on the order of events, the TLC
configurations that check them on small instances, and TLAPS proofs of the main
safety properties for every instance.

1. The system
2. Modules
3. Runs
4. Theorems
5. What is not modelled
6. Findings
7. Plan

## 1. The system

`docs/architecture.md` divides the system into five zones: the Solidity
contracts; the bounded runner, which records an intent before it asks a signer;
the private spool of signed transactions; the read-only collector; and the
SQLite evidence ledger with reconciliation and analysis. Around them stand the
tools of the experiments: deployers, the local testbed, the campaigns and the
studies drawn from their evidence.

| Component | State | Operations | Hard because | Module |
|---|---|---|---|---|
| Gateway, registry (`contracts/src/XIRGateway.sol`, `XIRRegistry.sol`) | record nonces, consumed messages; root and profile snapshots with validity windows | `createRecord`, `verifyRoot`, `verifyTrace`, `deliver`; `setRoot`, `setProfile` | the delivering chain authenticates only the last hop; snapshots change under records in flight | `XIRTransport` |
| Carrier adapters (`HyperlaneAdapter.sol`, `LayerZeroAdapter.sol`, `OutboundControl.sol`) | peer, prior verifiers, enforced options, accepted evidence and bundles, pause and drain | `sendSource*`, `forwardInFlight*`, `handle` / `lzReceive`, administrator setters | messages are lost, repeated, reordered; settings change between dispatch and receipt | `XIRTransport` |
| Receiver, carrier-switch recorder (`native/NativeMultihop*.sol`) | consumed attempts and messages, recorded transitions | `xirReceive`, `record` | an attempt may be retried under a new record | `XIRTransport` |
| Go ledger (`go-runtime/internal/state`) | rows of actions, attempts, stages, events | `Intend`, `RecordSigned`, `Observe`, `Succeed`, `BeginAttempt`, `FinishAttempt`, nonce queries | must carry every process death | `XIRLedger` |
| Go transactor (`internal/evm`) | in-memory nonce counter; spool and receipt files | `Execute`: reserve, freeze, sign, spool, record, broadcast, await, close | crash or failed call between any two writes | `XIRLedger` |
| Go runner (`internal/runner`) | the attempt being executed | attempt loop, root creation, hops, transition, delivery | half-done attempts, re-quoted fees, one account shared by attempts | `XIRLedger`, `XIRTransport` |
| Reservations, nonce lineages (`execute/leases.py`) | amounts per stage, attempt, chain and batch | reserve, start, bind, settle, release, reorganise | the same amount kept in four places | `XIRBudget` |
| Submission (`execute/submission.py`, `resolution.py`, `signer.py`) | intents, transactions, spool | prepare, sign, broadcast, resolve, replace, recover | an unanswered broadcast; stops and lapses during a call | `XIRSubmission` |
| Scheduler, executor (`execute/scheduler.py`, `executor.py`, `collect/outcomes.py`) | attempts, work leases, windows | claim, heartbeat, transition, complete, judge deadlines | claims rest on snapshots, leases expire under their holders | `XIRExecutor` |
| Collector (`collect`) | observations, checkpoints, events | observe, finalise, re-check, scan, page | reorganisations between the reads of one method | `XIRCollector` |
| Evidence, analysis (`evidence`, `analysis`) | append-only rows and raw files, freeze scope | put, link, reconcile, validate, freeze, rebuild, recommend | observers write while the analyst reads | `XIREvidence` |
| Stop policies (`execute/stop_policies.py`, `controls.py`) | outcomes, control mode | record, evaluate, stop, resume | several engines between record and stop | `XIRStops` |
| Approved operations (`execute/approved_operations.py`, plans) | journal, spool | initialise, send, observe, recover | a journal without a lock | `XIROperations` |
| Approvals, live commands (`execute/approvals.py`, `live_commands.py`) | consumptions, revocations | verify, consume, revoke; load, correlate, confirm | verified before it is consumed; files read one by one, some twice, while they are edited | `XIRApprovals` |
| Native runners (`native/runner.py`, `multihop_runner.py`, `root_signer.py`, `layerzero_worker.py`) | tables of stages and actions, in-memory nonces | run, resume, sign, carry packets | as the Go runner, with threads and a second process | `XIRNative` |
| Volume bootstrap (`localnet/multihop_volume_bootstrap.py`) | journal, docker volumes | stage, attest, commit, roll back, recover | a docker call that failed may have had its effect | `XIRVolumes` |
| Writer lease (`native/multihop_execution.py`) | lease directory, owner document, locators | acquire, heartbeat, stop, recover, audit, release | four processes that die independently of one another | `XIRWriterLease` |
| Multi-hop campaign, observer, publication (`native/multihop_*.py`, `scripts`) | phase artefacts, handoffs | run phases, resume, freeze, rebuild, publish | evidence of an interrupted execution | `XIRCampaign` |
| Native deployers (`native/deployer.py`, `multihop_deployer.py`) | manifest, journal, nonces | deploy, configure | started over half-way | `XIRDeployers` |
| Fault campaign (`native/faults_v1.py`) | cases, children, publication | inject, die, recover, judge, freeze | two recoveries at once | `XIRFaults` |
| Mechanism ablation (`native/ablation_v1.py`, `ablation_freeze_v2.py`, `NativeAblationV1.sol`) | plan, rows of stages, chains, publication | deploy, run, retry, analyse, publish, rebuild, freeze | four treatments share one runner, and a retry changes what a row describes | `XIRAblation` |
| Gateway placement (`native/gateway_deployment.py`) | bitset closure, rounds, publication | close, place, expand, replay, verify | a closure updated in place | `XIRGateways` |

Components interact through calls (runner to adapter and gateway), carrier
messages (adapter to adapter), contract storage read by other contracts
(gateway to registry and adapter), one SQLite store shared by processes (the
Python execution, collector and evidence), and durable files (transactor to
ledger and spool, script to lease and handoff, read back by the next process).

What makes each part correct: a gateway delivers only what travelled, once; an
attempt takes effect once; a recorder notes only real switches; a drain never
strands work in flight; nothing is broadcast that is not durable; no nonce is
spent twice; a ledger never claims an outcome the chain does not have; every
attempt settles; reservations and spending stay within the approved limits, agree
in every table, and are held while a transaction may still be mined; a stop lets
at most the calls under way finish; admission stays within the profile's limits;
what is recorded as final stays canonical, and a checkpoint has every event below
it; one campaign writes at a time; a freeze is closed, and what is published rests
on what was examined.

## 2. Modules

| Module | Models |
|---|---|
| `XIRTransport` | the contracts: gateways, registries, adapters, carrier networks, receiver, recorder, administrators; and, in its last section, the runner's own order of work |
| `XIRDelivery` | what the contracts promise an application (abstract specification) |
| `XIRLedger` | the Go runner's attempt loop, the transactor, the action ledger, the node |
| `XIRBudget` | the Python reservations, nonce lineages and running totals, under the run's stop state |
| `XIRSubmission`, `XIRExecutor`, `XIRCollector`, `XIREvidence`, `XIRStops`, `XIROperations`, `XIRApprovals` | the rest of the Python laboratory, a module per row of section 1 |
| `XIRNative`, `XIRDeployers`, `XIRFaults`, `XIRAblation`, `XIRGateways` | the native experiments |
| `XIRVolumes`, `XIRWriterLease`, `XIRCampaign` | the testbed of the multi-hop campaign |
| `MC_XIRTransport` | `XIRTransport` in five settings, or `XIROperations` |
| `MC_XIRRecovery` | `XIRLedger`, `XIRVolumes` or `XIRCampaign`, with their fairness |
| `MC_XIRControl` | `XIRBudget`, `XIREvidence` or `XIRStops` |
| `MC_XIRSubmission` | `XIRSubmission` or `XIRApprovals` |
| `MC_XIRStore` | `XIRCollector` or `XIRExecutor` |
| `MC_XIRWriterLease` | `XIRWriterLease`, `XIRVolumes` or `XIRCampaign` |
| `MC_XIRNative` | `XIRNative` |
| `MC_XIRStudies` | `XIRDeployers`, `XIRFaults`, `XIRGateways` or `XIRAblation` |
| `*_proofs` | theorems about the module of the same name; `XIRTransport_proofs` also proves that `XIRTransport` implements `XIRDelivery`, `XIROperations_proofs` is also about `XIRApprovals`, `XIRNonces_proofs` is about `XIRSubmission` and `XIRNative`, `XIRBudget_proofs` proves the stop policies and the evidence of `MC_XIRControl`, `XIRWriterLease_proofs` the volumes and the campaign of `MC_XIRWriterLease` |

The modules that an `MC_` module puts side by side share no state. Its initial
state chooses which of them, `part`, a behaviour is about; the variables of the
others are `Absent`, or stay as they began where an invariant reads them. So one
run is the union of a run of each, and a property is evaluated with one module's
states and the initial or empty ones of the others.

Operators named `X_Something` are deliberately wrong variants of `X`; no
specification uses them. They show that the properties can fail.

### XIRTransport

Chains are numbered along the deployer's line; hop *h* of a route goes from chain
*h* to *h+1*; every hop of every route has its own pair of adapters
(`xir.AdapterKey`). `Init` is the configuration that `deploy/xir_app.go` leaves:
the registry of the chain that completes hop *k* knows the profiles of hops
1..*k*, all bound to its inbound adapter of hop *k*; an outbound adapter approves
the previous inbound adapter as verifier of the earlier profiles.

* A digest is the value it digests. `rid` and `mid` determine one another once
  the record is fixed, so a record stands for both; `transitionHash` leaves the
  registry version out and so does `TransitionHash`; `priorPrefix` is determined
  by the root and the earlier receipts, so an envelope is its root and receipts.
* The certificate of a root is the pair of root and key; a key signs only roots
  that were created (the runner matches the event before it signs).
* The runner names the profile and transition of the adapter it calls. The root
  it sends for and the list of prior tuples are arbitrary: anything the chain's
  adapters accepted, and claims that were never accepted. Whoever calls `deliver`
  or `record` presents an arbitrary root and trace from the same sets.
* A dispatched message stays in the network, which covers loss, delay, reordering
  and repetition. Messages of other contracts arrive too (`ForeignMessages`).
* Hyperlane evidence is a digest of origin, sender and body, so identical bodies
  have identical evidence; a LayerZero guid contains an outbound nonce. The
  single-evidence sends (`HyperlaneAdapter.sendSource(bytes)` and
  `forwardInFlight(bytes)`) carry evidence that the Python runner made up from the
  attempt.
* An owner may store any source, destination and gateway with a root (`setRoot`)
  or a profile; a record that names others never verifies. The model stores those of
  the line of chains and varies what decides about records that do.
* A receiver has code on one chain (`AppHome`); elsewhere the gateway's call
  succeeds without effect, as a low-level call to an address without code does.
* One block time serves all chains. Values of settings that could not influence
  anything (a peer on another carrier, a verifier on another chain) are not
  enumerated.

`InFlightEntry` says through which adapter entry the runner sends the hops after
the first: the Go runner and `multihop_runner.py` use `forwardInFlight*`, which is
what the run `transport` sets; `native/runner.py` uses `sendSource*` (section 6).

### XIRLedger

One process runs the configured attempts in order and the stages of an attempt
in order; a stage is one durable action. A step ends at each durable write and at
each answer of the node, so `Crash` may fall between any two of them; it loses
`proc` and, at the next start, the nonce counters. What is abstracted:

* `price` stands for the fee caps and the paid value that a fresh intent asks the
  node for; the calldata is fixed by the action.
* A transaction is its action, nonce and price; signing is a function of the
  intent, as RFC 6979 signing in `SignDynamicFee` is.
* Stage, event and error rows repeat what the action rows say, except the
  `completed` event, which is kept.
* The carriers' confirmation and finality waits are one step that may fail
  (`"verify"`). The stop file acts between attempts, like a crash there.
* `RpcFailure` may hit each call of the node; a lost answer to a broadcast may or
  may not have reached the node; `Drop` is a node that restarts with an empty
  pool. All are bounded by `MaxFaults`, deaths by `MaxCrashes`.
* The branches of `LoadRefused` for a drifted request and for a missing receipt
  document are not reachable with correct code; they are kept because they decide
  what happens when a mutation makes them reachable.

### XIRBudget

Every method of `LeaseManager` that touches money or nonces and every transition
of `RunControlManager` is one action, as each is one `BEGIN IMMEDIATE`
transaction; a method that raises rolls back and is no step, except the refused
reorganisation, which commits the halt and then raises. The same amount is kept
per stage (`sub`), per attempt and chain (`row`) and as running totals per chain
and per batch (`totals`, `batchTotals`), each updated by differences.

* A lineage is its attempt and stage: a stage binds at most one lineage. One
  signer per chain owns the nonces. The time to live of a nonce lease is left
  out, because no method reads it.
* Append-only event and transition rows repeat the changes and are left out. The
  proof or decision that `release_dead_lineage` is given is taken on trust, as it
  is there.
* `run` and `mode` are the two places the stop state is kept in (`runs.state`,
  `run_controls.mode`).
* Workers and the collector call the methods in any order, as often as the code
  accepts: nothing keeps a pending report from following the receipt
  (`MarkLineagePending`), nor a cancelled reservation from being cancelled again or
  started. `releases` counts the `unstarted_route_released` events of an attempt.
* What stays true with all of that is what the run `control` checks: every amount
  agrees in its copies, except that the reserved total falls below the sum of the
  stages when a cancelled reservation of theirs is used again (`UsedAfterCancel`);
  rows settle with their stages, with the same exception; limits and locks hold
  without exception. What does not is shown by the runs `held` and `spent`.

### XIRSubmission

The transactions of one stage of one attempt, which form one nonce lineage. A
method is split where it leaves the store: each store transaction, each call of
the signer and each call of the broadcaster is a step. A stop, a revocation or the
lapse of an approval, quote or simulation may fall between any two; a worker that
was gated before the stop still makes its call, and `LateSendsBounded` says that it
makes no other. The chain takes any broadcast transaction, mines one of the
lineage or one the ledger does not know, and may undo that until it is final. The
framing of the signer's socket is left out: the signer turns an intent into one
signature or refuses.

### XIRExecutor

A frozen plan of attempts in batches, warm-ups first, then matched pairs.
`claim_next` reads its clock and a snapshot and only then acquires the lease, so
that a claim may rest on a stale view; completing an attempt writes and then
releases; an outcome is judged, appended and applied in three steps. A dead worker
is one that takes no further step; its lease stays until it expires.

### XIRCollector

The chain is a sequence of blocks with identities, of which only the last `Depth`
below the highest ever seen may be replaced, and `Depth < Confirmations`: that is
what an approved finality policy stands for. A collector's method is split at each
read of the provider, each read of the store and each write, so that the chain may
reorganise between the receipt, the block and the head that one method combines.

### XIREvidence, XIRStops, XIROperations, XIRApprovals

`XIREvidence` follows one matched pair from observation to recommendation;
observers write between the transactions in which the analyst reads. `XIRStops`
has several engines that record an outcome, the policy event, read the control
state and stop the run, in separate transactions. `XIROperations` numbers the
transactions of the deployment plan followed by those of the configuration plan;
a second executor in another shell shares the journal, which has no lock.

`XIRApprovals` has the ledger of approvals and the live commands. A caller of
`verify_and_consume` verifies and later writes in a transaction of its own, in which
revocations and sequences are read again and the clock is not: an approval may lapse
in between. `load_live_context` is one step per file it reads, the profile and the
approval twice, and edits fall between any two; each check is made with the read
after which the code makes it. Behind the confirmation there is nothing: every
state-changing dispatcher returns `operation_backend_not_implemented`
(`live_commands.py`, lines 388-393), no live command consumes its approval, and
`verify_and_consume` is called by users of the library and by tests only. `DispatchLive`
therefore ends at the boundary and keeps what arrived there in `reached`.

### XIRNative

Both native runners (`kind`), with a thread per attempt up to `Concurrency`, and
the LayerZero worker, each with a database that survives a crash and counters that
do not. They meet on the chains only: an account is mined in nonce order, the
gateway numbers records in the order it meets them, and a nonce nobody signs
blocks every later one. What a record says is in `XIRTransport`.

### XIRVolumes, XIRWriterLease, XIRCampaign

`XIRVolumes`: an intent is journaled before each docker call and its result after
it; a call may fail with or without its effect. `XIRWriterLease`: the lease is a
directory with an owner document, changed under a file lock that the system drops
when its holder dies; supervisors, runners and scripts die independently and the
host may reboot. `XIRCampaign`: a process lives for one execution of the script at
most, so its identity is the number of that execution; a digest is the version of
what it digests.

### XIRDeployers, XIRFaults, XIRGateways, XIRAblation

`XIRDeployers`: operations are sent one by one; an address is the chain and the
nonce of its creation; a deployer that stops is started over. `XIRFaults`: one case
of the recovery campaign, known by the nonces of its delivery transactions.
`XIRGateways`: the closure is the function the bitset stands for and is updated in
place as the code does; the reference search is a plain fixed point.

`XIRAblation`: an entry of the plan goes through the stages of its treatment, a
pool of threads per batch; a row of `stages` knows which of the transactions of its
stage it describes, and what an adapter answers for depends on the carrier. A
death, an error of the node, a timeout and a report made too early are the
mishaps. The analysis is one step, and so is each file it writes and each
rebuild, which reads the files at one moment. Nonces are the subject of
`XIRNative`: here a transaction is known by its number among those of its stage.

## 3. Runs

| Run | Instance | Shows |
|---|---|---|
| `transport` | 3 chains, route HL, two records, two sends per adapter, three messages; two changes of any setting, two registry versions, keys and levels, three windows, time 0..2; 4 chains, route HLH, with drains; or 2 creations and one setting of approved operations, 2 executors, one fault | `DeliveredTraceAuthentic`, `RecordedTransitionAuthentic`, `DeliveredFromOneMessage`: deliveries and switches are authentic under repeated messages and changing settings; `ImplementsDelivery`: the abstract promise; `DrainedCompletes`: a drain strands no attempt past its first hop; `JournalHolds`: what the journal calls final is true and order is kept; `Settles`: every transaction of an opened batch is final, or waits behind a blocked one of its batch or, on a shared chain, of the batch before |
| `recovery` | 2 attempts x 2 stages, one account, 2 prices, two disturbances of which at most one crash and one failure of any kind, stage 2 may revert; 2 volumes with one fault, one crash, one act of another user; or two phases with two stops | `BroadcastIsDurable`, `NonceSpentOnce`, `OutcomesHold`, `RootNonceAgrees`; `RunSettles`: every attempt settles unless a nonce was lost; `VolumesSettle`: an unfinished transaction is committed or recovered, and no other user's resource is touched; `CampaignPublishes`: a campaign that is resumed publishes |
| `nonce_gap` | 2 attempts x 1 stage, the fee query may fail once | `AttemptsSettle` is **violated**: section 6 |
| `control` | 2 attempts x 2 stages on one chain, worst case 1 each, limit 3, two nonces, two observed balances; the evidence of one matched pair; two policy engines, a streak of 2, a window of 3 with 2 failures, 2 timeouts, three outcomes, one decision of the operator, one other check or death | `WithinLimits`, `LockedUntilSettled`; `AccountsHold`: the copies of every amount agree and rows settle with their stages; `EvidenceHolds`: a freeze is closed and only complete evidence is counted; `PoliciesHold`: no triggered check passes unheeded and no streak is hidden |
| `held` | the accounts of `control` | `ReservationHeld` is **violated**: section 6 |
| `spent` | the accounts of `control` | `ReleasedUnspent` is **violated**: section 6 |
| `workers` | 2 transactions, 2 workers, one replacement, 2 disturbances; or 3 approvals of 2 issuers for 2 profiles that look alike in a confirmation, 2 revocations, 2 callers, 2 edits or lapses | `BroadcastIsRecorded`, `LateSendsBounded`, `NoRegress`: what is out is recorded, a stop bounds what still goes out, no late writer takes a transaction back; `AuthorityHolds`: an approval is consumed once and never after its revocation, the sequence grows; a command during which nothing was edited goes through only with what was approved and shown |
| `torn_profile` | the approvals of `workers` | `ExactlyConfirmed` is **violated**: section 6 |
| `store` | 1 transaction, 2 workers, 2 confirmations, reorganisations of depth 1, pages of one block, 4 blocks, one crash; or 2 workers, three small profiles, lease of 2, deadline of 1, time 0..2 | `FinalityHolds`, `CheckpointComplete`; `AdmissionHolds`: in-flight limit, one arm of a pair, batch barrier; `NoResurrection` |
| `writer_lease` | 2 runtimes, 2 supervisors each, one reboot, one death inside a method; 2 volumes with one failing call, one death, one act of another user; a campaign of two phases with two stops | `LeaseHolds`: one writer, and an audited lease is clean; `ClosedLeaseHolds`: a blocked lease stays blocked until it is audited and starts no batch; `VolumesHold`: what is owned is in the journal, committed is whole, recovered is clean; `CampaignHolds`: retained sequences ran within one execution and what is public rests on examined inputs; `FrozenStays`: evidence is final once it is frozen |
| `native` | 2 attempts on one chain or one that switches carriers, both runners, two threads, one or two disturbances | `SpentOnce`, `DeliveryHolds`; `CompletesOrStalls` |
| `studies` | routes LHL and H with one setback; three child processes; graphs over 9 edges of 4 networks; each of the four treatments with one or two mishaps, two entries in a pool, two batches, bases without bindings, two analyses | `DeploymentIsWired`, `VerdictsAreTrue`, `PlacementHolds`; `FaultsValidate` |

`writer_lease` treats its two runtimes as symmetric, `control` its attempts and
stages, `store` its workers and `workers` its workers, transactions and callers,
which is sound for invariants and action properties and would not be for
liveness; so the liveness of the volumes and of the campaign is checked in
`recovery`, whose constants have no symmetry. There the properties have the form
`[]<>`, which is at least as strong as "eventually" and "leads to" here, since an
unfinished journal is never unwritten and what is published stays so.

The ledger's process always has a next step, and `nonce_gap` checks for deadlock. All
other systems may really stop: nothing is left to send, every worker has returned,
the script has ended.

Why the bounds suffice. Two records of one attempt are the least for a retry and
for evidence borrowed from another record; two sends per adapter let a message be
repeated with another prior list. Two attempts on one account are the least for a
nonce conflict and for a gap, two stages for a half-done attempt, one crash and
one failure for each single point of recovery. Two edits are one before a
read and one back before the next. In `control` the limit fits the
second attempt only after a stage of the first was settled below its worst case,
so that capacity is reused and a reorganisation can be refused. Two workers (or
executors, engines, runtimes) are the least for a stale view, one reorganisation
of depth one under two confirmations is the deepest the policy has to survive.
Two volumes are the least for a complete one beside a failing one, two phases
for a handoff. More of each is left to the proofs, which remove the bounds for
the properties named in section 4. An entry of the ablation meets others only
in its pool, in its batch and in the numbers of the gateway, so one treatment at a
time is given mishaps and the larger plans run without.

Fairness. In `transport` the root signer, the relayers and the delivery are weakly
fair, as each retries until it succeeds; the later hops are strongly fair, because
a runner that found an adapter paused tries again on resumption; starting an
attempt, pausing and draining are not fair; the executors of operations go on, one
of them keeps advancing and reconciling, and the chains mine and finalise. In
`recovery` and `nonce_gap` the process takes its next step, the operator starts it
again when it has ended (the documented way to recover), and the chain mines
executable transactions; the bootstrap goes on, its operator runs recovery; the
script goes on, is resumed, and attempts and workers proceed. `native` assumes the
same of its processes and chains; in `studies` children, chains, the campaign and the freeze do.
Nothing obliges a failure to happen, and every failure is bounded, so that the
properties say what happens once they have stopped.

## 4. Theorems

All hold for every value of the constants that satisfies the named assumptions
(`TransportConstants`, `LedgerConstants`, `BudgetConstants`,
`SubmissionConstants`, `ExecutorConstants`, `CollectorConstants`,
`WriterLeaseConstants`, `NativeConstants`, `VolumesAssumption`, `CampaignAssumption`,
`PolicyAssumption`, `PlansAssumption`, `ApprovalsAssumption`), which TLC evaluates. Each rests on an
inductive invariant: it holds initially, every action preserves it, and it implies
the properties. TLC checked the invariants on the instances above before they were
proved.

*Transport.* `TransportInv` is the type invariant, *every tuple a message carries
was the current tuple of a message of its own hop*, and *so was every tuple an
adapter accepted, and every accepted bundle is one message's commitment*. The
authenticity of deliveries is not inductive alone: that a delivered trace
travelled follows from what adapters accepted, which follows from what other
adapters let through when they forwarded. From it: `DeliveredAuthentic`,
`RecordedAuthentic`, `OneMessage`, `TypeCorrect`.

*Refinement.* `DeliveryInv` adds that gateways have used up the nonces of created
records, that delivered records are consumed, and that an applied attempt has an
effect. Each step then creates a fresh record, applies a created record whose
attempt was not applied, or is invisible: `Implementation` (`Spec =>
ImplementsDelivery`), `MessageOnce`, `AttemptOnce`.

*Ledger.* `LedgerInv` says what a row, spooled bytes, a counter and the process's
memory mean at each program point: bytes in a row or in the spool are the ones the
intent determines; a seeded counter is above every nonce of its account; what the
process holds is what the row holds. From it: `BroadcastDurable`,
`ActionSignedOnce`, `NonceUnique`, `OutcomeOnChain`, `AttemptComplete` and their
conjunction `OutcomesTrue`, and `LedgerTypeCorrect`.

`RootNonceKept` needs a second invariant on top of it. `RootInv` says that among
the root intents the order of reserved record nonces is the order of account
nonces and leaves none out (`RootsInOrder`), that the records the gateway has made
are the first of them (`RootsOnChain`), and what the process has read when it is
about to reserve the next (`RootInHand`). The chain executes an account's
transactions in nonce order, so the gateway numbers the records as they were
reserved. The theorem assumes that root creations do not revert (`1 \notin
MayRevert`): a reverted one keeps its reserved nonce, which the gateway then gives
to another (section 5).

*Budget.* `BudgetInv` adds to the type, limit and lock invariants that a nonce is
bound only to a started reservation, and that only existing rows are started. They
are needed because reserving and cancelling overwrite every stage of an attempt at
once: no nonce may be bound to any of them. From it: `LimitsRespected`,
`LockMatchesLineage`, `BudgetTypeCorrect`, for calls in any order.

`RowsSettleTogether` rests on `SettleInv`, on top of it: the rows of an attempt are
created and started together, although each chain has its own (`RowsTogether`); a
reservation that was not started is whole or cancelled as a whole
(`UnstartedIsWhole`); and a stage of a started one that was never cancelled waits
for its nonce (`UnboundIsReserved`). Nothing is assumed about the callers: the
property itself excepts the reservations that were used after they were cancelled,
of which it is false (a cancelled reservation that is started has a row in flight
whose stages are all released), and the lemmas carry late and repeated reports.

*Submission.* `SubmissionInv` says that what is out, or about to go out, is
recorded and its bytes are kept (`SentIsKept`); that the gate before a broadcast
has loaded the bytes and they stay (`GatedIsSpooled`); that a worker still to make
the call it was gated for has made none since the stop (`OneCallLeft`); and that
a resolution compares the row with a pending state (`ResolvesPending`). From it:
`BroadcastRecorded`, `LateSends`, and the action property `ProgressKept`.

*Native runners.* `NonceInv` says what a thread knows of the row it works on, at
each point of its method (`ThreadsKnow`); what a row's status says of its nonce
(`RowsHold`); that what the node took is named by its row - until it is mined, and
with the multihop runner for ever (`SentIsRecorded`); that what is mined was sent
and lies at the place of its nonce (`MinedWasSent`); and that a nonce in use is
below its account's counter and belongs to one stage (`NoncesBelow`,
`NoncesApart`). A restart forgets the counters: that the pending count and the
signed rows give a safe one is the heart of the proof (`PendingCountFacts`,
`PendingSignedFacts`). `RootInv` is about the multihop runner's roots: the roots
with smaller record nonces have smaller transaction nonces, unless a nonce before
was taken and never signed (`RootsInOrder`), and the records on the chain are
numbered as signed (`RootsOnChain`). A nonce that was never signed blocks the
account, so the chain can mine no root but the next (`NextGiven`). From both:
`NativeSpentOnce`, for any batches over finitely many routes and any number of
threads and disturbances. Only its part about record nonces assumes that roots do
not revert, for the reason given for `RootNonceKept`: `StageMinedOnce` and
`NonceSpentOnce` hold regardless.

`NativeDelivery` proves `DeliveryHolds`, with no assumption on reverts. Its first
half, `AttemptInv`, follows a thread along its plan: every stage behind it has been
reached - its row succeeded, or its adapter answers for its evidence
(`StagesPassed`) -, a row that succeeded has a transaction that did
(`SucceededIsMined`), and a finished attempt is never taken up again
(`FinishedRests`). The LayerZero evidence of a wait is the nonce in the row of the
dispatch of its hop, so the thread must not be able to write that row any more:
`PlanLayout` proves of every route's plan, by the steps of its concatenation
(`FlattenSteps`), that a wait comes after every dispatch of its hop and that
nothing comes after the delivery. The second half, `WorkerInv`, is about the
worker's database: the page it is about to pass, like all it has passed, is in the
table (`PagesCarried`), and an action that succeeded made the adapter answer
(`ExecutedIsVerified`).

*Executor.* The three limits of `claim_next` are not inductive: the snapshot a
claim rests on may be stale. `ExecutorInv` is about the *committed* attempts -
open, and in flight, ever leased, or in the hands of a worker. They are the first
open attempts of one batch, no more than the profile allows, at most one arm of
each pair. An attempt counts as committed from the moment a worker has chosen it,
before its lease exists, so that a claim from a stale snapshot adds nothing. From it:
`AdmissionBounded`, `ExecutorTypeCorrect` and the action property
`EndedStaysEnded`.

*Collector.* `CollectorInv` says of the chain that it is never shorter than its
final part (`ChainHolds`), of a transaction's rows that a final observation lies in that part
(`RowsHold`), of the checkpoints that every event below their height is recorded
(`CheckpointsHold`), and of a worker what it has established at each point of its
method (`WorkersHold`), which must survive what the chain and the others do
meanwhile. It needs `Depth < Confirmations`. From it: `FinalityIsFinal`,
`CheckpointsAreComplete`, `CollectorTypeCorrect`.

*Writer lease.* `LeaseInv`: a runner whose supervisor has not died under it holds
the owner document, in this boot and under the supervisor that is alive
(`RuntimeHolds`); the method that holds the lock knows whose document it is and
that its runner is gone or orphaned (`OpHolds`); and an owner document has its
directory (`RootHolds`). Since the document names one runtime, two runners cannot
write: `LeaseIsExclusive`, and the action property `ClosedLeaseStays`.

*Volumes.* What a committed transaction is verified by later is not what it checks
when it commits. `VolumesInv` follows the staging: the flags in the journal are
exactly those of the resources before the current one, all of them done, confirmed
and filled, of the current one, by the step it is at, and none after it
(`StagedUpTo`, `StageAt`); so the last step proves the whole provenance
(`CommittedIsWhole`). What is left behind is known without the process's memory: an
intent precedes every creation, only a removal that took place is flagged, and
other users of the daemon never carry the transaction's labels
(`OwnedIsJournaled`). Nothing exists before the journal opens or after it is
recovered (`PhaseInv`). The places of the staging order are those of the resources,
one each (`StagingFacts`). From it `VolumesSafe`, for every number of volumes,
failing calls, deaths and acts of others.

*Campaign.* That a retained sequence ran within one execution is judged by the block
of its events and by which executions wrote them, while carriers and the observer
go on across a restart. `CampaignInv` says what a runner's events tell: of the
executions that carried an attempt one writes an event that none precedes and, when
the attempt succeeded, one writes an event that none follows (`AttemptsTrue`), so that
one runner in a block means one execution. Attempts that are complete and observed
by both carriers never change (`SettledFinal`); a file or a handoff vouches for what was there when it
was written (`FilesTrue`), phases are handed off in order (`HandoffsInOrder`), and
the script has checked what its place says (`CheckedSoFar`), across any death, since
it then starts over from the files. What is public was handed off and nothing
resumes afterwards (`PublicHolds`). Each resumption follows a stop or the one pause
for the approval (`RunsBounded`), which bounds the executions that events can name.
From it `CampaignSafe` and the action property `FrozenIsKept`, for all plans and any
number of stops.

*Stop policies.* `StopsInv`: a process past its event has seen the present mode,
and what it read is among the modes it has seen (`CheckHolds`), so that whatever
it meets in its last transaction, the run has been in a mode at least as strong as
its policy asks (`StopHeeds`); and the process that recorded a streak is about to
halt the run and has seen nothing the run was not in since that outcome
(`AboutToHalt`). A streak of the whole run triggers in the recorder that completes
it although the policy looks at the window only: when the threshold is longer than
the window, all of the window failed and the failure rate triggers
(`StreakTriggers`). From it `PoliciesSafe`, for any number of processes, thresholds
and windows.

*Evidence.* Rows of the store are only added and the file of a row is there before
it (`StoreHolds`), so what a freeze read before it backed the database up is in the
backup (`FreezeHolds`), whoever writes meanwhile. What a report counted a pair on -
the effects, the rows, a finality observation, a freeze - is never taken back
(`Counted`, `ReportsHold`). From it `EvidenceSafe`, for all scopes and any number of
faults, passes and late writers.

*Operations.* The journal has no lock, and a copy of it may be written back long
after others went on, so that no statement about the journal alone is inductive.
`OrderInv` speaks of every copy: the one on disk and the one in each executor's
memory call only signed what is in the spool, and only final what succeeded in a
final block at the predicted address (`WorkInv`). That stays true of an old copy
because final blocks stay (`FinalStays`). Whatever is in the spool was earned: the
earlier transactions of its batch succeeded in final blocks before it was signed
(`SpoolInv`); and the block of a transaction sits at the place of its nonce, since
the account has one nonce for each (`ChainPlaced`). From it `JournalSafe`.

`AuthorityInv` is about `XIRApprovals`. The ledger only grows, and a row that is
added follows the others in its issuer's sequence and consumes nothing that is
consumed or revoked, since the write transaction reads them again (`RowAppended`).
Of a command in flight it says that its reads are what the files say now unless
something was edited meanwhile, and that from the approval on they are correlated
(`CommandTrue`); so a command in which nothing was edited has one profile and one
approval, however often it read them (`ReadAsApproved`). From it `AuthoritySafe`. The
theorem cannot and does not say more: with an edit in between the profile that goes
through need not be the approved one, which the run `torn_profile` shows.

`JournalSafe` holds for all plans that `PlansAssumption` admits and any number of
executors and faults, `AuthoritySafe` for all approvals, revocations, callers and
edits.

Only model-checked:

* the liveness properties (`DrainedCompletes`, `RunSettles`,
  `AttemptsSettle`, `CompletesOrStalls`, `Settles`, `VolumesSettle`,
  `CampaignPublishes`, `FaultsValidate`): they need fairness and `ENABLED`, which
  this prover does not handle;
* of `AccountsHold`, the part `LedgerBalanced`: it is about sums over sets and needs
  induction over data (the other part, `SettledTogether`, is proved as
  `RowsSettleTogether`);
* the safety properties of `studies`, whose modules have no proofs yet;
  `PlacementHolds` compares a closure with a fixed point, again induction over data.

## 5. What is not modelled

Baseline messages and the administrator hand-over of the adapters; the experiment
and local contracts; the Go deployment transactions (their result is the
initial state of `XIRTransport`); the carrier agents' encodings and Merkle proofs;
rendering, preflight and configuration files of the local network; the latency,
security and figure studies, which are sequential scripts over files; the
statistics of the campaign's analysis and those, the incident tables and the
figure of the ablation. `PROJECT.json` lists each with the
reason.

Details that the modules leave out, each said at its definition:

* `decide_pairs` and the other reads of a report use several connections
  (`overhead.py`, lines 84-116); `XIREvidence` reads at one moment. What a pair is
  counted on only grows, so a later read could not take it back.
* A failure of the volume bootstrap after the write probe of the last volume; and the
  other users of its daemon are an assumption about the host (`XIRVolumes`, `Other`).
* The campaign's cleanup is taken to succeed in `XIRCampaign`. A monitor that died
  with its tail uncovered makes it fail and leaves a blocked lease; what that means
  is in `XIRWriterLease` (`Retain`), and such a campaign does not go on to publish until
  the lease is audited.
* The cap of a hundred packets of a worker's batch, its confirmations, and the
  finality wait of the root signer with its timeout, which raises as other waits do
  (`XIRNative`).
* A fault campaign whose children hang past its timeouts, and a worker that exits
  with another code than the injected one: both make the campaign raise
  (`XIRFaults`).

Behaviours that are in the models or noted with the hazards, and that nothing in
the repository excludes, so no property forbids them:

* a record whose destination has no code on the delivering chain is consumed
  without effect;
* a crash between `FinishAttempt` and the completed event loses that event;
* a root creation that reverts keeps its reserved record nonce;
* the deadline of an attempt is judged outside the write that records it and may
  overwrite a delivery recorded in between (`collect/outcomes.py`, line 398);
* a transaction keeps its first receipt: when its block is replaced and it is mined
  again in another, it stays recorded as orphaned;
* the runner of the ablation carries the lineage of a retried stage from the
  superseded row to the signed one in memory: when it dies between the two, the row
  no longer shows the retry, a dispatch may be on chain twice and the verdict does
  not say so (`XIRAblation`, `Intend`);
* a source of the ablation may be analysed again after it was rebuilt.

## 6. Findings

`nonce_gap`. `freezeIntent` reserves the nonce in memory before it asks the node
for gas and fees. When that query fails, the attempt is abandoned without a row,
the next attempt's intent takes the following nonce, and from then on the restart
seed (`MaxActionNonce` + 1) lies above the hole: the nonce is never used and the
account's transactions are never executable.

`held`. `release_unstarted_route` leaves the attempt planned and
`mark_source_in_flight` does not look at `budgets.state`. Reserve, cancel, start, bind a
nonce: a transaction is signed with nothing reserved for it, although "reservations
remain locked through ambiguous submission and approved finality"
(`docs/architecture.md`, line 58).

`spent`. `mark_lineage_pending` accepts an included lineage and keeps its provisional
amount. Included, reported submitted, released as dead: the refusal that
`release_dead_lineage` announces for included lineages (`leases.py`, line 755) is
passed by, and the provisional amount stays in all totals.

`torn_profile`. `load_live_context` parses the profile (`live_commands.py`, line 318) and
digests the file in a second read (line 319); the approval is read at line 324 to be
correlated and at line 338 to be verified. Neither pair is compared. A profile that is
there for the first read only goes through under the digest of another one. Nothing is executed
behind the boundary today, but `LiveStateChangeBackend` promises its implementations
"one already correlated and exactly confirmed operation".

Two more disagreements are in the models and have no run of their own:

* *Drain.* `OutboundControl.sol` (lines 83-84) says that drain does not "block
  already in-flight carrier work". `native/runner.py` sends the second hop through
  `sendSource` (line 1043) and `sendSourceBundle` (line 1089), which a draining
  adapter refuses, although the adapters have `forwardInFlight` for it: an attempt
  whose first hop was carried when the drain came never takes effect. With
  `InFlightEntry = "sendSource"` in `MC_XIRTransport_transport.cfg` TLC refutes
  `DrainedCompletes`.
* *Halt.* A reorganisation that cannot be restored halts `runs.state` only;
  `drain()`, allowed because `run_controls.mode` is still `running`, overwrites the
  halt. The signature gate reads `run_controls` and never sees it.

## 7. Plan

Done: the modules of section 2, and the proofs of section 4. Next, in this order:

1. proofs for `XIRAblation` (`LayerEarned`).
2. an abstract *durable action* specification that `XIRNative` and `XIRLedger`
   implement.
3. Baseline route control and receivers, the administrator hand-over, the
   controlled local carrier.
