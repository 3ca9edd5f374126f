---------------------------- MODULE XIROperations ----------------------------
(***************************************************************************)
(* The approved operations of the Python laboratory: the batch of an       *)
(* operation is signed and broadcast, one transaction after another, by    *)
(* executors that share a journal (execute/approved_operations.py).  The   *)
(* transactions come from a deployment plan with predicted addresses       *)
(* (execute/deployment_plans.py) and from a configuration plan bound to    *)
(* the recollected deployment (execute/configuration_plans.py).  The       *)
(* approval that a batch names is the subject of XIRApprovals.             *)
(*                                                                         *)
(* A second executor may run, in another shell; the journal has no lock.  A *)
(* transaction is numbered by its position in the deployment plan followed *)
(* by the configuration plan.  Digests are the values they digest.         *)
(***************************************************************************)
EXTENDS Integers, Sequences, FiniteSets

CONSTANTS
    Creations,   \* the chain of every contract creation, in plan order
    Settings,    \* the creation every configuration transition targets
    Executors,   \* processes that advance and reconcile
    Main,        \* the one that runs all the time; another shell counts as a fault
    MaxFaults    \* bound on crashes and on disturbances of the chains

(* Chain identifiers are integers; a transition targets a creation.        *)
ASSUME PlansAssumption ==
    /\ Creations \in Seq(Int) /\ Settings \in Seq(1..Len(Creations))
    /\ MaxFaults \in Nat

Ops == {"deployment", "configuration"}
Txs == 1..(Len(Creations) + Len(Settings))
Creates(t) == t <= Len(Creations)
Target(t) == IF Creates(t) THEN t ELSE Settings[t - Len(Creations)]
ChainOf(t) == Creations[Target(t)]
PlannedChains == {Creations[i] : i \in DOMAIN Creations}

VARIABLES
    opened,     \* the operations whose journal was initialised
    journal,    \* the operation's journal file, a record per transaction
    identity,   \* the outcome of recollect_deployment_identity
    spool,      \* transactions whose signed bytes are in the spool
    proc,       \* what an executor is doing, and its copy of the journal
    account,    \* the account the signer holds
    pool,       \* transactions in the nodes' pools
    chain,      \* the blocks of every chain, a transaction of the account each
    final,      \* how many blocks of every chain are final
    lost,       \* transactions a node acknowledged and a chain then dropped
    faults

world == <<account, pool, chain, final, lost>>
ovars == <<opened, journal, identity, spool, proc, world, faults>>

Planned == [state |-> "planned", proven |-> FALSE]
Idle == [at |-> "idle", tx |-> 0, doc |-> <<>>, taken |-> FALSE]
OpOf(t) == IF Creates(t) THEN "deployment" ELSE "configuration"
BatchOf(op) == {t \in Txs : OpOf(t) = op}

OperationsInit ==
    /\ opened = {}
    /\ journal = [t \in Txs |-> Planned]
    /\ identity = "none" /\ spool = {}
    /\ proc = [e \in Executors |-> Idle]
    /\ account \in {"deployer", "other"}
    /\ pool = {} /\ lost = {}
    /\ chain = [c \in PlannedChains |-> <<>>] /\ final = [c \in PlannedChains |-> 0]
    /\ faults = 0
-----------------------------------------------------------------------------
(* The plans.  A nonce is the place of a transaction among those of its    *)
(* chain; configuration transitions are sorted by chain and nonce.         *)

Nonce(t) == Cardinality({u \in 1..(t - 1) : ChainOf(u) = ChainOf(t)})

(* CREATE gives an address that depends on the account and its nonce only. *)
CreateAddress(who, t) == <<who, ChainOf(t), Nonce(t)>>
Predicted(t) == CreateAddress("deployer", t)

Mined(t) == \E i \in DOMAIN chain[ChainOf(t)] : chain[ChainOf(t)][i].tx = t
Final(t) == \E i \in 1..final[ChainOf(t)] : chain[ChainOf(t)][i].tx = t
BlockOf(t) == CHOOSE b \in {chain[ChainOf(t)][i] : i \in DOMAIN chain[ChainOf(t)]} : b.tx = t

(* A simulation of the plan's creations succeeds against the current       *)
(* state: the account's next nonces are the planned ones.                  *)
DryRun == \A t \in BatchOf("deployment") : Nonce(t) >= Len(chain[ChainOf(t)])

(* Every contract is observed at its predicted address with its code.      *)
ObservedIdentity ==
    \A t \in BatchOf("deployment") :
        /\ Mined(t) /\ BlockOf(t).status = 1
        /\ CreateAddress(account, t) = Predicted(t)

RecollectIdentity ==
    /\ identity # "pass"
    /\ \A t \in BatchOf("deployment") : journal[t].state \in {"finalized", "blocked"}
    /\ identity' = IF ObservedIdentity THEN "pass" ELSE "blocked"
    /\ identity' # identity
    /\ UNCHANGED <<opened, journal, spool, proc, world, faults>>

(* The configuration plan is built over a deployment that was recollected. *)
PlanReady(op) ==
    IF op = "deployment" THEN DryRun ELSE identity = "pass"
-----------------------------------------------------------------------------
(* ApprovedOperationExecutor.  Every call loads the journal, works on its  *)
(* copy and replaces the file with it.                                     *)

executor == <<opened, identity, account, chain, final, lost>>

Start(e) ==
    /\ proc[e].at = "idle"
    /\ \/ e = Main /\ UNCHANGED faults
       \/ e # Main /\ faults < MaxFaults /\ faults' = faults + 1

(* The journal of a batch is written once, with every transaction planned; *)
(* an executor that finds it goes on with it.                              *)
Initialize(op) ==
    /\ op \notin opened /\ PlanReady(op)
    /\ opened' = opened \cup {op}
    /\ UNCHANGED <<journal, identity, spool, proc, world, faults>>

At(e, at) == proc[e].at = at
Goto(e, at) == proc' = [proc EXCEPT ![e].at = at]
Done(e) == proc' = [proc EXCEPT ![e] = Idle]

(* mutant: a predecessor only has to be included *)
InOrder_Included(doc, t) ==
    \A u \in BatchOf(OpOf(t)) : u < t => doc[u].state \in {"included", "finalized"}

InOrder(doc, t) == \A u \in BatchOf(OpOf(t)) : u < t => doc[u].state = "finalized"

Advance(e, t) ==
    /\ Start(e) /\ OpOf(t) \in opened
    /\ InOrder(journal, t)
    /\ journal[t].state \in {"planned", "signed_hash_persisted", "broadcast_unknown"}
    /\ proc' = [proc EXCEPT ![e] =
          [at |-> IF journal[t].state = "planned" THEN "sign" ELSE "send", tx |-> t,
           doc |-> journal, taken |-> FALSE]]
    /\ UNCHANGED <<executor, journal, spool, pool>>

(* The signer answers a repeated operation identifier with the same bytes, *)
(* and the spool refuses others.                                           *)
SignToSpool(e) ==
    /\ At(e, "sign")
    /\ spool' = spool \cup {proc[e].tx}
    /\ Goto(e, "reference")
    /\ UNCHANGED <<executor, journal, pool, faults>>

Persist(e, record, at) ==
    LET doc == [proc[e].doc EXCEPT ![proc[e].tx] = record]
    IN /\ journal' = [u \in Txs |-> IF OpOf(u) = OpOf(proc[e].tx) THEN doc[u] ELSE journal[u]]
       /\ proc' = [proc EXCEPT ![e] = IF at = "idle" THEN Idle ELSE [@ EXCEPT !.doc = doc, !.at = at]]
       /\ UNCHANGED <<executor, spool, pool>>

PersistReference(e) ==
    /\ At(e, "reference")
    /\ Persist(e, [state |-> "signed_hash_persisted", proven |-> FALSE], "send")
    /\ UNCHANGED faults

PersistUnknown(e) ==
    /\ At(e, "send")
    /\ Persist(e, [state |-> "broadcast_unknown", proven |-> FALSE], "broadcast")
    /\ UNCHANGED faults

(* A node takes the bytes unless the nonce is used; its answer may be      *)
(* lost or may refuse bytes it already has.                                *)
Broadcast(e) ==
    LET t == proc[e].tx
        takes == ~Mined(t) /\ Nonce(t) >= Len(chain[ChainOf(t)])
    IN /\ At(e, "broadcast") /\ t \in spool
       /\ pool' = IF takes THEN pool \cup {t} ELSE pool
       /\ \E answer \in {takes, FALSE} : proc' = [proc EXCEPT ![e].at = "answer", ![e].taken = answer]
       /\ UNCHANGED <<executor, journal, spool, faults>>

(* A refusal is not written: the record stays broadcast_unknown. *)
Acknowledge(e) ==
    /\ At(e, "answer")
    /\ IF proc[e].taken
       THEN Persist(e, [state |-> "submitted", proven |-> FALSE], "idle")
       ELSE Done(e) /\ UNCHANGED <<executor, journal, spool, pool>>
    /\ UNCHANGED faults

RepeatExactBroadcast(e, t) ==
    /\ Start(e) /\ journal[t].state = "broadcast_unknown" /\ journal[t].proven
    /\ proc' = [proc EXCEPT ![e] = [at |-> "broadcast", tx |-> t, doc |-> journal, taken |-> FALSE]]
    /\ UNCHANGED <<executor, journal, spool, pool>>

ReceiptState(t) ==
    IF BlockOf(t).status # 1 \/ (Creates(t) /\ CreateAddress(account, t) # Predicted(t))
    THEN "blocked"
    ELSE IF Final(t) THEN "finalized" ELSE "included"

(* mutant: an included transaction is not looked up again *)
Observable_NotIncluded(t) == journal[t].state \in {"broadcast_unknown", "submitted"}

Observable(t) == journal[t].state \in {"broadcast_unknown", "submitted", "included"}

(* The receipt is looked up by the exact hash. *)
Reconcile(e, t) ==
    /\ Start(e) /\ OpOf(t) \in opened
    /\ \/ /\ Observable(t) /\ Mined(t)
          /\ proc' = [proc EXCEPT ![e] =
                [at |-> ReceiptState(t), tx |-> t, doc |-> journal, taken |-> FALSE]]
       \/ /\ journal[t].state = "broadcast_unknown" /\ ~Mined(t)
          /\ proc' = [proc EXCEPT ![e] = [at |-> "nonce", tx |-> t, doc |-> journal, taken |-> FALSE]]
    /\ UNCHANGED <<executor, journal, spool, pool>>

PersistReceipt(e) ==
    /\ proc[e].at \in {"blocked", "included", "finalized"}
    /\ Persist(e, [state |-> proc[e].at, proven |-> FALSE], "idle")
    /\ UNCHANGED faults

(* The receipt was absent: a second read asks for the account's nonce.     *)
LookupNonce(e) ==
    LET t == proc[e].tx
    IN /\ At(e, "nonce")
       /\ \/ /\ Len(chain[ChainOf(t)]) > Nonce(t)
             /\ Persist(e, [state |-> "blocked", proven |-> FALSE], "idle")
          \/ /\ Len(chain[ChainOf(t)]) <= Nonce(t)
             /\ Persist(e, [state |-> "broadcast_unknown", proven |-> TRUE], "idle")
       /\ UNCHANGED faults

(* The nonce cannot be read: the record keeps its state. *)
NonceUnavailable(e) ==
    /\ At(e, "nonce") /\ faults < MaxFaults /\ faults' = faults + 1
    /\ Persist(e, [state |-> "broadcast_unknown", proven |-> FALSE], "idle")
-----------------------------------------------------------------------------
(* The chains, the account and the processes' failures.                    *)

outside == <<opened, journal, identity, spool, account>>

Mine(t) ==
    /\ t \in pool /\ Nonce(t) = Len(chain[ChainOf(t)])
    /\ pool' = pool \ {t}
    /\ \/ chain' = [chain EXCEPT ![ChainOf(t)] = Append(@, [tx |-> t, status |-> 1])] /\ UNCHANGED faults
       \/ /\ faults < MaxFaults /\ faults' = faults + 1
          /\ chain' = [chain EXCEPT ![ChainOf(t)] = Append(@, [tx |-> t, status |-> 0])]
    /\ UNCHANGED <<outside, proc, final, lost>>

Finalise(c) ==
    /\ final[c] < Len(chain[c])
    /\ final' = [final EXCEPT ![c] = @ + 1]
    /\ UNCHANGED <<outside, proc, pool, chain, lost, faults>>

Acknowledged(t) == journal[t].state \in {"submitted", "included"}
    \/ \E e \in Executors : proc[e].tx = t /\ (proc[e].at = "included" \/ proc[e].taken)

(* A transaction of the same account that belongs to no batch takes a      *)
(* nonce; transactions of that nonce leave the pool.                       *)
ForeignUse(c) ==
    LET out == {t \in pool : ChainOf(t) = c /\ Nonce(t) = Len(chain[c])}
    IN /\ faults < MaxFaults /\ faults' = faults + 1
       /\ Len(chain[c]) < Cardinality({t \in Txs : ChainOf(t) = c})
       /\ chain' = [chain EXCEPT ![c] = Append(@, [tx |-> 0, status |-> 1])]
       /\ pool' = pool \ out
       /\ lost' = lost \cup {t \in out : Acknowledged(t)}
       /\ UNCHANGED <<outside, proc, final>>

(* The last block that is not final is replaced by an empty one. *)
Reorganise(c, kept) ==
    LET last == chain[c][Len(chain[c])].tx
    IN /\ final[c] < Len(chain[c])
       /\ faults < MaxFaults /\ faults' = faults + 1
       /\ chain' = [chain EXCEPT ![c] = SubSeq(@, 1, Len(@) - 1)]
       /\ pool' = IF kept /\ last # 0 THEN pool \cup {last} ELSE pool
       /\ lost' = IF ~kept /\ last # 0 /\ Acknowledged(last) THEN lost \cup {last} ELSE lost
       /\ UNCHANGED <<outside, proc, final>>

DropFromPool(t) ==
    /\ t \in pool /\ faults < MaxFaults /\ faults' = faults + 1
    /\ pool' = pool \ {t}
    /\ lost' = IF Acknowledged(t) THEN lost \cup {t} ELSE lost
    /\ UNCHANGED <<outside, proc, chain, final>>

Crash(e) ==
    /\ ~At(e, "idle") /\ faults < MaxFaults /\ faults' = faults + 1
    /\ Done(e)
    /\ UNCHANGED <<outside, pool, chain, final, lost>>

-----------------------------------------------------------------------------
Call(e, t) == Advance(e, t) \/ Reconcile(e, t) \/ RepeatExactBroadcast(e, t)

Work(e) ==
    \/ SignToSpool(e) \/ PersistReference(e) \/ PersistUnknown(e) \/ Broadcast(e)
    \/ Acknowledge(e) \/ PersistReceipt(e) \/ LookupNonce(e)

ChainStep ==
    \/ \E t \in Txs : Mine(t) \/ DropFromPool(t)
    \/ \E c \in PlannedChains : Finalise(c) \/ ForeignUse(c) \/ \E kept \in BOOLEAN : Reorganise(c, kept)

OperationsNext ==
    \/ RecollectIdentity \/ ChainStep \/ \E op \in Ops : Initialize(op)
    \/ \E e \in Executors : Work(e) \/ NonceUnavailable(e) \/ Crash(e) \/ \E t \in Txs : Call(e, t)

(* The operator keeps calling advance and reconcile for what is open, and  *)
(* the chains keep producing and finalising blocks.                        *)
Fairness ==
    /\ SF_ovars(\E t \in Txs : Advance(Main, t)) /\ SF_ovars(\E t \in Txs : Reconcile(Main, t))
    /\ \A e \in Executors : WF_ovars(Work(e))
    /\ WF_ovars(\E t \in Txs : Mine(t)) /\ WF_ovars(\E c \in PlannedChains : Finalise(c))

OperationsSpec == OperationsInit /\ [][OperationsNext]_ovars /\ Fairness

-----------------------------------------------------------------------------
(* Properties *)

States == {"planned", "signed_hash_persisted", "broadcast_unknown", "submitted", "included",
           "finalized", "blocked"}
Doc == [Txs -> [state : States, proven : BOOLEAN]]

(* Types of the state. *)
OperationsTypeOK ==
    /\ opened \subseteq Ops
    /\ journal \in Doc /\ identity \in {"none", "pass", "blocked"}
    /\ spool \subseteq Txs /\ pool \subseteq spool /\ lost \subseteq spool
    /\ \A e \in Executors : proc[e] = Idle \/ (proc[e].tx \in Txs /\ proc[e].doc \in Doc)
    /\ \A c \in PlannedChains : final[c] \in 0..Len(chain[c])
    /\ faults \in 0..MaxFaults

(* No transaction of a batch reaches a node before every earlier one of    *)
(* the batch has succeeded in a final block, whatever crashes, second      *)
(* executors and reorganisations happen (ApprovedOperationExecutor.advance *)
(* only reads the journal).                                                *)
OrderedOnChain ==
    \A t \in Txs : t \in pool \/ Mined(t) =>
        \A u \in BatchOf(OpOf(t)) : u < t => Final(u) /\ BlockOf(u).status = 1

(* A journal that says finalized tells the truth: the exact transaction    *)
(* succeeded in a final block, and its contract is where the plan          *)
(* predicted it (reconcile).                                               *)
FinalIsTrue ==
    \A t \in Txs : journal[t].state = "finalized" =>
        /\ Final(t) /\ BlockOf(t).status = 1
        /\ Creates(t) => CreateAddress(account, t) = Predicted(t)

(* What the journal and the chain say of each other.                       *)
JournalHolds == OperationsTypeOK /\ OrderedOnChain /\ FinalIsTrue

(* A batch that has started is finalised or blocked in the end, itself or  *)
(* by a blocked transaction of the other batch on a chain they share (the  *)
(* nonces follow on), unless a chain dropped a transaction after a node    *)
(* had acknowledged it: the executor sends nothing again once the journal  *)
(* says submitted.                                                         *)
Settles ==
    \A op \in Ops : <>[](\/ op \notin opened \/ lost # {}
                         \/ \A t \in BatchOf(op) : journal[t].state = "finalized"
                         \/ \E u \in Txs, t \in BatchOf(op) :
                               /\ journal[u].state = "blocked"
                               /\ OpOf(u) = op \/ (ChainOf(u) = ChainOf(t) /\ u < t))

=============================================================================
