---------------------------- MODULE XIRSubmission ----------------------------
(***************************************************************************)
(* The submission of one stage of one attempt: prepared intent, signature, *)
(* signed bytes in the private spool, broadcast, acknowledgement, and the  *)
(* resolution or same-nonce replacement of an ambiguous broadcast          *)
(* (src/xir_lab/execute/submission.py, resolution.py, signer.py), under    *)
(* the run's stop state and the approval's life (controls.py,              *)
(* approvals.py).                                                          *)
(*                                                                         *)
(* All transactions of the stage form one nonce lineage: the first and the *)
(* replacements.  A worker runs one method at a time; a method is split    *)
(* where it leaves the store: each transaction of the store, each call of  *)
(* the signer and each call of the broadcaster is a step, and the process  *)
(* may stop between any two.  A method that raises abandons its operation. *)
(*                                                                         *)
(* The chain is external: it accepts any of the broadcast transactions,    *)
(* mines one of them (or one that the ledger does not know), may undo that *)
(* until it is observed as final; a lookup may miss a pending one.         *)
(***************************************************************************)
EXTENDS Naturals, FiniteSets

CONSTANTS
    Txns,             \* transaction identifiers of the lineage
    Workers,          \* threads of the runner
    IsSource,         \* the stage is the attempt's source stage
    MaxReplacements,  \* max_replacements_per_lineage
    Lapses,           \* the validities that may run out: "approval", "quote", "simulation"
    ForeignNonce,     \* the account's nonce may be spent outside this ledger
    MaxDisturbances   \* bound: stops, lapses, revocations, crashes, reorganisations

None == "none"

ASSUME SubmissionConstants ==
    /\ None \notin Txns /\ "foreign" \notin Txns
    /\ IsSource \in BOOLEAN /\ ForeignNonce \in BOOLEAN
    /\ MaxReplacements \in Nat /\ MaxDisturbances \in Nat

Sent == {"broadcast_unknown", "submitted", "included", "finalized", "orphaned"}
TxnStates == {"none", "prepared", "signer_return", "signed_hash_persisted"} \cup Sent
Stopped == {"halted", "revoked"}
Places == {"idle", "sign", "signed", "spool", "reference", "gated", "send", "ack",
          "submitted", "included", "conflict", "halt", "replace"}

VARIABLES
    mode,        \* runs.state and run_controls.mode
    approval,    \* what is recorded of the operation's approval: "consumed", "revoked"
    lapsed,      \* the validities that have run out
    attempt,     \* attempts.state: in flight or not
    lease,       \* the nonce lease: "active" or "settled"
    txn,         \* transactions.state
    intent,      \* intents.state
    replaces,    \* transactions.replaces_transaction_id
    spool,       \* each transaction's file in the private spool: "absent", "temporary", "present"
    violation,   \* an ambiguous_submission_conflict is recorded
    worker,      \* each worker's operation
    results,     \* signing results the external signer has stored
    pool,        \* external: transactions the network holds
    spentBy,     \* external: the transaction that spent the nonce
    late,        \* signatures and broadcasts of each worker since the last stop
    disturbances \* how often anything but the workers and the chain's progress acted

ledger == <<txn, intent, replaces, spool>>
gates == <<mode, approval, lapsed, attempt, lease>>
external == <<results, pool, spentBy>>
vars == <<mode, approval, lapsed, attempt, lease, txn, intent, replaces, spool, violation,
          worker, results, pool, spentBy, late, disturbances>>

NoOperation == [pc |-> "idle", t |-> None, from |-> None]

Init ==
    /\ mode = "running" /\ approval = {} /\ lapsed = {}
    /\ attempt = "in_flight" /\ lease = "active"
    /\ txn = [t \in Txns |-> "none"] /\ intent = [t \in Txns |-> "none"]
    /\ replaces = [t \in Txns |-> None] /\ spool = [t \in Txns |-> "absent"]
    /\ violation = FALSE
    /\ worker = [w \in Workers |-> NoOperation]
    /\ results = {} /\ pool = {} /\ spentBy = None
    /\ late = [w \in Workers |-> 0]
    /\ disturbances = 0

-----------------------------------------------------------------------------
(* Approvals and the persistent stop state.                                *)

(* A revoked, used or expired approval is refused. *)
VerifyApproval == approval = {} /\ "approval" \notin lapsed

ConsumeApproval ==
    /\ VerifyApproval
    /\ approval' = {"consumed"}
    /\ UNCHANGED <<mode, lapsed, attempt, lease, ledger, violation, worker, external, late, disturbances>>

Disturb ==
    /\ disturbances < MaxDisturbances
    /\ disturbances' = disturbances + 1

RevokeApproval ==
    /\ "revoked" \notin approval
    /\ approval' = approval \cup {"revoked"}
    /\ Disturb
    /\ UNCHANGED <<mode, lapsed, attempt, lease, ledger, violation, worker, external, late>>

SetMode(from, to) ==
    /\ mode \in from
    /\ mode' = to
    /\ late' = [w \in Workers |-> IF mode \in Stopped THEN late[w] ELSE 0]
    /\ UNCHANGED <<approval, lapsed, attempt, lease, ledger, violation, external>>

(* The controls name the mode "drain", not "draining". *)
Drain == SetMode({"running"}, "drain") /\ Disturb /\ UNCHANGED worker
Halt == SetMode({"running", "drain"}, "halted") /\ Disturb /\ UNCHANGED worker
Revoke == SetMode({"running", "drain", "halted"}, "revoked") /\ Disturb /\ UNCHANGED worker
Resume == SetMode({"drain", "halted"}, "running") /\ Disturb /\ UNCHANGED worker

(* Wall-clock time passes the end of a validity interval. *)
Lapse(v) ==
    /\ v \notin lapsed
    /\ lapsed' = lapsed \cup {v}
    /\ Disturb
    /\ UNCHANGED <<mode, approval, attempt, lease, ledger, violation, worker, external, late>>

(* The outcome recorder or the executor ends the attempt. *)
EndAttempt ==
    /\ attempt = "in_flight"
    /\ attempt' = "ended"
    /\ Disturb
    /\ UNCHANGED <<mode, approval, lapsed, lease, ledger, violation, worker, external, late>>

(* The lineage's lease is finalised once one of its transactions is. *)
SettleLease ==
    /\ lease = "active" /\ \E t \in Txns : txn[t] = "finalized"
    /\ lease' = "settled"
    /\ UNCHANGED <<mode, approval, lapsed, attempt, ledger, violation, worker, external, late, disturbances>>

(* Every gate read again before a signature and before a broadcast. *)
Revalidate_Broadcast(phase) ==
    /\ approval = {"consumed"} /\ lapsed = {}
    /\ mode \notin Stopped \/ phase = "broadcast"
    /\ ~(mode = "drain" /\ IsSource)
    /\ attempt = "in_flight" /\ lease = "active"

Revalidate(phase) ==
    /\ approval = {"consumed"} /\ lapsed = {}
    /\ mode \notin Stopped
    /\ ~(mode = "drain" /\ IsSource)
    /\ attempt = "in_flight" /\ lease = "active"

-----------------------------------------------------------------------------
(* Steps of a worker.                                                      *)

IsAt(w, pc) == worker[w].pc = pc
Goto(w, pc, t, from) == worker' = [worker EXCEPT ![w] = [pc |-> pc, t |-> t, from |-> from]]
GoIdle(w) == worker' = [worker EXCEPT ![w] = NoOperation]

(* One transaction of the store that moves t's records. *)
Write(t, state) ==
    /\ txn' = [txn EXCEPT ![t] = state]
    /\ intent' = [intent EXCEPT ![t] = state]

(* After the method's own recheck of the record: write, or raise. *)
WriteIf(cond, w, t, state, next) ==
    \/ cond /\ Write(t, state) /\ Goto(w, next, t, state)
    \/ ~cond /\ GoIdle(w) /\ UNCHANGED <<txn, intent>>

Late(w) == late' = [late EXCEPT ![w] = IF mode \in Stopped THEN @ + 1 ELSE @]

(* The nonce lineage must be free, or the intent must replace a transaction of it. *)
PrepareIntent(t, prior) ==
    /\ txn[t] = "none"
    /\ lease = "active" /\ "consumed" \in approval
    /\ prior = None => \A u \in Txns : txn[u] = "none"
    /\ txn' = [txn EXCEPT ![t] = "prepared"]
    /\ intent' = [intent EXCEPT ![t] = "prepared"]
    /\ replaces' = [replaces EXCEPT ![t] = prior]
    /\ UNCHANGED <<gates, spool, violation, external, late, disturbances>>

PrepareFirst(t) == PrepareIntent(t, None) /\ UNCHANGED worker

(* Number of transactions that t replaces, directly or not. *)
AncestorsOf[n \in Nat] ==
    IF n = 0 THEN [t \in Txns |-> 0]
    ELSE [t \in Txns |-> IF replaces[t] = None THEN 0 ELSE 1 + AncestorsOf[n - 1][replaces[t]]]
Ancestors(t) == AncestorsOf[Cardinality(Txns)][t]

StartReplacement(w, prior) ==
    /\ IsAt(w, "idle")
    /\ txn[prior] \in {"broadcast_unknown", "submitted", "orphaned"}
    /\ Ancestors(prior) < MaxReplacements
    /\ lease = "active" /\ \E t \in Txns : txn[t] = "none"
    /\ Goto(w, "replace", prior, txn[prior])
    /\ UNCHANGED <<gates, ledger, violation, external, late, disturbances>>

PrepareReplacement(w, t) ==
    /\ IsAt(w, "replace")
    /\ PrepareIntent(t, worker[w].t)
    /\ GoIdle(w)

(* prepare_intent raises: the lineage was settled since the predecessor was read. *)
RefuseReplacement(w) ==
    /\ IsAt(w, "replace") /\ lease # "active"
    /\ GoIdle(w)
    /\ UNCHANGED <<gates, ledger, violation, external, late, disturbances>>

StartSign(w, t) ==
    /\ IsAt(w, "idle") /\ txn[t] \in {"prepared", "signer_return"}
    /\ Revalidate("sign")
    /\ Goto(w, "sign", t, txn[t])
    /\ UNCHANGED <<gates, ledger, violation, external, late, disturbances>>

(* The signer keeps the result of an operation and repeats it. *)
SignTransaction(t) == results' = results \cup {t}

(* The request over the signer's socket; the answer may be lost. *)
ObtainSigned(w, answered) ==
    /\ IsAt(w, "sign")
    /\ SignTransaction(worker[w].t)
    /\ \/ answered /\ Goto(w, "signed", worker[w].t, None)
       \/ ~answered /\ GoIdle(w)
    /\ Late(w)
    /\ UNCHANGED <<gates, ledger, violation, pool, spentBy, disturbances>>

RecordSignerReturn(w) ==
    /\ IsAt(w, "signed")
    /\ LET t == worker[w].t IN
       \/ /\ txn[t] \in {"prepared", "signer_return"}
          /\ txn' = [txn EXCEPT ![t] = "signer_return"]
          /\ Goto(w, "spool", t, None)
       \/ /\ txn[t] \notin {"prepared", "signer_return"}
          /\ GoIdle(w) /\ UNCHANGED txn
    /\ UNCHANGED <<gates, intent, replaces, spool, violation, external, late, disturbances>>

(* PrivateSpool.persist: a temporary file, synchronised and renamed. *)
PersistSigned(w) ==
    /\ IsAt(w, "spool")
    /\ spool' = [spool EXCEPT ![worker[w].t] = "present"]
    /\ Goto(w, "reference", worker[w].t, None)
    /\ UNCHANGED <<gates, txn, intent, replaces, violation, external, late, disturbances>>

RecordReference(w) ==
    /\ IsAt(w, "reference")
    /\ WriteIf(txn[worker[w].t] = "signer_return", w, worker[w].t, "signed_hash_persisted", "idle")
    /\ UNCHANGED <<gates, replaces, spool, violation, external, late, disturbances>>

Allowed(from) == {"signed_hash_persisted", "broadcast_unknown"} \cup (from \cap {"submitted"})

(* broadcast, up to the bytes loaded from the spool; repeat adds "submitted". *)
StartBroadcast(w, t) ==
    /\ IsAt(w, "idle") /\ txn[t] \in Allowed({"submitted"})
    /\ Revalidate("broadcast")
    /\ spool[t] = "present"
    /\ Goto(w, "gated", t, txn[t])
    /\ UNCHANGED <<gates, ledger, violation, external, late, disturbances>>

RecordBroadcast_AfterSend(w) ==
    /\ IsAt(w, "gated")
    /\ Goto(w, "send", worker[w].t, None)
    /\ UNCHANGED <<gates, ledger, violation, external, late, disturbances>>

RecordBroadcast(w) ==
    /\ IsAt(w, "gated")
    /\ WriteIf(txn[worker[w].t] \in Allowed({worker[w].from}), w, worker[w].t,
               "broadcast_unknown", "send")
    /\ UNCHANGED <<gates, replaces, spool, violation, external, late, disturbances>>

(* The provider may take the bytes and not answer, or not take them at all. *)
Broadcast(w, taken, accepted) ==
    /\ IsAt(w, "send")
    /\ accepted => taken
    /\ pool' = IF taken THEN pool \cup {worker[w].t} ELSE pool
    /\ \/ accepted /\ Goto(w, "ack", worker[w].t, None)
       \/ ~accepted /\ GoIdle(w)
    /\ Late(w)
    /\ UNCHANGED <<gates, ledger, violation, results, spentBy, disturbances>>

RecordSubmitted(w) ==
    /\ IsAt(w, "ack")
    /\ WriteIf(txn[worker[w].t] = "broadcast_unknown", w, worker[w].t, "submitted", "idle")
    /\ UNCHANGED <<gates, replaces, spool, violation, external, late, disturbances>>

-----------------------------------------------------------------------------
(* Resolution of an ambiguous or pending submission.                       *)

(* The hash is looked up; a pending transaction may be missed. *)
Resolve(w, t, found) ==
    /\ IsAt(w, "idle") /\ txn[t] \in {"broadcast_unknown", "submitted"}
    /\ found => t \in pool
    /\ spentBy = t => found
    /\ LET to == IF spentBy = t THEN "included" ELSE "submitted" IN
       \/ found /\ to # txn[t] /\ Goto(w, to, t, txn[t])
       \/ ~found /\ spentBy # None /\ Goto(w, "conflict", t, txn[t])
    /\ UNCHANGED <<gates, ledger, violation, external, late, disturbances>>

(* _advance: only from the state that was read. *)
Advance_Blind(w, to) ==
    /\ IsAt(w, to)
    /\ WriteIf(TRUE, w, worker[w].t, to, "idle")
    /\ UNCHANGED <<gates, replaces, spool, violation, external, late, disturbances>>

Advance(w, to) ==
    /\ IsAt(w, to)
    /\ WriteIf(txn[worker[w].t] = worker[w].from, w, worker[w].t, to, "idle")
    /\ UNCHANGED <<gates, replaces, spool, violation, external, late, disturbances>>

RecordConflict(w) ==
    /\ IsAt(w, "conflict")
    /\ violation' = TRUE
    /\ Goto(w, "halt", worker[w].t, None)
    /\ UNCHANGED <<gates, ledger, external, late, disturbances>>

HaltConflict(w) ==
    /\ IsAt(w, "halt")
    /\ GoIdle(w)
    /\ \/ mode \in {"running", "drain"} /\ SetMode({"running", "drain"}, "halted")
       \/ mode \in Stopped /\ UNCHANGED <<gates, ledger, violation, external, late>>
    /\ UNCHANGED disturbances

(* The observer reports what the chain shows: record_included, record_finalized. *)
Observe(t) ==
    /\ spentBy = t
    /\ \/ txn[t] \in {"broadcast_unknown", "submitted"} /\ Write(t, "included")
       \/ txn[t] = "included" /\ Write(t, "finalized")
       \/ txn[t] = "orphaned" /\ Write(t, "included")
    /\ UNCHANGED <<gates, replaces, spool, violation, worker, external, late, disturbances>>

(* The finality manager's recheck of a transaction whose block is gone. *)
Orphan(t) ==
    /\ spentBy # t /\ txn[t] = "included"
    /\ txn' = [txn EXCEPT ![t] = "orphaned"]
    /\ UNCHANGED <<gates, intent, replaces, spool, violation, worker, external, late, disturbances>>

-----------------------------------------------------------------------------
(* Process failure and recovery; the chain.                                *)

(* A file that was being written stays behind as a temporary one. *)
Crash(torn) ==
    /\ Disturb
    /\ \E w \in Workers : ~IsAt(w, "idle")
    /\ worker' = [w \in Workers |-> NoOperation]
    /\ spool' = [t \in Txns |->
                    IF torn /\ spool[t] = "absent" /\ \E w \in Workers : IsAt(w, "spool") /\ worker[w].t = t
                    THEN "temporary" ELSE spool[t]]
    /\ UNCHANGED <<gates, txn, intent, replaces, violation, external, late>>

(* recover_spool on restart: files that no record refers to leave the spool. *)
Referenced(t) == txn[t] \notin {"none", "prepared"}

RecoverSpool ==
    /\ \A w \in Workers : IsAt(w, "idle")
    /\ LET orphans == {t \in Txns : spool[t] = "temporary"
                                   \/ (spool[t] = "present" /\ ~Referenced(t))} IN
       /\ orphans # {}
       /\ spool' = [t \in Txns |-> IF t \in orphans THEN "absent" ELSE spool[t]]
    /\ UNCHANGED <<gates, txn, intent, replaces, violation, worker, external, late, disturbances>>

SpendNonce(t) ==
    /\ spentBy = None
    /\ t \in pool \cup (IF ForeignNonce THEN {"foreign"} ELSE {})
    /\ spentBy' = t
    /\ UNCHANGED <<gates, ledger, violation, worker, results, pool, late, disturbances>>

Reorganise ==
    /\ spentBy # None /\ \A t \in Txns : txn[t] # "finalized"
    /\ spentBy' = None
    /\ Disturb
    /\ UNCHANGED <<gates, ledger, violation, worker, results, pool, late>>

-----------------------------------------------------------------------------
Operator == Drain \/ Halt \/ Revoke \/ Resume \/ ConsumeApproval \/ RevokeApproval

Signing(w) ==
    \/ \E answered \in BOOLEAN : ObtainSigned(w, answered)
    \/ RecordSignerReturn(w) \/ PersistSigned(w) \/ RecordReference(w)
    \/ \E t \in Txns : StartSign(w, t)

Broadcasting(w) ==
    \/ RecordBroadcast(w) \/ RecordSubmitted(w)
    \/ \E t \in Txns : StartBroadcast(w, t)
    \/ \E taken, accepted \in BOOLEAN : Broadcast(w, taken, accepted)

Resolving(w) ==
    \/ \E t \in Txns, found \in BOOLEAN : Resolve(w, t, found)
    \/ \E to \in {"submitted", "included"} : Advance(w, to)
    \/ RecordConflict(w) \/ HaltConflict(w) \/ RefuseReplacement(w)
    \/ \E t \in Txns : StartReplacement(w, t) \/ PrepareReplacement(w, t)

Ledger ==
    \/ \E t \in Txns : PrepareFirst(t) \/ Observe(t) \/ Orphan(t)
    \/ EndAttempt \/ SettleLease \/ RecoverSpool

Environment ==
    \/ \E v \in Lapses : Lapse(v)
    \/ \E t \in Txns \cup {"foreign"} : SpendNonce(t)
    \/ Reorganise
    \/ \E torn \in BOOLEAN : Crash(torn)

Next ==
    \/ Operator \/ Ledger \/ Environment
    \/ \E w \in Workers : Signing(w) \/ Broadcasting(w) \/ Resolving(w)

Spec == Init /\ [][Next]_vars

-----------------------------------------------------------------------------
(* All records, files and operations keep their types. *)
TypeOK ==
    /\ mode \in {"running", "drain", "halted", "revoked"}
    /\ approval \subseteq {"consumed", "revoked"} /\ lapsed \subseteq Lapses
    /\ attempt \in {"in_flight", "ended"} /\ lease \in {"active", "settled"}
    /\ txn \in [Txns -> TxnStates] /\ intent \in [Txns -> TxnStates]
    /\ replaces \in [Txns -> Txns \cup {None}]
    /\ spool \in [Txns -> {"absent", "temporary", "present"}]
    /\ violation \in BOOLEAN
    /\ worker \in [Workers -> [pc : Places, t : Txns \cup {None}, from : TxnStates]]
    /\ results \subseteq Txns /\ pool \subseteq Txns /\ spentBy \in Txns \cup {None, "foreign"}
    /\ late \in [Workers -> Nat]
    /\ disturbances \in 0..MaxDisturbances

(* Whatever the network may hold, the ledger knows as sent, and still has  *)
(* the bytes of: the process may stop anywhere between the store, the      *)
(* spool and the network (broadcast, persist and recover_spool).           *)
BroadcastIsRecorded ==
    \A t \in pool \cup {worker[w].t : w \in {v \in Workers : IsAt(v, "send")}} :
        /\ txn[t] \in Sent /\ intent[t] \in Sent
        /\ spool[t] = "present"

(* After a halt or a revocation a worker completes at most the one call it *)
(* had passed the gate for: the stop state is read before the signer and   *)
(* the broadcaster are called, not held during the call (revalidate).      *)
LateSendsBounded == \A w \in Workers : late[w] <= 1

(* No late writer takes an included or finalised transaction back to       *)
(* pending: only a reorganisation does, and it leaves "orphaned"           *)
(* (broadcast, _advance and _advance_observation recheck in the write).    *)
NoRegress ==
    [][\A t \in Txns : txn[t] \in {"included", "finalized"} =>
          txn'[t] \in {txn[t], "finalized", "orphaned"}]_vars
=============================================================================
