----------------------------- MODULE XIRNonces_proofs -----------------------------
(***************************************************************************)
(* Proofs about the two programs that sign for an account in Python: the   *)
(* submission of a stage under the run's ledger (XIRSubmission), and the   *)
(* native runners (XIRNative).                                             *)
(*                                                                         *)
(* The submission, for every set of transactions and workers, every bound  *)
(* on replacements and disturbances, and whatever the network does: what   *)
(* is out is recorded and its bytes are kept, a stop lets each worker      *)
(* finish one call at most, and no late writer takes a transaction back.   *)
(*                                                                         *)
(* The native runners, for any batches of any finite set of routes, any    *)
(* number of threads and any disturbances: a nonce is used by one stage,   *)
(* a multihop stage is mined once, what the runner calls finished and the  *)
(* worker delivered is so on the chains, and as long as root creations do  *)
(* not revert every root is given the record nonce it was signed with.     *)
(* For the last one the record nonces are kept in the order of the nonces  *)
(* of their transactions: a root can only be mined when the roots of all   *)
(* smaller record nonces were, or it is stuck behind a leaked nonce.       *)
(***************************************************************************)
EXTENDS XIRSubmission, XIRNative, FiniteSetTheorems, SequenceTheorems, WellFoundedInduction, TLAPS

-----------------------------------------------------------------------------
(* The submission of a stage.                                              *)

Busy == Places \ {"idle"}
Pending == {"broadcast_unknown", "submitted"}

(* An operation under way is about a transaction. *)
BusyHasTxn == \A w \in Workers : worker[w].pc \in Busy => worker[w].t \in Txns

(* What t needs before it may leave the process. *)
Kept(t) == txn[t] \in Sent /\ intent[t] \in Sent /\ spool[t] = "present"

(* What is out, or about to go out, is recorded, and its bytes are kept. *)
SentIsKept ==
    /\ \A t \in pool : Kept(t)
    /\ \A w \in Workers : IsAt(w, "send") => Kept(worker[w].t)

(* The gate before a broadcast loaded the bytes (StartBroadcast), and they *)
(* stay while any worker is busy (recover_spool runs on restart only).     *)
GatedIsSpooled ==
    \A w \in Workers : IsAt(w, "gated") => spool[worker[w].t] = "present"

(* Who has still to pass the call it was gated for has made none since the *)
(* stop; nobody is gated after it.                                         *)
OneCallLeft ==
    \A w \in Workers :
        /\ late[w] <= 1
        /\ mode \in Stopped /\ worker[w].pc \in {"sign", "gated", "send"} => late[w] = 0

(* A resolution compares the record with the state it read: a pending one. *)
ResolvesPending ==
    \A w \in Workers : worker[w].pc \in {"submitted", "included"} => worker[w].from \in Pending

SubmissionInv ==
    TypeOK /\ BusyHasTxn /\ SentIsKept /\ GatedIsSpooled /\ OneCallLeft /\ ResolvesPending
-----------------------------------------------------------------------------
(* The steps that leave every operation and the clock of stops alone.      *)

Operation == [pc : Places, t : Txns \cup {None}, from : TxnStates]

(* The names of the states and of the idle worker. *)
LEMMA StatesAreNamed ==
    /\ None \notin Txns /\ None \in TxnStates
    /\ Sent \subseteq TxnStates /\ Pending \subseteq Sent
    /\ NoOperation \in Operation
BY SubmissionConstants DEF None, TxnStates, Sent, Pending, NoOperation, Operation, Places

(* A worker moves on and the others stay where they are.                   *)
LEMMA WorkerMoves ==
    ASSUME TypeOK, NEW w \in Workers, NEW o \in Operation, worker' = [worker EXCEPT ![w] = o]
    PROVE  /\ worker' \in [Workers -> Operation]
           /\ worker'[w] = o
           /\ \A v \in Workers : v # w => worker'[v] = worker[v]
BY DEF TypeOK, Operation

(* The records of t move to one state.                                     *)
LEMMA RecordsMove ==
    ASSUME TypeOK, NEW t \in Txns, NEW s \in TxnStates, Write(t, s)
    PROVE  /\ txn' \in [Txns -> TxnStates] /\ intent' \in [Txns -> TxnStates]
           /\ txn'[t] = s /\ intent'[t] = s
           /\ \A u \in Txns : u # t => txn'[u] = txn[u] /\ intent'[u] = intent[u]
BY DEF TypeOK, Write

(* A change of the run's mode moves no worker and no transaction. *)
LEMMA ModeStep ==
    ASSUME SubmissionInv, NEW from, NEW to \in {"running", "drain", "halted", "revoked"},
           SetMode(from, to), UNCHANGED worker, Disturb
    PROVE  SubmissionInv'
<1> USE DEF SubmissionInv
<1>1. TypeOK' /\ BusyHasTxn'
  BY SubmissionConstants DEF TypeOK, BusyHasTxn, SetMode, Disturb, ledger, external
<1>2. SentIsKept' /\ GatedIsSpooled' /\ ResolvesPending'
  BY DEF SentIsKept, Kept, GatedIsSpooled, ResolvesPending, SetMode, ledger, external, IsAt
<1>3. OneCallLeft'
  BY DEF OneCallLeft, SetMode, TypeOK
<1> QED BY <1>1, <1>2, <1>3

(* The operator's controls and approvals. *)
LEMMA OperatorStep ==
    ASSUME SubmissionInv, Operator
    PROVE  SubmissionInv'
<1>1. CASE Drain \/ Halt \/ Revoke \/ Resume
  BY <1>1, ModeStep DEF Drain, Halt, Revoke, Resume
<1>2. CASE ConsumeApproval \/ RevokeApproval
  <2>1. TypeOK'
    <3>1. approval' \subseteq {"consumed", "revoked"}
      BY <1>2 DEF ConsumeApproval, RevokeApproval, SubmissionInv, TypeOK
    <3>2. disturbances' \in 0..MaxDisturbances
      BY <1>2, SubmissionConstants DEF ConsumeApproval, RevokeApproval, Disturb, SubmissionInv, TypeOK
    <3> QED BY <1>2, <3>1, <3>2 DEF ConsumeApproval, RevokeApproval, SubmissionInv, TypeOK, ledger, external
  <2>2. BusyHasTxn' /\ SentIsKept' /\ GatedIsSpooled' /\ OneCallLeft' /\ ResolvesPending'
    BY <1>2 DEF ConsumeApproval, RevokeApproval, SubmissionInv, BusyHasTxn,
       SentIsKept, Kept, GatedIsSpooled, OneCallLeft, ResolvesPending, ledger, external, IsAt
  <2> QED BY <2>1, <2>2 DEF SubmissionInv
<1> QED BY <1>1, <1>2 DEF Operator

(* A gate lapses, the node mines or reorganises, a process dies. *)
LEMMA EnvironmentStep ==
    ASSUME SubmissionInv, Environment
    PROVE  SubmissionInv'
<1> USE DEF SubmissionInv, ledger, external, gates
<1>1. ASSUME NEW v \in Lapses, Lapse(v)
      PROVE  SubmissionInv'
  BY <1>1, SubmissionConstants DEF Lapse, Disturb, TypeOK, BusyHasTxn, SentIsKept, Kept,
     GatedIsSpooled, OneCallLeft, ResolvesPending, IsAt
<1>2. ASSUME NEW t \in Txns \cup {"foreign"}, SpendNonce(t)
      PROVE  SubmissionInv'
  BY <1>2 DEF SpendNonce, TypeOK, BusyHasTxn, SentIsKept, Kept, GatedIsSpooled, OneCallLeft, ResolvesPending, IsAt
<1>3. CASE Reorganise
  BY <1>3, SubmissionConstants DEF Reorganise, Disturb, TypeOK, BusyHasTxn, SentIsKept, Kept,
     GatedIsSpooled, OneCallLeft, ResolvesPending, IsAt
<1>4. ASSUME NEW torn \in BOOLEAN, Crash(torn)
      PROVE  SubmissionInv'
  <2>1. \A w \in Workers : worker'[w] = NoOperation
    BY <1>4 DEF Crash
  <2>2. \A t \in Txns : spool[t] = "present" => spool'[t] = "present"
    BY <1>4 DEF Crash
  <2>3. TypeOK'
    BY <1>4, StatesAreNamed, SubmissionConstants DEF Crash, Disturb, TypeOK, Operation
  <2>4. BusyHasTxn' /\ GatedIsSpooled' /\ ResolvesPending' /\ OneCallLeft'
    BY <1>4, <2>1 DEF Crash, NoOperation, Busy, BusyHasTxn, GatedIsSpooled, ResolvesPending, OneCallLeft, IsAt
  <2>5. SentIsKept'
    BY <1>4, <2>1, <2>2 DEF Crash, NoOperation, SentIsKept, Kept, IsAt, TypeOK
  <2> QED BY <2>3, <2>4, <2>5
<1> QED BY <1>1, <1>2, <1>3, <1>4 DEF Environment

(* An intent is prepared for a transaction that nobody has seen.           *)
LEMMA PrepareKeeps ==
    ASSUME SubmissionInv, NEW t \in Txns, NEW prior \in Txns \cup {None}, PrepareIntent(t, prior),
           worker' \in [Workers -> Operation],
           \A w \in Workers : worker'[w].pc = "send" => worker'[w] = worker[w]
    PROVE  TypeOK' /\ SentIsKept'
<1> USE DEF SubmissionInv, ledger, external, gates
<1>1. \A u \in Txns : Kept(u) => Kept(u)'
  BY DEF PrepareIntent, Kept, Sent, TypeOK
<1>2. TypeOK'
  BY StatesAreNamed DEF PrepareIntent, TypeOK, Operation, TxnStates
<1>3. SentIsKept'
  BY <1>1 DEF PrepareIntent, SentIsKept, IsAt, TypeOK, BusyHasTxn, Busy, Places
<1> QED BY <1>2, <1>3

(* The journal's methods outside the workers. *)
LEMMA LedgerStep ==
    ASSUME SubmissionInv, Ledger
    PROVE  SubmissionInv'
<1> USE DEF SubmissionInv, ledger, external, gates
<1>1. ASSUME NEW t \in Txns, PrepareFirst(t)
      PROVE  SubmissionInv'
  <2>1. BusyHasTxn' /\ GatedIsSpooled' /\ OneCallLeft' /\ ResolvesPending'
    BY <1>1 DEF PrepareFirst, PrepareIntent, BusyHasTxn, GatedIsSpooled, OneCallLeft, ResolvesPending, IsAt
  <2>2. TypeOK' /\ SentIsKept'
    BY <1>1, PrepareKeeps, StatesAreNamed DEF PrepareFirst, TypeOK, Operation
  <2> QED BY <2>1, <2>2
<1>2. ASSUME NEW t \in Txns, Observe(t)
      PROVE  SubmissionInv'
  <2>1. PICK s \in {"included", "finalized"} : Write(t, s)
    BY <1>2 DEF Observe
  <2>2. s \in TxnStates /\ s \in Sent
    BY DEF TxnStates, Sent
  <2>3. TypeOK'
    BY <1>2, <2>1, <2>2, RecordsMove DEF Observe, TypeOK
  <2>4. BusyHasTxn' /\ GatedIsSpooled' /\ OneCallLeft' /\ ResolvesPending'
    BY <1>2 DEF Observe, BusyHasTxn, GatedIsSpooled, OneCallLeft, ResolvesPending, IsAt
  <2>5. \A u \in Txns : Kept(u) => Kept(u)'
    BY <1>2, <2>1, <2>2, RecordsMove DEF Observe, Kept
  <2>6. SentIsKept'
    BY <1>2, <2>5 DEF Observe, SentIsKept, IsAt, TypeOK, BusyHasTxn, Busy, Places
  <2> QED BY <2>3, <2>4, <2>6
<1>3. ASSUME NEW t \in Txns, Orphan(t)
      PROVE  SubmissionInv'
  BY <1>3 DEF Orphan, TypeOK, TxnStates, BusyHasTxn, SentIsKept, Kept, Sent,
     GatedIsSpooled, OneCallLeft, ResolvesPending, IsAt
<1>4. CASE EndAttempt \/ SettleLease
  <2>1. disturbances' \in 0..MaxDisturbances
    BY <1>4, SubmissionConstants DEF EndAttempt, SettleLease, Disturb, TypeOK
  <2>2. TypeOK'
    BY <1>4, <2>1 DEF EndAttempt, SettleLease, TypeOK
  <2>3. BusyHasTxn' /\ SentIsKept' /\ GatedIsSpooled' /\ OneCallLeft' /\ ResolvesPending'
    BY <1>4 DEF EndAttempt, SettleLease, BusyHasTxn, SentIsKept, Kept,
       GatedIsSpooled, OneCallLeft, ResolvesPending, IsAt
  <2> QED BY <2>2, <2>3
<1>5. CASE RecoverSpool
  <2>1. \A t \in Txns : txn[t] \in Sent /\ spool[t] = "present" => spool'[t] = "present"
    BY <1>5 DEF RecoverSpool, Referenced, Sent
  <2>2. TypeOK'
    BY <1>5 DEF RecoverSpool, TypeOK
  <2>3. BusyHasTxn' /\ GatedIsSpooled' /\ OneCallLeft' /\ ResolvesPending'
    BY <1>5 DEF RecoverSpool, BusyHasTxn, GatedIsSpooled, OneCallLeft, ResolvesPending, IsAt
  <2>4. SentIsKept'
    BY <1>5, <2>1 DEF RecoverSpool, SentIsKept, Kept, IsAt, TypeOK
  <2> QED BY <2>2, <2>3, <2>4
<1> QED BY <1>1, <1>2, <1>3, <1>4, <1>5 DEF Ledger
-----------------------------------------------------------------------------
(* The steps of a worker.  What every one of them keeps is stated once.    *)

(* The part of the invariant a worker's own operation must keep.           *)
Fits(o, sp) ==
    /\ o \in Operation
    /\ o.pc \in Busy => o.t \in Txns
    /\ o.pc = "gated" => sp[o.t] = "present"
    /\ o.pc \in {"submitted", "included"} => o.from \in Pending

(* What a step of one worker has to keep, for itself and for the others. *)
LEMMA WorkerStep ==
    ASSUME SubmissionInv, NEW w \in Workers, NEW o,
           worker' = [worker EXCEPT ![w] = o], Fits(o, spool'),
           UNCHANGED <<gates, replaces, spentBy, disturbances>>,
           violation' \in BOOLEAN, results' \subseteq Txns, pool' \subseteq Txns,
           txn' \in [Txns -> TxnStates], intent' \in [Txns -> TxnStates],
           spool' \in [Txns -> {"absent", "temporary", "present"}],
           \A u \in Txns : spool[u] = "present" => spool'[u] = "present",
           \A u \in Txns : Kept(u) => Kept(u)',
           \A u \in pool' : u \in pool \/ Kept(u)',
           o.pc = "send" => Kept(o.t)',
           late' \in [Workers -> Nat],
           \A v \in Workers : v # w => late'[v] = late[v],
           late'[w] <= 1,
           mode \in Stopped /\ o.pc \in {"sign", "gated", "send"} => late'[w] = 0
    PROVE  SubmissionInv'
<1> USE DEF SubmissionInv, gates
<1>1. /\ worker' \in [Workers -> Operation] /\ worker'[w] = o
      /\ \A v \in Workers : v # w => worker'[v] = worker[v]
  BY WorkerMoves DEF Fits
<1>2. TypeOK'
  BY <1>1 DEF TypeOK, Operation
<1>3. BusyHasTxn' /\ ResolvesPending'
  BY <1>1 DEF BusyHasTxn, ResolvesPending, Fits
<1>4. SentIsKept'
  BY <1>1 DEF SentIsKept, IsAt, TypeOK, BusyHasTxn, Busy, Places
<1>5. GatedIsSpooled'
  BY <1>1 DEF GatedIsSpooled, IsAt, Fits, BusyHasTxn, Busy, Places
<1>6. OneCallLeft'
  BY <1>1 DEF OneCallLeft
<1> QED BY <1>2, <1>3, <1>4, <1>5, <1>6

(* A worker reads the store and decides.                                   *)
LEMMA ReadStep ==
    ASSUME SubmissionInv, NEW w \in Workers, NEW o,
           worker' = [worker EXCEPT ![w] = o], Fits(o, spool), o.pc # "send",
           mode \in Stopped => o.pc \notin {"sign", "gated"},
           UNCHANGED <<gates, ledger, external, late, disturbances>>, violation' \in BOOLEAN
    PROVE  SubmissionInv'
<1>1. \A u \in Txns : Kept(u) => Kept(u)'
  BY DEF ledger, Kept
<1>2. Fits(o, spool')
  BY DEF ledger
<1> QED BY <1>1, <1>2, WorkerStep DEF SubmissionInv, TypeOK, OneCallLeft, ledger, external

(* A worker moves the records of its transaction, or raises.  Records that *)
(* are out stay out.                                                       *)
LEMMA WriteStep ==
    ASSUME SubmissionInv, NEW w \in Workers, NEW cond \in BOOLEAN, NEW t \in Txns,
           NEW s \in TxnStates, NEW next \in {"idle", "send"},
           WriteIf(cond, w, t, s, next),
           cond => s \in Sent \/ txn[t] \notin Sent,
           next = "send" => s \in Sent /\ spool[t] = "present" /\ (mode \in Stopped => late[w] = 0),
           UNCHANGED <<gates, replaces, spool, violation, external, late, disturbances>>
    PROVE  SubmissionInv'
<1>1. CASE ~cond
  BY <1>1, ReadStep, StatesAreNamed DEF WriteIf, GoIdle, ledger, NoOperation, Fits, Busy, SubmissionInv, TypeOK
<1>2. CASE cond
  <2> DEFINE o == [pc |-> next, t |-> t, from |-> s]
  <2>1. Write(t, s) /\ worker' = [worker EXCEPT ![w] = o]
    BY <1>2 DEF WriteIf, Goto
  <2>2. Fits(o, spool')
    BY DEF Fits, Operation, Places, Busy
  <2>3. \A u \in Txns : Kept(u) => Kept(u)'
    BY <1>2, <2>1, RecordsMove DEF Kept, SubmissionInv
  <2>4. o.pc = "send" => Kept(t)'
    BY <2>1, RecordsMove DEF Kept, SubmissionInv
  <2> HIDE DEF o
  <2>5. o.pc = next /\ o.t = t
    BY DEF o
  <2>6. txn' \in [Txns -> TxnStates] /\ intent' \in [Txns -> TxnStates]
    BY <2>1, RecordsMove DEF SubmissionInv
  <2> QED BY <2>1, <2>2, <2>3, <2>4, <2>5, <2>6, WorkerStep DEF SubmissionInv, TypeOK, OneCallLeft, external
<1> QED BY <1>1, <1>2

(* Preparing, signing and spooling. *)
LEMMA SigningStep ==
    ASSUME SubmissionInv, NEW w \in Workers, Signing(w)
    PROVE  SubmissionInv'
<1> USE DEF SubmissionInv
<1> DEFINE t == worker[w].t
<1>0. worker[w].pc \in Busy => t \in Txns
  BY DEF BusyHasTxn
<1>1. ASSUME NEW answered \in BOOLEAN, ObtainSigned(w, answered)
      PROVE  SubmissionInv'
  <2>1. t \in Txns /\ late[w] \in Nat /\ (mode \in Stopped => late[w] = 0)
    BY <1>0, <1>1 DEF ObtainSigned, IsAt, Busy, Places, OneCallLeft, TypeOK
  <2>2. PICK o \in {[pc |-> "signed", t |-> t, from |-> None], NoOperation} : worker' = [worker EXCEPT ![w] = o]
    BY <1>1 DEF ObtainSigned, Goto, GoIdle
  <2>3. Fits(o, spool') /\ o.pc \notin {"sign", "gated", "send"}
    BY <2>1, <2>2, StatesAreNamed DEF Fits, Operation, NoOperation, Busy, Places
  <2>4. /\ late' \in [Workers -> Nat] /\ late'[w] <= 1
        /\ \A v \in Workers : v # w => late'[v] = late[v]
    BY <1>1, <2>1 DEF ObtainSigned, Late, TypeOK, OneCallLeft
  <2>5. \A u \in Txns : Kept(u) => Kept(u)'
    BY <1>1 DEF ObtainSigned, ledger, Kept
  <2>6. results' \subseteq Txns
    BY <1>1, <2>1 DEF ObtainSigned, SignTransaction, TypeOK
  <2> QED BY <1>1, <2>2, <2>3, <2>4, <2>5, <2>6, WorkerStep DEF ObtainSigned, TypeOK, ledger
<1>2. CASE RecordSignerReturn(w)
  <2>1. t \in Txns
    BY <1>0, <1>2 DEF RecordSignerReturn, IsAt, Busy, Places
  <2>2. PICK o \in {[pc |-> "spool", t |-> t, from |-> None], NoOperation} : worker' = [worker EXCEPT ![w] = o]
    BY <1>2 DEF RecordSignerReturn, Goto, GoIdle
  <2>3. Fits(o, spool') /\ o.pc \notin {"sign", "gated", "send"}
    BY <2>1, <2>2, StatesAreNamed DEF Fits, Operation, NoOperation, Busy, Places
  <2>4. \A u \in Txns : Kept(u) => Kept(u)'
    BY <1>2, <2>1 DEF RecordSignerReturn, ledger, Kept, Sent, TypeOK
  <2>5. txn' \in [Txns -> TxnStates]
    BY <1>2, <2>1 DEF RecordSignerReturn, TypeOK, TxnStates
  <2> QED BY <1>2, <2>2, <2>3, <2>4, <2>5, WorkerStep DEF RecordSignerReturn, TypeOK, OneCallLeft, external
<1>3. CASE PersistSigned(w)
  <2>1. t \in Txns
    BY <1>0, <1>3 DEF PersistSigned, IsAt, Busy, Places
  <2> DEFINE o == [pc |-> "reference", t |-> t, from |-> None]
  <2>2. worker' = [worker EXCEPT ![w] = o]
    BY <1>3 DEF PersistSigned, Goto
  <2>3. Fits(o, spool') /\ o.pc \notin {"sign", "gated", "send"}
    BY <2>1, StatesAreNamed DEF Fits, Operation, Busy, Places
  <2>4. /\ spool' \in [Txns -> {"absent", "temporary", "present"}]
        /\ \A u \in Txns : spool[u] = "present" => spool'[u] = "present"
    BY <1>3, <2>1 DEF PersistSigned, TypeOK
  <2>5. \A u \in Txns : Kept(u) => Kept(u)'
    BY <1>3, <2>4 DEF PersistSigned, Kept
  <2> HIDE DEF o
  <2> QED BY <1>3, <2>2, <2>3, <2>4, <2>5, WorkerStep DEF PersistSigned, TypeOK, OneCallLeft, external
<1>4. CASE RecordReference(w)
  <2>1. t \in Txns
    BY <1>0, <1>4 DEF RecordReference, IsAt, Busy, Places
  <2>2. txn[t] = "signer_return" => txn[t] \notin Sent
    BY DEF Sent
  <2>3. (txn[t] = "signer_return") \in BOOLEAN /\ "signed_hash_persisted" \in TxnStates
    BY DEF TxnStates
  <2> QED BY <1>4, <2>1, <2>2, <2>3, WriteStep DEF RecordReference
<1>5. ASSUME NEW u \in Txns, StartSign(w, u)
      PROVE  SubmissionInv'
  <2> DEFINE o == [pc |-> "sign", t |-> u, from |-> txn[u]]
  <2>1. Fits(o, spool) /\ mode \notin Stopped
    BY <1>5 DEF StartSign, Revalidate, Fits, Operation, Busy, Places, TypeOK
  <2> QED BY <1>5, <2>1, ReadStep DEF StartSign, Goto, TypeOK
<1> QED BY <1>1, <1>2, <1>3, <1>4, <1>5 DEF Signing

(* The gates, the broadcast and its answer. *)
LEMMA BroadcastingStep ==
    ASSUME SubmissionInv, NEW w \in Workers, Broadcasting(w)
    PROVE  SubmissionInv'
<1> USE DEF SubmissionInv
<1> DEFINE t == worker[w].t
<1>0. worker[w].pc \in Busy => t \in Txns
  BY DEF BusyHasTxn
<1>1. CASE RecordBroadcast(w)
  <2>1. t \in Txns /\ spool[t] = "present" /\ (mode \in Stopped => late[w] = 0)
    BY <1>0, <1>1 DEF RecordBroadcast, IsAt, Busy, Places, GatedIsSpooled, OneCallLeft
  <2>2. "broadcast_unknown" \in Sent /\ "broadcast_unknown" \in TxnStates
    BY DEF Sent, TxnStates
  <2> DEFINE cond == txn[t] \in Allowed({worker[w].from})
  <2>3. WriteIf(cond, w, t, "broadcast_unknown", "send") /\ cond \in BOOLEAN
    BY <1>1 DEF RecordBroadcast
  <2> HIDE DEF cond
  <2> QED BY <1>1, <2>1, <2>2, <2>3, WriteStep DEF RecordBroadcast
<1>2. CASE RecordSubmitted(w)
  <2>1. t \in Txns
    BY <1>0, <1>2 DEF RecordSubmitted, IsAt, Busy, Places
  <2>2. "submitted" \in Sent /\ "submitted" \in TxnStates
    BY DEF Sent, TxnStates
  <2> QED BY <1>2, <2>1, <2>2, WriteStep DEF RecordSubmitted
<1>3. ASSUME NEW u \in Txns, StartBroadcast(w, u)
      PROVE  SubmissionInv'
  <2> DEFINE o == [pc |-> "gated", t |-> u, from |-> txn[u]]
  <2>1. Fits(o, spool) /\ mode \notin Stopped
    BY <1>3 DEF StartBroadcast, Revalidate, Fits, Operation, Busy, Places, TypeOK
  <2> QED BY <1>3, <2>1, ReadStep DEF StartBroadcast, Goto, TypeOK
<1>4. ASSUME NEW taken \in BOOLEAN, NEW accepted \in BOOLEAN, Broadcast(w, taken, accepted)
      PROVE  SubmissionInv'
  <2>1. t \in Txns /\ Kept(t) /\ late[w] \in Nat /\ (mode \in Stopped => late[w] = 0)
    BY <1>0, <1>4 DEF Broadcast, IsAt, Busy, Places, OneCallLeft, SentIsKept, TypeOK
  <2>2. PICK o \in {[pc |-> "ack", t |-> t, from |-> None], NoOperation} : worker' = [worker EXCEPT ![w] = o]
    BY <1>4 DEF Broadcast, Goto, GoIdle
  <2>3. Fits(o, spool') /\ o.pc \notin {"sign", "gated", "send"}
    BY <2>1, <2>2, StatesAreNamed DEF Fits, Operation, NoOperation, Busy, Places
  <2>4. /\ late' \in [Workers -> Nat] /\ late'[w] <= 1
        /\ \A v \in Workers : v # w => late'[v] = late[v]
    BY <1>4, <2>1 DEF Broadcast, Late, TypeOK, OneCallLeft
  <2>5. \A u \in Txns : Kept(u) => Kept(u)'
    BY <1>4 DEF Broadcast, ledger, Kept
  <2>6. pool' \subseteq Txns /\ \A u \in pool' : u \in pool \/ Kept(u)'
    BY <1>4, <2>1, <2>5 DEF Broadcast, TypeOK
  <2> QED BY <1>4, <2>2, <2>3, <2>4, <2>5, <2>6, WorkerStep DEF Broadcast, TypeOK, ledger
<1> QED BY <1>1, <1>2, <1>3, <1>4 DEF Broadcasting

(* Asking the node what became of a pending transaction. *)
LEMMA ResolvingStep ==
    ASSUME SubmissionInv, NEW w \in Workers, Resolving(w)
    PROVE  SubmissionInv'
<1> USE DEF SubmissionInv
<1> DEFINE t == worker[w].t
<1>0. worker[w].pc \in Busy => t \in Txns
  BY DEF BusyHasTxn
<1>1. ASSUME NEW u \in Txns, NEW found \in BOOLEAN, Resolve(w, u, found)
      PROVE  SubmissionInv'
  <2>1. PICK pc \in {"submitted", "included", "conflict"} :
              worker' = [worker EXCEPT ![w] = [pc |-> pc, t |-> u, from |-> txn[u]]]
    BY <1>1 DEF Resolve, Goto
  <2> DEFINE o == [pc |-> pc, t |-> u, from |-> txn[u]]
  <2>2. Fits(o, spool) /\ o.pc \notin {"send", "sign", "gated"}
    BY <1>1 DEF Resolve, Fits, Operation, Busy, Places, TypeOK, Pending
  <2> QED BY <1>1, <2>1, <2>2, ReadStep DEF Resolve, TypeOK
<1>2. ASSUME NEW to \in {"submitted", "included"}, Advance(w, to)
      PROVE  SubmissionInv'
  <2>1. t \in Txns
    BY <1>0, <1>2 DEF Advance, IsAt, Busy, Places
  <2>2. to \in Sent /\ to \in TxnStates
    BY DEF Sent, TxnStates
  <2> QED BY <1>2, <2>1, <2>2, WriteStep DEF Advance
<1>3. CASE RecordConflict(w)
  <2>1. t \in Txns
    BY <1>0, <1>3 DEF RecordConflict, IsAt, Busy, Places
  <2> DEFINE o == [pc |-> "halt", t |-> t, from |-> None]
  <2>2. Fits(o, spool) /\ o.pc \notin {"send", "sign", "gated"}
    BY <2>1, StatesAreNamed DEF Fits, Operation, Busy, Places
  <2> QED BY <1>3, <2>2, ReadStep DEF RecordConflict, Goto
<1>4. CASE RefuseReplacement(w)
  <2>1. Fits(NoOperation, spool) /\ NoOperation.pc \notin {"send", "sign", "gated"}
    BY StatesAreNamed DEF Fits, NoOperation, Busy
  <2> QED BY <1>4, <2>1, ReadStep DEF RefuseReplacement, GoIdle, TypeOK
<1>5. ASSUME NEW prior \in Txns, StartReplacement(w, prior)
      PROVE  SubmissionInv'
  <2> DEFINE o == [pc |-> "replace", t |-> prior, from |-> txn[prior]]
  <2>1. Fits(o, spool) /\ o.pc \notin {"send", "sign", "gated"}
    BY DEF Fits, Operation, Busy, Places, TypeOK
  <2> QED BY <1>5, <2>1, ReadStep DEF StartReplacement, Goto, TypeOK
<1>6. CASE HaltConflict(w)
  <2>1. /\ worker' \in [Workers -> Operation] /\ worker'[w] = NoOperation
        /\ \A v \in Workers : v # w => worker'[v] = worker[v]
    BY <1>6, WorkerMoves, StatesAreNamed DEF HaltConflict, GoIdle
  <2>2. mode' \in {mode, "halted"} /\ (mode' # mode => \A v \in Workers : late'[v] = 0)
    BY <1>6 DEF HaltConflict, SetMode, gates, Stopped
  <2>3. late' \in [Workers -> Nat] /\ \A v \in Workers : late'[v] \in {0, late[v]}
    BY <1>6 DEF HaltConflict, SetMode, TypeOK
  <2>4. UNCHANGED <<approval, lapsed, attempt, lease, ledger, violation, external, disturbances>>
    BY <1>6 DEF HaltConflict, SetMode, gates
  <2>5. TypeOK'
    BY <2>1, <2>2, <2>3, <2>4 DEF TypeOK, Operation, ledger, external
  <2>6. BusyHasTxn' /\ ResolvesPending' /\ GatedIsSpooled' /\ SentIsKept'
    BY <2>1, <2>4 DEF BusyHasTxn, ResolvesPending, GatedIsSpooled, SentIsKept, Kept, IsAt, NoOperation, Busy, ledger, external
  <2>7. OneCallLeft'
    BY <2>1, <2>2, <2>3 DEF OneCallLeft, NoOperation
  <2> QED BY <2>5, <2>6, <2>7
<1>7. ASSUME NEW u \in Txns, PrepareReplacement(w, u)
      PROVE  SubmissionInv'
  <2>1. /\ worker' \in [Workers -> Operation] /\ worker'[w] = NoOperation
        /\ \A v \in Workers : v # w => worker'[v] = worker[v]
    BY <1>7, WorkerMoves, StatesAreNamed DEF PrepareReplacement, GoIdle
  <2>2. t \in Txns
    BY <1>0, <1>7 DEF PrepareReplacement, IsAt, Busy, Places
  <2>3. TypeOK' /\ SentIsKept'
    BY <1>7, <2>1, <2>2, PrepareKeeps DEF PrepareReplacement, NoOperation
  <2>4. BusyHasTxn' /\ ResolvesPending' /\ GatedIsSpooled' /\ OneCallLeft'
    BY <1>7, <2>1 DEF PrepareReplacement, PrepareIntent, BusyHasTxn, ResolvesPending, GatedIsSpooled, OneCallLeft,
       IsAt, NoOperation, Busy, gates
  <2> QED BY <2>3, <2>4
<1> QED BY <1>1, <1>2, <1>3, <1>4, <1>5, <1>6, <1>7 DEF Resolving

-----------------------------------------------------------------------------
(* Every step keeps the invariant. *)
LEMMA SubmissionStep ==
    ASSUME SubmissionInv, [Next]_vars
    PROVE  SubmissionInv'
<1>1. CASE UNCHANGED vars
  BY <1>1 DEF vars, ledger, external, SubmissionInv, TypeOK, BusyHasTxn, SentIsKept, Kept, GatedIsSpooled,
     OneCallLeft, ResolvesPending, IsAt
<1>2. CASE Next
  BY <1>2, OperatorStep, LedgerStep, EnvironmentStep, SigningStep, BroadcastingStep, ResolvingStep DEF Next
<1> QED BY <1>1, <1>2

(* Nothing is prepared or sent at first. *)
LEMMA SubmissionInit == Init => SubmissionInv
<1> SUFFICES ASSUME Init PROVE SubmissionInv
  OBVIOUS
<1>1. approval = {} /\ lapsed = {} /\ results = {} /\ pool = {} /\ \A w \in Workers : worker[w] = NoOperation
  BY DEF Init
<1>2. TypeOK
  <2>1. worker \in [Workers -> Operation]
    BY StatesAreNamed DEF Init
  <2>2. txn \in [Txns -> TxnStates] /\ intent \in [Txns -> TxnStates]
    BY DEF Init, TxnStates
  <2>3. disturbances \in 0..MaxDisturbances
    BY SubmissionConstants DEF Init
  <2>4. replaces \in [Txns -> Txns \cup {None}] /\ spentBy \in Txns \cup {None, "foreign"}
    BY DEF Init
  <2>5. mode = "running" /\ violation = FALSE /\ attempt = "in_flight" /\ lease = "active"
    BY DEF Init
  <2>6. late \in [Workers -> Nat] /\ spool \in [Txns -> {"absent", "temporary", "present"}]
    BY DEF Init
  <2> QED BY <1>1, <2>1, <2>2, <2>3, <2>4, <2>5, <2>6 DEF TypeOK, Operation
<1>3. BusyHasTxn /\ SentIsKept /\ GatedIsSpooled /\ OneCallLeft /\ ResolvesPending
  BY <1>1 DEF Init, NoOperation, BusyHasTxn, Busy, SentIsKept, GatedIsSpooled, OneCallLeft, ResolvesPending, IsAt
<1> QED BY <1>2, <1>3 DEF SubmissionInv

(* No single step takes a transaction that is included or final back: the  *)
(* writers recheck the record, and what a resolution compares it with is a *)
(* pending state.                                                          *)
KeepsProgress ==
    \A t \in Txns : txn[t] \in {"included", "finalized"} => txn'[t] \in {txn[t], "finalized", "orphaned"}

(* A conditional write that spares what is included or final takes no      *)
(* lineage back.                                                           *)
LEMMA OneWriter ==
    ASSUME SubmissionInv, NEW w \in Workers, NEW cond, NEW t \in Txns, NEW s \in TxnStates, NEW next,
           WriteIf(cond, w, t, s, next), cond => txn[t] \notin {"included", "finalized"}
    PROVE  KeepsProgress
BY DEF WriteIf, Write, KeepsProgress, SubmissionInv, TypeOK

(* No worker's step takes a lineage back. *)
LEMMA WorkerKeepsProgress ==
    ASSUME SubmissionInv, NEW w \in Workers, Signing(w) \/ Broadcasting(w) \/ Resolving(w)
    PROVE  KeepsProgress
<1> DEFINE t == worker[w].t
<1>0. worker[w].pc \in Busy => t \in Txns
  BY DEF SubmissionInv, BusyHasTxn
<1>1. CASE RecordSignerReturn(w)
  BY <1>0, <1>1 DEF RecordSignerReturn, IsAt, Busy, Places, KeepsProgress, SubmissionInv, TypeOK
<1>2. CASE RecordReference(w)
  BY <1>0, <1>2, OneWriter DEF RecordReference, IsAt, Busy, Places, TxnStates
<1>3. CASE RecordBroadcast(w)
  BY <1>0, <1>3, OneWriter DEF RecordBroadcast, IsAt, Busy, Places, TxnStates, Sent, Allowed
<1>4. CASE RecordSubmitted(w)
  BY <1>0, <1>4, OneWriter DEF RecordSubmitted, IsAt, Busy, Places, TxnStates, Sent
<1>5. ASSUME NEW to \in {"submitted", "included"}, Advance(w, to)
      PROVE  KeepsProgress
  <2>1. t \in Txns /\ worker[w].from \in Pending
    BY <1>0, <1>5 DEF Advance, IsAt, Busy, Places, SubmissionInv, ResolvesPending
  <2> QED BY <1>5, <2>1, OneWriter DEF Advance, Pending, TxnStates, Sent
<1>6. ASSUME NEW u \in Txns, PrepareReplacement(w, u)
      PROVE  KeepsProgress
  BY <1>6 DEF PrepareReplacement, PrepareIntent, KeepsProgress, SubmissionInv, TypeOK
<1>7. CASE UNCHANGED txn
  BY <1>7 DEF KeepsProgress
<1> QED
  BY <1>1, <1>2, <1>3, <1>4, <1>5, <1>6, <1>7
     DEF Signing, Broadcasting, Resolving, ObtainSigned, PersistSigned, StartSign, StartBroadcast, Broadcast,
         Resolve, RecordConflict, HaltConflict, SetMode, RefuseReplacement, StartReplacement, ledger

(* No step takes a lineage back. *)
LEMMA StepKeepsProgress ==
    ASSUME SubmissionInv, [Next]_vars
    PROVE  KeepsProgress
<1>1. ASSUME NEW t \in Txns, PrepareFirst(t) \/ Observe(t) \/ Orphan(t)
      PROVE  KeepsProgress
  BY <1>1 DEF PrepareFirst, PrepareIntent, Observe, Orphan, Write, KeepsProgress, SubmissionInv, TypeOK
<1>2. CASE UNCHANGED txn
  BY <1>2 DEF KeepsProgress
<1>3. CASE Operator \/ Environment \/ EndAttempt \/ SettleLease \/ RecoverSpool
  BY <1>2, <1>3 DEF Operator, Drain, Halt, Revoke, Resume, SetMode, ConsumeApproval, RevokeApproval,
     Environment, Lapse, SpendNonce, Reorganise, Crash, EndAttempt, SettleLease, RecoverSpool, ledger
<1> QED BY <1>1, <1>2, <1>3, WorkerKeepsProgress DEF Next, Ledger, vars, ledger

(* The inductive invariant of the submission.                              *)
THEOREM SubmissionInvariant == Spec => []SubmissionInv
<1>1. SubmissionInv /\ [Next]_vars => SubmissionInv'
  BY SubmissionStep
<1> QED BY SubmissionInit, <1>1, PTL DEF Spec

(* Whatever the network may hold, the ledger knows as sent and still has   *)
(* the bytes of (broadcast, PrivateSpool.persist, recover_spool), for any  *)
(* number of workers, replacements and crashes.                            *)
THEOREM BroadcastRecorded == Spec => []BroadcastIsRecorded
<1>1. SubmissionInv => BroadcastIsRecorded
  BY DEF SubmissionInv, SentIsKept, Kept, BroadcastIsRecorded
<1> QED BY SubmissionInvariant, <1>1, PTL

(* After a stop each worker finishes the one call it was gated for         *)
(* (revalidate), however often the run is stopped and resumed.             *)
THEOREM LateSends == Spec => []LateSendsBounded
<1>1. SubmissionInv => LateSendsBounded
  BY DEF SubmissionInv, OneCallLeft, LateSendsBounded
<1> QED BY SubmissionInvariant, <1>1, PTL

(* No late writer takes an included or finalised transaction back to       *)
(* pending (broadcast, _advance, _advance_observation).                    *)
THEOREM ProgressKept == Spec => NoRegress
<1>1. SubmissionInv /\ [Next]_vars => [KeepsProgress]_vars
  BY StepKeepsProgress
<1> QED BY SubmissionInvariant, <1>1, PTL DEF Spec, NoRegress, KeepsProgress

-----------------------------------------------------------------------------
(* The native runners: facts about numbers and sequences.                  *)

(* A set of numbers has a least one.                                       *)
LEMMA LeastNumber ==
  ASSUME NEW S \in SUBSET Nat, S # {}
  PROVE  \E x \in S : \A y \in S : x <= y
<1> DEFINE R == {ss \in Nat \X Nat : ss[1] < ss[2]}
<1>1. IsWellFoundedOn(R, Nat)
  BY NatLessThanWellFounded, Zenon DEF OpToRel
<1> HIDE DEF R
<1>2. PICK x \in S : \A y \in S : ~(<<y, x>> \in R)
  BY <1>1, WFMin
<1>3. ASSUME NEW y \in S PROVE x <= y
  <2>1. x \in Nat /\ y \in Nat
    OBVIOUS
  <2>2. ~(<<y, x>>[1] < <<y, x>>[2])
    BY <1>2, <2>1 DEF R
  <2> QED BY <2>1, <2>2
<1> QED BY <1>3

(* A finite set of numbers has a greatest one: a smallest subset without   *)
(* one would lose nothing but its greatest element.                        *)
LEMMA GreatestNumber ==
  ASSUME NEW S \in SUBSET Int, IsFiniteSet(S), S # {}
  PROVE  \E x \in S : \A y \in S : y <= x
<1> DEFINE Topless(T) == T # {} /\ ~\E x \in T : \A y \in T : y <= x
           Sizes == {Cardinality(T) : T \in {U \in SUBSET S : Topless(U)}}
<1>1. SUFFICES ASSUME Topless(S) PROVE FALSE
  BY Zenon
<1>2. \A T \in SUBSET S : IsFiniteSet(T) /\ Cardinality(T) \in Nat
  BY FS_Subset, FS_CardinalityType
<1>3. Sizes \subseteq Nat /\ Sizes # {}
  BY <1>1, <1>2
<1>4. PICK c \in Sizes : \A d \in Sizes : c <= d
  BY <1>3, LeastNumber
<1>5. PICK T \in SUBSET S : Topless(T) /\ Cardinality(T) = c
  BY <1>4
<1>6. PICK x \in T : TRUE
  BY <1>5
<1> DEFINE U == T \ {x}
<1>7. U \in SUBSET S /\ Cardinality(U) = c - 1
  BY <1>2, <1>5, <1>6, FS_RemoveElement
<1>8. ~Topless(U)
  <2>1. Topless(U) => Cardinality(U) \in Sizes
    BY <1>7
  <2>2. c \in Int
    BY <1>3, <1>4
  <2> QED BY <2>1, <2>2, <1>4, <1>7
<1>9. CASE U = {}
  <2>1. T = {x}
    BY <1>6, <1>9
  <2> QED BY <1>5, <2>1
<1>10. CASE U # {}
  <2>1. PICK m \in U : \A y \in U : y <= m
    BY <1>8, <1>10
  <2>2. x \in Int /\ m \in Int /\ T = U \cup {x} /\ m \in T
    BY <1>6, <2>1
  <2>3. \A y \in T : y <= (IF m <= x THEN x ELSE m)
    BY <2>1, <2>2
  <2> QED BY <1>5, <1>6, <2>2, <2>3
<1> QED BY <1>9, <1>10

(* The greatest member of a finite set, or the default. *)
LEMMA SupOrFacts ==
  ASSUME NEW S \in SUBSET Int, IsFiniteSet(S), NEW d \in Int
  PROVE  /\ SupOr(S, d) \in S \cup {d}
         /\ \A x \in S : x <= SupOr(S, d)
<1>1. CASE S = {}
  BY <1>1 DEF SupOr
<1>2. CASE S # {}
  BY <1>2, GreatestNumber DEF SupOr
<1> QED BY <1>1, <1>2

(* A concatenation of sequences is reached by appending one after another. *)
LEMMA FlattenSteps ==
  ASSUME NEW T, NEW s \in Seq(Seq(T)), Len(s) # 0
  PROVE  \E F \in [1..Len(s) -> Seq(T)] :
           /\ FlattenSeq(s) = F[Len(s)]
           /\ \A n \in 1..Len(s) : F[n] = IF n = 1 THEN s[n] ELSE F[n - 1] \o s[n]
<1> DEFINE L == Len(s)
<1> DEFINE Upto(f, n) == f = [i \in 1..n |-> IF i = 1 THEN s[i] ELSE f[i-1] \o s[i]]
           Good(n) == \E f \in [1..n -> Seq(T)] : Upto(f, n)
           Bad == {n \in 1..L : ~Good(n)}
<1>1. Bad = {}
  <2>1. SUFFICES ASSUME Bad # {} PROVE FALSE
    OBVIOUS
  <2>2. PICK n \in Bad : \A m \in Bad : n <= m
    <3> HIDE DEF Good
    <3>1. Bad \in SUBSET Nat
      OBVIOUS
    <3> HIDE DEF Bad
    <3> QED BY <2>1, <3>1, LeastNumber
  <2>3. n \in Nat /\ n >= 1 /\ n <= L /\ L \in Nat
    OBVIOUS
  <2>4. CASE n = 1
    <3> DEFINE f == [i \in 1..1 |-> s[i]]
    <3>1. f \in [1..1 -> Seq(T)]
      BY <2>3
    <3>2. \A i \in 1..1 : i = 1
      OBVIOUS
    <3>3. Upto(f, 1)
      <4>1. [i \in 1..1 |-> IF i = 1 THEN s[i] ELSE f[i-1] \o s[i]] = [i \in 1..1 |-> s[i]]
        <5>1. \A i \in 1..1 : (IF i = 1 THEN s[i] ELSE f[i-1] \o s[i]) = s[i]
          BY <3>2, Zenon
        <5> HIDE DEF f
        <5> QED BY <5>1
      <4> QED BY <4>1
    <3>4. Good(n)
      <4> HIDE DEF f, Upto
      <4> QED BY <2>4, <3>1, <3>3
    <3> QED BY <2>2, <3>4
  <2>5. CASE n # 1
    <3>1. n - 1 \in 1..L /\ n - 1 \in 1..n /\ n - 1 # n /\ Good(n - 1)
      <4> HIDE DEF Good, L
      <4>1. n - 1 \in 1..L /\ n - 1 \in 1..n /\ n - 1 # n /\ ~(n <= n - 1)
        BY <2>3, <2>5
      <4> QED BY <2>2, <4>1
    <3>2. PICK g \in [1..(n-1) -> Seq(T)] : Upto(g, n - 1)
      BY <3>1
    <3> DEFINE f == [i \in 1..n |-> IF i = n THEN g[n-1] \o s[n] ELSE g[i]]
    <3>3. f \in [1..n -> Seq(T)]
      <4>1. g[n-1] \in Seq(T) /\ s[n] \in Seq(T)
        BY <2>3, <3>1, <3>2
      <4>2. g[n-1] \o s[n] \in Seq(T)
        BY <4>1
      <4> HIDE DEF Upto
      <4>3. ASSUME NEW i \in 1..n, i # n PROVE g[i] \in Seq(T)
        BY <2>3, <3>2, <4>3
      <4> QED BY <4>2, <4>3
    <3>4. ASSUME NEW i \in 1..n
          PROVE  f[i] = IF i = 1 THEN s[i] ELSE f[i-1] \o s[i]
      <4>1. CASE i = n
        <5>1. f[i] = g[n-1] \o s[n]
          BY <4>1
        <5>2. f[n-1] = g[n-1]
          BY <3>1
        <5>3. i # 1
          BY <2>5, <4>1
        <5> HIDE DEF f
        <5> QED BY <4>1, <5>1, <5>2, <5>3
      <4>2. CASE i # n
        <5>1. i \in 1..(n-1) /\ f[i] = g[i] /\ (i # 1 => i - 1 \in 1..(n-1) /\ f[i-1] = g[i-1])
          BY <2>3, <4>2
        <5>2. g[i] = IF i = 1 THEN s[i] ELSE g[i-1] \o s[i]
          BY <3>2, <5>1, Zenon
        <5> QED BY <5>1, <5>2
      <4> QED BY <4>1, <4>2
    <3>5. Upto(f, n)
      BY <3>4
    <3>6. Good(n)
      <4> HIDE DEF f, Upto
      <4> QED BY <3>3, <3>5
    <3> QED BY <2>2, <3>6
  <2> QED BY <2>4, <2>5
<1>2. L \in 1..L
  OBVIOUS
<1>3. PICK f \in [1..L -> Seq(T)] : Upto(f, L)
  BY <1>1, <1>2
<1> DEFINE F == CHOOSE f_1 : Upto(f_1, L)
<1>4. Upto(F, L)
  <2> HIDE DEF Upto
  <2> QED BY <1>3
<1>5. FlattenSeq(s) = F[L]
  BY DEF FlattenSeq
<1> HIDE DEF F
<1>6. ASSUME NEW n \in 1..L PROVE F[n] = IF n = 1 THEN s[n] ELSE F[n-1] \o s[n]
  BY <1>4, Zenon
<1> HIDE DEF Upto
<1> DEFINE Wrong == {n \in 1..L : F[n] \notin Seq(T)}
<1>7. Wrong = {}
  <2>1. SUFFICES ASSUME Wrong # {} PROVE FALSE
    OBVIOUS
  <2>2. Wrong \in SUBSET Nat
    OBVIOUS
  <2>3. PICK n \in Wrong : \A m \in Wrong : n <= m
    BY <2>1, <2>2, LeastNumber
  <2>4. n \in 1..L /\ F[n] \notin Seq(T) /\ s[n] \in Seq(T)
    OBVIOUS
  <2>5. ASSUME n # 1 PROVE F[n-1] \in Seq(T)
    <3>1. n - 1 \in 1..L /\ ~(n <= n - 1)
      BY <2>4, <2>5
    <3> QED BY <2>3, <3>1
  <2>6. F[n] = IF n = 1 THEN s[n] ELSE F[n-1] \o s[n]
    BY <1>6, <2>4
  <2>7. CASE n = 1
    BY <2>4, <2>6, <2>7
  <2>8. CASE n # 1
    <3>1. F[n-1] \o s[n] \in Seq(T)
      BY <2>4, <2>5, <2>8
    <3> QED BY <2>4, <2>6, <2>8, <3>1
  <2> QED BY <2>7, <2>8
<1>8. F \in [1..L -> Seq(T)]
  <2>1. F = [i \in 1..L |-> IF i = 1 THEN s[i] ELSE F[i-1] \o s[i]]
    BY <1>4 DEF Upto
  <2>2. \A n \in 1..L : F[n] \in Seq(T)
    BY <1>7
  <2> QED BY <2>1, <2>2
<1> QED BY <1>5, <1>6, <1>8

(* The concatenation of sequences of things of one kind is such a sequence.*)
LEMMA FlattenTyped ==
  ASSUME NEW T, NEW s \in Seq(Seq(T))
  PROVE  FlattenSeq(s) \in Seq(T)
<1>1. CASE Len(s) = 0
  <2>1. s = <<>>
    BY <1>1
  <2> QED BY <1>1, <2>1 DEF FlattenSeq
<1>2. CASE Len(s) # 0
  <2>1. Len(s) \in 1..Len(s)
    BY <1>2
  <2> QED BY <1>2, <2>1, FlattenSteps
<1> QED BY <1>1, <1>2
-----------------------------------------------------------------------------
(* The runner's stage table, and what SpentOnce rests on.                  *)

Modes == {"enter", "resend", "fresh", "reserved", "intended", "send", "await", "await_prior",
          "evidence", "effect"}
Ops == {"root", "dispatch", "wait", "record", "deliver"}
States == {"none", "intended", "signed", "failed", "superseded", "succeeded"}
Count == Nat \cup {-1}
ThreadRecs == [pc : {"queued", "running", "raised", "done"}, k : Nat, mode : Modes, n : Count,
               g : Count, retried : BOOLEAN]
RowRecs == [st : States, n : Count, g : Count, ev : BOOLEAN]
Sends == [a : Batch, k : Nat, op : Ops, n : Nat, g : Count]
Blocks == [a : Batch, k : Nat, op : Ops, n : Nat, g : Count, e : Count, ok : BOOLEAN]

KStep == [op : Ops, hop : Nat, role : Roles]

(* The variables that the runner's transactions depend on. *)
StoresTyped ==
  /\ rows = [a \in Batch |-> rows[a]]
  /\ \A a \in Batch : rows[a] \in [1..Len(Plan(a)) -> RowRecs]
  /\ nonces \in [Roles -> Nat] /\ xnext \in Count
  /\ sent \in [Roles -> SUBSET Sends] /\ \A r \in Roles : IsFiniteSet(sent[r])
  /\ mined \in [Roles -> Seq(Blocks)]
RunnerTyped ==
  /\ kind \in Kinds /\ route \in Batches /\ up \in BOOLEAN
  /\ thr \in [Batch -> ThreadRecs]
  /\ \A a \in Batch : thr[a].k \in 1..Len(Plan(a))
  /\ StoresTyped

AtWork(a) == up /\ thr[a].pc = "running"
Settled == {"failed", "succeeded"}
Out(a, k) == rows[a][k].st \in {"signed"} \cup Settled
Holding(a) == AtWork(a) /\ thr[a].mode \in {"reserved", "intended"}

(* The states of the row whose stage a thread is at, by its mode.          *)
RowStates(md) ==
  CASE md = "resend"      -> {"signed", "failed", "superseded"}
    [] md = "fresh"       -> {"superseded"}
    [] md = "reserved"    -> IF kind = "native" THEN {"none", "intended", "superseded"} ELSE {"none"}
    [] md = "intended"    -> {"intended"}
    [] md = "send"        -> {"signed"}
    [] md = "await"       -> {"signed"}
    [] md = "await_prior" -> {"signed", "failed", "superseded"}
    [] md = "evidence"    -> {"succeeded"}
    [] OTHER              -> States

(* The stages at which a thread may be in a mode. *)
ModeFits(md, op) ==
  (md # "enter" => op # "wait") /\ (md = "evidence" => op = "dispatch")

(* What a thread at work knows of its stage and its row.                   *)
ThreadsKnow ==
  \A a \in Batch :
    /\ thr[a].pc = "queued" => thr[a].mode = "enter"
    /\ AtWork(a) =>
         /\ ModeFits(thr[a].mode, At(a).op) /\ Row(a).st \in RowStates(thr[a].mode)
         /\ thr[a].mode \in {"resend", "fresh", "intended"} => kind = "native"
         /\ thr[a].mode = "intended" => thr[a].n = Row(a).n
         /\ thr[a].mode \in {"reserved", "intended"} => thr[a].n \in Nat

(* A row has the numbers of its transaction.  One that ended or was        *)
(* superseded has a nonce the chain has passed.                            *)
RowsHold ==
  \A a \in Batch : \A k \in 1..Len(Plan(a)) :
    /\ rows[a][k].st # "none" => rows[a][k].n \in Nat
    /\ rows[a][k].st \in Settled \cup {"superseded"} => rows[a][k].n < Len(mined[Plan(a)[k].role])
    /\ kind = "multihop" => rows[a][k].st \notin {"intended", "superseded"}

(* What the node took is a stage's transaction, which its row names for as *)
(* long as the chain has not mined it; with the multihop runner for ever.  *)
SentIsRecorded ==
  \A r \in Roles : \A t \in sent[r] :
    /\ t.k \in 1..Len(Plan(t.a)) /\ t.op = Plan(t.a)[t.k].op /\ Plan(t.a)[t.k].role = r
    /\ t.n >= Len(mined[r]) => rows[t.a][t.k].st = "signed"
    /\ t.n >= Len(mined[r]) \/ kind = "multihop" =>
          Out(t.a, t.k) /\ rows[t.a][t.k].n = t.n /\ rows[t.a][t.k].g = t.g

(* The chain has what was sent, at the place of its nonce.                 *)
MinedWasSent ==
  \A r \in Roles : \A i \in 1..Len(mined[r]) :
    /\ mined[r][i].n = i - 1
    /\ \E t \in sent[r] : /\ t.a = mined[r][i].a /\ t.k = mined[r][i].k /\ t.op = mined[r][i].op
                          /\ t.n = i - 1 /\ t.g = mined[r][i].g

(* A nonce of a chain is used by what was sent, by a row, or by a thread   *)
(* that has it in hand.                                                    *)
Uses(r, a, k, n) ==
  \/ \E t \in sent[r] : t.a = a /\ t.k = k /\ t.n = n
  \/ /\ Plan(a)[k].role = r
     /\ \/ Out(a, k) /\ rows[a][k].n = n
        \/ Holding(a) /\ thr[a].k = k /\ thr[a].n = n

NoncesBelow ==
  \A r \in Roles : \A a \in Batch : \A k \in 1..Len(Plan(a)) : \A n \in Nat :
    Uses(r, a, k, n) => n < nonces[r]

NoncesApart ==
  \A r \in Roles : \A a, b \in Batch : \A k \in 1..Len(Plan(a)), l \in 1..Len(Plan(b)) : \A n \in Nat :
    Uses(r, a, k, n) /\ Uses(r, b, l, n) => a = b /\ k = l

NonceInv ==
  RunnerTyped /\ ThreadsKnow /\ RowsHold /\ SentIsRecorded /\ MinedWasSent /\ NoncesBelow /\ NoncesApart

(* The record nonce g and the transaction nonce n that belong to a's root. *)
Root(a, n, g) ==
  \/ rows[a][1].st # "none" /\ rows[a][1].n = n /\ rows[a][1].g = g
  \/ Holding(a) /\ thr[a].k = 1 /\ thr[a].n = n /\ thr[a].g = g

Filled(m) == \E a \in Batch : \E k \in 1..Len(Plan(a)) : Uses(1, a, k, m)

(* Record nonce x belongs to a root before transaction nonce N, or N is    *)
(* never reached: a nonce before it leaked.                                *)
Before(x, N) ==
  \/ \E a \in Batch : \E n \in 0..(N - 1) : Root(a, n, x)
  \/ \E m \in 0..(N - 1) : ~Filled(m)

RootsNumbered ==
  /\ \A a \in Batch : rows[a][1].st = "none" <=> rows[a][1].g = -1
  /\ \A a \in Batch : Holding(a) /\ thr[a].k = 1 => thr[a].g \in Nat
RootsApart ==
  \A a, b \in Batch : \A n, m \in Nat, g \in Nat : Root(a, n, g) /\ Root(b, m, g) => a = b
RootsInOrder ==
  \A a \in Batch : \A n, g \in Nat : Root(a, n, g) => \A x \in 0..(g - 1) : Before(x, n)
NextRoot ==
  /\ xnext = -1 => \A a \in Batch : Holding(a) => thr[a].k # 1
  /\ xnext # -1 => /\ \A a \in Batch : \A n, g \in Nat : Root(a, n, g) => g < xnext
                   /\ \A x \in 0..(xnext - 1) : Before(x, nonces[1])
RootsOnChain ==
  /\ \A i \in 1..Len(mined[1]) : mined[1][i].op = "root" =>
        mined[1][i].ok /\ mined[1][i].e = mined[1][i].g /\ mined[1][i].g \in 0..(GatewayNonce - 1)
  /\ \A x \in 0..(GatewayNonce - 1) :
        \E i \in 1..Len(mined[1]) : mined[1][i].op = "root" /\ mined[1][i].g = x
RootInv ==
  kind = "multihop" /\ "root" \notin MayRevert =>
    RootsNumbered /\ RootsApart /\ RootsInOrder /\ NextRoot /\ RootsOnChain
-----------------------------------------------------------------------------
(* The stage table: it begins with the root, ends with the delivery, and   *)
(* has no other root.                                                      *)

HopStep == [op : Ops \ {"root"}, hop : Nat, role : Roles]

LEMMA RoutesTyped ==
  /\ \A r \in Routes : r \in Seq({"H", "L"}) /\ Len(r) \in Nat /\ Len(r) + 1 <= ChainCount
  /\ ChainCount \in Nat \ {0} /\ Roles = 1..ChainCount /\ 1 \in Roles
<1>1. \A r \in Routes : r \in Seq({"H", "L"}) /\ Len(r) \in Nat
  <2>1. \A b \in Batches : b \in Seq(Seq({"H", "L"}))
    BY NativeConstants
  <2>2. \A b \in Batches : \A r \in Range(b) : r \in Seq({"H", "L"})
    BY <2>1 DEF Range
  <2>3. \A r \in Routes : r \in Seq({"H", "L"})
    BY <2>2 DEF Routes
  <2> QED BY <2>3
<1> DEFINE lengths == {Len(r) : r \in Routes}
<1>2. lengths \in SUBSET Int /\ IsFiniteSet(lengths)
  <2> DEFINE f == [r \in Routes |-> Len(r)]
  <2>1. f \in Surjection(Routes, lengths)
    BY Zenon DEF Surjection
  <2>2. IsFiniteSet(Routes)
    BY NativeConstants
  <2>3. lengths \in SUBSET Int
    BY <1>1
  <2> HIDE DEF f, lengths
  <2> QED BY <2>1, <2>2, <2>3, FS_Surjection
<1>3. /\ SupOr(lengths, 0) \in lengths \cup {0}
      /\ \A x \in lengths : x <= SupOr(lengths, 0)
  <2> HIDE DEF lengths
  <2> QED BY <1>2, SupOrFacts
<1>4. SupOr(lengths, 0) \in Nat
  BY <1>1, <1>3
<1>5. ChainCount = 1 + SupOr(lengths, 0)
  BY DEF ChainCount
<1>6. ASSUME NEW r \in Routes PROVE Len(r) + 1 <= ChainCount
  <2>1. Len(r) \in lengths
    OBVIOUS
  <2>2. Len(r) <= SupOr(lengths, 0) /\ Len(r) \in Nat
    BY <1>1, <1>3, <2>1
  <2> HIDE DEF lengths
  <2> QED BY <1>4, <1>5, <2>2
<1>7. ChainCount \in Nat \ {0} /\ Roles = 1..ChainCount /\ 1 \in Roles
  BY <1>4, <1>5 DEF Roles
<1> QED BY <1>1, <1>6, <1>7

LEMMA PlansTyped ==
  ASSUME NEW r \in Routes
  PROVE  /\ PlanOf[r] \in Seq(KStep) /\ Len(PlanOf[r]) \in Nat /\ Len(PlanOf[r]) >= 2
         /\ PlanOf[r][1] = Step("root", 0, 1)
         /\ PlanOf[r][Len(PlanOf[r])].op = "deliver"
         /\ \A k \in 1..Len(PlanOf[r]) : k # 1 => PlanOf[r][k].op # "root"
<1> DEFINE n == Len(r)
           hops == [i \in 1..Len(r) |-> HopSteps(r, i)]
           middle == FlattenSeq(hops)
           last == Step("deliver", Len(r), Len(r) + 1)
<1>1. n \in Nat /\ n + 1 <= ChainCount /\ ChainCount \in Nat /\ Roles = 1..ChainCount /\ 1 \in Roles
  BY RoutesTyped
<1>2. ASSUME NEW i \in 1..n PROVE HopSteps(r, i) \in Seq(HopStep)
  <2>1. i \in Nat /\ i \in Roles /\ i + 1 \in Roles /\ i + 1 \in Nat
    BY <1>1
  <2>2. Step("dispatch", i, i) \in HopStep /\ Step("wait", i, i + 1) \in HopStep
        /\ Step("record", i + 1, i + 1) \in HopStep
    BY <2>1 DEF Step, HopStep, Ops
  <2> HIDE DEF n
  <2>3. <<Step("dispatch", i, i), Step("wait", i, i + 1)>> \in Seq(HopStep)
        /\ <<Step("record", i + 1, i + 1)>> \in Seq(HopStep) /\ <<>> \in Seq(HopStep)
    BY <2>2
  <2>4. (IF i < Len(r) /\ r[i] # r[i + 1] THEN <<Step("record", i + 1, i + 1)>> ELSE <<>>)
          \in Seq(HopStep)
    BY <2>3
  <2> QED BY <2>3, <2>4 DEF HopSteps
<1>3. hops \in Seq(Seq(HopStep))
  BY <1>1, <1>2
<1>4. middle \in Seq(HopStep)
  <2> HIDE DEF hops
  <2> QED BY <1>3, FlattenTyped
<1>5. Step("root", 0, 1) \in KStep /\ last \in HopStep /\ HopStep \subseteq KStep
  BY <1>1 DEF Step, HopStep, KStep, Ops
<1>6. PlanOf[r] = <<Step("root", 0, 1)>> \o middle \o <<last>>
  BY Zenon DEF PlanOf
<1> HIDE DEF middle, last, n, hops
<1>7. /\ <<Step("root", 0, 1)>> \in Seq(KStep) /\ Len(<<Step("root", 0, 1)>>) = 1
      /\ middle \in Seq(KStep) /\ <<last>> \in Seq(KStep) /\ Len(<<last>>) = 1
      /\ Len(middle) \in Nat
  BY <1>4, <1>5
<1>8. /\ PlanOf[r] \in Seq(KStep) /\ Len(PlanOf[r]) = 2 + Len(middle)
      /\ PlanOf[r][1] = Step("root", 0, 1)
      /\ PlanOf[r][2 + Len(middle)] = last
      /\ \A k \in 2..(1 + Len(middle)) : PlanOf[r][k] = middle[k - 1]
  BY <1>6, <1>7
<1>9. last.op = "deliver"
  BY DEF last, Step
<1>10. ASSUME NEW k \in 1..Len(middle) PROVE middle[k].op # "root"
  <2>1. middle[k] \in HopStep
    BY <1>4
  <2> QED BY <2>1 DEF HopStep
<1>11. ASSUME NEW k \in 1..Len(PlanOf[r]), k # 1 PROVE PlanOf[r][k].op # "root"
  <2>1. k \in 2..(1 + Len(middle)) \/ k = 2 + Len(middle)
    BY <1>7, <1>8, <1>11
  <2>2. CASE k = 2 + Len(middle)
    BY <1>8, <1>9, <2>2
  <2>3. CASE k \in 2..(1 + Len(middle))
    <3>1. k - 1 \in 1..Len(middle) /\ PlanOf[r][k] = middle[k - 1]
      BY <1>7, <1>8, <2>3
    <3> QED BY <1>10, <3>1
  <2> QED BY <2>1, <2>2, <2>3
<1> QED BY <1>7, <1>8, <1>9, <1>11

LEMMA PlanFacts ==
  ASSUME RunnerTyped, NEW a \in Batch
  PROVE  /\ Plan(a) \in Seq(KStep) /\ Len(Plan(a)) \in Nat /\ Len(Plan(a)) >= 2
         /\ Plan(a)[1] = Step("root", 0, 1)
         /\ Plan(a)[Len(Plan(a))].op = "deliver"
         /\ \A k \in 1..Len(Plan(a)) : /\ k # 1 => Plan(a)[k].op # "root"
                                       /\ Plan(a)[k].role \in Roles /\ Plan(a)[k].op \in Ops
                                       /\ k \in Nat
<1>1. route[a] \in Routes
  BY DEF Routes, Range, RunnerTyped, StoresTyped, Batch
<1>2. Plan(a) = PlanOf[route[a]]
  BY DEF Plan
<1>3. /\ Plan(a) \in Seq(KStep) /\ Len(Plan(a)) \in Nat /\ Len(Plan(a)) >= 2
      /\ Plan(a)[1] = Step("root", 0, 1)
      /\ Plan(a)[Len(Plan(a))].op = "deliver"
      /\ \A k \in 1..Len(Plan(a)) : k # 1 => Plan(a)[k].op # "root"
  BY <1>1, <1>2, PlansTyped
<1>4. \A k \in 1..Len(Plan(a)) : Plan(a)[k] \in KStep /\ k \in Nat
  BY <1>3
<1>5. \A s \in KStep : s.role \in Roles /\ s.op \in Ops
  BY DEF KStep
<1> QED BY <1>3, <1>4, <1>5
-----------------------------------------------------------------------------
(* Steps that change what threads know or hold, and no nonce.              *)

LEMMA RouteKeeps ==
  ASSUME route' = route
  PROVE  Batch' = Batch /\ \A a : Plan(a)' = Plan(a)
BY DEF Batch, Plan

LEMMA ThreadFacts ==
  ASSUME RunnerTyped, NEW a \in Batch
  PROVE  /\ thr[a] \in ThreadRecs /\ thr[a].k \in 1..Len(Plan(a)) /\ thr[a].k \in Nat
         /\ At(a) = Plan(a)[thr[a].k] /\ At(a).role \in Roles /\ At(a).op \in Ops
         /\ At(a).op = "root" <=> thr[a].k = 1
         /\ Row(a) = rows[a][thr[a].k] /\ Row(a) \in RowRecs
         /\ Row(a).st \in States /\ Row(a).n \in Count /\ Row(a).g \in Count
<1>1. thr[a] \in ThreadRecs /\ thr[a].k \in 1..Len(Plan(a))
      /\ rows[a] \in [1..Len(Plan(a)) -> RowRecs]
  BY DEF RunnerTyped, StoresTyped
<1>2. thr[a].k \in Nat /\ At(a) = Plan(a)[thr[a].k] /\ At(a).role \in Roles /\ At(a).op \in Ops
  BY <1>1, PlanFacts DEF At
<1>3. At(a).op = "root" <=> thr[a].k = 1
  BY <1>1, <1>2, PlanFacts DEF Step
<1>4. Row(a) = rows[a][thr[a].k] /\ Row(a) \in RowRecs
  BY <1>1 DEF Row
<1> QED BY <1>1, <1>2, <1>3, <1>4 DEF RowRecs

(* A thread moves, and at most its own row is written. *)
LEMMA ThreadMoves ==
  ASSUME RunnerTyped, ThreadsKnow, NEW a \in Batch, NEW t \in ThreadRecs,
         t.k \in 1..Len(Plan(a)), thr' = [thr EXCEPT ![a] = t],
         UNCHANGED <<kind, route, up>>, StoresTyped',
         \A b \in Batch : b # a => rows'[b] = rows[b],
         t.pc = "queued" => t.mode = "enter",
         up /\ t.pc = "running" =>
            /\ ModeFits(t.mode, Plan(a)[t.k].op) /\ rows'[a][t.k].st \in RowStates(t.mode)
            /\ t.mode \in {"resend", "fresh", "intended"} => kind = "native"
            /\ t.mode = "intended" => t.n = rows'[a][t.k].n
            /\ t.mode \in {"reserved", "intended"} => t.n \in Nat
  PROVE  RunnerTyped' /\ ThreadsKnow' /\ thr'[a] = t /\ \A b \in Batch : b # a => thr'[b] = thr[b]
<1>1. Batch' = Batch /\ \A b : Plan(b)' = Plan(b)
  BY RouteKeeps
<1>2. thr' \in [Batch -> ThreadRecs] /\ thr'[a] = t /\ \A b \in Batch : b # a => thr'[b] = thr[b]
  BY DEF RunnerTyped
<1>3. RunnerTyped'
  BY <1>1, <1>2 DEF RunnerTyped
<1>4. ThreadsKnow'
  <2>1. \A m : RowStates(m)' = RowStates(m)
    BY DEF RowStates
  <2>2. AtWork(a)' => up /\ t.pc = "running"
    BY <1>2 DEF AtWork
  <2>3. /\ thr'[a].pc = "queued" => thr'[a].mode = "enter"
        /\ AtWork(a)' => /\ ModeFits(thr'[a].mode, Plan(a)[thr'[a].k].op)
                         /\ Row(a)'.st \in RowStates(thr'[a].mode)
                         /\ thr'[a].mode \in {"resend", "fresh", "intended"} => kind' = "native"
                         /\ thr'[a].mode = "intended" => thr'[a].n = Row(a)'.n
                         /\ thr'[a].mode \in {"reserved", "intended"} => thr'[a].n \in Nat
    BY <1>2, <2>2 DEF Row
  <2>4. ASSUME NEW b \in Batch, b # a
        PROVE  /\ thr'[b].pc = "queued" => thr'[b].mode = "enter"
               /\ AtWork(b)' => /\ ModeFits(thr'[b].mode, Plan(b)[thr'[b].k].op)
                                /\ Row(b)'.st \in RowStates(thr'[b].mode)
                                /\ thr'[b].mode \in {"resend", "fresh", "intended"} => kind' = "native"
                                /\ thr'[b].mode = "intended" => thr'[b].n = Row(b)'.n
                                /\ thr'[b].mode \in {"reserved", "intended"} => thr'[b].n \in Nat
    BY <1>2, <2>4 DEF ThreadsKnow, Row, AtWork, At
  <2> QED BY <1>1, <2>1, <2>3, <2>4 DEF ThreadsKnow, At, ModeFits
<1> QED BY <1>2, <1>3, <1>4

(* No nonce is taken: what is in use was in use before. *)
LEMMA NothingTaken ==
  ASSUME NonceInv, route' = route, nonces' = nonces,
         \A r \in Roles : \A a \in Batch : \A k \in 1..Len(Plan(a)) : \A n \in Nat :
            Uses(r, a, k, n)' => Uses(r, a, k, n)
  PROVE  NoncesBelow' /\ NoncesApart'
<1>1. Batch' = Batch /\ \A b : Plan(b)' = Plan(b)
  BY RouteKeeps
<1>2. NoncesBelow'
  BY <1>1 DEF NonceInv, NoncesBelow
<1>3. NoncesApart'
  BY <1>1 DEF NonceInv, NoncesApart
<1> QED BY <1>2, <1>3

(* A root's nonce is in use. *)
LEMMA RootUses ==
  ASSUME NonceInv, kind = "multihop", NEW a \in Batch, NEW n, NEW g, Root(a, n, g)
  PROVE  Uses(1, a, 1, n)
<1>1. 1 \in 1..Len(Plan(a)) /\ Plan(a)[1].role = 1
  BY PlanFacts DEF NonceInv, Step
<1>2. rows[a][1].st # "none" => Out(a, 1)
  <2>1. rows[a][1] \in RowRecs
    BY <1>1 DEF NonceInv, RunnerTyped, StoresTyped
  <2> QED BY <1>1, <2>1 DEF NonceInv, RowsHold, RowRecs, States, Out, Settled
<1> QED BY <1>1, <1>2 DEF Root, Uses

(* Roots keep their order when some only lose their nonce.                 *)
LEMMA RootsShrink ==
  ASSUME NonceInv, RootInv, kind = "multihop", "root" \notin MayRevert, kind' = kind, route' = route,
         \A a \in Batch : \A n, g \in Nat : Root(a, n, g)' => Root(a, n, g),
         \A a \in Batch : \A k \in 1..Len(Plan(a)) : \A n \in Nat :
            Uses(1, a, k, n)' => Uses(1, a, k, n),
         \A a \in Batch : \A n, g \in Nat :
            Root(a, n, g) /\ Uses(1, a, 1, n)' => Root(a, n, g)'
  PROVE  /\ RootsApart' /\ RootsInOrder'
         /\ \A N \in Nat, x \in Nat : Before(x, N) => Before(x, N)'
         /\ \A m \in Nat : Filled(m)' => Filled(m)
<1>1. Batch' = Batch /\ \A b : Plan(b)' = Plan(b)
  BY RouteKeeps
<1>2. RootsApart /\ RootsInOrder
  BY DEF RootInv
<1>3. \A m \in Nat : Filled(m)' => Filled(m)
  BY <1>1 DEF Filled
<1>4. ASSUME NEW N \in Nat, NEW x \in Nat, Before(x, N) PROVE Before(x, N)'
  <2>1. CASE \E m \in 0..(N - 1) : ~Filled(m)
    <3>1. PICK m \in 0..(N - 1) : ~Filled(m)
      BY <2>1
    <3>2. m \in Nat /\ ~Filled(m)'
      BY <1>3, <3>1
    <3> QED BY <3>2 DEF Before
  <2>2. CASE \E a \in Batch : \E n \in 0..(N - 1) : Root(a, n, x)
    <3>1. PICK a \in Batch, n \in 0..(N - 1) : Root(a, n, x)
      BY <2>2
    <3>2. n \in Nat /\ 1 \in 1..Len(Plan(a)) /\ Uses(1, a, 1, n) /\ 1 \in Roles
      BY <3>1, RootUses, PlanFacts, RoutesTyped DEF NonceInv
    <3>3. CASE Uses(1, a, 1, n)'
      <4>1. Root(a, n, x)'
        BY <3>1, <3>2, <3>3
      <4> QED BY <1>1, <4>1 DEF Before
    <3>4. CASE ~Uses(1, a, 1, n)'
      <4>1. ASSUME Filled(n)' PROVE FALSE
        <5>1. PICK b \in Batch : \E l \in 1..Len(Plan(b)) : Uses(1, b, l, n)'
          BY <1>1, <4>1 DEF Filled
        <5>2. PICK l \in 1..Len(Plan(b)) : Uses(1, b, l, n)'
          BY <5>1
        <5>3. Uses(1, b, l, n)
          BY <3>2, <5>2
        <5>4. b = a /\ l = 1
          BY <3>2, <5>3 DEF NonceInv, NoncesApart
        <5> QED BY <3>4, <5>2, <5>4
      <4> QED BY <4>1 DEF Before
    <3> QED BY <3>3, <3>4
  <2> QED BY <1>4, <2>1, <2>2 DEF Before
<1>5. RootsApart'
  BY <1>1, <1>2 DEF RootsApart
<1>6. RootsInOrder'
  <2> SUFFICES ASSUME NEW a \in Batch, NEW n \in Nat, NEW g \in Nat, Root(a, n, g)',
                      NEW x \in 0..(g - 1)
               PROVE  Before(x, n)'
    BY <1>1 DEF RootsInOrder
  <2>1. Before(x, n) /\ x \in Nat
    BY <1>2 DEF RootsInOrder
  <2> QED BY <1>4, <2>1
<1> QED BY <1>3, <1>4, <1>5, <1>6

(* And then the next record nonce keeps its place. *)
LEMMA NextRootKeeps ==
  ASSUME NonceInv, RootInv, kind = "multihop", "root" \notin MayRevert,
         route' = route, xnext' = xnext, nonces' = nonces,
         \A a \in Batch : \A n, g \in Nat : Root(a, n, g)' => Root(a, n, g),
         \A a \in Batch : Holding(a)' /\ thr'[a].k = 1 => Holding(a) /\ thr[a].k = 1,
         \A N \in Nat, x \in Nat : Before(x, N) => Before(x, N)'
  PROVE  NextRoot'
<1>1. Batch' = Batch
  BY RouteKeeps
<1>2. NextRoot /\ nonces[1] \in Nat /\ xnext \in Count
  BY RoutesTyped DEF RootInv, NonceInv, RunnerTyped, StoresTyped
<1>3. xnext # -1 => \A x \in 0..(xnext - 1) : x \in Nat /\ Before(x, nonces[1])'
  BY <1>2 DEF NextRoot, Count
<1>4. xnext' # -1 => \A x \in 0..(xnext - 1)' : Before(x, nonces[1])'
  BY <1>3
<1>5. (xnext # -1 => \A a \in Batch : \A n, g \in Nat : Root(a, n, g) => g < xnext)'
  BY <1>1, <1>2 DEF NextRoot
<1>6. (xnext = -1 => \A a \in Batch : Holding(a) => thr[a].k # 1)'
  BY <1>1, <1>2 DEF NextRoot
<1> QED BY <1>4, <1>5, <1>6 DEF NextRoot


(* A thread that is at work with a nonce in hand.                          *)
SameHold(a) == Holding(a) /\ thr'[a].k = thr[a].k /\ thr'[a].n = thr[a].n /\ thr'[a].g = thr[a].g

(* A root has no row while its thread has the numbers in hand.             *)
LEMMA HeldRoot ==
  ASSUME NonceInv, kind = "multihop", NEW a \in Batch, Holding(a)
  PROVE  /\ Row(a).st = "none" /\ thr[a].mode = "reserved" /\ thr[a].n \in Nat
         /\ \A r \in Roles : \A t \in sent[r] : ~(t.a = a /\ t.k = thr[a].k)
<1>1. /\ AtWork(a) /\ Row(a).st \in RowStates(thr[a].mode)
      /\ thr[a].mode # "intended" /\ thr[a].mode \in {"reserved", "intended"} /\ thr[a].n \in Nat
  BY DEF NonceInv, ThreadsKnow, Holding
<1>2. thr[a].mode = "reserved" /\ Row(a).st = "none"
  BY <1>1 DEF RowStates
<1>3. \A r \in Roles : \A t \in sent[r] : Out(t.a, t.k)
  BY DEF NonceInv, SentIsRecorded
<1>4. ~Out(a, thr[a].k)
  BY <1>2 DEF Out, Settled, Row
<1> QED BY <1>1, <1>2, <1>3, <1>4

(* A step that takes no nonce keeps the invariants if it keeps their parts *)
(* that speak of rows, of what was sent and of the chain.                  *)
LEMMA NothingNew ==
  ASSUME NonceInv, RootInv, RunnerTyped', ThreadsKnow', RowsHold', SentIsRecorded', MinedWasSent',
         UNCHANGED <<kind, route, nonces, xnext>>,
         \A r \in Roles : \A a \in Batch : \A k \in 1..Len(Plan(a)) : \A n \in Nat :
            Uses(r, a, k, n)' => Uses(r, a, k, n),
         \A a \in Batch : Holding(a)' => SameHold(a),
         kind = "multihop" /\ "root" \notin MayRevert =>
            /\ \A a \in Batch : \A n, g \in Nat : Root(a, n, g)' => Root(a, n, g)
            /\ \A a \in Batch : \A n, g \in Nat :
                 Root(a, n, g) /\ Uses(1, a, 1, n)' => Root(a, n, g)'
            /\ \A a \in Batch : rows'[a][1].st = "none" <=> rows'[a][1].g = -1
            /\ RootsOnChain'
  PROVE  NonceInv' /\ RootInv'
<1>1. NonceInv'
  <2>1. NoncesBelow' /\ NoncesApart'
    BY NothingTaken
  <2> QED BY <2>1 DEF NonceInv
<1>2. RootInv'
  <2> SUFFICES ASSUME kind = "multihop", "root" \notin MayRevert
               PROVE  RootsNumbered' /\ RootsApart' /\ RootsInOrder' /\ NextRoot' /\ RootsOnChain'
    BY DEF RootInv
  <2>1. Batch' = Batch
    BY RouteKeeps
  <2>2. /\ \A a \in Batch : \A k \in 1..Len(Plan(a)) : \A n \in Nat :
             Uses(1, a, k, n)' => Uses(1, a, k, n)
        /\ \A a \in Batch : Holding(a)' /\ thr'[a].k = 1 => Holding(a) /\ thr[a].k = 1
        /\ \A a \in Batch : Holding(a)' /\ thr'[a].k = 1 => thr'[a].g = thr[a].g
    BY RoutesTyped DEF SameHold
  <2>3. RootsApart' /\ RootsInOrder' /\ \A N \in Nat, x \in Nat : Before(x, N) => Before(x, N)'
    BY <2>2, RootsShrink
  <2>4. NextRoot'
    BY <2>2, <2>3, NextRootKeeps
  <2>5. RootsNumbered'
    BY <2>1, <2>2 DEF RootInv, RootsNumbered
  <2> QED BY <2>3, <2>4, <2>5
<1> QED BY <1>1, <1>2

LEMMA ChainStays ==
  ASSUME RootsOnChain, mined'[1] = mined[1]
  PROVE  RootsOnChain'
<1>1. GatewayNonce' = GatewayNonce
  BY Zenon DEF GatewayNonce
<1> DEFINE g == GatewayNonce
<1>2. /\ \A i \in 1..Len(mined[1]) : mined[1][i].op = "root" =>
            mined[1][i].ok /\ mined[1][i].e = mined[1][i].g /\ mined[1][i].g \in 0..(g - 1)
      /\ \A x \in 0..(g - 1) :
            \E i \in 1..Len(mined[1]) : mined[1][i].op = "root" /\ mined[1][i].g = x
  BY Zenon DEF RootsOnChain
<1>3. /\ \A i \in 1..Len(mined'[1]) : mined'[1][i].op = "root" =>
            mined'[1][i].ok /\ mined'[1][i].e = mined'[1][i].g /\ mined'[1][i].g \in 0..(g - 1)
      /\ \A x \in 0..(g - 1) :
            \E i \in 1..Len(mined'[1]) : mined'[1][i].op = "root" /\ mined'[1][i].g = x
  <2> HIDE DEF g
  <2> QED BY <1>2
<1> QED BY <1>1, <1>3, Zenon DEF RootsOnChain

(* The same, when the node may take a transaction that a row names and     *)
(* threads may only let go of their nonces.                                *)
LEMMA RowsStay ==
  ASSUME NonceInv, RootInv, RunnerTyped', ThreadsKnow', SentIsRecorded',
         UNCHANGED <<kind, route, nonces, xnext, rows, mined>>,
         \A r \in Roles : sent[r] \subseteq sent'[r],
         \A r \in Roles : \A t \in sent'[r] : t \in sent[r] \/
            (rows[t.a][t.k].st = "signed" /\ rows[t.a][t.k].n = t.n /\ Plan(t.a)[t.k].role = r),
         \A a \in Batch : Holding(a)' => SameHold(a)
  PROVE  NonceInv' /\ RootInv'
<1>1. Batch' = Batch /\ \A b : Plan(b)' = Plan(b)
  BY RouteKeeps
<1>2. RowsHold' /\ MinedWasSent'
  <2>1. RowsHold'
    BY <1>1 DEF NonceInv, RowsHold
  <2>2. MinedWasSent'
    BY <1>1 DEF NonceInv, MinedWasSent
  <2> QED BY <2>1, <2>2
<1>3. ASSUME NEW r \in Roles, NEW a \in Batch, NEW k \in 1..Len(Plan(a)), NEW n \in Nat,
             Uses(r, a, k, n)'
      PROVE  Uses(r, a, k, n)
  BY <1>1, <1>3 DEF Uses, Out, Settled, SameHold
<1>4. ASSUME kind = "multihop", "root" \notin MayRevert, NEW a \in Batch, NEW n \in Nat, NEW g \in Nat
      PROVE  /\ Root(a, n, g)' => Root(a, n, g)
             /\ Root(a, n, g) /\ Uses(1, a, 1, n)' => Root(a, n, g)'
  <2>1. Root(a, n, g)' => Root(a, n, g)
    BY DEF Root, SameHold
  <2>2. ASSUME Root(a, n, g), Uses(1, a, 1, n)' PROVE Root(a, n, g)'
    <3>1. CASE rows[a][1].st # "none" /\ rows[a][1].n = n /\ rows[a][1].g = g
      BY <3>1 DEF Root
    <3>2. CASE Holding(a) /\ thr[a].k = 1 /\ thr[a].n = n /\ thr[a].g = g
      <4>1. Row(a).st = "none" /\ \A t \in sent[1] : ~(t.a = a /\ t.k = 1)
        BY <1>4, <3>2, HeldRoot, RoutesTyped
      <4>2. rows[a][1].st = "none"
        BY <3>2, <4>1 DEF Row
      <4>3. \A t \in sent'[1] : ~(t.a = a /\ t.k = 1)
        BY <4>1, <4>2, RoutesTyped
      <4>4. Holding(a)'
        BY <2>2, <4>2, <4>3 DEF Uses, Out, Settled
      <4> QED BY <3>2, <4>4 DEF Root, SameHold
    <3> QED BY <2>2, <3>1, <3>2 DEF Root
  <2> QED BY <2>1, <2>2
<1>5. kind = "multihop" /\ "root" \notin MayRevert =>
        /\ \A a \in Batch : rows'[a][1].st = "none" <=> rows'[a][1].g = -1
        /\ RootsOnChain'
  <2>1. kind = "multihop" /\ "root" \notin MayRevert =>
          \A a \in Batch : rows'[a][1].st = "none" <=> rows'[a][1].g = -1
    BY DEF RootInv, RootsNumbered
  <2>2. kind = "multihop" /\ "root" \notin MayRevert => RootsOnChain'
    BY ChainStays DEF RootInv
  <2> QED BY <2>1, <2>2
<1> QED BY <1>2, <1>3, <1>4, <1>5, NothingNew

(* A thread goes on, without a nonce in hand; nothing else moves.          *)
LEMMA ThreadGoesOn ==
  ASSUME NonceInv, RootInv, NEW a \in Batch, NEW t \in ThreadRecs,
         t.k \in 1..Len(Plan(a)), thr' = [thr EXCEPT ![a] = t],
         UNCHANGED <<kind, route, up, rows, nonces, xnext, sent, mined>>,
         t.pc = "queued" => t.mode = "enter",
         up /\ t.pc = "running" =>
            /\ ModeFits(t.mode, Plan(a)[t.k].op) /\ rows[a][t.k].st \in RowStates(t.mode)
            /\ t.mode \in {"resend", "fresh", "intended"} => kind = "native"
            /\ t.mode \notin {"reserved", "intended"}
  PROVE  NonceInv' /\ RootInv'
<1>1. StoresTyped'
  BY RouteKeeps DEF NonceInv, RunnerTyped, StoresTyped, Sends, Blocks
<1>2. RunnerTyped' /\ ThreadsKnow' /\ thr'[a] = t /\ \A b \in Batch : b # a => thr'[b] = thr[b]
  BY <1>1, ThreadMoves DEF NonceInv
<1>3. SentIsRecorded'
  BY RouteKeeps DEF NonceInv, SentIsRecorded, Out, Settled
<1>4. \A b \in Batch : Holding(b)' => SameHold(b)
  BY <1>2 DEF Holding, AtWork, SameHold
<1> QED BY <1>2, <1>3, <1>4, RowsStay

(* A step that leaves the runner and its transactions alone.               *)
LEMMA RunnerStays ==
  ASSUME NonceInv, RootInv,
         UNCHANGED <<kind, route, up, thr, rows, nonces, xnext, sent, mined>>
  PROVE  NonceInv' /\ RootInv'
<1>1. Batch' = Batch /\ \A b : Plan(b)' = Plan(b)
  BY RouteKeeps
<1>2. RunnerTyped'
  BY <1>1 DEF NonceInv, RunnerTyped, StoresTyped, Sends, Blocks
<1>3. ThreadsKnow'
  BY <1>1 DEF NonceInv, ThreadsKnow, AtWork, Row, RowStates, At, ModeFits
<1>4. SentIsRecorded'
  BY <1>1 DEF NonceInv, SentIsRecorded, Out, Settled
<1>5. \A b \in Batch : Holding(b)' => SameHold(b)
  BY DEF Holding, AtWork, SameHold
<1> QED BY <1>2, <1>3, <1>4, <1>5, RowsStay

(* The process dies. *)
LEMMA RunnerDies ==
  ASSUME NonceInv, RootInv, up' = FALSE,
         UNCHANGED <<kind, route, thr, rows, nonces, xnext, sent, mined>>
  PROVE  NonceInv' /\ RootInv'
<1>1. Batch' = Batch /\ \A b : Plan(b)' = Plan(b)
  BY RouteKeeps
<1>2. RunnerTyped'
  BY <1>1 DEF NonceInv, RunnerTyped, StoresTyped, Sends, Blocks
<1>3. ThreadsKnow'
  BY <1>1 DEF NonceInv, ThreadsKnow, AtWork
<1>4. SentIsRecorded'
  BY <1>1 DEF NonceInv, SentIsRecorded, Out, Settled
<1>5. \A b \in Batch : Holding(b)' => SameHold(b)
  BY DEF Holding, AtWork
<1> QED BY <1>2, <1>3, <1>4, <1>5, RowsStay

LEMMA BeginKeeps ==
  ASSUME NonceInv, RootInv, NEW a \in Batch, Begin(a)
  PROVE  NonceInv' /\ RootInv'
<1>1. thr[a] \in ThreadRecs /\ thr[a].k \in 1..Len(Plan(a)) /\ Row(a).st \in States
      /\ thr[a].mode = "enter" /\ thr[a].pc = "queued"
  BY ThreadFacts DEF NonceInv, ThreadsKnow, Begin
<1>2. PICK pc \in {"done", "running"} : thr' = [thr EXCEPT ![a].pc = pc]
  BY DEF Begin
<1> DEFINE t == [thr[a] EXCEPT !.pc = pc]
<1>3. t \in ThreadRecs /\ t.k = thr[a].k /\ t.mode = "enter" /\ t.pc # "queued"
  BY <1>1 DEF ThreadRecs
<1>4. thr' = [thr EXCEPT ![a] = t]
  BY <1>2
<1>5. rows[a][t.k].st \in RowStates(t.mode) /\ ModeFits(t.mode, Plan(a)[t.k].op)
  BY <1>1, <1>3 DEF RowStates, Row, ModeFits
<1> HIDE DEF t
<1>6. UNCHANGED <<kind, route, up, rows, nonces, xnext, sent, mined>>
  BY DEF Begin, chainVars
<1> QED BY <1>1, <1>3, <1>4, <1>5, <1>6, ThreadGoesOn

(* A step of the plan is not its last, unless it delivers.                 *)
LEMMA NotLast ==
  ASSUME RunnerTyped, NEW a \in Batch, At(a).op # "deliver"
  PROVE  thr[a].k + 1 \in 1..Len(Plan(a))
<1>1. thr[a].k # Len(Plan(a))
  BY PlanFacts DEF At
<1> QED BY <1>1, ThreadFacts, PlanFacts

(* What a thread may do next without a nonce in hand.                      *)
LEMMA Moves ==
  ASSUME NonceInv, RootInv, NEW a \in Batch, up, thr[a].pc = "running",
         UNCHANGED <<kind, route, up, rows, nonces, xnext, sent, mined>>,
         \/ At(a).op # "deliver" /\ Proceed(a)
         \/ Raise(a)
         \/ \E m \in Modes \ {"reserved", "intended"} :
              /\ GoTo(a, m) /\ ModeFits(m, At(a).op) /\ Row(a).st \in RowStates(m)
              /\ m \in {"resend", "fresh"} => kind = "native"
         \/ thr' = [thr EXCEPT ![a] = [Queued EXCEPT !.pc = "running", !.retried = TRUE]]
  PROVE  NonceInv' /\ RootInv'
<1>1. thr[a] \in ThreadRecs /\ thr[a].k \in 1..Len(Plan(a)) /\ Row(a).st \in States /\ thr[a].k \in Nat
  BY ThreadFacts DEF NonceInv
<1>2. \A k \in 1..Len(Plan(a)) : rows[a][k].st \in RowStates("enter") /\ k \in Nat
  <2>1. \A k \in 1..Len(Plan(a)) : rows[a][k] \in RowRecs /\ k \in Nat
    BY PlanFacts DEF NonceInv, RunnerTyped, StoresTyped
  <2> QED BY <2>1 DEF RowStates, RowRecs
<1>0. \A op : ModeFits("enter", op)
  BY DEF ModeFits
<1>3. CASE At(a).op # "deliver" /\ Proceed(a)
  <2> DEFINE t == [thr[a] EXCEPT !.k = @ + 1, !.mode = "enter", !.n = -1, !.g = -1]
  <2>1. t.k \in 1..Len(Plan(a)) /\ t.k = thr[a].k + 1
    BY <1>1, <1>3, NotLast DEF NonceInv, ThreadRecs
  <2>2. t \in ThreadRecs /\ t.pc = "running" /\ t.mode = "enter"
    BY <1>1, <1>2, <2>1 DEF ThreadRecs, Count, Modes
  <2>3. thr' = [thr EXCEPT ![a] = t]
    BY <1>3 DEF Proceed
  <2>4. ModeFits(t.mode, Plan(a)[t.k].op) /\ rows[a][t.k].st \in RowStates(t.mode)
    BY <1>0, <1>2, <2>1, <2>2
  <2> HIDE DEF t
  <2> QED BY <2>1, <2>2, <2>3, <2>4, ThreadGoesOn
<1>4. CASE Raise(a)
  <2> DEFINE t == [thr[a] EXCEPT !.pc = "raised"]
  <2>1. t \in ThreadRecs /\ t.k = thr[a].k /\ t.pc = "raised"
    BY <1>1 DEF ThreadRecs
  <2>2. thr' = [thr EXCEPT ![a] = t]
    BY <1>4 DEF Raise
  <2> HIDE DEF t
  <2> QED BY <1>1, <2>1, <2>2, ThreadGoesOn
<1>5. ASSUME NEW m \in Modes \ {"reserved", "intended"}, GoTo(a, m), ModeFits(m, At(a).op),
             Row(a).st \in RowStates(m),
             m \in {"resend", "fresh"} => kind = "native"
      PROVE  NonceInv' /\ RootInv'
  <2> DEFINE t == [thr[a] EXCEPT !.mode = m]
  <2>1. t \in ThreadRecs /\ t.k = thr[a].k /\ t.pc = "running" /\ t.mode = m
    BY <1>1 DEF ThreadRecs
  <2>2. thr' = [thr EXCEPT ![a] = t]
    BY <1>5 DEF GoTo
  <2>3. rows[a][t.k].st \in RowStates(t.mode) /\ ModeFits(t.mode, Plan(a)[t.k].op)
    BY <1>5, <2>1 DEF Row, At
  <2> HIDE DEF t
  <2> QED BY <1>1, <1>5, <2>1, <2>2, <2>3, ThreadGoesOn
<1>6. CASE thr' = [thr EXCEPT ![a] = [Queued EXCEPT !.pc = "running", !.retried = TRUE]]
  <2> DEFINE t == [Queued EXCEPT !.pc = "running", !.retried = TRUE]
  <2>1. t \in ThreadRecs /\ t.k = 1 /\ t.pc = "running" /\ t.mode = "enter"
    BY DEF ThreadRecs, Queued, Count, Modes
  <2>2. 1 \in 1..Len(Plan(a))
    BY PlanFacts DEF NonceInv
  <2> HIDE DEF t
  <2>3. thr' = [thr EXCEPT ![a] = t]
    BY <1>6 DEF t
  <2>4. ModeFits(t.mode, Plan(a)[t.k].op) /\ rows[a][t.k].st \in RowStates(t.mode)
    BY <1>0, <1>2, <2>1, <2>2
  <2>5. t.k \in 1..Len(Plan(a))
    BY <2>1, <2>2
  <2> QED BY <2>1, <2>3, <2>4, <2>5, ThreadGoesOn
<1> QED BY <1>3, <1>4, <1>5, <1>6

LEMMA SignRootMoves ==
  ASSUME NEW a \in Batch, SignRoot(a), At(a).op = "root"
  PROVE  (At(a).op # "deliver" /\ Proceed(a)) \/ Raise(a)
BY DEF SignRoot

LEMMA EnterSucceededKeeps ==
  ASSUME NonceInv, RootInv, NEW a \in Batch, EnterSucceeded(a)
  PROVE  NonceInv' /\ RootInv'
<1>1. /\ up /\ thr[a].pc = "running" /\ Row(a).st = "succeeded"
      /\ UNCHANGED <<kind, route, up, rows, nonces, xnext, sent, mined>>
  BY DEF EnterSucceeded, Runs, dbVars, chainVars
<1>2. Row(a).st \in RowStates("effect") /\ Row(a).st \in RowStates("evidence")
  BY <1>1 DEF RowStates, States
<1>9. ModeFits("effect", At(a).op) /\ (At(a).op = "dispatch" => ModeFits("evidence", At(a).op))
  BY DEF ModeFits, EnterSucceeded, OnTx
<1>3. {"effect", "evidence"} \subseteq Modes \ {"reserved", "intended", "resend", "fresh"}
  BY DEF Modes
<1>4. CASE At(a).op = "root"
  <2>1. SignRoot(a)
    BY <1>4 DEF EnterSucceeded
  <2> QED BY <1>1, <1>4, <2>1, SignRootMoves, Moves
<1>5. CASE At(a).op = "deliver"
  <2>1. GoTo(a, "effect")
    BY <1>5 DEF EnterSucceeded
  <2> QED BY <1>1, <1>2, <1>3, <1>9, <2>1, Moves
<1>6. CASE At(a).op \notin {"root", "deliver"}
  <2>1. Proceed(a) \/ (At(a).op = "dispatch" /\ GoTo(a, "evidence")) \/ Raise(a)
    BY <1>6 DEF EnterSucceeded
  <2> QED BY <1>1, <1>2, <1>3, <1>6, <1>9, <2>1, Moves
<1> QED BY <1>4, <1>5, <1>6

LEMMA LookupPriorKeeps ==
  ASSUME NonceInv, RootInv, NEW a \in Batch, LookupPrior(a)
  PROVE  NonceInv' /\ RootInv'
<1>1. /\ up /\ thr[a].pc = "running" /\ kind = "native"
      /\ Row(a).st \in {"signed", "failed", "superseded"}
      /\ UNCHANGED <<kind, route, up, rows, nonces, xnext, sent, mined>>
  BY DEF LookupPrior, Runs, dbVars, chainVars
<1>2. PICK m \in {"await_prior", "resend"} : GoTo(a, m)
  BY DEF LookupPrior
<1>3. m \in Modes \ {"reserved", "intended"} /\ Row(a).st \in RowStates(m) /\ ModeFits(m, At(a).op)
  BY <1>1 DEF Modes, RowStates, ModeFits, LookupPrior, OnTx
<1> QED BY <1>1, <1>2, <1>3, Moves

LEMMA WaitBundleKeeps ==
  ASSUME NonceInv, RootInv, NEW a \in Batch, WaitBundle(a)
  PROVE  NonceInv' /\ RootInv'
<1>1. /\ up /\ thr[a].pc = "running" /\ At(a).op # "deliver" /\ Proceed(a)
      /\ UNCHANGED <<kind, route, up, rows, nonces, xnext, sent, mined>>
  BY DEF WaitBundle, Runs, dbVars, chainVars
<1> QED BY <1>1, Moves

LEMMA FinishKeeps ==
  ASSUME NonceInv, RootInv, NEW a \in Batch, Finish(a)
  PROVE  NonceInv' /\ RootInv'
<1>1. /\ up /\ thr[a].pc = "running"
      /\ UNCHANGED <<kind, route, up, rows, nonces, xnext, sent, mined>>
  BY DEF Finish, Runs, chainVars
<1>2. CASE Raise(a)
  BY <1>1, <1>2, Moves
<1>3. CASE thr' = [thr EXCEPT ![a].pc = "done"]
  <2> DEFINE t == [thr[a] EXCEPT !.pc = "done"]
  <2>1. thr[a] \in ThreadRecs /\ thr[a].k \in 1..Len(Plan(a))
    BY ThreadFacts DEF NonceInv
  <2>2. t \in ThreadRecs /\ t.k = thr[a].k /\ t.pc = "done"
    BY <2>1 DEF ThreadRecs
  <2>3. thr' = [thr EXCEPT ![a] = t]
    BY <1>3
  <2> HIDE DEF t
  <2> QED BY <1>1, <2>1, <2>2, <2>3, ThreadGoesOn
<1> QED BY <1>2, <1>3 DEF Finish

LEMMA FaultKeeps ==
  ASSUME NonceInv, RootInv, NEW a \in Batch, TransientError(a) \/ WaitTimeout(a)
  PROVE  NonceInv' /\ RootInv'
<1>1. /\ up /\ thr[a].pc = "running"
      /\ UNCHANGED <<kind, route, up, rows, nonces, xnext, sent, mined>>
  BY DEF TransientError, WaitTimeout, dbVars, chainVars
<1>2. Raise(a) \/ thr' = [thr EXCEPT ![a] = [Queued EXCEPT !.pc = "running", !.retried = TRUE]]
  BY DEF TransientError, WaitTimeout
<1> QED BY <1>1, <1>2, Moves

-----------------------------------------------------------------------------
(* The node takes a transaction.                                           *)

(* What is sent is what the row names; a nonce the chain has passed is not *)
(* taken.                                                                  *)
LEMMA SendKeeps ==
  ASSUME NonceInv, RootInv, NEW a \in Batch, SendRow(a), NEW m \in {"await", "await_prior"},
         up, thr[a].pc = "running", GoTo(a, m), At(a).op # "wait",
         Row(a).st \in RowStates(m), Row(a).st # "signed" => Row(a).n < Len(mined[At(a).role]),
         UNCHANGED <<kind, route, up, rows, nonces, xnext, mined>>
  PROVE  NonceInv' /\ RootInv'
<1> DEFINE R == At(a).role
           x == TxOf(a)
<1>1. /\ thr[a] \in ThreadRecs /\ thr[a].k \in 1..Len(Plan(a)) /\ thr[a].k \in Nat
      /\ R \in Roles /\ At(a).op \in Ops /\ At(a) = Plan(a)[thr[a].k]
      /\ Row(a) = rows[a][thr[a].k] /\ Row(a).n \in Count /\ Row(a).g \in Count
  BY ThreadFacts DEF NonceInv
<1>2. Row(a).n \in Nat
  <2>1. Row(a).st # "none"
    BY DEF RowStates
  <2> QED BY <1>1, <2>1 DEF NonceInv, RowsHold
<1>3. /\ x \in Sends /\ x.a = a /\ x.k = thr[a].k /\ x.n = Row(a).n /\ x.g = Row(a).g
      /\ x.op = At(a).op
  BY <1>1, <1>2 DEF TxOf, Sends
<1> HIDE DEF x
<1>4. Batch' = Batch /\ \A b : Plan(b)' = Plan(b)
  BY RouteKeeps
<1>5. sent \in [Roles -> SUBSET Sends] /\ (\A r \in Roles : IsFiniteSet(sent[r]))
      /\ mined[R] \in Seq(Blocks) /\ Len(mined[R]) \in Nat
  BY <1>1 DEF NonceInv, RunnerTyped, StoresTyped
<1>6. /\ \A r \in Roles : r # R => sent'[r] = sent[r]
      /\ sent'[R] = sent[R] \/ (Row(a).st = "signed" /\ sent'[R] = sent[R] \cup {x})
      /\ sent' = [sent EXCEPT ![R] = sent'[R]]
  <2>1. sent' = [sent EXCEPT ![R] = Accept(@, mined[R], x)]
    BY DEF SendRow, x
  <2>2. sent'[R] = Accept(sent[R], mined[R], x)
    BY <1>1, <1>5, <2>1
  <2>3. sent'[R] = sent[R] \/ (Row(a).st = "signed" /\ sent'[R] = sent[R] \cup {x})
    BY <1>3, <2>2 DEF Accept
  <2> QED BY <1>1, <1>5, <2>1, <2>2, <2>3
<1>7. sent' \in [Roles -> SUBSET Sends] /\ \A r \in Roles : IsFiniteSet(sent'[r])
  <2>1. sent[R] \in SUBSET Sends /\ IsFiniteSet(sent[R])
    BY <1>1, <1>5
  <2>2. IsFiniteSet(sent[R] \cup {x})
    BY <2>1, FS_AddElement
  <2>3. sent'[R] \in SUBSET Sends /\ IsFiniteSet(sent'[R])
    BY <1>3, <1>6, <2>1, <2>2
  <2> QED BY <1>1, <1>5, <1>6, <2>3
<1>8. StoresTyped'
  BY <1>4, <1>7 DEF NonceInv, RunnerTyped, StoresTyped, Sends, Blocks
<1> DEFINE t == [thr[a] EXCEPT !.mode = m]
<1>9. t \in ThreadRecs /\ t.k = thr[a].k /\ t.pc = "running" /\ t.mode = m
  BY <1>1 DEF ThreadRecs, Modes
<1>10. thr' = [thr EXCEPT ![a] = t]
  BY DEF GoTo
<1> HIDE DEF t
<1>11. RunnerTyped' /\ ThreadsKnow' /\ thr'[a] = t /\ \A b \in Batch : b # a => thr'[b] = thr[b]
  <2>1. rows'[a][t.k].st \in RowStates(t.mode) /\ ModeFits(t.mode, Plan(a)[t.k].op)
    BY <1>1, <1>9 DEF ModeFits
  <2> QED BY <1>1, <1>8, <1>9, <1>10, <2>1, ThreadMoves DEF NonceInv
<1>12. ASSUME NEW r \in Roles, NEW s \in sent'[r]
       PROVE  s \in sent[r] \/ (r = R /\ s = x /\ Row(a).st = "signed")
  BY <1>6, <1>12
<1>13. SentIsRecorded'
  <2> SUFFICES ASSUME NEW r \in Roles, NEW s \in sent'[r]
      PROVE /\ s.k \in 1..Len(Plan(s.a)) /\ s.op = Plan(s.a)[s.k].op /\ Plan(s.a)[s.k].role = r
            /\ s.n >= Len(mined[r]) => rows[s.a][s.k].st = "signed"
            /\ s.n >= Len(mined[r]) \/ kind = "multihop" =>
                 Out(s.a, s.k) /\ rows[s.a][s.k].n = s.n /\ rows[s.a][s.k].g = s.g
    BY <1>4 DEF SentIsRecorded, Out, Settled
  <2>1. CASE s \in sent[r]
    BY <2>1 DEF NonceInv, SentIsRecorded
  <2>2. CASE r = R /\ s = x /\ Row(a).st = "signed"
    BY <1>1, <1>3, <2>2 DEF Out, Settled
  <2> QED BY <1>12, <2>1, <2>2
<1>14. \A b \in Batch : Holding(b)' => SameHold(b)
  BY <1>9, <1>11 DEF Holding, AtWork, SameHold
<1>15. \A r \in Roles : \A s \in sent'[r] : s \in sent[r] \/
            (rows[s.a][s.k].st = "signed" /\ rows[s.a][s.k].n = s.n /\ Plan(s.a)[s.k].role = r)
  BY <1>1, <1>3, <1>12
<1>16. \A r \in Roles : sent[r] \subseteq sent'[r]
  BY <1>6
<1> QED BY <1>11, <1>13, <1>14, <1>15, <1>16, RowsStay

LEMMA SettledPassed ==
  ASSUME NonceInv, NEW a \in Batch, Row(a).st \in {"failed", "superseded", "succeeded"}
  PROVE  Row(a).n < Len(mined[At(a).role])
BY ThreadFacts DEF NonceInv, RowsHold, Settled

LEMMA ResumeDurableKeeps ==
  ASSUME NonceInv, RootInv, NEW a \in Batch, ResumeDurable(a)
  PROVE  NonceInv' /\ RootInv'
<1>1. /\ up /\ thr[a].pc = "running" /\ SendRow(a) /\ GoTo(a, "await_prior")
      /\ Row(a).st \in {"signed", "failed"} /\ At(a).op # "wait"
      /\ UNCHANGED <<kind, route, up, rows, nonces, xnext, mined>>
  BY DEF ResumeDurable, Runs, OnTx, dbVars
<1>2. Row(a).st \in RowStates("await_prior")
  BY <1>1 DEF RowStates
<1>3. Row(a).st # "signed" => Row(a).n < Len(mined[At(a).role])
  BY <1>1, SettledPassed
<1> QED BY <1>1, <1>2, <1>3, SendKeeps

LEMMA SendRawKeeps ==
  ASSUME NonceInv, RootInv, NEW a \in Batch, SendRaw(a)
  PROVE  NonceInv' /\ RootInv'
<1>1. /\ up /\ thr[a].pc = "running" /\ thr[a].mode = "send" /\ SendRow(a) /\ GoTo(a, "await")
      /\ UNCHANGED <<kind, route, up, rows, nonces, xnext, mined>>
  BY DEF SendRaw, Runs, dbVars
<1>2. Row(a).st = "signed" /\ At(a).op # "wait"
  BY <1>1 DEF NonceInv, ThreadsKnow, AtWork, RowStates, ModeFits
<1>3. Row(a).st \in RowStates("await")
  BY <1>2 DEF RowStates
<1> QED BY <1>1, <1>2, <1>3, SendKeeps

-----------------------------------------------------------------------------
(* A thread writes its row.                                                *)

(* The thread of a is at t and its row is w; nothing else changed.         *)
Writes(a, w, t) ==
  /\ up /\ thr[a].pc = "running"
  /\ rows' = [rows EXCEPT ![a] = [rows[a] EXCEPT ![thr[a].k] = w]]
  /\ thr' = [thr EXCEPT ![a] = t]
  /\ UNCHANGED <<kind, route, up, nonces, xnext, sent, mined>>

(* w has the numbers of a transaction of the stage that are already in     *)
(* use, what was sent stays recorded, ...                                  *)
RowMayBe(a, w) ==
  /\ w.st # "none" /\ w.n \in Nat
  /\ w.st \in {"signed"} \cup Settled => Uses(At(a).role, a, thr[a].k, w.n)
  /\ w.st \in Settled \cup {"superseded"} => w.n < Len(mined[At(a).role])
  /\ kind = "multihop" => w.st \notin {"intended", "superseded"}
  /\ \A r \in Roles : \A s \in sent[r] : s.a = a /\ s.k = thr[a].k =>
       /\ s.n >= Len(mined[r]) => w.st = "signed"
       /\ s.n >= Len(mined[r]) \/ kind = "multihop" =>
            w.st \in {"signed"} \cup Settled /\ w.n = s.n /\ w.g = s.g
  /\ kind = "multihop" /\ "root" \notin MayRevert /\ thr[a].k = 1 =>
       /\ w.g # -1 /\ Root(a, w.n, w.g)
       /\ \A n, g \in Nat : Root(a, n, g) => n = w.n /\ g = w.g

(* ... and the thread goes to a mode in which it knows w.                  *)
ThreadMayBe(a, w, t) ==
  /\ t.k \in 1..Len(Plan(a)) /\ t.pc # "queued"
  /\ t.pc = "running" =>
       /\ ModeFits(t.mode, Plan(a)[t.k].op)
       /\ (t.k = thr[a].k /\ w.st \in RowStates(t.mode)) \/ t.mode = "enter"
       /\ t.mode \in {"resend", "fresh", "intended"} => kind = "native"
       /\ t.mode # "reserved"
       /\ t.mode = "intended" =>
            Holding(a) /\ t.k = thr[a].k /\ t.n = thr[a].n /\ t.g = thr[a].g /\ t.n = w.n

LEMMA RowWritten ==
  ASSUME NonceInv, RootInv, NEW a \in Batch, NEW w \in RowRecs, NEW t \in ThreadRecs,
         Writes(a, w, t), RowMayBe(a, w), ThreadMayBe(a, w, t)
  PROVE  NonceInv' /\ RootInv'
<1> USE DEF Writes, RowMayBe, ThreadMayBe
<1> DEFINE R == At(a).role
           K == thr[a].k
<1>1. /\ K \in 1..Len(Plan(a)) /\ K \in Nat /\ R \in Roles /\ R = Plan(a)[K].role
  BY ThreadFacts DEF NonceInv
<1>2. Batch' = Batch /\ \A b : Plan(b)' = Plan(b)
  BY RouteKeeps
<1>3. /\ \A b \in Batch : rows[b] \in [1..Len(Plan(b)) -> RowRecs]
      /\ rows = [b \in Batch |-> rows[b]]
  BY DEF NonceInv, RunnerTyped, StoresTyped
<1>4. /\ rows'[a][K] = w
      /\ \A b \in Batch : b # a => rows'[b] = rows[b]
      /\ \A l \in 1..Len(Plan(a)) : l # K => rows'[a][l] = rows[a][l]
      /\ rows' = [b \in Batch |-> rows'[b]]
      /\ \A b \in Batch : rows'[b] \in [1..Len(Plan(b)) -> RowRecs]
  <2>1. rows' = [b \in Batch |-> IF b = a THEN [rows[a] EXCEPT ![K] = w] ELSE rows[b]]
    BY <1>3
  <2>2. rows'[a] = [rows[a] EXCEPT ![K] = w] /\ \A b \in Batch : b # a => rows'[b] = rows[b]
    BY <2>1
  <2>3. [rows[a] EXCEPT ![K] = w] \in [1..Len(Plan(a)) -> RowRecs]
    BY <1>1, <1>3
  <2>4. rows'[a][K] = w /\ \A l \in 1..Len(Plan(a)) : l # K => rows'[a][l] = rows[a][l]
    BY <1>1, <1>3, <2>2
  <2>5. rows' = [b \in Batch |-> rows'[b]]
    BY <2>1
  <2> QED BY <1>3, <2>2, <2>3, <2>4, <2>5
<1>5. StoresTyped'
  BY <1>2, <1>4 DEF NonceInv, RunnerTyped, StoresTyped, Sends, Blocks
<1>6. RunnerTyped' /\ ThreadsKnow' /\ thr'[a] = t /\ \A b \in Batch : b # a => thr'[b] = thr[b]
  <2>1. rows'[a][t.k] \in RowRecs
    BY <1>4
  <2>2. rows'[a][t.k].st \in RowStates("enter")
    BY <2>1 DEF RowRecs, RowStates
  <2>3. up /\ t.pc = "running" =>
            /\ ModeFits(t.mode, Plan(a)[t.k].op) /\ rows'[a][t.k].st \in RowStates(t.mode)
            /\ t.mode \in {"resend", "fresh", "intended"} => kind = "native"
            /\ t.mode = "intended" => t.n = rows'[a][t.k].n
            /\ t.mode \in {"reserved", "intended"} => t.n \in Nat
    BY <1>4, <2>2
  <2> QED BY <1>4, <1>5, <2>3, ThreadMoves DEF NonceInv
<1>7. RowsHold'
  <2>1. ASSUME NEW b \in Batch, NEW l \in 1..Len(Plan(b))
        PROVE  /\ rows'[b][l].st # "none" => rows'[b][l].n \in Nat
               /\ rows'[b][l].st \in Settled \cup {"superseded"} =>
                     rows'[b][l].n < Len(mined[Plan(b)[l].role])
               /\ kind = "multihop" => rows'[b][l].st \notin {"intended", "superseded"}
    <3>1. CASE b = a /\ l = K
      BY <1>1, <1>4, <3>1
    <3>2. CASE ~(b = a /\ l = K)
      <4>1. rows'[b][l] = rows[b][l]
        BY <1>4, <3>2
      <4> QED BY <4>1 DEF NonceInv, RowsHold
    <3> QED BY <3>1, <3>2
  <2> QED BY <1>2, <2>1 DEF RowsHold, Settled
<1>8. \A b \in Batch : \A l \in 1..Len(Plan(b)) : ~(b = a /\ l = K) => rows'[b][l] = rows[b][l]
  BY <1>4
<1>9. SentIsRecorded'
  <2>1. ASSUME NEW r \in Roles, NEW s \in sent[r]
        PROVE  /\ s.k \in 1..Len(Plan(s.a)) /\ s.op = Plan(s.a)[s.k].op /\ Plan(s.a)[s.k].role = r
               /\ s.n >= Len(mined[r]) => rows'[s.a][s.k].st = "signed"
               /\ s.n >= Len(mined[r]) \/ kind = "multihop" =>
                    Out(s.a, s.k)' /\ rows'[s.a][s.k].n = s.n /\ rows'[s.a][s.k].g = s.g
    <3>1. /\ s.k \in 1..Len(Plan(s.a)) /\ s.op = Plan(s.a)[s.k].op /\ Plan(s.a)[s.k].role = r
          /\ s.a \in Batch
      BY DEF NonceInv, SentIsRecorded, RunnerTyped, StoresTyped, Sends
    <3>2. CASE s.a = a /\ s.k = K
      BY <1>4, <3>1, <3>2 DEF Out, Settled
    <3>3. CASE ~(s.a = a /\ s.k = K)
      <4>1. rows'[s.a][s.k] = rows[s.a][s.k]
        BY <1>8, <3>1, <3>3
      <4> QED BY <3>1, <4>1 DEF NonceInv, SentIsRecorded, Out, Settled
    <3> QED BY <3>2, <3>3
  <2> QED BY <1>2, <2>1 DEF SentIsRecorded
<1>10. MinedWasSent'
  BY <1>2 DEF NonceInv, MinedWasSent
<1>11. \A b \in Batch : /\ Holding(b)' => SameHold(b)
                        /\ b # a /\ Holding(b) => Holding(b)'
  BY <1>6 DEF Holding, AtWork, SameHold
<1>12. ASSUME NEW r \in Roles, NEW b \in Batch, NEW l \in 1..Len(Plan(b)), NEW n \in Nat,
              Uses(r, b, l, n)'
       PROVE  Uses(r, b, l, n)
  <2>1. CASE \E s \in sent[r] : s.a = b /\ s.k = l /\ s.n = n
    BY <2>1 DEF Uses
  <2>2. CASE Plan(b)[l].role = r /\ Holding(b)' /\ thr'[b].k = l /\ thr'[b].n = n
    BY <1>11, <2>2 DEF Uses, SameHold
  <2>3. CASE Plan(b)[l].role = r /\ Out(b, l)' /\ rows'[b][l].n = n
    <3>1. CASE b = a /\ l = K
      BY <1>1, <1>4, <2>3, <3>1 DEF Out, Settled
    <3>2. CASE ~(b = a /\ l = K)
      <4>1. rows'[b][l] = rows[b][l]
        BY <1>8, <3>2
      <4> QED BY <2>3, <4>1 DEF Uses, Out, Settled
    <3> QED BY <3>1, <3>2
  <2> QED BY <1>2, <1>12, <2>1, <2>2, <2>3 DEF Uses
<1>13. ASSUME kind = "multihop", "root" \notin MayRevert, NEW b \in Batch, NEW n \in Nat, NEW g \in Nat
       PROVE  /\ Root(b, n, g)' => Root(b, n, g)
              /\ Root(b, n, g) => Root(b, n, g)'
  <2>0. 1 \in 1..Len(Plan(b))
    BY PlanFacts DEF NonceInv
  <2>1. CASE b = a /\ K = 1
    <3>1. rows'[b][1] = w
      BY <1>4, <2>1
    <3> QED BY <1>11, <1>13, <2>1, <3>1 DEF Root, SameHold
  <2>2. CASE ~(b = a /\ K = 1)
    <3>1. rows'[b][1] = rows[b][1]
      BY <1>8, <2>0, <2>2
    <3>2. Holding(b) /\ thr[b].k = 1 => Holding(b)' /\ thr'[b] = thr[b]
      BY <1>6, <1>11, <2>2
    <3> QED BY <1>11, <3>1, <3>2 DEF Root, SameHold
  <2> QED BY <2>1, <2>2
<1>14. ASSUME kind = "multihop", "root" \notin MayRevert, NEW b \in Batch
       PROVE  rows'[b][1].st = "none" <=> rows'[b][1].g = -1
  <2>0. 1 \in 1..Len(Plan(b))
    BY PlanFacts DEF NonceInv
  <2>1. CASE b = a /\ K = 1
    BY <1>4, <1>14, <2>1
  <2>2. CASE ~(b = a /\ K = 1)
    <3>1. rows'[b][1] = rows[b][1]
      BY <1>8, <2>0, <2>2
    <3> QED BY <1>14, <3>1 DEF RootInv, RootsNumbered
  <2> QED BY <2>1, <2>2
<1>15. kind = "multihop" /\ "root" \notin MayRevert => RootsOnChain'
  BY ChainStays DEF RootInv
<1>16. kind = "multihop" /\ "root" \notin MayRevert =>
         /\ \A b \in Batch : \A n, g \in Nat : Root(b, n, g)' => Root(b, n, g)
         /\ \A b \in Batch : \A n, g \in Nat :
              Root(b, n, g) /\ Uses(1, b, 1, n)' => Root(b, n, g)'
         /\ \A b \in Batch : rows'[b][1].st = "none" <=> rows'[b][1].g = -1
         /\ RootsOnChain'
  BY <1>13, <1>14, <1>15, Zenon
<1>17. \A b \in Batch : Holding(b)' => SameHold(b)
  BY <1>11, Zenon
<1>18. /\ RunnerTyped' /\ ThreadsKnow' /\ RowsHold' /\ SentIsRecorded' /\ MinedWasSent'
       /\ UNCHANGED <<kind, route, nonces, xnext>>
  BY <1>6, <1>7, <1>9, <1>10
<1> HIDE DEF R, K, Writes, RowMayBe, ThreadMayBe
<1> QED BY <1>12, <1>16, <1>17, <1>18, NothingNew, Zenon

(* A row keeps its numbers and is given a state that goes with a nonce the *)
(* chain has passed.                                                       *)
LEMMA StateWritten ==
  ASSUME NonceInv, RootInv, NEW a \in Batch, NEW w \in RowRecs, NEW t \in ThreadRecs,
         Writes(a, w, t), thr[a].mode \notin {"reserved", "intended"},
         Row(a).st # "none", w.n = Row(a).n, w.g = Row(a).g,
         Row(a).n < Len(mined[At(a).role]),
         w.st \in Settled \/ (w.st = "superseded" /\ kind = "native"),
         w.st \in Settled => Uses(At(a).role, a, thr[a].k, w.n),
         t.mode \notin {"reserved", "intended"}, ThreadMayBe(a, w, t)
  PROVE  NonceInv' /\ RootInv'
<1>1. /\ thr[a].k \in 1..Len(Plan(a)) /\ At(a).role \in Roles /\ At(a).role = Plan(a)[thr[a].k].role
      /\ Row(a) = rows[a][thr[a].k]
  BY ThreadFacts DEF NonceInv
<1>2. w.n \in Nat /\ w.st # "none" /\ w.st # "signed" /\ w.st # "intended"
  BY <1>1 DEF NonceInv, RowsHold, Settled
<1>3. kind = "multihop" => w.st \in Settled
  OBVIOUS
<1>4. ASSUME NEW r \in Roles, NEW s \in sent[r], s.a = a, s.k = thr[a].k
      PROVE  /\ s.n >= Len(mined[r]) => w.st = "signed"
             /\ s.n >= Len(mined[r]) \/ kind = "multihop" =>
                  w.st \in {"signed"} \cup Settled /\ w.n = s.n /\ w.g = s.g
  <2>1. /\ At(a).role = r /\ s.n \in Nat /\ Len(mined[r]) \in Nat
        /\ s.n >= Len(mined[r]) \/ kind = "multihop" => Row(a).n = s.n /\ Row(a).g = s.g
    BY <1>1, <1>4 DEF NonceInv, SentIsRecorded, RunnerTyped, StoresTyped, Sends
  <2>2. ~(s.n >= Len(mined[r]))
    BY <2>1
  <2> QED BY <1>3, <2>1, <2>2
<1>5. ASSUME kind = "multihop", "root" \notin MayRevert, thr[a].k = 1
      PROVE  /\ w.g # -1 /\ Root(a, w.n, w.g)
             /\ \A n, g \in Nat : Root(a, n, g) => n = w.n /\ g = w.g
  <2>1. rows[a][1].st # "none" /\ rows[a][1].n = w.n /\ rows[a][1].g = w.g /\ ~Holding(a)
    BY <1>1, <1>5 DEF Holding
  <2>2. w.g # -1
    BY <1>5, <2>1 DEF RootInv, RootsNumbered
  <2> QED BY <2>1, <2>2 DEF Root
<1>6. /\ w.st \in {"signed"} \cup Settled => Uses(At(a).role, a, thr[a].k, w.n)
      /\ w.st \in Settled \cup {"superseded"} => w.n < Len(mined[At(a).role])
      /\ kind = "multihop" => w.st \notin {"intended", "superseded"}
  BY <1>2, <1>3 DEF Settled
<1>8. \A r \in Roles : \A s \in sent[r] : s.a = a /\ s.k = thr[a].k =>
            /\ s.n >= Len(mined[r]) => w.st = "signed"
            /\ s.n >= Len(mined[r]) \/ kind = "multihop" =>
                 w.st \in {"signed"} \cup Settled /\ w.n = s.n /\ w.g = s.g
  BY <1>4, Zenon
<1>9. kind = "multihop" /\ "root" \notin MayRevert /\ thr[a].k = 1 =>
            /\ w.g # -1 /\ Root(a, w.n, w.g)
            /\ \A n, g \in Nat : Root(a, n, g) => n = w.n /\ g = w.g
  BY <1>5, Zenon
<1>10. RowMayBe(a, w)
  BY <1>2, <1>6, <1>8, <1>9, Zenon DEF RowMayBe
<1> QED BY <1>10, RowWritten

LEMMA ResendKeeps ==
  ASSUME NonceInv, RootInv, NEW a \in Batch, Resend(a)
  PROVE  NonceInv' /\ RootInv'
<1>1. /\ up /\ thr[a].pc = "running" /\ thr[a].mode = "resend"
      /\ UNCHANGED <<kind, route, up, nonces, xnext, mined>>
  BY DEF Resend, Runs
<1>2. kind = "native" /\ Row(a).st \in {"signed", "failed", "superseded"} /\ At(a).op # "wait"
  BY <1>1 DEF NonceInv, ThreadsKnow, AtWork, RowStates, ModeFits
<1>3. /\ thr[a] \in ThreadRecs /\ thr[a].k \in 1..Len(Plan(a)) /\ Row(a) = rows[a][thr[a].k]
      /\ Row(a) \in RowRecs /\ rows \in [Batch -> Range(rows)]
      /\ rows[a] \in [1..Len(Plan(a)) -> RowRecs]
  <2>1. rows = [b \in Batch |-> rows[b]] /\ rows[a] \in [1..Len(Plan(a)) -> RowRecs]
    BY DEF NonceInv, RunnerTyped, StoresTyped
  <2> QED BY <2>1, ThreadFacts DEF NonceInv, Range
<1>4. CASE Row(a).n < Len(mined[At(a).role])
  <2>1. /\ rows' = [rows EXCEPT ![a][thr[a].k].st = "superseded"]
        /\ thr' = [thr EXCEPT ![a].mode = "fresh"] /\ UNCHANGED sent
    BY <1>4 DEF Resend, GoTo
  <2> DEFINE w == [Row(a) EXCEPT !.st = "superseded"]
             t == [thr[a] EXCEPT !.mode = "fresh"]
  <2>2. w \in RowRecs /\ w.st = "superseded" /\ w.n = Row(a).n /\ w.g = Row(a).g
    BY <1>3 DEF RowRecs, States
  <2>3. t \in ThreadRecs /\ t.k = thr[a].k /\ t.pc = "running" /\ t.mode = "fresh"
    BY <1>1, <1>3 DEF ThreadRecs, Modes
  <2>4. rows' = [rows EXCEPT ![a] = [rows[a] EXCEPT ![thr[a].k] = w]] /\ thr' = [thr EXCEPT ![a] = t]
    BY <1>3, <2>1
  <2> HIDE DEF w, t
  <2>5. w.st \in RowStates(t.mode) /\ w.st \notin Settled /\ ModeFits(t.mode, Plan(a)[t.k].op)
    BY <1>2, <2>2, <2>3 DEF RowStates, Settled, ModeFits, At
  <2>6. Writes(a, w, t) /\ ThreadMayBe(a, w, t)
    BY <1>1, <1>2, <1>3, <2>1, <2>3, <2>4, <2>5 DEF Writes, ThreadMayBe
  <2> QED BY <1>1, <1>2, <1>4, <2>2, <2>3, <2>5, <2>6, StateWritten
<1>5. CASE ~(Row(a).n < Len(mined[At(a).role]))
  <2>1. SendRow(a) /\ GoTo(a, "await_prior") /\ rows' = rows
    BY <1>5 DEF Resend
  <2>2. Row(a).st \in RowStates("await_prior")
    BY <1>2 DEF RowStates
  <2>3. Row(a).st = "signed"
    BY <1>2, <1>5, SettledPassed
  <2> QED BY <1>1, <1>2, <2>1, <2>2, <2>3, SendKeeps
<1> QED BY <1>4, <1>5


(* The thread that goes on after a row that succeeded.                     *)
LEMMA ProceedMayBe ==
  ASSUME NonceInv, NEW a \in Batch, thr[a].pc = "running", At(a).op # "deliver", NEW w
  PROVE  \E t \in ThreadRecs :
           /\ ThreadMayBe(a, w, t) /\ t.mode \notin {"reserved", "intended"}
           /\ [thr EXCEPT ![a].k = @ + 1, ![a].mode = "enter", ![a].n = -1, ![a].g = -1]
                = [thr EXCEPT ![a] = t]
<1> DEFINE t == [thr[a] EXCEPT !.k = @ + 1, !.mode = "enter", !.n = -1, !.g = -1]
<1>1. thr[a] \in ThreadRecs /\ thr[a].k \in Nat /\ thr[a].k + 1 \in 1..Len(Plan(a))
  BY ThreadFacts, NotLast DEF NonceInv
<1>2. t.k = thr[a].k + 1 /\ t.pc = "running" /\ t.mode = "enter"
  BY <1>1 DEF ThreadRecs
<1>3. t \in ThreadRecs
  <2>1. thr[a].k + 1 \in Nat /\ -1 \in Count /\ "enter" \in Modes
    BY <1>1 DEF Modes, Count
  <2> QED BY <1>1, <2>1 DEF ThreadRecs
<1>4. [thr EXCEPT ![a].k = @ + 1, ![a].mode = "enter", ![a].n = -1, ![a].g = -1]
                = [thr EXCEPT ![a] = t]
  OBVIOUS
<1> HIDE DEF t
<1>5. ThreadMayBe(a, w, t)
  BY <1>1, <1>2 DEF ThreadMayBe, ModeFits
<1> QED BY <1>2, <1>3, <1>4, <1>5

LEMMA RaiseMayBe ==
  ASSUME NonceInv, NEW a \in Batch, thr[a].mode \notin {"reserved", "intended"}, NEW w
  PROVE  \E t \in ThreadRecs :
           /\ ThreadMayBe(a, w, t) /\ t.mode \notin {"reserved", "intended"}
           /\ [thr EXCEPT ![a].pc = "raised"] = [thr EXCEPT ![a] = t]
<1> DEFINE t == [thr[a] EXCEPT !.pc = "raised"]
<1>1. thr[a] \in ThreadRecs /\ thr[a].k \in 1..Len(Plan(a))
  BY ThreadFacts DEF NonceInv
<1>2. t \in ThreadRecs /\ t.k = thr[a].k /\ t.pc = "raised" /\ t.mode = thr[a].mode
  BY <1>1 DEF ThreadRecs
<1>3. [thr EXCEPT ![a].pc = "raised"] = [thr EXCEPT ![a] = t]
  OBVIOUS
<1> HIDE DEF t
<1>4. ThreadMayBe(a, w, t)
  BY <1>1, <1>2 DEF ThreadMayBe
<1> QED BY <1>2, <1>3, <1>4

LEMMA GoToMayBe ==
  ASSUME NonceInv, NEW a \in Batch, thr[a].pc = "running", NEW w,
         NEW m \in {"evidence", "effect"}, w.st \in RowStates(m), ModeFits(m, At(a).op)
  PROVE  \E t \in ThreadRecs :
           /\ ThreadMayBe(a, w, t) /\ t.mode \notin {"reserved", "intended"}
           /\ [thr EXCEPT ![a].mode = m] = [thr EXCEPT ![a] = t]
<1> DEFINE t == [thr[a] EXCEPT !.mode = m]
<1>1. thr[a] \in ThreadRecs /\ thr[a].k \in 1..Len(Plan(a))
  BY ThreadFacts DEF NonceInv
<1>2. t \in ThreadRecs /\ t.k = thr[a].k /\ t.pc = "running" /\ t.mode = m
  BY <1>1 DEF ThreadRecs, Modes
<1>3. [thr EXCEPT ![a].mode = m] = [thr EXCEPT ![a] = t]
  OBVIOUS
<1> HIDE DEF t
<1>4. ThreadMayBe(a, w, t)
  BY <1>1, <1>2 DEF ThreadMayBe, At
<1> QED BY <1>2, <1>3, <1>4

LEMMA RecordEvidenceKeeps ==
  ASSUME NonceInv, RootInv, NEW a \in Batch, RecordEvidence(a)
  PROVE  NonceInv' /\ RootInv'
<1>1. /\ up /\ thr[a].pc = "running" /\ thr[a].mode = "evidence" /\ Proceed(a)
      /\ UNCHANGED <<kind, route, up, nonces, xnext, sent, mined>>
      /\ rows' = [rows EXCEPT ![a][thr[a].k].ev = TRUE]
  BY DEF RecordEvidence, Runs, chainVars
<1>2. Row(a).st = "succeeded" /\ At(a).op # "deliver"
  BY <1>1 DEF NonceInv, ThreadsKnow, AtWork, RowStates, ModeFits
<1> DEFINE w == [Row(a) EXCEPT !.ev = TRUE]
<1>3. /\ thr[a].k \in 1..Len(Plan(a)) /\ Row(a) = rows[a][thr[a].k] /\ Row(a) \in RowRecs
      /\ At(a).role = Plan(a)[thr[a].k].role
  BY ThreadFacts DEF NonceInv
<1>4. w \in RowRecs /\ w.st = "succeeded" /\ w.n = Row(a).n /\ w.g = Row(a).g
  BY <1>2, <1>3 DEF RowRecs
<1>5. rows' = [rows EXCEPT ![a] = [rows[a] EXCEPT ![thr[a].k] = w]]
  BY <1>1, <1>3
<1> HIDE DEF w
<1>6. Uses(At(a).role, a, thr[a].k, w.n)
  BY <1>2, <1>3, <1>4 DEF Uses, Out, Settled
<1>7. Row(a).n < Len(mined[At(a).role])
  BY <1>2, SettledPassed
<1>8. PICK t \in ThreadRecs : ThreadMayBe(a, w, t) /\ t.mode \notin {"reserved", "intended"}
                              /\ thr' = [thr EXCEPT ![a] = t]
  <2>1. \E t \in ThreadRecs : ThreadMayBe(a, w, t) /\ t.mode \notin {"reserved", "intended"}
           /\ [thr EXCEPT ![a].k = @ + 1, ![a].mode = "enter", ![a].n = -1, ![a].g = -1]
                = [thr EXCEPT ![a] = t]
    BY <1>1, <1>2, ProceedMayBe
  <2>2. thr' = [thr EXCEPT ![a].k = @ + 1, ![a].mode = "enter", ![a].n = -1, ![a].g = -1]
    BY <1>1 DEF Proceed
  <2> QED BY <2>1, <2>2
<1>9. Writes(a, w, t)
  BY <1>1, <1>5, <1>8 DEF Writes
<1>10. w.st \in Settled
  BY <1>4 DEF Settled
<1> QED BY <1>1, <1>2, <1>4, <1>6, <1>7, <1>8, <1>9, <1>10, StateWritten

(* A transaction that was mined for the nonce of the row used it.          *)
LEMMA ReceiptFacts ==
  ASSUME NonceInv, NEW a \in Batch, NEW m \in Receipts(a)
  PROVE  /\ Row(a).n \in Nat /\ Row(a).n < Len(mined[At(a).role])
         /\ Uses(At(a).role, a, thr[a].k, Row(a).n)
<1> DEFINE R == At(a).role
<1>1. R \in Roles
  BY ThreadFacts DEF NonceInv
<1>2. mined[R] \in Seq(Blocks) /\ Len(mined[R]) \in Nat
  BY <1>1 DEF NonceInv, RunnerTyped, StoresTyped
<1>3. PICK i \in 1..Len(mined[R]) : m = mined[R][i]
  BY <1>2 DEF Receipts, Range
<1>4. m.a = a /\ m.k = thr[a].k /\ m.n = Row(a).n
  BY DEF Receipts
<1>5. /\ m.n = i - 1
      /\ \E s \in sent[R] : s.a = m.a /\ s.k = m.k /\ s.n = i - 1
  BY <1>1, <1>3 DEF NonceInv, MinedWasSent
<1> HIDE DEF R
<1>6. Row(a).n = i - 1 /\ i - 1 \in Nat /\ i - 1 < Len(mined[R])
  BY <1>2, <1>4, <1>5
<1> QED BY <1>4, <1>5, <1>6 DEF Uses, R

LEMMA AwaitReceiptKeeps ==
  ASSUME NonceInv, RootInv, NEW a \in Batch, AwaitReceipt(a)
  PROVE  NonceInv' /\ RootInv'
<1>1. /\ up /\ thr[a].pc = "running" /\ thr[a].mode \in {"await", "await_prior"}
      /\ UNCHANGED <<kind, route, up, nonces, xnext, sent, mined>>
  BY DEF AwaitReceipt, chainVars
<1>2. PICK m \in Receipts(a) :
          IF m.ok
          THEN StoreSucceeded(a) /\ AfterReceipt(a)
          ELSE /\ rows' = IF thr[a].mode = "await"
                          THEN [rows EXCEPT ![a][thr[a].k].st = "failed"]
                          ELSE rows
               /\ Raise(a)
  BY DEF AwaitReceipt
<1>3. /\ Row(a).n \in Nat /\ Row(a).n < Len(mined[At(a).role])
      /\ Uses(At(a).role, a, thr[a].k, Row(a).n)
  BY <1>2, ReceiptFacts
<1>4. Row(a).st # "none" /\ At(a).op # "wait"
  BY <1>1 DEF NonceInv, ThreadsKnow, AtWork, RowStates, ModeFits
<1>5. /\ thr[a].k \in 1..Len(Plan(a)) /\ Row(a) = rows[a][thr[a].k] /\ Row(a) \in RowRecs
      /\ At(a).op \in Ops
  BY ThreadFacts DEF NonceInv
<1>6. ASSUME NEW w \in RowRecs, w.st \in Settled, w.n = Row(a).n, w.g = Row(a).g,
             rows' = [rows EXCEPT ![a] = [rows[a] EXCEPT ![thr[a].k] = w]],
             \E t \in ThreadRecs : ThreadMayBe(a, w, t) /\ t.mode \notin {"reserved", "intended"}
                                   /\ thr' = [thr EXCEPT ![a] = t]
      PROVE  NonceInv' /\ RootInv'
  <2>1. PICK t \in ThreadRecs : ThreadMayBe(a, w, t) /\ t.mode \notin {"reserved", "intended"}
                                /\ thr' = [thr EXCEPT ![a] = t]
    BY <1>6
  <2>2. Writes(a, w, t)
    BY <1>1, <1>6, <2>1 DEF Writes
  <2>3. thr[a].mode \notin {"reserved", "intended"}
    BY <1>1
  <2>4. w.st \in Settled => Uses(At(a).role, a, thr[a].k, w.n)
    BY <1>3, <1>6
  <2> QED BY <1>3, <1>4, <1>6, <2>1, <2>2, <2>3, <2>4, StateWritten
<1>7. CASE m.ok
  <2> DEFINE w == [Row(a) EXCEPT !.st = "succeeded",
                                 !.ev = At(a).op = "dispatch" /\ Carrier(a) = "H"]
  <2>1. w \in RowRecs /\ w.st = "succeeded" /\ w.n = Row(a).n /\ w.g = Row(a).g
    <3>1. (At(a).op = "dispatch" /\ Carrier(a) = "H") \in BOOLEAN
      OBVIOUS
    <3> QED BY <1>5, <3>1 DEF RowRecs, States
  <2>2. StoreSucceeded(a) /\ AfterReceipt(a)
    BY <1>2, <1>7
  <2>3. rows' = [rows EXCEPT ![a] = [rows[a] EXCEPT ![thr[a].k] = w]]
    BY <1>5, <2>2 DEF StoreSucceeded
  <2> HIDE DEF w
  <2>4. w.st \in Settled /\ w.st \in RowStates("evidence") /\ w.st \in RowStates("effect")
    BY <2>1 DEF Settled, RowStates, States
  <2>5. \/ At(a).op # "deliver" /\ Proceed(a)
        \/ Raise(a)
        \/ At(a).op = "dispatch" /\ GoTo(a, "evidence")
        \/ At(a).op = "deliver" /\ GoTo(a, "effect")
    BY <1>4, <1>5, <2>2 DEF AfterReceipt, SignRoot, Ops
  <2>6. \E t \in ThreadRecs : ThreadMayBe(a, w, t) /\ t.mode \notin {"reserved", "intended"}
                              /\ thr' = [thr EXCEPT ![a] = t]
    <3>1. CASE At(a).op # "deliver" /\ Proceed(a)
      BY <1>1, <3>1, ProceedMayBe DEF Proceed
    <3>2. CASE Raise(a)
      BY <1>1, <3>2, RaiseMayBe DEF Raise
    <3>3. CASE At(a).op = "dispatch" /\ GoTo(a, "evidence")
      <4>1. ModeFits("evidence", At(a).op)
        BY <3>3 DEF ModeFits
      <4> QED BY <1>1, <2>4, <3>3, <4>1, GoToMayBe DEF GoTo
    <3>4. CASE At(a).op = "deliver" /\ GoTo(a, "effect")
      <4>1. ModeFits("effect", At(a).op)
        BY <3>4 DEF ModeFits
      <4> QED BY <1>1, <2>4, <3>4, <4>1, GoToMayBe DEF GoTo
    <3> QED BY <2>5, <3>1, <3>2, <3>3, <3>4
  <2> QED BY <1>6, <2>1, <2>3, <2>4, <2>6
<1>8. CASE ~m.ok /\ thr[a].mode = "await"
  <2> DEFINE w == [Row(a) EXCEPT !.st = "failed"]
  <2>1. w \in RowRecs /\ w.st = "failed" /\ w.n = Row(a).n /\ w.g = Row(a).g
    BY <1>5 DEF RowRecs, States
  <2>2. rows' = [rows EXCEPT ![a] = [rows[a] EXCEPT ![thr[a].k] = w]] /\ Raise(a)
    BY <1>2, <1>5, <1>8
  <2> HIDE DEF w
  <2>3. \E t \in ThreadRecs : ThreadMayBe(a, w, t) /\ t.mode \notin {"reserved", "intended"}
                              /\ thr' = [thr EXCEPT ![a] = t]
    BY <1>1, <2>2, RaiseMayBe DEF Raise
  <2>4. w.st \in Settled
    BY <2>1 DEF Settled
  <2> QED BY <1>6, <2>1, <2>2, <2>3, <2>4
<1>9. CASE ~m.ok /\ thr[a].mode # "await"
  <2>1. rows' = rows /\ Raise(a)
    BY <1>2, <1>9
  <2> QED BY <1>1, <2>1, Moves
<1> QED BY <1>7, <1>8, <1>9

LEMMA BuildTransactionKeeps ==
  ASSUME NonceInv, RootInv, NEW a \in Batch, BuildTransaction(a)
  PROVE  NonceInv' /\ RootInv'
<1> DEFINE to == IF kind = "multihop" THEN "send" ELSE "intended"
           w == [st |-> IF kind = "multihop" THEN "signed" ELSE "intended",
                 n |-> thr[a].n, g |-> thr[a].g, ev |-> FALSE]
           t == [thr[a] EXCEPT !.mode = to]
<1>1. /\ up /\ thr[a].pc = "running" /\ thr[a].mode = "reserved"
      /\ UNCHANGED <<kind, route, up, nonces, xnext, sent, mined>>
      /\ rows' = [rows EXCEPT ![a][thr[a].k] = w]
      /\ thr' = [thr EXCEPT ![a].mode = to]
  BY DEF BuildTransaction, StoreFresh, GoTo, Runs, chainVars
<1>2. /\ thr[a] \in ThreadRecs /\ thr[a].k \in 1..Len(Plan(a)) /\ Row(a) = rows[a][thr[a].k]
      /\ At(a).role \in Roles /\ At(a).role = Plan(a)[thr[a].k].role
      /\ kind \in {"native", "multihop"}
  BY ThreadFacts, NativeConstants DEF NonceInv, RunnerTyped
<1>3. /\ Holding(a) /\ thr[a].n \in Nat /\ At(a).op # "wait"
      /\ Row(a).st \in RowStates("reserved")
  BY <1>1 DEF NonceInv, ThreadsKnow, AtWork, Holding, ModeFits
<1>4. w \in RowRecs /\ w.n = thr[a].n /\ w.g = thr[a].g
      /\ w.st = IF kind = "multihop" THEN "signed" ELSE "intended"
  BY <1>2, <1>3 DEF RowRecs, ThreadRecs, States, Count
<1>5. t \in ThreadRecs /\ t.k = thr[a].k /\ t.n = thr[a].n /\ t.g = thr[a].g
      /\ t.pc = "running" /\ t.mode = to
  BY <1>1, <1>2 DEF ThreadRecs, Modes
<1>6. Writes(a, w, t)
  <2>1. rows' = [rows EXCEPT ![a] = [rows[a] EXCEPT ![thr[a].k] = w]]
    BY <1>1
  <2>2. thr' = [thr EXCEPT ![a] = t]
    BY <1>1
  <2> HIDE DEF w, t
  <2> QED BY <1>1, <2>1, <2>2 DEF Writes
<1> HIDE DEF w, t
<1>7. ThreadMayBe(a, w, t)
  <2>1. w.st \in RowStates(t.mode)
    BY <1>4, <1>5 DEF RowStates
  <2>2. ModeFits(t.mode, Plan(a)[t.k].op)
    BY <1>3, <1>5 DEF ModeFits, At
  <2> QED BY <1>2, <1>3, <1>4, <1>5, <2>1, <2>2 DEF ThreadMayBe
<1>8. RowMayBe(a, w)
  <2>1. w.st # "none" /\ w.n \in Nat /\ w.st \notin Settled \cup {"superseded"}
        /\ (kind = "multihop" => w.st = "signed")
    BY <1>3, <1>4 DEF Settled
  <2>2. Uses(At(a).role, a, thr[a].k, w.n)
    BY <1>2, <1>3, <1>4 DEF Uses
  <2>3. ASSUME NEW r \in Roles, NEW s \in sent[r], s.a = a, s.k = thr[a].k
        PROVE  kind = "native" /\ ~(s.n >= Len(mined[r]))
    <3>1. kind = "native"
      BY <1>2, <1>3, <2>3, HeldRoot
    <3>2. Row(a).st # "signed"
      BY <1>3 DEF RowStates
    <3>3. s.n >= Len(mined[r]) => Row(a).st = "signed"
      BY <1>2, <2>3 DEF NonceInv, SentIsRecorded
    <3> QED BY <3>1, <3>2, <3>3
  <2>4. ASSUME kind = "multihop", "root" \notin MayRevert, thr[a].k = 1
        PROVE  /\ w.g # -1 /\ Root(a, w.n, w.g)
               /\ \A n, g \in Nat : Root(a, n, g) => n = w.n /\ g = w.g
    <3>1. thr[a].g \in Nat
      BY <1>3, <2>4 DEF RootInv, RootsNumbered
    <3>2. rows[a][1].st = "none"
      BY <1>2, <1>3, <2>4, HeldRoot
    <3>3. w.g # -1
      BY <1>4, <3>1
    <3>4. Root(a, w.n, w.g)
      BY <1>3, <1>4, <2>4 DEF Root
    <3>5. \A n, g \in Nat : Root(a, n, g) => n = w.n /\ g = w.g
      BY <1>4, <3>2 DEF Root
    <3> QED BY <3>3, <3>4, <3>5
  <2>5. \A r \in Roles : \A s \in sent[r] : s.a = a /\ s.k = thr[a].k =>
       /\ s.n >= Len(mined[r]) => w.st = "signed"
       /\ s.n >= Len(mined[r]) \/ kind = "multihop" =>
            w.st \in {"signed"} \cup Settled /\ w.n = s.n /\ w.g = s.g
    BY <2>3
  <2>6. kind = "multihop" => w.st \notin {"intended", "superseded"}
    BY <2>1
  <2> QED BY <2>1, <2>2, <2>4, <2>5, <2>6, Zenon DEF RowMayBe
<1> QED BY <1>4, <1>5, <1>6, <1>7, <1>8, RowWritten

LEMMA RecordSignedKeeps ==
  ASSUME NonceInv, RootInv, NEW a \in Batch, RecordSigned(a)
  PROVE  NonceInv' /\ RootInv'
<1> DEFINE w == [Row(a) EXCEPT !.st = "signed"]
           t == [thr[a] EXCEPT !.mode = "send"]
<1>1. /\ up /\ thr[a].pc = "running" /\ thr[a].mode = "intended"
      /\ UNCHANGED <<kind, route, up, nonces, xnext, sent, mined>>
      /\ rows' = [rows EXCEPT ![a][thr[a].k].st = "signed"]
      /\ thr' = [thr EXCEPT ![a].mode = "send"]
  BY DEF RecordSigned, GoTo, Runs, chainVars
<1>2. /\ thr[a] \in ThreadRecs /\ thr[a].k \in 1..Len(Plan(a)) /\ Row(a) = rows[a][thr[a].k]
      /\ Row(a) \in RowRecs /\ At(a).role \in Roles /\ At(a).role = Plan(a)[thr[a].k].role
  BY ThreadFacts DEF NonceInv
<1>3. /\ Holding(a) /\ thr[a].n \in Nat /\ At(a).op # "wait" /\ kind = "native"
      /\ Row(a).st = "intended" /\ thr[a].n = Row(a).n
  BY <1>1 DEF NonceInv, ThreadsKnow, AtWork, Holding, ModeFits, RowStates
<1>4. w \in RowRecs /\ w.n = thr[a].n /\ w.st = "signed"
  BY <1>2, <1>3 DEF RowRecs, States
<1>5. t \in ThreadRecs /\ t.k = thr[a].k /\ t.pc = "running" /\ t.mode = "send"
  BY <1>1, <1>2 DEF ThreadRecs, Modes
<1>6. Writes(a, w, t)
  <2>1. rows' = [rows EXCEPT ![a] = [rows[a] EXCEPT ![thr[a].k] = w]]
    BY <1>1, <1>2
  <2>2. thr' = [thr EXCEPT ![a] = t]
    BY <1>1
  <2> HIDE DEF w, t
  <2> QED BY <1>1, <2>1, <2>2 DEF Writes
<1> HIDE DEF w, t
<1>7. ThreadMayBe(a, w, t)
  <2>1. w.st \in RowStates(t.mode) /\ ModeFits(t.mode, Plan(a)[t.k].op)
    BY <1>3, <1>4, <1>5 DEF RowStates, ModeFits, At
  <2> QED BY <1>2, <1>5, <2>1 DEF ThreadMayBe
<1>8. RowMayBe(a, w)
  <2>1. w.st # "none" /\ w.n \in Nat /\ w.st \notin Settled \cup {"superseded"}
    BY <1>3, <1>4 DEF Settled
  <2>2. Uses(At(a).role, a, thr[a].k, w.n)
    BY <1>2, <1>3, <1>4 DEF Uses
  <2>3. \A r \in Roles : \A s \in sent[r] : s.a = a /\ s.k = thr[a].k => ~(s.n >= Len(mined[r]))
    BY <1>2, <1>3 DEF NonceInv, SentIsRecorded
  <2> QED BY <1>3, <2>1, <2>2, <2>3, Zenon DEF RowMayBe
<1> QED BY <1>4, <1>5, <1>6, <1>7, <1>8, RowWritten

-----------------------------------------------------------------------------
(* A thread takes the next nonce of its chain, and a root the next record  *)
(* nonce.                                                                  *)
Takes(a, g) ==
  /\ Fresh(a)
  /\ thr' = [thr EXCEPT ![a].mode = "reserved", ![a].g = g, ![a].n = nonces[At(a).role]]
  /\ nonces' = [nonces EXCEPT ![At(a).role] = @ + 1]
  /\ UNCHANGED <<kind, route, up, rows, sent, mined>>

LEMMA TakesFacts ==
  ASSUME NonceInv, NEW a \in Batch, NEW g \in Count, Takes(a, g), xnext' \in Count
  PROVE  /\ RunnerTyped' /\ ThreadsKnow'
         /\ thr'[a].k = thr[a].k /\ thr'[a].g = g /\ thr'[a].n = nonces[At(a).role]
         /\ nonces[At(a).role] \in Nat /\ nonces'[At(a).role] = nonces[At(a).role] + 1
         /\ \A r \in Roles : nonces[r] \in Nat /\ nonces'[r] \in Nat /\ nonces[r] <= nonces'[r]
         /\ \A b \in Batch : b # a => thr'[b] = thr[b]
         /\ \A b \in Batch : b # a => Holding(b)' = Holding(b)
         /\ ~Holding(a) /\ Holding(a)'
<1> DEFINE R == At(a).role
           t == [thr[a] EXCEPT !.mode = "reserved", !.g = g, !.n = nonces[R]]
<1>1. /\ thr[a] \in ThreadRecs /\ thr[a].k \in 1..Len(Plan(a)) /\ Row(a) = rows[a][thr[a].k]
      /\ R \in Roles /\ kind \in {"native", "multihop"}
  BY ThreadFacts, NativeConstants DEF NonceInv, RunnerTyped
<1>2. nonces \in [Roles -> Nat]
  BY DEF NonceInv, RunnerTyped, StoresTyped
<1>3. /\ up /\ thr[a].pc = "running" /\ thr[a].mode \in {"fresh", "enter"}
      /\ UNCHANGED <<kind, route, up, rows, sent, mined>>
      /\ thr' = [thr EXCEPT ![a].mode = "reserved", ![a].g = g, ![a].n = nonces[R]]
      /\ nonces' = [nonces EXCEPT ![R] = @ + 1]
  BY DEF Takes, Fresh, Runs
<1>4. At(a).op # "wait" /\ Row(a).st \in RowStates("reserved")
  <2>1. CASE thr[a].mode = "fresh"
    BY <1>3, <2>1 DEF NonceInv, ThreadsKnow, AtWork, ModeFits, RowStates
  <2>2. CASE thr[a].mode = "enter"
    BY <1>1, <2>2 DEF Takes, Fresh, Runs, OnTx, RowStates
  <2> QED BY <1>3, <2>1, <2>2
<1>5. /\ nonces' \in [Roles -> Nat] /\ nonces[R] \in Nat /\ nonces'[R] = nonces[R] + 1
      /\ \A r \in Roles : nonces[r] \in Nat /\ nonces'[r] \in Nat /\ nonces[r] <= nonces'[r]
  BY <1>1, <1>2, <1>3
<1>6. t \in ThreadRecs /\ t.k = thr[a].k /\ t.pc = "running" /\ t.mode = "reserved"
      /\ t.n = nonces[R] /\ t.g = g
  <2>1. nonces[R] \in Count /\ "reserved" \in Modes
    BY <1>5 DEF Count, Modes
  <2> QED BY <1>1, <1>3, <2>1 DEF ThreadRecs
<1>7. StoresTyped'
  BY <1>3, <1>5, RouteKeeps DEF NonceInv, RunnerTyped, StoresTyped, Sends, Blocks
<1>8. thr' = [thr EXCEPT ![a] = t]
  BY <1>3
<1> HIDE DEF t
<1>9. /\ ModeFits(t.mode, Plan(a)[t.k].op) /\ rows'[a][t.k].st \in RowStates(t.mode)
      /\ t.n \in Nat
  BY <1>1, <1>3, <1>4, <1>5, <1>6 DEF ModeFits, At
<1>10. RunnerTyped' /\ ThreadsKnow' /\ thr'[a] = t /\ \A b \in Batch : b # a => thr'[b] = thr[b]
  BY <1>1, <1>3, <1>6, <1>7, <1>8, <1>9, ThreadMoves DEF NonceInv
<1>11. ~Holding(a) /\ Holding(a)' /\ \A b \in Batch : b # a => Holding(b)' = Holding(b)
  BY <1>3, <1>6, <1>10 DEF Holding, AtWork
<1> QED BY <1>5, <1>6, <1>10, <1>11

LEMMA TakesKeeps ==
  ASSUME NonceInv, NEW a \in Batch, NEW g \in Count, Takes(a, g), xnext' \in Count
  PROVE  /\ NonceInv'
         /\ \A b \in Batch : \A k \in 1..Len(Plan(b)) : \A n \in Nat :
              Uses(1, b, k, n)' => Uses(1, b, k, n) \/ n = nonces[1]
<1> DEFINE R == At(a).role
           K == thr[a].k
<1>1. /\ RunnerTyped' /\ ThreadsKnow'
      /\ thr'[a].k = K /\ thr'[a].g = g /\ thr'[a].n = nonces[R]
      /\ nonces[R] \in Nat /\ nonces'[R] = nonces[R] + 1
      /\ \A r \in Roles : nonces[r] \in Nat /\ nonces'[r] \in Nat /\ nonces[r] <= nonces'[r]
      /\ \A b \in Batch : b # a => thr'[b] = thr[b]
      /\ \A b \in Batch : b # a => Holding(b)' = Holding(b)
      /\ ~Holding(a) /\ Holding(a)'
  BY TakesFacts
<1>2. UNCHANGED <<kind, route, up, rows, sent, mined>>
  BY DEF Takes
<1>3. Batch' = Batch /\ \A b : Plan(b)' = Plan(b)
  BY <1>2, RouteKeeps
<1>4. RowsHold' /\ SentIsRecorded' /\ MinedWasSent'
  <2>1. RowsHold'
    BY <1>2, <1>3 DEF NonceInv, RowsHold
  <2>2. SentIsRecorded'
    BY <1>2, <1>3 DEF NonceInv, SentIsRecorded, Out, Settled
  <2>3. MinedWasSent'
    BY <1>2, <1>3 DEF NonceInv, MinedWasSent
  <2> QED BY <2>1, <2>2, <2>3
<1>5. ASSUME NEW r \in Roles, NEW b \in Batch, NEW k \in 1..Len(Plan(b)), NEW n \in Nat,
             Uses(r, b, k, n)'
      PROVE  Uses(r, b, k, n) \/ (r = R /\ b = a /\ k = K /\ n = nonces[R])
  <2>1. CASE b = a
    <3>1. Plan(a)[K].role = R
      BY DEF At
    <3> QED BY <1>1, <1>2, <1>3, <1>5, <2>1, <3>1 DEF Uses, Out, Settled
  <2>2. CASE b # a
    BY <1>1, <1>2, <1>3, <1>5, <2>2 DEF Uses, Out, Settled
  <2> QED BY <2>1, <2>2
<1>6. \A r \in Roles : \A b \in Batch : \A k \in 1..Len(Plan(b)) : \A n \in Nat :
         Uses(r, b, k, n) => n < nonces[r]
  BY DEF NonceInv, NoncesBelow
<1>7. NoncesBelow'
  <2>1. ASSUME NEW r \in Roles, NEW b \in Batch, NEW k \in 1..Len(Plan(b)), NEW n \in Nat,
               Uses(r, b, k, n)'
        PROVE  n < nonces'[r]
    <3>1. CASE Uses(r, b, k, n)
      BY <1>1, <1>6, <3>1
    <3>2. CASE r = R /\ n = nonces[R]
      BY <1>1, <3>2
    <3> QED BY <1>5, <2>1, <3>1, <3>2
  <2> QED BY <1>3, <2>1 DEF NoncesBelow
<1>8. NoncesApart'
  <2>1. ASSUME NEW r \in Roles, NEW b \in Batch, NEW c \in Batch, NEW k \in 1..Len(Plan(b)),
               NEW l \in 1..Len(Plan(c)), NEW n \in Nat,
               Uses(r, b, k, n)', Uses(r, c, l, n)'
        PROVE  b = c /\ k = l
    <3>1. Uses(r, b, k, n) => n < nonces[r]
      BY <1>6
    <3>2. Uses(r, c, l, n) => n < nonces[r]
      BY <1>6
    <3>3. CASE Uses(r, b, k, n) /\ Uses(r, c, l, n)
      BY <3>3 DEF NonceInv, NoncesApart
    <3>4. CASE ~(Uses(r, b, k, n) /\ Uses(r, c, l, n))
      <4>1. Uses(r, b, k, n) \/ (r = R /\ b = a /\ k = K /\ n = nonces[R])
        BY <1>5, <2>1
      <4>2. Uses(r, c, l, n) \/ (r = R /\ c = a /\ l = K /\ n = nonces[R])
        BY <1>5, <2>1
      <4> QED BY <1>1, <3>1, <3>2, <3>4, <4>1, <4>2
    <3> QED BY <3>3, <3>4
  <2> QED BY <1>3, <2>1 DEF NoncesApart
<1>9. NonceInv'
  BY <1>1, <1>4, <1>7, <1>8 DEF NonceInv
<1>10. \A b \in Batch : \A k \in 1..Len(Plan(b)) : \A n \in Nat :
              Uses(1, b, k, n)' => Uses(1, b, k, n) \/ n = nonces[1]
  BY <1>5, RoutesTyped
<1> QED BY <1>9, <1>10

(* With a new nonce, what is before a nonce stays before it.               *)
LEMMA BeforeStays ==
  ASSUME NonceInv, NEW a \in Batch, NEW g \in Count, Takes(a, g), xnext' \in Count,
         \A b \in Batch : \A n, h \in Nat : Root(b, n, h) => Root(b, n, h)',
         NEW x \in Nat, NEW N \in Nat, NEW M \in Nat, N <= nonces[1], N <= M, Before(x, N)
  PROVE  Before(x, M)'
<1>1. Batch' = Batch /\ (\A b : Plan(b)' = Plan(b)) /\ nonces[1] \in Nat
  BY RouteKeeps, RoutesTyped DEF Takes, NonceInv, RunnerTyped, StoresTyped
<1>2. CASE \E b \in Batch : \E n \in 0..(N - 1) : Root(b, n, x)
  <2>1. PICK b \in Batch : \E n \in 0..(N - 1) : Root(b, n, x)
    BY <1>2
  <2>2. PICK n \in 0..(N - 1) : Root(b, n, x)
    BY <2>1
  <2>3. n \in Nat /\ n \in 0..(M - 1) /\ Root(b, n, x)'
    BY <2>2
  <2> QED BY <1>1, <2>3 DEF Before
<1>3. CASE \E m \in 0..(N - 1) : ~Filled(m)
  <2>1. PICK m \in 0..(N - 1) : ~Filled(m)
    BY <1>3
  <2>2. m \in Nat /\ m \in 0..(M - 1) /\ m # nonces[1]
    BY <1>1, <2>1
  <2>3. \A b \in Batch : \A k \in 1..Len(Plan(b)) : Uses(1, b, k, m)' => Uses(1, b, k, m)
    BY <2>2, TakesKeeps
  <2>4. ~Filled(m)'
    BY <1>1, <2>1, <2>3 DEF Filled
  <2> QED BY <2>2, <2>4 DEF Before
<1> QED BY <1>2, <1>3 DEF Before

LEMMA RootBelow ==
  ASSUME NonceInv, kind = "multihop", NEW b \in Batch, NEW n \in Nat, NEW h, Root(b, n, h)
  PROVE  n < nonces[1]
<1>1. Uses(1, b, 1, n) /\ 1 \in 1..Len(Plan(b)) /\ 1 \in Roles
  BY RootUses, PlanFacts, RoutesTyped DEF NonceInv
<1> QED BY <1>1 DEF NonceInv, NoncesBelow

(* A nonce for another transaction than a root.                            *)
LEMMA TakesNoRoot ==
  ASSUME NonceInv, RootInv, kind = "multihop", "root" \notin MayRevert,
         NEW a \in Batch, NEW g \in Count, Takes(a, g),
         thr[a].k # 1, xnext' = xnext
  PROVE  RootInv'
<1>1. Batch' = Batch /\ (\A b : Plan(b)' = Plan(b)) /\ nonces[1] \in Nat /\ xnext \in Count
  BY RouteKeeps, RoutesTyped DEF Takes, NonceInv, RunnerTyped, StoresTyped
<1>2. /\ thr'[a].k # 1 /\ ~Holding(a)
      /\ nonces'[1] \in Nat /\ nonces[1] <= nonces'[1]
      /\ \A b \in Batch : b # a => thr'[b] = thr[b] /\ Holding(b)' = Holding(b)
  BY <1>1, TakesFacts, RoutesTyped
<1>10. rows' = rows /\ mined' = mined /\ kind' = kind
  BY DEF Takes
<1>11. \A b \in Batch : Holding(b)' /\ thr'[b].k = 1 <=> Holding(b) /\ thr[b].k = 1
  BY <1>2
<1>12. \A b \in Batch : Holding(b)' /\ thr'[b].k = 1 => thr'[b] = thr[b]
  BY <1>2
<1>3. \A b \in Batch : \A n, h \in Nat : Root(b, n, h)' <=> Root(b, n, h)
  BY <1>10, <1>11, <1>12 DEF Root
<1>4. RootsNumbered'
  <2>1. RootsNumbered
    BY DEF RootInv
  <2>2. \A b \in Batch : Holding(b)' /\ thr'[b].k = 1 => thr'[b].g \in Nat
    BY <1>11, <1>12, <2>1 DEF RootsNumbered
  <2>3. Batch' = Batch
    BY <1>1
  <2>4. \A b \in Batch : rows'[b][1].st = "none" <=> rows'[b][1].g = -1
    BY <1>10, <2>1 DEF RootsNumbered
  <2> QED BY <2>2, <2>3, <2>4 DEF RootsNumbered
<1>5. RootsApart'
  <2>1. RootsApart
    BY DEF RootInv
  <2>2. Batch' = Batch
    BY <1>1
  <2>3. ASSUME NEW b \in Batch, NEW c \in Batch, NEW n \in Nat, NEW m \in Nat, NEW h \in Nat,
               Root(b, n, h)', Root(c, m, h)'
        PROVE  b = c
    <3>1. Root(b, n, h) /\ Root(c, m, h)
      BY <1>3, <2>3
    <3> QED BY <2>1, <3>1 DEF RootsApart
  <2> QED BY <2>2, <2>3 DEF RootsApart
<1>6. RootsInOrder'
  <2> SUFFICES ASSUME NEW b \in Batch, NEW n \in Nat, NEW h \in Nat, Root(b, n, h)',
                      NEW x \in 0..(h - 1)
               PROVE  Before(x, n)'
    BY <1>1 DEF RootsInOrder
  <2>1. Root(b, n, h)
    BY <1>3
  <2>2. Before(x, n) /\ x \in Nat /\ n <= nonces[1]
    BY <1>1, <2>1, RootBelow DEF RootInv, RootsInOrder
  <2> QED BY <1>1, <1>3, <2>2, BeforeStays
<1>7. NextRoot'
  <2>0. PICK M \in Nat : M = nonces'[1]
    BY <1>2
  <2>1. ASSUME xnext # -1, NEW x \in 0..(xnext - 1) PROVE Before(x, M)'
    <3>1. x \in Nat /\ Before(x, nonces[1])
      BY <1>1, <2>1 DEF RootInv, NextRoot, Count
    <3> QED BY <1>1, <1>2, <1>3, <2>0, <3>1, BeforeStays
  <2>4. xnext # -1 => \A x \in 0..(xnext - 1) : Before(x, nonces[1])'
    BY <2>0, <2>1 DEF Before
  <2>2. xnext = -1 => \A b \in Batch : Holding(b)' => thr'[b].k # 1
    BY <1>11 DEF RootInv, NextRoot
  <2>3. xnext # -1 => \A b \in Batch : \A n, h \in Nat : Root(b, n, h)' => h < xnext
    BY <1>3 DEF RootInv, NextRoot
  <2> QED BY <1>1, <2>2, <2>3, <2>4 DEF NextRoot
<1>8. RootsOnChain'
  BY <1>10, ChainStays DEF RootInv
<1> QED BY <1>4, <1>5, <1>6, <1>7, <1>8 DEF RootInv

(* The next record nonce for a root.                                       *)
LEMMA TakesRoot ==
  ASSUME NonceInv, RootInv, kind = "multihop", "root" \notin MayRevert,
         NEW a \in Batch, NEW g \in Nat, Takes(a, g),
         thr[a].k = 1, xnext' = g + 1,
         \A b \in Batch : \A n, h \in Nat : Root(b, n, h) => h < g,
         \A x \in 0..(g - 1) : Before(x, nonces[1])
  PROVE  RootInv'
<1>0. Batch' = Batch /\ (\A b : Plan(b)' = Plan(b)) /\ rows' = rows /\ mined' = mined /\ kind' = kind
  BY RouteKeeps DEF Takes
<1>1. nonces[1] \in Nat /\ g \in Count /\ xnext' \in Count /\ nonces[1] <= nonces[1]
  <2>1. nonces[1] \in Nat
    BY RoutesTyped DEF NonceInv, RunnerTyped, StoresTyped
  <2> QED BY <2>1 DEF Count
<1>2. At(a).role = 1
  BY PlanFacts DEF NonceInv, At, Step
<1>3. /\ thr'[a].k = 1 /\ thr'[a].g = g /\ thr'[a].n = nonces[1] /\ ~Holding(a) /\ Holding(a)'
      /\ nonces'[1] = nonces[1] + 1
      /\ \A b \in Batch : b # a => thr'[b] = thr[b] /\ Holding(b)' = Holding(b)
  BY <1>1, <1>2, TakesFacts
<1>4. \A b \in Batch : \A n, h \in Nat :
        /\ Holding(b) /\ thr[b].k = 1 /\ thr[b].n = n /\ thr[b].g = h =>
             Holding(b)' /\ thr'[b].k = 1 /\ thr'[b].n = n /\ thr'[b].g = h
        /\ Holding(b)' /\ thr'[b].k = 1 /\ thr'[b].n = n /\ thr'[b].g = h =>
             \/ Holding(b) /\ thr[b].k = 1 /\ thr[b].n = n /\ thr[b].g = h
             \/ b = a /\ n = nonces[1] /\ h = g
  BY <1>3
<1>5. \A b \in Batch : \A n, h \in Nat :
        /\ Root(b, n, h) => Root(b, n, h)'
        /\ Root(b, n, h)' => Root(b, n, h) \/ (b = a /\ n = nonces[1] /\ h = g)
  BY <1>0, <1>4 DEF Root
<1>6. \A n \in Nat : n = nonces[1] => Root(a, n, g)'
  BY <1>3 DEF Root
<1>7. RootsNumbered'
  <2>1. RootsNumbered
    BY DEF RootInv
  <2>2. \A b \in Batch : Holding(b)' /\ thr'[b].k = 1 => thr'[b].g \in Nat
    BY <1>3, <2>1 DEF RootsNumbered
  <2> QED BY <1>0, <2>1, <2>2 DEF RootsNumbered
<1>8. RootsApart'
  <2> SUFFICES ASSUME NEW b \in Batch, NEW c \in Batch, NEW n \in Nat, NEW m \in Nat, NEW h \in Nat,
                      Root(b, n, h)', Root(c, m, h)'
               PROVE  b = c
    BY <1>0 DEF RootsApart
  <2>1. /\ Root(b, n, h) \/ (b = a /\ n = nonces[1] /\ h = g)
        /\ Root(c, m, h) \/ (c = a /\ m = nonces[1] /\ h = g)
    BY <1>5
  <2>2. ~(g < g)
    OBVIOUS
  <2>3. Root(b, n, h) /\ Root(c, m, h) => b = c
    BY DEF RootInv, RootsApart
  <2> QED BY <2>1, <2>2, <2>3
<1>9. RootsInOrder'
  <2> SUFFICES ASSUME NEW b \in Batch, NEW n \in Nat, NEW h \in Nat, Root(b, n, h)',
                      NEW x \in 0..(h - 1)
               PROVE  Before(x, n)'
    BY <1>0 DEF RootsInOrder
  <2>1. CASE Root(b, n, h)
    <3>1. Before(x, n) /\ x \in Nat
      BY <2>1 DEF RootInv, RootsInOrder
    <3>2. n <= nonces[1] /\ n <= n
      BY <1>1, <2>1, RootBelow
    <3>3. \A c \in Batch : \A m, i \in Nat : Root(c, m, i) => Root(c, m, i)'
      BY <1>5
    <3> QED BY <1>1, <3>1, <3>2, <3>3, BeforeStays
  <2>2. CASE n = nonces[1] /\ h = g
    <3>1. Before(x, n) /\ x \in Nat /\ n <= nonces[1]
      BY <1>1, <2>2
    <3>2. n <= n
      OBVIOUS
    <3>3. \A c \in Batch : \A m, i \in Nat : Root(c, m, i) => Root(c, m, i)'
      BY <1>5
    <3> QED BY <1>1, <3>1, <3>2, <3>3, BeforeStays
  <2> QED BY <1>5, <2>1, <2>2
<1>10. NextRoot'
  <2>1. \A b \in Batch : \A n, h \in Nat : Root(b, n, h)' => h < xnext'
    <3>1. ASSUME NEW b \in Batch, NEW n \in Nat, NEW h \in Nat, Root(b, n, h)' PROVE h < g + 1
      <4>1. Root(b, n, h) \/ h = g
        BY <1>5, <3>1
      <4>2. Root(b, n, h) => h < g
        OBVIOUS
      <4> QED BY <4>1, <4>2
    <3> QED BY <3>1
  <2>0. PICK M \in Nat : M = nonces'[1]
    BY <1>1, <1>3
  <2>2. ASSUME NEW x \in 0..g PROVE Before(x, M)'
    <3>1. x \in Nat /\ (x \in 0..(g - 1) \/ x = g) /\ nonces[1] <= M
      BY <1>1, <1>3, <2>0
    <3>2. CASE x \in 0..(g - 1)
      BY <1>1, <1>5, <3>1, <3>2, BeforeStays
    <3>3. CASE x = g
      <4>1. PICK n \in Nat : n = nonces[1]
        BY <1>1
      <4>2. n \in 0..(M - 1) /\ Root(a, n, g)'
        BY <1>3, <1>6, <2>0, <4>1
      <4> QED BY <1>0, <3>3, <4>2 DEF Before
    <3> QED BY <3>1, <3>2, <3>3
  <2>3. xnext' # -1 /\ 0..(xnext' - 1) = 0..g
    OBVIOUS
  <2>4. \A x \in 0..g : Before(x, nonces[1])'
    BY <2>0, <2>2 DEF Before
  <2> QED BY <1>0, <2>1, <2>3, <2>4 DEF NextRoot
<1>11. RootsOnChain'
  BY <1>0, ChainStays DEF RootInv
<1> QED BY <1>7, <1>8, <1>9, <1>10, <1>11 DEF RootInv

(* The batch is finite, so the record nonces its rows name have a greatest *)
(* one.                                                                    *)
LEMMA BatchFinite ==
  ASSUME NonceInv
  PROVE  IsFiniteSet(Batch)
<1>1. route \in Seq(Seq({"H", "L"}))
  BY NativeConstants DEF NonceInv, RunnerTyped
<1>2. Batch = 1..Len(route) /\ Len(route) \in Nat
  BY <1>1 DEF Batch
<1> QED BY <1>2, FS_Interval

LEMMA DurableRootFacts ==
  ASSUME NonceInv
  PROVE  /\ DurableRootNonce \in Nat
         /\ \A b \in Batch : rows[b][1].g < DurableRootNonce
         /\ DurableRootNonce # 0 => \E b \in Batch : rows[b][1].g = DurableRootNonce - 1
<1> DEFINE G == {rows[b][1].g : b \in Batch}
           f == [b \in Batch |-> rows[b][1].g]
<1>1. \A b \in Batch : rows[b][1].g \in Count
  <2>0. \A b \in Batch : 1 \in 1..Len(Plan(b))
    BY PlanFacts DEF NonceInv
  <2>1. \A b \in Batch : rows[b][1] \in RowRecs
    BY <2>0 DEF NonceInv, RunnerTyped, StoresTyped
  <2> QED BY <2>1 DEF RowRecs
<1>0. /\ \A y \in G : \E b \in Batch : rows[b][1].g = y
      /\ \A b \in Batch : rows[b][1].g \in G
  OBVIOUS
<1>2. f \in Surjection(Batch, G)
  <2>1. \A b \in Batch : f[b] = rows[b][1].g
    OBVIOUS
  <2>2. f \in [Batch -> G]
    OBVIOUS
  <2> HIDE DEF f, G
  <2> QED BY <1>0, <2>1, <2>2 DEF Surjection
<1> HIDE DEF f
<1>3. G \in SUBSET Int /\ G \in SUBSET Count
  BY <1>1 DEF Count
<1>4. IsFiniteSet(G)
  <2> HIDE DEF G
  <2> QED BY <1>2, BatchFinite, FS_Surjection
<1>5. SupOr(G, -1) \in G \cup {-1} /\ \A x \in G : x <= SupOr(G, -1)
  <2> HIDE DEF G
  <2> QED BY <1>3, <1>4, SupOrFacts
<1>6. SupOr(G, -1) \in Count
  BY <1>3, <1>5 DEF Count
<1>7. DurableRootNonce = SupOr(G, -1) + 1
  BY DEF DurableRootNonce
<1>8. \A b \in Batch : rows[b][1].g \in G
  OBVIOUS
<1>9. DurableRootNonce \in Nat
  BY <1>6, <1>7 DEF Count
<1>10. ASSUME NEW b \in Batch PROVE rows[b][1].g < DurableRootNonce
  <2>1. rows[b][1].g <= SupOr(G, -1) /\ rows[b][1].g \in Int
    BY <1>1, <1>5, <1>8 DEF Count
  <2> HIDE DEF G
  <2> QED BY <1>6, <1>7, <2>1 DEF Count
<1>11. ASSUME DurableRootNonce # 0 PROVE \E b \in Batch : rows[b][1].g = DurableRootNonce - 1
  <2>1. SupOr(G, -1) \in G
    <3> HIDE DEF G
    <3> QED BY <1>5, <1>6, <1>7, <1>11 DEF Count
  <2>2. PICK b \in Batch : rows[b][1].g = SupOr(G, -1)
    <3> HIDE DEF G
    <3> QED BY <1>0, <2>1
  <2> HIDE DEF G
  <2> QED BY <1>6, <1>7, <2>2 DEF Count
<1> QED BY <1>9, <1>10, <1>11

LEMMA GatewayFacts ==
  ASSUME NonceInv
  PROVE  GatewayNonce \in Nat
<1> DEFINE S == {i \in 1..Len(mined[1]) : mined[1][i].op = "root" /\ mined[1][i].ok}
<1>1. Len(mined[1]) \in Nat
  BY RoutesTyped DEF NonceInv, RunnerTyped, StoresTyped
<1>2. IsFiniteSet(1..Len(mined[1])) /\ S \subseteq 1..Len(mined[1])
  BY <1>1, FS_Interval
<1> HIDE DEF S
<1>3. Cardinality(S) \in Nat
  BY <1>2, FS_Subset, FS_CardinalityType
<1> QED BY <1>3 DEF S, GatewayNonce

LEMMA RootRow ==
  ASSUME NonceInv, RootInv, kind = "multihop", "root" \notin MayRevert,
         NEW a \in Batch, Fresh(a), thr[a].k = 1
  PROVE  rows[a][1].st = "none" /\ rows[a][1].g = -1
<1>1. Row(a) = rows[a][1]
  BY DEF Row
<1>2. Row(a).st = "none"
  <2>1. ~Runs(a, "fresh")
    BY DEF NonceInv, ThreadsKnow, AtWork, Runs
  <2> QED BY <2>1 DEF Fresh
<1> QED BY <1>1, <1>2 DEF RootInv, RootsNumbered

LEMMA ReserveNonceKeeps ==
  ASSUME NonceInv, RootInv, NEW a \in Batch, ReserveNonce(a)
  PROVE  NonceInv' /\ RootInv'
<1> DEFINE g == Row(a).g
<1>1. g \in Count /\ xnext \in Count /\ kind \in {"native", "multihop"} /\ (At(a).op = "root" <=> thr[a].k = 1)
  BY ThreadFacts, NativeConstants DEF NonceInv, RunnerTyped, StoresTyped
<1>2. Takes(a, g) /\ xnext' = xnext /\ kind' = kind
  BY DEF ReserveNonce, Takes, dbVars, chainVars
<1>3. NonceInv'
  <2> HIDE DEF g
  <2> QED BY <1>1, <1>2, TakesKeeps
<1>4. CASE kind = "native" \/ "root" \in MayRevert
  BY <1>2, <1>3, <1>4 DEF RootInv
<1>5. CASE kind = "multihop" /\ "root" \notin MayRevert
  <2>1. thr[a].k # 1
    <3>1. SUFFICES ASSUME thr[a].k = 1 PROVE FALSE
      OBVIOUS
    <3>2. Row(a).g # -1 /\ Fresh(a)
      BY <1>1, <3>1 DEF ReserveNonce
    <3> QED BY <1>5, <3>1, <3>2, RootRow DEF Row
  <2> HIDE DEF g
  <2> QED BY <1>1, <1>2, <1>3, <1>5, <2>1, TakesNoRoot
<1> QED BY <1>1, <1>4, <1>5

(* Every record nonce the gateway gave belongs to a root.                  *)
LEMMA GivenIsRoot ==
  ASSUME NonceInv, RootInv, kind = "multihop", "root" \notin MayRevert, NEW x \in 0..(GatewayNonce - 1)
  PROVE  \E b \in Batch : \E n \in 0..(Len(mined[1]) - 1) : Root(b, n, x) /\ rows[b][1].n = n
                          /\ rows[b][1].g = x /\ rows[b][1].st # "none"
<1>1. PICK i \in 1..Len(mined[1]) : mined[1][i].op = "root" /\ mined[1][i].g = x
  BY DEF RootInv, RootsOnChain
<1>2. 1 \in Roles /\ sent[1] \in SUBSET Sends /\ Len(mined[1]) \in Nat
  BY RoutesTyped DEF NonceInv, RunnerTyped, StoresTyped
<1>3. PICK t \in sent[1] : t.op = "root" /\ t.n = i - 1 /\ t.g = x
  BY <1>1, <1>2 DEF NonceInv, MinedWasSent
<1>4. t.a \in Batch /\ t.k \in 1..Len(Plan(t.a)) /\ Plan(t.a)[t.k].op = "root"
      /\ Out(t.a, t.k) /\ rows[t.a][t.k].n = i - 1 /\ rows[t.a][t.k].g = x
  BY <1>2, <1>3 DEF NonceInv, SentIsRecorded, Sends
<1>5. t.k = 1
  BY <1>4, PlanFacts DEF NonceInv
<1>6. rows[t.a][1].st # "none"
  BY <1>4, <1>5 DEF Out, Settled
<1>7. i - 1 \in 0..(Len(mined[1]) - 1) /\ Root(t.a, i - 1, x)
  BY <1>2, <1>4, <1>5, <1>6 DEF Root
<1> QED BY <1>4, <1>5, <1>6, <1>7

(* The chain has not passed the next nonce of an account.                  *)
LEMMA ChainBelow ==
  ASSUME NonceInv, NEW r \in Roles
  PROVE  Len(mined[r]) \in Nat /\ nonces[r] \in Nat /\ Len(mined[r]) <= nonces[r]
<1>1. Len(mined[r]) \in Nat /\ nonces[r] \in Nat /\ sent[r] \in SUBSET Sends
  BY DEF NonceInv, RunnerTyped, StoresTyped
<1>2. CASE Len(mined[r]) = 0
  BY <1>1, <1>2
<1>3. CASE Len(mined[r]) # 0
  <2> DEFINE i == Len(mined[r])
  <2>1. i \in 1..Len(mined[r]) /\ i - 1 \in Nat
    BY <1>1, <1>3
  <2>2. PICK t \in sent[r] : t.n = i - 1
    BY <2>1 DEF NonceInv, MinedWasSent
  <2>3. t.a \in Batch /\ t.k \in 1..Len(Plan(t.a)) /\ Uses(r, t.a, t.k, i - 1)
    BY <1>1, <2>2 DEF NonceInv, SentIsRecorded, Sends, Uses
  <2>4. i - 1 < nonces[r]
    BY <2>1, <2>3 DEF NonceInv, NoncesBelow
  <2> QED BY <1>1, <2>4
<1> QED BY <1>2, <1>3

LEMMA ReserveRootKeeps ==
  ASSUME NonceInv, RootInv, NEW a \in Batch, ReserveRoot(a)
  PROVE  NonceInv' /\ RootInv'
<1> DEFINE g == IF xnext # -1 THEN xnext ELSE Max2(GatewayNonce, DurableRootNonce)
<1>1. xnext \in Count /\ kind \in {"native", "multihop"} /\ At(a).op = "root" /\ thr[a].k = 1
  BY ThreadFacts, NativeConstants DEF NonceInv, RunnerTyped, StoresTyped, ReserveRoot
<1>2. At(a).role = 1
  BY <1>1, PlanFacts DEF NonceInv, At, Step
<1>3. GatewayNonce \in Nat /\ DurableRootNonce \in Nat
  BY GatewayFacts, DurableRootFacts
<1>4. g \in Nat /\ (xnext = -1 => (g = GatewayNonce \/ g = DurableRootNonce)
                                    /\ GatewayNonce <= g /\ DurableRootNonce <= g)
  BY <1>1, <1>3 DEF Max2, Count
<1>5. Takes(a, g) /\ xnext' = g + 1 /\ kind' = kind
  BY <1>2 DEF ReserveRoot, Takes, dbVars, chainVars
<1>6. xnext # -1 => g = xnext
  OBVIOUS
<1> HIDE DEF g
<1>7. NonceInv'
  <2>1. g \in Count /\ xnext' \in Count
    BY <1>4, <1>5 DEF Count
  <2> QED BY <1>5, <2>1, TakesKeeps
<1>8. CASE kind = "native" \/ "root" \in MayRevert
  BY <1>5, <1>7, <1>8 DEF RootInv
<1>9. CASE kind = "multihop" /\ "root" \notin MayRevert
  <2>0. 1 \in Roles /\ Len(mined[1]) \in Nat /\ nonces[1] \in Nat /\ Len(mined[1]) <= nonces[1]
    BY RoutesTyped, ChainBelow
  <2>1. ASSUME NEW b \in Batch, NEW n \in Nat, NEW h \in Nat, Root(b, n, h) PROVE h < g
    <3>1. CASE xnext # -1
      BY <1>6, <1>9, <2>1, <3>1 DEF RootInv, NextRoot
    <3>2. CASE xnext = -1
      <4>1. rows[b][1].g = h
        BY <1>9, <2>1, <3>2 DEF RootInv, NextRoot, Root
      <4>2. h < DurableRootNonce
        BY <4>1, DurableRootFacts
      <4> QED BY <1>3, <1>4, <3>2, <4>2
    <3> QED BY <3>1, <3>2
  <2>2. ASSUME NEW x \in 0..(g - 1) PROVE Before(x, nonces[1])
    <3>1. CASE xnext # -1
      BY <1>6, <1>9, <3>1 DEF RootInv, NextRoot
    <3>2. CASE xnext = -1 /\ x \in 0..(GatewayNonce - 1)
      <4>1. PICK b \in Batch : \E n \in 0..(Len(mined[1]) - 1) : Root(b, n, x)
        BY <1>9, <3>2, GivenIsRoot
      <4>2. PICK n \in 0..(Len(mined[1]) - 1) : Root(b, n, x)
        BY <4>1
      <4>3. n \in 0..(nonces[1] - 1)
        BY <2>0
      <4> QED BY <4>2, <4>3 DEF Before
    <3>3. CASE xnext = -1 /\ x \notin 0..(GatewayNonce - 1)
      <4>1. DurableRootNonce # 0 /\ x \in Nat /\ x <= DurableRootNonce - 1
        BY <1>3, <1>4, <3>3
      <4>2. PICK b \in Batch : rows[b][1].g = DurableRootNonce - 1
        BY <4>1, DurableRootFacts
      <4> DEFINE h == DurableRootNonce - 1
                 n == rows[b][1].n
      <4>3. h \in Nat
        BY <1>3, <4>1
      <4>4. rows[b][1].st # "none"
        BY <1>9, <4>2, <4>3 DEF RootInv, RootsNumbered
      <4>5. n \in Nat
        <5>1. 1 \in 1..Len(Plan(b))
          BY PlanFacts DEF NonceInv
        <5> QED BY <4>4, <5>1 DEF NonceInv, RowsHold
      <4>10. rows[b][1].n = n /\ rows[b][1].g = h
        BY <4>2
      <4> HIDE DEF n, h
      <4>6. Root(b, n, h)
        BY <4>4, <4>10 DEF Root
      <4>7. n < nonces[1]
        BY <1>9, <4>5, <4>6, RootBelow
      <4>8. CASE x = h
        BY <2>0, <4>5, <4>6, <4>7, <4>8 DEF Before
      <4>9. CASE x # h
        <5>1. x \in 0..(h - 1)
          BY <4>1, <4>3, <4>9 DEF h
        <5>2. Before(x, n)
          BY <1>9, <4>3, <4>5, <4>6, <5>1 DEF RootInv, RootsInOrder
        <5>3. 0..(n - 1) \subseteq 0..(nonces[1] - 1)
          BY <2>0, <4>5, <4>7
        <5> QED BY <5>2, <5>3 DEF Before
      <4> QED BY <4>8, <4>9
    <3> QED BY <3>1, <3>2, <3>3
  <2> QED BY <1>1, <1>4, <1>5, <1>7, <1>9, <2>1, <2>2, TakesRoot
<1> QED BY <1>1, <1>8, <1>9

-----------------------------------------------------------------------------
(* The chain mines a transaction.                                          *)

GivenIn(s) == {i \in 1..Len(s) : s[i].op = "root" /\ s[i].ok}

LEMMA GivenAppend ==
  ASSUME NEW s \in Seq(Blocks), NEW m \in Blocks
  PROVE  /\ Cardinality(GivenIn(s)) \in Nat
         /\ m.op = "root" /\ m.ok =>
              Cardinality(GivenIn(Append(s, m))) = Cardinality(GivenIn(s)) + 1
         /\ ~(m.op = "root" /\ m.ok) =>
              Cardinality(GivenIn(Append(s, m))) = Cardinality(GivenIn(s))
<1> DEFINE S == GivenIn(s)
           L == Len(s)
<1>1. /\ L \in Nat /\ Len(Append(s, m)) = L + 1 /\ Append(s, m)[L + 1] = m
      /\ \A i \in 1..L : Append(s, m)[i] = s[i]
  OBVIOUS
<1>2. IsFiniteSet(1..L) /\ S \subseteq 1..L
  BY <1>1, FS_Interval DEF GivenIn
<1>3. IsFiniteSet(S) /\ Cardinality(S) \in Nat
  BY <1>2, FS_Subset, FS_CardinalityType
<1>4. L + 1 \notin S
  BY <1>1, <1>2
<1>5. 1..(L + 1) = (1..L) \cup {L + 1}
  BY <1>1
<1>6. ASSUME m.op = "root" /\ m.ok PROVE GivenIn(Append(s, m)) = S \cup {L + 1}
  BY <1>1, <1>5, <1>6 DEF GivenIn
<1>7. ASSUME ~(m.op = "root" /\ m.ok) PROVE GivenIn(Append(s, m)) = S
  BY <1>1, <1>5, <1>7 DEF GivenIn
<1> HIDE DEF S, L
<1>8. Cardinality(S \cup {L + 1}) = Cardinality(S) + 1
  BY <1>3, <1>4, FS_AddElement
<1> QED BY <1>3, <1>6, <1>7, <1>8 DEF S

LEMMA SameStage ==
  ASSUME NonceInv, NEW r \in Roles, NEW a \in Batch, NEW b \in Batch, NEW k \in 1..Len(Plan(a)),
         NEW l \in 1..Len(Plan(b)), NEW n \in Nat, Uses(r, a, k, n), Uses(r, b, l, n)
  PROVE  a = b /\ k = l
BY DEF NonceInv, NoncesApart

(* The next root on chain has the next record nonce: a smaller one was     *)
(* given, a greater one would have that nonce before it, on chain.         *)
LEMMA NextGiven ==
  ASSUME NonceInv, RootInv, kind = "multihop", "root" \notin MayRevert,
         NEW t \in sent[1], t.n = Len(mined[1]),
         t.op = "root"
  PROVE  t.g = GatewayNonce
<1> DEFINE L == Len(mined[1])
<1>1. 1 \in Roles /\ sent[1] \in SUBSET Sends /\ L \in Nat /\ t \in Sends
  <2>1. 1 \in Roles
    BY RoutesTyped
  <2>2. sent[1] \in SUBSET Sends /\ mined[1] \in Seq(Blocks)
    BY <2>1 DEF NonceInv, RunnerTyped, StoresTyped
  <2>3. L \in Nat
    BY <2>2
  <2> QED BY <2>1, <2>2, <2>3
<1>2. t.a \in Batch /\ t.k \in 1..Len(Plan(t.a)) /\ Plan(t.a)[t.k].op = "root"
      /\ Out(t.a, t.k) /\ rows[t.a][t.k].n = L /\ rows[t.a][t.k].g = t.g /\ t.g \in Count
  BY <1>1 DEF NonceInv, SentIsRecorded, Sends
<1>3. t.k = 1
  BY <1>2, PlanFacts DEF NonceInv
<1>4. rows[t.a][1].st # "none" /\ rows[t.a][1].n = L /\ rows[t.a][1].g = t.g
  BY <1>2, <1>3 DEF Out, Settled
<1>5. Root(t.a, L, t.g)
  BY <1>4 DEF Root
<1>6. t.g \in Nat
  BY <1>2, <1>4 DEF RootInv, RootsNumbered, Count
<1>7. GatewayNonce \in Nat
  BY GatewayFacts
<1> HIDE DEF L
<1>8. ~(t.g < GatewayNonce)
  <2>1. SUFFICES ASSUME t.g < GatewayNonce PROVE FALSE
    OBVIOUS
  <2>2. t.g \in 0..(GatewayNonce - 1)
    BY <1>6, <1>7, <2>1
  <2>3. PICK b \in Batch : \E n \in 0..(L - 1) : Root(b, n, t.g) /\ rows[b][1].n = n
    BY <2>2, GivenIsRoot DEF L
  <2>4. PICK n \in 0..(L - 1) : Root(b, n, t.g) /\ rows[b][1].n = n
    BY <2>3
  <2>5. n \in Nat /\ n # L
    BY <1>1, <2>4 DEF L
  <2>6. b = t.a
    BY <1>1, <1>2, <1>5, <1>6, <2>4, <2>5 DEF RootInv, RootsApart, L
  <2> QED BY <1>4, <2>4, <2>5, <2>6
<1>9. ASSUME NEW n \in 0..(L - 1)
      PROVE  \E s \in sent[1] : /\ s.n = n /\ s.a \in Batch /\ s.k \in 1..Len(Plan(s.a))
                                /\ Uses(1, s.a, s.k, n)
                                /\ s.k = 1 => /\ rows[s.a][1].n = n
                                              /\ rows[s.a][1].g \in 0..(GatewayNonce - 1)
  <2>1. n + 1 \in 1..Len(mined[1]) /\ n \in Nat
    BY <1>1 DEF L
  <2>2. PICK s \in sent[1] : /\ s.op = mined[1][n + 1].op /\ s.n = n /\ s.g = mined[1][n + 1].g
    BY <1>1, <2>1 DEF NonceInv, MinedWasSent
  <2>3. /\ s.a \in Batch /\ s.k \in 1..Len(Plan(s.a)) /\ s.op = Plan(s.a)[s.k].op
        /\ rows[s.a][s.k].n = n /\ rows[s.a][s.k].g = s.g
    BY <1>1, <2>2 DEF NonceInv, SentIsRecorded, Sends
  <2>4. Uses(1, s.a, s.k, n)
    BY <2>2 DEF Uses
  <2>5. s.k = 1 => s.g \in 0..(GatewayNonce - 1)
    <3>1. s.k = 1 => s.op = "root"
      BY <2>3, PlanFacts DEF NonceInv, Step
    <3> QED BY <2>1, <2>2, <3>1 DEF RootInv, RootsOnChain
  <2> QED BY <2>2, <2>3, <2>4, <2>5
<1>10. ~(GatewayNonce < t.g)
  <2>1. SUFFICES ASSUME GatewayNonce < t.g PROVE FALSE
    OBVIOUS
  <2>2. Before(GatewayNonce, L)
    <3>1. GatewayNonce \in 0..(t.g - 1)
      BY <1>6, <1>7, <2>1
    <3> QED BY <1>1, <1>2, <1>5, <1>6, <3>1 DEF RootInv, RootsInOrder, L
  <2>3. CASE \E m \in 0..(L - 1) : ~Filled(m)
    BY <1>9, <2>3 DEF Filled
  <2>4. CASE \E b \in Batch : \E n \in 0..(L - 1) : Root(b, n, GatewayNonce)
    <3>1. PICK b \in Batch : \E n \in 0..(L - 1) : Root(b, n, GatewayNonce)
      BY <2>4
    <3>2. PICK n \in 0..(L - 1) : Root(b, n, GatewayNonce)
      BY <3>1
    <3>3. PICK s \in sent[1] :
             /\ s.n = n /\ s.a \in Batch /\ s.k \in 1..Len(Plan(s.a))
             /\ Uses(1, s.a, s.k, n)
             /\ s.k = 1 => /\ rows[s.a][1].n = n
                           /\ rows[s.a][1].g \in 0..(GatewayNonce - 1)
      BY <1>9
    <3>4. Uses(1, b, 1, n) /\ 1 \in 1..Len(Plan(b)) /\ n \in Nat
      BY <3>2, RootUses, PlanFacts DEF NonceInv
    <3>5. s.a = b /\ s.k = 1
      <4>1. Uses(1, s.a, s.k, n) /\ s.a \in Batch /\ s.k \in 1..Len(Plan(s.a))
        BY <3>3
      <4> DEFINE p == s.a
                 q == s.k
      <4>2. Uses(1, p, q, n) /\ p \in Batch /\ q \in 1..Len(Plan(p))
        BY <4>1
      <4> HIDE DEF p, q
      <4>3. p = b /\ q = 1
        BY <1>1, <3>4, <4>2, SameStage
      <4> QED BY <4>3 DEF p, q
    <3>6. ~(Holding(b) /\ thr[b].k = 1)
      BY <1>1, <3>3, <3>5, HeldRoot
    <3>7. rows[b][1].g = GatewayNonce
      BY <3>2, <3>6 DEF Root
    <3>8. rows[b][1].g \in 0..(GatewayNonce - 1)
      <4>1. rows[s.a][1].g \in 0..(GatewayNonce - 1)
        BY <3>3, <3>5
      <4>2. rows[s.a] = rows[b]
        BY <3>5
      <4> QED BY <4>1, <4>2
    <3>9. GatewayNonce \in 0..(GatewayNonce - 1)
      BY <3>7, <3>8
    <3> QED BY <1>7, <3>9
  <2> QED BY <2>2, <2>3, <2>4 DEF Before
<1> QED BY <1>6, <1>7, <1>8, <1>10

LEMMA MineKeeps ==
  ASSUME NonceInv, RootInv, NEW r \in Roles, Mine(r)
  PROVE  NonceInv' /\ RootInv'
<1>1. PICK t \in sent[r], reverts \in BOOLEAN :
         /\ t.n = Len(mined[r]) /\ (reverts => t.op \in MayRevert)
         /\ mined' = [mined EXCEPT ![r] = Append(@,
                     [a |-> t.a, k |-> t.k, op |-> t.op, n |-> t.n, g |-> t.g,
                      e |-> IF t.op = "root" THEN GatewayNonce ELSE -1,
                      ok |-> ~reverts /\ ~(t.op = "deliver" /\ effects[t.a] > 0) /\ Proven(t)])]
  BY DEF Mine
<1> DEFINE okay == ~reverts /\ ~(t.op = "deliver" /\ effects[t.a] > 0) /\ Proven(t)
           m == [a |-> t.a, k |-> t.k, op |-> t.op, n |-> t.n, g |-> t.g,
                 e |-> IF t.op = "root" THEN GatewayNonce ELSE -1, ok |-> okay]
           L == Len(mined[r])
<1>2. UNCHANGED <<kind, route, up, thr, nonces, xnext, rows, sent>>
  BY DEF Mine, runnerVars, dbVars
<1>3. Batch' = Batch /\ \A b : Plan(b)' = Plan(b)
  BY <1>2, RouteKeeps
<1>4. /\ sent[r] \in SUBSET Sends /\ mined \in [Roles -> Seq(Blocks)] /\ L \in Nat /\ t \in Sends
      /\ 1 \in Roles
  BY RoutesTyped DEF NonceInv, RunnerTyped, StoresTyped
<1>5. okay \in BOOLEAN
  OBVIOUS
<1>6. m \in Blocks /\ m.a = t.a /\ m.k = t.k /\ m.op = t.op /\ m.n = L /\ m.g = t.g
      /\ (t.op = "root" => m.e = GatewayNonce) /\ m.ok = okay
  <2> HIDE DEF okay
  <2>1. (IF t.op = "root" THEN GatewayNonce ELSE -1) \in Count
    BY GatewayFacts DEF Count
  <2> QED BY <1>1, <1>4, <1>5, <2>1 DEF Blocks, Sends
<1>7. mined' = [mined EXCEPT ![r] = Append(@, m)]
  BY <1>1
<1>8. ASSUME t.op = "root", "root" \notin MayRevert PROVE okay
  <2>1. t.k \in 1..Len(Plan(t.a)) /\ Plan(t.a)[t.k].op = "root" /\ t.a \in Batch
    BY <1>4, <1>8 DEF NonceInv, SentIsRecorded, Sends
  <2>2. t.k = 1 /\ Plan(t.a)[t.k].hop = 0
    BY <2>1, PlanFacts DEF NonceInv, Step
  <2>3. Proven(t)
    <3>1. 1..(0 - 1) = {}
      OBVIOUS
    <3> QED BY <2>1, <2>2, <3>1 DEF Proven
  <2>4. ~reverts
    BY <1>1, <1>8
  <2> QED BY <1>8, <2>3, <2>4
<1> HIDE DEF okay, m
<1>9. /\ mined'[r] = Append(mined[r], m) /\ Len(mined'[r]) = L + 1 /\ mined'[r][L + 1] = m
      /\ \A i \in 1..L : mined'[r][i] = mined[r][i]
      /\ \A q \in Roles : q # r => mined'[q] = mined[q]
      /\ mined' \in [Roles -> Seq(Blocks)]
  BY <1>4, <1>6, <1>7
<1>10. \A q \in Roles : Len(mined[q]) \in Nat /\ Len(mined'[q]) \in Nat /\ Len(mined[q]) <= Len(mined'[q])
  <2>1. \A q \in Roles : Len(mined[q]) \in Nat /\ Len(mined'[q]) \in Nat
    BY <1>4, <1>9
  <2>2. Len(mined[r]) <= Len(mined'[r])
    BY <1>4, <1>9
  <2>3. \A q \in Roles : q # r => Len(mined[q]) <= Len(mined'[q])
    BY <1>9, <2>1
  <2> QED BY <2>1, <2>2, <2>3
<1>11. RunnerTyped'
  BY <1>2, <1>3, <1>9 DEF NonceInv, RunnerTyped, StoresTyped, Sends, Blocks
<1>12. ThreadsKnow'
  BY <1>2, <1>3 DEF NonceInv, ThreadsKnow, AtWork, Row, RowStates, At, ModeFits
<1>13. RowsHold'
  <2>1. \A b \in Batch : \A k \in 1..Len(Plan(b)) : Plan(b)[k].role \in Roles
    BY PlanFacts DEF NonceInv
  <2>2. \A b \in Batch : \A k \in 1..Len(Plan(b)) :
           /\ rows[b][k].st # "none" => rows[b][k].n \in Nat
           /\ rows[b][k].st \in Settled \cup {"superseded"} =>
                 rows[b][k].n \in Nat /\ rows[b][k].n < Len(mined[Plan(b)[k].role])
           /\ kind = "multihop" => rows[b][k].st \notin {"intended", "superseded"}
    BY DEF NonceInv, RowsHold, Settled
  <2>3. \A b \in Batch : \A k \in 1..Len(Plan(b)) :
           rows[b][k].st \in Settled \cup {"superseded"} =>
                 rows[b][k].n < Len(mined'[Plan(b)[k].role])
    <3> SUFFICES ASSUME NEW b \in Batch, NEW k \in 1..Len(Plan(b)),
                        rows[b][k].st \in Settled \cup {"superseded"}
                 PROVE  rows[b][k].n < Len(mined'[Plan(b)[k].role])
      OBVIOUS
    <3> DEFINE q == Plan(b)[k].role
    <3>1. q \in Roles /\ rows[b][k].n \in Nat /\ rows[b][k].n < Len(mined[q])
      BY <2>1, <2>2
    <3> HIDE DEF q
    <3>2. rows[b][k].n < Len(mined'[q])
      BY <1>10, <3>1
    <3> QED BY <3>2 DEF q
  <2> QED BY <1>2, <1>3, <2>2, <2>3 DEF RowsHold, Settled
<1>14. SentIsRecorded'
  <2>1. \A q \in Roles : \A s \in sent[q] : s.n \in Nat
    BY DEF NonceInv, RunnerTyped, StoresTyped, Sends
  <2>2. \A q \in Roles : \A s \in sent[q] : s.n >= Len(mined'[q]) => s.n >= Len(mined[q])
    BY <1>10, <2>1
  <2> QED BY <1>2, <1>3, <2>2 DEF NonceInv, SentIsRecorded, Out, Settled
<1>15. MinedWasSent'
  <2>1. ASSUME NEW q \in Roles, NEW i \in 1..Len(mined'[q])
        PROVE  /\ mined'[q][i].n = i - 1
               /\ \E s \in sent[q] : /\ s.a = mined'[q][i].a /\ s.k = mined'[q][i].k
                                     /\ s.op = mined'[q][i].op /\ s.n = i - 1 /\ s.g = mined'[q][i].g
    <3>1. CASE q = r /\ i = L + 1
      BY <1>1, <1>4, <1>6, <1>9, <3>1
    <3>2. CASE ~(q = r /\ i = L + 1)
      <4>1. i \in 1..Len(mined[q]) /\ mined'[q][i] = mined[q][i]
        <5>1. CASE q = r
          <6>1. L \in Nat /\ i \in 1..(L + 1) /\ i # L + 1
            BY <1>4, <1>9, <3>2, <5>1
          <6>2. i \in 1..L
            <7> HIDE DEF L
            <7> QED BY <6>1
          <6>3. mined'[r][i] = mined[r][i]
            BY <1>9, <6>2
          <6> QED BY <5>1, <6>2, <6>3
        <5>2. CASE q # r
          <6>1. mined'[q] = mined[q]
            BY <1>9, <5>2
          <6> QED BY <6>1
        <5> QED BY <5>1, <5>2
      <4>2. /\ mined[q][i].n = i - 1
            /\ \E s \in sent[q] : /\ s.a = mined[q][i].a /\ s.k = mined[q][i].k
                                  /\ s.op = mined[q][i].op /\ s.n = i - 1 /\ s.g = mined[q][i].g
        BY <4>1, Zenon DEF NonceInv, MinedWasSent
      <4> QED BY <4>1, <4>2, Zenon
    <3> QED BY <3>1, <3>2
  <2> QED BY <1>2, <2>1 DEF MinedWasSent
<1>16. /\ \A q \in Roles : \A b \in Batch : \A k \in 1..Len(Plan(b)) : \A n \in Nat :
              Uses(q, b, k, n)' <=> Uses(q, b, k, n)
       /\ \A b \in Batch : Holding(b)' => SameHold(b)
       /\ \A b \in Batch : \A n, g \in Nat : Root(b, n, g)' <=> Root(b, n, g)
  BY <1>2, <1>3 DEF Uses, Out, Settled, Holding, AtWork, SameHold, Root
<1>17. kind = "multihop" /\ "root" \notin MayRevert => RootsOnChain'
  <2> SUFFICES ASSUME kind = "multihop", "root" \notin MayRevert PROVE RootsOnChain'
    OBVIOUS
  <2>0. RootsOnChain /\ mined[1] \in Seq(Blocks) /\ GatewayNonce \in Nat
    BY <1>4, GatewayFacts DEF RootInv
  <2>3. /\ \A i \in 1..Len(mined[1]) : mined[1][i].op = "root" =>
              mined[1][i].ok /\ mined[1][i].e = mined[1][i].g /\ mined[1][i].g \in 0..(GatewayNonce - 1)
        /\ \A x \in 0..(GatewayNonce - 1) :
              \E i \in 1..Len(mined[1]) : mined[1][i].op = "root" /\ mined[1][i].g = x
    BY <2>0, Zenon DEF RootsOnChain
  <2>1. CASE r # 1
    BY <1>4, <1>9, <2>0, <2>1, ChainStays
  <2>2. CASE r = 1
    <3>1. GatewayNonce = Cardinality(GivenIn(mined[1])) /\ GatewayNonce' = Cardinality(GivenIn(mined'[1]))
      BY DEF GatewayNonce, GivenIn
    <3>4. mined'[1] = Append(mined[1], m)
      BY <1>9, <2>2
    <3>5. /\ m.op = "root" /\ m.ok =>
              Cardinality(GivenIn(Append(mined[1], m))) = Cardinality(GivenIn(mined[1])) + 1
          /\ ~(m.op = "root" /\ m.ok) =>
              Cardinality(GivenIn(Append(mined[1], m))) = Cardinality(GivenIn(mined[1]))
      BY <1>6, <2>0, GivenAppend
    <3>2. CASE t.op # "root"
      <4>1. GatewayNonce' = GatewayNonce
        BY <1>6, <3>1, <3>2, <3>4, <3>5
      <4>2. \A i \in 1..Len(mined'[1]) : mined'[1][i].op = "root" =>
               i \in 1..Len(mined[1]) /\ mined'[1][i] = mined[1][i]
        BY <1>4, <1>6, <1>9, <2>2, <3>2
      <4>3. \A i \in 1..Len(mined[1]) : i \in 1..Len(mined'[1]) /\ mined'[1][i] = mined[1][i]
        BY <1>4, <1>9, <2>2
      <4>4. ASSUME NEW i \in 1..Len(mined'[1]), mined'[1][i].op = "root"
            PROVE  mined'[1][i].ok /\ mined'[1][i].e = mined'[1][i].g
                     /\ mined'[1][i].g \in 0..(GatewayNonce' - 1)
        <5>1. i \in 1..Len(mined[1]) /\ mined'[1][i] = mined[1][i]
          BY <4>2, <4>4
        <5> QED BY <2>3, <4>1, <4>4, <5>1
      <4>5. ASSUME NEW x \in 0..(GatewayNonce' - 1)
            PROVE  \E i \in 1..Len(mined'[1]) : mined'[1][i].op = "root" /\ mined'[1][i].g = x
        <5>1. PICK i \in 1..Len(mined[1]) : mined[1][i].op = "root" /\ mined[1][i].g = x
          BY <2>3, <4>1
        <5> QED BY <4>3, <5>1
      <4> QED BY <4>4, <4>5, Zenon DEF RootsOnChain
    <3>3. CASE t.op = "root"
      <4>1. m.ok /\ m.op = "root" /\ m.e = GatewayNonce /\ m.g = GatewayNonce
        BY <1>1, <1>6, <1>8, <2>2, <3>3, NextGiven
      <4>2. GatewayNonce' = GatewayNonce + 1
        BY <3>1, <3>4, <3>5, <4>1
      <4>3. \A i \in 1..Len(mined'[1]) :
               \/ i \in 1..Len(mined[1]) /\ mined'[1][i] = mined[1][i]
               \/ mined'[1][i] = m
        BY <1>4, <1>9, <2>2
      <4>4. \A i \in 1..Len(mined[1]) : i \in 1..Len(mined'[1]) /\ mined'[1][i] = mined[1][i]
        BY <1>4, <1>9, <2>2
      <4>5. ASSUME NEW i \in 1..Len(mined'[1]), mined'[1][i].op = "root"
            PROVE  mined'[1][i].ok /\ mined'[1][i].e = mined'[1][i].g
                     /\ mined'[1][i].g \in 0..(GatewayNonce' - 1)
        <5>1. CASE i \in 1..Len(mined[1]) /\ mined'[1][i] = mined[1][i]
          <6>1. mined[1][i].ok /\ mined[1][i].e = mined[1][i].g /\ mined[1][i].g \in 0..(GatewayNonce - 1)
            BY <2>3, <4>5, <5>1
          <6>2. mined[1][i].g \in 0..(GatewayNonce' - 1)
            BY <2>0, <4>2, <6>1
          <6> QED BY <5>1, <6>1, <6>2
        <5>2. CASE mined'[1][i] = m
          <6>1. GatewayNonce \in 0..(GatewayNonce' - 1)
            BY <2>0, <4>2
          <6> QED BY <4>1, <5>2, <6>1
        <5> QED BY <4>3, <5>1, <5>2
      <4>6. ASSUME NEW x \in 0..(GatewayNonce' - 1)
            PROVE  \E i \in 1..Len(mined'[1]) : mined'[1][i].op = "root" /\ mined'[1][i].g = x
        <5>1. CASE x = GatewayNonce
          <6>1. L + 1 \in 1..Len(mined'[1]) /\ mined'[1][L + 1] = m
            BY <1>4, <1>9, <2>2
          <6> QED BY <4>1, <5>1, <6>1
        <5>2. CASE x # GatewayNonce
          <6>1. x \in 0..(GatewayNonce - 1)
            BY <2>0, <4>2, <5>2
          <6>2. PICK i \in 1..Len(mined[1]) : mined[1][i].op = "root" /\ mined[1][i].g = x
            BY <2>3, <6>1
          <6> QED BY <4>4, <6>2
        <5> QED BY <5>1, <5>2
      <4> QED BY <4>5, <4>6, Zenon DEF RootsOnChain
    <3> QED BY <3>2, <3>3
  <2> QED BY <2>1, <2>2
<1>18. kind = "multihop" /\ "root" \notin MayRevert =>
            /\ \A b \in Batch : \A n, g \in Nat : Root(b, n, g)' => Root(b, n, g)
            /\ \A b \in Batch : \A n, g \in Nat :
                 Root(b, n, g) /\ Uses(1, b, 1, n)' => Root(b, n, g)'
            /\ \A b \in Batch : rows'[b][1].st = "none" <=> rows'[b][1].g = -1
            /\ RootsOnChain'
  BY <1>2, <1>16, <1>17 DEF RootInv, RootsNumbered
<1> HIDE DEF L
<1> QED BY <1>2, <1>11, <1>12, <1>13, <1>14, <1>15, <1>16, <1>18, NothingNew

-----------------------------------------------------------------------------
(* The runner starts again.                                                *)

(* The pending count: the nonces below it that the chain has not mined are *)
(* those of transactions in the pool.                                      *)
LEMMA PendingCountFacts ==
  ASSUME NEW held, NEW chain, IsFiniteSet(held), Len(chain) \in Nat, \A t \in held : t.n \in Nat
  PROVE  PendingCount(held, chain) \in Nat /\ Len(chain) <= PendingCount(held, chain)
<1> DEFINE L == Len(chain)
           taken == {t.n : t \in held}
           f == [t \in held |-> t.n]
           free == {n \in Nat : n >= L /\ n \notin taken}
           Gapless(n) == /\ \A m \in L..(n - 1) : \E t \in held : t.n = m
                      /\ ~\E t \in held : t.n = n
<1>1. f \in Surjection(held, taken)
  BY Zenon DEF Surjection
<1>2. taken \in SUBSET Nat
  OBVIOUS
<1>3. \A n : n \in taken <=> \E t \in held : t.n = n
  OBVIOUS
<1> HIDE DEF taken, f, L
<1>4. IsFiniteSet(taken) /\ Cardinality(taken) \in Nat /\ Cardinality(taken) <= Cardinality(held)
      /\ Cardinality(held) \in Nat
  BY <1>1, FS_Surjection, FS_CardinalityType
<1>5. L \in Nat
  BY DEF L
<1>6. free # {}
  <2>1. SupOr(taken, -1) \in taken \cup {-1} /\ \A x \in taken : x <= SupOr(taken, -1)
    BY <1>2, <1>4, SupOrFacts
  <2>2. PICK n \in Nat : n > SupOr(taken, -1) /\ n >= L
    <3>1. SupOr(taken, -1) \in Nat \cup {-1}
      BY <1>2, <2>1
    <3>2. SupOr(taken, -1) + 1 + L \in Nat /\ SupOr(taken, -1) + 1 + L > SupOr(taken, -1)
          /\ SupOr(taken, -1) + 1 + L >= L
      BY <1>5, <3>1
    <3> QED BY <3>2
  <2>3. n \notin taken
    <3>1. SupOr(taken, -1) \in Nat \cup {-1}
      BY <1>2, <2>1
    <3>2. ~(n <= SupOr(taken, -1))
      BY <2>2, <3>1
    <3> QED BY <2>1, <3>2
  <2> QED BY <2>2, <2>3
<1>7. PICK n \in free : \A m \in free : n <= m
  <2>1. free \in SUBSET Nat
    OBVIOUS
  <2> HIDE DEF free
  <2> QED BY <1>6, <2>1, LeastNumber
<1>8. \A m \in L..(n - 1) : m \in taken
  <2>1. ASSUME NEW m \in L..(n - 1), m \notin taken PROVE FALSE
    <3>1. m \in free /\ n \in Nat /\ m < n /\ m \in Nat
      BY <1>5, <2>1
    <3> QED BY <1>7, <3>1
  <2> QED BY <2>1
<1>9. Gapless(n) /\ n \in Nat /\ n >= L
  BY <1>3, <1>8
<1>10. n <= L + Cardinality(held)
  <2>1. L..(n - 1) \in SUBSET taken
    BY <1>8
  <2>2. Cardinality(L..(n - 1)) <= Cardinality(taken)
    BY <1>4, <2>1, FS_Subset
  <2>3. Cardinality(L..(n - 1)) = IF L > n - 1 THEN 0 ELSE (n - 1) - L + 1
    BY <1>5, <1>9, FS_Interval
  <2> QED BY <1>4, <1>5, <1>9, <2>2, <2>3
<1>11. n \in L..(L + Cardinality(held))
  BY <1>4, <1>5, <1>9, <1>10
<1> DEFINE c == CHOOSE x \in L..(L + Cardinality(held)) : Gapless(x)
<1>12. PendingCount(held, chain) = c
  BY Zenon DEF PendingCount, L
<1>13. c \in L..(L + Cardinality(held))
  <2> HIDE DEF Gapless
  <2> QED BY <1>9, <1>11
<1> HIDE DEF c
<1> QED BY <1>4, <1>5, <1>12, <1>13 DEF L

(* The steps of the batch are finite, and every row is of one of them.     *)
LEMMA StepsFacts ==
  ASSUME NonceInv, NEW r \in Roles
  PROVE  /\ IsFiniteSet(StepsOn(r))
         /\ \A s \in StepsOn(r) : s[1] \in Batch /\ s[2] \in 1..Len(Plan(s[1]))
                                  /\ Plan(s[1])[s[2]].role = r
         /\ \A b \in Batch : \A k \in 1..Len(Plan(b)) :
              Plan(b)[k].role = r => <<b, k>> \in StepsOn(r)
<1>1. \A p \in Routes : /\ DOMAIN PlanOf[p] = 1..Len(PlanOf[p])
                        /\ Len(PlanOf[p]) \in Nat
  <2>1. ASSUME NEW p \in Routes
        PROVE  DOMAIN PlanOf[p] = 1..Len(PlanOf[p]) /\ Len(PlanOf[p]) \in Nat
    <3>1. PlanOf[p] \in Seq(KStep)
      BY PlansTyped
    <3> QED BY <3>1
  <2> QED BY <2>1
<1>2. \A b \in Batch : route[b] \in Routes /\ Plan(b) = PlanOf[route[b]]
  BY DEF Routes, Range, NonceInv, RunnerTyped, Batch, Plan
<1>3. Steps \subseteq Nat \ {0}
  BY <1>1 DEF Steps
<1>4. IsFiniteSet(Steps)
  <2> DEFINE D == {DOMAIN PlanOf[p] : p \in Routes}
             f == [p \in Routes |-> DOMAIN PlanOf[p]]
  <2>1. f \in Surjection(Routes, D)
    BY Zenon DEF Surjection
  <2>2. \A T \in D : IsFiniteSet(T)
    <3>1. ASSUME NEW p \in Routes PROVE IsFiniteSet(DOMAIN PlanOf[p])
      <4>1. IsFiniteSet(1..Len(PlanOf[p]))
        BY <1>1, FS_Interval
      <4> QED BY <1>1, <4>1
    <3> QED BY <3>1
  <2> HIDE DEF f, D
  <2>3. IsFiniteSet(D)
    BY <2>1, FS_Surjection, NativeConstants
  <2>4. IsFiniteSet(UNION D)
    BY <2>2, <2>3, FS_UNION
  <2> QED BY <2>4 DEF Steps, D
<1>5. IsFiniteSet(StepsOn(r))
  <2>1. IsFiniteSet(Batch \X Steps)
    BY <1>4, BatchFinite, FS_Product
  <2>2. StepsOn(r) \in SUBSET (Batch \X Steps)
    BY Zenon DEF StepsOn
  <2> QED BY <2>1, <2>2, FS_Subset
<1>6. ASSUME NEW s \in StepsOn(r)
      PROVE  s[1] \in Batch /\ s[2] \in 1..Len(Plan(s[1])) /\ Plan(s[1])[s[2]].role = r
  <2>1. s[1] \in Batch /\ s[2] \in Steps /\ s[2] <= Len(Plan(s[1])) /\ Plan(s[1])[s[2]].role = r
    BY DEF StepsOn
  <2>2. Len(Plan(s[1])) \in Nat
    BY <1>1, <1>2, <2>1
  <2>3. s[2] \in Nat /\ s[2] # 0
    BY <1>3, <2>1
  <2> QED BY <2>1, <2>2, <2>3
<1>7. ASSUME NEW b \in Batch, NEW k \in 1..Len(Plan(b)), Plan(b)[k].role = r
      PROVE  <<b, k>> \in StepsOn(r)
  <2>1. k \in DOMAIN PlanOf[route[b]]
    BY <1>1, <1>2
  <2>2. k \in Steps
    BY <1>2, <2>1 DEF Steps
  <2>3. k <= Len(Plan(b))
    BY <1>1, <1>2
  <2>4. <<b, k>> \in Batch \X Steps /\ <<b, k>>[1] = b /\ <<b, k>>[2] = k
    BY <2>2
  <2> QED BY <1>7, <2>3, <2>4 DEF StepsOn
<1> QED BY <1>5, <1>6, <1>7

(* Every row that is signed and not settled has a nonce below the next one *)
(* of a runner that starts.                                                *)
LEMMA PendingSignedFacts ==
  ASSUME NonceInv, NEW r \in Roles
  PROVE  /\ SupOr(PendingSigned(r), -1) \in Nat \cup {-1}
         /\ \A b \in Batch : \A k \in 1..Len(Plan(b)) :
              Plan(b)[k].role = r /\ rows[b][k].st = "signed" =>
                 rows[b][k].n \in Nat /\ rows[b][k].n <= SupOr(PendingSigned(r), -1)
<1> DEFINE X == {x \in StepsOn(r) : RowAt(x).st = "signed"}
           f == [x \in X |-> RowAt(x).n]
           P == PendingSigned(r)
<1>1. P = {RowAt(x).n : x \in X}
  BY DEF PendingSigned
<1>2. IsFiniteSet(X)
  BY StepsFacts, FS_Subset
<1>3. \A x \in X : RowAt(x).n \in Nat
  BY StepsFacts DEF NonceInv, RowsHold, RowAt
<1>4. f \in Surjection(X, P)
  BY <1>1, Zenon DEF Surjection
<1>5. P \in SUBSET Nat
  BY <1>1, <1>3
<1> HIDE DEF X, f, P
<1>6. IsFiniteSet(P)
  BY <1>2, <1>4, FS_Surjection
<1>7. SupOr(P, -1) \in P \cup {-1} /\ \A x \in P : x <= SupOr(P, -1)
  BY <1>5, <1>6, SupOrFacts
<1>8. ASSUME NEW b \in Batch, NEW k \in 1..Len(Plan(b)), Plan(b)[k].role = r,
             rows[b][k].st = "signed"
      PROVE  rows[b][k].n \in P
  <2>1. <<b, k>> \in StepsOn(r)
    BY <1>8, StepsFacts
  <2>2. RowAt(<<b, k>>) = rows[b][k]
    BY DEF RowAt
  <2>3. <<b, k>> \in X
    BY <1>8, <2>1, <2>2 DEF X
  <2> QED BY <1>1, <2>2, <2>3
<1> QED BY <1>5, <1>7, <1>8 DEF P

LEMMA RestartRunnerKeeps ==
  ASSUME NonceInv, RootInv, RestartRunner
  PROVE  NonceInv' /\ RootInv'
<1>1. /\ up' = TRUE /\ xnext' = -1 /\ thr' = [a \in Batch |-> Queued]
      /\ UNCHANGED <<kind, route, rows, sent, mined>>
      /\ nonces' = [r \in Roles |-> Max2(PendingCount(sent[r], mined[r]),
                                         SupOr(PendingSigned(r), -1) + 1)]
  BY DEF RestartRunner, dbVars, chainVars
<1>2. Batch' = Batch /\ \A b : Plan(b)' = Plan(b)
  BY <1>1, RouteKeeps
<1>3. \A r \in Roles : /\ sent[r] \in SUBSET Sends /\ IsFiniteSet(sent[r])
                       /\ mined[r] \in Seq(Blocks) /\ Len(mined[r]) \in Nat
  BY DEF NonceInv, RunnerTyped, StoresTyped
<1>4. ASSUME NEW r \in Roles
      PROVE  /\ nonces'[r] \in Nat /\ Len(mined[r]) <= nonces'[r]
             /\ \A b \in Batch : \A k \in 1..Len(Plan(b)) :
                  Plan(b)[k].role = r /\ rows[b][k].st = "signed" => rows[b][k].n < nonces'[r]
  <2>1. \A t \in sent[r] : t.n \in Nat
    BY <1>3 DEF Sends
  <2>2. PendingCount(sent[r], mined[r]) \in Nat /\ Len(mined[r]) <= PendingCount(sent[r], mined[r])
    BY <1>3, <2>1, PendingCountFacts
  <2>3. /\ SupOr(PendingSigned(r), -1) \in Nat \cup {-1}
        /\ \A b \in Batch : \A k \in 1..Len(Plan(b)) :
              Plan(b)[k].role = r /\ rows[b][k].st = "signed" =>
                 rows[b][k].n \in Nat /\ rows[b][k].n <= SupOr(PendingSigned(r), -1)
    BY PendingSignedFacts
  <2>4. nonces'[r] = Max2(PendingCount(sent[r], mined[r]), SupOr(PendingSigned(r), -1) + 1)
    BY <1>1
  <2>5. /\ nonces'[r] \in Nat /\ PendingCount(sent[r], mined[r]) <= nonces'[r]
        /\ SupOr(PendingSigned(r), -1) + 1 <= nonces'[r]
    BY <2>2, <2>3, <2>4 DEF Max2
  <2> QED BY <1>3, <2>2, <2>3, <2>5
<1>5. \A b \in Batch : thr'[b] = Queued
  BY <1>1
<1>6. \A b \in Batch : ~AtWork(b)' /\ ~Holding(b)'
  BY <1>5 DEF AtWork, Holding, Queued
<1>7. RunnerTyped'
  <2>1. Queued \in ThreadRecs /\ Queued.k = 1
    BY DEF Queued, ThreadRecs, Modes, Count
  <2>2. \A b \in Batch : 1 \in 1..Len(Plan(b))
    BY PlanFacts DEF NonceInv
  <2>3. thr' \in [Batch -> ThreadRecs] /\ \A b \in Batch : thr'[b].k \in 1..Len(Plan(b))
    BY <1>1, <1>5, <2>1, <2>2
  <2>4. nonces' = [r \in Roles |-> nonces'[r]]
    BY <1>1, Zenon
  <2>5. nonces' \in [Roles -> Nat]
    <3> HIDE DEF Roles
    <3>1. \A r \in Roles : nonces'[r] \in Nat
      BY <1>4
    <3> QED BY <2>4, <3>1
  <2>6. xnext' \in Count /\ up' \in BOOLEAN
    BY <1>1 DEF Count
  <2> QED BY <1>1, <1>2, <2>3, <2>5, <2>6 DEF NonceInv, RunnerTyped, StoresTyped, Sends, Blocks
<1>8. ThreadsKnow'
  BY <1>2, <1>5, <1>6 DEF ThreadsKnow, Queued
<1>9. RowsHold' /\ SentIsRecorded' /\ MinedWasSent'
  <2>1. RowsHold'
    BY <1>1, <1>2 DEF NonceInv, RowsHold
  <2>2. SentIsRecorded'
    BY <1>1, <1>2 DEF NonceInv, SentIsRecorded, Out
  <2>3. MinedWasSent'
    BY <1>1, <1>2 DEF NonceInv, MinedWasSent
  <2> QED BY <2>1, <2>2, <2>3
<1>10. ASSUME NEW r \in Roles, NEW a \in Batch, NEW k \in 1..Len(Plan(a)), NEW n \in Nat,
              Uses(r, a, k, n)'
       PROVE  Uses(r, a, k, n) /\ n < nonces'[r]
  <2>1. \/ \E t \in sent[r] : t.a = a /\ t.k = k /\ t.n = n
        \/ Plan(a)[k].role = r /\ Out(a, k) /\ rows[a][k].n = n
    BY <1>1, <1>2, <1>6, <1>10 DEF Uses, Out
  <2>2. CASE \E t \in sent[r] : t.a = a /\ t.k = k /\ t.n = n
    <3>1. PICK t \in sent[r] : t.a = a /\ t.k = k /\ t.n = n
      BY <2>2
    <3>2. Uses(r, a, k, n)
      BY <3>1 DEF Uses
    <3>3. n >= Len(mined[r]) => rows[a][k].st = "signed" /\ rows[a][k].n = n /\ Plan(a)[k].role = r
      BY <3>1 DEF NonceInv, SentIsRecorded
    <3>4. CASE n >= Len(mined[r])
      BY <1>4, <3>2, <3>3, <3>4
    <3>5. CASE n < Len(mined[r])
      BY <1>3, <1>4, <3>2, <3>5
    <3> QED BY <1>3, <3>4, <3>5
  <2>3. CASE Plan(a)[k].role = r /\ Out(a, k) /\ rows[a][k].n = n
    <3>1. Uses(r, a, k, n)
      BY <2>3 DEF Uses
    <3>2. CASE rows[a][k].st = "signed"
      BY <1>4, <2>3, <3>1, <3>2
    <3>3. CASE rows[a][k].st \in Settled
      <4>1. n < Len(mined[r])
        BY <2>3, <3>3 DEF NonceInv, RowsHold
      <4> QED BY <1>3, <1>4, <3>1, <4>1
    <3> QED BY <2>3, <3>2, <3>3 DEF Out
  <2> QED BY <2>1, <2>2, <2>3
<1>11. NoncesBelow'
  BY <1>2, <1>10 DEF NoncesBelow
<1>12. NoncesApart'
  BY <1>2, <1>10, SameStage DEF NoncesApart
<1>13. NonceInv'
  BY <1>7, <1>8, <1>9, <1>11, <1>12 DEF NonceInv
<1>14. RootInv'
  <2> SUFFICES ASSUME kind = "multihop", "root" \notin MayRevert
               PROVE  RootsNumbered' /\ RootsApart' /\ RootsInOrder' /\ NextRoot' /\ RootsOnChain'
    BY <1>1 DEF RootInv
  <2>1. ASSUME NEW a \in Batch, NEW n \in Nat, NEW g \in Nat
        PROVE  /\ Root(a, n, g)' => Root(a, n, g)
               /\ Root(a, n, g) /\ Uses(1, a, 1, n)' => Root(a, n, g)'
    <3>1. Root(a, n, g)' => Root(a, n, g)
      BY <1>1, <1>6 DEF Root
    <3>2. ASSUME Root(a, n, g), Uses(1, a, 1, n)' PROVE Root(a, n, g)'
      <4>1. CASE rows[a][1].st # "none" /\ rows[a][1].n = n /\ rows[a][1].g = g
        BY <1>1, <4>1 DEF Root
      <4>2. CASE Holding(a) /\ thr[a].k = 1 /\ thr[a].n = n /\ thr[a].g = g
        <5>1. Row(a).st = "none" /\ \A t \in sent[1] : ~(t.a = a /\ t.k = 1)
          BY <4>2, HeldRoot, RoutesTyped
        <5>2. rows'[a][1].st = "none" /\ \A t \in sent'[1] : ~(t.a = a /\ t.k = 1)
          BY <1>1, <4>2, <5>1 DEF Row
        <5> QED BY <1>6, <3>2, <5>2 DEF Uses, Out, Settled
      <4> QED BY <3>2, <4>1, <4>2 DEF Root
    <3> QED BY <3>1, <3>2
  <2>2. \A a \in Batch : \A k \in 1..Len(Plan(a)) : \A n \in Nat :
            Uses(1, a, k, n)' => Uses(1, a, k, n)
    BY <1>10, RoutesTyped
  <2>3. RootsApart' /\ RootsInOrder'
    BY <1>1, <2>1, <2>2, RootsShrink
  <2>4. NextRoot'
    BY <1>1, <1>2, <1>6 DEF NextRoot
  <2>5. RootsNumbered'
    BY <1>1, <1>2, <1>6 DEF RootInv, RootsNumbered
  <2>6. RootsOnChain'
    BY <1>1, ChainStays DEF RootInv
  <2> QED BY <2>3, <2>4, <2>5, <2>6
<1> QED BY <1>13, <1>14

-----------------------------------------------------------------------------
(* The invariant of the specification.                                     *)

LEMMA InitHolds ==
  ASSUME NativeInit
  PROVE  NonceInv /\ RootInv
<1>1. /\ kind \in Kinds /\ route \in Batches /\ up = TRUE
      /\ thr = [a \in Batch |-> Queued] /\ nonces = [r \in Roles |-> 0] /\ xnext = -1
      /\ rows = [a \in Batch |-> [i \in 1..Len(Plan(a)) |-> NoRow]]
      /\ sent = [r \in Roles |-> {}] /\ mined = [r \in Roles |-> <<>>]
  BY Zenon DEF NativeInit
<1>2. \A a \in Batch : 1 \in 1..Len(Plan(a)) /\ Plan(a)[1].role = 1
  <2>1. ASSUME NEW a \in Batch PROVE 1 \in 1..Len(Plan(a)) /\ Plan(a)[1].role = 1
    <3>1. route[a] \in Routes
      BY <1>1 DEF Routes, Range, Batch
    <3> QED BY <3>1, PlansTyped DEF Plan, Step
  <2> QED BY <2>1
<1>3. 1 \in Roles
  BY RoutesTyped
<1>4. \A a \in Batch : thr[a] = Queued
  BY <1>1
<1>5. \A a \in Batch : rows[a] = [i \in 1..Len(Plan(a)) |-> NoRow]
  BY <1>1
<1>6. \A a \in Batch : \A k \in 1..Len(Plan(a)) : rows[a][k] = NoRow
  BY <1>5
<1>7. \A r \in Roles : sent[r] = {} /\ mined[r] = <<>> /\ nonces[r] = 0
  BY <1>1
<1>8. \A a \in Batch : ~AtWork(a) /\ ~Holding(a)
  BY <1>4 DEF AtWork, Holding, Queued
<1>9. RunnerTyped
  <2>1. Queued \in ThreadRecs /\ Queued.k = 1 /\ NoRow \in RowRecs
    BY DEF Queued, NoRow, ThreadRecs, RowRecs, Modes, States, Count
  <2>2. thr \in [Batch -> ThreadRecs] /\ \A a \in Batch : thr[a].k \in 1..Len(Plan(a))
    BY <1>1, <1>2, <1>4, <2>1
  <2>3. \A a \in Batch : rows[a] \in [1..Len(Plan(a)) -> RowRecs]
    BY <1>5, <2>1
  <2>4. rows = [a \in Batch |-> rows[a]]
    BY <1>1
  <2>5. nonces \in [Roles -> Nat] /\ xnext \in Count
    BY <1>1 DEF Count
  <2>6. sent \in [Roles -> SUBSET Sends] /\ \A r \in Roles : IsFiniteSet(sent[r])
    BY <1>1, <1>7, FS_EmptySet
  <2>7. mined \in [Roles -> Seq(Blocks)]
    <3>1. <<>> \in Seq(Blocks)
      OBVIOUS
    <3> QED BY <1>1, <3>1
  <2> QED BY <1>1, <2>2, <2>3, <2>4, <2>5, <2>6, <2>7 DEF RunnerTyped, StoresTyped
<1>10. ThreadsKnow
  BY <1>4, <1>8 DEF ThreadsKnow, Queued
<1>11. RowsHold
  BY <1>6 DEF RowsHold, NoRow, Settled
<1>12. SentIsRecorded
  BY <1>7 DEF SentIsRecorded
<1>13. \A r \in Roles : Len(mined[r]) = 0
  BY <1>7
<1>14. MinedWasSent
  BY <1>13 DEF MinedWasSent
<1>15. \A r \in Roles : \A a \in Batch : \A k \in 1..Len(Plan(a)) : \A n \in Nat : ~Uses(r, a, k, n)
  BY <1>6, <1>7, <1>8 DEF Uses, Out, Settled, NoRow
<1>16. NonceInv
  BY <1>9, <1>10, <1>11, <1>12, <1>14, <1>15 DEF NonceInv, NoncesBelow, NoncesApart
<1>17. \A a \in Batch : rows[a][1] = NoRow
  BY <1>2, <1>6
<1>18. \A a \in Batch : \A n, g : ~Root(a, n, g)
  BY <1>8, <1>17 DEF Root, NoRow
<1>19. RootsNumbered /\ RootsApart /\ RootsInOrder /\ NextRoot
  <2>1. RootsNumbered
    BY <1>8, <1>17 DEF RootsNumbered, NoRow
  <2>2. RootsApart /\ RootsInOrder
    BY <1>18 DEF RootsApart, RootsInOrder
  <2>3. NextRoot
    BY <1>1, <1>8 DEF NextRoot
  <2> QED BY <2>1, <2>2, <2>3
<1>20. RootsOnChain
  <2>1. mined[1] = <<>>
    BY <1>3, <1>7
  <2>2. {i \in 1..Len(mined[1]) : mined[1][i].op = "root" /\ mined[1][i].ok} = {}
    BY <2>1
  <2>3. GatewayNonce = 0
    BY <2>2, FS_EmptySet DEF GatewayNonce
  <2> QED BY <2>1, <2>3 DEF RootsOnChain
<1> QED BY <1>16, <1>19, <1>20 DEF RootInv

LEMMA ThreadKeeps ==
  ASSUME NonceInv, RootInv, NEW a \in Batch, Thread(a)
  PROVE  NonceInv' /\ RootInv'
<1>1. CASE Begin(a)
  BY <1>1, BeginKeeps
<1>2. CASE EnterSucceeded(a)
  BY <1>2, EnterSucceededKeeps
<1>3. CASE ResumeDurable(a)
  BY <1>3, ResumeDurableKeeps
<1>4. CASE LookupPrior(a)
  BY <1>4, LookupPriorKeeps
<1>5. CASE Resend(a)
  BY <1>5, ResendKeeps
<1>6. CASE ReserveRoot(a)
  BY <1>6, ReserveRootKeeps
<1>7. CASE ReserveNonce(a)
  BY <1>7, ReserveNonceKeeps
<1>8. CASE BuildTransaction(a)
  BY <1>8, BuildTransactionKeeps
<1>9. CASE RecordSigned(a)
  BY <1>9, RecordSignedKeeps
<1>10. CASE SendRaw(a)
  BY <1>10, SendRawKeeps
<1>11. CASE AwaitReceipt(a)
  BY <1>11, AwaitReceiptKeeps
<1>12. CASE RecordEvidence(a)
  BY <1>12, RecordEvidenceKeeps
<1>13. CASE WaitBundle(a)
  BY <1>13, WaitBundleKeeps
<1>14. CASE Finish(a)
  BY <1>14, FinishKeeps
<1> QED BY <1>1, <1>2, <1>3, <1>4, <1>5, <1>6, <1>7, <1>8, <1>9, <1>10, <1>11, <1>12, <1>13, <1>14
        DEF Thread

(* The worker and the relayer have accounts and a database of their own.   *)
LEMMA OthersKeep ==
  ASSUME NonceInv, RootInv,
         \/ Worker \/ WorkerFault \/ CrashWorker
         \/ \E r \in Roles : Relay(r) \/ MineWorker(r)
  PROVE  NonceInv' /\ RootInv'
<1>1. CASE Worker
  <2>1. UNCHANGED <<runnerVars, dbVars, chainVars>>
    BY <1>1 DEF Worker, ObservePackets, AdvanceCursor, BeginProcess, SkipSucceeded,
         IntendAction, RecordSignedAction, SendAction, FinalizeStage, MarkDelivered,
         RestartWorker
  <2> QED BY <2>1, RunnerStays DEF runnerVars, dbVars, chainVars
<1>2. CASE WorkerFault \/ CrashWorker
  BY <1>2, RunnerStays DEF WorkerFault, CrashWorker, runnerVars, dbVars, chainVars
<1>3. CASE \E r \in Roles : Relay(r) \/ MineWorker(r)
  <2>1. UNCHANGED <<runnerVars, dbVars, chainVars>>
    BY <1>3, Zenon DEF Relay, MineWorker
  <2> QED BY <2>1, RunnerStays DEF runnerVars, dbVars, chainVars
<1> QED BY <1>1, <1>2, <1>3

LEMMA NextKeeps ==
  ASSUME NonceInv, RootInv, [NativeNext]_nativeVars
  PROVE  NonceInv' /\ RootInv'
<1>1. CASE \E a \in Batch : Thread(a)
  BY <1>1, ThreadKeeps
<1>2. CASE ExitRaised \/ CrashRunner
  BY <1>2, RunnerDies DEF ExitRaised, CrashRunner, dbVars, chainVars
<1>3. CASE RestartRunner
  BY <1>3, RestartRunnerKeeps
<1>4. CASE \/ Worker \/ WorkerFault \/ CrashWorker
           \/ \E r \in Roles : Relay(r) \/ MineWorker(r)
  BY <1>4, OthersKeep
<1>5. CASE \E r \in Roles : Mine(r)
  BY <1>5, MineKeeps
<1>6. CASE \E a \in Batch : TransientError(a) \/ WaitTimeout(a)
  BY <1>6, FaultKeeps
<1>7. CASE UNCHANGED nativeVars
  BY <1>7, RunnerStays DEF nativeVars
<1> QED BY <1>1, <1>2, <1>3, <1>4, <1>5, <1>6, <1>7, Zenon DEF NativeNext, Progress, Disturbance, Chain

(* What the invariant says of the transactions on chain and in the rows.   *)
LEMMA InvariantGivesSpentOnce ==
  ASSUME NonceInv, RootInv
  PROVE  StageMinedOnce /\ NonceSpentOnce /\ ("root" \notin MayRevert => RootNonceAgrees)
<1>1. StageMinedOnce
  <2> SUFFICES ASSUME kind = "multihop", NEW r \in Roles,
                      NEW i \in 1..Len(mined[r]), NEW j \in 1..Len(mined[r]),
                      mined[r][i].a = mined[r][j].a, mined[r][i].k = mined[r][j].k
               PROVE  i = j
    BY DEF StageMinedOnce
  <2>1. PICK t \in sent[r] : t.a = mined[r][i].a /\ t.k = mined[r][i].k /\ t.n = i - 1
    BY DEF NonceInv, MinedWasSent
  <2>2. PICK u \in sent[r] : u.a = mined[r][j].a /\ u.k = mined[r][j].k /\ u.n = j - 1
    BY DEF NonceInv, MinedWasSent
  <2>3. rows[t.a][t.k].n = i - 1 /\ rows[u.a][u.k].n = j - 1
    BY <2>1, <2>2 DEF NonceInv, SentIsRecorded
  <2> QED BY <2>1, <2>2, <2>3
<1>2. NonceSpentOnce
  <2>1. ASSUME NEW r \in Roles, NEW t \in SignedOf(r)
        PROVE  /\ t.a \in Batch /\ t.k \in 1..Len(Plan(t.a)) /\ t.n \in Nat
               /\ Uses(r, t.a, t.k, t.n)
    <3>1. CASE t \in sent[r]
      <4>1. t \in Sends
        BY <3>1 DEF NonceInv, RunnerTyped, StoresTyped
      <4>2. t.a \in Batch /\ t.n \in Nat
        BY <4>1 DEF Sends
      <4>3. t.k \in 1..Len(Plan(t.a))
        BY <3>1 DEF NonceInv, SentIsRecorded
      <4>4. Uses(r, t.a, t.k, t.n)
        BY <3>1 DEF Uses
      <4> QED BY <4>2, <4>3, <4>4
    <3>2. CASE t \notin sent[r]
      <4>1. PICK s \in StepsOn(r) :
              /\ RowAt(s).st \in {"signed", "failed", "succeeded"}
              /\ t.a = s[1] /\ t.k = s[2] /\ t.n = RowAt(s).n
        BY <3>2 DEF SignedOf
      <4>2. s[1] \in Batch /\ s[2] \in 1..Len(Plan(s[1])) /\ Plan(s[1])[s[2]].role = r
        BY StepsFacts
      <4>3. Out(s[1], s[2]) /\ rows[s[1]][s[2]].n = t.n
        BY <4>1 DEF Out, Settled, RowAt
      <4>4. Uses(r, s[1], s[2], t.n)
        BY <4>2, <4>3 DEF Uses
      <4>5. t.n \in Nat
        BY <4>2, <4>3 DEF NonceInv, RowsHold, Out, Settled
      <4> QED BY <4>1, <4>2, <4>4, <4>5
    <3> QED BY <3>1, <3>2
  <2>2. ASSUME NEW r \in Roles, NEW t \in SignedOf(r), NEW u \in SignedOf(r), t.n = u.n
        PROVE  t.a = u.a /\ t.k = u.k
    <3> DEFINE a == t.a
               k == t.k
               b == u.a
               l == u.k
               n == t.n
    <3>1. a \in Batch /\ k \in 1..Len(Plan(a)) /\ n \in Nat /\ Uses(r, a, k, n)
      BY <2>1
    <3>2. b \in Batch /\ l \in 1..Len(Plan(b)) /\ Uses(r, b, l, n)
      BY <2>1, <2>2
    <3> HIDE DEF a, k, b, l, n
    <3>3. a = b /\ k = l
      BY <3>1, <3>2, SameStage
    <3> QED BY <3>3 DEF a, k, b, l
  <2> QED BY <2>2 DEF NonceSpentOnce
<1>3. ASSUME "root" \notin MayRevert PROVE RootNonceAgrees
  <2>1. mined[1] \in Seq(Blocks)
    BY RoutesTyped DEF NonceInv, RunnerTyped, StoresTyped
  <2>2. Range(mined[1]) = {mined[1][i] : i \in 1..Len(mined[1])}
    BY <2>1 DEF Range
  <2> QED BY <1>3, <2>2 DEF RootInv, RootsOnChain, RootNonceAgrees
<1> QED BY <1>1, <1>2, <1>3

(* The nonces of the runners: what is sent is recorded and what is mined   *)
(* was sent at the place of its nonce, a nonce belongs to one stage, and   *)
(* unless roots may revert record nonces follow the order of the roots'    *)
(* nonces, whatever threads, crashes, retries and timeouts do.             *)
THEOREM NativeInvariant == NativeSpec => [](NonceInv /\ RootInv)
<1>1. NativeInit => NonceInv /\ RootInv
  BY InitHolds
<1>2. (NonceInv /\ RootInv) /\ [NativeNext]_nativeVars => (NonceInv /\ RootInv)'
  BY NextKeeps
<1> QED BY <1>1, <1>2, PTL DEF NativeSpec

(* A native runner never signs two transactions for one nonce, and with    *)
(* the multihop runner no stage is mined twice.  If roots do not revert,   *)
(* every multihop root also gets the record nonce that was signed for it.  *)
THEOREM NativeSpentOnce ==
  /\ NativeSpec => [](StageMinedOnce /\ NonceSpentOnce)
  /\ "root" \notin MayRevert => (NativeSpec => []SpentOnce)
<1>1. NonceInv /\ RootInv => StageMinedOnce /\ NonceSpentOnce
  BY InvariantGivesSpentOnce
<1>2. NativeSpec => [](StageMinedOnce /\ NonceSpentOnce)
  BY <1>1, NativeInvariant, PTL
<1>3. ASSUME "root" \notin MayRevert PROVE NativeSpec => []SpentOnce
  <2>1. NonceInv /\ RootInv => SpentOnce
    BY <1>3, InvariantGivesSpentOnce DEF SpentOnce
  <2> QED BY <2>1, NativeInvariant, PTL
<1> QED BY <1>2, <1>3
-----------------------------------------------------------------------------
(* The stage table again: a wait follows the dispatches of its hop.        *)

MidStep == [op : {"dispatch", "wait", "record"}, hop : Nat, role : Roles]

(* Steps of the first n hops, each wait after the dispatch of its hop.     *)
Layout(q, n) ==
  /\ \A i \in 1..Len(q) : q[i].op # "record" => q[i].hop \in 1..n
  /\ \A i \in 1..Len(q) : q[i].op = "wait" =>
       /\ \E j \in 1..(i - 1) : q[j].op = "dispatch" /\ q[j].hop = q[i].hop
       /\ \A j \in 1..Len(q) : q[j].op = "dispatch" /\ q[j].hop = q[i].hop => j < i

(* The steps of a hop: dispatch, wait, and a record or none. *)
LEMMA HopFacts ==
  ASSUME NEW r \in Routes, NEW n \in 1..Len(r)
  PROVE  /\ HopSteps(r, n) \in Seq(MidStep) /\ Len(HopSteps(r, n)) \in {2, 3}
         /\ HopSteps(r, n)[1] = Step("dispatch", n, n) /\ HopSteps(r, n)[2] = Step("wait", n, n + 1)
         /\ Len(HopSteps(r, n)) = 3 => HopSteps(r, n)[3].op = "record"
<1> DEFINE two == <<Step("dispatch", n, n), Step("wait", n, n + 1)>>
           one == <<Step("record", n + 1, n + 1)>>
<1>1. n \in Nat /\ n + 1 \in Nat /\ n \in Roles /\ n + 1 \in Roles
  BY RoutesTyped
<1>2. /\ Step("dispatch", n, n) \in MidStep /\ Step("wait", n, n + 1) \in MidStep
      /\ Step("record", n + 1, n + 1) \in MidStep /\ Step("record", n + 1, n + 1).op = "record"
  BY <1>1 DEF Step, MidStep
<1>3. /\ two \in Seq(MidStep) /\ Len(two) = 2 /\ two[1] = Step("dispatch", n, n)
      /\ two[2] = Step("wait", n, n + 1)
      /\ one \in Seq(MidStep) /\ Len(one) = 1 /\ one[1].op = "record"
  BY <1>2
<1>4. HopSteps(r, n) = two \o <<>> \/ HopSteps(r, n) = two \o one
  BY DEF HopSteps
<1> DEFINE h == HopSteps(r, n)
<1> HIDE DEF one, two, h
<1>5. CASE h = two \o <<>>
  BY <1>3, <1>5 DEF h
<1>6. CASE h = two \o one
  <2>1. two \in Seq(MidStep) /\ one \in Seq(MidStep) /\ Len(two) = 2 /\ Len(one) = 1
    BY <1>3
  <2>2. /\ two \o one \in Seq(MidStep) /\ Len(two \o one) = 2 + 1
        /\ \A i \in 1..(2 + 1) : (two \o one)[i] = IF i <= 2 THEN two[i] ELSE one[i - 2]
    BY <2>1, ConcatProperties
  <2>3. h[1] = two[1] /\ h[2] = two[2] /\ h[3] = one[1]
    BY <1>6, <2>2
  <2> QED BY <1>3, <1>6, <2>2, <2>3 DEF h
<1> QED BY <1>4, <1>5, <1>6 DEF h

(* Another hop at the end keeps the layout. *)
LEMMA LayoutGrows ==
  ASSUME NEW r \in Routes, NEW n \in 1..Len(r), NEW q \in Seq(MidStep), Layout(q, n - 1)
  PROVE  Layout(q \o HopSteps(r, n), n)
<1> DEFINE h == HopSteps(r, n)
           s == q \o h
           L == Len(q)
<1>1. n \in Nat /\ n >= 1
  BY RoutesTyped
<1>2. /\ h \in Seq(MidStep) /\ Len(h) \in {2, 3} /\ h[1] = Step("dispatch", n, n)
      /\ h[2] = Step("wait", n, n + 1) /\ (Len(h) = 3 => h[3].op = "record")
  BY HopFacts
<1> HIDE DEF h
<1>3. /\ L \in Nat /\ Len(s) = L + Len(h) /\ Len(s) \in Nat
      /\ \A i \in 1..L : s[i] = q[i]
      /\ \A i \in 1..Len(h) : s[L + i] = h[i]
  <2>1. L \in Nat /\ Len(h) \in Nat /\ Len(s) = L + Len(h)
    BY <1>2
  <2>2. \A i \in 1..(L + Len(h)) : s[i] = IF i <= L THEN q[i] ELSE h[i - L]
    BY <1>2
  <2> HIDE DEF s, L
  <2>3. \A i \in 1..L : s[i] = q[i]
    BY <2>1, <2>2
  <2>4. ASSUME NEW i \in 1..Len(h) PROVE s[L + i] = h[i]
    <3>1. L + i \in 1..(L + Len(h)) /\ ~(L + i <= L) /\ (L + i) - L = i
      BY <2>1
    <3> QED BY <2>2, <3>1
  <2> QED BY <2>1, <2>3, <2>4
<1> HIDE DEF s, L
<1>4. ASSUME NEW i \in 1..Len(s)
      PROVE  i \in 1..L \/ i = L + 1 \/ i = L + 2 \/ (Len(h) = 3 /\ i = L + 3)
  <2>1. CASE Len(h) = 2
    BY <1>3, <2>1
  <2>2. CASE Len(h) = 3
    BY <1>3, <2>2
  <2> QED BY <1>2, <2>1, <2>2
<1>5. /\ s[L + 1].op = "dispatch" /\ s[L + 1].hop = n /\ s[L + 2].op = "wait" /\ s[L + 2].hop = n
      /\ (Len(h) = 3 => s[L + 3].op = "record") /\ L + 1 \in 1..Len(s) /\ L + 2 \in 1..Len(s)
  <2>1. 1 \in 1..Len(h) /\ 2 \in 1..Len(h) /\ (Len(h) = 3 => 3 \in 1..Len(h))
    BY <1>2
  <2>2. s[L + 1] = h[1] /\ s[L + 2] = h[2] /\ (Len(h) = 3 => s[L + 3] = h[3])
    BY <1>3, <2>1
  <2>3. L + 1 \in 1..Len(s) /\ L + 2 \in 1..Len(s)
    BY <1>2, <1>3
  <2> QED BY <1>2, <2>2, <2>3 DEF Step
<1>6. ASSUME NEW i \in 1..L
      PROVE  /\ s[i].op # "record" => s[i].hop \in 1..(n - 1)
             /\ s[i].op = "wait" =>
                  /\ \E j \in 1..(i - 1) : s[j].op = "dispatch" /\ s[j].hop = s[i].hop
                  /\ \A j \in 1..L : s[j].op = "dispatch" /\ s[j].hop = s[i].hop => j < i
  <2>1. s[i] = q[i] /\ \A j \in 1..L : s[j] = q[j]
    BY <1>3
  <2>2. q[i].op # "record" => q[i].hop \in 1..(n - 1)
    BY DEF Layout, L
  <2>3. ASSUME q[i].op = "wait"
        PROVE  /\ \E j \in 1..(i - 1) : q[j].op = "dispatch" /\ q[j].hop = q[i].hop
               /\ \A j \in 1..L : q[j].op = "dispatch" /\ q[j].hop = q[i].hop => j < i
    BY <2>3 DEF Layout, L
  <2>4. 1..(i - 1) \subseteq 1..L
    BY <1>3
  <2> QED BY <2>1, <2>2, <2>3, <2>4
<1>7. ASSUME NEW i \in 1..Len(s), s[i].op # "record" PROVE s[i].hop \in 1..n
  <2>1. CASE i \in 1..L
    BY <1>1, <1>6, <1>7, <2>1
  <2>2. CASE i \notin 1..L
    BY <1>1, <1>4, <1>5, <1>7, <2>2
  <2> QED BY <2>1, <2>2
<1>8. ASSUME NEW i \in 1..Len(s), s[i].op = "wait"
      PROVE  /\ \E j \in 1..(i - 1) : s[j].op = "dispatch" /\ s[j].hop = s[i].hop
             /\ \A j \in 1..Len(s) : s[j].op = "dispatch" /\ s[j].hop = s[i].hop => j < i
  <2>1. CASE i \in 1..L
    <3>1. s[i].hop \in 1..(n - 1)
      BY <1>6, <1>8, <2>1
    <3>2. ASSUME NEW j \in 1..Len(s), s[j].op = "dispatch", s[j].hop = s[i].hop PROVE j < i
      <4>1. j \in 1..L
        BY <1>1, <1>4, <1>5, <3>1, <3>2
      <4> QED BY <1>6, <1>8, <2>1, <3>2, <4>1
    <3> QED BY <1>6, <1>8, <2>1, <3>2
  <2>2. CASE i \notin 1..L
    <3>1. i = L + 2
      BY <1>4, <1>5, <1>8, <2>2
    <3>2. \A j \in 1..Len(s) : s[j].op = "dispatch" => j < L + 2
      BY <1>3, <1>4, <1>5
    <3>3. L + 1 \in 1..((L + 2) - 1)
      BY <1>3
    <3> QED BY <1>5, <3>1, <3>2, <3>3
  <2> QED BY <2>1, <2>2
<1>9. Layout(s, n)
  BY <1>7, <1>8 DEF Layout
<1> QED BY <1>9 DEF s, h

(* The hops of a route, one after another. *)
LEMMA HopsLaidOut ==
  ASSUME NEW r \in Routes
  PROVE  LET middle == FlattenSeq([i \in 1..Len(r) |-> HopSteps(r, i)])
         IN  middle \in Seq(MidStep) /\ Layout(middle, Len(r))
<1> DEFINE n == Len(r)
           hops == [i \in 1..n |-> HopSteps(r, i)]
<1> SUFFICES FlattenSeq(hops) \in Seq(MidStep) /\ Layout(FlattenSeq(hops), n)
  OBVIOUS
<1>1. n \in Nat
  BY RoutesTyped
<1>2. hops \in Seq(Seq(MidStep)) /\ Len(hops) = n
  BY <1>1, HopFacts
<1>3. CASE n = 0
  <2>1. hops = <<>>
    BY <1>2, <1>3
  <2>2. FlattenSeq(hops) = <<>>
    <3> HIDE DEF hops
    <3> QED BY <2>1 DEF FlattenSeq
  <2>3. <<>> \in Seq(MidStep) /\ Layout(<<>>, n)
    BY DEF Layout
  <2> QED BY <2>2, <2>3
<1>4. CASE n # 0
  <2>1. PICK F \in [1..n -> Seq(MidStep)] :
           /\ FlattenSeq(hops) = F[n]
           /\ \A m \in 1..n : F[m] = IF m = 1 THEN hops[m] ELSE F[m - 1] \o hops[m]
    <3> HIDE DEF hops
    <3> QED BY <1>2, <1>4, FlattenSteps
  <2> DEFINE Bad == {m \in 1..n : ~Layout(F[m], m)}
  <2>2. SUFFICES Bad = {}
    <3>1. n \in 1..n
      BY <1>1, <1>4
    <3>2. F[n] \in Seq(MidStep) /\ Layout(F[n], n)
      BY <2>1, <3>1
    <3> HIDE DEF hops
    <3> QED BY <2>1, <3>2
  <2>3. SUFFICES ASSUME Bad # {} PROVE FALSE
    OBVIOUS
  <2>4. Bad \in SUBSET Nat
    BY <1>1
  <2>5. PICK m \in Bad : \A l \in Bad : m <= l
    BY <2>3, <2>4, LeastNumber
  <2>6. m \in 1..n /\ hops[m] = HopSteps(r, m) /\ ~Layout(F[m], m)
    OBVIOUS
  <2> HIDE DEF hops
  <2>7. CASE m = 1
    <3>1. <<>> \in Seq(MidStep) /\ Layout(<<>>, 1 - 1)
      BY DEF Layout
    <3>2. Layout(<<>> \o HopSteps(r, 1), 1)
      BY <2>6, <2>7, <3>1, LayoutGrows
    <3>3. <<>> \o HopSteps(r, 1) = HopSteps(r, 1)
      BY HopFacts, <2>6, <2>7
    <3> QED BY <2>1, <2>6, <2>7, <3>2, <3>3
  <2>8. CASE m # 1
    <3>1. m - 1 \in 1..n /\ ~(m <= m - 1)
      BY <1>1, <2>6, <2>8
    <3>2. Layout(F[m - 1], m - 1)
      <4>1. m - 1 \notin Bad
        BY <2>5, <3>1
      <4> QED BY <3>1, <4>1
    <3>3. F[m - 1] \in Seq(MidStep)
      BY <2>1, <3>1
    <3>4. Layout(F[m - 1] \o HopSteps(r, m), m)
      BY <2>6, <3>2, <3>3, LayoutGrows
    <3> QED BY <2>1, <2>6, <2>8, <3>4
  <2> QED BY <2>7, <2>8
<1> QED BY <1>3, <1>4

(* Every wait of an attempt comes after the dispatches of its hop, every   *)
(* hop is a hop of the route, and only the last step delivers.             *)
LEMMA PlanLayout ==
  ASSUME RunnerTyped, NEW a \in Batch, NEW k \in 1..Len(Plan(a))
  PROVE  /\ Plan(a)[k].op \in {"dispatch", "wait"} => Plan(a)[k].hop \in 1..Len(route[a])
         /\ Plan(a)[k].op = "wait" =>
              /\ \E d \in 1..(k - 1) : Plan(a)[d].op = "dispatch" /\ Plan(a)[d].hop = Plan(a)[k].hop
              /\ \A d \in 1..Len(Plan(a)) :
                   Plan(a)[d].op = "dispatch" /\ Plan(a)[d].hop = Plan(a)[k].hop => d < k
         /\ Plan(a)[k].op = "deliver" => k = Len(Plan(a))
<1> DEFINE r == route[a]
           middle == FlattenSeq([i \in 1..Len(r) |-> HopSteps(r, i)])
           first == Step("root", 0, 1)
           last == Step("deliver", Len(r), Len(r) + 1)
           L == Len(middle)
<1>1. r \in Routes
  BY DEF Routes, Range, RunnerTyped, StoresTyped, Batch
<1>2. Plan(a) = PlanOf[r]
  BY DEF Plan
<1>3. PlanOf[r] = <<first>> \o middle \o <<last>>
  BY <1>1, Zenon DEF PlanOf
<1>4. middle \in Seq(MidStep) /\ Layout(middle, Len(r))
  BY <1>1, HopsLaidOut
<1>5. first.op = "root" /\ last.op = "deliver" /\ Len(r) \in Nat
  BY <1>1, RoutesTyped DEF Step
<1> HIDE DEF middle, r, first, last
<1>6. /\ L \in Nat /\ Len(Plan(a)) = L + 2 /\ Plan(a)[1] = first /\ Plan(a)[L + 2] = last
      /\ \A i \in 1..L : Plan(a)[i + 1] = middle[i]
  <2> DEFINE S == MidStep \cup {first, last}
             s == <<first>> \o middle
  <2>1. /\ <<first>> \in Seq(S) /\ Len(<<first>>) = 1 /\ <<last>> \in Seq(S) /\ Len(<<last>>) = 1
        /\ middle \in Seq(S) /\ L \in Nat
    BY <1>4
  <2> HIDE DEF S
  <2>2. /\ s \in Seq(S) /\ Len(s) = L + 1 /\ s[1] = first
        /\ \A i \in 1..L : s[i + 1] = middle[i]
    BY <2>1
  <2>3. Plan(a) = s \o <<last>>
    BY <1>2, <1>3
  <2> HIDE DEF s, L
  <2>4. /\ Len(Plan(a)) = L + 2 /\ Plan(a)[L + 2] = last
        /\ \A i \in 1..(L + 1) : Plan(a)[i] = s[i]
    BY <2>1, <2>2, <2>3
  <2>5. \A i \in 1..L : i + 1 \in 1..(L + 1)
    BY <2>1
  <2>6. 1 \in 1..(L + 1)
    BY <2>1
  <2> QED BY <2>1, <2>2, <2>4, <2>5, <2>6
<1>7. ASSUME NEW i \in 1..L PROVE middle[i].op \in {"dispatch", "wait", "record"}
  <2>1. middle[i] \in MidStep
    BY <1>4
  <2> QED BY <2>1 DEF MidStep
<1> HIDE DEF L
<1>8. ASSUME NEW d \in 1..Len(Plan(a)), Plan(a)[d].op \in {"dispatch", "wait", "record"}
      PROVE  d - 1 \in 1..L /\ Plan(a)[d] = middle[d - 1]
  <2>1. d # 1 /\ d # L + 2
    BY <1>5, <1>6, <1>8
  <2>2. d - 1 \in 1..L /\ (d - 1) + 1 = d
    BY <1>6, <2>1
  <2> QED BY <1>6, <2>2
<1>9. ASSUME Plan(a)[k].op \in {"dispatch", "wait"} PROVE Plan(a)[k].hop \in 1..Len(r)
  <2>1. k - 1 \in 1..L /\ Plan(a)[k] = middle[k - 1]
    BY <1>8, <1>9
  <2> QED BY <1>4, <1>9, <2>1 DEF Layout, L
<1>10. ASSUME Plan(a)[k].op = "wait"
       PROVE  /\ \E d \in 1..(k - 1) :
                   Plan(a)[d].op = "dispatch" /\ Plan(a)[d].hop = Plan(a)[k].hop
              /\ \A d \in 1..Len(Plan(a)) :
                   Plan(a)[d].op = "dispatch" /\ Plan(a)[d].hop = Plan(a)[k].hop => d < k
  <2>1. k - 1 \in 1..L /\ Plan(a)[k] = middle[k - 1]
    BY <1>8, <1>10
  <2>2. PICK j \in 1..((k - 1) - 1) : middle[j].op = "dispatch" /\ middle[j].hop = middle[k - 1].hop
    BY <1>4, <1>10, <2>1 DEF Layout, L
  <2>3. j \in 1..L /\ j + 1 \in 1..(k - 1)
    BY <1>6, <2>1, <2>2
  <2>4. Plan(a)[j + 1] = middle[j]
    BY <1>6, <2>3
  <2>5. ASSUME NEW d \in 1..Len(Plan(a)), Plan(a)[d].op = "dispatch", Plan(a)[d].hop = Plan(a)[k].hop
        PROVE  d < k
    <3>1. d - 1 \in 1..L /\ Plan(a)[d] = middle[d - 1]
      BY <1>8, <2>5
    <3>2. d - 1 < k - 1
      BY <1>4, <1>10, <2>1, <2>5, <3>1 DEF Layout, L
    <3> QED BY <1>6, <3>1, <3>2
  <2> QED BY <2>1, <2>2, <2>3, <2>4, <2>5
<1>11. ASSUME Plan(a)[k].op = "deliver" PROVE k = Len(Plan(a))
  <2>1. SUFFICES ASSUME k # L + 2 PROVE FALSE
    BY <1>6
  <2>2. CASE k = 1
    BY <1>5, <1>6, <1>11, <2>2
  <2>3. CASE k # 1
    <3>1. k - 1 \in 1..L /\ (k - 1) + 1 = k
      BY <1>6, <2>1, <2>3
    <3> QED BY <1>6, <1>7, <1>11, <3>1
  <2> QED BY <2>2, <2>3
<1> QED BY <1>9, <1>10, <1>11 DEF r

-----------------------------------------------------------------------------
(* What DeliveryHolds rests on.                                            *)

(* A stage an attempt has behind it. *)
Reached(a, k) ==
  IF Plan(a)[k].op = "wait" THEN Evidence(a, Plan(a)[k].hop) \in verified
  ELSE rows[a][k].st = "succeeded"

(* A thread has reached every stage before the one it is at; it stores     *)
(* evidence, or looks for the effect, when that one succeeded as well.     *)
StagesPassed ==
  \A a \in Batch :
    /\ thr[a].pc = "queued" => thr[a].k = 1
    /\ AtWork(a) =>
         /\ \A k \in 1..(thr[a].k - 1) : Reached(a, k)
         /\ thr[a].mode \in {"evidence", "effect"} => Row(a).st = "succeeded"
         /\ thr[a].mode = "effect" => At(a).op = "deliver"

(* A stage that succeeded did so on its chain. *)
SucceededIsMined ==
  \A a \in Batch : \A k \in 1..Len(Plan(a)) : rows[a][k].st = "succeeded" =>
    \E m \in Range(mined[Plan(a)[k].role]) : m.ok /\ m.a = a /\ m.k = k /\ m.n = rows[a][k].n

(* A finished attempt has reached every stage, and is never taken up again.*)
FinishedRests ==
  \A a \in Batch :
    /\ status[a] \in {"none", "running", "succeeded"} /\ effects[a] \in {0, 1}
    /\ status[a] = "succeeded" =>
         /\ thr[a].pc \in {"queued", "done"} /\ effects[a] = 1
         /\ \A k \in 1..Len(Plan(a)) : Reached(a, k)

AttemptInv ==
  /\ status = [a \in Batch |-> status[a]] /\ effects = [a \in Batch |-> effects[a]]
  /\ StagesPassed /\ SucceededIsMined /\ FinishedRests

(* The packet that transaction i of a chain emitted, if it did, is in the  *)
(* worker's table.                                                         *)
Carried(r, i) ==
  LET m == mined[r][i]
      h == Plan(m.a)[m.k].hop
  IN  m.op = "dispatch" /\ m.ok /\ route[m.a][h] = "L" => <<m.a, h, m.n>> \in DOMAIN packets

WorkerTyped ==
  /\ wk = [pc |-> wk.pc, page |-> wk.page, todo |-> wk.todo, pend |-> wk.pend, ready |-> wk.ready]
  /\ wk.pc \in {"collect", "submit", "down"}
  /\ cursor \in [Roles -> Nat] /\ \A r \in Roles : cursor[r] <= Len(mined[r])
  /\ packets \in [DOMAIN packets -> {"observed", "delivered"}]
  /\ \A p \in DOMAIN packets : DestOf(p) \in Roles
  /\ acts = [q \in DOMAIN acts |-> [st |-> acts[q].st, n |-> acts[q].n]]
  /\ \A q \in DOMAIN acts :
       acts[q].st \in {"intended", "signed", "submitted", "failed", "succeeded"}
  /\ wmined = [r \in Roles |-> wmined[r]] /\ \A r \in Roles : wmined[r] \in Seq(Range(wmined[r]))
  /\ spent \in 0..Budget[route]

(* The page the worker is about to pass is in its table, as is everything  *)
(* it has passed.                                                          *)
PagesCarried ==
  /\ wk.page # <<>> =>
       /\ wk.page[1] \in Roles /\ wk.page[2] \in 0..Len(mined[wk.page[1]])
       /\ \A i \in 1..wk.page[2] : Carried(wk.page[1], i)
  /\ \A r \in Roles : \A i \in 1..cursor[r] : Carried(r, i)

(* The last stage of a packet, on chain and in the table, makes the        *)
(* adapter answer.                                                         *)
ExecutedIsVerified ==
  /\ \A r \in Roles : \A m \in Range(wmined[r]) :
       m.ok /\ m.s = "executor_execute" => m.p \in verified
  /\ \A q \in DOMAIN acts :
       acts[q].st = "succeeded" /\ q[2] = "executor_execute" /\ DestOf(q[1]) \in Roles
         => q[1] \in verified
  /\ \A p \in DOMAIN packets : packets[p] = "delivered" => p \in verified

WorkerInv == WorkerTyped /\ PagesCarried /\ ExecutedIsVerified
-----------------------------------------------------------------------------
(* Steps of the threads.                                                   *)

LEMMA EvidenceKeeps ==
  ASSUME RunnerTyped, NEW a \in Batch, NEW k \in 1..Len(Plan(a)), Plan(a)[k].op = "wait",
         route' = route, \A d \in 1..(k - 1) : rows'[a][d] = rows[a][d]
  PROVE  Evidence(a, Plan(a)[k].hop)' = Evidence(a, Plan(a)[k].hop)
<1> DEFINE h == Plan(a)[k].hop
           d == DispatchStep(a, h)
<1>1. Batch' = Batch /\ Plan(a)' = Plan(a)
  BY RouteKeeps
<1>2. d' = d
  BY <1>1 DEF DispatchStep
<1>3. /\ \E i \in 1..(k - 1) : Plan(a)[i].op = "dispatch" /\ Plan(a)[i].hop = h
      /\ \A i \in 1..Len(Plan(a)) : Plan(a)[i].op = "dispatch" /\ Plan(a)[i].hop = h => i < k
  BY PlanLayout
<1>4. k \in Nat /\ Len(Plan(a)) \in Nat /\ k <= Len(Plan(a)) /\ 1..(k - 1) \subseteq 1..Len(Plan(a))
  BY PlanFacts
<1> HIDE DEF h
<1>5. d \in 1..Len(Plan(a)) /\ Plan(a)[d].op = "dispatch" /\ Plan(a)[d].hop = h
  BY <1>3, <1>4 DEF DispatchStep
<1>6. d \in 1..(k - 1)
  <2> HIDE DEF d
  <2> QED BY <1>3, <1>4, <1>5
<1>7. rows'[a][d] = rows[a][d]
  <2> HIDE DEF d
  <2> QED BY <1>6
<1>8. Evidence(a, h)' = IF route[a][h] = "H" THEN <<a, h, "H">> ELSE <<a, h, rows'[a][d].n>>
  BY <1>1, <1>2 DEF Evidence, h
<1>9. Evidence(a, h) = IF route[a][h] = "H" THEN <<a, h, "H">> ELSE <<a, h, rows[a][d].n>>
  BY DEF Evidence
<1> HIDE DEF d
<1> QED BY <1>7, <1>8, <1>9, Zenon DEF h

(* What an attempt has reached it does not lose.                           *)
LEMMA ReachedKeeps ==
  ASSUME RunnerTyped, NEW a \in Batch, NEW k \in 1..Len(Plan(a)), Reached(a, k),
         route' = route, verified \subseteq verified',
         \A d \in 1..k : rows'[a][d] = rows[a][d]
  PROVE  Reached(a, k)'
<1>1. Plan(a)' = Plan(a)
  BY RouteKeeps
<1>2. k \in Nat /\ k \in 1..k /\ 1..(k - 1) \subseteq 1..k
  BY PlanFacts
<1>3. CASE Plan(a)[k].op = "wait"
  <2>1. Evidence(a, Plan(a)[k].hop)' = Evidence(a, Plan(a)[k].hop)
    BY <1>2, <1>3, EvidenceKeeps
  <2>2. Evidence(a, Plan(a)[k].hop) \in verified'
    BY <1>3 DEF Reached
  <2>3. Evidence(a, Plan(a)[k].hop)' \in verified'
    BY <2>1, <2>2, Zenon
  <2> QED BY <1>1, <1>3, <2>3 DEF Reached
<1>4. CASE Plan(a)[k].op # "wait"
  BY <1>1, <1>2, <1>4 DEF Reached
<1> QED BY <1>3, <1>4

(* What is left of a thread after it proceeds, moves or raises. *)
LEMMA ThreadAfter ==
  ASSUME RunnerTyped, NEW a \in Batch
  PROVE  /\ Proceed(a) => /\ thr'[a].pc = thr[a].pc /\ thr'[a].k = thr[a].k + 1 /\ thr'[a].mode = "enter"
                          /\ \A b \in Batch : b # a => thr'[b] = thr[b]
         /\ \A m : GoTo(a, m) => /\ thr'[a].pc = thr[a].pc /\ thr'[a].k = thr[a].k /\ thr'[a].mode = m
                                 /\ \A b \in Batch : b # a => thr'[b] = thr[b]
         /\ Raise(a) => /\ thr'[a].pc = "raised" /\ thr'[a].k = thr[a].k
                        /\ \A b \in Batch : b # a => thr'[b] = thr[b]
<1>1. thr \in [Batch -> ThreadRecs] /\ thr[a] \in ThreadRecs
  BY DEF RunnerTyped
<1>2. Proceed(a) => /\ thr'[a].pc = thr[a].pc /\ thr'[a].k = thr[a].k + 1 /\ thr'[a].mode = "enter"
                    /\ \A b \in Batch : b # a => thr'[b] = thr[b]
  BY <1>1 DEF Proceed, ThreadRecs
<1>3. ASSUME NEW m, GoTo(a, m)
      PROVE  /\ thr'[a].pc = thr[a].pc /\ thr'[a].k = thr[a].k /\ thr'[a].mode = m
             /\ \A b \in Batch : b # a => thr'[b] = thr[b]
  BY <1>1, <1>3 DEF GoTo, ThreadRecs
<1>4. Raise(a) => /\ thr'[a].pc = "raised" /\ thr'[a].k = thr[a].k
                  /\ \A b \in Batch : b # a => thr'[b] = thr[b]
  BY <1>1 DEF Raise, ThreadRecs
<1> QED BY <1>2, <1>3, <1>4

(* A thread may write its own row and go on: to the next stage once it has *)
(* reached its own, elsewhere in its stage, back to the first, or off.     *)
OwnRow(a) ==
  /\ \A b \in Batch : b # a => thr'[b] = thr[b] /\ rows'[b] = rows[b]
  /\ \A k \in 1..Len(Plan(a)) : k # thr[a].k => rows'[a][k] = rows[a][k]
  /\ rows'[a][thr[a].k].st = "succeeded" =>
       \/ Row(a).st = "succeeded" /\ rows'[a][thr[a].k].n = Row(a).n
       \/ \E m \in Range(mined[At(a).role]) :
            m.ok /\ m.a = a /\ m.k = thr[a].k /\ m.n = rows'[a][thr[a].k].n
GoesOn(a) ==
  \/ thr'[a].pc = "raised"
  \/ /\ thr'[a].pc = "running" /\ thr'[a].k = 1 /\ thr'[a].mode = "enter"
  \/ /\ thr'[a].pc = "running" /\ thr'[a].k = thr[a].k
     /\ thr'[a].mode \in {"evidence", "effect"} => rows'[a][thr[a].k].st = "succeeded"
     /\ thr'[a].mode = "effect" => At(a).op = "deliver"
  \/ /\ thr'[a].pc = "running" /\ thr'[a].k = thr[a].k + 1 /\ thr'[a].mode = "enter"
     /\ IF At(a).op = "wait" THEN Evidence(a, At(a).hop) \in verified
        ELSE rows'[a][thr[a].k].st = "succeeded"

(* Such a step keeps what is known of the attempts. *)
LEMMA ThreadAdvances ==
  ASSUME NonceInv, AttemptInv, NEW a \in Batch, up, thr[a].pc = "running",
         UNCHANGED <<route, up, status, effects, mined, verified>>, OwnRow(a), GoesOn(a)
  PROVE  AttemptInv'
<1>0. PICK K : K = thr[a].k
  OBVIOUS
<1>1. Batch' = Batch /\ (\A b : Plan(b)' = Plan(b)) /\ RunnerTyped
  BY RouteKeeps DEF NonceInv
<1>2. /\ K \in 1..Len(Plan(a)) /\ K \in Nat /\ Len(Plan(a)) \in Nat /\ At(a) = Plan(a)[K]
      /\ Row(a) = rows[a][K]
  BY <1>0, <1>1, ThreadFacts, PlanFacts
<1>3. AtWork(a)
  BY DEF AtWork
<1>4. status[a] # "succeeded"
  BY DEF AttemptInv, FinishedRests
<1>5. ASSUME NEW b \in Batch, b # a, NEW k \in 1..Len(Plan(b)), Reached(b, k) PROVE Reached(b, k)'
  BY <1>1, <1>5, ReachedKeeps DEF OwnRow
<1>6. ASSUME NEW k \in 1..(K - 1) PROVE k \in 1..Len(Plan(a)) /\ Reached(a, k)'
  <2>1. k \in 1..Len(Plan(a)) /\ 1..k \subseteq 1..Len(Plan(a)) /\ (\A d \in 1..k : d # K)
    BY <1>2
  <2>2. Reached(a, k)
    BY <1>0, <1>3 DEF AttemptInv, StagesPassed
  <2>3. \A d \in 1..k : rows'[a][d] = rows[a][d]
    BY <1>0, <2>1 DEF OwnRow
  <2> QED BY <1>1, <2>1, <2>2, <2>3, ReachedKeeps
<1>7. StagesPassed'
  <2>1. ASSUME NEW b \in Batch, b # a
        PROVE  /\ thr'[b].pc = "queued" => thr'[b].k = 1
               /\ AtWork(b)' =>
                   /\ \A k \in 1..(thr'[b].k - 1) : Reached(b, k)'
                   /\ thr'[b].mode \in {"evidence", "effect"} => Row(b)'.st = "succeeded"
                   /\ thr'[b].mode = "effect" => At(b)'.op = "deliver"
    <3>1. thr'[b] = thr[b] /\ rows'[b] = rows[b] /\ AtWork(b)' = AtWork(b)
      BY <2>1 DEF OwnRow, AtWork
    <3>2. Row(b)' = Row(b) /\ At(b)' = At(b)
      BY <1>1, <3>1 DEF Row, At
    <3>3. ASSUME AtWork(b), NEW k \in 1..(thr[b].k - 1) PROVE Reached(b, k)'
      <4>1. thr[b].k \in 1..Len(Plan(b)) /\ Len(Plan(b)) \in Nat
        BY <1>1, ThreadFacts, PlanFacts
      <4>2. k \in 1..Len(Plan(b))
        BY <4>1
      <4> QED BY <1>5, <2>1, <3>3, <4>2 DEF AttemptInv, StagesPassed
    <3>4. /\ thr[b].pc = "queued" => thr[b].k = 1
          /\ AtWork(b) => /\ thr[b].mode \in {"evidence", "effect"} => Row(b).st = "succeeded"
                          /\ thr[b].mode = "effect" => At(b).op = "deliver"
      BY DEF AttemptInv, StagesPassed
    <3> QED BY <3>1, <3>2, <3>3, <3>4
  <2>2. /\ thr'[a].pc = "queued" => thr'[a].k = 1
        /\ AtWork(a)' =>
            /\ \A k \in 1..(thr'[a].k - 1) : Reached(a, k)'
            /\ thr'[a].mode \in {"evidence", "effect"} => Row(a)'.st = "succeeded"
            /\ thr'[a].mode = "effect" => At(a)'.op = "deliver"
    <3>1. CASE thr'[a].pc = "raised"
      BY <3>1 DEF AtWork
    <3>2. CASE thr'[a].pc = "running" /\ thr'[a].k = 1 /\ thr'[a].mode = "enter"
      BY <3>2
    <3>3. CASE /\ thr'[a].pc = "running" /\ thr'[a].k = K
               /\ thr'[a].mode \in {"evidence", "effect"} => rows'[a][K].st = "succeeded"
               /\ thr'[a].mode = "effect" => At(a).op = "deliver"
      <4>1. At(a)' = At(a) /\ Row(a)' = rows'[a][K]
        BY <1>0, <1>1, <3>3 DEF At, Row
      <4> QED BY <1>6, <3>3, <4>1
    <3>4. CASE /\ thr'[a].pc = "running" /\ thr'[a].k = K + 1 /\ thr'[a].mode = "enter"
               /\ IF At(a).op = "wait" THEN Evidence(a, At(a).hop) \in verified
                  ELSE rows'[a][K].st = "succeeded"
      <4>1. Reached(a, K)'
        <5>1. CASE At(a).op = "wait"
          <6>1. \A d \in 1..(K - 1) : d \in 1..Len(Plan(a)) /\ d # K
            BY <1>2
          <6>2. \A d \in 1..(K - 1) : rows'[a][d] = rows[a][d]
            BY <1>0, <6>1 DEF OwnRow
          <6>3. Evidence(a, Plan(a)[K].hop)' = Evidence(a, Plan(a)[K].hop)
            BY <1>1, <1>2, <5>1, <6>2, EvidenceKeeps
          <6>4. Evidence(a, Plan(a)[K].hop)' \in verified'
            BY <1>2, <3>4, <5>1, <6>3, Zenon
          <6> QED BY <1>1, <1>2, <5>1, <6>4 DEF Reached
        <5>2. CASE At(a).op # "wait"
          BY <1>1, <1>2, <3>4, <5>2 DEF Reached
        <5> QED BY <5>1, <5>2
      <4>2. \A k \in 1..((K + 1) - 1) : k = K \/ k \in 1..(K - 1)
        BY <1>2
      <4> QED BY <1>6, <3>4, <4>1, <4>2
    <3> QED BY <1>0, <3>1, <3>2, <3>3, <3>4 DEF GoesOn
  <2> QED BY <1>1, <2>1, <2>2 DEF StagesPassed
<1>8. SucceededIsMined'
  <2>1. ASSUME NEW b \in Batch, NEW k \in 1..Len(Plan(b)), rows'[b][k].st = "succeeded"
        PROVE  \E m \in Range(mined[Plan(b)[k].role]) : m.ok /\ m.a = b /\ m.k = k /\ m.n = rows'[b][k].n
    <3>1. CASE rows'[b][k] = rows[b][k]
      BY <2>1, <3>1 DEF AttemptInv, SucceededIsMined
    <3>2. CASE rows'[b][k] # rows[b][k]
      <4>1. b = a /\ k = K
        BY <1>0, <3>2 DEF OwnRow
      <4>2. CASE rows[a][K].st = "succeeded" /\ rows'[a][K].n = rows[a][K].n
        BY <1>2, <4>1, <4>2 DEF AttemptInv, SucceededIsMined
      <4>3. CASE ~(rows[a][K].st = "succeeded" /\ rows'[a][K].n = rows[a][K].n)
        BY <1>0, <1>2, <2>1, <4>1, <4>3 DEF OwnRow
      <4> QED BY <4>2, <4>3
    <3> QED BY <3>1, <3>2
  <2> QED BY <1>1, <2>1 DEF SucceededIsMined
<1>9. FinishedRests'
  <2>1. ASSUME NEW b \in Batch
        PROVE  /\ status[b] \in {"none", "running", "succeeded"} /\ effects[b] \in {0, 1}
               /\ status[b] = "succeeded" =>
                    /\ thr'[b].pc \in {"queued", "done"} /\ effects[b] = 1
                    /\ \A k \in 1..Len(Plan(b)) : Reached(b, k)'
    <3>1. CASE b = a
      BY <1>4, <3>1 DEF AttemptInv, FinishedRests
    <3>2. CASE b # a
      <4>1. thr'[b] = thr[b]
        BY <1>0, <3>2 DEF OwnRow
      <4> QED BY <1>5, <3>2, <4>1 DEF AttemptInv, FinishedRests
    <3> QED BY <3>1, <3>2
  <2> QED BY <1>1, <2>1 DEF FinishedRests
<1> QED BY <1>1, <1>7, <1>8, <1>9 DEF AttemptInv

(* The row a thread writes is its own. *)
LEMMA RowAfter ==
  ASSUME RunnerTyped, NEW a \in Batch, NEW w, rows' = [rows EXCEPT ![a][thr[a].k] = w]
  PROVE  /\ \A b \in Batch : b # a => rows'[b] = rows[b]
         /\ \A k \in 1..Len(Plan(a)) : k # thr[a].k => rows'[a][k] = rows[a][k]
         /\ rows'[a][thr[a].k] = w
<1>1. /\ rows = [b \in Batch |-> rows[b]] /\ rows[a] \in [1..Len(Plan(a)) -> RowRecs]
      /\ thr[a].k \in 1..Len(Plan(a))
  BY DEF RunnerTyped, StoresTyped
<1>2. rows' = [rows EXCEPT ![a] = [rows[a] EXCEPT ![thr[a].k] = w]]
  OBVIOUS
<1>3. rows'[a] = [rows[a] EXCEPT ![thr[a].k] = w] /\ \A b \in Batch : b # a => rows'[b] = rows[b]
  BY <1>1, <1>2
<1> QED BY <1>1, <1>3

(* A row that is left alone. *)
LEMMA RowsAlone ==
  ASSUME NEW a \in Batch, \A b \in Batch : b # a => thr'[b] = thr[b], UNCHANGED rows
  PROVE  OwnRow(a)
BY DEF OwnRow, Row

(* A thread that moves within its stage, to no place that needs a success. *)
LEMMA PlainMove ==
  ASSUME RunnerTyped, NEW a \in Batch, thr[a].pc = "running",
         NEW m \in Modes \ {"evidence", "effect"}, GoTo(a, m)
  PROVE  GoesOn(a)
<1>1. thr'[a].pc = "running" /\ thr'[a].k = thr[a].k /\ thr'[a].mode = m
  BY ThreadAfter
<1> QED BY <1>1 DEF GoesOn

(* A stage that succeeded before is passed. *)
LEMMA AttemptEnterSucceeded ==
  ASSUME NonceInv, AttemptInv, NEW a \in Batch, EnterSucceeded(a)
  PROVE  AttemptInv'
<1>1. /\ up /\ thr[a].pc = "running" /\ Row(a).st = "succeeded" /\ At(a).op # "wait"
      /\ UNCHANGED <<route, up, status, effects, mined, verified, rows>> /\ RunnerTyped
  BY DEF EnterSucceeded, Runs, OnTx, dbVars, chainVars, NonceInv
<1>2. Proceed(a) \/ Raise(a) \/ (At(a).op = "deliver" /\ GoTo(a, "effect")) \/ GoTo(a, "evidence")
  BY ThreadFacts, <1>1 DEF EnterSucceeded, SignRoot, Ops
<1>3. rows'[a][thr[a].k].st = "succeeded"
  BY <1>1 DEF Row
<1>4. (\A b \in Batch : b # a => thr'[b] = thr[b]) /\ GoesOn(a)
  BY <1>1, <1>2, <1>3, ThreadAfter DEF GoesOn
<1>5. OwnRow(a)
  BY <1>1, <1>4, RowsAlone
<1> QED BY <1>1, <1>4, <1>5, ThreadAdvances

(* Sending, looking up and waiting on. *)
LEMMA AttemptMoves ==
  ASSUME NonceInv, AttemptInv, NEW a \in Batch, up, thr[a].pc = "running",
         NEW m \in Modes \ {"evidence", "effect"}, GoTo(a, m),
         UNCHANGED <<route, up, status, effects, mined, verified, rows>>
  PROVE  AttemptInv'
<1>1. RunnerTyped
  BY DEF NonceInv
<1>2. GoesOn(a) /\ \A b \in Batch : b # a => thr'[b] = thr[b]
  BY <1>1, PlainMove, ThreadAfter
<1> QED BY <1>2, RowsAlone, ThreadAdvances

(* A nonce is taken. *)
LEMMA AttemptReserves ==
  ASSUME NonceInv, AttemptInv, NEW a \in Batch, ReserveRoot(a) \/ ReserveNonce(a)
  PROVE  AttemptInv'
<1>1. /\ up /\ thr[a].pc = "running"
      /\ UNCHANGED <<route, up, status, effects, mined, verified, rows>> /\ RunnerTyped
  BY DEF ReserveRoot, ReserveNonce, Fresh, Runs, dbVars, chainVars, NonceInv
<1>2. PICK g, n : thr' = [thr EXCEPT ![a].mode = "reserved", ![a].g = g, ![a].n = n]
  BY Zenon DEF ReserveRoot, ReserveNonce
<1>3. thr \in [Batch -> ThreadRecs] /\ thr[a] \in ThreadRecs
  BY <1>1 DEF RunnerTyped
<1>4. thr'[a] = [thr[a] EXCEPT !.mode = "reserved", !.g = g, !.n = n]
      /\ \A b \in Batch : b # a => thr'[b] = thr[b]
  BY <1>2, <1>3
<1>5. thr'[a].pc = "running" /\ thr'[a].k = thr[a].k /\ thr'[a].mode = "reserved"
  BY <1>1, <1>3, <1>4 DEF ThreadRecs
<1>6. OwnRow(a) /\ GoesOn(a)
  BY <1>1, <1>4, <1>5, RowsAlone DEF GoesOn
<1> QED BY <1>1, <1>6, ThreadAdvances

(* A row is written that says of no success. *)
LEMMA AttemptWrites ==
  ASSUME NonceInv, AttemptInv, NEW a \in Batch, up, thr[a].pc = "running", NEW w, w.st # "succeeded",
         rows' = [rows EXCEPT ![a][thr[a].k] = w],
         \/ \E m \in Modes \ {"evidence", "effect"} : GoTo(a, m)
         \/ Raise(a),
         UNCHANGED <<route, up, status, effects, mined, verified>>
  PROVE  AttemptInv'
<1>1. RunnerTyped
  BY DEF NonceInv
<1>2. GoesOn(a) /\ \A b \in Batch : b # a => thr'[b] = thr[b]
  BY <1>1, PlainMove, ThreadAfter DEF GoesOn
<1>3. OwnRow(a)
  BY <1>1, <1>2, RowAfter DEF OwnRow
<1> QED BY <1>2, <1>3, ThreadAdvances

(* The bytes are sent again, or the row is superseded. *)
LEMMA AttemptResend ==
  ASSUME NonceInv, AttemptInv, NEW a \in Batch, Resend(a)
  PROVE  AttemptInv'
<1>1. /\ up /\ thr[a].pc = "running" /\ RunnerTyped
      /\ UNCHANGED <<route, up, status, effects, mined, verified>>
  BY DEF Resend, Runs, NonceInv
<1>2. CASE UNCHANGED rows
  <2>1. GoTo(a, "await_prior") \/ GoTo(a, "fresh")
    BY DEF Resend
  <2> QED BY <1>1, <1>2, <2>1, AttemptMoves DEF Modes
<1>3. CASE rows' = [rows EXCEPT ![a][thr[a].k].st = "superseded"] /\ GoTo(a, "fresh")
  <2> DEFINE w == [rows[a][thr[a].k] EXCEPT !.st = "superseded"]
  <2>1. rows' = [rows EXCEPT ![a][thr[a].k] = w]
    BY <1>3
  <2>2. w.st = "superseded"
    BY <1>1, ThreadFacts DEF RowRecs
  <2> HIDE DEF w
  <2> QED BY <1>1, <1>3, <2>1, <2>2, AttemptWrites DEF Modes
<1> QED BY <1>2, <1>3 DEF Resend

(* A fresh transaction is written to its row. *)
LEMMA AttemptBuilds ==
  ASSUME NonceInv, AttemptInv, NEW a \in Batch, BuildTransaction(a) \/ RecordSigned(a)
  PROVE  AttemptInv'
<1>1. /\ up /\ thr[a].pc = "running" /\ RunnerTyped
      /\ UNCHANGED <<route, up, status, effects, mined, verified>>
  BY DEF BuildTransaction, RecordSigned, Runs, chainVars, NonceInv
<1>2. CASE BuildTransaction(a)
  <2> DEFINE w == [st |-> IF kind = "multihop" THEN "signed" ELSE "intended",
                   n |-> thr[a].n, g |-> thr[a].g, ev |-> FALSE]
  <2>1. rows' = [rows EXCEPT ![a][thr[a].k] = w] /\ (GoTo(a, "send") \/ GoTo(a, "intended"))
    BY <1>2 DEF BuildTransaction, StoreFresh
  <2>2. w.st # "succeeded"
    OBVIOUS
  <2> HIDE DEF w
  <2> QED BY <1>1, <2>1, <2>2, AttemptWrites DEF Modes
<1>3. CASE RecordSigned(a)
  <2> DEFINE w == [rows[a][thr[a].k] EXCEPT !.st = "signed"]
  <2>1. rows' = [rows EXCEPT ![a][thr[a].k] = w] /\ GoTo(a, "send")
    BY <1>3 DEF RecordSigned
  <2>2. w.st = "signed"
    BY <1>1, ThreadFacts DEF RowRecs
  <2> HIDE DEF w
  <2> QED BY <1>1, <2>1, <2>2, AttemptWrites DEF Modes
<1> QED BY <1>2, <1>3

(* A receipt that says of success is the chain's. *)
LEMMA AttemptAwaits ==
  ASSUME NonceInv, AttemptInv, NEW a \in Batch, AwaitReceipt(a)
  PROVE  AttemptInv'
<1> DEFINE K == thr[a].k
<1>1. /\ up /\ thr[a].pc = "running" /\ RunnerTyped
      /\ UNCHANGED <<route, up, status, effects, mined, verified>>
  BY DEF AwaitReceipt, chainVars, NonceInv
<1>2. /\ At(a).op \in Ops /\ At(a).op # "wait" /\ Row(a) = rows[a][K] /\ Row(a) \in RowRecs
  <2>1. ModeFits(thr[a].mode, At(a).op) /\ thr[a].mode # "enter"
    BY <1>1 DEF AwaitReceipt, NonceInv, ThreadsKnow, AtWork
  <2> QED BY <1>1, <2>1, ThreadFacts DEF ModeFits
<1>3. PICK m \in Receipts(a) :
          IF m.ok
          THEN StoreSucceeded(a) /\ AfterReceipt(a)
          ELSE /\ rows' = IF thr[a].mode = "await"
                          THEN [rows EXCEPT ![a][thr[a].k].st = "failed"]
                          ELSE rows
               /\ Raise(a)
  BY DEF AwaitReceipt
<1>4. CASE m.ok
  <2> DEFINE v == At(a).op = "dispatch" /\ Carrier(a) = "H"
             w == [rows[a][K] EXCEPT !.st = "succeeded", !.ev = v]
  <2>1. rows' = [rows EXCEPT ![a][K] = w]
    <3>1. StoreSucceeded(a)
      BY <1>3, <1>4
    <3>2. rows' = [rows EXCEPT ![a][K].st = "succeeded", ![a][K].ev = v]
      BY <3>1, Zenon DEF StoreSucceeded
    <3> HIDE DEF v
    <3>3. rows = [b \in Batch |-> rows[b]] /\ rows[a] \in [1..Len(Plan(a)) -> RowRecs]
          /\ K \in 1..Len(Plan(a))
      BY <1>1 DEF RunnerTyped, StoresTyped
    <3> QED BY <3>2, <3>3
  <2>2. w.st = "succeeded" /\ w.n = Row(a).n
    BY <1>2 DEF RowRecs
  <2> HIDE DEF w
  <2>3. m \in Range(mined[At(a).role]) /\ m.a = a /\ m.k = K /\ m.n = Row(a).n
    BY DEF Receipts
  <2>4. rows'[a][K] = w /\ (\A b \in Batch : b # a => rows'[b] = rows[b])
        /\ \A k \in 1..Len(Plan(a)) : k # K => rows'[a][k] = rows[a][k]
    BY <1>1, <2>1, RowAfter
  <2>5. Proceed(a) \/ Raise(a) \/ (At(a).op = "deliver" /\ GoTo(a, "effect")) \/ GoTo(a, "evidence")
    BY <1>2, <1>3, <1>4 DEF AfterReceipt, SignRoot, Ops
  <2>6. (\A b \in Batch : b # a => thr'[b] = thr[b]) /\ GoesOn(a)
    BY <1>1, <1>2, <2>2, <2>4, <2>5, ThreadAfter DEF GoesOn
  <2>7. OwnRow(a)
    BY <1>4, <2>2, <2>3, <2>4, <2>6 DEF OwnRow
  <2> QED BY <1>1, <2>6, <2>7, ThreadAdvances
<1>5. CASE ~m.ok /\ thr[a].mode = "await"
  <2> DEFINE w == [rows[a][K] EXCEPT !.st = "failed"]
  <2>1. rows' = [rows EXCEPT ![a][K] = w] /\ Raise(a)
    BY <1>3, <1>5
  <2>2. w.st = "failed"
    BY <1>2 DEF RowRecs
  <2> HIDE DEF w
  <2> QED BY <1>1, <2>1, <2>2, AttemptWrites
<1>6. CASE ~m.ok /\ thr[a].mode # "await"
  <2>1. Raise(a) /\ UNCHANGED rows
    BY <1>3, <1>6
  <2>2. GoesOn(a) /\ \A b \in Batch : b # a => thr'[b] = thr[b]
    BY <1>1, <2>1, ThreadAfter DEF GoesOn
  <2> QED BY <1>1, <2>1, <2>2, RowsAlone, ThreadAdvances
<1> QED BY <1>4, <1>5, <1>6

(* The evidence joins a row that succeeded. *)
LEMMA AttemptRecordsEvidence ==
  ASSUME NonceInv, AttemptInv, NEW a \in Batch, RecordEvidence(a)
  PROVE  AttemptInv'
<1> DEFINE w == [rows[a][thr[a].k] EXCEPT !.ev = TRUE]
<1>1. /\ up /\ thr[a].pc = "running" /\ RunnerTyped /\ thr[a].mode = "evidence" /\ Proceed(a)
      /\ UNCHANGED <<route, up, status, effects, mined, verified>>
      /\ rows' = [rows EXCEPT ![a][thr[a].k] = w]
  BY DEF RecordEvidence, Runs, chainVars, NonceInv
<1>2. Row(a) = rows[a][thr[a].k] /\ Row(a) \in RowRecs
  BY <1>1, ThreadFacts
<1>3. w.st = Row(a).st /\ w.n = Row(a).n
  BY <1>2 DEF RowRecs
<1>4. Row(a).st = "succeeded" /\ At(a).op # "wait"
  <2>1. ModeFits("evidence", At(a).op)
    BY <1>1 DEF NonceInv, ThreadsKnow, AtWork
  <2> QED BY <1>1, <2>1 DEF AttemptInv, StagesPassed, AtWork, ModeFits
<1> HIDE DEF w
<1>5. rows'[a][thr[a].k] = w /\ (\A b \in Batch : b # a => rows'[b] = rows[b])
      /\ \A k \in 1..Len(Plan(a)) : k # thr[a].k => rows'[a][k] = rows[a][k]
  BY <1>1, RowAfter
<1>6. (\A b \in Batch : b # a => thr'[b] = thr[b]) /\ GoesOn(a)
  BY <1>1, <1>3, <1>4, <1>5, ThreadAfter DEF GoesOn
<1>7. OwnRow(a)
  BY <1>3, <1>4, <1>5, <1>6 DEF OwnRow
<1> QED BY <1>1, <1>6, <1>7, ThreadAdvances

(* The adapter answers, an error takes the attempt back, a wait runs out.  *)
LEMMA AttemptWaits ==
  ASSUME NonceInv, AttemptInv, NEW a \in Batch, WaitBundle(a) \/ TransientError(a) \/ WaitTimeout(a)
  PROVE  AttemptInv'
<1>1. /\ up /\ thr[a].pc = "running" /\ RunnerTyped
      /\ UNCHANGED <<route, up, status, effects, mined, verified, rows>>
  BY DEF WaitBundle, TransientError, WaitTimeout, Runs, chainVars, dbVars, NonceInv
<1>2. CASE WaitBundle(a)
  <2>1. Proceed(a) /\ At(a).op = "wait" /\ Evidence(a, At(a).hop) \in verified
    BY <1>2 DEF WaitBundle
  <2>2. GoesOn(a) /\ \A b \in Batch : b # a => thr'[b] = thr[b]
    BY <1>1, <2>1, ThreadAfter DEF GoesOn
  <2> QED BY <1>1, <2>2, RowsAlone, ThreadAdvances
<1>3. CASE Raise(a)
  <2>2. GoesOn(a) /\ \A b \in Batch : b # a => thr'[b] = thr[b]
    BY <1>1, <1>3, ThreadAfter DEF GoesOn
  <2> QED BY <1>1, <2>2, RowsAlone, ThreadAdvances
<1>4. CASE thr' = [thr EXCEPT ![a] = [Queued EXCEPT !.pc = "running", !.retried = TRUE]]
  <2>1. thr \in [Batch -> ThreadRecs]
    BY <1>1 DEF RunnerTyped
  <2>2. thr'[a] = [Queued EXCEPT !.pc = "running", !.retried = TRUE]
        /\ \A b \in Batch : b # a => thr'[b] = thr[b]
    BY <1>4, <2>1
  <2>3. GoesOn(a)
    BY <2>2 DEF GoesOn, Queued
  <2> QED BY <1>1, <2>2, <2>3, RowsAlone, ThreadAdvances
<1> QED BY <1>2, <1>3, <1>4 DEF TransientError, WaitTimeout

-----------------------------------------------------------------------------
(* Steps between the stages.                                               *)

(* An attempt is taken off the queue. *)
LEMMA AttemptBegins ==
  ASSUME NonceInv, AttemptInv, NEW a \in Batch, Begin(a)
  PROVE  AttemptInv'
<1>1. /\ up /\ thr[a].pc = "queued" /\ RunnerTyped
      /\ UNCHANGED <<route, up, rows, effects, mined, verified>>
  BY DEF Begin, chainVars, NonceInv
<1>2. Batch' = Batch /\ \A b : Plan(b)' = Plan(b)
  BY <1>1, RouteKeeps
<1>3. thr[a].k = 1 /\ thr[a].mode = "enter" /\ thr[a] \in ThreadRecs /\ thr \in [Batch -> ThreadRecs]
  BY <1>1 DEF AttemptInv, StagesPassed, NonceInv, ThreadsKnow, RunnerTyped
<1>4. PICK pc \in {"done", "running"} :
         /\ thr' = [thr EXCEPT ![a].pc = pc]
         /\ IF pc = "done" THEN status[a] = "succeeded" /\ status' = status
            ELSE status' = [status EXCEPT ![a] = "running"]
  BY DEF Begin
<1>5. /\ thr'[a].pc = pc /\ thr'[a].k = 1 /\ thr'[a].mode = "enter"
      /\ \A b \in Batch : b # a => thr'[b] = thr[b]
  BY <1>3, <1>4 DEF ThreadRecs
<1>6. status = [b \in Batch |-> status[b]]
  BY DEF AttemptInv
<1>7. /\ status' = [b \in Batch |-> status'[b]] /\ \A b \in Batch : b # a => status'[b] = status[b]
      /\ IF pc = "done" THEN status'[a] = status[a] ELSE status'[a] = "running"
  BY <1>4, <1>6
<1>8. ASSUME NEW b \in Batch, NEW k \in 1..Len(Plan(b)), Reached(b, k) PROVE Reached(b, k)'
  BY <1>1, <1>8, ReachedKeeps
<1>9. StagesPassed'
  <2>1. ASSUME NEW b \in Batch, b # a
        PROVE  /\ thr'[b].pc = "queued" => thr'[b].k = 1
               /\ AtWork(b)' =>
                   /\ \A k \in 1..(thr'[b].k - 1) : Reached(b, k)'
                   /\ thr'[b].mode \in {"evidence", "effect"} => Row(b)'.st = "succeeded"
                   /\ thr'[b].mode = "effect" => At(b)'.op = "deliver"
    <3>1. thr'[b] = thr[b] /\ AtWork(b)' = AtWork(b) /\ Row(b)' = Row(b) /\ At(b)' = At(b)
      BY <1>1, <1>2, <1>5, <2>1 DEF AtWork, Row, At
    <3>2. \A k \in 1..(thr[b].k - 1) : k \in 1..Len(Plan(b))
      BY <1>1, ThreadFacts, PlanFacts
    <3> QED BY <1>8, <3>1, <3>2 DEF AttemptInv, StagesPassed
  <2>2. /\ thr'[a].pc = "queued" => thr'[a].k = 1
        /\ \A k \in 1..(thr'[a].k - 1) : Reached(a, k)'
        /\ thr'[a].mode \notin {"evidence", "effect"}
    BY <1>5
  <2> QED BY <1>2, <2>1, <2>2 DEF StagesPassed
<1>10. SucceededIsMined'
  BY <1>1, <1>2 DEF AttemptInv, SucceededIsMined
<1>11. FinishedRests'
  <2>1. ASSUME NEW b \in Batch
        PROVE  /\ status'[b] \in {"none", "running", "succeeded"} /\ effects[b] \in {0, 1}
               /\ status'[b] = "succeeded" =>
                    /\ thr'[b].pc \in {"queued", "done"} /\ effects[b] = 1
                    /\ \A k \in 1..Len(Plan(b)) : Reached(b, k)'
    BY <1>4, <1>5, <1>7, <1>8 DEF AttemptInv, FinishedRests
  <2> QED BY <1>1, <1>2, <2>1 DEF FinishedRests
<1>12. effects = [b \in Batch |-> effects[b]]
  BY DEF AttemptInv
<1> QED BY <1>1, <1>2, <1>7, <1>9, <1>10, <1>11, <1>12 DEF AttemptInv

(* The effect is there: every stage before the last has been reached, and  *)
(* the last is the delivery, which succeeded.                              *)
LEMMA AttemptFinishes ==
  ASSUME NonceInv, AttemptInv, NEW a \in Batch, Finish(a)
  PROVE  AttemptInv'
<1>1. /\ up /\ thr[a].pc = "running" /\ thr[a].mode = "effect" /\ RunnerTyped
      /\ UNCHANGED <<route, up, rows, effects, mined, verified>>
  BY DEF Finish, Runs, chainVars, NonceInv
<1>2. Batch' = Batch /\ \A b : Plan(b)' = Plan(b)
  BY <1>1, RouteKeeps
<1>3. CASE Raise(a) /\ UNCHANGED status
  <2>1. GoesOn(a) /\ \A b \in Batch : b # a => thr'[b] = thr[b]
    BY <1>1, <1>3, ThreadAfter DEF GoesOn
  <2> QED BY <1>1, <1>3, <2>1, RowsAlone, ThreadAdvances
<1>4. CASE /\ effects[a] > 0 /\ status' = [status EXCEPT ![a] = "succeeded"]
           /\ thr' = [thr EXCEPT ![a].pc = "done"]
  <2>1. /\ At(a).op = "deliver" /\ Row(a).st = "succeeded" /\ effects[a] = 1
        /\ \A k \in 1..(thr[a].k - 1) : Reached(a, k)
    BY <1>1, <1>4 DEF AttemptInv, StagesPassed, FinishedRests, AtWork
  <2>2. thr[a].k \in 1..Len(Plan(a)) /\ At(a) = Plan(a)[thr[a].k] /\ Row(a) = rows[a][thr[a].k]
        /\ Len(Plan(a)) \in Nat
    BY <1>1, ThreadFacts, PlanFacts
  <2>3. thr[a].k = Len(Plan(a))
    BY <1>1, <2>1, <2>2, PlanLayout
  <2>4. ASSUME NEW k \in 1..Len(Plan(a)) PROVE Reached(a, k)
    <3>1. CASE k = Len(Plan(a))
      BY <2>1, <2>2, <2>3, <3>1 DEF Reached
    <3>2. CASE k # Len(Plan(a))
      <4>1. k \in 1..(thr[a].k - 1)
        BY <2>2, <2>3, <3>2
      <4> QED BY <2>1, <4>1
    <3> QED BY <3>1, <3>2
  <2>5. ASSUME NEW b \in Batch, NEW k \in 1..Len(Plan(b)), Reached(b, k) PROVE Reached(b, k)'
    BY <1>1, <2>5, ReachedKeeps
  <2>6. thr \in [Batch -> ThreadRecs] /\ thr[a] \in ThreadRecs
    BY <1>1 DEF RunnerTyped
  <2>7. thr'[a].pc = "done" /\ \A b \in Batch : b # a => thr'[b] = thr[b]
    BY <1>4, <2>6 DEF ThreadRecs
  <2>8. /\ status' = [b \in Batch |-> status'[b]] /\ status'[a] = "succeeded"
        /\ \A b \in Batch : b # a => status'[b] = status[b]
    BY <1>4 DEF AttemptInv
  <2>9. StagesPassed'
    <3>1. ASSUME NEW b \in Batch, b # a
          PROVE  /\ thr'[b].pc = "queued" => thr'[b].k = 1
                 /\ AtWork(b)' =>
                     /\ \A k \in 1..(thr'[b].k - 1) : Reached(b, k)'
                     /\ thr'[b].mode \in {"evidence", "effect"} => Row(b)'.st = "succeeded"
                     /\ thr'[b].mode = "effect" => At(b)'.op = "deliver"
      <4>1. thr'[b] = thr[b] /\ AtWork(b)' = AtWork(b) /\ Row(b)' = Row(b) /\ At(b)' = At(b)
        BY <1>1, <1>2, <2>7, <3>1 DEF AtWork, Row, At
      <4>2. \A k \in 1..(thr[b].k - 1) : k \in 1..Len(Plan(b))
        BY <1>1, ThreadFacts, PlanFacts
      <4> QED BY <2>5, <4>1, <4>2 DEF AttemptInv, StagesPassed
    <3>2. ~AtWork(a)' /\ thr'[a].pc # "queued"
      BY <2>7 DEF AtWork
    <3> QED BY <1>2, <3>1, <3>2 DEF StagesPassed
  <2>10. SucceededIsMined'
    BY <1>1, <1>2 DEF AttemptInv, SucceededIsMined
  <2>11. FinishedRests'
    <3>1. ASSUME NEW b \in Batch
          PROVE  /\ status'[b] \in {"none", "running", "succeeded"} /\ effects[b] \in {0, 1}
                 /\ status'[b] = "succeeded" =>
                      /\ thr'[b].pc \in {"queued", "done"} /\ effects[b] = 1
                      /\ \A k \in 1..Len(Plan(b)) : Reached(b, k)'
      <4>1. CASE b = a
        BY <2>1, <2>4, <2>5, <2>7, <2>8, <4>1
      <4>2. CASE b # a
        BY <2>5, <2>7, <2>8, <4>2 DEF AttemptInv, FinishedRests
      <4> QED BY <4>1, <4>2
    <3> QED BY <1>1, <1>2, <3>1 DEF FinishedRests
  <2>12. effects = [b \in Batch |-> effects[b]]
    BY DEF AttemptInv
  <2> QED BY <1>1, <1>2, <2>8, <2>9, <2>10, <2>11, <2>12 DEF AttemptInv
<1> QED BY <1>3, <1>4 DEF Finish

(* A step that writes no row and takes nothing from a chain leaves the     *)
(* attempts where they are, or ends all threads, or queues them again.     *)
LEMMA AttemptsStand ==
  ASSUME NonceInv, AttemptInv, UNCHANGED <<route, rows, status>>, verified \subseteq verified',
         \A r \in Roles : Range(mined[r]) \subseteq Range(mined'[r]),
         effects' = [a \in Batch |-> effects'[a]],
         \A a \in Batch : effects'[a] \in {0, 1} /\ (effects[a] = 1 => effects'[a] = 1),
         (UNCHANGED thr /\ (up' => up)) \/ thr' = [a \in Batch |-> Queued]
  PROVE  AttemptInv'
<1>1. Batch' = Batch /\ (\A b : Plan(b)' = Plan(b)) /\ RunnerTyped
  BY RouteKeeps DEF NonceInv
<1>2. ASSUME NEW a \in Batch, NEW k \in 1..Len(Plan(a)), Reached(a, k) PROVE Reached(a, k)'
  BY <1>1, <1>2, ReachedKeeps
<1>3. StagesPassed'
  <2>1. CASE UNCHANGED thr /\ (up' => up)
    <3>1. ASSUME NEW a \in Batch
          PROVE  /\ thr[a].pc = "queued" => thr[a].k = 1
                 /\ AtWork(a)' =>
                     /\ \A k \in 1..(thr[a].k - 1) : Reached(a, k)'
                     /\ thr[a].mode \in {"evidence", "effect"} => Row(a).st = "succeeded"
                     /\ thr[a].mode = "effect" => At(a).op = "deliver"
      <4>1. AtWork(a)' => AtWork(a)
        BY <2>1 DEF AtWork
      <4>2. \A k \in 1..(thr[a].k - 1) : k \in 1..Len(Plan(a))
        BY <1>1, ThreadFacts, PlanFacts
      <4> QED BY <1>2, <4>1, <4>2 DEF AttemptInv, StagesPassed
    <3>2. \A a \in Batch : Row(a)' = Row(a) /\ At(a)' = At(a)
      BY <1>1, <2>1 DEF Row, At
    <3> QED BY <1>1, <2>1, <3>1, <3>2 DEF StagesPassed
  <2>2. CASE thr' = [a \in Batch |-> Queued]
    <3>1. \A a \in Batch : thr'[a].pc = "queued" /\ thr'[a].k = 1
      BY <2>2 DEF Queued
    <3>2. \A a \in Batch : ~AtWork(a)'
      BY <3>1 DEF AtWork
    <3> QED BY <1>1, <3>1, <3>2 DEF StagesPassed
  <2> QED BY <2>1, <2>2
<1>4. SucceededIsMined'
  <2>1. ASSUME NEW a \in Batch, NEW k \in 1..Len(Plan(a)), rows[a][k].st = "succeeded"
        PROVE  \E m \in Range(mined'[Plan(a)[k].role]) : m.ok /\ m.a = a /\ m.k = k /\ m.n = rows[a][k].n
    <3>1. Plan(a)[k].role \in Roles
      BY <1>1, PlanFacts
    <3>2. PICK m \in Range(mined[Plan(a)[k].role]) : m.ok /\ m.a = a /\ m.k = k /\ m.n = rows[a][k].n
      BY <2>1 DEF AttemptInv, SucceededIsMined
    <3>3. m \in Range(mined'[Plan(a)[k].role])
      BY <3>1, <3>2
    <3> QED BY <3>2, <3>3
  <2> QED BY <1>1, <2>1 DEF SucceededIsMined
<1>5. FinishedRests'
  <2>1. ASSUME NEW a \in Batch
        PROVE  /\ status[a] \in {"none", "running", "succeeded"}
               /\ status[a] = "succeeded" =>
                    /\ thr'[a].pc \in {"queued", "done"} /\ effects'[a] = 1
                    /\ \A k \in 1..Len(Plan(a)) : Reached(a, k)'
    <3>1. thr[a].pc \in {"queued", "done"} => thr'[a].pc \in {"queued", "done"}
      BY DEF Queued
    <3> QED BY <1>2, <3>1 DEF AttemptInv, FinishedRests
  <2> QED BY <1>1, <2>1 DEF FinishedRests
<1> QED BY <1>1, <1>3, <1>4, <1>5 DEF AttemptInv

(* A chain that mines a transaction of the runner keeps those it has. *)
LEMMA RangeGrows ==
  ASSUME NEW s, s \in Seq(Range(s)), NEW m
  PROVE  /\ Append(s, m) \in Seq(Range(s) \cup {m}) /\ Range(Append(s, m)) = Range(s) \cup {m}
         /\ Len(Append(s, m)) = Len(s) + 1 /\ Len(s) \in Nat
         /\ \A i \in 1..Len(s) : Append(s, m)[i] = s[i]
<1> DEFINE S == Range(s) \cup {m}
           u == Append(s, m)
<1>1. s \in Seq(S) /\ m \in S /\ Range(s) = {s[i] : i \in 1..Len(s)} /\ Len(s) \in Nat
  <2>1. DOMAIN s = 1..Len(s) /\ Len(s) \in Nat
    OBVIOUS
  <2>2. Range(s) = {s[i] : i \in 1..Len(s)}
    BY <2>1 DEF Range
  <2>3. \A i \in 1..Len(s) : s[i] \in S
    BY <2>2
  <2> HIDE DEF S
  <2>4. s = [i \in 1..Len(s) |-> s[i]]
    OBVIOUS
  <2>5. s \in Seq(S)
    BY <2>1, <2>3, <2>4
  <2> QED BY <2>1, <2>2, <2>5 DEF S
<1> HIDE DEF S
<1>2. /\ u \in Seq(S) /\ Len(u) = Len(s) + 1 /\ u[Len(s) + 1] = m /\ DOMAIN u = 1..Len(u)
      /\ \A i \in 1..Len(s) : u[i] = s[i]
  BY <1>1
<1> HIDE DEF u
<1>3. Range(u) = {u[i] : i \in 1..Len(u)}
  BY <1>2 DEF Range
<1>4. \A x \in Range(u) : x \in Range(s) \cup {m}
  <2>1. ASSUME NEW i \in 1..Len(u) PROVE u[i] \in Range(s) \cup {m}
    <3>1. i \in 1..Len(s) \/ i = Len(s) + 1
      BY <1>1, <1>2
    <3> QED BY <1>1, <1>2, <3>1
  <2> QED BY <1>3, <2>1
<1>5. \A x \in Range(s) \cup {m} : x \in Range(u)
  <2>1. ASSUME NEW i \in 1..Len(s) PROVE s[i] \in Range(u)
    <3>1. i \in 1..Len(u)
      BY <1>1, <1>2
    <3> QED BY <1>2, <1>3, <3>1
  <2>2. Len(s) + 1 \in 1..Len(u)
    BY <1>1, <1>2
  <2>3. m \in Range(u)
    BY <1>2, <1>3, <2>2
  <2> QED BY <1>1, <2>1, <2>3
<1>6. Range(u) = Range(s) \cup {m}
  BY <1>4, <1>5
<1> QED BY <1>1, <1>2, <1>6 DEF u, S

(* A chain that mines keeps what it has, in its place. *)
LEMMA MinedGrows ==
  ASSUME RunnerTyped, NEW r \in Roles, NEW m, mined' = [mined EXCEPT ![r] = Append(@, m)]
  PROVE  \A q \in Roles : /\ Range(mined[q]) \subseteq Range(mined'[q])
                          /\ Len(mined[q]) \in Nat /\ Len(mined'[q]) \in Nat
                          /\ Len(mined[q]) <= Len(mined'[q])
                          /\ \A i \in 1..Len(mined[q]) : mined'[q][i] = mined[q][i]
<1>1. mined \in [Roles -> Seq(Blocks)]
  BY DEF RunnerTyped, StoresTyped
<1>2. ASSUME NEW q \in Roles PROVE mined[q] \in Seq(Range(mined[q])) /\ Len(mined[q]) \in Nat
  <2>1. mined[q] \in Seq(Blocks)
    BY <1>1
  <2>2. DOMAIN mined[q] = 1..Len(mined[q]) /\ Len(mined[q]) \in Nat
        /\ mined[q] = [i \in 1..Len(mined[q]) |-> mined[q][i]]
    BY <2>1
  <2>3. \A i \in 1..Len(mined[q]) : mined[q][i] \in Range(mined[q])
    BY <2>2 DEF Range
  <2> QED BY <2>2, <2>3
<1>3. mined'[r] = Append(mined[r], m) /\ \A q \in Roles : q # r => mined'[q] = mined[q]
  BY <1>1
<1>4. ASSUME NEW q \in Roles
      PROVE  /\ Range(mined[q]) \subseteq Range(mined'[q])
             /\ Len(mined[q]) \in Nat /\ Len(mined'[q]) \in Nat /\ Len(mined[q]) <= Len(mined'[q])
             /\ \A i \in 1..Len(mined[q]) : mined'[q][i] = mined[q][i]
  <2>1. CASE q = r
    <3>1. mined[r] \in Seq(Range(mined[r]))
      BY <1>2
    <3>2. PICK s : s = mined[r]
      OBVIOUS
    <3>3. /\ Range(Append(s, m)) = Range(s) \cup {m} /\ Len(Append(s, m)) = Len(s) + 1
          /\ Len(s) \in Nat /\ \A i \in 1..Len(s) : Append(s, m)[i] = s[i]
      BY <3>1, <3>2, RangeGrows
    <3>4. mined'[q] = Append(s, m) /\ mined[q] = s
      BY <1>3, <2>1, <3>2
    <3> QED BY <3>3, <3>4
  <2>2. CASE q # r
    BY <1>2, <1>3, <2>2
  <2> QED BY <2>1, <2>2
<1> QED BY <1>4

(* The receiver takes a message once. *)
LEMMA AttemptMined ==
  ASSUME NonceInv, AttemptInv, NEW r \in Roles, Mine(r)
  PROVE  AttemptInv'
<1>1. PICK t \in sent[r], ok \in BOOLEAN :
         /\ ok => ~(t.op = "deliver" /\ effects[t.a] > 0)
         /\ mined' = [mined EXCEPT ![r] = Append(@,
                     [a |-> t.a, k |-> t.k, op |-> t.op, n |-> t.n, g |-> t.g,
                      e |-> IF t.op = "root" THEN GatewayNonce ELSE -1, ok |-> ok])]
         /\ effects' = IF ok /\ t.op = "deliver" THEN [effects EXCEPT ![t.a] = @ + 1] ELSE effects
  BY DEF Mine
<1>2. /\ UNCHANGED <<route, up, thr, rows, status, verified>> /\ RunnerTyped
  BY DEF Mine, runnerVars, dbVars, NonceInv
<1>3. Batch' = Batch /\ t \in Sends
  BY <1>2, RouteKeeps DEF RunnerTyped, StoresTyped
<1>4. \A q \in Roles : Range(mined[q]) \subseteq Range(mined'[q])
  BY <1>1, <1>2, MinedGrows
<1>5. t.a \in Batch /\ effects = [b \in Batch |-> effects[b]] /\ \A b \in Batch : effects[b] \in {0, 1}
  BY <1>3 DEF AttemptInv, FinishedRests, Sends
<1>6. effects' = [b \in Batch |-> effects'[b]]
      /\ \A b \in Batch : effects'[b] \in {0, 1} /\ (effects[b] = 1 => effects'[b] = 1)
  <2>1. CASE ok /\ t.op = "deliver"
    <3>1. effects[t.a] = 0
      BY <1>1, <1>5, <2>1
    <3>2. effects' = [effects EXCEPT ![t.a] = 1]
      BY <1>1, <2>1, <3>1
    <3> QED BY <1>5, <3>1, <3>2
  <2>2. CASE ~(ok /\ t.op = "deliver")
    BY <1>1, <1>5, <2>2
  <2> QED BY <2>1, <2>2
<1> QED BY <1>2, <1>4, <1>6, AttemptsStand

(* Every step keeps what is known of the attempts. *)
LEMMA AttemptStep ==
  ASSUME NonceInv, AttemptInv, [NativeNext]_nativeVars
  PROVE  AttemptInv'
<1>0. effects = [a \in Batch |-> effects[a]] /\ \A a \in Batch : effects[a] \in {0, 1}
  BY DEF AttemptInv, FinishedRests
<1>1. CASE \E a \in Batch : Thread(a)
  <2>1. PICK a \in Batch : Thread(a)
    BY <1>1
  <2>2. CASE ResumeDurable(a) \/ LookupPrior(a) \/ SendRaw(a)
    <3>1. /\ up /\ thr[a].pc = "running"
          /\ UNCHANGED <<route, up, status, effects, mined, verified, rows>>
      BY <2>2 DEF ResumeDurable, LookupPrior, SendRaw, Runs, dbVars, chainVars
    <3>2. GoTo(a, "await_prior") \/ GoTo(a, "resend") \/ GoTo(a, "await")
      BY <2>2 DEF ResumeDurable, LookupPrior, SendRaw
    <3> QED BY <3>1, <3>2, AttemptMoves DEF Modes
  <2>3. CASE Begin(a)
    BY <2>3, AttemptBegins
  <2>4. CASE EnterSucceeded(a)
    BY <2>4, AttemptEnterSucceeded
  <2>5. CASE Resend(a)
    BY <2>5, AttemptResend
  <2>6. CASE ReserveRoot(a) \/ ReserveNonce(a)
    BY <2>6, AttemptReserves
  <2>7. CASE BuildTransaction(a) \/ RecordSigned(a)
    BY <2>7, AttemptBuilds
  <2>8. CASE AwaitReceipt(a)
    BY <2>8, AttemptAwaits
  <2>9. CASE RecordEvidence(a)
    BY <2>9, AttemptRecordsEvidence
  <2>10. CASE WaitBundle(a)
    BY <2>10, AttemptWaits
  <2>11. CASE Finish(a)
    BY <2>11, AttemptFinishes
  <2> QED BY <2>1, <2>2, <2>3, <2>4, <2>5, <2>6, <2>7, <2>8, <2>9, <2>10, <2>11 DEF Thread
<1>2. CASE \E a \in Batch : TransientError(a) \/ WaitTimeout(a)
  BY <1>2, AttemptWaits
<1>3. CASE \E r \in Roles : Mine(r)
  BY <1>3, AttemptMined
<1>4. ASSUME UNCHANGED <<route, rows, status, effects, mined>>, verified \subseteq verified',
             (UNCHANGED thr /\ (up' => up)) \/ thr' = [a \in Batch |-> Queued]
      PROVE  AttemptInv'
  BY <1>0, <1>4, RouteKeeps, AttemptsStand
<1>5. CASE ExitRaised \/ CrashRunner \/ RestartRunner
  BY <1>4, <1>5 DEF ExitRaised, CrashRunner, RestartRunner, dbVars, chainVars
<1>6. CASE Worker \/ WorkerFault \/ CrashWorker \/ UNCHANGED nativeVars
  <2>1. UNCHANGED <<runnerVars, dbVars, chainVars, verified>>
    BY <1>6 DEF Worker, ObservePackets, AdvanceCursor, BeginProcess, SkipSucceeded,
         IntendAction, RecordSignedAction, SendAction, FinalizeStage, MarkDelivered,
         RestartWorker, WorkerFault, CrashWorker, nativeVars, runnerVars, dbVars, chainVars
  <2> QED BY <1>4, <2>1 DEF runnerVars, dbVars, chainVars
<1>7. CASE \E r \in Roles : Relay(r) \/ MineWorker(r)
  <2>1. UNCHANGED <<runnerVars, dbVars, chainVars>>
    BY <1>7, Zenon DEF Relay, MineWorker
  <2>2. verified \subseteq verified'
    BY <1>7 DEF Relay, MineWorker
  <2> QED BY <1>4, <2>1, <2>2 DEF runnerVars, dbVars, chainVars
<1> QED BY <1>1, <1>2, <1>3, <1>5, <1>6, <1>7, Zenon DEF NativeNext, Progress, Disturbance, Chain

(* Nothing has been reached at first. *)
LEMMA AttemptInit == NativeInit => AttemptInv
<1> SUFFICES ASSUME NativeInit PROVE AttemptInv
  OBVIOUS
<1>1. /\ thr = [a \in Batch |-> Queued] /\ status = [a \in Batch |-> "none"]
      /\ rows = [a \in Batch |-> [i \in 1..Len(Plan(a)) |-> NoRow]]
      /\ effects = [a \in Batch |-> 0]
  BY Zenon DEF NativeInit
<1>2. \A a \in Batch : thr[a].pc = "queued" /\ thr[a].k = 1 /\ ~AtWork(a)
  BY <1>1 DEF AtWork, Queued
<1>3. \A a \in Batch : \A k \in 1..Len(Plan(a)) : rows[a][k].st = "none"
  BY <1>1 DEF NoRow
<1> QED BY <1>1, <1>2, <1>3 DEF AttemptInv, StagesPassed, SucceededIsMined, FinishedRests
-----------------------------------------------------------------------------
(* Steps of the worker.                                                    *)

(* The packets that a chain's transactions emitted stay in the table. *)
LEMMA CarriedKeeps ==
  ASSUME UNCHANGED route, NEW r \in Roles, NEW i \in 1..Len(mined[r]), Carried(r, i),
         mined'[r][i] = mined[r][i], DOMAIN packets \subseteq DOMAIN packets'
  PROVE  Carried(r, i)'
<1> DEFINE m == mined[r][i]
<1>1. m' = m /\ Plan(m.a)' = Plan(m.a)
  BY DEF Plan
<1> QED BY <1>1 DEF Carried

(* A step of the runner, of its chains or of the relayer.                  *)
LEMMA WorkerStands ==
  ASSUME NonceInv, WorkerInv, UNCHANGED <<route, wk, cursor, packets, acts, wmined>>,
         verified \subseteq verified', spent' \in 0..Budget[route],
         \A r \in Roles : /\ Len(mined[r]) \in Nat /\ Len(mined'[r]) \in Nat
                          /\ Len(mined[r]) <= Len(mined'[r])
                          /\ \A i \in 1..Len(mined[r]) : mined'[r][i] = mined[r][i]
  PROVE  WorkerInv'
<1>1. WorkerTyped'
  <2>1. \A r \in Roles : cursor[r] <= Len(mined'[r])
    BY DEF WorkerInv, WorkerTyped
  <2> QED BY <2>1 DEF WorkerInv, WorkerTyped, DestOf
<1>2. ASSUME NEW r \in Roles, NEW n \in 0..Len(mined[r]), \A i \in 1..n : Carried(r, i)
      PROVE  \A i \in 1..n : Carried(r, i)'
  <2>1. \A i \in 1..n : i \in 1..Len(mined[r])
    OBVIOUS
  <2> QED BY <1>2, <2>1, CarriedKeeps
<1>3. PagesCarried'
  <2>1. ASSUME NEW r \in Roles PROVE \A i \in 1..cursor[r] : Carried(r, i)'
    <3>1. cursor[r] \in 0..Len(mined[r])
      BY DEF WorkerInv, WorkerTyped
    <3> QED BY <1>2, <3>1 DEF WorkerInv, PagesCarried
  <2>2. ASSUME wk.page # <<>>
        PROVE  /\ wk.page[1] \in Roles /\ wk.page[2] \in 0..Len(mined'[wk.page[1]])
               /\ \A i \in 1..wk.page[2] : Carried(wk.page[1], i)'
    <3>1. /\ wk.page[1] \in Roles /\ wk.page[2] \in 0..Len(mined[wk.page[1]])
          /\ \A i \in 1..wk.page[2] : Carried(wk.page[1], i)
      BY <2>2 DEF WorkerInv, PagesCarried
    <3>2. \A i \in 1..wk.page[2] : Carried(wk.page[1], i)'
      BY <1>2, <3>1
    <3> QED BY <3>1, <3>2
  <2> QED BY <2>1, <2>2 DEF PagesCarried
<1>4. ExecutedIsVerified'
  BY DEF WorkerInv, ExecutedIsVerified, DestOf
<1> QED BY <1>1, <1>3, <1>4 DEF WorkerInv

(* The table keeps its packets, and the worker reads no new page.          *)
LEMMA PagesStand ==
  ASSUME WorkerInv, UNCHANGED <<route, mined, cursor>>, NonceInv,
         DOMAIN packets \subseteq DOMAIN packets', wk'.page \in {wk.page, <<>>}
  PROVE  PagesCarried'
<1>1. ASSUME NEW r \in Roles, NEW n \in 0..Len(mined[r]), \A i \in 1..n : Carried(r, i)
      PROVE  \A i \in 1..n : Carried(r, i)'
  <2>1. Len(mined[r]) \in Nat
    BY DEF NonceInv, RunnerTyped, StoresTyped
  <2>2. \A i \in 1..n : i \in 1..Len(mined[r])
    BY <2>1
  <2> QED BY <1>1, <2>2, CarriedKeeps
<1>2. ASSUME NEW r \in Roles PROVE \A i \in 1..cursor[r] : Carried(r, i)'
  <2>1. cursor[r] \in 0..Len(mined[r])
    BY DEF WorkerInv, WorkerTyped, NonceInv, RunnerTyped, StoresTyped
  <2> QED BY <1>1, <2>1 DEF WorkerInv, PagesCarried
<1>3. ASSUME wk'.page # <<>>
      PROVE  /\ wk'.page[1] \in Roles /\ wk'.page[2] \in 0..Len(mined'[wk'.page[1]])
             /\ \A i \in 1..wk'.page[2] : Carried(wk.page[1], i)'
  <2>1. PICK r, n : wk.page[1] = r /\ wk.page[2] = n
    OBVIOUS
  <2>2. wk'.page[1] = r /\ wk'.page[2] = n /\ wk.page # <<>>
    BY <1>3, <2>1
  <2>3. r \in Roles /\ n \in 0..Len(mined[r]) /\ \A i \in 1..n : Carried(r, i)
    BY <2>1, <2>2 DEF WorkerInv, PagesCarried
  <2>4. \A i \in 1..n : Carried(r, i)'
    BY <1>1, <2>3
  <2>5. \A i \in 1..n : Carried(wk.page[1], i)'
    BY <2>2, <2>4
  <2> QED BY <2>2, <2>3, <2>5
<1> QED BY <1>2, <1>3 DEF PagesCarried

(* An action is written, at the most, and one that succeeded did so on     *)
(* chain; otherwise the worker only turns to something else.               *)
WorkerShape(w) ==
  /\ w = [pc |-> w.pc, page |-> w.page, todo |-> w.todo, pend |-> w.pend, ready |-> w.ready]
  /\ w.pc \in {"collect", "submit", "down"}

LEMMA WorkerActs ==
  ASSUME NonceInv, WorkerInv, UNCHANGED <<route, mined, verified, cursor, packets, wmined>>,
         spent' \in 0..Budget[route], WorkerShape(wk'), wk'.page \in {wk.page, <<>>},
         acts' = [q \in DOMAIN acts' |-> [st |-> acts'[q].st, n |-> acts'[q].n]],
         \A q \in DOMAIN acts' :
           acts'[q].st \in {"intended", "signed", "submitted", "failed", "succeeded"},
         \A q \in DOMAIN acts' : acts'[q].st = "succeeded" =>
           (q \in DOMAIN acts /\ acts[q].st = "succeeded") \/ \E m \in Outcome(q) : m.ok
  PROVE  WorkerInv'
<1>1. WorkerTyped'
  BY DEF WorkerInv, WorkerTyped, WorkerShape, DestOf
<1>2. PagesCarried'
  BY PagesStand
<1>3. ExecutedIsVerified'
  <2>1. ASSUME NEW q \in DOMAIN acts', acts'[q].st = "succeeded", q[2] = "executor_execute",
               DestOf(q[1]) \in Roles
        PROVE  q[1] \in verified
    <3>1. CASE q \in DOMAIN acts /\ acts[q].st = "succeeded"
      BY <2>1, <3>1 DEF WorkerInv, ExecutedIsVerified
    <3>2. CASE \E m \in Outcome(q) : m.ok
      <4>1. PICK m \in Range(wmined[DestOf(q[1])]) : m.ok /\ m.p = q[1] /\ m.s = q[2]
        BY <3>2 DEF Outcome
      <4> QED BY <2>1, <4>1 DEF WorkerInv, ExecutedIsVerified
    <3> QED BY <2>1, <3>1, <3>2
  <2>2. \A q : DestOf(q[1])' = DestOf(q[1])
    BY DEF DestOf
  <2> QED BY <2>1, <2>2 DEF WorkerInv, ExecutedIsVerified
<1> QED BY <1>1, <1>2, <1>3 DEF WorkerInv

(* The worker turns to a batch, passes over an action, errs, dies, starts. *)
LEMMA WorkerTurns ==
  ASSUME NonceInv, WorkerInv,
         BeginProcess \/ SkipSucceeded \/ WorkerFault \/ CrashWorker \/ RestartWorker
  PROVE  WorkerInv'
<1>1. UNCHANGED <<route, mined, verified, cursor, packets, wmined, acts>>
  BY DEF BeginProcess, SkipSucceeded, WorkerFault, CrashWorker, RestartWorker, runnerVars, chainVars,
     wchainVars
<1>2. route \in Batches /\ Budget[route] \in Nat /\ spent \in 0..Budget[route]
  BY NativeConstants DEF NonceInv, RunnerTyped, WorkerInv, WorkerTyped
<1>3. spent' \in 0..Budget[route]
  BY <1>2 DEF BeginProcess, SkipSucceeded, WorkerFault, CrashWorker, RestartWorker, Budgeted
<1>4. WorkerShape(wk)
  BY DEF WorkerInv, WorkerTyped, WorkerShape
<1>5. WorkerShape(wk') /\ wk'.page \in {wk.page, <<>>}
  <2>1. CASE BeginProcess
    <3>1. PICK todo : wk' = [wk EXCEPT !.pc = "submit", !.ready = ReadyPackets, !.todo = todo]
      BY <2>1, Zenon DEF BeginProcess
    <3> QED BY <1>4, <3>1 DEF WorkerShape
  <2>2. CASE SkipSucceeded
    BY <1>4, <2>2 DEF SkipSucceeded, WorkerShape
  <2>3. CASE WorkerFault \/ CrashWorker \/ RestartWorker
    BY <2>3 DEF WorkerFault, CrashWorker, RestartWorker, Idle, WorkerShape
  <2> QED BY <2>1, <2>2, <2>3
<1> QED BY <1>1, <1>3, <1>5, WorkerActs DEF WorkerInv, WorkerTyped

(* The state of an action is written. *)
LEMMA ActWritten ==
  ASSUME WorkerInv, NEW q, NEW st, acts' = [acts EXCEPT ![q].st = st],
         st \in {"signed", "submitted", "failed", "succeeded"}
  PROVE  /\ acts' = [x \in DOMAIN acts' |-> [st |-> acts'[x].st, n |-> acts'[x].n]]
         /\ DOMAIN acts' = DOMAIN acts
         /\ \A x \in DOMAIN acts : acts'[x].st = IF x = q THEN st ELSE acts[x].st
<1>1. acts = [x \in DOMAIN acts |-> [st |-> acts[x].st, n |-> acts[x].n]]
  BY DEF WorkerInv, WorkerTyped
<1>2. \A x \in DOMAIN acts : acts[x] = [st |-> acts[x].st, n |-> acts[x].n]
  BY <1>1
<1>3. acts' = [x \in DOMAIN acts |-> IF x = q THEN [acts[q] EXCEPT !.st = st] ELSE acts[x]]
  BY <1>1
<1>4. DOMAIN acts' = DOMAIN acts
  BY <1>3
<1>5. ASSUME NEW x \in DOMAIN acts
      PROVE  /\ acts'[x] = [st |-> acts'[x].st, n |-> acts'[x].n]
             /\ acts'[x].st = IF x = q THEN st ELSE acts[x].st
  <2>1. CASE x = q
    <3>1. acts'[x] = [acts[x] EXCEPT !.st = st]
      BY <1>3, <2>1
    <3>2. acts'[x] = [st |-> st, n |-> acts[x].n]
      BY <1>2, <3>1
    <3> QED BY <2>1, <3>2
  <2>2. CASE x # q
    BY <1>2, <1>3, <2>2
  <2> QED BY <2>1, <2>2
<1>6. acts' = [x \in DOMAIN acts' |-> acts'[x]]
  BY <1>3
<1>7. [x \in DOMAIN acts' |-> acts'[x]] = [x \in DOMAIN acts' |-> [st |-> acts'[x].st, n |-> acts'[x].n]]
  BY <1>4, <1>5
<1> QED BY <1>4, <1>5, <1>6, <1>7, Zenon

(* An action is intended, signed, sent. *)
LEMMA WorkerSubmits ==
  ASSUME NonceInv, WorkerInv, IntendAction \/ RecordSignedAction \/ SendAction
  PROVE  WorkerInv'
<1>1. UNCHANGED <<route, mined, verified, cursor, packets, wmined, spent>>
  BY DEF IntendAction, RecordSignedAction, SendAction, runnerVars, chainVars, wchainVars
<1>2. WorkerShape(wk) /\ spent \in 0..Budget[route]
  BY DEF WorkerInv, WorkerTyped, WorkerShape
<1> DEFINE q == Head(wk.todo)
<1>3. CASE IntendAction
  <2>1. PICK n : acts' = [x \in DOMAIN acts \union {q} |->
                            IF x = q THEN [st |-> "intended", n |-> n] ELSE acts[x]]
    BY <1>3, Zenon DEF IntendAction
  <2>2. wk' = wk /\ q \notin DOMAIN acts
    BY <1>3 DEF IntendAction, Submitting, State, WorkerInv, WorkerTyped
  <2> HIDE DEF q
  <2>3. /\ DOMAIN acts' = DOMAIN acts \cup {q} /\ acts'[q] = [st |-> "intended", n |-> n]
        /\ \A x \in DOMAIN acts : acts'[x] = acts[x]
        /\ acts' = [x \in DOMAIN acts' |-> acts'[x]]
    BY <2>1, <2>2
  <2>4. /\ \A x \in DOMAIN acts : acts[x] = [st |-> acts[x].st, n |-> acts[x].n]
        /\ \A x \in DOMAIN acts :
             acts[x].st \in {"intended", "signed", "submitted", "failed", "succeeded"}
    BY DEF WorkerInv, WorkerTyped
  <2>5. ASSUME NEW x \in DOMAIN acts'
        PROVE  /\ acts'[x] = [st |-> acts'[x].st, n |-> acts'[x].n]
               /\ acts'[x].st \in {"intended", "signed", "submitted", "failed", "succeeded"}
               /\ acts'[x].st = "succeeded" => x \in DOMAIN acts /\ acts[x].st = "succeeded"
    BY <2>3, <2>4
  <2>6. acts' = [x \in DOMAIN acts' |-> [st |-> acts'[x].st, n |-> acts'[x].n]]
    BY <2>3, <2>5
  <2> QED BY <1>1, <1>2, <2>2, <2>5, <2>6, WorkerActs
<1>4. CASE RecordSignedAction
  <2>1. acts' = [acts EXCEPT ![q].st = "signed"] /\ wk' = wk
    BY <1>4 DEF RecordSignedAction
  <2> HIDE DEF q
  <2>2. /\ acts' = [x \in DOMAIN acts' |-> [st |-> acts'[x].st, n |-> acts'[x].n]]
        /\ DOMAIN acts' = DOMAIN acts
        /\ \A x \in DOMAIN acts : acts'[x].st = IF x = q THEN "signed" ELSE acts[x].st
    BY <2>1, ActWritten
  <2>3. \A x \in DOMAIN acts' :
           /\ acts'[x].st \in {"intended", "signed", "submitted", "failed", "succeeded"}
           /\ acts'[x].st = "succeeded" => x \in DOMAIN acts /\ acts[x].st = "succeeded"
    BY <2>2 DEF WorkerInv, WorkerTyped
  <2> QED BY <1>1, <1>2, <2>1, <2>2, <2>3, WorkerActs
<1>5. CASE SendAction
  <2>1. acts' = [acts EXCEPT ![q].st = "submitted"]
        /\ wk' = [wk EXCEPT !.todo = Tail(@), !.pend = Append(@, q)]
    BY <1>5 DEF SendAction
  <2> HIDE DEF q
  <2>2. /\ acts' = [x \in DOMAIN acts' |-> [st |-> acts'[x].st, n |-> acts'[x].n]]
        /\ DOMAIN acts' = DOMAIN acts
        /\ \A x \in DOMAIN acts : acts'[x].st = IF x = q THEN "submitted" ELSE acts[x].st
    BY <2>1, ActWritten
  <2>3. \A x \in DOMAIN acts' :
           /\ acts'[x].st \in {"intended", "signed", "submitted", "failed", "succeeded"}
           /\ acts'[x].st = "succeeded" => x \in DOMAIN acts /\ acts[x].st = "succeeded"
    BY <2>2 DEF WorkerInv, WorkerTyped
  <2>4. WorkerShape(wk') /\ wk'.page = wk.page
    BY <1>2, <2>1 DEF WorkerShape
  <2> QED BY <1>1, <1>2, <2>2, <2>3, <2>4, WorkerActs
<1> QED BY <1>3, <1>4, <1>5

(* The receipt decides the action. *)
LEMMA WorkerFinalizes ==
  ASSUME NonceInv, WorkerInv, FinalizeStage
  PROVE  WorkerInv'
<1> DEFINE q == Head(wk.pend)
<1>1. UNCHANGED <<route, mined, verified, cursor, packets, wmined, spent>>
  BY DEF FinalizeStage, runnerVars, chainVars, wchainVars
<1>2. WorkerShape(wk) /\ spent \in 0..Budget[route]
  BY DEF WorkerInv, WorkerTyped, WorkerShape
<1>3. PICK m \in Outcome(q) :
          /\ acts' = [acts EXCEPT ![q].st = IF m.ok THEN "succeeded" ELSE "failed"]
          /\ wk' = IF m.ok THEN [wk EXCEPT !.pend = Tail(@)] ELSE [Idle EXCEPT !.pc = "down"]
  BY DEF FinalizeStage
<1> HIDE DEF q
<1>4. PICK st : st = IF m.ok THEN "succeeded" ELSE "failed"
  OBVIOUS
<1>5. st \in {"signed", "submitted", "failed", "succeeded"} /\ (st = "succeeded" => m.ok)
  BY <1>4
<1>6. /\ acts' = [x \in DOMAIN acts' |-> [st |-> acts'[x].st, n |-> acts'[x].n]]
      /\ DOMAIN acts' = DOMAIN acts
      /\ \A x \in DOMAIN acts : acts'[x].st = IF x = q THEN st ELSE acts[x].st
  <2>1. acts' = [acts EXCEPT ![q].st = st]
    BY <1>3, <1>4
  <2> QED BY <1>5, <2>1, ActWritten
<1>7. \A x \in DOMAIN acts' :
         /\ acts'[x].st \in {"intended", "signed", "submitted", "failed", "succeeded"}
         /\ acts'[x].st = "succeeded" =>
              (x \in DOMAIN acts /\ acts[x].st = "succeeded") \/ \E b \in Outcome(x) : b.ok
  BY <1>3, <1>5, <1>6 DEF WorkerInv, WorkerTyped
<1>8. WorkerShape(wk') /\ wk'.page \in {wk.page, <<>>}
  BY <1>2, <1>3 DEF WorkerShape, Idle
<1> QED BY <1>1, <1>2, <1>6, <1>7, <1>8, WorkerActs

(* The packets of a page enter the table. *)
LEMMA WorkerObserves ==
  ASSUME NonceInv, WorkerInv, NEW r \in Roles, ObservePackets(r)
  PROVE  WorkerInv'
<1> DEFINE L == Len(mined[r])
           New == PacketsUpTo(r, L)
<1>1. /\ UNCHANGED <<route, mined, verified, cursor, acts, wmined, spent>>
      /\ packets' = [p \in DOMAIN packets \cup New |->
                       IF p \in DOMAIN packets THEN packets[p] ELSE "observed"]
      /\ wk' = [wk EXCEPT !.page = <<r, L>>]
  BY DEF ObservePackets, runnerVars, chainVars, wchainVars
<1>2. RunnerTyped /\ mined[r] \in Seq(Blocks) /\ L \in Nat /\ cursor[r] \in Nat /\ cursor[r] <= L
  BY DEF NonceInv, RunnerTyped, StoresTyped, WorkerInv, WorkerTyped
<1> DEFINE c == cursor[r]
           page == SubSeq(mined[r], c + 1, L)
<1>3. Range(page) = {mined[r][i] : i \in (c + 1)..L}
  <2>1. page \in Seq(Blocks) /\ Len(page) = L - c /\ \A i \in 1..(L - c) : page[i] = mined[r][i + c]
    BY <1>2
  <2>2. Range(page) = {page[i] : i \in 1..(L - c)}
    <3>1. DOMAIN page = 1..(L - c)
      BY <1>2, <2>1
    <3> QED BY <3>1 DEF Range
  <2> HIDE DEF page, L, c
  <2>3. ASSUME NEW i \in 1..(L - c) PROVE page[i] \in {mined[r][j] : j \in (c + 1)..L}
    <3>1. i + c \in (c + 1)..L
      BY <1>2 DEF c
    <3> QED BY <2>1, <3>1
  <2>4. ASSUME NEW j \in (c + 1)..L PROVE mined[r][j] \in Range(page)
    <3>1. j - c \in 1..(L - c) /\ (j - c) + c = j
      BY <1>2 DEF c
    <3> QED BY <2>1, <2>2, <3>1
  <2> QED BY <2>2, <2>3, <2>4
<1> DEFINE Emitted(m) == m.op = "dispatch" /\ m.ok /\ route[m.a][Plan(m.a)[m.k].hop] = "L"
           Name(m) == <<m.a, Plan(m.a)[m.k].hop, m.n>>
<1>4. New = {Name(m) : m \in {x \in Range(page) : Emitted(x)}}
  BY Zenon DEF PacketsUpTo
<1>5. ASSUME NEW p \in New PROVE DestOf(p) \in Roles
  <2> HIDE DEF New, page
  <2>1. PICK i \in (c + 1)..L : p = Name(mined[r][i]) /\ Emitted(mined[r][i])
    BY <1>3, <1>4
  <2>2. i \in 1..L
    BY <1>2
  <2> DEFINE m == mined[r][i]
  <2>3. PICK t \in sent[r] : t.a = m.a /\ t.k = m.k /\ t.op = m.op
    BY <2>2 DEF NonceInv, MinedWasSent
  <2>4. t.a \in Batch /\ t.k \in 1..Len(Plan(t.a)) /\ t.op = Plan(t.a)[t.k].op
    BY DEF NonceInv, SentIsRecorded, RunnerTyped, StoresTyped, Sends
  <2>5. m.a \in Batch /\ m.k \in 1..Len(Plan(m.a)) /\ Plan(m.a)[m.k].op = "dispatch"
    BY <2>1, <2>3, <2>4
  <2>6. Plan(m.a)[m.k].hop \in 1..Len(route[m.a])
    <3> HIDE DEF m
    <3> QED BY <1>2, <2>5, PlanLayout
  <2>7. route[m.a] \in Routes
    BY <1>2, <2>5 DEF Routes, Range, RunnerTyped, Batch
  <2>8. p[2] = Plan(m.a)[m.k].hop
    BY <2>1
  <2> HIDE DEF m
  <2> QED BY <2>6, <2>7, <2>8, RoutesTyped DEF DestOf
<1> HIDE DEF New
<1>6. /\ DOMAIN packets' = DOMAIN packets \cup New /\ DOMAIN packets \subseteq DOMAIN packets'
      /\ \A p \in DOMAIN packets : packets'[p] = packets[p]
      /\ \A p \in DOMAIN packets' : p \notin DOMAIN packets => packets'[p] = "observed"
      /\ packets' = [p \in DOMAIN packets' |-> packets'[p]]
  BY <1>1
<1>7. wk'.page = <<r, L>> /\ wk'.pc = wk.pc
      /\ wk' = [pc |-> wk'.pc, page |-> wk'.page, todo |-> wk'.todo, pend |-> wk'.pend,
                ready |-> wk'.ready]
  BY <1>1 DEF WorkerInv, WorkerTyped
<1>8. WorkerTyped'
  <2>1. packets' \in [DOMAIN packets' -> {"observed", "delivered"}]
    BY <1>6 DEF WorkerInv, WorkerTyped
  <2>2. \A p \in DOMAIN packets' : DestOf(p)' \in Roles
    BY <1>5, <1>6 DEF WorkerInv, WorkerTyped, DestOf
  <2> QED BY <1>1, <1>7, <2>1, <2>2 DEF WorkerInv, WorkerTyped
<1>9. ASSUME NEW i \in 1..L PROVE Carried(r, i)'
  <2>1. CASE i \in 1..c
    BY <1>1, <1>6, <2>1, CarriedKeeps DEF WorkerInv, PagesCarried
  <2>2. CASE i \notin 1..c
    <3>1. i \in (c + 1)..L
      BY <1>2, <2>2
    <3>2. Emitted(mined[r][i]) => Name(mined[r][i]) \in DOMAIN packets'
      BY <1>3, <1>4, <1>6, <3>1
    <3>3. \A b : Plan(b)' = Plan(b)
      BY <1>1, RouteKeeps
    <3> QED BY <1>1, <3>2, <3>3 DEF Carried
  <2> QED BY <2>1, <2>2
<1>10. PagesCarried'
  <2>1. ASSUME NEW q \in Roles, NEW i \in 1..cursor[q] PROVE Carried(q, i)'
    <3>1. i \in 1..Len(mined[q])
      BY DEF NonceInv, RunnerTyped, StoresTyped, WorkerInv, WorkerTyped
    <3> QED BY <1>1, <1>6, <3>1, CarriedKeeps DEF WorkerInv, PagesCarried
  <2>2. \A i \in 1..L : Carried(wk.page[1], i)'
    <3>1. wk'.page[1] = r
      BY <1>7
    <3> QED BY <1>9, <3>1
  <2>3. wk'.page[1] = r /\ wk'.page[2] = L
    BY <1>7
  <2> QED BY <1>1, <1>2, <2>1, <2>2, <2>3 DEF PagesCarried
<1>11. ExecutedIsVerified'
  BY <1>1, <1>6 DEF WorkerInv, ExecutedIsVerified, DestOf
<1> QED BY <1>8, <1>10, <1>11 DEF WorkerInv

(* The cursor passes the page. *)
LEMMA WorkerAdvances ==
  ASSUME NonceInv, WorkerInv, AdvanceCursor
  PROVE  WorkerInv'
<1>1. PICK r, n : wk.page[1] = r /\ wk.page[2] = n
  OBVIOUS
<1>2. /\ UNCHANGED <<route, mined, verified, packets, acts, wmined, spent>> /\ wk.page # <<>>
      /\ cursor' = [cursor EXCEPT ![r] = n] /\ wk' = [wk EXCEPT !.page = <<>>]
  BY <1>1 DEF AdvanceCursor, runnerVars, chainVars, wchainVars
<1>3. r \in Roles /\ n \in 0..Len(mined[r]) /\ \A i \in 1..n : Carried(r, i)
  BY <1>1, <1>2 DEF WorkerInv, PagesCarried
<1>4. \A q \in Roles : mined[q] \in Seq(Blocks) /\ Len(mined[q]) \in Nat
  BY DEF NonceInv, RunnerTyped, StoresTyped
<1>5. /\ cursor' \in [Roles -> Nat] /\ cursor'[r] = n
      /\ \A q \in Roles : q # r => cursor'[q] = cursor[q]
  BY <1>2, <1>3, <1>4 DEF WorkerInv, WorkerTyped
<1>6. wk'.page = <<>> /\ WorkerShape(wk')
  BY <1>2 DEF WorkerInv, WorkerTyped, WorkerShape
<1>7. ASSUME NEW q \in Roles PROVE cursor'[q] <= Len(mined[q])
  <2>1. cursor[q] <= Len(mined[q])
    BY DEF WorkerInv, WorkerTyped
  <2>2. CASE q = r
    BY <1>3, <1>4, <1>5, <2>2
  <2>3. CASE q # r
    BY <1>5, <2>1, <2>3
  <2> QED BY <2>2, <2>3
<1>8. WorkerTyped'
  BY <1>2, <1>5, <1>6, <1>7 DEF WorkerInv, WorkerTyped, WorkerShape, DestOf
<1>9. ASSUME NEW q \in Roles, NEW i \in 1..cursor'[q] PROVE Carried(q, i)'
  <2>1. Carried(q, i)
    BY <1>3, <1>5 DEF WorkerInv, PagesCarried
  <2>2. i \in 1..Len(mined[q])
    BY <1>4, <1>5, <1>7
  <2> QED BY <1>2, <2>1, <2>2, CarriedKeeps
<1>10. PagesCarried'
  BY <1>6, <1>9 DEF PagesCarried
<1>11. ExecutedIsVerified'
  BY <1>2 DEF WorkerInv, ExecutedIsVerified, DestOf
<1> QED BY <1>8, <1>10, <1>11 DEF WorkerInv

(* A packet is delivered once its last action succeeded. *)
LEMMA WorkerMarks ==
  ASSUME NonceInv, WorkerInv, MarkDelivered
  PROVE  WorkerInv'
<1>1. /\ UNCHANGED <<route, mined, verified, cursor, acts, wmined, spent>> /\ wk' = Idle
      /\ packets' = [p \in DOMAIN packets |->
            IF p \in wk.ready /\ \A s \in Range(Stages) : State(<<p, s>>) = "succeeded"
            THEN "delivered" ELSE packets[p]]
  BY DEF MarkDelivered, runnerVars, chainVars, wchainVars
<1>2. DOMAIN packets' = DOMAIN packets
  BY <1>1
<1>3. ASSUME NEW p \in DOMAIN packets
      PROVE  /\ packets'[p] \in {"observed", "delivered"}
             /\ packets'[p] = "delivered" => p \in verified
  <2>1. CASE packets'[p] = packets[p]
    BY <2>1 DEF WorkerInv, WorkerTyped, ExecutedIsVerified
  <2>2. CASE packets'[p] # packets[p]
    <3>1. packets'[p] = "delivered" /\ \A s \in Range(Stages) : State(<<p, s>>) = "succeeded"
      BY <1>1, <2>2
    <3>2. "executor_execute" \in Range(Stages)
      <4>1. 3 \in DOMAIN Stages /\ Stages[3] = "executor_execute"
        BY DEF Stages
      <4> QED BY <4>1 DEF Range
    <3> DEFINE q == <<p, "executor_execute">>
    <3>3. State(q) = "succeeded" /\ q[1] = p /\ q[2] = "executor_execute"
      BY <3>1, <3>2
    <3> HIDE DEF q
    <3>4. q \in DOMAIN acts /\ acts[q].st = "succeeded"
      BY <3>3 DEF State
    <3>5. DestOf(q[1]) \in Roles
      BY <3>3 DEF WorkerInv, WorkerTyped
    <3>6. p \in verified
      BY <3>3, <3>4, <3>5 DEF WorkerInv, ExecutedIsVerified
    <3> QED BY <3>1, <3>6
  <2> QED BY <2>1, <2>2
<1>4. wk'.page = <<>> /\ WorkerShape(wk')
  BY <1>1 DEF Idle, WorkerShape
<1>5. packets' \in [DOMAIN packets' -> {"observed", "delivered"}]
  BY <1>1, <1>2, <1>3
<1>6. WorkerTyped'
  BY <1>1, <1>2, <1>4, <1>5 DEF WorkerInv, WorkerTyped, WorkerShape, DestOf
<1>7. PagesCarried'
  BY <1>1, <1>2, <1>4, PagesStand
<1>8. ExecutedIsVerified'
  BY <1>1, <1>2, <1>3 DEF WorkerInv, ExecutedIsVerified, DestOf
<1> QED BY <1>6, <1>7, <1>8 DEF WorkerInv

(* The chain executes an action of the worker; the adapter answers for the *)
(* packet whose last one is executed.                                      *)
LEMMA WorkerMined ==
  ASSUME NonceInv, WorkerInv, NEW r \in Roles, MineWorker(r)
  PROVE  WorkerInv'
<1>1. PICK t \in wsent[r], expired \in BOOLEAN, ok \in BOOLEAN :
         /\ expired => Budgeted
         /\ spent' = IF expired THEN spent + 1 ELSE spent
         /\ wmined' = [wmined EXCEPT ![r] = Append(@,
                [p |-> t.p, s |-> t.s, n |-> t.n, ok |-> ok])]
         /\ verified' = IF ok /\ t.s = "executor_execute" THEN verified \cup {t.p} ELSE verified
  BY DEF MineWorker
<1>2. UNCHANGED <<route, mined, wk, cursor, packets, acts>>
  BY DEF MineWorker, runnerVars, chainVars, workerVars
<1>3. spent' \in 0..Budget[route]
  <2>1. route \in Batches /\ Budget[route] \in Nat /\ spent \in 0..Budget[route]
    BY NativeConstants DEF NonceInv, RunnerTyped, WorkerInv, WorkerTyped
  <2> QED BY <1>1, <2>1 DEF Budgeted
<1>4. PICK m : m = [p |-> t.p, s |-> t.s, n |-> t.n, ok |-> ok]
  OBVIOUS
<1>5. m.p = t.p /\ m.s = t.s /\ m.ok = ok
  BY <1>4
<1>6. wmined = [q \in Roles |-> wmined[q]] /\ wmined' = [wmined EXCEPT ![r] = Append(@, m)]
  BY <1>1, <1>4 DEF WorkerInv, WorkerTyped
<1>7. /\ wmined'[r] = Append(wmined[r], m) /\ \A q \in Roles : q # r => wmined'[q] = wmined[q]
      /\ wmined' = [q \in Roles |-> wmined'[q]]
  BY <1>6
<1>8. /\ Range(Append(wmined[r], m)) = Range(wmined[r]) \cup {m}
      /\ Append(wmined[r], m) \in Seq(Range(wmined[r]) \cup {m})
  <2>1. wmined[r] \in Seq(Range(wmined[r]))
    BY DEF WorkerInv, WorkerTyped
  <2>2. PICK s : s = wmined[r]
    OBVIOUS
  <2>3. s \in Seq(Range(s))
    BY <2>1, <2>2
  <2>4. Range(Append(s, m)) = Range(s) \cup {m} /\ Append(s, m) \in Seq(Range(s) \cup {m})
    BY <2>3, RangeGrows
  <2> QED BY <2>2, <2>4
<1>9. /\ Range(wmined'[r]) = Range(wmined[r]) \cup {m}
      /\ \A q \in Roles : wmined'[q] \in Seq(Range(wmined'[q]))
  <2>1. Range(wmined'[r]) = Range(wmined[r]) \cup {m} /\ wmined'[r] \in Seq(Range(wmined'[r]))
    BY <1>7, <1>8, Zenon
  <2>2. ASSUME NEW q \in Roles PROVE wmined'[q] \in Seq(Range(wmined'[q]))
    <3>1. CASE q = r
      BY <2>1, <3>1
    <3>2. CASE q # r
      <4>1. wmined'[q] = wmined[q]
        BY <1>7, <3>2
      <4>2. wmined[q] \in Seq(Range(wmined[q]))
        BY DEF WorkerInv, WorkerTyped
      <4> QED BY <4>1, <4>2, Zenon
    <3> QED BY <3>1, <3>2
  <2> QED BY <2>1, <2>2
<1>10. verified \subseteq verified' /\ (m.ok /\ m.s = "executor_execute" => m.p \in verified')
  BY <1>1, <1>5
<1>11. WorkerTyped'
  BY <1>2, <1>3, <1>7, <1>9 DEF WorkerInv, WorkerTyped, DestOf
<1>12. PagesCarried'
  BY <1>2, PagesStand
<1>13. ASSUME NEW q \in Roles, NEW x \in Range(wmined'[q]), x.ok, x.s = "executor_execute"
       PROVE  x.p \in verified'
  <2>1. CASE x \in Range(wmined[q])
    BY <1>10, <1>13, <2>1 DEF WorkerInv, ExecutedIsVerified
  <2>2. CASE x \notin Range(wmined[q])
    <3>1. q = r
      BY <1>7, <1>13, <2>2
    <3>2. x = m
      BY <1>9, <1>13, <2>2, <3>1
    <3> QED BY <1>10, <1>13, <3>2
  <2> QED BY <2>1, <2>2
<1>14. ExecutedIsVerified'
  BY <1>2, <1>10, <1>13 DEF WorkerInv, ExecutedIsVerified, DestOf
<1> QED BY <1>11, <1>12, <1>14 DEF WorkerInv

(* Every step keeps what is known of the worker. *)
LEMMA WorkerKept ==
  ASSUME NonceInv, WorkerInv, [NativeNext]_nativeVars
  PROVE  WorkerInv'
<1>0. /\ route \in Batches /\ Budget[route] \in Nat /\ spent \in 0..Budget[route] /\ RunnerTyped
      /\ \A r \in Roles : Len(mined[r]) \in Nat
  BY NativeConstants DEF NonceInv, RunnerTyped, StoresTyped, WorkerInv, WorkerTyped
<1>1. ASSUME UNCHANGED <<route, mined, workerVars, wchainVars>>, verified \subseteq verified',
             spent' = spent \/ (Budgeted /\ spent' = spent + 1)
      PROVE  WorkerInv'
  <2>1. spent' \in 0..Budget[route]
    BY <1>0, <1>1 DEF Budgeted
  <2>2. \A r \in Roles : Len(mined[r]) <= Len(mined'[r])
    BY <1>0, <1>1
  <2> QED BY <1>0, <1>1, <2>1, <2>2, WorkerStands DEF workerVars, wchainVars
<1>2. CASE \E a \in Batch : Thread(a)
  <2>1. UNCHANGED <<route, mined, workerVars, wchainVars, verified, spent>>
    BY <1>2 DEF Thread, Begin, EnterSucceeded, ResumeDurable, LookupPrior, Resend, ReserveRoot,
         ReserveNonce, BuildTransaction, RecordSigned, SendRaw, AwaitReceipt, RecordEvidence,
         WaitBundle, Finish, chainVars
  <2> QED BY <1>1, <2>1
<1>3. CASE (\E a \in Batch : TransientError(a) \/ WaitTimeout(a)) \/ CrashRunner
  <2>1. UNCHANGED <<route, mined, workerVars, wchainVars, verified>>
        /\ Budgeted /\ spent' = spent + 1
    BY <1>3 DEF TransientError, WaitTimeout, CrashRunner, chainVars
  <2> QED BY <1>1, <2>1
<1>4. CASE ExitRaised \/ RestartRunner \/ UNCHANGED nativeVars
  <2>1. UNCHANGED <<route, mined, workerVars, wchainVars, verified, spent>>
    BY <1>4 DEF ExitRaised, RestartRunner, chainVars, nativeVars, workerVars, wchainVars
  <2> QED BY <1>1, <2>1
<1>5. CASE \E r \in Roles : Mine(r)
  <2>1. PICK r \in Roles : \E m : mined' = [mined EXCEPT ![r] = Append(@, m)]
    BY <1>5 DEF Mine
  <2>2. /\ UNCHANGED <<route, workerVars, wchainVars, verified>>
        /\ spent' = spent \/ (Budgeted /\ spent' = spent + 1)
    BY <1>5 DEF Mine, runnerVars
  <2>3. spent' \in 0..Budget[route]
    BY <1>0, <2>2 DEF Budgeted
  <2> QED BY <1>0, <2>1, <2>2, <2>3, MinedGrows, WorkerStands DEF workerVars, wchainVars
<1>6. CASE \E r \in Roles : Relay(r)
  <2>1. UNCHANGED <<route, mined, workerVars, wchainVars, spent>> /\ verified \subseteq verified'
    BY <1>6 DEF Relay, runnerVars, chainVars
  <2> QED BY <1>1, <2>1
<1>7. CASE \E r \in Roles : MineWorker(r)
  BY <1>7, WorkerMined
<1>8. CASE Worker \/ WorkerFault \/ CrashWorker
  BY <1>8, WorkerObserves, WorkerAdvances, WorkerTurns, WorkerSubmits, WorkerFinalizes, WorkerMarks
  DEF Worker
<1> QED BY <1>2, <1>3, <1>4, <1>5, <1>6, <1>7, <1>8, Zenon DEF NativeNext, Progress, Disturbance, Chain

(* The worker begins with nothing. *)
LEMMA WorkerInit ==
  ASSUME NativeInit, NonceInv
  PROVE  WorkerInv
<1>1. /\ wk = Idle /\ cursor = [r \in Roles |-> 0] /\ packets = <<>> /\ acts = <<>>
      /\ wmined = [r \in Roles |-> <<>>] /\ spent = 0 /\ mined = [r \in Roles |-> <<>>]
  BY Zenon DEF NativeInit
<1>2. DOMAIN packets = {} /\ DOMAIN acts = {}
  BY <1>1
<1>3. Budget[route] \in Nat
  BY NativeConstants DEF NonceInv, RunnerTyped
<1>4. WorkerTyped
  <2>1. packets \in [DOMAIN packets -> {"observed", "delivered"}]
        /\ acts = [q \in DOMAIN acts |-> [st |-> acts[q].st, n |-> acts[q].n]]
    BY <1>1
  <2>2. ASSUME NEW r \in Roles
        PROVE  /\ wmined[r] \in Seq(Range(wmined[r])) /\ cursor[r] = 0 /\ Len(mined[r]) = 0
    BY <1>1
  <2>3. wmined = [r \in Roles |-> wmined[r]] /\ cursor \in [Roles -> Nat]
    BY <1>1
  <2>4. /\ wk = [pc |-> wk.pc, page |-> wk.page, todo |-> wk.todo, pend |-> wk.pend,
                 ready |-> wk.ready]
        /\ wk.pc \in {"collect", "submit", "down"}
    BY <1>1 DEF Idle
  <2> QED BY <1>1, <1>2, <1>3, <2>1, <2>2, <2>3, <2>4 DEF WorkerTyped
<1>5. PagesCarried
  BY <1>1 DEF PagesCarried, Idle
<1>6. ExecutedIsVerified
  <2>1. \A r \in Roles : Range(wmined[r]) = {}
    BY <1>1 DEF Range
  <2> QED BY <1>2, <2>1 DEF ExecutedIsVerified
<1> QED BY <1>4, <1>5, <1>6 DEF WorkerInv
-----------------------------------------------------------------------------
(* What the two databases say of a delivery.                               *)

LEMMA InvariantsGiveDelivery ==
  ASSUME NonceInv, AttemptInv, WorkerInv
  PROVE  DeliveryHolds
<1>1. RunnerTyped
  BY DEF NonceInv
<1>2. NativeTypeOK
  <2>1. ASSUME NEW a \in Batch
        PROVE  /\ thr[a].pc \in {"queued", "running", "raised", "done"}
               /\ thr[a].k \in 1..Len(Plan(a)) /\ thr[a].mode \in Modes
               /\ thr[a].n \in Count /\ thr[a].g \in Count /\ thr[a].retried \in BOOLEAN
    BY <1>1, ThreadFacts DEF ThreadRecs
  <2>2. ASSUME NEW a \in Batch, NEW k \in 1..Len(Plan(a))
        PROVE  rows[a][k].st \in States /\ rows[a][k].n \in Count /\ rows[a][k].ev \in BOOLEAN
    <3>1. rows[a][k] \in RowRecs
      BY <1>1 DEF RunnerTyped, StoresTyped
    <3> QED BY <3>1 DEF RowRecs
  <2>3. \A a \in Batch : status[a] \in {"none", "running", "succeeded"} /\ effects[a] \in Nat
    BY DEF AttemptInv, FinishedRests
  <2>4. \A r \in Roles : nonces[r] \in Nat /\ cursor[r] \in 0..Len(mined[r])
    <3>1. ASSUME NEW r \in Roles
          PROVE  nonces[r] \in Nat /\ Len(mined[r]) \in Nat /\ cursor[r] \in Nat /\ cursor[r] <= Len(mined[r])
      BY <1>1 DEF RunnerTyped, StoresTyped, WorkerInv, WorkerTyped
    <3> QED BY <3>1
  <2>5. /\ wk.pc \in {"collect", "submit", "down"} /\ spent \in 0..Budget[route]
        /\ \A p \in DOMAIN packets : packets[p] \in {"observed", "delivered"}
        /\ \A q \in DOMAIN acts :
             acts[q].st \in {"intended", "signed", "submitted", "failed", "succeeded"}
    BY DEF WorkerInv, WorkerTyped
  <2>6. kind \in Kinds /\ route \in Batches /\ up \in BOOLEAN /\ xnext \in Count
    BY <1>1 DEF RunnerTyped, StoresTyped
  <2> QED BY <2>1, <2>2, <2>3, <2>4, <2>5, <2>6 DEF NativeTypeOK, Modes, States, Count
<1>3. FinishedIsDelivered
  <2>1. ASSUME NEW a \in Batch, status[a] = "succeeded", NEW k \in 1..Len(Plan(a))
        PROVE  IF Plan(a)[k].op = "wait" THEN Evidence(a, Plan(a)[k].hop) \in verified
               ELSE \E m \in Range(mined[Plan(a)[k].role]) :
                       m.ok /\ m.a = a /\ m.k = k /\ m.n = rows[a][k].n
    <3>1. Reached(a, k)
      BY <2>1 DEF AttemptInv, FinishedRests
    <3>2. CASE Plan(a)[k].op = "wait"
      BY <3>1, <3>2 DEF Reached
    <3>3. CASE Plan(a)[k].op # "wait"
      <4>1. rows[a][k].st = "succeeded"
        BY <3>1, <3>3 DEF Reached
      <4>2. \E m \in Range(mined[Plan(a)[k].role]) : m.ok /\ m.a = a /\ m.k = k /\ m.n = rows[a][k].n
        BY <4>1 DEF AttemptInv, SucceededIsMined
      <4> QED BY <3>3, <4>2
    <3> QED BY <3>2, <3>3
  <2>2. \A a \in Batch : status[a] = "succeeded" => effects[a] = 1
    BY DEF AttemptInv, FinishedRests
  <2> QED BY <2>1, <2>2 DEF FinishedIsDelivered
<1>4. PacketNotSkipped
  BY DEF WorkerInv, PagesCarried, Carried, PacketNotSkipped
<1>5. DeliveredIsVerified
  BY DEF WorkerInv, ExecutedIsVerified, DeliveredIsVerified
<1> QED BY <1>2, <1>3, <1>4, <1>5 DEF DeliveryHolds

(* What a runner calls finished took effect exactly once, by transactions  *)
(* of its own that succeeded and evidence that the adapters answer for;    *)
(* the worker's cursor passes no packet it did not record, and what it     *)
(* calls delivered is verified.  Neither database is ever ahead of a chain.*)
THEOREM NativeDelivery == NativeSpec => []DeliveryHolds
<1>1. NativeInit => NonceInv /\ AttemptInv /\ WorkerInv
  BY InitHolds, AttemptInit, WorkerInit
<1>2. NonceInv /\ AttemptInv /\ WorkerInv /\ [NativeNext]_nativeVars => AttemptInv' /\ WorkerInv'
  BY AttemptStep, WorkerKept
<1>3. NonceInv /\ AttemptInv /\ WorkerInv => DeliveryHolds
  BY InvariantsGiveDelivery
<1>4. NativeInit => AttemptInv /\ WorkerInv
  BY <1>1
<1> QED BY <1>2, <1>3, <1>4, NativeInvariant, PTL DEF NativeSpec
=============================================================================
