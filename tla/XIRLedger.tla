----------------------------- MODULE XIRLedger -----------------------------
(***************************************************************************)
(* The Go runtime's durable execution path: the runner's attempt loop      *)
(* (go-runtime/internal/runner/runner.go), the transactor that drives one  *)
(* transaction from intent to receipt (internal/evm/transactor.go), the    *)
(* SQLite action ledger (internal/state/state.go) and the node it talks    *)
(* to.                                                                     *)
(*                                                                         *)
(* The process runs the configured attempts in order, and the stages of an *)
(* attempt in order; a stage is one durable action.  Everything in "proc"  *)
(* and "nonceNext" is lost when the process stops; the ledger, the spool   *)
(* and the receipt files survive.  A step ends at every durable write and  *)
(* at every answer of the node, so that the process can die between any    *)
(* two of them.                                                            *)
(*                                                                         *)
(* A signed transaction is what its bytes determine: the action it was     *)
(* signed for, the account nonce and the price (fee cap and paid value)    *)
(* of its intent.                                                          *)
(***************************************************************************)
EXTENDS Integers, Sequences, FiniteSets

CONSTANTS
    Attempts,       \* the configured attempts are 1..Attempts, run in order
    Stages,         \* every attempt has the stages 1..Stages; stage 1 creates the root
    Accounts,       \* the (chain, signing key) pairs, one transactor each
    AccountOf,      \* the account that signs each stage
    Prices,         \* what the node may answer when asked for a price
    MayRevert,      \* the stages whose transaction can revert on chain
    FaultPoints,    \* the calls of the node that may fail (and "drop": the pool may lose a transaction)
    MaxFaults,      \* bound on failed calls
    MaxCrashes      \* bound on process deaths

Actions == (1..Attempts) \X (1..Stages)

Points == {"stage", "reserve", "freeze", "check", "send", "await", "verify", "drop"}

ASSUME LedgerConstants ==
    /\ Attempts \in Nat /\ Stages \in Nat \ {0}
    /\ AccountOf \in [1..Stages -> Accounts]
    /\ Prices # {}
    /\ MayRevert \subseteq 1..Stages
    /\ FaultPoints \subseteq Points
    /\ MaxFaults \in Nat /\ MaxCrashes \in Nat

Account(a) == AccountOf[a[2]]

(* A signed transaction; no transaction yet. *)
Tx == [action : Actions, nonce : Nat, price : Prices]
NoTx == [action |-> <<0, 0>>]

(* A row of the actions table; "absent" stands for no row. *)
States == {"absent", "intended", "signed", "submitted", "succeeded", "failed"}
Row == [state : States, nonce : Nat, price : Prices, record : Nat, raw : Tx \cup {NoTx}]

NoRow == [state |-> "absent", nonce |-> 0, price |-> CHOOSE p \in Prices : TRUE,
          record |-> 0, raw |-> NoTx]

Unseeded == -1

VARIABLES
    ledger,     \* durable: the action rows
    attempt,    \* durable: the status of each attempt row
    completed,  \* durable: the attempts with a "completed" event
    spool,      \* durable: the raw signed transactions on disk
    receipts,   \* durable: the transactions whose receipt document is on disk
    nonceNext,  \* volatile: each transactor's next account nonce
    proc,       \* volatile: where the process is and what it holds in memory
    price,      \* the node's current price
    pool,       \* the transactions the node holds and has not mined
    mined,      \* the mined transactions, with their receipt status
    chainNonce, \* the next nonce each account has on its chain
    records,    \* the root records the gateway created, in nonce order
    faults, crashes

durable == <<ledger, attempt, completed, spool, receipts>>
node == <<price, pool, mined, chainNonce, records>>
vars == <<ledger, attempt, completed, spool, receipts, nonceNext, proc,
          price, pool, mined, chainNonce, records, faults, crashes>>

PCs == {"stopped", "begin", "stage", "reserve", "freeze", "sign", "record", "check",
        "send", "submitted", "await", "receipt", "close", "verify", "finish", "complete"}

Process == [pc : PCs, cur : Nat, stage : 1..Stages, nonce : Nat, record : Nat,
            tx : Tx \cup {NoTx}]

Stopped == [pc |-> "stopped", cur |-> 1, stage |-> 1, nonce |-> 0, record |-> 0, tx |-> NoTx]

Init ==
    /\ ledger = [a \in Actions |-> NoRow]
    /\ attempt = [t \in 1..Attempts |-> "absent"]
    /\ completed = {} /\ spool = {} /\ receipts = {}
    /\ nonceNext = [c \in Accounts |-> Unseeded]
    /\ proc = Stopped
    /\ price \in Prices
    /\ pool = {} /\ mined = {}
    /\ chainNonce = [c \in Accounts |-> 0]
    /\ records = <<>>
    /\ faults = 0 /\ crashes = 0

-----------------------------------------------------------------------------
(* What the process reads. *)

Current == <<proc.cur, proc.stage>>

Stored(a) == ledger[a].state # "absent"

MinedTx == {m.tx : m \in mined}

Goto(pc) == [proc EXCEPT !.pc = pc]

(* The attempt loop records the error of a failed attempt and goes on with *)
(* the next one.                                                           *)
NextAttempt == [proc EXCEPT !.pc = "begin", !.cur = proc.cur + 1]

(* MaxActionNonce: some row of the account has this nonce. *)
AccountNonces(c) == {ledger[a].nonce : a \in {b \in Actions : Stored(b) /\ Account(b) = c}}

(* eth_getTransactionCount(pending): the chain's nonce advanced over the   *)
(* pool's executable transactions.                                         *)
MaxNonce == Attempts * Stages + MaxFaults

PoolNonces(c) == {t.nonce : t \in {u \in pool : Account(u.action) = c}}

IsPending(c, n) ==
    /\ n >= chainNonce[c]
    /\ n \notin PoolNonces(c)
    /\ chainNonce[c]..(n - 1) \subseteq PoolNonces(c)

(* NextReservedRootNonce counts the intents of every root creation, signed *)
(* or not; rootNonce takes the larger of it and the gateway's nextNonce.   *)
ReservedRecords_Succeeded ==
    {ledger[a].record + 1 : a \in {b \in Actions : ledger[b].state = "succeeded" /\ b[2] = 1}}

ReservedRecords == {ledger[a].record + 1 : a \in {b \in Actions : Stored(b) /\ b[2] = 1}}

IsRootNonce(n) ==
    LET candidates == {Len(records)} \cup ReservedRecords
    IN  n \in candidates /\ \A m \in candidates : n >= m

-----------------------------------------------------------------------------
(* The attempt loop. *)

(* New and Run: a fresh process has no nonce counters and starts with the  *)
(* first configured attempt.                                               *)
StartRun ==
    /\ proc.pc = "stopped"
    /\ proc' = [Stopped EXCEPT !.pc = "begin"]
    /\ nonceNext' = [c \in Accounts |-> Unseeded]
    /\ UNCHANGED <<durable, node, faults, crashes>>

(* BeginAttempt: an attempt that already succeeded is not executed again.  *)
BeginAttempt ==
    /\ proc.pc = "begin" /\ proc.cur <= Attempts
    /\ IF attempt[proc.cur] = "succeeded"
       THEN proc' = NextAttempt /\ UNCHANGED attempt
       ELSE /\ attempt' = [attempt EXCEPT ![proc.cur] = "running"]
            /\ proc' = [proc EXCEPT !.pc = "stage", !.stage = 1]
    /\ UNCHANGED <<ledger, completed, spool, receipts, nonceNext, node, faults, crashes>>

EndRun ==
    /\ proc.pc = "begin" /\ proc.cur > Attempts
    /\ proc' = Stopped
    /\ UNCHANGED <<durable, nonceNext, node, faults, crashes>>

(* dispatchFee: a stored action is requested again with the amount it      *)
(* froze, a fresh one is quoted.                                           *)
dispatchFee_Requoted(a) == price

dispatchFee(a) == IF Stored(a) THEN ledger[a].price ELSE price

(* frozenRequest refuses a request that differs from the stored intent.    *)
Drifted(a) == dispatchFee(a) # ledger[a].price

(* Execute looks the action up.  A fresh root creation first fixes its     *)
(* record nonce; a drifted request and a failed action end the attempt; a  *)
(* succeeded action is only re-read, and needs its receipt document;       *)
(* otherwise the frozen intent is resumed, with its recorded bytes if it   *)
(* has any.                                                                *)
LoadFresh ==
    /\ proc.pc = "stage" /\ ~Stored(Current)
    /\ \E n \in 0..MaxNonce :
          /\ IF proc.stage = 1 THEN IsRootNonce(n) ELSE n = 0
          /\ proc' = [proc EXCEPT !.pc = "reserve", !.record = n]
    /\ UNCHANGED <<durable, nonceNext, node, faults, crashes>>

LoadRefused ==
    /\ proc.pc = "stage" /\ Stored(Current)
    /\ \/ Drifted(Current)
       \/ ledger[Current].state = "failed"
       \/ ledger[Current].state = "succeeded" /\ ledger[Current].raw \notin receipts
    /\ proc' = NextAttempt
    /\ UNCHANGED <<durable, nonceNext, node, faults, crashes>>

LoadSucceeded ==
    /\ proc.pc = "stage" /\ ~Drifted(Current)
    /\ ledger[Current].state = "succeeded" /\ ledger[Current].raw \in receipts
    /\ proc' = Goto("verify")
    /\ UNCHANGED <<durable, nonceNext, node, faults, crashes>>

LoadPending ==
    /\ proc.pc = "stage" /\ ~Drifted(Current)
    /\ ledger[Current].state \in {"intended", "signed", "submitted"}
    /\ proc' = IF ledger[Current].raw = NoTx
               THEN Goto("sign")
               ELSE [proc EXCEPT !.pc = "check", !.tx = ledger[Current].raw]
    /\ UNCHANGED <<durable, nonceNext, node, faults, crashes>>

-----------------------------------------------------------------------------
(* The transactor. *)

(* The first reservation of a process seeds the counter above the chain's  *)
(* pending nonce and above every nonce the ledger holds for the account.   *)
IsSeed_PendingOnly(c, n) == n = CHOOSE m \in 0..MaxNonce : IsPending(c, m)

IsSeed(c, n) ==
    LET floor == {m + 1 : m \in AccountNonces(c)}
    IN  \E pending \in 0..MaxNonce :
           /\ IsPending(c, pending)
           /\ n \in {pending} \cup floor
           /\ \A m \in {pending} \cup floor : n >= m

reserveNonce ==
    LET c == Account(Current)
    IN  /\ proc.pc = "reserve"
        /\ \E n \in 0..MaxNonce :
              /\ IF nonceNext[c] = Unseeded THEN IsSeed(c, n) ELSE n = nonceNext[c]
              /\ nonceNext' = [nonceNext EXCEPT ![c] = n + 1]
              /\ proc' = [proc EXCEPT !.pc = "freeze", !.nonce = n]
        /\ UNCHANGED <<durable, node, faults, crashes>>

(* Intend refuses a nonce that the unique index finds held by another      *)
(* action that has not failed.                                             *)
NonceHeld(c, n) ==
    \E b \in Actions : /\ Stored(b) /\ ledger[b].state # "failed"
                       /\ Account(b) = c /\ ledger[b].nonce = n

(* Otherwise the intent is committed with the price of this moment. *)
freezeIntent ==
    /\ proc.pc = "freeze"
    /\ IF NonceHeld(Account(Current), proc.nonce)
       THEN proc' = NextAttempt /\ UNCHANGED ledger
       ELSE /\ ledger' = [ledger EXCEPT ![Current] =
                             [state |-> "intended", nonce |-> proc.nonce, price |-> price,
                              record |-> proc.record, raw |-> NoTx]]
            /\ proc' = Goto("sign")
    /\ UNCHANGED <<attempt, completed, spool, receipts, nonceNext, node, faults, crashes>>

(* Signing is deterministic in the frozen intent. *)
Signed(a) == [action |-> a, nonce |-> ledger[a].nonce, price |-> ledger[a].price]

(* ensureSigned spools the bytes first and records them in the ledger      *)
(* after.                                                                  *)
SpoolSigned_Unrecorded ==
    /\ proc.pc = "sign"
    /\ spool' = spool \cup {Signed(Current)}
    /\ proc' = [proc EXCEPT !.pc = "check", !.tx = Signed(Current)]
    /\ UNCHANGED <<ledger, attempt, completed, receipts, nonceNext, node, faults, crashes>>

SpoolSigned ==
    /\ proc.pc = "sign"
    /\ spool' = spool \cup {Signed(Current)}
    /\ proc' = [proc EXCEPT !.pc = "record", !.tx = Signed(Current)]
    /\ UNCHANGED <<ledger, attempt, completed, receipts, nonceNext, node, faults, crashes>>

(* checkTransition: no regression, and a finished action keeps its state.  *)
Rank(state) == CASE state = "intended" -> 0 [] state = "signed" -> 1 [] state = "submitted" -> 2
                 [] state = "succeeded" -> 3 [] OTHER -> 4

MayBecome(from, to) ==
    \/ from = to
    \/ from \notin {"succeeded", "failed"} /\ (to = "failed" \/ Rank(to) >= Rank(from))

(* Observe and Succeed write the new state and go on, or refuse it. *)
Observe(state, next) ==
    IF MayBecome(ledger[Current].state, state)
    THEN ledger' = [ledger EXCEPT ![Current].state = state] /\ proc' = next
    ELSE UNCHANGED ledger /\ proc' = NextAttempt

RecordSigned ==
    /\ proc.pc = "record"
    /\ IF MayBecome(ledger[Current].state, "signed")
       THEN /\ ledger' = [ledger EXCEPT ![Current].state = "signed", ![Current].raw = proc.tx]
            /\ proc' = Goto("check")
       ELSE UNCHANGED ledger /\ proc' = NextAttempt
    /\ UNCHANGED <<attempt, completed, spool, receipts, nonceNext, node, faults, crashes>>

(* validateSignedBytes: the bytes in hand are those of the intent. *)
ValidSigned(a, tx) == tx.action = a /\ tx.nonce = ledger[a].nonce

(* A receipt that already exists is adopted without another broadcast.     *)
CheckReceipt ==
    /\ proc.pc = "check"
    /\ IF ~ValidSigned(Current, proc.tx) THEN UNCHANGED ledger /\ proc' = NextAttempt
       ELSE IF proc.tx \in MinedTx THEN Observe("submitted", Goto("receipt"))
       ELSE UNCHANGED ledger /\ proc' = Goto("send")
    /\ UNCHANGED <<attempt, completed, spool, receipts, nonceNext, node, faults, crashes>>

(* The node ignores a transaction it holds or has mined, and one whose     *)
(* nonce is spent; broadcast takes "already known" and "nonce too low" for *)
(* a submission.                                                           *)
PoolWith(tx) ==
    IF tx \in MinedTx \/ tx.nonce < chainNonce[Account(tx.action)] THEN pool ELSE pool \cup {tx}

broadcast ==
    /\ proc.pc = "send"
    /\ pool' = PoolWith(proc.tx)
    /\ proc' = Goto("submitted")
    /\ UNCHANGED <<durable, nonceNext, price, mined, chainNonce, records, faults, crashes>>

ObserveSubmitted ==
    /\ proc.pc = "submitted"
    /\ Observe("submitted", Goto("await"))
    /\ UNCHANGED <<attempt, completed, spool, receipts, nonceNext, node, faults, crashes>>

(* WaitMined returns the receipt or gives up at its timeout. *)
awaitReceipt ==
    /\ proc.pc = "await"
    /\ proc' = IF proc.tx \in MinedTx THEN Goto("receipt") ELSE NextAttempt
    /\ UNCHANGED <<durable, nonceNext, node, faults, crashes>>

spoolReceipt ==
    /\ proc.pc = "receipt"
    /\ receipts' = receipts \cup {proc.tx}
    /\ proc' = Goto("close")
    /\ UNCHANGED <<ledger, attempt, completed, spool, nonceNext, node, faults, crashes>>

(* Succeed, or Observe(failed) for a reverted transaction. *)
CloseAction_IgnoreStatus ==
    /\ proc.pc = "close"
    /\ Observe("succeeded", Goto("verify"))
    /\ UNCHANGED <<attempt, completed, spool, receipts, nonceNext, node, faults, crashes>>

CloseAction ==
    /\ proc.pc = "close"
    /\ \E m \in mined :
          /\ m.tx = proc.tx
          /\ IF m.ok THEN Observe("succeeded", Goto("verify"))
                     ELSE Observe("failed", NextAttempt)
    /\ UNCHANGED <<attempt, completed, spool, receipts, nonceNext, node, faults, crashes>>

-----------------------------------------------------------------------------
(* verifyRootCreation accepts the root only if the gateway gave it the     *)
(* reserved record nonce; the other stages only wait for the carrier.      *)
RootMatches(a) ==
    /\ ledger[a].record + 1 \in DOMAIN records
    /\ records[ledger[a].record + 1] = a

VerifyStage ==
    /\ proc.pc = "verify"
    /\ proc' = IF proc.stage = 1 /\ ~RootMatches(Current) THEN NextAttempt
               ELSE IF proc.stage < Stages
                    THEN [proc EXCEPT !.pc = "stage", !.stage = proc.stage + 1]
                    ELSE Goto("finish")
    /\ UNCHANGED <<durable, nonceNext, node, faults, crashes>>

FinishAttempt ==
    /\ proc.pc = "finish"
    /\ attempt' = [attempt EXCEPT ![proc.cur] = "succeeded"]
    /\ proc' = Goto("complete")
    /\ UNCHANGED <<ledger, completed, spool, receipts, nonceNext, node, faults, crashes>>

RecordCompleted ==
    /\ proc.pc = "complete"
    /\ completed' = completed \cup {proc.cur}
    /\ proc' = NextAttempt
    /\ UNCHANGED <<ledger, attempt, spool, receipts, nonceNext, node, faults, crashes>>

-----------------------------------------------------------------------------
(* Failures and the node. *)

(* A call of the node fails and the attempt is abandoned until the next    *)
(* run.  A stored action is resumed without asking the node for a nonce or *)
(* a quote.  A broadcast whose answer is lost may have reached the node.   *)
RpcFailure ==
    /\ proc.pc \in FaultPoints /\ faults < MaxFaults
    /\ proc.pc = "stage" => ~Stored(Current)
    /\ faults' = faults + 1
    /\ proc' = NextAttempt
    /\ pool' \in IF proc.pc = "send" THEN {pool, PoolWith(proc.tx)} ELSE {pool}
    /\ UNCHANGED <<durable, nonceNext, price, mined, chainNonce, records, crashes>>

Crash ==
    /\ proc.pc # "stopped" /\ crashes < MaxCrashes
    /\ crashes' = crashes + 1
    /\ proc' = Stopped
    /\ UNCHANGED <<durable, nonceNext, node, faults>>

(* A transaction is executable at its account's next nonce.  The gateway's *)
(* record nonce advances only when the creation did not revert.            *)
Mine(tx) ==
    LET c == Account(tx.action)
    IN  /\ tx \in pool /\ tx.nonce = chainNonce[c]
        /\ \E ok \in {TRUE} \cup (IF tx.action[2] \in MayRevert THEN {FALSE} ELSE {}) :
              /\ mined' = mined \cup {[tx |-> tx, ok |-> ok]}
              /\ records' = IF ok /\ tx.action[2] = 1 THEN Append(records, tx.action) ELSE records
        /\ pool' = pool \ {tx}
        /\ chainNonce' = [chainNonce EXCEPT ![c] = @ + 1]
        /\ UNCHANGED <<durable, nonceNext, proc, price, faults, crashes>>

(* A restarted node forgets its pool's transaction. *)
Drop(tx) ==
    /\ "drop" \in FaultPoints /\ faults < MaxFaults
    /\ tx \in pool
    /\ pool' = pool \ {tx}
    /\ faults' = faults + 1
    /\ UNCHANGED <<durable, nonceNext, proc, price, mined, chainNonce, records, crashes>>

Reprice ==
    /\ price' \in Prices \ {price}
    /\ UNCHANGED <<durable, nonceNext, proc, pool, mined, chainNonce, records, faults, crashes>>

ProcessStep ==
    \/ BeginAttempt \/ EndRun
    \/ LoadFresh \/ LoadRefused \/ LoadSucceeded \/ LoadPending
    \/ reserveNonce \/ freezeIntent \/ SpoolSigned \/ RecordSigned
    \/ CheckReceipt \/ broadcast \/ ObserveSubmitted \/ awaitReceipt
    \/ spoolReceipt \/ CloseAction
    \/ VerifyStage \/ FinishAttempt \/ RecordCompleted

Next ==
    \/ StartRun \/ ProcessStep \/ RpcFailure \/ Crash
    \/ \E tx \in pool : Mine(tx) \/ Drop(tx)
    \/ Reprice

Spec == Init /\ [][Next]_vars

-----------------------------------------------------------------------------
(* Properties. *)

TypeOK ==
    /\ ledger \in [Actions -> Row]
    /\ attempt \in [1..Attempts -> {"absent", "running", "succeeded"}]
    /\ completed \subseteq 1..Attempts
    /\ spool \subseteq Tx /\ receipts \subseteq Tx
    /\ nonceNext \in [Accounts -> Nat \cup {Unseeded}]
    /\ proc \in Process
    /\ price \in Prices
    /\ pool \subseteq Tx
    /\ mined \subseteq [tx : Tx, ok : BOOLEAN]
    /\ chainNonce \in [Accounts -> Nat]
    /\ records \in Seq(Actions)
    /\ faults \in 0..MaxFaults /\ crashes \in 0..MaxCrashes

(* Durability before broadcast: whatever the node ever held of the         *)
(* runtime's, the ledger holds the same bytes and the spool has them       *)
(* (Execute's "the raw transaction is committed and spooled before         *)
(* broadcasting").                                                         *)
BroadcastIsDurable ==
    \A tx \in pool \cup MinedTx : ledger[tx.action].raw = tx /\ tx \in spool

(* An action is only ever signed one way, whatever the prices and however  *)
(* often the process died between spooling and recording: the spool never  *)
(* holds two different byte strings for one action.                        *)
SignedOnce ==
    \A t, u \in spool : t.action = u.action => t = u

(* No nonce of an account is spent by two actions, and none the ledger     *)
(* holds is handed out again, although a restarted process rebuilds its    *)
(* counters (reserveNonce; the unique index never has to refuse).          *)
NonceSpentOnce ==
    /\ \A a, b \in Actions :
           Stored(a) /\ Stored(b) /\ Account(a) = Account(b) /\ ledger[a].nonce = ledger[b].nonce
               => a = b
    /\ proc.pc = "freeze" => proc.nonce \notin AccountNonces(Account(Current))

(* The ledger never reports an outcome the chain does not have: a          *)
(* succeeded action has a successful receipt, on disk too, and a failed    *)
(* one a reverted receipt.                                                 *)
OutcomeIsOnChain ==
    \A a \in Actions : ledger[a].state \in {"succeeded", "failed"} =>
        /\ [tx |-> ledger[a].raw, ok |-> ledger[a].state = "succeeded"] \in mined
        /\ ledger[a].raw \in receipts

(* An attempt is reported succeeded only when all of its actions are.      *)
SucceededAttemptIsComplete ==
    \A t \in 1..Attempts : attempt[t] = "succeeded" =>
        \A s \in 1..Stages : ledger[<<t, s>>].state = "succeeded"

(* What the ledger says in the end: of an action and of an attempt.        *)
OutcomesHold == OutcomeIsOnChain /\ SucceededAttemptIsComplete

(* The record nonce a root intent reserved is the nonce the gateway gives  *)
(* it, as long as root creations do not revert: reservations made before a *)
(* crash or while an earlier root is stuck still count                     *)
(* (NextReservedRootNonce, rootNonce, verifyRootCreation).                 *)
RootNonceAgrees ==
    \A i \in DOMAIN records : ledger[records[i]].record = i - 1

(* Every attempt ends: it succeeds, or one of its transactions reverted.   *)
Settled(t) ==
    \/ attempt[t] = "succeeded"
    \/ \E s \in 1..Stages : ledger[<<t, s>>].state = "failed"

AttemptsSettle == \A t \in 1..Attempts : <>Settled(t)

(* A nonce below one the ledger holds belongs to no action: it was handed  *)
(* out and its intent was never stored (transactor.go freezeIntent).       *)
NonceGap ==
    \E a \in Actions : Stored(a) /\
        \E n \in chainNonce[Account(a)]..(ledger[a].nonce - 1) : n \notin AccountNonces(Account(a))
=============================================================================
