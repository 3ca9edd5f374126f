------------------------------ MODULE XIRNative ------------------------------
(***************************************************************************)
(* The native campaigns: a runner that drives every attempt through the    *)
(* root record, the hops and the delivery (native/multihop_runner.py and   *)
(* its predecessor native/runner.py), the finality-gated root signer       *)
(* (native/root_signer.py), and the LayerZero worker that carries the      *)
(* packets (native/layerzero_worker.py).                                   *)
(*                                                                         *)
(* Runner and worker are processes of their own, each with a database that *)
(* survives a crash and counters that do not.  They meet on the chains     *)
(* only: the runner's account is mined in nonce order on every chain, the  *)
(* gateway numbers the records in the order in which it meets them, and a  *)
(* nonce that nobody signs blocks every later one.                         *)
(*                                                                         *)
(* Left out: what a record, a receipt or an envelope says (XIRTransport),  *)
(* fees, block numbers, log files and the events table.  The Hyperlane     *)
(* relayer and the chains are external.                                    *)
(***************************************************************************)
EXTENDS Integers, Sequences, FiniteSets, SequencesExt

CONSTANTS
    Batches,        \* the batches: the route, a sequence of "H" and "L", of
                    \* each attempt in it
    Kinds,          \* the runners: "native" (runner.py), "multihop"
    Concurrency,    \* max_workers of the thread pool
    MayRevert,      \* operations whose transaction the chain may revert
    Budget          \* [Batches -> the deaths of a process, RPC errors, timeouts,
                    \* reverts and expired instructions a behaviour may have]

VARIABLES
    kind,           \* which runner this is
    route,          \* [the batch -> the carriers of its hops]
    up,             \* the runner process lives
    thr,            \* [attempt -> the thread of the attempt]
    nonces,         \* [chain -> next transaction nonce], memory
    xnext,          \* xir_nonce_next: next gateway nonce, memory; -1 is None
    rows,           \* [attempt -> [step -> row of table stages]]
    status,         \* [attempt -> row of table attempts]
    sent,           \* [chain -> the runner's transactions the node took]
    mined,          \* [chain -> the runner's transactions in mined order]
    verified,       \* evidence an adapter answers for
    effects,        \* [attempt -> effects at the receiver]
    wk,             \* the worker process
    cursor,         \* [chain -> source blocks collected], durable
    packets,        \* [packets of the table -> status], durable
    acts,           \* [<<packet, stage>> of the table -> [st, n]], durable
    wsent, wmined,  \* [chain -> the worker's transactions], as for the runner
    spent           \* of the budget

runnerVars == <<kind, route, up, thr, nonces, xnext>>
dbVars == <<rows, status>>
chainVars == <<sent, mined, effects>>
workerVars == <<wk, cursor, packets, acts>>
wchainVars == <<wsent, wmined>>
nativeVars == <<kind, route, up, thr, nonces, xnext, rows, status, sent, mined, verified,
          effects, wk, cursor, packets, acts, wsent, wmined, spent>>

---------------------------------------------------------------------------
(* The steps of an attempt. *)

Max2(x, y) == IF x > y THEN x ELSE y
SupOr(S, d) == IF S = {} THEN d ELSE CHOOSE x \in S : \A y \in S : y <= x

Routes == UNION {Range(b) : b \in Batches}
ChainCount == 1 + SupOr({Len(r) : r \in Routes}, 0)
Roles == 1..ChainCount

ASSUME NativeConstants ==
    /\ Batches \subseteq Seq(Seq({"H", "L"})) /\ IsFiniteSet(Routes)
    /\ Kinds \subseteq {"native", "multihop"}
    /\ Concurrency \in Nat \ {0}
    /\ MayRevert \subseteq {"root", "dispatch", "record", "deliver"}
    /\ Budget \in [Batches -> Nat]

Step(op, hop, role) == [op |-> op, hop |-> hop, role |-> role]

(* One hop: dispatch at its source, wait at its destination, and before    *)
(* the route changes carrier record the transition there.                  *)
HopSteps(r, i) ==
    <<Step("dispatch", i, i), Step("wait", i, i + 1)>>
    \o (IF i < Len(r) /\ r[i] # r[i + 1]
        THEN <<Step("record", i + 1, i + 1)>> ELSE <<>>)

PlanOf ==
    [r \in Routes |->
        <<Step("root", 0, 1)>>
        \o FlattenSeq([i \in 1..Len(r) |-> HopSteps(r, i)])
        \o <<Step("deliver", Len(r), Len(r) + 1)>>]

Steps == UNION {DOMAIN PlanOf[r] : r \in Routes}
Batch == DOMAIN route
Plan(a) == PlanOf[route[a]]
At(a) == Plan(a)[thr[a].k]
Carrier(a) == route[a][At(a).hop]
Row(a) == rows[a][thr[a].k]

NoRow == [st |-> "none", n |-> -1, g |-> -1, ev |-> FALSE]
Queued == [pc |-> "queued", k |-> 1, mode |-> "enter", n |-> -1, g |-> -1,
           retried |-> FALSE]
Stages == <<"dvn_execute", "commit_verification", "executor_execute">>
Idle == [pc |-> "collect", page |-> <<>>, todo |-> <<>>, pend |-> <<>>,
         ready |-> {}]

NativeInit ==
    /\ kind \in Kinds
    /\ route \in Batches
    /\ up = TRUE
    /\ thr = [a \in Batch |-> Queued]
    /\ nonces = [r \in Roles |-> 0]
    /\ xnext = -1
    /\ rows = [a \in Batch |-> [i \in 1..Len(Plan(a)) |-> NoRow]]
    /\ status = [a \in Batch |-> "none"]
    /\ sent = [r \in Roles |-> {}]
    /\ mined = [r \in Roles |-> <<>>]
    /\ verified = {}
    /\ effects = [a \in Batch |-> 0]
    /\ wk = Idle
    /\ cursor = [r \in Roles |-> 0]
    /\ packets = <<>>
    /\ acts = <<>>
    /\ wsent = [r \in Roles |-> {}]
    /\ wmined = [r \in Roles |-> <<>>]
    /\ spent = 0

---------------------------------------------------------------------------
(* The chains (external). *)

Budgeted == spent < Budget[route]

(* eth_getTransactionCount(account, "pending"): the transactions the node  *)
(* holds count as long as they follow each other.                          *)
PendingCount(pool, chain) ==
    CHOOSE n \in Len(chain)..(Len(chain) + Cardinality(pool)) :
        /\ \A m \in Len(chain)..(n - 1) : \E t \in pool : t.n = m
        /\ ~\E t \in pool : t.n = n

(* XIRGateway.nextNonce of the runner's account. *)
GatewayNonce ==
    Cardinality({i \in 1..Len(mined[1]) :
                     mined[1][i].op = "root" /\ mined[1][i].ok})

(* A transaction reaches the node; a nonce already mined is refused as     *)
(* "nonce too low", the same bytes as "already known".                     *)
Accept(pool, chain, t) == IF t.n < Len(chain) THEN pool ELSE pool \union {t}

(* What the adapter at the destination of a hop must answer for: the       *)
(* bundle itself with Hyperlane, the GUID of the dispatch with LayerZero.  *)
DispatchStep(a, h) ==
    CHOOSE k \in 1..Len(Plan(a)) : Plan(a)[k].op = "dispatch" /\ Plan(a)[k].hop = h

Evidence(a, h) ==
    IF route[a][h] = "H" THEN <<a, h, "H">>
    ELSE <<a, h, rows[a][DispatchStep(a, h)].n>>

(* The evidence the adapter, recorder or gateway of a step asks for: that  *)
(* of every hop taken so far.                                              *)
Proven(t) ==
    LET s == Plan(t.a)[t.k]
    IN  \A h \in 1..(IF s.op = "deliver" THEN s.hop ELSE s.hop - 1) :
            Evidence(t.a, h) \in verified

(* A runner transaction executes.  The gateway consumes a message once;    *)
(* the others revert only where the deployment lets them.                  *)
Mine(r) ==
    \E t \in sent[r] :
        /\ t.n = Len(mined[r])
        /\ \E reverts \in BOOLEAN :
              LET consumed == t.op = "deliver" /\ effects[t.a] > 0
                  ok == ~reverts /\ ~consumed /\ Proven(t)
              IN
              /\ reverts => t.op \in MayRevert /\ Budgeted
              /\ spent' = IF reverts THEN spent + 1 ELSE spent
              /\ mined' = [mined EXCEPT ![r] = Append(@,
                     [a |-> t.a, k |-> t.k, op |-> t.op, n |-> t.n, g |-> t.g,
                      e |-> IF t.op = "root" THEN GatewayNonce ELSE -1,
                      ok |-> ok])]
              /\ effects' = IF ok /\ t.op = "deliver"
                            THEN [effects EXCEPT ![t.a] = @ + 1] ELSE effects
    /\ UNCHANGED <<runnerVars, dbVars, sent, verified, workerVars, wchainVars>>

(* The Hyperlane relayer proves a dispatched message at the destination.   *)
Relay(r) ==
    \E i \in 1..Len(mined[r]) :
        LET m == mined[r][i]
            h == Plan(m.a)[m.k].hop
        IN  /\ m.op = "dispatch" /\ m.ok
            /\ route[m.a][h] = "H"
            /\ <<m.a, h, "H">> \notin verified
            /\ verified' = verified \union {<<m.a, h, "H">>}
            /\ UNCHANGED <<runnerVars, dbVars, chainVars, workerVars,
                           wchainVars, spent>>

---------------------------------------------------------------------------
(* The runner: threads. *)

Runs(a, mode) == up /\ thr[a].pc = "running" /\ thr[a].mode = mode
OnTx(a) == At(a).op # "wait"

(* The thread goes on with the next step of its plan. *)
Proceed(a) ==
    thr' = [thr EXCEPT ![a].k = @ + 1, ![a].mode = "enter", ![a].n = -1,
                       ![a].g = -1]
GoTo(a, mode) == thr' = [thr EXCEPT ![a].mode = mode]
Raise(a) == thr' = [thr EXCEPT ![a].pc = "raised"]

Begin_OnlyNew(a) ==
    /\ up /\ thr[a].pc = "queued"
    /\ Cardinality({b \in Batch : thr[b].pc = "running"}) < Concurrency
    /\ IF status[a] # "none"
       THEN /\ thr' = [thr EXCEPT ![a].pc = "done"]
            /\ UNCHANGED status
       ELSE /\ thr' = [thr EXCEPT ![a].pc = "running"]
            /\ status' = [status EXCEPT ![a] = "running"]
    /\ UNCHANGED <<kind, route, up, nonces, xnext, rows, chainVars, verified,
                   workerVars, wchainVars, spent>>

(* _run_if_needed takes the attempt off the queue; a finished one is       *)
(* skipped.                                                                *)
Begin(a) ==
    /\ up /\ thr[a].pc = "queued"
    /\ Cardinality({b \in Batch : thr[b].pc = "running"}) < Concurrency
    /\ IF status[a] = "succeeded"
       THEN /\ thr' = [thr EXCEPT ![a].pc = "done"]
            /\ UNCHANGED status
       ELSE /\ thr' = [thr EXCEPT ![a].pc = "running"]
            /\ status' = [status EXCEPT ![a] = "running"]
    /\ UNCHANGED <<kind, route, up, nonces, xnext, rows, chainVars, verified,
                   workerVars, wchainVars, spent>>

(* FinalizedRootSigner.sign: the gateway's event must carry the record's   *)
(* nonce.  The native runner signs the record identifier itself.  The      *)
(* event is taken to be final; a wait for finality that fails raises like  *)
(* the wait for the receipt before it (WaitTimeout).                       *)
RootEvent(a) == CHOOSE m \in Range(mined[1]) : m.n = rows[a][1].n

SignRoot(a) ==
    IF kind = "multihop" /\ RootEvent(a).e # rows[a][1].g
    THEN Raise(a) ELSE Proceed(a)

(* A stage that already succeeded returns its recorded detail.  The root   *)
(* is signed again, the effect is read again; a multihop dispatch is       *)
(* returned only through the evidence its row carries.                     *)
EnterSucceeded(a) ==
    /\ Runs(a, "enter") /\ OnTx(a) /\ Row(a).st = "succeeded"
    /\ CASE At(a).op = "root" -> SignRoot(a)
         [] At(a).op = "deliver" -> GoTo(a, "effect")
         [] At(a).op = "record" -> Proceed(a)
         [] At(a).op = "dispatch" /\ Row(a).ev -> Proceed(a)
         [] At(a).op = "dispatch" /\ ~Row(a).ev /\ kind = "native" ->
                GoTo(a, "evidence")
         [] OTHER -> Raise(a)
    /\ UNCHANGED <<kind, route, up, nonces, xnext, dbVars, chainVars, verified,
                   workerVars, wchainVars, spent>>

TxOf(a) == [a |-> a, k |-> thr[a].k, op |-> At(a).op, n |-> Row(a).n,
            g |-> Row(a).g]

SendRow(a) ==
    sent' = [sent EXCEPT ![At(a).role] = Accept(@, mined[At(a).role], TxOf(a))]

ResumeDurable_Superseded(a) ==
    /\ kind = "multihop"
    /\ Runs(a, "enter") /\ OnTx(a)
    /\ Row(a).st \in {"signed", "failed"}
    /\ SendRow(a)
    /\ GoTo(a, IF Row(a).n < Len(mined[At(a).role]) THEN "fresh" ELSE "await_prior")
    /\ UNCHANGED <<kind, route, up, nonces, xnext, dbVars, mined, verified, effects,
                   workerVars, wchainVars, spent>>

(* multihop: a row with a transaction hash is always the one durable       *)
(* transaction of the stage; its bytes are sent again and waited for.      *)
ResumeDurable(a) ==
    /\ kind = "multihop"
    /\ Runs(a, "enter") /\ OnTx(a)
    /\ Row(a).st \in {"signed", "failed"}
    /\ SendRow(a)
    /\ GoTo(a, "await_prior")
    /\ UNCHANGED <<kind, route, up, nonces, xnext, dbVars, mined, verified, effects,
                   workerVars, wchainVars, spent>>

(* native: the receipt is looked up first.  Found, it decides the stage.   *)
Receipts(a) == {m \in Range(mined[At(a).role]) :
                    m.a = a /\ m.k = thr[a].k /\ m.n = Row(a).n}

LookupPrior(a) ==
    /\ kind = "native"
    /\ Runs(a, "enter") /\ OnTx(a)
    /\ Row(a).st \in {"signed", "failed", "superseded"}
    /\ GoTo(a, IF Receipts(a) # {} THEN "await_prior" ELSE "resend")
    /\ UNCHANGED <<kind, route, up, nonces, xnext, dbVars, chainVars, verified,
                   workerVars, wchainVars, spent>>

(* native: not found, so the bytes are sent again.  "nonce too low" while  *)
(* the latest count has passed the nonce reads as another transaction      *)
(* having used it: the row is superseded and a fresh one is made.          *)
Resend(a) ==
    /\ Runs(a, "resend")
    /\ IF Row(a).n < Len(mined[At(a).role])
       THEN /\ rows' = [rows EXCEPT ![a][thr[a].k].st = "superseded"]
            /\ GoTo(a, "fresh")
            /\ UNCHANGED sent
       ELSE SendRow(a) /\ GoTo(a, "await_prior") /\ UNCHANGED rows
    /\ UNCHANGED <<kind, route, up, nonces, xnext, status, mined, verified, effects,
                   workerVars, wchainVars, spent>>

Fresh(a) ==
    \/ Runs(a, "fresh")
    \/ /\ Runs(a, "enter") /\ OnTx(a)
       /\ Row(a).st \in IF kind = "native" THEN {"none", "intended"} ELSE {"none"}

(* next_reserved_root_nonce: above every record nonce a root row names. *)
DurableRootNonce == SupOr({rows[b][1].g : b \in Batch}, -1) + 1

(* _reserve_root_nonces: under one lock the next gateway nonce (on first   *)
(* use the larger of the gateway's and the database's) and the next        *)
(* transaction nonce of chain a.                                           *)
ReserveRoot(a) ==
    /\ Fresh(a) /\ At(a).op = "root" /\ Row(a).g = -1
    /\ LET g == IF xnext # -1 THEN xnext
                ELSE Max2(GatewayNonce, DurableRootNonce)
       IN  /\ xnext' = g + 1
           /\ thr' = [thr EXCEPT ![a].mode = "reserved", ![a].g = g,
                                 ![a].n = nonces[1]]
           /\ nonces' = [nonces EXCEPT ![1] = @ + 1]
    /\ UNCHANGED <<kind, route, up, dbVars, chainVars, verified, workerVars,
                   wchainVars, spent>>

(* Every other fresh transaction takes the next nonce of its chain; a root *)
(* whose row names a record nonce keeps it.                                *)
ReserveNonce(a) ==
    /\ Fresh(a) /\ (At(a).op = "root" => Row(a).g # -1)
    /\ LET r == At(a).role
       IN  /\ thr' = [thr EXCEPT ![a].mode = "reserved", ![a].g = Row(a).g,
                                 ![a].n = nonces[r]]
           /\ nonces' = [nonces EXCEPT ![r] = @ + 1]
    /\ UNCHANGED <<kind, route, up, xnext, dbVars, chainVars, verified, workerVars,
                   wchainVars, spent>>

(* multihop signs the transaction and stores intent, bytes and hash in one *)
(* database transaction (record_durable_signed_stage); native stores the   *)
(* intent first (record_stage).                                            *)
StoreFresh(a) ==
    rows' = [rows EXCEPT ![a][thr[a].k] =
                [st |-> IF kind = "multihop" THEN "signed" ELSE "intended",
                 n |-> thr[a].n, g |-> thr[a].g, ev |-> FALSE]]

(* The transaction is built with the nonce in hand. *)
BuildTransaction(a) ==
    /\ Runs(a, "reserved")
    /\ StoreFresh(a)
    /\ GoTo(a, IF kind = "multihop" THEN "send" ELSE "intended")
    /\ UNCHANGED <<kind, route, up, nonces, xnext, status, chainVars, verified,
                   workerVars, wchainVars, spent>>

(* native: the raw file, then the row that names its hash. *)
RecordSigned(a) ==
    /\ Runs(a, "intended")
    /\ rows' = [rows EXCEPT ![a][thr[a].k].st = "signed"]
    /\ GoTo(a, "send")
    /\ UNCHANGED <<kind, route, up, nonces, xnext, status, chainVars, verified,
                   workerVars, wchainVars, spent>>

SendRaw(a) ==
    /\ Runs(a, "send")
    /\ SendRow(a)
    /\ GoTo(a, "await")
    /\ UNCHANGED <<kind, route, up, nonces, xnext, dbVars, mined, verified, effects,
                   workerVars, wchainVars, spent>>

(* The Hyperlane evidence is known before the send and is part of the      *)
(* detail; the LayerZero GUID is read from the receipt and stored by a     *)
(* second write.                                                           *)
StoreSucceeded(a) ==
    rows' = [rows EXCEPT ![a][thr[a].k].st = "succeeded",
                         ![a][thr[a].k].ev =
                             At(a).op = "dispatch" /\ Carrier(a) = "H"]

AfterReceipt(a) ==
    CASE At(a).op = "root" -> SignRoot(a)
      [] At(a).op = "dispatch" -> GoTo(a, "evidence")
      [] At(a).op = "record" -> Proceed(a)
      [] At(a).op = "deliver" -> GoTo(a, "effect")

AwaitReceipt_AnyStatus(a) ==
    /\ up /\ thr[a].pc = "running" /\ thr[a].mode \in {"await", "await_prior"}
    /\ \E m \in Receipts(a) :
          IF TRUE
          THEN StoreSucceeded(a) /\ AfterReceipt(a)
          ELSE /\ rows' = IF thr[a].mode = "await"
                          THEN [rows EXCEPT ![a][thr[a].k].st = "failed"]
                          ELSE rows
               /\ Raise(a)
    /\ UNCHANGED <<kind, route, up, nonces, xnext, status, chainVars, verified,
                   workerVars, wchainVars, spent>>

(* The receipt.  A revert on the first send is recorded, one met on the    *)
(* resumed path is only raised.                                            *)
AwaitReceipt(a) ==
    /\ up /\ thr[a].pc = "running" /\ thr[a].mode \in {"await", "await_prior"}
    /\ \E m \in Receipts(a) :
          IF m.ok
          THEN StoreSucceeded(a) /\ AfterReceipt(a)
          ELSE /\ rows' = IF thr[a].mode = "await"
                          THEN [rows EXCEPT ![a][thr[a].k].st = "failed"]
                          ELSE rows
               /\ Raise(a)
    /\ UNCHANGED <<kind, route, up, nonces, xnext, status, chainVars, verified,
                   workerVars, wchainVars, spent>>

(* _dispatch_hop stores the evidence and the native message id. *)
RecordEvidence(a) ==
    /\ Runs(a, "evidence")
    /\ rows' = [rows EXCEPT ![a][thr[a].k].ev = TRUE]
    /\ Proceed(a)
    /\ UNCHANGED <<kind, route, up, nonces, xnext, status, chainVars, verified,
                   workerVars, wchainVars, spent>>

(* _wait_bundle: the adapter at the destination answers for the evidence.  *)
WaitBundle(a) ==
    /\ Runs(a, "enter") /\ At(a).op = "wait"
    /\ Evidence(a, At(a).hop) \in verified
    /\ Proceed(a)
    /\ UNCHANGED <<kind, route, up, nonces, xnext, dbVars, chainVars, verified,
                   workerVars, wchainVars, spent>>

(* The effect is read at the receiver and the attempt is finished. *)
Finish(a) ==
    /\ Runs(a, "effect")
    /\ IF effects[a] > 0
       THEN /\ status' = [status EXCEPT ![a] = "succeeded"]
            /\ thr' = [thr EXCEPT ![a].pc = "done"]
       ELSE Raise(a) /\ UNCHANGED status
    /\ UNCHANGED <<kind, route, up, nonces, xnext, rows, chainVars, verified,
                   workerVars, wchainVars, spent>>

(* A transient RPC error: _run_if_needed starts the attempt over; the      *)
(* nonces it held in memory are gone.  Past the deadline that the first    *)
(* error sets, the error is raised.                                        *)
TransientError(a) ==
    /\ up /\ thr[a].pc = "running" /\ Budgeted
    /\ thr[a].mode \in {"reserved", "send", "resend", "await", "await_prior",
                        "effect"} \/ At(a).op = "wait"
    /\ \/ thr' = [thr EXCEPT ![a] = [Queued EXCEPT !.pc = "running",
                                                   !.retried = TRUE]]
       \/ thr[a].retried /\ Raise(a)
    /\ spent' = spent + 1
    /\ UNCHANGED <<kind, route, up, nonces, xnext, dbVars, chainVars, verified,
                   workerVars, wchainVars>>

(* The wait for a receipt or for a bundle runs out, or the resource        *)
(* monitor's stop file appears.                                            *)
WaitTimeout(a) ==
    /\ up /\ thr[a].pc = "running" /\ Budgeted
    /\ thr[a].mode \in {"await", "await_prior"} \/ At(a).op = "wait"
    /\ Raise(a)
    /\ spent' = spent + 1
    /\ UNCHANGED <<kind, route, up, nonces, xnext, dbVars, chainVars, verified,
                   workerVars, wchainVars>>

(* The pool is drained, then the first raised error ends the process. *)
ExitRaised ==
    /\ up
    /\ \A a \in Batch : thr[a].pc \in {"done", "raised"}
    /\ \E a \in Batch : thr[a].pc = "raised"
    /\ up' = FALSE
    /\ UNCHANGED <<kind, route, thr, nonces, xnext, dbVars, chainVars, verified,
                   workerVars, wchainVars, spent>>

CrashRunner ==
    /\ up /\ Budgeted
    /\ up' = FALSE
    /\ spent' = spent + 1
    /\ UNCHANGED <<kind, route, thr, nonces, xnext, dbVars, chainVars, verified,
                   workerVars, wchainVars>>

(* The steps whose transaction is the runner's on a chain. *)
StepsOn(r) == {s \in Batch \X Steps : s[2] <= Len(Plan(s[1])) /\ Plan(s[1])[s[2]].role = r}
RowAt(s) == rows[s[1]][s[2]]

(* pending_signed_transactions: the nonces of the rows of a chain that are *)
(* signed and not settled.                                                 *)
PendingSigned(r) == {RowAt(s).n : s \in {x \in StepsOn(r) : RowAt(x).st = "signed"}}

(* NativeMultihopRunner.__init__: the next nonce of a chain follows the    *)
(* node's pending count and every row that is signed and not settled.      *)
RestartRunner ==
    /\ ~up
    /\ up' = TRUE
    /\ thr' = [a \in Batch |-> Queued]
    /\ nonces' = [r \in Roles |->
          Max2(PendingCount(sent[r], mined[r]), SupOr(PendingSigned(r), -1) + 1)]
    /\ xnext' = -1
    /\ UNCHANGED <<kind, route, dbVars, chainVars, verified, workerVars, wchainVars,
                   spent>>

---------------------------------------------------------------------------
(* The LayerZero worker: collect, then process, over and over. *)

WRuns(pc) == wk.pc = pc
DestOf(p) == p[2] + 1

(* collect: the packets of a page of source blocks enter the table, each   *)
(* by a commit of its own, ...                                             *)
(* (A packet is named by its attempt, its hop and the nonce of the          *)
(* transaction that emitted it: a second dispatch has another GUID.)       *)
PacketsUpTo(r, head) ==
    {<<m.a, Plan(m.a)[m.k].hop, m.n>> : m \in
        {x \in Range(SubSeq(mined[r], cursor[r] + 1, head)) :
            x.op = "dispatch" /\ x.ok /\ route[x.a][Plan(x.a)[x.k].hop] = "L"}}

ObservePackets(r) ==
    /\ WRuns("collect") /\ wk.page = <<>>
    /\ PacketsUpTo(r, Len(mined[r])) # {}
    /\ packets' = [p \in DOMAIN packets \union PacketsUpTo(r, Len(mined[r])) |->
                     IF p \in DOMAIN packets THEN packets[p] ELSE "observed"]
    /\ wk' = [wk EXCEPT !.page = <<r, Len(mined[r])>>]
    /\ UNCHANGED <<runnerVars, dbVars, chainVars, verified, cursor, acts,
                   wchainVars, spent>>

(* ... and the cursor passes the page once they are there.  A page without *)
(* packets only moves the cursor.                                          *)
AdvanceCursor ==
    /\ WRuns("collect") /\ wk.page # <<>>
    /\ cursor' = [cursor EXCEPT ![wk.page[1]] = wk.page[2]]
    /\ wk' = [wk EXCEPT !.page = <<>>]
    /\ UNCHANGED <<runnerVars, dbVars, chainVars, verified, packets, acts,
                   wchainVars, spent>>

(* ready_packets, in the order of their source blocks, each with its three *)
(* stages.  A batch of two attempts never meets its cap of a hundred, and  *)
(* every packet is taken to have its confirmations.                        *)
ReadyPackets == {p \in DOMAIN packets : packets[p] # "delivered"}

BeginProcess ==
    /\ WRuns("collect") /\ wk.page = <<>>
    /\ ReadyPackets # {}
    /\ LET order == SortSeq(SetToSeq(ReadyPackets), LAMBDA p, q : p[3] < q[3])
       IN  wk' = [wk EXCEPT !.pc = "submit", !.ready = ReadyPackets,
                  !.todo = FlattenSeq([i \in 1..Len(order) |->
                              [s \in 1..3 |-> <<order[i], Stages[s]>>]])]
    /\ UNCHANGED <<runnerVars, dbVars, chainVars, verified, cursor, packets,
                   acts, wchainVars, spent>>

State(q) == IF q \in DOMAIN acts THEN acts[q].st ELSE "none"
Submitting(S) ==
    WRuns("submit") /\ wk.todo # <<>> /\ State(Head(wk.todo)) \in S

SkipSucceeded ==
    /\ Submitting({"succeeded"})
    /\ wk' = [wk EXCEPT !.todo = Tail(@)]
    /\ UNCHANGED <<runnerVars, dbVars, chainVars, verified, cursor, packets,
                   acts, wchainVars, spent>>

(* intend_action: a nonce above the pending count and above every durable  *)
(* action of the destination.                                              *)
ActionNonce(r) ==
    Max2(PendingCount(wsent[r], wmined[r]),
         SupOr({acts[x].n : x \in {y \in DOMAIN acts : DestOf(y[1]) = r}}, -1) + 1)

IntendAction ==
    /\ Submitting({"none"})
    /\ LET q == Head(wk.todo)
       IN  acts' = [x \in DOMAIN acts \union {q} |->
                       IF x = q THEN [st |-> "intended", n |-> ActionNonce(DestOf(q[1]))]
                       ELSE acts[x]]
    /\ UNCHANGED <<runnerVars, dbVars, chainVars, verified, wk, cursor,
                   packets, wchainVars, spent>>

RecordSignedAction ==
    /\ Submitting({"intended"})
    /\ acts' = [acts EXCEPT ![Head(wk.todo)].st = "signed"]
    /\ UNCHANGED <<runnerVars, dbVars, chainVars, verified, wk, cursor,
                   packets, wchainVars, spent>>

(* Signed, submitted and failed actions are sent alike, and are submitted  *)
(* from then on, whatever they were.  (A death between the two leaves a    *)
(* signed action, which is treated as a submitted one.)                    *)
SendAction ==
    /\ Submitting({"signed", "submitted", "failed"})
    /\ LET q == Head(wk.todo)
           r == DestOf(q[1])
       IN  /\ wsent' = [wsent EXCEPT ![r] =
                  Accept(@, wmined[r], [p |-> q[1], s |-> q[2], n |-> acts[q].n])]
           /\ acts' = [acts EXCEPT ![q].st = "submitted"]
           /\ wk' = [wk EXCEPT !.todo = Tail(@), !.pend = Append(@, q)]
    /\ UNCHANGED <<runnerVars, dbVars, chainVars, verified, cursor, packets,
                   wmined, spent>>

Outcome(q) == {m \in Range(wmined[DestOf(q[1])]) : m.p = q[1] /\ m.s = q[2]}

(* _finalize_stage: without the official event the action failed and the   *)
(* worker ends.                                                            *)
FinalizeStage ==
    /\ WRuns("submit") /\ wk.todo = <<>> /\ wk.pend # <<>>
    /\ \E m \in Outcome(Head(wk.pend)) :
          /\ acts' = [acts EXCEPT ![Head(wk.pend)].st =
                          IF m.ok THEN "succeeded" ELSE "failed"]
          /\ wk' = IF m.ok THEN [wk EXCEPT !.pend = Tail(@)]
                   ELSE [Idle EXCEPT !.pc = "down"]
    /\ UNCHANGED <<runnerVars, dbVars, chainVars, verified, cursor, packets,
                   wchainVars, spent>>

(* A packet whose three actions succeeded is delivered. *)
MarkDelivered ==
    /\ WRuns("submit") /\ wk.todo = <<>> /\ wk.pend = <<>>
    /\ packets' = [p \in DOMAIN packets |->
          IF p \in wk.ready /\ \A s \in Range(Stages) :
                                  State(<<p, s>>) = "succeeded"
          THEN "delivered" ELSE packets[p]]
    /\ wk' = Idle
    /\ UNCHANGED <<runnerVars, dbVars, chainVars, verified, cursor, acts,
                   wchainVars, spent>>

(* A transient error returns to the poll loop; a timeout ends the process. *)
WorkerFault ==
    /\ wk.pc # "down" /\ wk # Idle /\ Budgeted
    /\ \E pc \in {"collect", "down"} : wk' = [Idle EXCEPT !.pc = pc]
    /\ spent' = spent + 1
    /\ UNCHANGED <<runnerVars, dbVars, chainVars, verified, cursor, packets,
                   acts, wchainVars>>

CrashWorker ==
    /\ wk.pc # "down" /\ Budgeted
    /\ wk' = [Idle EXCEPT !.pc = "down"]
    /\ spent' = spent + 1
    /\ UNCHANGED <<runnerVars, dbVars, chainVars, verified, cursor, packets,
                   acts, wchainVars>>

RestartWorker ==
    /\ wk.pc = "down"
    /\ wk' = Idle
    /\ UNCHANGED <<runnerVars, dbVars, chainVars, verified, cursor, packets,
                   acts, wchainVars, spent>>

(* The worker's transactions execute in nonce order.  A stage has its      *)
(* effect only after the one before it; an instruction that expired is     *)
(* skipped by the DVN without its event.                                   *)
Done(p, s) == \E m \in Range(wmined[DestOf(p)]) : m.p = p /\ m.s = s /\ m.ok

MineWorker(r) ==
    \E t \in wsent[r], expired \in BOOLEAN :
        /\ t.n = Len(wmined[r])
        /\ expired => t.s = "dvn_execute" /\ Budgeted
        /\ spent' = IF expired THEN spent + 1 ELSE spent
        /\ LET ok == /\ ~expired
                     /\ t.s = "commit_verification" => Done(t.p, "dvn_execute")
                     /\ t.s = "executor_execute" =>
                            Done(t.p, "commit_verification")
           IN  /\ wmined' = [wmined EXCEPT ![r] = Append(@,
                      [p |-> t.p, s |-> t.s, n |-> t.n, ok |-> ok])]
               /\ verified' = IF ok /\ t.s = "executor_execute"
                              THEN verified \union {t.p} ELSE verified
        /\ UNCHANGED <<runnerVars, dbVars, chainVars, workerVars, wsent>>

---------------------------------------------------------------------------
Thread(a) ==
    \/ Begin(a) \/ EnterSucceeded(a) \/ ResumeDurable(a) \/ LookupPrior(a)
    \/ Resend(a) \/ ReserveRoot(a) \/ ReserveNonce(a) \/ BuildTransaction(a)
    \/ RecordSigned(a) \/ SendRaw(a) \/ AwaitReceipt(a) \/ RecordEvidence(a)
    \/ WaitBundle(a) \/ Finish(a)

Worker ==
    \/ \E r \in Roles : ObservePackets(r)
    \/ AdvanceCursor \/ BeginProcess \/ SkipSucceeded \/ IntendAction
    \/ RecordSignedAction \/ SendAction \/ FinalizeStage
    \/ MarkDelivered \/ RestartWorker

Chain == \E r \in Roles : Mine(r) \/ Relay(r) \/ MineWorker(r)

Disturbance ==
    \/ \E a \in Batch : TransientError(a) \/ WaitTimeout(a)
    \/ WorkerFault \/ CrashRunner \/ CrashWorker

Progress ==
    \/ \E a \in Batch : Thread(a)
    \/ ExitRaised \/ RestartRunner
    \/ Worker \/ Chain

NativeNext == Progress \/ Disturbance

NativeSpec == NativeInit /\ [][NativeNext]_nativeVars

(* As long as a thread, the worker, a supervisor or a chain can move, one  *)
(* of them does.  Nothing is asked of each of them: outside the stalls     *)
(* below no behaviour can be extended for ever.                            *)
FairSpec == NativeSpec /\ WF_nativeVars(Progress)

---------------------------------------------------------------------------
(* Properties. *)

NativeTypeOK ==
    /\ kind \in Kinds /\ route \in Batches /\ up \in BOOLEAN
    /\ \A a \in Batch :
          /\ thr[a].pc \in {"queued", "running", "raised", "done"}
          /\ thr[a].k \in 1..Len(Plan(a))
          /\ thr[a].mode \in {"enter", "resend", "fresh", "reserved", "intended",
                              "send", "await", "await_prior", "evidence", "effect"}
          /\ thr[a].n \in Nat \union {-1} /\ thr[a].g \in Nat \union {-1}
          /\ thr[a].retried \in BOOLEAN
          /\ status[a] \in {"none", "running", "succeeded"}
          /\ \A k \in 1..Len(Plan(a)) :
                /\ rows[a][k].st \in {"none", "intended", "signed", "failed",
                                      "superseded", "succeeded"}
                /\ rows[a][k].n \in Nat \union {-1} /\ rows[a][k].ev \in BOOLEAN
          /\ effects[a] \in Nat
    /\ \A r \in Roles : nonces[r] \in Nat /\ cursor[r] \in 0..Len(mined[r])
    /\ xnext \in Nat \union {-1}
    /\ wk.pc \in {"collect", "submit", "down"}
    /\ \A p \in DOMAIN packets : packets[p] \in {"observed", "delivered"}
    /\ \A q \in DOMAIN acts :
          acts[q].st \in {"intended", "signed", "submitted", "failed", "succeeded"}
    /\ spent \in 0..Budget[route]

(* Whatever crashes, retries and timeouts happen, the multihop runner puts *)
(* no stage of an attempt on chain twice: a row with a transaction is only *)
(* ever resumed through that transaction.                                  *)
StageMinedOnce ==
    kind = "multihop" =>
        \A r \in Roles : \A i, j \in 1..Len(mined[r]) :
            mined[r][i].a = mined[r][j].a /\ mined[r][i].k = mined[r][j].k => i = j

(* Two transactions of the runner's account never share a nonce: after a   *)
(* restart the counter passes every signed transaction, sent or not.       *)
SignedOf(r) ==
    sent[r] \union
    {[a |-> s[1], k |-> s[2], op |-> Plan(s[1])[s[2]].op, n |-> RowAt(s).n, g |-> RowAt(s).g] :
        s \in {x \in StepsOn(r) : RowAt(x).st \in {"signed", "failed", "succeeded"}}}

NonceSpentOnce ==
    \A r \in Roles : \A t, u \in SignedOf(r) :
        t.n = u.n => t.a = u.a /\ t.k = u.k

(* The gateway gives every multihop root the record nonce the runner       *)
(* hashed into its identifier, although the threads reserve, sign and send *)
(* in any order and a restart reserves anew.                               *)
RootNonceAgrees ==
    kind = "multihop" =>
        \A m \in Range(mined[1]) : m.op = "root" /\ m.ok => m.e = m.g

(* Every transaction is spent once, under the number it was signed for.    *)
SpentOnce == StageMinedOnce /\ NonceSpentOnce /\ RootNonceAgrees

(* An attempt the database calls succeeded has its effect exactly once,    *)
(* every stage of it is a transaction that succeeded on its chain, and     *)
(* every hop is answered for at its destination.                           *)
FinishedIsDelivered ==
    \A a \in Batch : status[a] = "succeeded" =>
        /\ effects[a] = 1
        /\ \A k \in 1..Len(Plan(a)) :
              LET p == Plan(a)[k]
              IN  IF p.op = "wait" THEN Evidence(a, p.hop) \in verified
                  ELSE \E m \in Range(mined[p.role]) :
                          m.ok /\ m.a = a /\ m.k = k /\ m.n = rows[a][k].n

(* The worker's cursor never passes a packet that is not in its table,     *)
(* wherever the worker dies.                                               *)
PacketNotSkipped ==
    \A r \in Roles : \A i \in 1..cursor[r] :
        LET m == mined[r][i]
            h == Plan(m.a)[m.k].hop
        IN  m.op = "dispatch" /\ m.ok /\ route[m.a][h] = "L" =>
                <<m.a, h, m.n>> \in DOMAIN packets

(* A packet the worker calls delivered is one its destination adapter      *)
(* answers for.                                                            *)
DeliveredIsVerified ==
    \A p \in DOMAIN packets : packets[p] = "delivered" => p \in verified

(* What the two databases say of a delivery is so.                         *)
DeliveryHolds ==
    NativeTypeOK /\ FinishedIsDelivered /\ PacketNotSkipped /\ DeliveredIsVerified

(* The stalls no restart repairs: a nonce that was allocated and never     *)
(* signed under a signed one; a multihop LayerZero dispatch that succeeded *)
(* and whose evidence was not stored; a transaction that had no effect.    *)
Held(r, n) ==
    \E a \in Batch :
        /\ up /\ thr[a].pc = "running" /\ thr[a].mode \in {"reserved", "intended"}
        /\ At(a).role = r /\ thr[a].n = n

NonceLeaked ==
    \E r \in Roles : \E t \in SignedOf(r) : \E n \in Len(mined[r])..(t.n - 1) :
        ~Held(r, n) /\ ~\E u \in SignedOf(r) : u.n = n

EvidenceLost ==
    \E a \in Batch : \E k \in 1..Len(Plan(a)) :
        /\ kind = "multihop" /\ Plan(a)[k].op = "dispatch"
        /\ rows[a][k].st = "succeeded" /\ ~rows[a][k].ev
        /\ ~(Runs(a, "evidence") /\ thr[a].k = k)

Reverted ==
    \E r \in Roles : \/ \E m \in Range(mined[r]) : ~m.ok
                     \/ \E m \in Range(wmined[r]) : ~m.ok

(* Crashes, retries and timeouts included, every attempt of the batch ends *)
(* with its effect, unless one of those three stalls happened.             *)
CompletesOrStalls ==
    <>(\/ \A a \in Batch : status[a] = "succeeded"
       \/ NonceLeaked \/ EvidenceLost \/ Reverted)
====
