----------------------------- MODULE XIRAblation -----------------------------
(***************************************************************************)
(* The mechanism ablation (native/ablation_v1.py with its scripts and      *)
(* contracts/src/native/NativeAblationV1.sol): every block of the plan     *)
(* sends the same payload over both routes under four treatments, from     *)
(* two bare carrier hops (B0) to a delivery through the XIR gateway (B3).  *)
(* A deployer wires the contracts; a runner takes every entry of the plan  *)
(* through its stages; an analyzer reconciles the database with the        *)
(* chains and publishes; the publication is rebuilt twice, the sources are *)
(* frozen and a handoff collects the gates.                                *)
(*                                                                         *)
(* The runner is NativeExperimentRunner with other stages.  Its nonces are *)
(* the subject of XIRNative: a stage's transactions are numbered here in   *)
(* the order in which they are signed, and the one whose nonce was spent   *)
(* is the one that was mined.  Left out: fees, payload encodings, the      *)
(* statistics, the incident tables, the figure and the report.             *)
(***************************************************************************)
EXTENDS Integers, Sequences, FiniteSets

CONSTANTS
    BatchBlocks,    \* interleave_block_sequences
    Setups,         \* [version, bound, layers, routes, blocks, workers, mishaps]:
                    \* the revision, whether the base deployment binds the prior
                    \* verifiers, treatments, routes and blocks of the plan,
                    \* max_workers of the pool, and the bound on the deaths, RPC
                    \* errors, timeouts and early reports of a behaviour
    MaxAnalyses     \* analyses of a behaviour

VARIABLES
    setup,          \* of Setups
    made,           \* deployment steps done
    up,             \* the runner process lives
    thr,            \* [Entries -> the thread of the entry]
    xnext,          \* xir_nonce_next, memory; -1 is None
    rows,           \* [Entries -> [step -> row of table stages]]
    status,         \* [Entries -> row of table attempts]
    mined,          \* [Entries -> [step -> outcome of each transaction]]
    flying,         \* <<entry, step>> whose last transaction is in a node
    groots,         \* <<entry, transaction>> of every gateway record
    processed,      \* carrier messages executed at their destination
    ingress,        \* [Entries -> message firstMessageForPayload names, or 0]
    effects,        \* [Entries -> AblationEffectApplied events]
    an,             \* the analyzer: what it computed, and the files to write
    files,          \* the publication: [file -> content]
    pub,            \* publication-validation.json
    rebuilt,        \* the two offline rebuilds
    frozen,         \* the verdict of the frozen source manifest
    passed,         \* the handoff: all_gates_pass, and what it collected
    spent, analyses

deployVars == <<setup, made>>
runnerVars == <<up, thr, xnext>>
dbVars == <<rows, status>>
chainVars == <<mined, flying, groots, processed, ingress, effects>>
publishVars == <<an, files, pub, rebuilt, frozen, passed, analyses>>
avars == <<setup, made, up, thr, xnext, rows, status, mined, flying, groots, processed,
           ingress, effects, an, files, pub, rebuilt, frozen, passed, spent, analyses>>

---------------------------------------------------------------------------
(* The plan. *)

Layers == setup.layers              \* of <<"B0", "B1", "B2", "B3">>
Blocks == setup.blocks              \* attempts per cell
Routes == setup.routes              \* of << <<"H", "L">>, <<"L", "H">> >>
Cells == Len(Layers) * Len(Routes)
Entries == 1..(Blocks * Cells)

(* build_ablation_plan: block s starts with layer s and swaps the routes   *)
(* in odd blocks.                                                          *)
Block(a) == (a - 1) \div Cells
Slot(a) == (a - 1) % Cells
LayerOf(a) == Layers[((Block(a) + (Slot(a) \div Len(Routes))) % Len(Layers)) + 1]
RouteOf(a) == Routes[((Block(a) + Slot(a)) % Len(Routes)) + 1]
Batch(a) == Block(a) \div BatchBlocks

(* validate_ablation_plan: every block holds every cell once. *)
PlanValid ==
    \A s \in 0..(Blocks - 1) : \A l \in 1..Len(Layers), r \in 1..Len(Routes) :
        Cardinality({a \in Entries : /\ Block(a) = s /\ LayerOf(a) = Layers[l]
                                     /\ RouteOf(a) = Routes[r]}) = 1

Baseline(a) == LayerOf(a) \in {"B0", "B1"}

(* The stages of an entry.  A dispatch, a root, a record and a delivery    *)
(* are transactions; a wait polls a contract.                              *)
Step(op, hop) == [op |-> op, hop |-> hop]
Hop(h) == <<Step("dispatch", h), Step("wait", h)>>
Root == <<Step("root", 0)>>
StepsOf(layer) ==
    CASE layer = "B0" -> Hop(1) \o Hop(2)
      [] layer = "B1" -> Root \o Hop(1) \o Hop(2)
      [] OTHER -> Root \o Hop(1) \o <<Step("record", 1)>> \o Hop(2)
                  \o <<Step("deliver", 2)>>

Plan(a) == StepsOf(LayerOf(a))
At(a) == Plan(a)[thr[a].k]
Row(a) == rows[a][thr[a].k]
StepOf(a, op, h) == CHOOSE k \in 1..Len(Plan(a)) : Plan(a)[k] = Step(op, h)
TxSteps(a) == {k \in 1..Len(Plan(a)) : Plan(a)[k].op # "wait"}

---------------------------------------------------------------------------
NoRow == [st |-> "none", tx |-> 0, lin |-> FALSE, g |-> -1]
Queued == [pc |-> "queued", k |-> 1, mode |-> "enter"]
Pages == <<"data", "validation", "analysis", "manifest">>
Blank == [valid |-> FALSE, reads |-> -1]       \* no such file
Missing == [data |-> Blank, validation |-> Blank, analysis |-> Blank, manifest |-> <<>>]
Resting == [todo |-> <<>>, c |-> Blank]

(* NativeAblationDeployer.run, in order; "bindings" is the check of the    *)
(* base deployment, the last step writes the document.                     *)
DeploySteps == <<"adapters", "peers", "options", "bindings", "ingress", "root",
                 "receiver", "transition", "routes", "document">>

Init ==
    /\ setup \in Setups /\ made = 0
    /\ up = FALSE /\ thr = [a \in Entries |-> Queued] /\ xnext = -1
    /\ rows = [a \in Entries |-> [k \in 1..Len(Plan(a)) |-> NoRow]]
    /\ status = [a \in Entries |-> "none"]
    /\ mined = [a \in Entries |-> [k \in 1..Len(Plan(a)) |-> <<>>]]
    /\ flying = {} /\ groots = <<>> /\ processed = {}
    /\ ingress = [a \in Entries |-> 0] /\ effects = [a \in Entries |-> 0]
    /\ an = Resting /\ files = Missing /\ pub = "none"
    /\ rebuilt = [r \in {"a", "b"} |-> <<>>] /\ frozen = "none" /\ passed = "none"
    /\ spent = 0 /\ analyses = 0

Budgeted == spent < setup.mishaps

BindingsValid == setup.version < 2 \/ setup.bound

(* Version 2 refuses a base without bindings only here, with adapters,     *)
(* peers and options already on chain.                                     *)
DeployStep ==
    /\ made < Len(DeploySteps)
    /\ DeploySteps[made + 1] = "bindings" => BindingsValid
    /\ made' = made + 1
    /\ UNCHANGED <<setup, runnerVars, dbVars, chainVars, publishVars, spent>>

(* A deployment that stopped half-way is run again from its first step,    *)
(* over new contracts: the journal is written, and never read to skip one. *)
DeployAgain ==
    /\ made \in 1..(Len(DeploySteps) - 1)
    /\ made' = 0
    /\ UNCHANGED <<setup, runnerVars, dbVars, chainVars, publishVars, spent>>

---------------------------------------------------------------------------
(* The chains and the carriers. *)

(* The message in the receipt of the transaction in the row of a dispatch. *)
Message(a, h) == <<a, h, rows[a][StepOf(a, "dispatch", h)].tx>>

(* What an adapter answers for: a Hyperlane proof names the entry, a       *)
(* LayerZero one the message of the transaction in the row.                *)
Verified(a, h) ==
    IF RouteOf(a)[h] = "H"
    THEN \E m \in processed : m[1] = a /\ m[2] = h
    ELSE Message(a, h) \in processed

Succeeded(a, k) == \E i \in 1..Len(mined[a][k]) : mined[a][k][i]

(* A root is created once (the gateway of B3 numbers every record); B2 and *)
(* B3 record and forward only what the inbound adapter answers for; a      *)
(* delivery needs both hops and an entry that has had no effect.           *)
Executes(a, k) ==
    CASE Plan(a)[k].op = "root" -> LayerOf(a) = "B3" \/ ~Succeeded(a, k)
      [] Plan(a)[k].op = "record" -> Verified(a, 1) /\ ~Succeeded(a, k)
      [] Plan(a)[k].op = "deliver" -> Verified(a, 1) /\ Verified(a, 2) /\ effects[a] = 0
      [] OTHER -> Baseline(a) \/ Plan(a)[k].hop = 1 \/ Verified(a, 1)

Mine(a, k) ==
    /\ <<a, k>> \in flying
    /\ flying' = flying \ {<<a, k>>}
    /\ mined' = [mined EXCEPT ![a][k] = Append(@, Executes(a, k))]
    /\ groots' = IF Plan(a)[k].op = "root" /\ LayerOf(a) = "B3"
                 THEN Append(groots, <<a, Len(mined[a][k]) + 1>>) ELSE groots
    /\ effects' = IF Plan(a)[k].op = "deliver" /\ Executes(a, k)
                  THEN [effects EXCEPT ![a] = @ + 1] ELSE effects
    /\ UNCHANGED <<deployVars, runnerVars, dbVars, processed, ingress, publishVars, spent>>

(* A carrier executes the message of a dispatch at its destination.  The   *)
(* ingress takes a payload once: the second message of a first hop stays   *)
(* unprocessed.  The receiver of B0 and B1 accepts a replay without effect. *)
Carry(a, h, j) ==
    /\ <<a, h, j>> \notin processed
    /\ j \in 1..Len(mined[a][StepOf(a, "dispatch", h)])
    /\ mined[a][StepOf(a, "dispatch", h)][j]
    /\ Baseline(a) /\ h = 1 => ingress[a] = 0
    /\ processed' = processed \union {<<a, h, j>>}
    /\ ingress' = IF Baseline(a) /\ h = 1 THEN [ingress EXCEPT ![a] = j] ELSE ingress
    /\ effects' = IF Baseline(a) /\ h = 2 /\ effects[a] = 0
                  THEN [effects EXCEPT ![a] = 1] ELSE effects
    /\ UNCHANGED <<deployVars, runnerVars, dbVars, mined, flying, groots, publishVars, spent>>

Chain ==
    \E a \in Entries :
        \/ \E k \in TxSteps(a) : Mine(a, k)
        \/ \E h \in {1, 2} : \E j \in 1..2 : Carry(a, h, j)

---------------------------------------------------------------------------
(* The runner. *)

Runs(a, mode) == up /\ thr[a].pc = "running" /\ thr[a].mode = mode
OnTx(a) == thr[a].k \in TxSteps(a)
GoTo(a, mode) == thr' = [thr EXCEPT ![a].mode = mode]
Raise(a) == thr' = [thr EXCEPT ![a].pc = "raised"]
Proceed(a) == thr' = [thr EXCEPT ![a].k = @ + 1, ![a].mode = "enter"]
Write(a, row) == rows' = [rows EXCEPT ![a][thr[a].k] = row]

StartRunner ==
    /\ ~up /\ made = Len(DeploySteps) /\ PlanValid
    /\ \E a \in Entries : status[a] # "succeeded"
    /\ up' = TRUE /\ thr' = [a \in Entries |-> Queued] /\ xnext' = -1
    /\ UNCHANGED <<deployVars, dbVars, chainVars, publishVars, spent>>

(* The pool takes the entries of a batch in order; a batch starts when     *)
(* every entry of the one before is done.  A finished entry is skipped.    *)
Begin(a) ==
    /\ up /\ thr[a].pc = "queued"
    /\ Cardinality({b \in Entries : thr[b].pc = "running"}) < setup.workers
    /\ \A b \in 1..(a - 1) : /\ thr[b].pc # "queued"
                             /\ Batch(b) < Batch(a) => thr[b].pc = "done"
    /\ thr' = [thr EXCEPT ![a].pc = IF status[a] = "succeeded" THEN "done" ELSE "running"]
    /\ status' = [status EXCEPT ![a] = IF @ = "none" THEN "running" ELSE @]
    /\ UNCHANGED <<deployVars, up, xnext, rows, chainVars, publishVars, spent>>

(* A stage that succeeded is not repeated.  The root signer of B3 asks     *)
(* that the gateway gave the record of the row's transaction its number.   *)
RootNumber(a) == (CHOOSE i \in 1..Len(groots) : groots[i] = <<a, Row(a).tx>>) - 1

EnterSucceeded(a) ==
    /\ Runs(a, "enter") /\ OnTx(a) /\ Row(a).st = "succeeded"
    /\ IF At(a).op = "root" /\ LayerOf(a) = "B3" /\ RootNumber(a) # Row(a).g
       THEN Raise(a) ELSE Proceed(a)
    /\ UNCHANGED <<deployVars, up, xnext, dbVars, chainVars, publishVars, spent>>

(* A row with a transaction: its receipt decides; without one the bytes    *)
(* are sent again.  Any error of the lookup counts as "not found".         *)
Mined(a) == Row(a).tx <= Len(mined[a][thr[a].k])

LookupPrior(a) ==
    /\ Runs(a, "enter") /\ OnTx(a) /\ Row(a).st \in {"signed", "failed", "superseded"}
    /\ \/ GoTo(a, IF Mined(a) THEN "prior" ELSE "resend") /\ UNCHANGED spent
       \/ Mined(a) /\ Budgeted /\ GoTo(a, "resend") /\ spent' = spent + 1
    /\ UNCHANGED <<deployVars, up, xnext, dbVars, chainVars, publishVars>>

(* "nonce too low" while the latest count has passed the nonce: the row is *)
(* superseded and the stage gets a second transaction.                     *)
Resend(a) ==
    /\ Runs(a, "resend")
    /\ IF Mined(a)
       THEN /\ Write(a, [Row(a) EXCEPT !.st = "superseded", !.lin = TRUE])
            /\ GoTo(a, "fresh") /\ UNCHANGED flying
       ELSE /\ flying' = flying \union {<<a, thr[a].k>>}
            /\ GoTo(a, "prior") /\ UNCHANGED rows
    /\ UNCHANGED <<deployVars, up, xnext, status, mined, groots, processed, ingress, effects,
                   publishVars, spent>>

(* next_reserved_root_nonce and _reserve_root_nonces. *)
RootRows == {rows[b][1].g : b \in {c \in Entries : LayerOf(c) = "B3"}}
NextRoot ==
    IF xnext # -1 THEN xnext
    ELSE CHOOSE n \in {Len(groots)} \union {g + 1 : g \in RootRows} :
             \A m \in {Len(groots)} \union {g + 1 : g \in RootRows} : m <= n

NewRoot(a) == At(a).op = "root" /\ LayerOf(a) = "B3" /\ Row(a).st = "none"

(* The intended row has no transaction; the lineage of the stage is carried *)
(* over from a row that was superseded in this call, and only then.  The   *)
(* second XIR dispatch is quoted first, which an outbound adapter without  *)
(* bindings refuses.                                                       *)
Intend(a) ==
    /\ \/ Runs(a, "fresh")
       \/ Runs(a, "enter") /\ OnTx(a) /\ Row(a).st \in {"none", "intended"}
    /\ IF At(a) = Step("dispatch", 2) /\ ~Baseline(a) /\ ~setup.bound
       THEN Raise(a) /\ UNCHANGED <<rows, xnext>>
       ELSE /\ Write(a, [st |-> "intended", tx |-> 0, lin |-> thr[a].mode = "fresh",
                         g |-> IF NewRoot(a) THEN NextRoot ELSE Row(a).g])
            /\ xnext' = IF NewRoot(a) THEN NextRoot + 1 ELSE xnext
            /\ GoTo(a, "intended")
    /\ UNCHANGED <<deployVars, up, status, chainVars, publishVars, spent>>

Sign(a) ==
    /\ Runs(a, "intended")
    /\ Write(a, [Row(a) EXCEPT !.st = "signed", !.tx = Len(mined[a][thr[a].k]) + 1])
    /\ GoTo(a, "send")
    /\ UNCHANGED <<deployVars, up, xnext, status, chainVars, publishVars, spent>>

SendRaw(a) ==
    /\ Runs(a, "send")
    /\ flying' = flying \union {<<a, thr[a].k>>}
    /\ GoTo(a, "await")
    /\ UNCHANGED <<deployVars, up, xnext, dbVars, mined, groots, processed, ingress, effects,
                   publishVars, spent>>

(* The receipt: a stage that reverted fails, and raises for ever.  A prior *)
(* transaction that reverted leaves its row as it was.                     *)
Await(a) ==
    /\ (Runs(a, "await") \/ Runs(a, "prior")) /\ Mined(a)
    /\ IF mined[a][thr[a].k][Row(a).tx]
       THEN Write(a, [Row(a) EXCEPT !.st = "succeeded"]) /\ GoTo(a, "enter")
       ELSE /\ IF thr[a].mode = "await" THEN Write(a, [Row(a) EXCEPT !.st = "failed"])
                                       ELSE UNCHANGED rows
            /\ Raise(a)
    /\ UNCHANGED <<deployVars, up, xnext, status, chainVars, publishVars, spent>>

(* B0 and B1 wait for the ingress, then for the effect; B2 and B3 for the  *)
(* evidence of every hop so far.                                           *)
WaitHop(a) ==
    /\ Runs(a, "enter") /\ thr[a].k <= Len(Plan(a)) /\ At(a).op = "wait"
    /\ IF Baseline(a) THEN IF At(a).hop = 1 THEN ingress[a] # 0 ELSE effects[a] > 0
       ELSE \A h \in 1..At(a).hop : Verified(a, h)
    /\ Proceed(a)
    /\ UNCHANGED <<deployVars, up, xnext, dbVars, chainVars, publishVars, spent>>

Finish(a) ==
    /\ Runs(a, "enter") /\ thr[a].k > Len(Plan(a))
    /\ thr' = [thr EXCEPT ![a].pc = "done"]
    /\ status' = [status EXCEPT ![a] = "succeeded"]
    /\ UNCHANGED <<deployVars, up, xnext, rows, chainVars, publishVars, spent>>

(* _run_entry starts over after a transient Web3RPCError; every other      *)
(* error, a timeout included, leaves the entry as it is.  A root number    *)
(* reserved before the error is lost.                                      *)
Interrupt(a) ==
    /\ up /\ thr[a].pc = "running" /\ Budgeted
    /\ \/ thr' = [thr EXCEPT ![a].k = 1, ![a].mode = "enter"]
       \/ Raise(a)
    /\ \/ UNCHANGED xnext
       \/ thr[a].k = 1 /\ NewRoot(a) /\ xnext' = NextRoot + 1
    /\ spent' = spent + 1
    /\ UNCHANGED <<deployVars, up, dbVars, chainVars, publishVars>>

(* The pool ends when its entries have; an entry that raised ends the run  *)
(* before the next batch.                                                  *)
ExitRunner ==
    /\ up
    /\ \E n \in 0..Block(Blocks * Cells) :
          /\ \A a \in Entries : Batch(a) <= n => thr[a].pc \in {"done", "raised"}
          /\ \/ \E a \in Entries : Batch(a) <= n /\ thr[a].pc = "raised"
             \/ \A a \in Entries : Batch(a) <= n
    /\ up' = FALSE
    /\ UNCHANGED <<deployVars, thr, xnext, dbVars, chainVars, publishVars, spent>>

CrashRunner ==
    /\ up /\ Budgeted
    /\ up' = FALSE /\ spent' = spent + 1
    /\ UNCHANGED <<deployVars, thr, xnext, dbVars, chainVars, publishVars>>

Runner ==
    \/ StartRunner \/ ExitRunner \/ CrashRunner
    \/ \E a \in Entries :
          \/ Begin(a) \/ EnterSucceeded(a) \/ LookupPrior(a) \/ Resend(a) \/ Intend(a)
          \/ Sign(a) \/ SendRaw(a) \/ Await(a) \/ WaitHop(a) \/ Finish(a) \/ Interrupt(a)

---------------------------------------------------------------------------
(* Analysis and publication. *)

Complete == \A a \in Entries : status[a] = "succeeded"

(* analyze_ablation_phase reconciles an entry: every stage of its layer    *)
(* has a transaction that succeeded and was not retried, the message of    *)
(* every hop was executed, and the receiver logged one effect.             *)
StagesReconcile(a) ==
    \A k \in TxSteps(a) :
        rows[a][k].st = "succeeded" /\ rows[a][k].tx # 0 /\ ~rows[a][k].lin

MessageReconciles(a, h) == Message(a, h) \in processed

EffectReconciles(a) == effects[a] = 1

Reconciles ==
    /\ Complete
    /\ \A a \in Entries : /\ StagesReconcile(a) /\ EffectReconciles(a)
                          /\ \A h \in {1, 2} : MessageReconciles(a, h)

(* What the verdict also asks, of files that are not modelled: recovered   *)
(* incidents, their latency sensitivity, the minimum size of a scale run.  *)
OtherGates == BOOLEAN

(* _retry_rpc_read: the retries of a read, which the verdict carries. *)
ReadRetries == 0..1

(* An analysis of an unfinished campaign counts as a disturbance. *)
Analyze ==
    /\ an = Resting /\ made = Len(DeploySteps) /\ analyses < MaxAnalyses
    /\ ~Complete => Budgeted
    /\ \E reads \in ReadRetries, gates \in OtherGates :
          an' = [todo |-> Pages, c |-> [valid |-> Reconciles /\ gates, reads |-> reads]]
    /\ analyses' = analyses + 1
    /\ spent' = IF Complete THEN spent ELSE spent + 1
    /\ UNCHANGED <<deployVars, runnerVars, dbVars, chainVars, files, pub, rebuilt, frozen,
                   passed>>

(* The files are replaced one by one, the manifest with the digests of     *)
(* every other file last: an earlier publication-validation.json too.      *)
Digests == <<files["data"], files["validation"], files["analysis"]>>
Describes(m) == SubSeq(m, 1, 3) = Digests /\ m[4] \in {"none", pub}

WriteFile ==
    /\ an.todo # <<>>
    /\ files' = [files EXCEPT ![Head(an.todo)] =
                     IF Head(an.todo) = "manifest" THEN Append(Digests, pub) ELSE an.c]
    /\ an' = IF Len(an.todo) = 1 THEN Resting ELSE [an EXCEPT !.todo = Tail(@)]
    /\ UNCHANGED <<deployVars, runnerVars, dbVars, chainVars, pub, rebuilt, frozen, passed,
                   spent, analyses>>

CrashAnalyzer ==
    /\ an # Resting /\ Budgeted
    /\ an' = Resting /\ spent' = spent + 1
    /\ UNCHANGED <<deployVars, runnerVars, dbVars, chainVars, files, pub, rebuilt, frozen,
                   passed, analyses>>

(* analyze_native_ablation: an invalid analysis ends the script; the tree  *)
(* is valid when the manifest describes it.                                *)
ValidateTree ==
    /\ an = Resting /\ files["manifest"] # <<>>
    /\ files["analysis"].valid
    /\ pub' = IF Describes(files["manifest"]) /\ files["validation"].valid
              THEN "valid" ELSE "invalid"
    /\ UNCHANGED <<deployVars, runnerVars, dbVars, chainVars, an, files, rebuilt, frozen,
                   passed, spent, analyses>>

(* rebuild_ablation_publication: into an empty directory, from a source    *)
(* with a manifest whose validation is the one its analysis carries.  The  *)
(* manifest of the source is not compared with its files.                  *)
Rebuild(r) ==
    /\ rebuilt[r] = <<>> /\ files["manifest"] # <<>>
    /\ files["analysis"] = files["validation"] /\ files["validation"].valid
    /\ rebuilt' = [rebuilt EXCEPT ![r] = Digests]
    /\ UNCHANGED <<deployVars, runnerVars, dbVars, chainVars, an, files, pub, frozen,
                   passed, spent, analyses>>

(* freeze_native_ablation_v2.py: a copy of the databases, once; before the *)
(* campaign is complete it counts as a disturbance, and is invalid.        *)
Freeze ==
    /\ frozen = "none" /\ made = Len(DeploySteps)
    /\ ~Complete => Budgeted
    /\ frozen' = IF Complete THEN "valid" ELSE "invalid"
    /\ spent' = IF Complete THEN spent ELSE spent + 1
    /\ UNCHANGED <<deployVars, runnerVars, dbVars, chainVars, an, files, pub, rebuilt,
                   passed, analyses>>

(* build_native_ablation_v2_handoff.py: all_gates_pass, the digests of two *)
(* figures among them.                                                     *)
Handoff ==
    /\ frozen # "none" /\ pub # "none" /\ \A r \in {"a", "b"} : rebuilt[r] # <<>>
    /\ \E figures \in BOOLEAN :
          passed' = IF /\ files["analysis"].valid /\ pub = "valid" /\ figures
                       /\ rebuilt["a"] = rebuilt["b"] /\ frozen = "valid"
                    THEN "yes" ELSE "no"
    /\ UNCHANGED <<deployVars, runnerVars, dbVars, chainVars, an, files, pub, rebuilt,
                   frozen, spent, analyses>>

Publish ==
    \/ Analyze \/ WriteFile \/ CrashAnalyzer \/ ValidateTree
    \/ \E r \in {"a", "b"} : Rebuild(r)
    \/ Freeze \/ Handoff

Next == DeployStep \/ DeployAgain \/ Chain \/ Runner \/ Publish

Spec == Init /\ [][Next]_avars
---------------------------------------------------------------------------
Contents == [valid : BOOLEAN, reads : -1..1]
Threads == [pc : {"queued", "running", "raised", "done"}, k : 1..9,
            mode : {"enter", "prior", "resend", "fresh", "intended", "send", "await"}]

(* The tables, threads and files of the study (AblationRunner and          *)
(* analyze_ablation_phase) hold what the code may write there.             *)
TypeOK ==
    /\ setup \in Setups /\ made \in 0..Len(DeploySteps) /\ up \in BOOLEAN
    /\ \A a \in Entries :
          /\ thr[a] \in Threads /\ thr[a].k <= Len(Plan(a)) + 1
          /\ status[a] \in {"none", "running", "succeeded"}
          /\ \A k \in 1..Len(Plan(a)) :
                /\ rows[a][k].st \in {"none", "intended", "signed", "superseded",
                                      "succeeded", "failed"}
                /\ rows[a][k].tx <= Len(mined[a][k]) + 1
    /\ \A f \in {"data", "validation", "analysis"} : files[f] \in Contents
    /\ pub \in {"none", "valid", "invalid"} /\ passed \in {"none", "yes", "no"}

(* Every layer adds the mechanism it is named for: a payload has at most   *)
(* one effect, and none before its hops were executed, its root created    *)
(* (B1, B2, B3) and the first hop recorded on the evidence of the carrier  *)
(* (B2, B3), whatever the runner retries (NativeAblationV1.sol).           *)
Executed(a, h) == \E m \in processed : m[1] = a /\ m[2] = h

LayerEarned ==
    \A a \in Entries :
        /\ effects[a] <= 1
        /\ effects[a] = 1 =>
              /\ Executed(a, 1) /\ Executed(a, 2)
              /\ LayerOf(a) # "B0" => Succeeded(a, StepOf(a, "root", 0))
              /\ ~Baseline(a) => Succeeded(a, StepOf(a, "record", 1))
        /\ Executed(a, 2) => Executed(a, 1)

(* An entry whose attempt is recorded as succeeded had its effect, and the *)
(* transaction in every row of its stages is one that succeeded on chain   *)
(* (_execute_entry, after any number of deaths and resends).               *)
FinishedIsWhole ==
    \A a \in Entries : status[a] = "succeeded" =>
        /\ effects[a] = 1
        /\ \A k \in TxSteps(a) : rows[a][k].st = "succeeded" /\ mined[a][k][rows[a][k].tx]

(* What a valid analysis says of the chains: a complete campaign, one      *)
(* effect each, every recorded message executed, and every stage but a     *)
(* dispatch sent exactly once.                                             *)
Truth ==
    /\ Complete
    /\ \A a \in Entries :
          /\ effects[a] = 1
          /\ \A h \in {1, 2} : MessageReconciles(a, h)
          /\ \A k \in TxSteps(a) : Plan(a)[k].op # "dispatch" => mined[a][k] = <<TRUE>>

(* A published verdict is true of the chains for as long as it stands, in  *)
(* the files of the analysis, in their rebuilds and in the handoff, even   *)
(* when an analyzer dies between two files.                                *)
PublishedIsTrue ==
    /\ (\/ \E f \in {"data", "validation", "analysis"} : files[f].valid
        \/ \E r \in {"a", "b"} : rebuilt[r] # <<>>
        \/ passed = "yes") => Truth
    /\ passed = "yes" => rebuilt["a"] = rebuilt["b"]
=============================================================================
