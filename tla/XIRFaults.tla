----------------------------- MODULE XIRFaults -----------------------------
(***************************************************************************)
(* The controlled-recovery campaign (native/faults_v1.py with              *)
(* scripts/run_native_faults_v1.py) on one case: a campaign process starts *)
(* child processes that carry an attempt to its delivery, a fault ledger   *)
(* fires one armed fault at a durable boundary of one of them, a recovery  *)
(* child, or two at once, take up what the dead child left, and the case   *)
(* is reconciled against the chain.  The campaign may be killed at any     *)
(* time; its children die with it or live on.  Its results are published   *)
(* once (freeze_fault_results), rebuilt elsewhere, drawn and handed off.   *)
(*                                                                         *)
(* A transaction is known by its nonce: nothing but the nonce changes in   *)
(* the bytes of the delivery.  Earlier stages and root signing are in      *)
(* XIRNative.                                                              *)
(***************************************************************************)
EXTENDS Integers, Sequences, FiniteSets

CONSTANTS
    Slots,          \* child processes that may live at one time
    MaxRuns,        \* campaign processes the operator starts
    MaxDisturb,     \* kills of a campaign, expired waits of a child
    MaxNonce        \* bound on the nonces of the delivery

VARIABLES
    plan,           \* the scenario: actor, boundary, signal
    fcase,          \* row of table cases and its events
    camp,           \* the campaign process
    runs,           \* campaigns started
    kid,            \* [Slots -> child process]
    orphaned,       \* a child outlived its campaign
    drow,           \* row destination_deliver of table stages; n = -1: no hash
    lineage,        \* nonces of its history
    hashes,         \* nonces whose transaction hash is in its history
    attempt,        \* row of table attempts
    retries,        \* rows of table attempt_errors
    pool,           \* delivery transactions the node took
    chain,          \* their outcomes, in nonce order
    wrk,            \* the LayerZero worker and its last action
    dirs,           \* publications: [directory -> [file -> content]]
    freezer,        \* [directory -> files written so far, the result they tell]
    figure,         \* the recovery figure and its source
    handoff,        \* handoff.json
    disturbed       \* disturbances so far

caseVars == <<plan, fcase>>
kidVars == <<kid, orphaned>>
rowVars == <<drow, lineage, hashes, attempt, retries>>
chainVars == <<pool, chain>>
pubVars == <<dirs, freezer, figure, handoff>>
fvars == <<plan, fcase, camp, runs, kid, orphaned, drow, lineage, hashes, attempt,
           retries, pool, chain, wrk, dirs, freezer, figure, handoff, disturbed>>
-----------------------------------------------------------------------------
(* The frozen scenarios. *)

Boundaries ==
    {"pre_intent", "post_intent_pre_sign", "post_sign_pre_broadcast",
     "post_broadcast_pre_acknowledgement", "post_acknowledgement_pre_mining",
     "post_mining_pre_persistence", "post_persistence_pre_stage_commit"}

Scenarios ==
    [actor : {"coordinator"}, boundary : Boundaries, signal : {"process_exit"}] \cup
    {[actor |-> "worker", boundary |-> "worker_action_post_submit", signal |-> "process_exit"],
     [actor |-> "coordinator", boundary |-> "post_broadcast_pre_acknowledgement",
      signal |-> "transient_retry"],
     [actor |-> "coordinator", boundary |-> "post_sign_pre_broadcast",
      signal |-> "concurrent_retry"]}

Off == [pc |-> "off", nx |-> 0, n |-> 0, prior |-> FALSE, code |-> 0]
Directories == {"frozen", "rebuild"}
Files == <<"cases", "summary", "environment", "manifest", "verification">>
Absent == <<"absent">>
Torn == <<"torn">>
CrashCode == 86

Init ==
    /\ plan \in Scenarios
    /\ fcase = [st |-> "planned", before |-> "none", injected |-> <<>>, exits |-> 0,
                batches |-> <<>>, result |-> "none"]
    /\ camp = [pc |-> "down", read |-> "planned", now |-> FALSE, active |-> FALSE, kids |-> {}]
    /\ runs = 0 /\ kid = [k \in Slots |-> Off] /\ orphaned = FALSE
    /\ drow = [st |-> "none", n |-> -1] /\ lineage = {} /\ hashes = {}
    /\ attempt = "running" /\ retries = 0
    /\ pool = {} /\ chain = <<>>
    /\ wrk = [pc |-> "stopped", act |-> "pending", supervised |-> FALSE]
    /\ dirs = [d \in Directories |-> [f \in 1..Len(Files) |-> Absent]]
    /\ freezer = [d \in Directories |-> [at |-> 0, read |-> "none"]]
    /\ figure = Absent /\ handoff = Absent
    /\ disturbed = 0

Effects == Cardinality({i \in DOMAIN chain : chain[i] = "ok"})
Mined(n) == n < Len(chain)
-----------------------------------------------------------------------------
(* A child: FaultInjectingNativeRunner around _transact. *)

Go(k, pc) == kid' = [kid EXCEPT ![k].pc = pc]
Exit(k, code) == kid' = [kid EXCEPT ![k].pc = "exited", ![k].code = code]
At(k, pc) == kid[k].pc = pc

(* The boundary a child has come to. *)
Boundary(k) ==
    CASE At(k, "fresh")     -> "pre_intent"
      [] At(k, "intended")  -> "post_intent_pre_sign"
      [] At(k, "signed")    -> "post_sign_pre_broadcast"
      [] At(k, "sent")      -> "post_broadcast_pre_acknowledgement"
      [] At(k, "wait")      -> "post_acknowledgement_pre_mining"
      [] At(k, "mined")     -> "post_mining_pre_persistence"
      [] At(k, "persisted") -> "post_persistence_pre_stage_commit"
      [] OTHER              -> "none"

Armed == fcase.st = "armed"

Strikes(k) == Armed /\ plan.actor = "coordinator" /\ plan.boundary = Boundary(k)
Passes(k, pc) == At(k, pc) /\ ~Strikes(k)

(* claim: the case becomes faulted and the event is written in one         *)
(* transaction, so that one child only is struck.                          *)
Claim(n) == fcase' = [fcase EXCEPT !.st = "faulted", !.injected = Append(@, n)]

NonceAt(k) == IF At(k, "fresh") THEN kid[k].nx ELSE kid[k].n

(* hit: a transient signal is an RPC error and goes through the retry      *)
(* loop, which starts the attempt over in the same process.                *)
Strike(k) ==
    /\ Strikes(k) /\ Claim(NonceAt(k))
    /\ IF plan.signal = "transient_retry"
       THEN retries' = retries + 1 /\ Go(k, "await")
       ELSE Exit(k, CrashCode) /\ UNCHANGED retries
    /\ UNCHANGED <<plan, camp, runs, orphaned, drow, lineage, hashes, attempt, chainVars,
                   wrk, pubVars, disturbed>>

Unsent == CHOOSE n \in 0..MaxNonce + 1 : n \notin pool /\ \A m \in 0..n - 1 : m \in pool
Larger(m, n) == IF m > n THEN m ELSE n

(* run_case: the runner counts on from the pending nonce and from signed   *)
(* rows; a completed attempt is not run again.                             *)
StartRunner(k) ==
    /\ At(k, "start")
    /\ kid' = [kid EXCEPT ![k].nx = Larger(Unsent, IF drow.st = "signed" THEN drow.n + 1 ELSE 0),
                          ![k].pc = "barrier"]
    /\ UNCHANGED <<caseVars, camp, runs, orphaned, rowVars, chainVars, wrk, pubVars, disturbed>>

(* wait_for_barrier, begin. *)
Begin(k) ==
    /\ At(k, "barrier")
    /\ \A j \in camp.kids : k \in camp.kids => kid[j].pc # "start"
    /\ Go(k, IF attempt = "succeeded" THEN "complete" ELSE "await")
    /\ UNCHANGED <<caseVars, camp, runs, orphaned, rowVars, chainVars, wrk, pubVars, disturbed>>

(* _wait_verify: the LayerZero worker's last transaction brings the        *)
(* evidence; then the stage row is read.                                   *)
ReadStage(k) ==
    /\ At(k, "await") /\ (plan.actor = "worker" => wrk.act # "pending")
    /\ kid' = [kid EXCEPT ![k].pc = IF drow.st = "succeeded" THEN "finish"
                                    ELSE IF drow.n = -1 THEN "fresh" ELSE "lookup",
                          ![k].n = drow.n, ![k].prior = (drow.n # -1)]
    /\ UNCHANGED <<caseVars, camp, runs, orphaned, rowVars, chainVars, wrk, pubVars, disturbed>>

(* A prior transaction: its receipt, or else its bytes once more. *)
LookUp(k) ==
    /\ At(k, "lookup")
    /\ IF ~Mined(kid[k].n) THEN Go(k, "resend")
       ELSE IF chain[kid[k].n + 1] = "ok" THEN Go(k, "persist") ELSE Exit(k, 1)
    /\ UNCHANGED <<caseVars, camp, runs, orphaned, rowVars, chainVars, wrk, pubVars, disturbed>>

(* mutant: bytes the node already knows are an error *)
Resend_Known(k) ==
    /\ At(k, "resend")
    /\ IF kid[k].n \in pool THEN Exit(k, 1) /\ UNCHANGED <<pool, drow, hashes>>
       ELSE Go(k, "sent") /\ pool' = pool \cup {kid[k].n} /\ UNCHANGED <<drow, hashes>>
    /\ UNCHANGED <<caseVars, camp, runs, orphaned, lineage, attempt, retries, chain, wrk,
                   pubVars, disturbed>>

(* A node that has mined the bytes since the receipt was asked for calls   *)
(* their nonce too low, and the stage is taken for superseded.             *)
Resend(k) ==
    /\ At(k, "resend")
    /\ IF Mined(kid[k].n)
       THEN /\ drow' = [st |-> "superseded", n |-> kid[k].n] /\ hashes' = hashes \cup {kid[k].n}
            /\ Go(k, "fresh") /\ UNCHANGED pool
       ELSE /\ Go(k, IF kid[k].n \in pool THEN "wait" ELSE "sent")
            /\ pool' = pool \cup {kid[k].n} /\ UNCHANGED <<drow, hashes>>
    /\ UNCHANGED <<caseVars, camp, runs, orphaned, lineage, attempt, retries, chain, wrk,
                   pubVars, disturbed>>

(* record_stage overwrites state and hash: an intent has none. *)
Intend(k) ==
    /\ Passes(k, "fresh") /\ kid[k].nx <= MaxNonce
    /\ drow' = [st |-> "intended", n |-> -1] /\ lineage' = lineage \cup {kid[k].nx}
    /\ kid' = [kid EXCEPT ![k].pc = "intended", ![k].n = kid[k].nx, ![k].nx = @ + 1,
                          ![k].prior = FALSE]
    /\ UNCHANGED <<caseVars, camp, runs, orphaned, hashes, attempt, retries, chainVars, wrk,
                   pubVars, disturbed>>

Sign(k) ==
    /\ Passes(k, "intended")
    /\ drow' = [st |-> "signed", n |-> kid[k].n] /\ hashes' = hashes \cup {kid[k].n}
    /\ Go(k, "signed")
    /\ UNCHANGED <<caseVars, camp, runs, orphaned, lineage, attempt, retries, chainVars, wrk,
                   pubVars, disturbed>>

(* The first broadcast tolerates neither known bytes nor a spent nonce. *)
Send(k) ==
    /\ Passes(k, "signed")
    /\ IF kid[k].n \in pool THEN Exit(k, 1) /\ UNCHANGED pool
       ELSE Go(k, "sent") /\ pool' = pool \cup {kid[k].n}
    /\ UNCHANGED <<caseVars, camp, runs, orphaned, rowVars, chain, wrk, pubVars, disturbed>>

Acknowledge(k) ==
    /\ Passes(k, "sent") /\ Go(k, "wait")
    /\ UNCHANGED <<caseVars, camp, runs, orphaned, rowVars, chainVars, wrk, pubVars, disturbed>>

Wait(k) ==
    /\ Passes(k, "wait") /\ Mined(kid[k].n) /\ Go(k, "mined")
    /\ UNCHANGED <<caseVars, camp, runs, orphaned, rowVars, chainVars, wrk, pubVars, disturbed>>

(* A prior transaction that reverted leaves its row as it is. *)
Check(k) ==
    /\ Passes(k, "mined")
    /\ IF chain[kid[k].n + 1] = "reverted" /\ kid[k].prior THEN Exit(k, 1) ELSE Go(k, "persist")
    /\ UNCHANGED <<caseVars, camp, runs, orphaned, rowVars, chainVars, wrk, pubVars, disturbed>>

(* _persist_receipt, whichever branch called it. *)
Persist(k) ==
    /\ At(k, "persist") /\ Go(k, "persisted")
    /\ UNCHANGED <<caseVars, camp, runs, orphaned, rowVars, chainVars, wrk, pubVars, disturbed>>

CommitStage(k) ==
    /\ Passes(k, "persisted")
    /\ hashes' = hashes \cup {kid[k].n}
    /\ IF chain[kid[k].n + 1] = "ok"
       THEN drow' = [st |-> "succeeded", n |-> kid[k].n] /\ Go(k, "finish")
       ELSE drow' = [st |-> "failed", n |-> kid[k].n] /\ Exit(k, 1)
    /\ UNCHANGED <<caseVars, camp, runs, orphaned, lineage, attempt, retries, chainVars, wrk,
                   pubVars, disturbed>>

Finish(k) ==
    /\ At(k, "finish") /\ attempt' = "succeeded" /\ Go(k, "complete")
    /\ UNCHANGED <<caseVars, camp, runs, orphaned, drow, lineage, hashes, retries, chainVars, wrk,
                   pubVars, disturbed>>

(* The completion names the transaction the stage row holds by then. *)
Complete(k) ==
    /\ At(k, "complete")
    /\ kid' = [kid EXCEPT ![k].pc = "exited", ![k].n = drow.n, ![k].code = IF drow.n = -1 THEN 1 ELSE 0]
    /\ UNCHANGED <<caseVars, camp, runs, orphaned, rowVars, chainVars, wrk, pubVars, disturbed>>

(* The chain: in nonce order; the gateway takes the message once. *)
Mine ==
    /\ Len(chain) \in pool
    /\ chain' = Append(chain, IF Effects = 0 THEN "ok" ELSE "reverted")
    /\ UNCHANGED <<caseVars, camp, runs, kidVars, rowVars, pool, wrk, pubVars, disturbed>>
-----------------------------------------------------------------------------
(* The LayerZero worker under its supervisor. *)

(* The last action of the packet is submitted and then observed. *)
Submit ==
    /\ plan.actor = "worker" /\ wrk.pc = "running" /\ wrk.act = "pending"
    /\ \E k \in Slots : At(k, "await")
    /\ IF Armed THEN Claim(0) /\ wrk' = [wrk EXCEPT !.act = "submitted", !.pc = "exited"]
       ELSE wrk' = [wrk EXCEPT !.act = "submitted"] /\ UNCHANGED fcase
    /\ UNCHANGED <<plan, camp, runs, kidVars, rowVars, chainVars, pubVars, disturbed>>

Settle ==
    /\ wrk.pc = "running" /\ wrk.act = "submitted"
    /\ wrk' = [wrk EXCEPT !.act = "succeeded"]
    /\ UNCHANGED <<caseVars, camp, runs, kidVars, rowVars, chainVars, pubVars, disturbed>>

(* The exit is recorded for the case that is active now, if any, and the   *)
(* worker started again; an exit without a supervisor goes unrecorded.     *)
(* The worker's only exit is the injected one: any other code would make   *)
(* the supervisor give up and the campaign raise.                          *)
Supervise ==
    /\ wrk.pc = "exited" /\ wrk.supervised
    /\ wrk' = [wrk EXCEPT !.pc = "running"]
    /\ fcase' = IF camp.active THEN [fcase EXCEPT !.exits = @ + 1] ELSE fcase
    /\ UNCHANGED <<plan, camp, runs, kidVars, rowVars, chainVars, pubVars, disturbed>>
-----------------------------------------------------------------------------
(* The campaign. *)

Raise == camp' = [camp EXCEPT !.pc = "down", !.active = FALSE, !.kids = {}]
CloseSupervisor == wrk' = [wrk EXCEPT !.pc = "stopped", !.supervised = FALSE]

StartCampaign ==
    /\ camp.pc = "down" /\ runs < MaxRuns /\ handoff = Absent
    /\ runs' = runs + 1
    /\ camp' = [pc |-> "enter", read |-> "planned", now |-> FALSE, active |-> FALSE, kids |-> {}]
    /\ wrk' = [wrk EXCEPT !.pc = "running", !.supervised = TRUE]
    /\ UNCHANGED <<caseVars, kidVars, rowVars, chainVars, pubVars, disturbed>>

(* A validated case is skipped; the snapshot is taken before any child. *)
SetBefore == [fcase EXCEPT !.before = IF @ = "none" THEN IF Effects > 0 THEN "consumed" ELSE "free" ELSE @]

EnterCase ==
    /\ camp.pc = "enter"
    /\ IF fcase.st = "validated"
       THEN camp' = [camp EXCEPT !.pc = "freeze"] /\ CloseSupervisor /\ UNCHANGED fcase
       ELSE /\ fcase' = SetBefore
            /\ camp' = [camp EXCEPT !.read = fcase.st, !.active = TRUE,
                            !.pc = IF fcase.st \in {"planned", "armed"} THEN "inject" ELSE "recover"]
            /\ UNCHANGED wrk
    /\ UNCHANGED <<plan, runs, kidVars, rowVars, chainVars, pubVars, disturbed>>

(* arm: a planned case only, so that a fault that fired stays fired. *)
Arm ==
    /\ camp.pc = "inject" /\ camp.read = "planned" /\ fcase.st = "planned"
    /\ fcase' = [fcase EXCEPT !.st = "armed"]
    /\ UNCHANGED <<plan, camp, runs, kidVars, rowVars, chainVars, wrk, pubVars, disturbed>>

(* Slots are alike; the lowest free ones are taken. *)
Spawn(ks) ==
    /\ \A k \in ks : At(k, "off") /\ \A j \in Slots \ ks : At(j, "off") => k < j
    /\ kid' = [k \in Slots |-> IF k \in ks THEN [Off EXCEPT !.pc = "start"] ELSE kid[k]]

StartInjection(k) ==
    /\ camp.pc = "inject" /\ fcase.st # "planned" /\ Spawn({k})
    /\ camp' = [camp EXCEPT !.pc = "injecting", !.kids = {k}]
    /\ UNCHANGED <<caseVars, runs, orphaned, rowVars, chainVars, wrk, pubVars, disturbed>>

Recorded(ks) == fcase.exits + Cardinality({k \in ks : kid[k].code = CrashCode})
Reap(ks) == kid' = [k \in Slots |-> IF k \in ks THEN Off ELSE kid[k]]
Ended == \A k \in camp.kids : At(k, "exited")

Expected == IF plan.actor = "worker" \/ plan.signal = "transient_retry" THEN 0 ELSE CrashCode

(* execute_child: recorded, then compared with what the scenario expects. *)
EndInjection ==
    /\ camp.pc = "injecting" /\ Ended /\ Reap(camp.kids)
    /\ fcase' = [fcase EXCEPT !.exits = Recorded(camp.kids)]
    /\ IF \A k \in camp.kids : kid[k].code = Expected
       THEN camp' = [camp EXCEPT !.pc = "recover", !.now = TRUE, !.kids = {}] /\ UNCHANGED wrk
       ELSE Raise /\ CloseSupervisor
    /\ UNCHANGED <<plan, runs, orphaned, rowVars, chainVars, pubVars, disturbed>>

Skips == IF plan.signal = "concurrent_retry" THEN fcase.batches # <<>>
         ELSE plan.actor = "worker" /\ camp.now

(* execute_concurrent_recovery starts two children and a barrier. *)
StartRecovery(ks) ==
    /\ camp.pc = "recover" /\ ~Skips /\ Spawn(ks)
    /\ Cardinality(ks) = (IF plan.signal = "concurrent_retry" THEN 2 ELSE 1)
    /\ camp' = [camp EXCEPT !.pc = "recovering", !.kids = ks]
    /\ UNCHANGED <<caseVars, runs, orphaned, rowVars, chainVars, wrk, pubVars, disturbed>>

(* Children that hang past the campaign's timeouts, over which it would    *)
(* raise with them alive, are not modelled.                                *)
EndRecovery ==
    /\ camp.pc = "recovering" /\ Ended /\ Reap(camp.kids)
    /\ LET ok == \A k \in camp.kids : kid[k].code = 0
       IN /\ fcase' = [fcase EXCEPT !.exits = Recorded(camp.kids),
                          !.batches = IF ok /\ plan.signal = "concurrent_retry"
                                      THEN Append(@, {kid[k].n : k \in camp.kids}) ELSE @]
          /\ IF ok THEN camp' = [camp EXCEPT !.pc = "clear", !.kids = {}] /\ UNCHANGED wrk
             ELSE Raise /\ CloseSupervisor
    /\ UNCHANGED <<plan, runs, orphaned, rowVars, chainVars, pubVars, disturbed>>

ClearActive ==
    /\ camp.pc = "clear" \/ (camp.pc = "recover" /\ Skips)
    /\ camp' = [camp EXCEPT !.pc = "reconcile", !.active = FALSE]
    /\ UNCHANGED <<caseVars, runs, kidVars, rowVars, chainVars, wrk, pubVars, disturbed>>

(* The checks of reconcile_fault_case. *)
OneLineage ==
    /\ Cardinality(lineage) = 1 /\ hashes = lineage
    /\ plan.actor = "worker" \/ \A i \in DOMAIN fcase.injected : lineage = {fcase.injected[i]}
Joined == plan.signal = "concurrent_retry" => \E n \in lineage : fcase.batches = <<{n}>>

(* mutant: the lineage of the delivery is not looked at *)
Valid_Lineage ==
    /\ attempt = "succeeded" /\ drow.st = "succeeded"
    /\ Len(fcase.injected) = 1
    /\ fcase.exits = (IF plan.signal = "transient_retry" THEN 0 ELSE 1)
    /\ Effects = 1 /\ fcase.before = "free"

Valid ==
    /\ attempt = "succeeded" /\ drow.st = "succeeded"
    /\ Len(fcase.injected) = 1
    /\ fcase.exits = (IF plan.signal = "transient_retry" THEN 0 ELSE 1)
    /\ OneLineage /\ Effects = 1 /\ fcase.before = "free"
    /\ plan.signal = "transient_retry" => retries > 0
    /\ Joined
    /\ plan.actor = "worker" => wrk.act = "succeeded"

(* finish; a campaign that validated all its cases publishes. *)
Reconcile ==
    /\ camp.pc = "reconcile"
    /\ LET verdict == IF Valid THEN "validated" ELSE "failed"
       IN /\ fcase' = [fcase EXCEPT !.st = verdict, !.result = verdict]
          /\ IF Valid THEN camp' = [camp EXCEPT !.pc = "freeze"] ELSE Raise
    /\ CloseSupervisor
    /\ UNCHANGED <<plan, runs, kidVars, rowVars, chainVars, pubVars, disturbed>>
-----------------------------------------------------------------------------
(* Publication: files written once, in order, a torn one never again. *)

(* What a run of freeze_fault_results has to say in file f of directory d. *)
Content(d, f, env) ==
    CASE Files[f] \in {"cases", "summary"} -> <<freezer'[d].read>>
      [] Files[f] = "environment" -> env
      [] Files[f] = "manifest" -> <<dirs[d][1], dirs[d][2], dirs[d][3]>>
      [] Files[f] = "verification" -> <<dirs[d][4], freezer'[d].read = "validated">>

(* The campaign reuses the environment it has published; a rebuild takes   *)
(* the frozen one when it is given.                                        *)
Environments(d) ==
    IF d = "frozen" THEN {IF dirs[d][3] \in {Absent, Torn} THEN <<"campaign">> ELSE dirs[d][3]}
    ELSE {<<"offline">>} \cup ({dirs["frozen"][3]} \ {Absent, Torn})

(* _write_immutable_text: what exists must be equal. *)
WriteImmutable(d, f, env) ==
    /\ dirs[d][f] \in {Absent, Content(d, f, env)}
    /\ dirs' = [dirs EXCEPT ![d][f] = Content(d, f, env)]

(* freeze_fault_results, from the campaign or offline (analyze): the       *)
(* ledger is read once; a result that is not valid is published too, and   *)
(* refused at the end.                                                     *)
Freeze(d) ==
    /\ fcase.result # "none" /\ freezer[d].at < Len(Files)
    /\ d = "frozen" => camp.pc = "freeze"
    /\ freezer' = [freezer EXCEPT ![d] = [at |-> @.at + 1,
                                          read |-> IF @.at = 0 THEN fcase.result ELSE @.read]]
    /\ \E env \in Environments(d) : WriteImmutable(d, freezer[d].at + 1, env)
    /\ camp' = IF d = "frozen" /\ freezer[d].at + 1 = Len(Files) THEN [camp EXCEPT !.pc = "down"] ELSE camp
    /\ UNCHANGED <<caseVars, runs, kidVars, rowVars, chainVars, wrk, figure, handoff, disturbed>>

(* The publisher dies: the file it was at may be torn, and the next run    *)
(* starts over.                                                            *)
Tear(d) ==
    /\ disturbed < MaxDisturb /\ disturbed' = disturbed + 1
    /\ 0 < freezer[d].at /\ freezer[d].at < Len(Files)
    /\ \E t \in {TRUE, FALSE} :
        dirs' = [dirs EXCEPT ![d][freezer[d].at + 1] = IF t /\ @ = Absent THEN Torn ELSE @]
    /\ freezer' = [freezer EXCEPT ![d].at = 0]
    /\ camp' = IF d = "frozen" THEN [camp EXCEPT !.pc = "down"] ELSE camp
    /\ UNCHANGED <<caseVars, runs, kidVars, rowVars, chainVars, wrk, figure, handoff>>

(* An offline rebuild that was refused, or gave an invalid result, may be  *)
(* started again in the same directory.                                    *)
Restart ==
    /\ freezer["rebuild"].at > 0 /\ handoff = Absent /\ dirs["rebuild"][5] # <<dirs["rebuild"][4], TRUE>>
    /\ freezer' = [freezer EXCEPT !["rebuild"].at = 0]
    /\ UNCHANGED <<caseVars, camp, runs, kidVars, rowVars, chainVars, wrk, dirs, figure, handoff, disturbed>>

(* verify_publication *)
Verified(d) ==
    /\ dirs[d][4] = <<dirs[d][1], dirs[d][2], dirs[d][3]>>
    /\ dirs[d][5] = <<dirs[d][4], TRUE>>

(* What the figure asks of the cases and of the environment they ran in. *)
CasesValid == dirs["frozen"][1] = <<"validated">>
EnvironmentValid(d) == dirs[d][3] = <<"campaign">>

(* load_final_recovery_source: a frozen source and its rebuild, equal byte *)
(* for byte.                                                               *)
FigureSource ==
    /\ \A d \in Directories : Verified(d) /\ EnvironmentValid(d)
    /\ dirs["frozen"] = dirs["rebuild"] /\ CasesValid

(* The output may not exist; the figure is bound to the summary. *)
BuildFigure ==
    /\ figure = Absent /\ FigureSource
    /\ figure' = dirs["frozen"][2]
    /\ UNCHANGED <<caseVars, camp, runs, kidVars, rowVars, chainVars, wrk, dirs, freezer, handoff, disturbed>>

(* build_handoff *)
BuildHandoff ==
    /\ handoff = Absent /\ \A d \in Directories : Verified(d)
    /\ dirs["frozen"][4] = dirs["rebuild"][4]
    /\ dirs["frozen"][2] = <<"validated">> /\ figure = dirs["frozen"][2]
    /\ handoff' = <<dirs["frozen"][4], figure>>
    /\ UNCHANGED <<caseVars, camp, runs, kidVars, rowVars, chainVars, wrk, dirs, freezer, figure, disturbed>>
-----------------------------------------------------------------------------
(* Disturbances. *)

(* The campaign is killed, alone or with everything it started. *)
Kill ==
    /\ camp.pc \notin {"down", "freeze"} /\ disturbed < MaxDisturb /\ disturbed' = disturbed + 1
    /\ Raise
    /\ \/ /\ kid' = [k \in Slots |-> Off] /\ UNCHANGED orphaned
          /\ CloseSupervisor
       \/ /\ orphaned' = TRUE /\ UNCHANGED kid
          /\ wrk' = [wrk EXCEPT !.supervised = FALSE]
    /\ UNCHANGED <<caseVars, runs, rowVars, chainVars, pubVars>>

(* An orphan's exit is seen by nobody. *)
OrphanEnds(k) ==
    /\ At(k, "exited") /\ k \notin camp.kids
    /\ Reap({k})
    /\ UNCHANGED <<caseVars, camp, runs, orphaned, rowVars, chainVars, wrk, pubVars, disturbed>>

WaitTimeout(k) ==
    /\ At(k, "wait") \/ At(k, "await")
    /\ disturbed < MaxDisturb /\ disturbed' = disturbed + 1
    /\ Exit(k, 1)
    /\ UNCHANGED <<caseVars, camp, runs, orphaned, rowVars, chainVars, wrk, pubVars>>

Child(k) ==
    \/ Strike(k) \/ StartRunner(k) \/ Begin(k) \/ ReadStage(k) \/ LookUp(k) \/ Resend(k)
    \/ Intend(k) \/ Sign(k) \/ Send(k) \/ Acknowledge(k) \/ Wait(k) \/ Check(k) \/ Persist(k)
    \/ CommitStage(k) \/ Finish(k) \/ Complete(k) \/ OrphanEnds(k)

Campaign ==
    \/ StartCampaign \/ EnterCase \/ Arm \/ EndInjection \/ EndRecovery \/ ClearActive \/ Reconcile
    \/ \E k \in Slots : StartInjection(k)
    \/ \E ks \in SUBSET Slots : StartRecovery(ks)

WorkerStep == Submit \/ Settle \/ Supervise
Publish == BuildFigure \/ BuildHandoff \/ Restart \/ \E d \in Directories : Freeze(d)

Next ==
    \/ \E k \in Slots : Child(k) \/ WaitTimeout(k)
    \/ Mine \/ Campaign \/ WorkerStep \/ Publish
    \/ Kill \/ \E d \in Directories : Tear(d)

(* Processes run, the chain mines, and the operator starts the campaign    *)
(* as often as allowed.                                                    *)
Spec ==
    /\ Init /\ [][Next]_fvars
    /\ \A k \in Slots : WF_fvars(Child(k))
    /\ WF_fvars(Mine) /\ WF_fvars(Campaign) /\ WF_fvars(WorkerStep)
    /\ WF_fvars(Freeze("frozen"))
-----------------------------------------------------------------------------
(* Properties *)

(* A validated case tells the truth: one fault fired, at the boundary the  *)
(* scenario names, the gateway took the delivery once, and unless a child  *)
(* outlived a killed campaign no process is left that could still change   *)
(* the one lineage of signed bytes the verdict is about                    *)
(* (reconcile_fault_case).                                                 *)
ValidatedIsTrue ==
    fcase.st = "validated" =>
        /\ Len(fcase.injected) = 1 /\ Effects = 1
        /\ ~orphaned => /\ drow = [st |-> "succeeded", n |-> 0] /\ lineage = {0} /\ hashes = {0}
                        /\ \A k \in Slots : At(k, "off")

(* A publication whose verification says valid holds the results of a      *)
(* validated case in every file, also when an earlier run of the publisher *)
(* died halfway or published another verdict; and a handoff is of such a   *)
(* publication (_write_immutable_text, verify_publication, build_handoff). *)
FrozenIsValidated ==
    /\ \A d \in Directories :
        dirs[d][5] = <<dirs[d][4], TRUE>> =>
            /\ fcase.st = "validated" /\ Verified(d)
            /\ dirs[d][1] = <<"validated">> /\ dirs[d][2] = <<"validated">>
    /\ handoff # Absent => fcase.st = "validated" /\ handoff = <<dirs["frozen"][4], <<"validated">>>>

(* A campaign that nothing disturbs validates its case, except when the    *)
(* delivery was mined between the question for its receipt and the bytes'  *)
(* second broadcast, or when the worker's exit or its last action was not  *)
(* written down by the time the case was reconciled (run_case, Supervise). *)
Entered == camp.pc = "enter"
Excused ==
    \/ disturbed > 0 \/ Cardinality(lineage) > 1
    \/ plan.actor = "worker" /\ fcase.st = "failed"
UndisturbedValidates == Entered ~> (fcase.st = "validated" \/ Excused)
=============================================================================
