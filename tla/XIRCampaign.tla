---------------------------- MODULE XIRCampaign ----------------------------
(***************************************************************************)
(* The formal multihop campaign: one script that runs the phases of the    *)
(* experiment one after the other, each under a runner, a Hyperlane        *)
(* observer, a resource monitor and the protocol writers; freezes and      *)
(* rebuilds the evidence of a phase; and publishes the whole.  A signal or *)
(* the death of a side process leaves a campaign that may be resumed; any  *)
(* other failure ends it and removes the chains.                           *)
(*                                                                         *)
(* A process lives for one execution of the script at most, so that its    *)
(* identity, which every piece of evidence carries, is the number of that  *)
(* execution.  A digest is the version of what it digests.                 *)
(*                                                                         *)
(* Left out: the lease (XIRWriterLease), the volumes (XIRVolumes), what    *)
(* happens inside an attempt (XIRNative), the contents of documents, the   *)
(* estimates, the pilot variant.  A host reboot is not among the faults:   *)
(* the lease cannot be continued in another boot.                          *)
(***************************************************************************)
EXTENDS Integers, Sequences, FiniteSets

CONSTANTS
    Plan,       \* the phases: each a set of attempts <<sequence, carrier>>
    MaxStops    \* bound on signals, deaths of side processes, failed commands
                \* and edits of an input together

VARIABLES
    pc,         \* the step of the script, or how it ended
    ph,         \* the phase it is at
    run,        \* the execution of the script this is
    files,      \* [phase -> its artefacts on disk]
    procs,      \* the runner, observer and monitor that live
    agents,     \* the protocol writers (relayer, LayerZero worker) live
    volumes,    \* the validators' volumes exist
    att,        \* [phase -> [attempt -> what happened and what was recorded]]
    inputs,     \* version of the campaign's inputs on disk
    bound,      \* [phase -> its authority: inputs and prior handoffs]
    frozen,     \* [phase -> the inputs its frozen source copied]
    excluded,   \* [phase -> the sequences its incident inventory excludes]
    handoff,    \* [phase -> the handoff document: which execution, which prior]
    products,   \* the gateway and figure publications that exist
    approved,   \* the visual approval of the figures
    public,     \* what the public tree holds
    stops,      \* faults so far
    gap         \* a fault met a window that no resumption survives

evidence == <<att, inputs, bound, frozen, excluded, handoff>>
final == <<products, approved, public>>
vars == <<pc, ph, run, files, procs, agents, volumes, evidence, final, stops, gap>>

Phases == 1..Len(Plan)
Last == Len(Plan)
Planned(p) == Plan[p]
Hyperlane(p) == {a \in Planned(p) : a[2] = "H"}
LayerZero(p) == {a \in Planned(p) : a[2] = "L"}
Sequences(p) == {a[1] : a \in Planned(p)}
Block(p, s) == {a \in Planned(p) : a[1] = s}

(* st: 0 planned, 1 intended, 2 dispatched, 3 carried, 4 carrier           *)
(* transaction mined, 5 delivered, 6 succeeded.  span: the executions in   *)
(* which any of it happened.  ev: those in which the runner recorded an    *)
(* event.  sub, fin: the observations of the carrier transaction; orphan:  *)
(* an observation of one that was replaced.                                *)
Fresh == [st |-> 0, span |-> {}, ev |-> {}, sub |-> {}, fin |-> {}, orphan |-> FALSE]
None == [by |-> 0, prior |-> <<>>]
NoAuthority == [inputs |-> -1, prior |-> <<>>]

(* After prepare_environment, acquire_lease and deploy_and_preflight: the  *)
(* preflight document binds version 0 of every input.                      *)
Init ==
    /\ pc = "launch" /\ ph = 1 /\ run = 1
    /\ files = [p \in Phases |-> {}]
    /\ procs = {} /\ agents = TRUE /\ volumes = TRUE
    /\ att = [p \in Phases |-> [a \in Planned(p) |-> Fresh]]
    /\ inputs = 0
    /\ bound = [p \in Phases |-> NoAuthority]
    /\ frozen = [p \in Phases |-> -1]
    /\ excluded = [p \in Phases |-> {}]
    /\ handoff = [p \in Phases |-> None]
    /\ products = {} /\ approved = FALSE /\ public = <<>>
    /\ stops = 0 /\ gap = FALSE

-----------------------------------------------------------------------------
(* Ways out of the script. *)

Ended == {"pending", "abandoned", "ended"}
Running == pc \notin Ended

(* cleanup_multihop_runtime with RESUME_REQUIRED: the lease is kept.  The   *)
(* cleanup is taken to succeed; one that fails blocks the lease instead     *)
(* (XIRWriterLease, Retain), and nothing resumes until it is audited.       *)
Pend == pc' = "pending" /\ procs' = {} /\ agents' = FALSE /\ UNCHANGED volumes

(* The same without: the volumes are removed and the lease released. *)
Abandon == pc' = "abandoned" /\ procs' = {} /\ agents' = FALSE /\ volumes' = FALSE

Goto(next) == pc' = next /\ UNCHANGED <<procs, agents, volumes>>

Has(f) == f \in files[ph]
Put(fs) == files' = [files EXCEPT ![ph] = @ \union fs]

-----------------------------------------------------------------------------
(* run_phase: launching. *)

(* A fresh phase.  The observer refuses an output that exists. *)
Launch ==
    /\ pc = "launch" /\ ~Has("db") /\ ~Has("observer")
    /\ Put({"observer", "inputs"})
    /\ procs' = {"observer", "monitor"} /\ pc' = "ready"
    /\ UNCHANGED <<ph, run, agents, volumes, evidence, final, stops, gap>>

LaunchRefused ==
    /\ pc = "launch" /\ ~Has("db") /\ Has("observer")
    /\ Abandon
    /\ UNCHANGED <<ph, run, files, evidence, final, stops, gap>>

(* A resumed one: the observer appends, its prior completion is put aside. *)
LaunchResumed ==
    /\ pc = "launch" /\ Has("db")
    /\ files' = [files EXCEPT ![ph] = @ \ {"completion"}]
    /\ procs' = {"observer", "monitor"} /\ pc' = "ready"
    /\ UNCHANGED <<ph, run, agents, volumes, evidence, final, stops, gap>>

(* Both ready: the stopped runner is continued. *)
Continue ==
    /\ pc = "ready"
    /\ procs' = procs \union {"starting"} /\ pc' = "run"
    /\ UNCHANGED <<ph, run, files, agents, volumes, evidence, final, stops, gap>>

(* verify_prior_phase_handoffs with the complete trees. *)
PriorHandoffs(p) == [q \in 1..(p - 1) |-> handoff[q].by]

(* run_multihop_preflight: what its document binds, and what it asks of    *)
(* the running services.                                                   *)
PreflightInputs == 0
ServicesLive == agents

(* verify_multihop_preflight_document: every input still is what the       *)
(* preflight saw, and the preflight repeated now answers the same.         *)
PreflightHolds == inputs = PreflightInputs /\ ServicesLive

(* verify_multihop_review_gate, of the sources and the preregistration. *)
ReviewGate == inputs = PreflightInputs

(* The phase authority: written once, afterwards compared. *)
Authority == [inputs |-> inputs, prior |-> PriorHandoffs(ph)]
AuthorityHolds == Has("authority") => bound[ph] = Authority

StartRunner ==
    /\ pc = "run" /\ "starting" \in procs
    /\ ReviewGate /\ PreflightHolds /\ AuthorityHolds
    /\ procs' = (procs \ {"starting"}) \union {"runner"}
    /\ Put({"authority", "db"}) /\ bound' = [bound EXCEPT ![ph] = Authority]
    /\ UNCHANGED <<pc, ph, run, agents, volumes, att, inputs, frozen, excluded, handoff,
                   final, stops, gap>>

(* Its refusal is a terminal failure of the phase. *)
RunnerRefuses ==
    /\ pc = "run" /\ "starting" \in procs
    /\ ~(ReviewGate /\ PreflightHolds /\ AuthorityHolds)
    /\ Abandon
    /\ UNCHANGED <<ph, run, files, evidence, final, stops, gap>>

-----------------------------------------------------------------------------
(* The attempts of the phase, while the processes they need live. *)

Set(a, r) == att' = [att EXCEPT ![ph] = [@ EXCEPT ![a] = r]]
Here(a) == att[ph][a]
Step(a, st) == [Here(a) EXCEPT !.st = st, !.span = @ \union {run}]

(* The identity of the process that records evidence. *)
Identity == {run}

Working == UNCHANGED <<pc, ph, run, files, procs, agents, volumes, inputs, bound, frozen,
                       excluded, handoff, final, stops, gap>>

RunnerLives == "runner" \in procs

(* The runner: an event precedes every submission, and INSERT OR IGNORE    *)
(* keeps the first of a kind.  A submission stop admits no new attempt.    *)
Intend(a) ==
    /\ RunnerLives /\ pc = "run" /\ Here(a).st = 0
    /\ Set(a, [Step(a, 1) EXCEPT !.ev = @ \union Identity]) /\ Working

Dispatch(a) ==
    /\ RunnerLives /\ Here(a).st = 1
    /\ Set(a, Step(a, 2)) /\ Working

Deliver(a) ==
    /\ RunnerLives /\ Here(a).st = 4
    /\ Set(a, Step(a, 5)) /\ Working

Succeed(a) ==
    /\ RunnerLives /\ Here(a).st = 5
    /\ Set(a, [Step(a, 6) EXCEPT !.ev = @ \union Identity]) /\ Working

(* The carriers.  The worker records what it submitted. *)
Carry(a) ==
    /\ agents /\ Here(a).st = 2
    /\ Set(a, [Step(a, 3) EXCEPT !.sub = IF a[2] = "L" THEN @ \union Identity ELSE @])
    /\ Working

Mine(a) ==
    /\ Running /\ Here(a).st = 3
    /\ Set(a, Step(a, 4)) /\ Working

(* The worker's own success observation; the runner does not wait for it. *)
RecordSuccess(p, a) ==
    /\ agents /\ a[2] = "L" /\ att[p][a].st >= 4 /\ att[p][a].fin = {}
    /\ att' = [att EXCEPT ![p] = [@ EXCEPT ![a].fin = Identity]] /\ Working

(* The observer sees a relayer transaction while it is pending, or first   *)
(* in its block: then both observations are taken at once.                 *)
ObservePending(a) ==
    /\ "observer" \in procs /\ a[2] = "H" /\ Here(a).st = 3 /\ Here(a).sub = {}
    /\ Set(a, [Here(a) EXCEPT !.sub = Identity]) /\ Working

ObserveMined(a) ==
    /\ "observer" \in procs /\ a[2] = "H" /\ Here(a).st >= 4 /\ Here(a).fin = {}
    /\ Set(a, [Here(a) EXCEPT !.sub = IF @ = {} THEN Identity ELSE @, !.fin = Identity])
    /\ Working

-----------------------------------------------------------------------------
(* run_phase: supervising and the tail. *)

(* A writer, the observer or the monitor dies, or the monitor sees that    *)
(* the disk is full: no new attempt, the runner is given time, then the    *)
(* campaign waits for its resumption.                                      *)
SideProcessDies(x) ==
    /\ pc = "run" /\ stops < MaxStops /\ stops' = stops + 1
    /\ \/ x = "agents" /\ agents /\ agents' = FALSE /\ UNCHANGED procs
       \/ x \in procs /\ procs' = procs \ {x} /\ UNCHANGED agents
       \/ x = "disk" /\ "monitor" \in procs /\ UNCHANGED <<procs, agents>>
    /\ pc' = "drain"
    /\ UNCHANGED <<ph, run, files, volumes, evidence, final, gap>>

Stranded == Has("observer") /\ ~Has("db")

Drained ==
    /\ pc = "drain" /\ Pend
    /\ gap' = (gap \/ Stranded)
    /\ UNCHANGED <<ph, run, files, evidence, final, stops>>

(* phase_runner_complete, and the runner's own exit. *)
RunnerDone ==
    /\ pc = "run" /\ RunnerLives /\ \A a \in Planned(ph) : Here(a).st = 6
    /\ procs' = procs \ {"runner"} /\ pc' = "tail"
    /\ UNCHANGED <<ph, run, files, agents, volumes, evidence, final, stops, gap>>

(* The monitor's last sample covers the runner's last event; the segments  *)
(* are merged; the end blocks are captured once.                           *)
MonitorDone ==
    /\ pc = "tail"
    /\ procs' = procs \ {"monitor"} /\ Put({"segments", "end"}) /\ pc' = "observe"
    /\ UNCHANGED <<ph, run, agents, volumes, evidence, final, stops, gap>>

(* The observer has scanned every chain to its end block. *)
Scanned(p) == \A a \in Hyperlane(p) : att[p][a].fin # {}

ObserverDone ==
    /\ pc = "observe" /\ Scanned(ph)
    /\ procs' = procs \ {"observer"} /\ Put({"completion"}) /\ pc' = "writers"
    /\ UNCHANGED <<ph, run, agents, volumes, evidence, final, stops, gap>>

(* Nothing waits for the worker's observations. *)
WorkerSettled(p) == \A a \in LayerZero(p) : att[p][a].fin # {}

StopWriters ==
    /\ pc = "writers"
    /\ agents' = FALSE /\ pc' = "post" /\ UNCHANGED <<procs, volumes>>
    /\ gap' = (gap \/ ~WorkerSettled(ph))
    /\ UNCHANGED <<ph, run, files, evidence, final, stops>>

-----------------------------------------------------------------------------
(* postprocess_phase. *)

Outputs == {"processes", "traces", "audit", "incidents", "frozen", "rebuilds"}

(* quarantine_partial_phase_outputs. *)
Quarantine_Nothing ==
    /\ pc = "post" /\ Goto("processes")
    /\ UNCHANGED <<ph, run, files, evidence, final, stops, gap>>

Quarantine ==
    /\ pc = "post" /\ Goto("processes")
    /\ files' = [files EXCEPT ![ph] = @ \ Outputs]
    /\ UNCHANGED <<ph, run, evidence, final, stops, gap>>

(* load_hyperlane_observer_events without a tail: every transaction has    *)
(* one submission and one mined observation.                               *)
LedgerComplete(p) ==
    \A a \in Hyperlane(p) :
        /\ ~att[p][a].orphan
        /\ Cardinality(att[p][a].sub) = 1 /\ Cardinality(att[p][a].fin) = 1

(* _verify_observer_completion. *)
ObserverComplete(p) == "completion" \in files[p] /\ "end" \in files[p] /\ Scanned(p)

(* capture_hyperlane_processes. *)
ProcessesBound(p) == LedgerComplete(p) /\ Scanned(p)

(* reconstruct_attempt_metrics: the attempts are the planned ones and      *)
(* succeeded; their stages, carrier transactions and events are there; the *)
(* identities computed anew are the recorded ones.                         *)
AttemptsExact(p) == \A a \in Planned(p) : att[p][a].st = 6
StagesExact(p) == \A a \in Planned(p) : att[p][a].st >= 5
HyperlaneExact(p) == "processes" \in files[p] /\ Scanned(p)
LayerZeroExact_Submitted(p) == \A a \in LayerZero(p) : att[p][a].sub # {}
LayerZeroExact(p) == \A a \in LayerZero(p) : att[p][a].sub # {} /\ att[p][a].fin # {}
TracesExact(p) == "traces" \in files[p]
EventPairs(p) == \A a \in Planned(p) : att[p][a].ev # {}
Reconstructed(p) ==
    /\ AttemptsExact(p) /\ StagesExact(p) /\ HyperlaneExact(p) /\ LayerZeroExact(p)
    /\ EventPairs(p)

(* reconcile_effects and validate_effect_audit: between the baseline and   *)
(* the head the receivers show one effect of every attempt, no other.      *)
Effects(p) == {a \in Planned(p) : att[p][a].st >= 5}
ExpectedEffects(p) == {a \in Planned(p) : att[p][a].st = 6}
EffectsExact(p) == Effects(p) = Planned(p) /\ ExpectedEffects(p) = Planned(p)

(* capture_multihop_incidents: a sequence is excluded as a whole when any  *)
(* of its routes has evidence of two processes of a kind.                  *)
RunnerRuns(p, s) == UNION {att[p][a].ev : a \in Block(p, s)}
WorkerRuns(p, s) ==
    UNION {att[p][a].sub \union att[p][a].fin : a \in Block(p, s) \intersect LayerZero(p)}
RelayerRuns(p, s) ==
    UNION {att[p][a].sub \union att[p][a].fin : a \in Block(p, s) \intersect Hyperlane(p)}

Interrupted_CarriersOnly(p, s) ==
    Cardinality(WorkerRuns(p, s)) > 1 \/ Cardinality(RelayerRuns(p, s)) > 1

Interrupted(p, s) ==
    \/ Cardinality(RunnerRuns(p, s)) > 1
    \/ Cardinality(WorkerRuns(p, s)) > 1
    \/ Cardinality(RelayerRuns(p, s)) > 1

Incidents(p) == {s \in Sequences(p) : Interrupted(p, s)}

(* latency_clock_valid, and the sequences the published estimates keep. *)
ClockValid(p, a) == Cardinality(att[p][a].sub \union att[p][a].fin) = 1
Retained(p) ==
    {s \in Sequences(p) : s \notin excluded[p] /\ \A a \in Block(p, s) : ClockValid(p, a)}

(* _validate_phase_authority, of the live and again of the frozen files. *)
AuthorityValid(p, docs) == bound[p] = [inputs |-> docs, prior |-> PriorHandoffs(p)]

(* _verify_resource_segment_evidence. *)
SegmentsComplete(p) == "segments" \in files[p]

(* _freeze_private_raw_evidence: everything that the publication withholds *)
(* but binds.                                                              *)
PrivateRawComplete(p) == {"db", "authority", "observer", "processes", "traces"} \subseteq files[p]

(* freeze_multihop_sources refuses an output that exists. *)
FreezeAdmits(p) ==
    /\ "frozen" \notin files[p] /\ AuthorityValid(p, inputs)
    /\ SegmentsComplete(p) /\ ObserverComplete(p) /\ PrivateRawComplete(p)
    /\ EffectsExact(p) /\ AttemptsExact(p)

(* The inputs are copied while the live ones are read. *)
FrozenCopy == inputs

(* _verify_frozen_source. *)
FrozenHolds(p) == AuthorityValid(p, frozen[p]) /\ SegmentsComplete(p) /\ ObserverComplete(p)

(* publish_multihop_analysis, of the frozen source. *)
AnalysisValid(p) ==
    Reconstructed(p) /\ TracesExact(p) /\ EffectsExact(p) /\ "incidents" \in files[p]

(* rebuild_multihop_publication, three times, from the frozen source: the  *)
(* source as frozen, no output yet, the analysis valid.                    *)
RebuildAdmits(p) ==
    "rebuilds" \notin files[p] /\ FrozenHolds(p) /\ AnalysisValid(p)

(* compare_multihop_rebuilds and _build_multihop_handoff_document. *)
HandoffAdmits(p) == "rebuilds" \in files[p] /\ FrozenHolds(p)
HandoffDocument(p) == [by |-> run, prior |-> bound[p].prior]

(* _verify_nested_phase_chain and the approval, before anything is public. *)
ProductsComplete == products = {"gateway", "figures"}
ChainHolds ==
    /\ approved /\ ProductsComplete
    /\ \A p \in Phases :
        /\ "handoff" \in files[p] /\ "torn" \notin files[p]
        /\ handoff[p].prior = PriorHandoffs(p)

PostSteps == <<"processes", "traces", "audit", "incidents", "freeze", "rebuild", "finalize">>
Output == [processes |-> "processes", traces |-> "traces", audit |-> "audit",
           incidents |-> "incidents", freeze |-> "frozen", rebuild |-> "rebuilds",
           finalize |-> "handoff"]
After == [processes |-> "traces", traces |-> "audit", audit |-> "incidents",
          incidents |-> "freeze", freeze |-> "rebuild", rebuild |-> "finalize",
          finalize |-> "restart"]

Check(step) ==
    CASE step = "processes" -> ProcessesBound(ph)
      [] step = "traces" -> Reconstructed(ph)
      [] step = "audit" -> EffectsExact(ph)
      [] step = "incidents" -> LayerZeroExact(ph)
      [] step = "freeze" -> FreezeAdmits(ph)
      [] step = "rebuild" -> RebuildAdmits(ph)
      [] step = "finalize" -> HandoffAdmits(ph)

Post(step) ==
    /\ pc = step /\ Check(step) /\ Goto(After[step]) /\ Put({Output[step]})
    /\ excluded' = [excluded EXCEPT ![ph] = IF step = "incidents" THEN Incidents(ph) ELSE @]
    /\ frozen' = [frozen EXCEPT ![ph] = IF step = "freeze" THEN FrozenCopy ELSE @]
    /\ handoff' = [handoff EXCEPT ![ph] =
                      IF step = "finalize" THEN HandoffDocument(ph) ELSE @]
    /\ UNCHANGED <<ph, run, att, inputs, bound, final, stops, gap>>

PostRefused(step) ==
    /\ pc = step /\ ~Check(step) /\ Abandon
    /\ UNCHANGED <<ph, run, files, evidence, final, stops, gap>>

(* The writers run again for the next phase. *)
NextPhase ==
    /\ pc = "restart"
    /\ IF ph < Last THEN ph' = ph + 1 /\ agents' = TRUE /\ pc' = "launch"
                    ELSE pc' = "figures" /\ UNCHANGED <<ph, agents>>
    /\ UNCHANGED <<run, files, procs, volumes, evidence, final, stops, gap>>

-----------------------------------------------------------------------------
(* publish_gateway_and_figures and finalize_stop_and_publish. *)

(* What an earlier execution built of them only in part is put aside.      *)
BuildGateway ==
    /\ pc = "figures" /\ ~ProductsComplete
    /\ products' = {"gateway"} /\ Goto("render")
    /\ UNCHANGED <<ph, run, files, evidence, approved, public, stops, gap>>

(* From the gateway publication and the rebuilt analysis of the last phase. *)
BuildFigures ==
    /\ pc = "render" /\ "gateway" \in products /\ HandoffAdmits(Last)
    /\ products' = products \union {"figures"} /\ Goto("figures")
    /\ UNCHANGED <<ph, run, files, evidence, approved, public, stops, gap>>

(* No approval yet: exit 75. *)
AwaitApproval ==
    /\ pc = "figures" /\ ProductsComplete /\ ~approved
    /\ Pend
    /\ UNCHANGED <<ph, run, files, evidence, final, stops, gap>>

Approve ==
    /\ ProductsComplete /\ ~approved /\ approved' = TRUE
    /\ UNCHANGED <<pc, ph, run, files, procs, agents, volumes, evidence, products, public,
                   stops, gap>>

(* stop_campaign_services: the volumes go before anything is public. *)
RemoveServices ==
    /\ pc = "figures" /\ ProductsComplete /\ approved
    /\ agents' = FALSE /\ procs' = {} /\ volumes' = FALSE /\ pc' = "publish"
    /\ UNCHANGED <<ph, run, files, evidence, final, stops, gap>>

(* build_publication_handoff, then sync_exact_publication, which renames a *)
(* complete staging tree.                                                  *)
BuildHandoff ==
    /\ pc = "publish" /\ ~Has("final") /\ ChainHolds
    /\ Put({"final"}) /\ Goto("sync")
    /\ UNCHANGED <<ph, run, evidence, final, stops, gap>>

Sync ==
    /\ pc = "sync" /\ public = <<>> /\ ChainHolds
    /\ public' = [p \in Phases |-> handoff[p]]
    /\ Goto("release")
    /\ UNCHANGED <<ph, run, files, evidence, products, approved, stops, gap>>

Release ==
    /\ pc = "release" /\ Goto("ended")
    /\ UNCHANGED <<ph, run, files, evidence, final, stops, gap>>

-----------------------------------------------------------------------------
(* Faults and the resumption. *)

(* SIGINT or SIGTERM.  The command under way may leave half an output: of  *)
(* post-processing it is put aside later, a final handoff is not.          *)
Interrupt ==
    /\ Running /\ stops < MaxStops /\ stops' = stops + 1
    /\ Pend
    /\ \E torn \in IF pc = "finalize" THEN {{}, {"handoff", "torn"}}
                   ELSE IF pc \in DOMAIN Output THEN {{}, {Output[pc]}}
                   ELSE {{}} :
          /\ files' = [files EXCEPT ![ph] = @ \union torn]
          /\ gap' = (gap \/ Stranded \/ ~volumes \/ "torn" \in torn)
    /\ UNCHANGED <<ph, run, evidence, final>>

(* A command of post-processing that asks the chains fails. *)
CommandFails ==
    /\ pc \in {"processes", "traces", "audit"}
    /\ stops < MaxStops /\ stops' = stops + 1
    /\ Abandon /\ gap' = TRUE
    /\ UNCHANGED <<ph, run, files, evidence, final>>

(* Somebody edits an input of the campaign. *)
Edit ==
    /\ Running /\ inputs = 0 /\ stops < MaxStops /\ stops' = stops + 1
    /\ inputs' = 1 /\ gap' = TRUE
    /\ UNCHANGED <<pc, ph, run, files, procs, agents, volumes, att, bound, frozen, excluded,
                   handoff, final>>

(* A pending relayer transaction may be gone with its node's pool; the     *)
(* relayer then signs another one.                                         *)
Lost(r) == [r EXCEPT !.st = 2, !.orphan = @ \/ r.sub # {}, !.sub = {}]

HandoffVerifies(p) == "torn" \notin files[p]

(* resume_main.  Resuming a campaign that only awaits the approval ends at *)
(* AwaitApproval again: the operator approves first.                       *)
Resume ==
    /\ pc = "pending" /\ volumes /\ ReviewGate /\ (ProductsComplete => approved)
    /\ \A p \in Phases : "handoff" \in files[p] => HandoffVerifies(p)
    /\ run' = run + 1 /\ agents' = TRUE
    /\ LET todo == {p \in Phases : "handoff" \notin files[p]}
           p == IF todo = {} THEN Last ELSE CHOOSE q \in todo : \A r \in todo : q <= r
       IN /\ ph' = p
          /\ pc' = IF todo = {} THEN "figures" ELSE "launch"
          /\ \E lost \in SUBSET {a \in Hyperlane(p) : att[p][a].st = 3} :
                /\ att' = [att EXCEPT ![p] =
                              [a \in Planned(p) |-> IF a \in lost THEN Lost(@[a]) ELSE @[a]]]
                /\ gap' = (gap \/ \E a \in lost : att[p][a].sub # {})
    /\ UNCHANGED <<files, procs, volumes, inputs, bound, frozen, excluded, handoff, final,
                   stops>>

ResumeRefused ==
    /\ pc = "pending"
    /\ ~volumes \/ ~ReviewGate \/ \E p \in Phases : ~HandoffVerifies(p)
    /\ Abandon
    /\ UNCHANGED <<ph, run, files, evidence, final, stops, gap>>

-----------------------------------------------------------------------------
Script ==
    \/ Launch \/ LaunchRefused \/ LaunchResumed \/ Continue \/ StartRunner \/ RunnerRefuses
    \/ Drained \/ RunnerDone \/ MonitorDone \/ ObserverDone \/ StopWriters \/ Quarantine
    \/ \E i \in 1..Len(PostSteps) : Post(PostSteps[i]) \/ PostRefused(PostSteps[i])
    \/ NextPhase \/ BuildGateway \/ BuildFigures \/ AwaitApproval \/ RemoveServices \/ BuildHandoff
    \/ Sync \/ Release

Attempt ==
    \E a \in Planned(ph) :
        \/ Intend(a) \/ Dispatch(a) \/ Carry(a) \/ Mine(a)
        \/ ObservePending(a) \/ ObserveMined(a) \/ Deliver(a) \/ Succeed(a)

Worker == \E p \in Phases : \E a \in LayerZero(p) : RecordSuccess(p, a)

Operator == Approve \/ Resume \/ ResumeRefused

Fault ==
    \/ \E x \in {"agents", "observer", "monitor", "disk"} : SideProcessDies(x)
    \/ Interrupt \/ CommandFails \/ Edit

Next == Script \/ Attempt \/ Worker \/ Operator \/ Fault

(* The processes are not starved and an operator resumes and approves; the *)
(* script waits for the processes, so each side needs its own fairness.    *)
Spec == Init /\ [][Next]_vars /\ WF_vars(Script) /\ WF_vars(Operator)
             /\ WF_vars(Attempt) /\ WF_vars(Worker)

-----------------------------------------------------------------------------
Steps == {"launch", "ready", "run", "drain", "tail", "observe", "writers", "post", "restart",
          "figures", "render", "publish", "sync", "release"} \union DOMAIN Output
Runs == 1..(MaxStops + 2)

TypeOK ==
    /\ pc \in Steps \union Ended /\ ph \in Phases /\ run \in Runs
    /\ \A p \in Phases :
        /\ files[p] \subseteq {"observer", "inputs", "authority", "db", "segments", "end",
                               "completion", "handoff", "torn", "final"} \union Outputs
        /\ \A a \in Planned(p) :
            /\ att[p][a].st \in 0..6 /\ att[p][a].orphan \in BOOLEAN
            /\ att[p][a].span \union att[p][a].ev \union att[p][a].sub
                  \union att[p][a].fin \subseteq Runs
        /\ \/ bound[p] = NoAuthority
           \/ bound[p].inputs \in {0, 1} /\ DOMAIN bound[p].prior = 1..(p - 1)
        /\ frozen[p] \in {-1, 0, 1} /\ excluded[p] \subseteq Sequences(p)
        /\ handoff[p].by \in Runs \union {0}
    /\ procs \subseteq {"observer", "monitor", "starting", "runner"}
    /\ agents \in BOOLEAN /\ volumes \in BOOLEAN /\ inputs \in {0, 1}
    /\ products \subseteq {"gateway", "figures"} /\ approved \in BOOLEAN
    /\ stops \in 0..MaxStops /\ gap \in BOOLEAN

HandedOff(p) == "handoff" \in files[p] /\ "torn" \notin files[p]

(* A sequence that the published estimates keep was carried out, on every  *)
(* one of its routes and from the first intent to the last observation,    *)
(* within a single execution of the campaign: whatever a restart touched   *)
(* is excluded (capture_multihop_incidents), although the observer and the *)
(* worker may have seen both boundaries of a transaction in one life and   *)
(* only the runner's first event remembers the other.                      *)
RetainedIsUninterrupted ==
    \A p \in Phases : HandedOff(p) =>
        \A s \in Retained(p) : Cardinality(UNION {att[p][a].span : a \in Block(p, s)}) = 1

(* What is public was run, frozen and rebuilt under the inputs that the    *)
(* preflight examined, has one effect of every planned attempt, and each   *)
(* phase names exactly the handoffs of its predecessors that are public    *)
(* with it.                                                                *)
PublishedIsBound ==
    public # <<>> =>
        \A p \in Phases :
            /\ bound[p].inputs = 0 /\ frozen[p] = 0 /\ EffectsExact(p)
            /\ public[p] = handoff[p]
            /\ public[p].prior = [q \in 1..(p - 1) |-> public[q].by]

(* The evidence of a phase does not change once its sources are frozen,    *)
(* although the worker and the relayer run again for the next phase on the *)
(* same databases and chains.                                              *)
FrozenIsFinal ==
    [][\A p \in Phases : "frozen" \in files[p] => att'[p] = att[p]]_vars

(* A campaign that its operator keeps resuming is published, unless a      *)
(* fault met one of the windows that no resumption survives: before the    *)
(* runner's database of a fresh phase exists; half a final handoff; after  *)
(* the volumes are gone; a failed command of post-processing; writers      *)
(* stopped before the worker recorded its success; an observed relayer     *)
(* transaction replaced by another; or an input was edited.                *)
Published == public # <<>> \/ gap
=============================================================================
