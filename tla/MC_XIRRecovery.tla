---------------------------- MODULE MC_XIRRecovery ----------------------------
(***************************************************************************)
(* What must finish after failures, for TLC: a run of the Go runtime, the  *)
(* bootstrap of the validators' volumes and the campaign script.  They     *)
(* share no state; the initial state chooses which of them, `part`, the    *)
(* behaviour is about.  The ledger then stays as it began, and the         *)
(* variables of the others are Absent.  Two volumes are planned: a first   *)
(* one is complete when the second one fails.                              *)
(***************************************************************************)
EXTENDS XIRLedger

CONSTANT MaxDisturbances    \* of a run: deaths, failed calls and price changes together

VARIABLES
    part, repricings,
    journal, attested, failure, recovery, docker, content, up, tool, vfaults, vcrashes, others,
    pc, ph, run, files, procs, agents, volumes, att, inputs, bound, frozen, excluded, handoff,
    products, approved, public, stops, gap

(* One signing account for every stage. *)
OneAccount == [s \in 1..Stages |-> "runner"]

Vol == INSTANCE XIRVolumes WITH
    faults <- vfaults, crashes <- vcrashes,
    N <- 2, MaxFaults <- 1, MaxCrashes <- 1, MaxOthers <- 1

(* A smoke phase with one attempt, then one with a sequence on two routes. *)
Campaign == INSTANCE XIRCampaign WITH
    MaxStops <- 2,
    Plan <- << {<<1, "L">>}, {<<1, "H">>, <<1, "L">>} >>

Absent == 0
NoVolumes ==
    /\ journal = Absent /\ attested = Absent /\ failure = Absent /\ recovery = Absent
    /\ docker = Absent /\ content = Absent /\ up = Absent /\ tool = Absent
    /\ vfaults = Absent /\ vcrashes = Absent /\ others = Absent
NoCampaign ==
    /\ pc = Absent /\ ph = Absent /\ run = Absent /\ files = Absent /\ procs = Absent
    /\ agents = Absent /\ volumes = Absent /\ att = Absent /\ inputs = Absent
    /\ bound = Absent /\ frozen = Absent /\ excluded = Absent /\ handoff = Absent
    /\ products = Absent /\ approved = Absent /\ public = Absent /\ stops = Absent
    /\ gap = Absent

NoLedger == Init /\ price = CHOOSE p \in Prices : TRUE
LedgerInit == part = "ledger" /\ Init /\ NoVolumes /\ NoCampaign

MCInit ==
    /\ repricings = 0
    /\ \/ LedgerInit
       \/ part = "volumes" /\ NoLedger /\ Vol!Init /\ NoCampaign
       \/ part = "campaign" /\ NoLedger /\ Campaign!Init /\ NoVolumes

lvars == <<vars, repricings>>
vvars == <<journal, attested, failure, recovery, docker, content, up, tool, vfaults, vcrashes,
           others>>
cvars == <<pc, ph, run, files, procs, agents, volumes, att, inputs, bound, frozen, excluded,
           handoff, products, approved, public, stops, gap>>

LedgerNext ==
    /\ Next
    /\ repricings' = IF price' = price THEN repricings ELSE repricings + 1
    /\ faults' + crashes' + repricings' <= MaxDisturbances

MCNext ==
    \/ part = "ledger" /\ LedgerNext /\ UNCHANGED <<part, vvars, cvars>>
    \/ part = "volumes" /\ Vol!Next /\ UNCHANGED <<part, lvars, cvars>>
    \/ part = "campaign" /\ Campaign!Next /\ UNCHANGED <<part, lvars, vvars>>

(* The ledger's process takes its next step, the operator starts it again  *)
(* and the chain mines; a process of the bootstrap takes its steps and the *)
(* operator runs the recovery again, as the failure message asks; the      *)
(* script goes on, is resumed, and attempts and workers proceed.           *)
LedgerFairness ==
    /\ WF_vars(part = "ledger" /\ StartRun)
    /\ WF_vars(part = "ledger" /\ ProcessStep)
    /\ WF_vars(part = "ledger" /\ \E tx \in pool : Mine(tx))

MCSpec ==
    /\ MCInit /\ [][MCNext]_<<part, lvars, vvars, cvars>> /\ LedgerFairness
    /\ WF_vvars(part = "volumes" /\ Vol!Stage)
    /\ WF_vvars(part = "volumes" /\ Vol!Clean)
    /\ WF_vvars(part = "volumes" /\ Vol!Recover)
    /\ WF_cvars(part = "campaign" /\ Campaign!Script)
    /\ WF_cvars(part = "campaign" /\ Campaign!Operator)
    /\ WF_cvars(part = "campaign" /\ Campaign!Attempt)
    /\ WF_cvars(part = "campaign" /\ Campaign!Worker)

(* Runs of the Go runtime alone. *)
LedgerSpec ==
    repricings = 0 /\ LedgerInit /\ [][MCNext]_<<part, lvars, vvars, cvars>> /\ LedgerFairness
-----------------------------------------------------------------------------
(* Ledger: every attempt settles, in this run of the process or in a later *)
(* one, wherever it died and whichever call failed, unless a nonce was     *)
(* lost (Run, runAttempt and Execute resumed).                             *)
RunSettles ==
    \A t \in 1..Attempts : []<>(part = "ledger" => Settled(t) \/ NonceGap)

(* Volumes: a transaction that is unfinished is committed or recovered in  *)
(* the end - a journal is never unwritten, so it does not stop being       *)
(* unfinished otherwise - and no step of the tool touches what carries     *)
(* other labels on the way (run, recover).                                 *)
VolumesSettle ==
    /\ []<>(part = "volumes" /\ Vol!Unfinished => Vol!Settled)
    /\ [][part = "volumes" /\ tool' # tool =>
             \A r \in Vol!Resources : docker[r] \in Vol!Foreign => docker'[r] = docker[r]]_vvars

(* Campaign: it is published when its operator keeps resuming it, unless a *)
(* fault met a window that no resumption survives (Published, the script). *)
CampaignPublishes == []<>(part = "campaign" => Campaign!Published)
=============================================================================
