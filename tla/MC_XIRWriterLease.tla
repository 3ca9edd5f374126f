------------------------- MODULE MC_XIRWriterLease -------------------------
(***************************************************************************)
(* What guards the testbed of the campaigns, for TLC: the writer lease of  *)
(* two campaigns on one host, the journal of the validators' volumes, and  *)
(* the script of one campaign.  They share no state; the initial state     *)
(* chooses which of them, `part`, the behaviour is about.  The lease then  *)
(* stays as it began, and the variables of the others are Absent.          *)
(***************************************************************************)
EXTENDS XIRWriterLease, Sequences, TLC

CONSTANTS
    N, MaxFaults, MaxOthers,    \* of XIRVolumes; MaxCrashes bounds both
    Plan, MaxStops              \* of XIRCampaign

ASSUME VolumesAssumption == N \in Nat \ {0} /\ MaxFaults \in Nat /\ MaxOthers \in Nat

ASSUME CampaignAssumption ==
    Plan \in Seq(SUBSET (Nat \X {"H", "L"})) /\ Plan # <<>> /\ MaxStops \in Nat

(* A smoke phase with one attempt, then one with a sequence on two routes. *)
SmokeAndPair == << {<<1, "L">>}, {<<1, "H">>, <<1, "L">>} >>

VARIABLES
    part,
    journal, attested, failure, recovery, docker, content, up, tool, faults, deaths, others,
    pc, ph, run, cfiles, procs, agents, cvolumes, att, inputs, bound, frozen, excluded, handoff,
    products, approved, public, stops, gap

Symmetry == Permutations(Runtimes)

Vol == INSTANCE XIRVolumes WITH crashes <- deaths
Campaign == INSTANCE XIRCampaign WITH files <- cfiles, volumes <- cvolumes

Absent == 0
NoVolumes ==
    /\ journal = Absent /\ attested = Absent /\ failure = Absent /\ recovery = Absent
    /\ docker = Absent /\ content = Absent /\ up = Absent /\ tool = Absent
    /\ faults = Absent /\ deaths = Absent /\ others = Absent
NoCampaign ==
    /\ pc = Absent /\ ph = Absent /\ run = Absent /\ cfiles = Absent /\ procs = Absent
    /\ agents = Absent /\ cvolumes = Absent /\ att = Absent /\ inputs = Absent
    /\ bound = Absent /\ frozen = Absent /\ excluded = Absent /\ handoff = Absent
    /\ products = Absent /\ approved = Absent /\ public = Absent /\ stops = Absent
    /\ gap = Absent

MCInit ==
    /\ Init
    /\ \/ part = "lease" /\ NoVolumes /\ NoCampaign
       \/ part = "volumes" /\ Vol!Init /\ NoCampaign
       \/ part = "campaign" /\ Campaign!Init /\ NoVolumes

bvars == <<journal, attested, failure, recovery, docker, content, up, tool, faults, deaths,
           others>>
cvars == <<pc, ph, run, cfiles, procs, agents, cvolumes, att, inputs, bound, frozen, excluded,
           handoff, products, approved, public, stops, gap>>

MCNext ==
    \/ part = "lease" /\ Next /\ UNCHANGED <<part, bvars, cvars>>
    \/ part = "volumes" /\ Vol!Next /\ UNCHANGED <<part, vars, cvars>>
    \/ part = "campaign" /\ Campaign!Next /\ UNCHANGED <<part, vars, bvars>>

MCSpec == MCInit /\ [][MCNext]_<<part, vars, bvars, cvars>>
-----------------------------------------------------------------------------
(* Volumes: what the transaction owns is in its journal, so that a         *)
(* recovery finds it; a committed one verifies and a recovered one left    *)
(* nothing (multihop_volume_bootstrap.py, the three invariants of          *)
(* XIRVolumes).                                                            *)
VolumesHold ==
    part = "volumes" =>
        /\ Vol!TypeOK /\ Vol!OwnedIsJournaled
        /\ Vol!CommittedIsWhole /\ Vol!RecoveredIsClean

(* Campaign: retained sequences ran within one execution of the script,    *)
(* and what is public rests on the inputs that were examined               *)
(* (RetainedIsUninterrupted of multihop_analysis.py, PublishedIsBound of   *)
(* multihop_publication.py).                                               *)
CampaignHolds ==
    part = "campaign" =>
        Campaign!TypeOK /\ Campaign!RetainedIsUninterrupted /\ Campaign!PublishedIsBound

(* Campaign: evidence is final once its sources are frozen (FrozenIsFinal  *)
(* of multihop_publication.py).                                            *)
FrozenStays ==
    [][part = "campaign" =>
         \A p \in Campaign!Phases : "frozen" \in cfiles[p] => att'[p] = att[p]]_cvars
=============================================================================
