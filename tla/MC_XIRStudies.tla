---------------------------- MODULE MC_XIRStudies ----------------------------
(***************************************************************************)
(* The native studies for TLC: the deployers they start from, the fault    *)
(* campaign, the gateway placement and the mechanism ablation.  They share *)
(* no state; the initial state chooses which of them, `part`, the          *)
(* behaviour is about, and the variables of the others are Absent.         *)
(***************************************************************************)
EXTENDS XIRDeployers

VARIABLES
    part,
    plan, fcase, camp, runs, kid, orphaned, drow, lineage, hashes, attempt, retries, pool,
    chain, wrk, dirs, freezer, figure, handoff, disturbed,
    edges, phase, closure, selected, rounds, curves, inputs, analysed, tree, verdict, edits,
    setup, made, up, thr, xnext, rows, status, mined, flying, groots, processed, ingress,
    effects, an, files, pub, rebuilt, frozen, passed, spent, analyses

(* A route that changes carrier twice beside one of a single hop. *)
Routes == [lhl |-> <<"L", "H", "L">>, h |-> <<"H">>]

Faults == INSTANCE XIRFaults WITH Slots <- 1..3, MaxRuns <- 2, MaxDisturb <- 1, MaxNonce <- 2

(* Every graph with some of these nine edges between four networks. *)
AllEdges == {<<1, 1, 2>>, <<1, 2, 3>>, <<1, 3, 1>>, <<2, 3, 4>>, <<2, 4, 1>>, <<2, 1, 3>>,
             <<3, 4, 2>>, <<3, 2, 4>>, <<3, 4, 3>>}
EventsOf == [e \in AllEdges |-> IF e[2] = 3 THEN 2 ELSE 1]
Gateways == INSTANCE XIRGateways WITH
    Nodes <- 1..4, Protocols <- 1..3, Universe <- AllEdges, Events <- EventsOf, MaxEdits <- 1

(* Every treatment alone, the barest with two mishaps; two entries in a    *)
(* pool; two batches; bases without bindings; and the plan of every cell.  *)
HL == <<"H", "L">>
LH == <<"L", "H">>
Setup(version, bound, layers, routes, blocks, workers, mishaps) ==
    [version |-> version, bound |-> bound, layers |-> layers, routes |-> routes,
     blocks |-> blocks, workers |-> workers, mishaps |-> mishaps]
AllLayers == <<"B0", "B1", "B2", "B3">>
Studies ==
    {Setup(2, TRUE, <<"B0">>, <<HL>>, 1, 1, 2), Setup(2, TRUE, <<"B3">>, <<LH>>, 1, 1, 1)}
    \union {Setup(2, TRUE, <<"B1">>, <<LH>>, 1, 1, 1), Setup(2, TRUE, <<"B2">>, <<HL>>, 1, 1, 1),
            Setup(2, TRUE, <<"B3">>, <<HL, LH>>, 1, 2, 0),
            Setup(2, TRUE, <<"B0", "B1">>, <<HL>>, 2, 1, 0),
            Setup(1, FALSE, <<"B2">>, <<HL>>, 1, 1, 1),
            Setup(2, FALSE, <<"B3">>, <<LH>>, 1, 1, 1),
            Setup(2, TRUE, AllLayers, <<HL, LH>>, 1, 1, 0)}
Ablation == INSTANCE XIRAblation WITH BatchBlocks <- 1, Setups <- Studies, MaxAnalyses <- 2

Absent == 0
NoDeployers ==
    /\ app = Absent /\ dpc = Absent /\ k = Absent /\ built = Absent /\ manifest = Absent
    /\ nonces = Absent /\ journal = Absent /\ site = Absent /\ count = Absent
    /\ flight = Absent /\ document = Absent /\ setbacks = Absent
NoFaults ==
    /\ plan = Absent /\ fcase = Absent /\ camp = Absent /\ runs = Absent /\ kid = Absent
    /\ orphaned = Absent /\ drow = Absent /\ lineage = Absent /\ hashes = Absent
    /\ attempt = Absent /\ retries = Absent /\ pool = Absent /\ chain = Absent
    /\ wrk = Absent /\ dirs = Absent /\ freezer = Absent /\ figure = Absent
    /\ handoff = Absent /\ disturbed = Absent
NoGateways ==
    /\ edges = Absent /\ phase = Absent /\ closure = Absent /\ selected = Absent
    /\ rounds = Absent /\ curves = Absent /\ inputs = Absent /\ analysed = Absent
    /\ tree = Absent /\ verdict = Absent /\ edits = Absent
NoAblation ==
    /\ setup = Absent /\ made = Absent /\ up = Absent /\ thr = Absent /\ xnext = Absent
    /\ rows = Absent /\ status = Absent /\ mined = Absent /\ flying = Absent
    /\ groots = Absent /\ processed = Absent /\ ingress = Absent /\ effects = Absent
    /\ an = Absent /\ files = Absent /\ pub = Absent /\ rebuilt = Absent
    /\ frozen = Absent /\ passed = Absent /\ spent = Absent /\ analyses = Absent

MCInit ==
    \/ part = "deployers" /\ Init /\ NoFaults /\ NoGateways /\ NoAblation
    \/ part = "faults" /\ Faults!Init /\ NoDeployers /\ NoGateways /\ NoAblation
    \/ part = "gateways" /\ Gateways!Init /\ NoDeployers /\ NoFaults /\ NoAblation
    \/ part = "ablation" /\ Ablation!Init /\ NoDeployers /\ NoFaults /\ NoGateways

fvars == <<plan, fcase, camp, runs, kid, orphaned, drow, lineage, hashes, attempt, retries, pool,
           chain, wrk, dirs, freezer, figure, handoff, disturbed>>
gvars == <<edges, phase, closure, selected, rounds, curves, inputs, analysed, tree, verdict, edits>>
avars == <<setup, made, up, thr, xnext, rows, status, mined, flying, groots, processed,
           ingress, effects, an, files, pub, rebuilt, frozen, passed, spent, analyses>>

MCNext ==
    \/ part = "deployers" /\ Next /\ UNCHANGED <<part, fvars, gvars, avars>>
    \/ part = "faults" /\ Faults!Next /\ UNCHANGED <<part, dvars, gvars, avars>>
    \/ part = "gateways" /\ Gateways!Next /\ UNCHANGED <<part, dvars, fvars, avars>>
    \/ part = "ablation" /\ Ablation!Next /\ UNCHANGED <<part, dvars, fvars, gvars>>

(* The fairness of XIRFaults; nothing else here is about progress. *)
MCSpec ==
    /\ MCInit /\ [][MCNext]_<<part, dvars, fvars, gvars, avars>>
    /\ \A s \in 1..3 : WF_fvars(part = "faults" /\ Faults!Child(s))
    /\ WF_fvars(part = "faults" /\ Faults!Mine)
    /\ WF_fvars(part = "faults" /\ Faults!Campaign)
    /\ WF_fvars(part = "faults" /\ Faults!WorkerStep)
    /\ WF_fvars(part = "faults" /\ Faults!Freeze("frozen"))
-----------------------------------------------------------------------------
(* Deployers: a deployment document describes an application that works    *)
(* (DocumentIsWired).                                                      *)
DeploymentIsWired == part = "deployers" => DocumentIsWired

(* Fault campaign: a validated case tells the truth, and only validated    *)
(* cases are published (ValidatedIsTrue, FrozenIsValidated of faults_v1).  *)
(* Ablation: a layer earns its effect, a finished entry is whole, and a    *)
(* published verdict is true of the chains (LayerEarned, FinishedIsWhole,  *)
(* PublishedIsTrue of ablation_v1).                                        *)
VerdictsAreTrue ==
    /\ part = "faults" => Faults!ValidatedIsTrue /\ Faults!FrozenIsValidated
    /\ part = "ablation" => /\ Ablation!TypeOK /\ Ablation!LayerEarned
                            /\ Ablation!FinishedIsWhole /\ Ablation!PublishedIsTrue

(* Fault campaign: undisturbed, it validates its case                      *)
(* (UndisturbedValidates of run_native_faults_v1.py).                      *)
FaultsValidate ==
    (part = "faults" /\ Faults!Entered)
        ~> (part = "faults" /\ (fcase.st = "validated" \/ Faults!Excused))

(* Gateway study: the greedy placement is complete, the replay agrees, and *)
(* a verified publication holds the inputs that were analysed              *)
(* (GreedyReachesAll, ReplayAgrees, VerifiedIsBound of                     *)
(* gateway_deployment.py).                                                 *)
PlacementHolds ==
    part = "gateways" =>
        Gateways!GreedyReachesAll /\ Gateways!ReplayAgrees /\ Gateways!VerifiedIsBound
=============================================================================
