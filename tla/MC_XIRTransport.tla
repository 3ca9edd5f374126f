-------------------------- MODULE MC_XIRTransport --------------------------
(***************************************************************************)
(* The contracts for TLC: XIRTransport in five settings, and the approved  *)
(* operations that create and configure contracts.  The two share no       *)
(* state; the initial state chooses a setting or the operations, `part`,   *)
(* and the other stays as it began.  The constants of the .cfg cover the   *)
(* settings and are what the invariants are evaluated with.                *)
(***************************************************************************)
EXTENDS XIRTransport, XIROperations

CONSTANTS
  MaxChanges,     \* changes of settings in one behaviour
  MaxMessages     \* messages of all adapters together, in the "hops" part

VARIABLES part, changes

RoutesHL == {<<"H", "L">>}
RoutesHLH == {<<"H", "L", "H">>}
On(route, attempts) == [t \in attempts |-> route]
AppAt(c) == [x \in Apps |-> c]
OwnerWindows == {[level |-> 0, after |-> 0, until |-> 0, enabled |-> FALSE],
                 [level |-> 1, after |-> 1, until |-> 2, enabled |-> TRUE],
                 [level |-> 1, after |-> 1, until |-> 1, enabled |-> TRUE]}
HLForAll == On(<<"H", "L">>, Attempts)
AppAtEnd == AppAt(Chains)

(* Two hops, two records of one attempt, no administration. *)
Hops == INSTANCE XIRTransport WITH
  Attempts <- {"t1"}, RouteOf <- On(<<"H", "L">>, {"t1"}), Levels <- {0}, DeployedLevel <- 0,
  Versions <- {1}, Signers <- {"k1"}, Windows <- {}, AdminOps <- {}, MaxTime <- 0

(* One record under two registry versions; peers, prior verifiers, options *)
(* and pauses change.                                                      *)
Admin == INSTANCE XIRTransport WITH
  Attempts <- {"t1"}, RouteOf <- On(<<"H", "L">>, {"t1"}), Levels <- {0}, DeployedLevel <- 0,
  Signers <- {"k1"}, Windows <- {}, AdminOps <- {"peer", "verifier", "options", "pause"},
  MaxRecords <- 1, MaxSends <- 1, MaxTime <- 0

(* One hop; the owner replaces keys, levels and windows while time passes. *)
Registry == INSTANCE XIRTransport WITH
  Chains <- 2, Routes <- {<<"H">>}, Attempts <- {"t1"}, RouteOf <- On(<<"H">>, {"t1"}),
  AppHome <- AppAt(2), DeployedLevel <- 1, Versions <- {1}, Windows <- OwnerWindows,
  AdminOps <- {"root", "profile"}, MaxRecords <- 1, MaxSends <- 1

(* Three hops, two attempts in the runner's order, any adapter drained. *)
Live == INSTANCE XIRTransport WITH
  Chains <- 4, Routes <- RoutesHLH, RouteOf <- On(<<"H", "L", "H">>, Attempts),
  AppHome <- AppAt(4), Levels <- {0}, DeployedLevel <- 0, Versions <- {1}, Signers <- {"k1"},
  Windows <- {}, AdminOps <- {"drain"}, MaxTime <- 0

(* Two records of one attempt in the runner's order: the first was taken   *)
(* for lost.                                                               *)
Retry == INSTANCE XIRTransport WITH
  Attempts <- {"t1"}, RouteOf <- On(<<"H", "L">>, {"t1"}), Levels <- {0}, DeployedLevel <- 0,
  Versions <- {1}, Signers <- {"k1"}, Windows <- {}, AdminOps <- {"drain"}, MaxTime <- 0

(* Two creations on one chain and a transition that configures the first.  *)
CreationsTwo == <<1, 1>>
SettingsOne == <<1>>

MCInit ==
  /\ changes = 0 /\ OperationsInit
  /\ \/ part = "hops" /\ Hops!Init
     \/ part = "admin" /\ Admin!Init
     \/ part = "registry" /\ Registry!Init
     \/ part = "live" /\ Live!Init
     \/ part = "retry" /\ Retry!Init
     \/ part = "operations" /\ Hops!Init
  /\ part # "operations" => account = "deployer"

Change(A) == changes < MaxChanges /\ changes' = changes + 1 /\ UNCHANGED part /\ A

AdminChange ==
  /\ part = "admin"
  /\ \/ Change(Admin!AdminPeer) \/ Change(Admin!AdminVerifier)
     \/ Change(Admin!AdminOptions) \/ Change(Admin!AdminOutbound)

OwnerChange ==
  part = "registry" /\ (Change(Registry!OwnerRoot) \/ Change(Registry!OwnerProfile))

TransportNext ==
  \/ AdminChange \/ OwnerChange
  \/ /\ UNCHANGED <<part, changes>>
     /\ \/ part = "hops" /\ Hops!Next /\ Cardinality(network') <= MaxMessages
        \/ part = "admin" /\ (Admin!Gateway \/ Admin!Transport)
        \/ part = "registry" /\ (Registry!Gateway \/ Registry!Transport \/ Registry!Tick)
        \/ part = "live" /\ Live!RunnerNext
        \/ part = "retry" /\ Retry!RunnerNext

MCNext ==
  \/ TransportNext /\ UNCHANGED ovars
  \/ part = "operations" /\ OperationsNext /\ UNCHANGED <<vars, part, changes>>

LiveStep(A) == part = "live" /\ A /\ UNCHANGED <<part, changes>>

(* The runner keeps working on what it started, trying a refused hop again *)
(* when it is resumed, and the relayers keep relaying; nothing obliges     *)
(* anybody to start an attempt, to pause or to resume.  Of the operations, *)
(* the fairness is the operator's and the chains'.                         *)
MCSpec ==
  /\ MCInit /\ [][MCNext]_<<vars, part, changes, ovars>>
  /\ WF_vars(LiveStep(\E root \in created : Live!SignRoot(root, DeployedSigner)))
  /\ SF_vars(LiveStep(\E root \in created, h \in 2..4 : Live!RunnerHop(root, h)))
  /\ WF_vars(LiveStep(\E root \in created : Live!RunnerDeliver(root)))
  /\ WF_vars(LiveStep(\E m \in network : Live!Handle(m)))
  /\ SF_ovars(part = "operations" /\ \E t \in Txs : Advance(Main, t))
  /\ SF_ovars(part = "operations" /\ \E t \in Txs : Reconcile(Main, t))
  /\ \A e \in Executors : WF_ovars(part = "operations" /\ Work(e))
  /\ WF_ovars(part = "operations" /\ \E t \in Txs : Mine(t))
  /\ WF_ovars(part = "operations" /\ \E c \in PlannedChains : Finalise(c))

(* "Drain blocks new source attempts but does not recall or block already  *)
(* in-flight carrier work": an attempt whose first hop was dispatched      *)
(* takes effect, whichever adapters of its three hops are drained          *)
(* meanwhile (OutboundControl, the entries the Go and multi-hop runner use). *)
DrainedCompletes ==
  \A x \in Apps, t \in Attempts :
    (/\ part = "live"
     /\ \E root \in created : root.dest = x /\ root.payload = t /\ Live!Dispatched(root, 1))
      ~> (part = "live" /\ effects[x][t] = 1)
====
