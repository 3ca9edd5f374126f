---------------------------- MODULE MC_XIRControl ----------------------------
(***************************************************************************)
(* The accounts, the evidence and the stop policies of a live run for TLC. *)
(* They are separate tables of one database, written in transactions of    *)
(* their own; the initial state chooses which of them, `part`, the         *)
(* behaviour is about; the others stay as they began or are Absent.        *)
(***************************************************************************)
EXTENDS XIRBudget, Integers, Sequences, TLC

CONSTANTS
    Engines, Consecutive, Window, RateFailures, TimeoutCount,   \* of XIRStops
    MaxOutcomes, MaxControls, MaxChecks,
    Scopes, MaxFaults, MaxPasses, MaxLate                       \* of XIREvidence

(* StopPolicyEngine refuses thresholds that are not positive and a failure *)
(* rate above one.                                                         *)
ASSUME PolicyAssumption ==
    /\ Consecutive \in Nat \ {0} /\ Window \in Nat \ {0} /\ TimeoutCount \in Nat \ {0}
    /\ RateFailures \in 0..Window
    /\ MaxOutcomes \in Nat /\ MaxControls \in Nat /\ MaxChecks \in Nat

VARIABLES
    part,
    stopMode, outcomes, engine, seen, after, last, unheeded, missed, controls, checks,
    att, txn, final, retry, legs, trace, effect, dead, backfill, scope, tainted, file, rawrow,
    putter, recon, valid, pending, scan, frz, frozen, fdir, rb, pair, rebuilds, advice,
    mishaps, passes, late

(* Two attempts of two stages on one chain and in one batch; every stage   *)
(* is planned to cost one unit, so that attempts and stages are alike.     *)
Symmetry == Permutations(Attempts) \cup Permutations(Stages)
OneChain == [s \in Stages |-> "A"]
OneBatch == [a \in Attempts |-> 1]
PlannedOne == [a \in Attempts |-> [s \in Stages |-> 1]]
Zeros == [c \in Chains |-> 0]
Ones == [c \in Chains |-> 1]
Threes == [c \in Chains |-> 3]

Evidence == INSTANCE XIREvidence

Stops == INSTANCE XIRStops WITH mode <- stopMode

Absent == 0
NoEvidence ==
    /\ att = Absent /\ txn = Absent /\ final = Absent /\ retry = Absent /\ legs = Absent
    /\ trace = Absent /\ effect = Absent /\ dead = Absent /\ backfill = Absent
    /\ scope = Absent /\ tainted = Absent /\ file = Absent /\ rawrow = Absent
    /\ putter = Absent /\ recon = Absent /\ valid = Absent /\ pending = Absent
    /\ scan = Absent /\ frz = Absent /\ frozen = Absent /\ fdir = Absent /\ rb = Absent
    /\ pair = Absent /\ rebuilds = Absent /\ advice = Absent /\ mishaps = Absent
    /\ passes = Absent /\ late = Absent
NoStops ==
    /\ stopMode = Absent /\ outcomes = Absent /\ engine = Absent /\ seen = Absent
    /\ after = Absent /\ last = Absent /\ unheeded = Absent /\ missed = Absent
    /\ controls = Absent /\ checks = Absent
Untouched == Init /\ \A k \in Chains : observed[k] = 9

MCInit ==
    \/ part = "accounts" /\ Init /\ NoEvidence /\ NoStops
    \/ part = "evidence" /\ Evidence!Init /\ Untouched /\ NoStops
    \/ part = "stops" /\ Stops!Init /\ Untouched /\ NoEvidence

evars == <<att, txn, final, retry, legs, trace, effect, dead, backfill, scope, tainted, file,
           rawrow, putter, recon, valid, pending, scan, frz, frozen, fdir, rb, pair, rebuilds,
           advice, mishaps, passes, late>>
svars == <<stopMode, outcomes, engine, seen, after, last, unheeded, missed, controls, checks>>

MCNext ==
    \/ part = "accounts" /\ Next /\ UNCHANGED <<part, evars, svars>>
    \/ part = "evidence" /\ Evidence!Next /\ UNCHANGED <<part, vars, svars>>
    \/ part = "stops" /\ Stops!Next /\ UNCHANGED <<part, vars, evars>>

MCSpec == MCInit /\ [][MCNext]_<<part, vars, evars, svars>>
-----------------------------------------------------------------------------
(* Accounts: the totals of chain, batch and attempt are the sums over the  *)
(* stages, and a row settles with its stages (leases.py).                  *)
AccountsHold == part = "accounts" => LedgerBalanced /\ SettledTogether

(* Evidence: a freeze is closed, and a pair is counted on complete         *)
(* evidence (FreezeIsClosed of store.py, CountedIsComplete of overhead.py).*)
EvidenceHolds == part = "evidence" => Evidence!FreezeIsClosed /\ Evidence!CountedIsComplete

(* Stop policies: no triggered check passes unheeded and no streak is      *)
(* hidden (TriggerHeeded and StreakStops, stop_policies.py).               *)
PoliciesHold ==
    part = "stops" => Stops!TypeOK /\ Stops!TriggerHeeded /\ Stops!StreakStops
=============================================================================
