----------------------------- MODULE MC_XIRStore -----------------------------
(***************************************************************************)
(* Two workers of the run store, for TLC: of the collector, on a chain     *)
(* that replaces one block, or of the executor.  The two share no state in *)
(* these modules; the initial state chooses which of them, `part`, the     *)
(* behaviour is about, and of the other there is nothing: no attempt, no   *)
(* checkpoint, no observation, and the rest is Absent.                     *)
(***************************************************************************)
EXTENDS XIRCollector, XIRExecutor, TLC

VARIABLE part

Uniform == {[w \in Workers |-> r] : r \in {"finality", "backfill"}}

(* Profiles that differ in what alone holds an attempt back: the other arm *)
(* of the pair, the batch before, or the maximum in flight, with a pair    *)
(* that straddles two batches.                                             *)
SmallProfiles ==
    {[warmups |-> 0, pairs |-> 1, batch |-> 2, inflight |-> 2],
     [warmups |-> 2, pairs |-> 0, batch |-> 1, inflight |-> 2],
     [warmups |-> 1, pairs |-> 1, batch |-> 2, inflight |-> 1]}

Absent == 0
NoCollector ==
    /\ latest = [t \in Txns |-> NoObservation] /\ stage = [t \in Txns |-> "in_flight"]
    /\ frozen = FALSE /\ checkpoints = <<>>
    /\ policy = Absent /\ chain = Absent /\ peak = Absent /\ produced = Absent
    /\ receipt = Absent /\ txn = Absent /\ events = Absent /\ role = Absent
    /\ worker = Absent /\ crashes = Absent
NoExecutor ==
    /\ profile = [warmups |-> 0, pairs |-> 0, batch |-> 1, inflight |-> 1] /\ attempt = <<>>
    /\ registered = Absent /\ stages = Absent /\ txns = Absent /\ lease = Absent
    /\ window = Absent /\ outcomes = Absent /\ job = Absent /\ now = Absent

MCInit ==
    \/ part = "collector" /\ Init /\ NoExecutor
    \/ part = "executor" /\ ExecutorInit /\ NoCollector

MCNext ==
    \/ part = "collector" /\ Next /\ UNCHANGED <<part, evars>>
    \/ part = "executor" /\ ExecutorNext /\ UNCHANGED <<part, vars>>

MCSpec == MCInit /\ [][MCNext]_<<part, vars, evars>>

(* The workers of either are the same two. *)
Symmetry == Permutations(Workers)
=============================================================================
