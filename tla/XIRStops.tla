------------------------------ MODULE XIRStops ------------------------------
(***************************************************************************)
(* The stop policies of a run (execute/stop_policies.py) over the          *)
(* persistent control state (execute/controls.py).  Several processes      *)
(* evaluate policies for the same run: each one records an outcome or an   *)
(* observation, then the policy event, then reads the control state and,   *)
(* in one more write transaction, stops the run.  An operator stops,       *)
(* resumes and revokes at any time, and a process may die between two of   *)
(* these transactions.                                                     *)
(***************************************************************************)
EXTENDS Integers, Sequences, FiniteSets

CONSTANTS
    Engines,        \* processes that evaluate policies
    Consecutive,    \* consecutive_failures
    Window,         \* rolling_window
    RateFailures,   \* failures in a full window that reach rolling_failure_rate
    TimeoutCount,   \* timeout_count
    MaxOutcomes,    \* bound on recorded outcomes
    MaxControls,    \* bound on the operator's decisions
    MaxChecks       \* bound on policy checks other than outcomes

VARIABLES
    mode,      \* run_controls.mode
    outcomes,  \* execution_outcomes, in order of their sequence
    engine,    \* what every process is doing
    seen,      \* modes the run has been in since a process recorded its event
    after,     \* modes the run has been in since the last outcome was inserted
    last,      \* the process that inserted it
    unheeded,  \* a process finished a triggered check that stopped nothing
    missed,    \* a recorded streak whose process died before it stopped the run
    controls, checks

vars == <<mode, outcomes, engine, seen, after, last, unheeded, missed, controls, checks>>

Idle == [pc |-> "idle", code |-> "pass", stop |-> "halted", read |-> "running"]

Init ==
    /\ mode = "running" /\ outcomes = <<>>
    /\ engine = [e \in Engines |-> Idle] /\ seen = [e \in Engines |-> {}]
    /\ after = {} /\ last \in Engines
    /\ unheeded = FALSE /\ missed = FALSE
    /\ controls = 0 /\ checks = 0
-----------------------------------------------------------------------------
(* Evaluation of the policies. *)

Recent(s) == SubSeq(s, IF Len(s) > Window THEN Len(s) - Window + 1 ELSE 1, Len(s))

Streak(s) ==
    LET ends == {k \in 0..Len(s) : \A i \in (Len(s) - k + 1)..Len(s) : s[i].failed}
    IN CHOOSE k \in ends : \A j \in ends : j <= k

Failures(s) == Cardinality({i \in DOMAIN s : s[i].failed})
Timeouts(s) == Cardinality({i \in DOMAIN s : s[i].timedOut})

(* mutant: a streak has to exceed its threshold *)
OutcomeCode_Exceeds(s) ==
    LET recent == Recent(s)
    IN IF Streak(recent) > Consecutive THEN "consecutive_failures"
       ELSE IF Len(recent) = Window /\ Failures(recent) > 0 /\ Failures(recent) >= RateFailures
       THEN "rolling_failure_rate"
       ELSE IF Timeouts(s) >= TimeoutCount THEN "timeout_count" ELSE "pass"

(* Streak and rate are taken over the window, timeouts over the whole run. *)
OutcomeCode(s) ==
    LET recent == Recent(s)
    IN IF Streak(recent) >= Consecutive THEN "consecutive_failures"
       ELSE IF Len(recent) = Window /\ Failures(recent) > 0 /\ Failures(recent) >= RateFailures
       THEN "rolling_failure_rate"
       ELSE IF Timeouts(s) >= TimeoutCount THEN "timeout_count" ELSE "pass"

(* The first limit that is exceeded names the event. *)
BudgetCode(request, left) ==
    IF request > left.transaction THEN "transaction_budget_exhausted"
    ELSE IF request > left.batch THEN "batch_budget_exhausted"
    ELSE IF request > left.run THEN "run_budget_exhausted"
    ELSE IF request > left.balance THEN "runner_balance_floor" ELSE "pass"

(* A quote against a reference of zero may not move at all. *)
QuoteCode(stale, amount, reference, bps) ==
    LET moved == IF amount >= reference THEN amount - reference ELSE reference - amount
    IN IF stale THEN "quote_age_exceeded"
       ELSE IF (IF reference = 0 THEN amount # 0 ELSE moved * 10000 > reference * bps)
       THEN "quote_movement_exceeded" ELSE "pass"

NonceCode(expected, observed) == IF expected # observed THEN "nonce_gap" ELSE "pass"
RpcCode(digests) == IF Cardinality(digests) # 1 THEN "rpc_disagreement" ELSE "pass"
BlockCode(prior, current) == IF prior # current THEN "chain_reorganization" ELSE "pass"

EvidenceCode(diskLow, silent, backlog) ==
    IF diskLow THEN "disk_floor"
    ELSE IF silent THEN "collector_heartbeat_loss"
    ELSE IF backlog THEN "collector_backlog" ELSE "pass"

(* Only the collector's own trouble drains; everything else halts. *)
TriggeredMode(code) ==
    IF code \in {"collector_heartbeat_loss", "collector_backlog"} THEN "drain" ELSE "halted"
-----------------------------------------------------------------------------
(* A check in progress. *)

At(e, pc) == engine[e].pc = pc
Evaluated(e, code) ==
    engine' = [engine EXCEPT ![e] =
        [pc |-> "event", code |-> IF code = "pass" THEN "pass" ELSE "triggered",
         stop |-> TriggeredMode(code), read |-> "running"]]

(* The outcome is inserted and counted in one write transaction. *)
RecordExecutionOutcome(e, failed, timedOut) ==
    /\ At(e, "idle") /\ Len(outcomes) < MaxOutcomes
    /\ outcomes' = Append(outcomes, [failed |-> failed, timedOut |-> timedOut])
    /\ Evaluated(e, OutcomeCode(outcomes'))
    /\ after' = {mode} /\ last' = e
    /\ UNCHANGED <<mode, seen, unheeded, missed, controls, checks>>

Check(e, code) ==
    /\ At(e, "idle") /\ checks < MaxChecks
    /\ checks' = checks + 1
    /\ Evaluated(e, code)
    /\ UNCHANGED <<mode, outcomes, seen, after, last, unheeded, missed, controls>>

CheckBudget(e) ==
    \E left \in [{"transaction", "batch", "run", "balance"} -> {0, 1}] : Check(e, BudgetCode(1, left))
CheckQuote(e) ==
    \E stale \in BOOLEAN, amount, reference \in {0, 99, 100} :
        Check(e, QuoteCode(stale, amount, reference, 100))
CheckNonceGap(e) == \E observed \in {0, 1} : Check(e, NonceCode(0, observed))
CheckRpcAgreement(e) == \E digests \in {{1}, {1, 2}} : Check(e, RpcCode(digests))
CheckReorganization(e) == \E current \in {1, 2} : Check(e, BlockCode(1, current))
CheckEvidenceOperations(e) ==
    \E diskLow, silent, backlog \in BOOLEAN : Check(e, EvidenceCode(diskLow, silent, backlog))

(* Every evaluation is recorded, whether it triggers or not. *)
RecordEvent(e) ==
    /\ At(e, "event")
    /\ engine' = [engine EXCEPT ![e] = IF engine[e].code = "pass" THEN Idle ELSE [@ EXCEPT !.pc = "state"]]
    /\ seen' = [seen EXCEPT ![e] = {mode}]
    /\ UNCHANGED <<mode, outcomes, after, last, unheeded, missed, controls, checks>>

(* The control state is read outside the transaction that changes it. *)
ReadState(e) ==
    /\ At(e, "state")
    /\ engine' = [engine EXCEPT ![e].pc = "stop", ![e].read = mode]
    /\ UNCHANGED <<mode, outcomes, seen, after, last, unheeded, missed, controls, checks>>

(* Modes at least as strong as the one a policy asks for. *)
Strong(stop) == IF stop = "drain" THEN {"drain", "halted", "revoked"} ELSE {"halted", "revoked"}

(* Whether the state that was read calls for a transition. *)
Stops(e) == engine[e].read \in (IF engine[e].stop = "drain" THEN {"running"} ELSE {"running", "drain"})

AllowedFrom(to) ==
    CASE to = "drain"   -> {"running"}
      [] to = "halted"  -> {"running", "drain"}
      [] to = "revoked" -> {"running", "drain", "halted"}
      [] to = "running" -> {"drain", "halted"}

(* One write transaction: the mode, the run's state and the control event. *)
Transition(to) ==
    /\ mode' = to
    /\ seen' = [e \in Engines |-> seen[e] \cup {to}]
    /\ after' = after \cup {to}

(* The transition may meet a control state that has changed since it was   *)
(* read; it is then refused and the check ends with an error.              *)
Stop(e) ==
    /\ At(e, "stop")
    /\ IF Stops(e) /\ mode \in AllowedFrom(engine[e].stop)
       THEN Transition(engine[e].stop)
       ELSE UNCHANGED <<mode, seen, after>>
    /\ unheeded' = (unheeded \/ seen'[e] \cap Strong(engine[e].stop) = {})
    /\ engine' = [engine EXCEPT ![e] = Idle]
    /\ UNCHANGED <<outcomes, last, missed, controls, checks>>

(* A decision of the operator: manual_stop records its event after the     *)
(* transition, resume and revoke record none.                              *)
Decide(to) ==
    /\ controls < MaxControls /\ mode \in AllowedFrom(to)
    /\ controls' = controls + 1
    /\ Transition(to)
    /\ UNCHANGED <<outcomes, engine, last, unheeded, missed, checks>>

ManualStop(to) == to \in {"drain", "halted"} /\ Decide(to)
Resume == Decide("running")
Revoke == Decide("revoked")

Die(e) ==
    /\ ~At(e, "idle") /\ checks < MaxChecks
    /\ checks' = checks + 1
    /\ engine' = [engine EXCEPT ![e] = Idle]
    /\ missed' = (missed \/ engine[e].code # "pass")
    /\ UNCHANGED <<mode, outcomes, seen, after, last, unheeded, controls>>

CheckPolicy(e) ==
    \/ \E failed, timedOut \in BOOLEAN : (timedOut => failed) /\ RecordExecutionOutcome(e, failed, timedOut)
    \/ CheckBudget(e) \/ CheckQuote(e) \/ CheckNonceGap(e) \/ CheckRpcAgreement(e)
    \/ CheckReorganization(e) \/ CheckEvidenceOperations(e)

Next ==
    \/ \E e \in Engines : CheckPolicy(e) \/ RecordEvent(e) \/ ReadState(e) \/ Stop(e) \/ Die(e)
    \/ \E to \in {"drain", "halted"} : ManualStop(to)
    \/ Resume \/ Revoke

Spec ==
    /\ Init /\ [][Next]_vars
    /\ \A e \in Engines : WF_vars(RecordEvent(e)) /\ WF_vars(ReadState(e)) /\ WF_vars(Stop(e))

-----------------------------------------------------------------------------
(* Properties *)

Modes == {"running", "drain", "halted", "revoked"}

(* Types of the state. *)
TypeOK ==
    /\ mode \in Modes /\ seen \in [Engines -> SUBSET Modes]
    /\ \A i \in DOMAIN outcomes : outcomes[i].timedOut => outcomes[i].failed
    /\ \A e \in Engines : engine[e].pc \in {"idle", "event", "state", "stop"} /\ engine[e].read \in Modes /\ engine[e].stop \in Modes
    /\ unheeded \in BOOLEAN /\ missed \in BOOLEAN
    /\ controls \in 0..MaxControls /\ checks \in 0..MaxChecks

(* A triggered check never ends without the run having been stopped, as    *)
(* strongly as the policy asks, at some moment since its event was         *)
(* recorded: a drain, a resumption or another engine between the read and  *)
(* the transition cannot make it pass unheeded (_record_and_stop).         *)
TriggerHeeded == ~unheeded

(* When the last Consecutive outcomes of the run all failed, the run has   *)
(* been halted since the last of them, or the process that recorded it is  *)
(* about to halt it, or a process died while it was: two recorders that    *)
(* interleave hide no streak, and neither does a resumption                *)
(* (record_execution_outcome).                                             *)
StreakStops ==
    Streak(outcomes) >= Consecutive =>
        \/ engine[last].code # "pass"
        \/ after \cap Strong("halted") # {}
        \/ missed

=============================================================================
