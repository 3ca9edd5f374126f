----------------------------- MODULE XIRExecutor -----------------------------
(***************************************************************************)
(* The durable batch executor: a frozen plan of attempts, in batches, with *)
(* work leases, stage transitions and deadline, failure and eventual       *)
(* outcomes (src/xir_lab/execute/scheduler.py, executor.py, leases.py and  *)
(* collect/outcomes.py).                                                   *)
(*                                                                         *)
(* Any number of workers and observers share the store.  One transaction   *)
(* of the store, or one read outside a transaction, is one step: claim_next *)
(* reads its clock and a snapshot and then acquires the lease;             *)
(* complete_attempt writes and then releases; an outcome is judged,        *)
(* appended and applied to the attempt in three.  A worker that stops between *)
(* two steps is one that takes no further step, and its leases stay; a     *)
(* worker whose lease ran out does not learn of it.  A drained or halted   *)
(* run (XIRBudget) makes no claim and starts no source: it takes fewer of  *)
(* the steps below and no other.                                           *)
(***************************************************************************)
EXTENDS Integers, FiniteSets, FiniteSetsExt

CONSTANTS
    Processes,     \* processes: claim holders and observers
    Profiles,      \* execution profiles: warm-ups, matched pairs and the live limits
    Stages,        \* number of stages of an attempt
    TTL,           \* life of a work lease
    Horizon,       \* an attempt's observation deadline, from its start
    MaxWindows,    \* bound on the attempts whose outcome is observed
    MaxTime        \* bound on the clock

ASSUME ExecutorConstants ==
    /\ \A p \in Profiles : /\ p.warmups \in Nat /\ p.pairs \in Nat
                          /\ p.batch \in Nat \ {0} /\ p.inflight \in Nat \ {0}
    /\ Stages \in Nat \ {0}
    /\ TTL \in Nat \ {0} /\ Horizon \in Nat \ {0}
    /\ MaxWindows \in Nat /\ MaxTime \in Nat

Nothing == "none"

ChainOutcomes == {"delivered", "failed"}
Terminal == ChainOutcomes \cup {"timed_out", "unobserved"}
AttemptStates == {"planned", "in_flight"} \cup Terminal
StageStates == {"planned", "prepared", "in_flight", "completed", "failed"}

VARIABLES
    profile,     \* the run's frozen profile
    registered,  \* the plan's rows exist
    attempt,     \* attempts.state; "failed": carrier, XIR or destination; "unobserved": the others
    stages,      \* stages.state, by attempt and ordinal
    txns,        \* each stage's transaction: "none", "open" (unresolved) or "final"
    lease,       \* each attempt's active work lease: holder, acquired_at, expires_at
    window,      \* each attempt's registered deadline
    outcomes,    \* kinds of outcome rows recorded for each attempt
    job,         \* each worker's method, between two of its steps
    now          \* the clock

plan == <<profile, registered>>
progress == <<stages, txns>>
evars == <<profile, registered, attempt, stages, txns, lease, window, outcomes, job, now>>

-----------------------------------------------------------------------------
(* The plan. *)

(* The expanded plan: the warm-ups, then the two arms of each pair one     *)
(* after the other, cut into batches by position, so that a pair may       *)
(* straddle two batches.  Which condition or arm takes which place depends *)
(* on the seed and on nothing the executor looks at.                       *)
Attempts == 1..(profile.warmups + 2 * profile.pairs)
PairOf(a) == IF a <= profile.warmups THEN 0 ELSE (a - profile.warmups + 1) \div 2
BatchOf(a) == (a - 1) \div profile.batch

NoJob == [pc |-> "idle", a |-> 0, t |-> 0, o |-> Nothing]
NoWindow == -1
NoLease == [holder |-> Nothing, acquired |-> 0, expires |-> 0]

ExecutorInit ==
    /\ profile \in Profiles /\ registered = FALSE
    /\ attempt = [a \in Attempts |-> "planned"]
    /\ stages = [a \in Attempts |-> [i \in 1..Stages |-> "planned"]]
    /\ txns = [a \in Attempts |-> [i \in 1..Stages |-> "none"]]
    /\ lease = [a \in Attempts |-> NoLease]
    /\ window = [a \in Attempts |-> NoWindow]
    /\ outcomes = [a \in Attempts |-> {}]
    /\ job = [w \in Processes |-> NoJob]
    /\ now = 0

JobAt(w, pc) == job[w].pc = pc
Goto(w, pc) == job' = [job EXCEPT ![w].pc = pc]
JobDone(w) == job' = [job EXCEPT ![w] = NoJob]

(* Persists the plan's attempts and stages; a second registration of the   *)
(* same plan finds them and adds nothing.                                  *)
RegisterPlan(w) ==
    /\ JobAt(w, "idle")
    /\ registered' = TRUE
    /\ UNCHANGED <<profile, attempt, progress, lease, window, outcomes, job, now>>

-----------------------------------------------------------------------------
(* Work leases. *)

Unexpired(a, t) == lease[a] # NoLease /\ lease[a].expires > t

(* What a claim counts as active, by its own clock: in flight, or under an *)
(* unexpired lease.                                                        *)
Active(t) == {a \in Attempts : attempt[a] = "in_flight" \/ Unexpired(a, t)}

CurrentBatch == Min({BatchOf(a) : a \in {b \in Attempts : attempt[b] \notin Terminal}})

(* The first planned attempt of the current batch that is not active,      *)
(* unless its pair's other arm is.                                         *)
Candidate(t) ==
    LET open == {a \in Attempts : /\ BatchOf(a) = CurrentBatch
                                  /\ attempt[a] = "planned" /\ a \notin Active(t)}
    IN  IF open = {} THEN {}
        ELSE {a \in {Min(open)} :
                PairOf(a) = 0 \/ \A b \in Active(t) : PairOf(b) # PairOf(a)}

Claim_OffByOne(w) ==
    /\ JobAt(w, "idle") /\ registered
    /\ \E a \in Attempts : attempt[a] \notin Terminal
    /\ Cardinality(Active(now)) <= profile.inflight
    /\ \E a \in Candidate(now) :
          job' = [job EXCEPT ![w] = [NoJob EXCEPT !.pc = "claim", !.a = a, !.t = now]]
    /\ UNCHANGED <<plan, attempt, progress, lease, window, outcomes, now>>

(* claim_next reads the clock and, in a running run, the rows ...          *)
Claim(w) ==
    /\ JobAt(w, "idle") /\ registered
    /\ \E a \in Attempts : attempt[a] \notin Terminal
    /\ Cardinality(Active(now)) < profile.inflight
    /\ \E a \in Candidate(now) :
          job' = [job EXCEPT ![w] = [NoJob EXCEPT !.pc = "claim", !.a = a, !.t = now]]
    /\ UNCHANGED <<plan, attempt, progress, lease, window, outcomes, now>>

Unresolved(a) == \E i \in 1..Stages : txns[a][i] = "open"

(* ... and acquire_work takes the lease as of that clock, whatever has     *)
(* become of the attempt since.  An active lease that has run out is       *)
(* expired first, unless the attempt has an unresolved submission; the     *)
(* claim fails where the lease is held.                                    *)
AcquireWork(w) ==
    LET a == job[w].a
        t == job[w].t
    IN  /\ JobAt(w, "claim")
        /\ IF lease[a] # NoLease /\ (lease[a].expires > t \/ Unresolved(a))
           THEN JobDone(w) /\ UNCHANGED lease
           ELSE /\ lease' = [lease EXCEPT
                      ![a] = [holder |-> w, acquired |-> t, expires |-> t + TTL]]
                /\ Goto(w, "work")
        /\ UNCHANGED <<plan, attempt, progress, window, outcomes, now>>

(* The lease that worker w was given is still the active one.              *)
Holds(w) == LET l == lease[job[w].a] IN l.holder = w /\ l.acquired = job[w].t

(* A heartbeat of an active, unexpired lease extends it.                   *)
HeartbeatWork(w) ==
    /\ JobAt(w, "work") /\ Holds(w) /\ lease[job[w].a].expires > now
    /\ lease' = [lease EXCEPT ![job[w].a].expires = now + TTL]
    /\ UNCHANGED <<plan, attempt, progress, window, outcomes, job, now>>

(* The second transaction of complete_attempt; it raises when the lease is *)
(* no longer the holder's.                                                 *)
ReleaseWork(w) ==
    /\ JobAt(w, "release")
    /\ lease' = IF Holds(w) THEN [lease EXCEPT ![job[w].a] = NoLease] ELSE lease
    /\ JobDone(w)
    /\ UNCHANGED <<plan, attempt, progress, window, outcomes, now>>

-----------------------------------------------------------------------------
(* The attempt and its stages. *)

MarkSourceInFlight_Any(w) ==
    /\ JobAt(w, "work")
    /\ attempt' = [attempt EXCEPT ![job[w].a] = "in_flight"]
    /\ UNCHANGED <<plan, progress, lease, window, outcomes, job, now>>

(* The source stage starts: the run accepts sources and the attempt is     *)
(* still planned.  The worker's lease is not looked at.                    *)
MarkSourceInFlight(w) ==
    /\ JobAt(w, "work")
    /\ attempt[job[w].a] = "planned"
    /\ attempt' = [attempt EXCEPT ![job[w].a] = "in_flight"]
    /\ UNCHANGED <<plan, progress, lease, window, outcomes, job, now>>

NextStage(from) ==
    [planned |-> {"prepared"}, prepared |-> {"in_flight"},
     in_flight |-> {"completed", "failed"}, completed |-> {}, failed |-> {}][from]

(* A stage is prepared after the ones before it completed, and enters      *)
(* flight once its intent is saved.                                        *)
TransitionStage(w, i, to) ==
    LET a == job[w].a
    IN  /\ JobAt(w, "work")
        /\ to \in NextStage(stages[a][i])
        /\ to = "prepared" => \A j \in 1..(i - 1) : stages[a][j] = "completed"
        /\ to = "in_flight" => txns[a][i] # "none"
        /\ stages' = [stages EXCEPT ![a][i] = to]
        /\ UNCHANGED <<plan, attempt, txns, lease, window, outcomes, job, now>>

(* The submission of the stage's transaction and its resolution            *)
(* (XIRSubmission): an intent, then a settled transaction.                 *)
Submit(w, i) ==
    /\ JobAt(w, "work") /\ attempt[job[w].a] = "in_flight"
    /\ stages[job[w].a][i] = "prepared" /\ txns[job[w].a][i] = "none"
    /\ txns' = [txns EXCEPT ![job[w].a][i] = "open"]
    /\ UNCHANGED <<plan, attempt, stages, lease, window, outcomes, job, now>>

Settle(a, i) ==
    /\ txns[a][i] = "open"
    /\ txns' = [txns EXCEPT ![a][i] = "final"]
    /\ UNCHANGED <<plan, attempt, stages, lease, window, outcomes, job, now>>

(* All stages completed: the attempt is delivered, whatever it was before. *)
CompleteAttempt(w) ==
    LET a == job[w].a
    IN  /\ JobAt(w, "work")
        /\ \A i \in 1..Stages : stages[a][i] = "completed"
        /\ IF attempt[a] = "delivered" THEN JobDone(w) /\ UNCHANGED attempt
           ELSE attempt' = [attempt EXCEPT ![a] = "delivered"] /\ Goto(w, "release")
        /\ UNCHANGED <<plan, progress, lease, window, outcomes, now>>

-----------------------------------------------------------------------------
(* Outcomes. *)

(* The window is bound to its attempt once, when the work starts.          *)
RegisterWindow(w) ==
    /\ JobAt(w, "work") /\ window[job[w].a] = NoWindow
    /\ Cardinality({a \in Attempts : window[a] # NoWindow}) < MaxWindows
    /\ window' = [window EXCEPT ![job[w].a] = now + Horizon]
    /\ UNCHANGED <<plan, attempt, progress, lease, outcomes, job, now>>

Observe(w, a, pc, o) == job' = [job EXCEPT ![w] = [pc |-> pc, a |-> a, t |-> 0, o |-> o]]

(* The deadline has passed and the attempt has no chain outcome yet ...    *)
JudgeDeadline(w, a) ==
    /\ JobAt(w, "idle")
    /\ window[a] # NoWindow /\ now >= window[a]
    /\ attempt[a] \notin ChainOutcomes
    /\ Observe(w, a, "deadline", "timed_out")
    /\ UNCHANGED <<plan, attempt, progress, lease, window, outcomes, now>>

(* ... the outcome is appended once per attempt and kind ...               *)
AppendOutcome(w, kind, next) ==
    /\ JobAt(w, kind)
    /\ IF kind \in outcomes[job[w].a]
       THEN JobDone(w) /\ UNCHANGED outcomes
       ELSE /\ outcomes' = [outcomes EXCEPT ![job[w].a] = @ \cup {kind}]
            /\ Goto(w, next)
    /\ UNCHANGED <<plan, attempt, progress, lease, window, now>>

AppendDeadline(w) == AppendOutcome(w, "deadline", "apply")

(* ... and the attempt takes it in a transaction of its own.               *)
ApplyOutcome(w) ==
    /\ JobAt(w, "apply")
    /\ attempt' = [attempt EXCEPT ![job[w].a] = job[w].o]
    /\ JobDone(w)
    /\ UNCHANGED <<plan, progress, lease, window, outcomes, now>>

(* A failure needs only the window; it is appended, and applied unless a   *)
(* deadline outcome is found in a read between the two transactions.       *)
ObserveFailure(w, a, o) ==
    /\ JobAt(w, "idle") /\ window[a] # NoWindow
    /\ Observe(w, a, "failure", o)
    /\ UNCHANGED <<plan, attempt, progress, lease, window, outcomes, now>>

AppendFailure(w) == AppendOutcome(w, "failure", "compare")

CompareDeadline(w) ==
    /\ JobAt(w, "compare")
    /\ IF "deadline" \in outcomes[job[w].a] THEN JobDone(w) ELSE Goto(w, "apply")
    /\ UNCHANGED <<plan, attempt, progress, lease, window, outcomes, now>>

(* What became of a timed-out attempt later: a delivery needs the final    *)
(* stage's transaction finalised, a failure nothing.                       *)
RecordEventual(w, a, delivered) ==
    /\ JobAt(w, "idle")
    /\ "deadline" \in outcomes[a] /\ "eventual" \notin outcomes[a]
    /\ delivered => txns[a][Stages] = "final"
    /\ outcomes' = [outcomes EXCEPT ![a] = @ \cup {"eventual"}]
    /\ UNCHANGED <<plan, attempt, progress, lease, window, job, now>>

-----------------------------------------------------------------------------
(* The clock. *)

Tick ==
    /\ now < MaxTime /\ now' = now + 1
    /\ UNCHANGED <<plan, attempt, progress, lease, window, outcomes, job>>

Work(w) ==
    \/ RegisterPlan(w) \/ Claim(w) \/ AcquireWork(w) \/ HeartbeatWork(w) \/ ReleaseWork(w)
    \/ MarkSourceInFlight(w) \/ CompleteAttempt(w) \/ RegisterWindow(w)
    \/ \E i \in 1..Stages : Submit(w, i) \/ \E to \in StageStates : TransitionStage(w, i, to)
    \/ \E a \in Attempts :
         \/ JudgeDeadline(w, a)
         \/ \E o \in {"failed", "unobserved"} : ObserveFailure(w, a, o)
         \/ \E delivered \in BOOLEAN : RecordEventual(w, a, delivered)
    \/ AppendDeadline(w) \/ AppendFailure(w) \/ CompareDeadline(w) \/ ApplyOutcome(w)

ExecutorNext ==
    \/ \E w \in Processes : Work(w)
    \/ \E a \in Attempts, i \in 1..Stages : Settle(a, i)
    \/ Tick

ExecutorSpec == ExecutorInit /\ [][ExecutorNext]_evars

-----------------------------------------------------------------------------
(* Properties. *)

ExecutorTypeOK ==
    /\ profile \in Profiles /\ registered \in BOOLEAN
    /\ attempt \in [Attempts -> AttemptStates]
    /\ stages \in [Attempts -> [1..Stages -> StageStates]]
    /\ txns \in [Attempts -> [1..Stages -> {"none", "open", "final"}]]
    /\ \A a \in Attempts :
         /\ lease[a] = NoLease \/ lease[a].holder \in Processes
         /\ window[a] = NoWindow \/ window[a] \in 0..(MaxTime + Horizon)
         /\ outcomes[a] \subseteq {"deadline", "failure", "eventual"}
         /\ "eventual" \in outcomes[a] => "deadline" \in outcomes[a]
    /\ \A w \in Processes : job[w].a \in Attempts \cup {0}
    /\ now \in 0..MaxTime

(* Unfinished work that is being done: in flight, or leased and not run    *)
(* out.                                                                    *)
Busy == {a \in Attempts : attempt[a] \notin Terminal /\ a \in Active(now)}

(* However many workers claim from stale snapshots, let leases run out and *)
(* come back to an attempt they no longer hold, no more attempts than the  *)
(* profile's maximum are under way.                                        *)
InFlightBounded == Cardinality(Busy) <= profile.inflight

(* The two arms of a pair are never under way together: the second is      *)
(* claimed only after the first ended.                                     *)
PairExclusive == \A a, b \in Busy : a # b => PairOf(a) = 0 \/ PairOf(a) # PairOf(b)

(* Nothing of a batch is under way before every attempt of the batches     *)
(* before it has ended.                                                    *)
BatchBarrier ==
    \A a \in Busy, b \in Attempts : BatchOf(b) < BatchOf(a) => attempt[b] \in Terminal

(* What claim_next admits, under its three limits.                         *)
AdmissionHolds == InFlightBounded /\ PairExclusive /\ BatchBarrier

(* An attempt that has ended never comes back into work, even through a    *)
(* worker that claimed it from a snapshot taken before it ended.           *)
NoResurrection == [][\A a \in Attempts : attempt[a] \in Terminal => attempt'[a] \in Terminal]_evars

=============================================================================
