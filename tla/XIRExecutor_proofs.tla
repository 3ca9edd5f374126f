-------------------------- MODULE XIRExecutor_proofs --------------------------
(***************************************************************************)
(* Proofs about the batch executor, for every set of workers, every        *)
(* profile, number of stages, life of a lease and length of a window: what *)
(* claim_next admits stays within its three limits although every claim    *)
(* rests on a snapshot that may be stale when the lease is taken, and no   *)
(* attempt that has ended comes back.                                      *)
(***************************************************************************)
EXTENDS XIRExecutor, FiniteSetTheorems, WellFoundedInduction, TLAPS

Open(a) == attempt[a] \notin Terminal

(* Attempts that are under way or may still come under way by what was     *)
(* claimed before: in flight, ever leased, or in the hands of a worker.    *)
Committed ==
    {a \in Attempts :
        /\ Open(a)
        /\ \/ attempt[a] = "in_flight" \/ lease[a] # NoLease
           \/ \E w \in Processes : job[w].a = a /\ job[w].pc \in {"claim", "work"}}

(* They are the first open attempts of one batch, the first that is open,  *)
(* ...                                                                     *)
CommittedIsPrefix ==
    \A a \in Committed, b \in Attempts :
        Open(b) => /\ BatchOf(a) <= BatchOf(b)
                   /\ BatchOf(a) = BatchOf(b) /\ b < a => b \in Committed

(* ... no more of them than the profile allows, and one arm of a pair.     *)
CommittedBounded == Cardinality(Committed) <= profile.inflight
CommittedExclusive == \A a, b \in Committed : a # b => PairOf(a) = 0 \/ PairOf(a) # PairOf(b)

(* What a worker holds between two steps of a method.                      *)
JobsHold ==
    \A w \in Processes :
        /\ job[w].pc # "idle" => job[w].a \in Attempts
        /\ JobAt(w, "release") => ~Open(job[w].a)
        /\ job[w].pc \in {"deadline", "failure", "compare", "apply"} => job[w].o \in Terminal

(* The records of the store and of the workers. *)
Job == [pc : {"idle", "claim", "work", "release", "deadline", "failure", "compare", "apply"},
        a : Attempts \cup {0}, t : Nat, o : Terminal \cup {Nothing}]
Lease == [holder : Processes \cup {Nothing}, acquired : Int, expires : Int]

ExecutorType ==
    /\ profile \in Profiles
    /\ attempt \in [Attempts -> AttemptStates]
    /\ lease \in [Attempts -> Lease] /\ job \in [Processes -> Job]
    /\ now \in Nat

ExecutorInv ==
    ExecutorType /\ JobsHold /\ CommittedIsPrefix /\ CommittedBounded /\ CommittedExclusive
-----------------------------------------------------------------------------
(* The minimum of a set of numbers is in it and below the others. *)
LEMMA MinIsLeast ==
    ASSUME NEW S \in SUBSET Nat, S # {}
    PROVE  Min(S) \in S /\ \A y \in S : Min(S) <= y
<1> DEFINE R == {ss \in Nat \X Nat : ss[1] < ss[2]}
<1>1. IsWellFoundedOn(R, Nat)
  BY NatLessThanWellFounded, Zenon DEF OpToRel
<1> HIDE DEF R
<1>2. PICK x \in S : \A y \in S : ~(<<y, x>> \in R)
  BY <1>1, WFMin
<1>3. ASSUME NEW y \in S PROVE x <= y
  <2>1. x \in Nat /\ y \in Nat
    OBVIOUS
  <2>2. ~(<<y, x>>[1] < <<y, x>>[2])
    BY <1>2, <2>1 DEF R
  <2> QED BY <2>1, <2>2
<1> QED BY <1>3 DEF Min

(* The numbers of the frozen profile and of the plan it expands to. *)
LEMMA ProfileShape ==
    ASSUME profile \in Profiles
    PROVE  /\ profile.warmups \in Nat /\ profile.pairs \in Nat
           /\ profile.batch \in Nat \ {0} /\ profile.inflight \in Nat \ {0}
           /\ Attempts \subseteq Nat /\ IsFiniteSet(Attempts)
           /\ \A a \in Attempts : a # 0 /\ BatchOf(a) \in Nat
<1>1. /\ profile.warmups \in Nat /\ profile.pairs \in Nat
      /\ profile.batch \in Nat \ {0} /\ profile.inflight \in Nat \ {0}
  BY ExecutorConstants
<1>2. IsFiniteSet(Attempts)
  <2>1. profile.warmups + 2 * profile.pairs \in Int
    BY <1>1
  <2>2. IsFiniteSet(1..(profile.warmups + 2 * profile.pairs))
    BY <2>1, FS_Interval
  <2> QED BY <2>2 DEF Attempts
<1>3. \A a \in Attempts : a \in Nat /\ a # 0
  BY <1>1 DEF Attempts
<1>4. ASSUME NEW a \in Attempts PROVE BatchOf(a) \in Nat
  <2>1. a - 1 \in Nat
    BY <1>3
  <2>2. \A n \in Nat, q \in Nat \ {0} : n \div q \in Nat
    BY Z3
  <2> QED BY <1>1, <2>1, <2>2 DEF BatchOf
<1> QED BY <1>1, <1>2, <1>3, <1>4

(* A step that ends attempts, and moves none into the committed ones or    *)
(* out of them that has not ended, keeps what is said of them.             *)
LEMMA CommittedKept ==
    ASSUME ExecutorInv, UNCHANGED profile,
           \A a \in Attempts : Open(a)' => Open(a) /\ (a \in Committed' <=> a \in Committed)
    PROVE  CommittedIsPrefix' /\ CommittedBounded' /\ CommittedExclusive'
<1>1. Attempts' = Attempts /\ (\A a : BatchOf(a)' = BatchOf(a) /\ PairOf(a)' = PairOf(a))
  BY DEF Attempts, BatchOf, PairOf
<1>2. Committed' \subseteq Committed /\ Committed \subseteq Attempts
  BY <1>1 DEF Committed
<1>3. CommittedIsPrefix'
  BY <1>1, <1>2 DEF CommittedIsPrefix, ExecutorInv
<1>4. CommittedExclusive'
  BY <1>1, <1>2 DEF CommittedExclusive, ExecutorInv
<1>5. CommittedBounded'
  <2>1. IsFiniteSet(Committed) /\ profile.inflight \in Nat
    BY <1>2, ProfileShape, FS_Subset DEF ExecutorInv, ExecutorType
  <2>2. Cardinality(Committed') <= Cardinality(Committed) /\ IsFiniteSet(Committed')
    BY <1>2, <2>1, FS_Subset
  <2>3. Cardinality(Committed) \in Nat /\ Cardinality(Committed') \in Nat
    BY <2>1, <2>2, FS_CardinalityType
  <2> QED BY <2>1, <2>2, <2>3 DEF CommittedBounded, ExecutorInv
<1> QED BY <1>3, <1>4, <1>5

Claimed(o) == o.pc \in {"claim", "work"}

(* What a worker's own job must keep.                                      *)
Fits(o) ==
    /\ o \in Job
    /\ o.pc # "idle" => o.a \in Attempts
    /\ o.pc \in {"deadline", "failure", "compare", "apply"} => o.o \in Terminal

(* Every step of a worker but a claim: it commits to nothing new, and      *)
(* leaves no open attempt before the attempt is in flight or leased.       *)
LEMMA WorkerStep ==
    ASSUME ExecutorInv, NEW w \in Processes, NEW o, job' = [job EXCEPT ![w] = o], Fits(o),
           UNCHANGED profile, now' \in Nat,
           attempt' \in [Attempts -> AttemptStates], lease' \in [Attempts -> Lease],
           o.pc = "release" => ~Open(o.a)',
           \A a \in Attempts : ~Open(a) => ~Open(a)',
           \A a \in Attempts : Open(a)' /\ attempt[a] = "in_flight" => attempt'[a] = "in_flight",
           \A a \in Attempts : Open(a)' /\ attempt'[a] = "in_flight" => a \in Committed,
           \A a \in Attempts : Open(a)' /\ lease[a] # NoLease => lease'[a] # NoLease,
           \A a \in Attempts : Open(a)' /\ lease'[a] # NoLease => a \in Committed,
           Claimed(o) => Claimed(job[w]) /\ o.a = job[w].a,
           Claimed(job[w]) => \/ Claimed(o) /\ o.a = job[w].a
                              \/ attempt'[job[w].a] \in Terminal \cup {"in_flight"}
                              \/ lease'[job[w].a] # NoLease
    PROVE  ExecutorInv'
<1> USE DEF ExecutorInv
<1>0. Attempts' = Attempts
  BY DEF Attempts
<1>1. /\ job' \in [Processes -> Job] /\ job'[w] = o
      /\ \A v \in Processes : v # w => job'[v] = job[v]
  BY DEF ExecutorType, Job, Fits
<1>2. ExecutorType'
  BY <1>0, <1>1 DEF ExecutorType, Job, Lease
<1>3. JobsHold'
  BY <1>0, <1>1 DEF JobsHold, JobAt, Fits
<1>4. ASSUME NEW a \in Attempts, Open(a)'
      PROVE  Open(a) /\ (a \in Committed' <=> a \in Committed)
  <2>1. Open(a)
    BY <1>4
  <2>2. ASSUME a \in Committed PROVE a \in Committed'
    <3>1. CASE attempt[a] = "in_flight" \/ lease[a] # NoLease
      BY <1>0, <1>4, <3>1 DEF Committed
    <3>2. ASSUME NEW v \in Processes, job[v].a = a, Claimed(job[v])
          PROVE  a \in Committed'
      <4>1. CASE v = w
        <5>1. CASE Claimed(o) /\ o.a = a
          <6>1. job'[w].a = a /\ job'[w].pc \in {"claim", "work"}
            BY <1>1, <5>1 DEF Claimed
          <6> QED BY <1>0, <1>4, <6>1 DEF Committed
        <5>2. CASE attempt'[a] = "in_flight" \/ lease'[a] # NoLease
          BY <1>0, <1>4, <5>2 DEF Committed
        <5>3. attempt'[a] \notin Terminal
          BY <1>4 DEF Open
        <5> QED BY <3>2, <4>1, <5>1, <5>2, <5>3
      <4>2. CASE v # w
        BY <1>0, <1>1, <1>4, <3>2, <4>2 DEF Committed, Claimed
      <4> QED BY <4>1, <4>2
    <3> QED BY <2>2, <3>1, <3>2 DEF Committed, Claimed
  <2>3. ASSUME a \in Committed' PROVE a \in Committed
    <3>1. CASE attempt'[a] = "in_flight" \/ lease'[a] # NoLease
      BY <1>4, <3>1
    <3>2. ASSUME NEW v \in Processes, job'[v].a = a, Claimed(job'[v])
          PROVE  a \in Committed
      <4>1. CASE v = w
        BY <1>1, <2>1, <3>2, <4>1 DEF Committed, Claimed
      <4>2. CASE v # w
        BY <1>1, <2>1, <3>2, <4>2 DEF Committed, Claimed
      <4> QED BY <4>1, <4>2
    <3> QED BY <2>3, <3>1, <3>2 DEF Committed, Claimed
  <2> QED BY <2>1, <2>2, <2>3
<1> QED BY <1>2, <1>3, <1>4, CommittedKept

(* A step that only moves a worker's job, and hands it no claimed attempt. *)
LEMMA JobStep ==
    ASSUME ExecutorInv, NEW w \in Processes, NEW o, job' = [job EXCEPT ![w] = o], Fits(o),
           UNCHANGED <<profile, attempt, lease, now>>,
           o.pc = "release" => ~Open(o.a), ~Claimed(o),
           Claimed(job[w]) => ~Open(job[w].a) \/ lease[job[w].a] # NoLease
    PROVE  ExecutorInv'
<1>1. ExecutorType
  BY DEF ExecutorInv
<1>3. now' \in Nat /\ attempt' \in [Attempts -> AttemptStates] /\ lease' \in [Attempts -> Lease]
  BY <1>1 DEF ExecutorType
<1>4. \A a \in Attempts : Open(a)' <=> Open(a)
  BY DEF Open
<1>5. \A a \in Attempts : attempt[a] = "in_flight" \/ lease[a] # NoLease => (Open(a) => a \in Committed)
  BY DEF Committed
<1>6. Claimed(job[w]) =>
        \/ Claimed(o) /\ o.a = job[w].a
        \/ attempt'[job[w].a] \in Terminal \cup {"in_flight"} \/ lease'[job[w].a] # NoLease
  BY DEF Open
<1>7. o.pc = "release" => ~Open(o.a)'
  BY DEF Open
<1> QED
  <2> HIDE DEF ExecutorInv, ExecutorType, Committed, Open, Claimed, Fits, Lease
  <2> QED BY <1>3, <1>4, <1>5, <1>6, <1>7, WorkerStep

(* A step that leaves the jobs alone.                                      *)
LEMMA StoreStep ==
    ASSUME ExecutorInv, UNCHANGED <<profile, job>>, now' \in Nat,
           attempt' \in [Attempts -> AttemptStates], lease' \in [Attempts -> Lease],
           \A a \in Attempts : ~Open(a) => ~Open(a)',
           \A a \in Attempts : Open(a)' /\ attempt[a] = "in_flight" => attempt'[a] = "in_flight",
           \A a \in Attempts : Open(a)' /\ attempt'[a] = "in_flight" => a \in Committed,
           \A a \in Attempts : Open(a)' /\ lease[a] # NoLease => lease'[a] # NoLease,
           \A a \in Attempts : Open(a)' /\ lease'[a] # NoLease => a \in Committed
    PROVE  ExecutorInv'
<1>0. Attempts' = Attempts
  BY DEF Attempts
<1>1. ExecutorType'
  BY <1>0 DEF ExecutorInv, ExecutorType, Lease, Job
<1>2. JobsHold'
  BY <1>0 DEF ExecutorInv, JobsHold, JobAt, Open
<1>3. ASSUME NEW a \in Attempts, Open(a)'
      PROVE  Open(a) /\ (a \in Committed' <=> a \in Committed)
  BY <1>0, <1>3 DEF Committed
<1> QED BY <1>1, <1>2, <1>3, CommittedKept DEF ExecutorInv

(* The job of a worker, and what a step of its own may make of it.         *)
LEMMA JobShape ==
    ASSUME ExecutorInv, NEW w \in Processes
    PROVE  /\ job[w] \in Job /\ job \in [Processes -> Job]
           /\ job[w].pc # "idle" => job[w].a \in Attempts
           /\ Fits(NoJob) /\ ~Claimed(NoJob)
           /\ \A pc : Goto(w, pc) => job' = [job EXCEPT ![w] = [job[w] EXCEPT !.pc = pc]]
<1>1. job \in [Processes -> Job] /\ job[w] \in Job
  BY DEF ExecutorInv, ExecutorType, Job
<1>2. job[w].pc # "idle" => job[w].a \in Attempts
  BY DEF ExecutorInv, JobsHold
<1>3. Fits(NoJob) /\ ~Claimed(NoJob)
  BY DEF Fits, NoJob, Job, Claimed, Nothing
<1>4. \A pc : Goto(w, pc) => job' = [job EXCEPT ![w] = [job[w] EXCEPT !.pc = pc]]
  BY DEF Goto
<1> QED BY <1>1, <1>2, <1>3, <1>4
(* Registering the plan, the stages, the windows and the outcome rows move *)
(* neither an attempt, a lease nor a job.                                  *)
LEMMA ExecutorIdleSteps ==
    ASSUME ExecutorInv, UNCHANGED <<profile, attempt, lease, job>>, now' \in Nat
    PROVE  ExecutorInv'
<1>1. attempt' \in [Attempts -> AttemptStates] /\ lease' \in [Attempts -> Lease]
  BY DEF ExecutorInv, ExecutorType, Lease
<1>2. \A a \in Attempts : (Open(a)' <=> Open(a)) /\ attempt'[a] = attempt[a] /\ lease'[a] = lease[a]
  BY DEF Open
<1>3. \A a \in Attempts : Open(a) /\ (attempt[a] = "in_flight" \/ lease[a] # NoLease) => a \in Committed
  BY DEF Committed
<1> QED
  <2> HIDE DEF ExecutorInv, Committed, Open, Lease
  <2> QED BY <1>1, <1>2, <1>3, StoreStep

(* Taking the lease of a claim, or losing it. *)
LEMMA AcquireWorkStep ==
    ASSUME ExecutorInv, NEW w \in Processes, AcquireWork(w) PROVE ExecutorInv'
<1> DEFINE a == job[w].a
           o == [job[w] EXCEPT !.pc = "work"]
<1>1. /\ job[w].pc = "claim" /\ a \in Attempts /\ job[w] \in Job
      /\ UNCHANGED <<profile, attempt, now>>
  BY JobShape DEF AcquireWork, JobAt, plan
<1>2. CASE lease[a] # NoLease /\ JobDone(w) /\ UNCHANGED lease
  <2>1. job' = [job EXCEPT ![w] = NoJob] /\ Fits(NoJob) /\ ~Claimed(NoJob) /\ NoJob.pc # "release"
    BY <1>2, JobShape DEF JobDone, NoJob
  <2> HIDE DEF NoJob, a
  <2>2. lease[job[w].a] # NoLease
    BY <1>2 DEF a
  <2> QED BY <1>1, <1>2, <2>1, <2>2, JobStep
<1>3. CASE /\ lease' = [lease EXCEPT ![a] =
                  [holder |-> w, acquired |-> job[w].t, expires |-> job[w].t + TTL]]
           /\ Goto(w, "work")
  <2>1. job[w].t \in Nat /\ TTL \in Nat \ {0}
    BY <1>1, ExecutorConstants DEF Job
  <2>2. lease \in [Attempts -> Lease]
    BY DEF ExecutorInv, ExecutorType, Lease
  <2>3. [holder |-> w, acquired |-> job[w].t, expires |-> job[w].t + TTL] \in Lease \ {NoLease}
    BY <2>1 DEF Lease, NoLease
  <2>4. /\ lease' \in [Attempts -> Lease] /\ lease'[a] # NoLease
        /\ \A b \in Attempts : b # a => lease'[b] = lease[b]
    BY <1>1, <1>3, <2>2, <2>3
  <2>5. job' = [job EXCEPT ![w] = o] /\ Fits(o) /\ o.pc = "work" /\ o.a = a
    <3>1. job' = [job EXCEPT ![w] = o]
      BY <1>3, JobShape
    <3> QED BY <1>1, <3>1 DEF Fits, Job
  <2>6. Claimed(job[w]) /\ Claimed(o)
    BY <1>1, <2>5 DEF Claimed
  <2>7. \A b \in Attempts : (Open(b)' <=> Open(b)) /\ attempt'[b] = attempt[b]
    BY <1>1 DEF Open
  <2>8. \A b \in Attempts :
           Open(b) /\ (attempt[b] = "in_flight" \/ lease[b] # NoLease \/ b = a) => b \in Committed
    BY <1>1, <2>6 DEF Committed, Claimed
  <2>9. now' \in Nat /\ attempt' \in [Attempts -> AttemptStates]
    BY <1>1 DEF ExecutorInv, ExecutorType
  <2>10. \A b \in Attempts : Open(b)' /\ lease'[b] # NoLease => b \in Committed
    BY <2>4, <2>7, <2>8
  <2>11. \A b \in Attempts : Open(b)' /\ lease[b] # NoLease => lease'[b] # NoLease
    BY <2>4
  <2>12. o.pc # "release" /\ o.a = job[w].a
    BY <2>5
  <2> HIDE DEF o, a, Open, Claimed, Fits, ExecutorInv, Committed, NoLease, Lease
  <2> QED BY <1>1, <2>4, <2>5, <2>6, <2>7, <2>8, <2>9, <2>10, <2>11, <2>12, WorkerStep
<1> QED BY <1>2, <1>3 DEF AcquireWork

(* Extending a lease. *)
LEMMA HeartbeatWorkStep ==
    ASSUME ExecutorInv, NEW w \in Processes, HeartbeatWork(w) PROVE ExecutorInv'
<1> DEFINE a == job[w].a
<1>1. /\ job[w].pc = "work" /\ a \in Attempts /\ lease[a].expires > now /\ now \in Nat
      /\ lease' = [lease EXCEPT ![a].expires = now + TTL]
      /\ UNCHANGED <<profile, attempt, job, now>>
  BY JobShape DEF HeartbeatWork, JobAt, plan, ExecutorInv, ExecutorType
<1>2. lease \in [Attempts -> Lease] /\ TTL \in Nat \ {0}
  BY ExecutorConstants DEF ExecutorInv, ExecutorType, Lease
<1>3. lease[a] # NoLease
  BY <1>1 DEF NoLease
<1>4. [lease[a] EXCEPT !.expires = now + TTL] \in Lease \ {NoLease}
  BY <1>1, <1>2 DEF Lease, NoLease
<1>5. /\ lease' \in [Attempts -> Lease] /\ lease'[a] # NoLease
      /\ \A b \in Attempts : b # a => lease'[b] = lease[b]
  BY <1>1, <1>2, <1>4
<1>6. \A b \in Attempts : (Open(b)' <=> Open(b)) /\ attempt'[b] = attempt[b]
  BY <1>1 DEF Open
<1>7. \A b \in Attempts : Open(b) /\ (attempt[b] = "in_flight" \/ lease[b] # NoLease) => b \in Committed
  BY DEF Committed
<1>8. now' \in Nat /\ attempt' \in [Attempts -> AttemptStates]
  BY <1>1 DEF ExecutorInv, ExecutorType
<1>9. \A b \in Attempts : lease'[b] # NoLease <=> lease[b] # NoLease
  BY <1>3, <1>5
<1> HIDE DEF a, Open, ExecutorInv, Committed, NoLease, Lease
<1> QED BY <1>1, <1>5, <1>6, <1>7, <1>8, <1>9, StoreStep

(* Releasing the lease of a completed attempt. *)
LEMMA ReleaseWorkStep ==
    ASSUME ExecutorInv, NEW w \in Processes, ReleaseWork(w) PROVE ExecutorInv'
<1> DEFINE a == job[w].a
<1>1. /\ job[w].pc = "release" /\ a \in Attempts /\ ~Open(a) /\ ~Claimed(job[w])
      /\ job' = [job EXCEPT ![w] = NoJob] /\ UNCHANGED <<profile, attempt, now>>
  BY JobShape DEF ReleaseWork, JobAt, plan, ExecutorInv, JobsHold, JobDone, Claimed
<1>2. lease \in [Attempts -> Lease] /\ NoLease \in Lease
  BY DEF ExecutorInv, ExecutorType, Lease, NoLease
<1>3. lease' \in [Attempts -> Lease] /\ \A b \in Attempts : b # a => lease'[b] = lease[b]
  BY <1>1, <1>2 DEF ReleaseWork
<1>4. \A b \in Attempts : (Open(b)' <=> Open(b)) /\ attempt'[b] = attempt[b]
  BY <1>1 DEF Open
<1>5. \A b \in Attempts : Open(b) => (lease'[b] # NoLease <=> lease[b] # NoLease)
  BY <1>1, <1>3
<1>6. \A b \in Attempts : Open(b) /\ (attempt[b] = "in_flight" \/ lease[b] # NoLease) => b \in Committed
  BY DEF Committed
<1>7. now' \in Nat /\ attempt' \in [Attempts -> AttemptStates]
  BY <1>1 DEF ExecutorInv, ExecutorType
<1>8. Fits(NoJob) /\ ~Claimed(NoJob) /\ NoJob.pc # "release"
  BY JobShape DEF NoJob
<1> HIDE DEF a, Open, ExecutorInv, Committed, NoLease, Lease, Claimed, Fits, NoJob
<1> QED BY <1>1, <1>3, <1>4, <1>5, <1>6, <1>7, <1>8, WorkerStep
(* A worker with the attempt in its hands starts its source ...            *)
LEMMA MarkSourceInFlightStep ==
    ASSUME ExecutorInv, NEW w \in Processes, MarkSourceInFlight(w) PROVE ExecutorInv'
<1> DEFINE a == job[w].a
<1>1. /\ job[w].pc = "work" /\ a \in Attempts /\ attempt[a] = "planned"
      /\ attempt' = [attempt EXCEPT ![a] = "in_flight"]
      /\ UNCHANGED <<profile, lease, job, now>>
  BY JobShape DEF MarkSourceInFlight, JobAt, plan
<1>2. /\ attempt \in [Attempts -> AttemptStates] /\ attempt' \in [Attempts -> AttemptStates]
      /\ now' \in Nat /\ lease' \in [Attempts -> Lease]
  BY <1>1 DEF ExecutorInv, ExecutorType, Lease, AttemptStates
<1>3. attempt'[a] = "in_flight" /\ \A b \in Attempts : b # a => attempt'[b] = attempt[b]
  BY <1>1, <1>2
<1>4. \A b \in Attempts : Open(b)' <=> Open(b)
  BY <1>1, <1>3 DEF Open, Terminal, ChainOutcomes
<1>5. \A b \in Attempts :
         Open(b) /\ (attempt[b] = "in_flight" \/ lease[b] # NoLease \/ b = a) => b \in Committed
  BY <1>1 DEF Committed
<1>6. \A b \in Attempts : lease'[b] = lease[b]
  BY <1>1
<1> HIDE DEF a, Open, ExecutorInv, Committed, NoLease, Lease
<1> QED BY <1>1, <1>2, <1>3, <1>4, <1>5, <1>6, StoreStep

(* ... and an attempt that ends leaves the committed ones.                 *)
LEMMA EndingStep ==
    ASSUME ExecutorInv, NEW w \in Processes, job[w].pc # "idle", NEW r \in Terminal,
           attempt' = [attempt EXCEPT ![job[w].a] = r], UNCHANGED <<profile, lease, now>>,
           NEW o, job' = [job EXCEPT ![w] = o], Fits(o), ~Claimed(o), o.pc = "release" => o.a = job[w].a
    PROVE  ExecutorInv'
<1> DEFINE a == job[w].a
<1>1. a \in Attempts
  BY JobShape
<1>2. /\ attempt \in [Attempts -> AttemptStates] /\ attempt' \in [Attempts -> AttemptStates]
      /\ now' \in Nat /\ lease' \in [Attempts -> Lease]
  BY <1>1 DEF ExecutorInv, ExecutorType, Lease, AttemptStates
<1>3. attempt'[a] = r /\ \A b \in Attempts : b # a => attempt'[b] = attempt[b]
  BY <1>1, <1>2
<1>4. \A b \in Attempts : Open(b)' => Open(b) /\ b # a
  BY <1>1, <1>3 DEF Open
<1>5. \A b \in Attempts : Open(b) /\ (attempt[b] = "in_flight" \/ lease[b] # NoLease) => b \in Committed
  BY DEF Committed
<1>6. \A b \in Attempts : lease'[b] = lease[b]
  OBVIOUS
<1>7. o.pc = "release" => ~Open(o.a)'
  BY <1>3 DEF Open
<1>8. \A b \in Attempts : ~Open(b) => ~Open(b)'
  BY <1>4
<1>9. attempt'[job[w].a] \in Terminal
  BY <1>3
<1> HIDE DEF a, Open, ExecutorInv, Committed, NoLease, Lease, Claimed, Fits, Terminal
<1> QED BY <1>2, <1>3, <1>4, <1>5, <1>6, <1>7, <1>8, <1>9, WorkerStep

(* Completing an attempt, which ends it. *)
LEMMA CompleteAttemptStep ==
    ASSUME ExecutorInv, NEW w \in Processes, CompleteAttempt(w) PROVE ExecutorInv'
<1>1. /\ job[w].pc = "work" /\ job[w].a \in Attempts /\ job[w] \in Job
      /\ UNCHANGED <<profile, lease, now>> /\ "delivered" \in Terminal
  BY JobShape DEF CompleteAttempt, JobAt, plan, Terminal, ChainOutcomes
<1>2. CASE attempt[job[w].a] = "delivered" /\ JobDone(w) /\ UNCHANGED attempt
  <2>1. job' = [job EXCEPT ![w] = NoJob] /\ Fits(NoJob) /\ ~Claimed(NoJob) /\ NoJob.pc # "release"
    BY <1>2, JobShape DEF JobDone, NoJob
  <2>2. ~Open(job[w].a)
    BY <1>1, <1>2 DEF Open
  <2> HIDE DEF NoJob, Fits, Claimed, Open
  <2> QED BY <1>1, <1>2, <2>1, <2>2, JobStep
<1>3. CASE attempt' = [attempt EXCEPT ![job[w].a] = "delivered"] /\ Goto(w, "release")
  <2> DEFINE o == [job[w] EXCEPT !.pc = "release"]
  <2>1. job' = [job EXCEPT ![w] = o]
    BY <1>3, JobShape
  <2>2. Fits(o) /\ ~Claimed(o) /\ o.a = job[w].a
    BY <1>1 DEF Fits, Job, Claimed
  <2>3. job[w].pc # "idle"
    BY <1>1
  <2> HIDE DEF o, Fits, Claimed, Open, ExecutorInv
  <2> QED BY <1>1, <1>3, <2>1, <2>2, <2>3, EndingStep
<1> QED BY <1>2, <1>3 DEF CompleteAttempt

(* Applying an outcome, which ends the attempt. *)
LEMMA ApplyOutcomeStep ==
    ASSUME ExecutorInv, NEW w \in Processes, ApplyOutcome(w) PROVE ExecutorInv'
<1>1. /\ job[w].pc = "apply" /\ job[w].o \in Terminal /\ UNCHANGED <<profile, lease, now>>
      /\ attempt' = [attempt EXCEPT ![job[w].a] = job[w].o] /\ job' = [job EXCEPT ![w] = NoJob]
  BY DEF ApplyOutcome, JobAt, plan, ExecutorInv, JobsHold, JobDone
<1>2. Fits(NoJob) /\ ~Claimed(NoJob) /\ NoJob.pc # "release" /\ job[w].pc # "idle"
  BY <1>1, JobShape DEF NoJob
<1> HIDE DEF NoJob, Fits, Claimed, ExecutorInv
<1> QED BY <1>1, <1>2, EndingStep

(* An observer's method judges, appends and compares before it applies.    *)
LEMMA ObserverStep ==
    ASSUME ExecutorInv, NEW w \in Processes, ~Claimed(job[w]), NEW o,
           job' = [job EXCEPT ![w] = o], Fits(o), ~Claimed(o), o.pc # "release",
           UNCHANGED <<profile, attempt, lease, now>>
    PROVE  ExecutorInv'
BY JobStep

(* Judging a deadline or observing a failure moves only the worker. *)
LEMMA ObserveStep ==
    ASSUME ExecutorInv, NEW w \in Processes, NEW a \in Attempts,
           \/ JudgeDeadline(w, a) \/ \E r \in {"failed", "unobserved"} : ObserveFailure(w, a, r)
    PROVE  ExecutorInv'
<1>1. PICK pc \in {"deadline", "failure"}, r \in Terminal :
         /\ job' = [job EXCEPT ![w] = [pc |-> pc, a |-> a, t |-> 0, o |-> r]]
         /\ JobAt(w, "idle") /\ UNCHANGED <<profile, attempt, lease, now>>
  BY DEF JudgeDeadline, ObserveFailure, Observe, plan, Terminal, ChainOutcomes
<1> DEFINE o == [pc |-> pc, a |-> a, t |-> 0, o |-> r]
<1>2. Fits(o) /\ ~Claimed(o) /\ o.pc # "release" /\ ~Claimed(job[w])
  BY <1>1 DEF Fits, Claimed, Job, JobAt
<1>3. job' = [job EXCEPT ![w] = o]
  BY <1>1
<1> HIDE DEF o, Fits, Claimed, ExecutorInv
<1> QED BY <1>1, <1>2, <1>3, ObserverStep

(* Appending an outcome moves only the worker. *)
LEMMA RecordStep ==
    ASSUME ExecutorInv, NEW w \in Processes, AppendDeadline(w) \/ AppendFailure(w) \/ CompareDeadline(w)
    PROVE  ExecutorInv'
<1>1. /\ job[w].pc \in {"deadline", "failure", "compare"} /\ UNCHANGED <<profile, attempt, lease, now>>
      /\ JobDone(w) \/ Goto(w, "apply") \/ Goto(w, "compare")
  BY DEF AppendDeadline, AppendFailure, CompareDeadline, AppendOutcome, JobAt, plan
<1>2. job[w] \in Job /\ job[w].a \in Attempts /\ job[w].o \in Terminal
  BY <1>1, JobShape DEF ExecutorInv, JobsHold
<1>3. ~Claimed(job[w])
  BY <1>1 DEF Claimed
<1>4. CASE JobDone(w)
  <2>1. job' = [job EXCEPT ![w] = NoJob] /\ Fits(NoJob) /\ ~Claimed(NoJob) /\ NoJob.pc # "release"
    BY <1>4, JobShape DEF JobDone, NoJob
  <2> HIDE DEF NoJob, Fits, Claimed, ExecutorInv
  <2> QED BY <1>1, <1>3, <2>1, ObserverStep
<1>5. ASSUME NEW pc \in {"apply", "compare"}, Goto(w, pc) PROVE ExecutorInv'
  <2> DEFINE o == [job[w] EXCEPT !.pc = pc]
  <2>1. job' = [job EXCEPT ![w] = o]
    BY <1>5, JobShape
  <2>2. Fits(o) /\ ~Claimed(o) /\ o.pc # "release"
    BY <1>2 DEF Fits, Job, Claimed
  <2> HIDE DEF o, Fits, Claimed, ExecutorInv
  <2> QED BY <1>1, <1>3, <2>1, <2>2, ObserverStep
<1> QED BY <1>1, <1>4, <1>5
(* What the snapshot of a claim says of its candidate: it is the first of  *)
(* the first open batch that is planned and not active.                    *)
LEMMA CandidateShape ==
    ASSUME ExecutorInv, NEW x \in Candidate(now), NEW c \in Attempts, Open(c)
    PROVE  /\ x \in Attempts /\ attempt[x] = "planned" /\ x \notin Active(now)
           /\ BatchOf(x) = CurrentBatch /\ CurrentBatch <= BatchOf(c)
           /\ \A b \in Attempts : BatchOf(b) = CurrentBatch /\ attempt[b] = "planned" /\ b < x
                 => b \in Active(now)
           /\ PairOf(x) = 0 \/ \A b \in Active(now) : PairOf(b) # PairOf(x)
<1> DEFINE B == {BatchOf(a) : a \in {b \in Attempts : attempt[b] \notin Terminal}}
           S == {a \in Attempts : /\ BatchOf(a) = CurrentBatch
                                  /\ attempt[a] = "planned" /\ a \notin Active(now)}
<1>1. Attempts \subseteq Nat /\ \A a \in Attempts : BatchOf(a) \in Nat
  BY ProfileShape DEF ExecutorInv, ExecutorType
<1>2. B \in SUBSET Nat /\ BatchOf(c) \in B
  BY <1>1 DEF Open
<1>3. CurrentBatch <= BatchOf(c)
  <2>1. CurrentBatch = Min(B)
    BY DEF CurrentBatch
  <2> HIDE DEF B
  <2> QED BY <1>2, <2>1, MinIsLeast
<1>4. S # {} /\ x = Min(S) /\ (PairOf(x) = 0 \/ \A b \in Active(now) : PairOf(b) # PairOf(x))
  BY DEF Candidate
<1>5. S \in SUBSET Nat
  BY <1>1
<1>6. x \in S /\ \A y \in S : x <= y
  <2> HIDE DEF S
  <2> QED BY <1>4, <1>5, MinIsLeast
<1>7. ASSUME NEW b \in Attempts, BatchOf(b) = CurrentBatch, attempt[b] = "planned", b < x
      PROVE  b \in Active(now)
  <2>1. x \in Nat /\ b \in Nat
    BY <1>1, <1>6
  <2>2. b \notin S
    BY <1>6, <1>7, <2>1
  <2> QED BY <1>7, <2>2
<1> QED BY <1>3, <1>4, <1>6, <1>7

(* A claim commits the worker to the first open attempt that none is       *)
(* committed to, within the limits.                                        *)
LEMMA ClaimStep ==
    ASSUME ExecutorInv, NEW w \in Processes, Claim(w) PROVE ExecutorInv'
<1>1. PICK x \in Candidate(now) :
         job' = [job EXCEPT ![w] = [NoJob EXCEPT !.pc = "claim", !.a = x, !.t = now]]
  BY DEF Claim
<1>2. PICK c \in Attempts : Open(c)
  BY DEF Claim, Open
<1>3. /\ job[w].pc = "idle" /\ Cardinality(Active(now)) < profile.inflight
      /\ UNCHANGED <<profile, attempt, lease, now>>
  BY DEF Claim, JobAt, plan
<1>4. /\ x \in Attempts /\ attempt[x] = "planned" /\ x \notin Active(now)
      /\ BatchOf(x) = CurrentBatch /\ \A a \in Attempts : Open(a) => CurrentBatch <= BatchOf(a)
      /\ \A b \in Attempts : BatchOf(b) = CurrentBatch /\ attempt[b] = "planned" /\ b < x
            => b \in Active(now)
      /\ PairOf(x) = 0 \/ \A b \in Active(now) : PairOf(b) # PairOf(x)
  BY <1>2, CandidateShape
<1> DEFINE o == [NoJob EXCEPT !.pc = "claim", !.a = x, !.t = now]
<1>5. Attempts' = Attempts /\ (\A a : BatchOf(a)' = BatchOf(a) /\ PairOf(a)' = PairOf(a))
  BY <1>3 DEF Attempts, BatchOf, PairOf
<1>6. /\ Attempts \subseteq Nat /\ IsFiniteSet(Attempts) /\ profile.inflight \in Nat
      /\ \A a \in Attempts : BatchOf(a) \in Nat
  BY ProfileShape DEF ExecutorInv, ExecutorType
<1>7. /\ job \in [Processes -> Job] /\ job' \in [Processes -> Job]
      /\ job'[w] = o /\ o.pc = "claim" /\ o.a = x
      /\ \A v \in Processes : v # w => job'[v] = job[v]
  <2>1. job \in [Processes -> Job] /\ now \in Nat
    BY DEF ExecutorInv, ExecutorType, Job
  <2>2. o \in Job /\ o.pc = "claim" /\ o.a = x
    BY <1>4, <2>1 DEF Job, NoJob, Nothing
  <2> HIDE DEF o
  <2>3. job' = [job EXCEPT ![w] = o]
    BY <1>1 DEF o
  <2> QED BY <2>1, <2>2, <2>3
<1>8. ExecutorType'
  BY <1>3, <1>5, <1>7 DEF ExecutorInv, ExecutorType, Job
<1>9. JobsHold'
  <2> HIDE DEF o
  <2> QED BY <1>3, <1>4, <1>5, <1>7 DEF ExecutorInv, JobsHold, JobAt, Open
<1>10. Open(x) /\ \A a : Open(a)' <=> Open(a)
  BY <1>3, <1>4 DEF Open, Terminal, ChainOutcomes
<1>11. Committed' = Committed \cup {x}
  <2> HIDE DEF o
  <2>1. x \in Committed'
    BY <1>4, <1>5, <1>7, <1>10 DEF Committed
  <2>2. \A v \in Processes : job[v].pc \in {"claim", "work"} => v # w
    BY <1>3
  <2>3. ASSUME NEW a \in Committed PROVE a \in Committed'
    BY <1>3, <1>5, <1>7, <1>10, <2>2 DEF Committed
  <2>4. ASSUME NEW a \in Committed', a # x PROVE a \in Committed
    <3>1. a \in Attempts /\ Open(a)
      BY <1>5, <1>10 DEF Committed
    <3>2. ASSUME NEW v \in Processes, job'[v].a = a, job'[v].pc \in {"claim", "work"}
          PROVE  a \in Committed
      BY <1>7, <2>4, <3>1, <3>2 DEF Committed
    <3> QED BY <1>3, <3>1, <3>2 DEF Committed
  <2> QED BY <2>1, <2>3, <2>4
<1>12. \A a \in Active(now) : a \in Attempts /\ (Open(a) => a \in Committed)
  BY DEF Active, Unexpired, Committed
<1>13. CASE x \in Committed
  <2>1. \A a \in Attempts : Open(a)' => Open(a) /\ (a \in Committed' <=> a \in Committed)
    BY <1>10, <1>11, <1>13
  <2>2. CommittedIsPrefix' /\ CommittedBounded' /\ CommittedExclusive'
    BY <1>3, <2>1, CommittedKept
  <2> QED BY <1>8, <1>9, <2>2 DEF ExecutorInv
<1>14. CASE x \notin Committed
  <2> HIDE DEF o
  <2>1. \A a \in Committed : a \in Attempts /\ Open(a)
    BY DEF Committed
  <2>2. ASSUME NEW a \in Committed PROVE a \in Active(now)
    <3>1. /\ BatchOf(a) <= BatchOf(x) /\ (BatchOf(a) = BatchOf(x) /\ x < a => x \in Committed)
      BY <1>4, <1>10 DEF ExecutorInv, CommittedIsPrefix
    <3>2. BatchOf(a) = CurrentBatch
      <4>1. BatchOf(a) \in Nat /\ BatchOf(x) \in Nat
        BY <1>4, <1>6, <2>1
      <4>2. CurrentBatch <= BatchOf(a)
        BY <1>4, <2>1
      <4> QED BY <1>4, <3>1, <4>1, <4>2
    <3>3. a < x
      <4>1. a \in Nat /\ x \in Nat
        BY <1>4, <1>6, <2>1
      <4>2. a # x /\ ~(x < a)
        BY <1>4, <1>14, <3>1, <3>2
      <4> QED BY <4>1, <4>2
    <3>4. attempt[a] = "planned" \/ attempt[a] = "in_flight"
      BY <2>1 DEF ExecutorInv, ExecutorType, Open, AttemptStates
    <3> QED BY <1>4, <2>1, <3>2, <3>3, <3>4 DEF Active
  <2>3. CommittedIsPrefix'
    <3>1. ASSUME NEW a \in Committed, NEW b \in Attempts, Open(b)
          PROVE  /\ BatchOf(a) <= BatchOf(b)
                 /\ BatchOf(a) = BatchOf(b) /\ b < a => b \in Committed'
      BY <1>11, <3>1 DEF ExecutorInv, CommittedIsPrefix
    <3>2. ASSUME NEW b \in Attempts, Open(b), BatchOf(x) = BatchOf(b), b < x
          PROVE  b \in Committed'
      <4>1. attempt[b] = "planned" \/ attempt[b] = "in_flight"
        BY <3>2 DEF ExecutorInv, ExecutorType, Open, AttemptStates
      <4>2. b \in Active(now)
        BY <1>4, <3>2, <4>1 DEF Active
      <4> QED BY <1>11, <1>12, <3>2, <4>2
    <3>3. \A b \in Attempts : Open(b) => BatchOf(x) <= BatchOf(b)
      BY <1>4
    <3> QED BY <1>5, <1>10, <1>11, <3>1, <3>2, <3>3 DEF CommittedIsPrefix
  <2>4. CommittedExclusive'
    BY <1>4, <1>5, <1>11, <2>2 DEF ExecutorInv, CommittedExclusive
  <2>5. CommittedBounded'
    <3>1. IsFiniteSet(Active(now)) /\ IsFiniteSet(Committed)
          /\ Cardinality(Committed) <= Cardinality(Active(now))
      <4>1. Active(now) \subseteq Attempts /\ Committed \subseteq Active(now)
        BY <2>2 DEF Active
      <4>2. IsFiniteSet(Active(now))
        BY <1>6, <4>1, FS_Subset
      <4> QED BY <4>1, <4>2, FS_Subset
    <3>2. Cardinality(Committed \cup {x}) = Cardinality(Committed) + 1
      BY <1>14, <3>1, FS_AddElement
    <3>3. Cardinality(Committed) \in Nat /\ Cardinality(Active(now)) \in Nat
      BY <3>1, FS_CardinalityType
    <3>4. Cardinality(Committed) + 1 <= profile.inflight
      BY <1>3, <1>6, <3>1, <3>3
    <3> QED BY <1>3, <1>11, <3>2, <3>4 DEF CommittedBounded
  <2> QED BY <1>8, <1>9, <2>3, <2>4, <2>5 DEF ExecutorInv
<1> QED BY <1>13, <1>14

(* No attempt is claimed at first. *)
LEMMA ExecutorStarts == ExecutorInit => ExecutorInv
<1> SUFFICES ASSUME ExecutorInit PROVE ExecutorInv
  OBVIOUS
<1>1. /\ attempt = [a \in Attempts |-> "planned"] /\ lease = [a \in Attempts |-> NoLease]
      /\ job = [w \in Processes |-> NoJob] /\ now = 0 /\ profile \in Profiles
  BY DEF ExecutorInit
<1>2. ExecutorType
  <2>1. "planned" \in AttemptStates
    BY DEF AttemptStates
  <2>2. NoLease \in Lease /\ NoJob \in Job
    BY DEF NoLease, Lease, NoJob, Job, Nothing
  <2> HIDE DEF NoLease, NoJob
  <2> QED BY <1>1, <2>1, <2>2 DEF ExecutorType, Lease, Job
<1>3. JobsHold
  BY <1>1 DEF JobsHold, JobAt, NoJob
<1>4. Committed = {}
  BY <1>1 DEF Committed, NoJob
<1>5. CommittedIsPrefix /\ CommittedExclusive
  BY <1>4 DEF CommittedIsPrefix, CommittedExclusive
<1>6. CommittedBounded
  <2>1. Cardinality(Committed) = 0
    BY <1>4, FS_EmptySet
  <2> QED BY <1>1, <2>1, ProfileShape DEF CommittedBounded
<1> QED BY <1>2, <1>3, <1>5, <1>6 DEF ExecutorInv

(* Every step keeps the invariant. *)
LEMMA ExecutorStep == ExecutorInv /\ [ExecutorNext]_evars => ExecutorInv'
<1> SUFFICES ASSUME ExecutorInv, [ExecutorNext]_evars PROVE ExecutorInv'
  OBVIOUS
<1>n. now \in Nat
  BY DEF ExecutorInv, ExecutorType
<1>1. CASE UNCHANGED evars
  <2>1. UNCHANGED <<profile, attempt, lease, job>> /\ now' \in Nat
    BY <1>n, <1>1 DEF evars
  <2> QED BY <2>1, ExecutorIdleSteps
<1>2. CASE Tick
  <2>1. UNCHANGED <<profile, attempt, lease, job>> /\ now' \in Nat
    BY <1>n, <1>2 DEF Tick, plan
  <2> QED BY <2>1, ExecutorIdleSteps
<1>3. ASSUME NEW a \in Attempts, NEW i \in 1..Stages, Settle(a, i) PROVE ExecutorInv'
  <2>1. UNCHANGED <<profile, attempt, lease, job>> /\ now' \in Nat
    BY <1>n, <1>3 DEF Settle, plan
  <2> QED BY <2>1, ExecutorIdleSteps
<1>4. ASSUME NEW w \in Processes, Work(w) PROVE ExecutorInv'
  <2>1. CASE RegisterPlan(w) \/ RegisterWindow(w)
    <3>1. UNCHANGED <<profile, attempt, lease, job>> /\ now' \in Nat
      BY <1>n, <2>1 DEF RegisterPlan, RegisterWindow, plan
    <3> QED BY <3>1, ExecutorIdleSteps
  <2>2. ASSUME NEW i \in 1..Stages, Submit(w, i) \/ \E to \in StageStates : TransitionStage(w, i, to)
        PROVE  ExecutorInv'
    <3>1. UNCHANGED <<profile, attempt, lease, job>> /\ now' \in Nat
      BY <1>n, <2>2 DEF Submit, TransitionStage, plan
    <3> QED BY <3>1, ExecutorIdleSteps
  <2>3. ASSUME NEW a \in Attempts, NEW delivered \in BOOLEAN, RecordEventual(w, a, delivered)
        PROVE  ExecutorInv'
    <3>1. UNCHANGED <<profile, attempt, lease, job>> /\ now' \in Nat
      BY <1>n, <2>3 DEF RecordEventual, plan
    <3> QED BY <3>1, ExecutorIdleSteps
  <2>4. CASE Claim(w)
    BY <2>4, ClaimStep
  <2>5. CASE AcquireWork(w)
    BY <2>5, AcquireWorkStep
  <2>6. CASE HeartbeatWork(w)
    BY <2>6, HeartbeatWorkStep
  <2>7. CASE ReleaseWork(w)
    BY <2>7, ReleaseWorkStep
  <2>8. CASE MarkSourceInFlight(w)
    BY <2>8, MarkSourceInFlightStep
  <2>9. CASE CompleteAttempt(w)
    BY <2>9, CompleteAttemptStep
  <2>10. CASE ApplyOutcome(w)
    BY <2>10, ApplyOutcomeStep
  <2>11. ASSUME NEW a \in Attempts,
                JudgeDeadline(w, a) \/ \E o \in {"failed", "unobserved"} : ObserveFailure(w, a, o)
         PROVE  ExecutorInv'
    BY <2>11, ObserveStep
  <2>12. CASE AppendDeadline(w) \/ AppendFailure(w) \/ CompareDeadline(w)
    BY <2>12, RecordStep
  <2> HIDE DEF ExecutorInv
  <2> QED BY <1>4, <2>1, <2>2, <2>3, <2>4, <2>5, <2>6, <2>7, <2>8, <2>9, <2>10, <2>11, <2>12 DEF Work
<1> QED BY <1>1, <1>2, <1>3, <1>4 DEF ExecutorNext

(* The attempts under way or committed to by what any worker has claimed,  *)
(* however stale its snapshot, stay a prefix of the open attempts of one   *)
(* batch, within the profile's maximum, with one arm of a pair.            *)
THEOREM ExecutorInvariant == ExecutorSpec => []ExecutorInv
<1>1. ExecutorInit => ExecutorInv
  BY ExecutorStarts
<1>2. ExecutorInv /\ [ExecutorNext]_evars => ExecutorInv'
  BY ExecutorStep
<1> QED BY <1>1, <1>2, PTL DEF ExecutorSpec

(* What claim_next admits stays within the three limits of the profile:    *)
(* the maximum under way, one arm of a pair at a time, one batch after the *)
(* other.                                                                  *)
THEOREM AdmissionBounded == ExecutorSpec => []AdmissionHolds
<1>1. ExecutorInv => AdmissionHolds
  <2> SUFFICES ASSUME ExecutorInv PROVE AdmissionHolds
    OBVIOUS
  <2>1. Busy \subseteq Committed /\ Committed \subseteq Attempts
    BY DEF Busy, Committed, Active, Unexpired, Open
  <2>2. IsFiniteSet(Committed) /\ profile.inflight \in Nat
    BY <2>1, ProfileShape, FS_Subset DEF ExecutorInv, ExecutorType
  <2>3. Cardinality(Busy) <= Cardinality(Committed) /\ IsFiniteSet(Busy)
    BY <2>1, <2>2, FS_Subset
  <2>4. Cardinality(Committed) \in Nat /\ Cardinality(Busy) \in Nat
    BY <2>2, <2>3, FS_CardinalityType
  <2>5. InFlightBounded
    BY <2>2, <2>3, <2>4 DEF InFlightBounded, ExecutorInv, CommittedBounded
  <2>6. PairExclusive
    BY <2>1 DEF PairExclusive, ExecutorInv, CommittedExclusive
  <2>7. BatchBarrier
    <3> SUFFICES ASSUME NEW a \in Busy, NEW b \in Attempts, BatchOf(b) < BatchOf(a), Open(b)
                 PROVE  FALSE
      BY DEF BatchBarrier, Open
    <3>1. BatchOf(a) <= BatchOf(b)
      BY <2>1 DEF ExecutorInv, CommittedIsPrefix
    <3>2. BatchOf(a) \in Nat /\ BatchOf(b) \in Nat
      BY <2>1, ProfileShape DEF ExecutorInv, ExecutorType
    <3> QED BY <3>1, <3>2
  <2> QED BY <2>5, <2>6, <2>7 DEF AdmissionHolds
<1> QED BY <1>1, ExecutorInvariant, PTL

(* An attempt that has ended stays ended: no deadline, failure, completion *)
(* or late worker brings it back into work.                                *)
THEOREM EndedStaysEnded == ExecutorSpec => NoResurrection
<1>1. ExecutorInv /\ [ExecutorNext]_evars
        => [\A a \in Attempts : attempt[a] \in Terminal => attempt'[a] \in Terminal]_evars
  <2> SUFFICES ASSUME ExecutorInv, ExecutorNext, NEW a \in Attempts, attempt[a] \in Terminal
               PROVE  attempt'[a] \in Terminal
    OBVIOUS
  <2>1. attempt \in [Attempts -> AttemptStates] /\ "delivered" \in Terminal /\ "planned" \notin Terminal
    BY DEF ExecutorInv, ExecutorType, Terminal, ChainOutcomes
  <2>2. CASE UNCHANGED attempt
    BY <2>2
  <2>3. ASSUME NEW w \in Processes, MarkSourceInFlight(w) PROVE attempt'[a] \in Terminal
    BY <2>1, <2>3 DEF MarkSourceInFlight
  <2>4. ASSUME NEW w \in Processes, CompleteAttempt(w) PROVE attempt'[a] \in Terminal
    BY <2>1, <2>4 DEF CompleteAttempt
  <2>5. ASSUME NEW w \in Processes, ApplyOutcome(w) PROVE attempt'[a] \in Terminal
    <3>1. job[w].o \in Terminal
      BY <2>5 DEF ApplyOutcome, ExecutorInv, JobsHold, JobAt
    <3> QED BY <2>1, <2>5, <3>1 DEF ApplyOutcome
  <2>6. \/ UNCHANGED attempt
        \/ \E w \in Processes : MarkSourceInFlight(w) \/ CompleteAttempt(w) \/ ApplyOutcome(w)
    BY ZenonT(60) DEF ExecutorNext, Work, RegisterPlan, Claim, AcquireWork, HeartbeatWork, ReleaseWork, RegisterWindow,
           Submit, TransitionStage, JudgeDeadline, ObserveFailure, RecordEventual, AppendDeadline,
           AppendFailure, AppendOutcome, CompareDeadline, Settle, Tick
  <2> QED BY <2>2, <2>3, <2>4, <2>5, <2>6
<1> QED BY <1>1, ExecutorInvariant, PTL DEF ExecutorSpec, NoResurrection
-----------------------------------------------------------------------------
(* The rows the admission does not read: the stages, their transactions,   *)
(* the windows and the outcomes.                                           *)
RowsTyped ==
    /\ registered \in BOOLEAN /\ now <= MaxTime
    /\ stages \in [Attempts -> [1..Stages -> StageStates]]
    /\ txns \in [Attempts -> [1..Stages -> {"none", "open", "final"}]]
    /\ \A a \in Attempts : lease[a] = NoLease \/ lease[a].holder \in Processes
    /\ window \in [Attempts -> {NoWindow} \cup 0..(MaxTime + Horizon)]
    /\ outcomes \in [Attempts -> SUBSET {"deadline", "failure", "eventual"}]
    /\ \A a \in Attempts : "eventual" \in outcomes[a] => "deadline" \in outcomes[a]

(* Every step keeps them: one part per kind of row. *)
LEMMA RowsStep == ASSUME ExecutorInv, RowsTyped, [ExecutorNext]_evars PROVE RowsTyped'
<1> USE ExecutorConstants DEF plan, progress
<1>1. Attempts' = Attempts
  <2>1. profile' = profile
    BY ZenonT(60) DEF ExecutorNext, Work, evars, RegisterPlan, Claim, AcquireWork, HeartbeatWork, ReleaseWork,
           MarkSourceInFlight, CompleteAttempt, RegisterWindow, Submit, TransitionStage,
           JudgeDeadline, ObserveFailure, RecordEventual, AppendDeadline, AppendFailure,
           AppendOutcome, CompareDeadline, ApplyOutcome, Settle, Tick
  <2> QED BY <2>1 DEF Attempts
<1>2. registered' \in BOOLEAN /\ now' <= MaxTime
  <2>1. registered' = registered \/ \E w \in Processes : RegisterPlan(w)
    BY ZenonT(60) DEF ExecutorNext, Work, evars, Claim, AcquireWork, HeartbeatWork, ReleaseWork,
           MarkSourceInFlight, CompleteAttempt, RegisterWindow, Submit, TransitionStage,
           JudgeDeadline, ObserveFailure, RecordEventual, AppendDeadline, AppendFailure,
           AppendOutcome, CompareDeadline, ApplyOutcome, Settle, Tick
  <2>2. now' = now \/ Tick
    BY ZenonT(60) DEF ExecutorNext, Work, evars, RegisterPlan, Claim, AcquireWork, HeartbeatWork, ReleaseWork,
           MarkSourceInFlight, CompleteAttempt, RegisterWindow, Submit, TransitionStage,
           JudgeDeadline, ObserveFailure, RecordEventual, AppendDeadline, AppendFailure,
           AppendOutcome, CompareDeadline, ApplyOutcome, Settle
  <2>3. registered' \in BOOLEAN
    BY <2>1, Zenon DEF RowsTyped, RegisterPlan
  <2> QED BY <2>2, <2>3 DEF RowsTyped, Tick, ExecutorInv, ExecutorType
<1>3. /\ stages' \in [Attempts -> [1..Stages -> StageStates]]
      /\ txns' \in [Attempts -> [1..Stages -> {"none", "open", "final"}]]
  <2>1. \/ UNCHANGED <<stages, txns>>
        \/ \E a \in Attempts, i \in 1..Stages, to \in StageStates :
              stages' = [stages EXCEPT ![a][i] = to] /\ UNCHANGED txns
        \/ \E a \in Attempts, i \in 1..Stages, to \in {"open", "final"} :
              txns' = [txns EXCEPT ![a][i] = to] /\ UNCHANGED stages
    <3>1. ASSUME NEW w \in Processes, JobAt(w, "work") PROVE job[w].a \in Attempts
      BY <3>1, JobShape DEF JobAt
    <3>2. CASE \E w \in Processes : \E i \in 1..Stages :
                 Submit(w, i) \/ \E to \in StageStates : TransitionStage(w, i, to)
      BY <3>1, <3>2 DEF Submit, TransitionStage
    <3>3. CASE \E a \in Attempts, i \in 1..Stages : Settle(a, i)
      BY <3>3 DEF Settle
    <3>4. CASE UNCHANGED <<stages, txns>>
      BY <3>4
    <3> QED
      BY <3>2, <3>3, <3>4, ZenonT(60)
         DEF ExecutorNext, Work, evars, RegisterPlan, Claim, AcquireWork, HeartbeatWork, ReleaseWork,
             MarkSourceInFlight, CompleteAttempt, RegisterWindow,
             JudgeDeadline, ObserveFailure, RecordEventual, AppendDeadline, AppendFailure,
             AppendOutcome, CompareDeadline, ApplyOutcome, Tick
  <2>2. /\ stages \in [Attempts -> [1..Stages -> StageStates]]
        /\ txns \in [Attempts -> [1..Stages -> {"none", "open", "final"}]]
    BY DEF RowsTyped
  <2>3. ASSUME NEW a \in Attempts, NEW i \in 1..Stages, NEW to \in StageStates
        PROVE  [stages EXCEPT ![a][i] = to] \in [Attempts -> [1..Stages -> StageStates]]
    BY <2>2
  <2>4. ASSUME NEW a \in Attempts, NEW i \in 1..Stages, NEW to \in {"open", "final"}
        PROVE  [txns EXCEPT ![a][i] = to] \in [Attempts -> [1..Stages -> {"none", "open", "final"}]]
    BY <2>2
  <2>5. CASE UNCHANGED <<stages, txns>>
    BY <2>2, <2>5
  <2>6. ASSUME NEW a \in Attempts, NEW i \in 1..Stages, NEW to \in StageStates,
               stages' = [stages EXCEPT ![a][i] = to] /\ UNCHANGED txns
        PROVE  /\ stages' \in [Attempts -> [1..Stages -> StageStates]]
               /\ txns' \in [Attempts -> [1..Stages -> {"none", "open", "final"}]]
    BY <2>2, <2>3, <2>6, Zenon
  <2>7. ASSUME NEW a \in Attempts, NEW i \in 1..Stages, NEW to \in {"open", "final"},
               txns' = [txns EXCEPT ![a][i] = to] /\ UNCHANGED stages
        PROVE  /\ stages' \in [Attempts -> [1..Stages -> StageStates]]
               /\ txns' \in [Attempts -> [1..Stages -> {"none", "open", "final"}]]
    BY <2>2, <2>4, <2>7, Zenon
  <2> QED BY <2>1, <2>5, <2>6, <2>7, Zenon
<1>4. \A a \in Attempts : lease'[a] = NoLease \/ lease'[a].holder \in Processes
  <2>1. \/ UNCHANGED lease
        \/ \E w \in Processes : AcquireWork(w) \/ HeartbeatWork(w) \/ ReleaseWork(w)
    BY ZenonT(60) DEF ExecutorNext, Work, evars, RegisterPlan, Claim,
           MarkSourceInFlight, CompleteAttempt, RegisterWindow, Submit, TransitionStage,
           JudgeDeadline, ObserveFailure, RecordEventual, AppendDeadline, AppendFailure,
           AppendOutcome, CompareDeadline, ApplyOutcome, Settle, Tick
  <2>2. lease \in [Attempts -> Lease]
    BY DEF ExecutorInv, ExecutorType
  <2>3. ASSUME NEW w \in Processes, AcquireWork(w), NEW a \in Attempts
        PROVE  lease'[a] = NoLease \/ lease'[a].holder \in Processes
    BY <2>2, <2>3 DEF AcquireWork, RowsTyped
  <2>4. ASSUME NEW w \in Processes, HeartbeatWork(w), NEW a \in Attempts
        PROVE  lease'[a] = NoLease \/ lease'[a].holder \in Processes
    <3>1. lease[job[w].a].holder = w
      BY <2>4 DEF HeartbeatWork, Holds
    <3>2. lease'[a] = lease[a] \/ (a = job[w].a /\ lease'[a].holder = lease[a].holder)
      BY <2>2, <2>4 DEF HeartbeatWork, Lease
    <3> QED BY <3>1, <3>2 DEF RowsTyped
  <2>5. ASSUME NEW w \in Processes, ReleaseWork(w), NEW a \in Attempts
        PROVE  lease'[a] = NoLease \/ lease'[a].holder \in Processes
    BY <2>2, <2>5 DEF ReleaseWork, RowsTyped
  <2> QED BY <2>1, <2>3, <2>4, <2>5 DEF RowsTyped
<1>5. window' \in [Attempts -> {NoWindow} \cup 0..(MaxTime + Horizon)]
  <2>1. UNCHANGED window \/ \E a \in Attempts : window' = [window EXCEPT ![a] = now + Horizon]
    <3>1. ASSUME NEW w \in Processes, RegisterWindow(w)
          PROVE  \E a \in Attempts : window' = [window EXCEPT ![a] = now + Horizon]
      BY <3>1, JobShape DEF RegisterWindow, JobAt
    <3> QED
      BY <3>1, ZenonT(60)
         DEF ExecutorNext, Work, evars, RegisterPlan, Claim, AcquireWork, HeartbeatWork, ReleaseWork,
             MarkSourceInFlight, CompleteAttempt, Submit, TransitionStage,
             JudgeDeadline, ObserveFailure, RecordEventual, AppendDeadline, AppendFailure,
             AppendOutcome, CompareDeadline, ApplyOutcome, Settle, Tick
  <2>2. now + Horizon \in 0..(MaxTime + Horizon)
    BY DEF RowsTyped, ExecutorInv, ExecutorType
  <2> QED BY <2>1, <2>2 DEF RowsTyped
<1>6. /\ outcomes' \in [Attempts -> SUBSET {"deadline", "failure", "eventual"}]
      /\ \A a \in Attempts : "eventual" \in outcomes'[a] => "deadline" \in outcomes'[a]
  <2>1. \/ UNCHANGED outcomes
        \/ \E a \in Attempts, kind \in {"deadline", "failure", "eventual"} :
              /\ kind = "eventual" => "deadline" \in outcomes[a]
              /\ outcomes' = [outcomes EXCEPT ![a] = @ \cup {kind}]
    <3>1. ASSUME NEW w \in Processes, NEW kind \in {"deadline", "failure"}, NEW next,
                 AppendOutcome(w, kind, next)
          PROVE  \/ UNCHANGED outcomes
                 \/ \E a \in Attempts : outcomes' = [outcomes EXCEPT ![a] = @ \cup {kind}]
      BY <3>1, JobShape DEF AppendOutcome, JobAt
    <3>2. CASE \E w \in Processes : AppendDeadline(w) \/ AppendFailure(w)
      BY <3>1, <3>2 DEF AppendDeadline, AppendFailure
    <3>3. ASSUME NEW w \in Processes, NEW a \in Attempts, NEW delivered \in BOOLEAN,
                 RecordEventual(w, a, delivered)
          PROVE  "deadline" \in outcomes[a] /\ outcomes' = [outcomes EXCEPT ![a] = @ \cup {"eventual"}]
      BY <3>3 DEF RecordEventual
    <3>4. CASE UNCHANGED outcomes
      BY <3>4
    <3> QED
      BY <3>2, <3>3, <3>4, ZenonT(60)
         DEF ExecutorNext, Work, evars, RegisterPlan, Claim, AcquireWork, HeartbeatWork, ReleaseWork,
             MarkSourceInFlight, CompleteAttempt, RegisterWindow, Submit, TransitionStage,
             JudgeDeadline, ObserveFailure, CompareDeadline, ApplyOutcome, Settle, Tick
  <2>2. CASE UNCHANGED outcomes
    BY <2>2 DEF RowsTyped
  <2>3. ASSUME NEW a \in Attempts, NEW kind \in {"deadline", "failure", "eventual"},
               kind = "eventual" => "deadline" \in outcomes[a],
               outcomes' = [outcomes EXCEPT ![a] = @ \cup {kind}]
        PROVE  /\ outcomes' \in [Attempts -> SUBSET {"deadline", "failure", "eventual"}]
               /\ \A b \in Attempts : "eventual" \in outcomes'[b] => "deadline" \in outcomes'[b]
    <3>1. \A b \in Attempts :
            outcomes'[b] = IF b = a THEN outcomes[a] \cup {kind} ELSE outcomes[b]
      BY <2>3 DEF RowsTyped
    <3>2. outcomes' \in [Attempts -> SUBSET {"deadline", "failure", "eventual"}]
      BY <2>3 DEF RowsTyped
    <3> QED BY <2>3, <3>1, <3>2 DEF RowsTyped
  <2> QED BY <2>1, <2>2, <2>3, Zenon
<1> QED BY <1>1, <1>2, <1>3, <1>4, <1>5, <1>6 DEF RowsTyped

(* The rows of the plan, the leases, the windows and the outcomes keep     *)
(* their types; in particular a late outcome is only recorded of an        *)
(* attempt whose deadline was (record_eventual_outcome).                   *)
THEOREM ExecutorTypeCorrect == ExecutorSpec => []ExecutorTypeOK
<1>1. ExecutorInit => RowsTyped
  <2> SUFFICES ASSUME ExecutorInit PROVE RowsTyped
    OBVIOUS
  <2>1. registered \in BOOLEAN
    BY Zenon DEF ExecutorInit
  <2>7. now <= MaxTime
    BY ExecutorConstants DEF ExecutorInit
  <2>2. [i \in 1..Stages |-> "planned"] \in [1..Stages -> StageStates]
    BY DEF StageStates
  <2>3. stages \in [Attempts -> [1..Stages -> StageStates]]
    BY <2>2 DEF ExecutorInit
  <2>4. txns \in [Attempts -> [1..Stages -> {"none", "open", "final"}]]
    BY DEF ExecutorInit
  <2>5. window \in [Attempts -> {NoWindow} \cup 0..(MaxTime + Horizon)]
    BY DEF ExecutorInit
  <2>6. outcomes \in [Attempts -> SUBSET {"deadline", "failure", "eventual"}]
    BY DEF ExecutorInit
  <2> QED BY <2>1, <2>3, <2>4, <2>5, <2>6, <2>7 DEF ExecutorInit, RowsTyped
<1>2. ExecutorInv /\ RowsTyped /\ [ExecutorNext]_evars => RowsTyped'
  BY RowsStep
<1>3. ExecutorInv /\ RowsTyped => ExecutorTypeOK
  <2> SUFFICES ASSUME ExecutorInv, RowsTyped PROVE ExecutorTypeOK
    OBVIOUS
  <2>1. \A w \in Processes : job[w].a \in Attempts \cup {0}
    BY DEF ExecutorInv, ExecutorType, Job
  <2>2. now \in 0..MaxTime /\ profile \in Profiles /\ attempt \in [Attempts -> AttemptStates]
    BY ExecutorConstants DEF ExecutorInv, ExecutorType, RowsTyped
  <2> QED BY <2>1, <2>2 DEF RowsTyped, ExecutorTypeOK
<1> QED BY <1>1, <1>2, <1>3, ExecutorInvariant, PTL DEF ExecutorSpec
=============================================================================
