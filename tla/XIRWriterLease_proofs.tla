------------------------ MODULE XIRWriterLease_proofs ------------------------
(***************************************************************************)
(* Proofs about the host-global writer lease of XIRWriterLease: who may    *)
(* run, whatever dies and in which order, for any number of campaigns,     *)
(* supervisors, reboots and deaths in the middle of a method.              *)
(*                                                                         *)
(* The argument: a runner whose supervisor has not died under it holds the *)
(* owner document, in this boot and under the supervisor that is alive     *)
(* (RuntimeHolds).  Since the document names one runtime, two such runners *)
(* cannot be.  The document only changes hands under the lock, and the     *)
(* method that holds the lock knows whose document it is and that the      *)
(* runner it belongs to is gone or orphaned (OpHolds).                     *)
(*                                                                         *)
(* The last two sections prove the journal of the validators' volumes and  *)
(* the script of a campaign.                                               *)
(***************************************************************************)
EXTENDS MC_XIRWriterLease, FiniteSetTheorems, WellFoundedInduction, TLAPS

(* Where a campaign is once its script has gone or waits to be resumed.    *)
Parked == {"gone", "pending", "blocked", "resume", "continue", "activate"}

Ending == {"unlink", "rmdir", "rmtree"}

(* What the method that holds the lock knows until its next step.          *)
OpHolds ==
    /\ op.kind = "acquire" => /\ campaign[op.rt] = "acquire" /\ acquiring[op.rt] = None
                              /\ files[op.rt].dir /\ root.dir
    /\ op.step = "owner" => root.owner.rt = None
    /\ op.kind = "release" => campaign[op.rt] = "release"
    /\ op.kind \in {"recover", "resolve"} => campaign[op.rt] \in Parked
    /\ op.step \in Ending =>
          /\ root.owner.rt = op.rt
          /\ writer[op.rt] = "off" \/ op.rt \in orphan
          /\ root.owner.state = "blocked" => files[op.rt].end = "audited"
    /\ op.step = "root" => root.owner.rt = None

RootHolds == root.dir \/ root.owner.rt = None

(* An acquisition that has begun is in its own directory and campaign.     *)
AcquiringHolds(r) ==
    /\ acquiring[r] # None => campaign[r] = "acquire" /\ files[r].dir
    /\ live[r] \/ campaign[r] = "acquire" => sup[r] # 0

(* A runner whose supervisor lives is the one the owner document names, and *)
(* one whose lease is closed has the stop file before it.                  *)
WriterHolds(r) ==
    /\ writer[r] # "off" /\ r \notin orphan =>
          live[r] /\ root.owner.rt = r /\ SupervisorAlive(r)
    /\ writer[r] # "off" /\ root.owner.rt = r /\ root.owner.state # "active" => stop[r]
    /\ campaign[r] \in {"cleanup", "release"} => stop[r]

(* A campaign whose lease was resolved has nothing that runs and no way    *)
(* back to work.                                                           *)
AuditedHolds(r) ==
    files[r].end = "audited" =>
        /\ Quiet(r) /\ ~volumes[r] /\ campaign[r] \in Parked
        /\ root.owner.rt = r => root.owner.state = "blocked"

RuntimeHolds(r) == AcquiringHolds(r) /\ WriterHolds(r) /\ AuditedHolds(r)

LeaseInv == TypeOK /\ OpHolds /\ RootHolds /\ \A r \in Runtimes : RuntimeHolds(r)
-----------------------------------------------------------------------------
(* A change of one field of a runtime's files leaves them well formed.     *)
LEMMA FileFields ==
    ASSUME NEW f \in File, NEW b \in BOOLEAN,
           NEW e \in {None, "released", "recovered_stale", "audited"}
    PROVE  /\ [f EXCEPT !.dir = b] \in File
           /\ [f EXCEPT !.snap = b] \in File
           /\ [f EXCEPT !.token = b] \in File
           /\ [f EXCEPT !.locator = b] \in File
           /\ [f EXCEPT !.end = e] \in File
BY DEF File

(* Supervisors start and die. *)
LEMMA SupervisorSteps ==
    ASSUME LeaseInv, NEW r \in Runtimes,
           StartSupervisor(r) \/ SupervisorDies(r)
    PROVE  LeaseInv'
<1>1. CASE StartSupervisor(r)
  <2>1. TypeOK'
    BY <1>1, WriterLeaseConstants DEF LeaseInv, TypeOK, StartSupervisor, Goto
  <2>2. OpHolds'
    BY <1>1, WriterLeaseConstants DEF LeaseInv, TypeOK, OpHolds, RootHolds,
       RuntimeHolds, WriterHolds, AcquiringHolds, AuditedHolds, Method,
       Ending, Parked, NoOp, None, StartSupervisor, Goto
  <2>3. RootHolds'
    BY <1>1 DEF LeaseInv, RootHolds, StartSupervisor
  <2>4. ASSUME NEW s \in Runtimes PROVE RuntimeHolds(s)'
    <3>1. AcquiringHolds(s)'
      BY <1>1, WriterLeaseConstants DEF LeaseInv, TypeOK, RootHolds,
         RuntimeHolds, AcquiringHolds, OpHolds, Parked, None,
         StartSupervisor, Goto
    <3>2. WriterHolds(s)'
      BY <1>1, WriterLeaseConstants DEF LeaseInv, TypeOK, RootHolds,
         RuntimeHolds, WriterHolds, AcquiringHolds, OpHolds, SupervisorAlive,
         Parked, None, StartSupervisor, Goto
    <3>3. AuditedHolds(s)'
      BY <1>1, WriterLeaseConstants DEF LeaseInv, TypeOK, RootHolds,
         RuntimeHolds, AuditedHolds, AcquiringHolds, OpHolds, Quiet, Parked,
         None, StartSupervisor, Goto
    <3> QED BY <3>1, <3>2, <3>3 DEF RuntimeHolds
  <2> QED BY <2>1, <2>2, <2>3, <2>4 DEF LeaseInv
<1>2. CASE SupervisorDies(r)
  <2>1. TypeOK'
    BY <1>2, WriterLeaseConstants DEF LeaseInv, TypeOK, SupervisorDies
  <2>2. OpHolds'
    BY <1>2, WriterLeaseConstants DEF LeaseInv, TypeOK, OpHolds, RootHolds,
       RuntimeHolds, WriterHolds, AcquiringHolds, AuditedHolds, Method,
       Ending, Parked, NoOp, None, SupervisorDies
  <2>3. RootHolds'
    BY <1>2 DEF LeaseInv, RootHolds, SupervisorDies
  <2>4. ASSUME NEW s \in Runtimes PROVE RuntimeHolds(s)'
    <3>1. AcquiringHolds(s)'
      BY <1>2, WriterLeaseConstants DEF LeaseInv, TypeOK, RootHolds,
         RuntimeHolds, AcquiringHolds, OpHolds, Parked, None, SupervisorDies
    <3>2. WriterHolds(s)'
      BY <1>2, WriterLeaseConstants DEF LeaseInv, TypeOK, RootHolds,
         RuntimeHolds, WriterHolds, AcquiringHolds, OpHolds, SupervisorAlive,
         Parked, None, SupervisorDies
    <3>3. AuditedHolds(s)'
      BY <1>2 DEF LeaseInv, RuntimeHolds, AuditedHolds, Quiet, SupervisorDies
    <3> QED BY <3>1, <3>2, <3>3 DEF RuntimeHolds
  <2> QED BY <2>1, <2>2, <2>3, <2>4 DEF LeaseInv
<1> QED BY <1>1, <1>2

(* An acquisition up to the lock, which the first of two campaigns gets. *)
LEMMA AcquireSteps ==
    ASSUME LeaseInv, NEW r \in Runtimes,
           AcquireDir(r) \/ AcquireSnapshot(r) \/ AcquireToken(r) \/ AcquireRoot(r)
    PROVE  LeaseInv'
<1>1. CASE AcquireDir(r)
  <2>1. TypeOK'
    <3>2. files' \in [Runtimes -> File]
      <4>1. [files[r] EXCEPT !.dir = TRUE] \in File
        BY FileFields DEF LeaseInv, TypeOK
      <4> QED
        BY <1>1, <4>1 DEF LeaseInv, TypeOK, AcquireDir
    <3> QED
      BY <1>1, <3>2, WriterLeaseConstants DEF LeaseInv, TypeOK, Method,
         AcquireDir, host
  <2>2. OpHolds'
    BY <1>1, WriterLeaseConstants DEF LeaseInv, TypeOK, OpHolds, RootHolds,
       RuntimeHolds, WriterHolds, AcquiringHolds, AuditedHolds, Method,
       Ending, Parked, NoOp, None, File, AcquireDir, host
  <2>3. RootHolds'
    BY <1>1 DEF LeaseInv, RootHolds, AcquireDir, host
  <2>4. ASSUME NEW s \in Runtimes PROVE RuntimeHolds(s)'
    <3>1. AcquiringHolds(s)'
      BY <1>1, WriterLeaseConstants DEF LeaseInv, TypeOK, RootHolds,
         RuntimeHolds, AcquiringHolds, OpHolds, File, Parked, None,
         AcquireDir, host
    <3>2. WriterHolds(s)'
      BY <1>1 DEF LeaseInv, RuntimeHolds, WriterHolds, SupervisorAlive,
         AcquireDir, host
    <3>3. AuditedHolds(s)'
      BY <1>1, WriterLeaseConstants DEF LeaseInv, TypeOK, RootHolds,
         RuntimeHolds, AuditedHolds, AcquiringHolds, OpHolds, Quiet, File,
         Parked, None, AcquireDir, host
    <3> QED BY <3>1, <3>2, <3>3 DEF RuntimeHolds
  <2> QED BY <2>1, <2>2, <2>3, <2>4 DEF LeaseInv
<1>2. CASE AcquireSnapshot(r)
  <2>1. TypeOK'
    <3>2. files' \in [Runtimes -> File]
      <4>1. [files[r] EXCEPT !.snap = TRUE] \in File
        BY FileFields DEF LeaseInv, TypeOK
      <4> QED
        BY <1>2, <4>1 DEF LeaseInv, TypeOK, AcquireSnapshot
    <3> QED
      BY <1>2, <3>2, WriterLeaseConstants DEF LeaseInv, TypeOK, Method,
         AcquireSnapshot, Goto
  <2>2. OpHolds'
    BY <1>2, WriterLeaseConstants DEF LeaseInv, TypeOK, OpHolds, RootHolds,
       RuntimeHolds, WriterHolds, AcquiringHolds, AuditedHolds, Method,
       Ending, Parked, NoOp, None, File, AcquireSnapshot, Goto
  <2>3. RootHolds'
    BY <1>2 DEF LeaseInv, RootHolds, AcquireSnapshot
  <2>4. ASSUME NEW s \in Runtimes PROVE RuntimeHolds(s)'
    <3>1. AcquiringHolds(s)'
      BY <1>2, WriterLeaseConstants DEF LeaseInv, TypeOK, RootHolds,
         RuntimeHolds, AcquiringHolds, OpHolds, File, Parked, None,
         AcquireSnapshot, Goto
    <3>2. WriterHolds(s)'
      BY <1>2, WriterLeaseConstants DEF LeaseInv, TypeOK, RootHolds,
         RuntimeHolds, WriterHolds, AcquiringHolds, OpHolds, SupervisorAlive,
         File, Parked, None, AcquireSnapshot, Goto
    <3>3. AuditedHolds(s)'
      <4>1. files'[s].end = files[s].end
        BY <1>2 DEF LeaseInv, TypeOK, File, AcquireSnapshot
      <4>2. campaign'[s] = campaign[s] \/ campaign'[s] = "gone"
        BY <1>2 DEF LeaseInv, TypeOK, AcquireSnapshot, Goto
      <4> QED
        BY <1>2, <4>1, <4>2 DEF LeaseInv, RuntimeHolds, AuditedHolds, Quiet,
           Parked, AcquireSnapshot
    <3> QED BY <3>1, <3>2, <3>3 DEF RuntimeHolds
  <2> QED BY <2>1, <2>2, <2>3, <2>4 DEF LeaseInv
<1>3. CASE AcquireToken(r)
  <2>1. TypeOK'
    <3>2. files' \in [Runtimes -> File]
      <4>1. [files[r] EXCEPT !.token = TRUE] \in File
        BY FileFields DEF LeaseInv, TypeOK
      <4> QED
        BY <1>3, <4>1 DEF LeaseInv, TypeOK, AcquireToken
    <3> QED
      BY <1>3, <3>2, WriterLeaseConstants DEF LeaseInv, TypeOK, Method,
         AcquireToken, host
  <2>2. OpHolds'
    BY <1>3, WriterLeaseConstants DEF LeaseInv, TypeOK, OpHolds, RootHolds,
       RuntimeHolds, WriterHolds, AcquiringHolds, AuditedHolds, Method,
       Ending, Parked, NoOp, None, File, AcquireToken, host
  <2>3. RootHolds'
    BY <1>3 DEF LeaseInv, RootHolds, AcquireToken, host
  <2>4. ASSUME NEW s \in Runtimes PROVE RuntimeHolds(s)'
    <3>1. AcquiringHolds(s)'
      BY <1>3, WriterLeaseConstants DEF LeaseInv, TypeOK, RootHolds,
         RuntimeHolds, AcquiringHolds, OpHolds, File, Parked, None,
         AcquireToken, host
    <3>2. WriterHolds(s)'
      BY <1>3 DEF LeaseInv, RuntimeHolds, WriterHolds, SupervisorAlive,
         AcquireToken, host
    <3>3. AuditedHolds(s)'
      BY <1>3, WriterLeaseConstants DEF LeaseInv, TypeOK, RootHolds,
         RuntimeHolds, AuditedHolds, AcquiringHolds, OpHolds, Quiet, File,
         Parked, None, AcquireToken, host
    <3> QED BY <3>1, <3>2, <3>3 DEF RuntimeHolds
  <2> QED BY <2>1, <2>2, <2>3, <2>4 DEF LeaseInv
<1>4. CASE AcquireRoot(r)
  <2>1. TypeOK'
    <3>1. root' \in [dir : BOOLEAN, owner : Owner]
      BY WriterLeaseConstants, <1>4 DEF LeaseInv, TypeOK, Owner, NoLease,
         None, AcquireRoot, Free, NoOp, Goto
    <3>2. files' \in [Runtimes -> File]
      <4>1. [files[r] EXCEPT !.dir = FALSE, !.token = FALSE] \in File
        <5>1. [files[r] EXCEPT !.dir = FALSE] \in File
          BY FileFields DEF LeaseInv, TypeOK
        <5>2. [[files[r] EXCEPT !.dir = FALSE] EXCEPT !.token = FALSE] \in File
          BY <5>1, FileFields
        <5> QED BY <5>2
      <4> QED
        BY <1>4, <4>1 DEF LeaseInv, TypeOK, AcquireRoot
    <3>3. op' \in Method
      BY <1>4 DEF LeaseInv, TypeOK, Method, NoOp, None, AcquireRoot, Free,
         Goto
    <3> QED
      BY <1>4, <3>1, <3>2, <3>3, WriterLeaseConstants DEF LeaseInv, TypeOK,
         Method, AcquireRoot, Free, NoOp, Goto
  <2>2. OpHolds'
    BY <1>4, WriterLeaseConstants DEF LeaseInv, TypeOK, OpHolds, RootHolds,
       RuntimeHolds, WriterHolds, AcquiringHolds, AuditedHolds, Method,
       Ending, Parked, NoOp, None, Owner, NoLease, File, AcquireRoot, Free,
       Goto
  <2>3. RootHolds'
    BY <1>4, WriterLeaseConstants DEF LeaseInv, TypeOK, RootHolds, OpHolds,
       Method, Ending, Parked, NoOp, None, Owner, NoLease, File, AcquireRoot,
       Free, Goto
  <2>4. ASSUME NEW s \in Runtimes PROVE RuntimeHolds(s)'
    <3>1. AcquiringHolds(s)'
      BY <1>4, WriterLeaseConstants DEF LeaseInv, TypeOK, RootHolds,
         RuntimeHolds, AcquiringHolds, OpHolds, Owner, NoLease, File, Parked,
         None, AcquireRoot, Free, NoOp, Goto
    <3>2. WriterHolds(s)'
      BY <1>4, WriterLeaseConstants DEF LeaseInv, TypeOK, RootHolds,
         RuntimeHolds, WriterHolds, AcquiringHolds, OpHolds, SupervisorAlive,
         Owner, NoLease, File, Parked, None, AcquireRoot, Free, NoOp, Goto
    <3>3. AuditedHolds(s)'
      BY <1>4, WriterLeaseConstants DEF LeaseInv, TypeOK, RootHolds,
         RuntimeHolds, AuditedHolds, AcquiringHolds, OpHolds, Quiet, Owner,
         NoLease, File, Parked, None, AcquireRoot, Free, NoOp, Goto
    <3> QED BY <3>1, <3>2, <3>3 DEF RuntimeHolds
  <2> QED BY <2>1, <2>2, <2>3, <2>4 DEF LeaseInv
<1> QED BY <1>1, <1>2, <1>3, <1>4

(* The steps of an acquisition under the lock. *)
LEMMA LockedSteps ==
    ASSUME LeaseInv, AcquireOwner \/ AcquireLink
    PROVE  LeaseInv'
<1>1. CASE AcquireOwner
  <2>1. TypeOK'
    <3>1. root' \in [dir : BOOLEAN, owner : Owner]
      BY WriterLeaseConstants, <1>1 DEF LeaseInv, TypeOK, Owner, NoLease,
         None, RuntimeHolds, AcquiringHolds, Method, OpHolds, NoOp,
         AcquireOwner, host
    <3>3. op' \in Method
      BY <1>1 DEF LeaseInv, TypeOK, Method, NoOp, None, AcquireOwner, host
    <3> QED
      BY <1>1, <3>1, <3>3, WriterLeaseConstants DEF LeaseInv, TypeOK, Method,
         AcquireOwner, host
  <2>2. OpHolds'
    BY <1>1, WriterLeaseConstants DEF LeaseInv, TypeOK, OpHolds, RootHolds,
       RuntimeHolds, WriterHolds, AcquiringHolds, AuditedHolds, Method,
       Ending, Parked, NoOp, None, Owner, NoLease, AcquireOwner, host
  <2>3. RootHolds'
    BY <1>1, WriterLeaseConstants DEF LeaseInv, TypeOK, RootHolds, OpHolds,
       Method, Ending, Parked, NoOp, None, Owner, NoLease, AcquireOwner, host
  <2>4. ASSUME NEW s \in Runtimes PROVE RuntimeHolds(s)'
    <3>1. AcquiringHolds(s)'
      BY <1>1 DEF LeaseInv, RuntimeHolds, AcquiringHolds, AcquireOwner, host
    <3>2. WriterHolds(s)'
      BY <1>1, WriterLeaseConstants DEF LeaseInv, TypeOK, RootHolds,
         RuntimeHolds, WriterHolds, AcquiringHolds, OpHolds, SupervisorAlive,
         Owner, NoLease, Method, NoOp, Ending, Parked, None, AcquireOwner,
         host
    <3>3. AuditedHolds(s)'
      BY <1>1, WriterLeaseConstants DEF LeaseInv, TypeOK, RootHolds,
         RuntimeHolds, AuditedHolds, AcquiringHolds, OpHolds, Quiet, Owner,
         NoLease, Method, NoOp, Ending, Parked, None, AcquireOwner, host
    <3> QED BY <3>1, <3>2, <3>3 DEF RuntimeHolds
  <2> QED BY <2>1, <2>2, <2>3, <2>4 DEF LeaseInv
<1>2. CASE AcquireLink
  <2>1. TypeOK'
    <3>2. files' \in [Runtimes -> File]
      <4>1. op.rt \in Runtimes
        BY <1>2, WriterLeaseConstants DEF LeaseInv, TypeOK, Method,
           AcquireLink, NoOp, None
      <4>2. [files[op.rt] EXCEPT !.locator = TRUE] \in File
        BY <4>1, FileFields DEF LeaseInv, TypeOK
      <4> QED
        BY <1>2, <4>1, <4>2 DEF LeaseInv, TypeOK, AcquireLink
    <3>3. op' \in Method
      BY <1>2 DEF LeaseInv, TypeOK, Method, NoOp, None, AcquireLink, Goto
    <3> QED
      BY <1>2, <3>2, <3>3, WriterLeaseConstants DEF LeaseInv, TypeOK, Method,
         AcquireLink, Goto, NoOp
  <2>2. OpHolds'
    BY <1>2, WriterLeaseConstants DEF LeaseInv, TypeOK, OpHolds, RootHolds,
       RuntimeHolds, WriterHolds, AcquiringHolds, AuditedHolds, Method,
       Ending, Parked, NoOp, None, File, AcquireLink, Goto
  <2>3. RootHolds'
    BY <1>2 DEF LeaseInv, RootHolds, AcquireLink
  <2>4. ASSUME NEW s \in Runtimes PROVE RuntimeHolds(s)'
    <3>1. AcquiringHolds(s)'
      BY <1>2, WriterLeaseConstants DEF LeaseInv, TypeOK, RootHolds,
         RuntimeHolds, AcquiringHolds, OpHolds, File, Method, NoOp, Ending,
         Parked, None, AcquireLink, Goto
    <3>2. WriterHolds(s)'
      BY <1>2, WriterLeaseConstants DEF LeaseInv, TypeOK, RootHolds,
         RuntimeHolds, WriterHolds, AcquiringHolds, OpHolds, SupervisorAlive,
         File, Method, NoOp, Ending, Parked, None, AcquireLink, Goto
    <3>3. AuditedHolds(s)'
      BY <1>2, WriterLeaseConstants DEF LeaseInv, TypeOK, RootHolds,
         RuntimeHolds, AuditedHolds, AcquiringHolds, OpHolds, Quiet, File,
         Method, NoOp, Ending, Parked, None, AcquireLink, Goto
    <3> QED BY <3>1, <3>2, <3>3 DEF RuntimeHolds
  <2> QED BY <2>1, <2>2, <2>3, <2>4 DEF LeaseInv
<1> QED BY <1>1, <1>2

(* The services, the runner and its batches under a lease that is held. *)
LEMMA WorkSteps ==
    ASSUME LeaseInv, NEW r \in Runtimes,
           StartServices(r) \/ StartRunner(r) \/ Heartbeat(r) \/ Batch(r) \/ BatchEnds(r)
    PROVE  LeaseInv'
<1>1. CASE StartServices(r)
  <2>1. TypeOK'
    BY <1>1, WriterLeaseConstants DEF LeaseInv, TypeOK, StartServices,
       Authorised, Free, NoOp, Current, Held, SupervisorAlive
  <2>2. OpHolds'
    BY <1>1 DEF LeaseInv, OpHolds, StartServices
  <2>3. RootHolds'
    BY <1>1 DEF LeaseInv, RootHolds, StartServices
  <2>4. ASSUME NEW s \in Runtimes PROVE RuntimeHolds(s)'
    <3>1. AcquiringHolds(s)'
      BY <1>1 DEF LeaseInv, RuntimeHolds, AcquiringHolds, StartServices
    <3>2. WriterHolds(s)'
      BY <1>1 DEF LeaseInv, RuntimeHolds, WriterHolds, SupervisorAlive,
         StartServices
    <3>3. AuditedHolds(s)'
      BY <1>1, WriterLeaseConstants DEF LeaseInv, TypeOK, RootHolds,
         RuntimeHolds, AuditedHolds, AcquiringHolds, OpHolds, Quiet, Parked,
         None, StartServices, Authorised, Free, NoOp, Current, Held,
         SupervisorAlive
    <3> QED BY <3>1, <3>2, <3>3 DEF RuntimeHolds
  <2> QED BY <2>1, <2>2, <2>3, <2>4 DEF LeaseInv
<1>2. CASE StartRunner(r)
  <2>1. TypeOK'
    BY <1>2, WriterLeaseConstants DEF LeaseInv, TypeOK, StartRunner,
       Authorised, Free, NoOp, Current, Held, SupervisorAlive
  <2>2. OpHolds'
    BY <1>2, WriterLeaseConstants DEF LeaseInv, TypeOK, OpHolds, RootHolds,
       RuntimeHolds, WriterHolds, AcquiringHolds, AuditedHolds, Method,
       Ending, Parked, NoOp, None, StartRunner, Authorised, Free, Current,
       Held, SupervisorAlive
  <2>3. RootHolds'
    BY <1>2 DEF LeaseInv, RootHolds, StartRunner
  <2>4. ASSUME NEW s \in Runtimes PROVE RuntimeHolds(s)'
    <3>1. AcquiringHolds(s)'
      BY <1>2 DEF LeaseInv, RuntimeHolds, AcquiringHolds, StartRunner
    <3>2. WriterHolds(s)'
      BY <1>2, WriterLeaseConstants DEF LeaseInv, TypeOK, RootHolds,
         RuntimeHolds, WriterHolds, AcquiringHolds, OpHolds, SupervisorAlive,
         Parked, None, StartRunner, Authorised, Free, NoOp, Current, Held
    <3>3. AuditedHolds(s)'
      BY <1>2, WriterLeaseConstants DEF LeaseInv, TypeOK, RootHolds,
         RuntimeHolds, AuditedHolds, AcquiringHolds, OpHolds, Quiet, Parked,
         None, StartRunner, Authorised, Free, NoOp, Current, Held,
         SupervisorAlive
    <3> QED BY <3>1, <3>2, <3>3 DEF RuntimeHolds
  <2> QED BY <2>1, <2>2, <2>3, <2>4 DEF LeaseInv
<1>3. CASE Heartbeat(r)
  <2>1. TypeOK'
    BY <1>3, WriterLeaseConstants DEF LeaseInv, TypeOK, Heartbeat, Verified,
       Free, NoOp, Held, host
  <2>2. OpHolds'
    BY <1>3 DEF LeaseInv, OpHolds, Heartbeat, host
  <2>3. RootHolds'
    BY <1>3 DEF LeaseInv, RootHolds, Heartbeat, host
  <2>4. ASSUME NEW s \in Runtimes PROVE RuntimeHolds(s)'
    <3>1. AcquiringHolds(s)'
      BY <1>3 DEF LeaseInv, RuntimeHolds, AcquiringHolds, Heartbeat, host
    <3>2. WriterHolds(s)'
      BY <1>3 DEF LeaseInv, RuntimeHolds, WriterHolds, SupervisorAlive,
         Heartbeat, host
    <3>3. AuditedHolds(s)'
      BY <1>3 DEF LeaseInv, RuntimeHolds, AuditedHolds, Quiet, Heartbeat,
         host
    <3> QED BY <3>1, <3>2, <3>3 DEF RuntimeHolds
  <2> QED BY <2>1, <2>2, <2>3, <2>4 DEF LeaseInv
<1>4. CASE Batch(r)
  <2>1. TypeOK'
    BY <1>4, WriterLeaseConstants DEF LeaseInv, TypeOK, Batch, Free, NoOp,
       Held
  <2>2. OpHolds'
    BY <1>4, WriterLeaseConstants DEF LeaseInv, TypeOK, OpHolds, RootHolds,
       RuntimeHolds, WriterHolds, AcquiringHolds, AuditedHolds, Method,
       Ending, Parked, NoOp, None, Batch, Free, Held
  <2>3. RootHolds'
    BY <1>4 DEF LeaseInv, RootHolds, Batch
  <2>4. ASSUME NEW s \in Runtimes PROVE RuntimeHolds(s)'
    <3>1. AcquiringHolds(s)'
      BY <1>4 DEF LeaseInv, RuntimeHolds, AcquiringHolds, Batch
    <3>2. WriterHolds(s)'
      BY <1>4, WriterLeaseConstants DEF LeaseInv, TypeOK, RootHolds,
         RuntimeHolds, WriterHolds, AcquiringHolds, OpHolds, SupervisorAlive,
         Parked, None, Batch, Free, NoOp, Held
    <3>3. AuditedHolds(s)'
      BY <1>4, WriterLeaseConstants DEF LeaseInv, TypeOK, RootHolds,
         RuntimeHolds, AuditedHolds, AcquiringHolds, OpHolds, Quiet, Parked,
         None, Batch, Free, NoOp, Held
    <3> QED BY <3>1, <3>2, <3>3 DEF RuntimeHolds
  <2> QED BY <2>1, <2>2, <2>3, <2>4 DEF LeaseInv
<1>5. CASE BatchEnds(r)
  <2>1. TypeOK'
    BY <1>5, WriterLeaseConstants DEF LeaseInv, TypeOK, BatchEnds
  <2>2. OpHolds'
    BY <1>5, WriterLeaseConstants DEF LeaseInv, TypeOK, OpHolds, RootHolds,
       RuntimeHolds, WriterHolds, AcquiringHolds, AuditedHolds, Method,
       Ending, Parked, NoOp, None, BatchEnds
  <2>3. RootHolds'
    BY <1>5 DEF LeaseInv, RootHolds, BatchEnds
  <2>4. ASSUME NEW s \in Runtimes PROVE RuntimeHolds(s)'
    <3>1. AcquiringHolds(s)'
      BY <1>5 DEF LeaseInv, RuntimeHolds, AcquiringHolds, BatchEnds
    <3>2. WriterHolds(s)'
      BY <1>5, WriterLeaseConstants DEF LeaseInv, TypeOK, RootHolds,
         RuntimeHolds, WriterHolds, AcquiringHolds, OpHolds, SupervisorAlive,
         Parked, None, BatchEnds
    <3>3. AuditedHolds(s)'
      BY <1>5, WriterLeaseConstants DEF LeaseInv, TypeOK, RootHolds,
         RuntimeHolds, AuditedHolds, AcquiringHolds, OpHolds, Quiet, Parked,
         None, BatchEnds
    <3> QED BY <3>1, <3>2, <3>3 DEF RuntimeHolds
  <2> QED BY <2>1, <2>2, <2>3, <2>4 DEF LeaseInv
<1> QED BY <1>1, <1>2, <1>3, <1>4, <1>5

(* The campaign's cleanup. *)
LEMMA CleanupSteps ==
    ASSUME LeaseInv, NEW r \in Runtimes,
           \/ Cleanup(r) \/ StopProcesses(r) \/ MarkResumePending(r)
           \/ RemoveVolumes(r) \/ Release(r) \/ Retain(r)
    PROVE  LeaseInv'
<1>1. CASE Cleanup(r)
  <2>1. TypeOK'
    BY <1>1, WriterLeaseConstants DEF LeaseInv, TypeOK, Cleanup, Goto
  <2>2. OpHolds'
    BY <1>1, WriterLeaseConstants DEF LeaseInv, TypeOK, OpHolds, RootHolds,
       RuntimeHolds, WriterHolds, AcquiringHolds, AuditedHolds, Method,
       Ending, Parked, NoOp, None, Cleanup, Goto
  <2>3. RootHolds'
    BY <1>1 DEF LeaseInv, RootHolds, Cleanup
  <2>4. ASSUME NEW s \in Runtimes PROVE RuntimeHolds(s)'
    <3>1. AcquiringHolds(s)'
      BY <1>1, WriterLeaseConstants DEF LeaseInv, TypeOK, RootHolds,
         RuntimeHolds, AcquiringHolds, OpHolds, Parked, None, Cleanup, Goto
    <3>2. WriterHolds(s)'
      BY <1>1, WriterLeaseConstants DEF LeaseInv, TypeOK, RootHolds,
         RuntimeHolds, WriterHolds, AcquiringHolds, OpHolds, SupervisorAlive,
         Parked, None, Cleanup, Goto
    <3>3. AuditedHolds(s)'
      BY <1>1, WriterLeaseConstants DEF LeaseInv, TypeOK, RootHolds,
         RuntimeHolds, AuditedHolds, AcquiringHolds, OpHolds, Quiet, Parked,
         None, Cleanup, Goto
    <3> QED BY <3>1, <3>2, <3>3 DEF RuntimeHolds
  <2> QED BY <2>1, <2>2, <2>3, <2>4 DEF LeaseInv
<1>2. CASE StopProcesses(r)
  <2>1. TypeOK'
    BY <1>2, WriterLeaseConstants DEF LeaseInv, TypeOK, StopProcesses
  <2>2. OpHolds'
    BY <1>2, WriterLeaseConstants DEF LeaseInv, TypeOK, OpHolds, RootHolds,
       RuntimeHolds, WriterHolds, AcquiringHolds, AuditedHolds, Method,
       Ending, Parked, NoOp, None, StopProcesses
  <2>3. RootHolds'
    BY <1>2 DEF LeaseInv, RootHolds, StopProcesses
  <2>4. ASSUME NEW s \in Runtimes PROVE RuntimeHolds(s)'
    <3>1. AcquiringHolds(s)'
      BY <1>2 DEF LeaseInv, RuntimeHolds, AcquiringHolds, StopProcesses
    <3>2. WriterHolds(s)'
      BY <1>2, WriterLeaseConstants DEF LeaseInv, TypeOK, RootHolds,
         RuntimeHolds, WriterHolds, AcquiringHolds, OpHolds, SupervisorAlive,
         Parked, None, StopProcesses
    <3>3. AuditedHolds(s)'
      BY <1>2, WriterLeaseConstants DEF LeaseInv, TypeOK, RootHolds,
         RuntimeHolds, AuditedHolds, AcquiringHolds, OpHolds, Quiet, Parked,
         None, StopProcesses
    <3> QED BY <3>1, <3>2, <3>3 DEF RuntimeHolds
  <2> QED BY <2>1, <2>2, <2>3, <2>4 DEF LeaseInv
<1>3. CASE MarkResumePending(r)
  <2>1. TypeOK'
    <3>1. root' \in [dir : BOOLEAN, owner : Owner]
      BY WriterLeaseConstants, <1>3 DEF LeaseInv, TypeOK, Owner, NoLease,
         None, MarkResumePending, Quiet, Authorised, Free, NoOp, Current,
         Held, SupervisorAlive, SetOwner, Goto
    <3> QED
      BY <1>3, <3>1, WriterLeaseConstants DEF LeaseInv, TypeOK, Method,
         MarkResumePending, Quiet, Authorised, Free, NoOp, Current, Held,
         SupervisorAlive, SetOwner, Goto
  <2>2. OpHolds'
    BY <1>3, WriterLeaseConstants DEF LeaseInv, TypeOK, OpHolds, RootHolds,
       RuntimeHolds, WriterHolds, AcquiringHolds, AuditedHolds, Method,
       Ending, Parked, NoOp, None, Owner, NoLease, MarkResumePending, Quiet,
       Authorised, Free, Current, Held, SupervisorAlive, SetOwner, Goto
  <2>3. RootHolds'
    BY <1>3, WriterLeaseConstants DEF LeaseInv, TypeOK, RootHolds, OpHolds,
       Method, Ending, Parked, NoOp, None, Owner, NoLease, MarkResumePending,
       Quiet, Authorised, Free, Current, Held, SupervisorAlive, SetOwner,
       Goto
  <2>4. ASSUME NEW s \in Runtimes PROVE RuntimeHolds(s)'
    <3>1. AcquiringHolds(s)'
      BY <1>3, WriterLeaseConstants DEF LeaseInv, TypeOK, RootHolds,
         RuntimeHolds, AcquiringHolds, OpHolds, Owner, NoLease, Parked, None,
         MarkResumePending, Quiet, Authorised, Free, NoOp, Current, Held,
         SupervisorAlive, SetOwner, Goto
    <3>2. WriterHolds(s)'
      BY <1>3, WriterLeaseConstants DEF LeaseInv, TypeOK, RootHolds,
         RuntimeHolds, WriterHolds, AcquiringHolds, OpHolds, SupervisorAlive,
         Owner, NoLease, Parked, None, MarkResumePending, Quiet, Authorised,
         Free, NoOp, Current, Held, SetOwner, Goto
    <3>3. AuditedHolds(s)'
      BY <1>3, WriterLeaseConstants DEF LeaseInv, TypeOK, RootHolds,
         RuntimeHolds, AuditedHolds, AcquiringHolds, OpHolds, Quiet, Owner,
         NoLease, Parked, None, MarkResumePending, Authorised, Free, NoOp,
         Current, Held, SupervisorAlive, SetOwner, Goto
    <3> QED BY <3>1, <3>2, <3>3 DEF RuntimeHolds
  <2> QED BY <2>1, <2>2, <2>3, <2>4 DEF LeaseInv
<1>4. CASE RemoveVolumes(r)
  <2>1. TypeOK'
    BY <1>4, WriterLeaseConstants DEF LeaseInv, TypeOK, RemoveVolumes, Quiet,
       Authorised, Free, NoOp, Current, Held, SupervisorAlive, Goto
  <2>2. OpHolds'
    BY <1>4, WriterLeaseConstants DEF LeaseInv, TypeOK, OpHolds, RootHolds,
       RuntimeHolds, WriterHolds, AcquiringHolds, AuditedHolds, Method,
       Ending, Parked, NoOp, None, RemoveVolumes, Quiet, Authorised, Free,
       Current, Held, SupervisorAlive, Goto
  <2>3. RootHolds'
    BY <1>4 DEF LeaseInv, RootHolds, RemoveVolumes
  <2>4. ASSUME NEW s \in Runtimes PROVE RuntimeHolds(s)'
    <3>1. AcquiringHolds(s)'
      BY <1>4, WriterLeaseConstants DEF LeaseInv, TypeOK, RootHolds,
         RuntimeHolds, AcquiringHolds, OpHolds, Parked, None, RemoveVolumes,
         Quiet, Authorised, Free, NoOp, Current, Held, SupervisorAlive, Goto
    <3>2. WriterHolds(s)'
      BY <1>4, WriterLeaseConstants DEF LeaseInv, TypeOK, RootHolds,
         RuntimeHolds, WriterHolds, AcquiringHolds, OpHolds, SupervisorAlive,
         Parked, None, RemoveVolumes, Quiet, Authorised, Free, NoOp, Current,
         Held, Goto
    <3>3. AuditedHolds(s)'
      BY <1>4, WriterLeaseConstants DEF LeaseInv, TypeOK, RootHolds,
         RuntimeHolds, AuditedHolds, AcquiringHolds, OpHolds, Quiet, Parked,
         None, RemoveVolumes, Authorised, Free, NoOp, Current, Held,
         SupervisorAlive, Goto
    <3> QED BY <3>1, <3>2, <3>3 DEF RuntimeHolds
  <2> QED BY <2>1, <2>2, <2>3, <2>4 DEF LeaseInv
<1>5. CASE Release(r)
  <2>1. TypeOK'
    <3>2. files' \in [Runtimes -> File]
      <4>1. [files[r] EXCEPT !.end = "released"] \in File
        BY FileFields DEF LeaseInv, TypeOK
      <4> QED
        BY <1>5, <4>1 DEF LeaseInv, TypeOK, Release
    <3>3. op' \in Method
      BY <1>5 DEF LeaseInv, TypeOK, Method, NoOp, None, Release, Verified,
         Free, Held, Begin, host
    <3> QED
      BY <1>5, <3>2, <3>3, WriterLeaseConstants DEF LeaseInv, TypeOK, Method,
         Release, Verified, Free, NoOp, Held, Begin, host
  <2>2. OpHolds'
    BY <1>5, WriterLeaseConstants DEF LeaseInv, TypeOK, OpHolds, RootHolds,
       RuntimeHolds, WriterHolds, AcquiringHolds, AuditedHolds, Method,
       Ending, Parked, NoOp, None, File, Release, Verified, Free, Held,
       Begin, host
  <2>3. RootHolds'
    BY <1>5 DEF LeaseInv, RootHolds, Release, host
  <2>4. ASSUME NEW s \in Runtimes PROVE RuntimeHolds(s)'
    <3>1. AcquiringHolds(s)'
      BY <1>5, WriterLeaseConstants DEF LeaseInv, TypeOK, RootHolds,
         RuntimeHolds, AcquiringHolds, OpHolds, File, Parked, None, Release,
         Verified, Free, NoOp, Held, Begin, host
    <3>2. WriterHolds(s)'
      BY <1>5 DEF LeaseInv, RuntimeHolds, WriterHolds, SupervisorAlive,
         Release, host
    <3>3. AuditedHolds(s)'
      BY <1>5, WriterLeaseConstants DEF LeaseInv, TypeOK, RootHolds,
         RuntimeHolds, AuditedHolds, AcquiringHolds, OpHolds, Quiet, File,
         Parked, None, Release, Verified, Free, NoOp, Held, Begin, host
    <3> QED BY <3>1, <3>2, <3>3 DEF RuntimeHolds
  <2> QED BY <2>1, <2>2, <2>3, <2>4 DEF LeaseInv
<1>6. CASE Retain(r)
  <2>1. TypeOK'
    <3>1. root' \in [dir : BOOLEAN, owner : Owner]
      BY WriterLeaseConstants, <1>6 DEF LeaseInv, TypeOK, Owner, NoLease,
         None, RuntimeHolds, AcquiringHolds, Retain, Verified, Free, NoOp,
         Held, Goto
    <3> QED
      BY <1>6, <3>1, WriterLeaseConstants DEF LeaseInv, TypeOK, Method,
         Retain, Verified, Free, NoOp, Held, Goto
  <2>2. OpHolds'
    BY <1>6, WriterLeaseConstants DEF LeaseInv, TypeOK, OpHolds, RootHolds,
       RuntimeHolds, WriterHolds, AcquiringHolds, AuditedHolds, Method,
       Ending, Parked, NoOp, None, Owner, NoLease, Retain, Verified, Free,
       Held, Goto
  <2>3. RootHolds'
    BY <1>6, WriterLeaseConstants DEF LeaseInv, TypeOK, RootHolds, OpHolds,
       Method, Ending, Parked, NoOp, None, Owner, NoLease, Retain, Verified,
       Free, Held, Goto
  <2>4. ASSUME NEW s \in Runtimes PROVE RuntimeHolds(s)'
    <3>1. AcquiringHolds(s)'
      BY <1>6, WriterLeaseConstants DEF LeaseInv, TypeOK, RootHolds,
         RuntimeHolds, AcquiringHolds, OpHolds, Owner, NoLease, Parked, None,
         Retain, Verified, Free, NoOp, Held, Goto
    <3>2. WriterHolds(s)'
      BY <1>6, WriterLeaseConstants DEF LeaseInv, TypeOK, RootHolds,
         RuntimeHolds, WriterHolds, AcquiringHolds, OpHolds, SupervisorAlive,
         Owner, NoLease, Parked, None, Retain, Verified, Free, NoOp, Held,
         Goto
    <3>3. AuditedHolds(s)'
      BY <1>6, WriterLeaseConstants DEF LeaseInv, TypeOK, RootHolds,
         RuntimeHolds, AuditedHolds, AcquiringHolds, OpHolds, Quiet, Owner,
         NoLease, Parked, None, Retain, Verified, Free, NoOp, Held, Goto
    <3> QED BY <3>1, <3>2, <3>3 DEF RuntimeHolds
  <2> QED BY <2>1, <2>2, <2>3, <2>4 DEF LeaseInv
<1> QED BY <1>1, <1>2, <1>3, <1>4, <1>5, <1>6

(* The end of a lease, file by file. *)
LEMMA EndSteps ==
    ASSUME LeaseInv, EndUnlink \/ EndRmdir \/ EndOwner \/ EndRoot
    PROVE  LeaseInv'
<1>1. CASE EndUnlink
  <2>1. TypeOK'
    <3>2. files' \in [Runtimes -> File]
      <4>1. op.rt \in Runtimes
        BY <1>1, WriterLeaseConstants DEF LeaseInv, TypeOK, Method,
           EndUnlink, NoOp, None
      <4>2. [files[op.rt] EXCEPT !.locator = FALSE] \in File
        BY <4>1, FileFields DEF LeaseInv, TypeOK
      <4> QED
        BY <1>1, <4>1, <4>2 DEF LeaseInv, TypeOK, EndUnlink
    <3>3. op' \in Method
      BY <1>1 DEF LeaseInv, TypeOK, Method, NoOp, None, EndUnlink, host
    <3> QED
      BY <1>1, <3>2, <3>3, WriterLeaseConstants DEF LeaseInv, TypeOK, Method,
         EndUnlink, host
  <2>2. OpHolds'
    BY <1>1, WriterLeaseConstants DEF LeaseInv, TypeOK, OpHolds, RootHolds,
       RuntimeHolds, WriterHolds, AcquiringHolds, AuditedHolds, Method,
       Ending, Parked, NoOp, None, File, EndUnlink, host
  <2>3. RootHolds'
    BY <1>1 DEF LeaseInv, RootHolds, EndUnlink, host
  <2>4. ASSUME NEW s \in Runtimes PROVE RuntimeHolds(s)'
    <3>1. AcquiringHolds(s)'
      BY <1>1, WriterLeaseConstants DEF LeaseInv, TypeOK, RootHolds,
         RuntimeHolds, AcquiringHolds, OpHolds, File, Method, NoOp, Ending,
         Parked, None, EndUnlink, host
    <3>2. WriterHolds(s)'
      BY <1>1 DEF LeaseInv, RuntimeHolds, WriterHolds, SupervisorAlive,
         EndUnlink, host
    <3>3. AuditedHolds(s)'
      BY <1>1, WriterLeaseConstants DEF LeaseInv, TypeOK, RootHolds,
         RuntimeHolds, AuditedHolds, AcquiringHolds, OpHolds, Quiet, File,
         Method, NoOp, Ending, Parked, None, EndUnlink, host
    <3> QED BY <3>1, <3>2, <3>3 DEF RuntimeHolds
  <2> QED BY <2>1, <2>2, <2>3, <2>4 DEF LeaseInv
<1>2. CASE EndRmdir
  <2>1. TypeOK'
    <3>2. files' \in [Runtimes -> File]
      <4>1. op.rt \in Runtimes
        BY <1>2, WriterLeaseConstants DEF LeaseInv, TypeOK, Method, EndRmdir,
           NoOp, None
      <4>2. [files[op.rt] EXCEPT !.dir = FALSE] \in File
        BY <4>1, FileFields DEF LeaseInv, TypeOK
      <4> QED
        BY <1>2, <4>1, <4>2 DEF LeaseInv, TypeOK, EndRmdir
    <3>3. op' \in Method
      BY <1>2 DEF LeaseInv, TypeOK, Method, NoOp, None, EndRmdir, host
    <3> QED
      BY <1>2, <3>2, <3>3, WriterLeaseConstants DEF LeaseInv, TypeOK, Method,
         EndRmdir, host
  <2>2. OpHolds'
    BY <1>2, WriterLeaseConstants DEF LeaseInv, TypeOK, OpHolds, RootHolds,
       RuntimeHolds, WriterHolds, AcquiringHolds, AuditedHolds, Method,
       Ending, Parked, NoOp, None, File, EndRmdir, host
  <2>3. RootHolds'
    BY <1>2 DEF LeaseInv, RootHolds, EndRmdir, host
  <2>4. ASSUME NEW s \in Runtimes PROVE RuntimeHolds(s)'
    <3>1. AcquiringHolds(s)'
      BY <1>2, WriterLeaseConstants DEF LeaseInv, TypeOK, RootHolds,
         RuntimeHolds, AcquiringHolds, OpHolds, File, Method, NoOp, Ending,
         Parked, None, EndRmdir, host
    <3>2. WriterHolds(s)'
      BY <1>2 DEF LeaseInv, RuntimeHolds, WriterHolds, SupervisorAlive,
         EndRmdir, host
    <3>3. AuditedHolds(s)'
      BY <1>2, WriterLeaseConstants DEF LeaseInv, TypeOK, RootHolds,
         RuntimeHolds, AuditedHolds, AcquiringHolds, OpHolds, Quiet, File,
         Method, NoOp, Ending, Parked, None, EndRmdir, host
    <3> QED BY <3>1, <3>2, <3>3 DEF RuntimeHolds
  <2> QED BY <2>1, <2>2, <2>3, <2>4 DEF LeaseInv
<1>3. CASE EndOwner
  <2>1. TypeOK'
    <3>1. root' \in [dir : BOOLEAN, owner : Owner]
      BY WriterLeaseConstants, <1>3 DEF LeaseInv, TypeOK, Owner, NoLease,
         None, EndOwner, host
    <3>3. op' \in Method
      BY <1>3 DEF LeaseInv, TypeOK, Method, NoOp, None, EndOwner, NoLease,
         host
    <3> QED
      BY <1>3, <3>1, <3>3, WriterLeaseConstants DEF LeaseInv, TypeOK, Method,
         EndOwner, NoLease, host
  <2>2. OpHolds'
    BY <1>3, WriterLeaseConstants DEF LeaseInv, TypeOK, OpHolds, RootHolds,
       RuntimeHolds, WriterHolds, AcquiringHolds, AuditedHolds, Method,
       Ending, Parked, NoOp, None, Owner, NoLease, EndOwner, host
  <2>3. RootHolds'
    BY <1>3, WriterLeaseConstants DEF LeaseInv, TypeOK, RootHolds, OpHolds,
       Method, Ending, Parked, NoOp, None, Owner, NoLease, EndOwner, host
  <2>4. ASSUME NEW s \in Runtimes PROVE RuntimeHolds(s)'
    <3>1. AcquiringHolds(s)'
      BY <1>3 DEF LeaseInv, RuntimeHolds, AcquiringHolds, EndOwner, host
    <3>2. WriterHolds(s)'
      BY <1>3, WriterLeaseConstants DEF LeaseInv, TypeOK, RootHolds,
         RuntimeHolds, WriterHolds, AcquiringHolds, OpHolds, SupervisorAlive,
         Owner, NoLease, Method, NoOp, Ending, Parked, None, EndOwner, host
    <3>3. AuditedHolds(s)'
      BY <1>3, WriterLeaseConstants DEF LeaseInv, TypeOK, RootHolds,
         RuntimeHolds, AuditedHolds, AcquiringHolds, OpHolds, Quiet, Owner,
         NoLease, Method, NoOp, Ending, Parked, None, EndOwner, host
    <3> QED BY <3>1, <3>2, <3>3 DEF RuntimeHolds
  <2> QED BY <2>1, <2>2, <2>3, <2>4 DEF LeaseInv
<1>4. CASE EndRoot
  <2>1. TypeOK'
    <3>1. root' \in [dir : BOOLEAN, owner : Owner]
      BY WriterLeaseConstants, <1>4 DEF LeaseInv, TypeOK, Owner, NoLease,
         None, EndRoot, NoOp, Goto
    <3>3. op' \in Method
      BY <1>4 DEF LeaseInv, TypeOK, Method, NoOp, None, EndRoot, Goto
    <3> QED
      BY <1>4, <3>1, <3>3, WriterLeaseConstants DEF LeaseInv, TypeOK, Method,
         EndRoot, NoOp, Goto
  <2>2. OpHolds'
    BY <1>4, WriterLeaseConstants DEF LeaseInv, TypeOK, OpHolds, RootHolds,
       RuntimeHolds, WriterHolds, AcquiringHolds, AuditedHolds, Method,
       Ending, Parked, NoOp, None, Owner, NoLease, EndRoot, Goto
  <2>3. RootHolds'
    BY <1>4, WriterLeaseConstants DEF LeaseInv, TypeOK, RootHolds, OpHolds,
       Method, Ending, Parked, NoOp, None, Owner, NoLease, EndRoot, Goto
  <2>4. ASSUME NEW s \in Runtimes PROVE RuntimeHolds(s)'
    <3>1. AcquiringHolds(s)'
      BY <1>4, WriterLeaseConstants DEF LeaseInv, TypeOK, RootHolds,
         RuntimeHolds, AcquiringHolds, OpHolds, Owner, NoLease, Method, NoOp,
         Ending, Parked, None, EndRoot, Goto
    <3>2. WriterHolds(s)'
      BY <1>4, WriterLeaseConstants DEF LeaseInv, TypeOK, RootHolds,
         RuntimeHolds, WriterHolds, AcquiringHolds, OpHolds, SupervisorAlive,
         Owner, NoLease, Method, NoOp, Ending, Parked, None, EndRoot, Goto
    <3>3. AuditedHolds(s)'
      BY <1>4, WriterLeaseConstants DEF LeaseInv, TypeOK, RootHolds,
         RuntimeHolds, AuditedHolds, AcquiringHolds, OpHolds, Quiet, Owner,
         NoLease, Method, NoOp, Ending, Parked, None, EndRoot, Goto
    <3> QED BY <3>1, <3>2, <3>3 DEF RuntimeHolds
  <2> QED BY <2>1, <2>2, <2>3, <2>4 DEF LeaseInv
<1> QED BY <1>1, <1>2, <1>3, <1>4

(* Resumption, recovery and the audited resolution. *)
LEMMA ResumeSteps ==
    ASSUME LeaseInv, NEW r \in Runtimes,
           \/ Resume(r) \/ Continue(r) \/ Activate(r)
           \/ ResumeRefused(r) \/ RecoverStale(r) \/ RestoreLocator(r) \/ Resolve(r)
    PROVE  LeaseInv'
<1>1. CASE Resume(r)
  <2>1. TypeOK'
    BY <1>1, WriterLeaseConstants DEF LeaseInv, TypeOK, Resume, Unattended,
       Held, Goto
  <2>2. OpHolds'
    BY <1>1, WriterLeaseConstants DEF LeaseInv, TypeOK, OpHolds, RootHolds,
       RuntimeHolds, WriterHolds, AcquiringHolds, AuditedHolds, Method,
       Ending, Parked, NoOp, None, Resume, Unattended, Held, Goto
  <2>3. RootHolds'
    BY <1>1 DEF LeaseInv, RootHolds, Resume
  <2>4. ASSUME NEW s \in Runtimes PROVE RuntimeHolds(s)'
    <3>1. AcquiringHolds(s)'
      BY <1>1, WriterLeaseConstants DEF LeaseInv, TypeOK, RootHolds,
         RuntimeHolds, AcquiringHolds, OpHolds, Parked, None, Resume,
         Unattended, Held, Goto
    <3>2. WriterHolds(s)'
      BY <1>1, WriterLeaseConstants DEF LeaseInv, TypeOK, RootHolds,
         RuntimeHolds, WriterHolds, AcquiringHolds, OpHolds, SupervisorAlive,
         Parked, None, Resume, Unattended, Held, Goto
    <3>3. AuditedHolds(s)'
      BY <1>1, WriterLeaseConstants DEF LeaseInv, TypeOK, RootHolds,
         RuntimeHolds, AuditedHolds, AcquiringHolds, OpHolds, Quiet, Parked,
         None, Resume, Unattended, Held, Goto
    <3> QED BY <3>1, <3>2, <3>3 DEF RuntimeHolds
  <2> QED BY <2>1, <2>2, <2>3, <2>4 DEF LeaseInv
<1>2. CASE Continue(r)
  <2>1. TypeOK'
    <3>1. root' \in [dir : BOOLEAN, owner : Owner]
      BY WriterLeaseConstants, <1>2 DEF LeaseInv, TypeOK, Owner, NoLease,
         None, RuntimeHolds, AcquiringHolds, Continue, Free, NoOp,
         MayContinue, Held, SupervisorAlive, Goto
    <3> QED
      BY <1>2, <3>1, WriterLeaseConstants DEF LeaseInv, TypeOK, Method,
         Continue, Free, NoOp, MayContinue, Held, SupervisorAlive, Goto
  <2>2. OpHolds'
    BY <1>2, WriterLeaseConstants DEF LeaseInv, TypeOK, OpHolds, RootHolds,
       RuntimeHolds, WriterHolds, AcquiringHolds, AuditedHolds, Method,
       Ending, Parked, NoOp, None, Owner, NoLease, Continue, Free,
       MayContinue, Held, SupervisorAlive, Goto
  <2>3. RootHolds'
    BY <1>2, WriterLeaseConstants DEF LeaseInv, TypeOK, RootHolds, OpHolds,
       Method, Ending, Parked, NoOp, None, Owner, NoLease, Continue, Free,
       MayContinue, Held, SupervisorAlive, Goto
  <2>4. ASSUME NEW s \in Runtimes PROVE RuntimeHolds(s)'
    <3>1. AcquiringHolds(s)'
      BY <1>2, WriterLeaseConstants DEF LeaseInv, TypeOK, RootHolds,
         RuntimeHolds, AcquiringHolds, OpHolds, Owner, NoLease, Parked, None,
         Continue, Free, NoOp, MayContinue, Held, SupervisorAlive, Goto
    <3>2. WriterHolds(s)'
      BY <1>2, WriterLeaseConstants DEF LeaseInv, TypeOK, RootHolds,
         RuntimeHolds, WriterHolds, AcquiringHolds, OpHolds, SupervisorAlive,
         Owner, NoLease, Parked, None, Continue, Free, NoOp, MayContinue,
         Held, Goto
    <3>3. AuditedHolds(s)'
      BY <1>2, WriterLeaseConstants DEF LeaseInv, TypeOK, RootHolds,
         RuntimeHolds, AuditedHolds, AcquiringHolds, OpHolds, Quiet, Owner,
         NoLease, Parked, None, Continue, Free, NoOp, MayContinue, Held,
         SupervisorAlive, Goto
    <3> QED BY <3>1, <3>2, <3>3 DEF RuntimeHolds
  <2> QED BY <2>1, <2>2, <2>3, <2>4 DEF LeaseInv
<1>3. CASE Activate(r)
  <2>1. TypeOK'
    <3>1. root' \in [dir : BOOLEAN, owner : Owner]
      BY WriterLeaseConstants, <1>3 DEF LeaseInv, TypeOK, Owner, NoLease,
         None, Activate, Free, NoOp, MayActivate, Current, Held,
         SupervisorAlive, SetOwner, Goto
    <3> QED
      BY <1>3, <3>1, WriterLeaseConstants DEF LeaseInv, TypeOK, Method,
         Activate, Free, NoOp, MayActivate, Current, Held, SupervisorAlive,
         SetOwner, Goto
  <2>2. OpHolds'
    BY <1>3, WriterLeaseConstants DEF LeaseInv, TypeOK, OpHolds, RootHolds,
       RuntimeHolds, WriterHolds, AcquiringHolds, AuditedHolds, Method,
       Ending, Parked, NoOp, None, Owner, NoLease, Activate, Free,
       MayActivate, Current, Held, SupervisorAlive, SetOwner, Goto
  <2>3. RootHolds'
    BY <1>3, WriterLeaseConstants DEF LeaseInv, TypeOK, RootHolds, OpHolds,
       Method, Ending, Parked, NoOp, None, Owner, NoLease, Activate, Free,
       MayActivate, Current, Held, SupervisorAlive, SetOwner, Goto
  <2>4. ASSUME NEW s \in Runtimes PROVE RuntimeHolds(s)'
    <3>1. AcquiringHolds(s)'
      BY <1>3, WriterLeaseConstants DEF LeaseInv, TypeOK, RootHolds,
         RuntimeHolds, AcquiringHolds, OpHolds, Owner, NoLease, Parked, None,
         Activate, Free, NoOp, MayActivate, Current, Held, SupervisorAlive,
         SetOwner, Goto
    <3>2. WriterHolds(s)'
      BY <1>3, WriterLeaseConstants DEF LeaseInv, TypeOK, RootHolds,
         RuntimeHolds, WriterHolds, AcquiringHolds, OpHolds, SupervisorAlive,
         Owner, NoLease, Parked, None, Activate, Free, NoOp, MayActivate,
         Current, Held, SetOwner, Goto
    <3>3. AuditedHolds(s)'
      BY <1>3, WriterLeaseConstants DEF LeaseInv, TypeOK, RootHolds,
         RuntimeHolds, AuditedHolds, AcquiringHolds, OpHolds, Quiet, Owner,
         NoLease, Parked, None, Activate, Free, NoOp, MayActivate, Current,
         Held, SupervisorAlive, SetOwner, Goto
    <3> QED BY <3>1, <3>2, <3>3 DEF RuntimeHolds
  <2> QED BY <2>1, <2>2, <2>3, <2>4 DEF LeaseInv
<1>4. CASE ResumeRefused(r)
  <2>1. TypeOK'
    BY <1>4, WriterLeaseConstants DEF LeaseInv, TypeOK, ResumeRefused, Free,
       NoOp, MayContinue, Held, SupervisorAlive, MayActivate, Current, Goto
  <2>2. OpHolds'
    BY <1>4, WriterLeaseConstants DEF LeaseInv, TypeOK, OpHolds, RootHolds,
       RuntimeHolds, WriterHolds, AcquiringHolds, AuditedHolds, Method,
       Ending, Parked, NoOp, None, ResumeRefused, Free, MayContinue, Held,
       SupervisorAlive, MayActivate, Current, Goto
  <2>3. RootHolds'
    BY <1>4 DEF LeaseInv, RootHolds, ResumeRefused
  <2>4. ASSUME NEW s \in Runtimes PROVE RuntimeHolds(s)'
    <3>1. AcquiringHolds(s)'
      BY <1>4, WriterLeaseConstants DEF LeaseInv, TypeOK, RootHolds,
         RuntimeHolds, AcquiringHolds, OpHolds, Parked, None, ResumeRefused,
         Free, NoOp, MayContinue, Held, SupervisorAlive, MayActivate,
         Current, Goto
    <3>2. WriterHolds(s)'
      BY <1>4, WriterLeaseConstants DEF LeaseInv, TypeOK, RootHolds,
         RuntimeHolds, WriterHolds, AcquiringHolds, OpHolds, SupervisorAlive,
         Parked, None, ResumeRefused, Free, NoOp, MayContinue, Held,
         MayActivate, Current, Goto
    <3>3. AuditedHolds(s)'
      BY <1>4, WriterLeaseConstants DEF LeaseInv, TypeOK, RootHolds,
         RuntimeHolds, AuditedHolds, AcquiringHolds, OpHolds, Quiet, Parked,
         None, ResumeRefused, Free, NoOp, MayContinue, Held, SupervisorAlive,
         MayActivate, Current, Goto
    <3> QED BY <3>1, <3>2, <3>3 DEF RuntimeHolds
  <2> QED BY <2>1, <2>2, <2>3, <2>4 DEF LeaseInv
<1>5. CASE RecoverStale(r)
  <2>1. TypeOK'
    <3>2. files' \in [Runtimes -> File]
      <4>1. [files[r] EXCEPT !.dir = TRUE, !.locator = TRUE, !.end = "recovered_stale"] \in File
        <5>1. [files[r] EXCEPT !.dir = TRUE] \in File
          BY FileFields DEF LeaseInv, TypeOK
        <5>2. [[files[r] EXCEPT !.dir = TRUE] EXCEPT !.locator = TRUE] \in File
          BY <5>1, FileFields
        <5>3. [[[files[r] EXCEPT !.dir = TRUE] EXCEPT !.locator = TRUE] EXCEPT !.end = "recovered_stale"] \in File
          BY <5>2, FileFields
        <5> QED BY <5>3
      <4> QED
        BY <1>5, <4>1 DEF LeaseInv, TypeOK, RecoverStale
    <3>3. op' \in Method
      BY <1>5 DEF LeaseInv, TypeOK, Method, NoOp, None, RecoverStale,
         Unattended, Free, SupervisorAlive, Begin, host
    <3> QED
      BY <1>5, <3>2, <3>3, WriterLeaseConstants DEF LeaseInv, TypeOK, Method,
         RecoverStale, Unattended, Free, NoOp, SupervisorAlive, Begin, host
  <2>2. OpHolds'
    BY <1>5, WriterLeaseConstants DEF LeaseInv, TypeOK, OpHolds, RootHolds,
       RuntimeHolds, WriterHolds, AcquiringHolds, AuditedHolds, Method,
       Ending, Parked, NoOp, None, File, RecoverStale, Unattended, Free,
       SupervisorAlive, Begin, host
  <2>3. RootHolds'
    BY <1>5 DEF LeaseInv, RootHolds, RecoverStale, host
  <2>4. ASSUME NEW s \in Runtimes PROVE RuntimeHolds(s)'
    <3>1. AcquiringHolds(s)'
      BY <1>5, WriterLeaseConstants DEF LeaseInv, TypeOK, RootHolds,
         RuntimeHolds, AcquiringHolds, OpHolds, File, Parked, None,
         RecoverStale, Unattended, Free, NoOp, SupervisorAlive, Begin, host
    <3>2. WriterHolds(s)'
      BY <1>5 DEF LeaseInv, RuntimeHolds, WriterHolds, SupervisorAlive,
         RecoverStale, host
    <3>3. AuditedHolds(s)'
      BY <1>5, WriterLeaseConstants DEF LeaseInv, TypeOK, RootHolds,
         RuntimeHolds, AuditedHolds, AcquiringHolds, OpHolds, Quiet, File,
         Parked, None, RecoverStale, Unattended, Free, NoOp, SupervisorAlive,
         Begin, host
    <3> QED BY <3>1, <3>2, <3>3 DEF RuntimeHolds
  <2> QED BY <2>1, <2>2, <2>3, <2>4 DEF LeaseInv
<1>6. CASE Resolve(r)
  <2>1. TypeOK'
    <3>2. files' \in [Runtimes -> File]
      <4>1. [files[r] EXCEPT !.end = "audited"] \in File
        BY FileFields DEF LeaseInv, TypeOK
      <4> QED
        BY <1>6, <4>1 DEF LeaseInv, TypeOK, Resolve
    <3>3. op' \in Method
      BY <1>6 DEF LeaseInv, TypeOK, Method, NoOp, None, Resolve, Unattended,
         Verified, Free, Held, Quiet, Begin
    <3> QED
      BY <1>6, <3>2, <3>3, WriterLeaseConstants DEF LeaseInv, TypeOK, Method,
         Resolve, Unattended, Verified, Free, NoOp, Held, Quiet, Begin
  <2>2. OpHolds'
    BY <1>6, WriterLeaseConstants DEF LeaseInv, TypeOK, OpHolds, RootHolds,
       RuntimeHolds, WriterHolds, AcquiringHolds, AuditedHolds, Method,
       Ending, Parked, NoOp, None, File, Resolve, Unattended, Verified, Free,
       Held, Quiet, Begin
  <2>3. RootHolds'
    BY <1>6 DEF LeaseInv, RootHolds, Resolve
  <2>4. ASSUME NEW s \in Runtimes PROVE RuntimeHolds(s)'
    <3>1. AcquiringHolds(s)'
      BY <1>6, WriterLeaseConstants DEF LeaseInv, TypeOK, RootHolds,
         RuntimeHolds, AcquiringHolds, OpHolds, File, Parked, None, Resolve,
         Unattended, Verified, Free, NoOp, Held, Quiet, Begin
    <3>2. WriterHolds(s)'
      BY <1>6 DEF LeaseInv, RuntimeHolds, WriterHolds, SupervisorAlive,
         Resolve
    <3>3. AuditedHolds(s)'
      BY <1>6, WriterLeaseConstants DEF LeaseInv, TypeOK, RootHolds,
         RuntimeHolds, AuditedHolds, AcquiringHolds, OpHolds, Quiet, File,
         Parked, None, Resolve, Unattended, Verified, Free, NoOp, Held, Begin
    <3> QED BY <3>1, <3>2, <3>3 DEF RuntimeHolds
  <2> QED BY <2>1, <2>2, <2>3, <2>4 DEF LeaseInv
<1>7. CASE RestoreLocator(r)
  <2>1. TypeOK'
    <3>1. files' \in [Runtimes -> File]
      <4>1. [files[r] EXCEPT !.dir = TRUE, !.locator = TRUE] \in File
        <5>1. [files[r] EXCEPT !.dir = TRUE] \in File
          BY FileFields DEF LeaseInv, TypeOK
        <5>2. [[files[r] EXCEPT !.dir = TRUE] EXCEPT !.locator = TRUE] \in File
          BY <5>1, FileFields
        <5> QED BY <5>2
      <4> QED
        BY <1>7, <4>1 DEF LeaseInv, TypeOK, RestoreLocator
    <3> QED
      BY <1>7, <3>1, WriterLeaseConstants DEF LeaseInv, TypeOK, RestoreLocator, host
  <2>2. OpHolds'
    BY <1>7 DEF LeaseInv, TypeOK, OpHolds, Ending, NoOp, None, File, RestoreLocator, Free, host
  <2>3. RootHolds'
    BY <1>7 DEF LeaseInv, RootHolds, RestoreLocator, host
  <2>4. ASSUME NEW s \in Runtimes PROVE RuntimeHolds(s)'
    <3>1. AcquiringHolds(s)'
      BY <1>7 DEF LeaseInv, TypeOK, RuntimeHolds, AcquiringHolds, File, RestoreLocator, host
    <3>2. WriterHolds(s)'
      BY <1>7 DEF LeaseInv, RuntimeHolds, WriterHolds, SupervisorAlive, RestoreLocator, host
    <3>3. AuditedHolds(s)'
      BY <1>7 DEF LeaseInv, TypeOK, RuntimeHolds, AuditedHolds, Quiet, File, RestoreLocator, host
    <3> QED BY <3>1, <3>2, <3>3 DEF RuntimeHolds
  <2> QED BY <2>1, <2>2, <2>3, <2>4 DEF LeaseInv
<1> QED BY <1>1, <1>2, <1>3, <1>4, <1>5, <1>6, <1>7

(* Deaths of scripts and of the processes they left. *)
LEMMA DeathSteps ==
    ASSUME LeaseInv, NEW r \in Runtimes,
           CampaignDies(r) \/ ProcessesDie(r)
    PROVE  LeaseInv'
<1>1. CASE CampaignDies(r)
  <2>1. TypeOK'
    BY <1>1, WriterLeaseConstants DEF LeaseInv, TypeOK, CampaignDies, Goto
  <2>2. OpHolds'
    BY <1>1, WriterLeaseConstants DEF LeaseInv, TypeOK, OpHolds, RootHolds,
       RuntimeHolds, WriterHolds, AcquiringHolds, AuditedHolds, Method,
       Ending, Parked, NoOp, None, CampaignDies, Goto
  <2>3. RootHolds'
    BY <1>1 DEF LeaseInv, RootHolds, CampaignDies
  <2>4. ASSUME NEW s \in Runtimes PROVE RuntimeHolds(s)'
    <3>1. AcquiringHolds(s)'
      BY <1>1, WriterLeaseConstants DEF LeaseInv, TypeOK, RootHolds,
         RuntimeHolds, AcquiringHolds, OpHolds, Method, NoOp, Ending, Parked,
         None, CampaignDies, Goto
    <3>2. WriterHolds(s)'
      BY <1>1, WriterLeaseConstants DEF LeaseInv, TypeOK, RootHolds,
         RuntimeHolds, WriterHolds, AcquiringHolds, OpHolds, SupervisorAlive,
         Method, NoOp, Ending, Parked, None, CampaignDies, Goto
    <3>3. AuditedHolds(s)'
      BY <1>1, WriterLeaseConstants DEF LeaseInv, TypeOK, RootHolds,
         RuntimeHolds, AuditedHolds, AcquiringHolds, OpHolds, Quiet, Method,
         NoOp, Ending, Parked, None, CampaignDies, Goto
    <3> QED BY <3>1, <3>2, <3>3 DEF RuntimeHolds
  <2> QED BY <2>1, <2>2, <2>3, <2>4 DEF LeaseInv
<1>2. CASE ProcessesDie(r)
  <2>1. TypeOK'
    BY <1>2, WriterLeaseConstants DEF LeaseInv, TypeOK, ProcessesDie,
       Unattended
  <2>2. OpHolds'
    BY <1>2, WriterLeaseConstants DEF LeaseInv, TypeOK, OpHolds, RootHolds,
       RuntimeHolds, WriterHolds, AcquiringHolds, AuditedHolds, Method,
       Ending, Parked, NoOp, None, ProcessesDie, Unattended
  <2>3. RootHolds'
    BY <1>2 DEF LeaseInv, RootHolds, ProcessesDie
  <2>4. ASSUME NEW s \in Runtimes PROVE RuntimeHolds(s)'
    <3>1. AcquiringHolds(s)'
      BY <1>2 DEF LeaseInv, RuntimeHolds, AcquiringHolds, ProcessesDie
    <3>2. WriterHolds(s)'
      BY <1>2, WriterLeaseConstants DEF LeaseInv, TypeOK, RootHolds,
         RuntimeHolds, WriterHolds, AcquiringHolds, OpHolds, SupervisorAlive,
         Parked, None, ProcessesDie, Unattended
    <3>3. AuditedHolds(s)'
      BY <1>2, WriterLeaseConstants DEF LeaseInv, TypeOK, RootHolds,
         RuntimeHolds, AuditedHolds, AcquiringHolds, OpHolds, Quiet, Parked,
         None, ProcessesDie, Unattended
    <3> QED BY <3>1, <3>2, <3>3 DEF RuntimeHolds
  <2> QED BY <2>1, <2>2, <2>3, <2>4 DEF LeaseInv
<1> QED BY <1>1, <1>2

(* Time, deaths in the middle of a method, and reboots. *)
LEMMA HostSteps ==
    ASSUME LeaseInv, Stale \/ MethodDies \/ Reboot
    PROVE  LeaseInv'
<1>1. CASE Stale
  <2>1. TypeOK'
    BY <1>1, WriterLeaseConstants DEF LeaseInv, TypeOK, Stale, host
  <2>2. OpHolds'
    BY <1>1 DEF LeaseInv, OpHolds, Stale, host
  <2>3. RootHolds'
    BY <1>1 DEF LeaseInv, RootHolds, Stale, host
  <2>4. ASSUME NEW s \in Runtimes PROVE RuntimeHolds(s)'
    <3>1. AcquiringHolds(s)'
      BY <1>1 DEF LeaseInv, RuntimeHolds, AcquiringHolds, Stale, host
    <3>2. WriterHolds(s)'
      BY <1>1 DEF LeaseInv, RuntimeHolds, WriterHolds, SupervisorAlive,
         Stale, host
    <3>3. AuditedHolds(s)'
      BY <1>1 DEF LeaseInv, RuntimeHolds, AuditedHolds, Quiet, Stale, host
    <3> QED BY <3>1, <3>2, <3>3 DEF RuntimeHolds
  <2> QED BY <2>1, <2>2, <2>3, <2>4 DEF LeaseInv
<1>2. CASE MethodDies
  <2>1. TypeOK'
    <3>3. op' \in Method
      BY <1>2 DEF LeaseInv, TypeOK, Method, NoOp, None, MethodDies
    <3> QED
      BY <1>2, <3>3, WriterLeaseConstants DEF LeaseInv, TypeOK, Method,
         MethodDies, NoOp
  <2>2. OpHolds'
    BY <1>2, WriterLeaseConstants DEF LeaseInv, TypeOK, OpHolds, RootHolds,
       RuntimeHolds, WriterHolds, AcquiringHolds, AuditedHolds, Method,
       Ending, Parked, NoOp, None, MethodDies
  <2>3. RootHolds'
    BY <1>2 DEF LeaseInv, RootHolds, MethodDies
  <2>4. ASSUME NEW s \in Runtimes PROVE RuntimeHolds(s)'
    <3>1. AcquiringHolds(s)'
      BY <1>2, WriterLeaseConstants DEF LeaseInv, TypeOK, RootHolds,
         RuntimeHolds, AcquiringHolds, OpHolds, Method, NoOp, Ending, Parked,
         None, MethodDies
    <3>2. WriterHolds(s)'
      BY <1>2, WriterLeaseConstants DEF LeaseInv, TypeOK, RootHolds,
         RuntimeHolds, WriterHolds, AcquiringHolds, OpHolds, SupervisorAlive,
         Method, NoOp, Ending, Parked, None, MethodDies
    <3>3. AuditedHolds(s)'
      BY <1>2, WriterLeaseConstants DEF LeaseInv, TypeOK, RootHolds,
         RuntimeHolds, AuditedHolds, AcquiringHolds, OpHolds, Quiet, Method,
         NoOp, Ending, Parked, None, MethodDies
    <3> QED BY <3>1, <3>2, <3>3 DEF RuntimeHolds
  <2> QED BY <2>1, <2>2, <2>3, <2>4 DEF LeaseInv
<1>3. CASE Reboot
  <2>1. TypeOK'
    BY <1>3, WriterLeaseConstants DEF LeaseInv, TypeOK, Reboot, Free, NoOp
  <2>2. OpHolds'
    BY <1>3, WriterLeaseConstants DEF LeaseInv, TypeOK, OpHolds, RootHolds,
       RuntimeHolds, WriterHolds, AcquiringHolds, AuditedHolds, Method,
       Ending, Parked, NoOp, None, Reboot, Free
  <2>3. RootHolds'
    BY <1>3 DEF LeaseInv, RootHolds, Reboot
  <2>4. ASSUME NEW s \in Runtimes PROVE RuntimeHolds(s)'
    <3>1. AcquiringHolds(s)'
      BY <1>3, WriterLeaseConstants DEF LeaseInv, TypeOK, RootHolds,
         RuntimeHolds, AcquiringHolds, OpHolds, Parked, None, Reboot, Free,
         NoOp
    <3>2. WriterHolds(s)'
      BY <1>3, WriterLeaseConstants DEF LeaseInv, TypeOK, RootHolds,
         RuntimeHolds, WriterHolds, AcquiringHolds, OpHolds, SupervisorAlive,
         Parked, None, Reboot, Free, NoOp
    <3>3. AuditedHolds(s)'
      BY <1>3, WriterLeaseConstants DEF LeaseInv, TypeOK, RootHolds,
         RuntimeHolds, AuditedHolds, AcquiringHolds, OpHolds, Quiet, Parked,
         None, Reboot, Free, NoOp
    <3> QED BY <3>1, <3>2, <3>3 DEF RuntimeHolds
  <2> QED BY <2>1, <2>2, <2>3, <2>4 DEF LeaseInv
<1> QED BY <1>1, <1>2, <1>3

-----------------------------------------------------------------------------
(* No campaign holds the lease at first. *)
LEMMA InitLease == Init => LeaseInv
<1> SUFFICES ASSUME Init PROVE LeaseInv
  OBVIOUS
<1>1. TypeOK
  <2>1. root \in [dir : BOOLEAN, owner : Owner] /\ op \in Method
    BY DEF Init, Owner, Method
  <2>2. Fresh0 \in File
    BY DEF Fresh0, File
  <2>3. files \in [Runtimes -> File]
    BY <2>2 DEF Init
  <2>4. sup \in [Runtimes -> 0..MaxSupervisors] /\ boot \in 0..MaxBoots /\ crashes \in 0..MaxCrashes
    BY WriterLeaseConstants DEF Init
  <2>5. /\ fresh \in BOOLEAN /\ orphan \subseteq Runtimes
        /\ live \in [Runtimes -> BOOLEAN] /\ stop \in [Runtimes -> BOOLEAN]
        /\ services \in [Runtimes -> BOOLEAN] /\ volumes \in [Runtimes -> BOOLEAN]
    BY DEF Init
  <2>6. /\ acquiring \in [Runtimes -> {None, "dir", "snap", "token"}]
        /\ writer \in [Runtimes -> {"off", "idle", "batch"}]
        /\ campaign \in [Runtimes -> {"new"}]
    BY DEF Init
  <2> QED
    BY <2>1, <2>3, <2>4, <2>5, <2>6 DEF TypeOK
<1>2. OpHolds /\ RootHolds
  BY DEF Init, OpHolds, RootHolds, Ending, NoOp, NoLease, None
<1>3. ASSUME NEW r \in Runtimes PROVE RuntimeHolds(r)
  BY <1>3
     DEF Init, RuntimeHolds, AcquiringHolds, WriterHolds, AuditedHolds, Fresh0, None
<1> QED BY <1>1, <1>2, <1>3 DEF LeaseInv

(* Every step of the specification, and a stutter. *)
LEMMA NextLease == LeaseInv /\ [Next]_vars => LeaseInv'
<1> SUFFICES ASSUME LeaseInv, [Next]_vars PROVE LeaseInv'
  OBVIOUS
<1>1. CASE UNCHANGED vars
  BY <1>1
     DEF vars, LeaseInv, TypeOK, OpHolds, RootHolds, RuntimeHolds, AcquiringHolds,
         WriterHolds, AuditedHolds, SupervisorAlive, Quiet
<1>2. CASE \E r \in Runtimes : StartSupervisor(r) \/ SupervisorDies(r)
  BY <1>2, SupervisorSteps
<1>3. CASE \E r \in Runtimes : Acquire(r)
  BY <1>3, AcquireSteps DEF Acquire
<1>4. CASE \E r \in Runtimes : \/ StartServices(r) \/ StartRunner(r) \/ Heartbeat(r)
                              \/ Batch(r) \/ BatchEnds(r)
  BY <1>4, WorkSteps
<1>5. CASE \E r \in Runtimes : \/ Cleanup(r) \/ StopProcesses(r) \/ MarkResumePending(r)
                              \/ RemoveVolumes(r) \/ Release(r) \/ Retain(r)
  BY <1>5, CleanupSteps
<1>6. CASE \E r \in Runtimes : \/ Resume(r) \/ Continue(r) \/ Activate(r)
                              \/ ResumeRefused(r) \/ RecoverStale(r) \/ RestoreLocator(r) \/ Resolve(r)
  BY <1>6, ResumeSteps
<1>7. CASE \E r \in Runtimes : CampaignDies(r) \/ ProcessesDie(r)
  BY <1>7, DeathSteps
<1>8. CASE AcquireOwner \/ AcquireLink
  BY <1>8, LockedSteps
<1>9. CASE End
  BY <1>9, EndSteps DEF End
<1>10. CASE Stale \/ MethodDies \/ Reboot
  BY <1>10, HostSteps
<1> QED
  BY <1>1, <1>2, <1>3, <1>4, <1>5, <1>6, <1>7, <1>8, <1>9, <1>10 DEF Next

(* The inductive invariant of the lease: the owner document, the lock and  *)
(* what every campaign runs agree after any deaths and reboots.            *)
THEOREM LeaseInvariant == Spec => []LeaseInv
<1>1. Init => LeaseInv
  BY InitLease
<1>2. LeaseInv /\ [Next]_vars => LeaseInv'
  BY NextLease
<1> QED BY <1>1, <1>2, PTL DEF Spec

(* Two campaigns never write at the same time unless the supervisor of one *)
(* died under its runner, and what the audited cleanup resolved is clean:  *)
(* acquire, continue, recover and resolve let nobody else in.              *)
THEOREM LeaseIsExclusive == Spec => []LeaseHolds
<1>1. LeaseInv => ExclusiveWriter
  BY DEF LeaseInv, RuntimeHolds, WriterHolds, ExclusiveWriter
<1>2. LeaseInv => AuditedIsClean
  BY DEF LeaseInv, RuntimeHolds, AuditedHolds, AuditedIsClean
<1> QED BY LeaseInvariant, <1>1, <1>2, PTL DEF LeaseHolds

-----------------------------------------------------------------------------
(* Only the end of a lease, the retained cleanup and the acquisition of a  *)
(* free lease touch an owner document that is blocked.                     *)
LEMMA BlockedStays == LeaseInv /\ [Next]_vars => BlockedUntilAudited
<1> SUFFICES ASSUME LeaseInv, [Next]_vars, NEW r \in Runtimes,
                    root.owner.rt = r, root.owner.state = "blocked",
                    root'.owner # root.owner
             PROVE  \/ files[r].end = "audited"
                    \/ root'.owner.rt = r /\ root'.owner.state = "blocked"
  BY DEF BlockedUntilAudited
<1>1. CASE AcquireOwner
  BY <1>1, WriterLeaseConstants DEF AcquireOwner, LeaseInv, OpHolds
<1>2. CASE EndOwner
  BY <1>2 DEF EndOwner, LeaseInv, OpHolds, Ending
<1>3. CASE EndRoot
  BY <1>3 DEF EndRoot, LeaseInv, TypeOK
<1>4. ASSUME NEW s \in Runtimes, Retain(s)
      PROVE  root'.owner.rt = r /\ root'.owner.state = "blocked"
  BY <1>4 DEF Retain, Verified, Held, LeaseInv, TypeOK
<1>5. ASSUME NEW s \in Runtimes, AcquireRoot(s) PROVE FALSE
  BY <1>5 DEF AcquireRoot, LeaseInv, TypeOK
<1>6. ASSUME NEW s \in Runtimes, MarkResumePending(s) \/ Continue(s) \/ Activate(s)
      PROVE  FALSE
  BY <1>6 DEF MarkResumePending, Continue, Activate, MayContinue, MayActivate, Authorised
<1>7. CASE UNCHANGED root
  BY <1>7
<1>8. ASSUME NEW s \in Runtimes,
             \/ StartSupervisor(s) \/ SupervisorDies(s) \/ AcquireDir(s) \/ AcquireSnapshot(s)
             \/ AcquireToken(s) \/ StartServices(s) \/ StartRunner(s) \/ Heartbeat(s)
             \/ Batch(s) \/ BatchEnds(s) \/ Cleanup(s) \/ StopProcesses(s)
             \/ RemoveVolumes(s) \/ Release(s) \/ Resume(s) \/ ResumeRefused(s)
             \/ RecoverStale(s) \/ RestoreLocator(s) \/ Resolve(s) \/ CampaignDies(s) \/ ProcessesDie(s)
      PROVE  UNCHANGED root
  BY <1>8
     DEF StartSupervisor, SupervisorDies, AcquireDir, AcquireSnapshot, AcquireToken,
         StartServices, StartRunner, Heartbeat, Batch, BatchEnds, Cleanup, StopProcesses,
         RemoveVolumes, Release, Resume, ResumeRefused, RecoverStale, RestoreLocator, Resolve,
         CampaignDies, ProcessesDie
<1>9. CASE AcquireLink \/ EndUnlink \/ EndRmdir \/ Stale \/ MethodDies \/ Reboot \/ UNCHANGED vars
  BY <1>9, <1>7 DEF AcquireLink, EndUnlink, EndRmdir, Stale, MethodDies, Reboot, vars
<1> QED
  BY <1>1, <1>2, <1>3, <1>4, <1>5, <1>6, <1>7, <1>8, <1>9 DEF Next, Acquire, End

(* A runner that sees no stop file has an active lease.                    *)
LEMMA NoBatchAfterClose == LeaseInv /\ [Next]_vars => ClosedToWrites
<1> SUFFICES ASSUME LeaseInv, [Next]_vars, NEW r \in Runtimes,
                    root.owner.rt = r, root.owner.state # "active",
                    writer[r] = "idle", writer'[r] = "batch"
             PROVE  FALSE
  BY DEF ClosedToWrites
<1>1. stop[r]
  BY DEF LeaseInv, RuntimeHolds, WriterHolds
<1>2. ASSUME NEW s \in Runtimes, Batch(s) PROVE FALSE
  BY <1>1, <1>2 DEF Batch, LeaseInv, TypeOK
<1>3. ASSUME NEW s \in Runtimes,
             \/ StartRunner(s) \/ BatchEnds(s) \/ StopProcesses(s) \/ ProcessesDie(s)
      PROVE  FALSE
  BY <1>3 DEF StartRunner, BatchEnds, StopProcesses, ProcessesDie, LeaseInv, TypeOK
<1>4. CASE UNCHANGED writer
  BY <1>4
<1>5. ASSUME NEW s \in Runtimes,
             \/ StartSupervisor(s) \/ SupervisorDies(s) \/ Acquire(s) \/ StartServices(s)
             \/ Heartbeat(s) \/ Cleanup(s) \/ MarkResumePending(s) \/ RemoveVolumes(s)
             \/ Release(s) \/ Retain(s) \/ Resume(s) \/ Continue(s) \/ Activate(s)
             \/ ResumeRefused(s) \/ RecoverStale(s) \/ RestoreLocator(s) \/ Resolve(s) \/ CampaignDies(s)
      PROVE  UNCHANGED writer
  BY <1>5
     DEF StartSupervisor, SupervisorDies, Acquire, AcquireDir, AcquireSnapshot,
         AcquireToken, AcquireRoot, StartServices, Heartbeat, Cleanup,
         MarkResumePending, RemoveVolumes, Release, Retain, Resume, Continue, Activate,
         ResumeRefused, RecoverStale, RestoreLocator, Resolve, CampaignDies, host
<1>6. CASE Reboot
  BY <1>6 DEF Reboot
<1>7. CASE AcquireOwner \/ AcquireLink \/ End \/ Stale \/ MethodDies \/ UNCHANGED vars
  BY <1>7, <1>4
     DEF AcquireOwner, AcquireLink, End, EndUnlink, EndRmdir, EndOwner, EndRoot, Stale,
         MethodDies, host, vars
<1> QED
  BY <1>2, <1>3, <1>4, <1>5, <1>6, <1>7 DEF Next

(* A blocked lease stays blocked until the audited cleanup ends it, and a  *)
(* runner whose lease was closed begins no batch, whoever dies in between. *)
THEOREM ClosedLeaseStays == Spec => ClosedLeaseHolds
<1>1. LeaseInv /\ [Next]_vars => [BlockedUntilAudited /\ ClosedToWrites]_vars
  BY BlockedStays, NoBatchAfterClose
<1> QED BY LeaseInvariant, <1>1, PTL DEF Spec, ClosedLeaseHolds
-----------------------------------------------------------------------------
(* The volumes of the validators (XIRVolumes, as MC_XIRWriterLease has     *)
(* it).  The argument: while the transaction is staged, the journal's      *)
(* flags are exactly those of the resources before the current one, all    *)
(* done, of the current one, by its step, and none after it (StagedUpTo);  *)
(* committing therefore proves what is verified later.  The process's own  *)
(* memory is never needed for what is left behind: an intent precedes      *)
(* every creation and only a removal that took place is flagged            *)
(* (OwnedIsJournaled), so that deaths and failures keep the invariant.     *)

(* The four resources of volume i follow one another from place 4i - 2 on, *)
(* after the probe of the image's user.                                    *)
LEMMA Places ==
  ASSUME NEW i \in 1..N
  PROVE  /\ Vol!Staging(4 * i - 2) = Vol!Volume(i) /\ 4 * i - 2 \in 2..Vol!Last
         /\ Vol!Staging(4 * i - 1) = Vol!Stager(i) /\ 4 * i - 1 \in 2..Vol!Last
         /\ Vol!Staging(4 * i) = [kind |-> "observe", i |-> i] /\ 4 * i \in 2..Vol!Last
         /\ Vol!Staging(4 * i + 1) = [kind |-> "write", i |-> i] /\ 4 * i + 1 \in 2..Vol!Last
<1> N \in Nat /\ i \in Nat
  BY VolumesAssumption
<1>1. (4 * i - 4) % 4 = 0 /\ (4 * i - 4) \div 4 = i - 1
  OBVIOUS
<1>2. (4 * i - 3) % 4 = 1 /\ (4 * i - 3) \div 4 = i - 1
  OBVIOUS
<1>3. (4 * i - 2) % 4 = 2 /\ (4 * i - 2) \div 4 = i - 1
  OBVIOUS
<1>4. (4 * i - 1) % 4 = 3 /\ (4 * i - 1) \div 4 = i - 1
  OBVIOUS
<1>5. Vol!Staging(4 * i - 2) = Vol!Volume(i) /\ 4 * i - 2 \in 2..Vol!Last
  BY <1>1 DEF Vol!Staging, Vol!Volume, Vol!Last
<1>6. Vol!Staging(4 * i - 1) = Vol!Stager(i) /\ 4 * i - 1 \in 2..Vol!Last
  BY <1>2 DEF Vol!Staging, Vol!Stager, Vol!Last
<1>7. Vol!Staging(4 * i) = [kind |-> "observe", i |-> i] /\ 4 * i \in 2..Vol!Last
  BY <1>3 DEF Vol!Staging, Vol!Last
<1>8. Vol!Staging(4 * i + 1) = [kind |-> "write", i |-> i] /\ 4 * i + 1 \in 2..Vol!Last
  BY <1>4 DEF Vol!Staging, Vol!Last
<1> QED
  BY <1>5, <1>6, <1>7, <1>8

(* Every place after the first is one of the four of some volume.          *)
LEMMA PlacesAll ==
  ASSUME NEW j \in 2..Vol!Last
  PROVE  \E i \in 1..N : j \in {4 * i - 2, 4 * i - 1, 4 * i, 4 * i + 1}
<1>1. N \in Nat /\ j \in Nat
  BY VolumesAssumption
<1>2. (j - 2) \div 4 + 1 \in 1..N
  BY <1>1 DEF Vol!Last
<1>3. j \in {4 * ((j - 2) \div 4 + 1) - 2, 4 * ((j - 2) \div 4 + 1) - 1, 4 * ((j - 2) \div 4 + 1), 4 * ((j - 2) \div 4 + 1) + 1}
  BY <1>1
<1> QED
  BY <1>2, <1>3

(* The flags of a resource that is done.                                   *)
Complete(r) == IF r \in Vol!Volumes THEN {"create_intent", "created"} ELSE Vol!Flags
(* The flags of the resource that is being staged, by the step of it.      *)
Doing(step) ==
    CASE step = "intend" -> {}
      [] step \in {"create", "confirm"} -> {"create_intent"}
      [] step = "start" -> {"create_intent", "created", "start_intent"}
      [] OTHER -> Vol!Flags \ {"removed"}

(* The record of the staging: resources before the current one are done,   *)
(* confirmed and filled; those after it are untouched.                     *)
StagedUpTo ==
    \A j \in 1..Vol!Last :
        /\ j < tool.k =>
              /\ journal.flags[Vol!Staging(j)] = Complete(Vol!Staging(j))
              /\ Vol!Staging(j) \in Vol!Volumes => docker[Vol!Staging(j)] = "ours"
              /\ Vol!Staging(j).kind = "stager" => content[Vol!Staging(j).i] = "staged"
        /\ j = tool.k => journal.flags[Vol!Staging(j)] = Doing(tool.step)
        /\ j > tool.k => journal.flags[Vol!Staging(j)] = {}

(* Where the staging is.                                                   *)
StageAt ==
    /\ journal.state = "prepared"
    /\ tool.k <= Vol!Last => tool.step \in {"intend", "create", "confirm", "start", "remove"}
    /\ tool.k > Vol!Last => tool.step \in {"intend", "commit"}
    /\ tool.step \in {"start", "remove"} => Vol!Staging(tool.k) \notin Vol!Volumes
    /\ (tool.step = "remove" /\ tool.exit /\ Vol!Staging(tool.k).kind = "stager") =>
          content[Vol!Staging(tool.k).i] = "staged"
    /\ tool.step = "commit" => attested

StagingInv == tool.op = "stage" => StageAt /\ StagedUpTo

NoneOurs == \A r \in Vol!Resources : docker[r] # "ours"

(* The phase of the journal: nothing exists before it begins or after it is *)
(* recovered, and a running method has it open.                            *)
PhaseInv ==
    /\ tool.op # "idle" => journal.state \notin {Vol!None, "committed"}
    /\ journal.state = Vol!None => NoneOurs /\ \A r \in Vol!Resources : journal.flags[r] = {}
    /\ (recovery = "valid" \/ journal.state = "recovered") =>
          journal.state # Vol!None /\ tool.op # "stage" /\ NoneOurs

VolumesInv ==
    Vol!TypeOK /\ StagingInv /\ PhaseInv /\ Vol!OwnedIsJournaled /\ Vol!CommittedIsWhole

(* There is at least one volume, and hence at least five resources.        *)
LEMMA SizeFacts == N \in Nat /\ N # 0 /\ Vol!Last \in Nat /\ Vol!Last >= 5
BY VolumesAssumption DEF Vol!Last

(* A resource is the probe of the image's user, or of one of the four kinds *)
(* and of one of the volumes.                                              *)
LEMMA ResourceFacts ==
  /\ \A r \in Vol!Volumes : r \in Vol!Resources /\ r.kind = "volume" /\ r.i \in 1..N
                            /\ r = Vol!Volume(r.i)
  /\ \A r \in Vol!Resources : /\ r.kind \in Vol!Kinds \cup {"image-user"}
                              /\ r.kind # "image-user" => r.i \in 1..N
                              /\ (r.kind = "volume" <=> r \in Vol!Volumes)
                              /\ r.kind = "image-user" => r = Vol!ImageUser
                              /\ r = [kind |-> r.kind, i |-> r.i]
  /\ Vol!ImageUser \in Vol!Resources
  /\ \A i \in 1..N : Vol!Volume(i) \in Vol!Volumes
BY SizeFacts DEF Vol!Resources, Vol!Volumes, Vol!Volume, Vol!ImageUser, Vol!Kinds

(* The places of the staging order are those of the resources, one each. *)
LEMMA StagingFacts ==
  /\ \A j \in 1..Vol!Last : Vol!Staging(j) \in Vol!Resources
  /\ \A j, k \in 1..Vol!Last : Vol!Staging(j) = Vol!Staging(k) => j = k
  /\ \A r \in Vol!Resources : \E j \in 1..Vol!Last : Vol!Staging(j) = r
<1>0. Vol!Staging(1) = Vol!ImageUser
  BY DEF Vol!Staging
<1> DEFINE Is(j, i) == \/ j = 4 * i - 2 /\ Vol!Staging(j) = [kind |-> "volume", i |-> i]
                       \/ j = 4 * i - 1 /\ Vol!Staging(j) = [kind |-> "stager", i |-> i]
                       \/ j = 4 * i /\ Vol!Staging(j) = [kind |-> "observe", i |-> i]
                       \/ j = 4 * i + 1 /\ Vol!Staging(j) = [kind |-> "write", i |-> i]
<1>1. ASSUME NEW j \in 2..Vol!Last PROVE \E i \in 1..N : Is(j, i)
  <2>1. PICK i \in 1..N : j \in {4 * i - 2, 4 * i - 1, 4 * i, 4 * i + 1}
    BY PlacesAll
  <2> QED
    BY <2>1, Places DEF Vol!Volume, Vol!Stager
<1>2. ASSUME NEW j \in 1..Vol!Last PROVE Vol!Staging(j) \in Vol!Resources
  <2>1. CASE j = 1
    BY <1>0, <2>1, ResourceFacts
  <2>2. CASE j # 1
    <3>1. j \in 2..Vol!Last
      BY <2>2, SizeFacts
    <3>2. PICK i \in 1..N : Is(j, i)
      <4> HIDE DEF Is
      <4> QED
        BY <1>1, <3>1
    <3> QED
      BY <3>2 DEF Vol!Resources, Vol!Kinds
  <2> QED
    BY <2>1, <2>2
<1>3. ASSUME NEW j \in 1..Vol!Last, NEW k \in 1..Vol!Last, Vol!Staging(j) = Vol!Staging(k)
      PROVE  j = k
  <2>1. CASE j # 1 /\ k # 1
    <3>1. j \in 2..Vol!Last /\ k \in 2..Vol!Last
      BY <2>1, SizeFacts
    <3>2. PICK a \in 1..N : Is(j, a)
      <4> HIDE DEF Is
      <4> QED
        BY <1>1, <3>1
    <3>3. PICK b \in 1..N : Is(k, b)
      <4> HIDE DEF Is
      <4> QED
        BY <1>1, <3>1
    <3>4. a = b /\ Vol!Staging(j).kind = Vol!Staging(k).kind
      BY <1>3, <3>2, <3>3
    <3> QED
      BY <3>2, <3>3, <3>4
  <2>2. ASSUME NEW m \in 2..Vol!Last PROVE Vol!Staging(m) # Vol!Staging(1)
    <3>1. PICK a \in 1..N : Is(m, a)
      <4> HIDE DEF Is
      <4> QED
        BY <1>1
    <3> QED
      BY <1>0, <3>1 DEF Vol!ImageUser
  <2>3. \A m \in 1..Vol!Last : m = 1 \/ m \in 2..Vol!Last
    BY SizeFacts
  <2> QED
    BY <1>3, <2>1, <2>2, <2>3
<1>4. ASSUME NEW r \in Vol!Resources PROVE \E j \in 1..Vol!Last : Vol!Staging(j) = r
  <2>1. CASE r = Vol!ImageUser
    BY <1>0, <2>1, SizeFacts
  <2>2. CASE r # Vol!ImageUser
    <3>1. r.i \in 1..N /\ r.kind \in Vol!Kinds /\ r = [kind |-> r.kind, i |-> r.i]
      BY <2>2, ResourceFacts DEF Vol!Kinds
    <3>2. PICK i \in 1..N : i = r.i
      BY <3>1
    <3>3. \E j \in 2..Vol!Last : Vol!Staging(j) = [kind |-> r.kind, i |-> i]
      <4>1. CASE r.kind = "volume"
        BY <4>1, Places DEF Vol!Volume
      <4>2. CASE r.kind = "stager"
        BY <4>2, Places DEF Vol!Stager
      <4>3. CASE r.kind = "observe"
        BY <4>3, Places
      <4>4. CASE r.kind = "write"
        BY <4>4, Places
      <4> QED
        BY <3>1, <4>1, <4>2, <4>3, <4>4 DEF Vol!Kinds
    <3> QED
      BY <3>1, <3>2, <3>3, SizeFacts
  <2> QED
    BY <2>1, <2>2
<1> QED
  BY <1>2, <1>3, <1>4

(* Every place of the cleanup order is a resource.                         *)
LEMMA CleanupFacts == \A k \in 1..Vol!Last : Vol!Cleanup(k) \in Vol!Resources
<1> SUFFICES ASSUME NEW k \in 1..Vol!Last PROVE Vol!Cleanup(k) \in Vol!Resources
  OBVIOUS
<1>1. N \in Nat /\ k \in Nat /\ k >= 1 /\ k <= 4 * N + 1
  BY SizeFacts DEF Vol!Last
<1>2. k <= 2 * N => N - (k - 1) \div 2 \in 1..N
  BY <1>1
<1>3. k % 2 = 1 \/ k % 2 = 0
  BY <1>1
<1>4. CASE k <= 2 * N
  BY <1>1, <1>2, <1>3, <1>4 DEF Vol!Cleanup, Vol!Resources, Vol!Kinds
<1>5. CASE k = 2 * N + 1
  BY <1>1, <1>5 DEF Vol!Cleanup, Vol!Resources
<1>6. CASE k \in (2 * N + 2)..(3 * N + 1)
  <2>1. 3 * N + 2 - k \in 1..N
    BY <1>1, <1>6
  <2>2. ~(k <= 2 * N) /\ k # 2 * N + 1
    BY <1>1, <1>6
  <2> QED
    BY <1>6, <2>1, <2>2 DEF Vol!Cleanup, Vol!Stager, Vol!Resources, Vol!Kinds
<1>7. CASE k > 3 * N + 1
  <2>1. 4 * N + 2 - k \in 1..N
    BY <1>1, <1>7
  <2>2. ~(k <= 2 * N) /\ k # 2 * N + 1 /\ k \notin (2 * N + 2)..(3 * N + 1)
    BY <1>1, <1>7
  <2> QED
    BY <2>1, <2>2 DEF Vol!Cleanup, Vol!Volume, Vol!Resources, Vol!Kinds
<1> QED
  BY <1>1, <1>4, <1>5, <1>6, <1>7

Tool == [op : {"idle", "stage", "rollback", "recover"}, k : 1..(Vol!Last + 1), step : Vol!Steps,
         owned : SUBSET (1..N), stager : 0..N, exit : BOOLEAN, err : BOOLEAN]
JournalFile == [state : Vol!JournalStates, flags : [Vol!Resources -> SUBSET Vol!Flags]]

(* A write of the journal adds flags to one resource.                      *)
LEMMA WriteFacts ==
  ASSUME journal \in JournalFile, NEW r \in Vol!Resources, NEW fs \in SUBSET Vol!Flags,
         Vol!Write(r, fs)
  PROVE  /\ journal' \in JournalFile /\ journal'.state = journal.state
         /\ journal'.flags[r] = journal.flags[r] \cup fs
         /\ \A q \in Vol!Resources : q # r => journal'.flags[q] = journal.flags[q]
BY DEF Vol!Write, JournalFile

(* An exception ends the staging: the process is idle, or rolls back.      *)
LEMMA RaiseFacts ==
  ASSUME tool \in Tool, Vol!Raise
  PROVE  tool' \in Tool /\ tool'.op # "stage"
<1>1. CASE tool.k = 1
  BY <1>1, SizeFacts DEF Vol!Raise, Vol!Idle, Tool, Vol!Steps
<1>2. CASE tool.k # 1
  <2>1. tool' = [tool EXCEPT !.op = "rollback", !.k = 1, !.step = "intend"]
    BY <1>2 DEF Vol!Raise
  <2>2. 1 \in 1..(Vol!Last + 1) /\ "intend" \in Vol!Steps
    BY SizeFacts DEF Vol!Steps
  <2>3. tool' \in Tool
    BY <2>1, <2>2 DEF Tool
  <2> QED
    BY <2>1, <2>3 DEF Tool
<1> QED
  BY <1>1, <1>2

(* A step of the staging keeps the state of the journal and the recovery.  *)
LEMMA StagePreserves ==
  ASSUME VolumesInv, tool.op = "stage", Vol!TypeOK', StagingInv', Vol!OwnedIsJournaled',
         journal'.state = journal.state, recovery' = recovery
  PROVE  VolumesInv'
<1>1. journal.state = "prepared" /\ recovery # "valid"
  BY DEF VolumesInv, StagingInv, StageAt, PhaseInv
<1>2. PhaseInv'
  BY <1>1 DEF PhaseInv, Vol!None
<1>3. Vol!CommittedIsWhole'
  BY <1>1 DEF Vol!CommittedIsWhole
<1> QED
  BY <1>2, <1>3 DEF VolumesInv

(* A step that stays at the same resource and writes what that step of it  *)
(* has done keeps the record of the whole staging.                         *)
LEMMA StagedStay ==
  ASSUME VolumesInv, tool.op = "stage", tool.k \in 1..Vol!Last, tool'.k = tool.k,
         \A q \in Vol!Resources : q # Vol!Staging(tool.k) => journal'.flags[q] = journal.flags[q],
         journal'.flags[Vol!Staging(tool.k)] = Doing(tool'.step),
         \A q \in Vol!Volumes : docker[q] = "ours" => docker'[q] = "ours",
         \A i \in 1..N : content[i] = "staged" => content'[i] = "staged"
  PROVE  StagedUpTo'
<1>1. StagedUpTo
  BY DEF VolumesInv, StagingInv
<1> SUFFICES ASSUME NEW j \in 1..Vol!Last
             PROVE  /\ j < tool'.k =>
                        /\ journal'.flags[Vol!Staging(j)] = Complete(Vol!Staging(j))
                        /\ Vol!Staging(j) \in Vol!Volumes => docker'[Vol!Staging(j)] = "ours"
                        /\ Vol!Staging(j).kind = "stager" => content'[Vol!Staging(j).i] = "staged"
                    /\ j = tool'.k => journal'.flags[Vol!Staging(j)] = Doing(tool'.step)
                    /\ j > tool'.k => journal'.flags[Vol!Staging(j)] = {}
  BY DEF StagedUpTo
<1>2. Vol!Staging(j) \in Vol!Resources /\ (j # tool.k => Vol!Staging(j) # Vol!Staging(tool.k))
  BY StagingFacts
<1>3. Vol!Staging(j).kind = "stager" => Vol!Staging(j).i \in 1..N
  BY <1>2, ResourceFacts
<1>4. /\ j < tool.k =>
              /\ journal.flags[Vol!Staging(j)] = Complete(Vol!Staging(j))
              /\ Vol!Staging(j) \in Vol!Volumes => docker[Vol!Staging(j)] = "ours"
              /\ Vol!Staging(j).kind = "stager" => content[Vol!Staging(j).i] = "staged"
      /\ j > tool.k => journal.flags[Vol!Staging(j)] = {}
  BY <1>1 DEF StagedUpTo
<1>5. j # tool.k => journal'.flags[Vol!Staging(j)] = journal.flags[Vol!Staging(j)]
  BY <1>2
<1>6. j < tool.k => j # tool.k
  BY SizeFacts
<1>7. j > tool.k => j # tool.k
  BY SizeFacts
<1> QED
  BY <1>3, <1>4, <1>5, <1>6, <1>7

(* A step that completes a resource moves the record on to the next one.   *)
LEMMA StagedNext ==
  ASSUME VolumesInv, tool.op = "stage", tool.k \in 1..Vol!Last, tool'.k = tool.k + 1,
         tool'.step = "intend",
         \A q \in Vol!Resources : q # Vol!Staging(tool.k) => journal'.flags[q] = journal.flags[q],
         journal'.flags[Vol!Staging(tool.k)] = Complete(Vol!Staging(tool.k)),
         Vol!Staging(tool.k) \in Vol!Volumes => docker'[Vol!Staging(tool.k)] = "ours",
         Vol!Staging(tool.k).kind = "stager" => content'[Vol!Staging(tool.k).i] = "staged",
         \A q \in Vol!Volumes : docker[q] = "ours" => docker'[q] = "ours",
         \A i \in 1..N : content[i] = "staged" => content'[i] = "staged"
  PROVE  StagedUpTo'
<1>1. StagedUpTo
  BY DEF VolumesInv, StagingInv
<1> SUFFICES ASSUME NEW j \in 1..Vol!Last
             PROVE  /\ j < tool'.k =>
                        /\ journal'.flags[Vol!Staging(j)] = Complete(Vol!Staging(j))
                        /\ Vol!Staging(j) \in Vol!Volumes => docker'[Vol!Staging(j)] = "ours"
                        /\ Vol!Staging(j).kind = "stager" => content'[Vol!Staging(j).i] = "staged"
                    /\ j = tool'.k => journal'.flags[Vol!Staging(j)] = Doing(tool'.step)
                    /\ j > tool'.k => journal'.flags[Vol!Staging(j)] = {}
  BY DEF StagedUpTo
<1>2. Vol!Staging(j) \in Vol!Resources /\ (j # tool.k => Vol!Staging(j) # Vol!Staging(tool.k))
  BY StagingFacts
<1>3. Vol!Staging(j).kind = "stager" => Vol!Staging(j).i \in 1..N
  BY <1>2, ResourceFacts
<1>4. /\ j < tool.k =>
              /\ journal.flags[Vol!Staging(j)] = Complete(Vol!Staging(j))
              /\ Vol!Staging(j) \in Vol!Volumes => docker[Vol!Staging(j)] = "ours"
              /\ Vol!Staging(j).kind = "stager" => content[Vol!Staging(j).i] = "staged"
      /\ j > tool.k => journal.flags[Vol!Staging(j)] = {}
  BY <1>1 DEF StagedUpTo
<1>5. j # tool.k => journal'.flags[Vol!Staging(j)] = journal.flags[Vol!Staging(j)]
  BY <1>2
<1>6. CASE j = tool.k
  BY <1>6, SizeFacts
<1>7. CASE j < tool.k
  <2>1. ~(j = tool'.k) /\ ~(j > tool'.k) /\ j # tool.k
    BY <1>7, SizeFacts
  <2> QED
    BY <1>3, <1>4, <1>5, <1>7, <2>1
<1>8. CASE j > tool.k
  <2>1. ~(j < tool'.k) /\ j # tool.k
    BY <1>8, SizeFacts
  <2>2. Doing(tool'.step) = {}
    BY DEF Doing
  <2> QED
    BY <1>4, <1>5, <1>8, <2>1, <2>2
<1> QED
  BY <1>6, <1>7, <1>8, SizeFacts

Labels == {"none", "ours", "sibling", "stranger"}

(* The type invariant, field by field.                                     *)
LEMMA Typed ==
  Vol!TypeOK <=>
    /\ journal \in JournalFile /\ tool \in Tool
    /\ attested \in BOOLEAN
    /\ failure \in {"none", "complete", "incomplete"} /\ recovery \in {"none", "valid", "invalid"}
    /\ docker \in [Vol!Resources -> Labels]
    /\ content \in [1..N -> {"empty", "staged"}] /\ up \subseteq 1..N
    /\ faults \in 0..MaxFaults /\ deaths \in 0..MaxCrashes /\ others \in 0..MaxOthers
<1>1. {Vol!None, "ours"} \cup Vol!Foreign = Labels
  BY DEF Vol!None, Vol!Foreign, Labels
<1> QED
  BY <1>1 DEF Vol!TypeOK, JournalFile, Tool, Vol!None

(* The same in the next state.                                             *)
LEMMA TypedNext ==
  Vol!TypeOK' <=>
    /\ journal' \in JournalFile /\ tool' \in Tool
    /\ attested' \in BOOLEAN
    /\ failure' \in {"none", "complete", "incomplete"} /\ recovery' \in {"none", "valid", "invalid"}
    /\ docker' \in [Vol!Resources -> Labels]
    /\ content' \in [1..N -> {"empty", "staged"}] /\ up' \subseteq 1..N
    /\ faults' \in 0..MaxFaults /\ deaths' \in 0..MaxCrashes /\ others' \in 0..MaxOthers
<1>1. {Vol!None, "ours"} \cup Vol!Foreign = Labels
  BY DEF Vol!None, Vol!Foreign, Labels
<1> QED
  BY <1>1 DEF Vol!TypeOK, JournalFile, Tool, Vol!None

(* A failing Docker call is within its bound.                              *)
LEMMA FaultFacts ==
  ASSUME faults \in 0..MaxFaults, Vol!Fault
  PROVE  faults' \in 0..MaxFaults
BY VolumesAssumption DEF Vol!Fault

(* What holds of the resource that is being staged.                        *)
LEMMA StageNow ==
  ASSUME VolumesInv, tool.op = "stage", tool.step \notin {"intend", "commit"} \/ tool.k <= Vol!Last
  PROVE  /\ tool.k \in 1..Vol!Last /\ Vol!Staging(tool.k) \in Vol!Resources
         /\ journal.flags[Vol!Staging(tool.k)] = Doing(tool.step)
         /\ StageAt
<1>1. StageAt /\ StagedUpTo
  BY DEF VolumesInv, StagingInv
<1>2. tool \in Tool
  BY Typed DEF VolumesInv
<1>3. tool.k \in 1..Vol!Last
  BY <1>1, <1>2, SizeFacts DEF Tool, StageAt
<1> QED
  BY <1>1, <1>3, StagingFacts DEF StagedUpTo

(* The steps of stage_validator_volumes.  The intent to create is written  *)
(* for an absent resource only; _stage_one_volume.                         *)
LEMMA StageIntendKeeps ==
  ASSUME VolumesInv, Vol!StageIntend
  PROVE  VolumesInv'
<1> DEFINE r == Vol!Staging(tool.k)
<1>1. tool.op = "stage" /\ tool.step = "intend" /\ tool.k <= Vol!Last
  BY DEF Vol!StageIntend, Vol!At
<1>2. /\ tool.k \in 1..Vol!Last /\ r \in Vol!Resources /\ journal.flags[r] = {} /\ StageAt
  BY <1>1, StageNow DEF Doing
<1>3. /\ journal \in JournalFile /\ tool \in Tool /\ faults \in 0..MaxFaults
      /\ docker \in [Vol!Resources -> Labels] /\ Vol!TypeOK
  BY Typed DEF VolumesInv
<1>4. UNCHANGED <<attested, failure, recovery, docker, content, up, deaths, others>>
  BY DEF Vol!StageIntend, Vol!files
<1>5. CASE docker[r] = Vol!None /\ Vol!Write(r, {"create_intent"})
           /\ tool' = [tool EXCEPT !.step = "create"] /\ UNCHANGED faults
  <2>1. /\ journal' \in JournalFile /\ journal'.state = journal.state
        /\ journal'.flags[r] = {"create_intent"}
        /\ \A q \in Vol!Resources : q # r => journal'.flags[q] = journal.flags[q]
    BY <1>2, <1>3, <1>5, WriteFacts DEF Vol!Flags
  <2>2. tool' \in Tool /\ tool'.op = "stage" /\ tool'.k = tool.k /\ tool'.step = "create"
    BY <1>1, <1>3, <1>5 DEF Tool, Vol!Steps
  <2>3. Vol!TypeOK'
    BY <1>3, <1>4, <1>5, <2>1, <2>2, Typed, TypedNext
  <2>4. StagedUpTo'
    BY <1>1, <1>2, <1>4, <2>1, <2>2, StagedStay DEF Doing
  <2>5. StageAt'
    BY <1>2, <2>1, <2>2, SizeFacts DEF StageAt
  <2>6. Vol!OwnedIsJournaled'
    BY <1>4, <1>5, <2>1 DEF Vol!OwnedIsJournaled, VolumesInv, Vol!None
  <2> QED
    BY <1>1, <1>4, <2>1, <2>3, <2>4, <2>5, <2>6, StagePreserves DEF StagingInv
<1>6. CASE Vol!Raise /\ UNCHANGED journal /\ (UNCHANGED faults \/ Vol!Fault)
  <2>1. tool' \in Tool /\ tool'.op # "stage"
    BY <1>3, <1>6, RaiseFacts
  <2>2. faults' \in 0..MaxFaults
    BY <1>3, <1>6, FaultFacts
  <2>3. Vol!TypeOK'
    BY <1>3, <1>4, <1>6, <2>1, <2>2, Typed, TypedNext
  <2>4. Vol!OwnedIsJournaled'
    BY <1>4, <1>6 DEF Vol!OwnedIsJournaled, VolumesInv
  <2> QED
    BY <1>1, <1>4, <1>6, <2>1, <2>3, <2>4, StagePreserves DEF StagingInv
<1> QED
  BY <1>5, <1>6 DEF Vol!StageIntend

(* docker create makes the resource the transaction's only after the intent *)
(* is in the journal, even when the call fails after its effect.           *)
LEMMA StageCreateKeeps ==
  ASSUME VolumesInv, Vol!StageCreate
  PROVE  VolumesInv'
<1> DEFINE r == Vol!Staging(tool.k)
<1>1. tool.op = "stage" /\ tool.step = "create"
  BY DEF Vol!StageCreate, Vol!At
<1>2. /\ tool.k \in 1..Vol!Last /\ r \in Vol!Resources /\ journal.flags[r] = {"create_intent"}
      /\ StageAt
  BY <1>1, StageNow DEF Doing
<1>3. /\ journal \in JournalFile /\ tool \in Tool /\ faults \in 0..MaxFaults
      /\ docker \in [Vol!Resources -> Labels] /\ Vol!TypeOK
  BY Typed DEF VolumesInv
<1>4. UNCHANGED <<journal, attested, failure, recovery, content, up, deaths, others>>
  BY DEF Vol!StageCreate, Vol!files
<1>5. docker' \in {docker, Vol!Created(r)}
  BY DEF Vol!StageCreate
<1>6. /\ docker' \in [Vol!Resources -> Labels]
      /\ \A q \in Vol!Resources : docker'[q] = "ours" => docker[q] = "ours" \/ q = r
      /\ \A q \in Vol!Resources : docker[q] = "ours" => docker'[q] = "ours"
  BY <1>2, <1>3, <1>5 DEF Vol!Created, Labels, Vol!None
<1>7. Vol!OwnedIsJournaled'
  BY <1>2, <1>4, <1>6 DEF Vol!OwnedIsJournaled, VolumesInv
<1>8. CASE tool' = [tool EXCEPT !.step = "confirm"] /\ UNCHANGED faults
  <2>1. tool' \in Tool /\ tool'.op = "stage" /\ tool'.k = tool.k /\ tool'.step = "confirm"
    BY <1>1, <1>3, <1>8 DEF Tool, Vol!Steps
  <2>2. Vol!TypeOK'
    BY <1>3, <1>4, <1>6, <1>8, <2>1, Typed, TypedNext
  <2>3. StagedUpTo'
    BY <1>1, <1>2, <1>4, <1>6, <2>1, StagedStay, ResourceFacts DEF Doing
  <2>4. StageAt'
    BY <1>2, <1>4, <2>1, SizeFacts DEF StageAt
  <2> QED
    BY <1>1, <1>4, <1>7, <2>2, <2>3, <2>4, StagePreserves DEF StagingInv
<1>9. CASE Vol!Raise /\ Vol!Fault
  <2>1. tool' \in Tool /\ tool'.op # "stage" /\ faults' \in 0..MaxFaults
    BY <1>3, <1>9, RaiseFacts, FaultFacts
  <2>2. Vol!TypeOK'
    BY <1>3, <1>4, <1>6, <2>1, Typed, TypedNext
  <2> QED
    BY <1>1, <1>4, <1>7, <2>1, <2>2, StagePreserves DEF StagingInv
<1> QED
  BY <1>8, <1>9 DEF Vol!StageCreate

(* What was created is confirmed by its labels, and a volume is then done. *)
LEMMA StageConfirmKeeps ==
  ASSUME VolumesInv, Vol!StageConfirm
  PROVE  VolumesInv'
<1> DEFINE r == Vol!Staging(tool.k)
<1>1. tool.op = "stage" /\ tool.step = "confirm"
  BY DEF Vol!StageConfirm, Vol!At
<1>2. /\ tool.k \in 1..Vol!Last /\ r \in Vol!Resources /\ journal.flags[r] = {"create_intent"}
      /\ StageAt
  BY <1>1, StageNow DEF Doing
<1>3. /\ journal \in JournalFile /\ tool \in Tool /\ faults \in 0..MaxFaults
      /\ docker \in [Vol!Resources -> Labels] /\ Vol!TypeOK
  BY Typed DEF VolumesInv
<1>4. UNCHANGED <<attested, failure, recovery, docker, content, up, deaths, others>>
  BY DEF Vol!StageConfirm, Vol!files
<1>5. CASE /\ docker[r] = "ours" /\ UNCHANGED faults /\ r \in Vol!Volumes
           /\ Vol!Write(r, {"created"})
           /\ tool' = [tool EXCEPT !.owned = @ \cup {r.i}, !.k = @ + 1, !.step = "intend"]
  <2>1. /\ journal' \in JournalFile /\ journal'.state = journal.state
        /\ journal'.flags[r] = {"create_intent", "created"}
        /\ \A q \in Vol!Resources : q # r => journal'.flags[q] = journal.flags[q]
    BY <1>2, <1>3, <1>5, WriteFacts DEF Vol!Flags
  <2>2. r.i \in 1..N /\ tool.k + 1 \in 1..(Vol!Last + 1) /\ tool.k \in Nat
    BY <1>2, <1>5, ResourceFacts, SizeFacts
  <2>3. tool' \in Tool /\ tool'.op = "stage" /\ tool'.k = tool.k + 1 /\ tool'.step = "intend"
    BY <1>1, <1>3, <1>5, <2>2 DEF Tool, Vol!Steps
  <2>4. Vol!TypeOK'
    BY <1>3, <1>4, <1>5, <2>1, <2>3, Typed, TypedNext
  <2>5. r.kind # "stager" /\ journal'.flags[r] = Complete(r)
    BY <1>5, <2>1, ResourceFacts DEF Complete
  <2>6. StagedUpTo'
    BY <1>1, <1>2, <1>4, <1>5, <2>1, <2>3, <2>5, StagedNext
  <2>7. StageAt'
    BY <1>2, <1>4, <2>1, <2>3, SizeFacts DEF StageAt
  <2>8. Vol!OwnedIsJournaled'
    BY <1>2, <1>4, <2>1 DEF Vol!OwnedIsJournaled, VolumesInv
  <2> QED
    BY <1>1, <1>4, <2>1, <2>4, <2>6, <2>7, <2>8, StagePreserves DEF StagingInv
<1>6. CASE /\ docker[r] = "ours" /\ UNCHANGED faults /\ r \notin Vol!Volumes
           /\ Vol!Write(r, {"created", "start_intent"})
           /\ tool' = [tool EXCEPT !.stager = IF r.kind = "stager" THEN r.i ELSE @,
                                   !.step = "start"]
  <2>1. /\ journal' \in JournalFile /\ journal'.state = journal.state
        /\ journal'.flags[r] = {"create_intent", "created", "start_intent"}
        /\ \A q \in Vol!Resources : q # r => journal'.flags[q] = journal.flags[q]
    BY <1>2, <1>3, <1>6, WriteFacts DEF Vol!Flags
  <2>2. (IF r.kind = "stager" THEN r.i ELSE tool.stager) \in 0..N
    BY <1>2, <1>3, ResourceFacts, SizeFacts DEF Tool
  <2>3. tool' \in Tool /\ tool'.op = "stage" /\ tool'.k = tool.k /\ tool'.step = "start"
    BY <1>1, <1>3, <1>6, <2>2 DEF Tool, Vol!Steps
  <2>4. Vol!TypeOK'
    BY <1>3, <1>4, <1>6, <2>1, <2>3, Typed, TypedNext
  <2>5. StagedUpTo'
    BY <1>1, <1>2, <1>4, <2>1, <2>3, StagedStay DEF Doing
  <2>6. StageAt'
    BY <1>2, <1>6, <2>1, <2>3, SizeFacts DEF StageAt
  <2>7. Vol!OwnedIsJournaled'
    BY <1>2, <1>4, <2>1 DEF Vol!OwnedIsJournaled, VolumesInv
  <2> QED
    BY <1>1, <1>4, <2>1, <2>4, <2>5, <2>6, <2>7, StagePreserves DEF StagingInv
<1>7. CASE Vol!Raise /\ UNCHANGED journal /\ (UNCHANGED faults \/ Vol!Fault)
  <2>1. tool' \in Tool /\ tool'.op # "stage"
    BY <1>3, <1>7, RaiseFacts
  <2>2. faults' \in 0..MaxFaults
    BY <1>3, <1>7, FaultFacts
  <2>3. Vol!TypeOK'
    BY <1>3, <1>4, <1>7, <2>1, <2>2, Typed, TypedNext
  <2>4. Vol!OwnedIsJournaled'
    BY <1>4, <1>7 DEF Vol!OwnedIsJournaled, VolumesInv
  <2> QED
    BY <1>1, <1>4, <1>7, <2>1, <2>3, <2>4, StagePreserves DEF StagingInv
<1> QED
  BY <1>5, <1>6, <1>7, Zenon DEF Vol!StageConfirm

(* A failed copy into a stager leaves its intent in the journal.           *)
LEMMA StageCopyFailsKeeps ==
  ASSUME VolumesInv, Vol!StageCopyFails
  PROVE  VolumesInv'
<1> DEFINE r == Vol!Staging(tool.k)
<1>1. tool.op = "stage" /\ tool.step = "confirm"
  BY DEF Vol!StageCopyFails, Vol!At
<1>2. /\ tool.k \in 1..Vol!Last /\ r \in Vol!Resources /\ journal.flags[r] = {"create_intent"}
      /\ StageAt
  BY <1>1, StageNow DEF Doing
<1>3. /\ journal \in JournalFile /\ tool \in Tool /\ faults \in 0..MaxFaults
      /\ docker \in [Vol!Resources -> Labels] /\ Vol!TypeOK
  BY Typed DEF VolumesInv
<1>4. UNCHANGED <<attested, failure, recovery, docker, content, up, deaths, others>>
  BY DEF Vol!StageCopyFails, Vol!files
<1>5. /\ journal' \in JournalFile /\ journal'.state = journal.state
      /\ journal'.flags[r] = {"create_intent", "created"}
      /\ \A q \in Vol!Resources : q # r => journal'.flags[q] = journal.flags[q]
  BY <1>2, <1>3, WriteFacts DEF Vol!Flags, Vol!StageCopyFails
<1>6. tool' = [tool EXCEPT !.op = "rollback", !.k = 1, !.step = "intend", !.stager = r.i]
  BY DEF Vol!StageCopyFails
<1>7. r.i \in 0..N /\ 1 \in 1..(Vol!Last + 1)
  BY <1>2, ResourceFacts, SizeFacts DEF Vol!StageCopyFails
<1>8. tool' \in Tool /\ tool'.op # "stage"
  BY <1>3, <1>6, <1>7 DEF Tool, Vol!Steps
<1>9. faults' \in 0..MaxFaults
  BY <1>3, FaultFacts DEF Vol!StageCopyFails
<1>10. Vol!TypeOK'
  BY <1>3, <1>4, <1>5, <1>8, <1>9, Typed, TypedNext
<1>11. Vol!OwnedIsJournaled'
  BY <1>2, <1>4, <1>5 DEF Vol!OwnedIsJournaled, VolumesInv
<1> QED
  BY <1>1, <1>4, <1>5, <1>8, <1>10, <1>11, StagePreserves DEF StagingInv

(* A container runs to its end; a stager that succeeds has filled its volume. *)
LEMMA StageStartKeeps ==
  ASSUME VolumesInv, Vol!StageStart
  PROVE  VolumesInv'
<1> DEFINE r == Vol!Staging(tool.k)
<1> DEFINE ran == IF r.kind = "stager" THEN [content EXCEPT ![r.i] = "staged"] ELSE content
<1>1. tool.op = "stage" /\ tool.step = "start"
  BY DEF Vol!StageStart, Vol!At
<1>2. /\ tool.k \in 1..Vol!Last /\ r \in Vol!Resources
      /\ journal.flags[r] = {"create_intent", "created", "start_intent"}
      /\ StageAt /\ r \notin Vol!Volumes
  BY <1>1, StageNow DEF Doing, StageAt
<1>3. /\ journal \in JournalFile /\ tool \in Tool /\ faults \in 0..MaxFaults
      /\ content \in [1..N -> {"empty", "staged"}] /\ Vol!TypeOK
  BY Typed DEF VolumesInv
<1>4. UNCHANGED <<attested, failure, recovery, docker, up, deaths, others>>
  BY DEF Vol!StageStart, Vol!files
<1>5. /\ ran \in [1..N -> {"empty", "staged"}]
      /\ \A i \in 1..N : content[i] = "staged" => ran[i] = "staged"
      /\ r.kind = "stager" => ran[r.i] = "staged"
  BY <1>2, <1>3, ResourceFacts
<1>6. /\ content' \in [1..N -> {"empty", "staged"}]
      /\ \A i \in 1..N : content[i] = "staged" => content'[i] = "staged"
  <2>1. content' \in {content, ran}
    BY DEF Vol!StageStart
  <2> HIDE DEF ran
  <2> QED
    BY <1>3, <1>5, <2>1
<1>7. ASSUME Vol!Write(r, {"started", "remove_intent"}),
             tool'.step = "remove", tool'.k = tool.k, tool'.op = "stage", tool' \in Tool,
             faults' \in 0..MaxFaults,
             tool'.exit /\ r.kind = "stager" => content'[r.i] = "staged"
      PROVE  VolumesInv'
  <2>1. /\ journal' \in JournalFile /\ journal'.state = journal.state
        /\ journal'.flags[r] = Vol!Flags \ {"removed"}
        /\ \A q \in Vol!Resources : q # r => journal'.flags[q] = journal.flags[q]
    BY <1>2, <1>3, <1>7, WriteFacts DEF Vol!Flags
  <2>2. Vol!TypeOK'
    BY <1>3, <1>4, <1>6, <1>7, <2>1, Typed, TypedNext
  <2>3. StagedUpTo'
    BY <1>1, <1>2, <1>4, <1>6, <1>7, <2>1, StagedStay DEF Doing
  <2>4. StageAt'
    BY <1>2, <1>7, <2>1, SizeFacts DEF StageAt
  <2>5. Vol!OwnedIsJournaled'
    BY <1>2, <1>4, <2>1 DEF Vol!OwnedIsJournaled, VolumesInv, Vol!Flags
  <2> QED
    BY <1>1, <1>4, <1>7, <2>1, <2>2, <2>3, <2>4, <2>5, StagePreserves DEF StagingInv
<1>8. CASE /\ Vol!Write(r, {"started", "remove_intent"})
           /\ tool' = [tool EXCEPT !.step = "remove", !.exit = Vol!Observed(r)]
           /\ content' = ran /\ UNCHANGED faults
  <2>1. Vol!Observed(r) \in BOOLEAN
    BY DEF Vol!Observed
  <2>2. /\ tool'.step = "remove" /\ tool'.k = tool.k /\ tool'.op = "stage" /\ tool' \in Tool
    BY <1>1, <1>3, <1>8, <2>1 DEF Tool, Vol!Steps
  <2>3. r.kind = "stager" => content'[r.i] = "staged"
    BY <1>5, <1>8
  <2> QED
    BY <1>3, <1>7, <1>8, <2>2, <2>3
<1>9. CASE /\ Vol!Fault /\ Vol!Write(r, {"started", "remove_intent"})
           /\ tool' = [tool EXCEPT !.step = "remove", !.exit = FALSE]
  <2>1. /\ tool'.step = "remove" /\ tool'.k = tool.k /\ tool'.op = "stage" /\ tool' \in Tool
        /\ tool'.exit = FALSE
    BY <1>1, <1>3, <1>9 DEF Tool, Vol!Steps
  <2>2. faults' \in 0..MaxFaults
    BY <1>3, <1>9, FaultFacts
  <2> QED
    BY <1>7, <1>9, <2>1, <2>2
<1>10. CASE Vol!Fault /\ Vol!Write(r, {"started"}) /\ Vol!Raise
  <2>1. tool' \in Tool /\ tool'.op # "stage" /\ faults' \in 0..MaxFaults
    BY <1>3, <1>10, RaiseFacts, FaultFacts
  <2>2. /\ journal' \in JournalFile /\ journal'.state = journal.state
        /\ journal'.flags[r] = {"create_intent", "created", "start_intent", "started"}
        /\ \A q \in Vol!Resources : q # r => journal'.flags[q] = journal.flags[q]
    BY <1>2, <1>3, <1>10, WriteFacts DEF Vol!Flags
  <2>3. Vol!TypeOK'
    BY <1>3, <1>4, <1>6, <2>1, <2>2, Typed, TypedNext
  <2>4. Vol!OwnedIsJournaled'
    BY <1>2, <1>4, <2>2 DEF Vol!OwnedIsJournaled, VolumesInv
  <2> QED
    BY <1>1, <1>4, <2>1, <2>2, <2>3, <2>4, StagePreserves DEF StagingInv
<1> QED
  BY <1>8, <1>9, <1>10, Zenon DEF Vol!StageStart

(* A container that succeeded is removed and its resource is done.         *)
LEMMA StageRemoveKeeps ==
  ASSUME VolumesInv, Vol!StageRemove
  PROVE  VolumesInv'
<1> DEFINE r == Vol!Staging(tool.k)
<1> DEFINE mine == [tool EXCEPT !.stager = 0]
<1>1. tool.op = "stage" /\ tool.step = "remove"
  BY DEF Vol!StageRemove, Vol!At
<1>2. /\ tool.k \in 1..Vol!Last /\ r \in Vol!Resources
      /\ journal.flags[r] = Vol!Flags \ {"removed"}
      /\ StageAt /\ r \notin Vol!Volumes
  BY <1>1, StageNow DEF Doing, StageAt
<1>3. /\ journal \in JournalFile /\ tool \in Tool /\ faults \in 0..MaxFaults
      /\ docker \in [Vol!Resources -> Labels] /\ Vol!TypeOK
  BY Typed DEF VolumesInv
<1>4. UNCHANGED <<attested, failure, recovery, content, up, deaths, others>>
  BY DEF Vol!StageRemove, Vol!files
<1>5. docker' \in {docker, Vol!Removed(r)}
  BY DEF Vol!StageRemove
<1>6. /\ docker' \in [Vol!Resources -> Labels]
      /\ \A q \in Vol!Resources : docker'[q] = "ours" => docker[q] = "ours"
      /\ \A q \in Vol!Resources : q # r => docker'[q] = docker[q]
  BY <1>2, <1>3, <1>5 DEF Vol!Removed, Labels, Vol!None
<1>7. \A q \in Vol!Volumes : docker[q] = "ours" => docker'[q] = "ours"
  BY <1>2, <1>6, ResourceFacts
<1>8. mine \in Tool /\ mine.k = tool.k /\ mine.op = "stage"
  BY <1>1, <1>3, SizeFacts DEF Tool
<1>9. CASE /\ docker' = Vol!Removed(r) /\ Vol!Write(r, {"removed"}) /\ UNCHANGED faults
           /\ tool' = IF tool.exit
                      THEN [mine EXCEPT !.k = @ + 1, !.step = "intend"]
                      ELSE IF tool.k = 1 THEN Vol!Idle
                      ELSE [mine EXCEPT !.op = "rollback", !.k = 1, !.step = "intend"]
  <2>1. /\ journal' \in JournalFile /\ journal'.state = journal.state
        /\ journal'.flags[r] = Vol!Flags
        /\ \A q \in Vol!Resources : q # r => journal'.flags[q] = journal.flags[q]
    BY <1>2, <1>3, <1>9, WriteFacts DEF Vol!Flags
  <2>2. docker'[r] # "ours"
    BY <1>2, <1>3, <1>9 DEF Vol!Removed, Vol!None
  <2>3. Vol!OwnedIsJournaled'
    BY <1>6, <2>1, <2>2 DEF Vol!OwnedIsJournaled, VolumesInv
  <2>4. CASE tool.exit
    <3>1. tool' = [mine EXCEPT !.k = @ + 1, !.step = "intend"]
      BY <1>9, <2>4
    <3>2. tool.k + 1 \in 1..(Vol!Last + 1) /\ tool.k \in Nat /\ "intend" \in Vol!Steps
      BY <1>2, SizeFacts DEF Vol!Steps
    <3>3. tool' \in Tool /\ tool'.op = "stage" /\ tool'.k = tool.k + 1 /\ tool'.step = "intend"
      <4> HIDE DEF mine
      <4> QED
        BY <1>8, <3>1, <3>2 DEF Tool
    <3>4. Vol!TypeOK'
      BY <1>3, <1>4, <1>6, <1>9, <2>1, <3>3, Typed, TypedNext
    <3>5. r.kind = "stager" => content'[r.i] = "staged"
      BY <1>1, <1>2, <1>4, <2>4 DEF StageAt
    <3>6. StagedUpTo'
      BY <1>1, <1>2, <1>4, <1>7, <2>1, <3>3, <3>5, StagedNext DEF Complete
    <3>7. StageAt'
      BY <1>2, <1>4, <2>1, <3>3, SizeFacts DEF StageAt
    <3> QED
      BY <1>1, <1>4, <2>1, <2>3, <3>3, <3>4, <3>6, <3>7, StagePreserves DEF StagingInv
  <2>5. CASE ~tool.exit
    <3>1. tool' \in Tool /\ tool'.op # "stage"
      <4>1. CASE tool.k = 1
        BY <1>9, <2>5, <4>1, SizeFacts DEF Vol!Idle, Tool, Vol!Steps
      <4>2. CASE tool.k # 1
        <5>1. tool' = [mine EXCEPT !.op = "rollback", !.k = 1, !.step = "intend"]
          BY <1>9, <2>5, <4>2
        <5>2. 1 \in 1..(Vol!Last + 1) /\ "intend" \in Vol!Steps
          BY SizeFacts DEF Vol!Steps
        <5> HIDE DEF mine
        <5> QED
          BY <1>8, <5>1, <5>2 DEF Tool
      <4> QED
        BY <4>1, <4>2
    <3>2. Vol!TypeOK'
      BY <1>3, <1>4, <1>6, <1>9, <2>1, <3>1, Typed, TypedNext
    <3> QED
      BY <1>1, <1>4, <2>1, <2>3, <3>1, <3>2, StagePreserves DEF StagingInv
  <2> QED
    BY <2>4, <2>5
<1>10. CASE Vol!Fault /\ Vol!Raise /\ UNCHANGED journal
  <2>1. tool' \in Tool /\ tool'.op # "stage" /\ faults' \in 0..MaxFaults
    BY <1>3, <1>10, RaiseFacts, FaultFacts
  <2>2. Vol!TypeOK'
    BY <1>3, <1>4, <1>6, <1>10, <2>1, Typed, TypedNext
  <2>3. Vol!OwnedIsJournaled'
    BY <1>6, <1>10 DEF Vol!OwnedIsJournaled, VolumesInv
  <2> QED
    BY <1>1, <1>4, <1>10, <2>1, <2>2, <2>3, StagePreserves DEF StagingInv
<1> QED
  BY <1>9, <1>10 DEF Vol!StageRemove

(* The attestation is written when every resource is done.                 *)
LEMMA AttestKeeps ==
  ASSUME VolumesInv, Vol!Attest
  PROVE  VolumesInv'
<1>1. tool.op = "stage" /\ tool.step = "intend" /\ tool.k = Vol!Last + 1
  BY DEF Vol!Attest, Vol!At
<1>2. tool \in Tool /\ Vol!TypeOK /\ StageAt /\ StagedUpTo
  BY <1>1, Typed DEF VolumesInv, StagingInv
<1>3. /\ UNCHANGED <<journal, failure, recovery, docker, content, up, faults, deaths, others>>
      /\ attested' = TRUE /\ tool' = [tool EXCEPT !.step = "commit"]
  BY DEF Vol!Attest, Vol!bounds
<1>4. tool' \in Tool /\ tool'.op = "stage" /\ tool'.k = tool.k /\ tool'.step = "commit"
  BY <1>1, <1>2, <1>3 DEF Tool, Vol!Steps
<1>5. Vol!TypeOK'
  BY <1>2, <1>3, <1>4, Typed, TypedNext
<1>6. \A j \in 1..Vol!Last : j < tool.k /\ j # tool.k
  BY <1>1, SizeFacts
<1>7. StagedUpTo'
  BY <1>2, <1>3, <1>4, <1>6 DEF StagedUpTo
<1>8. StageAt'
  BY <1>1, <1>2, <1>3, <1>4, SizeFacts DEF StageAt
<1>9. Vol!OwnedIsJournaled'
  BY <1>3 DEF Vol!OwnedIsJournaled, VolumesInv
<1> QED
  BY <1>1, <1>3, <1>5, <1>7, <1>8, <1>9, StagePreserves DEF StagingInv

(* The idle process, and one that has just begun a method.                 *)
LEMMA IdleFacts ==
  /\ Vol!Idle \in Tool /\ Vol!Idle.op = "idle" /\ Vol!Idle.k = 1 /\ Vol!Idle.step = "intend"
  /\ \A o \in {"stage", "recover"} : /\ [Vol!Idle EXCEPT !.op = o] \in Tool
                                     /\ [Vol!Idle EXCEPT !.op = o].op = o
                                     /\ [Vol!Idle EXCEPT !.op = o].k = 1
                                     /\ [Vol!Idle EXCEPT !.op = o].step = "intend"
<1>1. Vol!Idle \in Tool /\ Vol!Idle.op = "idle" /\ Vol!Idle.k = 1 /\ Vol!Idle.step = "intend"
  BY SizeFacts DEF Vol!Idle, Tool, Vol!Steps
<1> QED
  BY <1>1 DEF Tool

(* A transaction commits only after all its resources are done: the record *)
(* of the staging is then the provenance that is verified later.           *)
LEMMA CommitKeeps ==
  ASSUME VolumesInv, Vol!Commit
  PROVE  VolumesInv'
<1>1. tool.op = "stage" /\ tool.step = "commit"
  BY DEF Vol!Commit, Vol!At
<1>2. tool \in Tool /\ journal \in JournalFile /\ Vol!TypeOK /\ StageAt /\ StagedUpTo
  BY <1>1, Typed DEF VolumesInv, StagingInv
<1>3. /\ UNCHANGED <<attested, failure, recovery, docker, content, up, faults, deaths, others>>
      /\ journal' = [journal EXCEPT !.state = "committed"] /\ tool' = Vol!Idle
  BY DEF Vol!Commit, Vol!bounds, Vol!files
<1>4. journal' \in JournalFile /\ journal'.state = "committed" /\ journal'.flags = journal.flags
  BY <1>2, <1>3 DEF JournalFile, Vol!JournalStates
<1>5. Vol!TypeOK'
  BY <1>2, <1>3, <1>4, IdleFacts, Typed, TypedNext
<1>6. attested /\ tool.k > Vol!Last
  BY <1>1, <1>2, SizeFacts DEF StageAt, Tool
<1>7. \A j \in 1..Vol!Last : j < tool.k
  BY <1>2, <1>6, SizeFacts DEF Tool
<1>8. ASSUME NEW r \in Vol!Resources
      PROVE  /\ journal.flags[r] = Complete(r)
             /\ r \in Vol!Volumes => docker[r] = "ours"
             /\ r.kind = "stager" => content[r.i] = "staged"
  <2>1. PICK j \in 1..Vol!Last : Vol!Staging(j) = r
    BY StagingFacts
  <2> QED
    BY <1>2, <1>7, <2>1 DEF StagedUpTo
<1>9. \A i \in 1..N : content[i] = "staged"
  <2> SUFFICES ASSUME NEW i \in 1..N PROVE content[i] = "staged"
    OBVIOUS
  <2>1. [kind |-> "stager", i |-> i] \in Vol!Resources
    BY DEF Vol!Resources, Vol!Kinds
  <2> QED
    BY <1>8, <2>1
<1>10. Vol!CommittedIsWhole'
  <2>1. \A r \in Vol!Volumes : journal.flags[r] = {"create_intent", "created"} /\ docker[r] = "ours"
    BY <1>8, ResourceFacts DEF Complete
  <2>2. \A r \in Vol!Containers : journal.flags[r] = Vol!Flags
    BY <1>8 DEF Complete, Vol!Containers
  <2> QED
    BY <1>3, <1>4, <1>6, <1>9, <2>1, <2>2
    DEF Vol!CommittedIsWhole, Vol!VerifyOk, Vol!ProvenanceOk, Vol!InventoryOk, Vol!MountOk
<1>11. Vol!OwnedIsJournaled'
  BY <1>3, <1>4 DEF Vol!OwnedIsJournaled, VolumesInv
<1>12. PhaseInv'
  BY <1>1, <1>3, <1>4, IdleFacts DEF PhaseInv, VolumesInv, Vol!None
<1> QED
  BY <1>3, <1>5, <1>10, <1>11, <1>12, IdleFacts DEF VolumesInv, StagingInv

(* A transaction begins where nothing of it is.                            *)
LEMMA StageBeginKeeps ==
  ASSUME VolumesInv, Vol!StageBegin
  PROVE  VolumesInv'
<1>1. /\ UNCHANGED <<attested, failure, recovery, docker, content, up, faults, deaths, others>>
      /\ journal' = [journal EXCEPT !.state = "prepared"]
      /\ tool' = [Vol!Idle EXCEPT !.op = "stage"] /\ journal.state = Vol!None
  BY DEF Vol!StageBegin, Vol!bounds, Vol!files
<1>2. journal \in JournalFile /\ Vol!TypeOK
  BY Typed DEF VolumesInv
<1>3. journal' \in JournalFile /\ journal'.state = "prepared" /\ journal'.flags = journal.flags
  BY <1>1, <1>2 DEF JournalFile, Vol!JournalStates
<1>4. tool' \in Tool /\ tool'.op = "stage" /\ tool'.k = 1 /\ tool'.step = "intend"
  BY <1>1, IdleFacts
<1>5. Vol!TypeOK'
  BY <1>1, <1>2, <1>3, <1>4, Typed, TypedNext
<1>6. NoneOurs /\ \A r \in Vol!Resources : journal.flags[r] = {}
  BY <1>1 DEF VolumesInv, PhaseInv
<1>7. StagedUpTo'
  <2>1. \A j \in 1..Vol!Last : ~(j < 1) /\ journal'.flags[Vol!Staging(j)] = {}
    BY <1>3, <1>6, StagingFacts, SizeFacts
  <2> QED
    BY <1>4, <2>1 DEF StagedUpTo, Doing
<1>8. StageAt'
  BY <1>3, <1>4, SizeFacts DEF StageAt
<1>9. PhaseInv'
  BY <1>1, <1>3, <1>6 DEF PhaseInv, VolumesInv, Vol!None
<1>10. Vol!OwnedIsJournaled' /\ Vol!CommittedIsWhole'
  BY <1>1, <1>3, <1>6 DEF Vol!OwnedIsJournaled, Vol!CommittedIsWhole, NoneOurs
<1> QED
  BY <1>5, <1>7, <1>8, <1>9, <1>10 DEF VolumesInv, StagingInv

(* A step of rollback or recovery that creates nothing, keeps the intents of *)
(* what is left and declares a recovery only when nothing is left keeps the *)
(* invariant.                                                              *)
LEMMA CleanPreserves ==
  ASSUME VolumesInv, tool.op \in {"rollback", "recover"}, Vol!TypeOK', tool'.op # "stage",
         journal'.state \notin {Vol!None, "committed"},
         \A q \in Vol!Resources : docker'[q] = "ours" => /\ docker[q] = "ours"
                                                         /\ "create_intent" \in journal'.flags[q]
                                                         /\ "removed" \notin journal'.flags[q],
         recovery' = "valid" \/ journal'.state = "recovered" =>
            recovery = "valid" \/ journal.state = "recovered" \/ NoneOurs'
  PROVE  VolumesInv'
<1>1. Vol!OwnedIsJournaled'
  BY DEF Vol!OwnedIsJournaled
<1>2. Vol!CommittedIsWhole'
  BY DEF Vol!CommittedIsWhole
<1>3. recovery = "valid" \/ journal.state = "recovered" => NoneOurs'
  BY DEF VolumesInv, PhaseInv, NoneOurs
<1>4. PhaseInv'
  BY <1>3 DEF PhaseInv
<1> QED
  BY <1>1, <1>2, <1>4 DEF VolumesInv, StagingInv

(* What rollback and recovery start from.                                  *)
LEMMA CleanNow ==
  ASSUME VolumesInv, tool.op \in {"rollback", "recover"}
  PROVE  /\ Vol!TypeOK /\ journal \in JournalFile /\ tool \in Tool
         /\ docker \in [Vol!Resources -> Labels] /\ faults \in 0..MaxFaults
         /\ journal.state \notin {Vol!None, "committed"}
         /\ \A q \in Vol!Resources : docker[q] = "ours" => /\ "create_intent" \in journal.flags[q]
                                                         /\ "removed" \notin journal.flags[q]
BY Typed DEF VolumesInv, PhaseInv, Vol!OwnedIsJournaled

(* Rollback and recovery write the intent to remove a resource.            *)
LEMMA CleanIntendKeeps ==
  ASSUME VolumesInv, Vol!CleanIntend
  PROVE  VolumesInv'
<1> DEFINE r == Vol!Cleanup(tool.k)
<1>1. tool.op \in {"rollback", "recover"} /\ tool.k <= Vol!Last
  BY DEF Vol!CleanIntend, Vol!Cleaning
<1>2. /\ Vol!TypeOK /\ journal \in JournalFile /\ tool \in Tool
      /\ journal.state \notin {Vol!None, "committed"}
      /\ \A q \in Vol!Resources : docker[q] = "ours" => /\ "create_intent" \in journal.flags[q]
                                                         /\ "removed" \notin journal.flags[q]
  BY <1>1, CleanNow
<1>3. UNCHANGED <<attested, failure, recovery, docker, content, up, faults, deaths, others>>
  BY DEF Vol!CleanIntend, Vol!files, Vol!bounds
<1>4. tool.k \in 1..Vol!Last /\ r \in Vol!Resources /\ tool.k + 1 \in 1..(Vol!Last + 1)
  <2>1. tool.k \in 1..Vol!Last /\ tool.k + 1 \in 1..(Vol!Last + 1)
    BY <1>1, <1>2, SizeFacts DEF Tool
  <2> QED
    BY <2>1, CleanupFacts
<1>5. CASE Vol!Write(r, {"remove_intent"}) /\ tool' = [tool EXCEPT !.step = "remove"]
  <2>1. /\ journal' \in JournalFile /\ journal'.state = journal.state
        /\ journal'.flags[r] = journal.flags[r] \cup {"remove_intent"}
        /\ \A q \in Vol!Resources : q # r => journal'.flags[q] = journal.flags[q]
    BY <1>2, <1>4, <1>5, WriteFacts DEF Vol!Flags
  <2>2. tool' \in Tool /\ tool'.op = tool.op
    BY <1>2, <1>5 DEF Tool, Vol!Steps
  <2>3. Vol!TypeOK'
    BY <1>2, <1>3, <2>1, <2>2, Typed, TypedNext
  <2>4. \A q \in Vol!Resources : docker'[q] = "ours" => /\ docker[q] = "ours"
                                                         /\ "create_intent" \in journal'.flags[q]
                                                         /\ "removed" \notin journal'.flags[q]
    BY <1>2, <1>3, <2>1
  <2> QED
    BY <1>1, <1>2, <1>3, <2>1, <2>2, <2>3, <2>4, CleanPreserves
<1>6. CASE UNCHANGED journal /\ tool' = [tool EXCEPT !.k = @ + 1]
  <2>1. tool' \in Tool /\ tool'.op = tool.op
    BY <1>2, <1>4, <1>6 DEF Tool
  <2>2. Vol!TypeOK'
    BY <1>2, <1>3, <1>6, <2>1, Typed, TypedNext
  <2> QED
    BY <1>1, <1>2, <1>3, <1>6, <2>1, <2>2, CleanPreserves
<1> QED
  BY <1>5, <1>6 DEF Vol!CleanIntend

(* _remove_owned: a resource is flagged removed only when it is gone.      *)
LEMMA CleanRemoveKeeps ==
  ASSUME VolumesInv, Vol!CleanRemove
  PROVE  VolumesInv'
<1> DEFINE r == Vol!Cleanup(tool.k)
<1> DEFINE next == [tool EXCEPT !.k = @ + 1, !.step = "intend"]
<1>1. tool.op \in {"rollback", "recover"} /\ tool.k <= Vol!Last
  BY DEF Vol!CleanRemove, Vol!Cleaning
<1>2. /\ Vol!TypeOK /\ journal \in JournalFile /\ tool \in Tool
      /\ docker \in [Vol!Resources -> Labels] /\ faults \in 0..MaxFaults
      /\ journal.state \notin {Vol!None, "committed"}
      /\ \A q \in Vol!Resources : docker[q] = "ours" => /\ "create_intent" \in journal.flags[q]
                                                         /\ "removed" \notin journal.flags[q]
  BY <1>1, CleanNow
<1>3. UNCHANGED <<attested, failure, recovery, content, up, deaths, others>>
  BY DEF Vol!CleanRemove, Vol!files
<1>4. tool.k \in 1..Vol!Last /\ r \in Vol!Resources /\ tool.k + 1 \in 1..(Vol!Last + 1)
  <2>1. tool.k \in 1..Vol!Last /\ tool.k + 1 \in 1..(Vol!Last + 1)
    BY <1>1, <1>2, SizeFacts DEF Tool
  <2> QED
    BY <2>1, CleanupFacts
<1>5. next \in Tool /\ next.op = tool.op
  BY <1>2, <1>4 DEF Tool, Vol!Steps
<1>6. [next EXCEPT !.err = TRUE] \in Tool /\ [next EXCEPT !.err = TRUE].op = tool.op
  <2> HIDE DEF next
  <2> QED
    BY <1>5 DEF Tool
<1>7. docker' \in {docker, Vol!Removed(r)} /\ tool' \in {next, [next EXCEPT !.err = TRUE]}
  BY DEF Vol!CleanRemove
<1>8. tool' \in Tool /\ tool'.op = tool.op
  <2> HIDE DEF next
  <2> QED
    BY <1>5, <1>6, <1>7
<1>9. /\ docker' \in [Vol!Resources -> Labels]
      /\ \A q \in Vol!Resources : docker'[q] = "ours" => docker[q] = "ours"
  BY <1>2, <1>4, <1>7 DEF Vol!Removed, Labels, Vol!None
<1>10. faults' \in 0..MaxFaults
  BY <1>2, FaultFacts DEF Vol!CleanRemove
<1>11. CASE docker' = Vol!Removed(r) /\ Vol!Write(r, {"removed"})
  <2>1. /\ journal' \in JournalFile /\ journal'.state = journal.state
        /\ \A q \in Vol!Resources : q # r => journal'.flags[q] = journal.flags[q]
    BY <1>2, <1>4, <1>11, WriteFacts DEF Vol!Flags
  <2>2. docker'[r] # "ours"
    BY <1>2, <1>4, <1>11 DEF Vol!Removed, Vol!None
  <2>3. Vol!TypeOK'
    BY <1>2, <1>3, <1>8, <1>9, <1>10, <2>1, Typed, TypedNext
  <2>4. \A q \in Vol!Resources : docker'[q] = "ours" => /\ docker[q] = "ours"
                                                         /\ "create_intent" \in journal'.flags[q]
                                                         /\ "removed" \notin journal'.flags[q]
    BY <1>2, <1>9, <2>1, <2>2
  <2> QED
    BY <1>1, <1>2, <1>3, <1>8, <2>1, <2>3, <2>4, CleanPreserves
<1>12. CASE UNCHANGED journal
  <2>1. Vol!TypeOK'
    BY <1>2, <1>3, <1>8, <1>9, <1>10, <1>12, Typed, TypedNext
  <2>2. \A q \in Vol!Resources : docker'[q] = "ours" => /\ docker[q] = "ours"
                                                         /\ "create_intent" \in journal'.flags[q]
                                                         /\ "removed" \notin journal'.flags[q]
    BY <1>2, <1>9, <1>12
  <2> QED
    BY <1>1, <1>2, <1>3, <1>8, <1>12, <2>1, <2>2, CleanPreserves
<1> QED
  BY <1>11, <1>12 DEF Vol!CleanRemove

(* The rollback ends in the journal, and not as recovered.                 *)
LEMMA RollbackEndKeeps ==
  ASSUME VolumesInv, Vol!RollbackEnd
  PROVE  VolumesInv'
<1>1. tool.op = "rollback"
  BY DEF Vol!RollbackEnd
<1>2. /\ Vol!TypeOK /\ journal \in JournalFile /\ tool \in Tool
      /\ \A q \in Vol!Resources : docker[q] = "ours" => /\ "create_intent" \in journal.flags[q]
                                                         /\ "removed" \notin journal.flags[q]
  BY <1>1, CleanNow
<1>3. /\ UNCHANGED <<attested, failure, recovery, docker, content, up, faults, deaths, others>>
      /\ journal' = [journal EXCEPT !.state = IF tool.err THEN "recovery_required"
                                              ELSE "rolled_back"]
      /\ tool' = [tool EXCEPT !.step = "report"]
  BY DEF Vol!RollbackEnd, Vol!files, Vol!bounds
<1>4. /\ journal' \in JournalFile /\ journal'.state \in {"recovery_required", "rolled_back"}
      /\ journal'.flags = journal.flags
  BY <1>2, <1>3 DEF JournalFile, Vol!JournalStates
<1>5. tool' \in Tool /\ tool'.op = "rollback"
  BY <1>1, <1>2, <1>3 DEF Tool, Vol!Steps
<1>6. Vol!TypeOK'
  BY <1>2, <1>3, <1>4, <1>5, Typed, TypedNext
<1> QED
  BY <1>1, <1>2, <1>3, <1>4, <1>5, <1>6, CleanPreserves DEF Vol!None

(* The failure file is written after the journal.                          *)
LEMMA RollbackReportKeeps ==
  ASSUME VolumesInv, Vol!RollbackReport
  PROVE  VolumesInv'
<1>1. tool.op = "rollback"
  BY DEF Vol!RollbackReport, Vol!At
<1>2. /\ Vol!TypeOK /\ journal.state \notin {Vol!None, "committed"}
      /\ \A q \in Vol!Resources : docker[q] = "ours" => /\ "create_intent" \in journal.flags[q]
                                                         /\ "removed" \notin journal.flags[q]
  BY <1>1, CleanNow
<1>3. /\ UNCHANGED <<journal, attested, recovery, docker, content, up, faults, deaths, others>>
      /\ failure' \in {"none", "complete", "incomplete"} /\ tool' = Vol!Idle
  BY DEF Vol!RollbackReport, Vol!bounds
<1>4. Vol!TypeOK'
  BY <1>2, <1>3, IdleFacts, Typed, TypedNext
<1> QED
  BY <1>1, <1>2, <1>3, <1>4, IdleFacts, CleanPreserves

(* When no label of the runtime remains, nothing of the transaction does.  *)
LEMMA NothingRemains ==
  ASSUME Vol!Remaining = {} PROVE NoneOurs
<1> SUFFICES ASSUME NEW r \in Vol!Resources, docker[r] = "ours" PROVE FALSE
  BY DEF NoneOurs
<1> QED
  BY DEF Vol!Remaining, Vol!Containers

(* The recovery is complete only when the daemon shows that nothing is left. *)
LEMMA RecoverEndKeeps ==
  ASSUME VolumesInv, Vol!RecoverEnd
  PROVE  VolumesInv'
<1> DEFINE bad == tool.err \/ Vol!Remaining # {}
<1>1. tool.op = "recover"
  BY DEF Vol!RecoverEnd
<1>2. /\ Vol!TypeOK /\ journal \in JournalFile /\ tool \in Tool /\ faults \in 0..MaxFaults
      /\ journal.state \notin {Vol!None, "committed"}
      /\ \A q \in Vol!Resources : docker[q] = "ours" => /\ "create_intent" \in journal.flags[q]
                                                         /\ "removed" \notin journal.flags[q]
  BY <1>1, CleanNow
<1>3. UNCHANGED <<attested, failure, recovery, docker, content, up, deaths, others>>
  BY DEF Vol!RecoverEnd, Vol!files
<1>4. CASE /\ journal' = [journal EXCEPT !.state = IF bad THEN "recovery_incomplete"
                                                   ELSE "recovered"]
           /\ tool' = [tool EXCEPT !.step = "report", !.err = bad] /\ UNCHANGED faults
  <2>0. bad \in BOOLEAN
    BY <1>2 DEF Tool
  <2>1. tool' \in Tool /\ tool'.op = "recover"
    <3> HIDE DEF bad
    <3> QED
      BY <1>1, <1>2, <1>4, <2>0 DEF Tool, Vol!Steps
  <2>2. /\ journal' \in JournalFile /\ journal'.flags = journal.flags
        /\ journal'.state = IF bad THEN "recovery_incomplete" ELSE "recovered"
    <3> HIDE DEF bad
    <3> QED
      BY <1>2, <1>4 DEF JournalFile, Vol!JournalStates
  <2>3. journal'.state = "recovered" => NoneOurs'
    <3>1. journal'.state = "recovered" => Vol!Remaining = {}
      BY <2>2
    <3>2. NoneOurs => NoneOurs'
      BY <1>3 DEF NoneOurs
    <3> QED
      BY <3>1, <3>2, NothingRemains
  <2>4. journal'.state \notin {Vol!None, "committed"}
    BY <2>2 DEF Vol!None
  <2>5. Vol!TypeOK'
    BY <1>2, <1>3, <1>4, <2>1, <2>2, Typed, TypedNext
  <2> HIDE DEF bad
  <2> QED
    BY <1>1, <1>2, <1>3, <2>1, <2>2, <2>3, <2>4, <2>5, CleanPreserves
<1>5. CASE Vol!Fault /\ tool' = Vol!Idle /\ UNCHANGED journal
  <2>1. Vol!TypeOK'
    BY <1>2, <1>3, <1>5, FaultFacts, IdleFacts, Typed, TypedNext
  <2> QED
    BY <1>1, <1>2, <1>3, <1>5, <2>1, IdleFacts, CleanPreserves
<1> QED
  BY <1>4, <1>5 DEF Vol!RecoverEnd

(* A recovery file is valid only after the journal says so.                *)
LEMMA RecoverReportKeeps ==
  ASSUME VolumesInv, Vol!RecoverReport
  PROVE  VolumesInv'
<1>1. tool.op = "recover"
  BY DEF Vol!RecoverReport, Vol!At
<1>2. /\ Vol!TypeOK /\ journal.state \notin {Vol!None, "committed"}
      /\ \A q \in Vol!Resources : docker[q] = "ours" => /\ "create_intent" \in journal.flags[q]
                                                         /\ "removed" \notin journal.flags[q]
  BY <1>1, CleanNow
<1>3. /\ UNCHANGED <<journal, attested, failure, docker, content, up, faults, deaths, others>>
      /\ recovery' = IF journal.state = "recovered" THEN "valid" ELSE "invalid"
      /\ tool' = Vol!Idle
  BY DEF Vol!RecoverReport, Vol!bounds
<1>4. recovery' \in {"none", "valid", "invalid"} /\ (recovery' = "valid" => journal.state = "recovered")
  BY <1>3
<1>5. Vol!TypeOK'
  BY <1>2, <1>3, <1>4, IdleFacts, Typed, TypedNext
<1> QED
  BY <1>1, <1>2, <1>3, <1>4, <1>5, IdleFacts, CleanPreserves

(* recover_validator_volume_transaction begins on any transaction that is  *)
(* neither absent nor committed.                                           *)
LEMMA RecoverKeeps ==
  ASSUME VolumesInv, Vol!Recover
  PROVE  VolumesInv'
<1>1. /\ UNCHANGED <<journal, attested, failure, recovery, docker, content, up, faults, deaths, others>>
      /\ tool' = [Vol!Idle EXCEPT !.op = "recover"] /\ journal.state \notin {Vol!None, "committed"}
  BY DEF Vol!Recover, Vol!files, Vol!bounds
<1>2. tool' \in Tool /\ tool'.op = "recover"
  BY <1>1, IdleFacts
<1>3. Vol!TypeOK'
  BY <1>1, <1>2, Typed, TypedNext DEF VolumesInv
<1>4. PhaseInv'
  BY <1>1, <1>2 DEF PhaseInv, VolumesInv, NoneOurs
<1>5. Vol!OwnedIsJournaled' /\ Vol!CommittedIsWhole'
  BY <1>1 DEF Vol!OwnedIsJournaled, Vol!CommittedIsWhole, VolumesInv
<1> QED
  BY <1>2, <1>3, <1>4, <1>5 DEF VolumesInv, StagingInv

(* A committed transaction is given up before anything of it is removed.   *)
LEMMA RemoveExistingKeeps ==
  ASSUME VolumesInv, Vol!RemoveExisting
  PROVE  VolumesInv'
<1>1. /\ UNCHANGED <<attested, failure, recovery, docker, content, up, faults, deaths, others>>
      /\ journal' = [journal EXCEPT !.state = "removing"]
      /\ tool' = [Vol!Idle EXCEPT !.op = "recover"]
  BY DEF Vol!RemoveExisting, Vol!files, Vol!bounds
<1>2. journal \in JournalFile /\ Vol!TypeOK
  BY Typed DEF VolumesInv
<1>3. journal' \in JournalFile /\ journal'.state = "removing" /\ journal'.flags = journal.flags
  BY <1>1, <1>2 DEF JournalFile, Vol!JournalStates
<1>4. tool' \in Tool /\ tool'.op = "recover"
  BY <1>1, IdleFacts
<1>5. Vol!TypeOK'
  BY <1>1, <1>2, <1>3, <1>4, Typed, TypedNext
<1>6. PhaseInv'
  BY <1>1, <1>3, <1>4 DEF PhaseInv, VolumesInv, NoneOurs, Vol!None
<1>7. Vol!OwnedIsJournaled' /\ Vol!CommittedIsWhole'
  BY <1>1, <1>3 DEF Vol!OwnedIsJournaled, Vol!CommittedIsWhole, VolumesInv
<1> QED
  BY <1>4, <1>5, <1>6, <1>7 DEF VolumesInv, StagingInv

(* The process may die at any step: the journal alone carries the invariant. *)
LEMMA CrashKeeps ==
  ASSUME VolumesInv, Vol!Crash
  PROVE  VolumesInv'
<1>1. /\ UNCHANGED <<journal, attested, failure, recovery, docker, content, up, faults, others>>
      /\ tool' = Vol!Idle /\ deaths < MaxCrashes /\ deaths' = deaths + 1
  BY DEF Vol!Crash, Vol!files
<1>2. Vol!TypeOK /\ deaths \in 0..MaxCrashes /\ deaths' \in 0..MaxCrashes
  <2>1. Vol!TypeOK /\ deaths \in 0..MaxCrashes
    BY Typed DEF VolumesInv
  <2> QED
    BY <1>1, <2>1, WriterLeaseConstants
<1>3. Vol!TypeOK'
  BY <1>1, <1>2, IdleFacts, Typed, TypedNext
<1>4. PhaseInv'
  BY <1>1, IdleFacts DEF PhaseInv, VolumesInv, NoneOurs
<1>5. Vol!OwnedIsJournaled' /\ Vol!CommittedIsWhole'
  BY <1>1 DEF Vol!OwnedIsJournaled, Vol!CommittedIsWhole, VolumesInv,
              Vol!VerifyOk, Vol!ProvenanceOk, Vol!InventoryOk, Vol!MountOk
<1> QED
  BY <1>1, <1>3, <1>4, <1>5, IdleFacts DEF VolumesInv, StagingInv

(* Other users of the daemon never take or give the transaction's labels.  *)
LEMMA OtherKeeps ==
  ASSUME VolumesInv, Vol!Other
  PROVE  VolumesInv'
<1>1. /\ UNCHANGED <<journal, attested, failure, recovery, content, tool, faults, deaths>>
      /\ others < MaxOthers /\ others' = others + 1
  BY DEF Vol!Other, Vol!files
<1>2. /\ Vol!TypeOK /\ docker \in [Vol!Resources -> Labels] /\ up \subseteq 1..N
      /\ others \in 0..MaxOthers /\ others' \in 0..MaxOthers
  <2>1. /\ Vol!TypeOK /\ docker \in [Vol!Resources -> Labels] /\ up \subseteq 1..N
        /\ others \in 0..MaxOthers
    BY Typed DEF VolumesInv
  <2> QED
    BY <1>1, <2>1, VolumesAssumption
<1>3. /\ docker' \in [Vol!Resources -> Labels] /\ up' \subseteq 1..N
      /\ \A r \in Vol!Resources : docker'[r] = "ours" <=> docker[r] = "ours"
  <2>1. PICK i \in 1..N :
          \/ /\ docker[Vol!Volume(i)] = Vol!None
             /\ \E f \in Vol!Foreign : docker' = [docker EXCEPT ![Vol!Volume(i)] = f]
             /\ UNCHANGED up
          \/ /\ docker[Vol!Volume(i)] \in Vol!Foreign
             /\ docker' = [docker EXCEPT ![Vol!Volume(i)] = Vol!None]
             /\ UNCHANGED up
          \/ /\ docker[Vol!Volume(i)] = "ours" /\ i \notin up
             /\ up' = up \cup {i} /\ UNCHANGED docker
    BY DEF Vol!Other
  <2>2. Vol!Volume(i) \in Vol!Resources
    BY ResourceFacts
  <2> QED
    BY <1>2, <2>1, <2>2 DEF Vol!Foreign, Vol!None, Labels
<1>4. Vol!TypeOK'
  BY <1>1, <1>2, <1>3, Typed, TypedNext
<1>5. PhaseInv'
  BY <1>1, <1>3 DEF PhaseInv, VolumesInv, NoneOurs
<1>6. Vol!OwnedIsJournaled'
  BY <1>1, <1>3 DEF Vol!OwnedIsJournaled, VolumesInv
<1>7. Vol!CommittedIsWhole'
  <2>1. \A r \in Vol!Volumes : docker[r] = "ours" => docker'[r] = "ours"
    BY <1>3, ResourceFacts
  <2> QED
    BY <1>1, <2>1 DEF Vol!CommittedIsWhole, VolumesInv, Vol!VerifyOk, Vol!ProvenanceOk,
                      Vol!InventoryOk, Vol!MountOk
<1>8. StagingInv'
  <2>1. \A j \in 1..Vol!Last : docker[Vol!Staging(j)] = "ours" => docker'[Vol!Staging(j)] = "ours"
    BY <1>3, StagingFacts
  <2>2. tool.op = "stage" => StageAt'
    BY <1>1 DEF StagingInv, StageAt, VolumesInv
  <2>3. tool.op = "stage" => StagedUpTo'
    BY <1>1, <2>1 DEF StagingInv, StagedUpTo, VolumesInv
  <2> QED
    BY <1>1, <2>2, <2>3 DEF StagingInv
<1> QED
  BY <1>4, <1>5, <1>6, <1>7, <1>8 DEF VolumesInv

(* A validator container stops.                                            *)
LEMMA ValidatorDownKeeps ==
  ASSUME VolumesInv, Vol!ValidatorDown
  PROVE  VolumesInv'
<1>1. /\ UNCHANGED <<journal, attested, failure, recovery, docker, content, tool, faults, deaths, others>>
      /\ up' \subseteq up
  BY DEF Vol!ValidatorDown, Vol!files, Vol!bounds
<1>2. Vol!TypeOK'
  <2>1. Vol!TypeOK /\ up' \subseteq 1..N
    BY <1>1, Typed DEF VolumesInv
  <2> QED
    BY <1>1, <2>1, Typed, TypedNext
<1>3. StagingInv' /\ PhaseInv'
  BY <1>1 DEF VolumesInv, StagingInv, StageAt, StagedUpTo, PhaseInv, NoneOurs
<1>4. Vol!OwnedIsJournaled' /\ Vol!CommittedIsWhole'
  BY <1>1 DEF Vol!OwnedIsJournaled, Vol!CommittedIsWhole, VolumesInv,
              Vol!VerifyOk, Vol!ProvenanceOk, Vol!InventoryOk, Vol!MountOk
<1> QED
  BY <1>2, <1>3, <1>4 DEF VolumesInv

(* A step of the other part changes nothing here.                          *)
LEMMA VolumesStutter ==
  ASSUME VolumesInv, UNCHANGED bvars
  PROVE  VolumesInv'
<1>1. UNCHANGED <<journal, attested, failure, recovery, docker, content, up, tool, faults, deaths, others>>
  BY DEF bvars
<1>2. Vol!TypeOK'
  BY <1>1, Typed, TypedNext DEF VolumesInv
<1>3. StagingInv' /\ PhaseInv'
  BY <1>1 DEF VolumesInv, StagingInv, StageAt, StagedUpTo, PhaseInv, NoneOurs
<1>4. Vol!OwnedIsJournaled' /\ Vol!CommittedIsWhole'
  BY <1>1 DEF Vol!OwnedIsJournaled, Vol!CommittedIsWhole, VolumesInv,
              Vol!VerifyOk, Vol!ProvenanceOk, Vol!InventoryOk, Vol!MountOk
<1> QED
  BY <1>2, <1>3, <1>4 DEF VolumesInv

(* Nothing is there at the beginning.                                      *)
LEMMA VolumesInit ==
  ASSUME Vol!Init PROVE VolumesInv
<1>1. /\ journal = [state |-> Vol!None, flags |-> [r \in Vol!Resources |-> {}]]
      /\ attested = FALSE /\ failure = "none" /\ recovery = "none"
      /\ docker = [r \in Vol!Resources |-> "none"] /\ content = [i \in 1..N |-> "empty"]
      /\ up = {} /\ tool = Vol!Idle /\ faults = 0 /\ deaths = 0 /\ others = 0
  BY DEF Vol!Init, Vol!None
<1>2. journal \in JournalFile /\ docker \in [Vol!Resources -> Labels]
  BY <1>1 DEF JournalFile, Vol!JournalStates, Labels
<1>3. content \in [1..N -> {"empty", "staged"}]
  BY <1>1
<1>4. faults \in 0..MaxFaults /\ deaths \in 0..MaxCrashes /\ others \in 0..MaxOthers
  BY <1>1, VolumesAssumption, WriterLeaseConstants
<1>5. Vol!TypeOK
  BY <1>1, <1>2, <1>3, <1>4, IdleFacts, Typed
<1>6. NoneOurs
  BY <1>1 DEF NoneOurs
<1>7. PhaseInv /\ StagingInv
  BY <1>1, <1>6, IdleFacts DEF PhaseInv, StagingInv, Vol!None
<1>8. Vol!OwnedIsJournaled /\ Vol!CommittedIsWhole
  BY <1>1, <1>6 DEF Vol!OwnedIsJournaled, Vol!CommittedIsWhole, NoneOurs, Vol!None
<1> QED
  BY <1>5, <1>7, <1>8 DEF VolumesInv

(* Every step keeps the invariant of the transaction.                      *)
LEMMA VolumesNext ==
  ASSUME VolumesInv, Vol!Next PROVE VolumesInv'
<1>1. CASE Vol!Stage
  BY <1>1, StageIntendKeeps, StageCreateKeeps, StageConfirmKeeps, StageCopyFailsKeeps,
     StageStartKeeps, StageRemoveKeeps, AttestKeeps, CommitKeeps DEF Vol!Stage
<1>2. CASE Vol!Clean
  BY <1>2, CleanIntendKeeps, CleanRemoveKeeps, RollbackEndKeeps, RollbackReportKeeps,
     RecoverEndKeeps, RecoverReportKeeps DEF Vol!Clean
<1> QED
  BY <1>1, <1>2, StageBeginKeeps, RecoverKeeps, RemoveExistingKeeps, CrashKeeps, OtherKeeps,
     ValidatorDownKeeps DEF Vol!Next

(* The record of the staging, the phase of the journal and the labels of the *)
(* daemon agree in every reachable state of the volume bootstrap.          *)
THEOREM VolumesInvariant == MCSpec => [](part = "volumes" => VolumesInv)
<1> DEFINE Inv == part = "volumes" => VolumesInv
<1>1. MCInit => Inv
  BY VolumesInit DEF MCInit
<1>2. Inv /\ [MCNext]_<<part, vars, bvars, cvars>> => Inv'
  <2> SUFFICES ASSUME Inv, [MCNext]_<<part, vars, bvars, cvars>>, part' = "volumes"
               PROVE  VolumesInv'
    OBVIOUS
  <2>1. CASE part = "volumes" /\ Vol!Next
    BY <2>1, VolumesNext
  <2>2. CASE UNCHANGED <<part, vars, bvars, cvars>>
    BY <2>2, VolumesStutter
  <2>3. CASE part \in {"lease", "campaign"} /\ UNCHANGED part
    BY <2>3
  <2> QED
    BY <2>1, <2>2, <2>3 DEF MCNext
<1> QED
  BY <1>1, <1>2, PTL DEF MCSpec

(* What the transaction owns is in its journal with an intent and without  *)
(* the removed flag, so that a recovery finds it; a committed transaction  *)
(* verifies; a recovered one has left nothing: for every number of volumes, *)
(* failing calls, deaths and acts of other users of the daemon.            *)
THEOREM VolumesSafe == MCSpec => []VolumesHold
<1>1. (part = "volumes" => VolumesInv) => VolumesHold
  BY DEF VolumesHold, VolumesInv, PhaseInv, NoneOurs, Vol!RecoveredIsClean
<1> QED
  BY <1>1, VolumesInvariant, PTL

(***************************************************************************)
(* The script of a campaign.                                               *)
(***************************************************************************)
Artefacts == {"observer", "inputs", "authority", "db", "segments", "end", "completion",
              "handoff", "torn", "final"} \cup Campaign!Outputs
Records == [st : 0..6, span : SUBSET Campaign!Runs, ev : SUBSET Campaign!Runs,
            sub : SUBSET Campaign!Runs, fin : SUBSET Campaign!Runs, orphan : BOOLEAN]

(* Where the script is between the launch of a phase and its handoff, and  *)
(* what it has checked there of the phase.                                 *)
Counting == {"freeze", "rebuild", "finalize"}
Settling == {"audit", "incidents"} \cup Counting
InPhase == {"launch", "ready", "run", "drain", "tail", "observe", "writers", "post",
            "processes", "traces"} \cup Settling
Publishing == {"publish", "sync", "release"}
AfterPhase == {"restart", "figures", "render"} \cup Publishing

FilesTyped == cfiles \in [Campaign!Phases -> SUBSET Artefacts]

AttemptsTyped ==
  /\ DOMAIN att = Campaign!Phases
  /\ \A p \in Campaign!Phases : att[p] \in [Campaign!Planned(p) -> Records]

DocumentsTyped ==
  /\ DOMAIN bound = Campaign!Phases /\ DOMAIN frozen = Campaign!Phases
  /\ DOMAIN excluded = Campaign!Phases /\ DOMAIN handoff = Campaign!Phases
  /\ \A p \in Campaign!Phases :
       /\ \/ bound[p] = Campaign!NoAuthority
          \/ bound[p].inputs = 0 /\ DOMAIN bound[p].prior = 1..(p - 1)
       /\ frozen[p] \in {-1, 0, 1} /\ excluded[p] \subseteq Campaign!Sequences(p)
       /\ handoff[p].by \in Campaign!Runs \cup {0}

ScriptTyped ==
  /\ pc \in InPhase \cup AfterPhase \cup Campaign!Ended
  /\ ph \in Campaign!Phases /\ run \in Campaign!Runs
  /\ procs \subseteq {"observer", "monitor", "starting", "runner"}
  /\ agents \in BOOLEAN /\ cvolumes \in BOOLEAN /\ inputs \in {0, 1}
  /\ products \subseteq {"gateway", "figures"} /\ approved \in BOOLEAN
  /\ stops \in 0..MaxStops /\ gap \in BOOLEAN

CampaignTyped == FilesTyped /\ AttemptsTyped /\ DocumentsTyped /\ ScriptTyped

(* The runner recorded an event in the first and, of an attempt that       *)
(* succeeded, in the last of the executions that carried it on.            *)
AttemptTrue(r) ==
  /\ r.ev \subseteq r.span
  /\ r.st = 0 => r.span = {}
  /\ r.st # 0 => \E first \in r.ev : \A e \in r.span : first <= e
  /\ r.st = 6 => \E last \in r.ev : \A e \in r.span : e <= last
  /\ \A e \in r.span : e <= run

AttemptsTrue == \A p \in Campaign!Phases : \A a \in Campaign!Planned(p) : AttemptTrue(att[p][a])

(* Nothing is left to happen to the attempts of the phase.                 *)
Settled(p) == Campaign!AttemptsExact(p) /\ Campaign!Scanned(p) /\ Campaign!WorkerSettled(p)

(* What the files of a phase vouch for.                                    *)
Vouched(p) ==
  /\ Settled(p) /\ excluded[p] = Campaign!Incidents(p)
  /\ bound[p].inputs = 0 /\ frozen[p] = 0
FilesTrue ==
  \A p \in Campaign!Phases :
    /\ "frozen" \in cfiles[p] => Settled(p)
    /\ "authority" \in cfiles[p] => bound[p].inputs = 0
    /\ Campaign!HandedOff(p) => Vouched(p)

(* The phases are handed off in their order.                               *)
HandoffsInOrder ==
  \A p, q \in Campaign!Phases : q < p /\ "handoff" \in cfiles[p] => "handoff" \in cfiles[q]

(* What the script has checked of the phase it is at.                      *)
CheckedSoFar ==
  /\ pc \in Settling => Settled(ph)
  /\ pc \in Counting => excluded[ph] = Campaign!Incidents(ph)
  /\ pc \in {"rebuild", "finalize"} => bound[ph].inputs = 0 /\ frozen[ph] = 0
  /\ pc \in InPhase => \A q \in Campaign!Phases : "handoff" \in cfiles[q] <=> q < ph
  /\ pc = "restart" => \A q \in Campaign!Phases : "handoff" \in cfiles[q] <=> q <= ph
  /\ pc \in Publishing => ~cvolumes

(* What is public was handed off, and nothing resumes afterwards.          *)
PublicHolds ==
  public # <<>> =>
    /\ ~cvolumes /\ pc \in {"release"} \cup Campaign!Ended
    /\ \A p \in Campaign!Phases :
         /\ Campaign!HandedOff(p) /\ public[p] = handoff[p]
         /\ public[p].prior = [q \in 1..(p - 1) |-> public[q].by]

(* Every resumption follows a fault, or the one pause for the approval.    *)
Credit == stops + (IF approved THEN 1 ELSE 0)
RunsBounded ==
  /\ run <= 1 + Credit
  /\ pc = "drain" => run <= Credit
  /\ pc = "pending" => run <= Credit \/ (Campaign!ProductsComplete /\ ~approved)

CampaignInv ==
  /\ CampaignTyped /\ AttemptsTrue /\ FilesTrue /\ HandoffsInOrder
  /\ CheckedSoFar /\ PublicHolds /\ RunsBounded

LEMMA PhaseFacts ==
  /\ Len(Plan) \in Nat \ {0} /\ Campaign!Phases = 1..Len(Plan) /\ Campaign!Phases \subseteq Nat
  /\ Campaign!Last \in Campaign!Phases
BY CampaignAssumption DEF Campaign!Phases, Campaign!Last

(* What is said of a phase's attempts stays true while they stay.          *)
LEMMA SameAttempts ==
  ASSUME NEW q \in Campaign!Phases, att'[q] = att[q]
  PROVE  Settled(q)' = Settled(q) /\ Campaign!Incidents(q)' = Campaign!Incidents(q)
<1>1. Settled(q)' = Settled(q)
  BY DEF Settled, Campaign!AttemptsExact, Campaign!Scanned, Campaign!WorkerSettled
<1>2. ASSUME NEW s \in Campaign!Sequences(q)
      PROVE  Campaign!Interrupted(q, s)' = Campaign!Interrupted(q, s)
  BY DEF Campaign!Interrupted, Campaign!RunnerRuns, Campaign!WorkerRuns, Campaign!RelayerRuns
<1>3. Campaign!Incidents(q)' = Campaign!Incidents(q)
  BY <1>2 DEF Campaign!Incidents
<1> QED
  BY <1>1, <1>3

(* What only the records and documents of the phases say.                  *)
LEMMA RecordsKeep ==
  ASSUME CampaignInv, UNCHANGED <<att, bound, frozen, excluded, handoff, run>>
  PROVE  /\ AttemptsTyped' /\ DocumentsTyped' /\ AttemptsTrue'
         /\ \A q \in Campaign!Phases : /\ Settled(q)' = Settled(q) /\ Vouched(q)' = Vouched(q)
                                       /\ Campaign!Incidents(q)' = Campaign!Incidents(q)
<1>1. \A q \in Campaign!Phases : /\ Settled(q)' = Settled(q)
                                 /\ Campaign!Incidents(q)' = Campaign!Incidents(q)
  BY SameAttempts
<1>2. AttemptsTyped' /\ DocumentsTyped'
  BY DEF CampaignInv, CampaignTyped, AttemptsTyped, DocumentsTyped
<1>3. AttemptsTrue'
  BY DEF CampaignInv, AttemptsTrue, AttemptTrue
<1> QED
  BY <1>1, <1>2, <1>3 DEF Vouched

(* A step of the script within a phase or after the last one, which checks *)
(* nothing, hands nothing off and publishes nothing.                       *)
LEMMA ControlKeeps ==
  ASSUME CampaignInv, UNCHANGED <<att, bound, frozen, excluded, handoff, public, run, ph>>,
         ScriptTyped', FilesTyped', RunsBounded',
         \A q \in Campaign!Phases :
            \A f \in {"handoff", "torn", "authority"} : f \in cfiles'[q] <=> f \in cfiles[q],
         \A q \in Campaign!Phases : "frozen" \in cfiles'[q] => Settled(q),
         pc' \in Settling => pc \in Settling, pc' \in Counting => pc \in Counting,
         pc' \in {"rebuild", "finalize"} => pc \in {"rebuild", "finalize"},
         pc' \in InPhase => pc \in InPhase,
         pc' = "restart" => pc = "restart", pc' \in Publishing => ~cvolumes',
         public # <<>> => ~cvolumes' /\ pc' \in {"release"} \cup Campaign!Ended
  PROVE  CampaignInv'
<1>1. CampaignTyped' /\ AttemptsTrue'
  BY RecordsKeep DEF CampaignTyped
<1>2. \A q \in Campaign!Phases : Campaign!HandedOff(q)' = Campaign!HandedOff(q)
  BY DEF Campaign!HandedOff
<1>3. FilesTrue'
  BY <1>2, RecordsKeep DEF CampaignInv, FilesTrue
<1>4. HandoffsInOrder'
  BY DEF CampaignInv, HandoffsInOrder
<1>5. CheckedSoFar'
  <2>1. ph \in Campaign!Phases
    BY DEF CampaignInv, CampaignTyped, ScriptTyped
  <2> QED
    BY <2>1, RecordsKeep DEF CampaignInv, CheckedSoFar
<1>6. PublicHolds'
  BY <1>2 DEF CampaignInv, PublicHolds
<1> QED
  BY <1>1, <1>3, <1>4, <1>5, <1>6 DEF CampaignInv

(* Such a step that leaves the files alone.                                *)
LEMMA QuietKeeps ==
  ASSUME CampaignInv,
         UNCHANGED <<att, bound, frozen, excluded, handoff, public, run, ph, cfiles>>,
         ScriptTyped', RunsBounded',
         pc' \in Settling => pc \in Settling, pc' \in Counting => pc \in Counting,
         pc' \in {"rebuild", "finalize"} => pc \in {"rebuild", "finalize"},
         pc' \in InPhase => pc \in InPhase,
         pc' = "restart" => pc = "restart", pc' \in Publishing => ~cvolumes',
         public # <<>> => ~cvolumes' /\ pc' \in {"release"} \cup Campaign!Ended
  PROVE  CampaignInv'
<1>1. FilesTyped' /\ \A q \in Campaign!Phases : "frozen" \in cfiles'[q] => Settled(q)
  BY DEF CampaignInv, CampaignTyped, FilesTyped, FilesTrue
<1> QED
  BY <1>1, ControlKeeps

(* The script leaves by one of its traps.                                  *)
LEMMA EndsKeeps ==
  ASSUME CampaignInv, UNCHANGED <<att, bound, frozen, excluded, handoff, public, run, ph, cfiles>>,
         UNCHANGED <<inputs, products, approved>>, stops' \in 0..MaxStops, gap' \in BOOLEAN,
         \/ Campaign!Abandon /\ (stops' = stops \/ stops' = stops + 1)
         \/ Campaign!Pend /\ \/ pc = "drain" /\ stops' = stops
                             \/ Campaign!ProductsComplete /\ ~approved /\ stops' = stops
                             \/ stops' = stops + 1
  PROVE  CampaignInv'
<1>1. ScriptTyped'
  BY DEF CampaignInv, CampaignTyped, ScriptTyped, Campaign!Abandon, Campaign!Pend, Campaign!Ended
<1>2. RunsBounded'
  <2>1. run \in Nat /\ stops \in Nat /\ stops' \in Nat /\ Credit \in Nat /\ RunsBounded
    BY CampaignAssumption DEF CampaignInv, CampaignTyped, ScriptTyped, Campaign!Runs, Credit
  <2>2. Credit' = Credit + (stops' - stops)
    <3>1. approved' = approved
      OBVIOUS
    <3>2. CASE approved
      BY <2>1, <3>1, <3>2 DEF Credit
    <3>3. CASE ~approved
      BY <2>1, <3>1, <3>3 DEF Credit
    <3> QED
      BY <3>2, <3>3
  <2>3. CASE Campaign!Abandon /\ (stops' = stops \/ stops' = stops + 1)
    <3>1. CASE stops' = stops
      BY <2>1, <2>2, <2>3, <3>1 DEF RunsBounded, Campaign!Abandon
    <3>2. CASE stops' = stops + 1
      BY <2>1, <2>2, <2>3, <3>2 DEF RunsBounded, Campaign!Abandon
    <3> QED
      BY <2>3, <3>1, <3>2
  <2>4. CASE Campaign!Pend /\ pc = "drain" /\ stops' = stops
    BY <2>1, <2>2, <2>4 DEF RunsBounded, Campaign!Pend
  <2>5. CASE Campaign!Pend /\ Campaign!ProductsComplete /\ ~approved /\ stops' = stops
    <3>1. Campaign!ProductsComplete' /\ ~approved'
      BY <2>5 DEF Campaign!ProductsComplete
    <3> QED
      BY <2>1, <2>2, <2>5, <3>1 DEF RunsBounded, Campaign!Pend
  <2>6. CASE Campaign!Pend /\ stops' = stops + 1
    BY <2>1, <2>2, <2>6 DEF RunsBounded, Campaign!Pend
  <2> QED
    BY <2>3, <2>4, <2>5, <2>6
<1>3. /\ pc' \in Campaign!Ended
      /\ public # <<>> => ~cvolumes'
  BY DEF CampaignInv, PublicHolds, Campaign!Abandon, Campaign!Pend, Campaign!Ended
<1>4. /\ pc' \notin Settling /\ pc' \notin Counting /\ pc' \notin {"rebuild", "finalize"}
      /\ pc' \notin InPhase /\ pc' # "restart" /\ pc' \notin Publishing
  BY <1>3 DEF Campaign!Ended, Settling, Counting, InPhase, Publishing
<1>5. public # <<>> => ~cvolumes' /\ pc' \in {"release"} \cup Campaign!Ended
  BY <1>3
<1> QED
  BY <1>1, <1>2, <1>4, <1>5, QuietKeeps

LEMMA TrapsKeep ==
  ASSUME CampaignInv,
         \/ Campaign!LaunchRefused \/ Campaign!RunnerRefuses \/ Campaign!Drained
         \/ Campaign!AwaitApproval \/ Campaign!CommandFails \/ Campaign!ResumeRefused
         \/ \E i \in 1..Len(Campaign!PostSteps) : Campaign!PostRefused(Campaign!PostSteps[i])
  PROVE  CampaignInv'
<1>1. ScriptTyped /\ stops \in 0..MaxStops /\ gap \in BOOLEAN
  BY DEF CampaignInv, CampaignTyped, ScriptTyped
<1>2. CASE Campaign!LaunchRefused
  BY <1>1, <1>2, EndsKeeps DEF Campaign!LaunchRefused, Campaign!evidence, Campaign!final
<1>3. CASE Campaign!RunnerRefuses
  BY <1>1, <1>3, EndsKeeps DEF Campaign!RunnerRefuses, Campaign!evidence, Campaign!final
<1>4. CASE Campaign!Drained
  BY <1>1, <1>4, EndsKeeps DEF Campaign!Drained, Campaign!evidence, Campaign!final
<1>5. CASE Campaign!AwaitApproval
  BY <1>1, <1>5, EndsKeeps DEF Campaign!AwaitApproval, Campaign!evidence, Campaign!final
<1>6. CASE Campaign!CommandFails
  BY <1>1, <1>6, EndsKeeps, CampaignAssumption
     DEF Campaign!CommandFails, Campaign!evidence, Campaign!final
<1>7. CASE Campaign!ResumeRefused
  BY <1>1, <1>7, EndsKeeps DEF Campaign!ResumeRefused, Campaign!evidence, Campaign!final
<1>8. ASSUME NEW step, Campaign!PostRefused(step) PROVE CampaignInv'
  BY <1>1, <1>8, EndsKeeps DEF Campaign!PostRefused, Campaign!evidence, Campaign!final
<1> QED
  BY <1>2, <1>3, <1>4, <1>5, <1>6, <1>7, <1>8

(* Executions stay counted when none begins.                               *)
LEMMA RunsKeep ==
  ASSUME CampaignInv, run' = run, approved' = approved,
         \/ stops' = stops /\ pc' \notin {"drain", "pending"}
         \/ stops' = stops + 1 /\ pc' # "pending"
  PROVE  RunsBounded'
<1>1. run \in Nat /\ stops \in Nat /\ stops' \in Nat /\ Credit \in Nat /\ RunsBounded
  BY CampaignAssumption DEF CampaignInv, CampaignTyped, ScriptTyped, Campaign!Runs, Credit
<1>2. Credit' = Credit + (stops' - stops)
  <2>1. CASE approved
    BY <1>1, <2>1 DEF Credit
  <2>2. CASE ~approved
    BY <1>1, <2>2 DEF Credit
  <2> QED
    BY <2>1, <2>2
<1>3. CASE stops' = stops /\ pc' \notin {"drain", "pending"}
  BY <1>1, <1>2, <1>3 DEF RunsBounded
<1>4. CASE stops' = stops + 1 /\ pc' # "pending"
  BY <1>1, <1>2, <1>4 DEF RunsBounded
<1> QED
  BY <1>3, <1>4

LEMMA QuietStepsKeep ==
  ASSUME CampaignInv,
         \/ Campaign!Continue \/ Campaign!RunnerDone \/ Campaign!StopWriters
         \/ Campaign!BuildGateway \/ Campaign!BuildFigures \/ Campaign!RemoveServices
         \/ Campaign!Release \/ Campaign!Edit
         \/ \E x \in {"agents", "observer", "monitor", "disk"} : Campaign!SideProcessDies(x)
  PROVE  CampaignInv'
<1> USE DEF Campaign!evidence, Campaign!final, Campaign!Goto
<1>1. ScriptTyped /\ PublicHolds /\ CheckedSoFar
  BY DEF CampaignInv, CampaignTyped
<1>2. UNCHANGED <<att, bound, frozen, excluded, handoff, public, run, ph, cfiles>>
  BY DEF Campaign!Continue, Campaign!RunnerDone, Campaign!StopWriters, Campaign!BuildGateway,
         Campaign!BuildFigures, Campaign!RemoveServices, Campaign!Release, Campaign!Edit,
         Campaign!SideProcessDies
<1>3. ScriptTyped'
  <2>1. pc' \in InPhase \cup AfterPhase \cup Campaign!Ended
    BY <1>1
       DEF ScriptTyped, InPhase, AfterPhase, Publishing, Campaign!Ended,
           Campaign!Continue, Campaign!RunnerDone, Campaign!StopWriters, Campaign!BuildGateway,
           Campaign!BuildFigures, Campaign!RemoveServices, Campaign!Release, Campaign!Edit,
           Campaign!SideProcessDies
  <2>2. /\ procs' \subseteq {"observer", "monitor", "starting", "runner"}
        /\ products' \subseteq {"gateway", "figures"}
    BY <1>1
       DEF ScriptTyped, Campaign!Continue, Campaign!RunnerDone, Campaign!StopWriters, Campaign!BuildGateway,
           Campaign!BuildFigures, Campaign!RemoveServices, Campaign!Release, Campaign!Edit,
           Campaign!SideProcessDies
  <2>3. /\ agents' \in BOOLEAN /\ cvolumes' \in BOOLEAN /\ gap' \in BOOLEAN
        /\ approved' \in BOOLEAN
    BY <1>1
       DEF ScriptTyped, Campaign!Continue, Campaign!RunnerDone, Campaign!StopWriters, Campaign!BuildGateway,
           Campaign!BuildFigures, Campaign!RemoveServices, Campaign!Release, Campaign!Edit,
           Campaign!SideProcessDies
  <2>4. inputs' \in {0, 1} /\ stops' \in 0..MaxStops
    BY <1>1, CampaignAssumption
       DEF ScriptTyped, Campaign!Continue, Campaign!RunnerDone, Campaign!StopWriters, Campaign!BuildGateway,
           Campaign!BuildFigures, Campaign!RemoveServices, Campaign!Release, Campaign!Edit,
           Campaign!SideProcessDies
  <2> QED
    BY <1>1, <1>2, <2>1, <2>2, <2>3, <2>4 DEF ScriptTyped
<1>4. RunsBounded'
  <2>1. /\ approved' = approved
        /\ \/ stops' = stops /\ pc' \notin {"drain", "pending"}
           \/ stops' = stops + 1 /\ pc' # "pending"
    BY DEF Campaign!Continue, Campaign!RunnerDone, Campaign!StopWriters, Campaign!BuildGateway,
         Campaign!BuildFigures, Campaign!RemoveServices, Campaign!Release, Campaign!Edit,
         Campaign!SideProcessDies, Campaign!Running, Campaign!Ended
  <2> QED
    BY <1>2, <2>1, RunsKeep
<1>5. /\ pc' \in Settling => pc \in Settling
      /\ pc' \in Counting => pc \in Counting
      /\ pc' \in {"rebuild", "finalize"} => pc \in {"rebuild", "finalize"}
      /\ pc' \in InPhase => pc \in InPhase
      /\ pc' = "restart" => pc = "restart"
      /\ pc' \in Publishing => pc \in Publishing \/ ~cvolumes'
      /\ public # <<>> => pc' = pc \/ pc' = "ended"
  BY <1>1
     DEF PublicHolds, InPhase, Publishing, Settling, Counting, Campaign!Ended,
         Campaign!Continue, Campaign!RunnerDone, Campaign!StopWriters, Campaign!BuildGateway,
         Campaign!BuildFigures, Campaign!RemoveServices, Campaign!Release, Campaign!Edit,
         Campaign!SideProcessDies
<1>6. cvolumes' = cvolumes \/ ~cvolumes'
  BY DEF Campaign!Continue, Campaign!RunnerDone, Campaign!StopWriters, Campaign!BuildGateway,
         Campaign!BuildFigures, Campaign!RemoveServices, Campaign!Release, Campaign!Edit,
         Campaign!SideProcessDies
<1>7. /\ pc' \in Publishing => ~cvolumes'
      /\ public # <<>> => ~cvolumes' /\ pc' \in {"release"} \cup Campaign!Ended
  BY <1>1, <1>5, <1>6 DEF CheckedSoFar, PublicHolds, Campaign!Ended
<1> QED
  BY <1>2, <1>3, <1>4, <1>5, <1>7, QuietKeeps

(* Files of a phase that vouch for nothing are written, or some put aside. *)
LEMMA OtherFiles ==
  ASSUME CampaignInv, NEW fs \in SUBSET Artefacts, fs \cap {"handoff", "torn", "authority"} = {},
         \/ "frozen" \notin fs /\ cfiles' = [cfiles EXCEPT ![ph] = cfiles[ph] \cup fs]
         \/ cfiles' = [cfiles EXCEPT ![ph] = cfiles[ph] \ fs]
  PROVE  /\ FilesTyped'
         /\ \A q \in Campaign!Phases :
               \A f \in {"handoff", "torn", "authority"} : f \in cfiles'[q] <=> f \in cfiles[q]
         /\ \A q \in Campaign!Phases : "frozen" \in cfiles'[q] => Settled(q)
<1>1. /\ cfiles \in [Campaign!Phases -> SUBSET Artefacts] /\ ph \in Campaign!Phases
      /\ FilesTrue
  BY DEF CampaignInv, CampaignTyped, FilesTyped, ScriptTyped
<1>2. FilesTyped'
  BY <1>1 DEF FilesTyped
<1>3. \A q \in Campaign!Phases :
        \A f \in {"handoff", "torn", "authority"} : f \in cfiles'[q] <=> f \in cfiles[q]
  BY <1>1
<1>4. \A q \in Campaign!Phases : "frozen" \in cfiles'[q] => "frozen" \in cfiles[q]
  BY <1>1
<1> QED
  BY <1>1, <1>2, <1>3, <1>4 DEF FilesTrue

LEMMA FileStepsKeep ==
  ASSUME CampaignInv,
         \/ Campaign!Launch \/ Campaign!LaunchResumed \/ Campaign!MonitorDone
         \/ Campaign!ObserverDone \/ Campaign!Quarantine \/ Campaign!BuildHandoff
  PROVE  CampaignInv'
<1> USE DEF Campaign!evidence, Campaign!final, Campaign!Goto
<1>1. /\ ScriptTyped /\ PublicHolds /\ CheckedSoFar /\ FilesTyped /\ FilesTrue
      /\ ph \in Campaign!Phases
  BY DEF CampaignInv, CampaignTyped, ScriptTyped
<1>2. UNCHANGED <<att, bound, frozen, excluded, handoff, public, run, ph, stops, approved>>
  BY DEF Campaign!Launch, Campaign!LaunchResumed, Campaign!MonitorDone, Campaign!ObserverDone,
         Campaign!Quarantine, Campaign!BuildHandoff
<1>3. /\ FilesTyped'
      /\ \A q \in Campaign!Phases :
            \A f \in {"handoff", "torn", "authority"} : f \in cfiles'[q] <=> f \in cfiles[q]
      /\ \A q \in Campaign!Phases : "frozen" \in cfiles'[q] => Settled(q)
  <2>1. CASE Campaign!Launch
    <3>1. {"observer", "inputs"} \in SUBSET Artefacts /\ {"observer", "inputs"} \cap {"handoff", "torn", "authority"} = {}
      BY DEF Artefacts
    <3>2. "frozen" \notin {"observer", "inputs"} /\ cfiles' = [cfiles EXCEPT ![ph] = cfiles[ph] \cup {"observer", "inputs"}]
      BY <2>1 DEF Campaign!Launch, Campaign!Put
    <3> QED
      BY <3>1, <3>2, OtherFiles
  <2>2. CASE Campaign!LaunchResumed
    <3>1. {"completion"} \in SUBSET Artefacts /\ {"completion"} \cap {"handoff", "torn", "authority"} = {}
      BY DEF Artefacts
    <3>2. cfiles' = [cfiles EXCEPT ![ph] = cfiles[ph] \ {"completion"}]
      BY <2>2 DEF Campaign!LaunchResumed
    <3> QED
      BY <3>1, <3>2, OtherFiles
  <2>3. CASE Campaign!MonitorDone
    <3>1. {"segments", "end"} \in SUBSET Artefacts /\ {"segments", "end"} \cap {"handoff", "torn", "authority"} = {}
      BY DEF Artefacts
    <3>2. "frozen" \notin {"segments", "end"} /\ cfiles' = [cfiles EXCEPT ![ph] = cfiles[ph] \cup {"segments", "end"}]
      BY <2>3 DEF Campaign!MonitorDone, Campaign!Put
    <3> QED
      BY <3>1, <3>2, OtherFiles
  <2>4. CASE Campaign!ObserverDone
    <3>1. {"completion"} \in SUBSET Artefacts /\ {"completion"} \cap {"handoff", "torn", "authority"} = {}
      BY DEF Artefacts
    <3>2. "frozen" \notin {"completion"} /\ cfiles' = [cfiles EXCEPT ![ph] = cfiles[ph] \cup {"completion"}]
      BY <2>4 DEF Campaign!ObserverDone, Campaign!Put
    <3> QED
      BY <3>1, <3>2, OtherFiles
  <2>5. CASE Campaign!Quarantine
    <3>1. Campaign!Outputs \in SUBSET Artefacts /\ Campaign!Outputs \cap {"handoff", "torn", "authority"} = {}
      BY DEF Artefacts, Campaign!Outputs
    <3>2. cfiles' = [cfiles EXCEPT ![ph] = cfiles[ph] \ Campaign!Outputs]
      BY <2>5 DEF Campaign!Quarantine
    <3> QED
      BY <3>1, <3>2, OtherFiles
  <2>6. CASE Campaign!BuildHandoff
    <3>1. {"final"} \in SUBSET Artefacts /\ {"final"} \cap {"handoff", "torn", "authority"} = {}
      BY DEF Artefacts
    <3>2. "frozen" \notin {"final"} /\ cfiles' = [cfiles EXCEPT ![ph] = cfiles[ph] \cup {"final"}]
      BY <2>6 DEF Campaign!BuildHandoff, Campaign!Put
    <3> QED
      BY <3>1, <3>2, OtherFiles
  <2> QED
    BY <2>1, <2>2, <2>3, <2>4, <2>5, <2>6
<1>6. ScriptTyped'
  <2>1. pc' \in InPhase \cup AfterPhase \cup Campaign!Ended
    BY <1>1
       DEF ScriptTyped, InPhase, AfterPhase, Publishing, Campaign!Ended, Campaign!Launch,
           Campaign!LaunchResumed, Campaign!MonitorDone, Campaign!ObserverDone,
           Campaign!Quarantine, Campaign!BuildHandoff
  <2>2. /\ procs' \subseteq {"observer", "monitor", "starting", "runner"}
        /\ UNCHANGED <<products, inputs, agents, cvolumes, gap>>
    BY <1>1
       DEF ScriptTyped, Campaign!Launch, Campaign!LaunchResumed, Campaign!MonitorDone,
           Campaign!ObserverDone, Campaign!Quarantine, Campaign!BuildHandoff
  <2> QED
    BY <1>1, <1>2, <2>1, <2>2 DEF ScriptTyped
<1>7. RunsBounded'
  <2>1. pc' \notin {"drain", "pending"}
    BY DEF Campaign!Launch, Campaign!LaunchResumed, Campaign!MonitorDone, Campaign!ObserverDone,
           Campaign!Quarantine, Campaign!BuildHandoff
  <2> QED
    BY <1>2, <2>1, RunsKeep
<1>8. /\ pc' \notin Settling /\ pc' \notin Counting /\ pc' \notin {"rebuild", "finalize"}
      /\ pc' \in InPhase => pc \in InPhase
      /\ pc' # "restart"
      /\ pc' \in Publishing => ~cvolumes'
      /\ pc \notin {"release"} \cup Campaign!Ended
  BY <1>1
     DEF PublicHolds, CheckedSoFar, InPhase, Publishing, Settling, Counting, Campaign!Ended,
         Campaign!Launch, Campaign!LaunchResumed, Campaign!MonitorDone, Campaign!ObserverDone,
         Campaign!Quarantine, Campaign!BuildHandoff
<1>9. public = <<>>
  BY <1>1, <1>8 DEF PublicHolds
<1> QED
  BY <1>2, <1>3, <1>6, <1>7, <1>8, <1>9, ControlKeeps

(* The operator approves the figures at any time.                          *)
LEMMA ApproveKeeps ==
  ASSUME CampaignInv, Campaign!Approve
  PROVE  CampaignInv'
<1>1. /\ UNCHANGED <<pc, ph, run, cfiles, procs, agents, cvolumes, att, inputs, bound, frozen,
                     excluded, handoff, products, public, stops, gap>>
      /\ ~approved /\ approved'
  BY DEF Campaign!Approve, Campaign!evidence
<1>2. ScriptTyped'
  <2>1. approved' \in BOOLEAN
    BY DEF Campaign!Approve
  <2> QED
    BY <1>1, <2>1 DEF CampaignInv, CampaignTyped, ScriptTyped
<1>3. RunsBounded'
  <2>1. run \in Nat /\ stops \in Nat /\ RunsBounded
    BY CampaignAssumption DEF CampaignInv, CampaignTyped, ScriptTyped, Campaign!Runs
  <2>2. Credit = stops /\ Credit' = stops + 1
    BY <1>1, <2>1 DEF Credit
  <2>3. run' <= Credit' /\ Credit' \in Nat
    BY <1>1, <2>1, <2>2 DEF RunsBounded
  <2> QED
    BY <1>1, <2>1, <2>2, <2>3 DEF RunsBounded
<1>4. /\ pc' \in Publishing => ~cvolumes'
      /\ public # <<>> => ~cvolumes' /\ pc' \in {"release"} \cup Campaign!Ended
  BY <1>1 DEF CampaignInv, PublicHolds, CheckedSoFar
<1> QED
  BY <1>1, <1>2, <1>3, <1>4, QuietKeeps

(* A phase that was handed off is followed by the next, or by the figures. *)
LEMMA NextPhaseKeeps ==
  ASSUME CampaignInv, Campaign!NextPhase
  PROVE  CampaignInv'
<1>1. /\ UNCHANGED <<run, cfiles, procs, cvolumes, att, inputs, bound, frozen, excluded,
                     handoff, products, approved, public, stops, gap>>
      /\ pc = "restart"
      /\ \/ ph < Campaign!Last /\ ph' = ph + 1 /\ agents' = TRUE /\ pc' = "launch"
         \/ pc' = "figures" /\ ph' = ph /\ agents' = agents
  BY DEF Campaign!NextPhase, Campaign!evidence, Campaign!final
<1>2. /\ ScriptTyped /\ FilesTyped /\ FilesTrue /\ CheckedSoFar /\ HandoffsInOrder /\ PublicHolds
      /\ ph \in Campaign!Phases
  BY DEF CampaignInv, CampaignTyped, ScriptTyped
<1>3. ph' \in Campaign!Phases
  BY <1>1, <1>2, PhaseFacts DEF Campaign!Last
<1>4. ScriptTyped'
  BY <1>1, <1>2, <1>3 DEF ScriptTyped, InPhase, AfterPhase
<1>5. RunsBounded'
  BY <1>1, RunsKeep
<1>6. public = <<>>
  BY <1>1, <1>2 DEF PublicHolds, Campaign!Ended
<1>7. CheckedSoFar'
  <2>1. \A q \in Campaign!Phases : "handoff" \in cfiles[q] <=> q <= ph
    BY <1>1, <1>2 DEF CheckedSoFar
  <2>2. pc' = "launch" => \A q \in Campaign!Phases : "handoff" \in cfiles'[q] <=> q < ph'
    BY <1>1, <1>2, <2>1, PhaseFacts
  <2> QED
    BY <1>1, <2>2 DEF CheckedSoFar, Settling, Counting, InPhase, Publishing
<1>8. \A q \in Campaign!Phases : Campaign!HandedOff(q)' = Campaign!HandedOff(q)
  BY <1>1 DEF Campaign!HandedOff
<1>9. FilesTrue' /\ HandoffsInOrder' /\ FilesTyped' /\ PublicHolds'
  BY <1>1, <1>2, <1>6, <1>8, RecordsKeep DEF FilesTrue, HandoffsInOrder, FilesTyped, PublicHolds
<1> QED
  BY <1>1, <1>4, <1>5, <1>7, <1>9, RecordsKeep DEF CampaignInv, CampaignTyped

LEMMA OutputFacts ==
  /\ DOMAIN Campaign!Output = {"processes", "traces", "audit", "incidents", "freeze", "rebuild", "finalize"}
  /\ Campaign!Output["processes"] = "processes" /\ Campaign!Output["traces"] = "traces"
  /\ Campaign!Output["audit"] = "audit" /\ Campaign!Output["incidents"] = "incidents"
  /\ Campaign!Output["freeze"] = "frozen" /\ Campaign!Output["rebuild"] = "rebuilds"
  /\ Campaign!Output["finalize"] = "handoff"
BY DEF Campaign!Output

(* The campaign is paused, whatever of it is under way: no invariant of    *)
(* the script is left but those of its files.                              *)
LEMMA PausedKeeps ==
  ASSUME CampaignInv, UNCHANGED <<att, bound, frozen, excluded, handoff, public, run, ph>>,
         ScriptTyped', FilesTyped', RunsBounded', FilesTrue', HandoffsInOrder', pc' = "pending",
         public # <<>> => UNCHANGED <<cfiles, cvolumes>>
  PROVE  CampaignInv'
<1>1. CheckedSoFar'
  BY DEF CheckedSoFar, Settling, Counting, InPhase, Publishing
<1>2. PublicHolds'
  <2>1. public # <<>> => \A q \in Campaign!Phases : Campaign!HandedOff(q)' = Campaign!HandedOff(q)
    BY DEF Campaign!HandedOff
  <2> QED
    BY <2>1 DEF CampaignInv, PublicHolds, Campaign!Ended
<1> QED
  BY <1>1, <1>2, RecordsKeep DEF CampaignInv, CampaignTyped

(* A signal finds the command under way with half its output.              *)
LEMMA InterruptKeeps ==
  ASSUME CampaignInv, Campaign!Interrupt
  PROVE  CampaignInv'
<1> USE DEF Campaign!evidence, Campaign!final
<1>1. /\ ScriptTyped /\ FilesTyped /\ FilesTrue /\ HandoffsInOrder /\ PublicHolds
      /\ CheckedSoFar /\ RunsBounded /\ ph \in Campaign!Phases
      /\ cfiles \in [Campaign!Phases -> SUBSET Artefacts]
  BY DEF CampaignInv, CampaignTyped, ScriptTyped, FilesTyped
<1>2. /\ UNCHANGED <<att, bound, frozen, excluded, handoff, public, run, ph, inputs, products,
                     approved, cvolumes>>
      /\ pc' = "pending" /\ procs' = {} /\ agents' = FALSE /\ stops < MaxStops
      /\ stops' = stops + 1
  BY DEF Campaign!Interrupt, Campaign!Pend
<1>3. PICK torn : /\ cfiles' = [cfiles EXCEPT ![ph] = @ \cup torn] /\ gap' \in BOOLEAN
                  /\ \/ torn = {}
                     \/ pc = "finalize" /\ torn = {"handoff", "torn"}
                     \/ pc \in DOMAIN Campaign!Output /\ pc # "finalize"
                        /\ torn = {Campaign!Output[pc]}
  BY DEF Campaign!Interrupt
<1>4. /\ torn \subseteq Artefacts /\ "authority" \notin torn
      /\ "frozen" \in torn => pc = "freeze"
      /\ "handoff" \in torn <=> "torn" \in torn
      /\ "handoff" \in torn => pc = "finalize"
      /\ torn # {} => pc \notin {"release"} \cup Campaign!Ended
  BY <1>3, OutputFacts DEF Artefacts, Campaign!Outputs, Campaign!Ended
<1>5. /\ cfiles'[ph] = cfiles[ph] \cup torn
      /\ \A q \in Campaign!Phases : q # ph => cfiles'[q] = cfiles[q]
      /\ FilesTyped'
  BY <1>1, <1>3, <1>4 DEF FilesTyped
<1>6. FilesTrue'
  <2> SUFFICES ASSUME NEW q \in Campaign!Phases
               PROVE  /\ "frozen" \in cfiles'[q] => Settled(q)
                      /\ "authority" \in cfiles'[q] => bound'[q].inputs = 0
                      /\ Campaign!HandedOff(q)' => Vouched(q)
    BY RecordsKeep, <1>2 DEF FilesTrue
  <2>1. CASE q # ph
    BY <1>1, <1>2, <1>5, <2>1 DEF FilesTrue, Campaign!HandedOff
  <2>2. CASE q = ph
    <3>1. pc = "freeze" => Settled(ph)
      BY <1>1 DEF CheckedSoFar, Settling, Counting
    <3>2. Campaign!HandedOff(q)' => Campaign!HandedOff(q)
      BY <1>4, <1>5, <2>2 DEF Campaign!HandedOff
    <3> QED
      BY <1>1, <1>2, <1>4, <1>5, <2>2, <3>1, <3>2 DEF FilesTrue
  <2> QED
    BY <2>1, <2>2
<1>7. HandoffsInOrder'
  <2>1. pc = "finalize" => \A q \in Campaign!Phases : "handoff" \in cfiles[q] <=> q < ph
    BY <1>1 DEF CheckedSoFar, InPhase, Settling, Counting
  <2>2. CASE "handoff" \in torn
    <3>1. \A q \in Campaign!Phases : "handoff" \in cfiles'[q] <=> q <= ph
      BY <1>1, <1>4, <1>5, <2>1, <2>2, PhaseFacts
    <3> QED
      BY <1>1, <3>1, PhaseFacts DEF HandoffsInOrder
  <2>3. CASE "handoff" \notin torn
    <3>1. \A q \in Campaign!Phases : "handoff" \in cfiles'[q] <=> "handoff" \in cfiles[q]
      BY <1>5, <2>3
    <3> QED
      BY <1>1, <3>1 DEF HandoffsInOrder
  <2> QED
    BY <2>2, <2>3
<1>8. ScriptTyped'
  <2>1. stops' \in 0..MaxStops
    BY <1>1, <1>2, CampaignAssumption DEF ScriptTyped
  <2>2. /\ pc' \in InPhase \cup AfterPhase \cup Campaign!Ended
        /\ agents' \in BOOLEAN
    BY <1>2 DEF Campaign!Ended
  <2> QED
    BY <1>1, <1>2, <1>3, <2>1, <2>2 DEF ScriptTyped
<1>9. RunsBounded'
  <2>1. run \in Nat /\ stops \in Nat /\ Credit \in Nat
    BY <1>1, CampaignAssumption DEF ScriptTyped, Campaign!Runs, Credit
  <2>2. Credit' = Credit + 1
    <3>1. CASE approved
      BY <1>2, <2>1, <3>1 DEF Credit
    <3>2. CASE ~approved
      BY <1>2, <2>1, <3>2 DEF Credit
    <3> QED
      BY <3>1, <3>2
  <2> QED
    BY <1>1, <1>2, <2>1, <2>2 DEF RunsBounded
<1>10. public # <<>> => UNCHANGED <<cfiles, cvolumes>>
  <2>1. torn = {} => cfiles' = cfiles
    BY <1>1, <1>3
  <2> QED
    BY <1>1, <1>2, <1>4, <2>1 DEF PublicHolds
<1> QED
  BY <1>2, <1>5, <1>6, <1>7, <1>8, <1>9, <1>10, PausedKeeps

(* The runner of a phase is bound to the inputs it was started with.       *)
LEMMA StartRunnerKeeps ==
  ASSUME CampaignInv, Campaign!StartRunner
  PROVE  CampaignInv'
<1> USE DEF Campaign!final
<1>1. /\ ScriptTyped /\ FilesTyped /\ FilesTrue /\ HandoffsInOrder /\ PublicHolds
      /\ CheckedSoFar /\ RunsBounded /\ DocumentsTyped /\ ph \in Campaign!Phases
      /\ cfiles \in [Campaign!Phases -> SUBSET Artefacts]
  BY DEF CampaignInv, CampaignTyped, ScriptTyped, FilesTyped
<1>2. /\ UNCHANGED <<pc, ph, run, agents, cvolumes, att, inputs, frozen, excluded, handoff,
                     products, approved, public, stops, gap>>
      /\ pc = "run" /\ inputs = 0
      /\ procs' = (procs \ {"starting"}) \cup {"runner"}
      /\ cfiles' = [cfiles EXCEPT ![ph] = @ \cup {"authority", "db"}]
      /\ bound' = [bound EXCEPT ![ph] = Campaign!Authority]
  BY DEF Campaign!StartRunner, Campaign!Put, Campaign!ReviewGate, Campaign!PreflightInputs
<1>3. /\ Campaign!Authority.inputs = 0 /\ DOMAIN Campaign!Authority.prior = 1..(ph - 1)
  BY <1>2 DEF Campaign!Authority, Campaign!PriorHandoffs
<1>4. /\ cfiles'[ph] = cfiles[ph] \cup {"authority", "db"}
      /\ \A q \in Campaign!Phases : q # ph => cfiles'[q] = cfiles[q] /\ bound'[q] = bound[q]
      /\ bound'[ph] = Campaign!Authority /\ FilesTyped'
  BY <1>1, <1>2 DEF FilesTyped, DocumentsTyped, Artefacts
<1>5. /\ AttemptsTyped' /\ AttemptsTrue'
      /\ \A q \in Campaign!Phases : /\ Settled(q)' = Settled(q)
                                    /\ Campaign!Incidents(q)' = Campaign!Incidents(q)
  <2>1. AttemptsTyped' /\ AttemptsTrue'
    BY <1>2 DEF CampaignInv, CampaignTyped, AttemptsTyped, AttemptsTrue, AttemptTrue
  <2> QED
    BY <1>2, <2>1, SameAttempts
<1>6. DocumentsTyped'
  BY <1>1, <1>2, <1>3, <1>4 DEF DocumentsTyped
<1>7. \A q \in Campaign!Phases : "handoff" \in cfiles'[q] <=> "handoff" \in cfiles[q]
  BY <1>4
<1>8. \A q \in Campaign!Phases : Campaign!HandedOff(q)' => Campaign!HandedOff(q) /\ q # ph
  <2>1. "handoff" \notin cfiles[ph]
    BY <1>1, <1>2, PhaseFacts DEF CheckedSoFar, InPhase
  <2> QED
    BY <1>4, <2>1 DEF Campaign!HandedOff
<1>9. FilesTrue'
  <2> SUFFICES ASSUME NEW q \in Campaign!Phases
               PROVE  /\ "frozen" \in cfiles'[q] => Settled(q)'
                      /\ "authority" \in cfiles'[q] => bound'[q].inputs = 0
                      /\ Campaign!HandedOff(q)' => Vouched(q)'
    BY DEF FilesTrue
  <2>1. CASE q # ph
    BY <1>1, <1>2, <1>4, <1>5, <1>8, <2>1 DEF FilesTrue, Vouched
  <2>2. CASE q = ph
    BY <1>1, <1>3, <1>4, <1>5, <1>8, <2>2 DEF FilesTrue
  <2> QED
    BY <2>1, <2>2
<1>10. HandoffsInOrder'
  BY <1>1, <1>7 DEF HandoffsInOrder
<1>11. CheckedSoFar'
  BY <1>1, <1>2, <1>7 DEF CheckedSoFar, Settling, Counting, InPhase, Publishing
<1>12. public = <<>>
  BY <1>1, <1>2 DEF PublicHolds, Campaign!Ended
<1>13. ScriptTyped'
  BY <1>1, <1>2 DEF ScriptTyped
<1>14. RunsBounded'
  BY <1>2, RunsKeep
<1> QED
  BY <1>2, <1>4, <1>5, <1>6, <1>9, <1>10, <1>11, <1>12, <1>13, <1>14
     DEF CampaignInv, CampaignTyped, PublicHolds

LEMMA PostFacts ==
  /\ \A i \in 1..Len(Campaign!PostSteps) : Campaign!PostSteps[i] \in
       {"processes", "traces", "audit", "incidents", "freeze", "rebuild", "finalize"}
  /\ Campaign!After["processes"] = "traces" /\ Campaign!After["traces"] = "audit"
  /\ Campaign!After["audit"] = "incidents" /\ Campaign!After["incidents"] = "freeze"
  /\ Campaign!After["freeze"] = "rebuild" /\ Campaign!After["rebuild"] = "finalize"
  /\ Campaign!After["finalize"] = "restart"
BY DEF Campaign!PostSteps, Campaign!After

(* Each command of the post-processing writes its output when its check    *)
(* of the phase holds, and what the checks have established accumulates.   *)
LEMMA PostKeeps ==
  ASSUME CampaignInv, NEW i \in 1..Len(Campaign!PostSteps), Campaign!Post(Campaign!PostSteps[i])
  PROVE  CampaignInv'
<1> DEFINE step == Campaign!PostSteps[i]
           out == Campaign!Output[step]
<1>0. step \in {"processes", "traces", "audit", "incidents", "freeze", "rebuild", "finalize"}
  BY PostFacts
<1>1. /\ ScriptTyped /\ FilesTyped /\ FilesTrue /\ HandoffsInOrder /\ PublicHolds
      /\ CheckedSoFar /\ RunsBounded /\ DocumentsTyped /\ ph \in Campaign!Phases
      /\ cfiles \in [Campaign!Phases -> SUBSET Artefacts]
  BY DEF CampaignInv, CampaignTyped, ScriptTyped, FilesTyped
<1>2. /\ UNCHANGED <<ph, run, procs, agents, cvolumes, att, inputs, bound, products, approved,
                     public, stops, gap>>
      /\ pc = step /\ pc' = Campaign!After[step] /\ Campaign!Check(step)
      /\ cfiles' = [cfiles EXCEPT ![ph] = @ \cup {out}]
  BY DEF Campaign!Post, Campaign!Goto, Campaign!Put, Campaign!final
<1>3. /\ excluded' = [excluded EXCEPT ![ph] =
                        IF step = "incidents" THEN Campaign!Incidents(ph) ELSE @]
      /\ frozen' = [frozen EXCEPT ![ph] = IF step = "freeze" THEN inputs ELSE @]
      /\ handoff' = [handoff EXCEPT ![ph] =
                       IF step = "finalize" THEN Campaign!HandoffDocument(ph) ELSE @]
  BY DEF Campaign!Post, Campaign!FrozenCopy
<1> HIDE DEF step
<1>4. /\ out \in Artefacts /\ out \notin {"authority", "torn"}
      /\ out = "frozen" => step = "freeze"
      /\ out = "handoff" <=> step = "finalize"
  BY <1>0, OutputFacts DEF Artefacts, Campaign!Outputs
<1> HIDE DEF out
<1>5. /\ cfiles'[ph] = cfiles[ph] \cup {out}
      /\ \A q \in Campaign!Phases : q # ph => /\ cfiles'[q] = cfiles[q] /\ handoff'[q] = handoff[q]
                                              /\ excluded'[q] = excluded[q]
                                              /\ frozen'[q] = frozen[q]
      /\ excluded'[ph] = IF step = "incidents" THEN Campaign!Incidents(ph) ELSE excluded[ph]
      /\ frozen'[ph] = IF step = "freeze" THEN inputs ELSE frozen[ph]
      /\ handoff'[ph] = IF step = "finalize" THEN Campaign!HandoffDocument(ph) ELSE handoff[ph]
      /\ FilesTyped'
  BY <1>1, <1>2, <1>3, <1>4 DEF FilesTyped, DocumentsTyped
<1>6. step \in {"traces"} \cup Settling => Settled(ph)
  <2>1. step = "traces" => Settled(ph)
    BY <1>2 DEF Campaign!Check, Campaign!Reconstructed, Campaign!HyperlaneExact,
                Campaign!LayerZeroExact, Campaign!WorkerSettled, Settled
  <2> QED
    BY <1>1, <1>2, <2>1 DEF CheckedSoFar
<1>7. step \in {"incidents"} \cup Counting => excluded'[ph] = Campaign!Incidents(ph)
  BY <1>1, <1>2, <1>5 DEF CheckedSoFar, Counting
<1>8. step \in Counting => bound[ph].inputs = 0 /\ frozen'[ph] = 0
  <2>1. CASE step = "freeze"
    <3>1. "authority" \in cfiles[ph] /\ bound[ph] = [inputs |-> inputs, prior |-> Campaign!PriorHandoffs(ph)]
      BY <1>2, <2>1 DEF Campaign!Check, Campaign!FreezeAdmits, Campaign!PrivateRawComplete,
                        Campaign!AuthorityValid
    <3> QED
      BY <1>1, <1>5, <2>1, <3>1 DEF FilesTrue
  <2>2. CASE step \in {"rebuild", "finalize"}
    BY <1>1, <1>2, <1>5, <2>2 DEF CheckedSoFar
  <2> QED
    BY <2>1, <2>2 DEF Counting
<1>9. /\ AttemptsTyped' /\ AttemptsTrue'
      /\ \A q \in Campaign!Phases : /\ Settled(q)' = Settled(q)
                                    /\ Campaign!Incidents(q)' = Campaign!Incidents(q)
  <2>1. AttemptsTyped' /\ AttemptsTrue'
    BY <1>2 DEF CampaignInv, CampaignTyped, AttemptsTyped, AttemptsTrue, AttemptTrue
  <2> QED
    BY <1>2, <2>1, SameAttempts
<1>10. DocumentsTyped'
  <2>1. Campaign!HandoffDocument(ph).by = run /\ run \in Campaign!Runs
    BY <1>1 DEF Campaign!HandoffDocument, ScriptTyped
  <2>2. Campaign!Incidents(ph) \subseteq Campaign!Sequences(ph)
    BY DEF Campaign!Incidents
  <2>3. inputs \in {0, 1}
    BY <1>1 DEF ScriptTyped
  <2>4. /\ DOMAIN bound' = Campaign!Phases /\ DOMAIN frozen' = Campaign!Phases
        /\ DOMAIN excluded' = Campaign!Phases /\ DOMAIN handoff' = Campaign!Phases
    BY <1>1, <1>2, <1>3 DEF DocumentsTyped
  <2>5. ASSUME NEW q \in Campaign!Phases
        PROVE  /\ frozen'[q] \in {-1, 0, 1} /\ excluded'[q] \subseteq Campaign!Sequences(q)
               /\ handoff'[q].by \in Campaign!Runs \cup {0}
    <3>1. CASE q = ph
      BY <1>1, <1>5, <2>1, <2>2, <2>3, <3>1 DEF DocumentsTyped
    <3>2. CASE q # ph
      BY <1>1, <1>5, <3>2 DEF DocumentsTyped
    <3> QED
      BY <3>1, <3>2
  <2> QED
    BY <1>1, <1>2, <2>4, <2>5 DEF DocumentsTyped
<1>11. step \in InPhase /\ step # "restart" /\ \A q \in Campaign!Phases : "handoff" \in cfiles[q] <=> q < ph
  <2>1. step \in InPhase /\ step # "restart"
    BY <1>0 DEF InPhase, Settling, Counting
  <2> QED
    BY <1>1, <1>2, <2>1 DEF CheckedSoFar
<1>12. \A q \in Campaign!Phases : Campaign!HandedOff(q)' =>
          \/ q # ph /\ Campaign!HandedOff(q)
          \/ q = ph /\ step = "finalize"
  BY <1>1, <1>4, <1>5, <1>11, PhaseFacts DEF Campaign!HandedOff
<1>13. FilesTrue'
  <2> SUFFICES ASSUME NEW q \in Campaign!Phases
               PROVE  /\ "frozen" \in cfiles'[q] => Settled(q)'
                      /\ "authority" \in cfiles'[q] => bound'[q].inputs = 0
                      /\ Campaign!HandedOff(q)' => Vouched(q)'
    BY DEF FilesTrue
  <2>1. CASE q # ph
    BY <1>1, <1>2, <1>5, <1>9, <1>12, <2>1 DEF FilesTrue, Vouched
  <2>2. CASE q = ph
    <3>1. step = "freeze" => Settled(ph)
      BY <1>6 DEF Settling, Counting
    <3>2. step = "finalize" => Vouched(q)'
      BY <1>2, <2>2, <1>6, <1>7, <1>8, <1>9 DEF Vouched, Settling, Counting
    <3> QED
      BY <1>1, <1>2, <1>4, <1>5, <1>9, <1>12, <2>2, <3>1, <3>2 DEF FilesTrue
  <2> QED
    BY <2>1, <2>2
<1>14. CheckedSoFar' /\ HandoffsInOrder'
  <2>1. /\ pc' \in Settling => Settled(ph)'
        /\ pc' \in Counting => excluded'[ph] = Campaign!Incidents(ph)'
        /\ pc' \in {"rebuild", "finalize"} => bound'[ph].inputs = 0 /\ frozen'[ph] = 0
        /\ pc' \notin Publishing
        /\ pc' = "restart" <=> step = "finalize"
        /\ pc' \in InPhase <=> step # "finalize"
    BY <1>0, <1>2, <1>6, <1>7, <1>8, <1>9, PostFacts, <1>1
       DEF InPhase, Settling, Counting, Publishing
  <2>2. \A q \in Campaign!Phases : "handoff" \in cfiles'[q] <=>
            IF step = "finalize" THEN q <= ph ELSE q < ph
    BY <1>1, <1>4, <1>5, <1>11, PhaseFacts
  <2>3. CheckedSoFar'
    BY <1>2, <2>1, <2>2 DEF CheckedSoFar
  <2>4. HandoffsInOrder'
    BY <1>1, <2>2, PhaseFacts DEF HandoffsInOrder
  <2> QED
    BY <2>3, <2>4
<1>15. public = <<>>
  BY <1>1, <1>2, <1>0 DEF PublicHolds, Campaign!Ended
<1>16. ScriptTyped' /\ RunsBounded'
  <2>1. pc' \in InPhase \cup AfterPhase /\ pc' \notin {"drain", "pending"}
    BY <1>0, <1>2, PostFacts DEF InPhase, AfterPhase, Settling, Counting
  <2> QED
    BY <1>1, <1>2, <2>1, RunsKeep DEF ScriptTyped
<1> QED
  BY <1>2, <1>5, <1>9, <1>10, <1>13, <1>14, <1>15, <1>16
     DEF CampaignInv, CampaignTyped, PublicHolds

(* The public tree is renamed into place, of phases that were handed off.  *)
LEMMA SyncKeeps ==
  ASSUME CampaignInv, Campaign!Sync
  PROVE  CampaignInv'
<1>1. /\ ScriptTyped /\ FilesTyped /\ FilesTrue /\ HandoffsInOrder /\ CheckedSoFar
  BY DEF CampaignInv, CampaignTyped
<1>2. /\ UNCHANGED <<ph, run, cfiles, att, inputs, bound, frozen, excluded, handoff, products,
                     approved, stops, gap, procs, agents, cvolumes>>
      /\ pc = "sync" /\ pc' = "release" /\ Campaign!ChainHolds
      /\ public' = [p \in Campaign!Phases |-> handoff[p]]
  BY DEF Campaign!Sync, Campaign!evidence, Campaign!Goto
<1>3. ~cvolumes
  BY <1>1, <1>2 DEF CheckedSoFar, Publishing
<1>4. ASSUME NEW p \in Campaign!Phases
      PROVE  /\ Campaign!HandedOff(p)' /\ public'[p] = handoff'[p]
             /\ public'[p].prior = [q \in 1..(p - 1) |-> public'[q].by]
  <2>1. Campaign!HandedOff(p)' /\ handoff[p].prior = Campaign!PriorHandoffs(p)
    BY <1>2 DEF Campaign!ChainHolds, Campaign!HandedOff
  <2>2. \A q \in 1..(p - 1) : public'[q] = handoff[q]
    BY <1>2, PhaseFacts
  <2>3. Campaign!PriorHandoffs(p) = [q \in 1..(p - 1) |-> public'[q].by]
    BY <2>2 DEF Campaign!PriorHandoffs
  <2> QED
    BY <1>2, <2>1, <2>3
<1>5. PublicHolds'
  BY <1>2, <1>3, <1>4 DEF PublicHolds
<1>6. ScriptTyped' /\ RunsBounded'
  BY <1>1, <1>2, RunsKeep DEF ScriptTyped, AfterPhase, Publishing
<1>7. \A q \in Campaign!Phases : Campaign!HandedOff(q)' = Campaign!HandedOff(q)
  BY <1>2 DEF Campaign!HandedOff
<1>8. FilesTrue' /\ HandoffsInOrder' /\ FilesTyped'
  BY <1>1, <1>2, <1>7, RecordsKeep DEF FilesTrue, HandoffsInOrder, FilesTyped
<1>9. CheckedSoFar'
  BY <1>2, <1>3 DEF CheckedSoFar, Settling, Counting, InPhase
<1> QED
  BY <1>2, <1>5, <1>6, <1>8, <1>9, RecordsKeep DEF CampaignInv, CampaignTyped

(* Attempts move on, those of settled phases do not.                       *)
LEMMA SettledStay ==
  ASSUME \A q \in Campaign!Phases : Settled(q) => att'[q] = att[q],
         UNCHANGED <<bound, frozen, excluded>>
  PROVE  \A q \in Campaign!Phases :
            /\ Settled(q) => Settled(q)' /\ Campaign!Incidents(q)' = Campaign!Incidents(q)
            /\ Vouched(q) => Vouched(q)'
BY SameAttempts DEF Vouched

LEMMA AttemptKeeps ==
  ASSUME CampaignInv, NEW p \in Campaign!Phases, NEW a \in Campaign!Planned(p),
         NEW r \in Records, AttemptTrue(r), ~Settled(p),
         att' = [att EXCEPT ![p] = [@ EXCEPT ![a] = r]], Campaign!Working
  PROVE  CampaignInv'
<1>1. /\ ScriptTyped /\ FilesTyped /\ FilesTrue /\ HandoffsInOrder /\ CheckedSoFar
      /\ AttemptsTyped /\ AttemptsTrue /\ DocumentsTyped /\ PublicHolds /\ RunsBounded
      /\ ph \in Campaign!Phases
  BY DEF CampaignInv, CampaignTyped, ScriptTyped
<1>2. UNCHANGED <<pc, ph, run, cfiles, procs, agents, cvolumes, inputs, bound, frozen, excluded,
                  handoff, products, approved, public, stops, gap>>
  BY DEF Campaign!Working, Campaign!final
<1>3. /\ DOMAIN att' = Campaign!Phases
      /\ att'[p] = [att[p] EXCEPT ![a] = r]
      /\ \A q \in Campaign!Phases : q # p => att'[q] = att[q]
  BY <1>1 DEF AttemptsTyped
<1>4. AttemptsTyped'
  BY <1>1, <1>3 DEF AttemptsTyped
<1>5. AttemptsTrue'
  <2>1. ASSUME NEW q \in Campaign!Phases, NEW b \in Campaign!Planned(q)
        PROVE  att'[q][b] = r \/ att'[q][b] = att[q][b]
    BY <1>1, <1>3 DEF AttemptsTyped
  <2>2. ASSUME NEW q \in Campaign!Phases, NEW b \in Campaign!Planned(q)
        PROVE  AttemptTrue(att'[q][b])
    BY <1>1, <2>1 DEF AttemptsTrue
  <2> QED
    BY <1>2, <2>2 DEF AttemptsTrue, AttemptTrue
<1>6. \A q \in Campaign!Phases :
        /\ Settled(q) => Settled(q)' /\ Campaign!Incidents(q)' = Campaign!Incidents(q)
        /\ Vouched(q) => Vouched(q)'
  BY <1>2, <1>3, SettledStay
<1>7. \A q \in Campaign!Phases : Campaign!HandedOff(q)' = Campaign!HandedOff(q)
  BY <1>2 DEF Campaign!HandedOff
<1>8. FilesTrue' /\ HandoffsInOrder' /\ FilesTyped'
  BY <1>1, <1>2, <1>6, <1>7 DEF FilesTrue, HandoffsInOrder, FilesTyped
<1>9. CheckedSoFar'
  <2>1. pc \in Counting => pc \in Settling
    BY DEF Settling
  <2> QED
    BY <1>1, <1>2, <1>6, <2>1 DEF CheckedSoFar
<1>10. PublicHolds' /\ RunsBounded'
  BY <1>1, <1>2, <1>7 DEF PublicHolds, RunsBounded, Credit, Campaign!ProductsComplete
<1>11. ScriptTyped' /\ DocumentsTyped'
  BY <1>1, <1>2 DEF ScriptTyped, DocumentsTyped
<1> QED
  BY <1>4, <1>5, <1>8, <1>9, <1>10, <1>11 DEF CampaignInv, CampaignTyped

(* The steps of an attempt of the phase.  An execution that carries it on  *)
(* is not before the one that began it, which recorded an event.           *)
LEMMA AttemptStepsKeep ==
  ASSUME CampaignInv, NEW a \in Campaign!Planned(ph),
         \/ Campaign!Intend(a) \/ Campaign!Dispatch(a) \/ Campaign!Carry(a) \/ Campaign!Mine(a)
         \/ Campaign!ObservePending(a) \/ Campaign!ObserveMined(a) \/ Campaign!Deliver(a)
         \/ Campaign!Succeed(a)
  PROVE  CampaignInv'
<1>1. /\ ph \in Campaign!Phases /\ run \in Campaign!Runs /\ run \in Nat
      /\ att[ph][a] \in Records /\ AttemptTrue(att[ph][a])
  BY CampaignAssumption
     DEF CampaignInv, CampaignTyped, ScriptTyped, AttemptsTyped, AttemptsTrue, Campaign!Runs
<1> DEFINE old == att[ph][a]
<1>2. /\ old.st \in 0..6 /\ old.orphan \in BOOLEAN /\ old.span \subseteq Campaign!Runs
      /\ old.ev \subseteq Campaign!Runs /\ old.sub \subseteq Campaign!Runs
      /\ old.fin \subseteq Campaign!Runs
  BY <1>1 DEF Records
<1>3. Campaign!Runs \subseteq Nat
  BY DEF Campaign!Runs
<1>4. old.st # 6 => ~Settled(ph)
  BY DEF Settled, Campaign!AttemptsExact
<1>5. ASSUME NEW r \in Records, AttemptTrue(r), ~Settled(ph), Campaign!Set(a, r), Campaign!Working
      PROVE  CampaignInv'
  BY <1>1, <1>5, AttemptKeeps DEF Campaign!Set
<1>6. ASSUME NEW n \in 0..6
      PROVE  /\ Campaign!Step(a, n) \in Records /\ Campaign!Step(a, n).st = n
             /\ Campaign!Step(a, n).ev = old.ev
             /\ Campaign!Step(a, n).span = old.span \cup {run}
  BY <1>1 DEF Records, Campaign!Step, Campaign!Here
<1>7. Campaign!Identity = {run}
  BY DEF Campaign!Identity
<1>8. ASSUME NEW r \in Records, old.st \in 1..5, r.st \in 1..5, r.ev = old.ev,
             r.span = old.span \cup {run}
      PROVE  AttemptTrue(r)
  <2>1. PICK first \in old.ev : \A e \in old.span : first <= e
    BY <1>1, <1>8 DEF AttemptTrue
  <2>2. first \in old.span /\ first <= run
    BY <1>1, <2>1 DEF AttemptTrue
  <2> QED
    BY <1>1, <1>8, <2>1, <2>2 DEF AttemptTrue
<1>9. ASSUME NEW r \in Records, r.st = old.st, r.ev = old.ev, r.span = old.span
      PROVE  AttemptTrue(r)
  BY <1>1, <1>9 DEF AttemptTrue
<1>10. CASE Campaign!Intend(a)
  <2> DEFINE r == [Campaign!Step(a, 1) EXCEPT !.ev = @ \union Campaign!Identity]
  <2>1. old.st = 0 /\ Campaign!Set(a, r) /\ Campaign!Working
    BY <1>10 DEF Campaign!Intend, Campaign!Here
  <2>2. r \in Records /\ r.st = 1 /\ r.ev = old.ev \cup {run} /\ r.span = old.span \cup {run}
    BY <1>1, <1>6, <1>7 DEF Records
  <2> HIDE DEF r
  <2>3. r.ev = {run} /\ r.span = {run}
    BY <1>1, <2>1, <2>2 DEF AttemptTrue
  <2>4. AttemptTrue(r)
    BY <1>1, <2>2, <2>3 DEF AttemptTrue
  <2> QED
    BY <1>4, <1>5, <2>1, <2>2, <2>4
<1>11. CASE Campaign!Dispatch(a)
  <2> DEFINE r == Campaign!Step(a, 2)
  <2>1. old.st = 1 /\ Campaign!Set(a, r) /\ Campaign!Working
    BY <1>11 DEF Campaign!Dispatch, Campaign!Here
  <2>2. r \in Records /\ r.st = 2 /\ r.ev = old.ev /\ r.span = old.span \cup {run}
    BY <1>1, <1>6, <1>7 DEF Records
  <2> HIDE DEF r
  <2> QED
    BY <1>4, <1>5, <1>8, <2>1, <2>2
<1>12. CASE Campaign!Carry(a)
  <2> DEFINE r == [Campaign!Step(a, 3) EXCEPT
                     !.sub = IF a[2] = "L" THEN @ \union Campaign!Identity ELSE @]
  <2>1. old.st = 2 /\ Campaign!Set(a, r) /\ Campaign!Working
    BY <1>12 DEF Campaign!Carry, Campaign!Here
  <2>2. r \in Records /\ r.st = 3 /\ r.ev = old.ev /\ r.span = old.span \cup {run}
    BY <1>1, <1>6, <1>7 DEF Records
  <2> HIDE DEF r
  <2> QED
    BY <1>4, <1>5, <1>8, <2>1, <2>2
<1>13. CASE Campaign!Mine(a)
  <2> DEFINE r == Campaign!Step(a, 4)
  <2>1. old.st = 3 /\ Campaign!Set(a, r) /\ Campaign!Working
    BY <1>13 DEF Campaign!Mine, Campaign!Here
  <2>2. r \in Records /\ r.st = 4 /\ r.ev = old.ev /\ r.span = old.span \cup {run}
    BY <1>1, <1>6, <1>7 DEF Records
  <2> HIDE DEF r
  <2> QED
    BY <1>4, <1>5, <1>8, <2>1, <2>2
<1>14. CASE Campaign!ObservePending(a)
  <2> DEFINE r == [att[ph][a] EXCEPT !.sub = Campaign!Identity]
  <2>1. old.st = 3 /\ Campaign!Set(a, r) /\ Campaign!Working
    BY <1>14 DEF Campaign!ObservePending, Campaign!Here
  <2>2. r \in Records /\ r.st = old.st /\ r.ev = old.ev /\ r.span = old.span
    BY <1>1, <1>6, <1>7 DEF Records
  <2> HIDE DEF r
  <2> QED
    BY <1>4, <1>5, <1>9, <2>1, <2>2
<1>15. CASE Campaign!ObserveMined(a)
  <2> DEFINE r == [att[ph][a] EXCEPT !.sub = IF @ = {} THEN Campaign!Identity ELSE @,
                                     !.fin = Campaign!Identity]
  <2>1. a[2] = "H" /\ old.fin = {} /\ Campaign!Set(a, r) /\ Campaign!Working
    BY <1>15 DEF Campaign!ObserveMined, Campaign!Here
  <2>2. r \in Records /\ r.st = old.st /\ r.ev = old.ev /\ r.span = old.span
    BY <1>1, <1>6, <1>7 DEF Records
  <2> HIDE DEF r
  <2>3. ~Settled(ph)
    BY <2>1 DEF Settled, Campaign!Scanned, Campaign!Hyperlane
  <2> QED
    BY <1>5, <1>9, <2>1, <2>2, <2>3
<1>16. CASE Campaign!Deliver(a)
  <2> DEFINE r == Campaign!Step(a, 5)
  <2>1. old.st = 4 /\ Campaign!Set(a, r) /\ Campaign!Working
    BY <1>16 DEF Campaign!Deliver, Campaign!Here
  <2>2. r \in Records /\ r.st = 5 /\ r.ev = old.ev /\ r.span = old.span \cup {run}
    BY <1>1, <1>6, <1>7 DEF Records
  <2> HIDE DEF r
  <2> QED
    BY <1>4, <1>5, <1>8, <2>1, <2>2
<1>17. CASE Campaign!Succeed(a)
  <2> DEFINE r == [Campaign!Step(a, 6) EXCEPT !.ev = @ \union Campaign!Identity]
  <2>1. old.st = 5 /\ Campaign!Set(a, r) /\ Campaign!Working
    BY <1>17 DEF Campaign!Succeed, Campaign!Here
  <2>2. r \in Records /\ r.st = 6 /\ r.ev = old.ev \cup {run} /\ r.span = old.span \cup {run}
    BY <1>1, <1>6, <1>7 DEF Records
  <2> HIDE DEF r
  <2>3. PICK first \in old.ev : \A e \in old.span : first <= e
    BY <1>1, <2>1 DEF AttemptTrue
  <2>4. first \in old.span /\ first <= run /\ \A e \in old.span : e <= run
    BY <1>1, <2>3 DEF AttemptTrue
  <2>5. AttemptTrue(r)
    BY <1>1, <2>2, <2>3, <2>4 DEF AttemptTrue
  <2> QED
    BY <1>4, <1>5, <2>1, <2>2, <2>5
<1> QED
  BY <1>10, <1>11, <1>12, <1>13, <1>14, <1>15, <1>16, <1>17

(* The worker records a success in any phase, while it has not yet.        *)
LEMMA RecordSuccessKeeps ==
  ASSUME CampaignInv, NEW p \in Campaign!Phases, NEW a \in Campaign!LayerZero(p),
         Campaign!RecordSuccess(p, a)
  PROVE  CampaignInv'
<1> DEFINE r == [att[p][a] EXCEPT !.fin = {run}]
<1>1. /\ run \in Campaign!Runs /\ a \in Campaign!Planned(p) /\ att[p][a] \in Records
      /\ att[p] \in [Campaign!Planned(p) -> Records] /\ AttemptTrue(att[p][a])
  BY DEF CampaignInv, CampaignTyped, ScriptTyped, AttemptsTyped, AttemptsTrue, Campaign!LayerZero
<1>2. /\ att[p][a].fin = {} /\ Campaign!Working
      /\ att' = [att EXCEPT ![p] = [@ EXCEPT ![a] = r]]
  BY DEF Campaign!RecordSuccess, Campaign!Identity
<1>3. r \in Records /\ AttemptTrue(r)
  BY <1>1 DEF Records, AttemptTrue
<1>4. ~Settled(p)
  BY <1>2 DEF Settled, Campaign!WorkerSettled
<1> QED
  BY <1>1, <1>2, <1>3, <1>4, AttemptKeeps

(* A set of numbers has a least one.                                       *)
LEMMA LeastPhase ==
  ASSUME NEW S \in SUBSET Nat, S # {}
  PROVE  \E x \in S : \A y \in S : x <= y
<1> DEFINE R == {ss \in Nat \X Nat : ss[1] < ss[2]}
<1>1. IsWellFoundedOn(R, Nat)
  BY NatLessThanWellFounded, Zenon DEF OpToRel
<1> HIDE DEF R
<1>2. PICK x \in S : \A y \in S : ~(<<y, x>> \in R)
  BY <1>1, WFMin
<1>3. ASSUME NEW y \in S PROVE x <= y
  <2>1. x \in Nat /\ y \in Nat
    OBVIOUS
  <2>2. ~(<<y, x>>[1] < <<y, x>>[2])
    BY <1>2, <2>1 DEF R
  <2> QED BY <2>1, <2>2
<1> QED BY <1>3

(* Nothing of a settled phase is lost with a pool.                         *)
LEMMA ResumeLeavesSettled ==
  ASSUME CampaignInv, Campaign!Resume, NEW q \in Campaign!Phases, Settled(q)
  PROVE  att'[q] = att[q]
<1> DEFINE todo == {r \in Campaign!Phases : "handoff" \notin cfiles[r]}
           p == IF todo = {} THEN Campaign!Last
                ELSE CHOOSE x \in todo : \A r \in todo : x <= r
<1>1. PICK lost \in SUBSET {a \in Campaign!Hyperlane(p) : att[p][a].st = 3} :
        att' = [att EXCEPT ![p] =
                  [a \in Campaign!Planned(p) |-> IF a \in lost THEN Campaign!Lost(@[a]) ELSE @[a]]]
  BY DEF Campaign!Resume
<1> HIDE DEF p
<1>2. q \in DOMAIN att /\ att[q] \in [Campaign!Planned(q) -> Records]
  BY DEF CampaignInv, CampaignTyped, AttemptsTyped
<1>3. p = q => lost = {}
  BY <1>1 DEF Settled, Campaign!AttemptsExact, Campaign!Hyperlane
<1>4. CASE p = q
  BY <1>1, <1>2, <1>3, <1>4
<1>5. CASE p # q
  BY <1>1, <1>2, <1>5
<1> QED
  BY <1>4, <1>5

(* A resumption goes to the first phase without a handoff.  Relayer        *)
(* transactions that were lost with a pool are carried again: no attempt   *)
(* of a settled phase is among them.                                       *)
LEMMA ResumeKeeps ==
  ASSUME CampaignInv, Campaign!Resume
  PROVE  CampaignInv'
<1> DEFINE todo == {p \in Campaign!Phases : "handoff" \notin cfiles[p]}
           p == IF todo = {} THEN Campaign!Last
                ELSE CHOOSE q \in todo : \A r \in todo : q <= r
<1>1. /\ ScriptTyped /\ FilesTyped /\ FilesTrue /\ HandoffsInOrder /\ CheckedSoFar
      /\ AttemptsTyped /\ AttemptsTrue /\ DocumentsTyped /\ PublicHolds /\ RunsBounded
      /\ run \in Campaign!Runs /\ run \in Nat
  BY CampaignAssumption DEF CampaignInv, CampaignTyped, ScriptTyped, Campaign!Runs
<1>2. /\ UNCHANGED <<cfiles, procs, cvolumes, inputs, bound, frozen, excluded, handoff, products,
                     approved, public, stops>>
      /\ pc = "pending" /\ cvolumes /\ run' = run + 1 /\ agents' = TRUE /\ gap' \in BOOLEAN
      /\ Campaign!ProductsComplete => approved
      /\ ph' = p /\ pc' = IF todo = {} THEN "figures" ELSE "launch"
  BY DEF Campaign!Resume, Campaign!final
<1>3. PICK lost \in SUBSET {a \in Campaign!Hyperlane(p) : att[p][a].st = 3} :
        att' = [att EXCEPT ![p] =
                  [a \in Campaign!Planned(p) |-> IF a \in lost THEN Campaign!Lost(@[a]) ELSE @[a]]]
  BY DEF Campaign!Resume
<1>4. /\ p \in Campaign!Phases
      /\ todo # {} => p \in todo /\ \A r \in todo : p <= r
  <2>1. todo \subseteq Nat /\ todo \subseteq Campaign!Phases
    BY PhaseFacts
  <2>2. todo # {} => \E x \in todo : \A r \in todo : x <= r
    BY <2>1, LeastPhase
  <2> HIDE DEF todo
  <2> QED
    BY <2>1, <2>2, PhaseFacts
<1>5. todo # {} => \A q \in Campaign!Phases : "handoff" \in cfiles[q] <=> q < p
  <2> SUFFICES ASSUME todo # {}, NEW q \in Campaign!Phases
               PROVE  "handoff" \in cfiles[q] <=> q < p
    OBVIOUS
  <2>1. p \in todo /\ (\A r \in todo : p <= r) /\ p \in Nat /\ q \in Nat
    BY <1>4, PhaseFacts
  <2>2. "handoff" \notin cfiles[p]
    BY <2>1
  <2>3. "handoff" \notin cfiles[q] => p <= q
    BY <2>1
  <2> HIDE DEF p
  <2>4. p < q /\ "handoff" \in cfiles[q] => "handoff" \in cfiles[p]
    BY <1>1, <1>4 DEF HandoffsInOrder
  <2>5. p = q => "handoff" \notin cfiles[q]
    BY <2>2
  <2> QED
    BY <2>1, <2>2, <2>3, <2>4, <2>5
<1>6. CheckedSoFar'
  BY <1>2, <1>5 DEF CheckedSoFar, Settling, Counting, InPhase, Publishing
<1>7. RunsBounded' /\ run' \in Campaign!Runs
  <2>1. stops \in 0..MaxStops /\ MaxStops \in Nat
    BY <1>1, CampaignAssumption DEF ScriptTyped
  <2>2. Credit \in Nat /\ Credit' = Credit /\ Credit <= MaxStops + 1
    <3>1. CASE approved
      BY <1>2, <2>1, <3>1 DEF Credit
    <3>2. CASE ~approved
      BY <1>2, <2>1, <3>2 DEF Credit
    <3> QED
      BY <3>1, <3>2
  <2>3. run <= Credit
    BY <1>1, <1>2 DEF RunsBounded
  <2>4. run' <= 1 + Credit'
    BY <1>1, <1>2, <2>2, <2>3
  <2>5. pc' # "drain" /\ pc' # "pending"
    BY <1>2
  <2>6. RunsBounded'
    BY <2>4, <2>5 DEF RunsBounded
  <2> QED
    BY <1>1, <1>2, <2>1, <2>2, <2>4, <2>6 DEF Campaign!Runs
<1>8. public = <<>>
  BY <1>1, <1>2 DEF PublicHolds
<1>9. ScriptTyped'
  BY <1>1, <1>2, <1>4, <1>7 DEF ScriptTyped, InPhase, AfterPhase
<1> HIDE DEF p
<1>10. /\ DOMAIN att' = Campaign!Phases
       /\ \A q \in Campaign!Phases : q # p => att'[q] = att[q]
       /\ att'[p] = [a \in Campaign!Planned(p) |->
                       IF a \in lost THEN Campaign!Lost(att[p][a]) ELSE att[p][a]]
  BY <1>1, <1>3, <1>4 DEF AttemptsTyped
<1>11. ASSUME NEW a \in lost
       PROVE  /\ a \in Campaign!Planned(p) /\ att[p][a].st = 3
              /\ Campaign!Lost(att[p][a]) \in Records /\ Campaign!Lost(att[p][a]).st = 2
              /\ Campaign!Lost(att[p][a]).ev = att[p][a].ev
              /\ Campaign!Lost(att[p][a]).span = att[p][a].span
  <2>1. a \in Campaign!Planned(p) /\ att[p][a].st = 3
    BY <1>3 DEF Campaign!Hyperlane
  <2> DEFINE r == att[p][a]
  <2>2. r \in Records
    BY <1>1, <1>4, <2>1 DEF AttemptsTyped
  <2>3. Campaign!Lost(r) = [r EXCEPT !.st = 2, !.orphan = (r.orphan \/ r.sub # {}), !.sub = {}]
    BY DEF Campaign!Lost
  <2>4. (r.orphan \/ r.sub # {}) \in BOOLEAN
    OBVIOUS
  <2> HIDE DEF r
  <2>5. PICK orphaned \in BOOLEAN :
          Campaign!Lost(r) = [r EXCEPT !.st = 2, !.orphan = orphaned, !.sub = {}]
    BY <2>3, <2>4
  <2>6. Campaign!Lost(r) = [st |-> 2, span |-> r.span, ev |-> r.ev, sub |-> {}, fin |-> r.fin,
                            orphan |-> orphaned]
    BY <2>2, <2>5 DEF Records
  <2>7. Campaign!Lost(r) \in Records /\ Campaign!Lost(r).st = 2
        /\ Campaign!Lost(r).ev = r.ev /\ Campaign!Lost(r).span = r.span
    BY <2>2, <2>6 DEF Records
  <2> QED
    BY <2>1, <2>7 DEF r
<1>12. AttemptsTyped'
  BY <1>1, <1>4, <1>10, <1>11 DEF AttemptsTyped
<1>13. AttemptsTrue'
  <2> SUFFICES ASSUME NEW q \in Campaign!Phases, NEW a \in Campaign!Planned(q)
               PROVE  AttemptTrue(att[q][a])'
    BY DEF AttemptsTrue
  <2>1. AttemptTrue(att[q][a]) /\ att[q][a] \in Records
    BY <1>1 DEF AttemptsTrue, AttemptsTyped
  <2>2. \A e \in att[q][a].span : e \in Nat /\ e <= run + 1
    BY <1>1, <2>1 DEF AttemptTrue, Records, Campaign!Runs
  <2>3. CASE q = p /\ a \in lost
    <3>1. att'[q][a] = Campaign!Lost(att[q][a])
      BY <1>10, <1>11, <2>3
    <3>2. /\ att'[q][a].st = 2 /\ att[q][a].st = 3 /\ att'[q][a].ev = att[q][a].ev
          /\ att'[q][a].span = att[q][a].span
      BY <1>11, <2>3, <3>1
    <3> QED
      BY <1>2, <2>1, <2>2, <3>2 DEF AttemptTrue
  <2>4. CASE ~(q = p /\ a \in lost)
    <3>1. att'[q][a] = att[q][a]
      BY <1>10, <2>4
    <3> QED
      BY <1>2, <2>1, <2>2, <3>1 DEF AttemptTrue
  <2> QED
    BY <2>3, <2>4
<1>14. \A q \in Campaign!Phases : Settled(q) => att'[q] = att[q]
  BY ResumeLeavesSettled
<1>15. \A q \in Campaign!Phases : Settled(q) => Settled(q)' /\ (Vouched(q) => Vouched(q)')
  BY <1>2, <1>14, SettledStay
<1>16. \A q \in Campaign!Phases : Campaign!HandedOff(q)' = Campaign!HandedOff(q)
  BY <1>2 DEF Campaign!HandedOff
<1>17. FilesTrue'
  BY <1>1, <1>2, <1>15, <1>16 DEF FilesTrue, Vouched
<1>18. HandoffsInOrder' /\ FilesTyped' /\ DocumentsTyped' /\ PublicHolds'
  BY <1>1, <1>2, <1>8 DEF HandoffsInOrder, FilesTyped, DocumentsTyped, PublicHolds
<1> QED
  BY <1>6, <1>7, <1>9, <1>12, <1>13, <1>17, <1>18 DEF CampaignInv, CampaignTyped

(* Nothing has been run, bound or handed off.                              *)
LEMMA CampaignInit ==
  ASSUME Campaign!Init
  PROVE  CampaignInv
<1> USE DEF Campaign!Init
<1>1. 1 \in Campaign!Phases /\ 1 \in Campaign!Runs
  BY PhaseFacts, CampaignAssumption DEF Campaign!Runs
<1>2. FilesTyped /\ ScriptTyped
  <2>1. FilesTyped
    BY DEF FilesTyped
  <2>2. pc \in InPhase /\ ph \in Campaign!Phases /\ run \in Campaign!Runs
    BY <1>1 DEF InPhase
  <2>3. stops \in 0..MaxStops
    BY CampaignAssumption
  <2>4. /\ procs \subseteq {"observer", "monitor", "starting", "runner"}
        /\ products \subseteq {"gateway", "figures"} /\ inputs \in {0, 1}
    OBVIOUS
  <2>5. /\ agents \in BOOLEAN /\ cvolumes \in BOOLEAN
        /\ approved \in BOOLEAN /\ gap \in BOOLEAN
    OBVIOUS
  <2> QED
    BY <2>1, <2>2, <2>3, <2>4, <2>5 DEF ScriptTyped
<1>3. AttemptsTyped
  <2>1. Campaign!Fresh \in Records
    BY DEF Campaign!Fresh, Records
  <2> QED
    BY <2>1 DEF AttemptsTyped
<1>4. DocumentsTyped
  BY DEF DocumentsTyped, Campaign!NoAuthority, Campaign!None
<1>5. AttemptsTrue
  <2>1. AttemptTrue(Campaign!Fresh)
    BY DEF AttemptTrue, Campaign!Fresh
  <2> QED
    BY <2>1 DEF AttemptsTrue
<1>6. FilesTrue /\ HandoffsInOrder /\ PublicHolds
  BY DEF FilesTrue, HandoffsInOrder, PublicHolds, Campaign!HandedOff
<1>7. CheckedSoFar
  BY PhaseFacts DEF CheckedSoFar, Settling, Counting, InPhase, Publishing
<1>8. RunsBounded
  BY DEF RunsBounded, Credit
<1> QED
  BY <1>2, <1>3, <1>4, <1>5, <1>6, <1>7, <1>8 DEF CampaignInv, CampaignTyped

(* Every step of the script, of the processes it runs, of its operator and *)
(* every fault keeps the invariant.                                        *)
LEMMA CampaignNext ==
  ASSUME CampaignInv, Campaign!Next
  PROVE  CampaignInv'
<1>1. CASE Campaign!Script
  BY <1>1, TrapsKeep, QuietStepsKeep, FileStepsKeep, StartRunnerKeeps, NextPhaseKeeps, PostKeeps,
     SyncKeeps DEF Campaign!Script
<1>2. CASE Campaign!Attempt
  BY <1>2, AttemptStepsKeep DEF Campaign!Attempt
<1>3. CASE Campaign!Worker
  BY <1>3, RecordSuccessKeeps DEF Campaign!Worker
<1>4. CASE Campaign!Operator
  BY <1>4, ApproveKeeps, ResumeKeeps, TrapsKeep DEF Campaign!Operator
<1>5. CASE Campaign!Fault
  BY <1>5, QuietStepsKeep, InterruptKeeps, TrapsKeep DEF Campaign!Fault
<1> QED
  BY <1>1, <1>2, <1>3, <1>4, <1>5 DEF Campaign!Next

LEMMA CampaignStutter ==
  ASSUME CampaignInv, UNCHANGED cvars
  PROVE  CampaignInv'
<1>1. UNCHANGED <<pc, ph, run, cfiles, procs, agents, cvolumes, att, inputs, bound, frozen,
                  excluded, handoff, products, approved, public, stops, gap>>
  BY DEF cvars
<1>2. ScriptTyped' /\ RunsBounded'
  BY <1>1 DEF CampaignInv, CampaignTyped, ScriptTyped, RunsBounded, Credit,
              Campaign!ProductsComplete
<1>3. /\ pc' \in Publishing => ~cvolumes'
      /\ public # <<>> => ~cvolumes' /\ pc' \in {"release"} \cup Campaign!Ended
  BY <1>1 DEF CampaignInv, CheckedSoFar, PublicHolds
<1> QED
  BY <1>1, <1>2, <1>3, QuietKeeps

(* No step of anybody moves an attempt of a settled phase: the script and  *)
(* its faults leave attempts alone, a step of an attempt or an observation *)
(* of it finds it unfinished.                                              *)
LEMMA SettledFinal ==
  ASSUME CampaignInv, Campaign!Next, NEW q \in Campaign!Phases, Settled(q)
  PROVE  att'[q] = att[q]
<1>1. q \in DOMAIN att /\ ph \in Campaign!Phases
  BY DEF CampaignInv, CampaignTyped, AttemptsTyped, ScriptTyped
<1>2. \A a \in Campaign!Planned(q) : att[q][a].st = 6
  BY DEF Settled, Campaign!AttemptsExact
<1>3. ASSUME NEW a \in Campaign!Planned(ph), NEW r, Campaign!Set(a, r),
             att[ph][a].st # 6 \/ (a[2] = "H" /\ att[ph][a].fin = {})
      PROVE  att'[q] = att[q]
  <2>1. ph # q
    BY <1>2, <1>3 DEF Settled, Campaign!Scanned, Campaign!Hyperlane
  <2> QED
    BY <1>1, <1>3, <2>1 DEF Campaign!Set
<1>4. CASE Campaign!Attempt
  <2> USE DEF Campaign!Here
  <2>1. PICK a \in Campaign!Planned(ph) :
          \/ Campaign!Intend(a) \/ Campaign!Dispatch(a) \/ Campaign!Carry(a) \/ Campaign!Mine(a)
          \/ Campaign!ObservePending(a) \/ Campaign!ObserveMined(a) \/ Campaign!Deliver(a)
          \/ Campaign!Succeed(a)
    BY <1>4 DEF Campaign!Attempt
  <2>2. \E r : Campaign!Set(a, r)
    BY <2>1 DEF Campaign!Intend, Campaign!Dispatch, Campaign!Carry, Campaign!Mine,
                Campaign!ObservePending, Campaign!ObserveMined, Campaign!Deliver, Campaign!Succeed
  <2>3. att[ph][a].st # 6 \/ (a[2] = "H" /\ att[ph][a].fin = {})
    BY <2>1 DEF Campaign!Intend, Campaign!Dispatch, Campaign!Carry, Campaign!Mine,
                Campaign!ObservePending, Campaign!ObserveMined, Campaign!Deliver, Campaign!Succeed
  <2> QED
    BY <1>3, <2>2, <2>3
<1>5. CASE Campaign!Worker
  <2>1. PICK p \in Campaign!Phases : \E a \in Campaign!LayerZero(p) : Campaign!RecordSuccess(p, a)
    BY <1>5 DEF Campaign!Worker
  <2>2. PICK a \in Campaign!LayerZero(p) : Campaign!RecordSuccess(p, a)
    BY <2>1
  <2>3. p # q
    BY <2>2 DEF Campaign!RecordSuccess, Settled, Campaign!WorkerSettled
  <2> QED
    BY <1>1, <2>2, <2>3 DEF Campaign!RecordSuccess
<1>6. CASE Campaign!Operator
  BY <1>6, ResumeLeavesSettled
     DEF Campaign!Operator, Campaign!Approve, Campaign!ResumeRefused, Campaign!evidence
<1>7. CASE Campaign!Fault
  BY <1>7 DEF Campaign!Fault, Campaign!SideProcessDies, Campaign!Interrupt, Campaign!CommandFails,
              Campaign!Edit, Campaign!evidence
<1>8. CASE Campaign!Script
  <2>1. UNCHANGED att
    BY <1>8
       DEF Campaign!Script, Campaign!Launch, Campaign!LaunchRefused, Campaign!LaunchResumed,
           Campaign!Continue, Campaign!StartRunner, Campaign!RunnerRefuses, Campaign!Drained,
           Campaign!RunnerDone, Campaign!MonitorDone, Campaign!ObserverDone,
           Campaign!StopWriters, Campaign!Quarantine, Campaign!Post, Campaign!PostRefused,
           Campaign!NextPhase, Campaign!BuildGateway, Campaign!BuildFigures,
           Campaign!AwaitApproval, Campaign!RemoveServices, Campaign!BuildHandoff,
           Campaign!Sync, Campaign!Release, Campaign!evidence
  <2> QED
    BY <2>1
<1> QED
  BY <1>4, <1>5, <1>6, <1>7, <1>8 DEF Campaign!Next

(* The module's cardinality is that of the library.                       *)
LEMMA CampaignCardinality ==
  ASSUME NEW S PROVE Campaign!Cardinality(S) = Cardinality(S)
BY DEF Campaign!Cardinality, Cardinality

(* What the inventory of incidents keeps of a settled phase was carried    *)
(* out by one execution: the one that recorded all its runner events,      *)
(* which include the first and the last of every route.                    *)
LEMMA RetainedFacts ==
  ASSUME CampaignInv, NEW p \in Campaign!Phases, Vouched(p), NEW s \in Campaign!Retained(p)
  PROVE  Cardinality(UNION {att[p][a].span : a \in Campaign!Block(p, s)}) = 1
<1> DEFINE events == Campaign!RunnerRuns(p, s)
<1>1. s \in Campaign!Sequences(p) /\ s \notin Campaign!Incidents(p)
  BY DEF Campaign!Retained, Vouched
<1>2. ~(Cardinality(events) > 1)
  <2>1. ~Campaign!Interrupted(p, s)
    BY <1>1 DEF Campaign!Incidents
  <2>2. ~(Cardinality(Campaign!RunnerRuns(p, s)) > 1)
    BY <2>1, CampaignCardinality DEF Campaign!Interrupted
  <2> QED
    BY <2>2
<1>3. Campaign!Block(p, s) # {} /\ Campaign!Block(p, s) \subseteq Campaign!Planned(p)
  BY <1>1 DEF Campaign!Sequences, Campaign!Block
<1>4. ASSUME NEW a \in Campaign!Block(p, s)
      PROVE  /\ att[p][a].st = 6 /\ att[p][a].ev \subseteq Campaign!Runs
             /\ AttemptTrue(att[p][a]) /\ att[p][a].span \subseteq Campaign!Runs
  BY <1>3 DEF CampaignInv, CampaignTyped, AttemptsTyped, AttemptsTrue, Records, Vouched, Settled,
              Campaign!AttemptsExact
<1>5. events \subseteq Campaign!Runs /\ \A a \in Campaign!Block(p, s) : att[p][a].ev \subseteq events
  BY <1>4 DEF Campaign!RunnerRuns
<1>6. events # {}
  <2>1. PICK a \in Campaign!Block(p, s) : TRUE
    BY <1>3
  <2>2. att[p][a].ev # {}
    BY <1>4 DEF AttemptTrue
  <2> QED
    BY <1>5, <2>1, <2>2
<1>7. PICK r : events = {r}
  <2>1. IsFiniteSet(Campaign!Runs)
    BY CampaignAssumption, FS_Interval DEF Campaign!Runs
  <2>2. IsFiniteSet(events)
    BY <1>5, <2>1, FS_Subset
  <2>3. Cardinality(events) \in Nat /\ Cardinality(events) # 0
    BY <1>6, <2>2, FS_CardinalityType, FS_EmptySet
  <2>4. Cardinality(events) = 1
    BY <1>2, <2>3
  <2> QED
    BY <2>2, <2>4, FS_Singleton
<1> HIDE DEF events
<1>8. r \in Nat
  BY <1>5, <1>7 DEF Campaign!Runs
<1>9. ASSUME NEW a \in Campaign!Block(p, s)
      PROVE  att[p][a].span = {r}
  <2>1. /\ att[p][a].ev \subseteq {r} /\ att[p][a].ev \subseteq att[p][a].span
        /\ \E first \in att[p][a].ev : \A e \in att[p][a].span : first <= e
        /\ \E last \in att[p][a].ev : \A e \in att[p][a].span : e <= last
    BY <1>4, <1>5, <1>7 DEF AttemptTrue
  <2>2. \A e \in att[p][a].span : r <= e /\ e <= r /\ e \in Nat
    BY <1>4, <2>1 DEF Campaign!Runs
  <2>3. \A e \in att[p][a].span : e = r
    BY <1>8, <2>2
  <2> QED
    BY <2>1, <2>3
<1>10. UNION {att[p][a].span : a \in Campaign!Block(p, s)} = {r}
  BY <1>3, <1>9
<1> QED
  BY <1>10, FS_Singleton

(* In every reachable state of the campaign script, what its files say of  *)
(* a phase is true, and an attempt's events frame what was done for it.    *)
THEOREM CampaignInvariant == MCSpec => [](part = "campaign" => CampaignInv)
<1> DEFINE Inv == part = "campaign" => CampaignInv
<1>1. MCInit => Inv
  BY CampaignInit DEF MCInit
<1>2. Inv /\ [MCNext]_<<part, vars, bvars, cvars>> => Inv'
  <2> SUFFICES ASSUME Inv, [MCNext]_<<part, vars, bvars, cvars>>, part' = "campaign"
               PROVE  CampaignInv'
    OBVIOUS
  <2>1. CASE part = "campaign" /\ Campaign!Next
    BY <2>1, CampaignNext
  <2>2. CASE UNCHANGED <<part, vars, bvars, cvars>>
    BY <2>2, CampaignStutter
  <2>3. CASE part \in {"lease", "volumes"} /\ UNCHANGED part
    BY <2>3
  <2> QED
    BY <2>1, <2>2, <2>3 DEF MCNext
<1> QED
  BY <1>1, <1>2, PTL DEF MCSpec

(* A sequence that the estimates keep ran within one execution of the      *)
(* script, and what is public was run, frozen and rebuilt under the inputs *)
(* that were examined, each phase naming its public predecessors           *)
(* (multihop_analysis.py, multihop_publication.py), for every plan and any *)
(* number of signals, deaths, failed commands and resumptions.             *)
THEOREM CampaignSafe == MCSpec => []CampaignHolds
<1>1. CampaignInv => Campaign!TypeOK
  <2> SUFFICES ASSUME CampaignInv PROVE Campaign!TypeOK
    OBVIOUS
  <2>1. pc \in Campaign!Steps \cup Campaign!Ended
    BY OutputFacts DEF CampaignInv, CampaignTyped, ScriptTyped, InPhase, AfterPhase, Settling,
                       Counting, Publishing, Campaign!Steps
  <2>2. ASSUME NEW p \in Campaign!Phases
        PROVE  /\ cfiles[p] \subseteq Artefacts
               /\ \A a \in Campaign!Planned(p) :
                    /\ att[p][a].st \in 0..6 /\ att[p][a].orphan \in BOOLEAN
                    /\ att[p][a].span \union att[p][a].ev \union att[p][a].sub
                          \union att[p][a].fin \subseteq Campaign!Runs
    BY DEF CampaignInv, CampaignTyped, FilesTyped, AttemptsTyped, Records
  <2>3. ASSUME NEW p \in Campaign!Phases
        PROVE  /\ \/ bound[p] = Campaign!NoAuthority
                  \/ bound[p].inputs \in {0, 1} /\ DOMAIN bound[p].prior = 1..(p - 1)
               /\ frozen[p] \in {-1, 0, 1} /\ excluded[p] \subseteq Campaign!Sequences(p)
               /\ handoff[p].by \in Campaign!Runs \union {0}
    BY DEF CampaignInv, CampaignTyped, DocumentsTyped
  <2> QED
    BY <2>1, <2>2, <2>3 DEF CampaignInv, CampaignTyped, ScriptTyped, Campaign!TypeOK, Artefacts
<1>2. CampaignInv => Campaign!RetainedIsUninterrupted
  <2> SUFFICES ASSUME CampaignInv PROVE Campaign!RetainedIsUninterrupted
    OBVIOUS
  <2>1. ASSUME NEW p \in Campaign!Phases, Campaign!HandedOff(p), NEW s \in Campaign!Retained(p)
        PROVE  Cardinality(UNION {att[p][a].span : a \in Campaign!Block(p, s)}) = 1
    <3>1. Vouched(p)
      BY <2>1 DEF CampaignInv, FilesTrue
    <3> QED
      BY <3>1, RetainedFacts
  <2>2. ASSUME NEW p \in Campaign!Phases, Campaign!HandedOff(p), NEW s \in Campaign!Retained(p)
        PROVE  Campaign!Cardinality(UNION {att[p][a].span : a \in Campaign!Block(p, s)}) = 1
    BY <2>1, <2>2, CampaignCardinality
  <2> QED
    BY <2>2, Zenon DEF Campaign!RetainedIsUninterrupted
<1>3. CampaignInv => Campaign!PublishedIsBound
  <2> SUFFICES ASSUME CampaignInv, public # <<>>, NEW p \in Campaign!Phases
               PROVE  /\ bound[p].inputs = 0 /\ frozen[p] = 0 /\ Campaign!EffectsExact(p)
                      /\ public[p] = handoff[p]
                      /\ public[p].prior = [q \in 1..(p - 1) |-> public[q].by]
    BY DEF Campaign!PublishedIsBound
  <2>1. /\ Campaign!HandedOff(p) /\ public[p] = handoff[p]
        /\ public[p].prior = [q \in 1..(p - 1) |-> public[q].by]
    BY DEF CampaignInv, PublicHolds
  <2>2. Vouched(p)
    BY <2>1 DEF CampaignInv, FilesTrue
  <2>3. \A a \in Campaign!Planned(p) : att[p][a].st = 6
    BY <2>2 DEF Vouched, Settled, Campaign!AttemptsExact
  <2>4. Campaign!EffectsExact(p)
    BY <2>3 DEF Campaign!EffectsExact, Campaign!Effects, Campaign!ExpectedEffects
  <2> QED
    BY <2>1, <2>2, <2>4 DEF Vouched
<1>4. (part = "campaign" => CampaignInv) => CampaignHolds
  BY <1>1, <1>2, <1>3 DEF CampaignHolds
<1> QED
  BY <1>4, CampaignInvariant, PTL

(* Once the sources of a phase are frozen its evidence never changes,      *)
(* although the worker and the relayer run on for the next phase and after *)
(* every resumption (multihop_publication.py).                             *)
THEOREM FrozenIsKept == MCSpec => FrozenStays
<1> DEFINE Inv == part = "campaign" => CampaignInv
           Kept == part = "campaign" =>
                     \A p \in Campaign!Phases : "frozen" \in cfiles[p] => att'[p] = att[p]
<1>1. Inv /\ [MCNext]_<<part, vars, bvars, cvars>> => [Kept]_cvars
  <2> SUFFICES ASSUME Inv, [MCNext]_<<part, vars, bvars, cvars>>, part = "campaign",
                      cvars' # cvars, NEW p \in Campaign!Phases, "frozen" \in cfiles[p]
               PROVE  att'[p] = att[p]
    OBVIOUS
  <2>1. Campaign!Next
    BY DEF MCNext
  <2>2. Settled(p)
    BY DEF CampaignInv, FilesTrue
  <2> QED
    BY <2>1, <2>2, SettledFinal
<1> QED
  BY <1>1, CampaignInvariant, PTL DEF MCSpec, FrozenStays
=============================================================================
