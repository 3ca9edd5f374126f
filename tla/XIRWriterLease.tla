--------------------------- MODULE XIRWriterLease ---------------------------
(***************************************************************************)
(* The host-global writer lease of the multi-hop campaigns                 *)
(* (src/xir_lab/native/multihop_execution.py), as the campaign script      *)
(* (scripts/native_multihop_campaign.sh) and the runner's batches use it.  *)
(*                                                                         *)
(* The lease is a directory with an owner document; a campaign finds it by *)
(* a symbolic link, the locator, in its own runtime.  Changes of the owner *)
(* are made under a file lock, which the system drops when its holder      *)
(* dies: between any two file operations the process may die and leave the *)
(* files as they are.  Supervisors (which send heartbeats), runners and    *)
(* campaign scripts die independently of one another; a heartbeat turns    *)
(* stale when time has passed; the host may reboot.                        *)
(***************************************************************************)
EXTENDS Integers, FiniteSets

CONSTANTS
    Runtimes,       \* runtime directories, one campaign each
    MaxSupervisors, \* bound on the supervisors a campaign starts
    MaxBoots,       \* bound on reboots of the host
    MaxCrashes      \* bound on deaths in the middle of a method

None == "none"

ASSUME WriterLeaseConstants ==
    /\ None \notin Runtimes
    /\ MaxSupervisors \in Nat \ {0} /\ MaxBoots \in Nat /\ MaxCrashes \in Nat

NoLease == [rt |-> None, state |-> None, sup |-> 0, boot |-> 0]
NoOp == [kind |-> None, rt |-> None, step |-> None]

VARIABLES
    root,      \* the global lease: whether its directory exists, and the owner document
    fresh,     \* the owner's heartbeat and expiry are recent
    files,     \* each runtime's lease directory, snapshot, token, locator and end file
    acquiring, \* where acquire_writer_lease is before it takes the lock
    op,        \* the method that holds the lock, between two of its steps
    sup,       \* supervisors each campaign has started
    live,      \* the latest of them runs
    campaign,  \* where each campaign's script is
    writer,    \* each campaign's runner: "off", between batches, or in one
    stop,      \* the runner's submission-stop file exists
    services,  \* protocol services or validator containers run
    volumes,   \* the validators' volumes exist
    orphan,    \* runtimes whose supervisor died while their runner ran
    boot, crashes

host == <<sup, live, campaign, writer, stop, services, volumes, orphan>>
vars == <<root, fresh, files, acquiring, op, sup, live, campaign, writer, stop,
          services, volumes, orphan, boot, crashes>>

Fresh0 == [dir |-> FALSE, snap |-> FALSE, token |-> FALSE, locator |-> FALSE, end |-> None]

Init ==
    /\ root = [dir |-> FALSE, owner |-> NoLease] /\ fresh = FALSE
    /\ files = [r \in Runtimes |-> Fresh0]
    /\ acquiring = [r \in Runtimes |-> None] /\ op = NoOp
    /\ sup = [r \in Runtimes |-> 0] /\ live = [r \in Runtimes |-> FALSE]
    /\ campaign = [r \in Runtimes |-> "new"]
    /\ writer = [r \in Runtimes |-> "off"] /\ stop = [r \in Runtimes |-> FALSE]
    /\ services = [r \in Runtimes |-> FALSE] /\ volumes = [r \in Runtimes |-> FALSE]
    /\ orphan = {} /\ boot = 0 /\ crashes = 0

Free == op = NoOp
Goto(r, pc) == campaign' = [campaign EXCEPT ![r] = pc]

(* A method is run for r by its campaign, or by an operator once the       *)
(* campaign's script is gone.                                              *)
Unattended(r) == campaign[r] \in {"gone", "pending", "blocked"}

-----------------------------------------------------------------------------
(* Supervisors. *)

StartSupervisor(r) ==
    /\ campaign[r] \in {"new", "resume"} /\ ~live[r] /\ sup[r] < MaxSupervisors
    /\ sup' = [sup EXCEPT ![r] = @ + 1] /\ live' = [live EXCEPT ![r] = TRUE]
    /\ Goto(r, IF campaign[r] = "new" THEN "acquire" ELSE "continue")
    /\ UNCHANGED <<root, fresh, files, acquiring, op, writer, stop, services, volumes,
                   orphan, boot, crashes>>

SupervisorDies(r) ==
    /\ live[r] /\ live' = [live EXCEPT ![r] = FALSE]
    /\ orphan' = IF writer[r] # "off" THEN orphan \cup {r} ELSE orphan
    /\ UNCHANGED <<root, fresh, files, acquiring, op, sup, campaign, writer, stop,
                   services, volumes, boot, crashes>>

(* The supervisor the owner document names is alive. *)
SupervisorAlive(r) ==
    root.owner.boot = boot /\ live[r] /\ root.owner.sup = sup[r]

-----------------------------------------------------------------------------
(* acquire_writer_lease.  The runtime's own directory, the snapshot and    *)
(* the token come first and without the lock.  A snapshot left by an       *)
(* earlier acquisition is an error that leaves the new directory behind.   *)

AcquireDir(r) ==
    /\ campaign[r] = "acquire" /\ acquiring[r] = None
    /\ live[r] /\ ~files[r].dir
    /\ files' = [files EXCEPT ![r].dir = TRUE]
    /\ acquiring' = [acquiring EXCEPT ![r] = "dir"]
    /\ UNCHANGED <<root, fresh, op, host, boot, crashes>>

AcquireSnapshot(r) ==
    /\ acquiring[r] = "dir"
    /\ IF files[r].snap
       THEN /\ acquiring' = [acquiring EXCEPT ![r] = None] /\ Goto(r, "gone")
            /\ UNCHANGED files
       ELSE /\ files' = [files EXCEPT ![r].snap = TRUE]
            /\ acquiring' = [acquiring EXCEPT ![r] = "snap"]
            /\ UNCHANGED campaign
    /\ UNCHANGED <<root, fresh, op, sup, live, writer, stop, services, volumes,
                   orphan, boot, crashes>>

(* The token's name is new: it was unlinked if the runtime lost before. *)
AcquireToken(r) ==
    /\ acquiring[r] = "snap"
    /\ files' = [files EXCEPT ![r].token = TRUE]
    /\ acquiring' = [acquiring EXCEPT ![r] = "token"]
    /\ UNCHANGED <<root, fresh, op, host, boot, crashes>>

(* Under the lock: making the directory decides.  The loser undoes its     *)
(* token and directory, and not its snapshot.                              *)
AcquireRoot(r) ==
    /\ acquiring[r] = "token" /\ Free
    /\ acquiring' = [acquiring EXCEPT ![r] = None]
    /\ IF root.dir
       THEN /\ files' = [files EXCEPT ![r].dir = FALSE, ![r].token = FALSE]
            /\ Goto(r, "new")
            /\ UNCHANGED <<root, op>>
       ELSE /\ root' = [root EXCEPT !.dir = TRUE]
            /\ op' = [kind |-> "acquire", rt |-> r, step |-> "owner"]
            /\ UNCHANGED <<files, campaign>>
    /\ UNCHANGED <<fresh, sup, live, writer, stop, services, volumes, orphan, boot, crashes>>

AcquireOwner ==
    /\ op.kind = "acquire" /\ op.step = "owner"
    /\ root' = [root EXCEPT !.owner = [rt |-> op.rt, state |-> "active",
                                       sup |-> sup[op.rt], boot |-> boot]]
    /\ fresh' = TRUE
    /\ op' = [op EXCEPT !.step = "link"]
    /\ UNCHANGED <<files, acquiring, host, boot, crashes>>

AcquireLink ==
    /\ op.kind = "acquire" /\ op.step = "link"
    /\ files' = [files EXCEPT ![op.rt].locator = TRUE]
    /\ Goto(op.rt, "run") /\ op' = NoOp
    /\ UNCHANGED <<root, fresh, acquiring, sup, live, writer, stop, services, volumes,
                   orphan, boot, crashes>>

-----------------------------------------------------------------------------
(* Verification, heartbeats and state changes of a lease that is held.     *)

Held(r) == files[r].locator /\ files[r].token /\ root.owner.rt = r
Verified(r) == Free /\ Held(r)
Current(r) == Held(r) /\ fresh /\ SupervisorAlive(r)

SetOwner(r, s) == root' = [root EXCEPT !.owner.state = s]

(* verify_execution_authority: every process that writes to the chains     *)
(* asks for it when it starts; volumes and services come before a runner.  *)
Authorised(r) == Free /\ Current(r) /\ root.owner.state = "active"

StartServices(r) ==
    /\ campaign[r] = "run" /\ ~services[r] /\ Authorised(r)
    /\ services' = [services EXCEPT ![r] = TRUE]
    /\ volumes' = [volumes EXCEPT ![r] = TRUE]
    /\ UNCHANGED <<root, fresh, files, acquiring, op, sup, live, campaign, writer, stop,
                   orphan, boot, crashes>>

StartRunner(r) ==
    /\ campaign[r] = "run" /\ services[r] /\ writer[r] = "off" /\ Authorised(r)
    /\ writer' = [writer EXCEPT ![r] = "idle"]
    /\ stop' = [stop EXCEPT ![r] = FALSE]
    /\ UNCHANGED <<root, fresh, files, acquiring, op, sup, live, campaign, services,
                   volumes, orphan, boot, crashes>>

(* heartbeat_writer_lease, of the supervisor and before each batch: it     *)
(* looks neither at the age of the lease nor at its state.                 *)
Heartbeat(r) ==
    /\ live[r] /\ Verified(r) /\ ~fresh
    /\ fresh' = TRUE
    /\ UNCHANGED <<root, files, acquiring, op, host, boot, crashes>>

Batch(r) ==
    /\ writer[r] = "idle" /\ Free
    /\ writer' = [writer EXCEPT ![r] = IF Held(r) /\ ~stop[r] THEN "batch" ELSE "off"]
    /\ fresh' = (fresh \/ Held(r))
    /\ UNCHANGED <<root, files, acquiring, op, sup, live, campaign, stop, services,
                   volumes, orphan, boot, crashes>>

BatchEnds(r) ==
    /\ writer[r] = "batch" /\ writer' = [writer EXCEPT ![r] = "idle"]
    /\ UNCHANGED <<root, fresh, files, acquiring, op, sup, live, campaign, stop, services,
                   volumes, orphan, boot, crashes>>

-----------------------------------------------------------------------------
(* The campaign's cleanup: the stop file, the runner, the services; then a *)
(* lease that is resume-pending, released or blocked.                      *)

Cleanup_NoStop(r) ==
    /\ campaign[r] = "run" /\ Goto(r, "cleanup")
    /\ UNCHANGED <<root, fresh, files, acquiring, op, sup, live, writer, stop, services,
                   volumes, orphan, boot, crashes>>

Cleanup(r) ==
    /\ campaign[r] = "run"
    /\ stop' = [stop EXCEPT ![r] = TRUE] /\ Goto(r, "cleanup")
    /\ UNCHANGED <<root, fresh, files, acquiring, op, sup, live, writer, services,
                   volumes, orphan, boot, crashes>>

StopProcesses(r) ==
    /\ campaign[r] = "cleanup"
    /\ \/ writer[r] # "off" /\ writer' = [writer EXCEPT ![r] = "off"] /\ UNCHANGED services
       \/ services[r] /\ services' = [services EXCEPT ![r] = FALSE] /\ UNCHANGED writer
    /\ UNCHANGED <<root, fresh, files, acquiring, op, sup, live, campaign, stop, volumes,
                   orphan, boot, crashes>>

Quiet(r) == writer[r] = "off" /\ ~services[r]

MarkResumePending(r) ==
    /\ campaign[r] = "cleanup" /\ Quiet(r) /\ Authorised(r)
    /\ SetOwner(r, "resume_pending") /\ Goto(r, "pending")
    /\ UNCHANGED <<fresh, files, acquiring, op, sup, live, writer, stop, services, volumes,
                   orphan, boot, crashes>>

RemoveVolumes(r) ==
    /\ campaign[r] = "cleanup" /\ Quiet(r) /\ (volumes[r] => Authorised(r))
    /\ volumes' = [volumes EXCEPT ![r] = FALSE]
    /\ live' = [live EXCEPT ![r] = FALSE]
    /\ Goto(r, "release")
    /\ UNCHANGED <<root, fresh, files, acquiring, op, sup, writer, stop, services, orphan,
                   boot, crashes>>

(* Ending a lease: the end file, the locator, the directory, the owner and *)
(* the global directory, one after the other.                              *)
Begin(kind, r) == op' = [kind |-> kind, rt |-> r, step |-> "unlink"]

Release(r) ==
    /\ campaign[r] = "release" /\ writer[r] = "off"
    /\ Verified(r) /\ root.owner.state = "active"
    /\ files' = [files EXCEPT ![r].end = "released"]
    /\ Begin("release", r)
    /\ UNCHANGED <<root, fresh, acquiring, host, boot, crashes>>

EndUnlink ==
    /\ op.step = "unlink"
    /\ files' = [files EXCEPT ![op.rt].locator = FALSE]
    /\ op' = [op EXCEPT !.step = "rmdir"]
    /\ UNCHANGED <<root, fresh, acquiring, host, boot, crashes>>

EndRmdir ==
    /\ op.step = "rmdir"
    /\ files' = [files EXCEPT ![op.rt].dir = FALSE]
    /\ op' = [op EXCEPT !.step = "rmtree"]
    /\ UNCHANGED <<root, fresh, acquiring, host, boot, crashes>>

EndOwner ==
    /\ op.step = "rmtree"
    /\ root' = [root EXCEPT !.owner = NoLease] /\ fresh' = FALSE
    /\ op' = [op EXCEPT !.step = "root"]
    /\ UNCHANGED <<files, acquiring, host, boot, crashes>>

EndRoot ==
    /\ op.step = "root"
    /\ root' = [root EXCEPT !.dir = FALSE] /\ op' = NoOp
    /\ IF op.kind = "release" THEN Goto(op.rt, "ended") ELSE UNCHANGED campaign
    /\ UNCHANGED <<fresh, files, acquiring, sup, live, writer, stop, services, volumes,
                   orphan, boot, crashes>>

(* retain_writer_lease_after_cleanup_failure, when a step of the cleanup   *)
(* failed; the script starts a supervisor first if there is none.          *)
Retain(r) ==
    /\ campaign[r] \in {"cleanup", "release"} /\ Verified(r)
    /\ live[r] \/ sup[r] < MaxSupervisors
    /\ sup' = [sup EXCEPT ![r] = IF live[r] THEN @ ELSE @ + 1]
    /\ live' = [live EXCEPT ![r] = TRUE]
    /\ root' = [root EXCEPT !.owner = [rt |-> r, state |-> "blocked", sup |-> sup'[r],
                                       boot |-> boot]]
    /\ fresh' = TRUE /\ Goto(r, "blocked")
    /\ UNCHANGED <<files, acquiring, op, writer, stop, services, volumes, orphan, boot, crashes>>

-----------------------------------------------------------------------------
(* Resuming, recovering and resolving. *)

Resume(r) ==
    /\ Unattended(r) /\ Held(r)
    /\ Goto(r, IF live[r] THEN "activate" ELSE "resume")
    /\ UNCHANGED <<root, fresh, files, acquiring, op, sup, live, writer, stop, services,
                   volumes, orphan, boot, crashes>>

(* continue_writer_lease: the same boot, and the prior supervisor dead. *)
MayContinue(r) ==
    /\ Held(r) /\ root.owner.state = "resume_pending"
    /\ root.owner.boot = boot /\ ~SupervisorAlive(r) /\ live[r]

Continue(r) ==
    /\ campaign[r] = "continue" /\ Free /\ MayContinue(r)
    /\ root' = [root EXCEPT !.owner.sup = sup[r]] /\ fresh' = TRUE
    /\ Goto(r, "activate")
    /\ UNCHANGED <<files, acquiring, op, sup, live, writer, stop, services, volumes,
                   orphan, boot, crashes>>

MayActivate(r) == Current(r) /\ root.owner.state = "resume_pending"

Activate(r) ==
    /\ campaign[r] = "activate" /\ Free /\ MayActivate(r)
    /\ SetOwner(r, "active") /\ Goto(r, "run")
    /\ UNCHANGED <<fresh, files, acquiring, op, sup, live, writer, stop, services, volumes,
                   orphan, boot, crashes>>

(* Resumption that a check refuses ends the script. *)
ResumeRefused(r) ==
    /\ Free
    /\ \/ campaign[r] = "continue" /\ ~MayContinue(r)
       \/ campaign[r] = "activate" /\ ~MayActivate(r)
    /\ Goto(r, "gone")
    /\ UNCHANGED <<root, fresh, files, acquiring, op, sup, live, writer, stop, services,
                   volumes, orphan, boot, crashes>>

(* recover_stale_writer_lease: a stale heartbeat and a dead supervisor;    *)
(* nothing is asked about the runner.  A missing locator is restored from  *)
(* the owner document and the token.                                       *)
RecoverStale_Living(r) ==
    /\ Unattended(r) /\ Free
    /\ files[r].token /\ root.owner.rt = r /\ root.owner.state # "blocked" /\ ~fresh
    /\ files' = [files EXCEPT ![r].dir = TRUE, ![r].locator = TRUE,
                              ![r].end = "recovered_stale"]
    /\ Begin("recover", r)
    /\ UNCHANGED <<root, fresh, acquiring, host, boot, crashes>>

RecoverStale(r) ==
    /\ Unattended(r) /\ Free
    /\ files[r].token /\ root.owner.rt = r /\ root.owner.state # "blocked"
    /\ ~fresh /\ ~SupervisorAlive(r)
    /\ files' = [files EXCEPT ![r].dir = TRUE, ![r].locator = TRUE,
                              ![r].end = "recovered_stale"]
    /\ Begin("recover", r)
    /\ UNCHANGED <<root, fresh, acquiring, host, boot, crashes>>

(* A recovery that is refused afterwards has restored the locator already. *)
RestoreLocator(r) ==
    /\ Unattended(r) /\ Free
    /\ files[r].token /\ root.owner.rt = r /\ ~files[r].locator
    /\ root.owner.state = "blocked" \/ fresh \/ SupervisorAlive(r)
    /\ files' = [files EXCEPT ![r].dir = TRUE, ![r].locator = TRUE]
    /\ UNCHANGED <<root, fresh, acquiring, op, host, boot, crashes>>

(* resolve_blocked_writer_lease_after_audited_cleanup: nothing may run but *)
(* the recorded supervisor; then the volumes go.                           *)
Resolve(r) ==
    /\ Unattended(r) /\ Verified(r) /\ root.owner.state = "blocked"
    /\ Quiet(r)
    /\ volumes' = [volumes EXCEPT ![r] = FALSE]
    /\ files' = [files EXCEPT ![r].end = "audited"]
    /\ Begin("resolve", r)
    /\ UNCHANGED <<root, fresh, acquiring, sup, live, campaign, writer, stop, services,
                   orphan, boot, crashes>>

-----------------------------------------------------------------------------
(* Time, deaths and reboots. *)

Stale ==
    /\ fresh /\ fresh' = FALSE
    /\ UNCHANGED <<root, files, acquiring, op, host, boot, crashes>>

(* The script is killed with no cleanup; the processes it started go on.   *)
CampaignDies(r) ==
    /\ campaign[r] \in {"run", "cleanup", "release"} /\ op.rt # r
    /\ Goto(r, "gone")
    /\ UNCHANGED <<root, fresh, files, acquiring, op, sup, live, writer, stop, services,
                   volumes, orphan, boot, crashes>>

ProcessesDie(r) ==
    /\ Unattended(r)
    /\ \/ writer[r] # "off" /\ writer' = [writer EXCEPT ![r] = "off"] /\ UNCHANGED services
       \/ services[r] /\ services' = [services EXCEPT ![r] = FALSE] /\ UNCHANGED writer
    /\ UNCHANGED <<root, fresh, files, acquiring, op, sup, live, campaign, stop, volumes,
                   orphan, boot, crashes>>

MethodDies ==
    /\ op # NoOp /\ crashes < MaxCrashes /\ crashes' = crashes + 1
    /\ op' = NoOp
    /\ campaign' = [campaign EXCEPT ![op.rt] = IF @ \in {"acquire", "release"} THEN "gone" ELSE @]
    /\ UNCHANGED <<root, fresh, files, acquiring, sup, live, writer, stop, services,
                   volumes, orphan, boot>>

Reboot ==
    /\ Free /\ boot < MaxBoots /\ boot' = boot + 1
    /\ live' = [r \in Runtimes |-> FALSE]
    /\ writer' = [r \in Runtimes |-> "off"] /\ services' = [r \in Runtimes |-> FALSE]
    /\ acquiring' = [r \in Runtimes |-> None]
    /\ campaign' = [r \in Runtimes |-> IF campaign[r] \in {"new", "pending", "blocked", "ended"}
                                       THEN campaign[r] ELSE "gone"]
    /\ UNCHANGED <<root, fresh, files, op, sup, stop, volumes, orphan, crashes>>

Acquire(r) == AcquireDir(r) \/ AcquireSnapshot(r) \/ AcquireToken(r) \/ AcquireRoot(r)
End == EndUnlink \/ EndRmdir \/ EndOwner \/ EndRoot

Next ==
    \/ \E r \in Runtimes :
          \/ StartSupervisor(r) \/ SupervisorDies(r) \/ Acquire(r)
          \/ StartServices(r) \/ StartRunner(r) \/ Heartbeat(r) \/ Batch(r) \/ BatchEnds(r)
          \/ Cleanup(r) \/ StopProcesses(r) \/ MarkResumePending(r) \/ RemoveVolumes(r)
          \/ Release(r) \/ Retain(r) \/ Resume(r) \/ Continue(r) \/ Activate(r)
          \/ ResumeRefused(r) \/ RecoverStale(r) \/ RestoreLocator(r) \/ Resolve(r)
          \/ CampaignDies(r) \/ ProcessesDie(r)
    \/ AcquireOwner \/ AcquireLink \/ End \/ Stale \/ MethodDies \/ Reboot

Spec == Init /\ [][Next]_vars

-----------------------------------------------------------------------------
(* Type invariant of the lease, the runtimes' files and the processes. *)
Owner == {NoLease} \cup [rt : Runtimes, state : {"active", "resume_pending", "blocked"},
                         sup : 1..MaxSupervisors, boot : 0..MaxBoots]
File == [dir : BOOLEAN, snap : BOOLEAN, token : BOOLEAN, locator : BOOLEAN,
         end : {None, "released", "recovered_stale", "audited"}]
Method == {NoOp} \cup [kind : {"acquire"}, rt : Runtimes, step : {"owner", "link"}]
          \cup [kind : {"release", "recover", "resolve"}, rt : Runtimes,
                step : {"unlink", "rmdir", "rmtree", "root"}]

TypeOK ==
    /\ root \in [dir : BOOLEAN, owner : Owner] /\ fresh \in BOOLEAN
    /\ files \in [Runtimes -> File]
    /\ acquiring \in [Runtimes -> {None, "dir", "snap", "token"}] /\ op \in Method
    /\ sup \in [Runtimes -> 0..MaxSupervisors] /\ live \in [Runtimes -> BOOLEAN]
    /\ campaign \in [Runtimes -> {"new", "acquire", "run", "cleanup", "release", "pending",
                                  "blocked", "gone", "resume", "continue", "activate", "ended"}]
    /\ writer \in [Runtimes -> {"off", "idle", "batch"}]
    /\ stop \in [Runtimes -> BOOLEAN] /\ services \in [Runtimes -> BOOLEAN]
    /\ volumes \in [Runtimes -> BOOLEAN]
    /\ orphan \subseteq Runtimes /\ boot \in 0..MaxBoots /\ crashes \in 0..MaxCrashes

(* Runners of two campaigns run at the same time only if the supervisor of *)
(* one of them died while its runner went on: no acquisition, crash,       *)
(* cleanup, resumption or reboot lets a second writer in.                  *)
ExclusiveWriter ==
    \A r, s \in Runtimes :
        r # s /\ writer[r] # "off" /\ writer[s] # "off" => r \in orphan \/ s \in orphan

(* A campaign whose blocked lease was resolved by the audited cleanup has  *)
(* no runner, no service and no volume left when the next one takes over.  *)
AuditedIsClean ==
    \A r \in Runtimes :
        files[r].end = "audited" => Quiet(r) /\ ~volumes[r]

(* What the lease promises the next campaign.                              *)
LeaseHolds == ExclusiveWriter /\ AuditedIsClean

(* A lease blocked by an incomplete cleanup stays blocked, whoever dies    *)
(* and however old it grows, until the audited cleanup ends it.            *)
BlockedUntilAudited ==
    \A r \in Runtimes :
        root.owner.rt = r /\ root.owner.state = "blocked" /\ root'.owner # root.owner
            => \/ files[r].end = "audited"
               \/ root'.owner.rt = r /\ root'.owner.state = "blocked"

(* Once its lease is resume-pending or blocked, a campaign's runner begins *)
(* no batch: it survived the cleanup only to find the stop file, since the *)
(* heartbeat it sends does not look at the lease's state.                  *)
ClosedToWrites ==
    \A r \in Runtimes :
        root.owner.rt = r /\ root.owner.state # "active" =>
            ~(writer[r] = "idle" /\ writer'[r] = "batch")

(* What no step does to a lease that has ended or is blocked.              *)
ClosedLeaseHolds == [][BlockedUntilAudited /\ ClosedToWrites]_vars
=============================================================================
