----------------------------- MODULE XIRVolumes -----------------------------
(***************************************************************************)
(* The journaled transaction that creates, fills, attests and removes the  *)
(* validators' Docker volumes                                              *)
(* (src/xir_lab/localnet/multihop_volume_bootstrap.py).                    *)
(*                                                                         *)
(* The tool is one process.  It writes an intent to the journal before     *)
(* every Docker call that creates or removes something and the result      *)
(* after it, and each of those writes replaces the journal atomically.  A  *)
(* Docker call may fail with or without having had its effect, the process *)
(* may die between any two writes, and other users of the same Docker      *)
(* daemon create and remove volumes of the planned names and run           *)
(* validators on them.                                                     *)
(***************************************************************************)
EXTENDS Integers, FiniteSets

CONSTANTS
    N,           \* number of planned volumes (20 in the code)
    MaxFaults,   \* bound on Docker calls that fail
    MaxCrashes,  \* bound on deaths of the process
    MaxOthers    \* bound on the acts of other users of the daemon

None == "none"

-----------------------------------------------------------------------------
(* What the transaction creates: a probe of the image's user; then, for    *)
(* each volume, the volume, the container that fills it and two probes.    *)

Kinds == {"volume", "stager", "observe", "write"}
ImageUser == [kind |-> "image-user", i |-> 0]
Volume(i) == [kind |-> "volume", i |-> i]
Stager(i) == [kind |-> "stager", i |-> i]

Resources == {ImageUser} \cup [kind : Kinds, i : 1..N]
Volumes == {Volume(i) : i \in 1..N}
Containers == Resources \ Volumes

(* The order in which resources are staged, and the one in which they are  *)
(* removed: probes, stagers and volumes, each from the last to the first.  *)
Staging(k) ==
    IF k = 1 THEN ImageUser
    ELSE [kind |-> <<"volume", "stager", "observe", "write">>[((k - 2) % 4) + 1],
          i |-> (k - 2) \div 4 + 1]

Cleanup(k) ==
    CASE k <= 2 * N /\ k % 2 = 1 -> [kind |-> "write", i |-> N - (k - 1) \div 2]
      [] k <= 2 * N /\ k % 2 = 0 -> [kind |-> "observe", i |-> N - (k - 1) \div 2]
      [] k = 2 * N + 1 -> ImageUser
      [] k \in (2 * N + 2)..(3 * N + 1) -> Stager(3 * N + 2 - k)
      [] OTHER -> Volume(4 * N + 2 - k)

Last == 4 * N + 1

Flags == {"create_intent", "created", "start_intent", "started", "remove_intent", "removed"}
JournalStates == {None, "prepared", "committed", "rolled_back", "recovery_required",
                  "removing", "recovered", "recovery_incomplete"}

(* Labels of what Docker holds: this transaction's; another transaction's  *)
(* of the same runtime; or none of the project's.                          *)
Foreign == {"sibling", "stranger"}

VARIABLES
    journal,   \* the journal file: state and flags of each resource
    attested,  \* the attestation file exists
    failure,   \* the failure file: "none", "complete" or "incomplete"
    recovery,  \* the recovery file: "none", "valid" or "invalid"
    docker,    \* whose labels each resource of the daemon carries
    content,   \* what each volume holds
    up,        \* volumes a validator container references
    tool,      \* the running method and its memory
    faults, crashes, others

files == <<attested, failure, recovery>>
bounds == <<faults, crashes, others>>
vars == <<journal, attested, failure, recovery, docker, content, up, tool,
          faults, crashes, others>>

Idle == [op |-> "idle", k |-> 1, step |-> "intend", owned |-> {}, stager |-> 0,
         exit |-> TRUE, err |-> FALSE]

Init ==
    /\ journal = [state |-> None, flags |-> [r \in Resources |-> {}]]
    /\ attested = FALSE /\ failure = None /\ recovery = None
    /\ docker = [r \in Resources |-> None]
    /\ content = [i \in 1..N |-> "empty"]
    /\ up = {}
    /\ tool = Idle
    /\ faults = 0 /\ crashes = 0 /\ others = 0

Fault == faults < MaxFaults /\ faults' = faults + 1

(* _write_semantic_document, with the flags a step sets on a resource. *)
Write(r, fs) == journal' = [journal EXCEPT !.flags[r] = @ \cup fs]

(* An exception.  The image-user probe runs before the block that rolls    *)
(* back: its failure ends the method and leaves the journal prepared.      *)
Raise ==
    tool' = IF tool.k = 1 THEN Idle
            ELSE [tool EXCEPT !.op = "rollback", !.k = 1, !.step = "intend"]

At(op, step) == tool.op = op /\ tool.step = step

-----------------------------------------------------------------------------
(* stage_validator_volumes: one resource after the other. *)

StageBegin ==
    /\ tool = Idle /\ journal.state = None /\ ~attested /\ failure = None
    /\ journal' = [journal EXCEPT !.state = "prepared"]
    /\ tool' = [Idle EXCEPT !.op = "stage"]
    /\ UNCHANGED <<files, docker, content, up, bounds>>

(* The resource must be absent; then the intent is written.  The image's   *)
(* identity is read with the first inspection.                             *)
StageIntend_Late ==
    LET r == Staging(tool.k) IN
    /\ At("stage", "intend") /\ tool.k <= Last
    /\ \/ /\ docker[r] = None
          /\ tool' = [tool EXCEPT !.step = "create"]
          /\ UNCHANGED <<journal, faults>>
       \/ docker[r] # None /\ Raise /\ UNCHANGED <<journal, faults>>
       \/ Fault /\ Raise /\ UNCHANGED journal
    /\ UNCHANGED <<files, docker, content, up, crashes, others>>

StageIntend ==
    LET r == Staging(tool.k) IN
    /\ At("stage", "intend") /\ tool.k <= Last
    /\ \/ /\ docker[r] = None
          /\ Write(r, {"create_intent"})
          /\ tool' = [tool EXCEPT !.step = "create"]
          /\ UNCHANGED faults
       \/ docker[r] # None /\ Raise /\ UNCHANGED <<journal, faults>>
       \/ Fault /\ Raise /\ UNCHANGED journal
    /\ UNCHANGED <<files, docker, content, up, crashes, others>>

(* docker create.  For a volume whose name has been taken since, Docker    *)
(* returns the volume that is there.  A failed call may have created it.   *)
Created(r) == [docker EXCEPT ![r] = IF @ = None THEN "ours" ELSE @]
StageCreate ==
    LET r == Staging(tool.k) IN
    /\ At("stage", "create")
    /\ \/ /\ docker' = Created(r) /\ tool' = [tool EXCEPT !.step = "confirm"]
          /\ UNCHANGED faults
       \/ Fault /\ docker' \in {docker, Created(r)} /\ Raise
    /\ UNCHANGED <<journal, files, content, up, crashes, others>>

(* The created resource is inspected and must carry this transaction's     *)
(* labels; only then does the process know that it owns it.                *)
StageConfirm ==
    LET r == Staging(tool.k) IN
    /\ At("stage", "confirm")
    /\ \/ /\ docker[r] = "ours"
          /\ UNCHANGED faults
          /\ IF r \in Volumes
             THEN /\ Write(r, {"created"})
                  /\ tool' = [tool EXCEPT !.owned = @ \cup {r.i}, !.k = @ + 1,
                                          !.step = "intend"]
             ELSE /\ Write(r, {"created", "start_intent"})
                  /\ tool' = [tool EXCEPT !.stager = IF r.kind = "stager" THEN r.i ELSE @,
                                          !.step = "start"]
       \/ docker[r] # "ours" /\ Raise /\ UNCHANGED <<journal, faults>>
       \/ Fault /\ Raise /\ UNCHANGED journal
    /\ UNCHANGED <<files, docker, content, up, crashes, others>>

(* The files are copied into the confirmed stager: the copy may fail. *)
StageCopyFails ==
    LET r == Staging(tool.k) IN
    /\ At("stage", "confirm") /\ r.kind = "stager" /\ docker[r] = "ours"
    /\ Fault /\ Write(r, {"created"})
    /\ tool' = [tool EXCEPT !.op = "rollback", !.k = 1, !.step = "intend", !.stager = r.i]
    /\ UNCHANGED <<files, docker, content, up, crashes, others>>

(* What the observing probe must see in the volume. *)
Observed(r) == r.kind = "observe" => content[r.i] = "staged"

(* The container runs to its end; its exit is judged once it is removed.   *)
(* A stager that succeeds has filled the volume.  The container is         *)
(* inspected before the intent to remove it.                               *)
StageStart ==
    LET r == Staging(tool.k)
        ran == IF r.kind = "stager" THEN [content EXCEPT ![r.i] = "staged"] ELSE content
    IN
    /\ At("stage", "start")
    /\ \/ /\ Write(r, {"started", "remove_intent"})
          /\ tool' = [tool EXCEPT !.step = "remove", !.exit = Observed(r)]
          /\ content' = ran /\ UNCHANGED faults
       \/ /\ Fault /\ Write(r, {"started", "remove_intent"})
          /\ tool' = [tool EXCEPT !.step = "remove", !.exit = FALSE]
          /\ content' \in {content, ran}
       \/ /\ Fault /\ Write(r, {"started"}) /\ Raise
          /\ content' = ran
    /\ UNCHANGED <<files, docker, up, crashes, others>>

(* _remove_owned: an absent resource is removed; one with other labels is  *)
(* an error; a volume in use cannot be removed.                            *)
InUse(r) ==
    r \in Volumes /\ (r.i \in up \/ \E c \in Containers : c.i = r.i /\ docker[c] # None)
Removed(r) == [docker EXCEPT ![r] = None]

RemoveOk(r) == docker[r] = None \/ (docker[r] = "ours" /\ ~InUse(r))

StageRemove ==
    LET r == Staging(tool.k)
        mine == [tool EXCEPT !.stager = 0]
    IN
    /\ At("stage", "remove")
    /\ \/ /\ RemoveOk(r) /\ docker' = Removed(r) /\ Write(r, {"removed"})
          /\ UNCHANGED faults
          /\ tool' = IF tool.exit
                     THEN [mine EXCEPT !.k = @ + 1, !.step = "intend"]
                     ELSE IF tool.k = 1 THEN Idle
                     ELSE [mine EXCEPT !.op = "rollback", !.k = 1, !.step = "intend"]
       \/ /\ Fault /\ docker' \in {docker, Removed(r)} /\ Raise
          /\ UNCHANGED journal
    /\ UNCHANGED <<files, content, up, crashes, others>>

(* The attestation is written, and then the journal that commits it. *)
Attest ==
    /\ At("stage", "intend") /\ tool.k = Last + 1
    /\ attested' = TRUE
    /\ tool' = [tool EXCEPT !.step = "commit"]
    /\ UNCHANGED <<journal, failure, recovery, docker, content, up, bounds>>

Commit ==
    /\ At("stage", "commit")
    /\ journal' = [journal EXCEPT !.state = "committed"]
    /\ tool' = Idle
    /\ UNCHANGED <<files, docker, content, up, bounds>>

-----------------------------------------------------------------------------
(* Rollback and recovery: every resource in the order of Cleanup.  The     *)
(* rollback knows its own stager and volumes from memory and passes over   *)
(* the others; the recovery tries all of them.                             *)

Tried(r) ==
    \/ tool.op = "recover"
    \/ r.kind \in {"image-user", "observe", "write"}
    \/ r.kind = "stager" /\ r.i = tool.stager
    \/ r.kind = "volume" /\ r.i \in tool.owned

Cleaning == tool.op \in {"rollback", "recover"} /\ tool.k <= Last

CleanIntend ==
    LET r == Cleanup(tool.k) IN
    /\ Cleaning /\ tool.step = "intend"
    /\ IF Tried(r)
       THEN Write(r, {"remove_intent"}) /\ tool' = [tool EXCEPT !.step = "remove"]
       ELSE UNCHANGED journal /\ tool' = [tool EXCEPT !.k = @ + 1]
    /\ UNCHANGED <<files, docker, content, up, bounds>>

CleanRemove ==
    LET r == Cleanup(tool.k)
        next == [tool EXCEPT !.k = @ + 1, !.step = "intend"]
    IN
    /\ Cleaning /\ tool.step = "remove"
    /\ \/ /\ RemoveOk(r) /\ docker' = Removed(r) /\ Write(r, {"removed"})
          /\ tool' = next /\ UNCHANGED faults
       \/ /\ ~RemoveOk(r) /\ tool' = [next EXCEPT !.err = TRUE]
          /\ UNCHANGED <<journal, docker, faults>>
       \/ /\ Fault /\ tool' = [next EXCEPT !.err = TRUE]
          /\ docker' \in {docker, IF RemoveOk(r) THEN Removed(r) ELSE docker}
          /\ UNCHANGED journal
    /\ UNCHANGED <<files, content, up, crashes, others>>

RollbackEnd ==
    /\ tool.op = "rollback" /\ tool.k = Last + 1 /\ tool.step = "intend"
    /\ journal' = [journal EXCEPT !.state = IF tool.err THEN "recovery_required"
                                            ELSE "rolled_back"]
    /\ tool' = [tool EXCEPT !.step = "report"]
    /\ UNCHANGED <<files, docker, content, up, bounds>>

RollbackReport ==
    /\ At("rollback", "report")
    /\ failure' = IF tool.err THEN "incomplete" ELSE "complete"
    /\ tool' = Idle
    /\ UNCHANGED <<journal, attested, recovery, docker, content, up, bounds>>

(* A committed transaction is left to remove_existing_validator_volumes. *)
Recover_Failed ==
    /\ tool = Idle /\ journal.state \in {"recovery_required", "recovery_incomplete", "removing"}
    /\ tool' = [Idle EXCEPT !.op = "recover"]
    /\ UNCHANGED <<journal, files, docker, content, up, bounds>>

Recover ==
    /\ tool = Idle /\ journal.state \notin {None, "committed"}
    /\ tool' = [Idle EXCEPT !.op = "recover"]
    /\ UNCHANGED <<journal, files, docker, content, up, bounds>>

(* What is left with the labels of the runtime, or of the transaction. *)
Remaining ==
    {r \in Volumes : docker[r] \in {"ours", "sibling"}} \cup {r \in Containers : docker[r] = "ours"}

RecoverEnd ==
    /\ tool.op = "recover" /\ tool.k = Last + 1 /\ tool.step = "intend"
    /\ \/ LET bad == tool.err \/ Remaining # {} IN
          /\ journal' = [journal EXCEPT !.state = IF bad THEN "recovery_incomplete"
                                                  ELSE "recovered"]
          /\ tool' = [tool EXCEPT !.step = "report", !.err = bad]
          /\ UNCHANGED faults
       \/ Fault /\ tool' = Idle /\ UNCHANGED journal
    /\ UNCHANGED <<files, docker, content, up, crashes, others>>

RecoverReport ==
    /\ At("recover", "report")
    /\ recovery' = IF journal.state = "recovered" THEN "valid" ELSE "invalid"
    /\ tool' = Idle
    /\ UNCHANGED <<journal, attested, failure, docker, content, up, bounds>>

-----------------------------------------------------------------------------
(* Provenance: what verify_existing_validator_volumes demands of the files *)
(* and of the daemon, and remove_existing_validator_volumes before it      *)
(* gives the volumes up.                                                   *)

ProvenanceOk ==
    /\ attested /\ journal.state = "committed"
    /\ \A r \in Volumes : journal.flags[r] = {"create_intent", "created"}
    /\ \A r \in Containers : journal.flags[r] = Flags

InventoryOk == \A r \in Volumes : docker[r] = "ours"
MountOk(i) == content[i] = "staged"
VerifyOk == ProvenanceOk /\ InventoryOk /\ \A i \in 1..N : MountOk(i)

RemoveExisting ==
    /\ tool = Idle /\ ProvenanceOk
    /\ up = {} /\ InventoryOk
    /\ journal' = [journal EXCEPT !.state = "removing"]
    /\ tool' = [Idle EXCEPT !.op = "recover"]
    /\ UNCHANGED <<files, docker, content, up, bounds>>

-----------------------------------------------------------------------------
(* The process may die; other users of the daemon act when they please.    *)

Crash ==
    /\ tool # Idle /\ crashes < MaxCrashes
    /\ crashes' = crashes + 1 /\ tool' = Idle
    /\ UNCHANGED <<journal, files, docker, content, up, faults, others>>

(* Other users of the daemon: they know nothing of the transaction's       *)
(* labels (an assumption about the host).                                  *)
Other ==
    /\ others < MaxOthers /\ others' = others + 1
    /\ \E i \in 1..N :
          \/ /\ docker[Volume(i)] = None
             /\ \E f \in Foreign : docker' = [docker EXCEPT ![Volume(i)] = f]
             /\ UNCHANGED up
          \/ /\ docker[Volume(i)] \in Foreign /\ docker' = [docker EXCEPT ![Volume(i)] = None]
             /\ UNCHANGED up
          \/ /\ docker[Volume(i)] = "ours" /\ i \notin up
             /\ up' = up \cup {i} /\ UNCHANGED docker
    /\ UNCHANGED <<journal, files, content, tool, faults, crashes>>

ValidatorDown ==
    /\ \E i \in up : up' = up \ {i}
    /\ UNCHANGED <<journal, files, docker, content, tool, bounds>>

Stage == \/ StageIntend \/ StageCreate \/ StageConfirm \/ StageCopyFails \/ StageStart
         \/ StageRemove \/ Attest \/ Commit
Clean == \/ CleanIntend \/ CleanRemove \/ RollbackEnd \/ RollbackReport
         \/ RecoverEnd \/ RecoverReport

Next ==
    \/ StageBegin \/ Stage \/ Clean \/ Recover \/ RemoveExisting
    \/ Crash \/ Other \/ ValidatorDown

Spec == Init /\ [][Next]_vars

-----------------------------------------------------------------------------
Steps == {"intend", "create", "confirm", "start", "remove", "commit", "report"}

(* Type invariant of the transaction's files, the daemon and the process. *)
TypeOK ==
    /\ journal \in [state : JournalStates, flags : [Resources -> SUBSET Flags]]
    /\ attested \in BOOLEAN
    /\ failure \in {None, "complete", "incomplete"}
    /\ recovery \in {None, "valid", "invalid"}
    /\ docker \in [Resources -> {None, "ours"} \cup Foreign]
    /\ content \in [1..N -> {"empty", "staged"}]
    /\ up \subseteq 1..N
    /\ tool \in [op : {"idle", "stage", "rollback", "recover"}, k : 1..(Last + 1),
                 step : Steps, owned : SUBSET (1..N), stager : 0..N,
                 exit : BOOLEAN, err : BOOLEAN]
    /\ faults \in 0..MaxFaults /\ crashes \in 0..MaxCrashes /\ others \in 0..MaxOthers

(* Whatever the transaction created and has not removed, the journal names *)
(* with a create intent and without the removed flag: a process that died, *)
(* or a rollback that did not know of a resource, leaves nothing that      *)
(* recover_validator_volume_transaction would not find.                    *)
OwnedIsJournaled ==
    \A r \in Resources : docker[r] = "ours" =>
        "create_intent" \in journal.flags[r] /\ "removed" \notin journal.flags[r]

(* A committed transaction passes the verification of its own files, and   *)
(* of the daemon: all volumes exist, carry its labels and hold the staged  *)
(* content, whatever failed or died before or ran beside it.               *)
CommittedIsWhole == journal.state = "committed" => VerifyOk

(* A valid recovery file means that nothing of the transaction is left. *)
RecoveredIsClean ==
    recovery = "valid" => \A r \in Resources : docker[r] # "ours"

(* No step of the tool removes or relabels what carries other labels. *)
ForeignUntouched ==
    [][tool' # tool =>
         \A r \in Resources : docker[r] \in Foreign => docker'[r] = docker[r]]_vars

(* An unfinished transaction is eventually committed or recovered, unless  *)
(* a volume of a planned name belongs to someone else or is in use.        *)
Unfinished == journal.state \in JournalStates \ {None, "committed", "recovered"}
Settled ==
    \/ journal.state \in {"committed", "recovered"}
    \/ up # {} \/ \E r \in Volumes : docker[r] \in Foreign
=============================================================================
