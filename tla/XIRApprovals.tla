---------------------------- MODULE XIRApprovals -----------------------------
(***************************************************************************)
(* Operation approvals and the live commands that rest on them.            *)
(*                                                                         *)
(* The ledger (execute/approvals.py) has a row for every consumed approval *)
(* and for every revocation.  A caller of verify_and_consume verifies      *)
(* first and writes later, in a transaction of its own; other callers and  *)
(* revocations come in between.                                            *)
(*                                                                         *)
(* A live command (execute/live_commands.py, cli.py) reads its files one   *)
(* after another, some of them twice, correlates them and verifies the     *)
(* approval, and then shows a confirmation identifier or is let through    *)
(* with one.  The repository has no backend behind that: dispatch ends at  *)
(* the boundary (operation_backend_not_implemented), and no live command   *)
(* consumes its approval.  What arrives at the boundary is kept in         *)
(* `reached`.  The files can be edited at any time, also back.             *)
(*                                                                         *)
(* Digests are the values they digest; a preflight is made for one         *)
(* approval and names its operation.                                       *)
(***************************************************************************)
EXTENDS Integers, Sequences, FiniteSets

CONSTANTS
    Approvals,    \* the signed approvals
    Revocations,  \* the signed revocation records
    Callers,      \* processes that consume approvals
    Configs, Profiles,
    Shown,        \* the part of a profile that a confirmation derives from it
    Begin,        \* the files at first
    MaxEdits      \* bound on edits of the files and on lapses

(* An approval names its issuer's sequence number, the operation (type and *)
(* identifier) and the exact config and profile.                           *)
Documents == [issuer : STRING, seq : Nat, operation : STRING, config : Configs, profile : Profiles]
Withdrawals == [issuer : STRING, seq : Nat, approval : Approvals]
Files == [config : Configs, profile : Profiles, preflight : Approvals, approval : Approvals]

ASSUME ApprovalsAssumption ==
    /\ Approvals \subseteq Documents /\ Revocations \subseteq Withdrawals
    /\ Begin \subseteq Files
    /\ MaxEdits \in Nat

VARIABLES
    entries,  \* rows of approval_consumptions and approval_revocations, in order
    expired,  \* approvals whose validity has ended
    caller,   \* the approval each caller has verified and not yet written
    files,    \* the config, profile, preflight and approval files
    command,  \* the live command that runs: what it has read so far
    held,     \* the confirmations the operator was shown
    reached,  \* the context last dispatched with its confirmation, or none
    edits

ledgerVars == <<entries, expired, caller>>
commandVars == <<command, held, reached>>
avars == <<ledgerVars, files, commandVars, edits>>

Nobody == {}
NoCommand == [operation |-> "", at |-> 0, got |-> <<>>, edited |-> FALSE]

ApprovalsInit ==
    /\ entries = <<>> /\ expired = {}
    /\ caller = [p \in Callers |-> Nobody]
    /\ files \in Begin
    /\ command = NoCommand /\ held = {} /\ reached = {} /\ edits = 0
-----------------------------------------------------------------------------
(* The ledger. *)

Row(kind, approval, issuer, seq) ==
    [kind |-> kind, approval |-> approval, issuer |-> issuer, seq |-> seq]

Consumed(a) == \E i \in DOMAIN entries : entries[i].kind = "consumed" /\ entries[i].approval = a
Revoked(a) == \E i \in DOMAIN entries : entries[i].kind = "revoked" /\ entries[i].approval = a

(* The consumptions and revocations of an issuer share one sequence. *)
Monotonic(d) == \A i \in DOMAIN entries : entries[i].issuer = d.issuer => entries[i].seq < d.seq

Verifies(a) == a \notin expired /\ ~Revoked(a) /\ ~Consumed(a) /\ Monotonic(a)

Verify(p, a) ==
    /\ caller[p] = Nobody /\ Verifies(a)
    /\ caller' = [caller EXCEPT ![p] = {a}]
    /\ UNCHANGED <<entries, expired, files, commandVars, edits>>

(* mutant: the write trusts the verification that preceded it *)
ConsumeAllowed_Loaded(a) == ~Consumed(a)

(* The write transaction reads revocations and sequences once more, and    *)
(* the primary key refuses a replay; the clock is not read again.          *)
ConsumeAllowed(a) == ~Revoked(a) /\ Monotonic(a) /\ ~Consumed(a)

Consume(p) ==
    /\ \E a \in caller[p] :
          entries' = IF ConsumeAllowed(a) THEN Append(entries, Row("consumed", a, a.issuer, a.seq))
                    ELSE entries
    /\ caller' = [caller EXCEPT ![p] = Nobody]
    /\ UNCHANGED <<expired, files, commandVars, edits>>

VerifyAndRecordRevocation(r) ==
    /\ Monotonic(r)
    /\ entries' = Append(entries, Row("revoked", r.approval, r.issuer, r.seq))
    /\ UNCHANGED <<expired, caller, files, commandVars, edits>>

Expire(a) ==
    /\ edits < MaxEdits /\ edits' = edits + 1
    /\ a \notin expired /\ expired' = expired \cup {a}
    /\ UNCHANGED <<entries, caller, files, commandVars>>
-----------------------------------------------------------------------------
(* A live command. *)

(* What load_live_context reads, in its order, and from which file: the    *)
(* profile is parsed and then digested, the approval is parsed to be       *)
(* correlated and later once more to be verified.                          *)
Reads == <<"config", "profile", "digest", "preflight", "envelope", "document">>
FileOf == [config |-> "config", profile |-> "profile", digest |-> "profile",
           preflight |-> "preflight", envelope |-> "approval", document |-> "approval"]

StartCommand(operation) ==
    /\ command = NoCommand
    /\ command' = [NoCommand EXCEPT !.operation = operation]
    /\ UNCHANGED <<ledgerVars, files, held, reached, edits>>

(* mutant: the profile's digest is not compared with the approved one *)
Correlated_AnyProfile(operation, got) ==
    /\ got.envelope.operation = operation
    /\ got.envelope = got.preflight
    /\ got.envelope.config = got.config
    /\ Shown[got.profile] = Shown[got.envelope.profile]

(* The envelope is the preflight's, for this operation, this config and    *)
(* this profile digest; the counts and conditions of the parsed profile    *)
(* are the approved ones, as for a pilot (_require_correlated_inputs).     *)
Correlated(operation, got) ==
    /\ got.envelope.operation = operation
    /\ got.envelope = got.preflight
    /\ got.envelope.config = got.config
    /\ got.envelope.profile = got.digest
    /\ Shown[got.profile] = Shown[got.envelope.profile]

(* The document is signed with the envelope's key, stands in the ledger    *)
(* and is for the preflight's operation.                                   *)
Authorised(got) ==
    /\ got.document.issuer = got.envelope.issuer
    /\ Verifies(got.document)
    /\ got.document.operation = got.preflight.operation

Accepts(operation, got) ==
    /\ "envelope" \in DOMAIN got => Correlated(operation, got)
    /\ "document" \in DOMAIN got => Authorised(got)

(* A failed check ends the command. *)
ReadNext ==
    /\ command # NoCommand /\ command.at < Len(Reads)
    /\ LET name == Reads[command.at + 1]
           got == [n \in DOMAIN command.got \cup {name} |->
                     IF n = name THEN files[FileOf[name]] ELSE command.got[n]]
       IN command' = IF Accepts(command.operation, got)
                     THEN [command EXCEPT !.at = @ + 1, !.got = got] ELSE NoCommand
    /\ UNCHANGED <<ledgerVars, files, held, reached, edits>>

(* The summary has the digests, and of the profile what it derives from    *)
(* the parsed one: the transaction bound and the stop policy.              *)
ConfirmationId(got) ==
    [envelope |-> got.envelope, config |-> got.config, digest |-> got.digest,
     preflight |-> got.preflight, shown |-> Shown[got.profile]]

(* Without an identifier the command prints it and ends; with another one  *)
(* it fails; with its own it goes through.                                 *)
DispatchLive ==
    /\ command.at = Len(Reads)
    /\ command' = NoCommand
    /\ \/ held' = held \cup {ConfirmationId(command.got)} /\ UNCHANGED reached
       \/ /\ ConfirmationId(command.got) \in held
          /\ reached' = {command}
          /\ UNCHANGED held
       \/ held \ {ConfirmationId(command.got)} # {} /\ UNCHANGED <<held, reached>>
    /\ UNCHANGED <<ledgerVars, files, edits>>

EditFile(f, value) ==
    /\ edits < MaxEdits /\ edits' = edits + 1
    /\ value # files[f] /\ files' = [files EXCEPT ![f] = value]
    /\ command' = IF command = NoCommand THEN command ELSE [command EXCEPT !.edited = TRUE]
    /\ UNCHANGED <<ledgerVars, held, reached>>
-----------------------------------------------------------------------------
LedgerStep ==
    \/ \E p \in Callers : Consume(p) \/ \E a \in Approvals : Verify(p, a)
    \/ \E r \in Revocations : VerifyAndRecordRevocation(r)
    \/ \E a \in Approvals : Expire(a)

CommandStep ==
    \/ \E a \in Approvals : StartCommand(a.operation)
    \/ ReadNext \/ DispatchLive

Edit ==
    \/ \E c \in Configs : EditFile("config", c)
    \/ \E p \in Profiles : EditFile("profile", p)
    \/ \E a \in Approvals : EditFile("preflight", a) \/ EditFile("approval", a)

ApprovalsNext == LedgerStep \/ CommandStep \/ Edit

ApprovalsSpec == ApprovalsInit /\ [][ApprovalsNext]_avars

-----------------------------------------------------------------------------
(* Properties *)

Rows == [kind : {"consumed", "revoked"}, approval : Approvals, issuer : STRING, seq : Nat]
Contents == [config |-> Configs, profile |-> Profiles, preflight |-> Approvals, approval |-> Approvals]

IsCommand(c) ==
    /\ c = [operation |-> c.operation, at |-> c.at, got |-> c.got, edited |-> c.edited]
    /\ c.at \in 0..Len(Reads) /\ c.edited \in BOOLEAN
    /\ DOMAIN c.got = {Reads[i] : i \in 1..c.at}
    /\ \A n \in DOMAIN c.got : c.got[n] \in Contents[FileOf[n]]

(* Types of the state. *)
ApprovalsTypeOK ==
    /\ entries \in Seq(Rows) /\ expired \subseteq Approvals
    /\ caller \in [Callers -> SUBSET Approvals]
    /\ files \in Files
    /\ IsCommand(command) /\ \A x \in reached : IsCommand(x)
    /\ edits \in 0..MaxEdits

(* An approval is consumed at most once and never after its revocation, by *)
(* whichever issuer, and an issuer's sequence grows with every row of the  *)
(* ledger, although every caller verifies long before it writes            *)
(* (verify_and_consume, verify_and_record_revocation).                     *)
LedgerMonotone ==
    \A i, j \in DOMAIN entries : i < j =>
        /\ entries[i].issuer = entries[j].issuer => entries[i].seq < entries[j].seq
        /\ entries[j].kind = "consumed" => entries[i].approval # entries[j].approval

(* A command none of whose files was edited while it ran goes through only *)
(* with the config and the profile that the approval it verified names,    *)
(* which the operator was shown, whatever was edited before and between    *)
(* the command that asked and the one that was confirmed                   *)
(* (load_live_context, dispatch_live).                                     *)
ConfirmedAsApproved ==
    \A x \in reached : ~x.edited =>
        /\ x.got.profile = x.got.document.profile /\ x.got.config = x.got.document.config
        /\ \E s \in held : s.digest = x.got.profile /\ s.envelope = x.got.document

(* What the ledger and the confirmation guarantee.                         *)
AuthorityHolds == ApprovalsTypeOK /\ LedgerMonotone /\ ConfirmedAsApproved

(* A backend is given one already correlated and exactly confirmed         *)
(* operation (LiveStateChangeBackend.execute): the profile that goes       *)
(* through is the one whose digest was approved and confirmed.             *)
ExactlyConfirmed == \A x \in reached : x.got.profile = x.got.digest

=============================================================================
