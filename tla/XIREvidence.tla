----------------------------- MODULE XIREvidence -----------------------------
(***************************************************************************)
(* From observations to a recommendation (evidence/store.py,               *)
(* collect/protocol.py, collect/xir.py, analysis/): the evidence of one    *)
(* matched pair, a baseline attempt "b" and an XIR attempt "x", is stored  *)
(* and linked by observers, while an analyst reconciles the run, validates *)
(* the ledger, freezes it, rebuilds the reports twice and asks for a       *)
(* recommendation.  The analyst reads the ledger in several transactions;  *)
(* observers write between them, and every process can die at any step.    *)
(***************************************************************************)
EXTENDS Integers, Sequences, FiniteSets

CONSTANTS
    Scopes,         \* sets of attempts a freeze scope may name
    MaxFaults,      \* deaths, damaged files, reorganisations, retries, open backfills
    MaxPasses,      \* reconciliations, validations, freezes
    MaxLate         \* writes of observers once the analyst has begun

VARIABLES
    att,            \* [arm -> state of the attempt]
    txn,            \* [arm -> state of its transactions, the least advanced]
    final,          \* [arm -> latest finality observation]
    retry,          \* the retry of x: "absent", "planned", "not_submitted"
    legs,           \* [arm -> carrier messages linked, by leg and transaction]
    trace,          \* xir_attempt_records of x: <<>> or <<effect>>
    effect,         \* [arm -> destination_effects: <<>> or <<effect>>]
    dead,           \* [arm -> deadline outcome recorded]
    backfill,       \* [arm -> "pending" or "resolved", the default]
    scope,          \* declared freeze scope: <<>> or <<set of arms>>
    tainted,        \* invariant_violations has a row; nothing ever resolves one
    file, rawrow,   \* raw store: [arm -> "none", "whole", "damaged"], rows
    putter,         \* [arm -> where put_raw is]
    recon, valid,   \* the analyst's reports: "none", "valid", "invalid"
    pending,        \* attempts the reconciliation left pending
    scan,           \* a validation in progress, and whether it has found issues
    frz,            \* create_freeze in progress
    frozen,         \* freezes row: <<>> or <<[raw, snap]>>
    fdir,           \* the freeze on disk, the same with "manifest"
    rb,             \* a rebuild in progress
    pair,           \* pair_eligibility_decisions: "none", "eligible", "ineligible"
    rebuilds,       \* finished rebuilds
    advice,         \* "none", "go", "revise", "stop"
    mishaps, passes, late

evars == <<att, txn, final, retry, legs, trace, effect, dead, backfill, scope, tainted, file,
           rawrow, putter, recon, valid, pending, scan, frz, frozen, fdir, rb, pair, rebuilds,
           advice, mishaps, passes, late>>

Arms == {"b", "x"}
Submitted == {"submitted", "included", "finalized", "orphaned"}
(* Where a freeze or a rebuild is, and what it has read. *)
Idle == [at |-> "off", raw |-> {}, snap |-> {}, seen |-> "none", first |-> "none"]

(* The baseline attempt has been delivered and collected, before its       *)
(* deadline or after it; x is planned.                                     *)
Init ==
    /\ att = [b |-> "delivered", x |-> "planned"] /\ txn = [b |-> "finalized", x |-> "none"]
    /\ final = [b |-> "finalized", x |-> "none"] /\ retry = "absent"
    /\ legs = [b |-> {0, 1}, x |-> {}] /\ trace = <<>>
    /\ effect = [b |-> <<"done">>, x |-> <<>>]
    /\ dead \in {[b |-> timedOut, x |-> FALSE] : timedOut \in BOOLEAN}
    /\ backfill = [a \in Arms |-> "resolved"] /\ scope = <<>> /\ tainted = FALSE
    /\ file = [b |-> "whole", x |-> "none"] /\ rawrow = {"b"} /\ putter = [a \in Arms |-> "off"]
    /\ recon = "none" /\ valid = "none" /\ pending = 0 /\ scan = [at |-> "off", bad |-> FALSE]
    /\ frz = Idle /\ frozen = <<>> /\ fdir = <<>>
    /\ rb = Idle /\ pair = "none" /\ rebuilds = <<>> /\ advice = "none"
    /\ mishaps = 0 /\ passes = 0 /\ late = 0

(* One analyst, who does one thing at a time. *)
Free == scan.at = "off" /\ frz.at = "off" /\ rb.at = "off"

Analyst == <<recon, valid, pending, scan, frz, frozen, fdir, rb, pair, rebuilds, advice, passes>>
Raw == <<file, rawrow, putter>>
Links == <<legs, trace, effect>>
-----------------------------------------------------------------------------
(* Attempts and transactions *)

(* insert_attempt: a retry has the coordinates of the attempt it repeats. *)
InsertRetry ==
    /\ retry = "absent" /\ att["x"] # "planned" /\ retry' = "planned"
    /\ mishaps < MaxFaults /\ mishaps' = mishaps + 1
    /\ UNCHANGED <<att, txn, final, Links, dead, backfill, scope, tainted, Raw, Analyst>>

(* update_attempt_state refuses an attempt that has ended. *)
DropRetry ==
    /\ retry = "planned" /\ retry' = "not_submitted"
    /\ UNCHANGED <<att, txn, final, Links, dead, backfill, scope, tainted, Raw, Analyst, mishaps>>

NotSubmitted(a) ==
    /\ att[a] = "planned" /\ txn[a] = "none"
    /\ att' = [att EXCEPT ![a] = "not_submitted"]
    /\ UNCHANGED <<txn, final, retry, Links, dead, backfill, scope, tainted, Raw, Analyst, mishaps>>

Submit(a) ==
    /\ att[a] = "planned" /\ txn[a] = "none"
    /\ txn' = [txn EXCEPT ![a] = "submitted"]
    /\ UNCHANGED <<att, final, retry, Links, dead, backfill, scope, tainted, Raw, Analyst, mishaps>>

(* complete_attempt looks at the stages and not at how the attempt stands. *)
Complete(a) ==
    /\ txn[a] \in {"included", "finalized"} /\ att[a] \in {"planned", "timed_out"}
    /\ att' = [att EXCEPT ![a] = "delivered"]
    /\ UNCHANGED <<txn, final, retry, Links, dead, backfill, scope, tainted, Raw, Analyst, mishaps>>

(* mark_deadline_timeout: the only writer of a deadline outcome. *)
TimeOut(a) ==
    /\ att[a] = "planned" /\ txn[a] # "none" /\ ~dead[a]
    /\ dead' = [dead EXCEPT ![a] = TRUE] /\ att' = [att EXCEPT ![a] = "timed_out"]
    /\ UNCHANGED <<txn, final, retry, Links, backfill, scope, tainted, Raw, Analyst, mishaps>>

SetBackfill(a, state) ==
    /\ txn[a] # "none" /\ backfill[a] # state
    /\ backfill' = [backfill EXCEPT ![a] = state]
    /\ state = "pending" => mishaps < MaxFaults
    /\ mishaps' = IF state = "pending" THEN mishaps + 1 ELSE mishaps
    /\ UNCHANGED <<att, txn, final, retry, Links, dead, scope, tainted, Raw, Analyst>>

(* The finality manager appends an observation, then sets the state. *)
Observe(a, what) ==
    /\ txn[a] = (IF what = "finalized" THEN "included" ELSE "finalized")
    /\ final[a] # what /\ (what = "orphaned" => mishaps < MaxFaults)
    /\ final' = [final EXCEPT ![a] = what]
    /\ mishaps' = IF what = "orphaned" THEN mishaps + 1 ELSE mishaps
    /\ UNCHANGED <<att, txn, retry, Links, dead, backfill, scope, tainted, Raw, Analyst>>

SetState(a) ==
    /\ final[a] # "none" /\ txn[a] # final[a]
    /\ txn' = [txn EXCEPT ![a] = final[a]]
    /\ UNCHANGED <<att, final, retry, Links, dead, backfill, scope, tainted, Raw, Analyst, mishaps>>
-----------------------------------------------------------------------------
(* Raw store: collect_transaction puts what it read, then its rows. *)

(* put_raw: a temporary file, made durable and moved to its digest. *)
WriteFile(a) ==
    /\ putter[a] = "off" /\ txn[a] = "submitted"
    /\ file' = [file EXCEPT ![a] = IF @ = "none" THEN "whole" ELSE @]
    /\ putter' = [putter EXCEPT ![a] = "row"]
    /\ UNCHANGED <<att, txn, final, retry, Links, dead, backfill, scope, tainted, rawrow, Analyst, mishaps>>

RegisterRaw(a) ==
    /\ putter[a] = "row"
    /\ rawrow' = rawrow \cup {a} /\ putter' = [putter EXCEPT ![a] = "commit"]
    /\ UNCHANGED <<att, txn, final, retry, Links, dead, backfill, scope, tainted, file, Analyst, mishaps>>

CommitReceipt(a) ==
    /\ putter[a] = "commit" /\ putter' = [putter EXCEPT ![a] = "off"]
    /\ txn' = [txn EXCEPT ![a] = IF @ = "finalized" THEN @ ELSE "included"]
    /\ UNCHANGED <<att, final, retry, Links, dead, backfill, scope, tainted, file, rawrow, Analyst, mishaps>>

CollectorDies(a) ==
    /\ putter[a] # "off" /\ mishaps < MaxFaults
    /\ putter' = [putter EXCEPT ![a] = "off"] /\ mishaps' = mishaps + 1
    /\ UNCHANGED <<att, txn, final, retry, Links, dead, backfill, scope, tainted, file, rawrow, Analyst>>

Damage(a) ==
    /\ file[a] = "whole" /\ mishaps < MaxFaults
    /\ file' = [file EXCEPT ![a] = "damaged"] /\ mishaps' = mishaps + 1
    /\ UNCHANGED <<att, txn, final, retry, Links, dead, backfill, scope, tainted, rawrow, putter, Analyst>>

(* repair_raw *)
RawIssues ==
    {a \in Arms : (file[a] # "none" /\ a \notin rawrow) \/ (a \in rawrow /\ file[a] # "whole")}
-----------------------------------------------------------------------------
(* Linkers *)

(* A dispatch on attempt a and a delivery on attempt c make a message only *)
(* when they are of one attempt and one leg.                               *)
LinkCarrier(a, c, leg) ==
    /\ a = c /\ txn[a] \in {"included", "finalized"} /\ leg \notin legs[a]
    /\ legs' = [legs EXCEPT ![a] = @ \cup {leg}]
    /\ UNCHANGED <<att, txn, final, retry, trace, effect, dead, backfill, scope, tainted, Raw, Analyst, mishaps>>

(* The trace of x, with both legs and a successful effect; its             *)
(* destination effect is ignored when there is one.                        *)
LinkTrace ==
    /\ legs["x"] = {0, 1} /\ trace = <<>>
    /\ trace' = <<"done">>
    /\ effect' = [effect EXCEPT !["x"] = IF @ = <<>> THEN <<"done">> ELSE @]
    /\ UNCHANGED <<att, txn, final, retry, legs, dead, backfill, scope, tainted, Raw, Analyst, mishaps>>

(* DestinationEffectRecorder: the predicate held or did not when read. *)
RecordEffect(a, e) ==
    /\ txn[a] \in {"included", "finalized"} /\ effect[a] = <<>>
    /\ effect' = [effect EXCEPT ![a] = <<e>>]
    /\ UNCHANGED <<att, txn, final, retry, legs, trace, dead, backfill, scope, tainted, Raw, Analyst, mishaps>>
-----------------------------------------------------------------------------
(* Reconciliation and validation *)

DeclareScope(s) ==
    /\ scope = <<>> /\ scope' = <<s>>
    /\ UNCHANGED <<att, txn, final, retry, Links, dead, backfill, tainted, Raw, Analyst, mishaps>>

ReconcileIssues(retries) ==
    LET present == IF retry = "absent" THEN 0 ELSE 1
        sent == Cardinality({a \in Arms : txn[a] \in Submitted})
        unsent == Cardinality({a \in Arms : att[a] = "not_submitted"}) + IF retry = "not_submitted" THEN 1 ELSE 0
        waiting == {a \in Arms : backfill[a] = "pending"}
    IN (IF present # retries THEN {<<"count", "run">>} ELSE {})
       \cup (IF 2 + present # sent + unsent THEN {<<"submission", "run">>} ELSE {})
       \cup (IF sent # Cardinality({a \in Arms : dead[a]}) + Cardinality(waiting) THEN {<<"terminal", "run">>} ELSE {})
       \cup {<<"scope_pending", a>> : a \in {a \in scope[1] : ~dead[a] \/ a \in waiting}}

Reconcile(retries, record) ==
    /\ scope # <<>> /\ Free /\ passes < MaxPasses /\ passes' = passes + 1
    /\ recon' = IF ReconcileIssues(retries) = {} THEN "valid" ELSE "invalid"
    /\ pending' = Cardinality({a \in Arms : backfill[a] = "pending"})
    /\ tainted' = (tainted \/ (record /\ ReconcileIssues(retries) # {}))
    /\ UNCHANGED <<att, txn, final, retry, Links, dead, backfill, scope, Raw, valid, scan, frz,
                   frozen, fdir, rb, pair, rebuilds, advice, mishaps>>

AttemptIssues(a) ==
    (IF legs[a] \notin {{}, {0, 1}} THEN {<<"legs", a>>} ELSE {})
    \cup (IF a = "x" /\ trace = <<>> THEN {<<"trace", a>>} ELSE {})
    \cup (IF txn[a] = "finalized" /\ final[a] # "finalized" THEN {<<"finality", a>>} ELSE {})

(* validate reads the ledger, then looks at the files. *)
ReadLedger ==
    /\ scope # <<>> /\ Free /\ passes < MaxPasses /\ passes' = passes + 1
    /\ scan' = [at |-> "files", bad |-> tainted \/ \E a \in scope[1] : AttemptIssues(a) # {}]
    /\ UNCHANGED <<att, txn, final, retry, Links, dead, backfill, scope, tainted, Raw, recon, valid, pending,
                   frz, frozen, fdir, rb, pair, rebuilds, advice, mishaps>>

ScanFiles ==
    /\ scan.at = "files" /\ scan' = [at |-> "off", bad |-> FALSE]
    /\ LET bad == scan.bad \/ RawIssues # {}
       IN valid' = (IF bad THEN "invalid" ELSE "valid") /\ tainted' = (tainted \/ bad)
    /\ UNCHANGED <<att, txn, final, retry, Links, dead, backfill, scope, Raw, recon, pending, frz,
                   frozen, fdir, rb, pair, rebuilds, advice, mishaps, passes>>
-----------------------------------------------------------------------------
(* create_freeze: a read of the rows, a backup, two manifests, the row and *)
(* the freeze manifest.                                                    *)

ReadRows ==
    /\ Free /\ fdir = <<>> /\ ~tainted /\ passes < MaxPasses /\ passes' = passes + 1
    /\ frz' = [Idle EXCEPT !.at = "backup", !.raw = rawrow]
    /\ fdir' = <<[raw |-> {}, snap |-> {}, manifest |-> FALSE]>>
    /\ UNCHANGED <<att, txn, final, retry, Links, dead, backfill, scope, tainted, Raw, recon, valid, pending,
                   scan, frozen, rb, pair, rebuilds, advice, mishaps>>

(* mutant: the rows are read again after the backup *)
Backup_Reread ==
    /\ frz.at = "backup"
    /\ frz' = [frz EXCEPT !.at = "row", !.snap = frz.raw, !.raw = rawrow]
    /\ fdir' = <<[fdir[1] EXCEPT !.raw = rawrow, !.snap = frz.raw]>>
    /\ UNCHANGED <<att, txn, final, retry, Links, dead, backfill, scope, tainted, Raw, recon, valid, pending,
                   scan, frozen, rb, pair, rebuilds, advice, mishaps, passes>>

Backup ==
    /\ frz.at = "backup"
    /\ frz' = [frz EXCEPT !.at = "row", !.snap = rawrow]
    /\ fdir' = <<[fdir[1] EXCEPT !.raw = frz.raw, !.snap = rawrow]>>
    /\ UNCHANGED <<att, txn, final, retry, Links, dead, backfill, scope, tainted, Raw, recon, valid, pending,
                   scan, frozen, rb, pair, rebuilds, advice, mishaps, passes>>

FreezeRow ==
    /\ frz.at = "row" /\ frz' = [frz EXCEPT !.at = "manifest"]
    /\ frozen' = <<[raw |-> frz.raw, snap |-> frz.snap]>>
    /\ UNCHANGED <<att, txn, final, retry, Links, dead, backfill, scope, tainted, Raw, recon, valid, pending,
                   scan, fdir, rb, pair, rebuilds, advice, mishaps, passes>>

FreezeManifest ==
    /\ frz.at = "manifest" /\ frz' = Idle
    /\ fdir' = <<[fdir[1] EXCEPT !.manifest = TRUE]>>
    /\ UNCHANGED <<att, txn, final, retry, Links, dead, backfill, scope, tainted, Raw, recon, valid, pending,
                   scan, frozen, rb, pair, rebuilds, advice, mishaps, passes>>

FreezeDies ==
    /\ frz.at # "off" /\ mishaps < MaxFaults /\ mishaps' = mishaps + 1 /\ frz' = Idle
    /\ UNCHANGED <<att, txn, final, retry, Links, dead, backfill, scope, tainted, Raw, recon, valid, pending,
                   scan, frozen, fdir, rb, pair, rebuilds, advice, passes>>
-----------------------------------------------------------------------------
(* Rebuild: the normalised export, then the primary report, which decides  *)
(* the pair once for its summary and once for its values.                  *)

EvidenceMissing(a) == txn[a] # "finalized" \/ final[a] # "finalized" \/ a \notin rawrow

Decision ==
    IF /\ \A a \in Arms : att[a] = "delivered" /\ ~EvidenceMissing(a)
       /\ effect["b"] # <<>> /\ effect["b"] = effect["x"]
    THEN "eligible" ELSE "ineligible"

Export ==
    /\ Free /\ recon = "valid" /\ valid = "valid" /\ Len(rebuilds) < 2
    /\ rb' = [Idle EXCEPT !.at = "report", !.seen = pair]
    /\ UNCHANGED <<att, txn, final, retry, Links, dead, backfill, scope, tainted, Raw, recon, valid, pending,
                   scan, frz, frozen, fdir, pair, rebuilds, advice, mishaps, passes>>

(* The report asks for a freeze and for a run without violations.  What a  *)
(* pair is decided on is read over several connections and taken as one    *)
(* moment here.                                                            *)
Decide ==
    /\ rb.at = "report"
    /\ IF frozen = <<>> \/ tainted
       THEN rb' = Idle /\ UNCHANGED pair
       ELSE pair' = Decision /\ rb' = [rb EXCEPT !.at = "values", !.first = Decision]
    /\ UNCHANGED <<att, txn, final, retry, Links, dead, backfill, scope, tainted, Raw, recon, valid, pending,
                   scan, frz, frozen, fdir, rebuilds, advice, mishaps, passes>>

Values ==
    /\ rb.at = "values" /\ pair' = Decision /\ rb' = Idle
    /\ rebuilds' = Append(rebuilds, [export |-> rb.seen, summary |-> rb.first, values |-> Decision])
    /\ UNCHANGED <<att, txn, final, retry, Links, dead, backfill, scope, tainted, Raw, recon, valid, pending,
                   scan, frz, frozen, fdir, advice, mishaps, passes>>

(* build_pilot_recommendation *)
Recommendation ==
    IF recon # "valid" \/ valid # "valid" \/ pending > 0 \/ rebuilds[1] # rebuilds[2] THEN "stop"
    ELSE IF rebuilds[2].summary # "eligible" THEN "revise" ELSE "go"

Recommend ==
    /\ Len(rebuilds) = 2 /\ advice = "none" /\ advice' = Recommendation
    /\ UNCHANGED <<att, txn, final, retry, Links, dead, backfill, scope, tainted, Raw, recon, valid, pending,
                   scan, frz, frozen, fdir, rb, pair, rebuilds, mishaps, passes>>

Observers ==
    \/ InsertRetry \/ DropRetry \/ LinkTrace
    \/ \E a \in Arms :
        \/ NotSubmitted(a) \/ Submit(a) \/ Complete(a) \/ TimeOut(a) \/ SetState(a)
        \/ \E state \in {"pending", "resolved"} : SetBackfill(a, state)
        \/ \E what \in {"finalized", "orphaned"} : Observe(a, what)
        \/ WriteFile(a) \/ RegisterRaw(a) \/ CommitReceipt(a) \/ CollectorDies(a) \/ Damage(a)
        \/ \E c \in Arms, leg \in {0, 1} : LinkCarrier(a, c, leg)
        \/ \E e \in {"done", "undone"} : RecordEffect(a, e)

Analyses ==
    \/ \E s \in Scopes : DeclareScope(s)
    \/ \E retries \in {0, 1}, record \in BOOLEAN : Reconcile(retries, record)
    \/ ReadLedger \/ ScanFiles
    \/ ReadRows \/ Backup \/ FreezeRow \/ FreezeManifest \/ FreezeDies
    \/ Export \/ Decide \/ Values \/ Recommend

Next ==
    \/ Observers /\ (scope = <<>> \/ late < MaxLate)
                 /\ late' = IF scope = <<>> THEN late ELSE late + 1
    \/ Analyses /\ UNCHANGED late

Spec == Init /\ [][Next]_evars
-----------------------------------------------------------------------------
(* Properties *)

(* A registered blob has a file, wherever its collector died and whoever   *)
(* stored it before (put_raw); and what a freeze lists is in the database  *)
(* it was taken with and in the row that names it, although the rows are   *)
(* read before the backup and written after it (create_freeze).            *)
FreezeIsClosed ==
    /\ \A a \in rawrow : file[a] # "none"
    /\ frozen # <<>> => frozen[1].raw \subseteq frozen[1].snap
    /\ fdir # <<>> /\ fdir[1].manifest =>
           frozen = <<[raw |-> fdir[1].raw, snap |-> fdir[1].snap]>>

(* A report that counts the pair does so on evidence that was complete:    *)
(* both effects are recorded and equal, and stay so, and both arms have    *)
(* been stored and finalised, whatever is reorganised later (decide_pairs).*)
CountedIsComplete ==
    \A i \in DOMAIN rebuilds : rebuilds[i].values = "eligible" =>
        /\ effect["b"] # <<>> /\ effect["b"] = effect["x"]
        /\ \A a \in Arms : a \in rawrow /\ final[a] # "none"
        /\ frozen # <<>>

=============================================================================
