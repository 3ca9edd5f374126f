-------------------------- MODULE MC_XIRSubmission --------------------------
(***************************************************************************)
(* The live path for TLC: approvals with the live commands that rest on    *)
(* them, and the submission of two transactions of one nonce by two        *)
(* workers.  A submission reads of an approval only whether it still holds *)
(* (Lapses of XIRSubmission), so the two share no state; the initial state *)
(* chooses which of them, `part`, the behaviour is about, and the other    *)
(* stays as it began.                                                      *)
(***************************************************************************)
EXTENDS XIRSubmission, XIRApprovals, TLC

VARIABLE part

(* Two approvals of one operation by one issuer, the second for another    *)
(* profile, and one by another issuer; each issuer revokes once.  The two  *)
(* profiles look alike in a confirmation.                                  *)
First == [issuer |-> "i", seq |-> 1, operation |-> "pilot", config |-> "c", profile |-> "p"]
Second == [issuer |-> "i", seq |-> 3, operation |-> "pilot", config |-> "c", profile |-> "q"]
Other == [issuer |-> "j", seq |-> 2, operation |-> "pilot", config |-> "c", profile |-> "p"]
Three == {First, Second, Other}

RevokeFirst == [issuer |-> "i", seq |-> 2, approval |-> First]
RevokeSecond == [issuer |-> "j", seq |-> 1, approval |-> Second]
Two == {RevokeFirst, RevokeSecond}

(* The files as they were prepared for the first approval. *)
Prepared == {[config |-> "c", profile |-> "p", preflight |-> First, approval |-> First]}

ShownAlike == [p |-> "bound", q |-> "bound"]

MCInit ==
    /\ Init /\ ApprovalsInit
    /\ part \in {"submission", "approvals"}

MCNext ==
    \/ part = "submission" /\ Next /\ UNCHANGED <<part, avars>>
    \/ part = "approvals" /\ ApprovalsNext /\ UNCHANGED <<part, vars>>

MCSpec == MCInit /\ [][MCNext]_<<part, vars, avars>>

Symmetry == Permutations(Workers) \cup Permutations(Txns) \cup Permutations(Callers)
=============================================================================
