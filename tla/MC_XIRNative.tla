---------------------------- MODULE MC_XIRNative ----------------------------
(* Instances of the native campaigns for model checking.                   *)
EXTENDS XIRNative

(* Two attempts that share chain a, or one attempt that switches carrier.  *)
PairOrSwitch == {<< <<"H">>, <<"H">> >>, << <<"L", "H">> >>}

(* A second disturbance for the attempt that runs alone. *)
OneOrTwo == [b \in Batches |-> IF Len(b) = 1 THEN 2 ELSE 1]
=============================================================================
