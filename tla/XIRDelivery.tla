---------------------------- MODULE XIRDelivery ----------------------------
(***************************************************************************)
(* What the gateways and their receivers promise to an application: a      *)
(* record that was created on a source gateway may take effect, an attempt *)
(* takes effect at most once at an application, and nothing else does.     *)
(* Carriers, evidence and administration are invisible here.               *)
(***************************************************************************)
CONSTANT Roots    \* every record a gateway could create

VARIABLES created, applied

Create(root) ==
  /\ root \in Roots \ created
  /\ created' = created \cup {root}
  /\ UNCHANGED applied

Apply(root) ==
  /\ root \in created
  /\ \A r \in applied : <<r.dest, r.payload>> # <<root.dest, root.payload>>
  /\ applied' = applied \cup {root}
  /\ UNCHANGED created

Init == created = {} /\ applied = {}
Next == \E root \in Roots : Create(root) \/ Apply(root)
Spec == Init /\ [][Next]_<<created, applied>>
=============================================================================
