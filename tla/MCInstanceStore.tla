-------------------------- MODULE MCInstanceStore --------------------------
(* InstanceStore on a few calls; liveness is checked, so without symmetry. *)
EXTENDS InstanceStore
=============================================================================
