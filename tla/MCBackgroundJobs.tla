------------------------- MODULE MCBackgroundJobs -------------------------
(* BackgroundJobs on a few calls; liveness is checked, so without symmetry. *)
EXTENDS BackgroundJobs
=============================================================================
