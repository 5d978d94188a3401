--------------------------- MODULE MCVmDaemon ---------------------------
(***************************************************************************)
(* One machine, two requests at a time, three starts and one end of the    *)
(* daemon: requests follow one another, so that a later one meets what two *)
(* overlapping ones left behind.                                            *)
(***************************************************************************)
EXTENDS VmDaemon
=============================================================================
