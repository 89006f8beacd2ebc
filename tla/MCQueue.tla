------------------------------ MODULE MCQueue ------------------------------
(***************************************************************************)
(* Instances of Queue for TLC.  The threads, elements and capacity of each *)
(* run are given in its configuration file.                                *)
(***************************************************************************)
EXTENDS Queue
=============================================================================
