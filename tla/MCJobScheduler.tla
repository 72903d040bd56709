---------------------------- MODULE MCJobScheduler ----------------------------
(***************************************************************************)
(* Finite instances of JobScheduler for TLC.                               *)
(***************************************************************************)
EXTENDS JobScheduler

CONSTANTS api1, api2, api3

MCInstances == {api1, api2, api3}
=============================================================================
