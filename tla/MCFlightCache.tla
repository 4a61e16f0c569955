---------------------------- MODULE MCFlightCache ----------------------------
(***************************************************************************)
(* An instance of FlightCache for TLC: the updater and one query thread.   *)
(***************************************************************************)
EXTENDS FlightCache, TLC

CONSTANTS updater, handler, a, b
=============================================================================
