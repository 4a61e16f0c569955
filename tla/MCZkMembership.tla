--------------------------- MODULE MCZkMembership ----------------------------
(***************************************************************************)
(* An instance of ZkMembership for TLC.                                    *)
(***************************************************************************)
EXTENDS ZkMembership, TLC

CONSTANTS n1, n2
=============================================================================
