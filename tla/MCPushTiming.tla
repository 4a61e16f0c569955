---------------------------- MODULE MCPushTiming ----------------------------
(***************************************************************************)
(* An instance of PushTiming for TLC.                                      *)
(***************************************************************************)
EXTENDS PushTiming

\* 0:50 of the second day, and 3:00 of the third
MBusinessTimes == {Day + 3000, 2 * Day + 3 * Hour}
=============================================================================
