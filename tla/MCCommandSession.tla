-------------------------- MODULE MCCommandSession --------------------------
(* CommandSession with one subscription, which may list an unknown uid     *)
(* first, and two of each thing that may be asked for; and the checks of  *)
(* the frames that all of it travels in.                                   *)
EXTENDS CommandSession, WireChecks

CONSTANTS k1, u1, u2, x, r1, r2

MCUidLists == {<<u1>>, <<x, u2, u1>>, <<x>>}
MCMasks == {2, 3, 128, 258}
MCPeriods == {3, 5}
=============================================================================
