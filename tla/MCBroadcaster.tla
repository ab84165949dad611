---------------------------- MODULE MCBroadcaster ----------------------------
(***************************************************************************)
(* Instances of Broadcaster for TLC.  Connections, broadcasts and events   *)
(* are model values; the constants below choose which client is stuck.     *)
(***************************************************************************)
EXTENDS Broadcaster, TLC

NoStuck == {}
StuckFirst == {"c1"}
NoBcasts == {}
NoEvents == {}

\* Sound for safety: no property names a connection.
ConnSymmetry == Permutations(Conns)
=============================================================================
