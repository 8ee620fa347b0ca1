-------------------------------- MODULE MCATS -------------------------------
(* Instances of RTATS for TLC. *)
EXTENDS RTATS, TLC

CONSTANTS main, s, r

SR == {s, r}
SRList == <<r, s, main>>
SRPrio == (s :> 5) @@ (r :> 5)
SRTicks == (s :> 0) @@ (r :> 0)
SRTargets == (s :> {r}) @@ (r :> {})

R == {r}
RList == <<r, main>>
RPrio == r :> 5
RTicks == r :> 0
RTargets == r :> {r}
=============================================================================
