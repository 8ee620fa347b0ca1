----------------------------- MODULE MCThreads ------------------------------
(* Instances of RTThreads for TLC. *)
EXTENDS RTThreads, TLC

CONSTANTS main, p, s, a

PS == {p, s}
PSList == <<s, p, main>>
PSPrio == (p :> 4) @@ (s :> 5)
PSKind == (p :> "periodic") @@ (s :> "sporadic")
PSPeriod == (p :> 1) @@ (s :> 1)
PSOffset == (p :> 1) @@ (s :> 0)
PSDeadline == (p :> 2) @@ (s :> 2)
PSMaxCost == (p :> 1) @@ (s :> 2)
PSHandler == (p :> "none") @@ (s :> "returns")
PSMit == (p :> "NONE") @@ (s :> "REPLACE")
PSOver == (p :> "NONE") @@ (s :> "IGNORE")
PSQueueMax == (p :> 0) @@ (s :> 1)
PSTargets == (p :> {s}) @@ (s :> {})

S == {s}
SList == <<s, main>>
SPrio == s :> 5
SKind == s :> "sporadic"
SPeriod == s :> 2
SOffset == s :> 1
SDeadline == s :> 2
SMaxCost == s :> 1
SHandler == s :> "returns"
SMit == s :> "REPLACE"
SOver == s :> "IGNORE"
SQueueMax == s :> 1
STargets == s :> {s}

PA == {p, a}
PAList == <<a, p, main>>
PAPrio == (p :> 5) @@ (a :> 4)
PAKind == (p :> "sporadic") @@ (a :> "aperiodic")
PAPeriod == (p :> 0) @@ (a :> 0)
PAOffset == (p :> 0) @@ (a :> 1)
PADeadline == (p :> 1) @@ (a :> 0)
PAMaxCost == (p :> 1) @@ (a :> 1)
PAHandler == (p :> "spins") @@ (a :> "none")
PAMit == (p :> "IGNORE") @@ (a :> "IGNORE")
PAOver == (p :> "IGNORE") @@ (a :> "IGNORE")
PAQueueMax == (p :> 0) @@ (a :> 0)
PATargets == (p :> {a}) @@ (a :> {})
=============================================================================
