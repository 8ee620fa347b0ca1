---------------------------- MODULE MCSemaphores ----------------------------
(* Instances of RTSemaphores for TLC. *)
EXTENDS RTSemaphores, TLC

CONSTANTS main, a, b, c, m, n

ABC == {a, b, c}
ABCList == <<c, b, a, main>>
None == (a :> {}) @@ (b :> {}) @@ (c :> {})

(* a and b lock m, b announces on n what c waits for, and c frees m. *)
ABCPrio == (a :> 5) @@ (b :> 4) @@ (c :> 4)
ABCTicks == (a :> 2) @@ (b :> 1) @@ (c :> 2)
ABCLocks == (a :> {m}) @@ (b :> {m}) @@ (c :> {})
ABCWaits == (a :> {}) @@ (b :> {}) @@ (c :> {n})
ABCPosts == (a :> {}) @@ (b :> {n}) @@ (c :> {})
ABCFrees == (a :> {}) @@ (b :> {}) @@ (c :> {m})
ABCInit == (m :> 1) @@ (n :> 0)

(* Equal priorities; c competes for the processor only. *)
RivalPrio == (a :> 5) @@ (b :> 5) @@ (c :> 5)
RivalTicks == (a :> 1) @@ (b :> 0) @@ (c :> 1)
RivalLocks == (a :> {m}) @@ (b :> {m}) @@ (c :> {n})
RivalInit == (m :> 1) @@ (n :> 1)
=============================================================================
