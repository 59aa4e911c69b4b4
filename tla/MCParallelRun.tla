--------------------------- MODULE MCParallelRun ---------------------------
(***************************************************************************)
(* A graph of three levels: three independent targets that contend for the *)
(* slots, a pool and a mutex, a target on two of them, and the requested   *)
(* target, which is guarded and depends on both lower levels.              *)
(***************************************************************************)
EXTENDS ParallelRun, TLC

CONSTANTS a, b, c, d, e, docker, db

MCTargets == {a, b, c, d, e}
MCDeps == a :> {} @@ b :> {} @@ c :> {} @@ d :> {a, b} @@ e :> {c, d}
MCLevel == a :> 0 @@ b :> 0 @@ c :> 0 @@ d :> 1 @@ e :> 2
MCPool == [t \in MCTargets |-> IF t \in {a, b} THEN docker ELSE Unnamed]
MCMutex == [t \in MCTargets |-> IF t \in {b, c, e} THEN db ELSE Unnamed]
MCGuarded == {a, e}
MCIncremental == {b, d}
=============================================================================
