---------------------------- MODULE ParallelRun ----------------------------
(***************************************************************************)
(* runner.Run with MaxParallel > 1 (internal/runner/runner.go): the        *)
(* targets of the dependency graph run level by level; every target of a   *)
(* level has a goroutine of its own that takes a slot of the shared        *)
(* semaphore and then calls runTargetWithCache, which takes the target's   *)
(* pool, its mutex, evaluates the when guard, consults the incremental     *)
(* cache and runs the steps.  The main goroutine waits for the level       *)
(* (wg.Wait) before it looks at firstErr.                                  *)
(*                                                                         *)
(* What a guard, a cache lookup, a step or a manifest write yields is a    *)
(* nondeterministic choice; how they touch files is the subject of         *)
(* BuildCache.                                                             *)
(***************************************************************************)
EXTENDS Naturals, FiniteSets

CONSTANTS Targets,       \* TopoOrder(cfg, targetName), as a set
          Deps,          \* Deps[t]: tgt.Deps
          Level,         \* Level[t]: levelOf in LevelOrder
          MaxParallel,   \* opts.MaxParallel, the capacity of sem
          Pool, Mutex,   \* Pool[t], Mutex[t]: tgt.Pool, tgt.Mutex
          Unnamed,       \* the empty pool or mutex name
          Guarded,       \* targets with a when clause
          Incremental,   \* targets with both inputs and outputs
          Cancellable,   \* whether the caller's context can be cancelled
          NoTarget       \* firstErr == nil

ASSUME GraphAssumption ==
    /\ IsFiniteSet(Targets)
    /\ Deps \in [Targets -> SUBSET Targets]
    /\ Level \in [Targets -> Nat]
    /\ \A t \in Targets : \A d \in Deps[t] : Level[d] < Level[t]
    /\ NoTarget \notin Targets
ASSUME LimitAssumption == MaxParallel \in Nat \ {0}
ASSUME NameAssumption == /\ Guarded \subseteq Targets
                         /\ Incremental \subseteq Targets
                         /\ Cancellable \in BOOLEAN

VARIABLES level,      \* index of the level being run
          pc,         \* pc[t]: where the goroutine of target t is
          ret,        \* ret[t]: what runTargetWithCache (or the select) returned
          sem,        \* targets holding a slot of the semaphore
          pool,       \* targets holding their pool
          mutex,      \* targets holding their mutex
          firstErr,   \* the target whose error is in firstErr
          ctxDone,    \* whether ctx has been cancelled
          verdict     \* "none" until Run returns

vars == <<level, pc, ret, sem, pool, mutex, firstErr, ctxDone, verdict>>
locks == <<sem, pool, mutex>>
main == <<level, firstErr, ctxDone, verdict>>

AtLevel(k) == {t \in Targets : Level[t] = k}
SharePool(t, u) == Pool[t] # Unnamed /\ Pool[t] = Pool[u]
ShareMutex(t, u) == Mutex[t] # Unnamed /\ Mutex[t] = Mutex[u]

Init == /\ level = 0
        /\ pc = [t \in Targets |-> "idle"]
        /\ ret = [t \in Targets |-> "none"]
        /\ sem = {} /\ pool = {} /\ mutex = {}
        /\ firstErr = NoTarget
        /\ ctxDone = FALSE
        /\ verdict = "none"

Goto(t, from, to) == /\ pc[t] = from
                     /\ pc' = [pc EXCEPT ![t] = to]

\* runTargetWithCache returns r; the deferred mu.Unlock() is next.
Return(t, from, r) == /\ Goto(t, from, "unlock")
                      /\ ret' = [ret EXCEPT ![t] = r]

----------------------------------------------------------------------------
(* The main goroutine.                                                     *)

\* Unknown target, dotenv error, or LevelOrder error: nothing was started.
RejectRun == /\ verdict = "none" /\ level = 0
             /\ \A t \in Targets : pc[t] = "idle"
             /\ verdict' = "rejected"
             /\ UNCHANGED <<level, pc, ret, firstErr, ctxDone, locks>>

\* Mutant of StartLevel: goroutines for every target at once.
StartAllLevels == /\ verdict = "none"
                  /\ \E t \in Targets : pc[t] = "idle"
                  /\ pc' = [t \in Targets |-> IF pc[t] = "idle" THEN "sem" ELSE pc[t]]
                  /\ UNCHANGED <<ret, locks, main>>

\* for _, name := range level { wg.Add(1); go func ... }.  A goroutine that is
\* started and not yet scheduled is no different from one still to be started,
\* so the loop is one step.
StartLevel == /\ verdict = "none"
              /\ \E t \in AtLevel(level) : pc[t] = "idle"
              /\ pc' = [t \in Targets |->
                          IF t \in AtLevel(level) THEN "sem" ELSE pc[t]]
              /\ UNCHANGED <<ret, locks, main>>

\* Mutant of EndLevel: the next level is started without a look at firstErr.
EndLevelIgnoresErr == /\ verdict = "none"
                      /\ \A t \in AtLevel(level) : pc[t] = "done"
                      /\ \E t \in Targets : Level[t] > level
                      /\ level' = level + 1
                      /\ UNCHANGED <<pc, ret, locks, firstErr, ctxDone, verdict>>

\* Mutant of EndLevel: return on the first error, without wg.Wait.
EndLevelFailFast == /\ verdict = "none" /\ firstErr # NoTarget
                    /\ verdict' = "failed"
                    /\ UNCHANGED <<level, pc, ret, locks, firstErr, ctxDone>>

\* wg.Wait() returns: fail, go to the next level, or succeed.
EndLevel == /\ verdict = "none"
            /\ \A t \in AtLevel(level) : pc[t] = "done"
            /\ \/ /\ firstErr # NoTarget
                  /\ verdict' = "failed"
                  /\ UNCHANGED level
               \/ /\ firstErr = NoTarget
                  /\ \E t \in Targets : Level[t] > level
                  /\ level' = level + 1
                  /\ UNCHANGED verdict
               \/ /\ firstErr = NoTarget
                  /\ \A t \in Targets : Level[t] <= level
                  /\ verdict' = "ok"
                  /\ UNCHANGED level
            /\ UNCHANGED <<pc, ret, locks, firstErr, ctxDone>>

\* The caller cancels ctx.
Cancel == /\ Cancellable /\ verdict = "none" /\ ~ctxDone
          /\ ctxDone' = TRUE
          /\ UNCHANGED <<level, pc, ret, locks, firstErr, verdict>>

----------------------------------------------------------------------------
(* The goroutine of target t.                                              *)

\* case sem <- struct{}{}:
AcquireSem(t) == /\ Goto(t, "sem", "pool")
                 /\ Cardinality(sem) < MaxParallel
                 /\ sem' = sem \union {t}
                 /\ UNCHANGED <<ret, pool, mutex, main>>

\* case <-ctx.Done(): record ctx.Err() and return without a slot.
CancelAtSem(t) == /\ Goto(t, "sem", "done")
                  /\ ctxDone
                  /\ ret' = [ret EXCEPT ![t] = "err"]
                  /\ firstErr' = IF firstErr = NoTarget THEN t ELSE firstErr
                  /\ UNCHANGED <<level, ctxDone, verdict, locks>>

\* The pool semaphore has capacity 1; a target without a pool passes.
AcquirePool(t) == /\ Goto(t, "pool", "mutex")
                  /\ \A u \in pool : ~SharePool(t, u)
                  /\ pool' = pool \union {t}
                  /\ UNCHANGED <<ret, sem, mutex, main>>

\* ctx.Done() while waiting for the pool: return ctx.Err(), nothing to release
\* but the slot.
CancelAtPool(t) == /\ Goto(t, "pool", "report")
                   /\ Pool[t] # Unnamed /\ ctxDone
                   /\ ret' = [ret EXCEPT ![t] = "err"]
                   /\ UNCHANGED <<locks, main>>

\* Mutant of LockMutex: TryLock, its result ignored.
LockMutexAnyway(t) == /\ Goto(t, "mutex", "guard")
                      /\ mutex' = mutex \union {t}
                      /\ UNCHANGED <<ret, sem, pool, main>>

\* mu.Lock() cannot be cancelled.  target_start is emitted next.
LockMutex(t) == /\ Goto(t, "mutex", "guard")
                /\ \A u \in mutex : ~ShareMutex(t, u)
                /\ mutex' = mutex \union {t}
                /\ UNCHANGED <<ret, sem, pool, main>>

\* A false when guard (or one whose command cannot run) skips the target,
\* which counts as success; otherwise only a target with inputs and outputs
\* goes through the cache.
EvalGuard(t) == /\ \/ t \in Guarded /\ Return(t, "guard", "ok")
                   \/ /\ Goto(t, "guard",
                              IF t \in Incremental THEN "lookup" ELSE "steps")
                      /\ UNCHANGED ret
                /\ UNCHANGED <<locks, main>>

\* Globs, hashes and manifest: an error, a hit (cache_skip) or a miss.
Lookup(t) == /\ \/ \E r \in {"ok", "err"} : Return(t, "lookup", r)
                \/ Goto(t, "lookup", "steps") /\ UNCHANGED ret
             /\ UNCHANGED <<locks, main>>

\* runTargetSteps: the first failing step ends it; after success a target with
\* inputs and outputs has its manifest saved.
RunSteps(t) == /\ \/ Return(t, "steps", "err")
                  \/ t \notin Incremental /\ Return(t, "steps", "ok")
                  \/ t \in Incremental /\ Goto(t, "steps", "save") /\ UNCHANGED ret
               /\ UNCHANGED <<locks, main>>

\* return cache.SaveManifest(...): its error is the target's error.
Save(t) == /\ \E r \in {"ok", "err"} : Return(t, "save", r)
           /\ UNCHANGED <<locks, main>>

\* The deferred mu.Unlock() and <-sem of runTargetWithCache, last one first.
UnlockMutex(t) == /\ Goto(t, "unlock", "unpool")
                  /\ mutex' = mutex \ {t}
                  /\ UNCHANGED <<ret, sem, pool, main>>

\* Mutant of ReleasePool: the slot of the pool is never given back.
KeepPool(t) == /\ Goto(t, "unpool", "report")
               /\ UNCHANGED <<ret, locks, main>>

ReleasePool(t) == /\ Goto(t, "unpool", "report")
                  /\ pool' = pool \ {t}
                  /\ UNCHANGED <<ret, sem, mutex, main>>

\* Mutant of Report: the error is dropped.
ReportNothing(t) == /\ Goto(t, "report", "release")
                    /\ UNCHANGED <<ret, locks, main>>

\* if err != nil { mu.Lock(); if firstErr == nil { firstErr = ... } }
Report(t) == /\ Goto(t, "report", "release")
             /\ firstErr' = IF ret[t] = "err" /\ firstErr = NoTarget
                            THEN t ELSE firstErr
             /\ UNCHANGED <<ret, locks, level, ctxDone, verdict>>

\* The deferred <-sem, then the deferred wg.Done().
ReleaseSem(t) == /\ Goto(t, "release", "done")
                 /\ sem' = sem \ {t}
                 /\ UNCHANGED <<ret, pool, mutex, main>>

Goroutine(t) == \/ AcquireSem(t) \/ CancelAtSem(t)
                \/ AcquirePool(t) \/ CancelAtPool(t)
                \/ LockMutex(t) \/ EvalGuard(t) \/ Lookup(t) \/ RunSteps(t)
                \/ Save(t) \/ UnlockMutex(t) \/ ReleasePool(t)
                \/ Report(t) \/ ReleaseSem(t)

Next == \/ RejectRun \/ StartLevel \/ EndLevel \/ Cancel
        \/ \E t \in Targets : Goroutine(t)

Spec == Init /\ [][Next]_vars

\* The Go scheduler runs every runnable goroutine eventually, and every step's
\* command terminates; nothing is assumed of the caller's Cancel.
Fairness == /\ WF_vars(StartLevel \/ EndLevel)
            /\ \A t \in Targets : WF_vars(Goroutine(t))

FairSpec == Spec /\ Fairness

----------------------------------------------------------------------------
(* Properties.                                                             *)

Locations == {"idle", "sem", "pool", "mutex", "guard", "lookup", "steps",
              "save", "unlock", "unpool", "report", "release", "done"}
Executing == {t \in Targets : pc[t] \in {"guard", "lookup", "steps", "save"}}
Started == {t \in Targets : pc[t] # "idle"}

\* The type invariant.
TypeOK == /\ level \in Nat
          /\ pc \in [Targets -> Locations]
          /\ ret \in [Targets -> {"none", "ok", "err"}]
          /\ sem \subseteq Targets
          /\ pool \subseteq Targets
          /\ mutex \subseteq Targets
          /\ firstErr \in Targets \union {NoTarget}
          /\ ctxDone \in BOOLEAN
          /\ verdict \in {"none", "ok", "failed", "rejected"}

\* A goroutine exists for a target only after each dependency's goroutine has
\* ended and returned no error: the level barrier (wg.Wait and the firstErr test
\* after it) and LevelOrder together order every target behind its dependencies.
DepsSettled == \A t \in Started : \A d \in Deps[t] :
                  pc[d] = "done" /\ ret[d] = "ok"

\* Never more than MaxParallel targets inside runTargetWithCache, whichever way
\* the earlier ones left (error, skip, cache hit, cancellation): `sem`.
ParallelBound ==
    Cardinality({t \in Targets : pc[t] \notin {"idle", "sem", "done"}}) <= MaxParallel

\* Two targets of one pool, or of one mutex, never execute at the same time
\* (docs/bakefile-reference.md, "Pool and mutex").
Exclusion == \A t, u \in Executing :
                t # u => ~SharePool(t, u) /\ ~ShareMutex(t, u)

\* The slots bound what runs whatever waits inside for a pool or a mutex, and
\* pools and mutexes exclude whatever the slots let in: both at once.
LimitsKept == ParallelBound /\ Exclusion

\* When Run returns it leaves no goroutine behind and no slot, pool or mutex
\* taken, and the level it stopped at ran to its end: no target is cut short by
\* the failure of another one.
CleanReturn == verdict # "none" =>
                 /\ sem = {} /\ pool = {} /\ mutex = {}
                 /\ \A t \in Targets : pc[t] \in {"idle", "done"}
                 /\ verdict # "rejected" =>
                      \A t \in Targets : Level[t] <= level <=> pc[t] = "done"

\* Run returns nil only if every target of the graph succeeded, and otherwise
\* the error of a target that did fail: no error is lost in firstErr.
HonestVerdict ==
    /\ verdict = "ok" => \A t \in Targets : ret[t] = "ok"
    /\ verdict = "failed" => firstErr \in Targets /\ ret[firstErr] = "err"

\* The error Run reports is the first one recorded; later ones never replace it.
FirstErrorKept == [][firstErr # NoTarget => firstErr' = firstErr]_vars

\* Run returns, whatever fails and whenever it is cancelled: slots, pools and
\* mutexes are always taken in that order and always released.
Termination == <>(verdict # "none")

\* The refinement mapping: a target runs from the moment it holds all it needs
\* until its outcome is known.
AbstractState == [t \in Targets |->
    IF pc[t] \in {"idle", "sem", "pool", "mutex"} THEN "waiting"
    ELSE IF t \in Executing THEN "running"
    ELSE IF ret[t] = "ok" THEN "ok" ELSE "failed"]
ExcludedPairs == {p \in Targets \X Targets :
                    SharePool(p[1], p[2]) \/ ShareMutex(p[1], p[2])}
Abstract == INSTANCE DagExec WITH st <- AbstractState, Excluded <- ExcludedPairs

\* The level-by-level run implements DagExec: whatever the interleaving, a
\* target starts only after its dependencies succeeded, within the limits, once.
ImplementsDagExec == Abstract!Spec
=============================================================================
