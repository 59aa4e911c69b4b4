---------------------------- MODULE RunnerProofs ----------------------------
(***************************************************************************)
(* Proofs about internal/runner: ParallelRun, for every graph, every       *)
(* number of slots and every assignment of pools and mutexes; BuildCache,  *)
(* for every number of processes, contents, versions of the steps and      *)
(* outputs; EventStream, for every number of targets and events.           *)
(***************************************************************************)
EXTENDS ParallelRun, BuildCache, EventStream, FiniteSetTheorems, TLAPS

(***************************************************************************)
(* The parallel run.                                                       *)
(***************************************************************************)

\* The locations at which a goroutine holds its slot, its pool, its mutex.
SlotHeld == {"pool", "mutex", "guard", "lookup", "steps", "save",
             "unlock", "unpool", "report", "release"}
PoolHeld == {"mutex", "guard", "lookup", "steps", "save", "unlock", "unpool"}
MutexHeld == {"guard", "lookup", "steps", "save", "unlock"}

\* What the sets of holders say of the program counters, and the reverse.
Holders == \A t \in Targets : /\ t \in sem <=> pc[t] \in SlotHeld
                              /\ t \in pool <=> pc[t] \in PoolHeld
                              /\ t \in mutex <=> pc[t] \in MutexHeld

Disjoint == /\ \A t, u \in pool : t # u => ~SharePool(t, u)
            /\ \A t, u \in mutex : t # u => ~ShareMutex(t, u)

\* A target has a result exactly from its return on, and an error that is past
\* Report is in firstErr, which names a target that failed.
Results == /\ \A t \in Targets :
                /\ ret[t] = "none" <=>
                     pc[t] \notin {"unlock", "unpool", "report", "release", "done"}
                /\ (pc[t] \in {"release", "done"} /\ ret[t] = "err")
                     => firstErr # NoTarget
           /\ firstErr # NoTarget => ret[firstErr] = "err"

\* The levels below the current one are over without an error; nothing above it
\* was started, and its own targets were started together.
Frontier ==
    /\ \A t \in Targets : /\ Level[t] > level => pc[t] = "idle"
                          /\ Level[t] < level => pc[t] = "done" /\ ret[t] = "ok"
    /\ \A t, u \in AtLevel(level) : pc[t] = "idle" => pc[u] = "idle"

\* What holds of the frontier once Run has returned.
Returned ==
    /\ verdict = "rejected" => \A t \in Targets : pc[t] = "idle"
    /\ verdict \in {"ok", "failed"} => \A t \in AtLevel(level) : pc[t] = "done"
    /\ verdict = "failed" => firstErr # NoTarget
    /\ verdict = "ok" => firstErr = NoTarget /\ \A t \in Targets : Level[t] <= level

Control == TypeOK /\ Holders /\ Disjoint /\ Results /\ Frontier /\ Returned

\* The control part of the invariant holds initially ...
LEMMA ControlInit == Init => Control
<1> SUFFICES ASSUME Init PROVE Control
    OBVIOUS
<1>1. TypeOK BY GraphAssumption DEF Init, TypeOK, Locations
<1>2. Holders BY DEF Init, Holders, SlotHeld, PoolHeld, MutexHeld
<1>3. Disjoint BY DEF Init, Disjoint
<1>4. Results BY DEF Init, Results
<1>5. Frontier BY GraphAssumption DEF Init, Frontier, AtLevel
<1>6. Returned BY DEF Init, Returned
<1> QED BY <1>1, <1>2, <1>3, <1>4, <1>5, <1>6 DEF Control

\* ... and every step of the main goroutine, every step of a target's goroutine,
\* preserves it.
LEMMA ControlNext == Control /\ [Next]_vars => Control'
<1> USE GraphAssumption, NameAssumption
    DEF Control, TypeOK, Holders, Disjoint, Results, Frontier, Returned,
        Locations, SlotHeld, PoolHeld, MutexHeld, AtLevel, Goto, locks, main
<1> SUFFICES ASSUME Control, [Next]_vars PROVE Control'
    OBVIOUS
<1>1. CASE RejectRun BY <1>1 DEF RejectRun, SharePool, ShareMutex
<1>2. CASE StartLevel
  <2> USE DEF StartLevel
  <2>1. \A t \in AtLevel(level) : pc[t] = "idle"
    BY <1>2
  <2>2. TypeOK' BY <1>2
  <2>3. Holders' BY <1>2, <2>1
  <2>4. Disjoint' BY <1>2 DEF SharePool, ShareMutex
  <2>5. Results' BY <1>2, <2>1
  <2>6. Frontier' BY <1>2
  <2>7. Returned' BY <1>2
  <2> QED BY <2>2, <2>3, <2>4, <2>5, <2>6, <2>7
<1>3. CASE EndLevel BY <1>3 DEF EndLevel, SharePool, ShareMutex
<1>4. CASE Cancel BY <1>4 DEF Cancel, SharePool, ShareMutex
<1>5. ASSUME NEW t \in Targets, Goroutine(t) PROVE Control'
  <2>1. CASE AcquireSem(t) BY <2>1 DEF AcquireSem
  <2>2. CASE CancelAtSem(t) BY <2>2 DEF CancelAtSem
  <2>3. CASE AcquirePool(t) BY <2>3 DEF AcquirePool, SharePool
  <2>4. CASE CancelAtPool(t) BY <2>4 DEF CancelAtPool
  <2>5. CASE LockMutex(t) BY <2>5 DEF LockMutex, ShareMutex
  <2>6. CASE EvalGuard(t) BY <2>6 DEF EvalGuard, Return
  <2>7. CASE Lookup(t) BY <2>7 DEF Lookup, Return
  <2>8. CASE RunSteps(t) BY <2>8 DEF RunSteps, Return
  <2>9. CASE Save(t) BY <2>9 DEF Save, Return
  <2>10. CASE UnlockMutex(t) BY <2>10 DEF UnlockMutex
  <2>11. CASE ReleasePool(t) BY <2>11 DEF ReleasePool
  <2>12. CASE Report(t) BY <2>12 DEF Report
  <2>13. CASE ReleaseSem(t) BY <2>13 DEF ReleaseSem
  <2> QED BY <1>5, <2>1, <2>2, <2>3, <2>4, <2>5, <2>6, <2>7, <2>8, <2>9,
             <2>10, <2>11, <2>12, <2>13 DEF Goroutine
<1>6. CASE UNCHANGED vars BY <1>6 DEF vars, SharePool, ShareMutex
<1> QED BY <1>1, <1>2, <1>3, <1>4, <1>5, <1>6 DEF Next

THEOREM ControlInvariant == Spec => []Control
BY ControlInit, ControlNext, PTL DEF Spec

\* The type invariant holds, whatever the graph and the limits.
THEOREM TypeCorrect == Spec => []TypeOK
<1>1. Control => TypeOK BY DEF Control
<1> QED BY <1>1, ControlInvariant, PTL

\* No target is started before its dependencies have ended without an error.
THEOREM DependenciesFirst == Spec => []DepsSettled
<1>1. Control => DepsSettled
  <2> SUFFICES ASSUME Control, NEW t \in Started, NEW d \in Deps[t]
               PROVE pc[d] = "done" /\ ret[d] = "ok"
    BY DEF DepsSettled
  <2>1. t \in Targets /\ d \in Targets /\ Level[d] < Level[t]
    BY GraphAssumption DEF Started
  <2>2. Level[t] <= level
    BY <2>1, GraphAssumption DEF Control, TypeOK, Frontier, Started
  <2> QED
    BY <2>1, <2>2, GraphAssumption DEF Control, TypeOK, Frontier
<1> QED BY <1>1, ControlInvariant, PTL

\* Two targets that share a pool or a mutex never execute together.
THEOREM SharedResourcesExclude == Spec => []Exclusion
<1>1. Control => Exclusion
  BY DEF Control, Holders, Disjoint, Exclusion, Executing, PoolHeld, MutexHeld
<1> QED BY <1>1, ControlInvariant, PTL

\* A run that returned left no goroutine and no lock behind.
THEOREM ReturnIsClean == Spec => []CleanReturn
<1>1. Control => CleanReturn
  <2> SUFFICES ASSUME Control, verdict # "none"
               PROVE /\ sem = {} /\ pool = {} /\ mutex = {}
                     /\ \A t \in Targets : pc[t] \in {"idle", "done"}
                     /\ verdict # "rejected" =>
                          \A t \in Targets : Level[t] <= level <=> pc[t] = "done"
    BY DEF CleanReturn
  <2>1. ASSUME verdict # "rejected"
        PROVE \A t \in Targets : /\ Level[t] <= level => pc[t] = "done"
                                 /\ Level[t] > level => pc[t] = "idle"
    BY <2>1, GraphAssumption DEF Control, TypeOK, Frontier, Returned, AtLevel
  <2>2. \A t \in Targets : pc[t] \in {"idle", "done"}
    BY <2>1, GraphAssumption DEF Control, TypeOK, Returned
  <2>3. sem = {} /\ pool = {} /\ mutex = {}
    BY <2>2 DEF Control, TypeOK, Holders, SlotHeld, PoolHeld, MutexHeld
  <2> QED
    BY <2>1, <2>2, <2>3, GraphAssumption DEF Control, TypeOK
<1> QED BY <1>1, ControlInvariant, PTL

\* Run's verdict is that of its targets.
THEOREM VerdictIsHonest == Spec => []HonestVerdict
<1>1. Control => HonestVerdict
  <2> SUFFICES ASSUME Control PROVE HonestVerdict
    OBVIOUS
  <2>1. ASSUME verdict = "ok", NEW t \in Targets PROVE ret[t] = "ok"
    <3>1. CASE Level[t] < level
      BY <3>1 DEF Control, Frontier
    <3>2. CASE Level[t] = level
      BY <2>1, <3>2 DEF Control, TypeOK, Results, Returned, AtLevel
    <3> QED
      BY <2>1, <3>1, <3>2, GraphAssumption DEF Control, TypeOK, Returned
  <2>2. ASSUME verdict = "failed" PROVE firstErr \in Targets /\ ret[firstErr] = "err"
    BY <2>2 DEF Control, TypeOK, Results, Returned
  <2> QED BY <2>1, <2>2 DEF HonestVerdict
<1> QED BY <1>1, ControlInvariant, PTL

\* The first recorded error stays.
THEOREM ErrorIsKept == Spec => FirstErrorKept
<1>1. [Next]_vars => [firstErr # NoTarget => firstErr' = firstErr]_vars
  BY DEF Next, RejectRun, StartLevel, EndLevel, Cancel, Goroutine, AcquireSem,
         CancelAtSem, AcquirePool, CancelAtPool, LockMutex, EvalGuard, Lookup,
         RunSteps, Save, UnlockMutex, ReleasePool, Report, ReleaseSem, main, vars
<1> QED BY <1>1, PTL DEF Spec, FirstErrorKept

----------------------------------------------------------------------------
(* The bound on parallelism.                                               *)

SlotBound == IsFiniteSet(sem) /\ Cardinality(sem) <= MaxParallel

\* A step changes sem only by taking a free slot or by giving one back.
LEMMA SemSteps == ASSUME Control, [Next]_vars
                  PROVE \/ sem' = sem
                        \/ \E t \in Targets : /\ sem' = sem \union {t}
                                              /\ Cardinality(sem) < MaxParallel
                        \/ \E t \in Targets : sem' = sem \ {t}
BY DEF Next, RejectRun, StartLevel, EndLevel, Cancel, Goroutine, AcquireSem,
       CancelAtSem, AcquirePool, CancelAtPool, LockMutex, EvalGuard, Lookup,
       RunSteps, Save, UnlockMutex, ReleasePool, Report, ReleaseSem, locks, vars

LEMMA SlotBoundNext == Control /\ SlotBound /\ [Next]_vars => SlotBound'
<1> SUFFICES ASSUME Control, SlotBound, [Next]_vars PROVE SlotBound'
  OBVIOUS
<1> USE LimitAssumption DEF SlotBound
<1>1. CASE sem' = sem
  BY <1>1
<1>2. ASSUME NEW t \in Targets, sem' = sem \union {t}, Cardinality(sem) < MaxParallel
      PROVE SlotBound'
  <2>1. Cardinality(sem) \in Nat BY FS_CardinalityType
  <2>2. /\ IsFiniteSet(sem')
        /\ Cardinality(sem') = IF t \in sem THEN Cardinality(sem) ELSE Cardinality(sem) + 1
    BY <1>2, FS_AddElement
  <2> QED BY <1>2, <2>1, <2>2
<1>3. ASSUME NEW t \in Targets, sem' = sem \ {t} PROVE SlotBound'
  <2>1. Cardinality(sem) \in Nat BY FS_CardinalityType
  <2>2. /\ IsFiniteSet(sem')
        /\ Cardinality(sem') = IF t \in sem THEN Cardinality(sem) - 1 ELSE Cardinality(sem)
    BY <1>3, FS_RemoveElement
  <2> QED BY <1>3, <2>1, <2>2
<1> QED BY <1>1, <1>2, <1>3, SemSteps

\* At most MaxParallel targets hold a slot.
THEOREM SlotsBounded == Spec => []SlotBound
<1>1. Init => SlotBound
  BY FS_EmptySet, LimitAssumption DEF Init, SlotBound
<1> QED BY <1>1, SlotBoundNext, ControlInvariant, PTL DEF Spec

\* At most MaxParallel targets are inside runTargetWithCache.
THEOREM ParallelismBounded == Spec => []ParallelBound
<1>1. Control /\ SlotBound => ParallelBound
  <2> SUFFICES ASSUME Control, SlotBound PROVE ParallelBound
    OBVIOUS
  <2>1. {t \in Targets : pc[t] \notin {"idle", "sem", "done"}} = sem
    BY DEF Control, TypeOK, Holders, SlotHeld, Locations
  <2> QED BY <2>1 DEF SlotBound, ParallelBound
<1> QED BY <1>1, ControlInvariant, SlotsBounded, PTL

\* For every graph and every limit the run keeps within its slots, pools and
\* mutexes.
THEOREM LimitsHold == Spec => []LimitsKept
<1>1. ParallelBound /\ Exclusion => LimitsKept BY DEF LimitsKept
<1> QED BY <1>1, ParallelismBounded, SharedResourcesExclude, PTL

----------------------------------------------------------------------------
(* Every step of the run is a step of DagExec or leaves its state alone.   *)

\* The abstract status of one target, and of the others when only one goroutine
\* moves.
LEMMA StatusOf == ASSUME NEW t \in Targets
                  PROVE AbstractState[t] =
                          IF pc[t] \in {"idle", "sem", "pool", "mutex"} THEN "waiting"
                          ELSE IF pc[t] \in {"guard", "lookup", "steps", "save"}
                          THEN "running"
                          ELSE IF ret[t] = "ok" THEN "ok" ELSE "failed"
BY DEF AbstractState, Executing

LEMMA RunningIsExecuting == Abstract!Running = Executing
BY StatusOf DEF Abstract!Running, Executing

LEMMA SameCardinality == \A S : Abstract!Cardinality(S) = Cardinality(S)
BY DEF Abstract!Cardinality, Cardinality

LEMMA AbstractInit == Init => Abstract!Init
BY DEF Init, Abstract!Init, AbstractState

\* While a target's goroutine is on its way, Run has not returned and the
\* target's dependencies have succeeded.
LEMMA InFlight == ASSUME Control, NEW t \in Targets, pc[t] \notin {"idle", "done"}
                  PROVE /\ verdict = "none"
                        /\ \A d \in Deps[t] : d \in Targets /\ AbstractState[d] = "ok"
<1>1. Level[t] = level
  BY GraphAssumption DEF Control, TypeOK, Frontier
<1>2. verdict = "none"
  BY <1>1 DEF Control, TypeOK, Returned, AtLevel
<1>3. ASSUME NEW d \in Deps[t] PROVE d \in Targets /\ AbstractState[d] = "ok"
  <2>1. d \in Targets /\ Level[d] < level
    BY <1>1, GraphAssumption
  <2>2. pc[d] = "done" /\ ret[d] = "ok"
    BY <2>1 DEF Control, Frontier
  <2> QED BY <2>1, <2>2, StatusOf
<1> QED BY <1>2, <1>3

\* A move of t between locations of one status changes nothing.
LEMMA Stutter ==
    ASSUME Control, UNCHANGED verdict,
           \A t \in Targets : \/ pc'[t] = pc[t] /\ ret'[t] = ret[t]
                              \/ /\ {pc[t], pc'[t]} \subseteq {"idle", "sem", "pool", "mutex"}
                              \/ /\ {pc[t], pc'[t]} \subseteq {"guard", "lookup", "steps", "save"}
                              \/ /\ {pc[t], pc'[t]} \subseteq
                                      {"unlock", "unpool", "report", "release", "done"}
                                 /\ ret'[t] = ret[t]
    PROVE UNCHANGED Abstract!vars
<1>1. \A t \in Targets : AbstractState'[t] = AbstractState[t]
  BY DEF AbstractState, Executing
<1>2. AbstractState' = AbstractState
  BY <1>1 DEF AbstractState
<1> QED BY <1>2 DEF Abstract!vars

\* Only t moves, and its status becomes s.
LEMMA OneMoves ==
    ASSUME Control, NEW t \in Targets, NEW to, NEW r, NEW s,
           pc' = [pc EXCEPT ![t] = to], ret' = [ret EXCEPT ![t] = r],
           s = IF to \in {"idle", "sem", "pool", "mutex"} THEN "waiting"
               ELSE IF to \in {"guard", "lookup", "steps", "save"} THEN "running"
               ELSE IF r = "ok" THEN "ok" ELSE "failed"
    PROVE AbstractState' = [AbstractState EXCEPT ![t] = s]
<1>1. \A u \in Targets : u # t => pc'[u] = pc[u] /\ ret'[u] = ret[u]
  BY DEF Control, TypeOK
<1>2. pc'[t] = to /\ ret'[t] = r
  BY DEF Control, TypeOK
<1>3. \A u \in Targets : AbstractState'[u] = IF u = t THEN s ELSE AbstractState[u]
  BY <1>1, <1>2 DEF AbstractState, Executing
<1> QED BY <1>3 DEF AbstractState

\* Taking the mutex is the abstract Start: t holds a slot and is not counted in
\* Executing, so that fewer than MaxParallel targets are.
LEMMA LockIsStart ==
    ASSUME Control, SlotBound, NEW t \in Targets, LockMutex(t)
    PROVE Abstract!Start(t)
<1> USE DEF LockMutex, Goto
<1>1. Abstract!Ready(t)
  BY InFlight, StatusOf DEF Abstract!Ready
<1>2. Cardinality(Abstract!Running) < MaxParallel
  <2>1. t \in sem /\ Executing \in SUBSET (sem \ {t})
    BY DEF Control, Holders, SlotHeld, Executing
  <2>2. /\ IsFiniteSet(sem \ {t})
        /\ Cardinality(sem \ {t}) = Cardinality(sem) - 1
    BY <2>1, FS_RemoveElement DEF SlotBound
  <2>3. /\ Cardinality(Executing) <= Cardinality(sem) - 1
        /\ IsFiniteSet(Executing)
    BY <2>1, <2>2, FS_Subset
  <2>4. Cardinality(Executing) \in Nat /\ Cardinality(sem) \in Nat
    BY <2>3, FS_CardinalityType DEF SlotBound
  <2> QED BY <2>3, <2>4, RunningIsExecuting, LimitAssumption DEF SlotBound
<1>3. \A u \in Abstract!Running : <<t, u>> \notin ExcludedPairs
  <2> SUFFICES ASSUME NEW u \in Executing
               PROVE ~SharePool(t, u) /\ ~ShareMutex(t, u)
    BY RunningIsExecuting DEF ExcludedPairs
  <2>1. u \in Targets /\ u # t /\ u \in pool /\ u \in mutex /\ t \in pool
    BY DEF Executing, Control, Holders, PoolHeld, MutexHeld
  <2> QED BY <2>1 DEF Control, Disjoint
<1>4. AbstractState' = [AbstractState EXCEPT ![t] = "running"]
  <2>1. ret' = [ret EXCEPT ![t] = "none"] BY DEF Control, TypeOK, Results
  <2>2. pc' = [pc EXCEPT ![t] = "guard"] OBVIOUS
  <2> HIDE DEF LockMutex, Goto
  <2> QED BY <2>1, <2>2, OneMoves
<1>5. verdict' = verdict BY DEF main
<1> QED BY <1>1, <1>2, <1>3, <1>4, <1>5, SameCardinality DEF Abstract!Start

\* Returning from runTargetWithCache is the abstract Finish.
LEMMA ReturnIsFinish ==
    ASSUME Control, NEW t \in Targets, NEW r \in {"ok", "err"},
           NEW from \in {"guard", "lookup", "steps", "save"},
           Return(t, from, r), UNCHANGED verdict
    PROVE Abstract!Finish(t)
<1>1. AbstractState[t] = "running"
  BY StatusOf DEF Return, Goto
<1>2. CASE r = "ok"
  <2>1. AbstractState' = [AbstractState EXCEPT ![t] = "ok"]
    BY <1>2, OneMoves DEF Return, Goto
  <2> QED BY <1>1, <2>1 DEF Abstract!Finish
<1>3. CASE r = "err"
  <2>1. AbstractState' = [AbstractState EXCEPT ![t] = "failed"]
    BY <1>3, OneMoves DEF Return, Goto
  <2> QED BY <1>1, <2>1 DEF Abstract!Finish
<1> QED BY <1>2, <1>3

\* A cancellation that reaches t while it waits is the abstract Abandon.
LEMMA CancelIsAbandon ==
    ASSUME Control, NEW t \in Targets, CancelAtSem(t) \/ CancelAtPool(t)
    PROVE Abstract!Abandon(t)
<1> USE DEF CancelAtSem, CancelAtPool, Goto, main
<1>1. Abstract!Ready(t)
  BY InFlight, StatusOf DEF Abstract!Ready
<1>2. AbstractState' = [AbstractState EXCEPT ![t] = "failed"]
  BY OneMoves
<1>3. verdict' = verdict
  OBVIOUS
<1> QED BY <1>1, <1>2, <1>3 DEF Abstract!Abandon

\* The end of a level is a stutter, Succeed or Fail.
LEMMA EndOfLevel ==
    ASSUME Control, EndLevel
    PROVE Abstract!Succeed \/ Abstract!Fail \/ UNCHANGED Abstract!vars
<1> USE DEF EndLevel, locks
<1>1. UNCHANGED AbstractState
  BY DEF AbstractState, Executing
<1>2. \A t \in Targets : Level[t] <= level => pc[t] = "done"
  BY GraphAssumption DEF Control, TypeOK, Frontier, AtLevel
<1>3. CASE verdict' = "failed"
  <2>1. firstErr \in Targets /\ ret[firstErr] = "err"
    BY <1>3 DEF Control, TypeOK, Results
  <2>2. pc[firstErr] \notin {"idle", "sem", "pool", "mutex"} \union {"guard", "lookup", "steps", "save"}
    BY <2>1 DEF Control, TypeOK, Results
  <2>3. AbstractState[firstErr] = "failed"
    BY <2>1, <2>2, StatusOf
  <2>4. Executing = {}
    BY <1>2, GraphAssumption DEF Control, TypeOK, Frontier, Executing
  <2> QED
    BY <1>1, <1>3, <2>1, <2>3, <2>4, RunningIsExecuting DEF Abstract!Fail
<1>4. CASE verdict' = verdict
  BY <1>1, <1>4 DEF Abstract!vars
<1>5. CASE firstErr = NoTarget /\ (\A t \in Targets : Level[t] <= level) /\ verdict' = "ok"
  <2>1. ASSUME NEW t \in Targets PROVE AbstractState[t] = "ok"
    BY <1>2, <1>5, StatusOf DEF Control, TypeOK, Results
  <2> QED BY <1>1, <1>5, <2>1 DEF Abstract!Succeed
<1> QED BY <1>3, <1>4, <1>5

\* Every step of the run maps to a step of DagExec or to none.
LEMMA RefinementStep == Control /\ SlotBound /\ [Next]_vars => [Abstract!Next]_Abstract!vars
<1> SUFFICES ASSUME Control, SlotBound, [Next]_vars
             PROVE Abstract!Next \/ UNCHANGED Abstract!vars
  OBVIOUS
<1>1. CASE RejectRun
  <2>1. AbstractState' = AbstractState
    BY <1>1 DEF RejectRun, AbstractState, Executing
  <2>2. \A t \in Targets : AbstractState[t] = "waiting"
    BY <1>1, StatusOf DEF RejectRun
  <2> QED BY <1>1, <2>1, <2>2 DEF RejectRun, Abstract!Reject, Abstract!Next
<1>2. CASE StartLevel
  <2>1. \A t \in Targets : pc'[t] = pc[t] \/ (pc[t] = "idle" /\ pc'[t] = "sem")
    BY <1>2 DEF StartLevel, Control, TypeOK, Frontier, AtLevel
  <2>2. ret' = ret /\ verdict' = verdict
    BY <1>2 DEF StartLevel, main
  <2> QED BY <2>1, <2>2, Stutter
<1>3. CASE EndLevel BY <1>3, EndOfLevel DEF Abstract!Next
<1>4. CASE Cancel
  BY <1>4 DEF Cancel, Abstract!vars, AbstractState, Executing
<1>5. CASE UNCHANGED vars
  BY <1>5 DEF vars, Abstract!vars, AbstractState, Executing
<1>6. ASSUME NEW t \in Targets, Goroutine(t)
      PROVE Abstract!Next \/ UNCHANGED Abstract!vars
  <2>1. CASE LockMutex(t)
    BY <2>1, LockIsStart DEF Abstract!Next
  <2>2. CASE CancelAtSem(t) \/ CancelAtPool(t)
    BY <2>2, CancelIsAbandon DEF Abstract!Next
  <2>3. ASSUME NEW r \in {"ok", "err"}, NEW from \in {"guard", "lookup", "steps", "save"},
               Return(t, from, r), UNCHANGED verdict
        PROVE Abstract!Next
    BY <2>3, ReturnIsFinish DEF Abstract!Next
  <2>4. CASE EvalGuard(t) \/ Lookup(t) \/ RunSteps(t) \/ Save(t)
    <3>1. UNCHANGED verdict
      BY <2>4 DEF EvalGuard, Lookup, RunSteps, Save, main
    <3>2. CASE \E r \in {"ok", "err"}, from \in {"guard", "lookup", "steps", "save"} :
                  Return(t, from, r)
      BY <2>3, <3>1, <3>2
    <3>3. CASE \E from, to \in {"guard", "lookup", "steps", "save"} :
                  Goto(t, from, to) /\ UNCHANGED ret
      BY <3>1, <3>3, Stutter DEF Goto, Control, TypeOK
    <3> QED BY <2>4, <3>2, <3>3 DEF EvalGuard, Lookup, RunSteps, Save
  <2>5. CASE AcquireSem(t) \/ AcquirePool(t)
    <3>1. UNCHANGED <<ret, verdict>>
      BY <2>5 DEF AcquireSem, AcquirePool, main
    <3>2. \A u \in Targets : \/ pc'[u] = pc[u]
                             \/ {pc[u], pc'[u]} \subseteq {"idle", "sem", "pool", "mutex"}
      BY <2>5 DEF AcquireSem, AcquirePool, Goto, Control, TypeOK
    <3> QED BY <3>1, <3>2, Stutter
  <2>6. CASE UnlockMutex(t) \/ ReleasePool(t) \/ Report(t) \/ ReleaseSem(t)
    <3>1. UNCHANGED <<ret, verdict>>
      BY <2>6 DEF UnlockMutex, ReleasePool, Report, ReleaseSem, main
    <3>2. \A u \in Targets : \/ pc'[u] = pc[u]
                             \/ {pc[u], pc'[u]} \subseteq
                                  {"unlock", "unpool", "report", "release", "done"}
      BY <2>6 DEF UnlockMutex, ReleasePool, Report, ReleaseSem, Goto, Control, TypeOK
    <3> QED BY <3>1, <3>2, Stutter
  <2> QED BY <1>6, <2>1, <2>2, <2>4, <2>5, <2>6 DEF Goroutine
<1> QED BY <1>1, <1>2, <1>3, <1>4, <1>5, <1>6 DEF Next

\* The parallel run implements DagExec, for every graph and every limit.
THEOREM Refinement == Spec => ImplementsDagExec
BY AbstractInit, RefinementStep, ControlInvariant, SlotsBounded, PTL
   DEF Spec, ImplementsDagExec, Abstract!Spec

(***************************************************************************)
(* Incremental builds.                                                     *)
(***************************************************************************)

Readable(m) == m \notin {NoManifest, Damaged}

\* A process that has steps behind it completed them with the key it saves under.
Vouched == \A p \in Procs :
    where[p] \in {"resolve", "save", "write"} => KeyOf(p) \in completed

CacheInv == CacheTypeOK /\ Vouched /\ ManifestVouches

LEMMA CacheInit == InitCache => CacheInv
BY DEF InitCache, CacheInv, CacheTypeOK, Vouched, ManifestVouches, Sources, Keys, Key, OutputStates

LEMMA CacheTypeNext == CacheTypeOK /\ [NextCache]_cache => CacheTypeOK'
<1> USE DEF CacheTypeOK, Move, user, history, OutputStates
<1> SUFFICES ASSUME CacheTypeOK, [NextCache]_cache PROVE CacheTypeOK'
  OBVIOUS
<1>0. \A p \in Procs : KeyOf(p) \in Keys
  BY DEF KeyOf, Keys
<1>1. CASE Edit BY <1>1 DEF Edit
<1>2. CASE Delete BY <1>2 DEF Delete, Existing
<1>3. ASSUME NEW p \in Procs, Build(p) PROVE CacheTypeOK'
  <2>1. CASE HashInputs(p) BY <2>1 DEF HashInputs
  <2>2. CASE LookupError(p) BY <2>2 DEF LookupError
  <2>3. CASE Skip(p) BY <2>3 DEF Skip
  <2>4. CASE Miss(p) BY <2>4 DEF Miss
  <2>5. CASE StepsSucceed(p) BY <1>0, <2>5 DEF StepsSucceed, Sources
  <2>6. CASE StepsFail(p) BY <2>6 DEF StepsFail
  <2>7. CASE ResolveOutputs(p) BY <2>7 DEF ResolveOutputs, Existing
  <2>8. CASE OpenManifest(p) BY <2>8 DEF OpenManifest
  <2>9. CASE WriteManifest(p) BY <2>9 DEF WriteManifest
  <2>10. CASE SaveFails(p) BY <2>10 DEF SaveFails
  <2> QED
    BY <1>3, <2>1, <2>2, <2>3, <2>4, <2>5, <2>6, <2>7, <2>8, <2>9, <2>10 DEF Build
<1>4. CASE UNCHANGED cache BY <1>4 DEF cache
<1> QED BY <1>1, <1>2, <1>3, <1>4 DEF NextCache

LEMMA CacheNext == CacheInv /\ [NextCache]_cache => CacheInv'
<1> USE DEF CacheTypeOK, Vouched, ManifestVouches, Move, KeyOf, user, history
<1> SUFFICES ASSUME CacheTypeOK, Vouched, ManifestVouches, [NextCache]_cache
             PROVE  Vouched' /\ ManifestVouches'
  BY CacheTypeNext DEF CacheInv
<1>1. CASE Edit BY <1>1 DEF Edit
<1>2. CASE Delete BY <1>2 DEF Delete
<1>3. ASSUME NEW p \in Procs, Build(p) PROVE Vouched' /\ ManifestVouches'
  <2>1. CASE HashInputs(p) BY <2>1 DEF HashInputs
  <2>2. CASE LookupError(p) BY <2>2 DEF LookupError
  <2>3. CASE Skip(p) BY <2>3 DEF Skip
  <2>4. CASE Miss(p) BY <2>4 DEF Miss
  <2>5. CASE StepsSucceed(p) BY <2>5 DEF StepsSucceed
  <2>6. CASE StepsFail(p) BY <2>6 DEF StepsFail
  <2>7. CASE ResolveOutputs(p) BY <2>7 DEF ResolveOutputs
  <2>8. CASE OpenManifest(p) BY <2>8 DEF OpenManifest
  <2>9. CASE WriteManifest(p) BY <2>9 DEF WriteManifest
  <2>10. CASE SaveFails(p) BY <2>10 DEF SaveFails
  <2> QED
    BY <1>3, <2>1, <2>2, <2>3, <2>4, <2>5, <2>6, <2>7, <2>8, <2>9, <2>10 DEF Build
<1>4. CASE UNCHANGED cache BY <1>4 DEF cache
<1> QED BY <1>1, <1>2, <1>3, <1>4 DEF NextCache

THEOREM CacheInvariant == SpecCache => []CacheInv
BY CacheInit, CacheNext, PTL DEF SpecCache

\* The type invariant holds.
THEOREM CacheTypeCorrect == SpecCache => []CacheTypeOK
<1>1. CacheInv => CacheTypeOK BY DEF CacheInv
<1> QED BY <1>1, CacheInvariant, PTL

\* A manifest that can be read was saved by a run whose steps all succeeded with
\* its key, whatever the user and the other processes do meanwhile.
THEOREM ManifestsVouch == SpecCache => []ManifestVouches
<1>1. CacheInv => ManifestVouches BY DEF CacheInv
<1> QED BY <1>1, CacheInvariant, PTL

----------------------------------------------------------------------------
(* When a skip is right: user and builds have been careful so far.  No     *)
(* assumption is made on Signature.                                        *)

\* Everything in flight has the key of the present source; a key with a completed
\* run is that of a source in the past, and the outputs, if the key of the present
\* source has a completed run, were made from a source with this key unless the
\* user deleted them.
FreshInv == careful =>
    /\ source \in past
    /\ \A p \in Procs : where[p] # "idle" => loaded[p] = source
    /\ \A k \in completed : \E s \in past : k = Key(s)
    /\ \A k \in Keys : Readable(manifest[k]) => Produced \subseteq manifest[k]
    /\ Key(source) \in completed =>
         \A o \in Produced : \/ output[o] = Absent
                             \/ output[o] \in Sources /\ Alike(output[o], source)
    /\ \A p \in Procs : where[p] = "resolve" => Produced \subseteq Existing
    /\ \A p \in Procs : where[p] \in {"save", "write"} => Produced \subseteq paths[p]

LEMMA FreshNext == CacheInv /\ FreshInv /\ [NextCache]_cache => FreshInv'
<1> USE OutputAssumption
    DEF CacheInv, CacheTypeOK, Vouched, ManifestVouches, FreshInv, Readable,
        Move, KeyOf, user, history
<1> SUFFICES ASSUME CacheInv, FreshInv, [NextCache]_cache, careful' PROVE FreshInv'
  OBVIOUS
<1> careful
  BY DEF NextCache, Build, Edit, Delete, HashInputs, LookupError, Skip, Miss, StepsSucceed,
         StepsFail, ResolveOutputs, OpenManifest, WriteManifest, SaveFails, cache
<1>1. CASE Edit
  <2>1. PICK s \in Sources : /\ Alike(s, source) \/ \A u \in past : ~Alike(s, u)
                             /\ source' = s /\ past' = past \union {s}
    BY <1>1 DEF Edit
  <2>2. \A p \in Procs : where'[p] = "idle" BY <1>1 DEF Edit, Quiet
  <2>3. Key(s) \in completed => Key(s) = Key(source) BY <2>1 DEF Alike
  <2>4. UNCHANGED <<output, manifest, where, paths, completed>> BY <1>1 DEF Edit
  <2>5. ASSUME Key(source') \in completed', NEW o \in Produced
        PROVE  \/ output'[o] = Absent
               \/ output'[o] \in Sources /\ Alike(output'[o], source')
    <3>1. Key(s) = Key(source) /\ Key(source) \in completed BY <2>1, <2>3, <2>4, <2>5
    <3> QED BY <2>1, <2>4, <3>1 DEF Alike
  <2>6. \A k \in completed' : \E v \in past' : k = Key(v)
    BY <2>1, <2>4
  <2> QED BY <2>1, <2>2, <2>4, <2>5, <2>6
<1>2. CASE Delete
  <2>1. \A o \in Produced : output'[o] \in {Absent, output[o]} BY <1>2 DEF Delete
  <2>2. UNCHANGED <<source, past, manifest, where, loaded, paths, completed>>
    BY <1>2 DEF Delete
  <2>3. \A p \in Procs : where[p] = "idle" BY <1>2 DEF Delete, Quiet
  <2>4. ASSUME Key(source') \in completed', NEW o \in Produced
        PROVE  \/ output'[o] = Absent
               \/ output'[o] \in Sources /\ Alike(output'[o], source')
    BY <2>1, <2>2, <2>4
  <2> QED BY <2>2, <2>3, <2>4
<1>3. ASSUME NEW p \in Procs, Build(p) PROVE FreshInv'
  <2>1. CASE HashInputs(p) BY <2>1 DEF HashInputs, Existing
  <2>2. CASE LookupError(p) BY <2>2 DEF LookupError, Existing
  <2>3. CASE Skip(p) BY <2>3 DEF Skip, Existing
  <2>4. CASE Miss(p) BY <2>4 DEF Miss, Existing
  <2>5. CASE StepsSucceed(p)
    <3>1. loaded[p] = source /\ source \in Sources BY <2>5 DEF StepsSucceed
    <3>2. <<source[1], source[2]>> = source BY <3>1 DEF Sources
    <3>3. \A o \in Produced : output'[o] = source
      BY <2>5, <3>1, <3>2 DEF StepsSucceed
    <3>4. Produced \subseteq Existing'
      BY <3>1, <3>3 DEF Existing
    <3>5. source' = source /\ past' = past /\ completed' = completed \union {Key(source)}
      BY <2>5, <3>1 DEF StepsSucceed
    <3>6. \A o \in Produced : output'[o] \in Sources /\ Alike(output'[o], source')
      BY <3>1, <3>3, <3>5 DEF Alike
    <3> QED BY <2>5, <3>1, <3>4, <3>5, <3>6 DEF StepsSucceed
  <2>6. CASE StepsFail(p)
    <3>1. output' = output BY <2>6 DEF StepsFail
    <3> QED BY <2>6, <3>1 DEF StepsFail, Existing
  <2>7. CASE ResolveOutputs(p) BY <2>7 DEF ResolveOutputs, Existing
  <2>8. CASE OpenManifest(p) BY <2>8 DEF OpenManifest, Existing
  <2>9. CASE WriteManifest(p) BY <2>9 DEF WriteManifest, Existing
  <2>10. CASE SaveFails(p) BY <2>10 DEF SaveFails, Existing
  <2> QED
    BY <1>3, <2>1, <2>2, <2>3, <2>4, <2>5, <2>6, <2>7, <2>8, <2>9, <2>10 DEF Build
<1>4. CASE UNCHANGED cache BY <1>4 DEF cache, Existing
<1> QED BY <1>1, <1>2, <1>3, <1>4 DEF NextCache

\* While all have been careful a target is skipped only if its outputs were made from
\* the present inputs by steps with the present signature, whatever the signature
\* leaves out.
THEOREM SkipsAreFresh == SpecCache => SkipIsFresh
<1>1. InitCache => FreshInv
  BY OutputAssumption DEF InitCache, FreshInv, Readable
<1>2. CacheInv /\ FreshInv /\ [NextCache]_cache =>
        [\A p \in Procs : Skip(p) /\ careful =>
           \A o \in Produced : /\ output[o] \in Sources
                               /\ Alike(output[o], source)]_cache
  <2> SUFFICES ASSUME CacheInv, FreshInv, NEW p \in Procs, Skip(p), careful, NEW o \in Produced
               PROVE  output[o] \in Sources /\ Alike(output[o], source)
    OBVIOUS
  <2>1. loaded[p] = source /\ KeyOf(p) = Key(source) /\ KeyOf(p) \in Keys
    BY DEF Skip, Move, FreshInv, CacheInv, CacheTypeOK, KeyOf, Keys
  <2>2. Readable(manifest[KeyOf(p)]) /\ manifest[KeyOf(p)] \subseteq Existing
    BY DEF Skip, CacheHit, Readable
  <2>3. KeyOf(p) \in completed
    BY <2>1, <2>2 DEF CacheInv, ManifestVouches, Readable
  <2>4. o \in Existing
    BY <2>1, <2>2 DEF FreshInv
  <2> QED BY <2>1, <2>3, <2>4 DEF FreshInv, Existing
<1> QED BY <1>1, <1>2, FreshNext, CacheInvariant, PTL DEF SpecCache, SkipIsFresh

(***************************************************************************)
(* The event stream.                                                       *)
(***************************************************************************)

Pieces == [by : Emitters, nr : Nat, what : {"body", "rest", "newline", "step"}]

StreamType == /\ out \in Seq(Pieces)
              /\ count \in [Emitters -> Nat]
              /\ at \in [Emitters -> {"idle", "body", "inBody", "newline", "inNewline"}]
              /\ lock \in Emitters \union {NoOne}

\* Who is in a write holds the lock, and nobody else does.
LockHeld == \A e \in Emitters : lock = e <=> at[e] \in {"inBody", "inNewline"}

\* The last piece is the first half of an object only while its emitter goes on
\* writing it.
OpenBody == out # <<>> /\ out[Len(out)].what = "body" =>
               LET p == out[Len(out)]
               IN at[p.by] = "inBody" /\ p.nr = count[p.by]

StreamInv == StreamType /\ LockHeld /\ OpenBody /\ BodiesWhole

LEMMA StreamInit == InitStream => StreamInv
BY EventAssumption
   DEF InitStream, StreamInv, StreamType, LockHeld, OpenBody, BodiesWhole

\* What one more piece does to the pieces before it.
LEMMA OnePieceMore ==
  ASSUME StreamInv, NEW p \in Pieces, out' = Append(out, p),
         out # <<>> /\ out[Len(out)].what = "body" =>
            p.what = "step" \/ p = [out[Len(out)] EXCEPT !.what = "rest"]
  PROVE  /\ out' \in Seq(Pieces) /\ out' # <<>> /\ out'[Len(out')] = p
         /\ \A k \in 1..(Len(out') - 1) : out'[k].what = "body" =>
               \/ out'[k + 1] = [out'[k] EXCEPT !.what = "rest"]
               \/ out'[k + 1].what = "step"
<1>1. out \in Seq(Pieces) /\ Len(out) \in Nat BY DEF StreamInv, StreamType
<1>2. /\ out' \in Seq(Pieces) /\ Len(out') = Len(out) + 1 /\ out'[Len(out')] = p
      /\ \A k \in 1..Len(out) : out'[k] = out[k]
  BY <1>1
<1>3. ASSUME NEW k \in 1..(Len(out') - 1), out'[k].what = "body"
      PROVE  \/ out'[k + 1] = [out'[k] EXCEPT !.what = "rest"]
             \/ out'[k + 1].what = "step"
  <2>1. k \in 1..Len(out) /\ out[k].what = "body" /\ out'[k] = out[k] BY <1>1, <1>2, <1>3
  <2>2. CASE k = Len(out)
    <3>1. out # <<>> /\ out'[k + 1] = p BY <1>1, <1>2, <2>1, <2>2
    <3> QED BY <2>1, <2>2, <3>1
  <2>3. CASE k # Len(out)
    <3>1. k + 1 \in 1..Len(out) BY <1>1, <2>1, <2>3
    <3>2. out'[k + 1] = out[k + 1] BY <1>2, <3>1
    <3>3. \/ out[k + 1] = [out[k] EXCEPT !.what = "rest"]
          \/ out[k + 1].what = "step"
      BY <2>1, <2>3 DEF StreamInv, BodiesWhole
    <3> QED BY <2>1, <3>2, <3>3
  <2> QED BY <2>2, <2>3
<1> QED BY <1>1, <1>2, <1>3

LEMMA StreamNext == StreamInv /\ [NextStream]_stream => StreamInv'
<1> SUFFICES ASSUME StreamInv, [NextStream]_stream PROVE StreamInv'
  OBVIOUS
<1> DEFINE Followed == \A k \in 1..(Len(out) - 1) : out[k].what = "body" =>
                          \/ out[k + 1] = [out[k] EXCEPT !.what = "rest"]
                          \/ out[k + 1].what = "step"
<1>0. ASSUME StreamType', LockHeld', OpenBody', Followed' PROVE StreamInv'
  <2> SUFFICES ASSUME NEW k \in 1..Len(out'), out'[k].what = "body"
               PROVE  \/ k = Len(out') /\ lock' = out'[k].by
                      \/ k < Len(out') /\ out'[k + 1] = [out'[k] EXCEPT !.what = "rest"]
                      \/ k < Len(out') /\ out'[k + 1].what = "step"
    BY <1>0 DEF StreamInv, BodiesWhole
  <2>1. out' \in Seq(Pieces) /\ Len(out') \in Nat /\ out'[k] \in Pieces BY <1>0 DEF StreamType
  <2>2. CASE k = Len(out')
    <3>1. out'[k].by \in Emitters BY <2>1 DEF Pieces
    <3>2. at'[out'[k].by] = "inBody" BY <1>0, <2>1, <2>2 DEF OpenBody
    <3> QED BY <1>0, <2>2, <3>1, <3>2 DEF LockHeld
  <2>3. CASE k # Len(out')
    <3>1. k \in 1..(Len(out') - 1) /\ k < Len(out') BY <2>1, <2>3
    <3> QED BY <1>0, <3>1
  <2> QED BY <2>2, <2>3
<1>1. Followed
  <2>1. Len(out) \in Nat BY DEF StreamInv, StreamType
  <2> SUFFICES ASSUME NEW k \in 1..(Len(out) - 1), out[k].what = "body"
               PROVE  \/ out[k + 1] = [out[k] EXCEPT !.what = "rest"]
                      \/ out[k + 1].what = "step"
    OBVIOUS
  <2>2. k \in 1..Len(out) /\ k # Len(out) BY <2>1
  <2> QED BY <2>2 DEF StreamInv, BodiesWhole
<1>2. NoOne \notin Emitters BY EventAssumption
<1>3. out # <<>> => out[Len(out)] \in Pieces /\ out[Len(out)].by \in Emitters
  <2>1. out # <<>> => Len(out) \in 1..Len(out) /\ out[Len(out)] \in Pieces
    BY DEF StreamInv, StreamType
  <2> QED BY <2>1 DEF Pieces
<1>4. ASSUME NEW e \in Emitters, NEW what \in {"body", "rest", "newline", "step"}
      PROVE  Piece(e, what) \in Pieces /\ Piece(e, what).by = e /\ Piece(e, what).nr = count[e]
             /\ Piece(e, what).what = what
  BY DEF Piece, Pieces, StreamInv, StreamType
<1>5. ASSUME NEW e \in Emitters, Emit(e) PROVE StreamInv'
  <2>1. UNCHANGED <<out, lock>> /\ at[e] = "idle" BY <1>5 DEF Emit
  <2>2. StreamType' BY <1>5 DEF Emit, StreamInv, StreamType
  <2>3. LockHeld' BY <1>5 DEF Emit, StreamInv, StreamType, LockHeld
  <2>4. OpenBody'
    BY <1>3, <1>5 DEF Emit, StreamInv, StreamType, OpenBody
  <2>5. Followed' BY <1>1, <2>1
  <2> HIDE DEF Followed
  <2> QED BY <1>0, <2>2, <2>3, <2>4, <2>5
<1>6. ASSUME NEW e \in Emitters, BeginWrite(e) PROVE StreamInv'
  <2> DEFINE p == Piece(e, at[e])
  <2>1. lock = NoOne /\ lock' = e /\ out' = Append(out, p) /\ UNCHANGED count
        /\ at[e] \in {"body", "newline"}
        /\ at' = [at EXCEPT ![e] = IF @ = "body" THEN "inBody" ELSE "inNewline"]
    BY <1>6 DEF BeginWrite
  <2>2. p \in Pieces /\ p.by = e /\ p.nr = count[e] /\ p.what = at[e] BY <1>4, <2>1
  <2> HIDE DEF p
  <2>3. ~(out # <<>> /\ out[Len(out)].what = "body")
    BY <1>2, <1>3, <2>1 DEF StreamInv, OpenBody, LockHeld
  <2>4. out' \in Seq(Pieces) /\ out' # <<>> /\ out'[Len(out')] = p /\ Followed'
    BY <2>1, <2>2, <2>3, OnePieceMore
  <2> HIDE DEF Followed
  <2>5. StreamType' BY <2>1, <2>4 DEF StreamInv, StreamType
  <2>6. LockHeld' BY <1>2, <2>1 DEF StreamInv, StreamType, LockHeld
  <2>7. OpenBody' BY <2>1, <2>2, <2>4 DEF OpenBody, StreamInv, StreamType
  <2> QED BY <1>0, <2>4, <2>5, <2>6, <2>7
<1>7. ASSUME NEW e \in Emitters, EndWrite(e) PROVE StreamInv'
  <2>1. lock = e /\ lock' = NoOne /\ UNCHANGED count
        /\ at' = [at EXCEPT ![e] = IF @ = "inBody" THEN "newline" ELSE "idle"]
        /\ at[e] \in {"inBody", "inNewline"}
    BY <1>7 DEF EndWrite, StreamInv, LockHeld
  <2>2. LockHeld' BY <1>2, <2>1 DEF StreamInv, StreamType, LockHeld
  <2>3. out # <<>> /\ out[Len(out)].what = "body" =>
           out[Len(out)].by = e /\ at[e] = "inBody" /\ out[Len(out)].nr = count[e]
    BY <1>3, <2>1 DEF StreamInv, OpenBody, LockHeld
  <2>4. CASE at[e] = "inBody"
    <3> DEFINE p == Piece(e, "rest")
    <3>1. out' = Append(out, p) BY <1>7, <2>4 DEF EndWrite
    <3>2. p \in Pieces /\ p.by = e /\ p.nr = count[e] /\ p.what = "rest" BY <1>4
    <3>3. out # <<>> /\ out[Len(out)].what = "body" => p = [out[Len(out)] EXCEPT !.what = "rest"]
      BY <1>3, <2>3 DEF Piece, Pieces
    <3> HIDE DEF p
    <3>4. out' \in Seq(Pieces) /\ out' # <<>> /\ out'[Len(out')] = p /\ Followed'
      BY <3>1, <3>2, <3>3, OnePieceMore
    <3> HIDE DEF Followed
    <3>5. StreamType' BY <2>1, <3>4 DEF StreamInv, StreamType
    <3>6. OpenBody' BY <3>2, <3>4 DEF OpenBody
    <3> QED BY <1>0, <2>2, <3>4, <3>5, <3>6
  <2>5. CASE at[e] = "inNewline"
    <3>1. out' = out BY <1>7, <2>5 DEF EndWrite
    <3>2. StreamType' BY <2>1, <3>1 DEF StreamInv, StreamType
    <3>3. OpenBody' BY <2>3, <2>5, <3>1 DEF OpenBody
    <3>4. Followed' BY <1>1, <3>1
    <3> HIDE DEF Followed
    <3> QED BY <1>0, <2>2, <3>2, <3>3, <3>4
  <2> QED BY <2>1, <2>4, <2>5
<1>8. ASSUME NEW e \in Emitters, StepOutput(e) PROVE StreamInv'
  <2> DEFINE p == Piece(e, "step")
  <2>1. out' = Append(out, p) /\ UNCHANGED <<count, at, lock>> BY <1>8 DEF StepOutput
  <2>2. p \in Pieces /\ p.what = "step" BY <1>4
  <2> HIDE DEF p
  <2>3. out' \in Seq(Pieces) /\ out' # <<>> /\ out'[Len(out')] = p /\ Followed'
    BY <2>1, <2>2, OnePieceMore
  <2> HIDE DEF Followed
  <2>4. StreamType' BY <2>1, <2>3 DEF StreamInv, StreamType
  <2>5. LockHeld' BY <2>1 DEF StreamInv, LockHeld
  <2>6. OpenBody' BY <2>2, <2>3 DEF OpenBody
  <2> QED BY <1>0, <2>3, <2>4, <2>5, <2>6
<1>9. CASE UNCHANGED stream
  BY <1>9 DEF stream, StreamInv, StreamType, LockHeld, OpenBody, BodiesWhole
<1> QED BY <1>5, <1>6, <1>7, <1>8, <1>9 DEF NextStream

\* No event is torn by another one: for any number of targets that emit at the same
\* time, what follows the first half of an object is its second half, unless a step
\* of a dependency prints in between.
THEOREM EventsAreWhole == SpecStream => []BodiesWhole
<1>1. StreamInv => BodiesWhole BY DEF StreamInv
<1> QED BY <1>1, StreamInit, StreamNext, PTL DEF SpecStream
=============================================================================
