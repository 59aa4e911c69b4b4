------------------------------ MODULE DagExec ------------------------------
(***************************************************************************)
(* What runner.Run (internal/runner/runner.go) promises its callers, with  *)
(* no word on how it schedules: a target is started only once each of its  *)
(* dependencies has succeeded, at most MaxParallel targets run at a time,  *)
(* two targets that exclude each other never run together, no target runs  *)
(* twice, and the verdict is "ok" only when every target of the graph      *)
(* succeeded.  ParallelRun and SequentialRun implement this specification. *)
(***************************************************************************)
EXTENDS Naturals, FiniteSets

CONSTANTS Targets,          \* the targets in the closure of the requested one
          Deps,             \* Deps[t]: the targets t depends on
          MaxParallel,      \* how many targets may run at once
          Excluded          \* pairs <<t, u>> that share a pool or a mutex

VARIABLES st,               \* st[t]: where target t is
          verdict           \* what Run has returned, "none" until it does

vars == <<st, verdict>>

Running == {t \in Targets : st[t] = "running"}

Init == /\ st = [t \in Targets |-> "waiting"]
        /\ verdict = "none"

\* A waiting target whose dependencies have all succeeded.
Ready(t) == /\ verdict = "none"
            /\ st[t] = "waiting"
            /\ \A d \in Deps[t] : st[d] = "ok"

Start(t) == /\ Ready(t)
            /\ Cardinality(Running) < MaxParallel
            /\ \A u \in Running : <<t, u>> \notin Excluded
            /\ st' = [st EXCEPT ![t] = "running"]
            /\ UNCHANGED verdict

Finish(t) == /\ st[t] = "running"
             /\ \E r \in {"ok", "failed"} : st' = [st EXCEPT ![t] = r]
             /\ UNCHANGED verdict

\* The run is cancelled while t waits for its turn.
Abandon(t) == /\ Ready(t)
              /\ st' = [st EXCEPT ![t] = "failed"]
              /\ UNCHANGED verdict

Succeed == /\ verdict = "none"
           /\ \A t \in Targets : st[t] = "ok"
           /\ verdict' = "ok"
           /\ UNCHANGED st

Fail == /\ verdict = "none"
        /\ Running = {}
        /\ \E t \in Targets : st[t] = "failed"
        /\ verdict' = "failed"
        /\ UNCHANGED st

\* The request is refused before anything ran (unknown target or dependency,
\* unreadable dotenv file).
Reject == /\ verdict = "none"
          /\ \A t \in Targets : st[t] = "waiting"
          /\ verdict' = "rejected"
          /\ UNCHANGED st

Next == \/ \E t \in Targets : Start(t) \/ Finish(t) \/ Abandon(t)
        \/ Succeed \/ Fail \/ Reject

Spec == Init /\ [][Next]_vars
=============================================================================
