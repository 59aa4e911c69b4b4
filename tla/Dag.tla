-------------------------------- MODULE Dag --------------------------------
(***************************************************************************)
(* internal/runner/dag.go: TopoOrder, a depth-first search with a visited  *)
(* set, and LevelOrder, which numbers the targets of that order.  The      *)
(* recursion of visit is an explicit stack, so that a state is a point in  *)
(* the run of the two functions.  Where the graph comes from is left open: *)
(* LoadedGraph takes it from a Bakefile or from a caller of the package.   *)
(***************************************************************************)
EXTENDS Integers, Sequences

CONSTANTS Names,     \* names a target may have
          Root       \* the requested target

VARIABLES deps,      \* deps[n]: tgt.Deps of the configured target n; <<>> as
                     \* long as nothing was asked for
          visited,   \* the visited map
          stack,     \* names whose visit is in progress, innermost first
          next,      \* next[n]: index of the next dependency visit(n) looks at
          order,     \* the order under construction
          failed,    \* visit returned an error
          numbered,  \* how many names of order LevelOrder has numbered
          levelOf    \* the levelOf map; a missing key reads as 0

vars == <<deps, visited, stack, next, order, failed, numbered, levelOf>>
search == <<visited, stack, next, order, failed>>
numbering == <<numbered, levelOf>>

DepsOf(n) == {deps[n][i] : i \in 1..Len(deps[n])}
Ordered == {order[i] : i \in 1..Len(order)}

Idle == deps = <<>>

Init == /\ Idle
        /\ visited = {} /\ stack = <<>> /\ order = <<>> /\ failed = FALSE
        /\ next = [n \in Names |-> 1]
        /\ numbered = 0
        /\ levelOf = [n \in Names |-> 0]

\* TopoOrder is called for Root, with the configuration that g stands for.
Begin(g) == /\ Idle /\ Root \in DOMAIN g
            /\ deps' = g
            /\ visited' = {Root}
            /\ stack' = <<Root>>
            /\ UNCHANGED <<next, order, failed, numbering>>

\* Mutant of Pending: the last dependency is not looked at.
PendingOffByOne == stack # <<>> /\ next[Head(stack)] < Len(deps[Head(stack)])

\* visit(name) has a dependency left to visit.
Pending == stack # <<>> /\ next[Head(stack)] <= Len(deps[Head(stack)])
Dep == deps[Head(stack)][next[Head(stack)]]
Advance == next' = [next EXCEPT ![Head(stack)] = @ + 1]

\* Mutant of SkipDep: it does not move on.
SkipDepForever == /\ Pending /\ Dep \in visited
                  /\ UNCHANGED vars

\* if visited[name] { return nil }
SkipDep == /\ Pending /\ Dep \in visited
           /\ Advance
           /\ UNCHANGED <<deps, visited, stack, order, failed, numbering>>

EnterDep == /\ Pending /\ Dep \notin visited /\ Dep \in DOMAIN deps
            /\ Advance
            /\ visited' = visited \union {Dep}
            /\ stack' = <<Dep>> \o stack
            /\ UNCHANGED <<deps, order, failed, numbering>>

\* cfg.TargetByName(name) == nil: the error unwinds every visit.
UnknownDep == /\ Pending /\ Dep \notin visited /\ Dep \notin DOMAIN deps
              /\ failed' = TRUE
              /\ stack' = <<>>
              /\ UNCHANGED <<deps, visited, next, order, numbering>>

\* order = append(order, name)
Leave == /\ stack # <<>> /\ ~Pending
         /\ order' = Append(order, Head(stack))
         /\ stack' = Tail(stack)
         /\ UNCHANGED <<deps, visited, next, failed, numbering>>

\* Mutant of Number: the smallest level of the dependencies.
NumberSmallest == /\ stack = <<>> /\ ~failed /\ numbered < Len(order)
                  /\ LET n == order[numbered + 1]
                         below == {levelOf[d] : d \in DepsOf(n) \cap Ordered}
                     IN levelOf' = [levelOf EXCEPT ![n] =
                             IF below = {} THEN 0
                             ELSE 1 + CHOOSE k \in below : \A j \in below : k <= j]
                  /\ numbered' = numbered + 1
                  /\ UNCHANGED <<deps, search>>

\* The loop over order in LevelOrder: one more than the largest level of the
\* dependencies in the set, 0 if there is none.
Number == /\ stack = <<>> /\ ~failed /\ numbered < Len(order)
          /\ LET n == order[numbered + 1]
                 below == {levelOf[d] : d \in DepsOf(n) \cap Ordered}
             IN levelOf' = [levelOf EXCEPT ![n] =
                     IF below = {} THEN 0
                     ELSE 1 + CHOOSE k \in below : \A j \in below : j <= k]
          /\ numbered' = numbered + 1
          /\ UNCHANGED <<deps, search>>

Step == SkipDep \/ EnterDep \/ UnknownDep \/ Leave \/ Number

----------------------------------------------------------------------------
(* Properties.                                                             *)

TopoDone == ~Idle /\ stack = <<>> /\ ~failed
LevelDone == TopoDone /\ numbered = Len(order)

\* n is in every set that holds Root and is closed under dependencies.
Reachable(n) == \A S \in SUBSET DOMAIN deps :
                  (/\ Root \in S
                   /\ \A m \in S : DepsOf(m) \cap DOMAIN deps \subseteq S) => n \in S

\* No non-empty set of names lets one go round in it for ever.
Acyclic == \A S \in SUBSET DOMAIN deps : S # {} => \E n \in S : DepsOf(n) \cap S = {}

\* When a name is appended to the order, all its dependencies already are.
DepsFirst == \A i \in 1..Len(order) : \A d \in DepsOf(order[i]) :
                \E j \in 1..(i - 1) : order[j] = d

\* The search returns every target the root needs, each once and no other, and
\* reports an error exactly when one of them names an unknown target.
OrderIsClosure ==
    /\ \A i, j \in 1..Len(order) : i # j => order[i] # order[j]
    /\ TopoDone => /\ Ordered = {n \in DOMAIN deps : Reachable(n)}
                   /\ \A n \in Ordered : DepsOf(n) \subseteq DOMAIN deps
    /\ failed => \E n \in DOMAIN deps : Reachable(n) /\ ~(DepsOf(n) \subseteq DOMAIN deps)

\* On an acyclic graph "TopoOrder returns target names in dependency order (deps
\* first, then the target)", and LevelOrder "level k = deps only in levels < k"
\* (dag.go), with no gap, the last one for the "final target" alone (runner.go):
\* what the sequential and the parallel run rest on.
Layered == Acyclic =>
    /\ DepsFirst
    /\ LevelDone => \A n \in Ordered :
          /\ \A d \in DepsOf(n) : levelOf[d] < levelOf[n]
          /\ levelOf[n] > 0 => \E d \in DepsOf(n) : levelOf[d] = levelOf[n] - 1
          /\ n # Root => levelOf[n] < levelOf[Root]

Ended == failed \/ LevelDone
=============================================================================
