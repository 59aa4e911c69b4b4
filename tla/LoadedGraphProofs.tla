------------------------- MODULE LoadedGraphProofs -------------------------
(***************************************************************************)
(* Proofs about LoadedGraph: loading (Loading) and the search (Dag) in     *)
(* what was loaded, for every graph and every Bakefile.                    *)
(***************************************************************************)
EXTENDS LoadedGraph, FiniteSetTheorems, NaturalsInduction, WellFoundedInduction, TLAPS

(***************************************************************************)
(* Sets of numbers.                                                        *)
(***************************************************************************)

LEMMA LeastOf ==
  ASSUME NEW T \in SUBSET Nat, T # {}
  PROVE  \E n \in T : \A m \in T : n <= m
<1> DEFINE R == OpToRel(<, Nat)
<1>1. IsWellFoundedOn(R, Nat) BY NatLessThanWellFounded
<1>2. PICK n \in T : \A m \in T : ~(<<m, n>> \in R)
  <2> HIDE DEF R
  <2> QED BY <1>1, WFMin
<1>3. \A m \in T : ~(m < n) BY <1>2 DEF OpToRel
<1> QED BY <1>3

LEMMA GreatestOf ==
  ASSUME NEW T \in SUBSET Nat, T # {}, NEW b \in Nat, \A n \in T : n <= b
  PROVE  \E n \in T : \A m \in T : m <= n
<1> DEFINE Gaps == {b - n : n \in T}
<1>1. Gaps \in SUBSET Nat /\ Gaps # {}
  <2>1. \A n \in T : n \in Nat /\ b - n \in Nat OBVIOUS
  <2> QED BY <2>1
<1>2. PICK g \in Gaps : \A f \in Gaps : g <= f BY <1>1, LeastOf
<1>3. PICK n \in T : g = b - n OBVIOUS
<1>4. \A m \in T : b - n <= b - m BY <1>2, <1>3
<1> QED BY <1>3, <1>4

(***************************************************************************)
(* The search, whatever graph it is given.                                 *)
(***************************************************************************)

Succ(n) == Search!DepsOf(n)
OnStack == {stack[k] : k \in 1..Len(stack)}

SearchType == /\ IsGraph(deps)
              /\ visited \subseteq DOMAIN deps
              /\ stack \in Seq(visited)
              /\ order \in Seq(visited)
              /\ next \in [1..MaxName -> Nat]
              /\ failed \in BOOLEAN
              /\ numbered \in 0..Len(order)
              /\ levelOf \in [1..MaxName -> 0..numbered]

\* The stack is a path from where the search is to the root, and every name met
\* is on it or in the order, once.
Paths == /\ \A j, k \in 1..Len(stack) : j # k => stack[j] # stack[k]
         /\ \A j, k \in 1..Len(order) : j # k => order[j] # order[k]
         /\ OnStack \cap Search!Ordered = {}
         /\ ~failed => visited = OnStack \cup Search!Ordered
         /\ \A k \in 1..(Len(stack) - 1) : stack[k] \in Succ(stack[k + 1])

\* What has been looked at has been visited: all dependencies of a name that has
\* ended, those before next of a name on the stack.
Covered == /\ \A n \in visited : next[n] \in 1..(Len(deps[n]) + 1)
           /\ \A n \in OnStack : \A k \in 1..(next[n] - 1) : deps[n][k] \in visited
           /\ \A n \in Search!Ordered : Succ(n) \subseteq visited
           /\ \A n \in (1..MaxName) \ visited : next[n] = 1

\* Nothing is visited that the root does not need.
Needed == /\ deps # <<>> => Root \in visited
          /\ \A n \in visited : Search!Reachable(n)
          /\ \A n \in visited \ {Root} : \E m \in visited : n \in Succ(m)
          /\ failed => stack = <<>> /\ \E n \in visited : ~(Succ(n) \subseteq DOMAIN deps)

SearchInv == SearchType /\ Paths /\ Covered /\ Needed

LEMMA SearchInit == Search!Init => SearchInv
<1> SUFFICES ASSUME Search!Init PROVE SearchInv
  OBVIOUS
<1> USE DEF Search!Init, Search!Idle
<1>1. deps = <<>> /\ DOMAIN deps = {} /\ visited = {} /\ stack = <<>> /\ order = <<>>
  OBVIOUS
<1>2. IsGraph(deps) BY <1>1 DEF IsGraph
<1>2a. /\ stack \in Seq(visited) /\ order \in Seq(visited) /\ numbered \in 0..Len(order)
       /\ next \in [1..MaxName -> Nat] /\ levelOf \in [1..MaxName -> 0..numbered]
  BY <1>1
<1>2b. SearchType BY <1>1, <1>2, <1>2a DEF SearchType
<1>3. Paths BY <1>1 DEF Paths, OnStack, Search!Ordered
<1>4. Covered BY <1>1 DEF Covered, OnStack, Search!Ordered
<1>5. Needed BY <1>1 DEF Needed
<1> QED BY <1>2b, <1>3, <1>4, <1>5 DEF SearchInv

LEMMA SearchBegin ==
  ASSUME SearchInv, NEW g, IsGraph(g), Search!Begin(g)
  PROVE  SearchInv'
<1> USE DEF Search!Begin, Search!Idle, Search!numbering
<1>1. deps = <<>> /\ deps' = g /\ visited' = {Root} /\ stack' = <<Root>> /\ Root \in DOMAIN g
      /\ order' = order /\ next' = next /\ failed' = failed
      /\ numbered' = numbered /\ levelOf' = levelOf
  OBVIOUS
<1>2. visited = {} /\ order = <<>> /\ numbered = 0 /\ ~failed
  <2>1. visited = {} BY <1>1 DEF SearchInv, SearchType
  <2>2. order = <<>> BY <2>1 DEF SearchInv, SearchType
  <2> QED BY <2>1, <2>2 DEF SearchInv, SearchType, Needed
<1>3. Root \in 1..MaxName /\ next[Root] = 1 /\ g[Root] \in Seq(Nat)
  BY <1>1, <1>2, LoadedGraphAssumption DEF SearchInv, Covered, IsGraph
<1>4. SearchType'
  BY <1>1, <1>2 DEF SearchInv, SearchType, IsGraph
<1>5. OnStack' = {Root} /\ Search!Ordered' = {}
  BY <1>1, <1>2 DEF OnStack, Search!Ordered
<1>6. Paths' BY <1>1, <1>2, <1>5 DEF Paths
<1>7. Covered' BY <1>1, <1>2, <1>3, <1>5 DEF Covered, SearchInv
<1>8. Search!Reachable(Root)' BY DEF Search!Reachable
<1>9. Needed' BY <1>1, <1>2, <1>8 DEF Needed
<1> QED BY <1>4, <1>6, <1>7, <1>9 DEF SearchInv

\* The name whose visit is in progress, with the dependency it looks at.
LEMMA TopOfStack ==
  ASSUME SearchInv, stack # <<>>
  PROVE  /\ Head(stack) = stack[1] /\ stack[1] \in OnStack
         /\ stack[1] \in visited /\ stack[1] \in DOMAIN deps /\ stack[1] \in 1..MaxName
         /\ Len(stack) \in Nat \ {0} /\ Len(deps[stack[1]]) \in Nat
         /\ next[stack[1]] \in Nat
         /\ ~failed
<1>1. stack \in Seq(visited) /\ Len(stack) \in Nat \ {0} /\ stack[1] \in visited /\ Head(stack) = stack[1]
  BY DEF SearchInv, SearchType
<1>2. stack[1] \in OnStack BY <1>1 DEF OnStack
<1> QED BY <1>1, <1>2 DEF SearchInv, SearchType, IsGraph, Needed

LEMMA PendingDep ==
  ASSUME SearchInv, Search!Pending
  PROVE  /\ stack # <<>>
         /\ next[stack[1]] \in 1..Len(deps[stack[1]])
         /\ Search!Dep = deps[stack[1]][next[stack[1]]]
         /\ Search!Dep \in Succ(stack[1])
<1>1. stack # <<>> BY DEF Search!Pending
<1>2. next[stack[1]] \in 1..(Len(deps[stack[1]]) + 1)
  BY <1>1, TopOfStack DEF SearchInv, Covered
<1>3. next[stack[1]] \in 1..Len(deps[stack[1]])
  BY <1>1, <1>2, TopOfStack DEF Search!Pending
<1> QED BY <1>1, <1>3, TopOfStack DEF Search!Dep, Succ, Search!DepsOf

LEMMA SkipKeeps ==
  ASSUME SearchInv, Search!SkipDep
  PROVE  SearchInv'
<1> DEFINE h == stack[1]
<1>1. /\ next' = [next EXCEPT ![h] = @ + 1]
      /\ Search!Dep \in visited
      /\ UNCHANGED <<deps, visited, stack, order, failed, numbered, levelOf>>
      /\ Search!Pending
  BY TopOfStack DEF Search!SkipDep, Search!Advance, Search!Pending, Search!numbering
<1>2. /\ h \in visited /\ h \in DOMAIN deps /\ h \in 1..MaxName /\ h \in OnStack
      /\ next[h] \in 1..Len(deps[h]) /\ Len(deps[h]) \in Nat /\ next[h] \in Nat
      /\ deps[h][next[h]] \in visited
  BY <1>1, TopOfStack, PendingDep
<1>3. /\ next' \in [1..MaxName -> Nat]
      /\ next'[h] = next[h] + 1
      /\ \A n \in 1..MaxName : n # h => next'[n] = next[n]
  BY <1>1, <1>2 DEF SearchInv, SearchType
<1> HIDE DEF h
<1>4. SearchType'
  BY <1>1, <1>3 DEF SearchInv, SearchType, IsGraph
<1>5. OnStack' = OnStack /\ Search!Ordered' = Search!Ordered BY <1>1 DEF OnStack, Search!Ordered
<1>6. \A n : Succ(n)' = Succ(n) BY <1>1 DEF Succ, Search!DepsOf
<1>7. Paths' BY <1>1, <1>5, <1>6 DEF SearchInv, Paths
<1>8. Covered'
  <2>1. \A n \in visited : n \in 1..MaxName /\ next[n] \in 1..(Len(deps[n]) + 1)
    BY DEF SearchInv, SearchType, IsGraph, Covered
  <2>2. \A n \in visited' : next'[n] \in 1..(Len(deps'[n]) + 1)
    BY <1>1, <1>2, <1>3, <2>1
  <2>3. ASSUME NEW n \in OnStack', NEW k \in 1..(next'[n] - 1) PROVE deps'[n][k] \in visited'
    <3>1. n \in OnStack /\ n \in 1..MaxName
      <4>1. OnStack \subseteq visited BY DEF OnStack, SearchInv, SearchType
      <4> QED BY <1>5, <2>1, <4>1
    <3>2. CASE n = h /\ k = next[h] BY <1>1, <1>2, <3>2
    <3>3. CASE ~(n = h /\ k = next[h])
      <4>1. k \in 1..(next[n] - 1) BY <1>2, <1>3, <3>1, <3>3
      <4> QED BY <1>1, <3>1, <4>1 DEF SearchInv, Covered
    <3> QED BY <3>2, <3>3
  <2>4. \A n \in Search!Ordered' : Succ(n)' \subseteq visited'
    BY <1>1, <1>5, <1>6 DEF SearchInv, Covered
  <2>5. \A n \in (1..MaxName) \ visited' : next'[n] = 1
    BY <1>1, <1>2, <1>3 DEF SearchInv, Covered
  <2> QED BY <2>2, <2>3, <2>4, <2>5 DEF Covered
<1>9. Needed'
  <2>1. \A n : Search!Reachable(n)' <=> Search!Reachable(n)
    BY <1>1 DEF Search!Reachable, Search!DepsOf
  <2> QED BY <1>1, <1>6, <2>1 DEF SearchInv, Needed
<1> QED BY <1>4, <1>7, <1>8, <1>9 DEF SearchInv

\* What a needed name depends on is needed.
LEMMA NeedsDeps ==
  ASSUME NEW m \in DOMAIN deps, Search!Reachable(m), NEW d \in Succ(m), d \in DOMAIN deps
  PROVE  Search!Reachable(d)
BY DEF Search!Reachable, Succ

LEMMA EnterKeeps ==
  ASSUME SearchInv, Search!EnterDep
  PROVE  SearchInv'
<1> DEFINE h == stack[1]
           d == Search!Dep
<1>1. /\ next' = [next EXCEPT ![h] = @ + 1]
      /\ d \notin visited /\ d \in DOMAIN deps
      /\ visited' = visited \union {d}
      /\ stack' = <<d>> \o stack
      /\ UNCHANGED <<deps, order, failed, numbered, levelOf>>
      /\ Search!Pending
  BY TopOfStack DEF Search!EnterDep, Search!Advance, Search!Pending, Search!numbering
<1>2. /\ h \in visited /\ h \in DOMAIN deps /\ h \in 1..MaxName /\ h \in OnStack
      /\ next[h] \in 1..Len(deps[h]) /\ Len(deps[h]) \in Nat /\ next[h] \in Nat
      /\ d = deps[h][next[h]] /\ d \in Succ(h)
      /\ stack # <<>> /\ Len(stack) \in Nat \ {0} /\ ~failed
  BY <1>1, TopOfStack, PendingDep
<1>3. /\ next' \in [1..MaxName -> Nat]
      /\ next'[h] = next[h] + 1
      /\ \A n \in 1..MaxName : n # h => next'[n] = next[n]
  BY <1>1, <1>2 DEF SearchInv, SearchType
<1>4. d \in 1..MaxName /\ d # h /\ next[d] = 1 /\ next'[d] = 1 /\ Len(deps[d]) \in Nat
  <2>1. d \in (1..MaxName) \ visited /\ d # h /\ deps[d] \in Seq(Nat)
    BY <1>1, <1>2 DEF SearchInv, SearchType, IsGraph
  <2>2. next[d] = 1 BY <2>1 DEF SearchInv, Covered
  <2> QED BY <1>3, <2>1, <2>2
<1>5. stack \in Seq(visited) /\ \A k \in 1..Len(stack) : stack[k] \in visited
  BY DEF SearchInv, SearchType
<1> HIDE DEF d
<1>6. /\ stack' \in Seq(visited')
      /\ Len(stack') = Len(stack) + 1 /\ stack'[1] = d
      /\ \A k \in 1..Len(stack) : stack'[k + 1] = stack[k]
      /\ \A k \in 2..Len(stack') : stack'[k] = stack[k - 1]
  <2>1. stack \in Seq(visited') /\ <<d>> \in Seq(visited') BY <1>1, <1>5
  <2> QED BY <1>1, <2>1
<1>7. SearchType'
  <2>1. order' \in Seq(visited') BY <1>1 DEF SearchInv, SearchType
  <2> QED BY <1>1, <1>3, <1>6, <2>1 DEF SearchInv, SearchType, IsGraph
<1>8. Search!Ordered' = Search!Ordered BY <1>1 DEF Search!Ordered
<1>9. OnStack' = OnStack \union {d}
  <2>1. ASSUME NEW n \in OnStack' PROVE n \in OnStack \union {d}
    <3>1. PICK k \in 1..Len(stack') : n = stack'[k] BY DEF OnStack
    <3>2. CASE k = 1 BY <1>6, <3>1, <3>2
    <3>3. CASE k # 1
      <4>1. k - 1 \in 1..Len(stack) /\ k \in 2..Len(stack') BY <1>2, <1>6, <3>3
      <4>2. n = stack[k - 1] BY <1>6, <3>1, <4>1
      <4> QED BY <4>1, <4>2 DEF OnStack
    <3> QED BY <3>2, <3>3
  <2>2. d \in OnStack' BY <1>2, <1>6 DEF OnStack
  <2>3. ASSUME NEW n \in OnStack PROVE n \in OnStack'
    <3>1. PICK k \in 1..Len(stack) : n = stack[k] BY DEF OnStack
    <3>2. k + 1 \in 1..Len(stack') /\ stack'[k + 1] = n BY <1>2, <1>6, <3>1
    <3> QED BY <3>2 DEF OnStack
  <2> QED BY <2>1, <2>2, <2>3
<1>10. \A n : Succ(n)' = Succ(n) BY <1>1 DEF Succ, Search!DepsOf
<1>11. Paths'
  <2>1. ASSUME NEW j \in 1..Len(stack'), NEW k \in 1..Len(stack'), j # k PROVE stack'[j] # stack'[k]
    <3>1. \A m \in 2..Len(stack') : stack'[m] # d
      <4>1. ASSUME NEW m \in 2..Len(stack') PROVE stack'[m] \in visited
        <5>1. m - 1 \in 1..Len(stack) /\ stack'[m] = stack[m - 1] BY <1>2, <1>6
        <5> QED BY <1>5, <5>1
      <4> QED BY <1>1, <4>1
    <3>2. CASE j = 1 \/ k = 1 BY <1>2, <1>6, <2>1, <3>1, <3>2
    <3>3. CASE j # 1 /\ k # 1
      <4>1. /\ j - 1 \in 1..Len(stack) /\ k - 1 \in 1..Len(stack) /\ j - 1 # k - 1
            /\ stack'[j] = stack[j - 1] /\ stack'[k] = stack[k - 1]
        BY <1>2, <1>6, <2>1, <3>3
      <4> QED BY <4>1 DEF SearchInv, Paths
    <3> QED BY <3>2, <3>3
  <2>2. \A j, k \in 1..Len(order') : j # k => order'[j] # order'[k]
    BY <1>1 DEF SearchInv, Paths
  <2>3. Search!Ordered \subseteq visited BY DEF Search!Ordered, SearchInv, SearchType
  <2>4. \A k \in 1..(Len(stack') - 1) : stack'[k] \in Succ(stack[k + 1])'
    <3>1. ASSUME NEW k \in 1..(Len(stack') - 1) PROVE stack'[k] \in Succ(stack'[k + 1])
      <4>1. k \in 1..Len(stack) /\ stack'[k + 1] = stack[k] BY <1>2, <1>6
      <4>2. CASE k = 1 BY <1>2, <1>6, <4>1, <4>2
      <4>3. CASE k # 1
        <5>1. k - 1 \in 1..(Len(stack) - 1) /\ stack'[k] = stack[k - 1] /\ (k - 1) + 1 = k
          BY <1>2, <1>6, <4>1, <4>3
        <5>2. stack[k - 1] \in Succ(stack[k]) BY <5>1 DEF SearchInv, Paths
        <5> QED BY <4>1, <5>1, <5>2
      <4> QED BY <4>2, <4>3
    <3> QED BY <1>10, <3>1
  <2>5. OnStack' \cap Search!Ordered' = {} BY <1>1, <1>8, <1>9, <2>3 DEF SearchInv, Paths
  <2>6. visited' = OnStack' \cup Search!Ordered' BY <1>1, <1>2, <1>8, <1>9 DEF SearchInv, Paths
  <2> QED BY <1>1, <2>1, <2>2, <2>4, <2>5, <2>6 DEF Paths
<1>12. Covered'
  <2>1. \A n \in visited : n \in 1..MaxName /\ next[n] \in 1..(Len(deps[n]) + 1)
    BY DEF SearchInv, SearchType, IsGraph, Covered
  <2>2. \A n \in visited' : next'[n] \in 1..(Len(deps'[n]) + 1)
    BY <1>1, <1>2, <1>3, <1>4, <2>1
  <2>3. ASSUME NEW n \in OnStack', NEW k \in 1..(next'[n] - 1) PROVE deps'[n][k] \in visited'
    <3>1. n # d /\ n \in OnStack
      <4>1. next'[d] - 1 = 0 BY <1>4
      <4> QED BY <1>9, <4>1
    <3>2. n \in 1..MaxName /\ next[n] \in Nat
      BY <1>5, <2>1, <3>1 DEF OnStack, SearchInv, SearchType
    <3>3. CASE n = h /\ k = next[h] BY <1>1, <1>2, <3>3
    <3>4. CASE ~(n = h /\ k = next[h])
      <4>1. k \in 1..(next[n] - 1) BY <1>2, <1>3, <3>2, <3>4
      <4> QED BY <1>1, <3>1, <4>1 DEF SearchInv, Covered
    <3> QED BY <3>3, <3>4
  <2>4. \A n \in Search!Ordered' : Succ(n)' \subseteq visited'
    BY <1>1, <1>8, <1>10 DEF SearchInv, Covered
  <2>5. \A n \in (1..MaxName) \ visited' : next'[n] = 1
    BY <1>1, <1>2, <1>3 DEF SearchInv, Covered
  <2> QED BY <2>2, <2>3, <2>4, <2>5 DEF Covered
<1>13. Needed'
  <2>1. Search!Reachable(d) BY <1>1, <1>2, NeedsDeps DEF SearchInv, Needed
  <2>2. \A n : Search!Reachable(n)' <=> Search!Reachable(n)
    BY <1>1 DEF Search!Reachable, Search!DepsOf
  <2> QED BY <1>1, <1>2, <1>10, <2>1, <2>2 DEF SearchInv, Needed
<1> QED BY <1>7, <1>11, <1>12, <1>13 DEF SearchInv

LEMMA UnknownKeeps ==
  ASSUME SearchInv, Search!UnknownDep
  PROVE  SearchInv'
<1> DEFINE h == stack[1]
<1>1. /\ Search!Pending /\ Search!Dep \notin DOMAIN deps
      /\ failed' = TRUE /\ stack' = <<>>
      /\ UNCHANGED <<deps, visited, next, order, numbered, levelOf>>
  BY DEF Search!UnknownDep, Search!numbering
<1>2. OnStack' = {} /\ Search!Ordered' = Search!Ordered BY <1>1 DEF OnStack, Search!Ordered
<1>3. \A n : Succ(n)' = Succ(n) BY <1>1 DEF Succ, Search!DepsOf
<1>4. SearchType' BY <1>1 DEF SearchInv, SearchType, IsGraph
<1>5. Paths' BY <1>1, <1>2 DEF SearchInv, Paths
<1>6. Covered' BY <1>1, <1>2, <1>3 DEF SearchInv, Covered
<1>7. Needed'
  <2>1. h \in visited /\ ~(Succ(h) \subseteq DOMAIN deps)
    BY <1>1, TopOfStack, PendingDep
  <2>2. \A n : Search!Reachable(n)' <=> Search!Reachable(n)
    BY <1>1 DEF Search!Reachable, Search!DepsOf
  <2> QED BY <1>1, <1>3, <2>1, <2>2 DEF SearchInv, Needed
<1> QED BY <1>4, <1>5, <1>6, <1>7 DEF SearchInv

LEMMA LeaveKeeps ==
  ASSUME SearchInv, Search!Leave
  PROVE  SearchInv'
<1> DEFINE h == stack[1]
<1>1. /\ order' = Append(order, h)
      /\ stack' = Tail(stack)
      /\ UNCHANGED <<deps, visited, next, failed, numbered, levelOf>>
      /\ stack # <<>> /\ ~Search!Pending
  BY TopOfStack DEF Search!Leave, Search!numbering
<1>2. /\ h \in visited /\ h \in DOMAIN deps /\ h \in 1..MaxName /\ h \in OnStack
      /\ Len(deps[h]) \in Nat /\ next[h] \in Nat /\ next[h] > Len(deps[h])
      /\ Len(stack) \in Nat \ {0} /\ ~failed
  BY <1>1, TopOfStack DEF Search!Pending
<1>3. /\ stack \in Seq(visited) /\ order \in Seq(visited) /\ Len(order) \in Nat
      /\ \A k \in 1..Len(order) : order[k] \in visited
  BY DEF SearchInv, SearchType
<1> HIDE DEF h
<1>4. /\ stack' \in Seq(visited) /\ Len(stack') = Len(stack) - 1
      /\ \A k \in 1..Len(stack') : stack'[k] = stack[k + 1]
  BY <1>1, <1>2, <1>3
<1>5. /\ order' \in Seq(visited) /\ Len(order') = Len(order) + 1
      /\ order'[Len(order) + 1] = h
      /\ \A k \in 1..Len(order) : order'[k] = order[k]
  BY <1>1, <1>2, <1>3
<1>6. SearchType'
  BY <1>1, <1>3, <1>4, <1>5 DEF SearchInv, SearchType, IsGraph
<1>7. Search!Ordered' = Search!Ordered \union {h}
  <2>1. ASSUME NEW n \in Search!Ordered' PROVE n \in Search!Ordered \union {h}
    <3>1. PICK k \in 1..Len(order') : n = order'[k] BY DEF Search!Ordered
    <3>2. CASE k = Len(order) + 1 BY <1>5, <3>1, <3>2
    <3>3. CASE k # Len(order) + 1
      <4>1. k \in 1..Len(order) /\ n = order[k] BY <1>3, <1>5, <3>1, <3>3
      <4> QED BY <4>1 DEF Search!Ordered
    <3> QED BY <3>2, <3>3
  <2>2. h \in Search!Ordered' BY <1>3, <1>5 DEF Search!Ordered
  <2>3. ASSUME NEW n \in Search!Ordered PROVE n \in Search!Ordered'
    <3>1. PICK k \in 1..Len(order) : n = order[k] BY DEF Search!Ordered
    <3>2. k \in 1..Len(order') /\ order'[k] = n BY <1>3, <1>5, <3>1
    <3> QED BY <3>2 DEF Search!Ordered
  <2> QED BY <2>1, <2>2, <2>3
<1>8. OnStack' = OnStack \ {h}
  <2>1. ASSUME NEW n \in OnStack' PROVE n \in OnStack \ {h}
    <3>1. PICK k \in 1..Len(stack') : n = stack'[k] BY DEF OnStack
    <3>2. k + 1 \in 1..Len(stack) /\ n = stack[k + 1] /\ 1 \in 1..Len(stack) /\ k + 1 # 1
      BY <1>2, <1>4, <3>1
    <3>3. n # h BY <3>2 DEF SearchInv, Paths, h
    <3> QED BY <3>2, <3>3 DEF OnStack
  <2>2. ASSUME NEW n \in OnStack \ {h} PROVE n \in OnStack'
    <3>1. PICK k \in 1..Len(stack) : n = stack[k] BY DEF OnStack
    <3>2. k # 1 BY <3>1 DEF h
    <3>3. k - 1 \in 1..Len(stack') /\ (k - 1) + 1 = k BY <1>2, <1>4, <3>2
    <3>4. n = stack'[k - 1] BY <1>4, <3>1, <3>3
    <3> QED BY <3>3, <3>4 DEF OnStack
  <2> QED BY <2>1, <2>2
<1>9. \A n : Succ(n)' = Succ(n) BY <1>1 DEF Succ, Search!DepsOf
<1>10. Paths'
  <2>1. h \notin Search!Ordered BY <1>2 DEF SearchInv, Paths
  <2>2. \A j, k \in 1..Len(stack') : j # k => stack'[j] # stack'[k]
    <3>1. ASSUME NEW j \in 1..Len(stack'), NEW k \in 1..Len(stack'), j # k
          PROVE  stack'[j] # stack'[k]
      <4>1. j + 1 \in 1..Len(stack) /\ k + 1 \in 1..Len(stack) /\ j + 1 # k + 1
        BY <1>2, <1>4, <3>1
      <4>2. stack[j + 1] # stack[k + 1] BY <4>1 DEF SearchInv, Paths
      <4> QED BY <1>4, <4>2
    <3> QED BY <3>1
  <2>3. \A j, k \in 1..Len(order') : j # k => order'[j] # order'[k]
    <3>1. \A j \in 1..Len(order) : order[j] # h BY <2>1 DEF Search!Ordered
    <3>2. \A j, k \in 1..Len(order) : j # k => order[j] # order[k] BY DEF SearchInv, Paths
    <3>3. \A j \in 1..Len(order') : j \in 1..Len(order) \/ j = Len(order) + 1
      BY <1>3, <1>5
    <3> QED BY <1>3, <1>5, <3>1, <3>2, <3>3
  <2>4. \A k \in 1..(Len(stack') - 1) : stack'[k] \in Succ(stack[k + 1])'
    <3>1. ASSUME NEW k \in 1..(Len(stack') - 1) PROVE stack'[k] \in Succ(stack'[k + 1])
      <4>1. /\ k + 1 \in 1..(Len(stack) - 1)
            /\ k \in 1..Len(stack') /\ k + 1 \in 1..Len(stack')
        BY <1>2, <1>4
      <4>2. stack[k + 1] \in Succ(stack[(k + 1) + 1]) BY <4>1 DEF SearchInv, Paths
      <4> QED BY <1>4, <4>1, <4>2
    <3> QED BY <1>9, <3>1
  <2>5. OnStack' \cap Search!Ordered' = {} BY <1>7, <1>8 DEF SearchInv, Paths
  <2>6. visited' = OnStack' \cup Search!Ordered' BY <1>1, <1>2, <1>7, <1>8 DEF SearchInv, Paths
  <2> QED BY <2>2, <2>3, <2>4, <2>5, <2>6 DEF Paths
<1>11. Covered'
  <2>1. Succ(h) \subseteq visited
    <3>1. ASSUME NEW d \in Succ(h) PROVE d \in visited
      <4>1. PICK k \in 1..Len(deps[h]) : d = deps[h][k] BY DEF Succ, Search!DepsOf
      <4>2. k \in 1..(next[h] - 1) BY <1>2, <4>1
      <4> QED BY <1>2, <4>1, <4>2 DEF SearchInv, Covered
    <3> QED BY <3>1
  <2> QED BY <1>1, <1>7, <1>8, <1>9, <2>1 DEF SearchInv, Covered
<1>12. Needed'
  <2>1. \A n : Search!Reachable(n)' <=> Search!Reachable(n)
    BY <1>1 DEF Search!Reachable, Search!DepsOf
  <2> QED BY <1>1, <1>2, <1>9, <2>1 DEF SearchInv, Needed
<1> QED BY <1>6, <1>10, <1>11, <1>12 DEF SearchInv

\* The levels that the level of n has to exceed, and the largest of them.
Below(n) == {levelOf[d] : d \in Succ(n) \cap Search!Ordered}

LEMMA LevelsBelow ==
  ASSUME SearchInv, NEW n
  PROVE  Below(n) \subseteq 0..numbered
<1> SUFFICES ASSUME NEW d \in Succ(n) \cap Search!Ordered PROVE levelOf[d] \in 0..numbered
  BY DEF Below
<1>1. PICK k \in 1..Len(order) : d = order[k] BY DEF Search!Ordered
<1>2. d \in 1..MaxName BY <1>1 DEF SearchInv, SearchType, IsGraph
<1> QED BY <1>2 DEF SearchInv, SearchType

LEMMA HighestBelow ==
  ASSUME SearchInv, NEW n, Below(n) # {}
  PROVE  LET top == CHOOSE k \in Below(n) : \A j \in Below(n) : j <= k
         IN top \in Below(n) /\ top \in 0..numbered /\ \A j \in Below(n) : j <= top
<1>1. numbered \in Nat BY DEF SearchInv, SearchType
<1>2. Below(n) \in SUBSET Nat /\ \A j \in Below(n) : j <= numbered
  BY <1>1, LevelsBelow
<1>3. \E k \in Below(n) : \A j \in Below(n) : j <= k
  BY <1>1, <1>2, GreatestOf
<1> QED BY <1>1, <1>2, <1>3, LevelsBelow

LEMMA NumberSets ==
  ASSUME SearchInv, Search!Number
  PROVE  LET n == order[numbered + 1]
         IN /\ n \in 1..MaxName /\ n \in Search!Ordered
            /\ numbered' = numbered + 1 /\ numbered + 1 \in 1..Len(order)
            /\ UNCHANGED <<deps, visited, stack, next, order, failed>>
            /\ levelOf' \in [1..MaxName -> 0..numbered']
            /\ \A m \in 1..MaxName : m # n => levelOf'[m] = levelOf[m]
            /\ Below(n) = {} => levelOf'[n] = 0
            /\ Below(n) # {} => /\ levelOf'[n] - 1 \in Below(n)
                                /\ \A j \in Below(n) : j < levelOf'[n]
<1> DEFINE n == order[numbered + 1]
           top == CHOOSE k \in Below(n) : \A j \in Below(n) : j <= k
<1>1. /\ stack = <<>> /\ ~failed /\ numbered < Len(order)
      /\ levelOf' = [levelOf EXCEPT ![n] = IF Below(n) = {} THEN 0 ELSE 1 + top]
      /\ numbered' = numbered + 1
      /\ UNCHANGED <<deps, visited, stack, next, order, failed>>
  BY DEF Search!Number, Search!search, Below, Succ
<1>2. /\ numbered \in Nat /\ numbered + 1 \in 1..Len(order) /\ n \in visited /\ n \in 1..MaxName
      /\ levelOf \in [1..MaxName -> 0..numbered]
  BY <1>1 DEF SearchInv, SearchType, IsGraph
<1>3. n \in Search!Ordered BY <1>2 DEF Search!Ordered
<1>4. Below(n) # {} => top \in Below(n) /\ top \in 0..numbered /\ \A j \in Below(n) : j <= top
  BY HighestBelow
<1>5. Below(n) \subseteq Nat BY <1>2, LevelsBelow
<1> HIDE DEF n, top
<1>6. levelOf' \in [1..MaxName -> 0..(numbered + 1)] BY <1>1, <1>2, <1>4
<1>7. /\ \A m \in 1..MaxName : m # n => levelOf'[m] = levelOf[m]
      /\ levelOf'[n] = IF Below(n) = {} THEN 0 ELSE 1 + top
  BY <1>1, <1>2
<1>8. Below(n) # {} => levelOf'[n] - 1 = top /\ \A j \in Below(n) : j < levelOf'[n]
  BY <1>2, <1>4, <1>5, <1>7
<1> QED BY <1>1, <1>2, <1>3, <1>4, <1>6, <1>7, <1>8 DEF n

LEMMA NumberKeeps ==
  ASSUME SearchInv, Search!Number
  PROVE  SearchInv'
<1>1. /\ numbered' = numbered + 1 /\ numbered + 1 \in 1..Len(order)
      /\ UNCHANGED <<deps, visited, stack, next, order, failed>>
      /\ levelOf' \in [1..MaxName -> 0..numbered']
  BY NumberSets
<1>2. OnStack' = OnStack /\ Search!Ordered' = Search!Ordered BY <1>1 DEF OnStack, Search!Ordered
<1>3. \A n : Succ(n)' = Succ(n) BY <1>1 DEF Succ, Search!DepsOf
<1>4. \A n : Search!Reachable(n)' <=> Search!Reachable(n)
  BY <1>1 DEF Search!Reachable, Search!DepsOf
<1>5. SearchType'
  <2>1. numbered' \in 0..Len(order') BY <1>1 DEF SearchInv, SearchType
  <2> QED BY <1>1, <2>1 DEF SearchInv, SearchType, IsGraph
<1>6. Paths' BY <1>1, <1>2, <1>3 DEF SearchInv, Paths
<1>7. Covered' BY <1>1, <1>2, <1>3 DEF SearchInv, Covered
<1>8. Needed' BY <1>1, <1>3, <1>4 DEF SearchInv, Needed
<1> QED BY <1>5, <1>6, <1>7, <1>8 DEF SearchInv

LEMMA SearchStep ==
  ASSUME SearchInv, Search!Step
  PROVE  SearchInv'
BY SkipKeeps, EnterKeeps, UnknownKeeps, LeaveKeeps, NumberKeeps DEF Search!Step

\* When the search is over, the names in the order are closed under dependencies,
\* so that every needed name is among them.
LEMMA ClosureFound == SearchInv => Search!OrderIsClosure
<1> SUFFICES ASSUME SearchInv PROVE Search!OrderIsClosure
  OBVIOUS
<1>1. \A i, j \in 1..Len(order) : i # j => order[i] # order[j] BY DEF SearchInv, Paths
<1>2. ASSUME Search!TopoDone
      PROVE  /\ Search!Ordered = {n \in DOMAIN deps : Search!Reachable(n)}
             /\ \A n \in Search!Ordered : Succ(n) \subseteq DOMAIN deps
  <2>1. deps # <<>> /\ stack = <<>> /\ ~failed BY <1>2 DEF Search!TopoDone, Search!Idle
  <2>2. OnStack = {} BY <2>1 DEF OnStack
  <2>3. visited = Search!Ordered /\ visited \subseteq DOMAIN deps /\ Root \in visited
    BY <2>1, <2>2 DEF SearchInv, SearchType, Paths, Needed
  <2>4. \A n \in Search!Ordered : Succ(n) \subseteq Search!Ordered
    BY <2>3 DEF SearchInv, Covered
  <2>5. ASSUME NEW n \in DOMAIN deps, Search!Reachable(n) PROVE n \in Search!Ordered
    BY <2>3, <2>4, <2>5 DEF Search!Reachable, Succ
  <2>6. \A n \in Search!Ordered : n \in DOMAIN deps /\ Search!Reachable(n)
    BY <2>3 DEF SearchInv, Needed
  <2> QED BY <2>3, <2>4, <2>5, <2>6
<1>3. ASSUME failed
      PROVE  \E n \in DOMAIN deps : Search!Reachable(n) /\ ~(Succ(n) \subseteq DOMAIN deps)
  BY <1>3 DEF SearchInv, SearchType, Needed
<1> QED BY <1>1, <1>2, <1>3 DEF Search!OrderIsClosure, Succ

(***************************************************************************)
(* Acyclic graphs.                                                         *)
(***************************************************************************)

\* The part of the order that has been numbered.
Numbered == \A k \in 1..numbered :
    /\ \A d \in Succ(order[k]) : levelOf[d] < levelOf[order[k]]
    /\ levelOf[order[k]] > 0 => \E d \in Succ(order[k]) : levelOf[d] = levelOf[order[k]] - 1

LayerInv == Search!Acyclic => Search!DepsFirst /\ Numbered

\* A dependency of the innermost name is not further out: the names from it up to
\* that one would go round in a circle.
LEMMA NoWayBack ==
  ASSUME SearchInv, Search!Acyclic, stack # <<>>
  PROVE  Succ(stack[1]) \cap OnStack = {}
<1> SUFFICES ASSUME NEW p \in 1..Len(stack), stack[p] \in Succ(stack[1]) PROVE FALSE
  BY DEF OnStack
<1> DEFINE Circle == {stack[k] : k \in 1..p}
<1>1. Len(stack) \in Nat \ {0} /\ \A k \in 1..p : stack[k] \in visited
  BY TopOfStack DEF SearchInv, SearchType
<1>2. Circle \in SUBSET DOMAIN deps BY <1>1 DEF SearchInv, SearchType
<1>3. stack[1] \in Circle /\ stack[p] \in Circle BY <1>1
<1>4. ASSUME NEW n \in Circle PROVE Succ(n) \cap Circle # {}
  <2>1. PICK k \in 1..p : n = stack[k] OBVIOUS
  <2>2. CASE k = 1 BY <1>3, <2>1, <2>2
  <2>3. CASE k # 1
    <3>1. k - 1 \in 1..(Len(stack) - 1) /\ k - 1 \in 1..p /\ (k - 1) + 1 = k BY <1>1, <2>3
    <3>2. stack[k - 1] \in Succ(stack[k]) BY <3>1 DEF SearchInv, Paths
    <3>3. stack[k - 1] \in Circle BY <3>1
    <3> QED BY <2>1, <3>2, <3>3
  <2> QED BY <2>2, <2>3
<1> HIDE DEF Circle
<1>5. PICK n \in Circle : Succ(n) \cap Circle = {}
  BY <1>2, <1>3 DEF Search!Acyclic, Succ
<1> QED BY <1>4, <1>5

\* The order and the levels do not change while the stack does.
LEMMA SameOrder ==
  ASSUME LayerInv, UNCHANGED <<deps, order, numbered, levelOf>>
  PROVE  LayerInv'
<1>1. Search!Acyclic' <=> Search!Acyclic BY DEF Search!Acyclic, Search!DepsOf
<1>2. \A n : Succ(n)' = Succ(n) /\ Search!DepsOf(n)' = Search!DepsOf(n) BY DEF Succ, Search!DepsOf
<1>3. Search!DepsFirst => Search!DepsFirst' BY <1>2 DEF Search!DepsFirst
<1>4. Numbered => Numbered' BY <1>2 DEF Numbered
<1> QED BY <1>1, <1>3, <1>4 DEF LayerInv

LEMMA LayerLeave ==
  ASSUME SearchInv, LayerInv, Search!Leave
  PROVE  LayerInv'
<1> DEFINE h == stack[1]
<1>1. /\ order' = Append(order, h)
      /\ UNCHANGED <<deps, visited, next, numbered, levelOf>>
      /\ stack # <<>> /\ ~Search!Pending
  BY TopOfStack DEF Search!Leave, Search!numbering
<1>2. /\ h \in OnStack /\ Len(deps[h]) \in Nat /\ next[h] \in Nat /\ next[h] > Len(deps[h])
      /\ ~failed
  BY <1>1, TopOfStack DEF Search!Pending
<1>3. Succ(h) \subseteq visited
  <2>1. ASSUME NEW d \in Succ(h) PROVE d \in visited
    <3>1. PICK k \in 1..Len(deps[h]) : d = deps[h][k] BY DEF Succ, Search!DepsOf
    <3>2. k \in 1..(next[h] - 1) BY <1>2, <3>1
    <3> QED BY <1>2, <3>1, <3>2 DEF SearchInv, Covered
  <2> QED BY <2>1
<1> HIDE DEF h
<1>4. Len(order) \in Nat /\ order \in Seq(visited) /\ numbered \in 0..Len(order)
  BY DEF SearchInv, SearchType
<1>5. /\ Len(order') = Len(order) + 1
      /\ order'[Len(order) + 1] = h
      /\ \A k \in 1..Len(order) : order'[k] = order[k]
  BY <1>1, <1>4
<1>6. \A n : Succ(n)' = Succ(n) BY <1>1 DEF Succ, Search!DepsOf
<1> SUFFICES ASSUME Search!Acyclic, Search!DepsFirst, Numbered
             PROVE  Search!DepsFirst' /\ Numbered'
  <2>1. Search!Acyclic' <=> Search!Acyclic BY <1>1 DEF Search!Acyclic, Search!DepsOf
  <2> QED BY <2>1 DEF LayerInv
<1>7. Succ(h) \subseteq Search!Ordered
  BY <1>1, <1>2, <1>3, NoWayBack DEF SearchInv, Paths, h
<1>8. ASSUME NEW k \in 1..Len(order'), NEW d \in Succ(order'[k])
      PROVE  \E j \in 1..(k - 1) : order'[j] = d
  <2>1. CASE k = Len(order) + 1
    <3>1. PICK j \in 1..Len(order) : d = order[j]
      BY <1>5, <1>7, <1>8, <2>1 DEF Search!Ordered
    <3> QED BY <1>4, <1>5, <2>1, <3>1
  <2>2. CASE k # Len(order) + 1
    <3>1. k \in 1..Len(order) /\ order'[k] = order[k] BY <1>4, <1>5, <2>2
    <3>2. PICK j \in 1..(k - 1) : order[j] = d
      BY <1>8, <3>1 DEF Search!DepsFirst, Succ
    <3> QED BY <1>4, <1>5, <3>1, <3>2
  <2> QED BY <2>1, <2>2
<1>9. Search!DepsFirst' BY <1>6, <1>8 DEF Search!DepsFirst, Succ
<1>10. Numbered'
  <2>1. \A k \in 1..numbered : order'[k] = order[k] BY <1>4, <1>5
  <2> QED BY <1>1, <1>6, <2>1 DEF Numbered
<1> QED BY <1>9, <1>10

LEMMA LayerNumber ==
  ASSUME SearchInv, LayerInv, Search!Number
  PROVE  LayerInv'
<1> DEFINE n == order[numbered + 1]
<1>1. /\ n \in 1..MaxName /\ n \in Search!Ordered
      /\ numbered' = numbered + 1 /\ numbered + 1 \in 1..Len(order)
      /\ UNCHANGED <<deps, visited, stack, next, order, failed>>
      /\ levelOf' \in [1..MaxName -> 0..numbered']
      /\ \A m \in 1..MaxName : m # n => levelOf'[m] = levelOf[m]
      /\ Below(n) = {} => levelOf'[n] = 0
      /\ Below(n) # {} => /\ levelOf'[n] - 1 \in Below(n)
                          /\ \A j \in Below(n) : j < levelOf'[n]
  BY NumberSets
<1>2. \A m : Succ(m)' = Succ(m) BY <1>1 DEF Succ, Search!DepsOf
<1> SUFFICES ASSUME Search!Acyclic, Search!DepsFirst, Numbered
             PROVE  Search!DepsFirst' /\ Numbered'
  <2>1. Search!Acyclic' <=> Search!Acyclic BY <1>1 DEF Search!Acyclic, Search!DepsOf
  <2> QED BY <2>1 DEF LayerInv
<1>3. Search!DepsFirst'
  <2>1. \A m : Search!DepsOf(m)' = Search!DepsOf(m) BY <1>1 DEF Search!DepsOf
  <2>2. UNCHANGED <<deps, order>> BY <1>1
  <2> QED BY <2>1, <2>2 DEF Search!DepsFirst
<1>4. numbered \in Nat /\ \A k \in 1..Len(order) : order[k] \in 1..MaxName
  BY DEF SearchInv, SearchType, IsGraph
<1>5. ASSUME NEW k \in 1..(numbered + 1), NEW d \in Succ(order[k])
      PROVE  d \in 1..MaxName /\ d # n /\ d \in Search!Ordered
  <2>1. k \in 1..Len(order) BY <1>1, <1>4
  <2>2. PICK j \in 1..(k - 1) : order[j] = d BY <2>1 DEF Search!DepsFirst, Succ
  <2>3. j \in 1..Len(order) /\ j # numbered + 1 BY <1>4, <2>1, <2>2
  <2> QED BY <1>1, <1>4, <2>2, <2>3 DEF SearchInv, Paths, Search!Ordered
<1>6. \A k \in 1..(numbered + 1) : \A d \in Succ(order[k]) : levelOf'[d] = levelOf[d]
  BY <1>1, <1>5
<1>7. ASSUME NEW k \in 1..numbered PROVE levelOf'[order[k]] = levelOf[order[k]]
  <2>1. k \in 1..Len(order) /\ k # numbered + 1 BY <1>1, <1>4
  <2>2. order[k] # n BY <1>1, <2>1 DEF SearchInv, Paths
  <2> QED BY <1>1, <1>4, <2>1, <2>2
<1>8. Below(n) = {levelOf[d] : d \in Succ(n)}
  <2>1. Succ(n) \subseteq Search!Ordered BY <1>4, <1>5
  <2> QED BY <2>1 DEF Below
<1>9. /\ \A d \in Succ(n) : levelOf'[d] < levelOf'[n]
      /\ levelOf'[n] > 0 => \E d \in Succ(n) : levelOf'[d] = levelOf'[n] - 1
  <2>1. numbered + 1 \in 1..(numbered + 1) BY <1>4
  <2>2. \A d \in Succ(n) : levelOf'[d] = levelOf[d] BY <1>6, <2>1
  <2>3. \A d \in Succ(n) : levelOf[d] \in Below(n) BY <1>8
  <2>4. ASSUME levelOf'[n] > 0 PROVE \E d \in Succ(n) : levelOf[d] = levelOf'[n] - 1
    <3>1. Below(n) # {} BY <1>1, <2>4
    <3> QED BY <1>1, <1>8, <3>1
  <2> QED BY <1>1, <2>2, <2>3, <2>4
<1> HIDE DEF n
<1>10. ASSUME NEW k \in 1..numbered'
       PROVE  /\ \A d \in Succ(order[k]) : levelOf'[d] < levelOf'[order[k]]
              /\ levelOf'[order[k]] > 0 =>
                   \E d \in Succ(order[k]) : levelOf'[d] = levelOf'[order[k]] - 1
  <2>1. CASE k = numbered + 1 BY <1>9, <2>1 DEF n
  <2>2. CASE k # numbered + 1
    <3>1. k \in 1..numbered /\ k \in 1..(numbered + 1) BY <1>1, <1>4, <2>2
    <3> QED BY <1>6, <1>7, <3>1 DEF Numbered
  <2> QED BY <2>1, <2>2
<1>11. Numbered' BY <1>1, <1>2, <1>10 DEF Numbered
<1> QED BY <1>3, <1>11

LEMMA LayerStep ==
  ASSUME SearchInv, LayerInv, Search!Step
  PROVE  LayerInv'
<1>1. CASE Search!SkipDep BY <1>1, SameOrder DEF Search!SkipDep, Search!numbering
<1>2. CASE Search!EnterDep BY <1>2, SameOrder DEF Search!EnterDep, Search!numbering
<1>3. CASE Search!UnknownDep BY <1>3, SameOrder DEF Search!UnknownDep, Search!numbering
<1>4. CASE Search!Leave BY <1>4, LayerLeave
<1>5. CASE Search!Number BY <1>5, LayerNumber
<1> QED BY <1>1, <1>2, <1>3, <1>4, <1>5 DEF Search!Step

\* Levels rise along the order's own edges, and the root, which everything else is
\* needed for, has the highest.
LEMMA LayersFound == SearchInv /\ LayerInv => Search!Layered
<1> SUFFICES ASSUME SearchInv, LayerInv, Search!Acyclic
             PROVE  /\ Search!DepsFirst
                    /\ Search!LevelDone => \A n \in Search!Ordered :
                          /\ \A d \in Succ(n) : levelOf[d] < levelOf[n]
                          /\ levelOf[n] > 0 => \E d \in Succ(n) : levelOf[d] = levelOf[n] - 1
                          /\ n # Root => levelOf[n] < levelOf[Root]
  BY DEF Search!Layered, Succ
<1>1. Search!DepsFirst /\ Numbered BY DEF LayerInv
<1> SUFFICES ASSUME Search!LevelDone, NEW n \in Search!Ordered
             PROVE  /\ \A d \in Succ(n) : levelOf[d] < levelOf[n]
                    /\ levelOf[n] > 0 => \E d \in Succ(n) : levelOf[d] = levelOf[n] - 1
                    /\ n # Root => levelOf[n] < levelOf[Root]
  BY <1>1
<1>2. numbered = Len(order) /\ Len(order) \in Nat /\ deps # <<>> /\ ~failed
  BY DEF Search!LevelDone, Search!TopoDone, Search!Idle, SearchInv, SearchType
<1>3. visited = Search!Ordered /\ Search!Ordered \subseteq 1..MaxName /\ Root \in visited
  <2>1. OnStack = {} BY DEF OnStack, Search!LevelDone, Search!TopoDone
  <2> QED BY <1>2, <2>1 DEF SearchInv, SearchType, IsGraph, Paths, Needed
<1>4. \A m \in Search!Ordered :
         /\ levelOf[m] \in Nat
         /\ \A d \in Succ(m) : levelOf[d] < levelOf[m]
         /\ levelOf[m] > 0 => \E d \in Succ(m) : levelOf[d] = levelOf[m] - 1
  <2>1. \A m \in Search!Ordered : levelOf[m] \in Nat
    BY <1>3 DEF SearchInv, SearchType
  <2> QED BY <1>1, <1>2, <2>1 DEF Numbered, Search!Ordered
<1> DEFINE High == {m \in Search!Ordered : m # Root /\ ~(levelOf[m] < levelOf[Root])}
           Places == {k \in 1..Len(order) : order[k] \in High}
<1>5. High = {}
  <2> SUFFICES ASSUME High # {} PROVE FALSE
    OBVIOUS
  <2>1. Places \in SUBSET Nat /\ Places # {} /\ \A k \in Places : k <= Len(order)
    BY <1>2 DEF Search!Ordered
  <2>2. PICK k \in Places : \A j \in Places : j <= k BY <1>2, <2>1, GreatestOf
  <2>3. order[k] \in Search!Ordered /\ order[k] # Root /\ ~(levelOf[order[k]] < levelOf[Root])
    OBVIOUS
  <2>4. PICK m \in visited : order[k] \in Succ(m) BY <1>3, <2>3 DEF SearchInv, Needed
  <2>5. levelOf[order[k]] < levelOf[m] BY <1>3, <1>4, <2>4
  <2>6. m \in High
    <3>1. /\ m \in Search!Ordered /\ levelOf[m] \in Nat /\ levelOf[Root] \in Nat
          /\ levelOf[order[k]] \in Nat
      BY <1>3, <1>4, <2>3, <2>4
    <3>2. m # Root BY <2>3, <2>5
    <3>3. ~(levelOf[m] < levelOf[Root]) BY <2>3, <2>5, <3>1
    <3> QED BY <3>1, <3>2, <3>3
  <2>7. PICK j \in 1..Len(order) : order[j] = m BY <2>6 DEF Search!Ordered
  <2>8. PICK i \in 1..(j - 1) : order[i] = order[k]
    BY <1>1, <2>4, <2>7 DEF Search!DepsFirst, Succ
  <2>9. i = k BY <1>2, <2>7, <2>8 DEF SearchInv, Paths
  <2>10. j \in Places BY <2>6, <2>7
  <2> QED BY <1>2, <2>2, <2>7, <2>8, <2>9, <2>10
<1> QED BY <1>4, <1>5

(***************************************************************************)
(* Loads: what a load accepts names only what it knows.                    *)
(***************************************************************************)

\* A call of loadWithImports holds a configuration and imports still to read.
IsFrame(f) == /\ {"file", "cfg", "todo"} \subseteq DOMAIN f
              /\ IsConfig(f.cfg)
              /\ f.todo \in Seq(Files)

Frames(s) == \E S : s \in Seq(S) /\ \A f \in S : IsFrame(f)

\* Every call but the innermost waits for an import.
Waiting(s) == \A k \in 2..Len(s) : s[k].todo # <<>>

\* Validate's second loop.
DepsKnown(cfg) == \A t \in ToSet(cfg.targets) : ToSet(Deps(t)) \subseteq KnownNames(cfg)

LoadInv ==
    /\ scenario \in Scenarios
    /\ disk \in [Files -> Texts]
    /\ buf \in [Loaders -> Texts]
    /\ DOMAIN frames = Loaders /\ \A l \in Loaders : Frames(frames[l]) /\ Waiting(frames[l])
    /\ DOMAIN result = Loaders
    /\ \A l \in Loaders : result[l].why = "ok" =>
          IsConfig(result[l].cfg) /\ DepsKnown(result[l].cfg)

LEMMA CompileIsConfig ==
  ASSUME NEW text \in Texts, Parse(text).ok
  PROVE  /\ IsConfig(Compile(Parse(text).items))
         /\ Format(Parse(text).items) \in Texts
BY TextsAssumption DEF Readable

LEMMA FixIsText ==
  ASSUME NEW text \in Texts, Parse(text).ok, NEW s \in Scenarios
  PROVE  Format(ApplyFixes(Parse(text).items, s.rules)) \in Texts
BY TextsAssumption DEF Readable

LEMMA NotOk ==
  /\ NoResult.why # "ok"
  /\ \A why : Error(why).why = why
  /\ \A cfg : Loaded(cfg).why = "ok" /\ Loaded(cfg).cfg = cfg
BY DEF NoResult, Error, Loaded

LEMMA NoFrames == Frames(<<>>) /\ Waiting(<<>>)
<1>1. PICK S : S = {} OBVIOUS
<1>2. <<>> \in Seq(S) /\ \A f \in S : IsFrame(f) BY <1>1
<1> QED BY <1>2 DEF Frames, Waiting

LEMMA LoadInit == Init => LoadInv
<1> SUFFICES ASSUME Init PROVE LoadInv
  OBVIOUS
<1>1. scenario \in Scenarios /\ disk \in [Files -> Texts]
  BY TextsAssumption DEF Init
<1>2. buf \in [Loaders -> Texts] BY TextsAssumption DEF Init
<1>3. DOMAIN frames = Loaders /\ \A l \in Loaders : frames[l] = <<>>
  BY DEF Init
<1>4. DOMAIN result = Loaders /\ \A l \in Loaders : result[l] = NoResult
  BY DEF Init
<1> QED BY <1>1, <1>2, <1>3, <1>4, NoFrames, NotOk DEF LoadInv

LEMMA Concatenated ==
  ASSUME NEW S, NEW T, NEW s \in Seq(S), NEW t \in Seq(T)
  PROVE  ToSet(s \o t) = ToSet(s) \cup ToSet(t)
<1>1. /\ Len(s) \in Nat /\ Len(t) \in Nat /\ Len(s \o t) = Len(s) + Len(t)
      /\ DOMAIN s = 1..Len(s) /\ DOMAIN t = 1..Len(t) /\ DOMAIN (s \o t) = 1..Len(s \o t)
  OBVIOUS
<1>2. \A k \in 1..Len(s) : k \in DOMAIN (s \o t) /\ (s \o t)[k] = s[k]
  BY <1>1
<1>3. \A k \in 1..Len(t) : k + Len(s) \in DOMAIN (s \o t) /\ (s \o t)[k + Len(s)] = t[k]
  BY <1>1
<1>4. \A k \in DOMAIN (s \o t) :
         \/ k \in DOMAIN s /\ (s \o t)[k] = s[k]
         \/ k - Len(s) \in DOMAIN t /\ (s \o t)[k] = t[k - Len(s)]
  BY <1>1
<1>5. ToSet(s) = {s[k] : k \in DOMAIN s} /\ ToSet(t) = {t[k] : k \in DOMAIN t}
      /\ ToSet(s \o t) = {(s \o t)[k] : k \in DOMAIN (s \o t)}
  BY DEF ToSet
<1>6. \A x \in ToSet(s \o t) : x \in ToSet(s) \cup ToSet(t)
  BY <1>4, <1>5
<1>7. \A x \in ToSet(s) \cup ToSet(t) : x \in ToSet(s \o t)
  <2>1. \A x \in ToSet(s) : x \in ToSet(s \o t) BY <1>1, <1>2, <1>5
  <2>2. \A x \in ToSet(t) : x \in ToSet(s \o t) BY <1>1, <1>3, <1>5
  <2> QED BY <2>1, <2>2
<1> QED BY <1>6, <1>7

Sound(targets) == targets \in Seq({t \in ToSet(targets) : IsTargetOf(t)})

LEMMA SoundTogether ==
  ASSUME NEW p, NEW q, Sound(p), Sound(q)
  PROVE  Sound(p \o q) /\ ToSet(p \o q) = ToSet(p) \cup ToSet(q)
<1>1. PICK S : S = {t \in ToSet(p) : IsTargetOf(t)} OBVIOUS
<1>2. PICK T : T = {t \in ToSet(q) : IsTargetOf(t)} OBVIOUS
<1>3. p \in Seq(S) /\ q \in Seq(T) BY <1>1, <1>2 DEF Sound
<1>4. p \o q \in Seq(S \cup T) /\ ToSet(p \o q) = ToSet(p) \cup ToSet(q)
  <2>1. p \in Seq(S \cup T) /\ q \in Seq(S \cup T) BY <1>3
  <2> QED BY <1>3, <2>1, Concatenated
<1>5. S \cup T = {t \in ToSet(p \o q) : IsTargetOf(t)} BY <1>1, <1>2, <1>4
<1> QED BY <1>4, <1>5 DEF Sound

LEMMA MergeIsConfig ==
  ASSUME NEW a, NEW b, IsConfig(a), IsConfig(b)
  PROVE  IsConfig(Merge(a, b))
<1>1. /\ {"targets", "suites", "profiles", "imports"} \subseteq DOMAIN Merge(a, b)
      /\ Merge(a, b).targets = a.targets \o b.targets
      /\ Merge(a, b).imports = a.imports
  BY DEF Merge, IsConfig
<1>2. Sound(a.targets) /\ Sound(b.targets) /\ a.imports \in Seq(Files)
  BY DEF IsConfig, Sound
<1>3. Sound(a.targets \o b.targets) BY <1>2, SoundTogether
<1> QED BY <1>1, <1>2, <1>3 DEF IsConfig, Sound

LEMMA PushFrame ==
  ASSUME NEW s, NEW f, Frames(s), Waiting(s), IsFrame(f), s # <<>> => Head(s).todo # <<>>
  PROVE  Frames(<<f>> \o s) /\ Waiting(<<f>> \o s)
<1>1. PICK S : s \in Seq(S) /\ \A g \in S : IsFrame(g) BY DEF Frames
<1>2. PICK T : T = S \cup {f} OBVIOUS
<1>3. <<f>> \o s \in Seq(T) /\ \A g \in T : IsFrame(g) BY <1>1, <1>2
<1>4. ASSUME NEW k \in 2..Len(<<f>> \o s) PROVE (<<f>> \o s)[k].todo # <<>>
  <2>1. k - 1 \in 1..Len(s) /\ (<<f>> \o s)[k] = s[k - 1] /\ s # <<>> BY <1>1
  <2>2. CASE k = 2 BY <1>1, <2>1, <2>2
  <2>3. CASE k # 2
    <3>1. k - 1 \in 2..Len(s) BY <1>1, <2>1, <2>3
    <3> QED BY <2>1, <3>1 DEF Waiting
  <2> QED BY <2>2, <2>3
<1> QED BY <1>3, <1>4 DEF Frames, Waiting

LEMMA PopFrame ==
  ASSUME NEW s, Frames(s), Waiting(s), s # <<>>
  PROVE  /\ IsFrame(Head(s))
         /\ Frames(Tail(s)) /\ Waiting(Tail(s))
         /\ Tail(s) # <<>> => Head(Tail(s)).todo # <<>>
<1>1. PICK S : s \in Seq(S) /\ \A g \in S : IsFrame(g) BY DEF Frames
<1>2. Head(s) \in S /\ Tail(s) \in Seq(S) /\ Len(Tail(s)) = Len(s) - 1 /\ Len(s) \in Nat
  BY <1>1
<1>3. \A k \in 1..Len(Tail(s)) : Tail(s)[k] = s[k + 1] /\ k + 1 \in 2..Len(s)
  BY <1>1, <1>2
<1>4. \A k \in 1..Len(Tail(s)) : Tail(s)[k].todo # <<>> BY <1>3 DEF Waiting
<1>5. Waiting(Tail(s)) BY <1>2, <1>4 DEF Waiting
<1>6. ASSUME Tail(s) # <<>> PROVE Head(Tail(s)).todo # <<>>
  <2>1. 1 \in 1..Len(Tail(s)) /\ Head(Tail(s)) = Tail(s)[1] BY <1>2, <1>6
  <2> QED BY <1>4, <2>1
<1> QED BY <1>1, <1>2, <1>5, <1>6 DEF Frames

\* Return, where the result of a call goes.
LEMMA ReturnKeeps ==
  ASSUME LoadInv, NEW l \in Loaders, NEW cfg, NEW above,
         IsConfig(cfg), DepsKnown(cfg), Frames(above), Waiting(above),
         above # <<>> => Head(above).todo # <<>>,
         Return(l, cfg, above), UNCHANGED <<scenario, disk, buf>>
  PROVE  LoadInv'
<1>1. CASE above = <<>>
  <2>1. result' = [result EXCEPT ![l] = Loaded(cfg)] /\ frames' = [frames EXCEPT ![l] = above]
    BY <1>1 DEF Return, Set
  <2> QED BY <2>1, NotOk DEF LoadInv
<1>2. CASE above # <<>>
  <2> DEFINE top == [Head(above) EXCEPT !.cfg = Merge(@, cfg), !.todo = Tail(@)]
  <2>1. IsFrame(Head(above)) /\ Frames(Tail(above)) /\ Waiting(Tail(above))
        /\ (Tail(above) # <<>> => Head(Tail(above)).todo # <<>>)
    BY <1>2, PopFrame
  <2>2. IsFrame(top)
    <3>1. IsConfig(Merge(Head(above).cfg, cfg)) BY <2>1, MergeIsConfig DEF IsFrame
    <3>2. Tail(Head(above).todo) \in Seq(Files) BY <1>2, <2>1 DEF IsFrame
    <3>3. {"file", "cfg", "todo"} \subseteq DOMAIN top /\ top.cfg = Merge(Head(above).cfg, cfg)
          /\ top.todo = Tail(Head(above).todo)
      BY <2>1 DEF IsFrame
    <3> QED BY <3>1, <3>2, <3>3 DEF IsFrame
  <2> HIDE DEF top
  <2>3. Frames(<<top>> \o Tail(above)) /\ Waiting(<<top>> \o Tail(above))
    BY <2>1, <2>2, PushFrame
  <2>4. frames' = [frames EXCEPT ![l] = <<top>> \o Tail(above)] /\ UNCHANGED result
    BY <1>2 DEF Return, Set, top
  <2> QED BY <2>3, <2>4 DEF LoadInv
<1> QED BY <1>1, <1>2

LEMMA FailKeeps ==
  ASSUME LoadInv, NEW l \in Loaders, NEW why \in {"parse", "write", "cycle", "invalid"},
         Fail(l, why), frames' = frames \/ frames' = Set(frames, l, <<>>),
         scenario' = scenario, disk' \in [Files -> Texts], buf' \in [Loaders -> Texts]
  PROVE  LoadInv'
<1>1. /\ DOMAIN frames' = Loaders
      /\ \A m \in Loaders : Frames(frames'[m]) /\ Waiting(frames'[m])
  BY NoFrames DEF LoadInv, Set
<1>2. result' = [result EXCEPT ![l] = Error(why)] /\ Error(why).why # "ok"
  BY NotOk DEF Fail, Set
<1> QED BY <1>1, <1>2 DEF LoadInv

\* What the steps before the file is read do to it.
LEMMA RewriteKeeps ==
  ASSUME LoadInv, UNCHANGED <<scenario, frames, result>>,
         disk' \in [Files -> Texts], buf' \in [Loaders -> Texts]
  PROVE  LoadInv'
BY DEF LoadInv

LEMMA RereadKeeps ==
  ASSUME LoadInv, NEW l \in Loaders, ParseForFormat(l) \/ ParseForLint(l)
  PROVE  LoadInv'
<1> DEFINE r == Parse(disk[Main])
<1>1. disk[Main] \in Texts /\ scenario \in Scenarios BY LoadingAssumption DEF LoadInv
<1>2. UNCHANGED <<scenario, disk, frames>> BY DEF ParseForFormat, ParseForLint, user
<1>3. \/ buf' = Set(buf, l, Format(r.items)) /\ r.ok /\ UNCHANGED result
      \/ buf' = Set(buf, l, Format(ApplyFixes(r.items, scenario.rules))) /\ r.ok /\ UNCHANGED result
      \/ UNCHANGED <<buf, result>>
      \/ Fail(l, "parse") /\ UNCHANGED buf
  BY DEF ParseForFormat, ParseForLint
<1>4. buf' \in [Loaders -> Texts]
  <2>1. r.ok => /\ Format(r.items) \in Texts
                /\ Format(ApplyFixes(r.items, scenario.rules)) \in Texts
    BY <1>1, CompileIsConfig, FixIsText
  <2> HIDE DEF r
  <2> QED BY <1>3, <2>1 DEF LoadInv, Set
<1>5. disk' \in [Files -> Texts] BY <1>2 DEF LoadInv
<1>6. CASE Fail(l, "parse") BY <1>2, <1>4, <1>5, <1>6, FailKeeps
<1>7. CASE UNCHANGED result BY <1>2, <1>4, <1>5, <1>7, RewriteKeeps
<1> QED BY <1>3, <1>6, <1>7

LEMMA ChangeKeeps ==
  ASSUME LoadInv, NEW text \in Texts, Change(text)
  PROVE  disk' \in [Files -> Texts]
BY LoadingAssumption DEF LoadInv, Change

LEMMA WriteKeeps ==
  ASSUME LoadInv, NEW l \in Loaders, Rename(l) \/ Truncate(l) \/ Write(l)
  PROVE  LoadInv'
<1>1. UNCHANGED <<scenario, buf, frames, result>>
  BY DEF Rename, Truncate, Write, local, user
<1>2. buf[l] \in Texts /\ <<>> \in Texts BY TextsAssumption DEF LoadInv
<1>3. Change(buf[l]) \/ Change(<<>>) \/ UNCHANGED disk BY DEF Rename, Truncate, Write
<1>4. disk' \in [Files -> Texts]
  <2>1. CASE Change(buf[l]) BY <1>2, <2>1, ChangeKeeps
  <2>2. CASE Change(<<>>) BY <1>2, <2>2, ChangeKeeps
  <2> QED BY <1>3, <2>1, <2>2 DEF LoadInv
<1> QED BY <1>1, <1>4, RewriteKeeps DEF LoadInv

LEMMA ErrorKeeps ==
  ASSUME LoadInv, NEW l \in Loaders, WriteRefused(l) \/ WriteFails(l) \/ ImportCycle(l)
  PROVE  LoadInv'
<1>1. UNCHANGED <<scenario, disk, buf>>
  BY DEF WriteRefused, WriteFails, ImportCycle, user
<1>2. disk' \in [Files -> Texts] /\ buf' \in [Loaders -> Texts] BY <1>1 DEF LoadInv
<1>3. CASE WriteRefused(l) \/ WriteFails(l)
  <2>1. Fail(l, "write") /\ UNCHANGED frames BY <1>3 DEF WriteRefused, WriteFails
  <2> QED BY <1>1, <1>2, <2>1, FailKeeps
<1>4. CASE ImportCycle(l)
  <2>1. Fail(l, "cycle") /\ frames' = Set(frames, l, <<>>) BY <1>4 DEF ImportCycle, Unwind
  <2> QED BY <1>1, <1>2, <2>1, FailKeeps
<1> QED BY <1>3, <1>4

LEMMA CallKeeps ==
  ASSUME LoadInv, NEW l \in Loaders, Enter(l)
  PROVE  LoadInv'
<1> DEFINE r   == Parse(disk[NextFile(l)])
           cfg == Compile(r.items)
           f   == [file |-> NextFile(l), cfg |-> cfg, todo |-> cfg.imports]
<1>1. UNCHANGED <<scenario, disk, buf>> BY DEF Enter, user
<1>2. disk' \in [Files -> Texts] /\ buf' \in [Loaders -> Texts] BY <1>1 DEF LoadInv
<1>3. Frames(frames[l]) /\ Waiting(frames[l]) BY DEF LoadInv
<1>4. frames[l] # <<>> => Head(frames[l]).todo # <<>> /\ IsFrame(Head(frames[l]))
  BY <1>3, PopFrame DEF Enter, Calling
<1>5. NextFile(l) \in Files
  <2>1. CASE frames[l] = <<>> BY <2>1, LoadingAssumption DEF NextFile
  <2>2. CASE frames[l] # <<>>
    <3>1. Head(frames[l]).todo \in Seq(Files) /\ Head(frames[l]).todo # <<>>
      BY <1>4, <2>2 DEF IsFrame
    <3> QED BY <2>2, <3>1 DEF NextFile
  <2> QED BY <2>1, <2>2
<1>6. r.ok => IsConfig(cfg) BY <1>5, CompileIsConfig DEF LoadInv
<1>7. \/ Unwind(l, "parse") \/ Unwind(l, "invalid")
      \/ r.ok /\ frames' = Set(frames, l, <<f>> \o frames[l]) /\ UNCHANGED result
      \/ r.ok /\ Valid(cfg) /\ Return(l, cfg, frames[l])
  BY DEF Enter
<1>8. CASE Unwind(l, "parse") \/ Unwind(l, "invalid")
  <2>1. PICK why \in {"parse", "invalid"} : Fail(l, why) /\ frames' = Set(frames, l, <<>>)
    BY <1>8 DEF Unwind
  <2> QED BY <1>1, <1>2, <2>1, FailKeeps
<1>9. CASE r.ok /\ frames' = Set(frames, l, <<f>> \o frames[l]) /\ UNCHANGED result
  <2>1. IsFrame(f) BY <1>6, <1>9 DEF IsFrame, IsConfig
  <2> HIDE DEF f
  <2>2. Frames(<<f>> \o frames[l]) /\ Waiting(<<f>> \o frames[l])
    BY <1>3, <1>4, <2>1, PushFrame
  <2> QED BY <1>1, <1>9, <2>2 DEF LoadInv, Set
<1>10. CASE r.ok /\ Valid(cfg) /\ Return(l, cfg, frames[l])
  <2>1. DepsKnown(cfg) BY <1>10 DEF Valid, DepsKnown
  <2> HIDE DEF cfg
  <2> QED BY <1>1, <1>3, <1>4, <1>6, <1>10, <2>1, ReturnKeeps
<1> QED BY <1>7, <1>8, <1>9, <1>10

LEMMA CallEnds ==
  ASSUME LoadInv, NEW l \in Loaders, Leave(l)
  PROVE  LoadInv'
<1> DEFINE cfg == Head(frames[l]).cfg
           out == [cfg EXCEPT !.imports = <<>>]
<1>1. UNCHANGED <<scenario, disk, buf>> BY DEF Leave, user
<1>2. disk' \in [Files -> Texts] /\ buf' \in [Loaders -> Texts] BY <1>1 DEF LoadInv
<1>3. /\ IsFrame(Head(frames[l])) /\ Frames(Tail(frames[l])) /\ Waiting(Tail(frames[l]))
      /\ Tail(frames[l]) # <<>> => Head(Tail(frames[l])).todo # <<>>
  BY PopFrame DEF LoadInv, Leave
<1>4. IsConfig(cfg) BY <1>3 DEF IsFrame
<1>5. CASE Valid(cfg) /\ Return(l, out, Tail(frames[l]))
  <2>1. out.targets = cfg.targets /\ out.imports = <<>> /\ {"targets", "suites", "profiles", "imports"} \subseteq DOMAIN out
    BY <1>4 DEF IsConfig
  <2>2. IsConfig(out) BY <1>4, <2>1 DEF IsConfig
  <2>3. DepsKnown(cfg) BY <1>5 DEF Valid, DepsKnown
  <2>4. DepsKnown(out) BY <2>1, <2>3 DEF DepsKnown, KnownNames, NamesOf
  <2> HIDE DEF cfg, out
  <2> QED BY <1>1, <1>3, <1>5, <2>2, <2>4, ReturnKeeps
<1>6. CASE Unwind(l, "invalid")
  <2>1. Fail(l, "invalid") /\ frames' = Set(frames, l, <<>>) BY <1>6 DEF Unwind
  <2> QED BY <1>1, <1>2, <2>1, FailKeeps
<1> QED BY <1>5, <1>6 DEF Leave

LEMMA SaveKeeps ==
  ASSUME LoadInv, NEW f \in Files, Save(f)
  PROVE  LoadInv'
<1>1. UNCHANGED <<scenario, buf, frames, result>> BY DEF Save, local
<1>2. PICK text \in scenario.saves[f] : disk' = [disk EXCEPT ![f] = text] BY DEF Save
<1>3. text \in Texts BY <1>2, TextsAssumption DEF LoadInv
<1>4. disk' \in [Files -> Texts] BY <1>2, <1>3 DEF LoadInv
<1> QED BY <1>1, <1>4, RewriteKeeps DEF LoadInv

LEMMA LoadStep == LoadInv /\ [Next]_vars => LoadInv' /\ scenario' = scenario
<1> SUFFICES ASSUME LoadInv, [Next]_vars PROVE LoadInv' /\ scenario' = scenario
  OBVIOUS
<1>1. CASE UNCHANGED vars BY <1>1 DEF vars, LoadInv
<1>2. ASSUME NEW l \in Loaders, Load(l) PROVE LoadInv' /\ scenario' = scenario
  <2>1. scenario' = scenario
    BY <1>2 DEF Load, ParseForFormat, Rename, WriteRefused, ParseForLint, Truncate, Write,
                WriteFails, ImportCycle, Enter, Leave, user
  <2>2. LoadInv'
    BY <1>2, RereadKeeps, WriteKeeps, ErrorKeeps, CallKeeps, CallEnds DEF Load
  <2> QED BY <2>1, <2>2
<1>3. ASSUME NEW f \in Files, Save(f) PROVE LoadInv' /\ scenario' = scenario
  BY <1>3, SaveKeeps DEF Save
<1> QED BY <1>1, <1>2, <1>3 DEF Next

(***************************************************************************)
(* What the user saved last: loads keep its meaning.                       *)
(***************************************************************************)

\* x is what w may have become: it says the same, if w is sturdy.
Faithful(w, x) ==
    /\ Parse(w).ok /\ Sturdy(Parse(w).items) =>
         /\ Parse(x).ok /\ Sturdy(Parse(x).items)
         /\ MeaningOf(x) = MeaningOf(w)
         /\ x # w => Format(Parse(x).items) = x
    /\ ~Parse(w).ok => x = w

\* Whoever is about to write has read the last save or something faithful to it,
\* or will be seen to have overwritten it; who has the file truncated writes that.
WrittenInv ==
    /\ DOMAIN pc = Loaders /\ DOMAIN fd = Loaders
    /\ \A l \in Loaders : fd[l] # "none" => pc[l] = "write"
    /\ ~lost /\ ~torn /\ ~hurt =>
         /\ ~Truncated => Faithful(written, disk[Main])
         /\ \A l \in Loaders :
              pc[l] \in {"rename", "truncate"} /\ l \notin stale => Faithful(written, buf[l])
         /\ \A l \in Loaders : fd[l] = "here" => Faithful(written, buf[l])

LEMMA FaithfulItself == \A w : Faithful(w, w)
BY DEF Faithful

LEMMA FaithfulRewritten ==
  ASSUME NEW w, NEW x \in Texts, NEW s \in Scenarios, Faithful(w, x), Parse(x).ok
  PROVE  /\ Faithful(w, Format(Parse(x).items))
         /\ Faithful(w, Format(ApplyFixes(Parse(x).items, s.rules)))
<1>1. ASSUME NEW y, Sturdy(Parse(x).items) => Kept(x, y) PROVE Faithful(w, y)
  BY <1>1 DEF Faithful, Kept
<1>2. Sturdy(Parse(x).items) => /\ Kept(x, Format(Parse(x).items))
                                /\ Kept(x, Format(ApplyFixes(Parse(x).items, s.rules)))
  BY RewritingAssumption DEF Readable
<1> QED BY <1>1, <1>2

LEMMA WrittenInit == Init => WrittenInv
<1> SUFFICES ASSUME Init PROVE WrittenInv
  OBVIOUS
<1>1. /\ DOMAIN pc = Loaders /\ DOMAIN fd = Loaders /\ \A l \in Loaders : fd[l] = "none"
      /\ written = disk[Main]
      /\ \A l \in Loaders : pc[l] \notin {"rename", "truncate"}
  BY DEF Init, FirstStep
<1> QED BY <1>1, FaithfulItself DEF WrittenInv

\* A step of l that touches neither the file nor what is to be written to it.
LEMMA ElsewhereKeeps ==
  ASSUME WrittenInv, NEW l \in Loaders, fd[l] = "none",
         pc' = pc \/ \E at \in {"load", "done"} : pc' = [pc EXCEPT ![l] = at],
         disk'[Main] = disk[Main], UNCHANGED <<buf, fd, written, stale, lost, hurt>>, torn => torn'
  PROVE  WrittenInv'
<1>1. DOMAIN pc' = Loaders BY DEF WrittenInv
<1>2. \A m \in Loaders : pc'[m] = pc[m] \/ (m = l /\ pc'[m] \in {"load", "done"})
  BY DEF WrittenInv
<1>3. Truncated' = Truncated BY DEF Truncated
<1>4. \A m \in Loaders : fd'[m] # "none" => pc'[m] = "write" BY <1>2 DEF WrittenInv
<1>5. \A m \in Loaders : pc'[m] \in {"rename", "truncate"} => pc[m] = pc'[m] BY <1>2
<1> QED BY <1>1, <1>3, <1>4, <1>5 DEF WrittenInv

LEMMA RereadFaithful ==
  ASSUME LoadInv, WrittenInv, NEW l \in Loaders, ParseForFormat(l) \/ ParseForLint(l)
  PROVE  WrittenInv'
<1> DEFINE r == Parse(disk[Main])
<1>1. disk[Main] \in Texts /\ scenario \in Scenarios BY LoadingAssumption DEF LoadInv
<1>2. /\ UNCHANGED <<disk, fd, written, lost, hurt>>
      /\ torn' = (torn \/ Truncated) /\ stale' = stale \ {l}
      /\ pc[l] \in {"format", "lint"}
  BY DEF ParseForFormat, ParseForLint, Read
<1>3. \/ r.ok /\ buf' = Set(buf, l, Format(r.items))
      \/ r.ok /\ buf' = Set(buf, l, Format(ApplyFixes(r.items, scenario.rules)))
      \/ UNCHANGED buf /\ \E at \in {"load", "done"} : pc' = [pc EXCEPT ![l] = at]
  BY DEF ParseForFormat, ParseForLint, Fail, Goto
<1>4. pc' = [pc EXCEPT ![l] = pc'[l]] /\ pc'[l] \in {"rename", "truncate", "load", "done"}
  BY DEF ParseForFormat, ParseForLint, Fail, Goto, WrittenInv
<1>5. fd[l] = "none" BY <1>2 DEF WrittenInv
<1>6. Truncated' = Truncated BY <1>2 DEF Truncated
<1>7. \A m \in Loaders : fd'[m] # "none" => m # l /\ pc'[m] = "write"
  BY <1>2, <1>4, <1>5 DEF WrittenInv
<1>8. DOMAIN pc' = Loaders /\ DOMAIN fd' = Loaders BY <1>2, <1>4 DEF WrittenInv
<1>9. ASSUME ~lost', ~torn', ~hurt'
      PROVE  /\ ~Truncated' => Faithful(written', disk'[Main])
             /\ \A m \in Loaders :
                  pc'[m] \in {"rename", "truncate"} /\ m \notin stale' => Faithful(written', buf'[m])
             /\ \A m \in Loaders : fd'[m] = "here" => Faithful(written', buf'[m])
  <2>1. ~lost /\ ~torn /\ ~hurt /\ ~Truncated BY <1>2, <1>9
  <2>2. Faithful(written, disk[Main]) BY <2>1 DEF WrittenInv
  <2>3. r.ok => /\ Faithful(written, Format(r.items))
                /\ Faithful(written, Format(ApplyFixes(r.items, scenario.rules)))
    BY <1>1, <2>2, FaithfulRewritten
  <2> HIDE DEF r
  <2>4. pc'[l] \in {"rename", "truncate"} => Faithful(written, buf'[l])
    BY <1>3, <1>4, <2>3 DEF LoadInv, WrittenInv, Set
  <2>5. \A m \in Loaders : m # l => buf'[m] = buf[m] BY <1>3 DEF LoadInv, Set
  <2>6. \A m \in Loaders : m # l => pc'[m] = pc[m] /\ (m \in stale <=> m \in stale')
    BY <1>2, <1>4 DEF WrittenInv
  <2>7. ASSUME NEW m \in Loaders, pc'[m] \in {"rename", "truncate"}, m \notin stale'
        PROVE  Faithful(written, buf'[m])
    <3>1. CASE m = l BY <2>4, <2>7, <3>1
    <3>2. CASE m # l BY <2>1, <2>5, <2>6, <2>7, <3>2 DEF WrittenInv
    <3> QED BY <3>1, <3>2
  <2>8. ASSUME NEW m \in Loaders, fd'[m] = "here" PROVE Faithful(written, buf'[m])
    BY <1>2, <1>7, <2>1, <2>5, <2>8 DEF WrittenInv
  <2> QED BY <1>2, <2>2, <2>7, <2>8
<1> QED BY <1>7, <1>8, <1>9 DEF WrittenInv

LEMMA RenameFaithful ==
  ASSUME WrittenInv, disk \in [Files -> Texts], NEW l \in Loaders, Rename(l)
  PROVE  WrittenInv'
<1>1. /\ pc[l] = "rename" /\ disk' = [disk EXCEPT ![Main] = buf[l]]
      /\ UNCHANGED <<buf, written, stale, torn, hurt>> /\ lost' = (lost \/ l \in stale)
      /\ \A m \in Loaders : fd'[m] = IF fd[m] = "here" THEN "gone" ELSE fd[m]
      /\ DOMAIN fd' = Loaders
      /\ pc' = [pc EXCEPT ![l] = AfterFormat(l)]
      /\ AfterFormat(l) \in {"lint", "load"}
  BY DEF Rename, Change, Goto, AfterFormat
<1>2. fd[l] = "none" BY <1>1 DEF WrittenInv
<1>3. \A m \in Loaders : fd'[m] # "here" BY <1>1
<1>4. \A m \in Loaders : fd'[m] # "none" => pc'[m] = "write"
  BY <1>1, <1>2 DEF WrittenInv
<1>5. disk'[Main] = buf[l] BY <1>1, LoadingAssumption
<1>6. \A m \in Loaders : pc'[m] \in {"rename", "truncate"} => pc[m] = pc'[m]
  BY <1>1 DEF WrittenInv
<1>7. DOMAIN pc' = Loaders BY <1>1 DEF WrittenInv
<1> QED BY <1>1, <1>3, <1>4, <1>5, <1>6, <1>7 DEF WrittenInv

LEMMA TruncateFaithful ==
  ASSUME WrittenInv, NEW l \in Loaders, Truncate(l)
  PROVE  WrittenInv'
<1>1. /\ pc[l] = "truncate" /\ fd' = [fd EXCEPT ![l] = "here"]
      /\ UNCHANGED <<buf, written, stale, torn, hurt>> /\ lost' = (lost \/ l \in stale)
      /\ pc' = [pc EXCEPT ![l] = "write"]
  BY DEF Truncate, Goto, Set
<1>2. Truncated' /\ fd'[l] = "here" BY <1>1 DEF Truncated, WrittenInv
<1>3. \A m \in Loaders : fd'[m] # "none" => pc'[m] = "write" BY <1>1 DEF WrittenInv
<1>4. \A m \in Loaders : pc'[m] \in {"rename", "truncate"} => pc[m] = pc'[m]
  BY <1>1 DEF WrittenInv
<1>5. DOMAIN pc' = Loaders /\ DOMAIN fd' = Loaders BY <1>1 DEF WrittenInv
<1>6. \A m \in Loaders : fd'[m] = "here" => m = l \/ fd[m] = "here" BY <1>1 DEF WrittenInv
<1> QED BY <1>1, <1>2, <1>3, <1>4, <1>5, <1>6 DEF WrittenInv

\* Who still has the file writes it; one who has lost it writes the old one.
LEMMA WriteFaithful ==
  ASSUME WrittenInv, disk \in [Files -> Texts], NEW l \in Loaders, Write(l) \/ WriteFails(l)
  PROVE  WrittenInv'
<1>1. /\ pc[l] = "write" /\ fd' = [fd EXCEPT ![l] = "none"]
      /\ UNCHANGED <<buf, written, stale, lost, torn>>
      /\ \E at \in {"load", "done"} : pc' = [pc EXCEPT ![l] = at]
  BY DEF Write, WriteFails, Goto, Set, Fail
<1>2. \A m \in Loaders : fd'[m] # "none" => m # l /\ pc'[m] = "write" /\ fd[m] = fd'[m]
  BY <1>1 DEF WrittenInv
<1>3. \A m \in Loaders : pc'[m] \in {"rename", "truncate"} => pc[m] = pc'[m]
  BY <1>1 DEF WrittenInv
<1>4. DOMAIN pc' = Loaders /\ DOMAIN fd' = Loaders BY <1>1 DEF WrittenInv
<1>5. hurt => hurt' BY DEF Write, WriteFails
<1>6. ASSUME ~lost, ~torn, ~hurt', ~Truncated' PROVE Faithful(written, disk'[Main])
  <2>1. CASE fd[l] = "here"
    <3>1. disk'[Main] = buf[l]
      BY <1>6, <2>1, LoadingAssumption DEF Write, WriteFails, Change
    <3> QED BY <1>5, <1>6, <2>1, <3>1 DEF WrittenInv
  <2>2. CASE fd[l] # "here"
    <3>1. UNCHANGED disk BY <2>2 DEF Write, WriteFails
    <3>2. ~Truncated BY <1>1, <1>6, <2>2 DEF Truncated, WrittenInv
    <3> QED BY <1>5, <1>6, <3>1, <3>2 DEF WrittenInv
  <2> QED BY <2>1, <2>2
<1>7. \A m \in Loaders : fd'[m] = "here" => fd[m] = "here" BY <1>2
<1> QED BY <1>1, <1>2, <1>3, <1>4, <1>5, <1>6, <1>7 DEF WrittenInv

LEMMA SaveFaithful ==
  ASSUME WrittenInv, disk \in [Files -> Texts], NEW f \in Files, Save(f)
  PROVE  WrittenInv'
<1>1. PICK text \in scenario.saves[f] :
        /\ disk' = [disk EXCEPT ![f] = text]
        /\ IF f = Main
           THEN /\ written' = text
                /\ stale' = {l \in Loaders : pc[l] \in {"rename", "truncate"}}
                /\ fd' = [m \in Loaders |-> IF fd[m] = "here" THEN "gone" ELSE fd[m]]
                /\ lost' = FALSE /\ hurt' = FALSE
                /\ torn' = FALSE
           ELSE UNCHANGED <<written, stale, fd, lost, hurt, torn>>
  BY DEF Save
<1>2. UNCHANGED <<pc, buf>> BY DEF Save
<1>3. CASE f = Main
  <2>1. disk'[Main] = written' BY <1>1, <1>3
  <2>2. Faithful(written', disk'[Main]) BY <2>1, FaithfulItself
  <2>3. /\ \A m \in Loaders : fd'[m] # "here" /\ (fd'[m] # "none" => fd[m] # "none")
        /\ DOMAIN fd' = Loaders
    BY <1>1, <1>3
  <2> QED BY <1>1, <1>2, <1>3, <2>2, <2>3 DEF WrittenInv
<1>4. CASE f # Main
  <2>1. disk'[Main] = disk[Main] BY <1>1, <1>4
  <2>2. Truncated' = Truncated BY <1>1, <1>4 DEF Truncated
  <2> QED BY <1>1, <1>2, <1>4, <2>1, <2>2 DEF WrittenInv
<1> QED BY <1>3, <1>4

LEMMA WrittenStep == LoadInv /\ WrittenInv /\ [Next]_vars => WrittenInv'
<1> SUFFICES ASSUME LoadInv, WrittenInv, [Next]_vars PROVE WrittenInv'
  OBVIOUS
<1>1. CASE UNCHANGED vars BY <1>1 DEF vars, WrittenInv, Truncated
<1>2. disk \in [Files -> Texts] BY DEF LoadInv
<1>3. ASSUME NEW l \in Loaders, Load(l) PROVE WrittenInv'
  <2>1. CASE ParseForFormat(l) \/ ParseForLint(l) BY <2>1, RereadFaithful
  <2>2. CASE Rename(l) BY <1>2, <2>2, RenameFaithful
  <2>3. CASE Truncate(l) BY <2>3, TruncateFaithful
  <2>4. CASE Write(l) \/ WriteFails(l) BY <1>2, <2>4, WriteFaithful
  <2>5. CASE WriteRefused(l) \/ ImportCycle(l) \/ Enter(l) \/ Leave(l)
    <3>1. /\ pc[l] \in {"rename", "truncate", "load"}
          /\ UNCHANGED <<disk, buf, fd, written, stale, lost, hurt>> /\ (torn => torn')
      <4>1. CASE Enter(l) BY <4>1 DEF Enter, Calling
      <4>2. CASE WriteRefused(l) BY <4>2 DEF WriteRefused, history
      <4>3. CASE ImportCycle(l) BY <4>3 DEF ImportCycle, Calling, history
      <4>4. CASE Leave(l) BY <4>4 DEF Leave, history
      <4> QED BY <2>5, <4>1, <4>2, <4>3, <4>4
    <3>2. pc' = pc \/ \E at \in {"load", "done"} : pc' = [pc EXCEPT ![l] = at]
      BY <2>5 DEF WriteRefused, ImportCycle, Enter, Leave, Unwind, Fail, Goto, Return
    <3>3. fd[l] = "none" BY <3>1 DEF WrittenInv
    <3> QED BY <3>1, <3>2, <3>3, ElsewhereKeeps
  <2> QED BY <1>3, <2>1, <2>2, <2>3, <2>4, <2>5 DEF Load
<1>4. ASSUME NEW f \in Files, Save(f) PROVE WrittenInv' BY <1>2, <1>4, SaveFaithful
<1> QED BY <1>1, <1>3, <1>4 DEF Next

(***************************************************************************)
(* What a load returns: the import graph.                                  *)
(***************************************************************************)

To(d, f) == ToSet(Imports(d, f))
WithImports(d, S) == \A g \in S : To(d, g) \subseteq S
Reach(d, f) == {g \in Files : \A S \in SUBSET Files : f \in S /\ WithImports(d, S) => g \in S}
Round(d, S) == S # {} /\ \A g \in S : To(d, g) \cap S # {}

\* What can be loaded from f on.
Good(d, f) == /\ \A g \in Reach(d, f) : Parse(d[g]).ok /\ Valid(Flattened(d)[g])
              /\ \A S \in SUBSET Reach(d, f) : ~Round(d, S)

LEMMA ImportsAre ==
  ASSUME NEW d \in [Files -> Texts], NEW f \in Files
  PROVE  /\ Imports(d, f) \in Seq(Files) /\ Len(Imports(d, f)) \in Nat
         /\ To(d, f) = {Imports(d, f)[k] : k \in 1..Len(Imports(d, f))}
         /\ To(d, f) \subseteq Files
         /\ Parse(d[f]).ok => Imports(d, f) = Own(d, f).imports
<1>1. CASE Parse(d[f]).ok
  <2>1. Imports(d, f) = Own(d, f).imports BY <1>1 DEF Imports
  <2>2. IsConfig(Own(d, f)) BY <1>1, CompileIsConfig DEF Own
  <2>3. Own(d, f).imports \in Seq(Files) BY <2>2 DEF IsConfig
  <2> HIDE DEF Imports
  <2> QED BY <2>1, <2>3 DEF To, ToSet
<1>2. CASE ~Parse(d[f]).ok
  <2>1. Imports(d, f) = <<>> BY <1>2 DEF Imports
  <2> QED BY <1>2, <2>1 DEF To, ToSet
<1> QED BY <1>1, <1>2

LEMMA ReachIs ==
  ASSUME NEW d \in [Files -> Texts], NEW f \in Files
  PROVE  /\ f \in Reach(d, f) /\ Reach(d, f) \subseteq Files /\ WithImports(d, Reach(d, f))
         /\ \A S \in SUBSET Files : f \in S /\ WithImports(d, S) => Reach(d, f) \subseteq S
<1>1. f \in Reach(d, f) /\ Reach(d, f) \subseteq Files BY DEF Reach
<1>2. \A S \in SUBSET Files : f \in S /\ WithImports(d, S) => Reach(d, f) \subseteq S BY DEF Reach
<1>3. ASSUME NEW g \in Reach(d, f), NEW h \in To(d, g) PROVE h \in Reach(d, f)
  <2>1. g \in Files /\ h \in Files BY <1>1, <1>3, ImportsAre
  <2>2. ASSUME NEW S \in SUBSET Files, f \in S, WithImports(d, S) PROVE h \in S
    <3>1. g \in S BY <2>2 DEF Reach
    <3> QED BY <1>3, <2>2, <3>1 DEF WithImports
  <2> QED BY <2>1, <2>2 DEF Reach
<1> QED BY <1>1, <1>2, <1>3 DEF WithImports

\* Loading, in these terms.
LEMMA ReachableIs == \A d : Reachable(d) = Reach(d, Main)
BY DEF Reachable, Reach, WithImports, To

LEMMA LoadableIs ==
  ASSUME NEW d
  PROVE  /\ Loadable(d) <=> Good(d, Main)
         /\ Cyclic(d) <=> \E S \in SUBSET Reach(d, Main) : Round(d, S)
<1>1. Cyclic(d) <=> \E S \in SUBSET Reach(d, Main) : Round(d, S)
  <2>1. \A f \in Reach(d, Main) : f \in Files BY DEF Reach
  <2> QED BY <2>1, ReachableIs DEF Cyclic, Round, To
<1> QED BY <1>1, ReachableIs DEF Loadable, Good

\* A file is good if its imports are.
LEMMA GoodByImports ==
  ASSUME NEW d \in [Files -> Texts], NEW f \in Files, Parse(d[f]).ok, Valid(Flattened(d)[f]),
         \A g \in To(d, f) : Good(d, g)
  PROVE  Good(d, f)
<1> DEFINE U == {f} \cup UNION {Reach(d, g) : g \in To(d, f)}
<1>1. To(d, f) \subseteq Files BY ImportsAre
<1>2. \A g \in To(d, f) : /\ g \in Reach(d, g) /\ Reach(d, g) \subseteq Files
                          /\ WithImports(d, Reach(d, g))
  BY <1>1, ReachIs
<1>3. U \subseteq Files BY <1>2
<1>4. WithImports(d, U)
  <2>1. \A h \in To(d, f) : h \in U BY <1>2
  <2>2. ASSUME NEW g \in To(d, f), NEW h \in Reach(d, g), NEW x \in To(d, h) PROVE x \in U
    <3>1. x \in Reach(d, g) BY <1>2, <2>2 DEF WithImports
    <3> QED BY <2>2, <3>1
  <2> QED BY <2>1, <2>2 DEF WithImports
<1>5. Reach(d, f) \subseteq U BY <1>3, <1>4, ReachIs
<1>6. ASSUME NEW g \in Reach(d, f) PROVE Parse(d[g]).ok /\ Valid(Flattened(d)[g])
  BY <1>5, <1>6 DEF Good
<1>7. ASSUME NEW S \in SUBSET Reach(d, f), Round(d, S) PROVE FALSE
  <2>1. \A g \in To(d, f) : S \cap Reach(d, g) = {}
    <3> SUFFICES ASSUME NEW g \in To(d, f), S \cap Reach(d, g) # {} PROVE FALSE
      OBVIOUS
    <3> DEFINE V == S \cap Reach(d, g)
    <3>1. ASSUME NEW x \in V PROVE To(d, x) \cap V # {}
      <4>1. PICK y \in To(d, x) : y \in S BY <1>7, <3>1 DEF Round
      <4>2. y \in Reach(d, g) BY <1>2, <3>1, <4>1 DEF WithImports
      <4> QED BY <4>1, <4>2
    <3>2. Round(d, V) BY <3>1 DEF Round
    <3>3. V \in SUBSET Reach(d, g) OBVIOUS
    <3> HIDE DEF V
    <3> QED BY <3>2, <3>3 DEF Good
  <2>2. S \subseteq {f} BY <1>5, <1>7, <2>1
  <2>3. PICK x \in S : x = f BY <1>7, <2>2 DEF Round
  <2>4. PICK y \in To(d, f) : y \in S BY <1>7, <2>3 DEF Round
  <2>5. y \in Reach(d, y) BY <1>2, <2>4
  <2> QED BY <2>1, <2>4, <2>5
<1> QED BY <1>6, <1>7 DEF Good

(***************************************************************************)
(* What a file flattens to.                                                *)
(***************************************************************************)

IsMerged(d, f, below, n, m) ==
    m = [k \in 0..n |-> IF k = 0 THEN Own(d, f) ELSE Merge(m[k - 1], below[Imports(d, f)[k]])]

LEMMA MergedStep ==
  ASSUME NEW d, NEW f, NEW below, NEW n \in Nat, NEW g, IsMerged(d, f, below, n, g)
  PROVE  \E m : IsMerged(d, f, below, n + 1, m)
<1> DEFINE m == [k \in 0..(n + 1) |-> IF k = 0 THEN Own(d, f)
                                      ELSE Merge(g[k - 1], below[Imports(d, f)[k]])]
<1>1. \A k \in 0..n : g[k] = IF k = 0 THEN Own(d, f) ELSE Merge(g[k - 1], below[Imports(d, f)[k]])
  BY DEF IsMerged
<1>2. \A k \in 0..n : m[k] = g[k] BY <1>1
<1>3. \A k \in 0..(n + 1) : k = 0 \/ k - 1 \in 0..n OBVIOUS
<1>4. m = [k \in 0..(n + 1) |-> IF k = 0 THEN Own(d, f)
                                ELSE Merge(m[k - 1], below[Imports(d, f)[k]])]
  BY <1>2, <1>3
<1> QED BY <1>4 DEF IsMerged

LEMMA MergedExist ==
  ASSUME NEW d, NEW f, NEW below, NEW n \in Nat
  PROVE  \E m : IsMerged(d, f, below, n, m)
<1> DEFINE T == {k \in Nat : ~ \E m : IsMerged(d, f, below, k, m)}
<1>1. SUFFICES ASSUME T # {} PROVE FALSE OBVIOUS
<1>2. PICK k \in T : \A j \in T : k <= j
  <2> T \in SUBSET Nat OBVIOUS
  <2> HIDE DEF T
  <2> QED BY <1>1, LeastOf
<1>3. k # 0
  <2>1. IsMerged(d, f, below, 0, [j \in 0..0 |-> Own(d, f)]) BY DEF IsMerged
  <2> QED BY <2>1
<1>4. k - 1 \in Nat /\ k - 1 \notin T BY <1>2, <1>3
<1>5. PICK g : IsMerged(d, f, below, k - 1, g) BY <1>4
<1>6. \E m : IsMerged(d, f, below, (k - 1) + 1, m) BY <1>4, <1>5, MergedStep
<1>7. (k - 1) + 1 = k BY <1>4
<1> QED BY <1>6, <1>7

LEMMA MergedIs ==
  ASSUME NEW d \in [Files -> Texts], NEW f \in Files, NEW below
  PROVE  /\ Merged(d, f, below)[0] = Own(d, f)
         /\ \A k \in 1..Len(Imports(d, f)) :
              Merged(d, f, below)[k] = Merge(Merged(d, f, below)[k - 1], below[Imports(d, f)[k]])
<1> DEFINE m == CHOOSE m : IsMerged(d, f, below, Len(Imports(d, f)), m)
<1>1. Len(Imports(d, f)) \in Nat BY ImportsAre
<1>2. Merged(d, f, below) = m BY DEF Merged, IsMerged
<1>3. IsMerged(d, f, below, Len(Imports(d, f)), m) BY <1>1, MergedExist
<1> HIDE DEF m
<1>4. \A k \in 0..Len(Imports(d, f)) :
         m[k] = IF k = 0 THEN Own(d, f) ELSE Merge(m[k - 1], below[Imports(d, f)[k]])
  BY <1>3 DEF IsMerged
<1> QED BY <1>1, <1>2, <1>4

IsFlatTo(d, n, h) ==
    h = [k \in 0..n |-> [f \in Files |->
            IF k = 0 \/ Imports(d, f) = <<>> THEN Own(d, f)
            ELSE [Merged(d, f, h[k - 1])[Len(Imports(d, f))] EXCEPT !.imports = <<>>]]]

LEMMA FlatToStep ==
  ASSUME NEW d, NEW n \in Nat, NEW g, IsFlatTo(d, n, g)
  PROVE  \E h : IsFlatTo(d, n + 1, h)
<1> DEFINE at(k, below) == [f \in Files |->
                IF k = 0 \/ Imports(d, f) = <<>> THEN Own(d, f)
                ELSE [Merged(d, f, below)[Len(Imports(d, f))] EXCEPT !.imports = <<>>]]
           h == [k \in 0..(n + 1) |-> at(k, g[k - 1])]
<1>1. g = [k \in 0..n |-> at(k, g[k - 1])] BY DEF IsFlatTo
<1>2. \A x, y : at(0, x) = at(0, y) OBVIOUS
<1>3. (\E x : x = [k \in 0..(n + 1) |-> at(k, x[k - 1])]) => \E x : IsFlatTo(d, n + 1, x)
  BY DEF IsFlatTo
<1> HIDE DEF at
<1>4. \A k \in 0..n : h[k] = g[k] BY <1>1
<1>5. \A k \in 0..(n + 1) : at(k, g[k - 1]) = at(k, h[k - 1])
  <2>1. \A k \in 0..(n + 1) : k = 0 \/ k - 1 \in 0..n OBVIOUS
  <2> HIDE DEF h
  <2> QED BY <1>2, <1>4, <2>1
<1>6. h = [k \in 0..(n + 1) |-> at(k, h[k - 1])] BY <1>5
<1> QED BY <1>3, <1>6

LEMMA FlatToExist ==
  ASSUME NEW d, NEW n \in Nat
  PROVE  \E h : IsFlatTo(d, n, h)
<1> DEFINE T == {k \in Nat : ~ \E h : IsFlatTo(d, k, h)}
<1>1. SUFFICES ASSUME T # {} PROVE FALSE OBVIOUS
<1>2. PICK k \in T : \A j \in T : k <= j
  <2> T \in SUBSET Nat OBVIOUS
  <2> HIDE DEF T
  <2> QED BY <1>1, LeastOf
<1>3. k # 0
  <2>1. IsFlatTo(d, 0, [j \in 0..0 |-> [f \in Files |-> Own(d, f)]]) BY DEF IsFlatTo
  <2> QED BY <2>1
<1>4. k - 1 \in Nat /\ k - 1 \notin T BY <1>2, <1>3
<1>5. PICK g : IsFlatTo(d, k - 1, g) BY <1>4
<1>6. \E h : IsFlatTo(d, (k - 1) + 1, h) BY <1>4, <1>5, FlatToStep
<1>7. (k - 1) + 1 = k BY <1>4
<1> QED BY <1>6, <1>7

\* Level(d, n)[f]: f with what n levels of imports below it add.
FlatTo(d) == CHOOSE h : IsFlatTo(d, Depth, h)
Level(d, n) == FlatTo(d)[n]

LEMMA LevelIs ==
  ASSUME NEW d
  PROVE  /\ Depth \in Nat /\ Flattened(d) = Level(d, Depth)
         /\ \A n \in 0..Depth : \A f \in Files :
               Imports(d, f) = <<>> => Level(d, n)[f] = Own(d, f)
         /\ \A n \in 0..Depth : \A f \in Files :
               n > 0 /\ Imports(d, f) # <<>> =>
                   Level(d, n)[f] =
                       [Merged(d, f, Level(d, n - 1))[Len(Imports(d, f))] EXCEPT !.imports = <<>>]
<1>1. Depth \in Nat BY LoadingAssumption, FS_CardinalityType DEF Depth
<1>2. Flattened(d) = Level(d, Depth) BY DEF Flattened, Level, FlatTo, IsFlatTo
<1>3. IsFlatTo(d, Depth, FlatTo(d)) BY <1>1, FlatToExist DEF FlatTo
<1>4. \A n \in 0..Depth : Level(d, n) = [f \in Files |->
            IF n = 0 \/ Imports(d, f) = <<>> THEN Own(d, f)
            ELSE [Merged(d, f, Level(d, n - 1))[Len(Imports(d, f))] EXCEPT !.imports = <<>>]]
  <2> DEFINE F == FlatTo(d)
  <2> HIDE DEF F
  <2>1. IsFlatTo(d, Depth, F) BY <1>3 DEF F
  <2>2. \A n \in 0..Depth : F[n] = [f \in Files |->
            IF n = 0 \/ Imports(d, f) = <<>> THEN Own(d, f)
            ELSE [Merged(d, f, F[n - 1])[Len(Imports(d, f))] EXCEPT !.imports = <<>>]]
    BY <2>1 DEF IsFlatTo
  <2> QED BY <2>2 DEF Level, F
<1>5. ASSUME NEW n \in 0..Depth, NEW f \in Files
      PROVE  /\ Imports(d, f) = <<>> => Level(d, n)[f] = Own(d, f)
             /\ n > 0 /\ Imports(d, f) # <<>> =>
                   Level(d, n)[f] =
                        [Merged(d, f, Level(d, n - 1))[Len(Imports(d, f))] EXCEPT !.imports = <<>>]
  BY <1>4, <1>5
<1> QED BY <1>1, <1>2, <1>5

(***************************************************************************)
(* The calls of a load, while nobody changes its files.                    *)
(***************************************************************************)

\* f, with h calls above its own, flattens to c.
FlatOf(d, f, h, c) == /\ h + 1 <= Depth
                      /\ \A m \in 0..Depth : Depth - h - 1 <= m => Level(d, m)[f] = c

\* The first n imports of a call, with h calls above it, have returned.
Returned(d, c, h, n) ==
    /\ Len(c.todo) = Len(Imports(d, c.file)) - n
    /\ \A j \in 1..Len(c.todo) : c.todo[j] = Imports(d, c.file)[n + j]
    /\ \A k \in 1..n : Good(d, Imports(d, c.file)[k])
    /\ n > 0 => h + 2 <= Depth
    /\ \A m \in 1..Depth : Depth - h - 1 <= m => Merged(d, c.file, Level(d, m - 1))[n] = c.cfg

CallInv(d, c, h) == /\ c.file \in Reach(d, Main) /\ Parse(d[c.file]).ok
                    /\ Imports(d, c.file) # <<>>
                    /\ \E n \in 0..Len(Imports(d, c.file)) : Returned(d, c, h, n)

CallsInv(d, s) ==
    /\ \A k \in 1..Len(s) : CallInv(d, s[k], Len(s) - k)
    /\ \A k \in 2..Len(s) : s[k].todo[1] = s[k - 1].file
    /\ \A j, k \in 1..Len(s) : j # k => s[j].file # s[k].file
    /\ s # <<>> => s[Len(s)].file = Main

\* The file the next call is for.
NextOf(s) == IF s = <<>> THEN Main ELSE s[1].todo[1]

LEMMA FramesAre ==
  ASSUME NEW s, Frames(s)
  PROVE  /\ Len(s) \in Nat /\ DOMAIN s = 1..Len(s)
         /\ s # <<>> => Len(s) # 0 /\ Head(s) = s[1] /\ Len(Tail(s)) = Len(s) - 1
         /\ \A k \in 1..(Len(s) - 1) : Tail(s)[k] = s[k + 1]
         /\ \A k \in 1..Len(s) : IsFrame(s[k])
<1>1. PICK S : s \in Seq(S) /\ \A f \in S : IsFrame(f) BY DEF Frames
<1>2. \A k \in 1..Len(s) : s[k] \in S BY <1>1
<1> QED BY <1>1, <1>2

\* A call waits for imports of its file.
LEMMA WaitsFor ==
  ASSUME NEW d \in [Files -> Texts], NEW s, Frames(s), CallsInv(d, s),
         NEW i \in 1..Len(s), s[i].todo # <<>>
  PROVE  /\ s[i].file \in Reach(d, Main) /\ s[i].file \in Files
         /\ s[i].todo[1] \in To(d, s[i].file)
<1> DEFINE c == s[i]
           f == c.file
<1>1. Reach(d, Main) \subseteq Files BY ReachIs, LoadingAssumption
<1>2. Len(s) \in Nat /\ IsFrame(c) BY FramesAre
<1>3. CallInv(d, c, Len(s) - i) BY DEF CallsInv
<1>4. 1 \in 1..Len(c.todo) /\ Len(c.todo) \in Nat
  <2>1. c.todo \in Seq(Files) BY <1>2 DEF IsFrame
  <2> QED BY <2>1
<1>5. f \in Reach(d, Main) /\ f \in Files BY <1>1, <1>3 DEF CallInv
<1>6. /\ Len(Imports(d, f)) \in Nat
      /\ To(d, f) = {Imports(d, f)[k] : k \in 1..Len(Imports(d, f))}
  BY <1>5, ImportsAre
<1>7. PICK n \in 0..Len(Imports(d, f)) :
         Len(c.todo) = Len(Imports(d, f)) - n /\ c.todo[1] = Imports(d, f)[n + 1]
  BY <1>3, <1>4 DEF CallInv, Returned
<1>8. n + 1 \in 1..Len(Imports(d, f)) BY <1>4, <1>6, <1>7
<1> QED BY <1>5, <1>6, <1>7, <1>8

\* What is to be called is reached.
LEMMA NextIs ==
  ASSUME NEW d \in [Files -> Texts], NEW s, Frames(s), CallsInv(d, s),
         s # <<>> => Head(s).todo # <<>>
  PROVE  /\ NextOf(s) \in Reach(d, Main) /\ NextOf(s) \in Files
         /\ s # <<>> => NextOf(s) \in To(d, s[1].file)
<1>1. Reach(d, Main) \subseteq Files /\ Main \in Reach(d, Main) /\ WithImports(d, Reach(d, Main))
  BY ReachIs, LoadingAssumption
<1>2. CASE s = <<>> BY <1>1, <1>2 DEF NextOf
<1>3. CASE s # <<>>
  <2>1. 1 \in 1..Len(s) /\ Head(s) = s[1] BY <1>3, FramesAre
  <2>2. s[1].file \in Reach(d, Main) /\ s[1].todo[1] \in To(d, s[1].file)
    BY <1>3, <2>1, WaitsFor
  <2>3. s[1].todo[1] \in Reach(d, Main) BY <1>1, <2>2 DEF WithImports
  <2> QED BY <1>1, <1>3, <2>2, <2>3 DEF NextOf
<1> QED BY <1>2, <1>3

\* As long as no file is called again, there are no more calls than files.
LEMMA FewCalls ==
  ASSUME NEW d \in [Files -> Texts], NEW s, Frames(s), CallsInv(d, s), NEW f \in Files,
         \A k \in 1..Len(s) : s[k].file # f
  PROVE  Len(s) + 1 <= Depth
<1> DEFINE n == Len(s)
           g == [k \in 1..(n + 1) |-> IF k <= n THEN s[k].file ELSE f]
<1>1. n \in Nat BY FramesAre
<1>2. Reach(d, Main) \subseteq Files BY ReachIs, LoadingAssumption
<1>3. \A k \in 1..n : s[k].file \in Files BY <1>2 DEF CallsInv, CallInv
<1>4. \A j, k \in 1..(n + 1) : j # k => g[j] # g[k]
  <2>1. \A j, k \in 1..n : j # k => s[j].file # s[k].file BY DEF CallsInv
  <2>2. \A k \in 1..(n + 1) : k \in 1..n \/ k = n + 1 BY <1>1
  <2>3. \A k \in 1..n : g[k] = s[k].file BY <1>1
  <2>4. g[n + 1] = f BY <1>1
  <2> HIDE DEF g
  <2> QED BY <2>1, <2>2, <2>3, <2>4
<1>5. g \in [1..(n + 1) -> Files] BY <1>3
<1>6. IsFiniteSet(1..(n + 1)) /\ Cardinality(1..(n + 1)) = n + 1
  <2>1. 1 \in Int /\ n + 1 \in Int /\ ~(1 > n + 1) /\ (n + 1) - 1 + 1 = n + 1 BY <1>1
  <2> QED BY <2>1, FS_Interval
<1>7. IsFiniteSet(Files) /\ Cardinality(Files) \in Nat BY LoadingAssumption, FS_CardinalityType
<1>8. ~(Cardinality(Files) < n + 1)
  <2> HIDE DEF g
  <2>1. ASSUME Cardinality(Files) < Cardinality(1..(n + 1))
        PROVE  \E x, y \in 1..(n + 1) : x # y /\ g[x] = g[y]
    BY <1>5, <1>6, <1>7, <2>1, FS_PigeonHole
  <2> QED BY <1>4, <1>6, <2>1
<1> QED BY <1>1, <1>7, <1>8 DEF Depth

\* The calls after another one.
LEMMA CalledOn ==
  ASSUME NEW s, Frames(s), NEW c, NEW t, t = <<c>> \o s
  PROVE  /\ Len(s) \in Nat /\ Len(t) = Len(s) + 1 /\ t # <<>> /\ t[1] = c
         /\ \A k \in 2..Len(t) : t[k] = s[k - 1] /\ k - 1 \in 1..Len(s)
<1>1. PICK S : s \in Seq(S) BY DEF Frames
<1>2. PICK T : T = S \cup {c} OBVIOUS
<1>3. s \in Seq(T) /\ <<c>> \in Seq(T) BY <1>1, <1>2
<1> QED BY <1>3

LEMMA CallsPush ==
  ASSUME NEW d \in [Files -> Texts], NEW s, Frames(s), CallsInv(d, s),
         s # <<>> => Head(s).todo # <<>>,
         NEW f, f = NextOf(s), \A k \in 1..Len(s) : s[k].file # f,
         Parse(d[f]).ok, Imports(d, f) # <<>>,
         NEW c, c.file = f, c.cfg = Own(d, f), c.todo = Imports(d, f)
  PROVE  CallsInv(d, <<c>> \o s)
<1> DEFINE t == <<c>> \o s
<1>1. f \in Reach(d, Main) /\ f \in Files BY NextIs
<1>2. Len(Imports(d, f)) \in Nat BY <1>1, ImportsAre
<1>3. /\ Len(s) \in Nat /\ Len(t) = Len(s) + 1 /\ t # <<>> /\ t[1] = c
      /\ \A k \in 2..Len(t) : t[k] = s[k - 1] /\ k - 1 \in 1..Len(s)
  BY CalledOn
<1> HIDE DEF t
<1>4. Returned(d, c, Len(s), 0)
  <2>1. \A below : Merged(d, f, below)[0] = Own(d, f) BY <1>1, MergedIs
  <2>2. Len(c.todo) = Len(Imports(d, c.file)) - 0
        /\ \A j \in 1..Len(c.todo) : c.todo[j] = Imports(d, c.file)[0 + j]
    BY <1>2
  <2> QED BY <2>1, <2>2 DEF Returned
<1>5. CallInv(d, c, Len(s))
  <2>1. 0 \in 0..Len(Imports(d, c.file)) BY <1>2
  <2> QED BY <1>1, <1>4, <2>1 DEF CallInv
<1>6. ASSUME NEW k \in 1..Len(t) PROVE CallInv(d, t[k], Len(t) - k)
  <2>1. CASE k = 1
    <3>1. Len(t) - k = Len(s) BY <1>3, <2>1
    <3> QED BY <1>3, <1>5, <2>1, <3>1
  <2>2. CASE k # 1
    <3>1. k \in 2..Len(t) /\ Len(t) - k = Len(s) - (k - 1) BY <1>3, <2>2
    <3> QED BY <1>3, <3>1 DEF CallsInv
  <2> QED BY <2>1, <2>2
<1>7. ASSUME NEW k \in 2..Len(t) PROVE t[k].todo[1] = t[k - 1].file
  <2>1. t[k] = s[k - 1] /\ k - 1 \in 1..Len(s) /\ s # <<>> BY <1>3
  <2>2. CASE k = 2 BY <1>3, <2>1, <2>2 DEF NextOf
  <2>3. CASE k # 2
    <3>1. k - 1 \in 2..Len(s) /\ k - 1 \in 2..Len(t) BY <1>3, <2>1, <2>3
    <3> QED BY <1>3, <2>1, <3>1 DEF CallsInv
  <2> QED BY <2>2, <2>3
<1>8. ASSUME NEW j \in 1..Len(t), NEW k \in 1..Len(t), j # k PROVE t[j].file # t[k].file
  <2>1. \A i \in 2..Len(t) : t[i].file # f BY <1>3
  <2>2. CASE j = 1 \/ k = 1
    <3>1. j \in 2..Len(t) \/ k \in 2..Len(t) BY <1>3, <1>8
    <3> QED BY <1>3, <1>8, <2>1, <2>2, <3>1
  <2>3. CASE j # 1 /\ k # 1
    <3>1. j \in 2..Len(t) /\ k \in 2..Len(t) /\ j - 1 # k - 1 BY <1>3, <1>8, <2>3
    <3>2. t[j] = s[j - 1] /\ t[k] = s[k - 1] /\ j - 1 \in 1..Len(s) /\ k - 1 \in 1..Len(s)
      BY <1>3, <3>1
    <3>3. \A i, l \in 1..Len(s) : i # l => s[i].file # s[l].file BY DEF CallsInv
    <3> QED BY <3>1, <3>2, <3>3
  <2> QED BY <2>2, <2>3
<1>9. t[Len(t)].file = Main
  <2>1. CASE s = <<>> BY <1>3, <2>1 DEF NextOf
  <2>2. CASE s # <<>>
    <3>1. Len(s) # 0 BY <2>2, FramesAre
    <3>2. Len(t) \in 2..Len(t) /\ Len(t) - 1 = Len(s) BY <1>3, <3>1
    <3> QED BY <1>3, <2>2, <3>2 DEF CallsInv
  <2> QED BY <2>1, <2>2
<1> QED BY <1>6, <1>7, <1>8, <1>9 DEF CallsInv, t

\* The calls above another one.
LEMMA CallsAbove ==
  ASSUME NEW d, NEW s, Frames(s), CallsInv(d, s), s # <<>>
  PROVE  CallsInv(d, Tail(s))
<1> DEFINE t == Tail(s)
<1>1. /\ Len(s) \in Nat \ {0} /\ Len(t) = Len(s) - 1
      /\ \A k \in 1..Len(t) : t[k] = s[k + 1] /\ k + 1 \in 2..Len(s) /\ Len(t) - k = Len(s) - (k + 1)
  BY FramesAre
<1>2. Frames(t) /\ t # <<>> => Len(t) # 0 BY FramesAre
<1>3. Frames(t)
  <2>1. PICK S : s \in Seq(S) /\ \A f \in S : IsFrame(f) BY DEF Frames
  <2> QED BY <2>1 DEF Frames
<1> HIDE DEF t
<1>4. ASSUME NEW k \in 1..Len(t) PROVE CallInv(d, t[k], Len(t) - k)
  <2>1. k + 1 \in 1..Len(s) /\ t[k] = s[k + 1] /\ Len(t) - k = Len(s) - (k + 1) BY <1>1
  <2>2. CallInv(d, s[k + 1], Len(s) - (k + 1)) BY <2>1 DEF CallsInv
  <2> QED BY <2>1, <2>2
<1>5. ASSUME NEW k \in 2..Len(t) PROVE t[k].todo[1] = t[k - 1].file
  <2>1. k \in 1..Len(t) /\ k - 1 \in 1..Len(t) /\ k + 1 \in 2..Len(s) /\ (k + 1) - 1 = k
        /\ (k - 1) + 1 = k
    BY <1>1
  <2>2. t[k] = s[k + 1] /\ t[k - 1] = s[k] BY <1>1, <2>1
  <2>3. s[k + 1].todo[1] = s[(k + 1) - 1].file BY <2>1 DEF CallsInv
  <2> QED BY <2>1, <2>2, <2>3
<1>6. ASSUME NEW j \in 1..Len(t), NEW k \in 1..Len(t), j # k PROVE t[j].file # t[k].file
  <2>1. j + 1 \in 1..Len(s) /\ k + 1 \in 1..Len(s) /\ j + 1 # k + 1 BY <1>1, <1>6
  <2> QED BY <1>1, <2>1 DEF CallsInv
<1>7. ASSUME t # <<>> PROVE t[Len(t)].file = Main
  <2>1. Len(t) \in 1..Len(t) /\ Len(t) + 1 = Len(s) BY <1>1, <1>2, <1>3, <1>7
  <2> QED BY <1>1, <2>1 DEF CallsInv
<1> QED BY <1>4, <1>5, <1>6, <1>7 DEF CallsInv, t

\* A call takes over what the call for its next import returned.
LEMMA CallsReturn ==
  ASSUME NEW d \in [Files -> Texts], NEW s, Frames(s), CallsInv(d, s),
         s # <<>>, Head(s).todo # <<>>,
         NEW f, f = NextOf(s), NEW cfg, FlatOf(d, f, Len(s), cfg), Good(d, f),
         NEW c, c.file = s[1].file, c.cfg = Merge(s[1].cfg, cfg), c.todo = Tail(s[1].todo)
  PROVE  CallsInv(d, <<c>> \o Tail(s))
<1> DEFINE t == <<c>> \o Tail(s)
           old == s[1]
           g == c.file
<1>1. /\ Len(s) \in Nat \ {0} /\ Head(s) = old /\ IsFrame(old)
      /\ \A k \in 1..(Len(s) - 1) : Tail(s)[k] = s[k + 1]
  BY FramesAre
<1>2. Frames(Tail(s)) /\ Len(Tail(s)) = Len(s) - 1
  <2>1. PICK S : s \in Seq(S) /\ \A x \in S : IsFrame(x) BY DEF Frames
  <2> QED BY <2>1 DEF Frames
<1>3. Len(t) = Len(s) /\ t[1] = c /\ \A k \in 2..Len(s) : t[k] = s[k]
  <2>1. /\ Len(t) = Len(Tail(s)) + 1 /\ t[1] = c
        /\ \A k \in 2..Len(t) : t[k] = Tail(s)[k - 1] /\ k - 1 \in 1..Len(Tail(s))
    BY <1>2, CalledOn
  <2> HIDE DEF t
  <2> QED BY <1>1, <1>2, <2>1
<1> HIDE DEF t
<1>4. /\ CallInv(d, old, Len(s) - 1) /\ g = old.file
      /\ f = old.todo[1]
  BY <1>1 DEF CallsInv, NextOf
<1>5. g \in Files /\ f \in Files /\ Len(Imports(d, g)) \in Nat /\ Depth \in Nat
  BY <1>4, ReachIs, NextIs, ImportsAre, LevelIs, LoadingAssumption DEF CallInv
<1>6. /\ Len(old.todo) \in Nat \ {0} /\ Len(c.todo) = Len(old.todo) - 1
      /\ \A j \in 1..(Len(old.todo) - 1) : c.todo[j] = old.todo[j + 1]
  <2>1. old.todo \in Seq(Files) /\ old.todo # <<>> BY <1>1 DEF IsFrame
  <2> QED BY <2>1
<1>7. PICK n \in 0..Len(Imports(d, g)) : Returned(d, old, Len(s) - 1, n)
  BY <1>4 DEF CallInv
<1>8. n + 1 \in 1..Len(Imports(d, g)) /\ f = Imports(d, g)[n + 1]
  <2>1. Len(old.todo) = Len(Imports(d, g)) - n BY <1>4, <1>7 DEF Returned
  <2>2. n + 1 \in 1..Len(Imports(d, g)) BY <1>5, <1>6, <2>1
  <2>3. 1 \in 1..Len(old.todo) BY <1>6
  <2>4. old.todo[1] = Imports(d, g)[n + 1] BY <1>4, <1>7, <2>3 DEF Returned
  <2> QED BY <1>4, <2>2, <2>4
<1>9. Len(s) + 1 <= Depth /\ \A m \in 0..Depth : Depth - Len(s) - 1 <= m => Level(d, m)[f] = cfg
  BY DEF FlatOf
<1>10. Returned(d, c, Len(s) - 1, n + 1)
  <2>1. Len(c.todo) = Len(Imports(d, g)) - (n + 1) BY <1>4, <1>6, <1>7 DEF Returned
  <2>2. ASSUME NEW j \in 1..Len(c.todo) PROVE c.todo[j] = Imports(d, g)[(n + 1) + j]
    <3>1. j + 1 \in 1..Len(old.todo) /\ c.todo[j] = old.todo[j + 1] BY <1>6
    <3>2. n + (j + 1) = (n + 1) + j BY <1>6
    <3> QED BY <1>4, <1>7, <3>1, <3>2 DEF Returned
  <2>3. ASSUME NEW k \in 1..(n + 1) PROVE Good(d, Imports(d, g)[k])
    <3>1. CASE k = n + 1 BY <1>8, <3>1
    <3>2. CASE k # n + 1
      <4>1. k \in 1..n BY <3>2
      <4> QED BY <1>4, <1>7, <4>1 DEF Returned
    <3> QED BY <3>1, <3>2
  <2>4. (Len(s) - 1) + 2 <= Depth BY <1>1, <1>5, <1>9
  <2>5. ASSUME NEW m \in 1..Depth, Depth - (Len(s) - 1) - 1 <= m
        PROVE  Merged(d, g, Level(d, m - 1))[n + 1] = c.cfg
    <3>1. Merged(d, g, Level(d, m - 1))[n] = old.cfg BY <1>4, <1>7, <2>5 DEF Returned
    <3>2. m - 1 \in 0..Depth /\ Depth - Len(s) - 1 <= m - 1 BY <1>1, <1>5, <2>5
    <3>3. Level(d, m - 1)[f] = cfg BY <1>9, <3>2
    <3>4. (n + 1) - 1 = n OBVIOUS
    <3>5. Merged(d, g, Level(d, m - 1))[n + 1]
            = Merge(Merged(d, g, Level(d, m - 1))[(n + 1) - 1],
                    Level(d, m - 1)[Imports(d, g)[n + 1]])
      BY <1>5, <1>8, MergedIs
    <3> QED BY <1>8, <3>1, <3>3, <3>4, <3>5
  <2> QED BY <2>1, <2>2, <2>3, <2>4, <2>5 DEF Returned
<1>11. CallInv(d, c, Len(s) - 1)
  <2>1. n + 1 \in 0..Len(Imports(d, g)) BY <1>8
  <2> QED BY <1>4, <1>10, <2>1 DEF CallInv
<1>12. \A k \in 1..Len(s) : k = 1 \/ k \in 2..Len(s) BY <1>1
<1>13. \A k \in 1..Len(s) : t[k].file = s[k].file BY <1>3, <1>4, <1>12
<1>14. \A k \in 1..Len(t) : CallInv(d, t[k], Len(t) - k)
  BY <1>3, <1>11, <1>12 DEF CallsInv
<1>15. \A k \in 2..Len(t) : t[k].todo[1] = t[k - 1].file
  <2>1. ASSUME NEW k \in 2..Len(s) PROVE t[k].todo[1] = t[k - 1].file
    <3>1. k - 1 \in 1..Len(s) BY <1>1
    <3> QED BY <1>3, <1>13, <3>1 DEF CallsInv
  <2> QED BY <1>3, <2>1
<1>16. \A j, k \in 1..Len(t) : j # k => t[j].file # t[k].file BY <1>3, <1>13 DEF CallsInv
<1>17. t[Len(t)].file = Main
  <2>1. Len(s) \in 1..Len(s) BY <1>1
  <2> QED BY <1>3, <1>13, <2>1 DEF CallsInv
<1> QED BY <1>14, <1>15, <1>16, <1>17 DEF CallsInv, t

\* Whether a configuration is valid has nothing to do with its imports.
LEMMA ImportsNotValidated ==
  ASSUME NEW cfg, IsConfig(cfg), NEW out, out = [cfg EXCEPT !.imports = <<>>]
  PROVE  Valid(out) <=> Valid(cfg)
<1>1. out.targets = cfg.targets /\ out.suites = cfg.suites /\ out.profiles = cfg.profiles
  BY DEF IsConfig
<1>2. KnownNames(out) = KnownNames(cfg) BY <1>1 DEF KnownNames
<1>3. \A n : TargetByName(out, n) = TargetByName(cfg, n) BY <1>1 DEF TargetByName
<1>4. \A ref : KnownRef(out, ref) <=> KnownRef(cfg, ref) BY <1>2, <1>3 DEF KnownRef
<1>5. \A t : ValidDaemons(out, t) <=> ValidDaemons(cfg, t) BY <1>2 DEF ValidDaemons
<1> QED BY <1>1, <1>2, <1>4, <1>5 DEF Valid

\* A file without imports.
LEMMA LeafReturns ==
  ASSUME NEW d \in [Files -> Texts], NEW s, Frames(s), CallsInv(d, s),
         s # <<>> => Head(s).todo # <<>>,
         NEW f, f = NextOf(s), \A k \in 1..Len(s) : s[k].file # f,
         Parse(d[f]).ok, Imports(d, f) = <<>>
  PROVE  /\ FlatOf(d, f, Len(s), Own(d, f))
         /\ Valid(Own(d, f)) => Good(d, f)
         /\ Valid(Own(d, f)) <=> Valid(Flattened(d)[f])
<1>1. f \in Files /\ Depth \in Nat BY NextIs, LevelIs
<1>2. Len(s) + 1 <= Depth BY <1>1, FewCalls
<1>3. \A m \in 0..Depth : Level(d, m)[f] = Own(d, f)
  <2>1. \A m \in 0..Depth : \A g \in Files : Imports(d, g) = <<>> => Level(d, m)[g] = Own(d, g)
    BY LevelIs
  <2> QED BY <1>1, <2>1
<1>4. FlatOf(d, f, Len(s), Own(d, f)) BY <1>2, <1>3 DEF FlatOf
<1>5. Flattened(d)[f] = Own(d, f) BY <1>1, <1>3, LevelIs
<1>6. To(d, f) = {}
  <2>1. To(d, f) = {Imports(d, f)[k] : k \in 1..Len(Imports(d, f))} BY <1>1, ImportsAre
  <2> QED BY <2>1
<1> QED BY <1>1, <1>4, <1>5, <1>6, GoodByImports

\* The last import of a file has returned.
LEMMA LastReturns ==
  ASSUME NEW d \in [Files -> Texts], NEW s, Frames(s), CallsInv(d, s),
         s # <<>>, Head(s).todo = <<>>,
         NEW f, f = s[1].file, NEW cfg, cfg = [s[1].cfg EXCEPT !.imports = <<>>]
  PROVE  /\ FlatOf(d, f, Len(s) - 1, cfg)
         /\ Valid(s[1].cfg) => Good(d, f)
         /\ Valid(s[1].cfg) <=> Valid(Flattened(d)[f])
         /\ f \in Reach(d, Main)
<1> DEFINE c == s[1]
<1>1. Len(s) \in Nat \ {0} /\ Head(s) = c /\ IsFrame(c) BY FramesAre
<1>2. CallInv(d, c, Len(s) - 1) BY <1>1 DEF CallsInv
<1>3. f \in Files /\ f \in Reach(d, Main) /\ Parse(d[f]).ok /\ Imports(d, f) # <<>>
  BY <1>2, ReachIs, LoadingAssumption DEF CallInv
<1>4. /\ Imports(d, f) \in Seq(Files) /\ Len(Imports(d, f)) \in Nat /\ Depth \in Nat
      /\ To(d, f) = {Imports(d, f)[k] : k \in 1..Len(Imports(d, f))}
  BY <1>3, ImportsAre, LevelIs
<1>5. PICK n \in 0..Len(Imports(d, f)) : Returned(d, c, Len(s) - 1, n) BY <1>2 DEF CallInv
<1>6. n = Len(Imports(d, f)) /\ n > 0
  <2>1. Len(c.todo) = 0 BY <1>1
  <2>2. Len(c.todo) = Len(Imports(d, f)) - n BY <1>5 DEF Returned
  <2>3. Len(Imports(d, f)) # 0 BY <1>3, <1>4
  <2> QED BY <1>4, <2>1, <2>2, <2>3
<1>7. (Len(s) - 1) + 2 <= Depth BY <1>5, <1>6 DEF Returned
<1>8. ASSUME NEW m \in 0..Depth, Depth - (Len(s) - 1) - 1 <= m PROVE Level(d, m)[f] = cfg
  <2>1. m \in 1..Depth /\ m > 0 BY <1>1, <1>4, <1>7, <1>8
  <2>2. Merged(d, f, Level(d, m - 1))[n] = c.cfg BY <1>5, <1>8, <2>1 DEF Returned
  <2>3. \A k \in 0..Depth : \A g \in Files : k > 0 /\ Imports(d, g) # <<>> =>
          Level(d, k)[g] = [Merged(d, g, Level(d, k - 1))[Len(Imports(d, g))] EXCEPT !.imports = <<>>]
    BY LevelIs
  <2>4. Level(d, m)[f] = [Merged(d, f, Level(d, m - 1))[Len(Imports(d, f))] EXCEPT !.imports = <<>>]
    BY <1>3, <2>1, <2>3
  <2> QED BY <1>6, <2>2, <2>4
<1>9. FlatOf(d, f, Len(s) - 1, cfg)
  <2>1. (Len(s) - 1) + 1 <= Depth BY <1>1, <1>4, <1>7
  <2> QED BY <1>8, <2>1 DEF FlatOf
<1>10. Flattened(d)[f] = cfg
  <2>1. Depth \in 0..Depth /\ Depth - (Len(s) - 1) - 1 <= Depth BY <1>1, <1>4
  <2> QED BY <1>8, <2>1, LevelIs
<1>11. Valid(c.cfg) <=> Valid(Flattened(d)[f]) BY <1>1, <1>10, ImportsNotValidated DEF IsFrame
<1>12. \A g \in To(d, f) : Good(d, g) BY <1>4, <1>5, <1>6 DEF Returned
<1>13. Valid(c.cfg) => Good(d, f) BY <1>3, <1>11, <1>12, GoodByImports
<1> QED BY <1>3, <1>9, <1>11, <1>13

\* The call for the Bakefile itself returns.
LEMMA LoadReturns ==
  ASSUME NEW d \in [Files -> Texts], NEW cfg, FlatOf(d, Main, 0, cfg), Good(d, Main)
  PROVE  Loadable(d) /\ Flattened(d)[Main] = cfg
<1>1. Depth \in Nat /\ Depth \in 0..Depth /\ Depth - 0 - 1 <= Depth BY LevelIs
<1> QED BY <1>1, LevelIs, LoadableIs DEF FlatOf

\* An error is one of the file that the call is for.
LEMMA LoadFails ==
  ASSUME NEW d \in [Files -> Texts], NEW f \in Reach(d, Main),
         ~Parse(d[f]).ok \/ ~Valid(Flattened(d)[f])
  PROVE  ~Loadable(d)
BY LoadableIs DEF Good

\* The files from the one that is called again to the innermost import one another.
LEMMA CycleFound ==
  ASSUME NEW d \in [Files -> Texts], NEW s, Frames(s), Waiting(s), CallsInv(d, s),
         NEW i \in 1..Len(s), s[i].file = NextOf(s), Head(s).todo # <<>>
  PROVE  Cyclic(d) /\ ~Loadable(d)
<1> DEFINE S == {s[k].file : k \in 1..i}
<1>1. Len(s) \in Nat /\ s # <<>> /\ NextOf(s) \in To(d, s[1].file) BY FramesAre, NextIs
<1>2. S \subseteq Reach(d, Main) BY <1>1 DEF CallsInv, CallInv
<1>3. s[1].file \in S /\ s[i].file \in S BY <1>1
<1>4. ASSUME NEW g \in S PROVE To(d, g) \cap S # {}
  <2>1. PICK k \in 1..i : g = s[k].file OBVIOUS
  <2>2. CASE k = 1 BY <1>1, <1>3, <2>1, <2>2
  <2>3. CASE k # 1
    <3>1. k \in 2..Len(s) /\ k \in 1..Len(s) /\ k - 1 \in 1..i BY <1>1, <2>3
    <3>2. s[k].todo[1] = s[k - 1].file BY <3>1 DEF CallsInv
    <3>3. s[k].todo[1] \in To(d, g) BY <2>1, <3>1, WaitsFor DEF Waiting
    <3>4. s[k - 1].file \in S BY <3>1
    <3> QED BY <3>2, <3>3, <3>4
  <2> QED BY <2>2, <2>3
<1> HIDE DEF S
<1>5. Round(d, S) BY <1>3, <1>4 DEF Round
<1>6. Cyclic(d) BY <1>2, <1>5, LoadableIs
<1> QED BY <1>6 DEF Loadable

(***************************************************************************)
(* The loads.                                                              *)
(***************************************************************************)

LoadsInv ==
    /\ DOMAIN pc = Loaders
    /\ \A l \in Loaders : /\ pc[l] # "load" => frames[l] = <<>>
                          /\ pc[l] = "load" /\ l \notin moved => CallsInv(disk, frames[l])

\* A step that ends l's load, if it is one, returns what LoadIsReference says.
Returns(l) ==
    pc[l] = "load" /\ pc'[l] = "done" /\ l \notin moved =>
        IF Loadable(disk) THEN result'[l] = Loaded(Flattened(disk)[Main])
        ELSE /\ result'[l].why # "ok"
             /\ result'[l].why = "cycle" => Cyclic(disk)

\* What a step of l that reads files does to l.
Called(l) == /\ pc'[l] # "load" => frames'[l] = <<>>
             /\ l \notin moved => CallsInv(disk, frames'[l])
             /\ Returns(l)

LEMMA NoCalls == \A d : CallsInv(d, <<>>)
BY DEF CallsInv

LEMMA LoadsInit == Init => LoadsInv
BY NoCalls DEF Init, LoadsInv

\* A step of others, or of l before it reads.
LEMMA LoadsElsewhere ==
  ASSUME LoadsInv, NEW l \in Loaders, UNCHANGED frames,
         pc' = pc \/ (pc[l] # "load" /\ \E at : pc' = [pc EXCEPT ![l] = at]),
         UNCHANGED <<disk, moved>> \/ moved' = moved \cup Reading
  PROVE  LoadsInv' /\ \A m \in Loaders : Returns(m)
<1>1. DOMAIN pc' = Loaders /\ \A m \in Loaders : pc[m] = "load" => pc'[m] = "load"
  BY DEF LoadsInv
<1>2. \A m \in Loaders : Returns(m) BY <1>1 DEF Returns
<1>3. ASSUME NEW m \in Loaders PROVE pc'[m] # "load" => frames'[m] = <<>>
  BY <1>1 DEF LoadsInv
<1>4. ASSUME NEW m \in Loaders, pc'[m] = "load", m \notin moved' PROVE CallsInv(disk', frames'[m])
  <2>1. CASE pc[m] = "load"
    <3>1. UNCHANGED <<disk, moved>> BY <1>4, <2>1 DEF Reading
    <3> QED BY <1>4, <2>1, <3>1 DEF LoadsInv
  <2>2. CASE pc[m] # "load"
    <3>1. frames'[m] = <<>> BY <2>2 DEF LoadsInv
    <3> QED BY <3>1, NoCalls
  <2> QED BY <2>1, <2>2
<1> QED BY <1>1, <1>2, <1>3, <1>4 DEF LoadsInv

LEMMA UnwindIs ==
  ASSUME LoadInv, LoadsInv, NEW l \in Loaders, NEW why \in {"parse", "invalid", "cycle"},
         Unwind(l, why),
         l \notin moved => ~Loadable(disk) /\ (why = "cycle" => Cyclic(disk))
  PROVE  Called(l)
<1>1. frames'[l] = <<>> /\ result'[l] = Error(why) /\ Error(why).why = why
  BY NotOk DEF Unwind, Fail, Goto, Set, LoadInv
<1>2. l \notin moved => CallsInv(disk, frames'[l]) BY <1>1, NoCalls
<1>3. Returns(l) BY <1>1 DEF Returns
<1> QED BY <1>1, <1>2, <1>3 DEF Called

LEMMA ReturnIs ==
  ASSUME LoadInv, LoadsInv, NEW l \in Loaders, NEW cfg, NEW above, Return(l, cfg, above),
         Frames(above), above # <<>> => Head(above).todo # <<>>, pc[l] = "load",
         l \notin moved => /\ CallsInv(disk, above)
                           /\ FlatOf(disk, NextOf(above), Len(above), cfg)
                           /\ Good(disk, NextOf(above))
  PROVE  Called(l)
<1>1. disk \in [Files -> Texts] BY DEF LoadInv
<1>2. CASE above = <<>>
  <2>1. frames'[l] = <<>> /\ result'[l] = Loaded(cfg) BY <1>2 DEF Return, Set, LoadInv
  <2>2. l \notin moved => CallsInv(disk, frames'[l]) BY <2>1, NoCalls
  <2>3. ASSUME l \notin moved PROVE Loadable(disk) /\ Flattened(disk)[Main] = cfg
    <3>1. FlatOf(disk, Main, 0, cfg) /\ Good(disk, Main) BY <1>2, <2>3 DEF NextOf
    <3> QED BY <1>1, <3>1, LoadReturns
  <2>4. Returns(l) BY <2>1, <2>3 DEF Returns
  <2> QED BY <2>1, <2>2, <2>4 DEF Called
<1>3. CASE above # <<>>
  <2> DEFINE c == [Head(above) EXCEPT !.cfg = Merge(@, cfg), !.todo = Tail(@)]
  <2>1. frames'[l] = <<c>> \o Tail(above) /\ pc'[l] = "load"
    BY <1>3 DEF Return, Set, LoadInv
  <2>2. /\ Head(above) = above[1] /\ IsFrame(above[1]) BY <1>3, FramesAre
  <2>3. c.file = above[1].file /\ c.cfg = Merge(above[1].cfg, cfg) /\ c.todo = Tail(above[1].todo)
    BY <2>2 DEF IsFrame
  <2> HIDE DEF c
  <2>4. ASSUME l \notin moved PROVE CallsInv(disk, frames'[l])
    BY <1>1, <1>3, <2>1, <2>3, <2>4, CallsReturn
  <2> QED BY <2>1, <2>4 DEF Called, Returns
<1> QED BY <1>2, <1>3

LEMMA CycleIs ==
  ASSUME LoadInv, LoadsInv, NEW l \in Loaders, ImportCycle(l)
  PROVE  Called(l)
<1> DEFINE s == frames[l]
<1>1. disk \in [Files -> Texts] /\ Frames(s) /\ Waiting(s) BY DEF LoadInv
<1>2. pc[l] = "load" /\ NextFile(l) \in Visiting(l) /\ (s # <<>> => Head(s).todo # <<>>)
      /\ Unwind(l, "cycle")
  BY DEF ImportCycle, Calling
<1>3. PICK i \in 1..Len(s) : s[i].file = NextFile(l) BY <1>1, <1>2, FramesAre DEF Visiting
<1>4. s # <<>> BY <1>3
<1>5. NextFile(l) = NextOf(s)
  <2>1. IsFrame(s[1]) /\ Head(s) = s[1] /\ s[1].todo # <<>> BY <1>1, <1>2, <1>4, FramesAre
  <2>2. Head(s[1].todo) = s[1].todo[1] BY <2>1 DEF IsFrame
  <2> QED BY <1>4, <2>1, <2>2 DEF NextFile, NextOf
<1>6. l \notin moved => CallsInv(disk, s) BY <1>2 DEF LoadsInv
<1> HIDE DEF s
<1>7. l \notin moved => Cyclic(disk) /\ ~Loadable(disk)
  BY <1>1, <1>2, <1>3, <1>4, <1>5, <1>6, CycleFound
<1> QED BY <1>2, <1>7, UnwindIs

LEMMA EnterIs ==
  ASSUME LoadInv, LoadsInv, NEW l \in Loaders, Enter(l)
  PROVE  Called(l)
<1> DEFINE s == frames[l]
           f == NextFile(l)
           r == Parse(disk[f])
           cfg == Own(disk, f)
           c == [file |-> f, cfg |-> cfg, todo |-> cfg.imports]
<1>1. disk \in [Files -> Texts] /\ Frames(s) BY DEF LoadInv
<1>2. /\ pc[l] = "load" /\ f \notin Visiting(l) /\ (s # <<>> => Head(s).todo # <<>>)
      /\ \/ ~r.ok /\ Unwind(l, "parse")
         \/ /\ r.ok /\ cfg.imports # <<>>
            /\ frames' = Set(frames, l, <<c>> \o s) /\ UNCHANGED pc
         \/ r.ok /\ cfg.imports = <<>> /\ Valid(cfg) /\ Return(l, cfg, s)
         \/ r.ok /\ cfg.imports = <<>> /\ ~Valid(cfg) /\ Unwind(l, "invalid")
  BY DEF Enter, Calling, Own
<1>3. f = NextOf(s)
  <2>1. CASE s = <<>> BY <2>1 DEF NextFile, NextOf
  <2>2. CASE s # <<>>
    <3>1. IsFrame(s[1]) /\ Head(s) = s[1] /\ s[1].todo # <<>> BY <1>1, <1>2, <2>2, FramesAre
    <3>2. Head(s[1].todo) = s[1].todo[1] BY <3>1 DEF IsFrame
    <3> QED BY <2>2, <3>1, <3>2 DEF NextFile, NextOf
  <2> QED BY <2>1, <2>2
<1>4. \A k \in 1..Len(s) : s[k].file # f BY <1>1, <1>2, FramesAre DEF Visiting
<1>5. r.ok => Imports(disk, f) = cfg.imports BY DEF Imports
<1>6. DOMAIN frames = Loaders BY DEF LoadInv
<1>7. l \notin moved => CallsInv(disk, s) BY <1>2 DEF LoadsInv
<1>8. l \notin moved => f \in Reach(disk, Main) /\ f \in Files BY <1>1, <1>2, <1>3, <1>7, NextIs
<1> HIDE DEF s, f, cfg
<1>9. CASE ~r.ok /\ Unwind(l, "parse")
  <2>1. l \notin moved => ~Loadable(disk) BY <1>1, <1>8, <1>9, LoadFails
  <2> QED BY <1>9, <2>1, UnwindIs
<1>10. CASE r.ok /\ cfg.imports # <<>> /\ frames' = Set(frames, l, <<c>> \o s) /\ UNCHANGED pc
  <2>1. frames'[l] = <<c>> \o s /\ pc'[l] = "load" BY <1>2, <1>6, <1>10 DEF Set
  <2>2. c.file = f /\ c.cfg = cfg /\ c.todo = cfg.imports OBVIOUS
  <2> HIDE DEF c
  <2>3. ASSUME l \notin moved PROVE CallsInv(disk, <<c>> \o s)
    BY <1>1, <1>2, <1>3, <1>4, <1>5, <1>7, <1>10, <2>2, <2>3, CallsPush DEF cfg
  <2> QED BY <2>1, <2>3 DEF Called, Returns
<1>11. ASSUME r.ok, cfg.imports = <<>>, l \notin moved
       PROVE  /\ FlatOf(disk, f, Len(s), cfg)
              /\ Valid(cfg) => Good(disk, f)
              /\ Valid(cfg) <=> Valid(Flattened(disk)[f])
  BY <1>1, <1>2, <1>3, <1>4, <1>5, <1>7, <1>11, LeafReturns DEF cfg
<1>12. CASE r.ok /\ cfg.imports = <<>> /\ Valid(cfg) /\ Return(l, cfg, s)
  <2>1. l \notin moved => FlatOf(disk, f, Len(s), cfg) /\ Good(disk, f) BY <1>11, <1>12
  <2> QED BY <1>1, <1>2, <1>3, <1>7, <1>12, <2>1, ReturnIs
<1>13. CASE r.ok /\ cfg.imports = <<>> /\ ~Valid(cfg) /\ Unwind(l, "invalid")
  <2>1. l \notin moved => ~Loadable(disk) BY <1>1, <1>8, <1>11, <1>13, LoadFails
  <2> QED BY <1>13, <2>1, UnwindIs
<1> QED BY <1>2, <1>9, <1>10, <1>12, <1>13

LEMMA LeaveIs ==
  ASSUME LoadInv, LoadsInv, NEW l \in Loaders, Leave(l)
  PROVE  Called(l)
<1> DEFINE s == frames[l]
           f == s[1].file
           cfg == s[1].cfg
           out == [cfg EXCEPT !.imports = <<>>]
<1>1. disk \in [Files -> Texts] /\ Frames(s) /\ Waiting(s) BY DEF LoadInv
<1>2. s # <<>> /\ pc[l] = "load" BY DEF Leave
<1>3. Head(s) = s[1] /\ Len(s) \in Nat \ {0} /\ Len(Tail(s)) = Len(s) - 1 BY <1>1, <1>2, FramesAre
<1>4. /\ Head(s).todo = <<>>
      /\ \/ Valid(cfg) /\ Return(l, out, Tail(s))
         \/ ~Valid(cfg) /\ Unwind(l, "invalid")
  BY <1>3 DEF Leave
<1>5. Frames(Tail(s)) /\ (Tail(s) # <<>> => Head(Tail(s)).todo # <<>>) BY <1>1, <1>2, PopFrame
<1>6. l \notin moved => CallsInv(disk, s) BY <1>2 DEF LoadsInv
<1> HIDE DEF s
<1>7. ASSUME l \notin moved
      PROVE  /\ FlatOf(disk, f, Len(s) - 1, out)
             /\ Valid(cfg) => Good(disk, f)
             /\ Valid(cfg) <=> Valid(Flattened(disk)[f])
             /\ f \in Reach(disk, Main)
             /\ CallsInv(disk, Tail(s))
             /\ f = NextOf(Tail(s))
  <2>1. /\ FlatOf(disk, f, Len(s) - 1, out)
        /\ Valid(cfg) => Good(disk, f)
        /\ Valid(cfg) <=> Valid(Flattened(disk)[f])
        /\ f \in Reach(disk, Main)
    BY <1>1, <1>2, <1>4, <1>6, <1>7, LastReturns
  <2>2. CallsInv(disk, Tail(s)) BY <1>1, <1>2, <1>6, <1>7, CallsAbove
  <2>3. f = NextOf(Tail(s))
    <3>1. CASE Tail(s) = <<>>
      <4>1. Len(s) = 1 BY <1>3, <3>1
      <4> QED BY <1>2, <1>6, <1>7, <3>1, <4>1 DEF CallsInv, NextOf
    <3>2. CASE Tail(s) # <<>>
      <4>1. Len(Tail(s)) # 0 BY <1>5, <3>2, FramesAre
      <4>2. 1 \in 1..(Len(s) - 1) /\ 2 \in 2..Len(s) BY <1>3, <4>1
      <4>3. Tail(s)[1] = s[2] BY <1>1, <4>2, FramesAre
      <4>4. s[2].todo[1] = s[1].file BY <1>6, <1>7, <4>2 DEF CallsInv
      <4> QED BY <3>2, <4>3, <4>4 DEF NextOf
    <3> QED BY <3>1, <3>2
  <2> QED BY <2>1, <2>2, <2>3
<1> HIDE DEF f, cfg, out
<1>8. CASE Valid(cfg) /\ Return(l, out, Tail(s))
  <2>1. l \notin moved => /\ CallsInv(disk, Tail(s))
                          /\ FlatOf(disk, NextOf(Tail(s)), Len(Tail(s)), out)
                          /\ Good(disk, NextOf(Tail(s)))
    BY <1>3, <1>7, <1>8
  <2> QED BY <1>2, <1>5, <1>8, <2>1, ReturnIs
<1>9. CASE ~Valid(cfg) /\ Unwind(l, "invalid")
  <2>1. l \notin moved => ~Loadable(disk) BY <1>1, <1>7, <1>9, LoadFails
  <2> QED BY <1>9, <2>1, UnwindIs
<1> QED BY <1>4, <1>8, <1>9

LEMMA CallingKeeps ==
  ASSUME LoadInv, LoadsInv, NEW l \in Loaders, ImportCycle(l) \/ Enter(l) \/ Leave(l)
  PROVE  LoadsInv' /\ \A m \in Loaders : Returns(m)
<1>1. Called(l) BY CycleIs, EnterIs, LeaveIs
<1>2. UNCHANGED <<disk, moved>> BY DEF ImportCycle, Enter, Leave, history
<1>3. DOMAIN pc' = Loaders /\ \A m \in Loaders : m # l => pc'[m] = pc[m] /\ frames'[m] = frames[m]
  BY DEF ImportCycle, Enter, Leave, Unwind, Return, Fail, Goto, Set, LoadsInv, LoadInv
<1>4. \A m \in Loaders : Returns(m)
  <2> SUFFICES ASSUME NEW m \in Loaders, m # l PROVE Returns(m)
    BY <1>1 DEF Called
  <2> QED BY <1>3 DEF Returns
<1>5. ASSUME NEW m \in Loaders
      PROVE  /\ pc'[m] # "load" => frames'[m] = <<>>
             /\ pc'[m] = "load" /\ m \notin moved' => CallsInv(disk', frames'[m])
  <2>1. CASE m = l BY <1>1, <1>2, <2>1 DEF Called
  <2>2. CASE m # l BY <1>2, <1>3, <2>2 DEF LoadsInv
  <2> QED BY <2>1, <2>2
<1> QED BY <1>3, <1>4, <1>5 DEF LoadsInv

LEMMA LoadsStep ==
  LoadInv /\ LoadsInv /\ [Next]_vars => LoadsInv' /\ \A m \in Loaders : Returns(m)
<1> SUFFICES ASSUME LoadInv, LoadsInv, [Next]_vars PROVE LoadsInv' /\ \A m \in Loaders : Returns(m)
  OBVIOUS
<1>1. CASE UNCHANGED vars
  <2>1. LoadsInv' BY <1>1 DEF vars, LoadsInv
  <2> QED BY <1>1, <2>1 DEF vars, Returns
<1>2. ASSUME NEW l \in Loaders, Load(l) PROVE LoadsInv' /\ \A m \in Loaders : Returns(m)
  <2>1. CASE ImportCycle(l) \/ Enter(l) \/ Leave(l) BY <2>1, CallingKeeps
  <2>2. CASE ~(ImportCycle(l) \/ Enter(l) \/ Leave(l))
    <3>1. \/ ParseForFormat(l) \/ ParseForLint(l) \/ Rename(l) \/ Truncate(l)
          \/ Write(l) \/ WriteRefused(l) \/ WriteFails(l)
      BY <1>2, <2>2 DEF Load
    <3>2. UNCHANGED frames /\ pc[l] # "load" /\ \E at : pc' = [pc EXCEPT ![l] = at]
      BY <3>1 DEF ParseForFormat, ParseForLint, Rename, Truncate, Write, WriteRefused,
                  WriteFails, Fail, Goto, local
    <3>3. \A text : Change(text) => UNCHANGED <<disk, moved>> \/ moved' = moved \cup Reading
      <4> SUFFICES ASSUME NEW text, Change(text), text = disk[Main] PROVE UNCHANGED <<disk, moved>>
        BY DEF Change
      <4> QED BY LoadingAssumption DEF Change, LoadInv
    <3>4. UNCHANGED <<disk, moved>> \/ moved' = moved \cup Reading
      BY <3>1, <3>3 DEF ParseForFormat, ParseForLint, Rename, Truncate, Write, WriteRefused,
                        WriteFails, history
    <3> QED BY <3>2, <3>4, LoadsElsewhere
  <2> QED BY <2>1, <2>2
<1>3. ASSUME NEW f \in Files, Save(f) PROVE LoadsInv' /\ \A m \in Loaders : Returns(m)
  <2>1. UNCHANGED <<pc, frames>> /\ moved' = moved \cup Reading BY <1>3 DEF Save, local
  <2>2. LoadsInv'
    <3>1. \A m \in Loaders : pc'[m] = "load" => m \in moved' BY <2>1 DEF Reading
    <3> QED BY <2>1, <3>1 DEF LoadsInv
  <2> QED BY <2>1, <2>2 DEF Returns
<1> QED BY <1>1, <1>2, <1>3 DEF Next

(***************************************************************************)
(* Together: the search of what was loaded.                                *)
(***************************************************************************)

LEMMA FirstByName ==
  ASSUME NEW cfg, IsConfig(cfg), NEW n \in KnownNames(cfg)
  PROVE  TargetByName(cfg, n) \in ToSet(cfg.targets) /\ TargetByName(cfg, n).name = n
<1> DEFINE Places == {k \in DOMAIN cfg.targets : cfg.targets[k].name = n}
           First(k) == k \in DOMAIN cfg.targets /\ cfg.targets[k].name = n
                       /\ \A j \in 1..(k - 1) : cfg.targets[j].name # n
<1>1. DOMAIN cfg.targets = 1..Len(cfg.targets) /\ Len(cfg.targets) \in Nat BY DEF IsConfig
<1>2. Places \in SUBSET Nat /\ Places # {}
  <2>1. \E k \in DOMAIN cfg.targets : n = cfg.targets[k].name
    BY DEF KnownNames, NamesOf, ToSet
  <2> QED BY <1>1, <2>1
<1>3. PICK k \in Places : \A j \in Places : k <= j BY <1>2, LeastOf
<1>4. First(k)
  <2> SUFFICES ASSUME NEW j \in 1..(k - 1), cfg.targets[j].name = n PROVE FALSE
    OBVIOUS
  <2>1. j \in Places /\ j < k BY <1>1, <1>2
  <2> QED BY <1>2, <1>3, <2>1
<1>5. \E m \in DOMAIN cfg.targets :
         cfg.targets[m].name = n /\ \A j \in 1..(m - 1) : cfg.targets[j].name # n
  BY <1>4
<1>6. PICK m \in DOMAIN cfg.targets : cfg.targets[m].name = n /\ TargetByName(cfg, n) = cfg.targets[m]
  BY <1>5 DEF TargetByName
<1> QED BY <1>6 DEF ToSet

\* What was validated is a graph without edges out of it.
LEMMA GraphCloses ==
  ASSUME NEW cfg, IsConfig(cfg), DepsKnown(cfg)
  PROVE  /\ IsGraph(GraphOf(cfg))
         /\ \A n \in DOMAIN GraphOf(cfg) : \A i \in 1..Len(GraphOf(cfg)[n]) :
               GraphOf(cfg)[n][i] \in DOMAIN GraphOf(cfg)
<1> DEFINE g == GraphOf(cfg)
<1>1. DOMAIN g = KnownNames(cfg) /\ \A n \in KnownNames(cfg) : g[n] = Deps(TargetByName(cfg, n))
  BY DEF GraphOf
<1>2. \A t \in ToSet(cfg.targets) : IsTargetOf(t)
  <2>1. PICK S : S = {t \in ToSet(cfg.targets) : IsTargetOf(t)} OBVIOUS
  <2>2. cfg.targets \in Seq(S) BY <2>1 DEF IsConfig
  <2>3. \A k \in DOMAIN cfg.targets : cfg.targets[k] \in S BY <2>2
  <2> QED BY <2>1, <2>3 DEF ToSet
<1>3. KnownNames(cfg) \subseteq 1..MaxName
  BY <1>2 DEF KnownNames, NamesOf, ToSet, IsTargetOf
<1>4. ASSUME NEW n \in KnownNames(cfg)
      PROVE  /\ g[n] \in Seq(Nat)
             /\ \A i \in 1..Len(g[n]) : g[n][i] \in KnownNames(cfg)
  <2>1. PICK t \in ToSet(cfg.targets) : g[n] = Deps(t) BY <1>1, FirstByName
  <2>2. g[n] \in Seq(Nat) BY <1>2, <2>1 DEF IsTargetOf
  <2>3. ToSet(g[n]) \subseteq KnownNames(cfg) BY <2>1 DEF DepsKnown
  <2>4. \A i \in 1..Len(g[n]) : g[n][i] \in ToSet(g[n]) BY <2>2 DEF ToSet
  <2> QED BY <2>2, <2>3, <2>4
<1> HIDE DEF g
<1>5. IsGraph(g) BY <1>1, <1>3, <1>4 DEF IsGraph
<1>6. \A n \in DOMAIN g : \A i \in 1..Len(g[n]) : g[n][i] \in DOMAIN g BY <1>1, <1>4
<1> QED BY <1>5, <1>6 DEF g

\* A loaded graph has no edge out of it.
GraphInv == scenario.loaders # {} =>
               \A n \in DOMAIN deps : \A i \in 1..Len(deps[n]) : deps[n][i] \in DOMAIN deps

LoadedInv == LoadInv /\ SearchInv /\ LayerInv /\ GraphInv

LEMMA NothingOrdered ==
  ASSUME order = <<>>, numbered = 0
  PROVE  LayerInv
<1>1. Search!DepsFirst BY DEF Search!DepsFirst
<1>2. Numbered BY DEF Numbered
<1> QED BY <1>1, <1>2 DEF LayerInv

LEMMA BeginKeeps ==
  ASSUME LoadedInv, NEW g, IsGraph(g), Search!Begin(g), UNCHANGED vars,
         scenario.loaders # {} => \A n \in DOMAIN g : \A i \in 1..Len(g[n]) : g[n][i] \in DOMAIN g
  PROVE  LoadedInv'
<1>1. SearchInv' BY SearchBegin DEF LoadedInv
<1>2. LayerInv'
  <2>1. deps = <<>> /\ UNCHANGED <<order, numbered>>
    BY DEF Search!Begin, Search!Idle, Search!numbering
  <2>2. visited = {} BY <2>1 DEF LoadedInv, SearchInv, SearchType
  <2>3. order = <<>> /\ numbered = 0 BY <2>2 DEF LoadedInv, SearchInv, SearchType
  <2>4. Search!DepsFirst' BY <2>1, <2>3 DEF Search!DepsFirst
  <2>5. Numbered' BY <2>1, <2>3 DEF Numbered
  <2> QED BY <2>4, <2>5 DEF LayerInv
<1>3. LoadInv' BY LoadStep DEF LoadedInv
<1>4. GraphInv' BY DEF GraphInv, Search!Begin, vars
<1> QED BY <1>1, <1>2, <1>3, <1>4 DEF LoadedInv

LEMMA LoadedStep == LoadedInv /\ [NextLoaded]_<<vars, graph>> => LoadedInv'
<1> SUFFICES ASSUME LoadedInv, [NextLoaded]_<<vars, graph>> PROVE LoadedInv'
  OBVIOUS
<1>1. ASSUME [Next]_vars, UNCHANGED graph PROVE LoadedInv'
  <2>1. LoadInv' /\ scenario' = scenario BY <1>1, LoadStep DEF LoadedInv
  <2>2. UNCHANGED <<deps, visited, stack, next, order, failed, numbered, levelOf>>
    BY <1>1 DEF graph
  <2>3. \A n : Succ(n)' = Succ(n) BY <2>2 DEF Succ, Search!DepsOf
  <2>4. OnStack' = OnStack /\ Search!Ordered' = Search!Ordered BY <2>2 DEF OnStack, Search!Ordered
  <2>5. \A n : Search!Reachable(n)' <=> Search!Reachable(n)
    BY <2>2 DEF Search!Reachable, Search!DepsOf
  <2>6. SearchInv'
    <3>1. SearchType' BY <2>2 DEF LoadedInv, SearchInv, SearchType, IsGraph
    <3>2. Paths' BY <2>2, <2>3, <2>4 DEF LoadedInv, SearchInv, Paths
    <3>3. Covered' BY <2>2, <2>3, <2>4 DEF LoadedInv, SearchInv, Covered
    <3>4. Needed' BY <2>2, <2>3, <2>5 DEF LoadedInv, SearchInv, Needed
    <3> QED BY <3>1, <3>2, <3>3, <3>4 DEF SearchInv
  <2>7. LayerInv' BY <2>2, SameOrder DEF LoadedInv
  <2>8. GraphInv' BY <2>1, <2>2 DEF LoadedInv, GraphInv
  <2> QED BY <2>1, <2>6, <2>7, <2>8 DEF LoadedInv
<1>2. CASE UNCHANGED <<vars, graph>> BY <1>1, <1>2
<1>3. ASSUME NEW l \in Loaders, Request(l) PROVE LoadedInv'
  <2> DEFINE cfg == result[l].cfg
  <2>1. IsConfig(cfg) /\ DepsKnown(cfg) BY <1>3 DEF Request, LoadedInv, LoadInv
  <2>2. Search!Begin(GraphOf(cfg)) /\ UNCHANGED vars BY <1>3 DEF Request
  <2> HIDE DEF cfg
  <2>3. /\ IsGraph(GraphOf(cfg))
        /\ \A n \in DOMAIN GraphOf(cfg) : \A i \in 1..Len(GraphOf(cfg)[n]) :
               GraphOf(cfg)[n][i] \in DOMAIN GraphOf(cfg)
    BY <2>1, GraphCloses
  <2> QED BY <2>2, <2>3, BeginKeeps
<1>4. CASE RequestGiven
  <2>1. PICK g \in Given : Search!Begin(g) /\ UNCHANGED vars /\ scenario.loaders = {}
    BY <1>4 DEF RequestGiven
  <2>2. IsGraph(g) BY LoadedGraphAssumption
  <2> QED BY <2>1, <2>2, BeginKeeps
<1>5. CASE Search!Step /\ UNCHANGED vars
  <2>1. SearchInv' BY <1>5, SearchStep DEF LoadedInv
  <2>2. LayerInv' BY <1>5, LayerStep DEF LoadedInv
  <2>3. LoadInv' /\ scenario' = scenario BY <1>5, LoadStep DEF LoadedInv
  <2>4. UNCHANGED deps
    BY <1>5 DEF Search!Step, Search!SkipDep, Search!EnterDep, Search!UnknownDep, Search!Leave,
                Search!Number
  <2>5. GraphInv' BY <2>3, <2>4 DEF LoadedInv, GraphInv
  <2> QED BY <2>1, <2>2, <2>3, <2>5 DEF LoadedInv
<1> QED BY <1>1, <1>2, <1>3, <1>4, <1>5 DEF NextLoaded

\* What loading and the search keep.
THEOREM LoadedInvariant == SpecLoaded => []LoadedInv
<1>1. InitLoaded => LoadedInv
  <2> SUFFICES ASSUME InitLoaded PROVE LoadedInv
    OBVIOUS
  <2>1. LoadInv /\ SearchInv BY LoadInit, SearchInit DEF InitLoaded
  <2>2. order = <<>> /\ numbered = 0 /\ DOMAIN deps = {}
    BY DEF InitLoaded, Search!Init, Search!Idle
  <2>3. LayerInv BY <2>2, NothingOrdered
  <2>4. GraphInv BY <2>2 DEF GraphInv
  <2> QED BY <2>1, <2>3, <2>4 DEF LoadedInv
<1> QED BY <1>1, LoadedStep, PTL DEF SpecLoaded

\* TopoOrder returns every target the root needs, each once and no other, and an
\* error exactly when one of them names a target there is not: for every Bakefile,
\* and for every graph another caller hands over, cyclic ones and unknown names
\* included.
THEOREM OrderFound == SpecLoaded => []OrderIsClosure
<1>1. LoadedInv => OrderIsClosure BY ClosureFound DEF LoadedInv, OrderIsClosure
<1> QED BY <1>1, LoadedInvariant, PTL

\* Where the graph is acyclic the order has dependencies first, and the levels rise
\* along it without a gap up to the root, which is alone on the last one.
THEOREM LevelsFound == SpecLoaded => []Layered
<1>1. LoadedInv => Layered BY LayersFound DEF LoadedInv, Layered
<1> QED BY <1>1, LoadedInvariant, PTL

\* A run of what a load accepted never meets a dependency nobody declared, however
\* the file was rewritten and saved during the load and however deep its imports are.
THEOREM LoadedResolves == SpecLoaded => []DepsResolve
<1>1. LoadedInv => DepsResolve
  <2> SUFFICES ASSUME LoadedInv, scenario.loaders # {}, failed PROVE FALSE
    BY DEF DepsResolve
  <2>1. PICK n \in visited : ~(Succ(n) \subseteq DOMAIN deps)
    BY DEF LoadedInv, SearchInv, Needed
  <2>2. n \in DOMAIN deps BY DEF LoadedInv, SearchInv, SearchType
  <2> QED BY <2>1, <2>2 DEF LoadedInv, GraphInv, Succ, Search!DepsOf
<1> QED BY <1>1, LoadedInvariant, PTL

\* What the user saved last keeps its meaning, and is not changed again once it is
\* rewritten, whatever loads, saves and failures follow: as long as a load neither
\* overwrites a save it has not read nor reads a truncated file, and none fails in
\* the middle of its write. That a single rewriting keeps the meaning of a text is
\* RewritingAssumption.
THEOREM WrittenIsKept == SpecLoaded => []AsWritten
<1>1. InitLoaded => WrittenInv BY WrittenInit DEF InitLoaded
<1>2. LoadedInv /\ WrittenInv /\ [NextLoaded]_<<vars, graph>> => WrittenInv'
  <2> SUFFICES ASSUME LoadedInv, WrittenInv, [NextLoaded]_<<vars, graph>> PROVE WrittenInv'
    OBVIOUS
  <2>1. [Next]_vars BY DEF NextLoaded, Request, RequestGiven
  <2> QED BY <2>1, WrittenStep DEF LoadedInv
<1>3. WrittenInv => AsWritten BY DEF WrittenInv, AsWritten, Faithful
<1> QED BY <1>1, <1>2, <1>3, LoadedInvariant, PTL DEF SpecLoaded

\* loadWithImports, which goes through the files one call at a time, returns what
\* the import graph says: the content of the files in the order of the imports, or
\* an error exactly when a file does not parse, is not valid with its imports, or
\* imports go round in a circle. For every set of files and whatever they say, as
\* long as they do not change while they are read.
THEOREM LoadedAsReferred == SpecLoaded => LoadIsReference
<1>1. InitLoaded => LoadsInv BY LoadsInit DEF InitLoaded
<1>2. LoadedInv /\ LoadsInv /\ [NextLoaded]_<<vars, graph>> => LoadsInv' /\ \A l \in Loaders : Returns(l)
  <2> SUFFICES ASSUME LoadedInv, LoadsInv, [NextLoaded]_<<vars, graph>>
               PROVE  LoadsInv' /\ \A l \in Loaders : Returns(l)
    OBVIOUS
  <2>1. [Next]_vars BY DEF NextLoaded, Request, RequestGiven
  <2> QED BY <2>1, LoadsStep DEF LoadedInv
<1>3. LoadedInv /\ LoadsInv /\ [NextLoaded]_<<vars, graph>> =>
        [\A l \in Loaders :
          /\ pc[l] = "load" /\ pc'[l] = "done" /\ l \notin moved
          => IF Loadable(disk) THEN result'[l] = Loaded(Flattened(disk)[Main])
             ELSE /\ result'[l].why # "ok"
                  /\ result'[l].why = "cycle" => Cyclic(disk)]_vars
  BY <1>2 DEF Returns
<1> QED BY <1>1, <1>2, <1>3, LoadedInvariant, PTL DEF SpecLoaded, LoadIsReference

\* Of the set of names in the order, what SequentialRun and Invocation assume of
\* Order (its elements, all of them, each once, dependencies first, the root last)
\* and ParallelRun of Level.
Served ==
    /\ order \in Seq(Search!Ordered) /\ order # <<>> /\ order[Len(order)] = Root
    /\ \A j, k \in 1..Len(order) : j # k => order[j] # order[k]
    /\ \A k \in 1..Len(order) : \A d \in Succ(order[k]) : \E j \in 1..(k - 1) : order[j] = d
    /\ \A n \in Search!Ordered : Succ(n) \subseteq Search!Ordered
    /\ \A n \in Search!Ordered : levelOf[n] \in Nat
    /\ \A n \in Search!Ordered : \A d \in Succ(n) : levelOf[d] < levelOf[n]

\* On an acyclic graph TopoOrder and LevelOrder give both modes of runner.Run what
\* they rest on: the assumptions under which those are checked and proved.
THEOREM RunsAreServed ==
  SpecLoaded => [](Search!LevelDone /\ Search!Acyclic => Served)
<1>1. LoadedInv => (Search!LevelDone /\ Search!Acyclic => Served)
  <2> SUFFICES ASSUME LoadedInv, Search!LevelDone, Search!Acyclic PROVE Served
    OBVIOUS
  <2>1. SearchInv /\ Search!DepsFirst BY DEF LoadedInv, LayerInv
  <2>2. Search!Layered BY LayersFound DEF LoadedInv
  <2>3. deps # <<>> /\ stack = <<>> /\ ~failed /\ order \in Seq(visited) /\ Len(order) \in Nat
    BY <2>1 DEF Search!LevelDone, Search!TopoDone, Search!Idle, SearchInv, SearchType
  <2>4. visited = Search!Ordered /\ Search!Ordered \subseteq 1..MaxName /\ Root \in visited
    <3>1. OnStack = {} BY <2>3 DEF OnStack
    <3> QED BY <2>1, <2>3, <3>1 DEF SearchInv, SearchType, IsGraph, Paths, Needed
  <2>5. \A n \in Search!Ordered : Succ(n) \subseteq Search!Ordered
    BY <2>1, <2>4 DEF SearchInv, Covered
  <2>6. \A k \in 1..Len(order) : \A d \in Succ(order[k]) : \E j \in 1..(k - 1) : order[j] = d
    BY <2>1 DEF Search!DepsFirst, Succ
  <2>7. \A n \in Search!Ordered : levelOf[n] \in Nat BY <2>1, <2>4 DEF SearchInv, SearchType
  <2>8. \A n \in Search!Ordered : \A d \in Succ(n) : levelOf[d] < levelOf[n]
    BY <2>2 DEF Search!Layered, Succ
  <2>9. \A j, k \in 1..Len(order) : j # k => order[j] # order[k] BY <2>1 DEF SearchInv, Paths
  <2>10. order[Len(order)] = Root
    <3>1. PICK k \in 1..Len(order) : order[k] = Root BY <2>4 DEF Search!Ordered
    <3>2. Len(order) \in 1..Len(order) BY <2>3, <3>1
    <3> SUFFICES ASSUME order[Len(order)] # Root PROVE FALSE
      OBVIOUS
    <3>3. order[Len(order)] \in visited \ {Root} BY <2>3, <3>2
    <3>4. PICK m \in visited : order[Len(order)] \in Succ(m) BY <2>1, <3>3 DEF SearchInv, Needed
    <3>5. PICK q \in 1..Len(order) : order[q] = m BY <2>4 DEF Search!Ordered
    <3>6. PICK j \in 1..(q - 1) : order[j] = order[Len(order)] BY <2>6, <3>4, <3>5
    <3>7. j \in 1..Len(order) /\ j # Len(order) BY <2>3, <3>5, <3>6
    <3> QED BY <2>9, <3>2, <3>6, <3>7
  <2>11. order # <<>>
    <3>1. PICK k \in 1..Len(order) : order[k] = Root BY <2>4 DEF Search!Ordered
    <3> QED BY <3>1
  <2> QED BY <2>3, <2>4, <2>5, <2>6, <2>7, <2>8, <2>9, <2>10, <2>11 DEF Served
<1> QED BY <1>1, LoadedInvariant, PTL
=============================================================================
