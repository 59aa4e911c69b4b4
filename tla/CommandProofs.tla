---------------------------- MODULE CommandProofs ----------------------------
(***************************************************************************)
(* Proofs about what the bake command does in its own process: Invocation, *)
(* for every graph, configuration and set of command lines, and InputWatch,*)
(* for every set of inputs and number of edits.                            *)
(***************************************************************************)
EXTENDS Invocation, InputWatch, FiniteSetTheorems, NaturalsInduction, WellFoundedInduction, TLAPS

(***************************************************************************)
(* InputWatch                                                              *)
(***************************************************************************)

\* No time is later than the clock, and nothing has been seen before the first tick.
Times == /\ started <= clock
         /\ \A p \in Paths : /\ mtime[p] # None => mtime[p] <= clock
                             /\ seen[p] # None => seen[p] <= clock
                             /\ seen[p] = None <=> first[p] = None
                             /\ phase \in {"route", "first"} => seen[p] = None

WatchInv == TypeOK /\ Times /\ NoticedIsRun

LEMMA WatchInit == InitWatch => WatchInv
<1> SUFFICES ASSUME InitWatch PROVE WatchInv
  OBVIOUS
<1>1. 0 \in 0..MaxEdits BY WatchAssumption
<1>2. TypeOK BY <1>1 DEF InitWatch, TypeOK
<1>3. Times BY DEF InitWatch, Times
<1>4. NoticedIsRun BY DEF InitWatch, NoticedIsRun
<1> QED BY <1>2, <1>3, <1>4 DEF WatchInv

\* Stopping timers and arming the next one keeps their types.
LEMMA TriggerArms ==
  ASSUME TypeOK, Trigger
  PROVE  /\ timer' \in [Timers -> {"unused", "pending", "running", "returned", "over"}]
         /\ debounceTimer' \in Timers
         /\ \E n \in Timers : timer'[n] = "pending"
<1> PICK n \in Timers : timer' = [Stopped EXCEPT ![n] = "pending"] /\ debounceTimer' = n
  BY DEF Trigger
<1>1. Stopped \in [Timers -> {"unused", "pending", "running", "returned", "over"}]
  BY DEF Stopped, TypeOK
<1> QED BY <1>1

LEMMA WatchNext == WatchInv /\ [NextWatch]_watch => WatchInv'
<1> SUFFICES ASSUME WatchInv, [NextWatch]_watch PROVE WatchInv'
  OBVIOUS
<1> USE WatchAssumption DEF WatchInv, TypeOK, Times, NoticedIsRun, Pending, files
<1>1. ASSUME NEW p \in Paths, Edit(p) PROVE WatchInv'
  <2>1. clock' \in 0..MaxEdits /\ clock' = clock + 1 BY <1>1 DEF Edit
  <2> QED BY <1>1, <2>1 DEF Edit
<1>2. ASSUME NEW p \in Paths, Unlink(p) PROVE WatchInv' BY <1>2 DEF Unlink
<1>3. CASE DaemonRuns BY <1>3 DEF DaemonRuns
<1>4. CASE FirstRun BY <1>4 DEF FirstRun
<1>5. CASE FirstRunEnds BY <1>5 DEF FirstRunEnds
<1>6. CASE FirstRunFails BY <1>6 DEF FirstRunFails
<1>7. CASE Tick
  <2>1. /\ phase = "poll" /\ UNCHANGED <<clock, mtime, phase, started, failed>>
        /\ \A p \in Paths : seen'[p] = IF p \in There THEN mtime[p] ELSE seen[p]
        /\ \A p \in Paths : first'[p] = IF p \in There /\ seen[p] = None THEN mtime[p] ELSE first[p]
    BY <1>7 DEF Tick
  <2>2. /\ seen' \in [Paths -> 0..MaxEdits \union {None}]
        /\ first' \in [Paths -> 0..MaxEdits \union {None}]
    BY <1>7, <2>1 DEF Tick
  <2>3. Times' BY <2>1, <2>2 DEF There
  <2>4. CASE Changed = {}
    <3>1. UNCHANGED <<timer, debounceTimer>> BY <1>7, <2>4 DEF Tick
    <3>2. ASSUME NEW p \in Paths, seen'[p] # first'[p] PROVE seen'[p] = seen[p] /\ first'[p] = first[p]
      BY <2>1, <2>4, <3>2 DEF Changed, There
    <3>3. NoticedIsRun' BY <2>1, <3>1, <3>2
    <3> QED BY <2>1, <2>2, <2>3, <3>1, <3>3
  <2>5. CASE Changed # {}
    <3>1. Trigger BY <1>7, <2>5 DEF Tick
    <3>2. Pending' # {} BY <3>1, TriggerArms
    <3> QED BY <2>1, <2>2, <2>3, <3>1, <3>2, TriggerArms
  <2> QED BY <2>4, <2>5
<1>8. ASSUME NEW n \in Timers, Callback(n) PROVE WatchInv'
  <2>1. CASE Fire(n) BY <2>1 DEF Fire
  <2>2. CASE RunEnds(n) BY <2>2 DEF RunEnds
  <2>3. CASE RunFails(n) BY <2>3 DEF RunFails
  <2>4. CASE Disarm(n) BY <2>4 DEF Disarm
  <2> QED BY <1>8, <2>1, <2>2, <2>3, <2>4 DEF Callback
<1>9. CASE UNCHANGED watch BY <1>9 DEF watch
<1> QED BY <1>1, <1>2, <1>3, <1>4, <1>5, <1>6, <1>7, <1>8, <1>9 DEF NextWatch, User, Main

\* The type invariant holds, whatever the user edits and whenever timers fire.
THEOREM TypeCorrect == SpecWatch => []TypeOK
<1>1. WatchInv => TypeOK BY DEF WatchInv
<1> QED BY <1>1, WatchInit, WatchNext, PTL DEF SpecWatch

\* A change that a tick has noticed has been run or has a timer that will run it.
THEOREM ChangesAreKept == SpecWatch => []NoticedIsRun
<1>1. WatchInv => NoticedIsRun BY DEF WatchInv
<1> QED BY <1>1, WatchInit, WatchNext, PTL DEF SpecWatch

(***************************************************************************)
(* Numbers and sums.                                                       *)
(***************************************************************************)

LEMMA LeastOf ==
  ASSUME NEW T \in SUBSET Nat, T # {}
  PROVE  \E n \in T : \A m \in T : n <= m
<1> DEFINE R == OpToRel(<, Nat)
<1>1. IsWellFoundedOn(R, Nat) BY NatLessThanWellFounded
<1>2. PICK n \in T : \A m \in T : ~(<<m, n>> \in R)
  <2> HIDE DEF R
  <2> QED BY <1>1, WFMin
<1>3. \A m \in T : ~(m < n) BY <1>2 DEF OpToRel
<1> QED BY <1>3

\* f[k] is the sum of the first k elements of sz, for k up to n.
IsSums(sz, n, f) == f = [k \in 0..n |-> IF k = 0 THEN 0 ELSE f[k - 1] + sz[k]]

Sums(sz) == CHOOSE f : IsSums(sz, Len(sz), f)

LEMMA SumsStep ==
  ASSUME NEW sz, NEW n \in Nat, NEW g, IsSums(sz, n, g)
  PROVE  \E f : IsSums(sz, n + 1, f)
<1> DEFINE f == [k \in 0..(n + 1) |-> IF k = 0 THEN 0 ELSE g[k - 1] + sz[k]]
<1>1. \A k \in 0..n : g[k] = IF k = 0 THEN 0 ELSE g[k - 1] + sz[k] BY DEF IsSums
<1>2. \A k \in 0..n : f[k] = g[k] BY <1>1
<1>3. \A k \in 0..(n + 1) : k = 0 \/ k - 1 \in 0..n OBVIOUS
<1>4. f = [k \in 0..(n + 1) |-> IF k = 0 THEN 0 ELSE f[k - 1] + sz[k]] BY <1>2, <1>3
<1> QED BY <1>4 DEF IsSums

LEMMA SumsExist ==
  ASSUME NEW sz, NEW n \in Nat
  PROVE  \E f : IsSums(sz, n, f)
<1> DEFINE T == {m \in Nat : ~ \E f : IsSums(sz, m, f)}
<1>1. SUFFICES ASSUME T # {} PROVE FALSE OBVIOUS
<1>2. PICK m \in T : \A k \in T : m <= k
  <2> T \in SUBSET Nat OBVIOUS
  <2> HIDE DEF T
  <2> QED BY <1>1, LeastOf
<1>3. m # 0
  <2>1. IsSums(sz, 0, [k \in 0..0 |-> 0]) BY DEF IsSums
  <2> QED BY <2>1
<1>4. m - 1 \in Nat /\ m - 1 \notin T BY <1>2, <1>3
<1>5. PICK g : IsSums(sz, m - 1, g) BY <1>4
<1>6. \E f : IsSums(sz, (m - 1) + 1, f) BY <1>4, <1>5, SumsStep
<1>7. (m - 1) + 1 = m BY <1>4
<1> QED BY <1>6, <1>7

LEMMA SumsAre ==
  ASSUME NEW sz \in Seq(Nat)
  PROVE  /\ Sums(sz)[0] = 0
         /\ \A k \in 1..Len(sz) : Sums(sz)[k] = Sums(sz)[k - 1] + sz[k]
         /\ \A k \in 0..Len(sz) : Sums(sz)[k] \in Nat
<1> DEFINE f == Sums(sz)
           T == {m \in Nat : m <= Len(sz) /\ f[m] \notin Nat}
<1>1. Len(sz) \in Nat OBVIOUS
<1>2. IsSums(sz, Len(sz), f) BY <1>1, SumsExist DEF Sums
<1>3. \A k \in 0..Len(sz) : f[k] = IF k = 0 THEN 0 ELSE f[k - 1] + sz[k]
  <2> HIDE DEF f
  <2> QED BY <1>2 DEF IsSums
<1>4. ASSUME T # {} PROVE FALSE
  <2>1. PICK m \in T : \A k \in T : m <= k
    <3> T \in SUBSET Nat OBVIOUS
    <3> HIDE DEF T
    <3> QED BY <1>4, LeastOf
  <2> HIDE DEF f
  <2>2. m # 0 BY <1>1, <1>3, <2>1
  <2>3. m - 1 \in Nat /\ m \in 1..Len(sz) /\ f[m - 1] \in Nat BY <1>1, <2>1, <2>2
  <2>4. sz[m] \in Nat BY <2>3
  <2>5. f[m] = f[m - 1] + sz[m] BY <1>3, <2>3
  <2> QED BY <2>1, <2>3, <2>4, <2>5
<1> HIDE DEF f
<1>5. \A k \in 0..Len(sz) : f[k] \in Nat BY <1>1, <1>4
<1> QED BY <1>1, <1>3, <1>5 DEF f

\* f[k] is the concatenation of the first k sequences in s, for k up to n.
IsFlat(s, n, f) == f = [k \in 1..n |-> IF k = 1 THEN s[k] ELSE f[k - 1] \o s[k]]

Flat(s) == CHOOSE f : IsFlat(s, Len(s), f)

LEMMA FlatStep ==
  ASSUME NEW s, NEW n \in Nat, NEW g, IsFlat(s, n, g)
  PROVE  \E f : IsFlat(s, n + 1, f)
<1> DEFINE f == [k \in 1..(n + 1) |-> IF k = 1 THEN s[k] ELSE g[k - 1] \o s[k]]
<1>1. \A k \in 1..n : g[k] = IF k = 1 THEN s[k] ELSE g[k - 1] \o s[k] BY DEF IsFlat
<1>2. \A k \in 1..n : f[k] = g[k] BY <1>1
<1>3. \A k \in 1..(n + 1) : k = 1 \/ k - 1 \in 1..n OBVIOUS
<1>4. f = [k \in 1..(n + 1) |-> IF k = 1 THEN s[k] ELSE f[k - 1] \o s[k]] BY <1>2, <1>3
<1> QED BY <1>4 DEF IsFlat

LEMMA FlatExist ==
  ASSUME NEW s, NEW n \in Nat
  PROVE  \E f : IsFlat(s, n, f)
<1> DEFINE T == {m \in Nat : ~ \E f : IsFlat(s, m, f)}
<1>1. SUFFICES ASSUME T # {} PROVE FALSE OBVIOUS
<1>2. PICK m \in T : \A k \in T : m <= k
  <2> T \in SUBSET Nat OBVIOUS
  <2> HIDE DEF T
  <2> QED BY <1>1, LeastOf
<1>3. m # 0
  <2>1. IsFlat(s, 0, [k \in 1..0 |-> 0]) BY DEF IsFlat
  <2> QED BY <2>1
<1>4. m - 1 \in Nat /\ m - 1 \notin T BY <1>2, <1>3
<1>5. PICK g : IsFlat(s, m - 1, g) BY <1>4
<1>6. \E f : IsFlat(s, (m - 1) + 1, f) BY <1>4, <1>5, FlatStep
<1>7. (m - 1) + 1 = m BY <1>4
<1> QED BY <1>6, <1>7

LEMMA TwoJoined ==
  ASSUME NEW S, NEW a \in Seq(S), NEW b \in Seq(S)
  PROVE  a \o b \in Seq(S) /\ Len(a \o b) = Len(a) + Len(b)
OBVIOUS

LEMMA FlattenIs ==
  ASSUME NEW s, Len(s) \in Nat \ {0}
  PROVE  FlattenSeq(s) = Flat(s)[Len(s)] /\ IsFlat(s, Len(s), Flat(s))
<1>1. FlattenSeq(s) = Flat(s)[Len(s)] BY DEF FlattenSeq, Flat, IsFlat
<1>2. IsFlat(s, Len(s), Flat(s)) BY FlatExist DEF Flat
<1> QED BY <1>1, <1>2

LEMMA JoinedAt ==
  ASSUME NEW S, NEW a \in Seq(S), NEW b \in Seq(S)
  PROVE  /\ \A p \in 1..Len(a) : (a \o b)[p] = a[p]
         /\ \A p \in 1..Len(b) : (a \o b)[Len(a) + p] = b[p]
OBVIOUS

\* The sequence w consists of the parts s of the lengths sz.
Consists(w, s, sz) ==
    /\ Len(w) = Sums(sz)[Len(sz)]
    /\ \A k \in 1..Len(sz) : \A j \in 1..sz[k] :
          Sums(sz)[k - 1] + j \in 1..Len(w) /\ w[Sums(sz)[k - 1] + j] = s[k][j]

\* A concatenation consists of its parts, each behind those before it.
LEMMA FlattenAll ==
  ASSUME NEW s, NEW S, NEW sz \in Seq(Nat), Len(s) = Len(sz), Len(sz) # 0,
         \A k \in 1..Len(sz) : s[k] \in Seq(S) /\ Len(s[k]) = sz[k]
  PROVE  FlattenSeq(s) \in Seq(S) /\ Consists(FlattenSeq(s), s, sz)
<1> DEFINE f == Flat(s)
           u == Sums(sz)
           Parts(m) == \A k \in 1..m : \A j \in 1..sz[k] :
                          u[k - 1] + j \in 1..u[m] /\ f[m][u[k - 1] + j] = s[k][j]
           T == {m \in Nat : m \in 1..Len(sz) /\ ~(f[m] \in Seq(S) /\ Len(f[m]) = u[m] /\ Parts(m))}
<1>1. FlattenSeq(s) = f[Len(s)] /\ IsFlat(s, Len(s), f) BY FlattenIs
<1>2. /\ u[0] = 0
      /\ \A k \in 1..Len(sz) : u[k] = u[k - 1] + sz[k]
      /\ \A k \in 0..Len(sz) : u[k] \in Nat
  BY SumsAre
<1>3. \A k \in 1..Len(sz) : f[k] = IF k = 1 THEN s[k] ELSE f[k - 1] \o s[k]
  <2> HIDE DEF f
  <2> QED BY <1>1 DEF IsFlat
<1> HIDE DEF f, u
<1>4. ASSUME T # {} PROVE FALSE
  <2>1. PICK m \in T : \A k \in T : m <= k
    <3> T \in SUBSET Nat OBVIOUS
    <3> HIDE DEF T
    <3> QED BY <1>4, LeastOf
  <2>2. m \in 1..Len(sz) /\ m \in Nat BY <2>1
  <2>3. s[m] \in Seq(S) /\ Len(s[m]) = sz[m] /\ sz[m] \in Nat BY <2>2
  <2>4. u[m] = u[m - 1] + sz[m] /\ u[m - 1] \in Nat /\ u[m] \in Nat BY <1>2, <2>2
  <2>5. CASE m = 1
    <3>1. f[m] = s[m] /\ u[m] = sz[m] /\ u[m - 1] = 0 BY <1>2, <1>3, <2>2, <2>3, <2>4, <2>5
    <3>2. Parts(m) BY <2>3, <2>5, <3>1
    <3> QED BY <2>1, <2>3, <3>1, <3>2
  <2>6. CASE m # 1
    <3>1. m - 1 \in 1..Len(sz) /\ m - 1 \notin T BY <2>1, <2>2, <2>6
    <3>2. f[m - 1] \in Seq(S) /\ Len(f[m - 1]) = u[m - 1] /\ Parts(m - 1) BY <3>1
    <3>3. f[m] = f[m - 1] \o s[m] BY <1>3, <2>2, <2>6
    <3>4. f[m] \in Seq(S) /\ Len(f[m]) = u[m]
      <4> HIDE DEF Parts, T
      <4>1. f[m - 1] \o s[m] \in Seq(S) /\ Len(f[m - 1] \o s[m]) = Len(f[m - 1]) + Len(s[m])
        BY <2>3, <3>2, TwoJoined
      <4> QED BY <2>3, <2>4, <3>2, <3>3, <4>1
    <3>5. ASSUME NEW k \in 1..m, NEW j \in 1..sz[k]
          PROVE  u[k - 1] + j \in 1..u[m] /\ f[m][u[k - 1] + j] = s[k][j]
      <4>1. u[k - 1] \in Nat /\ sz[k] \in Nat /\ k \in 1..Len(sz)
        <5>1. k \in 1..Len(sz) /\ k - 1 \in 0..Len(sz) BY <2>2
        <5>2. sz[k] \in Nat BY <5>1
        <5> QED BY <1>2, <5>1, <5>2
      <4>2. CASE k = m
        <5> HIDE DEF Parts, T
        <5>1. j \in 1..sz[m] BY <4>2
        <5>2. u[m - 1] + j \in 1..u[m]
          <6> DEFINE a == u[m - 1]
                     b == sz[m]
          <6>1. a \in Nat /\ b \in Nat /\ u[m] = a + b /\ j \in 1..b BY <2>3, <2>4, <5>1
          <6> HIDE DEF a, b
          <6>2. a + j \in 1..(a + b) BY <6>1
          <6> QED BY <6>1, <6>2 DEF a
        <5>3. (f[m - 1] \o s[m])[Len(f[m - 1]) + j] = s[m][j]
          <6> DEFINE a == f[m - 1]
                     b == s[m]
          <6>1. a \in Seq(S) /\ b \in Seq(S) /\ j \in 1..Len(b) BY <2>3, <3>2, <5>1
          <6> HIDE DEF a, b
          <6>2. (a \o b)[Len(a) + j] = b[j] BY <6>1, JoinedAt
          <6> QED BY <6>2 DEF a, b
        <5> QED BY <3>2, <3>3, <4>2, <5>2, <5>3
      <4>3. CASE k # m
        <5>1. k \in 1..(m - 1) BY <2>2, <4>3
        <5>2. u[k - 1] + j \in 1..u[m - 1] /\ f[m - 1][u[k - 1] + j] = s[k][j] BY <3>2, <5>1
        <5>3. u[k - 1] + j \in 1..u[m] BY <2>3, <2>4, <5>2
        <5> HIDE DEF Parts, T
        <5>4. \A p \in 1..Len(f[m - 1]) : (f[m - 1] \o s[m])[p] = f[m - 1][p] BY <2>3, <3>2, JoinedAt
        <5> QED BY <3>2, <3>3, <5>2, <5>3, <5>4
      <4> QED BY <4>2, <4>3
    <3> QED BY <2>1, <3>4, <3>5
  <2> QED BY <2>5, <2>6
<1>5. Len(sz) \in 1..Len(sz) /\ Len(sz) \in Nat OBVIOUS
<1>6. f[Len(sz)] \in Seq(S) /\ Len(f[Len(sz)]) = u[Len(sz)] /\ Parts(Len(sz)) BY <1>4, <1>5
<1> QED BY <1>1, <1>6 DEF u, Consists

LEMMA OnlyOne ==
  ASSUME NEW n, n = 1, NEW k \in 1..n
  PROVE  k = 1
OBVIOUS

(***************************************************************************)
(* Lists: sequences over whatever is in them.                              *)
(***************************************************************************)

IsList(s) == s \in Seq({s[k] : k \in DOMAIN s})

\* A sequence is one over its own elements.
LEMMA OverItsElements ==
  ASSUME NEW S, NEW s \in Seq(S)
  PROVE  IsList(s)
<1> DEFINE T == {s[k] : k \in DOMAIN s}
<1>1. DOMAIN s = 1..Len(s) /\ Len(s) \in Nat OBVIOUS
<1>2. s \in [1..Len(s) -> T]
  <2>1. s = [k \in 1..Len(s) |-> s[k]] OBVIOUS
  <2>2. \A k \in 1..Len(s) : s[k] \in T BY <1>1
  <2> HIDE DEF T
  <2> QED BY <2>1, <2>2
<1> HIDE DEF T
<1>3. s \in Seq(T) BY <1>1, <1>2
<1> QED BY <1>3 DEF T, IsList

LEMMA ListIs ==
  ASSUME NEW s, IsList(s)
  PROVE  DOMAIN s = 1..Len(s) /\ Len(s) \in Nat
BY DEF IsList

\* A function on 1..n is a list.
LEMMA ListOf ==
  ASSUME NEW n \in Nat, NEW s, s = [k \in 1..n |-> s[k]]
  PROVE  IsList(s) /\ Len(s) = n /\ DOMAIN s = 1..n
<1> DEFINE T == {s[k] : k \in 1..n}
<1>1. \A k \in 1..n : s[k] \in T OBVIOUS
<1> HIDE DEF T
<1>2. s \in [1..n -> T] BY <1>1
<1>3. s \in Seq(T) /\ Len(s) = n /\ DOMAIN s = 1..n BY <1>2
<1> QED BY <1>3, OverItsElements

\* One more at its end keeps it a list.
LEMMA OneMore ==
  ASSUME NEW s, NEW e, IsList(s)
  PROVE  /\ IsList(Append(s, e))
         /\ DOMAIN s = 1..Len(s) /\ Len(s) \in Nat
         /\ Len(Append(s, e)) = Len(s) + 1
         /\ DOMAIN Append(s, e) = 1..(Len(s) + 1)
         /\ Append(s, e)[Len(s) + 1] = e
         /\ \A k \in 1..Len(s) : Append(s, e)[k] = s[k]
<1> DEFINE S == {s[k] : k \in DOMAIN s}
           T == S \union {e}
<1>1. s \in Seq(S) /\ S \subseteq T /\ e \in T BY DEF IsList
<1> HIDE DEF S, T
<1>2. s \in Seq(T) BY <1>1
<1>3. Append(s, e) \in Seq(T) BY <1>1, <1>2
<1>4. IsList(Append(s, e)) BY <1>3, OverItsElements
<1> QED BY <1>1, <1>2, <1>4

\* One less at its head, too.
LEMMA OneLess ==
  ASSUME NEW s, IsList(s), s # <<>>
  PROVE  /\ IsList(Tail(s)) /\ Len(Tail(s)) = Len(s) - 1
         /\ Len(s) \in Nat \ {0} /\ Head(s) = s[1]
         /\ \A k \in 1..Len(Tail(s)) : Tail(s)[k] = s[k + 1]
<1> DEFINE S == {s[k] : k \in DOMAIN s}
<1>1. s \in Seq(S) BY DEF IsList
<1> HIDE DEF S
<1>2. Tail(s) \in Seq(S) BY <1>1
<1>3. IsList(Tail(s)) BY <1>2, OverItsElements
<1> QED BY <1>1, <1>3

\* Two lists behind each other.
LEMMA Longer ==
  ASSUME NEW s, NEW t, IsList(s), IsList(t)
  PROVE  IsList(s \o t) /\ Len(s \o t) = Len(s) + Len(t)
<1> DEFINE S == {s[k] : k \in DOMAIN s}
           T == {t[k] : k \in DOMAIN t}
           B == S \union T
<1>1. s \in Seq(S) /\ t \in Seq(T) /\ S \subseteq B /\ T \subseteq B BY DEF IsList
<1> HIDE DEF S, T, B
<1>2. s \in Seq(B) BY <1>1
<1>3. t \in Seq(B) BY <1>1
<1>4. s \o t \in Seq(B) /\ Len(s \o t) = Len(s) + Len(t) BY <1>2, <1>3, TwoJoined
<1> QED BY <1>4, OverItsElements

LEMMA ListsAt ==
  ASSUME NEW s, NEW t, IsList(s), IsList(t)
  PROVE  /\ \A k \in 1..Len(s) : (s \o t)[k] = s[k]
         /\ \A k \in 1..Len(t) : (s \o t)[Len(s) + k] = t[k]
<1> DEFINE S == {s[k] : k \in DOMAIN s}
           T == {t[k] : k \in DOMAIN t}
           B == S \union T
<1>1. s \in Seq(S) /\ t \in Seq(T) /\ S \subseteq B /\ T \subseteq B BY DEF IsList
<1> HIDE DEF S, T, B
<1>2. s \in Seq(B) BY <1>1
<1>3. t \in Seq(B) BY <1>1
<1> QED BY <1>2, <1>3, JoinedAt

\* What is left without the empty ones is a list.
LEMMA ListWithoutEmpty ==
  ASSUME NEW n \in Nat, NEW argvs, DOMAIN argvs = 1..n
  PROVE  IsList(WithoutEmpty(argvs))
<1> DEFINE part(k) == IF argvs[k] = <<>> THEN <<>> ELSE <<argvs[k]>>
           parts == [k \in 1..n |-> part(k)]
           S == {argvs[k] : k \in 1..n}
           sz == [k \in 1..n |-> Len(part(k))]
<1>1. WithoutEmpty(argvs) = FlattenSeq(parts) BY DEF WithoutEmpty
<1>2. CASE n = 0
  <2>1. FlattenSeq(parts) = <<>> BY <1>2 DEF FlattenSeq
  <2> QED BY <1>1, <2>1 DEF IsList
<1>3. CASE n # 0
  <2>1. ASSUME NEW k \in 1..n PROVE part(k) \in Seq(S) /\ Len(part(k)) \in Nat
    <3>1. argvs[k] \in S OBVIOUS
    <3> DEFINE a == argvs[k]
    <3> HIDE DEF a, S
    <3>2. <<>> \in Seq(S) /\ <<a>> \in Seq(S) /\ Len(<<>>) = 0 /\ Len(<<a>>) = 1 BY <3>1 DEF a
    <3> QED BY <3>2 DEF a
  <2> HIDE DEF part, S
  <2>2. sz \in Seq(Nat) /\ Len(sz) = n /\ Len(parts) = n BY <2>1
  <2>3. \A k \in 1..n : parts[k] \in Seq(S) /\ Len(parts[k]) = sz[k] BY <2>1
  <2> HIDE DEF parts, sz
  <2>4. FlattenSeq(parts) \in Seq(S) BY <1>3, <2>2, <2>3, FlattenAll
  <2> QED BY <1>1, <2>4, OverItsElements
<1> QED BY <1>2, <1>3

(***************************************************************************)
(* Invocation: the exit code.                                              *)
(***************************************************************************)

\* What has been kept of the runs is a sequence.
Made == {past[k] : k \in DOMAIN past}

ExitInv == /\ past \in Seq(Made)
           /\ pc \in {"main", "local", "jobs", "done"}
           /\ pc # "done" => exit.code = 0 /\ ~exit.err /\ ~Failed
           /\ CodeHonest

LEMMA PastGrows ==
  ASSUME past \in Seq(Made), Archive
  PROVE  /\ past' \in Seq(Made')
         /\ DOMAIN past = 1..Len(past) /\ Len(past) \in Nat
         /\ DOMAIN past' = 1..(Len(past) + 1)
         /\ past'[Len(past) + 1] = [asked |-> asked, ret |-> ret, verdict |-> verdict]
         /\ \A k \in 1..Len(past) : past'[k] = past[k]
<1> DEFINE e == [asked |-> asked, ret |-> ret, verdict |-> verdict]
<1>1. past' = Append(past, e) BY DEF Archive
<1>2. IsList(past) BY DEF Made, IsList
<1> HIDE DEF e
<1>3. /\ IsList(Append(past, e))
      /\ DOMAIN past = 1..Len(past) /\ Len(past) \in Nat
      /\ DOMAIN Append(past, e) = 1..(Len(past) + 1)
      /\ Append(past, e)[Len(past) + 1] = e
      /\ \A k \in 1..Len(past) : Append(past, e)[k] = past[k]
  BY <1>2, OneMore
<1>4. past' \in Seq(Made') BY <1>1, <1>3 DEF Made, IsList
<1> QED BY <1>1, <1>3, <1>4 DEF e

LEMMA ExitInit == Init => ExitInv
<1> SUFFICES ASSUME Init PROVE ExitInv
  OBVIOUS
<1>1. past = <<>> /\ pc = "main" /\ exit = [code |-> 0, err |-> FALSE] BY DEF Init
<1> QED BY <1>1 DEF ExitInv, CodeHonest, Failed, Made

LEMMA ExitNext == ExitInv /\ [Next]_vars => ExitInv'
<1> SUFFICES ASSUME ExitInv, [Next]_vars PROVE ExitInv'
  OBVIOUS
<1>1. ASSUME UNCHANGED <<past, pc, exit>>, UNCHANGED <<cfg, req, route>> \/ pc # "done" PROVE ExitInv'
  BY <1>1 DEF ExitInv, CodeHonest, Failed, Made, UsageError, Name, IsSuite
<1>2. ASSUME UNCHANGED past, past \in Seq(Made) PROVE past' \in Seq(Made') /\ Failed' = Failed
  BY <1>2 DEF Made, Failed
<1>3. CASE UseDaemon
  <2>1. pc = "main" /\ UNCHANGED <<past, cfg, req>> /\ route' = "daemon" BY <1>3 DEF UseDaemon
  <2>2. CASE IsSuite(Name[1]) \/ Name[1] \in Targets
    <3>1. pc' = "jobs" /\ UNCHANGED exit BY <1>3, <2>2 DEF UseDaemon
    <3> QED BY <1>2, <2>1, <3>1 DEF ExitInv, CodeHonest
  <2>3. CASE ~(IsSuite(Name[1]) \/ Name[1] \in Targets)
    <3>1. pc' = "done" /\ exit' = [code |-> 1, err |-> FALSE] BY <1>3, <2>3 DEF UseDaemon, Exit
    <3>2. UsageError'
      <4>1. Name # <<>> /\ ~IsSuite(Name[1]) /\ Name[1] \notin Targets BY <1>3, <2>3 DEF UseDaemon
      <4> QED BY <2>1, <4>1 DEF UsageError, Name, IsSuite
    <3> QED BY <1>2, <2>1, <3>1, <3>2 DEF ExitInv, CodeHonest
  <2> QED BY <2>2, <2>3
<1>4. CASE StayLocal
  <2>1. pc = "main" /\ pc' = "local" /\ UNCHANGED <<past, exit>> BY <1>4 DEF StayLocal
  <2> QED BY <1>2, <2>1 DEF ExitInv, CodeHonest
<1>5. CASE LoadFails \/ Refuse
  <2>1. pc = "local" /\ pc' = "done" /\ exit' = [code |-> 2, err |-> TRUE] /\ UNCHANGED past
    BY <1>5 DEF LoadFails, Refuse, Exit
  <2> QED BY <1>2, <2>1 DEF ExitInv, CodeHonest
<1>6. CASE Resolve
  <2>1. pc = "local" /\ pc' = "jobs" /\ UNCHANGED <<past, exit>> BY <1>6 DEF Resolve
  <2> QED BY <1>2, <2>1 DEF ExitInv, CodeHonest
<1>7. CASE PrintJob \/ SkipJob
  BY <1>1, <1>7 DEF PrintJob, SkipJob
<1>8. CASE CallRun \/ RunStep
  <2>1. UNCHANGED <<past, pc, exit>> /\ pc # "done" BY <1>8 DEF CallRun, RunStep
  <2> QED BY <1>1, <2>1
<1>9. CASE EndJob
  <2>1. Archive /\ pc = "jobs" BY <1>9 DEF EndJob, Archive
  <2>2. /\ past' \in Seq(Made')
        /\ Failed' <=> Failed \/ verdict # "ok"
    BY <2>1, PastGrows DEF ExitInv, Failed
  <2>3. CASE verdict = "ok"
    <3>1. UNCHANGED <<pc, exit>> BY <1>9, <2>3 DEF EndJob
    <3> QED BY <2>1, <2>2, <2>3, <3>1 DEF ExitInv, CodeHonest
  <2>4. CASE verdict # "ok"
    <3>1. /\ pc' = "done" /\ route' = route
          /\ exit' = [code |-> IF route = "default" THEN 2 ELSE 1, err |-> route # "daemon"]
      BY <1>9, <2>1, <2>4 DEF EndJob, Exit, Archive
    <3>2. Failed' BY <2>2, <2>4
    <3>3. CASE route = "default"
      <4>1. exit'.code = 2 /\ exit'.err BY <3>1, <3>3
      <4> QED BY <2>2, <3>1, <3>2, <3>3, <4>1 DEF ExitInv, CodeHonest
    <3>4. CASE route # "default"
      <4>1. exit'.code = 1 BY <3>1, <3>4
      <4> QED BY <2>2, <3>1, <3>2, <4>1 DEF ExitInv, CodeHonest
    <3> QED BY <3>3, <3>4
  <2> QED BY <2>3, <2>4
<1>10. CASE AllDone
  <2>1. pc = "jobs" /\ pc' = "done" /\ exit' = [code |-> 0, err |-> FALSE] /\ UNCHANGED past
    BY <1>10 DEF AllDone, Exit
  <2> QED BY <1>2, <2>1 DEF ExitInv, CodeHonest
<1>11. CASE Ended \/ UNCHANGED vars
  BY <1>1, <1>11 DEF Ended, vars
<1> QED BY <1>3, <1>4, <1>5, <1>6, <1>7, <1>8, <1>9, <1>10, <1>11 DEF Next

\* The code a command ends with tells a failure of a target from a command that
\* could not be carried out (RunMain), whatever the graph, the configuration
\* and the command line; and 0 means that nothing failed.
THEOREM CodeIsHonest == Spec => []CodeHonest
<1>1. ExitInv => CodeHonest BY DEF ExitInv
<1> QED BY ExitInit, ExitNext, <1>1, PTL DEF Spec

(***************************************************************************)
(* Invocation: what is run is as long as what is planned.                  *)
(***************************************************************************)

Printing == route = "local" /\ req.dryRun

\* The runs of the plan: how many targets each has.
Sizes == [k \in DOMAIN Entries |->
            IF PassedOver(Entries[k]) THEN 0 ELSE Len(Order[Entries[k].target])]

\* The entries exist, and so many of them have been dealt with.
Known == IsList(Entries) /\ \A k \in 1..Len(Entries) : Entries[k].target \in Targets

Done == Len(Entries) - Len(todo)

\* The calls still to make are those for the entries that are left.
Ahead == /\ IsList(todo) /\ Len(todo) <= Len(Entries)
         /\ \A k \in 1..Len(todo) : todo[k].target = Entries[Done + k].target

\* What the current call has logged.
InThisRun == IF verdict = "idle" THEN 0 ELSE IF stage = "returned" THEN i ELSE i - 1

Calling == /\ i \in Nat
           /\ verdict \in {"idle", "none", "ok", "failed", "rejected"}
           /\ stage = "running" => verdict = "none"
           /\ verdict # "idle" => /\ todo # <<>> /\ asked = todo[1].target
                                  /\ ~Printing /\ ~PassedOver(Entries[Done + 1])
           /\ verdict = "ok" => stage = "returned" /\ i = Len(Order[asked])

Counted == IF Printing THEN Len(printed) = Sums(Sizes)[Done]
           ELSE Len(log) = Sums(Sizes)[Done] + InThisRun

\* The whole plan has been gone through.
AllCounted == Len(IF Printing THEN printed ELSE log) = Sums(Sizes)[Len(Entries)]

PlanInv ==
    /\ cfg \in Configs
    /\ IsList(log) /\ IsList(printed)
    /\ pc \in {"main", "local", "jobs", "done"}
    /\ pc \in {"main", "local"} => /\ log = <<>> /\ printed = <<>>
                                   /\ verdict = "idle" /\ stage = "next" /\ i = 1
                                   /\ exit.code = 0
    /\ pc = "local" => route = IF Name = <<>> THEN "default" ELSE "local"
    /\ pc = "jobs" => Known /\ Ahead /\ Calling /\ Counted
    /\ pc = "done" /\ exit.code = 0 => Known /\ AllCounted

\* The sizes are numbers.
LEMMA SizesAre ==
  ASSUME Known
  PROVE  /\ Sizes \in Seq(Nat) /\ Len(Sizes) = Len(Entries) /\ Len(Entries) \in Nat
         /\ \A k \in 1..Len(Entries) : Sizes[k] = IF PassedOver(Entries[k]) THEN 0
                                                  ELSE Len(Order[Entries[k].target])
<1> DEFINE n == Len(Entries)
           size(k) == IF PassedOver(Entries[k]) THEN 0 ELSE Len(Order[Entries[k].target])
<1>1. n \in Nat /\ DOMAIN Entries = 1..n BY ListIs DEF Known
<1>2. ASSUME NEW k \in 1..n PROVE size(k) \in Nat
  <2>1. Entries[k].target \in Targets BY <1>2 DEF Known
  <2>2. Order[Entries[k].target] \in Seq(Targets) BY <2>1, OrderAssumption DEF IsOrderOf
  <2> QED BY <2>2
<1>3. Sizes = [k \in 1..n |-> size(k)] BY <1>1 DEF Sizes
<1> HIDE DEF size, n
<1>4. Sizes \in [1..n -> Nat] BY <1>2, <1>3
<1>5. Sizes \in Seq(Nat) /\ Len(Sizes) = n BY <1>1, <1>4
<1> QED BY <1>1, <1>3, <1>5 DEF n, size

\* The plan consists of the plans of the entries.
LEMMA PlanParts ==
  ASSUME Known
  PROVE  /\ Len(Plan) = Sums(Sizes)[Len(Entries)]
         /\ \A k \in 1..Len(Entries) : ~PassedOver(Entries[k]) =>
               \A j \in 1..Len(Order[Entries[k].target]) :
                  /\ Sums(Sizes)[k - 1] + j \in 1..Len(Plan)
                  /\ Plan[Sums(Sizes)[k - 1] + j] = PlannedRun(Entries[k])[j]
<1> DEFINE n == Len(Entries)
           part(k) == IF PassedOver(Entries[k]) THEN <<>> ELSE PlannedRun(Entries[k])
           parts == [k \in 1..n |-> part(k)]
           S == UNION {{part(k)[j] : j \in DOMAIN part(k)} : k \in 1..n}
<1>1. n \in Nat /\ DOMAIN Entries = 1..n BY ListIs DEF Known
<1>2. /\ Sizes \in Seq(Nat) /\ Len(Sizes) = n
      /\ \A k \in 1..n : Sizes[k] = IF PassedOver(Entries[k]) THEN 0
                                    ELSE Len(Order[Entries[k].target])
  BY SizesAre
<1>3. Plan = FlattenSeq(parts) BY <1>1 DEF Plan
<1>4. ASSUME NEW k \in 1..n PROVE IsList(part(k)) /\ Len(part(k)) = Sizes[k]
  <2>1. CASE PassedOver(Entries[k])
    <3>1. part(k) = <<>> /\ Sizes[k] = 0 BY <1>2, <1>4, <2>1
    <3> HIDE DEF part
    <3> QED BY <3>1 DEF IsList
  <2>2. CASE ~PassedOver(Entries[k])
    <3> DEFINE t == Entries[k].target
               r == PlannedRun(Entries[k])
    <3>1. part(k) = r /\ Sizes[k] = Len(Order[t]) BY <1>2, <1>4, <2>2
    <3>2. t \in Targets BY <1>4 DEF Known
    <3>3. Order[t] \in Seq(Targets) BY <3>2, OrderAssumption DEF IsOrderOf
    <3>4. DOMAIN Order[t] = 1..Len(Order[t]) /\ Len(Order[t]) \in Nat BY <3>3
    <3>5. r = [j \in 1..Len(Order[t]) |-> r[j]] BY <3>4 DEF PlannedRun
    <3> HIDE DEF part, r, t
    <3> QED BY <3>1, <3>4, <3>5, ListOf
  <2> QED BY <2>1, <2>2
<1>5. ASSUME NEW k \in 1..n PROVE part(k) \in Seq(S)
  <2> DEFINE P == {part(k)[j] : j \in DOMAIN part(k)}
  <2>1. part(k) \in Seq(P) BY <1>4, <1>5 DEF IsList
  <2>2. P \subseteq S BY <1>5
  <2> HIDE DEF P, S, part
  <2> QED BY <2>1, <2>2
<1>6. CASE n = 0
  <2>1. FlattenSeq(parts) = <<>> BY <1>6 DEF FlattenSeq
  <2>2. Len(Plan) = 0 /\ Sums(Sizes)[0] = 0 BY <1>2, <1>3, <2>1, SumsAre
  <2>3. 1..n = {} BY <1>6
  <2> HIDE DEF parts, part, S
  <2> QED BY <1>6, <2>2, <2>3
<1>7. CASE n # 0
  <2> HIDE DEF S, part
  <2>1. /\ Len(parts) = n
        /\ \A k \in 1..n : parts[k] \in Seq(S) /\ Len(parts[k]) = Sizes[k]
    BY <1>1, <1>4, <1>5
  <2>2. \A k \in 1..n : parts[k] = part(k) OBVIOUS
  <2> HIDE DEF parts
  <2>3. /\ Len(FlattenSeq(parts)) = Sums(Sizes)[Len(Sizes)]
        /\ \A k \in 1..Len(Sizes) : \A j \in 1..Sizes[k] :
               /\ Sums(Sizes)[k - 1] + j \in 1..Len(FlattenSeq(parts))
               /\ FlattenSeq(parts)[Sums(Sizes)[k - 1] + j] = parts[k][j]
    <3>1. /\ Sizes \in Seq(Nat) /\ Len(parts) = Len(Sizes) /\ Len(Sizes) # 0
          /\ \A k \in 1..Len(Sizes) : parts[k] \in Seq(S) /\ Len(parts[k]) = Sizes[k]
      BY <1>2, <1>7, <2>1
    <3> DEFINE sz == Sizes
               whole == FlattenSeq(parts)
    <3>2. sz \in Seq(Nat) /\ Len(parts) = Len(sz) /\ Len(sz) # 0 BY <3>1
    <3>3. \A k \in 1..Len(sz) : parts[k] \in Seq(S) /\ Len(parts[k]) = sz[k] BY <3>1
    <3> HIDE DEF sz
    <3>4. Consists(whole, parts, sz) BY <3>2, <3>3, FlattenAll
    <3> QED BY <3>4 DEF sz, Consists
  <2>4. ASSUME NEW k \in 1..n, ~PassedOver(Entries[k]), NEW j \in 1..Len(Order[Entries[k].target])
        PROVE  /\ Sums(Sizes)[k - 1] + j \in 1..Len(Plan)
               /\ Plan[Sums(Sizes)[k - 1] + j] = PlannedRun(Entries[k])[j]
    <3>1. Sizes[k] = Len(Order[Entries[k].target]) BY <1>2, <2>4
    <3>2. parts[k] = PlannedRun(Entries[k]) BY <2>2, <2>4 DEF part
    <3>3. /\ Sums(Sizes)[k - 1] + j \in 1..Len(FlattenSeq(parts))
          /\ FlattenSeq(parts)[Sums(Sizes)[k - 1] + j] = parts[k][j]
      BY <1>2, <2>3, <3>1
    <3> QED BY <1>3, <3>2, <3>3
  <2>5. Len(Plan) = Sums(Sizes)[n] BY <1>2, <1>3, <2>3
  <2> QED BY <2>4, <2>5
<1> QED BY <1>1, <1>6, <1>7

\* A list of jobs for all the entries.
ServeAll(jobs) == /\ IsList(jobs) /\ Len(jobs) = Len(Entries)
                  /\ \A k \in 1..Len(jobs) : jobs[k].target = Entries[k].target

LEMMA SuiteEntries ==
  ASSUME cfg \in Configs, Name # <<>>, IsSuite(Name[1])
  PROVE  /\ Entries = cfg.suites[Name[1]] /\ Known
         /\ DOMAIN cfg.suites[Name[1]] = 1..Len(Entries) /\ Len(Entries) \in Nat
<1>1. Entries = cfg.suites[Name[1]] BY DEF Entries
<1>2. Entries \in Seq([target : Targets, preset : STRING])
  BY <1>1, ConfigAssumption DEF IsSuite
<1> DEFINE E == [target : Targets, preset : STRING]
<1>3. \A e \in E : e.target \in Targets OBVIOUS
<1> HIDE DEF E
<1>4. DOMAIN Entries = 1..Len(Entries) /\ Len(Entries) \in Nat BY <1>2 DEF E
<1>5. ASSUME NEW k \in 1..Len(Entries) PROVE Entries[k].target \in Targets
  <2>1. Entries \in Seq(E) BY <1>2 DEF E
  <2>2. Entries[k] \in E BY <2>1, <1>5
  <2> QED BY <1>3, <2>2
<1> QED BY <1>1, <1>2, <1>4, <1>5, OverItsElements DEF Known

LEMMA SingleEntry ==
  ASSUME NEW t \in Targets, NEW p, Entries = <<[target |-> t, preset |-> p]>>,
         NEW o
  PROVE  Known /\ ServeAll(<<Job(t, o)>>)
<1>1. Entries = [k \in 1..1 |-> [target |-> t, preset |-> p]] OBVIOUS
<1>2. Len(Entries) = 1 /\ Entries[1].target = t OBVIOUS
<1>3. IsList(Entries)
  <2>1. Entries = [k \in 1..1 |-> Entries[k]] BY <1>1
  <2> QED BY <2>1, ListOf
<1> DEFINE jobs == <<Job(t, o)>>
<1>4. Len(jobs) = 1 /\ jobs[1].target = t BY DEF Job
<1>5. IsList(jobs)
  <2>1. jobs = [k \in 1..1 |-> jobs[k]] BY DEF Job
  <2> HIDE DEF jobs
  <2> QED BY <2>1, ListOf
<1> HIDE DEF jobs
<1>6. ServeAll(jobs) BY <1>2, <1>4, <1>5 DEF ServeAll
<1> QED BY <1>2, <1>3, <1>6 DEF Known, jobs

LEMMA DaemonServes ==
  ASSUME cfg \in Configs, Name # <<>>, IsSuite(Name[1]) \/ Name[1] \in Targets
  PROVE  Known /\ ServeAll(DaemonJobs(Name[1]))
<1>1. CASE IsSuite(Name[1])
  <2>1. /\ Entries = cfg.suites[Name[1]] /\ Known
        /\ DOMAIN cfg.suites[Name[1]] = 1..Len(Entries) /\ Len(Entries) \in Nat
    BY <1>1, SuiteEntries
  <2> DEFINE job(k) == Job(Entries[k].target, DaemonOptions(Entries[k].target, Entries[k].preset))
             jobs == [k \in 1..Len(Entries) |-> job(k)]
  <2>2. DaemonJobs(Name[1]) = jobs BY <1>1, <2>1 DEF DaemonJobs
  <2>3. \A k \in 1..Len(Entries) : job(k).target = Entries[k].target BY DEF Job
  <2> HIDE DEF job
  <2>4. jobs = [k \in 1..Len(Entries) |-> jobs[k]] OBVIOUS
  <2>5. IsList(jobs) /\ Len(jobs) = Len(Entries)
    <3> HIDE DEF jobs
    <3> QED BY <2>1, <2>4, ListOf
  <2>6. ServeAll(jobs) BY <2>3, <2>5 DEF ServeAll
  <2> QED BY <2>1, <2>2, <2>6
<1>2. CASE ~IsSuite(Name[1])
  <2>1. Entries = <<[target |-> Name[1], preset |-> req.means.preset]>> BY <1>2 DEF Entries
  <2>2. DaemonJobs(Name[1]) = <<Job(Name[1], DaemonOptions(Name[1], ""))>> BY <1>2 DEF DaemonJobs
  <2> QED BY <1>2, <2>1, <2>2, SingleEntry
<1> QED BY <1>1, <1>2

LEMMA LocalServes ==
  ASSUME cfg \in Configs, ~UsageError
  PROVE  Known /\ ServeAll(LocalJobs)
<1>1. CASE Name = <<>>
  <2>1. Entries = <<[target |-> cfg.default, preset |-> ""]>> BY <1>1 DEF Entries
  <2>2. LocalJobs = <<Job(cfg.default, LocalOptions(cfg.default, <<>>, NoPreset))>>
    BY <1>1 DEF LocalJobs
  <2>3. cfg.default \in Targets BY ConfigAssumption
  <2> QED BY <2>1, <2>2, <2>3, SingleEntry
<1>2. CASE Name # <<>> /\ IsSuite(Name[1])
  <2>1. /\ Entries = cfg.suites[Name[1]] /\ Known
        /\ DOMAIN cfg.suites[Name[1]] = 1..Len(Entries) /\ Len(Entries) \in Nat
    BY <1>2, SuiteEntries
  <2> DEFINE job(k) == Job(Entries[k].target,
                           LocalOptions(Entries[k].target, <<>>,
                                        Preset(Entries[k].target, Entries[k].preset)))
             jobs == [k \in 1..Len(Entries) |-> job(k)]
  <2>2. LocalJobs = jobs BY <1>2, <2>1 DEF LocalJobs
  <2>3. \A k \in 1..Len(Entries) : job(k).target = Entries[k].target BY DEF Job
  <2> HIDE DEF job
  <2>4. jobs = [k \in 1..Len(Entries) |-> jobs[k]] OBVIOUS
  <2>5. IsList(jobs) /\ Len(jobs) = Len(Entries)
    <3> HIDE DEF jobs
    <3> QED BY <2>1, <2>4, ListOf
  <2>6. ServeAll(jobs) BY <2>3, <2>5 DEF ServeAll
  <2> QED BY <2>1, <2>2, <2>6
<1>3. CASE Name # <<>> /\ ~IsSuite(Name[1])
  <2> DEFINE o == IF NamesPreset(cfg.targets[Name[1]], req.args)
                  THEN LocalOptions(Name[1], Tail(req.args), Preset(Name[1], req.args[1].text))
                  ELSE LocalOptions(Name[1], req.args, NoPreset)
  <2>1. Entries = <<[target |-> Name[1], preset |-> req.means.preset]>> BY <1>3 DEF Entries
  <2>2. LocalJobs = <<Job(Name[1], o)>> BY <1>3 DEF LocalJobs
  <2>3. Name[1] \in Targets BY <1>3 DEF UsageError
  <2> HIDE DEF o
  <2> QED BY <2>1, <2>2, <2>3, SingleEntry
<1> QED BY <1>1, <1>2, <1>3

LEMMA PlanInit == Init => PlanInv
<1> SUFFICES ASSUME Init PROVE PlanInv
  OBVIOUS
<1>1. IsList(<<>>)
  <2>1. <<>> = [k \in 1..0 |-> <<>>[k]] OBVIOUS
  <2> QED BY <2>1, ListOf
<1> QED BY <1>1 DEF Init, InitRun, PlanInv

LEMMA SameEntries ==
  ASSUME UNCHANGED <<cfg, req>>
  PROVE  /\ Name' = Name /\ Entries' = Entries /\ (Known' <=> Known)
         /\ UsageError' <=> UsageError
<1>1. Name' = Name BY DEF Name
<1>2. Entries' = Entries BY <1>1 DEF Entries, IsSuite
<1>3. Known' <=> Known BY <1>2 DEF Known
<1> QED BY <1>1, <1>2, <1>3 DEF UsageError, IsSuite

LEMMA SamePlan ==
  ASSUME UNCHANGED <<cfg, req, route>>
  PROVE  Sizes' = Sizes /\ Printing' = Printing /\ \A k : PassedOver(Entries[k])' = PassedOver(Entries[k])
<1>1. Entries' = Entries BY SameEntries
<1>2. \A k : PassedOver(Entries[k])' = PassedOver(Entries[k]) BY <1>1 DEF PassedOver
<1>3. Sizes' = Sizes BY <1>1, <1>2 DEF Sizes
<1> QED BY <1>2, <1>3 DEF Printing

\* With all entries ahead nothing has been counted.
LEMMA AllAhead ==
  ASSUME Known, ServeAll(todo)
  PROVE  Ahead /\ Done = 0 /\ Sums(Sizes)[Done] = 0
<1>1. Len(Entries) \in Nat /\ Sums(Sizes)[0] = 0 BY SizesAre, SumsAre
<1>2. IsList(todo) /\ Len(todo) = Len(Entries) BY DEF ServeAll
<1>3. Done = 0 BY <1>1, <1>2 DEF Done
<1>4. \A k \in 1..Len(todo) : Done + k = k BY <1>1, <1>2, <1>3
<1> QED BY <1>1, <1>2, <1>3, <1>4 DEF Ahead, ServeAll

\* An entry has been dealt with.
LEMMA OneDone ==
  ASSUME Known, Ahead, todo # <<>>, UNCHANGED <<cfg, req, route>>, todo' = Tail(todo)
  PROVE  /\ Known' /\ Ahead' /\ Done \in Nat /\ Done + 1 \in 1..Len(Entries) /\ Done' = Done + 1
         /\ todo[1].target = Entries[Done + 1].target /\ Head(todo) = todo[1]
         /\ Sums(Sizes)[Done] \in Nat
         /\ Sums(Sizes')[Done'] = Sums(Sizes)[Done]
                + (IF PassedOver(Entries[Done + 1]) THEN 0 ELSE Len(Order[todo[1].target]))
<1>1. /\ IsList(Tail(todo)) /\ Len(Tail(todo)) = Len(todo) - 1
      /\ Len(todo) \in Nat \ {0} /\ Head(todo) = todo[1]
      /\ \A k \in 1..Len(Tail(todo)) : Tail(todo)[k] = todo[k + 1]
  BY OneLess DEF Ahead
<1>2. /\ Sizes \in Seq(Nat) /\ Len(Sizes) = Len(Entries) /\ Len(Entries) \in Nat
      /\ \A k \in 1..Len(Entries) : Sizes[k] = IF PassedOver(Entries[k]) THEN 0
                                               ELSE Len(Order[Entries[k].target])
  BY SizesAre
<1>3. Entries' = Entries /\ Known' /\ Sizes' = Sizes BY SameEntries, SamePlan
<1>4. Len(todo) <= Len(Entries) /\ \A k \in 1..Len(todo) : todo[k].target = Entries[Done + k].target
  BY DEF Ahead
<1>5. Done \in Nat /\ Done + 1 \in 1..Len(Entries) /\ Done' = Done + 1
  BY <1>1, <1>2, <1>3, <1>4 DEF Done
<1>6. todo[1].target = Entries[Done + 1].target BY <1>1, <1>4
<1>7. Ahead'
  <2>1. ASSUME NEW k \in 1..Len(todo') PROVE todo'[k].target = Entries'[Done' + k].target
    <3>1. k + 1 \in 1..Len(todo) /\ todo'[k] = todo[k + 1] BY <1>1, <2>1
    <3>2. Done' + k = Done + (k + 1) BY <1>5, <3>1
    <3> QED BY <1>3, <1>4, <3>1, <3>2
  <2> QED BY <1>1, <1>2, <1>3, <1>4, <2>1 DEF Ahead
<1>8. /\ Sums(Sizes)[Done + 1] = Sums(Sizes)[(Done + 1) - 1] + Sizes[Done + 1]
      /\ Sums(Sizes)[Done] \in Nat
  BY <1>2, <1>5, SumsAre
<1>9. (Done + 1) - 1 = Done BY <1>5
<1>10. Sizes[Done + 1] = IF PassedOver(Entries[Done + 1]) THEN 0 ELSE Len(Order[todo[1].target])
  BY <1>2, <1>5, <1>6
<1> QED BY <1>1, <1>3, <1>5, <1>6, <1>7, <1>8, <1>9, <1>10

LEMMA AllAheadLater == (Known /\ ServeAll(todo) => Ahead /\ Sums(Sizes)[Done] = 0)'
<1>1. Known /\ ServeAll(todo) => Ahead /\ Sums(Sizes)[Done] = 0 BY AllAhead
<1> QED BY <1>1, PTL

LEMMA FirstJobs ==
  ASSUME NEW jobs, Known, ServeAll(jobs), todo' = jobs, UNCHANGED <<cfg, req>>
  PROVE  Known' /\ Ahead' /\ Sums(Sizes')[Done'] = 0
<1>1. Known' /\ Entries' = Entries BY SameEntries
<1>2. ServeAll(todo)' BY <1>1 DEF ServeAll
<1> QED BY <1>1, <1>2, AllAheadLater

\* The four ways a target comes to an end.
LEMMA Returns ==
  ASSUME SkipTarget \/ LookupFails \/ NoDocker \/ RunSteps
  PROVE  /\ stage = "running"
         /\ \E r \in {"ok", "err", "noDocker"} : \E how, commands : Return(r, how, commands)
<1>1. CASE SkipTarget BY <1>1 DEF SkipTarget
<1>2. CASE LookupFails BY <1>2 DEF LookupFails
<1>3. CASE NoDocker BY <1>3 DEF NoDocker
<1>4. CASE RunSteps
  <2> DEFINE commands == Commands(cfg.targets[Current], OptionsOf(Current))
  <2>1. \/ Return("ok", "ran", commands)
        \/ \E k \in DOMAIN commands : Return("err", "failed", SubSeq(commands, 1, k))
    BY <1>4 DEF RunSteps
  <2> HIDE DEF commands
  <2>2. stage = "running" BY <1>4 DEF RunSteps
  <2> QED BY <2>1, <2>2
<1> QED BY <1>1, <1>2, <1>3, <1>4

\* Within a call, every target that returns is logged.
LEMMA CallCounts ==
  ASSUME PlanInv, RunStep
  PROVE  PlanInv'
<1>1. /\ pc = "jobs" /\ cfg \in Configs /\ IsList(log) /\ IsList(printed)
      /\ Known /\ Ahead /\ Calling /\ Counted /\ StepRun
      /\ UNCHANGED <<req, pc, route, todo, printed, exit>>
  BY DEF PlanInv, RunStep
<1>2. UNCHANGED <<cfg, asked>>
  BY <1>1 DEF StepRun, RejectRun, StartTarget, SkipTarget, LookupFails, NoDocker, RunSteps, Proceed,
              Return
<1>3. /\ Known' /\ Entries' = Entries /\ Sizes' = Sizes /\ Printing' = Printing
      /\ \A k : PassedOver(Entries[k])' = PassedOver(Entries[k])
  BY <1>1, <1>2, SameEntries, SamePlan
<1>4. Done' = Done /\ Ahead' BY <1>1, <1>3 DEF Done, Ahead
<1>5. verdict # "idle"
  BY <1>1 DEF Calling, StepRun, RejectRun, StartTarget, SkipTarget, LookupFails, NoDocker, RunSteps,
              Proceed
<1>6. /\ ~Printing /\ Len(log) = Sums(Sizes)[Done] + InThisRun
      /\ Sums(Sizes)[Done] \in Nat /\ i \in Nat
  <2>1. todo # <<>> /\ ~Printing BY <1>1, <1>5 DEF Calling
  <2>2. Done \in 0..Len(Entries)
    <3>1. Len(todo) \in Nat /\ Len(Entries) \in Nat BY <1>1, ListIs, SizesAre DEF Ahead
    <3> QED BY <1>1, <3>1 DEF Ahead, Done
  <2>3. Sums(Sizes)[Done] \in Nat BY <1>1, <2>2, SizesAre, SumsAre
  <2> QED BY <1>1, <2>1, <2>3 DEF Counted, Calling
<1>7. SUFFICES /\ IsList(log') /\ i' \in Nat /\ verdict' \in {"none", "ok", "failed", "rejected"}
               /\ stage' = "running" => verdict' = "none"
               /\ verdict' = "ok" => stage' = "returned" /\ i' = Len(Order[asked])
               /\ Len(log') = Sums(Sizes)[Done] + InThisRun'
  <2>1. Calling' BY <1>1, <1>2, <1>3, <1>4, <1>5, <1>6, <1>7 DEF Calling
  <2>2. Counted' BY <1>3, <1>4, <1>6, <1>7 DEF Counted
  <2> QED BY <1>1, <1>2, <1>3, <1>4, <1>7, <2>1, <2>2 DEF PlanInv
<1>8. CASE RejectRun
  BY <1>1, <1>6, <1>8 DEF RejectRun, InThisRun
<1>9. CASE StartTarget
  BY <1>1, <1>6, <1>9 DEF StartTarget, InThisRun
<1>10. CASE SkipTarget \/ LookupFails \/ NoDocker \/ RunSteps
  <2>1. stage = "running" BY <1>10 DEF SkipTarget, LookupFails, NoDocker, RunSteps
  <2>2. PICK r, how, commands : Return(r, how, commands) BY <1>10, Returns
  <2>3. verdict = "none" BY <1>1, <2>1 DEF Calling
  <2>4. stage' = "returned" /\ UNCHANGED <<i, verdict>> BY <2>2 DEF Return
  <2>5. IsList(log') /\ Len(log') = Len(log) + 1
    <3> DEFINE e == [target |-> Current, how |-> how, commands |-> commands,
                     env |-> Environment(cfg, OptionsOf(Current))]
    <3>1. log' = Append(log, e) BY <2>2 DEF Return
    <3> HIDE DEF e
    <3> QED BY <1>1, <3>1, OneMore
  <2>6. InThisRun = i - 1 /\ InThisRun' = i BY <2>1, <2>3, <2>4 DEF InThisRun
  <2> QED BY <1>6, <2>3, <2>4, <2>5, <2>6
<1>11. CASE Proceed
  <2>1. verdict = "none" /\ stage = "returned" /\ UNCHANGED <<asked, log>> BY <1>11 DEF Proceed
  <2>2. Len(log) = Sums(Sizes)[Done] + i BY <1>6, <2>1 DEF InThisRun
  <2>3. CASE i' = i + 1 /\ stage' = "next" /\ UNCHANGED verdict
    <3>1. InThisRun' = (i + 1) - 1 BY <2>1, <2>3 DEF InThisRun
    <3> QED BY <1>1, <1>6, <2>1, <2>2, <2>3, <3>1
  <2>4. CASE verdict' = "failed" /\ UNCHANGED <<i, stage>>
    BY <1>1, <1>6, <2>1, <2>2, <2>4 DEF InThisRun
  <2>5. CASE i = Len(Order[asked]) /\ verdict' = "ok" /\ UNCHANGED <<i, stage>>
    BY <1>1, <1>6, <2>1, <2>2, <2>5 DEF InThisRun
  <2> QED BY <1>11, <2>3, <2>4, <2>5 DEF Proceed
<1> QED BY <1>1, <1>8, <1>9, <1>10, <1>11 DEF StepRun

LEMMA PlanNext == PlanInv /\ [Next]_vars => PlanInv'
<1> SUFFICES ASSUME PlanInv, [Next]_vars PROVE PlanInv'
  OBVIOUS
<1>1. CASE UseDaemon
  <2>1. /\ pc = "main" /\ Name # <<>> /\ route' = "daemon"
        /\ UNCHANGED <<cfg, req, printed, asked, i, stage, log, verdict>>
    BY <1>1 DEF UseDaemon, run
  <2>2. /\ cfg \in Configs /\ log = <<>> /\ IsList(log) /\ IsList(printed)
        /\ verdict = "idle" /\ stage = "next" /\ i = 1
    BY <2>1 DEF PlanInv
  <2>3. CASE IsSuite(Name[1]) \/ Name[1] \in Targets
    <3>1. todo' = DaemonJobs(Name[1]) /\ pc' = "jobs" /\ UNCHANGED exit BY <1>1, <2>3 DEF UseDaemon
    <3>2. Known /\ ServeAll(DaemonJobs(Name[1])) BY <2>1, <2>2, <2>3, DaemonServes
    <3>3. Known' /\ Ahead' /\ Sums(Sizes')[Done'] = 0 BY <2>1, <3>1, <3>2, FirstJobs
    <3>4. ~Printing' BY <2>1 DEF Printing
    <3>5. Calling' BY <2>1, <2>2 DEF Calling
    <3>6. Counted' BY <2>1, <2>2, <3>3, <3>4 DEF Counted, InThisRun
    <3> QED BY <2>1, <2>2, <3>1, <3>3, <3>5, <3>6 DEF PlanInv
  <2>4. CASE ~(IsSuite(Name[1]) \/ Name[1] \in Targets)
    <3>1. pc' = "done" /\ exit'.code = 1 BY <1>1, <2>4 DEF UseDaemon, Exit
    <3> QED BY <2>1, <2>2, <3>1 DEF PlanInv
  <2> QED BY <2>3, <2>4
<1>2. CASE StayLocal
  <2>1. /\ pc = "main" /\ pc' = "local" /\ UNCHANGED <<cfg, req, printed, exit, log, verdict, stage, i>>
        /\ route' = IF Name = <<>> THEN "default" ELSE "local"
    BY <1>2 DEF StayLocal, run
  <2>2. Name' = Name BY <2>1 DEF Name
  <2> QED BY <2>1, <2>2 DEF PlanInv
<1>3. CASE LoadFails \/ Refuse
  <2>1. /\ pc = "local" /\ pc' = "done" /\ exit'.code = 2 /\ UNCHANGED <<cfg, printed, log>>
    BY <1>3 DEF LoadFails, Refuse, Exit, run
  <2> QED BY <2>1 DEF PlanInv
<1>4. CASE Resolve
  <2>1. /\ pc = "local" /\ ~UsageError /\ todo' = LocalJobs /\ pc' = "jobs"
        /\ UNCHANGED <<cfg, req, route, printed, exit, asked, i, stage, log, verdict>>
    BY <1>4 DEF Resolve, run
  <2>2. /\ cfg \in Configs /\ log = <<>> /\ printed = <<>> /\ IsList(log) /\ IsList(printed)
        /\ verdict = "idle" /\ stage = "next" /\ i = 1
    BY <2>1 DEF PlanInv
  <2>3. Known /\ ServeAll(LocalJobs) BY <2>1, <2>2, LocalServes
  <2>4. Known' /\ Ahead' /\ Sums(Sizes')[Done'] = 0 BY <2>1, <2>3, FirstJobs
  <2>5. Calling' BY <2>1, <2>2 DEF Calling
  <2>6. Counted' BY <2>1, <2>2, <2>4 DEF Counted, InThisRun
  <2> QED BY <2>1, <2>2, <2>4, <2>5, <2>6 DEF PlanInv
<1>5. CASE PrintJob
  <2>1. /\ pc = "jobs" /\ todo # <<>> /\ Printing /\ todo' = Tail(todo)
        /\ UNCHANGED <<cfg, req, pc, route, exit, asked, i, stage, log, verdict>>
    BY <1>5 DEF PrintJob, Printing, run
  <2>2. /\ cfg \in Configs /\ IsList(log) /\ IsList(printed) /\ Known /\ Ahead /\ Calling /\ Counted
    BY <2>1 DEF PlanInv
  <2>3. /\ Known' /\ Ahead' /\ Done + 1 \in 1..Len(Entries)
        /\ todo[1].target = Entries[Done + 1].target /\ Head(todo) = todo[1]
        /\ Sums(Sizes')[Done'] = Sums(Sizes)[Done]
                + (IF PassedOver(Entries[Done + 1]) THEN 0 ELSE Len(Order[todo[1].target]))
    BY <2>1, <2>2, OneDone
  <2>4. ~PassedOver(Entries[Done + 1]) BY <2>1 DEF PassedOver, Printing
  <2> DEFINE order == Order[todo[1].target]
             shown == [k \in DOMAIN order |->
                        [target   |-> order[k],
                         commands |-> Printed(cfg.targets[order[k]], Head(todo).opts,
                                              order[k] = Head(todo).target)]]
  <2>5. printed' = printed \o shown BY <1>5, <2>3 DEF PrintJob
  <2>6. DOMAIN order = 1..Len(order) /\ Len(order) \in Nat
    <3>1. todo[1].target \in Targets BY <2>2, <2>3 DEF Known
    <3>2. order \in Seq(Targets) BY <3>1, OrderAssumption DEF IsOrderOf
    <3> HIDE DEF order
    <3> QED BY <3>2
  <2>7. IsList(shown) /\ Len(shown) = Len(order)
    <3>1. shown = [k \in 1..Len(order) |-> shown[k]] BY <2>6
    <3> HIDE DEF shown, order
    <3> QED BY <2>6, <3>1, ListOf
  <2> HIDE DEF shown
  <2>8. IsList(printed') /\ Len(printed') = Len(printed) + Len(order) BY <2>2, <2>5, <2>7, Longer
  <2>9. Len(printed) = Sums(Sizes)[Done] BY <2>1, <2>2 DEF Counted
  <2>10. Printing' BY <2>1 DEF Printing
  <2>11. Counted' BY <2>3, <2>4, <2>8, <2>9, <2>10 DEF Counted
  <2>12. Calling'
    <3>1. verdict = "idle" BY <2>1, <2>2 DEF Calling
    <3> QED BY <2>1, <2>2, <3>1 DEF Calling
  <2> QED BY <2>1, <2>2, <2>3, <2>8, <2>11, <2>12 DEF PlanInv
<1>6. CASE SkipJob
  <2>1. /\ pc = "jobs" /\ todo # <<>> /\ ~Printing /\ todo' = Tail(todo) /\ verdict = "idle"
        /\ route # "daemon" /\ cfg.targets[Head(todo).target].steps = <<>>
        /\ UNCHANGED <<cfg, req, pc, route, printed, exit, asked, i, stage, log, verdict>>
    BY <1>6 DEF SkipJob, Printing, run
  <2>2. /\ cfg \in Configs /\ IsList(log) /\ IsList(printed) /\ Known /\ Ahead /\ Calling /\ Counted
    BY <2>1 DEF PlanInv
  <2>3. /\ Known' /\ Ahead' /\ Head(todo) = todo[1] /\ Sums(Sizes)[Done] \in Nat
        /\ todo[1].target = Entries[Done + 1].target
        /\ Sums(Sizes')[Done'] = Sums(Sizes)[Done]
                + (IF PassedOver(Entries[Done + 1]) THEN 0 ELSE Len(Order[todo[1].target]))
    BY <2>1, <2>2, OneDone
  <2>4. PassedOver(Entries[Done + 1]) BY <2>1, <2>3 DEF PassedOver, Printing
  <2>5. ~Printing' BY <2>1 DEF Printing
  <2>6. Counted' BY <2>1, <2>2, <2>3, <2>4, <2>5 DEF Counted, InThisRun
  <2>7. Calling' BY <2>1, <2>2 DEF Calling
  <2> QED BY <2>1, <2>2, <2>3, <2>6, <2>7 DEF PlanInv
<1>7. CASE CallRun
  <2>1. /\ pc = "jobs" /\ todo # <<>> /\ verdict = "idle" /\ ~Printing
        /\ route = "daemon" \/ cfg.targets[Head(todo).target].steps # <<>>
        /\ asked' = Head(todo).target /\ i' = 1 /\ stage' = "next" /\ verdict' = "none"
        /\ UNCHANGED <<cfg, log, req, pc, route, todo, printed, exit>>
    BY <1>7 DEF CallRun, BeginRun, Printing
  <2>2. /\ cfg \in Configs /\ IsList(log) /\ IsList(printed) /\ Known /\ Ahead /\ Calling /\ Counted
    BY <2>1 DEF PlanInv
  <2>3. /\ Known' /\ Entries' = Entries /\ Sizes' = Sizes /\ Printing' = Printing
        /\ \A k : PassedOver(Entries[k])' = PassedOver(Entries[k])
    <3>1. Known' /\ Entries' = Entries BY <2>1, <2>2, SameEntries
    <3>2. /\ Sizes' = Sizes /\ Printing' = Printing
          /\ \A k : PassedOver(Entries[k])' = PassedOver(Entries[k])
      BY <2>1, SamePlan
    <3> QED BY <3>1, <3>2
  <2>4. Done' = Done /\ Ahead' BY <2>1, <2>2, <2>3 DEF Done, Ahead
  <2>5. Head(todo) = todo[1] /\ todo[1].target = Entries[Done + 1].target
    <3>1. Head(todo) = todo[1] /\ Len(todo) \in Nat \ {0} BY <2>1, <2>2, OneLess DEF Ahead
    <3>2. 1 \in 1..Len(todo) BY <3>1
    <3> QED BY <2>2, <3>1, <3>2 DEF Ahead
  <2>6. ~PassedOver(Entries[Done + 1]) BY <2>1, <2>5 DEF PassedOver
  <2>7. Calling' BY <2>1, <2>3, <2>4, <2>5, <2>6 DEF Calling
  <2>8. Counted' BY <2>1, <2>2, <2>3, <2>4 DEF Counted, InThisRun
  <2> QED BY <2>1, <2>2, <2>3, <2>4, <2>7, <2>8 DEF PlanInv
<1>8. CASE RunStep BY <1>8, CallCounts
<1>9. CASE EndJob
  <2>1. /\ pc = "jobs" /\ verdict \notin {"idle", "none"} /\ verdict' = "idle"
        /\ UNCHANGED <<cfg, req, route, printed, asked, i, stage, log>>
    BY <1>9 DEF EndJob, Archive
  <2>2. /\ cfg \in Configs /\ IsList(log) /\ IsList(printed) /\ Known /\ Ahead /\ Calling /\ Counted
    BY <2>1 DEF PlanInv
  <2>3. CASE verdict = "ok"
    <3>1. todo' = Tail(todo) /\ UNCHANGED <<pc, exit>> BY <1>9, <2>3 DEF EndJob
    <3>2. /\ todo # <<>> /\ asked = todo[1].target /\ ~Printing /\ ~PassedOver(Entries[Done + 1])
          /\ stage = "returned" /\ i = Len(Order[asked]) /\ i \in Nat
      BY <2>2, <2>3 DEF Calling
    <3>3. /\ Known' /\ Ahead' /\ Sums(Sizes)[Done] \in Nat
          /\ Sums(Sizes')[Done'] = Sums(Sizes)[Done]
                + (IF PassedOver(Entries[Done + 1]) THEN 0 ELSE Len(Order[todo[1].target]))
      BY <2>1, <2>2, <3>1, <3>2, OneDone
    <3>4. Len(log) = Sums(Sizes)[Done] + i BY <2>2, <2>3, <3>2 DEF Counted, InThisRun
    <3>5. ~Printing' BY <2>1, <3>2 DEF Printing
    <3>6. Counted' BY <2>1, <3>2, <3>3, <3>4, <3>5 DEF Counted, InThisRun
    <3>7. Calling' BY <2>1, <2>3, <3>2 DEF Calling
    <3> QED BY <2>1, <2>2, <3>1, <3>3, <3>6, <3>7 DEF PlanInv
  <2>4. CASE verdict # "ok"
    <3>1. pc' = "done" /\ exit'.code \in {1, 2} BY <1>9, <2>4 DEF EndJob, Exit
    <3> QED BY <2>1, <2>2, <3>1 DEF PlanInv
  <2> QED BY <2>3, <2>4
<1>10. CASE AllDone
  <2>1. /\ pc = "jobs" /\ todo = <<>> /\ pc' = "done" /\ UNCHANGED <<cfg, req, route, printed, log>>
    BY <1>10 DEF AllDone, Exit, run
  <2>2. /\ cfg \in Configs /\ IsList(log) /\ IsList(printed) /\ Known /\ Ahead /\ Calling /\ Counted
    BY <2>1 DEF PlanInv
  <2>3. Done = Len(Entries) /\ Sums(Sizes)[Done] \in Nat
    <3>1. Len(todo) = 0 /\ Len(Entries) \in Nat BY <2>1, <2>2, SizesAre
    <3>2. Done = Len(Entries) BY <3>1 DEF Done
    <3> QED BY <2>2, <3>1, <3>2, SizesAre, SumsAre
  <2>4. verdict = "idle" BY <2>1, <2>2 DEF Calling
  <2>5. AllCounted BY <2>2, <2>3, <2>4 DEF Counted, InThisRun, AllCounted
  <2>6. Known' /\ AllCounted'
    <3>1. Known' /\ Entries' = Entries /\ Sizes' = Sizes /\ Printing' = Printing
      BY <2>1, <2>2, SameEntries, SamePlan
    <3> QED BY <2>1, <2>5, <3>1 DEF AllCounted
  <2> QED BY <2>1, <2>2, <2>6 DEF PlanInv
<1>11. CASE Ended \/ UNCHANGED vars
  <2>1. UNCHANGED vars BY <1>11 DEF Ended
  <2>2. /\ (Known' <=> Known) /\ Entries' = Entries /\ Sizes' = Sizes /\ Printing' = Printing
        /\ \A k : PassedOver(Entries[k])' = PassedOver(Entries[k]) /\ Name' = Name
    BY <2>1, SameEntries, SamePlan DEF vars
  <2>3. Done' = Done /\ (Ahead' <=> Ahead) BY <2>1, <2>2 DEF Done, Ahead, vars
  <2>4. Calling' <=> Calling BY <2>1, <2>2, <2>3 DEF Calling, vars, run
  <2>5. Counted' <=> Counted BY <2>1, <2>2, <2>3 DEF Counted, InThisRun, vars, run
  <2>6. AllCounted' <=> AllCounted BY <2>1, <2>2 DEF AllCounted, vars, run
  <2> QED BY <2>1, <2>2, <2>3, <2>4, <2>5, <2>6 DEF PlanInv, vars, run
<1> QED BY <1>1, <1>2, <1>3, <1>4, <1>5, <1>6, <1>7, <1>8, <1>9, <1>10, <1>11 DEF Next

\* RunMain returns 0 only when everything the command asks for has been run, or
\* printed, to its end, by whichever way it came; and the code it returns tells
\* a failure of a target from a command that could not be carried out.
THEOREM ExitIsHonest == Spec => []ExitHonest
<1>1. PlanInv /\ CodeHonest => ExitHonest
  BY PlanParts DEF PlanInv, ExitHonest, AllCounted, Printing
<1> QED BY PlanInit, PlanNext, CodeIsHonest, <1>1, PTL DEF Spec

(***************************************************************************)
(* Invocation implements DagExec: its first run of Root is a run of the    *)
(* abstract specification, everything before and after it stutters.        *)
(***************************************************************************)

O == Order[Root]

\* A target runs only during a call; in a call for Root the targets before the
\* position i have succeeded, the ones behind it have not been started.
CallInv ==
    /\ ret \in [Targets -> {"none", "ok", "err", "noDocker"}]
    /\ verdict \in {"idle", "none", "ok", "failed", "rejected"}
    /\ stage \in {"next", "running", "returned"}
    /\ stage = "running" => verdict = "none"
    /\ asked = Root /\ verdict # "idle" =>
         /\ i \in 1..Len(O)
         /\ \A j \in 1..(i - 1) : ret[O[j]] = "ok"
         /\ \A j \in (i + 1)..Len(O) : ret[O[j]] = "none"
         /\ stage = "returned" <=> ret[O[i]] # "none"

CommandInv == past \in Seq(Made) /\ CallInv

Status == [t \in Targets |-> Progress(t)]

\* What OrderAssumption and RootAssumption say of the order of Root.
LEMMA RootOrder ==
  /\ Root \in Targets /\ O \in Seq(Targets) /\ Len(O) \in Nat \ {0}
  /\ \A k \in 1..Len(O) : O[k] \in Targets
  /\ \A j, k \in 1..Len(O) : j # k => O[j] # O[k]
  /\ \A t \in Targets : \E k \in 1..Len(O) : O[k] = t
  /\ \A k \in 1..Len(O) : \A d \in Deps[O[k]] : d \in Targets /\ \E j \in 1..(k - 1) : O[j] = d
<1>1. Root \in Targets /\ \A t \in Targets : \E k \in 1..Len(O) : O[k] = t
  BY RootAssumption DEF O
<1>2. IsOrderOf(Root, O) BY <1>1, OrderAssumption DEF O
<1>3. /\ O \in Seq(Targets)
      /\ \A j, k \in 1..Len(O) : j # k => O[j] # O[k]
      /\ \A k \in 1..Len(O) : \A d \in Deps[O[k]] : \E j \in 1..(k - 1) : O[j] = d
  BY <1>2 DEF IsOrderOf
<1>4. Len(O) \in Nat \ {0} BY <1>1, <1>3
<1>5. \A k \in 1..Len(O) : O[k] \in Targets BY <1>3
<1>6. ASSUME NEW k \in 1..Len(O), NEW d \in Deps[O[k]] PROVE d \in Targets
  BY <1>5, <1>6, OrderAssumption
<1> QED BY <1>1, <1>3, <1>4, <1>5, <1>6

LEMMA CallInit == Init => CommandInv
BY DEF Init, InitRun, NothingRun, CommandInv, CallInv, Made

\* What runTarget returns, for whatever reason.
LEMMA CallReturns ==
  ASSUME CallInv, stage = "running", NEW r \in {"ok", "err", "noDocker"}, NEW how, NEW commands,
         Return(r, how, commands)
  PROVE  CallInv'
<1>1. /\ ret' = [ret EXCEPT ![Current] = r] /\ stage' = "returned"
      /\ UNCHANGED <<asked, i, verdict>>
  BY DEF Return
<1>2. ret' \in [Targets -> {"none", "ok", "err", "noDocker"}] BY <1>1 DEF CallInv
<1>3. verdict = "none" BY DEF CallInv
<1>4. ASSUME asked = Root
      PROVE  /\ i \in 1..Len(O)
             /\ \A j \in 1..(i - 1) : ret'[O[j]] = "ok"
             /\ \A j \in (i + 1)..Len(O) : ret'[O[j]] = "none"
             /\ ret'[O[i]] # "none"
  <2>1. Current = O[i] BY <1>4 DEF Current, O
  <2>2. /\ i \in 1..Len(O)
        /\ \A j \in 1..(i - 1) : ret[O[j]] = "ok"
        /\ \A j \in (i + 1)..Len(O) : ret[O[j]] = "none"
    BY <1>3, <1>4 DEF CallInv
  <2>3. \A j \in 1..Len(O) : ret'[O[j]] = IF j = i THEN r ELSE ret[O[j]]
    BY <1>1, <2>1, <2>2, RootOrder DEF CallInv
  <2>4. \A j \in 1..(i - 1) : j \in 1..Len(O) /\ j # i BY <2>2, RootOrder
  <2>5. \A j \in (i + 1)..Len(O) : j \in 1..Len(O) /\ j # i BY <2>2, RootOrder
  <2> QED BY <2>2, <2>3, <2>4, <2>5
<1> QED BY <1>1, <1>2, <1>3, <1>4 DEF CallInv

LEMMA CallStep == CallInv /\ StepRun => CallInv'
<1> SUFFICES ASSUME CallInv, StepRun PROVE CallInv'
  OBVIOUS
<1>1. CASE RejectRun BY <1>1 DEF RejectRun, CallInv
<1>2. CASE StartTarget BY <1>2 DEF StartTarget, CallInv
<1>3. CASE SkipTarget \/ LookupFails \/ NoDocker \/ RunSteps BY <1>3, Returns, CallReturns
<1>4. CASE Proceed
  <2>1. /\ verdict = "none" /\ stage = "returned" /\ UNCHANGED <<asked, ret>>
    BY <1>4 DEF Proceed
  <2>2. CASE ret[Current] = "ok" /\ i < Len(Order[asked]) /\ i' = i + 1 /\ stage' = "next"
             /\ UNCHANGED verdict
    <3>1. ASSUME asked = Root
          PROVE  /\ i' \in 1..Len(O)
                 /\ \A j \in 1..(i' - 1) : ret[O[j]] = "ok"
                 /\ \A j \in (i' + 1)..Len(O) : ret[O[j]] = "none"
                 /\ ret[O[i']] = "none"
      <4>1. /\ i \in 1..Len(O)
            /\ \A j \in 1..(i - 1) : ret[O[j]] = "ok"
            /\ \A j \in (i + 1)..Len(O) : ret[O[j]] = "none"
        BY <2>1, <3>1 DEF CallInv
      <4>2. ret[O[i]] = "ok" /\ i < Len(O) BY <2>2, <3>1 DEF Current, O
      <4>3. Len(O) \in Nat /\ i \in Nat /\ i' = i + 1 BY <2>2, <4>1, RootOrder
      <4>4. i' \in (i + 1)..Len(O) /\ i' - 1 = i /\ i' \in 1..Len(O) BY <4>2, <4>3
      <4>5. \A j \in 1..(i' - 1) : j \in 1..(i - 1) \/ j = i BY <4>3, <4>4
      <4>6. \A j \in (i' + 1)..Len(O) : j \in (i + 1)..Len(O) BY <4>3
      <4> QED BY <4>1, <4>2, <4>4, <4>5, <4>6
    <3> QED BY <2>1, <2>2, <3>1 DEF CallInv
  <2>3. CASE verdict' \in {"ok", "failed"} /\ UNCHANGED <<i, stage>>
    BY <2>1, <2>3 DEF CallInv
  <2> QED BY <1>4, <2>2, <2>3 DEF Proceed
<1> QED BY <1>1, <1>2, <1>3, <1>4 DEF StepRun

LEMMA CallNext == CommandInv /\ [Next]_vars => CommandInv'
<1> SUFFICES ASSUME CommandInv, [Next]_vars PROVE CommandInv'
  OBVIOUS
<1>1. ASSUME UNCHANGED past PROVE past' \in Seq(Made') BY <1>1 DEF CommandInv, Made
<1>2. ASSUME UNCHANGED run, UNCHANGED past PROVE CommandInv'
  BY <1>1, <1>2 DEF CommandInv, CallInv, run
<1>3. CASE CallRun
  <2>1. UNCHANGED past /\ verdict' = "none" /\ i' = 1 /\ stage' = "next" /\ ret' = NothingRun
    BY <1>3 DEF CallRun, BeginRun
  <2>2. \A j \in 1..Len(O) : ret'[O[j]] = "none" BY <2>1, RootOrder DEF NothingRun
  <2>3. CallInv'
    <3>1. i' \in 1..Len(O) /\ \A j \in 1..(i' - 1) : FALSE BY <2>1, RootOrder
    <3>2. \A j \in (i' + 1)..Len(O) : ret'[O[j]] = "none" BY <2>1, <2>2, RootOrder
    <3>3. ret' \in [Targets -> {"none", "ok", "err", "noDocker"}] BY <2>1 DEF NothingRun
    <3> QED BY <2>1, <2>2, <3>1, <3>2, <3>3 DEF CallInv
  <2> QED BY <1>1, <2>1, <2>3 DEF CommandInv
<1>4. CASE RunStep BY <1>1, <1>4, CallStep DEF RunStep, CommandInv
<1>5. CASE EndJob
  <2>1. Archive BY <1>5 DEF EndJob
  <2>2. past' \in Seq(Made') BY <2>1, PastGrows DEF CommandInv
  <2>3. CallInv' BY <2>1 DEF Archive, CommandInv, CallInv
  <2> QED BY <2>2, <2>3 DEF CommandInv
<1> QED BY <1>2, <1>3, <1>4, <1>5
        DEF Next, UseDaemon, StayLocal, LoadFails, Refuse, Resolve, PrintJob, SkipJob, AllDone,
            Ended, vars

(***************************************************************************)
(* The steps of the abstract run.                                          *)
(***************************************************************************)

LEMMA RootRunIs ==
  ASSUME past \in Seq(Made)
  PROVE  /\ RootRuns \subseteq 1..Len(past) /\ Len(past) \in Nat
         /\ RootRuns = {} => RootRun = 0
         /\ RootRuns # {} => RootRun \in RootRuns /\ RootRun # 0 /\ \A k \in RootRuns : RootRun <= k
<1>1. RootRuns \subseteq 1..Len(past) /\ Len(past) \in Nat BY DEF RootRuns
<1>2. CASE RootRuns # {}
  <2>1. RootRuns \in SUBSET Nat BY <1>1
  <2>2. \E k \in RootRuns : \A j \in RootRuns : k <= j BY <1>2, <2>1, LeastOf
  <2>3. RootRun = CHOOSE k \in RootRuns : \A j \in RootRuns : k <= j BY <1>2 DEF RootRun
  <2>4. RootRun \in RootRuns /\ \A k \in RootRuns : RootRun <= k BY <2>2, <2>3
  <2> QED BY <1>1, <1>2, <2>4
<1> QED BY <1>1, <1>2 DEF RootRun

\* The first run of Root stays the first.
LEMMA RootRunStays ==
  ASSUME past \in Seq(Made), Archive
  PROVE  /\ RootRun # 0 => RootRun' = RootRun /\ past'[RootRun] = past[RootRun]
         /\ RootRun = 0 /\ asked # Root => RootRun' = 0
         /\ RootRun = 0 /\ asked = Root =>
              RootRun' = Len(past) + 1 /\ past'[RootRun'].ret = ret /\ past'[RootRun'].verdict = verdict
<1> DEFINE n == Len(past) + 1
<1>1. /\ DOMAIN past = 1..Len(past) /\ Len(past) \in Nat
      /\ DOMAIN past' = 1..n
      /\ past'[n] = [asked |-> asked, ret |-> ret, verdict |-> verdict]
      /\ \A k \in 1..Len(past) : past'[k] = past[k]
  BY PastGrows
<1>2. RootRuns' = RootRuns \union {k \in {n} : asked = Root}
  BY <1>1 DEF RootRuns
<1>3. n \notin RootRuns /\ n # 0 BY <1>1 DEF RootRuns
<1> HIDE DEF n
<1>4. CASE RootRuns = {} /\ asked # Root
  <2>1. RootRuns' = {} BY <1>2, <1>4
  <2> QED BY <1>4, <2>1 DEF RootRun
<1>5. CASE RootRuns = {} /\ asked = Root
  <2>1. RootRuns' = {n} BY <1>2, <1>5
  <2>2. n \in Nat BY <1>1 DEF n
  <2>3. RootRun' = n BY <2>1, <2>2 DEF RootRun
  <2>4. RootRun = 0 BY <1>5 DEF RootRun
  <2> QED BY <1>1, <1>3, <1>5, <2>3, <2>4 DEF n
<1>6. CASE RootRuns # {}
  <2>1. /\ RootRun \in RootRuns /\ RootRun # 0 /\ \A k \in RootRuns : RootRun <= k
        /\ RootRuns \subseteq 1..Len(past)
    BY <1>6, RootRunIs
  <2>2. RootRuns' \in SUBSET Nat /\ RootRuns' # {} /\ RootRun \in RootRuns'
    <3>1. n \in Nat /\ 1..Len(past) \subseteq Nat BY <1>1 DEF n
    <3>2. RootRuns \subseteq Nat BY <2>1, <3>1
    <3> QED BY <1>2, <2>1, <3>1, <3>2
  <2>3. RootRun' = CHOOSE k \in RootRuns' : \A j \in RootRuns' : k <= j BY <2>2 DEF RootRun
  <2>4. ASSUME NEW k \in RootRuns' PROVE RootRun <= k
    <3>1. CASE k \in RootRuns BY <2>1, <3>1
    <3>2. CASE k = n
      <4>1. RootRun \in 1..Len(past) /\ Len(past) \in Nat BY <1>1, <2>1
      <4> QED BY <3>2, <4>1 DEF n
    <3> QED BY <1>2, <3>1, <3>2
  <2>5. RootRun' \in RootRuns' /\ \A j \in RootRuns' : RootRun' <= j BY <2>2, <2>3, LeastOf
  <2>6. RootRun' = RootRun BY <2>2, <2>4, <2>5
  <2> QED BY <1>1, <2>1, <2>6
<1> QED BY <1>4, <1>5, <1>6

LEMMA SameCardinality == \A S : Abstract!Cardinality(S) = Cardinality(S)
BY DEF Abstract!Cardinality, Cardinality

LEMMA AbstractInit == Init => Abstract!Init
<1> SUFFICES ASSUME Init PROVE Abstract!Init
  OBVIOUS
<1>1. RootRun = 0 /\ ~IsNow BY DEF Init, InitRun, RootRun, RootRuns, IsNow
<1> QED BY <1>1 DEF Abstract!Init, Progress, Answer

\* What nothing but the first run of Root can change.
LEMMA Stutters ==
  ASSUME Status' = Status, Answer' = Answer
  PROVE  UNCHANGED Abstract!vars
BY DEF Abstract!vars, Status

LEMMA OthersStutter ==
  ASSUME UNCHANGED past, RootRun # 0 \/ (~IsNow /\ ~IsNow')
  PROVE  UNCHANGED Abstract!vars
<1>1. RootRun' = RootRun BY DEF RootRun, RootRuns
<1>2. \A t \in Targets : Progress(t)' = Progress(t) BY <1>1 DEF Progress
<1>3. Status' = Status BY <1>2 DEF Status
<1>4. Answer' = Answer BY <1>1 DEF Answer
<1> QED BY <1>3, <1>4, Stutters

\* Where the targets are while Root's run is going on.
LEMMA NowStatus ==
  ASSUME CommandInv, IsNow
  PROVE  /\ asked = Root /\ verdict # "idle" /\ Current = O[i] /\ i \in 1..Len(O) /\ Current \in Targets
         /\ Answer = verdict
         /\ \A t \in Targets : Status[t] = IF stage = "running" /\ t = Current THEN "running"
                                           ELSE Outcome(ret[t])
BY RootOrder DEF IsNow, Answer, Status, Progress, Current, O, CommandInv, CallInv


\* A target returns.
LEMMA ReturnFinishes ==
  ASSUME CommandInv, IsNow, SkipTarget \/ LookupFails \/ NoDocker \/ RunSteps, UNCHANGED past
  PROVE  Abstract!Finish(Current)
<1>1. /\ stage = "running"
      /\ \E r \in {"ok", "err", "noDocker"} : \E how, commands : Return(r, how, commands)
  BY Returns
<1>2. PICK r \in {"ok", "err", "noDocker"} :
         ret' = [ret EXCEPT ![Current] = r] /\ stage' = "returned"
         /\ UNCHANGED <<asked, i, verdict>>
  BY <1>1 DEF Return
<1>3. /\ Current \in Targets /\ Current' = Current
      /\ \A t \in Targets : Status[t] = IF stage = "running" /\ t = Current THEN "running"
                                        ELSE Outcome(ret[t])
  BY <1>2, NowStatus DEF Current
<1>4. IsNow' /\ RootRun' = RootRun BY <1>2 DEF IsNow, RootRun, RootRuns
<1>5. RootRun = 0 BY DEF IsNow
<1>6. \A t \in Targets : Status'[t] = IF t = Current THEN Outcome(r) ELSE Status[t]
  BY <1>1, <1>2, <1>3, <1>4, <1>5 DEF Status, Progress, CommandInv, CallInv
<1>7. Outcome(r) \in {"ok", "failed"} BY DEF Outcome
<1>8. Status' = [Status EXCEPT ![Current] = Outcome(r)] BY <1>6 DEF Status
<1>9. Answer' = Answer BY <1>2, <1>4, <1>5 DEF Answer, IsNow
<1>10. Status[Current] = "running" BY <1>1, <1>3
<1> QED BY <1>7, <1>8, <1>9, <1>10 DEF Abstract!Finish, Status

LEMMA RunStepImplements ==
  ASSUME CommandInv, StepRun, UNCHANGED past, IsNow
  PROVE  [Abstract!Next]_(Abstract!vars)
<1>1. /\ asked = Root /\ Current = O[i] /\ i \in 1..Len(O) /\ Current \in Targets
      /\ Answer = verdict
      /\ \A t \in Targets : Status[t] = IF stage = "running" /\ t = Current THEN "running"
                                        ELSE Outcome(ret[t])
  BY NowStatus
<1>2. RootRun = 0 /\ verdict # "idle" BY DEF IsNow
<1>3. RootRun' = 0 BY <1>2 DEF RootRun, RootRuns
<1>4. /\ \A j \in 1..(i - 1) : ret[O[j]] = "ok"
      /\ \A j \in (i + 1)..Len(O) : ret[O[j]] = "none"
      /\ stage = "returned" <=> ret[O[i]] # "none"
  BY <1>1, <1>2 DEF CommandInv, CallInv
<1>5. CASE RejectRun
  <2>1. /\ verdict = "none" /\ i = 1 /\ stage = "next" /\ verdict' = "rejected"
        /\ UNCHANGED <<asked, i, stage, ret>>
    BY <1>5 DEF RejectRun
  <2>2. \A t \in Targets : Status[t] = "waiting"
    <3> SUFFICES ASSUME NEW t \in Targets PROVE Outcome(ret[t]) = "waiting"
      BY <1>1, <2>1
    <3>1. PICK k \in 1..Len(O) : O[k] = t BY RootOrder
    <3>2. k = i \/ k \in (i + 1)..Len(O) BY <2>1, RootOrder
    <3>3. ret[t] = "none" BY <1>4, <2>1, <3>1, <3>2
    <3> QED BY <3>3 DEF Outcome
  <2>3. IsNow' /\ Current' = Current BY <1>1, <1>3, <2>1 DEF IsNow, Current
  <2>4. Status' = Status
    <3>1. \A t \in Targets : Progress(t)' = Progress(t)
      BY <1>2, <1>3, <2>1, <2>3 DEF Progress, IsNow
    <3> QED BY <3>1 DEF Status
  <2>5. Answer' = "rejected" BY <1>3, <2>1, <2>3 DEF Answer
  <2> QED BY <1>1, <2>1, <2>2, <2>4, <2>5 DEF Abstract!Next, Abstract!Reject, Status
<1>6. CASE StartTarget
  <2>1. /\ verdict = "none" /\ stage = "next" /\ stage' = "running"
        /\ UNCHANGED <<asked, i, ret, verdict>>
    BY <1>6 DEF StartTarget
  <2>2. IsNow' /\ Current' = Current BY <1>1, <1>2, <1>3, <2>1 DEF IsNow, Current
  <2>3. Status[Current] = "waiting" /\ \A t \in Targets : Status[t] # "running"
    BY <1>1, <1>4, <2>1 DEF Outcome
  <2>4. \A d \in Deps[Current] : Status[d] = "ok"
    <3> SUFFICES ASSUME NEW d \in Deps[Current] PROVE Status[d] = "ok"
      OBVIOUS
    <3>1. d \in Targets /\ \E j \in 1..(i - 1) : O[j] = d BY <1>1, RootOrder
    <3>2. ret[d] = "ok" BY <1>4, <3>1
    <3> QED BY <1>1, <2>1, <3>1, <3>2 DEF Outcome
  <2>5. Abstract!Running = {} BY <2>3 DEF Abstract!Running, Status
  <2>6. Cardinality(Abstract!Running) < 1 BY <2>5, FS_EmptySet
  <2>7. \A t \in Targets : Status'[t] = IF t = Current THEN "running" ELSE Status[t]
    BY <1>1, <1>2, <1>3, <2>1, <2>2 DEF Status, Progress
  <2>8. Status' = [Status EXCEPT ![Current] = "running"] BY <2>7 DEF Status
  <2>9. Answer' = Answer BY <1>2, <1>3, <2>1, <2>2 DEF Answer, IsNow
  <2>10. Abstract!Ready(Current)
    BY <1>1, <2>1, <2>3, <2>4, RootOrder, OrderAssumption DEF Abstract!Ready, Status
  <2>11. Abstract!Start(Current)
    BY <2>5, <2>6, <2>8, <2>9, <2>10, SameCardinality DEF Abstract!Start, Status
  <2> QED BY <1>1, <2>11 DEF Abstract!Next
<1>7. CASE SkipTarget \/ LookupFails \/ NoDocker \/ RunSteps
  BY <1>1, <1>7, ReturnFinishes DEF Abstract!Next
<1>8. CASE Proceed
  <2>1. verdict = "none" /\ stage = "returned" /\ UNCHANGED <<asked, ret>>
    BY <1>8 DEF Proceed
  <2>2. stage' # "running" BY <1>8, <2>1 DEF Proceed
  <2>3. verdict' # "idle" BY <1>8, <2>1 DEF Proceed
  <2>4. IsNow' BY <1>1, <1>3, <2>1, <2>3 DEF IsNow
  <2>5. Status' = Status
    <3>1. \A t \in Targets : Progress(t)' = Progress(t)
      BY <1>2, <1>3, <2>1, <2>2, <2>4 DEF Progress, IsNow
    <3> QED BY <3>1 DEF Status
  <2>6. Answer' = verdict' BY <1>3, <2>4 DEF Answer
  <2>7. CASE ret[Current] # "ok" /\ verdict' = "failed"
    <3>1. Status[Current] = "failed"
      BY <1>1, <1>4, <2>1, <2>7 DEF Outcome, CommandInv, CallInv
    <3>2. Abstract!Running = {} BY <1>1, <2>1 DEF Abstract!Running, Status, Outcome
    <3> QED BY <1>1, <2>1, <2>5, <2>6, <2>7, <3>1, <3>2 DEF Abstract!Next, Abstract!Fail, Status
  <2>8. CASE UNCHANGED verdict
    BY <1>1, <2>5, <2>6, <2>8, Stutters
  <2>9. CASE ret[Current] = "ok" /\ i = Len(Order[asked]) /\ verdict' = "ok"
    <3>1. \A t \in Targets : Status[t] = "ok"
      <4> SUFFICES ASSUME NEW t \in Targets PROVE Status[t] = "ok"
        OBVIOUS
      <4>1. PICK k \in 1..Len(O) : O[k] = t BY RootOrder
      <4>2. i = Len(O) BY <1>1, <2>9 DEF O
      <4>3. k = i \/ k \in 1..(i - 1) BY <4>2, RootOrder
      <4>4. ret[t] = "ok" BY <1>1, <1>4, <2>9, <4>1, <4>3
      <4> QED BY <1>1, <2>1, <4>4 DEF Outcome
    <3> QED BY <1>1, <2>1, <2>5, <2>6, <2>9, <3>1 DEF Abstract!Next, Abstract!Succeed, Status
  <2> QED BY <1>8, <2>7, <2>8, <2>9 DEF Proceed
<1> QED BY <1>5, <1>6, <1>7, <1>8 DEF StepRun

LEMMA AbstractStep == CommandInv /\ [Next]_vars => [Abstract!Next]_(Abstract!vars)
<1> SUFFICES ASSUME CommandInv, [Next]_vars PROVE [Abstract!Next]_(Abstract!vars)
  OBVIOUS
<1>1. ASSUME UNCHANGED run, UNCHANGED past PROVE UNCHANGED Abstract!vars
  <2>1. RootRun' = RootRun /\ Current' = Current BY <1>1 DEF RootRun, RootRuns, Current, run
  <2>2. IsNow' = IsNow BY <1>1, <2>1 DEF IsNow, run
  <2>3. \A t \in Targets : Progress(t)' = Progress(t) BY <1>1, <2>1, <2>2 DEF Progress, run
  <2>4. Status' = Status BY <2>3 DEF Status
  <2>5. Answer' = Answer BY <1>1, <2>1, <2>2 DEF Answer, run
  <2> QED BY <2>4, <2>5, Stutters
<1>2. CASE CallRun
  <2>1. /\ UNCHANGED past /\ verdict = "idle" /\ verdict' = "none"
        /\ stage' = "next" /\ ret' = NothingRun
    BY <1>2 DEF CallRun, BeginRun
  <2>2. RootRun' = RootRun BY <2>1 DEF RootRun, RootRuns
  <2>3. ~IsNow BY <2>1 DEF IsNow
  <2>4. \A t \in Targets : Progress(t)' = Progress(t)
    BY <2>1, <2>2, <2>3 DEF Progress, Outcome, NothingRun
  <2>5. Status' = Status BY <2>4 DEF Status
  <2>6. Answer' = Answer BY <2>1, <2>2, <2>3 DEF Answer
  <2> QED BY <2>5, <2>6, Stutters
<1>3. CASE RunStep
  <2>1. StepRun /\ UNCHANGED past BY <1>3 DEF RunStep
  <2>2. CASE IsNow BY <2>1, <2>2, RunStepImplements
  <2>3. CASE RootRun # 0 BY <2>1, <2>3, OthersStutter
  <2>4. CASE RootRun = 0 /\ ~IsNow
    <3>1. UNCHANGED asked
      BY <2>1, Returns DEF StepRun, RejectRun, StartTarget, Proceed, Return
    <3>2. verdict = "idle" => verdict' = "idle"
      <4> SUFFICES ASSUME verdict = "idle" PROVE FALSE
        OBVIOUS
      <4>1. stage # "running" BY DEF CommandInv, CallInv
      <4> QED BY <2>1, <4>1, Returns DEF StepRun, RejectRun, StartTarget, Proceed
    <3>3. RootRun' = 0 BY <2>1, <2>4 DEF RootRun, RootRuns
    <3> QED BY <2>1, <2>4, <3>1, <3>2, <3>3, OthersStutter DEF IsNow
  <2> QED BY <2>2, <2>3, <2>4
<1>4. CASE EndJob
  <2>1. /\ Archive /\ verdict \notin {"idle", "none"} /\ verdict' = "idle" /\ past \in Seq(Made)
    BY <1>4 DEF EndJob, Archive, CommandInv
  <2>2. /\ RootRun # 0 => RootRun' = RootRun /\ past'[RootRun] = past[RootRun]
        /\ RootRun = 0 /\ asked # Root => RootRun' = 0
        /\ RootRun = 0 /\ asked = Root =>
             RootRun' = Len(past) + 1 /\ past'[RootRun'].ret = ret /\ past'[RootRun'].verdict = verdict
    BY <2>1, RootRunStays
  <2>3. ~IsNow' BY <2>1 DEF IsNow
  <2>4. CASE RootRun # 0 \/ asked # Root
    <3>1. ~IsNow \/ RootRun # 0 BY <2>4 DEF IsNow
    <3>2. \A t \in Targets : Progress(t)' = Progress(t)
      BY <2>2, <2>3, <2>4, <3>1 DEF Progress, IsNow
    <3>3. Status' = Status BY <3>2 DEF Status
    <3>4. Answer' = Answer BY <2>2, <2>3, <2>4, <3>1 DEF Answer
    <3> QED BY <3>3, <3>4, Stutters
  <2>5. CASE RootRun = 0 /\ asked = Root
    <3>1. IsNow /\ stage # "running" BY <2>1, <2>5 DEF IsNow, CommandInv, CallInv
    <3>2. RootRun' # 0 BY <2>2, <2>5, <2>1 DEF Made
    <3>3. \A t \in Targets : Progress(t)' = Progress(t)
      BY <2>2, <2>5, <3>1, <3>2 DEF Progress
    <3>4. Status' = Status BY <3>3 DEF Status
    <3>5. Answer' = Answer BY <2>2, <2>5, <3>1, <3>2 DEF Answer
    <3> QED BY <3>4, <3>5, Stutters
  <2> QED BY <2>4, <2>5
<1> QED BY <1>1, <1>2, <1>3, <1>4
        DEF Next, UseDaemon, StayLocal, LoadFails, Refuse, Resolve, PrintJob, SkipJob, AllDone,
            Ended, vars

\* Whichever way a command takes (daemon, default target, target, suite), and
\* with whatever options, the sequential mode of runner.Run starts a target
\* only after its dependencies have succeeded, one at a time and none twice,
\* and returns nil only if all of them succeeded.
THEOREM CommandImplements == Spec => ImplementsDagExec
<1>1. Spec => []CommandInv BY CallInit, CallNext, PTL DEF Spec
<1> QED BY <1>1, AbstractInit, AbstractStep, PTL DEF Spec, ImplementsDagExec, Abstract!Spec

(***************************************************************************)
(* Options: environments and words.                                        *)
(***************************************************************************)

LEMMA OverIs ==
  ASSUME NEW f, NEW g
  PROVE  /\ DOMAIN Over(f, g) = DOMAIN f \cup DOMAIN g
         /\ \A x \in DOMAIN f : Over(f, g)[x] = f[x]
         /\ \A x \in DOMAIN g \ DOMAIN f : Over(f, g)[x] = g[x]
         /\ Over(f, g) = [x \in DOMAIN f \cup DOMAIN g |-> Over(f, g)[x]]
BY DEF Over

\* The first layer that has a key is unique.
LEMMA FirstLayer ==
  ASSUME NEW L, DOMAIN L \subseteq Nat \ {0}, NEW j \in DOMAIN L, NEW key,
         key \in DOMAIN L[j], \A k \in 1..(j - 1) : key \notin DOMAIN L[k]
  PROVE  key \in DOMAIN Layered(L) /\ Layered(L)[key] = L[j][key]
<1> DEFINE IsFirst(m) == key \in DOMAIN L[m] /\ \A k \in 1..(m - 1) : key \notin DOMAIN L[k]
           leading == CHOOSE m \in DOMAIN L : IsFirst(m)
<1>1. key \in UNION {DOMAIN L[m] : m \in DOMAIN L} OBVIOUS
<1>2. Layered(L)[key] = L[leading][key] /\ key \in DOMAIN Layered(L) BY <1>1 DEF Layered
<1>3. \A m \in DOMAIN L : IsFirst(m) => m = j
  <2> SUFFICES ASSUME NEW m \in DOMAIN L, IsFirst(m), m # j PROVE FALSE
    OBVIOUS
  <2>1. m < j \/ j < m OBVIOUS
  <2>2. CASE m < j
    <3>1. m \in 1..(j - 1) BY <2>2
    <3> QED BY <3>1
  <2>3. CASE j < m
    <3>1. j \in 1..(m - 1) BY <2>3
    <3> QED BY <3>1
  <2> QED BY <2>1, <2>2, <2>3
<1>4. IsFirst(j) OBVIOUS
<1> HIDE DEF IsFirst
<1>5. leading = j BY <1>3, <1>4
<1> QED BY <1>2, <1>5

\* What Layered says layer by layer is what Merge does map by map.
LEMMA SixLayers ==
  ASSUME NEW a, NEW b, NEW c, NEW d, NEW e, NEW f
  PROVE  Layered(<<a, b, c, d, e, f>>) = Over(a, Over(b, Over(c, Over(d, Over(e, f)))))
<1> DEFINE L == <<a, b, c, d, e, f>>
           R5 == Over(e, f)
           R4 == Over(d, R5)
           R3 == Over(c, R4)
           R2 == Over(b, R3)
           R1 == Over(a, R2)
<1>1. DOMAIN L = 1..6 /\ L[1] = a /\ L[2] = b /\ L[3] = c /\ L[4] = d /\ L[5] = e /\ L[6] = f
  OBVIOUS
<1>2. /\ DOMAIN R5 = DOMAIN e \cup DOMAIN f
      /\ \A x \in DOMAIN e : R5[x] = e[x]
      /\ \A x \in DOMAIN f \ DOMAIN e : R5[x] = f[x]
  BY OverIs
<1>3. /\ DOMAIN R4 = DOMAIN d \cup DOMAIN R5
      /\ \A x \in DOMAIN d : R4[x] = d[x]
      /\ \A x \in DOMAIN R5 \ DOMAIN d : R4[x] = R5[x]
  <2> HIDE DEF R5
  <2> QED BY OverIs
<1>4. /\ DOMAIN R3 = DOMAIN c \cup DOMAIN R4
      /\ \A x \in DOMAIN c : R3[x] = c[x]
      /\ \A x \in DOMAIN R4 \ DOMAIN c : R3[x] = R4[x]
  <2> HIDE DEF R4
  <2> QED BY OverIs
<1>5. /\ DOMAIN R2 = DOMAIN b \cup DOMAIN R3
      /\ \A x \in DOMAIN b : R2[x] = b[x]
      /\ \A x \in DOMAIN R3 \ DOMAIN b : R2[x] = R3[x]
  <2> HIDE DEF R3
  <2> QED BY OverIs
<1>6. /\ DOMAIN R1 = DOMAIN a \cup DOMAIN R2
      /\ \A x \in DOMAIN a : R1[x] = a[x]
      /\ \A x \in DOMAIN R2 \ DOMAIN a : R1[x] = R2[x]
      /\ R1 = [x \in DOMAIN R1 |-> R1[x]]
  <2> HIDE DEF R2
  <2>1. DOMAIN R1 = DOMAIN a \cup DOMAIN R2 /\ R1 = [x \in DOMAIN a \cup DOMAIN R2 |-> R1[x]] BY OverIs
  <2>2. /\ \A x \in DOMAIN a : R1[x] = a[x]
        /\ \A x \in DOMAIN R2 \ DOMAIN a : R1[x] = R2[x]
    BY OverIs
  <2> HIDE DEF R1
  <2> QED BY <2>1, <2>2
<1>7. R1 = Over(a, Over(b, Over(c, Over(d, Over(e, f))))) OBVIOUS
<1> HIDE DEF L, R1, R2, R3, R4, R5
<1>8. DOMAIN Layered(L) = UNION {DOMAIN L[j] : j \in 1..6} /\ Layered(L) = [x \in DOMAIN Layered(L) |-> Layered(L)[x]]
  BY <1>1 DEF Layered
<1>9. DOMAIN Layered(L) = DOMAIN R1
  <2>1. 1..6 = {1, 2, 3, 4, 5, 6} OBVIOUS
  <2> QED BY <1>1, <1>2, <1>3, <1>4, <1>5, <1>6, <1>8, <2>1
<1>10. ASSUME NEW x, NEW j \in DOMAIN L, x \in DOMAIN L[j], \A k \in 1..(j - 1) : x \notin DOMAIN L[k]
       PROVE  Layered(L)[x] = L[j][x]
  <2>1. DOMAIN L \subseteq Nat \ {0} BY <1>1
  <2> QED BY <1>10, <2>1, FirstLayer
<1>11. ASSUME NEW x \in DOMAIN R1 PROVE Layered(L)[x] = R1[x]
  <2>1. CASE x \in DOMAIN a
    <3>1. \A k \in 1..(1 - 1) : x \notin DOMAIN L[k] OBVIOUS
    <3>2. Layered(L)[x] = L[1][x] BY <1>1, <1>10, <2>1, <3>1
    <3> QED BY <1>1, <1>6, <2>1, <3>2
  <2>2. CASE x \in DOMAIN b /\ x \notin DOMAIN a
    <3>1. \A k \in 1..(2 - 1) : x \notin DOMAIN L[k] BY <1>1, <2>2
    <3>2. Layered(L)[x] = L[2][x] BY <1>1, <1>10, <2>2, <3>1
    <3> QED BY <1>1, <1>5, <1>6, <2>2, <3>2
  <2>3. CASE x \in DOMAIN c /\ x \notin DOMAIN a /\ x \notin DOMAIN b
    <3>1. \A k \in 1..(3 - 1) : x \notin DOMAIN L[k] BY <1>1, <2>3
    <3>2. Layered(L)[x] = L[3][x] BY <1>1, <1>10, <2>3, <3>1
    <3> QED BY <1>1, <1>4, <1>5, <1>6, <2>3, <3>2
  <2>4. CASE x \in DOMAIN d /\ x \notin DOMAIN a /\ x \notin DOMAIN b /\ x \notin DOMAIN c
    <3>1. \A k \in 1..(4 - 1) : x \notin DOMAIN L[k] BY <1>1, <2>4
    <3>2. Layered(L)[x] = L[4][x] BY <1>1, <1>10, <2>4, <3>1
    <3> QED BY <1>1, <1>3, <1>4, <1>5, <1>6, <2>4, <3>2
  <2>5. CASE x \in DOMAIN e /\ x \notin DOMAIN a /\ x \notin DOMAIN b /\ x \notin DOMAIN c /\ x \notin DOMAIN d
    <3>1. \A k \in 1..(5 - 1) : x \notin DOMAIN L[k] BY <1>1, <2>5
    <3>2. Layered(L)[x] = L[5][x] BY <1>1, <1>10, <2>5, <3>1
    <3> QED BY <1>1, <1>2, <1>3, <1>4, <1>5, <1>6, <2>5, <3>2
  <2>6. CASE x \notin DOMAIN a /\ x \notin DOMAIN b /\ x \notin DOMAIN c /\ x \notin DOMAIN d /\ x \notin DOMAIN e
    <3>1. x \in DOMAIN f BY <1>2, <1>3, <1>4, <1>5, <1>6, <2>6
    <3>2. \A k \in 1..(6 - 1) : x \notin DOMAIN L[k] BY <1>1, <2>6
    <3>3. Layered(L)[x] = L[6][x] BY <1>1, <1>10, <3>1, <3>2
    <3> QED BY <1>1, <1>2, <1>3, <1>4, <1>5, <1>6, <2>6, <3>1, <3>3
  <2> QED BY <2>1, <2>2, <2>3, <2>4, <2>5, <2>6
<1>12. Layered(L) = R1 BY <1>6, <1>8, <1>9, <1>11
<1> QED BY <1>7, <1>12 DEF L
LEMMA FourLayers ==
  ASSUME NEW a, NEW b, NEW c, NEW d
  PROVE  Layered(<<a, b, c, d>>) = Over(a, Over(b, Over(c, d)))
<1> DEFINE L == <<a, b, c, d>>
           R3 == Over(c, d)
           R2 == Over(b, R3)
           R1 == Over(a, R2)
<1>1. DOMAIN L = 1..4 /\ L[1] = a /\ L[2] = b /\ L[3] = c /\ L[4] = d OBVIOUS
<1>2. /\ DOMAIN R3 = DOMAIN c \cup DOMAIN d
      /\ \A x \in DOMAIN c : R3[x] = c[x]
      /\ \A x \in DOMAIN d \ DOMAIN c : R3[x] = d[x]
  BY OverIs
<1>3. /\ DOMAIN R2 = DOMAIN b \cup DOMAIN R3
      /\ \A x \in DOMAIN b : R2[x] = b[x]
      /\ \A x \in DOMAIN R3 \ DOMAIN b : R2[x] = R3[x]
  <2> HIDE DEF R3
  <2> QED BY OverIs
<1>4. /\ DOMAIN R1 = DOMAIN a \cup DOMAIN R2
      /\ \A x \in DOMAIN a : R1[x] = a[x]
      /\ \A x \in DOMAIN R2 \ DOMAIN a : R1[x] = R2[x]
      /\ R1 = [x \in DOMAIN R1 |-> R1[x]]
  <2> HIDE DEF R2
  <2>1. DOMAIN R1 = DOMAIN a \cup DOMAIN R2 /\ R1 = [x \in DOMAIN a \cup DOMAIN R2 |-> R1[x]] BY OverIs
  <2>2. /\ \A x \in DOMAIN a : R1[x] = a[x]
        /\ \A x \in DOMAIN R2 \ DOMAIN a : R1[x] = R2[x]
    BY OverIs
  <2> HIDE DEF R1
  <2> QED BY <2>1, <2>2
<1>5. R1 = Over(a, Over(b, Over(c, d))) OBVIOUS
<1> HIDE DEF L, R1, R2, R3
<1>6. DOMAIN Layered(L) = UNION {DOMAIN L[j] : j \in 1..4} /\ Layered(L) = [x \in DOMAIN Layered(L) |-> Layered(L)[x]]
  BY <1>1 DEF Layered
<1>7. DOMAIN Layered(L) = DOMAIN R1
  <2>1. 1..4 = {1, 2, 3, 4} OBVIOUS
  <2> QED BY <1>1, <1>2, <1>3, <1>4, <1>6, <2>1
<1>8. ASSUME NEW x, NEW j \in DOMAIN L, x \in DOMAIN L[j], \A k \in 1..(j - 1) : x \notin DOMAIN L[k]
       PROVE  Layered(L)[x] = L[j][x]
  <2>1. DOMAIN L \subseteq Nat \ {0} BY <1>1
  <2> QED BY <1>8, <2>1, FirstLayer
<1>9. ASSUME NEW x \in DOMAIN R1 PROVE Layered(L)[x] = R1[x]
  <2>1. CASE x \in DOMAIN a
    <3>1. \A k \in 1..(1 - 1) : x \notin DOMAIN L[k] OBVIOUS
    <3>2. Layered(L)[x] = L[1][x] BY <1>1, <1>8, <2>1, <3>1
    <3> QED BY <1>1, <1>4, <2>1, <3>2
  <2>2. CASE x \in DOMAIN b /\ x \notin DOMAIN a
    <3>1. \A k \in 1..(2 - 1) : x \notin DOMAIN L[k] BY <1>1, <2>2
    <3>2. Layered(L)[x] = L[2][x] BY <1>1, <1>8, <2>2, <3>1
    <3> QED BY <1>1, <1>3, <1>4, <2>2, <3>2
  <2>3. CASE x \in DOMAIN c /\ x \notin DOMAIN a /\ x \notin DOMAIN b
    <3>1. \A k \in 1..(3 - 1) : x \notin DOMAIN L[k] BY <1>1, <2>3
    <3>2. Layered(L)[x] = L[3][x] BY <1>1, <1>8, <2>3, <3>1
    <3> QED BY <1>1, <1>2, <1>3, <1>4, <2>3, <3>2
  <2>4. CASE x \notin DOMAIN a /\ x \notin DOMAIN b /\ x \notin DOMAIN c
    <3>1. x \in DOMAIN d BY <1>2, <1>3, <1>4, <2>4
    <3>2. \A k \in 1..(4 - 1) : x \notin DOMAIN L[k] BY <1>1, <2>4
    <3>3. Layered(L)[x] = L[4][x] BY <1>1, <1>8, <3>1, <3>2
    <3> QED BY <1>1, <1>2, <1>3, <1>4, <2>4, <3>1, <3>3
  <2> QED BY <2>1, <2>2, <2>3, <2>4
<1>10. Layered(L) = R1 BY <1>4, <1>6, <1>7, <1>9
<1> QED BY <1>5, <1>10 DEF L

\* No values, no overrides and no arguments: templates are left as they are.
LEMMA LeftAsItIs ==
  ASSUME NEW t, NEW w, NEW o, t.args = <<>>, Values = Nothing, req.setArgs = Nothing,
         DOMAIN o.declared = {}, DOMAIN o.live = {}
  PROVE  Expand(w, o) = w /\ Meant(t, w) = w
BY DEF Expand, Meant

\* What the command line found for a template is what was meant.
Finds(t, o) ==
    /\ IsMap(req.setArgs) /\ IsMap(Values) /\ IsList(t.args)
    /\ DOMAIN o.declared = DOMAIN req.setArgs \cup ArgNames(t)
    /\ \A x \in DOMAIN req.setArgs : o.declared[x] = req.setArgs[x]
    /\ \A k \in DOMAIN t.args : LET x == t.args[k].name IN
         x \notin DOMAIN req.setArgs =>
            o.declared[x] = IF x \in DOMAIN Values THEN Values[x] ELSE t.args[k].default
    /\ DOMAIN o.live = {} <=> DOMAIN Values \subseteq ArgNames(t)
    /\ \A x \in LiveKeys(t) : Lookup(o.live, x) =
         IF x \in DOMAIN Values \ ArgNames(t) THEN Values[x] ELSE "<no value>"

LEMMA LeastChosen ==
  ASSUME NEW S, NEW x \in S, x[1] \in Int, \A y \in S : y = x \/ (y[1] \in Int /\ x[1] < y[1])
  PROVE  (CHOOSE z \in S : \A y \in S : z[1] <= y[1]) = x
<1>1. \A y \in S : x[1] <= y[1] OBVIOUS
<1>2. \A z \in S : (\A y \in S : z[1] <= y[1]) => z = x
  <2> SUFFICES ASSUME NEW z \in S, \A y \in S : z[1] <= y[1], z # x PROVE FALSE
    OBVIOUS
  <2>1. z[1] \in Int /\ x[1] < z[1] /\ z[1] <= x[1] OBVIOUS
  <2> QED BY <2>1
<1> QED BY <1>1, <1>2

LEMMA ExpandedAsMeant ==
  ASSUME NEW t, NEW o, NEW w, Finds(t, o), w[1] \in {"word", "arg", "live"},
         w[1] = "live" => w[2] \in LiveKeys(t)
  PROVE  Expand(w, o) = Meant(t, w)
<1> DEFINE x == w[2]
           args == {k \in DOMAIN t.args : t.args[k].name = x}
           none == t.args = <<>> /\ Values = Nothing /\ req.setArgs = Nothing
<1>1. IsMap(req.setArgs) /\ IsMap(Values) /\ IsList(t.args) BY DEF Finds
<1>2. x \in ArgNames(t) <=> args # {} BY DEF ArgNames
<1>3. none <=> DOMAIN o.declared = {} /\ DOMAIN o.live = {}
  <2>1. ArgNames(t) = {} <=> t.args = <<>>
    <3>1. DOMAIN t.args = 1..Len(t.args) /\ Len(t.args) \in Nat /\ t.args \in Seq({t.args[k] : k \in DOMAIN t.args})
      BY <1>1, ListIs DEF IsList
    <3>2. DOMAIN t.args = {} => t.args = <<>> BY <3>1
    <3>3. t.args = <<>> => DOMAIN t.args = {} OBVIOUS
    <3>4. ArgNames(t) = {} <=> DOMAIN t.args = {} BY DEF ArgNames
    <3> QED BY <3>2, <3>3, <3>4
  <2>2. req.setArgs = Nothing <=> DOMAIN req.setArgs = {}
    <3>1. req.setArgs = [k \in DOMAIN req.setArgs |-> req.setArgs[k]] BY <1>1 DEF IsMap
    <3> QED BY <3>1 DEF Nothing
  <2>3. Values = Nothing <=> DOMAIN Values = {}
    <3>1. Values = [k \in DOMAIN Values |-> Values[k]] BY <1>1 DEF IsMap
    <3> QED BY <3>1 DEF Nothing
  <2> QED BY <2>1, <2>2, <2>3 DEF Finds
<1>4. CASE none \/ w[1] = "word"
  <2>1. Meant(t, w) = w BY <1>4 DEF Meant
  <2>2. Expand(w, o) = w BY <1>3, <1>4 DEF Expand
  <2> QED BY <2>1, <2>2
<1>5. CASE ~none /\ w[1] # "word" /\ Offers(t, w) = {}
  <2>1. Meant(t, w) = <<"word", "<no value>">> BY <1>5 DEF Meant
  <2>2. CASE w[1] = "live"
    <3>1. Expand(w, o) = <<"word", Lookup(o.live, x)>> BY <1>3, <1>5, <2>2 DEF Expand
    <3>2. args # {} \/ x \notin DOMAIN Values BY <1>5, <2>2 DEF Offers
    <3> QED BY <1>2, <2>1, <2>2, <3>1, <3>2 DEF Finds
  <2>3. CASE w[1] = "arg"
    <3>1. Expand(w, o) = <<"word", Lookup(o.declared, x)>> BY <1>3, <1>5, <2>3 DEF Expand
    <3>2. args = {} BY <1>5, <2>3 DEF Offers
    <3>3. x \notin DOMAIN req.setArgs BY <1>5, <2>3, <3>2 DEF Offers
    <3> QED BY <1>2, <2>1, <3>1, <3>2, <3>3 DEF Lookup, Finds
  <2> QED BY <1>5, <2>2, <2>3
<1>6. ASSUME ~none, w[1] # "word", NEW v \in Offers(t, w), v[1] \in Int,
             \A y \in Offers(t, w) : y = v \/ (y[1] \in Int /\ v[1] < y[1])
      PROVE  Meant(t, w) = <<"word", v[2]>>
  <2>1. (CHOOSE z \in Offers(t, w) : \A y \in Offers(t, w) : z[1] <= y[1]) = v BY <1>6, LeastChosen
  <2> QED BY <1>6, <2>1 DEF Meant
<1>7. CASE ~none /\ w[1] = "live" /\ Offers(t, w) # {}
  <2>1. Expand(w, o) = <<"word", Lookup(o.live, x)>> BY <1>3, <1>7 DEF Expand
  <2>2. args = {} /\ x \in DOMAIN Values BY <1>7 DEF Offers
  <2>3. Offers(t, w) = {<<2, Values[x]>>} BY <1>7, <2>2 DEF Offers
  <2>4. Meant(t, w) = <<"word", <<2, Values[x]>>[2]>> BY <1>6, <1>7, <2>3
  <2>5. Lookup(o.live, x) = Values[x] BY <1>2, <1>7, <2>2 DEF Finds
  <2> QED BY <2>1, <2>4, <2>5
<1>8. CASE ~none /\ w[1] = "arg" /\ Offers(t, w) # {}
  <2> DEFINE given == Lookup(o.declared, x)
  <2>1. Expand(w, o) = <<"word", given>> BY <1>3, <1>8 DEF Expand
  <2>2. \A y \in Offers(t, w) :
           \/ x \in DOMAIN req.setArgs /\ y = <<1, req.setArgs[x]>>
           \/ args # {} /\ x \in DOMAIN Values /\ y = <<2, Values[x]>>
           \/ \E k \in args : y = <<3, t.args[k].default>>
    BY <1>8 DEF Offers
  <2>3. CASE x \in DOMAIN req.setArgs
    <3>1. given = req.setArgs[x] BY <2>3 DEF Lookup, Finds
    <3>2. <<1, req.setArgs[x]>> \in Offers(t, w) BY <1>8, <2>3 DEF Offers
    <3>3. \A y \in Offers(t, w) : y = <<1, req.setArgs[x]>> \/ y[1] = 2 \/ y[1] = 3 BY <2>2
    <3>4. Meant(t, w) = <<"word", <<1, req.setArgs[x]>>[2]>> BY <1>6, <1>8, <3>2, <3>3
    <3> QED BY <2>1, <3>1, <3>4
  <2>4. CASE x \notin DOMAIN req.setArgs /\ x \in DOMAIN Values
    <3>1. args # {} BY <1>8, <2>2, <2>4
    <3>2. given = Values[x] BY <1>2, <2>4, <3>1 DEF Lookup, Finds
    <3>3. <<2, Values[x]>> \in Offers(t, w) BY <1>8, <2>4, <3>1 DEF Offers
    <3>4. \A y \in Offers(t, w) : y = <<2, Values[x]>> \/ y[1] = 3 BY <2>2, <2>4
    <3>5. Meant(t, w) = <<"word", <<2, Values[x]>>[2]>> BY <1>6, <1>8, <3>3, <3>4
    <3> QED BY <2>1, <3>2, <3>5
  <2>5. CASE x \notin DOMAIN req.setArgs /\ x \notin DOMAIN Values
    <3>1. PICK v \in Offers(t, w) : TRUE BY <1>8
    <3>2. \A k \in args : t.args[k].default = given BY <1>2, <2>5 DEF Lookup, Finds
    <3>3. \A y \in Offers(t, w) : y = <<3, given>> BY <2>2, <2>5, <3>2
    <3>4. Meant(t, w) = <<"word", <<3, given>>[2]>> 
      <4> HIDE DEF given
      <4> QED BY <1>6, <1>8, <3>1, <3>3
    <3> QED BY <2>1, <3>4
  <2> QED BY <2>3, <2>4, <2>5
<1> QED BY <1>4, <1>5, <1>7, <1>8
(***************************************************************************)
(* Options that say what was meant.                                        *)
(***************************************************************************)

LEMMA OverOver ==
  ASSUME NEW f, NEW g, NEW h
  PROVE  Over(Over(f, g), h) = Over(f, Over(g, h))
BY DEF Over

LEMMA OverNothing ==
  ASSUME NEW g, NEW h
  PROVE  Over(Nothing, Over(g, h)) = Over(g, h)
BY DEF Over, Nothing

\* What the options o make of an entry e is what was meant.
Understood(o, e) ==
    LET t == cfg.targets[e.target]
    IN /\ o.preset = Preset(e.target, e.preset)
       /\ \A s \in Written(t) : \A k \in DOMAIN s : \A j \in DOMAIN s[k] :
             Expand(s[k][j], o) = Meant(t, s[k][j])
       /\ \A s \in Written(t) : \A k \in DOMAIN s :
             Passed(t, k, Groups) = IF k \in DOMAIN o.pass THEN o.pass[k] ELSE <<>>
       /\ o.cli = req.setEnv
       /\ o.env = Over(t.env, ProfileEnv) \/ (o.env = t.env /\ ProfileEnv = Nothing)

LEMMA PresetIs ==
  ASSUME cfg \in Configs, NEW n \in Targets, NEW p
  PROVE  /\ Preset(n, p) = NoPreset \/ (p \in DOMAIN cfg.targets[n].presets
                                        /\ Preset(n, p) = cfg.targets[n].presets[p])
         /\ Preset(n, p).steps # <<>> => Preset(n, p).steps \in Written(cfg.targets[n])
         /\ cfg.targets[n].steps \in Written(cfg.targets[n])
BY DEF Preset, NoPreset, Written

LEMMA UnderstoodCommands ==
  ASSUME cfg \in Configs, NEW o, NEW e, e.target \in Targets, Understood(o, e)
  PROVE  Commands(cfg.targets[e.target], o) = PlannedTarget(e).commands
<1> DEFINE t == cfg.targets[e.target]
           p == Preset(e.target, e.preset)
           steps == IF p.steps = <<>> THEN t.steps ELSE p.steps
           last == PassthroughStep(t, steps)
           does(k) == ExpandArgv(steps[k], o)
                      \o (IF p.steps = <<>> /\ k = last THEN p.argv ELSE <<>>)
                      \o (IF k \in DOMAIN o.pass THEN o.pass[k] ELSE <<>>)
           means(k) == [j \in DOMAIN steps[k] |-> Meant(t, steps[k][j])]
                       \o Slotted(t, k, p) \o Passed(t, k, Groups)
<1>1. o.preset = p BY DEF Understood
<1>2. Commands(t, o) = WithoutEmpty([k \in DOMAIN steps |-> does(k)]) BY <1>1 DEF Commands
<1>3. PlannedTarget(e).commands = WithoutEmpty([k \in DOMAIN steps |-> means(k)])
  BY DEF PlannedTarget
<1>4. steps \in Written(t) BY PresetIs
<1>5. ASSUME NEW k \in DOMAIN steps PROVE does(k) = means(k)
  <2>1. ExpandArgv(steps[k], o) = [j \in DOMAIN steps[k] |-> Meant(t, steps[k][j])]
    <3>1. \A j \in DOMAIN steps[k] : Expand(steps[k][j], o) = Meant(t, steps[k][j])
      BY <1>4, <1>5 DEF Understood
    <3> HIDE DEF steps, t
    <3> QED BY <3>1 DEF ExpandArgv
  <2>2. Slotted(t, k, p) = IF p.steps = <<>> /\ k = last THEN p.argv ELSE <<>>
    BY DEF Slotted, PassthroughStep
  <2>3. Passed(t, k, Groups) = IF k \in DOMAIN o.pass THEN o.pass[k] ELSE <<>>
    BY <1>4, <1>5 DEF Understood
  <2> HIDE DEF steps, t, p, last
  <2> QED BY <2>1, <2>2, <2>3
<1> HIDE DEF does, means, steps
<1> QED BY <1>2, <1>3, <1>5

LEMMA UnderstoodEnvironment ==
  ASSUME NEW o, NEW e, Understood(o, e)
  PROVE  Environment(cfg, o) = PlannedTarget(e).env
<1> DEFINE p == Preset(e.target, e.preset).env
           v == cfg.targets[e.target].env
           f == ProfileEnv
           rest == Over(cfg.dotenv, cfg.process)
<1>1. o.preset.env = p /\ o.cli = req.setEnv /\ (o.env = Over(v, f) \/ (o.env = v /\ f = Nothing))
  BY DEF Understood
<1>2. Environment(cfg, o) = Over(req.setEnv, Over(Over(p, o.env), rest))
  BY <1>1 DEF Environment, Merge
<1>3. PlannedTarget(e).env = Over(req.setEnv, Over(p, Over(v, Over(f, rest))))
  <2>1. PlannedTarget(e).env = Layered(<<req.setEnv, p, v, f, cfg.dotenv, cfg.process>>)
    BY DEF PlannedTarget
  <2> QED BY <2>1, SixLayers
<1> HIDE DEF p, v, f
<1>4. CASE o.env = Over(v, f)
  <2>1. Over(Over(p, Over(v, f)), rest) = Over(p, Over(Over(v, f), rest)) BY OverOver
  <2>2. Over(Over(v, f), rest) = Over(v, Over(f, rest)) BY OverOver
  <2> QED BY <1>2, <1>3, <1>4, <2>1, <2>2
<1>5. CASE o.env = v /\ f = Nothing
  <2>1. Over(Over(p, v), rest) = Over(p, Over(v, rest)) BY OverOver
  <2>2. Over(f, rest) = rest BY <1>5, OverNothing
  <2> QED BY <1>2, <1>3, <1>5, <2>1, <2>2
<1> QED BY <1>1, <1>4, <1>5
\* Without arguments a step is what is written.
LEMMA Unexpanded ==
  ASSUME NEW S, NEW a \in Seq(S), NEW o, DOMAIN o.declared = {}, DOMAIN o.live = {}
  PROVE  ExpandArgv(a, o) \o <<>> \o <<>> = a
<1>1. ExpandArgv(a, o) = [k \in DOMAIN a |-> a[k]] BY DEF ExpandArgv, Expand
<1>2. a = [k \in DOMAIN a |-> a[k]] OBVIOUS
<1>3. a \o <<>> = a OBVIOUS
<1> QED BY <1>1, <1>2, <1>3

LEMMA StepsAre ==
  ASSUME cfg \in Configs, NEW n \in Targets, NEW s \in Written(cfg.targets[n])
  PROVE  /\ DOMAIN s = 1..Len(s) /\ Len(s) \in Nat
         /\ s = [k \in DOMAIN s |-> s[k]]
         /\ \A k \in DOMAIN s : s[k] \in Seq({"word", "arg", "live"} \X STRING)
         /\ \A k \in DOMAIN s : \A j \in DOMAIN s[k] : s[k][j][1] \in {"word", "arg", "live"}
<1> DEFINE W == {"word", "arg", "live"} \X STRING
<1>1. s \in Seq(Seq(W)) BY ConfigAssumption
<1>2. \A w \in W : w[1] \in {"word", "arg", "live"} OBVIOUS
<1> HIDE DEF W
<1>3. DOMAIN s = 1..Len(s) /\ Len(s) \in Nat /\ s = [k \in DOMAIN s |-> s[k]] BY <1>1
<1>4. \A k \in DOMAIN s : s[k] \in Seq(W) BY <1>1
<1>5. ASSUME NEW k \in DOMAIN s, NEW j \in DOMAIN s[k] PROVE s[k][j] \in W
  BY <1>4
<1> QED BY <1>2, <1>3, <1>4, <1>5 DEF W

\* What a dependency is run with.
LEMMA DepAsPlanned ==
  ASSUME cfg \in Configs, NEW d \in Targets, NEW o,
         o = [NoOptions EXCEPT !.env = cfg.targets[d].env, !.cli = req.setEnv]
  PROVE  /\ Commands(cfg.targets[d], o) = PlannedDep(d).commands
         /\ Environment(cfg, o) = PlannedDep(d).env
<1> DEFINE steps == cfg.targets[d].steps
           rest == Over(cfg.dotenv, cfg.process)
           last == PassthroughStep(cfg.targets[d], steps)
           does(k) == ExpandArgv(steps[k], o)
                      \o (IF o.preset.steps = <<>> /\ k = last THEN o.preset.argv ELSE <<>>)
                      \o (IF k \in DOMAIN o.pass THEN o.pass[k] ELSE <<>>)
<1>1. /\ o.declared = Nothing /\ o.live = Nothing /\ o.pass = Nothing /\ o.cli = req.setEnv
      /\ o.env = cfg.targets[d].env
      /\ o.preset.steps = <<>> /\ o.preset.argv = <<>> /\ o.preset.env = Nothing
  BY DEF NoOptions, NoPreset
<1>2. steps \in Written(cfg.targets[d]) BY DEF Written
<1>3. Commands(cfg.targets[d], o) = WithoutEmpty([k \in DOMAIN steps |-> does(k)])
  <2> DEFINE chosen == IF o.preset.steps # <<>> THEN o.preset.steps ELSE cfg.targets[d].steps
             doing(k) == ExpandArgv(chosen[k], o)
                         \o (IF o.preset.steps = <<>> /\ k = PassthroughStep(cfg.targets[d], chosen)
                             THEN o.preset.argv ELSE <<>>)
                         \o (IF k \in DOMAIN o.pass THEN o.pass[k] ELSE <<>>)
  <2>1. chosen = steps BY <1>1
  <2>2. Commands(cfg.targets[d], o) = WithoutEmpty([k \in DOMAIN chosen |-> doing(k)])
    BY DEF Commands
  <2>3. ASSUME NEW k PROVE doing(k) = does(k)
    <3> HIDE DEF chosen, steps
    <3> QED BY <2>1
  <2> HIDE DEF chosen, doing, does
  <2> QED BY <2>1, <2>2, <2>3
<1>4. ASSUME NEW k \in DOMAIN steps PROVE does(k) = steps[k]
  <2>1. steps[k] \in Seq({"word", "arg", "live"} \X STRING) BY <1>2, <1>4, StepsAre
  <2>2. does(k) = ExpandArgv(steps[k], o) \o <<>> \o <<>> BY <1>1 DEF Nothing
  <2>3. DOMAIN o.declared = {} /\ DOMAIN o.live = {} BY <1>1 DEF Nothing
  <2> HIDE DEF steps, does
  <2> QED BY <2>1, <2>2, <2>3, Unexpanded
<1>5. steps = [k \in DOMAIN steps |-> steps[k]] BY <1>2, StepsAre
<1>6. Commands(cfg.targets[d], o) = PlannedDep(d).commands
  <2>1. PlannedDep(d).commands = WithoutEmpty(steps) BY DEF PlannedDep
  <2> HIDE DEF steps, does
  <2> QED BY <1>3, <1>4, <1>5, <2>1
<1>7. Environment(cfg, o) = PlannedDep(d).env
  <2>1. Environment(cfg, o) = Over(req.setEnv, Over(Over(Nothing, cfg.targets[d].env), rest))
    BY <1>1 DEF Environment, Merge
  <2>2. Over(Over(Nothing, cfg.targets[d].env), rest) = Over(Nothing, Over(cfg.targets[d].env, rest))
    BY OverOver
  <2>3. Over(Nothing, Over(cfg.targets[d].env, rest)) = Over(cfg.targets[d].env, rest)
    BY OverNothing
  <2>4. PlannedDep(d).env = Layered(<<req.setEnv, cfg.targets[d].env, cfg.dotenv, cfg.process>>)
    BY DEF PlannedDep
  <2>5. PlannedDep(d).env = Over(req.setEnv, Over(cfg.targets[d].env, rest)) BY <2>4, FourLayers
  <2> QED BY <2>1, <2>2, <2>3, <2>5
<1> QED BY <1>6, <1>7

\* Options without any argument.
Bare(o) == /\ DOMAIN o.declared = {} /\ DOMAIN o.live = {}
           /\ \A k \in DOMAIN o.pass : o.pass[k] = <<>>

\* With them --dry-run shows a dependency as it is run.
LEMMA DepPrinted ==
  ASSUME cfg \in Configs, NEW d \in Targets, NEW o, Bare(o)
  PROVE  Printed(cfg.targets[d], o, FALSE) = PlannedDep(d).commands
<1> DEFINE steps == cfg.targets[d].steps
           last == PassthroughStep(cfg.targets[d], steps)
           shows(k) == ExpandArgv(steps[k], o) \o <<>>
                       \o (IF k = last /\ k \in DOMAIN o.pass THEN o.pass[k] ELSE <<>>)
<1>1. steps \in Written(cfg.targets[d]) BY DEF Written
<1>2. Printed(cfg.targets[d], o, FALSE) = WithoutEmpty([k \in DOMAIN steps |-> shows(k)])
  BY DEF Printed
<1>3. ASSUME NEW k \in DOMAIN steps PROVE shows(k) = steps[k]
  <2>1. steps[k] \in Seq({"word", "arg", "live"} \X STRING) BY <1>1, <1>3, StepsAre
  <2>2. shows(k) = ExpandArgv(steps[k], o) \o <<>> \o <<>> BY DEF Bare
  <2>3. DOMAIN o.declared = {} /\ DOMAIN o.live = {} BY DEF Bare
  <2> HIDE DEF steps, shows
  <2> QED BY <2>1, <2>2, <2>3, Unexpanded
<1>4. steps = [k \in DOMAIN steps |-> steps[k]] BY <1>1, StepsAre
<1>5. PlannedDep(d).commands = WithoutEmpty(steps) BY DEF PlannedDep
<1> HIDE DEF steps, shows
<1> QED BY <1>2, <1>3, <1>4, <1>5

\* And the target itself, if the steps are its own and it has one slot at most.
LEMMA TargetPrinted ==
  ASSUME cfg \in Configs, NEW o, NEW e, e.target \in Targets, Understood(o, e),
         Preset(e.target, e.preset).steps = <<>>, Len(cfg.targets[e.target].slots) <= 1
  PROVE  Printed(cfg.targets[e.target], o, TRUE) = PlannedTarget(e).commands
<1> DEFINE t == cfg.targets[e.target]
           p == Preset(e.target, e.preset)
           last == PassthroughStep(t, t.steps)
           shows(k) == ExpandArgv(t.steps[k], o)
                       \o (IF k = last THEN p.argv ELSE <<>>)
                       \o (IF k = last /\ k \in DOMAIN o.pass THEN o.pass[k] ELSE <<>>)
           does(k) == ExpandArgv(t.steps[k], o)
                      \o (IF k = last THEN p.argv ELSE <<>>)
                      \o (IF k \in DOMAIN o.pass THEN o.pass[k] ELSE <<>>)
<1>1. o.preset = p /\ p.steps = <<>> BY DEF Understood
<1>2. Printed(t, o, TRUE) = WithoutEmpty([k \in DOMAIN t.steps |-> shows(k)])
  BY <1>1 DEF Printed
<1>3. Commands(t, o) = WithoutEmpty([k \in DOMAIN t.steps |-> does(k)])
  BY <1>1 DEF Commands
<1>4. ASSUME NEW k \in DOMAIN t.steps, k # last
      PROVE  (IF k \in DOMAIN o.pass THEN o.pass[k] ELSE <<>>) = <<>>
  <2>1. t.steps \in Written(t) BY DEF Written
  <2>2. Passed(t, k, Groups) = IF k \in DOMAIN o.pass THEN o.pass[k] ELSE <<>>
    BY <1>4, <2>1 DEF Understood
  <2>3. t.slots # <<k>>
    <3>1. <<k>> # <<>> /\ <<k>>[1] = k OBVIOUS
    <3> QED BY <1>4, <3>1 DEF PassthroughStep
  <2>4. ~(Len(t.slots) > 1)
    <3>1. t.slots \in Seq(Nat) BY ConfigAssumption
    <3>2. Len(t.slots) \in Nat BY <3>1
    <3> QED BY <3>2
  <2>5. Passed(t, k, Groups) = <<>> BY <2>3, <2>4 DEF Passed
  <2> QED BY <2>2, <2>5
<1>5. \A k \in DOMAIN t.steps : shows(k) = does(k) BY <1>4
<1> HIDE DEF shows, does, t
<1>6. Printed(t, o, TRUE) = Commands(t, o) BY <1>2, <1>3, <1>5
<1>7. Commands(t, o) = PlannedTarget(e).commands BY UnderstoodCommands DEF t
<1> QED BY <1>6, <1>7 DEF t

\* The options a job gets in process.
LEMMA LocalUnderstood ==
  ASSUME cfg \in Configs, req \in Requests, NEW e, e.target \in Targets, NEW words,
         Spells(cfg.targets[e.target], words, Values, Groups), IsMap(Values),
         NEW o, o = LocalOptions(e.target, words, Preset(e.target, e.preset))
  PROVE  /\ Understood(o, e)
         /\ /\ cfg.targets[e.target].args = <<>> /\ req.setArgs = Nothing
            /\ Values = Nothing /\ Groups = <<>>
            => Bare(o)
<1> DEFINE t == cfg.targets[e.target]
           parsed == ParseArgs(t, words)
           live == [x \in DOMAIN Values \ ArgNames(t) |-> Values[x]]
<1>1. /\ o.env = Over(t.env, ProfileEnv) /\ o.cli = req.setEnv
      /\ o.declared = Over(req.setArgs, parsed.declared)
      /\ o.live = parsed.live /\ o.pass = parsed.pass
      /\ o.preset = Preset(e.target, e.preset)
  BY DEF LocalOptions
<1>2. /\ DOMAIN parsed.declared = ArgNames(t)
      /\ \A k \in DOMAIN t.args :
            parsed.declared[t.args[k].name] =
                IF t.args[k].name \in DOMAIN Values THEN Values[t.args[k].name]
                ELSE t.args[k].default
      /\ DOMAIN parsed.live = {} <=> DOMAIN live = {}
      /\ \A x \in LiveKeys(t) : Lookup(parsed.live, x) = Lookup(live, x)
  BY DEF Spells
<1>3. \A k \in DOMAIN parsed.pass \cup UNION {DOMAIN s : s \in Written(t)} :
         Passed(t, k, Groups) = IF k \in DOMAIN parsed.pass THEN parsed.pass[k] ELSE <<>>
  BY DEF Spells
<1> HIDE DEF parsed
<1>4. Finds(t, o)
  <2>1. IsMap(req.setArgs) BY SpellingAssumption
  <2>2. IsList(t.args)
    <3> DEFINE A == [name : STRING, short : STRING, default : STRING]
    <3>1. t.args \in Seq(A) BY ConfigAssumption
    <3> HIDE DEF A, t
    <3> QED BY <3>1, OverItsElements
  <2>3. /\ DOMAIN o.declared = DOMAIN req.setArgs \cup ArgNames(t)
        /\ \A x \in DOMAIN req.setArgs : o.declared[x] = req.setArgs[x]
        /\ \A x \in ArgNames(t) \ DOMAIN req.setArgs : o.declared[x] = parsed.declared[x]
    <3> DEFINE f == req.setArgs
               g == parsed.declared
    <3>1. /\ DOMAIN Over(req.setArgs, parsed.declared) = DOMAIN req.setArgs \cup DOMAIN parsed.declared
          /\ \A x \in DOMAIN req.setArgs : Over(req.setArgs, parsed.declared)[x] = req.setArgs[x]
          /\ \A x \in DOMAIN parsed.declared \ DOMAIN req.setArgs :
                Over(req.setArgs, parsed.declared)[x] = parsed.declared[x]
      <4> HIDE DEF f, g
      <4>1. /\ DOMAIN Over(f, g) = DOMAIN f \cup DOMAIN g
            /\ \A x \in DOMAIN f : Over(f, g)[x] = f[x]
            /\ \A x \in DOMAIN g \ DOMAIN f : Over(f, g)[x] = g[x]
        BY OverIs
      <4> QED BY <4>1 DEF f, g
    <3> HIDE DEF t
    <3> QED BY <1>1, <1>2, <3>1
  <2>4. \A k \in DOMAIN t.args : t.args[k].name \in ArgNames(t) BY DEF ArgNames
  <2>5. DOMAIN live = DOMAIN Values \ ArgNames(t) OBVIOUS
  <2>6. \A x \in LiveKeys(t) : Lookup(o.live, x) =
           IF x \in DOMAIN Values \ ArgNames(t) THEN Values[x] ELSE "<no value>"
    BY <1>1, <1>2 DEF Lookup
  <2> HIDE DEF t, live
  <2> QED BY <1>1, <1>2, <2>1, <2>2, <2>3, <2>4, <2>5, <2>6 DEF Finds
<1>5. ASSUME NEW s \in Written(t), NEW k \in DOMAIN s, NEW j \in DOMAIN s[k]
      PROVE  Expand(s[k][j], o) = Meant(t, s[k][j])
  <2>1. s[k][j][1] \in {"word", "arg", "live"} BY <1>5, StepsAre
  <2>2. s[k][j][1] = "live" => s[k][j][2] \in LiveKeys(t) BY <1>5 DEF LiveKeys
  <2> HIDE DEF t
  <2> QED BY <1>4, <2>1, <2>2, ExpandedAsMeant
<1>6. \A s \in Written(t) : \A k \in DOMAIN s :
         Passed(t, k, Groups) = IF k \in DOMAIN o.pass THEN o.pass[k] ELSE <<>>
  BY <1>1, <1>3
<1>7. Understood(o, e) BY <1>1, <1>5, <1>6 DEF Understood
<1>8. ASSUME t.args = <<>>, req.setArgs = Nothing, Values = Nothing, Groups = <<>> PROVE Bare(o)
  <2>1. ArgNames(t) = {} BY <1>8 DEF ArgNames
  <2>2. DOMAIN o.declared = {}
    <3>1. DOMAIN o.declared = DOMAIN req.setArgs \cup ArgNames(t) BY <1>4 DEF Finds
    <3> QED BY <1>8, <2>1, <3>1 DEF Nothing
  <2>3. DOMAIN o.live = {} BY <1>1, <1>2, <1>8 DEF Nothing
  <2>4. \A k : Passed(t, k, Groups) = <<>>
    <3>1. FlattenSeq(<<>>) = <<>> BY DEF FlattenSeq
    <3>2. \A k : [j \in DOMAIN Groups |-> IF j \in DOMAIN t.slots /\ t.slots[j] = k THEN Groups[j] ELSE <<>>] = <<>>
      BY <1>8
    <3> QED BY <1>8, <3>1, <3>2 DEF Passed
  <2> QED BY <1>1, <1>3, <2>2, <2>3, <2>4 DEF Bare
<1> QED BY <1>7, <1>8

\* The options a job gets in the daemon, of a target without arguments, when
\* nothing but the name was given.
LEMMA DaemonUnderstood ==
  ASSUME cfg \in Configs, req \in Requests, NEW e, e.target \in Targets,
         cfg.targets[e.target].args = <<>>, Values = Nothing, Groups = <<>>,
         req.setArgs = Nothing, req.setEnv = Nothing, ProfileEnv = Nothing,
         NEW o, o = DaemonOptions(e.target, e.preset)
  PROVE  Understood(o, e)
<1> DEFINE t == cfg.targets[e.target]
<1>1. /\ o.env = t.env /\ o.cli = Nothing /\ o.declared = Nothing /\ o.live = Nothing
      /\ o.pass = Nothing /\ o.preset = Preset(e.target, e.preset)
  BY DEF DaemonOptions, NoOptions
<1>2. DOMAIN o.declared = {} /\ DOMAIN o.live = {} /\ DOMAIN o.pass = {} BY <1>1 DEF Nothing
<1>3. \A w : Expand(w, o) = Meant(t, w) BY <1>2, LeftAsItIs
<1>4. \A k : Passed(t, k, Groups) = <<>>
  <2>1. FlattenSeq(<<>>) = <<>> BY DEF FlattenSeq
  <2>2. \A k : [j \in DOMAIN Groups |-> IF j \in DOMAIN t.slots /\ t.slots[j] = k THEN Groups[j] ELSE <<>>] = <<>>
    OBVIOUS
  <2> QED BY <2>1, <2>2 DEF Passed
<1> QED BY <1>1, <1>2, <1>3, <1>4 DEF Understood
\* No words mean nothing, for every target.
LEMMA NothingSpelled ==
  ASSUME cfg \in Configs, NEW n \in Targets
  PROVE  Spells(cfg.targets[n], <<>>, Nothing, <<>>) /\ Preset(n, "") = NoPreset /\ IsMap(Nothing)
<1>1. "" \notin DOMAIN cfg.targets[n].presets BY ConfigAssumption
<1>2. IsMap(Nothing) BY DEF IsMap, Nothing
<1> QED BY <1>1, <1>2, SpellingAssumption DEF Preset

\* A name that is no suite is the one on the command line.
LEMMA NameIs ==
  ASSUME cfg \in Configs, req \in Requests, Name # <<>>, ~IsSuite(Name[1])
  PROVE  /\ req.pos = <<Name[1]>>
         /\ Values = req.means.values /\ Groups = req.means.groups /\ IsMap(Values)
         /\ Entries = <<[target |-> Name[1], preset |-> req.means.preset]>>
         /\ Len(Entries) = 1
         /\ Entries[1].target = Name[1] /\ Entries[1].preset = req.means.preset
<1>1. Name = req.pos BY DEF Name, IsSuite
<1>2. req.pos \in Seq(STRING) /\ Len(req.pos) <= 1 BY SpellingAssumption
<1>3. req.pos = <<req.pos[1]>> BY <1>1, <1>2
<1>4. Values = req.means.values /\ Groups = req.means.groups BY DEF Values, Groups
<1>5. IsMap(req.means.values) BY SpellingAssumption
<1>6. Entries = <<[target |-> Name[1], preset |-> req.means.preset]>> BY DEF Entries
<1>7. Len(Entries) = 1 /\ Entries[1].target = Name[1] /\ Entries[1].preset = req.means.preset
  BY <1>6
<1> QED BY <1>1, <1>3, <1>4, <1>5, <1>6, <1>7

\* No words mean nothing.
LEMMA NothingMeant ==
  ASSUME req \in Requests, req.args = <<>>
  PROVE  req.means.preset = "" /\ req.means.values = Nothing /\ req.means.groups = <<>>
<1> DEFINE m == req.means
           nothing == Nothing
<1>1. m = [preset |-> "", values |-> nothing, groups |-> <<>>] BY SpellingAssumption
<1> HIDE DEF m, nothing
<1>2. m.preset = "" /\ m.values = nothing /\ m.groups = <<>> BY <1>1
<1> QED BY <1>2 DEF m, nothing

Untold == req.args = <<>> /\ req.setArgs = Nothing

LEMMA LocalJobsUnderstood ==
  ASSUME cfg \in Configs, req \in Requests, ~UsageError, NEW k \in 1..Len(Entries)
  PROVE  /\ Understood(LocalJobs[k].opts, Entries[k])
         /\ Untold /\ cfg.targets[Entries[k].target].args = <<>> => Bare(LocalJobs[k].opts)
<1>1. CASE Name = <<>>
  <2> DEFINE o == LocalOptions(cfg.default, <<>>, NoPreset)
  <2>1. Entries = <<[target |-> cfg.default, preset |-> ""]>> BY <1>1 DEF Entries
  <2>2. LocalJobs = <<Job(cfg.default, o)>> BY <1>1 DEF LocalJobs
  <2>3. cfg.default \in Targets BY ConfigAssumption
  <2>4. Values = Nothing /\ Groups = <<>> BY <1>1 DEF Values, Groups
  <2> HIDE DEF o
  <2>5. k = 1 /\ Entries[k].target = cfg.default /\ Entries[k].preset = "" /\ LocalJobs[k].opts = o
    <3>1. Len(Entries) = 1 /\ Entries[1].target = cfg.default /\ Entries[1].preset = "" BY <2>1
    <3>2. LocalJobs[1].opts = o BY <2>2 DEF Job
    <3>3. k = 1 BY <3>1, OnlyOne
    <3> QED BY <3>1, <3>2, <3>3
  <2>6. /\ Spells(cfg.targets[cfg.default], <<>>, Nothing, <<>>) /\ IsMap(Nothing)
        /\ Preset(cfg.default, "") = NoPreset
    BY <2>3, NothingSpelled
  <2>7. o = LocalOptions(Entries[k].target, <<>>, Preset(Entries[k].target, Entries[k].preset))
    BY <2>5, <2>6 DEF o
  <2>8. Entries[k].target \in Targets /\ Spells(cfg.targets[Entries[k].target], <<>>, Values, Groups)
    BY <2>3, <2>4, <2>5, <2>6
  <2> QED BY <2>4, <2>5, <2>6, <2>7, <2>8, LocalUnderstood DEF Untold
<1>2. CASE Name # <<>> /\ IsSuite(Name[1])
  <2>1. /\ Entries = cfg.suites[Name[1]] /\ Known
        /\ DOMAIN cfg.suites[Name[1]] = 1..Len(Entries)
    BY <1>2, SuiteEntries
  <2> DEFINE o == LocalOptions(Entries[k].target, <<>>, Preset(Entries[k].target, Entries[k].preset))
  <2>2. LocalJobs[k].opts = o BY <1>2, <2>1 DEF LocalJobs, Job
  <2>3. Values = Nothing /\ Groups = <<>> BY <1>2 DEF Values, Groups
  <2>4. Entries[k].target \in Targets BY <2>1 DEF Known
  <2>5. Spells(cfg.targets[Entries[k].target], <<>>, Values, Groups) /\ IsMap(Values)
    BY <2>3, <2>4, NothingSpelled
  <2> QED BY <2>2, <2>3, <2>4, <2>5, LocalUnderstood DEF Untold
<1>3. CASE Name # <<>> /\ ~IsSuite(Name[1])
  <2> DEFINE n == Name[1]
             t == cfg.targets[n]
             words == IF NamesPreset(t, req.args) THEN Tail(req.args) ELSE req.args
             o == LocalJobs[k].opts
  <2>1. n \in Targets BY <1>3 DEF UsageError
  <2>2. /\ req.pos = <<n>> /\ IsMap(Values)
        /\ Values = req.means.values /\ Groups = req.means.groups
        /\ k = 1 /\ Entries[k].target = n /\ Entries[k].preset = req.means.preset
    <3>1. Len(Entries) = 1 BY <1>3, NameIs
    <3>2. k = 1 BY <3>1, OnlyOne
    <3> QED BY <1>3, <3>2, NameIs
  <2>3. o = IF NamesPreset(t, req.args)
            THEN LocalOptions(n, Tail(req.args), Preset(n, req.args[1].text))
            ELSE LocalOptions(n, req.args, NoPreset)
    BY <1>3, <2>2 DEF LocalJobs, Job
  <2>4. /\ Spells(t, words, Values, Groups)
        /\ NamesPreset(t, req.args) => req.means.preset = req.args[1].text
        /\ ~NamesPreset(t, req.args) => req.means.preset \notin DOMAIN t.presets
    BY <2>1, <2>2, SpellingAssumption
  <2>5. ~NamesPreset(t, req.args) => Preset(n, req.means.preset) = NoPreset BY <2>4 DEF Preset
  <2> HIDE DEF o
  <2>6. o = LocalOptions(n, words, Preset(n, Entries[k].preset))
    BY <2>2, <2>3, <2>4, <2>5
  <2>7. Untold => Values = Nothing /\ Groups = <<>>
    <3>1. Untold => req.means.values = Nothing /\ req.means.groups = <<>>
      BY NothingMeant DEF Untold
    <3> QED BY <2>2, <3>1
  <2> HIDE DEF words
  <2> QED BY <2>1, <2>2, <2>4, <2>6, <2>7, LocalUnderstood DEF Untold, o
<1> QED BY <1>1, <1>2, <1>3

LEMMA DaemonJobsUnderstood ==
  ASSUME cfg \in Configs, req \in Requests, Name # <<>>, IsSuite(Name[1]) \/ Name[1] \in Targets,
         NEW k \in 1..Len(Entries), cfg.targets[Entries[k].target].args = <<>>,
         Untold, req.setEnv = Nothing, req.profile = ""
  PROVE  Understood(DaemonJobs(Name[1])[k].opts, Entries[k])
<1>1. ProfileEnv = Nothing
  <2>1. "" \notin DOMAIN cfg.profiles BY ConfigAssumption
  <2> QED BY <2>1 DEF ProfileEnv
<1>2. CASE IsSuite(Name[1])
  <2>1. /\ Entries = cfg.suites[Name[1]] /\ Known
        /\ DOMAIN cfg.suites[Name[1]] = 1..Len(Entries)
    BY <1>2, SuiteEntries
  <2> DEFINE o == DaemonOptions(Entries[k].target, Entries[k].preset)
  <2>2. DaemonJobs(Name[1])[k].opts = o BY <1>2, <2>1 DEF DaemonJobs, Job
  <2>3. Values = Nothing /\ Groups = <<>> BY <1>2 DEF Values, Groups
  <2>4. Entries[k].target \in Targets BY <2>1 DEF Known
  <2> QED BY <1>1, <2>2, <2>3, <2>4, DaemonUnderstood DEF Untold
<1>3. CASE ~IsSuite(Name[1])
  <2> DEFINE o == DaemonOptions(Name[1], "")
  <2>1. /\ Values = req.means.values /\ Groups = req.means.groups
        /\ k = 1 /\ Entries[k].target = Name[1] /\ Entries[k].preset = req.means.preset
    <3>1. Len(Entries) = 1 BY <1>3, NameIs
    <3>2. k = 1 BY <3>1, OnlyOne
    <3> QED BY <1>3, <3>2, NameIs
  <2>2. Values = Nothing /\ Groups = <<>> /\ Entries[k].preset = ""
    <3>1. req.means.preset = "" /\ req.means.values = Nothing /\ req.means.groups = <<>>
      BY NothingMeant DEF Untold
    <3> QED BY <2>1, <3>1
  <2>3. DaemonJobs(Name[1])[k].opts = o BY <1>3, <2>1 DEF DaemonJobs, Job
  <2> QED BY <1>1, <1>3, <2>1, <2>2, <2>3, DaemonUnderstood DEF Untold
<1> QED BY <1>2, <1>3

\* The calls that a command makes.
Jobs == IF route = "daemon" THEN DaemonJobs(Name[1]) ELSE LocalJobs

\* Where a command with calls to make has come from.
Routed == IF route = "daemon" THEN Name # <<>> /\ (IsSuite(Name[1]) \/ Name[1] \in Targets)
          ELSE ~UsageError /\ route = IF Name = <<>> THEN "default" ELSE "local"

LEMMA JobUnderstood ==
  ASSUME cfg \in Configs, req \in Requests, Routed, NEW k \in 1..Len(Entries),
         ~PassedOver(Entries[k]), route = "daemon" => Heard
  PROVE  /\ Understood(Jobs[k].opts, Entries[k])
         /\ Printing /\ Heard => Bare(Jobs[k].opts)
<1>1. DOMAIN Entries = 1..Len(Entries)
  <2>1. CASE route = "daemon"
    <3>1. Known BY <2>1, DaemonServes DEF Routed
    <3> QED BY <3>1, ListIs DEF Known
  <2>2. CASE route # "daemon"
    <3>1. Known BY <2>2, LocalServes DEF Routed
    <3> QED BY <3>1, ListIs DEF Known
  <2> QED BY <2>1, <2>2
<1>2. Heard => cfg.targets[Entries[k].target].args = <<>> /\ Untold BY <1>1 DEF Heard, Untold
<1>3. CASE route = "daemon"
  <2>1. Heard /\ req.setEnv = Nothing /\ req.profile = "" BY <1>3 DEF Heard
  <2>2. ~Printing BY <1>3 DEF Printing
  <2> QED BY <1>2, <1>3, <2>1, <2>2, DaemonJobsUnderstood DEF Routed, Jobs
<1>4. CASE route # "daemon"
  BY <1>2, <1>4, LocalJobsUnderstood DEF Routed, Jobs
<1> QED BY <1>3, <1>4

(***************************************************************************)
(* What has been run and printed, and the plan.                            *)
(***************************************************************************)

\* The calls still to make are those of the entries that are left, with the
\* options made for them.
JobsAre == Routed /\ \A k \in 1..Len(todo) : todo[k] = Jobs[Done + k]

Given == verdict # "idle" => opts = todo[1].opts /\ i \in 1..Len(Order[asked])

\* A line of the log is as planned.
Fits(entry, p) == /\ entry.target = p.target
                  /\ entry.how = "ran" => entry.commands = p.commands
                  /\ entry.how = "failed" => IsPrefix(entry.commands, p.commands)
                  /\ entry.env = p.env

LogFits == (route = "daemon" => Heard) =>
              \A k \in 1..Len(log) : k \in 1..Len(Plan) /\ Fits(log[k], Plan[k])

\* Nothing more will be run by this command.
NoneFollow == \/ pc = "done"
              \/ pc = "jobs" /\ verdict = "failed"
              \/ pc = "jobs" /\ verdict = "none" /\ stage = "returned" /\ ret[Current] # "ok"

FailedLast == \A k \in 1..Len(log) : log[k].how = "failed" => k = Len(log) /\ NoneFollow

\* Something printed is as planned.
Shown(x, p, previewed) == x.target = p.target /\ (previewed => x.commands = p.commands)

PrintFits == \A k \in 1..Len(printed) :
                Shown(printed[k], Plan[k], Len(Entries) = 1 /\ Previewed(k))

MeantInv == /\ PlanInv /\ CallInv /\ req \in Requests
            /\ pc = "jobs" => JobsAre /\ Given
            /\ LogFits /\ FailedLast /\ PrintFits

LEMMA SameMeaning ==
  ASSUME UNCHANGED <<cfg, req>>
  PROVE  /\ Values' = Values /\ Groups' = Groups /\ ProfileEnv' = ProfileEnv
         /\ \A e : PlannedTarget(e)' = PlannedTarget(e)
         /\ \A d : PlannedDep(d)' = PlannedDep(d)
         /\ \A e : PlannedRun(e)' = PlannedRun(e)
         /\ DaemonJobs(Name[1])' = DaemonJobs(Name[1]) /\ LocalJobs' = LocalJobs
<1>1. Name' = Name BY SameEntries
<1>2. Values' = Values /\ Groups' = Groups BY <1>1 DEF Values, Groups, IsSuite
<1>3. ProfileEnv' = ProfileEnv BY DEF ProfileEnv
<1>4. ASSUME NEW t, NEW w PROVE Meant(t, w)' = Meant(t, w)
  <2>1. Offers(t, w)' = Offers(t, w) BY <1>2 DEF Offers
  <2> QED BY <1>2, <2>1 DEF Meant
<1>5. ASSUME NEW n, NEW p PROVE Preset(n, p)' = Preset(n, p)
  BY DEF Preset
<1>6. ASSUME NEW e PROVE PlannedTarget(e)' = PlannedTarget(e)
  BY <1>2, <1>3, <1>4, <1>5 DEF PlannedTarget
<1>7. ASSUME NEW d PROVE PlannedDep(d)' = PlannedDep(d)
  BY DEF PlannedDep
<1>8. ASSUME NEW e PROVE PlannedRun(e)' = PlannedRun(e)
  BY <1>6, <1>7 DEF PlannedRun
<1>9. DaemonJobs(Name[1])' = DaemonJobs(Name[1])
  BY <1>1 DEF DaemonJobs, DaemonOptions, Preset, IsSuite, Job
<1>10. LocalJobs' = LocalJobs
  BY <1>1, <1>3 DEF LocalJobs, LocalOptions, Preset, IsSuite, Job
<1> QED BY <1>2, <1>3, <1>6, <1>7, <1>8, <1>9, <1>10

LEMMA SamePlanned ==
  ASSUME UNCHANGED <<cfg, req, route>>
  PROVE  /\ Plan' = Plan /\ Jobs' = Jobs /\ Entries' = Entries /\ Name' = Name
         /\ (Heard' <=> Heard) /\ (Routed' <=> Routed)
         /\ \A k : Previewed(k)' <=> Previewed(k)
<1>1. /\ Entries' = Entries /\ Name' = Name /\ (UsageError' <=> UsageError)
      /\ \A k : PassedOver(Entries[k])' = PassedOver(Entries[k])
  BY SameEntries, SamePlan
<1>2. \A e : PlannedRun(e)' = PlannedRun(e) BY SameMeaning
<1>3. Plan' = Plan
  <2> DEFINE part(k) == IF PassedOver(Entries[k]) THEN <<>> ELSE PlannedRun(Entries[k])
  <2>1. \A k : part(k)' = part(k) BY <1>1, <1>2
  <2>2. [k \in DOMAIN Entries |-> part(k)]' = [k \in DOMAIN Entries |-> part(k)]
    BY <1>1, <2>1
  <2> QED BY <2>2 DEF Plan
<1>4. Heard' <=> Heard BY <1>1 DEF Heard
<1>5. Routed' <=> Routed BY <1>1 DEF Routed, IsSuite
<1>6. Jobs' = Jobs
  BY SameMeaning DEF Jobs
<1>7. ASSUME NEW k PROVE Previewed(k)' <=> Previewed(k)
  BY <1>1, <1>3, <1>4 DEF Previewed, Preset, IsSuite
<1> QED BY <1>1, <1>3, <1>4, <1>5, <1>6, <1>7

\* What the plan has at a position.
LEMMA PlannedAt ==
  ASSUME Known, NEW k \in 1..Len(Entries), ~PassedOver(Entries[k]),
         NEW j \in 1..Len(Order[Entries[k].target]),
         NEW p, p = Sums(Sizes)[k - 1] + j
  PROVE  /\ p \in 1..Len(Plan)
         /\ j = Len(Order[Entries[k].target]) => Plan[p] = PlannedTarget(Entries[k])
         /\ j # Len(Order[Entries[k].target]) => Plan[p] = PlannedDep(Order[Entries[k].target][j])
<1>1. p \in 1..Len(Plan) /\ Plan[p] = PlannedRun(Entries[k])[j] BY PlanParts
<1>2. Order[Entries[k].target] \in Seq(Targets)
  BY OrderAssumption DEF Known, IsOrderOf
<1>3. j \in DOMAIN Order[Entries[k].target] BY <1>2
<1> QED BY <1>1, <1>3 DEF PlannedRun

LEMMA PlannedLists ==
  ASSUME cfg \in Configs
  PROVE  /\ \A e : e.target \in Targets => IsList(PlannedTarget(e).commands)
         /\ \A d \in Targets : IsList(PlannedDep(d).commands)
<1>1. ASSUME NEW e, e.target \in Targets PROVE IsList(PlannedTarget(e).commands)
  <2> DEFINE t == cfg.targets[e.target]
             preset == Preset(e.target, e.preset)
             steps == IF preset.steps = <<>> THEN t.steps ELSE preset.steps
             argvs == [k \in DOMAIN steps |->
                        [j \in DOMAIN steps[k] |-> Meant(t, steps[k][j])]
                        \o Slotted(t, k, preset) \o Passed(t, k, Groups)]
  <2>1. steps \in Written(t) BY <1>1, PresetIs
  <2>2. DOMAIN steps = 1..Len(steps) /\ Len(steps) \in Nat BY <1>1, <2>1, StepsAre
  <2>3. DOMAIN argvs = DOMAIN steps OBVIOUS
  <2>4. PlannedTarget(e).commands = WithoutEmpty(argvs) BY DEF PlannedTarget
  <2> HIDE DEF argvs
  <2> QED BY <2>2, <2>3, <2>4, ListWithoutEmpty
<1>2. ASSUME NEW d \in Targets PROVE IsList(PlannedDep(d).commands)
  <2>1. cfg.targets[d].steps \in Written(cfg.targets[d]) BY DEF Written
  <2>2. PlannedDep(d).commands = WithoutEmpty(cfg.targets[d].steps) BY DEF PlannedDep
  <2> QED BY <2>1, <2>2, StepsAre, ListWithoutEmpty
<1> QED BY <1>1, <1>2

LEMMA PrefixesAre ==
  ASSUME NEW s, IsList(s)
  PROVE  /\ IsPrefix(<<>>, s)
         /\ \A k \in DOMAIN s : IsPrefix(SubSeq(s, 1, k), s)
<1> DEFINE S == {s[k] : k \in DOMAIN s}
<1>1. s \in Seq(S) BY DEF IsList
<1> HIDE DEF S
<1>2. IsPrefix(<<>>, s) BY <1>1 DEF IsPrefix
<1>3. ASSUME NEW k \in DOMAIN s PROVE IsPrefix(SubSeq(s, 1, k), s)
  <2>1. k \in 1..Len(s) /\ Len(s) \in Nat BY <1>1
  <2>2. Len(SubSeq(s, 1, k)) = k BY <1>1, <2>1
  <2>3. SubSeq(s, 1, k) \in Seq(S) BY <1>1, <2>1
  <2> DEFINE r == SubSeq(s, 1, k)
  <2>4. SubSeq(r, 1, k) = r
    <3> HIDE DEF r
    <3> QED BY <2>2, <2>3 DEF r
  <2> QED BY <2>1, <2>2, <2>4 DEF IsPrefix
<1> QED BY <1>2, <1>3

\* A target that has been asked for is the last of its order.
LEMMA LastIsAsked ==
  ASSUME NEW t \in Targets, NEW j \in 1..Len(Order[t])
  PROVE  /\ Order[t][j] \in Targets
         /\ Order[t][j] = t <=> j = Len(Order[t])
         /\ Len(Order[t]) \in Nat \ {0} /\ DOMAIN Order[t] = 1..Len(Order[t])
<1>1. IsOrderOf(t, Order[t]) BY OrderAssumption
<1> DEFINE o == Order[t]
<1>2. o \in Seq(Targets) /\ o # <<>> /\ o[Len(o)] = t /\ \A a, b \in 1..Len(o) : a # b => o[a] # o[b]
  BY <1>1 DEF IsOrderOf
<1> HIDE DEF o
<1>3. Len(o) \in Nat \ {0} /\ DOMAIN o = 1..Len(o) /\ \A a \in 1..Len(o) : o[a] \in Targets
  BY <1>2
<1>4. Len(o) \in 1..Len(o) BY <1>3
<1> QED BY <1>2, <1>3, <1>4 DEF o

\* Where the command is while a call of Run is going on.
LEMMA CallAt ==
  ASSUME MeantInv, pc = "jobs", todo # <<>>
  PROVE  /\ Known /\ Routed /\ cfg \in Configs /\ req \in Requests
         /\ Done + 1 \in 1..Len(Entries) /\ (Done + 1) - 1 = Done
         /\ Sums(Sizes)[Done] \in Nat
         /\ Entries[Done + 1].target \in Targets
         /\ todo[1].target = Entries[Done + 1].target
         /\ todo[1] = Jobs[Done + 1] /\ Head(todo) = todo[1]
         /\ Len(todo) \in Nat \ {0}
<1>1. cfg \in Configs /\ req \in Requests /\ Known /\ Ahead /\ JobsAre BY DEF MeantInv, PlanInv
<1>2. Len(todo) \in Nat \ {0} /\ Head(todo) = todo[1] BY <1>1, OneLess DEF Ahead
<1>3. /\ Sizes \in Seq(Nat) /\ Len(Sizes) = Len(Entries) /\ Len(Entries) \in Nat
  BY <1>1, SizesAre
<1>4. Len(todo) <= Len(Entries) BY <1>1 DEF Ahead
<1>5. Done \in Nat /\ Done + 1 \in 1..Len(Entries) /\ (Done + 1) - 1 = Done /\ Done \in 0..Len(Sizes)
  BY <1>2, <1>3, <1>4 DEF Done
<1>6. 1 \in 1..Len(todo) BY <1>2
<1>7. todo[1].target = Entries[Done + 1].target /\ todo[1] = Jobs[Done + 1]
  BY <1>1, <1>6 DEF Ahead, JobsAre
<1>8. Sums(Sizes)[Done] \in Nat BY <1>3, <1>5, SumsAre
<1> QED BY <1>1, <1>2, <1>5, <1>7, <1>8 DEF JobsAre, Known

\* What the target that is running is run with is what the plan has next.
LEMMA RunIsPlanned ==
  ASSUME MeantInv, pc = "jobs", stage = "running", route = "daemon" => Heard
  PROVE  /\ Len(log) + 1 \in 1..Len(Plan)
         /\ Plan[Len(log) + 1].target = Current
         /\ Plan[Len(log) + 1].env = Environment(cfg, OptionsOf(Current))
         /\ Plan[Len(log) + 1].commands = Commands(cfg.targets[Current], OptionsOf(Current))
         /\ IsList(Plan[Len(log) + 1].commands)
<1> DEFINE k == Done + 1
           e == Entries[k]
           o == Jobs[k].opts
           p == Len(log) + 1
<1>1. /\ Calling /\ Counted /\ Given BY DEF MeantInv, PlanInv
<1>2. verdict = "none" /\ todo # <<>> /\ asked = todo[1].target /\ ~Printing /\ ~PassedOver(e)
  BY <1>1 DEF Calling
<1>3. /\ Known /\ Routed /\ cfg \in Configs /\ req \in Requests
      /\ k \in 1..Len(Entries) /\ k - 1 = Done
      /\ Sums(Sizes)[Done] \in Nat
      /\ e.target \in Targets /\ asked = e.target /\ todo[1].opts = o
  BY <1>2, CallAt
<1>4. opts = o /\ i \in 1..Len(Order[asked]) BY <1>1, <1>2, <1>3 DEF Given
<1>5. p = Sums(Sizes)[k - 1] + i
  <2>1. Len(log) = Sums(Sizes)[Done] + (i - 1) BY <1>1, <1>2 DEF Counted, InThisRun
  <2>2. i \in Nat BY <1>1 DEF Calling
  <2> QED BY <1>3, <2>1, <2>2
<1>6. Understood(o, e) BY <1>2, <1>3, JobUnderstood
<1> HIDE DEF k, o, p
<1>7. /\ p \in 1..Len(Plan)
      /\ i = Len(Order[asked]) => Plan[p] = PlannedTarget(e)
      /\ i # Len(Order[asked]) => Plan[p] = PlannedDep(Current)
  BY <1>2, <1>3, <1>4, <1>5, PlannedAt DEF Current
<1>8. Current \in Targets /\ (Current = asked <=> i = Len(Order[asked]))
  BY <1>3, <1>4, LastIsAsked DEF Current
<1>9. CASE i = Len(Order[asked])
  <2>1. Current = e.target /\ OptionsOf(Current) = o BY <1>3, <1>4, <1>8, <1>9 DEF OptionsOf
  <2>2. Commands(cfg.targets[e.target], o) = PlannedTarget(e).commands
    BY <1>3, <1>6, UnderstoodCommands
  <2>3. Environment(cfg, o) = PlannedTarget(e).env BY <1>6, UnderstoodEnvironment
  <2>4. PlannedTarget(e).target = e.target BY DEF PlannedTarget
  <2>5. IsList(PlannedTarget(e).commands) BY <1>3, PlannedLists
  <2> QED BY <1>7, <1>9, <2>1, <2>2, <2>3, <2>4, <2>5 DEF p
<1>10. CASE i # Len(Order[asked])
  <2>1. opts.cli = req.setEnv BY <1>4, <1>6 DEF Understood
  <2>2. OptionsOf(Current) = [NoOptions EXCEPT !.env = cfg.targets[Current].env, !.cli = req.setEnv]
    BY <1>8, <1>10, <2>1 DEF OptionsOf
  <2>3. /\ Commands(cfg.targets[Current], OptionsOf(Current)) = PlannedDep(Current).commands
        /\ Environment(cfg, OptionsOf(Current)) = PlannedDep(Current).env
    BY <1>3, <1>8, <2>2, DepAsPlanned
  <2>4. PlannedDep(Current).target = Current BY DEF PlannedDep
  <2>5. IsList(PlannedDep(Current).commands) BY <1>3, <1>8, PlannedLists
  <2> QED BY <1>7, <1>10, <2>3, <2>4, <2>5 DEF p
<1> QED BY <1>9, <1>10

\* What a target returns with, and with what it is logged.
LEMMA ReturnsWhat ==
  ASSUME SkipTarget \/ LookupFails \/ NoDocker \/ RunSteps,
         NEW c, c = Commands(cfg.targets[Current], OptionsOf(Current))
  PROVE  \E r \in {"ok", "err", "noDocker"} : \E how, commands :
            /\ Return(r, how, commands)
            /\ how = "failed" => r # "ok" /\ (IsList(c) => IsPrefix(commands, c))
            /\ how = "ran" => commands = c
<1> DEFINE Ok(r, how, commands) == /\ Return(r, how, commands)
                                   /\ how = "failed" => r # "ok" /\ (IsList(c) => IsPrefix(commands, c))
                                   /\ how = "ran" => commands = c
<1>1. IsList(c) =>
      /\ IsPrefix(<<>>, c)
      /\ \A k \in DOMAIN c : IsPrefix(SubSeq(c, 1, k), c)
  BY PrefixesAre
<1>2. CASE SkipTarget
  <2>1. Ok("ok", "skipped", <<>>) BY <1>2 DEF SkipTarget
  <2> QED BY <2>1
<1>3. CASE LookupFails
  <2>1. Ok("err", "failed", <<>>) BY <1>1, <1>3 DEF LookupFails
  <2> QED BY <2>1
<1>4. CASE NoDocker
  <2>1. Ok("noDocker", "failed", <<>>) BY <1>1, <1>4 DEF NoDocker
  <2> QED BY <2>1
<1>5. CASE RunSteps
  <2>1. \/ Return("ok", "ran", c)
        \/ \E k \in DOMAIN c : Return("err", "failed", SubSeq(c, 1, k))
    BY <1>5 DEF RunSteps
  <2>2. CASE Return("ok", "ran", c)
    <3>1. Ok("ok", "ran", c) BY <2>2
    <3> QED BY <3>1
  <2>3. CASE \E k \in DOMAIN c : Return("err", "failed", SubSeq(c, 1, k))
    <3>1. PICK k \in DOMAIN c : Return("err", "failed", SubSeq(c, 1, k)) BY <2>3
    <3>2. Ok("err", "failed", SubSeq(c, 1, k)) BY <1>1, <3>1
    <3> QED BY <3>2
  <2> QED BY <2>1, <2>2, <2>3
<1> QED BY <1>2, <1>3, <1>4, <1>5

\* What a dry run prints of a target is what the plan has next.
LEMMA PrintIsPlanned ==
  ASSUME MeantInv, pc = "jobs", todo # <<>>, Printing,
         NEW j \in 1..Len(Order[todo[1].target]),
         NEW d, d = Order[todo[1].target][j],
         NEW p, p = Len(printed) + j
  PROVE  Shown([target |-> d,
                commands |-> Printed(cfg.targets[d], todo[1].opts, d = todo[1].target)],
               Plan[p], Len(Entries) = 1 /\ Previewed(p))
<1> DEFINE k == Done + 1
           e == Entries[k]
           o == Jobs[k].opts
<1>1. /\ Known /\ Routed /\ cfg \in Configs /\ req \in Requests
      /\ k \in 1..Len(Entries) /\ k - 1 = Done
      /\ e.target \in Targets /\ todo[1].target = e.target /\ todo[1].opts = o
  BY CallAt
<1>2. route = "local" /\ req.dryRun BY DEF Printing
<1>3. ~PassedOver(e) BY <1>2 DEF PassedOver
<1>4. Len(printed) = Sums(Sizes)[Done] BY DEF MeantInv, PlanInv, Counted
<1>5. p = Sums(Sizes)[k - 1] + j BY <1>1, <1>4
<1>6. Understood(o, e) /\ (Heard => Bare(o)) BY <1>1, <1>2, <1>3, JobUnderstood
<1>7. k # 1 => Len(Entries) # 1 BY <1>1
<1> HIDE DEF k, o
<1>8. /\ j = Len(Order[e.target]) => Plan[p] = PlannedTarget(e)
      /\ j # Len(Order[e.target]) => Plan[p] = PlannedDep(d)
  <2>1. j \in 1..Len(Order[e.target]) /\ d = Order[e.target][j] BY <1>1
  <2>2. /\ j = Len(Order[e.target]) => Plan[p] = PlannedTarget(e)
        /\ j # Len(Order[e.target]) => Plan[p] = PlannedDep(Order[e.target][j])
    BY <1>1, <1>3, <1>5, <2>1, PlannedAt
  <2> QED BY <2>1, <2>2
<1>9. d \in Targets /\ (d = e.target <=> j = Len(Order[e.target])) BY <1>1, LastIsAsked
<1>10. CASE j = Len(Order[e.target])
  <2>1. PlannedTarget(e).target = e.target BY DEF PlannedTarget
  <2>2. ASSUME Len(Entries) = 1, Previewed(p)
        PROVE  Printed(cfg.targets[e.target], o, TRUE) = PlannedTarget(e).commands
    <3>1. Preset(e.target, e.preset).steps = <<>> /\ Len(cfg.targets[e.target].slots) <= 1
      BY <1>7, <2>2 DEF Previewed
    <3> QED BY <1>1, <1>6, <3>1, TargetPrinted
  <2> QED BY <1>1, <1>8, <1>9, <1>10, <2>1, <2>2 DEF Shown
<1>11. CASE j # Len(Order[e.target])
  <2>1. Plan[p].target = d BY <1>8, <1>11 DEF PlannedDep
  <2>2. ASSUME Len(Entries) = 1, Previewed(p)
        PROVE  Printed(cfg.targets[d], o, FALSE) = PlannedDep(d).commands
    <3>1. Heard BY <1>7, <1>9, <1>11, <2>1, <2>2 DEF Previewed
    <3> QED BY <1>1, <1>6, <1>9, <3>1, DepPrinted
  <2>3. (d = e.target) = FALSE BY <1>9, <1>11
  <2> QED BY <1>1, <1>8, <1>11, <2>1, <2>2, <2>3 DEF Shown
<1> QED BY <1>10, <1>11

LEMMA KeepsLog ==
  ASSUME LogFits, UNCHANGED <<cfg, req, route, log>>
  PROVE  LogFits'
BY SamePlanned DEF LogFits

LEMMA KeepsPrinted ==
  ASSUME PrintFits, UNCHANGED <<cfg, req, route, printed>>
  PROVE  PrintFits'
BY SamePlanned DEF PrintFits

\* As long as something more may be run nothing has failed.
LEMMA NothingFailed ==
  ASSUME FailedLast, ~NoneFollow
  PROVE  \A k \in 1..Len(log) : log[k].how # "failed"
BY DEF FailedLast

LEMMA KeepsFailed ==
  ASSUME FailedLast, ~NoneFollow \/ NoneFollow', UNCHANGED log
  PROVE  FailedLast'
BY DEF FailedLast

\* One call less to make.
LEMMA JobsAdvance ==
  ASSUME MeantInv, pc = "jobs", todo # <<>>, UNCHANGED <<cfg, req, route>>, todo' = Tail(todo)
  PROVE  JobsAre'
<1>1. Known /\ Ahead /\ JobsAre BY DEF MeantInv, PlanInv
<1>2. Done' = Done + 1 /\ Done \in Nat BY <1>1, OneDone
<1>3. Jobs' = Jobs /\ (Routed' <=> Routed) BY SamePlanned
<1>4. /\ Len(Tail(todo)) = Len(todo) - 1 /\ Len(todo) \in Nat \ {0}
      /\ \A k \in 1..Len(Tail(todo)) : Tail(todo)[k] = todo[k + 1]
  BY <1>1, OneLess DEF Ahead
<1>5. ASSUME NEW k \in 1..Len(todo') PROVE todo'[k] = Jobs'[Done' + k]
  <2>1. k + 1 \in 1..Len(todo) /\ todo'[k] = todo[k + 1] BY <1>4
  <2>2. Done' + k = Done + (k + 1) BY <1>2, <2>1
  <2> QED BY <1>1, <1>3, <2>1, <2>2 DEF JobsAre
<1> QED BY <1>1, <1>3, <1>5 DEF JobsAre

\* The first of all calls to make.
LEMMA JobsBegin ==
  ASSUME NEW jobs, Known, ServeAll(jobs), todo' = jobs, UNCHANGED <<cfg, req>>,
         Routed', Jobs' = jobs
  PROVE  JobsAre'
<1>1. Len(jobs) = Len(Entries) /\ Entries' = Entries BY SameEntries DEF ServeAll
<1>2. Len(jobs) \in Nat BY ListIs DEF ServeAll
<1>3. Done' = 0 BY <1>1, <1>2 DEF Done
<1>4. ASSUME NEW k \in 1..Len(todo') PROVE todo'[k] = Jobs'[Done' + k]
  <2>1. Done' + k = k BY <1>2, <1>3
  <2> QED BY <2>1
<1> QED BY <1>4 DEF JobsAre

\* Before anything has been run or printed there is nothing to compare.
LEMMA NothingYet ==
  ASSUME log' = <<>>, printed' = <<>>
  PROVE  LogFits' /\ FailedLast' /\ PrintFits'
BY DEF LogFits, FailedLast, PrintFits

\* A target returns.
LEMMA ReturnMeant ==
  ASSUME MeantInv, pc = "jobs", SkipTarget \/ LookupFails \/ NoDocker \/ RunSteps,
         UNCHANGED <<req, pc, route, todo, printed>>
  PROVE  LogFits' /\ FailedLast' /\ (JobsAre /\ Given => Given')
<1> DEFINE c == Commands(cfg.targets[Current], OptionsOf(Current))
           p == Len(log) + 1
<1>1. stage = "running" BY DEF SkipTarget, LookupFails, NoDocker, RunSteps
<1>2. PICK r \in {"ok", "err", "noDocker"} : \E how, commands :
         /\ Return(r, how, commands)
         /\ how = "failed" => r # "ok" /\ (IsList(c) => IsPrefix(commands, c))
         /\ how = "ran" => commands = c
  BY ReturnsWhat
<1>3. PICK how, commands :
         /\ Return(r, how, commands)
         /\ how = "failed" => r # "ok" /\ (IsList(c) => IsPrefix(commands, c))
         /\ how = "ran" => commands = c
  BY <1>2
<1> DEFINE line == [target |-> Current, how |-> how, commands |-> commands,
                    env |-> Environment(cfg, OptionsOf(Current))]
<1>4. /\ ret' = [ret EXCEPT ![Current] = r] /\ log' = Append(log, line) /\ stage' = "returned"
      /\ UNCHANGED <<cfg, asked, opts, i, verdict>>
  BY <1>3 DEF Return
<1>5. /\ line.target = Current /\ line.how = how /\ line.commands = commands
      /\ line.env = Environment(cfg, OptionsOf(Current))
  OBVIOUS
<1>6. verdict = "none" /\ IsList(log) BY <1>1 DEF MeantInv, PlanInv, Calling
<1> HIDE DEF c, line
<1>7. /\ Len(log') = p /\ Len(log) \in Nat /\ log'[p] = line
      /\ \A k \in 1..Len(log) : log'[k] = log[k]
  BY <1>4, <1>6, OneMore
<1>8. LogFits'
  <2>1. Plan' = Plan /\ (Heard' <=> Heard) BY <1>4, SamePlanned
  <2>2. SUFFICES ASSUME route = "daemon" => Heard, NEW k \in 1..Len(log')
                 PROVE  k \in 1..Len(Plan) /\ Fits(log'[k], Plan[k])
    BY <2>1 DEF LogFits
  <2>3. CASE k \in 1..Len(log)
    <3>1. k \in 1..Len(Plan) /\ Fits(log[k], Plan[k]) BY <2>2, <2>3 DEF MeantInv, LogFits
    <3> QED BY <1>7, <2>3, <3>1
  <2>4. CASE k = p
    <3>1. /\ p \in 1..Len(Plan) /\ Plan[p].target = Current /\ Plan[p].commands = c
          /\ Plan[p].env = Environment(cfg, OptionsOf(Current)) /\ IsList(Plan[p].commands)
      BY <1>1, <2>2, RunIsPlanned DEF c
    <3>2. Fits(line, Plan[p]) BY <1>3, <1>5, <3>1 DEF Fits
    <3> QED BY <1>7, <2>4, <3>1, <3>2
  <2> QED BY <1>7, <2>3, <2>4
<1>9. FailedLast'
  <2>1. \A k \in 1..Len(log) : log[k].how # "failed"
    BY <1>1, <1>6, NothingFailed DEF MeantInv, NoneFollow
  <2>2. Current' = Current BY <1>4 DEF Current
  <2>3. Current \in Targets
    <3>1. Given /\ todo # <<>> /\ asked = todo[1].target BY <1>6 DEF MeantInv, PlanInv, Calling
    <3>2. asked \in Targets /\ i \in 1..Len(Order[asked]) BY <1>6, <3>1, CallAt DEF Given
    <3> QED BY <3>2, LastIsAsked DEF Current
  <2>4. ret'[Current] = r BY <1>4, <2>3 DEF MeantInv, CallInv
  <2>5. how = "failed" => NoneFollow' BY <1>3, <1>4, <1>6, <2>2, <2>4 DEF NoneFollow
  <2>6. ASSUME NEW k \in 1..Len(log'), log'[k].how = "failed" PROVE k = Len(log') /\ NoneFollow'
    <3>1. k \notin 1..Len(log) BY <1>7, <2>1, <2>6
    <3>2. k = p BY <1>7, <3>1
    <3> QED BY <1>5, <1>7, <2>5, <2>6, <3>2
  <2> QED BY <2>6 DEF FailedLast
<1>10. JobsAre /\ Given => Given' BY <1>4 DEF Given
<1> QED BY <1>8, <1>9, <1>10

\* A step of runner.Run.
LEMMA RunMeant ==
  ASSUME MeantInv, RunStep
  PROVE  LogFits' /\ FailedLast' /\ PrintFits' /\ JobsAre' /\ Given'
<1>1. /\ pc = "jobs" /\ StepRun /\ UNCHANGED <<req, pc, route, todo, printed>>
      /\ JobsAre /\ Given /\ LogFits /\ FailedLast /\ PrintFits
      /\ Calling
  BY DEF RunStep, MeantInv, PlanInv
<1>2. UNCHANGED <<cfg, asked, opts>>
  BY <1>1 DEF StepRun, RejectRun, StartTarget, SkipTarget, LookupFails, NoDocker, RunSteps, Proceed,
              Return
<1>3. PrintFits' BY <1>1, <1>2, KeepsPrinted
<1>4. JobsAre'
  <2>1. Jobs' = Jobs /\ (Routed' <=> Routed) /\ Entries' = Entries BY <1>1, <1>2, SamePlanned
  <2> QED BY <1>1, <2>1 DEF JobsAre, Done
<1>5. CASE RejectRun
  <2>1. UNCHANGED <<log, i>> /\ ~NoneFollow /\ verdict # "idle"
    BY <1>1, <1>5 DEF RejectRun, NoneFollow
  <2>2. LogFits' BY <1>1, <1>2, <2>1, KeepsLog
  <2>3. FailedLast' BY <1>1, <2>1, KeepsFailed
  <2> QED BY <1>1, <1>2, <1>3, <1>4, <2>1, <2>2, <2>3 DEF Given
<1>6. CASE StartTarget
  <2>1. UNCHANGED <<log, i>> /\ ~NoneFollow /\ verdict # "idle"
    BY <1>1, <1>6 DEF StartTarget, NoneFollow
  <2>2. LogFits' BY <1>1, <1>2, <2>1, KeepsLog
  <2>3. FailedLast' BY <1>1, <2>1, KeepsFailed
  <2> QED BY <1>1, <1>2, <1>3, <1>4, <2>1, <2>2, <2>3 DEF Given
<1>7. CASE SkipTarget \/ LookupFails \/ NoDocker \/ RunSteps
  BY <1>1, <1>3, <1>4, <1>7, ReturnMeant
<1>8. CASE Proceed
  <2>1. /\ UNCHANGED <<log, ret>> /\ verdict = "none" /\ stage = "returned"
    BY <1>8 DEF Proceed
  <2>2. LogFits' BY <1>1, <1>2, <2>1, KeepsLog
  <2>3. CASE ret[Current] # "ok"
    <3>1. verdict' = "failed" /\ UNCHANGED i BY <1>8, <2>3 DEF Proceed
    <3>2. NoneFollow' BY <1>1, <3>1 DEF NoneFollow
    <3>3. FailedLast' BY <1>1, <2>1, <3>2, KeepsFailed
    <3> QED BY <1>1, <1>2, <1>3, <1>4, <2>1, <2>2, <3>1, <3>3 DEF Given
  <2>4. CASE ret[Current] = "ok"
    <3>1. ~NoneFollow BY <1>1, <2>1, <2>4 DEF NoneFollow
    <3>2. FailedLast' BY <1>1, <2>1, <3>1, KeepsFailed
    <3>3. i' \in 1..Len(Order[asked])
      <4>1. i \in 1..Len(Order[asked]) /\ i \in Nat BY <1>1, <2>1 DEF Given, Calling
      <4>2. Len(Order[asked]) \in Nat
        <5>1. asked \in Targets
          BY <1>1, <2>1, CallAt DEF Calling
        <5> QED BY <4>1, <5>1, LastIsAsked
      <4>3. (i < Len(Order[asked]) /\ i' = i + 1) \/ i' = i BY <1>8, <2>4 DEF Proceed
      <4> QED BY <4>1, <4>2, <4>3
    <3> QED BY <1>1, <1>2, <1>3, <1>4, <2>1, <2>2, <3>2, <3>3 DEF Given
  <2> QED BY <2>3, <2>4
<1> QED BY <1>1, <1>5, <1>6, <1>7, <1>8 DEF StepRun

\* A target, or a dependency, is printed.
LEMMA PrintMeant ==
  ASSUME MeantInv, PrintJob
  PROVE  PrintFits'
<1> DEFINE order == Order[todo[1].target]
           line(j) == [target   |-> order[j],
                       commands |-> Printed(cfg.targets[order[j]], todo[1].opts,
                                            order[j] = todo[1].target)]
           shown == [j \in DOMAIN order |-> line(j)]
<1>1. /\ pc = "jobs" /\ todo # <<>> /\ Printing /\ UNCHANGED <<cfg, req, route>>
      /\ IsList(printed) /\ PrintFits
  BY DEF PrintJob, Printing, run, MeantInv, PlanInv
<1>2. Head(todo) = todo[1] /\ todo[1].target \in Targets BY <1>1, CallAt
<1>3. printed' = printed \o shown BY <1>2 DEF PrintJob
<1>4. DOMAIN order = 1..Len(order) /\ Len(order) \in Nat
  <2>1. order \in Seq(Targets) BY <1>2, OrderAssumption DEF IsOrderOf
  <2> HIDE DEF order
  <2> QED BY <2>1
<1>5. /\ Plan' = Plan /\ Entries' = Entries /\ \A k : Previewed(k)' <=> Previewed(k)
  BY <1>1, SamePlanned
<1>6. \A j \in 1..Len(order) :
         Shown(line(j), Plan[Len(printed) + j], Len(Entries) = 1 /\ Previewed(Len(printed) + j))
  BY <1>1, PrintIsPlanned
<1> HIDE DEF order, line
<1>7. IsList(shown) /\ Len(shown) = Len(order)
  <2>1. shown = [j \in 1..Len(order) |-> shown[j]] BY <1>4
  <2> HIDE DEF shown
  <2> QED BY <1>4, <2>1, ListOf
<1>8. \A j \in 1..Len(order) : shown[j] = line(j) BY <1>4
<1> HIDE DEF shown
<1>9. /\ Len(printed') = Len(printed) + Len(order) /\ Len(printed) \in Nat
      /\ \A k \in 1..Len(printed) : printed'[k] = printed[k]
      /\ \A j \in 1..Len(order) : printed'[Len(printed) + j] = line(j)
  <2>1. Len(printed \o shown) = Len(printed) + Len(shown) BY <1>1, <1>7, Longer
  <2>2. Len(printed) \in Nat BY <1>1, ListIs
  <2>3. /\ \A k \in 1..Len(printed) : (printed \o shown)[k] = printed[k]
        /\ \A j \in 1..Len(shown) : (printed \o shown)[Len(printed) + j] = shown[j]
    BY <1>1, <1>7, ListsAt
  <2> QED BY <1>3, <1>7, <1>8, <2>1, <2>2, <2>3
<1>10. ASSUME NEW k \in 1..Len(printed')
       PROVE  Shown(printed'[k], Plan[k], Len(Entries) = 1 /\ Previewed(k))
  <2>1. CASE k \in 1..Len(printed) BY <1>1, <1>9, <2>1 DEF PrintFits
  <2>2. CASE k \notin 1..Len(printed)
    <3> DEFINE j == k - Len(printed)
    <3>1. j \in 1..Len(order) /\ k = Len(printed) + j BY <1>4, <1>9, <2>2
    <3> QED BY <1>6, <1>9, <3>1
  <2> QED BY <2>1, <2>2
<1> QED BY <1>5, <1>10 DEF PrintFits

LEMMA MeantInit == Init => MeantInv
<1> SUFFICES ASSUME Init PROVE MeantInv
  OBVIOUS
<1>1. PlanInv /\ CallInv BY PlanInit, CallInit DEF CommandInv
<1>2. log = <<>> /\ printed = <<>> /\ pc = "main" /\ req \in Requests BY DEF Init, InitRun
<1>3. LogFits /\ FailedLast /\ PrintFits BY <1>2 DEF LogFits, FailedLast, PrintFits
<1> QED BY <1>1, <1>2, <1>3 DEF MeantInv

LEMMA MeantStep == MeantInv /\ [Next]_vars /\ PlanInv' /\ CallInv' => MeantInv'
<1> SUFFICES ASSUME MeantInv, [Next]_vars, PlanInv', CallInv' PROVE MeantInv'
  OBVIOUS
<1>1. /\ PlanInv /\ cfg \in Configs /\ req \in Requests /\ LogFits /\ FailedLast /\ PrintFits
      /\ pc = "jobs" => JobsAre /\ Given /\ Known /\ Calling
      /\ pc \in {"main", "local"} => log = <<>> /\ printed = <<>> /\ verdict = "idle"
  BY DEF MeantInv, PlanInv
<1>2. CASE UseDaemon
  <2>1. /\ pc = "main" /\ Name # <<>> /\ route' = "daemon"
        /\ UNCHANGED <<cfg, req, printed, log, verdict>>
    BY <1>2 DEF UseDaemon, run
  <2>2. LogFits' /\ FailedLast' /\ PrintFits' BY <1>1, <2>1, NothingYet
  <2>3. CASE IsSuite(Name[1]) \/ Name[1] \in Targets
    <3>1. todo' = DaemonJobs(Name[1]) /\ pc' = "jobs" BY <1>2, <2>3 DEF UseDaemon
    <3>2. Known /\ ServeAll(DaemonJobs(Name[1])) BY <1>1, <2>1, <2>3, DaemonServes
    <3>3. Jobs' = DaemonJobs(Name[1]) BY <2>1, SameMeaning DEF Jobs
    <3>4. Routed' BY <2>1, <2>3, SameEntries DEF Routed, IsSuite
    <3>5. JobsAre' BY <2>1, <3>1, <3>2, <3>3, <3>4, JobsBegin
    <3> QED BY <1>1, <2>1, <2>2, <3>5 DEF MeantInv, Given
  <2>4. CASE ~(IsSuite(Name[1]) \/ Name[1] \in Targets)
    <3>1. pc' = "done" BY <1>2, <2>4 DEF UseDaemon, Exit
    <3> QED BY <1>1, <2>1, <2>2, <3>1 DEF MeantInv
  <2> QED BY <2>3, <2>4
<1>3. CASE StayLocal \/ LoadFails \/ Refuse
  <2>1. /\ pc \in {"main", "local"} /\ pc' \in {"local", "done"} /\ UNCHANGED <<req, printed, log>>
    BY <1>3 DEF StayLocal, LoadFails, Refuse, Exit, run
  <2>2. LogFits' /\ FailedLast' /\ PrintFits' BY <1>1, <2>1, NothingYet
  <2> QED BY <1>1, <2>1, <2>2 DEF MeantInv
<1>4. CASE Resolve
  <2>1. /\ pc = "local" /\ ~UsageError /\ todo' = LocalJobs
        /\ UNCHANGED <<cfg, req, route, printed, log, verdict>>
    BY <1>4 DEF Resolve, run
  <2>2. LogFits' /\ FailedLast' /\ PrintFits' BY <1>1, <2>1, NothingYet
  <2>3. route = IF Name = <<>> THEN "default" ELSE "local" BY <1>1, <2>1 DEF PlanInv
  <2>4. route # "daemon" /\ Routed BY <2>1, <2>3 DEF Routed
  <2>5. Known /\ ServeAll(LocalJobs) BY <1>1, <2>1, LocalServes
  <2>6. Routed' /\ Jobs' = LocalJobs BY <2>1, <2>4, SamePlanned DEF Jobs
  <2>7. JobsAre' BY <2>1, <2>5, <2>6, JobsBegin
  <2> QED BY <1>1, <2>1, <2>2, <2>7 DEF MeantInv, Given
<1>5. CASE PrintJob
  <2>1. /\ pc = "jobs" /\ todo # <<>> /\ Printing /\ todo' = Tail(todo)
        /\ UNCHANGED <<cfg, req, pc, route, asked, i, stage, ret, log, verdict>>
    BY <1>5 DEF PrintJob, Printing, run
  <2>2. verdict = "idle" BY <1>1, <2>1 DEF Calling
  <2>3. JobsAre' BY <2>1, JobsAdvance
  <2>4. LogFits' BY <1>1, <2>1, KeepsLog
  <2>5. ~NoneFollow BY <2>1, <2>2 DEF NoneFollow
  <2>6. FailedLast' BY <1>1, <2>1, <2>5, KeepsFailed
  <2>7. PrintFits' BY <1>5, PrintMeant
  <2> QED BY <1>1, <2>1, <2>2, <2>3, <2>4, <2>6, <2>7 DEF MeantInv, Given
<1>6. CASE SkipJob
  <2>1. /\ pc = "jobs" /\ todo # <<>> /\ todo' = Tail(todo) /\ verdict = "idle"
        /\ UNCHANGED <<cfg, req, pc, route, printed, log, verdict>>
    BY <1>6 DEF SkipJob, run
  <2>2. JobsAre' BY <2>1, JobsAdvance
  <2>3. LogFits' /\ PrintFits' BY <1>1, <2>1, KeepsLog, KeepsPrinted
  <2>4. ~NoneFollow BY <2>1 DEF NoneFollow
  <2>5. FailedLast' BY <1>1, <2>1, <2>4, KeepsFailed
  <2> QED BY <1>1, <2>1, <2>2, <2>3, <2>5 DEF MeantInv, Given
<1>7. CASE CallRun
  <2>1. /\ pc = "jobs" /\ todo # <<>> /\ verdict = "idle"
        /\ asked' = Head(todo).target /\ opts' = Head(todo).opts /\ i' = 1
        /\ UNCHANGED <<cfg, req, pc, route, todo, printed, log>>
    BY <1>7 DEF CallRun, BeginRun
  <2>2. JobsAre'
    <3>1. Jobs' = Jobs /\ (Routed' <=> Routed) /\ Entries' = Entries BY <2>1, SamePlanned
    <3> QED BY <1>1, <2>1, <3>1 DEF JobsAre, Done
  <2>3. LogFits' /\ PrintFits' BY <1>1, <2>1, KeepsLog, KeepsPrinted
  <2>4. ~NoneFollow BY <2>1 DEF NoneFollow
  <2>5. FailedLast' BY <1>1, <2>1, <2>4, KeepsFailed
  <2>6. Head(todo) = todo[1] /\ asked' \in Targets BY <2>1, CallAt
  <2>7. 1 \in 1..Len(Order[asked'])
    <3> DEFINE t == asked'
    <3>1. IsOrderOf(t, Order[t]) BY <2>6, OrderAssumption
    <3> HIDE DEF t
    <3>2. Order[t] \in Seq(Targets) /\ Order[t] # <<>> BY <3>1 DEF IsOrderOf
    <3>3. 1 \in 1..Len(Order[t]) BY <3>2
    <3> QED BY <3>3 DEF t
  <2>8. Given' BY <2>1, <2>6, <2>7 DEF Given
  <2> QED BY <1>1, <2>1, <2>2, <2>3, <2>5, <2>8 DEF MeantInv
<1>8. CASE RunStep
  <2>1. UNCHANGED <<req, pc>> /\ pc = "jobs" BY <1>8 DEF RunStep
  <2> QED BY <1>1, <1>8, <2>1, RunMeant DEF MeantInv
<1>9. CASE EndJob
  <2>1. /\ pc = "jobs" /\ verdict \notin {"idle", "none"} /\ verdict' = "idle"
        /\ UNCHANGED <<cfg, req, route, printed, log>>
    BY <1>9 DEF EndJob, Archive
  <2>2. LogFits' /\ PrintFits' BY <1>1, <2>1, KeepsLog, KeepsPrinted
  <2>3. CASE verdict = "ok"
    <3>1. todo' = Tail(todo) /\ UNCHANGED <<pc, exit>> BY <1>9, <2>3 DEF EndJob
    <3>2. todo # <<>> BY <1>1, <2>1 DEF Calling
    <3>3. JobsAre' BY <2>1, <3>1, <3>2, JobsAdvance
    <3>4. ~NoneFollow BY <2>1, <2>3 DEF NoneFollow
    <3>5. FailedLast' BY <1>1, <2>1, <3>4, KeepsFailed
    <3> QED BY <1>1, <2>1, <2>2, <3>1, <3>3, <3>5 DEF MeantInv, Given
  <2>4. CASE verdict # "ok"
    <3>1. pc' = "done" BY <1>9, <2>4 DEF EndJob, Exit
    <3>2. NoneFollow' BY <3>1 DEF NoneFollow
    <3>3. FailedLast' BY <1>1, <2>1, <3>2, KeepsFailed
    <3> QED BY <1>1, <2>1, <2>2, <3>1, <3>3 DEF MeantInv
  <2> QED BY <2>3, <2>4
<1>10. CASE AllDone
  <2>1. pc' = "done" /\ UNCHANGED <<cfg, req, route, printed, log>> BY <1>10 DEF AllDone, Exit, run
  <2>2. LogFits' /\ PrintFits' BY <1>1, <2>1, KeepsLog, KeepsPrinted
  <2>3. NoneFollow' BY <2>1 DEF NoneFollow
  <2>4. FailedLast' BY <1>1, <2>1, <2>3, KeepsFailed
  <2> QED BY <1>1, <2>1, <2>2, <2>4 DEF MeantInv
<1>11. CASE Ended \/ UNCHANGED vars
  <2>1. UNCHANGED vars BY <1>11 DEF Ended
  <2>2. UNCHANGED <<cfg, asked, opts, i, stage, ret, log, verdict, req, pc, route, todo, printed>>
    BY <2>1 DEF vars, run
  <2>3. LogFits' /\ PrintFits' BY <1>1, <2>2, KeepsLog, KeepsPrinted
  <2>4. NoneFollow' <=> NoneFollow
    <3>1. Current' = Current BY <2>2 DEF Current
    <3> QED BY <2>2, <3>1 DEF NoneFollow
  <2>5. FailedLast' BY <1>1, <2>2, <2>4, KeepsFailed
  <2>6. Jobs' = Jobs /\ (Routed' <=> Routed) /\ Entries' = Entries BY <2>2, SamePlanned
  <2>7. JobsAre' <=> JobsAre BY <2>2, <2>6 DEF JobsAre, Done
  <2>8. Given' <=> Given BY <2>2 DEF Given
  <2> QED BY <1>1, <2>2, <2>3, <2>5, <2>7, <2>8 DEF MeantInv
<1> QED BY <1>2, <1>3, <1>4, <1>5, <1>6, <1>7, <1>8, <1>9, <1>10, <1>11 DEF Next

LEMMA MeantIsPlanned == MeantInv => RunsAsPlanned
<1> SUFFICES ASSUME MeantInv PROVE RunsAsPlanned
  OBVIOUS
<1>1. /\ DOMAIN log = 1..Len(log) /\ Len(log) \in Nat /\ DOMAIN printed = 1..Len(printed)
      /\ LogFits /\ FailedLast /\ PrintFits
  BY ListIs DEF MeantInv, PlanInv
<1>2. ASSUME log # <<>>, route = "daemon" => Heard
      PROVE  /\ Len(log) <= Len(Plan)
             /\ \A k \in DOMAIN log :
                  /\ log[k].target = Plan[k].target
                  /\ log[k].how = "ran"    => log[k].commands = Plan[k].commands
                  /\ log[k].how = "failed" => k = Len(log) /\ IsPrefix(log[k].commands, Plan[k].commands)
                  /\ log[k].env = Plan[k].env
  <2>1. \A k \in 1..Len(log) : k \in 1..Len(Plan) /\ Fits(log[k], Plan[k]) BY <1>1, <1>2 DEF LogFits
  <2>2. Len(log) \in 1..Len(log)
    <3> DEFINE l == log
    <3>1. IsList(l) /\ l # <<>> BY <1>2 DEF MeantInv, PlanInv
    <3> HIDE DEF l
    <3>2. Len(l) \in Nat \ {0} BY <3>1, OneLess
    <3>3. Len(l) \in 1..Len(l) BY <3>2
    <3> QED BY <3>3 DEF l
  <2>3. Len(log) <= Len(Plan)
    <3>1. Len(log) \in 1..Len(Plan) BY <2>1, <2>2
    <3> QED BY <3>1
  <2> QED BY <1>1, <2>1, <2>3 DEF Fits, FailedLast
<1>3. \A k \in DOMAIN printed :
        /\ printed[k].target = Plan[k].target
        /\ Len(Entries) = 1 /\ Previewed(k) => printed[k].commands = Plan[k].commands
  BY <1>1 DEF PrintFits, Shown
<1> QED BY <1>2, <1>3 DEF RunsAsPlanned

\* Whichever way a command takes and whatever options are made on it, by RunMain,
\* the daemon or Run for the dependencies: everything that is run, and its
\* environment, is what was meant by the command line, in the planned order,
\* nothing runs behind a failure, and a dry run of one target printed the same.
THEOREM RunsAsMeant == Spec => []RunsAsPlanned
<1>1. Spec => [](PlanInv /\ CommandInv)
  BY PlanInit, PlanNext, CallInit, CallNext, PTL DEF Spec
<1>2. MeantInv /\ [Next]_vars /\ (PlanInv /\ CommandInv)' => MeantInv'
  BY MeantStep DEF CommandInv
<1> QED BY <1>1, <1>2, MeantInit, MeantIsPlanned, PTL DEF Spec
==============================================================================
