------------------------- MODULE DaemonStateProofs -------------------------
(***************************************************************************)
(* Proofs about DaemonState, for every set of daemons, processes and       *)
(* activities.                                                             *)
(***************************************************************************)
EXTENDS DaemonState, TLAPS

State == [Names -> Pids \union {None}]
Works == Tasks \X Names
Places == {"idle", "waiting", "loop", "load", "open", "write", "done"}

\* The process p was started for the daemon n.
For(p, n) == started[p] # None /\ started[p][1] = n

\* Every entry of the state s names a process started for that daemon.
Real(s) == \A n \in Names : s[n] # None => For(s[n], n)

\* So does every copy of the file an activity holds.
Copies == Real(file) /\ \A a \in Actors : Real(snap[a]) /\ Real(seen[a])

\* So does what it is about to write.
Writing == \A a \in Actors : pc[a] \in {"load", "open", "write"} =>
    /\ op[a] \in Names \X (Pids \union {None})
    /\ op[a][2] # None => For(op[a][2], op[a][1])

Fresh == \A p \in Pids : proc[p] = "unused" => started[p] = None

StateInv == TypeOK /\ Copies /\ Writing /\ Fresh

LEMMA ConfigTypes ==
  /\ NoConfig \in ConfigType /\ Configs \subseteq ConfigType
  /\ \A c \in ConfigType : c.daemons \subseteq Names /\ c.workflow \in Seq(Names)
  /\ \A c \in ConfigType : c.workflow # <<>> =>
        Head(c.workflow) \in Names /\ [c EXCEPT !.workflow = Tail(@)] \in ConfigType
<1>1. NoConfig \in ConfigType
  <2>1. {} \in SUBSET Names /\ <<>> \in Seq(Names) OBVIOUS
  <2> QED BY <2>1 DEF ConfigType, NoConfig
<1>2. Configs \subseteq ConfigType BY ActorAssumption DEF ConfigType
<1>3. ASSUME NEW c \in ConfigType
      PROVE  /\ c.daemons \subseteq Names /\ c.workflow \in Seq(Names)
             /\ c.workflow # <<>> =>
                   Head(c.workflow) \in Names /\ [c EXCEPT !.workflow = Tail(@)] \in ConfigType
  <2>1. c \in [daemons : SUBSET Names, workflow : Seq(Names)] BY <1>3 DEF ConfigType
  <2>2. c.daemons \in SUBSET Names /\ c.workflow \in Seq(Names) BY <2>1
  <2> DEFINE w == c.workflow
  <2>3. w # <<>> => Head(w) \in Names /\ Tail(w) \in Seq(Names)
    <3> HIDE DEF w
    <3> SUFFICES ASSUME w \in Seq(Names) PROVE w # <<>> => Head(w) \in Names /\ Tail(w) \in Seq(Names)
      BY <2>2 DEF w
    <3> QED OBVIOUS
  <2>4. ASSUME NEW s \in Seq(Names) PROVE [c EXCEPT !.workflow = s] \in ConfigType
    BY <2>1 DEF ConfigType
  <2> QED BY <2>2, <2>3, <2>4
<1> QED BY <1>1, <1>2, <1>3

LEMMA StateInit == Init => StateInv
<1> SUFFICES ASSUME Init PROVE StateInv OBVIOUS
<1>1. Empty \in State /\ \A n \in Names : Empty[n] = None
  BY DEF Empty, State
<1>2. TypeOK BY <1>1, ActorAssumption, ConfigTypes DEF Init, TypeOK, State, Tasks
<1>3. Copies BY <1>1 DEF Init, Copies, Real
<1>4. Writing /\ Fresh BY DEF Init, Writing, Fresh
<1> QED BY <1>2, <1>3, <1>4 DEF StateInv

LEMMA OneTask == ASSUME NEW k \in Tasks, NEW n \in Names PROVE {<<k, n>>} \in SUBSET Works
BY DEF Works

\* What leaving does to the type.
LEMMA LeaveTypes ==
  ASSUME NEW a \in Actors, TypeOK, Leave(a)
  PROVE  /\ pc' \in [Actors -> Places]
         /\ runMu' \in Locked \union {None}
         /\ conf' \in [Actors -> ConfigType]
         /\ work' \in [Actors -> SUBSET Works]
         /\ pc'[a] \in {"idle", "done"}
         /\ \A b \in Actors \ {a} : pc'[b] = pc[b]
BY ConfigTypes DEF TypeOK, Leave, Works, Places

\* What taking a daemon does to it.
LEMMA TakenTypes ==
  ASSUME NEW a \in Actors, NEW n \in Names, TypeOK, Startable(a, n), Taken(a, n)
  PROVE  /\ conf' \in [Actors -> ConfigType]
         /\ work' \in [Actors -> SUBSET Works] /\ work'[a] \subseteq work[a]
         /\ \A b \in Actors \ {a} : work'[b] = work[b] /\ conf'[b] = conf[b]
<1>1. CASE Kind[a] = "up"
  <2>1. /\ conf[a] \in ConfigType /\ conf[a].workflow # <<>>
        /\ conf' = [conf EXCEPT ![a] = [conf[a] EXCEPT !.workflow = Tail(@)]]
        /\ work' = work
    BY <1>1 DEF TypeOK, Startable, Taken
  <2>2. [conf[a] EXCEPT !.workflow = Tail(@)] \in ConfigType BY <2>1, ConfigTypes
  <2> QED BY <2>1, <2>2 DEF TypeOK, Works
<1>2. CASE Kind[a] # "up"
  BY <1>2 DEF TypeOK, Taken, Works
<1> QED BY <1>1, <1>2

\* What a stop makes of the processes: it starts none, and p does not go on as before.
LEMMA Stopped ==
  ASSUME TypeOK, NEW p, NEW r \in StopEntry(p), proc' = [proc EXCEPT ![p] = r[1]]
  PROVE  /\ proc' \in [Pids -> {"unused", "alive", "told", "exited", "gone"}]
         /\ \A q \in Pids : /\ proc'[q] = "unused" => proc[q] = "unused"
                            /\ proc'[q] = "alive" => proc[q] = "alive" /\ q # p
<1>1. CASE p \in Pids
  <2>1. Told(p) \in {"told", "exited", "gone"} \/ (Told(p) = "unused" /\ proc[p] = "unused")
    BY <1>1 DEF Told, TypeOK
  <2>2. \/ r = <<"gone", TRUE>> \/ r = <<"gone", FALSE>>
        \/ r = <<Told(p), TRUE>> \/ r = <<Told(p), FALSE>>
    BY DEF StopEntry
  <2> DEFINE t == Told(p)
  <2>3. r[1] = "gone" \/ r[1] = t
    <3> HIDE DEF t
    <3>1. \/ r = <<"gone", TRUE>> \/ r = <<"gone", FALSE>> \/ r = <<t, TRUE>> \/ r = <<t, FALSE>>
      BY <2>2 DEF t
    <3>2. \A u : <<u, TRUE>>[1] = u /\ <<u, FALSE>>[1] = u OBVIOUS
    <3> QED BY <3>1, <3>2, Zenon
  <2>4. r[1] \in {"told", "exited", "gone"} \/ (r[1] = "unused" /\ proc[p] = "unused")
    BY <2>1, <2>3
  <2> QED BY <1>1, <2>4 DEF TypeOK
<1>2. CASE p \notin Pids BY <1>2 DEF TypeOK
<1> QED BY <1>1, <1>2

\* A step that starts no process keeps Copies, Writing and Fresh when no new
\* state is read and nothing new is to be written.
LEMMA Keeps ==
  ASSUME StateInv, UNCHANGED <<file, started, seen, snap, op>>,
         \A p \in Pids : proc'[p] = "unused" => proc[p] = "unused",
         \A b \in Actors : pc'[b] \in {"load", "open", "write"} =>
                              pc[b] \in {"load", "open", "write"}
  PROVE  Copies' /\ Writing' /\ Fresh'
<1>1. Copies' BY DEF StateInv, Copies, Real, For
<1>2. Writing' BY DEF StateInv, Writing, For
<1>3. Fresh' BY DEF StateInv, Fresh
<1> QED BY <1>1, <1>2, <1>3

\* So does one that starts a process.
LEMMA Grows ==
  ASSUME StateInv, UNCHANGED <<file, seen, snap, op>>,
         \A q, m : q \in Pids /\ For(q, m) => For(q, m)',
         \A b \in Actors : pc'[b] \in {"load", "open", "write"} => pc'[b] = pc[b]
  PROVE  Copies' /\ Writing'
<1>1. ASSUME NEW s \in State, Real(s), NEW m \in Names, s[m] # None PROVE For(s[m], m)'
  BY <1>1 DEF Real, State
<1>2. file \in State /\ \A b \in Actors : snap[b] \in State /\ seen[b] \in State
  BY DEF StateInv, TypeOK, State
<1>3. Copies' BY <1>1, <1>2 DEF StateInv, Copies, Real
<1>4. ASSUME NEW b \in Actors, pc'[b] \in {"load", "open", "write"}
      PROVE  /\ op'[b] \in Names \X (Pids \union {None})
             /\ op'[b][2] # None => For(op[b][2], op[b][1])'
  <2>1. /\ op[b] \in Names \X (Pids \union {None})
        /\ op[b][2] # None => For(op[b][2], op[b][1])
    BY <1>4 DEF StateInv, Writing
  <2>2. op[b][2] # None => op[b][2] \in Pids BY <2>1
  <2>3. op' = op OBVIOUS
  <2> DEFINE q == op[b][2]
             m == op[b][1]
  <2>4. q # None => started'[q] # None /\ started'[q][1] = m
    <3> HIDE DEF q, m
    <3>1. q # None => q \in Pids /\ For(q, m) BY <2>1, <2>2 DEF q, m
    <3> QED BY <3>1 DEF For
  <2> QED BY <2>1, <2>3, <2>4 DEF For
<1> QED BY <1>3, <1>4 DEF Writing

\* What is left of a state is real.
LEMMA OnlyReal ==
  ASSUME NEW s \in State, Real(s), NEW N
  PROVE  Only(s, N) \in State /\ Real(Only(s, N))
<1>1. Only(s, N) = [n \in Names |-> IF n \in N THEN s[n] ELSE None] BY DEF Only
<1>2. Only(s, N) \in State BY <1>1 DEF State
<1>3. Real(Only(s, N)) BY <1>1 DEF Real
<1> QED BY <1>2, <1>3

LEMMA EmptyReal == Empty \in State /\ Real(Empty)
BY DEF Empty, State, Real

\* An activity that begins.
LEMMA BeginKeeps ==
  ASSUME StateInv, NEW a \in Actors, NEW c \in ConfigType, NEW N,
         NEW w \in SUBSET Works, Begin(a, c, N, w)
  PROVE  StateInv'
<1> USE ActorAssumption DEF StateInv, disk, processes, config
<1>1. Only(file, N) \in State /\ Real(Only(file, N))
  BY OnlyReal DEF TypeOK, State, Copies
<1>2. seen' = [seen EXCEPT ![a] = Only(file, N)] BY DEF Begin
<1>3. runMu' \in Locked \union {None} BY DEF Begin, TypeOK
<1>4. TypeOK' BY <1>1, <1>2, <1>3 DEF Begin, TypeOK, State, Works
<1>5. Copies' BY <1>1, <1>2 DEF Begin, Copies, Real, For, TypeOK
<1>6. Writing' BY DEF Begin, Writing, For, TypeOK
<1>7. Fresh' BY DEF Begin, Fresh
<1> QED BY <1>4, <1>5, <1>6, <1>7

LEMMA StateNext == StateInv /\ [Next]_vars => StateInv'
<1> SUFFICES ASSUME StateInv, [Next]_vars PROVE StateInv' OBVIOUS
<1> USE ActorAssumption DEF StateInv, Goto, disk, processes, config
<1>1. ASSUME NEW a \in Actors, Step(a) PROVE StateInv'
  <2>1. CASE BeginUp(a) \/ BeginDown(a) \/ BeginStop(a) \/ BeginCheck(a) \/ BeginReload(a)
    <3>1. CASE BeginUp(a)
      <4>1. PICK c \in IF a \in Locked THEN {conf[a]} ELSE Configs : Begin(a, c, {}, {})
        BY <3>1 DEF BeginUp
      <4>2. c \in ConfigType BY ConfigTypes DEF TypeOK
      <4>3. {} \in SUBSET Works OBVIOUS
      <4> QED BY <4>1, <4>2, <4>3, BeginKeeps
    <3>2. CASE BeginDown(a) \/ BeginCheck(a)
      <4>1. /\ {"stop"} \X Recorded(file) \in SUBSET Works
            /\ {"check"} \X Recorded(file) \in SUBSET Works
        BY DEF Works, Tasks, Recorded
      <4> QED BY <3>2, <4>1, BeginKeeps, ConfigTypes DEF BeginDown, BeginCheck
    <3>3. CASE BeginStop(a)
      <4>1. PICK n \in Recorded(file) : Begin(a, NoConfig, {n}, {<<"stop one", n>>})
        BY <3>3 DEF BeginStop
      <4>2. "stop one" \in Tasks /\ n \in Names BY DEF Tasks, Recorded
      <4>3. {<<"stop one", n>>} \in SUBSET Works BY <4>2, OneTask
      <4> QED BY <4>1, <4>3, BeginKeeps, ConfigTypes
    <3>4. CASE BeginReload(a)
      <4>1. PICK c \in Configs : \E changed \in SUBSET (c.daemons \intersect cfg.daemons) :
              Begin(a, c, {}, ({"remove"} \X (cfg.daemons \ c.daemons))
                                \union ({"restart"} \X changed)
                                \union ({"add"} \X (c.daemons \ cfg.daemons)))
        BY <3>4 DEF BeginReload
      <4> PICK changed \in SUBSET (c.daemons \intersect cfg.daemons) :
              Begin(a, c, {}, ({"remove"} \X (cfg.daemons \ c.daemons))
                                \union ({"restart"} \X changed)
                                \union ({"add"} \X (c.daemons \ cfg.daemons)))
        BY <4>1
      <4>2. c.daemons \subseteq Names /\ cfg.daemons \subseteq Names /\ c \in ConfigType
        BY ConfigTypes DEF TypeOK
      <4>3. ({"remove"} \X (cfg.daemons \ c.daemons)) \union ({"restart"} \X changed)
                \union ({"add"} \X (c.daemons \ cfg.daemons)) \in SUBSET Works
        BY <4>2 DEF Works, Tasks
      <4> QED BY <4>2, <4>3, BeginKeeps
    <3> QED BY <2>1, <3>1, <3>2, <3>3, <3>4
  <2>13. CASE Arrive(a)
    <3>1. TypeOK' BY <2>13 DEF Arrive, TypeOK
    <3>2. Copies' /\ Writing' /\ Fresh' BY <2>13, Keeps DEF Arrive, TypeOK
    <3> QED BY <3>1, <3>2
  <2>2. CASE BeginFails(a)
    <3>1. TypeOK' BY <2>2 DEF BeginFails, TypeOK
    <3>2. Copies' /\ Writing' /\ Fresh' BY <2>2, Keeps DEF BeginFails, TypeOK
    <3> QED BY <3>1, <3>2
  <2>3. CASE End(a)
    <3>1. Leave(a) BY <2>3 DEF End
    <3>2. seen' = [seen EXCEPT ![a] = IF Kind[a] = "down" THEN @ ELSE Empty]
      BY <2>3 DEF End
    <3>3. TypeOK'
      <4>1. seen' \in [Actors -> State] BY <3>2, EmptyReal DEF TypeOK, State
      <4>2. cfg' \in ConfigType BY <2>3 DEF End, TypeOK
      <4>3. UNCHANGED <<file, torn, proc, started, faults, op, snap, excused>>
        BY <2>3 DEF End
      <4> QED BY <3>1, <4>1, <4>2, <4>3, LeaveTypes DEF TypeOK, Works, State, Places
    <3>4. Copies'
      BY <2>3, <3>2, EmptyReal DEF End, Copies, Real, For, TypeOK, State
    <3>5. Writing' BY <2>3, <3>1 DEF End, Leave, Writing, For, TypeOK
    <3>6. Fresh' BY <2>3 DEF End, Fresh
    <3> QED BY <3>3, <3>4, <3>5, <3>6
  <2>4. ASSUME NEW n \in Names, StartDaemon(a, n) PROVE StateInv'
    <3>1. PICK p \in Pids : /\ proc[p] = "unused"
                            /\ proc' = [proc EXCEPT ![p] = "alive"]
                            /\ started' = [started EXCEPT ![p] = <<n, a>>]
                            /\ op' = [op EXCEPT ![a] = <<n, p>>]
      BY <2>4 DEF StartDaemon
    <3>2. started[p] = None BY <3>1 DEF Fresh
    <3>3. \A q, m : q \in Pids /\ For(q, m) => For(q, m)'
      BY <3>1, <3>2 DEF For, TypeOK
    <3>4. For(p, n)'
      BY <3>1 DEF For, TypeOK
    <3>5. TypeOK'
      <4>1. conf' \in [Actors -> ConfigType] /\ work' \in [Actors -> SUBSET Works]
        BY <2>4, TakenTypes DEF StartDaemon
      <4>2. excused' \subseteq Pids BY <2>4 DEF StartDaemon, TypeOK
      <4>3. UNCHANGED <<file, torn, faults, cfg, runMu, seen, snap>> /\ Goto(a, "loop", "load")
        BY <2>4 DEF StartDaemon
      <4>4. /\ proc' \in [Pids -> {"unused", "alive", "told", "exited", "gone"}]
            /\ started' \in [Pids -> (Names \X (Actors \union {None})) \union {None}]
            /\ op' \in [Actors -> (Names \X (Pids \union {None})) \union {None}]
        BY <3>1 DEF TypeOK
      <4> QED BY <4>1, <4>2, <4>3, <4>4 DEF TypeOK, Works
    <3>6. Copies'
      <4>1. ASSUME NEW s \in State, Real(s), NEW m \in Names, s[m] # None
            PROVE  For(s[m], m)'
        BY <4>1, <3>3 DEF Real, State
      <4>2. file \in State /\ \A b \in Actors : snap[b] \in State /\ seen[b] \in State
        BY DEF TypeOK, State
      <4>3. file' = file /\ snap' = snap /\ seen' = seen BY <2>4 DEF StartDaemon
      <4> QED BY <4>1, <4>2, <4>3 DEF Copies, Real
    <3>7. Writing'
      <4> SUFFICES ASSUME NEW b \in Actors, pc'[b] \in {"load", "open", "write"}
                   PROVE  (/\ op[b] \in Names \X (Pids \union {None})
                           /\ op[b][2] # None => For(op[b][2], op[b][1]))'
        BY DEF Writing
      <4>1. CASE b = a
        <5>1. op'[b] = <<n, p>> BY <4>1, <3>1 DEF TypeOK
        <5>2. op'[b][1] = n /\ op'[b][2] = p BY <5>1
        <5> QED BY <5>1, <5>2, <3>4 DEF For
      <4>2. CASE b # a
        <5>1. op'[b] = op[b] BY <4>2, <3>1 DEF TypeOK
        <5>2. pc'[b] = pc[b] BY <4>2, <2>4 DEF TypeOK, StartDaemon
        <5>3. /\ op[b] \in Names \X (Pids \union {None})
              /\ op[b][2] # None => For(op[b][2], op[b][1])
          BY <5>2 DEF Writing
        <5>4. op[b][2] \in Pids \union {None} BY <5>3
        <5> DEFINE q == op[b][2]
                   m == op[b][1]
        <5>5. q # None => started'[q] # None /\ started'[q][1] = m
          <6> SUFFICES ASSUME q # None PROVE started'[q] # None /\ started'[q][1] = m
            OBVIOUS
          <6> HIDE DEF q, m
          <6>1. q \in Pids /\ For(q, m) BY <5>3, <5>4 DEF q, m
          <6> QED BY <6>1, <3>1, <3>2 DEF For, TypeOK
        <5> QED BY <5>1, <5>3, <5>5 DEF For
      <4> QED BY <4>1, <4>2
    <3>8. Fresh' BY <3>1 DEF Fresh, TypeOK
    <3> QED BY <3>5, <3>6, <3>7, <3>8
  <2>5. ASSUME NEW n \in Names, StartFails(a, n) PROVE StateInv'
    <3>1. /\ conf' \in [Actors -> ConfigType] /\ work' \in [Actors -> SUBSET Works]
          /\ pc' \in [Actors -> Places] /\ runMu' \in Locked \union {None}
          /\ \A b \in Actors : pc'[b] \in {"load", "open", "write"} => pc'[b] = pc[b]
      <4>1. CASE Kind[a] = "up" BY <2>5, <4>1, LeaveTypes DEF StartFails
      <4>2. CASE Kind[a] # "up"
        BY <2>5, <4>2, TakenTypes DEF StartFails, TypeOK, Places
      <4> QED BY <4>1, <4>2
    <3>2. UNCHANGED <<file, torn, faults, cfg, seen, op, snap>> BY <2>5 DEF StartFails
    <3>3. CASE UNCHANGED <<proc, started, excused>>
      <4>1. TypeOK' BY <3>1, <3>2, <3>3 DEF TypeOK, Works, Places
      <4>2. Copies' /\ Writing' /\ Fresh' BY <3>1, <3>2, <3>3, Keeps
      <4> QED BY <4>1, <4>2
    <3>4. CASE \E p \in Containers : /\ proc[p] = "unused"
                                     /\ proc' = [proc EXCEPT ![p] = "alive"]
                                     /\ started' = [started EXCEPT ![p] = <<n, a>>]
                                     /\ excused' = excused \union {p}
      <4>1. PICK p \in Pids : /\ proc[p] = "unused"
                              /\ proc' = [proc EXCEPT ![p] = "alive"]
                              /\ started' = [started EXCEPT ![p] = <<n, a>>]
                              /\ excused' = excused \union {p}
        BY <3>4
      <4>2. started[p] = None BY <4>1 DEF Fresh
      <4>3. \A q, m : q \in Pids /\ For(q, m) => For(q, m)' BY <4>1, <4>2 DEF For, TypeOK
      <4>4. TypeOK' BY <3>1, <3>2, <4>1 DEF TypeOK, Works, Places
      <4>5. Copies' /\ Writing' BY <3>1, <3>2, <4>3, Grows
      <4>6. Fresh' BY <4>1 DEF Fresh, TypeOK
      <4> QED BY <4>4, <4>5, <4>6
    <3> QED BY <2>5, <3>3, <3>4 DEF StartFails
  <2>6. ASSUME NEW n \in Names, StopDaemon(a, n) PROVE StateInv'
    <3>1. PICK r \in StopEntry(seen[a][n]) : proc' = [proc EXCEPT ![seen[a][n]] = r[1]]
      BY <2>6 DEF StopDaemon
    <3>2. /\ proc' \in [Pids -> {"unused", "alive", "told", "exited", "gone"}]
          /\ \A q \in Pids : proc'[q] = "unused" => proc[q] = "unused"
      BY <3>1, Stopped
    <3>3. TypeOK' BY <2>6, <3>2 DEF StopDaemon, TypeOK
    <3>4. Copies' BY <2>6 DEF StopDaemon, Copies, Real, For
    <3>5. Writing' BY <2>6 DEF StopDaemon, Writing, For, TypeOK
    <3>6. Fresh' BY <2>6, <3>2 DEF StopDaemon, Fresh
    <3> QED BY <3>3, <3>4, <3>5, <3>6
  <2>7. ASSUME NEW n \in Names, NextDaemon(a, n) PROVE StateInv'
    <3>1. PICK kind \in {"remove", "restart", "add"} :
            LET stop  == IF kind = "add" \/ torn \/ file[n] = None THEN {} ELSE {<<"stop", n>>}
                start == IF kind = "remove" THEN {} ELSE {<<"start", n>>}
            IN /\ work' = [work EXCEPT ![a] = (@ \ {<<kind, n>>}) \union stop \union start]
               /\ seen' = [seen EXCEPT ![a] = IF stop = {} THEN Empty ELSE Only(file, {n})]
      BY <2>7 DEF NextDaemon
    <3>2. {<<"start", n>>} \subseteq Works /\ {<<"stop", n>>} \subseteq Works
      BY OneTask DEF Tasks
    <3>3. work' \in [Actors -> SUBSET Works] BY <3>1, <3>2 DEF TypeOK, Works
    <3>4. PICK s : (s = Empty \/ s = Only(file, {n})) /\ seen' = [seen EXCEPT ![a] = s]
      BY <3>1
    <3>5. s \in State /\ Real(s)
      BY <3>4, OnlyReal, EmptyReal DEF TypeOK, State, Copies
    <3>6. TypeOK' BY <2>7, <3>3, <3>4, <3>5 DEF NextDaemon, TypeOK, Works, State
    <3>7. Copies' BY <2>7, <3>4, <3>5 DEF NextDaemon, Copies, Real, For, TypeOK
    <3>8. Writing' /\ Fresh' BY <2>7 DEF NextDaemon, Writing, Fresh, For
    <3> QED BY <3>6, <3>7, <3>8
  <2>14. ASSUME NEW n \in Names, StopOne(a, n) PROVE StateInv'
    <3>1. PICK r \in StopEntry(seen[a][n]) :
            /\ proc' = [proc EXCEPT ![seen[a][n]] = r[1]]
            /\ IF r[2] THEN Goto(a, "loop", "load") /\ op' = [op EXCEPT ![a] = <<n, None>>]
               ELSE UNCHANGED <<pc, op>>
      BY <2>14 DEF StopOne
    <3>2. /\ proc' \in [Pids -> {"unused", "alive", "told", "exited", "gone"}]
          /\ \A q \in Pids : proc'[q] = "unused" => proc[q] = "unused"
      BY <3>1, Stopped
    <3>3. work' \in [Actors -> SUBSET Works] BY <2>14 DEF StopOne, TypeOK, Works
    <3>4. UNCHANGED <<file, torn, started, faults, cfg, conf, runMu, seen, snap, excused>>
      BY <2>14 DEF StopOne
    <3>5. Copies' /\ Fresh' BY <3>2, <3>4 DEF Copies, Real, For, Fresh
    <3>6. CASE r[2]
      <4>1. pc' = [pc EXCEPT ![a] = "load"] /\ op' = [op EXCEPT ![a] = <<n, None>>]
        BY <3>1, <3>6
      <4>2. TypeOK' BY <3>2, <3>3, <3>4, <4>1 DEF TypeOK, Works
      <4>3. Writing' BY <3>4, <4>1 DEF Writing, For, TypeOK
      <4> QED BY <3>5, <4>2, <4>3
    <3>7. CASE ~r[2]
      <4>1. UNCHANGED <<pc, op>> BY <3>1, <3>7
      <4>2. TypeOK' BY <3>2, <3>3, <3>4, <4>1 DEF TypeOK, Works
      <4>3. Writing' BY <3>4, <4>1 DEF Writing, For
      <4> QED BY <3>5, <4>2, <4>3
    <3> QED BY <3>6, <3>7
  <2>8. ASSUME NEW n \in Names, Check(a, n) \/ CheckUnanswered(a, n) PROVE StateInv'
    <3>1. /\ work' = [work EXCEPT ![a] = @ \ {<<"check", n>>}]
          /\ UNCHANGED <<file, torn, proc, started, faults, cfg, conf, runMu, seen, snap>>
      BY <2>8 DEF Check, CheckUnanswered
    <3>2. Copies' /\ Fresh' BY <3>1 DEF Copies, Real, For, Fresh
    <3>3. CASE UNCHANGED <<pc, op, excused>>
      <4>1. TypeOK' BY <3>1, <3>3 DEF TypeOK
      <4>2. Writing' BY <3>1, <3>3 DEF Writing, For
      <4> QED BY <3>2, <4>1, <4>2
    <3>4. ASSUME NEW ps \in SUBSET Pids, FoundDead(a, n, ps) PROVE StateInv'
      <4>1. /\ pc' = [pc EXCEPT ![a] = "load"] /\ op' = [op EXCEPT ![a] = <<n, None>>]
            /\ excused' \subseteq Pids
        BY <3>4 DEF FoundDead, TypeOK
      <4>2. TypeOK' BY <3>1, <4>1 DEF TypeOK
      <4>3. Writing' BY <3>1, <4>1 DEF Writing, For, TypeOK
      <4> QED BY <3>2, <4>2, <4>3
    <3>5. CASE Check(a, n)
      <4>1. {} \in SUBSET Pids OBVIOUS
      <4> QED BY <3>3, <3>4, <3>5, <4>1 DEF Check
    <3>6. CASE CheckUnanswered(a, n)
      <4>1. {seen[a][n]} \in SUBSET Pids BY <3>6 DEF CheckUnanswered
      <4>2. FoundDead(a, n, {seen[a][n]}) BY <3>6 DEF CheckUnanswered
      <4> QED BY <3>4, <4>1, <4>2
    <3> QED BY <2>8, <3>5, <3>6
  <2>9. CASE LoadState(a)
    <3>1. TypeOK' BY <2>9 DEF LoadState, TypeOK
    <3>2. \A b \in Actors : snap'[b] = snap[b] \/ snap'[b] = file
      BY <2>9 DEF LoadState, TypeOK
    <3>3. Copies' BY <2>9, <3>2 DEF LoadState, Copies, Real, For
    <3>4. Writing' BY <2>9 DEF LoadState, Writing, For, TypeOK
    <3>5. Fresh' BY <2>9 DEF LoadState, Fresh
    <3> QED BY <3>1, <3>3, <3>4, <3>5
  <2>10. CASE LoadFails(a) \/ SaveFails(a)
    <3>1. GiveUp(a) /\ UNCHANGED <<file, torn, proc, started, cfg, seen>>
      BY <2>10 DEF LoadFails, SaveFails
    <3>2. faults' \in Nat /\ excused' \subseteq Pids
      BY <2>10 DEF LoadFails, SaveFails, TypeOK
    <3>3. op' = [op EXCEPT ![a] = None] /\ snap' = [snap EXCEPT ![a] = Empty]
      BY <3>1 DEF GiveUp
    <3>4. /\ pc' \in [Actors -> Places] /\ pc'[a] \notin {"load", "open", "write"}
          /\ \A b \in Actors \ {a} : pc'[b] = pc[b]
          /\ runMu' \in Locked \union {None} /\ conf' \in [Actors -> ConfigType]
          /\ work' \in [Actors -> SUBSET Works]
      <4>1. CASE Leave(a) BY <4>1, LeaveTypes
      <4>2. CASE pc' = [pc EXCEPT ![a] = "loop"] /\ UNCHANGED <<runMu, work, conf>>
        BY <4>2 DEF TypeOK, Places, Works
      <4> QED BY <3>1, <4>1, <4>2 DEF GiveUp
    <3>5. TypeOK'
      <4>1. op' \in [Actors -> (Names \X (Pids \union {None})) \union {None}]
        BY <3>3 DEF TypeOK
      <4>2. snap' \in [Actors -> State] BY <3>3, EmptyReal DEF TypeOK, State
      <4> QED BY <3>1, <3>2, <3>4, <4>1, <4>2 DEF TypeOK, Places, Works, State
    <3>6. Copies' /\ Fresh' BY <3>1, <3>3, EmptyReal DEF Copies, Real, For, Fresh, TypeOK
    <3>7. Writing' BY <3>1, <3>3, <3>4 DEF Writing, For, TypeOK
    <3> QED BY <3>5, <3>6, <3>7
  <2>11. CASE OpenState(a)
    <3>1. TypeOK' BY <2>11 DEF OpenState, TypeOK
    <3>2. Copies' /\ Writing' /\ Fresh' BY <2>11, Keeps DEF OpenState, TypeOK
    <3> QED BY <3>1, <3>2
  <2>12. CASE WriteState(a)
    <3>1. /\ op[a] \in Names \X (Pids \union {None})
          /\ op[a][2] # None => For(op[a][2], op[a][1])
      BY <2>12 DEF WriteState, Writing
    <3>2. op[a][1] \in Names /\ op[a][2] \in Pids \union {None} BY <3>1
    <3>3. snap[a] \in State /\ Real(snap[a]) BY DEF TypeOK, State, Copies
    <3>4. file' = [snap[a] EXCEPT ![op[a][1]] = op[a][2]] BY <2>12 DEF WriteState
    <3>5. file' \in State BY <3>2, <3>3, <3>4 DEF State
    <3>6. TypeOK' BY <2>12, <3>5, EmptyReal DEF WriteState, Forget, TypeOK, State
    <3>7. \A n \in Names : file'[n] # None => For(file'[n], n)
      BY <3>1, <3>2, <3>3, <3>4 DEF Real, State
    <3>8. Copies'
      BY <2>12, <3>7, EmptyReal DEF WriteState, Forget, Copies, Real, For, TypeOK
    <3>9. Writing' BY <2>12 DEF WriteState, Forget, Writing, For, TypeOK
    <3>10. Fresh' BY <2>12 DEF WriteState, Fresh
    <3> QED BY <3>6, <3>8, <3>9, <3>10
  <2> QED
    BY <1>1, <2>1, <2>2, <2>3, <2>4, <2>5, <2>6, <2>7, <2>8, <2>9, <2>10, <2>11, <2>12,
       <2>13, <2>14
    DEF Step
<1>2. ASSUME NEW p \in Pids, Exit(p) PROVE StateInv'
  <2>1. Dead(p) \in {"exited", "gone"} BY DEF Dead
  <2>2. TypeOK' BY <1>2, <2>1 DEF Exit, TypeOK
  <2>3. Copies' /\ Writing' /\ Fresh' BY <1>2, <2>1, Keeps DEF Exit, TypeOK
  <2> QED BY <2>2, <2>3
<1>3. CASE Crash
  <2>1. \A q, m : q \in Pids /\ For(q, m) => For(q, m)'
    <3> SUFFICES ASSUME NEW q \in Pids, NEW m, For(q, m) PROVE For(q, m)'
      OBVIOUS
    <3>1. started'[q] = started[q] \/ started'[q] = <<started[q][1], None>>
      BY <1>3 DEF Crash
    <3>2. None \notin Names \X (Actors \union {None}) OBVIOUS
    <3>3. started[q] \in Names \X (Actors \union {None}) BY DEF For, TypeOK
    <3>4. <<started[q][1], None>> \in Names \X (Actors \union {None}) BY <3>3
    <3>5. <<started[q][1], None>>[1] = started[q][1] OBVIOUS
    <3> QED BY <3>1, <3>2, <3>3, <3>4, <3>5 DEF For
  <2>2. TypeOK'
    <3>1. started' \in [Pids -> (Names \X (Actors \union {None})) \union {None}]
      BY <1>3 DEF Crash, TypeOK
    <3>2. cfg' \in ConfigType BY <1>3 DEF Crash, TypeOK
    <3>3. pc' \in [Actors -> Places] BY <1>3 DEF Crash, TypeOK, Places
    <3>4. seen' \in [Actors -> State] BY <1>3, EmptyReal DEF Crash, TypeOK, State
    <3>5. snap' \in [Actors -> State] BY <1>3, EmptyReal DEF Crash, TypeOK, State
    <3>6. work' \in [Actors -> SUBSET Works] BY <1>3 DEF Crash, TypeOK, Works
    <3>7. /\ conf' \in [Actors -> ConfigType]
          /\ op' \in [Actors -> (Names \X (Pids \union {None})) \union {None}]
      BY <1>3, ConfigTypes DEF Crash, TypeOK
    <3>8. proc' \in [Pids -> {"unused", "alive", "told", "exited", "gone"}]
      BY <1>3 DEF Crash, TypeOK
    <3>9. faults' \in Nat BY <1>3 DEF Crash, TypeOK
    <3>10. UNCHANGED <<file, torn>> /\ runMu' = None /\ excused' = Pids
      BY <1>3 DEF Crash
    <3>11. /\ file' \in [Names -> Pids \union {None}] /\ torn' \in BOOLEAN
           /\ runMu' \in Locked \union {None} /\ excused' \subseteq Pids
      BY <3>10 DEF TypeOK
    <3> QED
      BY <3>1, <3>2, <3>3, <3>4, <3>5, <3>6, <3>7, <3>8, <3>9, <3>11
      DEF TypeOK, State, Works, Places
  <2>3. ASSUME NEW s \in State, Real(s), NEW m \in Names, s[m] # None
        PROVE  For(s[m], m)'
    BY <2>1, <2>3 DEF Real, State
  <2>4. Copies'
    <3>1. file \in State /\ \A b \in Actors : snap[b] \in State /\ seen[b] \in State
      BY DEF TypeOK, State
    <3>2. file' = file BY <1>3 DEF Crash
    <3>3. \A b \in Actors : /\ snap'[b] = Empty \/ snap'[b] = snap[b]
                            /\ seen'[b] = Empty \/ seen'[b] = seen[b]
      BY <1>3 DEF Crash
    <3> QED BY <2>3, <3>1, <3>2, <3>3, EmptyReal DEF Copies, Real
  <2>5. Writing'
    <3> SUFFICES ASSUME NEW b \in Actors, pc'[b] \in {"load", "open", "write"}
                 PROVE  (/\ op[b] \in Names \X (Pids \union {None})
                         /\ op[b][2] # None => For(op[b][2], op[b][1]))'
      BY DEF Writing
    <3>1. b \notin Baked /\ pc'[b] = pc[b] BY <1>3 DEF Crash
    <3>2. op'[b] = op[b] BY <1>3, <3>1 DEF Crash
    <3>3. /\ op[b] \in Names \X (Pids \union {None})
          /\ op[b][2] # None => For(op[b][2], op[b][1])
      BY <3>1 DEF Writing
    <3> DEFINE q == op[b][2]
               m == op[b][1]
    <3>4. q \in Pids \union {None} BY <3>3
    <3>5. q # None => started'[q] # None /\ started'[q][1] = m
      <4> HIDE DEF q, m
      <4>1. q # None => For(q, m) BY <3>3 DEF q, m
      <4> QED BY <3>4, <4>1, <2>1 DEF For
    <3> QED BY <3>2, <3>3, <3>5 DEF For
  <2>6. Fresh' BY <1>3 DEF Crash, Fresh, TypeOK
  <2> QED BY <2>2, <2>4, <2>5, <2>6
<1>4. CASE UNCHANGED vars
  <2>1. TypeOK' BY <1>4 DEF vars, TypeOK
  <2>2. Copies' /\ Writing' /\ Fresh' BY <1>4, Keeps DEF vars
  <2> QED BY <2>1, <2>2
<1> QED BY <1>1, <1>2, <1>3, <1>4 DEF Next

THEOREM StateInvariant == Spec => []StateInv
BY StateInit, StateNext, PTL DEF Spec

\* The type invariant holds.
THEOREM TypeCorrect == Spec => []TypeOK
<1>1. StateInv => TypeOK BY DEF StateInv
<1> QED BY <1>1, StateInvariant, PTL

\* However the activities overwrite each other's writes, an entry of state.json
\* names a process that was started for its daemon: bake down signals no other.
THEOREM EntriesNameTheirOwn == Spec => []EntriesAreReal
<1>1. StateInv => EntriesAreReal
  BY DEF StateInv, Copies, Real, For, EntriesAreReal
<1> QED BY <1>1, StateInvariant, PTL

----------------------------------------------------------------------------
(* What bake down stops.                                                   *)

\* What an activity of each kind may have to do.
Duties(a) == CASE Kind[a] = "up"     -> {}
               [] Kind[a] = "down"   -> {"stop", "stop one"}
               [] Kind[a] = "health" -> {"check"}
               [] Kind[a] = "reload" -> {"remove", "restart", "add", "start", "stop"}

DutyInv == \A a \in Actors : work[a] \subseteq Duties(a) \X Names

InWork(a, kinds, n) == \E k \in kinds : <<k, n>> \in work[a]

\* A process that a request "down" has seen, that runs and that nobody has told to
\* stop is still to be stopped.
DownOf(a) ==
    /\ \A n \in Names : seen[a][n] # None /\ proc[seen[a][n]] = "alive" =>
                           Running(a) /\ InWork(a, {"stop", "stop one"}, n)
    /\ \A n, m \in Names : <<"stop one", n>> \in work[a] /\ m # n => seen[a][m] = None

DownInv == \A a \in Locked : Kind[a] = "down" => DownOf(a)

\* A step of one activity leaves the others where they are.
Stays(a) == /\ pc'[a] = pc[a] /\ work'[a] = work[a] /\ seen'[a] = seen[a]
            /\ conf'[a] = conf[a] /\ op'[a] = op[a] /\ snap'[a] = snap[a]

LEMMA Apart ==
  ASSUME StateInv, NEW a \in Actors, NEW b \in Actors, a # b, Step(b)
  PROVE  Stays(a)
<1> USE DEF StateInv, TypeOK, Stays, Goto, disk, processes, config
<1>1. CASE Arrive(b) BY <1>1 DEF Arrive
<1>2. ASSUME NEW c, NEW N, NEW w, Begin(b, c, N, w) PROVE Stays(a) BY <1>2 DEF Begin
<1>3. CASE BeginUp(b) \/ BeginDown(b) \/ BeginStop(b) \/ BeginCheck(b) \/ BeginReload(b)
  BY <1>2, <1>3 DEF BeginUp, BeginDown, BeginStop, BeginCheck, BeginReload
<1>4. CASE BeginFails(b) BY <1>4 DEF BeginFails
<1>5. CASE End(b) BY <1>5 DEF End, Leave
<1>6. ASSUME NEW n \in Names, StartDaemon(b, n) PROVE Stays(a)
  BY <1>6, TakenTypes DEF StartDaemon
<1>7. ASSUME NEW n \in Names, StartFails(b, n) PROVE Stays(a)
  <2>1. CASE Kind[b] = "up" BY <1>7, <2>1 DEF StartFails, Leave
  <2>2. CASE Kind[b] # "up" BY <1>7, <2>2, TakenTypes DEF StartFails
  <2> QED BY <2>1, <2>2
<1>8. ASSUME NEW n \in Names, StopDaemon(b, n) PROVE Stays(a) BY <1>8 DEF StopDaemon
<1>9. ASSUME NEW n \in Names, StopOne(b, n) PROVE Stays(a) BY <1>9 DEF StopOne
<1>10. ASSUME NEW n \in Names, NextDaemon(b, n) PROVE Stays(a) BY <1>10 DEF NextDaemon
<1>11. ASSUME NEW n \in Names, Check(b, n) \/ CheckUnanswered(b, n) PROVE Stays(a)
  BY <1>11 DEF Check, CheckUnanswered, FoundDead
<1>12. CASE LoadState(b) BY <1>12 DEF LoadState
<1>13. CASE LoadFails(b) \/ SaveFails(b) BY <1>13 DEF LoadFails, SaveFails, GiveUp, Leave
<1>14. CASE OpenState(b) BY <1>14 DEF OpenState
<1>15. CASE WriteState(b) BY <1>15 DEF WriteState, Forget
<1> QED
  BY <1>1, <1>3, <1>4, <1>5, <1>6, <1>7, <1>8, <1>9, <1>10, <1>11, <1>12, <1>13, <1>14, <1>15
  DEF Step

\* What an activity does that begins, and what each of the others does to its work.
LEMMA Begun ==
  ASSUME StateInv, NEW a \in Actors, NEW c, NEW N, NEW w, Begin(a, c, N, w)
  PROVE  /\ pc[a] \in {"idle", "waiting"} /\ pc'[a] = "loop"
         /\ conf'[a] = c /\ seen'[a] = Only(file, N) /\ work'[a] = w
         /\ UNCHANGED <<file, torn, proc, started, cfg, op, snap>>
BY DEF StateInv, TypeOK, Begin, disk, processes

LEMMA DutyKept ==
  ASSUME StateInv, NEW a \in Actors, work[a] \subseteq Duties(a) \X Names, Step(a)
  PROVE  work'[a] \subseteq Duties(a) \X Names
<1> USE DEF StateInv, TypeOK, Goto
<1>1. CASE Arrive(a) BY <1>1 DEF Arrive
<1>2. CASE BeginUp(a)
  <2>1. PICK c : Begin(a, c, {}, {}) BY <1>2 DEF BeginUp
  <2>2. work'[a] = {} BY <2>1, Begun
  <2> QED BY <2>2
<1>3. CASE BeginDown(a)
  <2>1. work'[a] = {"stop"} \X Recorded(file) BY <1>3, Begun DEF BeginDown
  <2>2. Duties(a) = {"stop", "stop one"} BY <1>3 DEF BeginDown, Duties
  <2> QED BY <2>1, <2>2 DEF Recorded
<1>4. CASE BeginStop(a)
  <2>1. PICK n \in Recorded(file) : Begin(a, NoConfig, {n}, {<<"stop one", n>>})
    BY <1>4 DEF BeginStop
  <2>2. work'[a] = {<<"stop one", n>>} BY <2>1, Begun
  <2>3. Duties(a) = {"stop", "stop one"} BY <1>4 DEF BeginStop, Duties
  <2>4. n \in Names BY DEF Recorded
  <2>5. <<"stop one", n>> \in {"stop", "stop one"} \X Names BY <2>4
  <2> QED BY <2>2, <2>3, <2>5
<1>5. CASE BeginCheck(a)
  <2>1. work'[a] = {"check"} \X Recorded(file) BY <1>5, Begun DEF BeginCheck
  <2>2. Duties(a) = {"check"} BY <1>5 DEF BeginCheck, Duties
  <2> QED BY <2>1, <2>2 DEF Recorded
<1>6. CASE BeginReload(a)
  <2>1. PICK c \in Configs : \E changed \in SUBSET (c.daemons \intersect cfg.daemons) :
          Begin(a, c, {}, ({"remove"} \X (cfg.daemons \ c.daemons)) \union ({"restart"} \X changed)
                            \union ({"add"} \X (c.daemons \ cfg.daemons)))
    BY <1>6 DEF BeginReload
  <2> PICK changed \in SUBSET (c.daemons \intersect cfg.daemons) :
          Begin(a, c, {}, ({"remove"} \X (cfg.daemons \ c.daemons)) \union ({"restart"} \X changed)
                            \union ({"add"} \X (c.daemons \ cfg.daemons)))
    BY <2>1
  <2>2. work'[a] = ({"remove"} \X (cfg.daemons \ c.daemons)) \union ({"restart"} \X changed)
                       \union ({"add"} \X (c.daemons \ cfg.daemons))
    BY Begun
  <2>4. c.daemons \subseteq Names /\ cfg.daemons \subseteq Names BY ConfigTypes
  <2>3. Duties(a) = {"remove", "restart", "add", "start", "stop"}
    BY <1>6 DEF BeginReload, Duties
  <2> QED BY <2>2, <2>3, <2>4
<1>7. CASE BeginFails(a) BY <1>7 DEF BeginFails
<1>8. CASE End(a) BY <1>8 DEF End, Leave
<1>9. ASSUME NEW n \in Names, StartDaemon(a, n) PROVE work'[a] \subseteq work[a]
  BY <1>9, TakenTypes DEF StartDaemon
<1>10. ASSUME NEW n \in Names, StartFails(a, n) PROVE work'[a] \subseteq work[a]
  <2>1. CASE Kind[a] = "up" BY <1>10, <2>1 DEF StartFails, Leave
  <2>2. CASE Kind[a] # "up" BY <1>10, <2>2, TakenTypes DEF StartFails
  <2> QED BY <2>1, <2>2
<1>11. ASSUME NEW n \in Names, StopDaemon(a, n) PROVE work'[a] \subseteq work[a]
  BY <1>11 DEF StopDaemon
<1>12. ASSUME NEW n \in Names, StopOne(a, n) PROVE work'[a] \subseteq work[a]
  BY <1>12 DEF StopOne
<1>13. ASSUME NEW n \in Names, NextDaemon(a, n)
       PROVE  work'[a] \subseteq Duties(a) \X Names
  <2>1. PICK kind \in {"remove", "restart", "add"} : <<kind, n>> \in work[a]
    BY <1>13 DEF NextDaemon
  <2>2. kind \in Duties(a) BY <2>1
  <2>3. Kind[a] = "reload" BY <2>2, ActorAssumption DEF Duties
  <2>4. Duties(a) = {"remove", "restart", "add", "start", "stop"} BY <2>3 DEF Duties
  <2>5. work'[a] \subseteq work[a] \union {<<"start", n>>, <<"stop", n>>}
    BY <1>13 DEF NextDaemon
  <2> QED BY <2>4, <2>5
<1>14. ASSUME NEW n \in Names, Check(a, n) \/ CheckUnanswered(a, n)
       PROVE  work'[a] \subseteq work[a]
  BY <1>14 DEF Check, CheckUnanswered
<1>15. CASE LoadState(a) BY <1>15 DEF LoadState
<1>16. CASE LoadFails(a) \/ SaveFails(a) BY <1>16 DEF LoadFails, SaveFails, GiveUp, Leave
<1>17. CASE OpenState(a) BY <1>17 DEF OpenState
<1>18. CASE WriteState(a) BY <1>18 DEF WriteState
<1> QED
  BY <1>1, <1>2, <1>3, <1>4, <1>5, <1>6, <1>7, <1>8, <1>9, <1>10, <1>11, <1>12, <1>13, <1>14,
     <1>15, <1>16, <1>17, <1>18
  DEF Step

LEMMA DutyNext == StateInv /\ DutyInv /\ [Next]_vars => DutyInv'
<1> SUFFICES ASSUME StateInv, DutyInv, [Next]_vars, NEW a \in Actors
             PROVE  work'[a] \subseteq Duties(a) \X Names
  BY DEF DutyInv, Duties
<1>1. ASSUME NEW b \in Actors, Step(b) PROVE work'[a] \subseteq Duties(a) \X Names
  <2>1. CASE b = a BY <1>1, <2>1, DutyKept DEF DutyInv
  <2>2. CASE b # a BY <1>1, <2>2, Apart DEF DutyInv, Stays
  <2> QED BY <2>1, <2>2
<1>2. ASSUME NEW p \in Pids, Exit(p) PROVE work'[a] = work[a] BY <1>2 DEF Exit
<1>3. CASE Crash BY <1>3 DEF Crash, DutyInv
<1>4. CASE UNCHANGED vars BY <1>4 DEF vars, DutyInv
<1> QED BY <1>1, <1>2, <1>3, <1>4 DEF Next, DutyInv

\* A process that was started and does not run never runs again.
LEMMA NoRevival ==
  ASSUME StateInv, [Next]_vars, NEW q \in Pids, started[q] # None, proc'[q] = "alive"
  PROVE  proc[q] = "alive"
<1> USE DEF StateInv, TypeOK, disk, processes
<1>1. ASSUME NEW a \in Actors, Step(a) PROVE proc[q] = "alive"
  <2>1. ASSUME NEW n \in Names, StartDaemon(a, n) PROVE proc[q] = "alive"
    <3>1. PICK p \in Pids : proc[p] = "unused" /\ proc' = [proc EXCEPT ![p] = "alive"]
      BY <2>1 DEF StartDaemon
    <3>2. p # q BY <3>1 DEF Fresh
    <3> QED BY <3>1, <3>2
  <2>2. ASSUME NEW n \in Names, StopDaemon(a, n) \/ StopOne(a, n) PROVE proc[q] = "alive"
    <3>1. PICK r \in StopEntry(seen[a][n]) : proc' = [proc EXCEPT ![seen[a][n]] = r[1]]
      BY <2>2 DEF StopDaemon, StopOne
    <3> QED BY <3>1, Stopped
  <2>7. ASSUME NEW n \in Names, StartFails(a, n) PROVE proc[q] = "alive"
    BY <2>7 DEF StartFails, Fresh
  <2>3. ASSUME NEW n \in Names, NextDaemon(a, n) \/ Check(a, n) \/ CheckUnanswered(a, n)
        PROVE  proc[q] = "alive"
    BY <2>3 DEF NextDaemon, Check, CheckUnanswered
  <2>4. ASSUME NEW c, NEW N, NEW w, Begin(a, c, N, w) PROVE proc[q] = "alive"
    BY <2>4 DEF Begin
  <2>5. CASE BeginUp(a) \/ BeginDown(a) \/ BeginStop(a) \/ BeginCheck(a) \/ BeginReload(a)
    BY <2>4, <2>5 DEF BeginUp, BeginDown, BeginStop, BeginCheck, BeginReload
  <2>6. CASE \/ Arrive(a) \/ BeginFails(a) \/ End(a)
             \/ LoadState(a) \/ LoadFails(a) \/ OpenState(a) \/ SaveFails(a) \/ WriteState(a)
    BY <2>6 DEF Arrive, BeginFails, End, LoadState, LoadFails, OpenState, SaveFails, WriteState
  <2> QED BY <1>1, <2>1, <2>2, <2>3, <2>5, <2>6, <2>7 DEF Step
<1>2. ASSUME NEW p \in Pids, Exit(p) PROVE proc[q] = "alive"
  BY <1>2 DEF Exit, Dead
<1>3. CASE Crash BY <1>3 DEF Crash
<1>4. CASE UNCHANGED vars BY <1>4 DEF vars
<1> QED BY <1>1, <1>2, <1>3, <1>4 DEF Next

\* DownOf holds on when the activity stays where it is.
LEMMA DownStays ==
  ASSUME StateInv, [Next]_vars, NEW a \in Actors, DownOf(a),
         pc'[a] = pc[a] \/ (Running(a) /\ Running(a)'),
         work'[a] = work[a], seen'[a] = seen[a]
  PROVE  DownOf(a)'
<1>1. ASSUME NEW n \in Names, seen[a][n] # None, proc'[seen[a][n]] = "alive"
      PROVE  proc[seen[a][n]] = "alive"
  <2>1. seen[a][n] \in Pids /\ started[seen[a][n]] # None
    BY <1>1 DEF StateInv, TypeOK, Copies, Real, For
  <2> QED BY <1>1, <2>1, NoRevival
<1>2. Running(a) => Running(a)' BY DEF Running
<1> QED BY <1>1, <1>2 DEF DownOf, InWork

LEMMA DownStep ==
  ASSUME StateInv, DutyInv, NEW a \in Locked, Kind[a] = "down", DownOf(a), Step(a)
  PROVE  DownOf(a)'
<1> USE ActorAssumption DEF StateInv, TypeOK, Goto, disk, processes
<1>1. a \in Actors /\ a \in Baked OBVIOUS
<1>2. Duties(a) = {"stop", "stop one"} BY DEF Duties
<1>3. ASSUME NEW k, NEW n, <<k, n>> \in work[a] PROVE k \in {"stop", "stop one"}
  <2>1. <<k, n>> \in {"stop", "stop one"} \X Names BY <1>1, <1>2, <1>3 DEF DutyInv
  <2> QED BY <2>1
<1>4. [Next]_vars BY <1>1 DEF Next
<1>5. CASE BeginDown(a)
  <2>1. /\ seen'[a] = Only(file, Names) /\ work'[a] = {"stop"} \X Recorded(file)
        /\ pc'[a] = "loop"
    BY <1>1, <1>5, Begun DEF BeginDown
  <2>2. \A n \in Names : seen'[a][n] = file[n] BY <2>1 DEF Only
  <2>3. \A n \in Names : file[n] # None => <<"stop", n>> \in work'[a]
    BY <2>1 DEF Recorded
  <2>4. \A n \in Names : <<"stop one", n>> \notin work'[a] BY <2>1
  <2> QED BY <2>1, <2>2, <2>3, <2>4 DEF DownOf, Running, InWork
<1>6. CASE BeginStop(a)
  <2>1. PICK n \in Recorded(file) : Begin(a, NoConfig, {n}, {<<"stop one", n>>})
    BY <1>6 DEF BeginStop
  <2>2. /\ seen'[a] = Only(file, {n}) /\ work'[a] = {<<"stop one", n>>} /\ pc'[a] = "loop"
    BY <1>1, <2>1, Begun
  <2>3. \A m \in Names : m # n => seen'[a][m] = None BY <2>2 DEF Only
  <2> QED BY <2>2, <2>3 DEF DownOf, Running, InWork
<1>7. CASE BeginFails(a)
  <2>1. /\ pc[a] = "idle" /\ work'[a] = work[a] /\ seen'[a] = seen[a] /\ proc' = proc
    BY <1>7 DEF BeginFails
  <2>2. ~Running(a) BY <2>1 DEF Running
  <2> QED BY <2>1, <2>2 DEF DownOf
<1>8. CASE End(a)
  <2>1. work[a] = {} /\ work'[a] = {} /\ seen'[a] = seen[a] /\ proc' = proc
    BY <1>1, <1>8 DEF End, Leave
  <2> QED BY <2>1 DEF DownOf, InWork
<1>9. ASSUME NEW n \in Names, StopDaemon(a, n) PROVE DownOf(a)'
  <2>1. /\ work'[a] = work[a] \ {<<"stop", n>>} /\ seen' = seen /\ pc'[a] = "load"
        /\ pc[a] = "loop"
    BY <1>1, <1>9 DEF StopDaemon
  <2>2. PICK r \in StopEntry(seen[a][n]) : proc' = [proc EXCEPT ![seen[a][n]] = r[1]]
    BY <1>9 DEF StopDaemon
  <2>3. \A q \in Pids : proc'[q] = "alive" => proc[q] = "alive" /\ q # seen[a][n]
    BY <2>2, Stopped
  <2>4. ASSUME NEW m \in Names, seen[a][m] # None, proc'[seen[a][m]] = "alive"
        PROVE  m # n /\ proc[seen[a][m]] = "alive"
    <3>1. seen[a][m] \in Pids BY <1>1, <2>4
    <3> QED BY <2>3, <2>4, <3>1
  <2>5. Running(a)' BY <2>1 DEF Running
  <2> QED BY <2>1, <2>4, <2>5 DEF DownOf, InWork
<1>10. ASSUME NEW n \in Names, StopOne(a, n) PROVE DownOf(a)'
  <2>1. work'[a] = {} /\ seen' = seen /\ <<"stop one", n>> \in work[a]
    BY <1>1, <1>10 DEF StopOne
  <2>2. \A m \in Names : m # n => seen[a][m] = None BY <2>1 DEF DownOf
  <2>3. PICK r \in StopEntry(seen[a][n]) : proc' = [proc EXCEPT ![seen[a][n]] = r[1]]
    BY <1>10 DEF StopOne
  <2>4. \A q \in Pids : proc'[q] = "alive" => q # seen[a][n] BY <2>3, Stopped
  <2>5. ASSUME NEW m \in Names, seen[a][m] # None PROVE proc'[seen[a][m]] # "alive"
    <3>1. m = n BY <2>2, <2>5
    <3>2. seen[a][n] \in Pids BY <1>1, <2>5, <3>1
    <3> QED BY <2>4, <3>1, <3>2
  <2> QED BY <2>1, <2>5 DEF DownOf
<1>11. CASE LoadState(a) \/ OpenState(a) \/ WriteState(a)
  <2>1. /\ pc[a] \in {"load", "open", "write"} /\ pc'[a] \in {"open", "write", "loop"}
        /\ work'[a] = work[a] /\ seen'[a] = seen[a]
    BY <1>1, <1>11 DEF LoadState, OpenState, WriteState
  <2> QED BY <1>1, <1>4, <2>1, DownStays DEF Running
<1>12. CASE LoadFails(a) \/ SaveFails(a)
  <2>1. /\ pc[a] \in {"load", "open", "write"} /\ pc'[a] = "loop"
        /\ work'[a] = work[a] /\ seen'[a] = seen[a]
    BY <1>1, <1>12 DEF LoadFails, SaveFails, GiveUp
  <2> QED BY <1>1, <1>4, <2>1, DownStays DEF Running
<1>13. ASSUME NEW n \in Names,
              \/ StartDaemon(a, n) \/ StartFails(a, n) \/ NextDaemon(a, n)
              \/ Check(a, n) \/ CheckUnanswered(a, n)
       PROVE  FALSE
  <2>1. PICK k \in {"start", "check", "remove", "restart", "add"} : <<k, n>> \in work[a]
    BY <1>13 DEF StartDaemon, StartFails, Startable, NextDaemon, Check, CheckUnanswered
  <2>2. k \in {"stop", "stop one"} BY <1>3, <2>1
  <2> QED BY <2>1, <2>2
<1>14. ~Arrive(a) /\ ~BeginUp(a) /\ ~BeginCheck(a) /\ ~BeginReload(a)
  BY DEF Arrive, BeginUp, BeginCheck, BeginReload
<1> QED
  BY <1>5, <1>6, <1>7, <1>8, <1>9, <1>10, <1>11, <1>12, <1>13, <1>14 DEF Step

LEMMA DownNext == StateInv /\ DutyInv /\ DownInv /\ [Next]_vars => DownInv'
<1> SUFFICES ASSUME StateInv, DutyInv, DownInv, [Next]_vars,
                    NEW a \in Locked, Kind[a] = "down"
             PROVE  DownOf(a)'
  BY DEF DownInv
<1>1. a \in Actors /\ a \in Baked BY ActorAssumption
<1>2. DownOf(a) BY DEF DownInv
<1>3. ASSUME NEW b \in Actors, Step(b) PROVE DownOf(a)'
  <2>1. CASE b = a BY <1>2, <1>3, <2>1, DownStep
  <2>2. CASE b # a BY <1>1, <1>2, <1>3, <2>2, Apart, DownStays DEF Stays
  <2> QED BY <2>1, <2>2
<1>4. ASSUME NEW p \in Pids, Exit(p) PROVE DownOf(a)'
  BY <1>1, <1>2, <1>4, DownStays DEF Exit
<1>5. CASE Crash
  <2>1. CASE pc[a] = "done"
    <3>1. seen'[a] = seen[a] /\ work'[a] = {} BY <1>1, <1>5, <2>1 DEF Crash
    <3>2. \A n \in Names : seen[a][n] # None => proc[seen[a][n]] # "alive"
      BY <1>2, <2>1 DEF DownOf, Running
    <3>3. \A n \in Names : seen[a][n] # None =>
             seen[a][n] \in Pids /\ started[seen[a][n]] # None
      BY <1>1 DEF StateInv, TypeOK, Copies, Real, For
    <3>4. \A n \in Names : seen[a][n] # None => proc'[seen[a][n]] # "alive"
      BY <3>2, <3>3, NoRevival
    <3> QED BY <3>1, <3>4 DEF DownOf
  <2>2. CASE pc[a] # "done"
    <3>1. seen'[a] = Empty /\ work'[a] = {} BY <1>1, <1>5, <2>2 DEF Crash
    <3> QED BY <3>1 DEF DownOf, Empty
  <2> QED BY <2>1, <2>2
<1>6. CASE UNCHANGED vars BY <1>1, <1>2, <1>6, DownStays DEF vars
<1> QED BY <1>3, <1>4, <1>5, <1>6 DEF Next

LEMMA WorkInvariant == Spec => []DutyInv
<1>1. Init => DutyInv BY DEF Init, DutyInv
<1> QED BY <1>1, StateInvariant, DutyNext, PTL DEF Spec

\* When a request "down" is over, every process that was recorded when it began has
\* been told to stop or does not run, whatever the checker, a hot reload, refused
\* writes, failing calls to Docker and a killed baked did meanwhile.
THEOREM DownStopsAll == Spec => []DownStops
<1>1. Init => DownInv
  <2>1. ASSUME Init, NEW a \in Locked PROVE work[a] = {} /\ \A n \in Names : seen[a][n] = None
    BY <2>1, ActorAssumption DEF Init, Empty
  <2> QED BY <2>1 DEF DownInv, DownOf
<1>2. DownInv => DownStops
  <2> SUFFICES ASSUME DownInv, NEW a \in Locked, NEW n \in Names, NEW p \in Pids,
                      Kind[a] = "down", pc[a] = "done", seen[a][n] = p
               PROVE  proc[p] # "alive"
    BY DEF DownStops
  <2>1. p # None BY ActorAssumption
  <2> QED BY <2>1 DEF DownInv, DownOf, Running
<1> QED BY <1>1, <1>2, StateInvariant, WorkInvariant, DownNext, PTL DEF Spec

----------------------------------------------------------------------------
(* What is recorded.                                                       *)

Writes(a) == pc[a] \in {"load", "open", "write"}

\* A health checker takes part once it has found a dead entry.
Busy(a) == Running(a) /\ (Kind[a] # "health" \/ Writes(a))

\* The entry for n may be overwritten.
Safe(n) == file[n] # None => proc[file[n]] # "alive" \/ file[n] \in excused

\* One activity at a time changes the file.
Calm == /\ \A a, b \in Actors : Busy(a) /\ Busy(b) => a = b
        /\ torn => \E a \in Actors : pc[a] = "write"
        /\ \A a \in Actors : pc[a] \in {"open", "write"} => snap[a] = file

\* What it is to stop is what is recorded, and what it writes takes nothing away.
OwedBy(a) ==
    /\ \A n \in Names : /\ InWork(a, {"stop", "stop one"}, n) => seen[a][n] = file[n]
                        /\ <<"stop", n>> \in work[a] => <<"stop one", n>> \notin work[a]
    /\ Writes(a) => Safe(op[a][1]) /\ ~InWork(a, {"stop", "stop one"}, op[a][1])

Owed == \A a \in Actors : Busy(a) => OwedBy(a)

\* Every process that goes on is recorded or excused, or about to be recorded.
Reached == \A p \in Pids : proc[p] = "alive" =>
    InFile(p) \/ p \in excused \/ \E a \in Actors : Writes(a) /\ op[a][2] = p

Tidy == Calm /\ Owed /\ Reached
OrphanInv == excused = Pids \/ Tidy

LEMMA WritersAreBusy == ASSUME NEW a \in Actors, Writes(a) PROVE Busy(a)
BY DEF Writes, Busy, Running

\* What has to be shown of a step of an activity when no other is busy.
LEMMA Alone ==
  ASSUME StateInv, Tidy, NEW a \in Actors, Step(a),
         \A b \in Actors \ {a} : ~Busy(b),
         torn' => pc'[a] = "write",
         pc'[a] \in {"open", "write"} => snap'[a] = file',
         Busy(a)' => OwedBy(a)',
         \A p \in Pids : proc'[p] = "alive" =>
            InFile(p)' \/ p \in excused' \/ (Writes(a)' /\ op'[a][2] = p)
  PROVE  Tidy'
<1>1. \A b \in Actors \ {a} : Stays(b) BY Apart
<1>2. \A b \in Actors \ {a} : ~Busy(b)' /\ ~Writes(b)'
  BY <1>1, WritersAreBusy DEF Stays, Busy, Running, Writes
<1>3. Calm'
  <2>1. \A b, c \in Actors : Busy(b)' /\ Busy(c)' => b = c BY <1>2
  <2>2. \A b \in Actors : pc'[b] \in {"open", "write"} => snap'[b] = file'
    BY <1>2 DEF Writes
  <2> QED BY <2>1, <2>2 DEF Calm
<1>4. Owed' BY <1>2 DEF Owed
<1>5. Reached' BY DEF Reached
<1> QED BY <1>3, <1>4, <1>5 DEF Tidy

\* A step of one that is not busy, then or before, and of the processes on their own.
LEMMA Aside ==
  ASSUME StateInv, Tidy, UNCHANGED <<file, torn, op, snap>>, excused \subseteq excused',
         \A p \in Pids : proc'[p] = "alive" => proc[p] = "alive" \/ p \in excused',
         NEW A \in SUBSET Actors,
         \A a \in Actors \ A : pc'[a] = pc[a] /\ work'[a] = work[a] /\ seen'[a] = seen[a],
         \A a \in A : ~Busy(a) /\ ~Busy(a)'
  PROVE  Tidy'
<1> USE DEF Tidy
<1>1. \A a \in A : ~Writes(a) /\ ~Writes(a)' BY DEF Writes, Busy, Running
<1>2. \A a \in Actors : /\ Busy(a)' <=> Busy(a)
                        /\ Writes(a)' <=> Writes(a)
                        /\ pc'[a] = "write" <=> pc[a] = "write"
                        /\ pc'[a] = "open" <=> pc[a] = "open"
  BY <1>1 DEF Busy, Running, Writes
<1>3. Calm' BY <1>2 DEF Calm
<1>4. \A n \in Names : Safe(n) => Safe(n)'
  BY DEF Safe, StateInv, TypeOK
<1>5. ASSUME NEW a \in Actors, Busy(a)' PROVE OwedBy(a)'
  <2>1. a \notin A /\ OwedBy(a) BY <1>2, <1>5 DEF Owed
  <2>2. work'[a] = work[a] /\ seen'[a] = seen[a] BY <2>1
  <2>3. Writes(a) => op[a][1] \in Names BY DEF StateInv, Writing, Writes
  <2> QED BY <1>2, <1>4, <2>1, <2>2, <2>3 DEF OwedBy, InWork
<1>6. Owed' BY <1>5 DEF Owed
<1>7. Reached' BY <1>2 DEF Reached, InFile
<1> QED BY <1>3, <1>6, <1>7

\* Who else is busy while one is.
LEMMA Before ==
  ASSUME Tidy, NEW a \in Actors, Busy(a)
  PROVE  /\ \A b \in Actors \ {a} : ~Busy(b)
         /\ OwedBy(a)
         /\ torn => pc[a] = "write"
         /\ \A p \in Pids : proc[p] = "alive" =>
               InFile(p) \/ p \in excused \/ (Writes(a) /\ op[a][2] = p)
<1>1. \A b \in Actors \ {a} : ~Busy(b) BY DEF Tidy, Calm
<1>2. \A b \in Actors : pc[b] = "write" => Writes(b) BY DEF Writes
<1>3. torn => pc[a] = "write" BY <1>1, <1>2, WritersAreBusy DEF Tidy, Calm
<1> QED BY <1>1, <1>3, WritersAreBusy DEF Tidy, Owed, Reached

\* When nobody is busy.
LEMMA Nobody ==
  ASSUME Tidy, \A b \in Actors : ~Busy(b)
  PROVE  /\ ~torn
         /\ \A p \in Pids : proc[p] = "alive" => InFile(p) \/ p \in excused
<1>1. \A b \in Actors : ~Writes(b) BY WritersAreBusy
<1> QED BY <1>1 DEF Tidy, Calm, Reached, Writes

\* Nobody else is busy when nobody disturbs.
LEMMA UndisturbedAlone ==
  ASSUME StateInv, NEW a \in Actors, Undisturbed(a)
  PROVE  \A b \in Actors \ {a} : ~Busy(b)
BY DEF Undisturbed, Busy, Writes

\* Whoever is excused stays excused.
LEMMA StayExcused ==
  ASSUME StateInv, [Next]_vars
  PROVE  excused \subseteq excused' /\ excused' \subseteq Pids
<1>1. StateInv' BY StateNext
<1>2. excused' \subseteq Pids /\ excused \subseteq Pids BY <1>1 DEF StateInv, TypeOK
<1>3. ASSUME NEW a \in Actors, Step(a) PROVE excused \subseteq excused'
  <2>1. ASSUME NEW c, NEW N, NEW w, Begin(a, c, N, w) PROVE excused \subseteq excused'
    BY <1>2, <2>1 DEF Begin
  <2>2. CASE BeginUp(a) \/ BeginDown(a) \/ BeginStop(a) \/ BeginCheck(a) \/ BeginReload(a)
    BY <2>1, <2>2 DEF BeginUp, BeginDown, BeginStop, BeginCheck, BeginReload
  <2>3. ASSUME NEW n \in Names, StartDaemon(a, n) \/ StartFails(a, n)
        PROVE  excused \subseteq excused'
    BY <2>3 DEF StartDaemon, StartFails
  <2>4. ASSUME NEW n \in Names, Check(a, n) \/ CheckUnanswered(a, n)
        PROVE  excused \subseteq excused'
    BY <1>2, <2>4 DEF Check, CheckUnanswered, FoundDead
  <2>5. ASSUME NEW n \in Names, StopDaemon(a, n) \/ StopOne(a, n) \/ NextDaemon(a, n)
        PROVE  excused \subseteq excused'
    BY <2>5 DEF StopDaemon, StopOne, NextDaemon
  <2>6. CASE \/ Arrive(a) \/ BeginFails(a) \/ End(a)
             \/ LoadState(a) \/ LoadFails(a) \/ OpenState(a) \/ SaveFails(a) \/ WriteState(a)
    BY <1>2, <2>6
    DEF Arrive, BeginFails, End, LoadState, LoadFails, OpenState, SaveFails, WriteState
  <2> QED BY <1>3, <2>2, <2>3, <2>4, <2>5, <2>6 DEF Step
<1>4. CASE Crash BY <1>2, <1>4 DEF Crash
<1>5. ASSUME NEW p \in Pids, Exit(p) PROVE excused \subseteq excused' BY <1>5 DEF Exit
<1> QED BY <1>2, <1>3, <1>4, <1>5 DEF Next, vars

\* One that begins to change things when nobody else does.
LEMMA BeginsTidy ==
  ASSUME StateInv, Tidy, NEW a \in Actors, Kind[a] # "health", Step(a), excused' # Pids,
         NEW c, NEW N, NEW w, Begin(a, c, N, w),
         \A n \in Names : /\ <<"stop", n>> \in w \/ <<"stop one", n>> \in w => n \in N
                          /\ <<"stop", n>> \in w => <<"stop one", n>> \notin w
  PROVE  Tidy'
<1>1. /\ pc[a] \in {"idle", "waiting"} /\ pc'[a] = "loop"
      /\ seen'[a] = Only(file, N) /\ work'[a] = w
      /\ UNCHANGED <<file, torn, proc, started, op, snap>>
  BY Begun
<1>2. Undisturbed(a) /\ excused' = excused BY DEF Begin
<1>3. \A b \in Actors : ~Busy(b)
  BY <1>1, <1>2, UndisturbedAlone DEF Busy, Running
<1>4. ~torn /\ \A p \in Pids : proc[p] = "alive" => InFile(p) \/ p \in excused
  BY <1>3, Nobody
<1>5. OwedBy(a)'
  <2>1. ~Writes(a)' BY <1>1 DEF Writes
  <2>2. \A n \in Names : n \in N => seen'[a][n] = file'[n] BY <1>1 DEF Only
  <2> QED BY <1>1, <2>1, <2>2 DEF OwedBy, InWork
<1>6. \A p \in Pids : proc'[p] = "alive" => InFile(p)' \/ p \in excused'
  BY <1>1, <1>2, <1>4 DEF InFile
<1> QED BY <1>1, <1>3, <1>4, <1>5, <1>6, Alone

LEMMA BeginStep ==
  ASSUME StateInv, Tidy, excused' # Pids, NEW a \in Actors, Step(a),
         BeginUp(a) \/ BeginDown(a) \/ BeginStop(a) \/ BeginCheck(a) \/ BeginReload(a)
  PROVE  Tidy'
<1>1. CASE BeginUp(a)
  <2>1. PICK c : Begin(a, c, {}, {}) BY <1>1 DEF BeginUp
  <2>2. Kind[a] # "health" BY <1>1 DEF BeginUp
  <2> DEFINE w == {}
  <2>3. /\ \A n \in Names : <<"stop", n>> \notin w /\ <<"stop one", n>> \notin w
        /\ Begin(a, c, {}, w)
    BY <2>1
  <2> HIDE DEF w
  <2> QED BY <2>2, <2>3, BeginsTidy
<1>2. CASE BeginDown(a)
  <2> DEFINE w == {"stop"} \X Recorded(file)
  <2>1. Kind[a] # "health" /\ Begin(a, NoConfig, Names, w) BY <1>2 DEF BeginDown
  <2>2. \A n \in Names : <<"stop one", n>> \notin w OBVIOUS
  <2> HIDE DEF w
  <2> QED BY <2>1, <2>2, BeginsTidy
<1>3. CASE BeginStop(a)
  <2>1. PICK n \in Recorded(file) : Begin(a, NoConfig, {n}, {<<"stop one", n>>})
    BY <1>3 DEF BeginStop
  <2>2. Kind[a] # "health" BY <1>3 DEF BeginStop
  <2> DEFINE w == {<<"stop one", n>>}
  <2>3. \A m \in Names : <<"stop", m>> \notin w /\ (<<"stop one", m>> \in w => m \in {n})
    OBVIOUS
  <2>4. Begin(a, NoConfig, {n}, w) BY <2>1
  <2> HIDE DEF w
  <2> QED BY <2>2, <2>3, <2>4, BeginsTidy
<1>4. CASE BeginReload(a)
  <2>1. PICK c, changed : Begin(a, c, {}, ({"remove"} \X (cfg.daemons \ c.daemons))
                                 \union ({"restart"} \X changed)
                                 \union ({"add"} \X (c.daemons \ cfg.daemons)))
    BY <1>4 DEF BeginReload
  <2>2. Kind[a] # "health" BY <1>4 DEF BeginReload
  <2> DEFINE w == ({"remove"} \X (cfg.daemons \ c.daemons)) \union ({"restart"} \X changed)
                     \union ({"add"} \X (c.daemons \ cfg.daemons))
  <2>3. \A n \in Names : <<"stop", n>> \notin w /\ <<"stop one", n>> \notin w OBVIOUS
  <2>4. Begin(a, c, {}, w) BY <2>1
  <2> HIDE DEF w
  <2> QED BY <2>2, <2>3, <2>4, BeginsTidy
<1>5. CASE BeginCheck(a)
  <2>1. /\ pc[a] \in {"idle", "waiting"} /\ pc'[a] = "loop"
        /\ UNCHANGED <<file, torn, proc, op, snap>>
    BY <1>5, Begun DEF BeginCheck
  <2>2. Kind[a] = "health" BY <1>5 DEF BeginCheck
  <2>3. excused' = excused BY <1>5, <2>2 DEF BeginCheck, Begin
  <2>4. ~Busy(a) /\ ~Busy(a)' BY <2>1, <2>2 DEF Busy, Running, Writes
  <2>5. \A b \in Actors \ {a} : Stays(b) BY Apart
  <2>6. {a} \in SUBSET Actors OBVIOUS
  <2> QED BY <2>1, <2>3, <2>4, <2>5, <2>6, Aside DEF Stays
<1> QED BY <1>1, <1>2, <1>3, <1>4, <1>5

\* One that waits for its turn or returns at once; a check that finds a process alive.
LEMMA AsideStep ==
  ASSUME StateInv, DutyInv, Tidy, NEW a \in Actors, Step(a),
         \/ Arrive(a) \/ BeginFails(a)
         \/ \E n \in Names : Check(a, n) /\ Responds(seen[a][n])
  PROVE  Tidy'
<1>1. UNCHANGED <<file, torn, proc, op, snap, excused>>
  BY DEF Arrive, BeginFails, Check, disk, processes
<1>2. ~Busy(a) /\ ~Busy(a)'
  <2>1. CASE Arrive(a) \/ BeginFails(a)
    BY <2>1 DEF Arrive, BeginFails, Goto, Busy, Running, StateInv, TypeOK
  <2>2. ASSUME NEW n \in Names, Check(a, n), Responds(seen[a][n]) PROVE ~Busy(a) /\ ~Busy(a)'
    <3>1. pc[a] = "loop" /\ pc' = pc /\ <<"check", n>> \in work[a] BY <2>2 DEF Check
    <3>2. Kind[a] = "health"
      <4>1. "check" \in Duties(a) BY <3>1 DEF DutyInv
      <4> QED BY <4>1, ActorAssumption DEF Duties
    <3> QED BY <3>1, <3>2 DEF Busy, Writes
  <2> QED BY <2>1, <2>2
<1>3. \A b \in Actors \ {a} : Stays(b) BY Apart
<1>4. {a} \in SUBSET Actors OBVIOUS
<1> QED BY <1>1, <1>2, <1>3, <1>4, Aside DEF Stays

\* An activity at the end of its loop.
LEMMA EndStep ==
  ASSUME StateInv, Tidy, NEW a \in Actors, Step(a), End(a)
  PROVE  Tidy'
<1>1. /\ pc[a] = "loop" /\ pc'[a] \in {"idle", "done"}
      /\ UNCHANGED <<file, torn, proc, op, snap, excused>>
  BY DEF End, Leave, StateInv, TypeOK, disk, processes
<1>2. CASE Kind[a] = "health"
  <2>1. ~Busy(a) /\ ~Busy(a)' BY <1>1, <1>2 DEF Busy, Running, Writes
  <2>2. \A b \in Actors \ {a} : Stays(b) BY Apart
  <2>3. {a} \in SUBSET Actors OBVIOUS
  <2> QED BY <1>1, <2>1, <2>2, <2>3, Aside DEF Stays
<1>3. CASE Kind[a] # "health"
  <2>1. Busy(a) /\ ~Busy(a)' /\ ~Writes(a) BY <1>1, <1>3 DEF Busy, Running, Writes
  <2>2. /\ \A b \in Actors \ {a} : ~Busy(b)
        /\ ~torn /\ \A p \in Pids : proc[p] = "alive" => InFile(p) \/ p \in excused
    BY <1>1, <2>1, Before
  <2>3. \A p \in Pids : proc'[p] = "alive" => InFile(p)' \/ p \in excused'
    BY <1>1, <2>2 DEF InFile
  <2> QED BY <1>1, <2>1, <2>2, <2>3, Alone
<1> QED BY <1>2, <1>3

\* An activity with a daemon to start is busy.
LEMMA StarterIsBusy ==
  ASSUME StateInv, DutyInv, NEW a \in Actors, NEW n \in Names, pc[a] = "loop", Startable(a, n)
  PROVE  Busy(a) /\ ~InWork(a, {"stop", "stop one"}, n)
<1>1. CASE Kind[a] = "up"
  <2>1. work[a] = {} BY <1>1 DEF DutyInv, Duties
  <2> QED BY <1>1, <2>1 DEF Busy, Running, InWork
<1>2. CASE Kind[a] # "up"
  <2>1. <<"start", n>> \in work[a] /\ <<"stop", n>> \notin work[a]
    BY <1>2 DEF Startable
  <2>2. "start" \in Duties(a) BY <2>1 DEF DutyInv
  <2>3. Kind[a] = "reload" BY <1>2, <2>2, ActorAssumption DEF Duties
  <2>4. "stop one" \notin Duties(a) BY <2>3 DEF Duties
  <2>5. <<"stop one", n>> \notin work[a] BY <2>4 DEF DutyInv
  <2> QED BY <2>1, <2>3, <2>5 DEF Busy, Running, InWork
<1> QED BY <1>1, <1>2

LEMMA StartStep ==
  ASSUME StateInv, DutyInv, Tidy, NEW a \in Actors, Step(a), NEW n \in Names, StartDaemon(a, n)
  PROVE  Tidy'
<1>1. PICK p \in Pids : /\ proc[p] = "unused"
                        /\ proc' = [proc EXCEPT ![p] = "alive"]
                        /\ op' = [op EXCEPT ![a] = <<n, p>>]
  BY DEF StartDaemon
<1>2. /\ pc[a] = "loop" /\ pc'[a] = "load" /\ Startable(a, n) /\ Taken(a, n)
      /\ UNCHANGED <<file, torn, seen, snap>> /\ excused' = excused \union ({file[n]} \ {None})
  BY DEF StartDaemon, Goto, StateInv, TypeOK, disk
<1>3. Busy(a) /\ ~InWork(a, {"stop", "stop one"}, n) BY <1>2, StarterIsBusy
<1>4. ~Writes(a) BY <1>2 DEF Writes
<1>5. /\ \A b \in Actors \ {a} : ~Busy(b)
      /\ ~torn /\ OwedBy(a)
      /\ \A q \in Pids : proc[q] = "alive" => InFile(q) \/ q \in excused
  BY <1>2, <1>3, <1>4, Before
<1>6. op'[a] = <<n, p>> BY <1>1 DEF StateInv, TypeOK
<1>7. work'[a] \subseteq work[a] BY <1>2, TakenTypes DEF StateInv
<1>8. OwedBy(a)'
  <2>1. op'[a][1] = n BY <1>6
  <2>2. Safe(n)' BY <1>2 DEF Safe
  <2> QED BY <1>2, <1>3, <1>5, <1>7, <2>1, <2>2 DEF OwedBy, InWork
<1>9. ASSUME NEW q \in Pids, proc'[q] = "alive"
      PROVE  InFile(q)' \/ q \in excused' \/ (Writes(a)' /\ op'[a][2] = q)
  <2>1. CASE q = p
    <3>1. op'[a][2] = p BY <1>6
    <3> QED BY <1>2, <2>1, <3>1 DEF Writes
  <2>2. CASE q # p
    <3>1. proc[q] = "alive" BY <1>1, <1>9, <2>2 DEF StateInv, TypeOK
    <3> QED BY <1>2, <1>5, <3>1 DEF InFile
  <2> QED BY <2>1, <2>2
<1> QED BY <1>2, <1>5, <1>8, <1>9, Alone

LEMMA StartFailsStep ==
  ASSUME StateInv, DutyInv, Tidy, NEW a \in Actors, Step(a), NEW n \in Names, StartFails(a, n)
  PROVE  Tidy'
<1>1. pc[a] = "loop" /\ Startable(a, n) /\ UNCHANGED <<file, torn, seen, op, snap>>
  BY DEF StartFails, disk
<1>2. pc'[a] \in {"loop", "idle", "done"} /\ work'[a] \subseteq work[a]
  <2>1. CASE Kind[a] = "up"
    <3>1. Leave(a) BY <2>1 DEF StartFails
    <3> QED BY <3>1 DEF Leave, StateInv, TypeOK
  <2>2. CASE Kind[a] # "up"
    <3>1. Taken(a, n) /\ pc' = pc BY <2>2 DEF StartFails
    <3> QED BY <1>1, <3>1, TakenTypes DEF StateInv
  <2> QED BY <2>1, <2>2
<1>3. ~Writes(a) /\ ~Writes(a)' BY <1>1, <1>2 DEF Writes
<1>4. /\ \A b \in Actors \ {a} : ~Busy(b)
      /\ ~torn /\ OwedBy(a)
      /\ \A q \in Pids : proc[q] = "alive" => InFile(q) \/ q \in excused
  BY <1>1, <1>3, StarterIsBusy, Before
<1>5. OwedBy(a)' BY <1>1, <1>2, <1>3, <1>4 DEF OwedBy, InWork
<1>6. ASSUME NEW q \in Pids, proc'[q] = "alive" PROVE InFile(q)' \/ q \in excused'
  <2>1. proc[q] = "alive" \/ q \in excused'
    BY <1>6 DEF StartFails, StateInv, TypeOK
  <2>2. excused \subseteq excused' BY DEF StartFails
  <2> QED BY <1>1, <1>4, <2>1, <2>2 DEF InFile
<1> QED BY <1>1, <1>2, <1>4, <1>5, <1>6, Alone

\* An activity with a daemon to stop is busy.
LEMMA StopperIsBusy ==
  ASSUME StateInv, DutyInv, NEW a \in Actors, NEW n \in Names, pc[a] = "loop",
         InWork(a, {"stop", "stop one"}, n)
  PROVE  Busy(a)
<1>1. PICK k \in {"stop", "stop one"} : <<k, n>> \in work[a] BY DEF InWork
<1>2. k \in Duties(a) BY <1>1 DEF DutyInv
<1>3. Kind[a] # "health" BY <1>2 DEF Duties
<1> QED BY <1>3 DEF Busy, Running

LEMMA StopStep ==
  ASSUME StateInv, DutyInv, Tidy, NEW a \in Actors, Step(a), NEW n \in Names,
         StopDaemon(a, n) \/ StopOne(a, n)
  PROVE  Tidy'
<1>1. /\ pc[a] = "loop" /\ InWork(a, {"stop", "stop one"}, n)
      /\ UNCHANGED <<file, torn, seen, snap, excused>>
  BY DEF StopDaemon, StopOne, Goto, InWork, disk
<1>2. PICK r \in StopEntry(seen[a][n]) : proc' = [proc EXCEPT ![seen[a][n]] = r[1]]
  BY DEF StopDaemon, StopOne
<1>3. \A q \in Pids : proc'[q] = "alive" => proc[q] = "alive" /\ q # seen[a][n]
  BY <1>2, Stopped DEF StateInv
<1>4. ~Writes(a) BY <1>1 DEF Writes
<1>5. /\ \A b \in Actors \ {a} : ~Busy(b)
      /\ ~torn /\ OwedBy(a)
      /\ \A q \in Pids : proc[q] = "alive" => InFile(q) \/ q \in excused
  BY <1>1, <1>4, StopperIsBusy, Before
<1>6. seen[a][n] = file[n] BY <1>1, <1>5 DEF OwedBy
<1>7. Safe(n)'
  <2>1. file[n] # None => file[n] \in Pids BY DEF StateInv, TypeOK
  <2> QED BY <1>1, <1>3, <1>6, <2>1 DEF Safe
<1>8. /\ work'[a] \subseteq work[a] /\ <<"stop", n>> \notin work'[a]
      /\ <<"stop one", n>> \notin work'[a]
  <2>1. CASE StopDaemon(a, n)
    <3>1. work'[a] = work[a] \ {<<"stop", n>>} /\ <<"stop", n>> \in work[a]
      BY <2>1 DEF StopDaemon, StateInv, TypeOK
    <3> QED BY <1>5, <3>1 DEF OwedBy
  <2>2. CASE StopOne(a, n)
    BY <2>2 DEF StopOne, StateInv, TypeOK
  <2> QED BY <2>1, <2>2
<1>9. \/ pc'[a] = "load" /\ op'[a] = <<n, None>>
      \/ pc'[a] = "loop"
  BY <1>1 DEF StopDaemon, StopOne, Goto, StateInv, TypeOK
<1>10. OwedBy(a)'
  <2>1. Writes(a)' => op'[a][1] = n BY <1>9 DEF Writes
  <2>2. ~InWork(a, {"stop", "stop one"}, n)' BY <1>8 DEF InWork
  <2> QED BY <1>1, <1>5, <1>7, <1>8, <2>1, <2>2 DEF OwedBy, InWork
<1>11. \A q \in Pids : proc'[q] = "alive" => InFile(q)' \/ q \in excused'
  BY <1>1, <1>3, <1>5 DEF InFile
<1> QED BY <1>1, <1>5, <1>9, <1>10, <1>11, Alone

LEMMA NextDaemonStep ==
  ASSUME StateInv, DutyInv, Tidy, NEW a \in Actors, Step(a), NEW n \in Names, NextDaemon(a, n)
  PROVE  Tidy'
<1>1. PICK kind \in {"remove", "restart", "add"} :
        /\ <<kind, n>> \in work[a]
        /\ \A w \in work[a] : w[1] \notin {"stop", "start"} \union Earlier(kind)
        /\ LET stop  == IF kind = "add" \/ torn \/ file[n] = None THEN {} ELSE {<<"stop", n>>}
               start == IF kind = "remove" THEN {} ELSE {<<"start", n>>}
           IN /\ work' = [work EXCEPT ![a] = (@ \ {<<kind, n>>}) \union stop \union start]
              /\ seen' = [seen EXCEPT ![a] = IF stop = {} THEN Empty ELSE Only(file, {n})]
  BY DEF NextDaemon
<1>2. pc[a] = "loop" /\ UNCHANGED <<file, torn, proc, pc, op, snap, excused>>
  BY DEF NextDaemon, disk, processes
<1>3. Kind[a] = "reload"
  <2>1. kind \in Duties(a) BY <1>1 DEF DutyInv
  <2> QED BY <2>1, ActorAssumption DEF Duties
<1>4. \A m \in Names : <<"stop", m>> \notin work[a] /\ <<"stop one", m>> \notin work[a]
  <2>1. "stop one" \notin Duties(a) BY <1>3 DEF Duties
  <2>2. \A m \in Names : <<"stop one", m>> \notin work[a] BY <2>1 DEF DutyInv
  <2>3. ASSUME NEW m \in Names, <<"stop", m>> \in work[a] PROVE FALSE
    <3>1. <<"stop", m>>[1] = "stop" OBVIOUS
    <3> QED BY <1>1, <2>3, <3>1
  <2> QED BY <2>2, <2>3
<1>5. Busy(a) /\ ~Writes(a) /\ ~Writes(a)' BY <1>2, <1>3 DEF Busy, Running, Writes
<1>6. /\ \A b \in Actors \ {a} : ~Busy(b)
      /\ ~torn /\ \A q \in Pids : proc[q] = "alive" => InFile(q) \/ q \in excused
  BY <1>2, <1>5, Before
<1>7. \A m \in Names : InWork(a, {"stop", "stop one"}, m)' =>
         m = n /\ <<"stop one", n>> \notin work'[a] /\ seen'[a] = Only(file, {n})
  <2>1. CASE kind = "add" \/ torn \/ file[n] = None
    <3>1. work'[a] \subseteq work[a] \union {<<"start", n>>}
      BY <1>1, <2>1 DEF StateInv, TypeOK
    <3> QED BY <1>4, <3>1 DEF InWork
  <2>2. CASE ~(kind = "add" \/ torn \/ file[n] = None)
    <3>1. work'[a] \subseteq work[a] \union {<<"start", n>>, <<"stop", n>>}
      BY <1>1, <2>2 DEF StateInv, TypeOK
    <3>2. {<<"stop", n>>} # {} OBVIOUS
    <3>3. seen'[a] = Only(file, {n}) BY <1>1, <2>2, <3>2 DEF StateInv, TypeOK
    <3> QED BY <1>4, <3>1, <3>3 DEF InWork
  <2> QED BY <2>1, <2>2
<1>8. OwedBy(a)'
  <2>1. Only(file, {n})[n] = file[n] BY DEF Only
  <2> QED BY <1>2, <1>5, <1>7, <2>1 DEF OwedBy, InWork
<1>9. \A q \in Pids : proc'[q] = "alive" => InFile(q)' \/ q \in excused'
  BY <1>2, <1>6 DEF InFile
<1> QED BY <1>2, <1>6, <1>8, <1>9, Alone

\* A check that finds a process dead while nobody disturbs it.
LEMMA DeadStep ==
  ASSUME StateInv, DutyInv, Tidy, excused' # Pids, NEW a \in Actors, Step(a),
         NEW n \in Names, NEW ps, FoundDead(a, n, ps),
         \/ Check(a, n) /\ ps = {} /\ ~Responds(seen[a][n])
         \/ CheckUnanswered(a, n) /\ ps = {seen[a][n]}
  PROVE  Tidy'
<1>1. /\ pc[a] = "loop" /\ pc'[a] = "load" /\ op'[a] = <<n, None>>
      /\ Undisturbed(a) /\ file[n] = seen[a][n] /\ excused' = excused \union ps
  BY DEF FoundDead, Goto, StateInv, TypeOK
<1>2. /\ <<"check", n>> \in work[a] /\ work'[a] \subseteq work[a]
      /\ UNCHANGED <<file, torn, proc, seen, snap>>
  BY DEF Check, CheckUnanswered, StateInv, TypeOK, disk, processes
<1>3. Kind[a] = "health"
  <2>1. "check" \in Duties(a) BY <1>2 DEF DutyInv
  <2> QED BY <2>1, ActorAssumption DEF Duties
<1>4. ~Busy(a) BY <1>1, <1>3 DEF Busy, Writes
<1>5. \A b \in Actors : ~Busy(b) BY <1>1, <1>4, UndisturbedAlone
<1>6. ~torn /\ \A p \in Pids : proc[p] = "alive" => InFile(p) \/ p \in excused
  BY <1>5, Nobody
<1>7. \A m \in Names : <<"stop", m>> \notin work[a] /\ <<"stop one", m>> \notin work[a]
  <2>1. "stop" \notin Duties(a) /\ "stop one" \notin Duties(a) BY <1>3 DEF Duties
  <2> QED BY <2>1 DEF DutyInv
<1>8. Safe(n)' BY <1>1, <1>2 DEF Safe, Responds
<1>9. OwedBy(a)'
  <2>1. op'[a][1] = n BY <1>1
  <2>2. \A m \in Names : ~InWork(a, {"stop", "stop one"}, m)' /\ <<"stop", m>> \notin work'[a]
    BY <1>2, <1>7 DEF InWork
  <2> QED BY <1>8, <2>1, <2>2 DEF OwedBy
<1>10. \A p \in Pids : proc'[p] = "alive" => InFile(p)' \/ p \in excused'
  BY <1>1, <1>2, <1>6 DEF InFile
<1> QED BY <1>1, <1>2, <1>5, <1>6, <1>9, <1>10, Alone

\* AddDaemon and RemoveDaemon read, truncate and write the file.
LEMMA WriteStep ==
  ASSUME StateInv, Tidy, NEW a \in Actors, Step(a),
         LoadState(a) \/ OpenState(a) \/ WriteState(a)
  PROVE  Tidy'
<1> USE DEF Goto, disk, processes
<1>1. Writes(a) BY DEF LoadState, OpenState, WriteState, Writes
<1>2. /\ \A b \in Actors \ {a} : ~Busy(b)
      /\ OwedBy(a) /\ (torn => pc[a] = "write")
      /\ \A p \in Pids : proc[p] = "alive" =>
            InFile(p) \/ p \in excused \/ op[a][2] = p
  BY <1>1, WritersAreBusy, Before
<1>3. work' = work /\ seen' = seen /\ proc' = proc /\ excused' = excused
  BY DEF LoadState, OpenState, WriteState
<1>4. CASE LoadState(a) \/ OpenState(a)
  <2>1. /\ file' = file /\ op' = op /\ Writes(a)'
        /\ torn' => pc'[a] = "write"
    BY <1>2, <1>4 DEF LoadState, OpenState, Writes, StateInv, TypeOK
  <2>2. snap'[a] = file'
    BY <1>4, <2>1 DEF LoadState, OpenState, StateInv, TypeOK, Tidy, Calm
  <2>3. OwedBy(a)' BY <1>1, <1>2, <1>3, <2>1 DEF OwedBy, InWork, Safe
  <2>4. \A p \in Pids : proc'[p] = "alive" =>
            InFile(p)' \/ p \in excused' \/ (Writes(a)' /\ op'[a][2] = p)
    BY <1>2, <1>3, <2>1 DEF InFile
  <2> QED BY <1>2, <2>1, <2>2, <2>3, <2>4, Alone
<1>5. CASE WriteState(a)
  <2> DEFINE m == op[a][1]
             q == op[a][2]
  <2>1. op[a] \in Names \X (Pids \union {None}) BY <1>1 DEF StateInv, Writing, Writes
  <2>2. m \in Names BY <2>1
  <2>3. pc'[a] = "loop" /\ ~torn' /\ file' = [snap[a] EXCEPT ![m] = q]
    BY <1>5 DEF WriteState, StateInv, TypeOK
  <2>4. snap[a] = file BY <1>5 DEF WriteState, Tidy, Calm
  <2>5. Safe(m) /\ ~InWork(a, {"stop", "stop one"}, m) BY <1>1, <1>2 DEF OwedBy
  <2> HIDE DEF m, q
  <2>6. file'[m] = q /\ \A n \in Names \ {m} : file'[n] = file[n]
    BY <2>2, <2>3, <2>4 DEF StateInv, TypeOK
  <2>7. OwedBy(a)'
    <3>1. ~Writes(a)' BY <2>3 DEF Writes
    <3>2. \A n \in Names : InWork(a, {"stop", "stop one"}, n) => n # m BY <2>5
    <3> QED BY <1>2, <1>3, <2>6, <3>1, <3>2 DEF OwedBy, InWork
  <2>8. ASSUME NEW p \in Pids, proc'[p] = "alive" PROVE InFile(p)' \/ p \in excused'
    <3>1. InFile(p) \/ p \in excused \/ q = p BY <1>2, <1>3, <2>8 DEF q
    <3>2. CASE InFile(p)
      <4>1. PICK n \in Names : file[n] = p BY <3>2 DEF InFile
      <4>2. CASE n = m
        <5>1. p # None BY ActorAssumption
        <5> QED BY <1>3, <2>5, <2>8, <4>1, <4>2, <5>1 DEF Safe
      <4>3. CASE n # m BY <2>6, <4>1, <4>3 DEF InFile
      <4> QED BY <4>2, <4>3
    <3>3. CASE q = p BY <2>2, <2>6, <3>3 DEF InFile
    <3> QED BY <1>3, <3>1, <3>2, <3>3
  <2> QED BY <1>2, <2>3, <2>7, <2>8, Alone
<1> QED BY <1>4, <1>5

\* Nobody finds the file truncated.
LEMMA NeverTorn == ASSUME StateInv, Tidy, NEW a \in Actors PROVE ~LoadFails(a)
<1> SUFFICES ASSUME LoadFails(a) PROVE FALSE OBVIOUS
<1>1. pc[a] = "load" /\ torn BY DEF LoadFails
<1>2. Busy(a) BY <1>1, WritersAreBusy DEF Writes
<1> QED BY <1>1, <1>2, Before

LEMMA OrphanNext == StateInv /\ DutyInv /\ OrphanInv /\ [Next]_vars => OrphanInv'
<1> SUFFICES ASSUME StateInv, DutyInv, OrphanInv, [Next]_vars, excused' # Pids
             PROVE  Tidy'
  BY DEF OrphanInv
<1>1. excused \subseteq excused' /\ excused' \subseteq Pids BY StayExcused
<1>2. Tidy BY <1>1 DEF OrphanInv
<1>3. ASSUME NEW a \in Actors, Step(a) PROVE Tidy'
  <2>1. CASE BeginUp(a) \/ BeginDown(a) \/ BeginStop(a) \/ BeginCheck(a) \/ BeginReload(a)
    BY <1>2, <1>3, <2>1, BeginStep
  <2>2. CASE Arrive(a) \/ BeginFails(a) BY <1>2, <1>3, <2>2, AsideStep
  <2>3. CASE End(a) BY <1>2, <1>3, <2>3, EndStep
  <2>4. ASSUME NEW n \in Names, StartDaemon(a, n) PROVE Tidy'
    BY <1>2, <1>3, <2>4, StartStep
  <2>5. ASSUME NEW n \in Names, StartFails(a, n) PROVE Tidy'
    BY <1>2, <1>3, <2>5, StartFailsStep
  <2>6. ASSUME NEW n \in Names, StopDaemon(a, n) \/ StopOne(a, n) PROVE Tidy'
    BY <1>2, <1>3, <2>6, StopStep
  <2>7. ASSUME NEW n \in Names, NextDaemon(a, n) PROVE Tidy'
    BY <1>2, <1>3, <2>7, NextDaemonStep
  <2>8. ASSUME NEW n \in Names, Check(a, n) PROVE Tidy'
    <3>1. CASE Responds(seen[a][n]) BY <1>2, <1>3, <2>8, <3>1, AsideStep
    <3>2. CASE ~Responds(seen[a][n])
      <4>1. FoundDead(a, n, {}) BY <2>8, <3>2 DEF Check
      <4> QED BY <1>2, <1>3, <2>8, <3>2, <4>1, DeadStep
    <3> QED BY <3>1, <3>2
  <2>9. ASSUME NEW n \in Names, CheckUnanswered(a, n) PROVE Tidy'
    <3>1. FoundDead(a, n, {seen[a][n]}) BY <2>9 DEF CheckUnanswered
    <3> QED BY <1>2, <1>3, <2>9, <3>1, DeadStep
  <2>10. CASE LoadState(a) \/ OpenState(a) \/ WriteState(a)
    BY <1>2, <1>3, <2>10, WriteStep
  <2>11. ~LoadFails(a) BY <1>2, NeverTorn
  <2>12. ~SaveFails(a) BY DEF SaveFails
  <2> QED
    BY <1>3, <2>1, <2>2, <2>3, <2>4, <2>5, <2>6, <2>7, <2>8, <2>9, <2>10, <2>11, <2>12
    DEF Step
<1>4. ASSUME NEW p \in Pids, Exit(p) PROVE Tidy'
  <2>1. UNCHANGED <<file, torn, op, snap, pc, work, seen, excused>>
        /\ proc' = [proc EXCEPT ![p] = Dead(p)]
    BY <1>4 DEF Exit, disk
  <2>2. \A q \in Pids : proc'[q] = "alive" => proc[q] = "alive"
    BY <2>1 DEF Dead, StateInv, TypeOK
  <2>3. {} \in SUBSET Actors OBVIOUS
  <2> QED BY <1>2, <2>1, <2>2, <2>3, Aside
<1>5. ~Crash BY DEF Crash
<1>6. CASE UNCHANGED vars
  <2>1. {} \in SUBSET Actors OBVIOUS
  <2>2. UNCHANGED <<file, torn, proc, op, snap, pc, work, seen, excused>> BY <1>6 DEF vars
  <2> QED BY <1>2, <2>1, <2>2, Aside
<1> QED BY <1>3, <1>4, <1>5, <1>6 DEF Next

\* For any daemons, processes and activities: with nothing under way every process
\* that runs, and was not told to stop, is in state.json, but for containers that
\* Docker did not answer for, what a daemon's second start overwrote, and what
\* overlapping activities, refused writes and a killed baked lose.
THEOREM NothingOrphaned == Spec => []NoOrphan
<1>1. Init => OrphanInv
  <2> SUFFICES ASSUME Init PROVE Tidy BY DEF OrphanInv
  <2>1. \A a \in Actors : pc[a] = "idle" BY DEF Init
  <2>2. \A a \in Actors : ~Busy(a) /\ ~Writes(a) BY <2>1 DEF Busy, Running, Writes
  <2>3. ~torn /\ \A p \in Pids : proc[p] = "unused" BY DEF Init
  <2> QED BY <2>1, <2>2, <2>3 DEF Tidy, Calm, Owed, Reached
<1>2. StateInv /\ OrphanInv => NoOrphan
  <2> SUFFICES ASSUME OrphanInv, Quiet, NEW p \in Alive PROVE InFile(p) \/ p \in excused
    BY DEF NoOrphan
  <2>1. \A a \in Actors : ~Writes(a) BY DEF Quiet, Running, Writes
  <2>2. p \in Pids /\ proc[p] = "alive" BY DEF Alive
  <2> QED BY <2>1, <2>2 DEF OrphanInv, Tidy, Reached
<1> QED BY <1>1, <1>2, StateInvariant, WorkInvariant, OrphanNext, PTL DEF Spec
=============================================================================
