--------------------------- MODULE HotReloadProofs ---------------------------
(***************************************************************************)
(* Proofs about HotReload, for every set of daemons, contents and bounds.  *)
(***************************************************************************)
EXTENDS HotReload, TLAPS

Pcs == {"idle", "parse", "rename", "load", "shims", "diff", "apply", "start", "store"}
Kinds == {"remove", "restart", "start", "add"}

\* state.json has n as the configuration c wants it.
Runs(n, c) == recorded[n] = IF n \in absent THEN None ELSE Daemon[c][n]

\* While a reload is applied, a daemon with nothing left to do runs as the new
\* configuration wants it, one to be started again is stopped, and any other runs as
\* the old one wanted it.
Applying(r) == \A n \in Names :
    /\ (\A k \in Kinds : <<k, n>> \notin todo[r]) => Runs(n, new[r])
    /\ <<"start", n>> \in todo[r] =>
         /\ recorded[n] = None
         /\ \A k \in Kinds \ {"start"} : <<k, n>> \notin todo[r]
    /\ \A k \in Kinds \ {"start"} : <<k, n>> \in todo[r] =>
         /\ k = Change(Daemon[oldCfg][n], Daemon[new[r]][n])
         /\ Runs(n, oldCfg)

\* How far r has got.
Stage(r) ==
    /\ pc[r] \in {"parse", "rename", "load", "shims"} => Agree
    /\ pc[r] \in {"diff", "apply", "start"} => oldCfg = lastCfg /\ shims = new[r]
    /\ pc[r] = "diff" => \A n \in Names : Runs(n, oldCfg)
    /\ pc[r] \in {"apply", "start"} => Applying(r)
    /\ pc[r] = "store" => /\ oldCfg = new[r] /\ shims = new[r]
                          /\ \A n \in Names : Runs(n, new[r])

Alone == \A q, r \in Reloads : pc[q] # "idle" /\ pc[r] # "idle" => q = r

ReloadInv == /\ TypeOK
             /\ ~overlapped => /\ Alone /\ orphans = {} /\ (Idle => Agree)
                               /\ \A r \in Reloads : Stage(r)

LEMMA ReloadInit == Init => ReloadInv
<1> SUFFICES ASSUME Init PROVE ReloadInv
  OBVIOUS
<1> USE ConfigAssumption
<1>1. file \in Contents /\ file \in Valid BY DEF Init, Valid
<1>2. recorded \in [Names -> Versions \union {None}] BY <1>1 DEF Init
<1>3. TypeOK BY <1>1, <1>2 DEF Init, TypeOK
<1>4. Agree BY <1>1 DEF Init, Agree
<1>5. Alone /\ orphans = {} /\ \A r \in Reloads : Stage(r) BY DEF Init, Alone, Stage
<1> QED BY <1>3, <1>4, <1>5 DEF ReloadInv

LEMMA TypeNext == TypeOK /\ [Next]_vars => TypeOK'
<1> SUFFICES ASSUME TypeOK, [Next]_vars PROVE TypeOK'
  OBVIOUS
<1> USE ConfigAssumption
    DEF TypeOK, Goto, user, watcher, callbacks, configs, daemons
<1>1. CASE Edit
  <2>1. PICK c \in Contents \ {file}, replaced, aside \in {FALSE, Renames} :
            file' = c /\ watching' = (watching /\ ~replaced /\ ~aside)
    BY <1>1 DEF Edit
  <2>2. watching' \in BOOLEAN BY <2>1
  <2>3. edit' \in {"early", "noticed", "late"} BY <1>1 DEF Edit
  <2>4. edits' \in Nat /\ event' \in BOOLEAN BY <1>1 DEF Edit
  <2> QED BY <1>1, <2>1, <2>2, <2>3, <2>4 DEF Edit
<1>2. CASE ForceReload BY <1>2 DEF ForceReload
<1>3. CASE Watch BY <1>3 DEF Watch
<1>4. CASE ReadEvent BY <1>4 DEF ReadEvent
<1>5. ASSUME NEW r \in Reloads, Fire(r) PROVE TypeOK' BY <1>5 DEF Fire
<1>6. ASSUME NEW r \in Reloads, Callback(r) PROVE TypeOK'
  <2>1. CASE Parse(r) BY <2>1 DEF Parse
  <2>2. CASE Rename(r) BY <2>2 DEF Rename, Valid
  <2>3. CASE LoadConfig(r) BY <2>3 DEF LoadConfig
  <2>4. CASE Reject(r) BY <2>4 DEF Reject
  <2>5. CASE WriteShims(r) BY <2>5 DEF WriteShims
  <2>6. CASE Diff(r)
    <3>1. ASSUME NEW n \in Names
          PROVE  Change(Daemon[oldCfg][n], Daemon[new[r]][n]) \in {"keep", "remove", "add", "restart"}
      BY DEF Change
    <3>2. DaemonDiff(oldCfg, new[r]) \subseteq ({"remove", "restart", "start", "add"} \X Names)
      BY <3>1 DEF DaemonDiff
    <3> QED BY <2>6, <3>2 DEF Diff
  <2>7. CASE StopOne(r)
    <3>1. PICK t \in todo[r] :
            /\ recorded' = [recorded EXCEPT ![t[2]] = None]
            /\ todo' = [todo EXCEPT ![r] =
                  (@ \ {t}) \union (IF t[1] = "restart" THEN {<<"start", t[2]>>} ELSE {})]
            /\ pc' = pc \/ pc' = [pc EXCEPT ![r] = "start"]
            /\ UNCHANGED <<user, watcher, new, configs, orphans, absent, overlapped>>
      BY <2>7 DEF StopOne
    <3>2. t[2] \in Names OBVIOUS
    <3> QED BY <3>1, <3>2
  <2>8. CASE StartOne(r)
    <3>1. PICK t \in todo[r] :
            /\ Starts(r, t)
            /\ recorded' = [recorded EXCEPT ![t[2]] = Daemon[new[r]][t[2]]]
            /\ orphans' = orphans \union {n \in {t[2]} : recorded[n] # None}
            /\ absent' = absent \ {t[2]}
      BY <2>8 DEF StartOne
    <3>2. t[2] \in Names /\ Daemon[new[r]][t[2]] \in Versions OBVIOUS
    <3> QED BY <3>1, <3>2 DEF Starts
  <2>9. CASE StartFails(r)
    <3>1. PICK t \in todo[r] : Starts(r, t) /\ absent' = absent \union {t[2]}
                               /\ UNCHANGED <<recorded, orphans>>
      BY <2>9 DEF StartFails
    <3>2. t[2] \in Names OBVIOUS
    <3> QED BY <3>1, <3>2 DEF Starts
  <2>10. CASE Adopt(r) BY <2>10 DEF Adopt
  <2>11. CASE Store(r) BY <2>11 DEF Store
  <2> QED BY <1>6, <2>1, <2>2, <2>3, <2>4, <2>5, <2>6, <2>7, <2>8, <2>9, <2>10, <2>11
          DEF Callback
<1>7. CASE UNCHANGED vars BY <1>7 DEF vars
<1> QED BY <1>1, <1>2, <1>3, <1>4, <1>5, <1>6, <1>7 DEF Next

----------------------------------------------------------------------------
(* The callback, while no other is under way.                              *)

Undisturbed == TypeOK /\ Alone /\ orphans = {} /\ (Idle => Agree)
               /\ \A r \in Reloads : Stage(r)

\* A step that leaves the other callbacks idle and goes on properly itself.
LEMMA StepKeeps ==
  ASSUME Undisturbed, NEW r \in Reloads, pc[r] # "idle",
         NEW to, pc' = [pc EXCEPT ![r] = to], orphans' = {},
         Stage(r)', to = "idle" => Agree'
  PROVE  Alone' /\ orphans' = {} /\ (Idle' => Agree') /\ \A q \in Reloads : Stage(q)'
<1>1. ASSUME NEW q \in Reloads, q # r PROVE pc[q] = "idle" /\ pc'[q] = "idle"
  BY <1>1 DEF Undisturbed, Alone, TypeOK
<1>2. ASSUME NEW q \in Reloads, q # r PROVE Stage(q)'
  BY <1>1, <1>2 DEF Stage
<1>3. pc'[r] = to BY DEF Undisturbed, TypeOK
<1>4. Alone' BY <1>1 DEF Alone
<1>5. Idle' => Agree' BY <1>3 DEF Idle
<1> QED BY <1>2, <1>4, <1>5

\* The first half of a reload does not touch the daemons.
LEMMA LoadStage ==
  ASSUME Undisturbed, NEW r \in Reloads,
         \/ Parse(r) \/ Rename(r) \/ LoadConfig(r) \/ Reject(r) \/ WriteShims(r) \/ Diff(r)
  PROVE  /\ orphans' = {}
         /\ \E to \in Pcs : pc' = [pc EXCEPT ![r] = to] /\ (to = "idle" => Agree')
         /\ Stage(r)'
<1> USE ConfigAssumption
    DEF Undisturbed, TypeOK, Stage, Goto, Runs, user, watcher, configs, daemons, Pcs
<1>1. CASE Parse(r) BY <1>1 DEF Parse, Agree
<1>2. CASE Rename(r) BY <1>2 DEF Rename, Agree
<1>3. CASE LoadConfig(r) BY <1>3 DEF LoadConfig, Agree
<1>4. CASE Reject(r) BY <1>4 DEF Reject, Agree
<1>5. CASE WriteShims(r) BY <1>5 DEF WriteShims, Agree
<1>6. CASE Diff(r)
  <2>1. /\ pc' = [pc EXCEPT ![r] = "apply"] /\ pc[r] = "diff"
        /\ todo'[r] = DaemonDiff(oldCfg, new[r])
        /\ UNCHANGED <<new, oldCfg, lastCfg, shims, recorded, orphans, absent>>
    BY <1>6 DEF Diff
  <2>2. ASSUME NEW n \in Names, NEW k \in Kinds
        PROVE  <<k, n>> \in todo'[r] <=> k = Change(Daemon[oldCfg][n], Daemon[new[r]][n])
    BY <2>1, <2>2 DEF DaemonDiff, Kinds
  <2>3. ASSUME NEW n \in Names, \A k \in Kinds : <<k, n>> \notin todo'[r]
        PROVE  Daemon[oldCfg][n] = Daemon[new[r]][n]
    BY <2>2, <2>3 DEF Change, Kinds
  <2>4. ASSUME NEW n \in Names PROVE <<"start", n>> \notin todo'[r]
    BY <2>2 DEF Change, Kinds
  <2>5. Applying(r)' BY <2>1, <2>2, <2>3, <2>4 DEF Applying
  <2> QED BY <2>1, <2>5
<1> QED BY <1>1, <1>2, <1>3, <1>4, <1>5, <1>6

\* One daemon is dealt with: the others are left as they are.
LEMMA Others ==
  ASSUME TypeOK, NEW r \in Reloads, NEW m \in Names, Applying(r),
         UNCHANGED <<new, oldCfg>>,
         \A k \in Kinds, n \in Names \ {m} : <<k, n>> \in todo'[r] <=> <<k, n>> \in todo[r],
         \A n \in Names \ {m} : recorded'[n] = recorded[n] /\ (n \in absent' <=> n \in absent),
         (\A k \in Kinds : <<k, m>> \notin todo'[r]) =>
            recorded'[m] = IF m \in absent' THEN None ELSE Daemon[new[r]][m],
         <<"start", m>> \in todo'[r] => recorded'[m] = None,
         \A k \in Kinds \ {"start"} : <<k, m>> \notin todo'[r]
  PROVE  Applying(r)'
<1>1. ASSUME NEW n \in Names \ {m}
      PROVE  /\ (\A k \in Kinds : <<k, n>> \notin todo'[r]) =>
                   recorded'[n] = IF n \in absent' THEN None ELSE Daemon[new[r]][n]
             /\ <<"start", n>> \in todo'[r] =>
                  /\ recorded'[n] = None
                  /\ \A k \in Kinds \ {"start"} : <<k, n>> \notin todo'[r]
             /\ \A k \in Kinds \ {"start"} : <<k, n>> \in todo'[r] =>
                  /\ k = Change(Daemon[oldCfg][n], Daemon[new[r]][n])
                  /\ recorded'[n] = IF n \in absent' THEN None ELSE Daemon[oldCfg][n]
  <2>1. \A k \in Kinds : <<k, n>> \in todo'[r] <=> <<k, n>> \in todo[r] OBVIOUS
  <2>2. recorded'[n] = recorded[n] /\ (n \in absent' <=> n \in absent) OBVIOUS
  <2>3. "start" \in Kinds BY DEF Kinds
  <2> QED BY <2>1, <2>2, <2>3 DEF Applying, Runs
<1> QED BY <1>1 DEF Applying, Runs

LEMMA StopStage ==
  ASSUME Undisturbed, NEW r \in Reloads, StopOne(r)
  PROVE  /\ orphans' = {}
         /\ \E to \in Pcs \ {"idle"} : pc' = [pc EXCEPT ![r] = to]
         /\ Stage(r)'
<1> USE ConfigAssumption DEF Undisturbed
<1> PICK t \in todo[r] :
      /\ pc[r] = "apply"
      /\ \/ t[1] = "remove" /\ UNCHANGED pc
         \/ t[1] = "restart" /\ Goto(r, "apply", "start")
      /\ recorded' = [recorded EXCEPT ![t[2]] = None]
      /\ todo' = [todo EXCEPT ![r] =
            (@ \ {t}) \union (IF t[1] = "restart" THEN {<<"start", t[2]>>} ELSE {})]
      /\ UNCHANGED <<user, watcher, new, configs, orphans, absent, overlapped>>
  BY DEF StopOne
<1>1. t = <<t[1], t[2]>> /\ t[1] \in {"remove", "restart"} /\ t[2] \in Names
  BY DEF TypeOK
<1>2. Applying(r) /\ oldCfg = lastCfg /\ shims = new[r] BY DEF Stage
<1>3. t[1] = Change(Daemon[oldCfg][t[2]], Daemon[new[r]][t[2]])
  BY <1>1, <1>2 DEF Applying, Kinds
<1>4. \A k \in Kinds : <<k, t[2]>> \in todo[r] => k = t[1]
  BY <1>1, <1>2, <1>3 DEF Applying, Kinds
<1>5. todo'[r] = (todo[r] \ {t}) \union (IF t[1] = "restart" THEN {<<"start", t[2]>>} ELSE {})
  BY DEF TypeOK
<1>6. t[1] = "remove" => Daemon[new[r]][t[2]] = None
  BY <1>3 DEF Change
<1>7. recorded'[t[2]] = None /\ \A n \in Names \ {t[2]} : recorded'[n] = recorded[n]
  BY <1>1 DEF TypeOK
<1>8. UNCHANGED <<new, oldCfg, lastCfg, shims, absent, orphans>> BY DEF configs
<1>9. Applying(r)'
  <2>1. \A k \in Kinds, n \in Names \ {t[2]} : <<k, n>> \in todo'[r] <=> <<k, n>> \in todo[r]
    BY <1>1, <1>5
  <2>2. \A k \in Kinds \ {"start"} : <<k, t[2]>> \notin todo'[r]
    BY <1>1, <1>4, <1>5
  <2>3. (\A k \in Kinds : <<k, t[2]>> \notin todo'[r]) =>
           recorded'[t[2]] = IF t[2] \in absent' THEN None ELSE Daemon[new[r]][t[2]]
    <3>1. CASE t[1] = "remove" BY <3>1, <1>6, <1>7
    <3>2. CASE t[1] = "restart" BY <3>2, <1>5 DEF Kinds
    <3> QED BY <1>1, <3>1, <3>2
  <2> QED BY <1>1, <1>2, <1>7, <1>8, <2>1, <2>2, <2>3, Others
<1>10. \E to \in {"apply", "start"} : pc' = [pc EXCEPT ![r] = to]
  BY DEF TypeOK, Goto
<1> QED BY <1>2, <1>8, <1>9, <1>10 DEF Stage, TypeOK, Pcs

LEMMA StartStage ==
  ASSUME Undisturbed, NEW r \in Reloads, StartOne(r) \/ StartFails(r)
  PROVE  /\ orphans' = {}
         /\ pc' = [pc EXCEPT ![r] = "apply"]
         /\ Stage(r)'
<1> USE ConfigAssumption DEF Undisturbed
<1> PICK t \in todo[r] :
      /\ Starts(r, t)
      /\ \/ /\ recorded' = [recorded EXCEPT ![t[2]] = Daemon[new[r]][t[2]]]
            /\ orphans' = orphans \union {n \in {t[2]} : recorded[n] # None}
            /\ absent' = absent \ {t[2]}
         \/ absent' = absent \union {t[2]} /\ UNCHANGED <<recorded, orphans>>
  BY DEF StartOne, StartFails
<1>1. t = <<t[1], t[2]>> /\ t[1] \in {"start", "add"} /\ t[2] \in Names
  BY DEF TypeOK, Starts
<1>2. Applying(r) /\ oldCfg = lastCfg /\ shims = new[r] BY DEF Stage, Starts
<1>3. \A k \in Kinds : <<k, t[2]>> \in todo[r] => k = t[1]
  <2>1. CASE t[1] = "start" BY <1>1, <1>2, <2>1 DEF Applying
  <2>2. CASE t[1] = "add"
    <3>1. <<"add", t[2]>> \in todo[r] BY <1>1, <2>2
    <3>2. "add" = Change(Daemon[oldCfg][t[2]], Daemon[new[r]][t[2]])
      BY <1>1, <1>2, <3>1 DEF Applying, Kinds
    <3>3. <<"start", t[2]>> \notin todo[r] BY <1>1, <1>2, <3>1 DEF Applying, Kinds
    <3> QED BY <1>1, <1>2, <2>2, <3>2, <3>3 DEF Applying
  <2> QED BY <1>1, <2>1, <2>2
<1>4. recorded[t[2]] = None
  <2>1. CASE t[1] = "start" BY <1>1, <1>2, <2>1 DEF Applying
  <2>2. CASE t[1] = "add"
    <3>1. "add" = Change(Daemon[oldCfg][t[2]], Daemon[new[r]][t[2]]) /\ Runs(t[2], oldCfg)
      BY <1>1, <1>2, <2>2 DEF Applying, Kinds
    <3>2. Daemon[oldCfg][t[2]] = None BY <3>1 DEF Change
    <3> QED BY <3>1, <3>2 DEF Runs
  <2> QED BY <1>1, <2>1, <2>2
<1>5. todo'[r] = todo[r] \ {t} /\ UNCHANGED <<new, oldCfg, lastCfg, shims>>
  BY DEF TypeOK, Starts, configs
<1>6. orphans' = {} BY <1>4
<1>7. /\ recorded'[t[2]] = IF t[2] \in absent' THEN None ELSE Daemon[new[r]][t[2]]
      /\ \A n \in Names \ {t[2]} : recorded'[n] = recorded[n] /\ (n \in absent' <=> n \in absent)
  BY <1>1, <1>4, <1>5 DEF TypeOK, Runs
<1>8. Applying(r)'
  <2>1. \A k \in Kinds, n \in Names \ {t[2]} : <<k, n>> \in todo'[r] <=> <<k, n>> \in todo[r]
    BY <1>1, <1>5
  <2>2. \A k \in Kinds : <<k, t[2]>> \notin todo'[r]
    BY <1>1, <1>3, <1>5
  <2>3. <<"start", t[2]>> \notin todo'[r] BY <2>2 DEF Kinds
  <2> QED BY <1>1, <1>2, <1>5, <1>7, <2>1, <2>2, <2>3, Others
<1>9. pc' = [pc EXCEPT ![r] = "apply"] BY DEF Starts
<1> QED BY <1>2, <1>5, <1>6, <1>8, <1>9 DEF Stage, TypeOK

LEMMA EndStage ==
  ASSUME Undisturbed, NEW r \in Reloads, Adopt(r) \/ Store(r)
  PROVE  /\ orphans' = {}
         /\ \E to \in Pcs : pc' = [pc EXCEPT ![r] = to] /\ (to = "idle" => Agree')
         /\ Stage(r)'
<1> USE DEF Undisturbed, TypeOK, Stage, Goto, user, watcher, daemons, Pcs
<1>1. CASE Adopt(r)
  <2>1. \A n \in Names : Runs(n, new[r]) BY <1>1 DEF Adopt, Applying
  <2> QED BY <1>1, <2>1 DEF Adopt, Runs
<1>2. CASE Store(r) BY <1>2 DEF Store, Agree, Runs
<1> QED BY <1>1, <1>2

LEMMA ReloadNext == ReloadInv /\ [Next]_vars => ReloadInv'
<1> SUFFICES ASSUME ReloadInv, [Next]_vars, ~overlapped'
             PROVE  /\ Alone' /\ orphans' = {} /\ (Idle' => Agree')
                    /\ \A r \in Reloads : Stage(r)'
  BY TypeNext DEF ReloadInv
<1> USE DEF user, watcher, callbacks, configs, daemons
<1>1. ~overlapped
  <2>1. ASSUME NEW r \in Reloads, Callback(r) PROVE overlapped' = overlapped
    BY <2>1 DEF Callback, Parse, Rename, LoadConfig, Reject, WriteShims, Diff, StopOne, StartOne,
                StartFails, Starts, Adopt, Store
  <2> QED BY <2>1 DEF Next, Edit, ForceReload, Watch, ReadEvent, Fire, vars, ReloadInv, TypeOK
<1>2. Undisturbed BY <1>1 DEF ReloadInv, Undisturbed
<1>3. ASSUME UNCHANGED <<callbacks, configs, daemons>>
      PROVE  /\ Alone' /\ orphans' = {} /\ (Idle' => Agree')
             /\ \A r \in Reloads : Stage(r)'
  BY <1>2, <1>3 DEF Undisturbed, Alone, Idle, Agree, Stage, Applying, Runs
<1>4. CASE Edit \/ ForceReload \/ Watch \/ ReadEvent
  BY <1>3, <1>4 DEF Edit, ForceReload, Watch, ReadEvent
<1>5. ASSUME NEW r \in Reloads, Fire(r)
      PROVE  /\ Alone' /\ orphans' = {} /\ (Idle' => Agree')
             /\ \A q \in Reloads : Stage(q)'
  <2>1. Idle /\ Agree
    BY <1>2, <1>5 DEF Fire, Undisturbed, TypeOK
  <2>2. \A q \in Reloads : pc'[q] = "idle" \/ (q = r /\ pc'[q] \in {"parse", "load"})
    BY <1>2, <1>5, <2>1 DEF Fire, Goto, Idle, Undisturbed, TypeOK
  <2>3. Agree' /\ orphans' = {}
    BY <1>2, <1>5, <2>1 DEF Fire, Agree, Undisturbed
  <2> QED BY <2>2, <2>3 DEF Alone, Stage
<1>6. ASSUME NEW r \in Reloads, Callback(r)
      PROVE  /\ Alone' /\ orphans' = {} /\ (Idle' => Agree')
             /\ \A q \in Reloads : Stage(q)'
  <2>1. pc[r] # "idle"
    BY <1>6 DEF Callback, Parse, Rename, LoadConfig, Reject, WriteShims, Diff, StopOne, StartOne,
                StartFails, Starts, Adopt, Store, Goto
  <2>2. PICK to \in Pcs : /\ pc' = [pc EXCEPT ![r] = to] /\ (to = "idle" => Agree')
                          /\ orphans' = {} /\ Stage(r)'
    BY <1>2, <1>6, LoadStage, StopStage, StartStage, EndStage DEF Callback, Pcs
  <2> QED BY <1>2, <2>1, <2>2, StepKeeps
<1>7. CASE UNCHANGED vars BY <1>3, <1>7 DEF vars
<1> QED BY <1>4, <1>5, <1>6, <1>7 DEF Next

THEOREM ReloadInvariant == Spec => []ReloadInv
BY ReloadInit, ReloadNext, PTL DEF Spec

\* The type invariant holds, whatever the file says and whoever starts a reload.
THEOREM TypeCorrect == Spec => []TypeOK
<1>1. ReloadInv => TypeOK BY DEF ReloadInv
<1> QED BY <1>1, ReloadInvariant, PTL

\* Between reloads that did not overlap, the configuration in use, the shims and the
\* daemons agree.
THEOREM ReloadsSettle == Spec => []Settled
<1>1. ReloadInv => Settled BY DEF ReloadInv, Settled
<1> QED BY <1>1, ReloadInvariant, PTL

\* No reload starts a daemon over a process that is recorded.
THEOREM ProcessesAreOne == Spec => []OneProcess
<1>1. ReloadInv => OneProcess BY DEF ReloadInv, OneProcess
<1> QED BY <1>1, ReloadInvariant, PTL
=============================================================================
