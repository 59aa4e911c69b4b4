---------------------------- MODULE DaemonState ----------------------------
(***************************************************************************)
(* The processes of "bake up" and the file that records them,              *)
(* .bake/state.json (internal/lifecycle/state.go).  Four activities change *)
(* both: RunUp and RunDown (internal/baked/run.go in the daemon, runUp and *)
(* runDown of cmd/bake in the command), the health checker                 *)
(* (internal/baked/health.go) and the hot reload                           *)
(* (internal/baked/hotreload.go).  AddDaemon and RemoveDaemon read the     *)
(* file, change one entry and write the file, with no lock around them;    *)
(* only requests that the daemon handles exclude each other (runMu).  A    *)
(* request takes the configuration before it waits for runMu.  When baked  *)
(* is killed, its requests run again in the next one (replayQueue).        *)
(*                                                                         *)
(* A daemon runs on the host or, if it has an image, in a container.  A    *)
(* process that baked started stays a zombie when it exits, because nobody *)
(* waits for it (cmd.Process.Release), and signal 0 to a zombie succeeds.  *)
(* StopDaemon only sends SIGTERM; each call to Docker may fail, or be done *)
(* although it looks failed.                                               *)
(***************************************************************************)
EXTENDS Naturals, Sequences, FiniteSets

CONSTANTS Names,       \* daemons that the target "up" may have
          Configs,     \* what a Bakefile may say of "up": the daemons it has, and those
                       \* its workflow names, in order, some perhaps twice
          Pids,        \* process and container ids, each used once
          Containers,  \* those of containers
          Actors,      \* activities, one run each; health checkers repeat
          Kind,        \* Kind[a]: "up", "down", "health" or "reload"
          Baked,       \* actors inside baked
          Locked,      \* actors that are requests to baked
          Deaths,      \* whether processes may exit on their own
          MaxFaults,   \* bound on how often baked is killed or a write refused
          None

NoConfig == [daemons |-> {}, workflow |-> <<>>]

\* Validate: a workflow names targets and daemons of "up".
ASSUME ActorAssumption ==
    /\ Kind \in [Actors -> {"up", "down", "health", "reload"}]
    /\ Locked \subseteq Baked /\ Baked \subseteq Actors
    /\ \A a \in Actors : Kind[a] \in {"health", "reload"} => a \in Baked \ Locked
    /\ None \notin Pids \union Actors \union (Names \X (Actors \union {None}))
    /\ Configs \subseteq [daemons : SUBSET Names, workflow : Seq(Names)]
    /\ \A c \in Configs : \A k \in DOMAIN c.workflow : c.workflow[k] \in c.daemons
    /\ Containers \subseteq Pids /\ MaxFaults \in Nat

VARIABLES file,      \* file[n]: the process recorded for n
          torn,      \* the file is truncated and not written yet
          proc,      \* proc[p]: "unused", "alive", "told" (a stop was asked for and it
                     \* still runs), "exited" (a zombie, or a container that does not
                     \* run) or "gone"
          started,   \* started[p]: <<daemon, actor>> that p was started for and by,
                     \* actor None when baked has been killed since
          cfg,       \* the configuration that baked has stored
          conf,      \* conf[a]: the one a works with, of its workflow what is left
          faults,    \* how often baked was killed or a write refused
          runMu,     \* the request that runs
          pc,        \* pc[a]: where a is
          work,      \* work[a]: <<what, name>> a has still to do
          seen,      \* seen[a]: the entries, as loaded, that a is to deal with
          op,        \* op[a]: <<name, pid>> that a is writing, pid None to remove
          snap,      \* snap[a]: state as loaded by AddDaemon or RemoveDaemon
          excused    \* history: containers that Docker did not answer for, and
                     \* processes recorded when their daemon was started again; all
                     \* once somebody has changed the file, or was about to, beside
                     \* another, a write was refused or baked was killed

vars == <<file, torn, proc, started, cfg, conf, faults, runMu, pc, work, seen, op, snap,
          excused>>
processes == <<proc, started, faults>>
disk == <<file, torn>>
config == <<cfg, conf>>

Empty == [n \in Names |-> None]

\* The entries of s for the names in N.
Only(s, N) == [n \in Names |-> IF n \in N THEN s[n] ELSE None]

Init == /\ file = Empty /\ torn = FALSE
        /\ cfg \in Configs /\ conf = [a \in Actors |-> NoConfig] /\ faults = 0
        /\ proc = [p \in Pids |-> "unused"]
        /\ started = [p \in Pids |-> None]
        /\ runMu = None
        /\ pc = [a \in Actors |-> "idle"]
        /\ work = [a \in Actors |-> {}]
        /\ seen = [a \in Actors |-> Empty]
        /\ op = [a \in Actors |-> None]
        /\ snap = [a \in Actors |-> Empty]
        /\ excused = {}

Goto(a, from, to) == pc[a] = from /\ pc' = [pc EXCEPT ![a] = to]

Recorded(s) == {n \in Names : s[n] # None}

Running(a) == pc[a] \notin {"idle", "waiting", "done"}

----------------------------------------------------------------------------
(* The loops.  RunUp takes the workflow in order; what another activity    *)
(* has to do for each name it does in any order: the loops of RunDown and  *)
(* check range over a map.                                                 *)

\* Nobody but a changes the file, or is about to.
Undisturbed(a) == \A b \in Actors \ {a} : Running(b) => Kind[b] = "health" /\ pc[b] = "loop"

\* handleConn takes the configuration, then waits for runMu.
Arrive(a) == /\ Kind[a] = "up" /\ a \in Locked
             /\ Goto(a, "idle", "waiting")
             /\ conf' = [conf EXCEPT ![a] = cfg]
             /\ UNCHANGED <<disk, processes, cfg, runMu, work, seen, op, snap, excused>>

\* An activity begins with the configuration c, the entries N and a list of work.
Begin(a, c, N, w) ==
    /\ pc[a] = IF Kind[a] = "up" /\ a \in Locked THEN "waiting" ELSE "idle"
    /\ pc' = [pc EXCEPT ![a] = "loop"]
    /\ IF a \in Locked THEN runMu = None /\ runMu' = a ELSE UNCHANGED runMu
    /\ conf' = [conf EXCEPT ![a] = c]
    /\ seen' = [seen EXCEPT ![a] = Only(file, N)]
    /\ work' = [work EXCEPT ![a] = w]
    /\ excused' = IF Kind[a] = "health" \/ Undisturbed(a) THEN excused ELSE Pids
    /\ UNCHANGED <<disk, processes, cfg, op, snap>>

\* RunUp; the command reads the Bakefile itself.
BeginUp(a) == /\ Kind[a] = "up"
              /\ \E c \in IF a \in Locked THEN {conf[a]} ELSE Configs : Begin(a, c, {}, {})

\* lifecycle.Load at the start of RunDown and of check.
BeginDown(a) == /\ Kind[a] = "down" /\ ~torn
                /\ Begin(a, NoConfig, Names, {"stop"} \X Recorded(file))

\* bake down name.
BeginStop(a) == /\ Kind[a] = "down" /\ ~torn
                /\ \E n \in Recorded(file) : Begin(a, NoConfig, {n}, {<<"stop one", n>>})

BeginCheck(a) == /\ Kind[a] = "health" /\ ~torn
                 /\ Begin(a, NoConfig, Names, {"check"} \X Recorded(file))

\* DaemonDiff between what is stored and what is loaded; of the daemons in both,
\* some have changed.
BeginReload(a) ==
    /\ Kind[a] = "reload"
    /\ \E c \in Configs : \E changed \in SUBSET (c.daemons \intersect cfg.daemons) :
          LET w == ({"remove"} \X (cfg.daemons \ c.daemons)) \union ({"restart"} \X changed)
                     \union ({"add"} \X (c.daemons \ cfg.daemons))
          IN Begin(a, c, {}, w)

\* RunDown returns when that Load fails, or when the name is not recorded.  Check
\* returns and tries again.
BeginFails(a) == /\ Kind[a] = "down" /\ (torn \/ Recorded(file) # Names)
                 /\ Goto(a, "idle", "done")
                 /\ a \in Locked => runMu = None
                 /\ UNCHANGED <<disk, processes, config, runMu, work, seen, op, snap, excused>>

\* The end, or the early return; a health checker waits for its next tick.
Leave(a) == /\ pc' = [pc EXCEPT ![a] = IF Kind[a] = "health" THEN "idle" ELSE "done"]
            /\ runMu' = IF runMu = a THEN None ELSE runMu
            /\ work' = [work EXCEPT ![a] = {}]
            /\ conf' = [conf EXCEPT ![a] = NoConfig]

\* After a reload baked stores the configuration.
End(a) == /\ pc[a] = "loop" /\ work[a] = {}
          /\ Kind[a] = "up" => conf[a].workflow = <<>>
          /\ Leave(a)
          /\ cfg' = IF Kind[a] = "reload" THEN conf[a] ELSE cfg
          /\ seen' = [seen EXCEPT ![a] = IF Kind[a] = "down" THEN @ ELSE Empty]
          /\ UNCHANGED <<disk, processes, op, snap, excused>>

\* The daemon is the next one of RunUp's workflow, or one of the hot reload's that
\* is not to be stopped first.
Startable(a, n) ==
    IF Kind[a] = "up" THEN conf[a].workflow # <<>> /\ n = Head(conf[a].workflow)
    ELSE <<"start", n>> \in work[a] /\ <<"stop", n>> \notin work[a]

\* It has been dealt with.
Taken(a, n) ==
    IF Kind[a] = "up" THEN conf' = [conf EXCEPT ![a].workflow = Tail(@)] /\ UNCHANGED work
    ELSE work' = [work EXCEPT ![a] = @ \ {<<"start", n>>}] /\ UNCHANGED conf

\* Mutant of StartDaemon: the process is recorded under any name.
StartDaemonMisnamed(a, n) ==
    /\ Startable(a, n) /\ Taken(a, n)
    /\ \E p \in Pids, m \in Names : /\ proc[p] = "unused"
                                    /\ proc' = [proc EXCEPT ![p] = "alive"]
                                    /\ started' = [started EXCEPT ![p] = <<n, a>>]
                                    /\ op' = [op EXCEPT ![a] = <<m, p>>]
    /\ Goto(a, "loop", "load")
    /\ excused' = excused \union ({file[n]} \ {None})
    /\ UNCHANGED <<disk, faults, cfg, runMu, seen, snap>>

\* StartDaemon, on the host or in a container; AddDaemon(name, pid) is next.
StartDaemon(a, n) ==
    /\ Startable(a, n) /\ Taken(a, n)
    /\ \E p \in Pids : /\ proc[p] = "unused"
                       /\ proc' = [proc EXCEPT ![p] = "alive"]
                       /\ started' = [started EXCEPT ![p] = <<n, a>>]
                       /\ op' = [op EXCEPT ![a] = <<n, p>>]
    /\ Goto(a, "loop", "load")
    /\ excused' = excused \union ({file[n]} \ {None})
    /\ UNCHANGED <<disk, faults, cfg, runMu, seen, snap>>

\* StartDaemon fails: RunUp returns, as when a target of the workflow fails; the
\* hot reload goes on.  A container that Docker started after all, and did not
\* remove, stays.
StartFails(a, n) ==
    /\ pc[a] = "loop" /\ Startable(a, n)
    /\ \/ UNCHANGED <<proc, started, excused>>
       \/ \E p \in Containers : /\ proc[p] = "unused"
                                /\ proc' = [proc EXCEPT ![p] = "alive"]
                                /\ started' = [started EXCEPT ![p] = <<n, a>>]
                                /\ excused' = excused \union {p}
    /\ IF Kind[a] = "up" THEN Leave(a) ELSE Taken(a, n) /\ UNCHANGED <<pc, runMu>>
    /\ UNCHANGED <<disk, faults, cfg, seen, op, snap>>

\* What becomes of a process that exits, and of a container.
Dead(p) == IF p \in Containers \/ started[p][2] \in Baked THEN "exited" ELSE "gone"

\* A process that goes on after a stop was asked for.
Told(p) == IF proc[p] = "alive" THEN "told" ELSE proc[p]

\* stopEntry: what it may make of p, and whether it returns no error.  SIGTERM is
\* sent and not waited for; ContainerRemove with Force may fail, or look failed.
StopEntry(p) == CASE proc[p] = "gone"   -> {<<"gone", FALSE>>}
                  [] proc[p] # "gone" /\ p \in Containers ->
                         {<<"gone", TRUE>>, <<"gone", FALSE>>, <<Told(p), FALSE>>}
                  [] OTHER              -> {<<Told(p), TRUE>>}

\* Mutant of StopDaemon: nobody is asked to stop.
StopDaemonQuietly(a, n) ==
    /\ <<"stop", n>> \in work[a]
    /\ op' = [op EXCEPT ![a] = <<n, None>>]
    /\ Goto(a, "loop", "load")
    /\ work' = [work EXCEPT ![a] = @ \ {<<"stop", n>>}]
    /\ UNCHANGED <<disk, processes, config, runMu, seen, snap, excused>>

\* RunDown and stopAndRemove drop the error of the stop; RemoveDaemon(name) is next.
StopDaemon(a, n) ==
    /\ <<"stop", n>> \in work[a]
    /\ \E r \in StopEntry(seen[a][n]) : proc' = [proc EXCEPT ![seen[a][n]] = r[1]]
    /\ op' = [op EXCEPT ![a] = <<n, None>>]
    /\ Goto(a, "loop", "load")
    /\ work' = [work EXCEPT ![a] = @ \ {<<"stop", n>>}]
    /\ UNCHANGED <<disk, started, faults, config, runMu, seen, snap, excused>>

\* bake down name returns the error, and the entry stays.
StopOne(a, n) ==
    /\ pc[a] = "loop" /\ <<"stop one", n>> \in work[a]
    /\ work' = [work EXCEPT ![a] = {}]
    /\ \E r \in StopEntry(seen[a][n]) :
          /\ proc' = [proc EXCEPT ![seen[a][n]] = r[1]]
          /\ IF r[2] THEN Goto(a, "loop", "load") /\ op' = [op EXCEPT ![a] = <<n, None>>]
             ELSE UNCHANGED <<pc, op>>
    /\ UNCHANGED <<disk, started, faults, config, runMu, seen, snap, excused>>

\* ApplyDaemonDiff: removed daemons, then changed ones, then added ones, each
\* stopped and started before the next.
Earlier(kind) == CASE kind = "remove"  -> {}
                   [] kind = "restart" -> {"remove"}
                   [] kind = "add"     -> {"remove", "restart"}

\* stopAndRemove loads the file; what is not recorded is not stopped.
NextDaemon(a, n) ==
    /\ pc[a] = "loop"
    /\ \E kind \in {"remove", "restart", "add"} :
          /\ <<kind, n>> \in work[a]
          /\ \A w \in work[a] : w[1] \notin {"stop", "start"} \union Earlier(kind)
          /\ LET stop  == IF kind = "add" \/ torn \/ file[n] = None THEN {} ELSE {<<"stop", n>>}
                 start == IF kind = "remove" THEN {} ELSE {<<"start", n>>}
             IN /\ work' = [work EXCEPT ![a] = (@ \ {<<kind, n>>}) \union stop \union start]
                /\ seen' = [seen EXCEPT ![a] = IF stop = {} THEN Empty ELSE Only(file, {n})]
    /\ UNCHANGED <<disk, processes, config, runMu, pc, op, snap, excused>>

\* signal 0 succeeds on a process that runs and on one that is not waited for;
\* docker inspect tells whether a container runs.
Responds(p) == proc[p] \in {"alive", "told"} \/ (proc[p] = "exited" /\ p \notin Containers)

\* An entry is found dead; RemoveDaemon(name) is next.
FoundDead(a, n, ps) ==
    /\ Goto(a, "loop", "load")
    /\ op' = [op EXCEPT ![a] = <<n, None>>]
    /\ excused' = IF Undisturbed(a) /\ file[n] = seen[a][n] THEN excused \union ps ELSE Pids

\* isDaemonAlive.
Check(a, n) ==
    /\ <<"check", n>> \in work[a]
    /\ work' = [work EXCEPT ![a] = @ \ {<<"check", n>>}]
    /\ IF Responds(seen[a][n]) THEN pc[a] = "loop" /\ UNCHANGED <<pc, op, excused>>
       ELSE FoundDead(a, n, {})
    /\ UNCHANGED <<disk, processes, config, runMu, seen, snap>>

\* docker inspect fails, or takes more than five seconds: the container counts as dead.
CheckUnanswered(a, n) ==
    /\ <<"check", n>> \in work[a] /\ seen[a][n] \in Containers
    /\ work' = [work EXCEPT ![a] = @ \ {<<"check", n>>}]
    /\ FoundDead(a, n, {seen[a][n]})
    /\ UNCHANGED <<disk, processes, config, runMu, seen, snap>>

----------------------------------------------------------------------------
(* AddDaemon and RemoveDaemon.                                             *)

LoadState(a) == /\ Goto(a, "load", "open")
                /\ ~torn
                /\ snap' = [snap EXCEPT ![a] = file]
                /\ UNCHANGED <<disk, processes, config, runMu, work, seen, op, excused>>

\* They return an error.  RunUp and the runDown of the command return; the daemon's
\* loops ignore it.
GiveUp(a) == /\ IF Kind[a] = "up" \/ (Kind[a] = "down" /\ a \notin Baked) THEN Leave(a)
                ELSE pc' = [pc EXCEPT ![a] = "loop"] /\ UNCHANGED <<runMu, work, conf>>
             /\ op' = [op EXCEPT ![a] = None]
             /\ snap' = [snap EXCEPT ![a] = Empty]

\* The file is being written and does not parse.
LoadFails(a) == /\ pc[a] = "load" /\ torn
                /\ GiveUp(a)
                /\ UNCHANGED <<disk, processes, cfg, seen, excused>>

\* os.WriteFile truncates the file, then writes it.
OpenState(a) == /\ Goto(a, "open", "write")
                /\ torn' = TRUE
                /\ UNCHANGED <<file, processes, config, runMu, work, seen, op, snap, excused>>

\* It cannot open the file, or write what it has truncated.
SaveFails(a) == /\ pc[a] \in {"open", "write"}
                /\ faults < MaxFaults /\ faults' = faults + 1
                /\ GiveUp(a)
                /\ excused' = Pids
                /\ UNCHANGED <<disk, proc, started, cfg, seen>>

\* The activity needs no longer what it read and wrote.
Forget(a) == /\ op' = [op EXCEPT ![a] = None]
             /\ snap' = [snap EXCEPT ![a] = Empty]

\* Mutant of WriteState: the state is the one loaded before the loop.
WriteStateSeen(a) == /\ Goto(a, "write", "loop")
                     /\ torn' = FALSE
                     /\ file' = [seen[a] EXCEPT ![op[a][1]] = op[a][2]]
                     /\ Forget(a)
                     /\ UNCHANGED <<processes, config, runMu, work, seen, excused>>

WriteState(a) == /\ Goto(a, "write", "loop")
                 /\ torn' = FALSE
                 /\ file' = [snap[a] EXCEPT ![op[a][1]] = op[a][2]]
                 /\ Forget(a)
                 /\ UNCHANGED <<processes, config, runMu, work, seen, excused>>

----------------------------------------------------------------------------
\* A process exits: one that was told to, or on its own.
Exit(p) == /\ proc[p] = "told" \/ (Deaths /\ proc[p] = "alive")
           /\ proc' = [proc EXCEPT ![p] = Dead(p)]
           /\ UNCHANGED <<disk, started, faults, config, runMu, pc, work, seen, op, snap,
                          excused>>

\* baked is killed and started again.  Its requests wait to be run again, with the
\* Bakefile as it then is; its zombies have gone, the processes it started go on.
Crash == /\ faults < MaxFaults /\ faults' = faults + 1
         /\ pc' = [a \in Actors |-> CASE a \notin Baked \/ pc[a] \in {"idle", "done"} -> pc[a]
                                      [] a \in Baked /\ pc[a] \notin {"idle", "done"}
                                           /\ Kind[a] = "reload" -> "done"
                                      [] OTHER -> "idle"]
         /\ runMu' = None
         /\ cfg' \in {cfg} \union {conf[a] : a \in {b \in Actors : Kind[b] = "reload" /\ Running(b)}}
         /\ work' = [a \in Actors |-> IF a \in Baked THEN {} ELSE work[a]]
         /\ conf' = [a \in Actors |-> IF a \in Baked THEN NoConfig ELSE conf[a]]
         /\ seen' = [a \in Actors |-> IF a \in Baked /\ pc[a] # "done" THEN Empty ELSE seen[a]]
         /\ op'   = [a \in Actors |-> IF a \in Baked THEN None ELSE op[a]]
         /\ snap' = [a \in Actors |-> IF a \in Baked THEN Empty ELSE snap[a]]
         /\ proc' = [p \in Pids |-> IF proc[p] = "exited" /\ p \notin Containers
                                    THEN "gone" ELSE proc[p]]
         /\ started' = [p \in Pids |-> IF started[p] # None /\ started[p][2] \in Baked
                                       THEN <<started[p][1], None>> ELSE started[p]]
         /\ excused' = Pids
         /\ UNCHANGED disk

Step(a) == \/ Arrive(a) \/ BeginUp(a) \/ BeginDown(a) \/ BeginStop(a) \/ BeginCheck(a)
           \/ BeginReload(a) \/ BeginFails(a) \/ End(a)
           \/ \E n \in Names : \/ StartDaemon(a, n) \/ StartFails(a, n)
                               \/ StopDaemon(a, n) \/ StopOne(a, n) \/ NextDaemon(a, n)
                               \/ Check(a, n) \/ CheckUnanswered(a, n)
           \/ LoadState(a) \/ LoadFails(a) \/ OpenState(a) \/ SaveFails(a) \/ WriteState(a)

Next == (\E a \in Actors : Step(a)) \/ (\E p \in Pids : Exit(p)) \/ Crash

Spec == Init /\ [][Next]_vars

\* The health checker's ticker and the scheduler run for ever.  Whether and when
\* a request or a reload begins is the user's affair; one that began goes on.
FairSpec == Spec /\ \A a \in Actors :
                      IF Kind[a] = "health" THEN WF_vars(Step(a))
                      ELSE WF_vars(pc[a] # "idle" /\ Step(a))
----------------------------------------------------------------------------
(* Properties.                                                             *)

\* The type invariant.
Tasks == {"start", "stop", "stop one", "check", "remove", "restart", "add"}
ConfigType == [daemons : SUBSET Names, workflow : Seq(Names)]
TypeOK == /\ file \in [Names -> Pids \union {None}] /\ torn \in BOOLEAN
          /\ proc \in [Pids -> {"unused", "alive", "told", "exited", "gone"}]
          /\ started \in [Pids -> (Names \X (Actors \union {None})) \union {None}]
          /\ cfg \in ConfigType /\ conf \in [Actors -> ConfigType] /\ faults \in Nat
          /\ runMu \in Locked \union {None}
          /\ pc \in [Actors -> {"idle", "waiting", "loop", "load", "open", "write", "done"}]
          /\ work \in [Actors -> SUBSET (Tasks \X Names)]
          /\ seen \in [Actors -> [Names -> Pids \union {None}]]
          /\ op \in [Actors -> (Names \X (Pids \union {None})) \union {None}]
          /\ snap \in [Actors -> [Names -> Pids \union {None}]]
          /\ excused \subseteq Pids

\* Processes that run and that nobody has asked to stop.
Alive == {p \in Pids : proc[p] = "alive"}
Quiet == \A a \in Actors : ~Running(a)
InFile(p) == \E n \in Names : file[n] = p

\* "bake up starts it in the background and records its PID" and "bake down stops
\* all daemons in state" (docs/bakefile-reference.md): with nothing under way,
\* every process that runs is recorded, so that bake down can reach it.
AllRecorded == Quiet => \A p \in Alive : InFile(p)

\* As long as nobody changes the file beside another, no write is refused and baked
\* is not killed, a process that runs and is in no file was told to stop, or is a
\* container that Docker did not answer for, or its daemon was started over it.
NoOrphan == Quiet => \A p \in Alive : InFile(p) \/ p \in excused

\* However the activities overwrite each other's file, an entry never names a
\* process that was not started for that daemon.
EntriesAreReal == \A n \in Names : file[n] # None =>
                     started[file[n]] # None /\ started[file[n]][1] = n

\* "check validates all daemon entries in state and removes dead ones"
\* (health.go): it never removes the entry of a process that runs.
HealthRemovesDead == [][\A a \in Actors : (Kind[a] = "health" /\ WriteState(a)) =>
    \A n \in Recorded(file) \ Recorded(file') : proc[file[n]] # "alive"]_vars

\* "Dead entries are automatically removed" (docs/install-daemon.md).
DeadRemoved == \A n \in Names, p \in Pids :
    (file[n] = p /\ proc[p] \in {"exited", "gone"}) ~> (file[n] # p)

\* When a request "down" is over, whatever the checker and a hot reload did to the
\* file meanwhile, each of the processes recorded when it began has been told to
\* stop or does not run; whether it obeys, or Docker, nobody waits to see.
DownStops == \A a \in Locked, n \in Names, p \in Pids :
    Kind[a] = "down" /\ pc[a] = "done" /\ seen[a][n] = p => proc[p] # "alive"

\* "the caller should call RemoveDaemon after a successful stop" (StopDaemon in
\* internal/lifecycle): what was told to stop and still runs stays in the file.
StopsAreSeen == Quiet => \A p \in Pids : proc[p] = "told" => InFile(p) \/ p \in excused

\* "bake down stops all daemons in state" (docs/bakefile-reference.md), so the file
\* can be read unless somebody is writing it.
StateReadable == torn => \E a \in Actors : pc[a] = "write"

\* "makeCfgGetter returns a function that always returns the latest config"
\* (cmd/baked/main.go): what a request "up" starts is in the one that is stored.
UpIsCurrent == [][\A a \in Locked, n \in Names :
                     Kind[a] = "up" /\ StartDaemon(a, n) => n \in cfg.daemons]_vars
=============================================================================
