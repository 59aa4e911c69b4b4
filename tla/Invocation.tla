----------------------------- MODULE Invocation -----------------------------
(***************************************************************************)
(* One command "bake [flags] [target [preset] | suite] [args]": RunMain    *)
(* (cmd/bake/main.go) chooses between the daemon, which gets the name and  *)
(* nothing else, the default target, and the target or suite in process;   *)
(* makes the options of every runner.Run; and turns their errors into an   *)
(* exit code.  The names up, down, install, format, fmt and lint are not   *)
(* modelled here.                                                          *)
(***************************************************************************)
EXTENDS SequentialRun

CONSTANTS Root,      \* a target that depends on all the others
          Requests   \* the command lines to consider: pos, <<>> or <<name>>;
                     \* args, the words behind it; means, what was meant by
                     \* them; setEnv and setArgs (--set), profile, "" if none;
                     \* dryRun, noDaemon, ci

ASSUME RootAssumption ==
    /\ Root \in Targets
    /\ \A t \in Targets : \E k \in 1..Len(Order[Root]) : Order[Root][k] = t

\* The steps of a target, and those of its presets.
Written(t) == {t.steps} \cup {t.presets[p].steps : p \in DOMAIN t.presets}

\* What Validate has left of the suites, and DefaultTargetName; a name is not
\* empty; arguments, slots and steps are lists.
ASSUME ConfigAssumption ==
    \A c \in Configs :
        /\ c.default \in Targets /\ "" \notin DOMAIN c.profiles
        /\ \A t \in Targets :
             /\ "" \notin DOMAIN c.targets[t].presets
             /\ c.targets[t].args \in Seq([name : STRING, short : STRING, default : STRING])
             /\ c.targets[t].slots \in Seq(Nat)
             /\ \A s \in Written(c.targets[t]) : s \in Seq(Seq({"word", "arg", "live"} \X STRING))
        /\ \A s \in DOMAIN c.suites : c.suites[s] \in Seq([target : Targets, preset : STRING])

VARIABLES req,       \* the command line; never changes
          pc,        \* "main", "local" past the daemon, "jobs", "done"
          route,     \* "daemon", "local", or "default" for runDefault
          todo,      \* the calls of runner.Run still to make
          past,      \* what became of the ones made
          printed,   \* what --dry-run has printed
          exit       \* the code RunMain returns, and whether with an error

vars == <<cfg, run, req, pc, route, todo, past, printed, exit>>

Init == /\ InitRun
        /\ req \in Requests
        /\ pc = "main" /\ route = "none"
        /\ todo = <<>> /\ past = <<>> /\ printed = <<>>
        /\ exit = [code |-> 0, err |-> FALSE]

Exit(code, err) == /\ pc' = "done"
                   /\ exit' = [code |-> code, err |-> err]

\* With --ci and no name the suite ci, if there is one.
Name == IF req.pos = <<>> /\ req.ci /\ "ci" \in DOMAIN cfg.suites THEN <<"ci">> ELSE req.pos

IsSuite(n) == n \in DOMAIN cfg.suites

\* PresetByName.
Preset(t, p) == IF p \in DOMAIN cfg.targets[t].presets THEN cfg.targets[t].presets[p]
                ELSE NoPreset

Job(t, o) == [target |-> t, opts |-> o]

(***************************************************************************)
(* The daemon: RunTarget and RunSuite of internal/baked/run.go             *)
(***************************************************************************)

DaemonOptions(t, p) == [NoOptions EXCEPT !.env = cfg.targets[t].env, !.preset = Preset(t, p)]

DaemonJobs(n) ==
    IF IsSuite(n)
    THEN [k \in DOMAIN cfg.suites[n] |->
            LET e == cfg.suites[n][k] IN Job(e.target, DaemonOptions(e.target, e.preset))]
    ELSE <<Job(n, DaemonOptions(n, ""))>>

\* tryDaemon: of the command line only the name is sent.  An unknown name is a
\* failure like any other.
UseDaemon == /\ pc = "main"
             /\ Name # <<>> /\ ~req.noDaemon
             /\ route' = "daemon"
             /\ IF IsSuite(Name[1]) \/ Name[1] \in Targets
                THEN todo' = DaemonJobs(Name[1]) /\ pc' = "jobs" /\ UNCHANGED exit
                ELSE Exit(1, FALSE) /\ UNCHANGED todo
             /\ UNCHANGED <<cfg, run, req, past, printed>>

\* No daemon is wanted or none can be reached.
StayLocal == /\ pc = "main"
             /\ pc' = "local"
             /\ route' = IF Name = <<>> THEN "default" ELSE "local"
             /\ UNCHANGED <<cfg, run, req, todo, past, printed, exit>>

(***************************************************************************)
(* In process                                                              *)
(***************************************************************************)

ProfileEnv == IF req.profile \in DOMAIN cfg.profiles THEN cfg.profiles[req.profile] ELSE Nothing

\* runTarget's RunOptions, from the target, the words of its own and its preset.
LocalOptions(t, words, preset) ==
    LET parsed == ParseArgs(cfg.targets[t], words)
    IN [env      |-> Over(cfg.targets[t].env, ProfileEnv),
        cli      |-> req.setEnv,
        declared |-> Over(req.setArgs, parsed.declared),
        live     |-> parsed.live,
        pass     |-> parsed.pass,
        preset   |-> preset]

\* The word behind a target's name is a preset if the target has it.
NamesPreset(t, args) == /\ args # <<>> /\ args[1].kind = "word"
                        /\ args[1].text \in DOMAIN t.presets

LocalJobs ==
    CASE Name = <<>>      -> <<Job(cfg.default, LocalOptions(cfg.default, <<>>, NoPreset))>>
      [] Name # <<>> /\ IsSuite(Name[1]) ->
             [k \in DOMAIN cfg.suites[Name[1]] |->
                LET e == cfg.suites[Name[1]][k]
                IN Job(e.target, LocalOptions(e.target, <<>>, Preset(e.target, e.preset)))]
      [] OTHER            -> LET t == Name[1]
                             IN <<Job(t, IF NamesPreset(cfg.targets[t], req.args)
                                         THEN LocalOptions(t, Tail(req.args), Preset(t, req.args[1].text))
                                         ELSE LocalOptions(t, req.args, NoPreset))>>

\* loadConfig fails.
LoadFails == /\ pc = "local"
             /\ Exit(2, TRUE)
             /\ UNCHANGED <<cfg, run, req, route, todo, past, printed>>

UsageError == \/ req.profile # "" /\ req.profile \notin DOMAIN cfg.profiles
              \/ Name # <<>> /\ ~IsSuite(Name[1]) /\ Name[1] \notin Targets

\* Unknown profile, unknown target.
Refuse == /\ pc = "local" /\ UsageError
          /\ Exit(2, TRUE)
          /\ UNCHANGED <<cfg, run, req, route, todo, past, printed>>

Resolve == /\ pc = "local" /\ ~UsageError
           /\ todo' = LocalJobs
           /\ pc' = "jobs"
           /\ UNCHANGED <<cfg, run, req, route, past, printed, exit>>

\* runDryRun; runDefault has none.
PrintJob == /\ pc = "jobs" /\ todo # <<>>
            /\ route = "local" /\ req.dryRun
            /\ LET job   == Head(todo)
                   order == Order[job.target]
               IN printed' = printed \o
                    [k \in DOMAIN order |->
                        [target   |-> order[k],
                         commands |-> Printed(cfg.targets[order[k]], job.opts,
                                              order[k] = job.target)]]
            /\ todo' = Tail(todo)
            /\ UNCHANGED <<cfg, run, req, pc, route, past, exit>>

\* runTarget returns at once when the target has no steps of its own.
SkipJob == /\ pc = "jobs" /\ todo # <<>> /\ verdict = "idle"
           /\ route = "default" \/ (route = "local" /\ ~req.dryRun)
           /\ cfg.targets[Head(todo).target].steps = <<>>
           /\ todo' = Tail(todo)
           /\ UNCHANGED <<cfg, run, req, pc, route, past, printed, exit>>

CallRun == /\ pc = "jobs" /\ todo # <<>> /\ verdict = "idle"
           /\ ~(route = "local" /\ req.dryRun)
           /\ route = "daemon" \/ cfg.targets[Head(todo).target].steps # <<>>
           /\ BeginRun(Head(todo).target, Head(todo).opts)
           /\ UNCHANGED <<req, pc, route, todo, past, printed, exit>>

RunStep == /\ pc = "jobs" /\ StepRun
           /\ UNCHANGED <<req, pc, route, todo, past, printed, exit>>

Archive == /\ pc = "jobs" /\ verdict \notin {"idle", "none"}
           /\ past' = Append(past, [asked |-> asked, ret |-> ret, verdict |-> verdict])
           /\ verdict' = "idle"
           /\ UNCHANGED <<cfg, asked, opts, i, stage, ret, log, req, route, printed>>

\* Mutant of EndJob: a suite goes on behind an entry that failed.
EndJobGoesOn == /\ Archive
                /\ todo' = Tail(todo)
                /\ UNCHANGED <<pc, exit>>

\* The first error ends the command: 2 from runDefault, whatever it was; the
\* daemon's answer comes without an error in the sense of Go.
EndJob == /\ Archive
          /\ IF verdict = "ok" THEN todo' = Tail(todo) /\ UNCHANGED <<pc, exit>>
             ELSE /\ Exit(IF route = "default" THEN 2 ELSE 1, route # "daemon")
                  /\ UNCHANGED todo

AllDone == /\ pc = "jobs" /\ todo = <<>>
           /\ Exit(0, FALSE)
           /\ UNCHANGED <<cfg, run, req, route, todo, past, printed>>

Ended == pc = "done" /\ UNCHANGED vars

Next == \/ UseDaemon \/ StayLocal
        \/ LoadFails \/ Refuse \/ Resolve
        \/ PrintJob \/ SkipJob \/ CallRun \/ RunStep \/ EndJob \/ AllDone
        \/ Ended

Spec == Init /\ [][Next]_vars
-----------------------------------------------------------------------------
(***************************************************************************)
(* How the words of a command line spell what was meant (req.means).       *)
(***************************************************************************)

Joined(groups) ==
    FoldLeft(LAMBDA all, g : all \o <<<<"word", "--">>>> \o g, groups[1], Tail(groups))

\* What the k-th step gets of the groups behind "--": everything if it is the
\* only slot, one group each if there are several.
Passed(t, k, groups) ==
    CASE groups # <<>> /\ t.slots = <<k>> -> Joined(groups)
      [] Len(t.slots) > 1 ->
             FlattenSeq([j \in DOMAIN groups |->
                 IF j \in DOMAIN t.slots /\ t.slots[j] = k THEN groups[j] ELSE <<>>])
      [] OTHER -> <<>>

\* The x of the templates {{.live.x}} of a target.
LiveKeys(t) == UNION {UNION {{s[k][j][2] : j \in {j \in DOMAIN s[k] : s[k][j][1] = "live"}} :
                                 k \in DOMAIN s} : s \in Written(t)}

\* ParseArgs finds the values and the groups in the words, as far as the target
\* can tell.
Spells(t, words, values, groups) ==
    LET parsed == ParseArgs(t, words)
        live   == [x \in DOMAIN values \ ArgNames(t) |-> values[x]]
    IN /\ DOMAIN parsed.declared = ArgNames(t)
       /\ \A k \in DOMAIN t.args :
            parsed.declared[t.args[k].name] =
                IF t.args[k].name \in DOMAIN values THEN values[t.args[k].name]
                ELSE t.args[k].default
       /\ DOMAIN parsed.live = {} <=> DOMAIN live = {}
       /\ \A x \in LiveKeys(t) : Lookup(parsed.live, x) = Lookup(live, x)
       /\ \A k \in DOMAIN parsed.pass \cup UNION {DOMAIN s : s \in Written(t)} :
            Passed(t, k, groups) = IF k \in DOMAIN parsed.pass THEN parsed.pass[k] ELSE <<>>

IsMap(m) == m \in [DOMAIN m -> STRING]

\* The command lines considered mean what they say, and no words mean nothing.
ASSUME SpellingAssumption ==
    /\ \A r \in Requests :
         /\ r.pos \in Seq(STRING) /\ Len(r.pos) <= 1
         /\ IsMap(r.setArgs) /\ IsMap(r.means.values)
         /\ r.args = <<>> => r.means = [preset |-> "", values |-> Nothing, groups |-> <<>>]
    /\ \A c \in Configs : \A n \in Targets :
         LET t == c.targets[n]
         IN /\ Spells(t, <<>>, Nothing, <<>>)
            /\ \A r \in Requests : r.pos = <<n>> =>
                 IF NamesPreset(t, r.args)
                 THEN /\ r.means.preset = r.args[1].text
                      /\ Spells(t, Tail(r.args), r.means.values, r.means.groups)
                 ELSE /\ r.means.preset \notin DOMAIN t.presets
                      /\ Spells(t, r.args, r.means.values, r.means.groups)
-----------------------------------------------------------------------------
(***************************************************************************)
(* What a command line means, from what was meant by it (req.means: the    *)
(* preset, a value for each key, the groups of words behind "--") and the  *)
(* documentation of presets, arguments, overrides and passthrough.         *)
(***************************************************************************)

\* The entries a command asks for.
Entries ==
    IF Name = <<>> THEN <<[target |-> cfg.default, preset |-> ""]>>
    ELSE IF IsSuite(Name[1]) THEN cfg.suites[Name[1]]
    ELSE <<[target |-> Name[1], preset |-> req.means.preset]>>

\* Without steps of its own an entry is passed over, unless the daemon runs it
\* or it is only printed.
PassedOver(e) == /\ cfg.targets[e.target].steps = <<>>
                 /\ route # "daemon" /\ ~(route = "local" /\ req.dryRun)

\* Only a target named on the command line gets the values and the groups.
Values == IF Name # <<>> /\ ~IsSuite(Name[1]) THEN req.means.values ELSE Nothing
Groups == IF Name # <<>> /\ ~IsSuite(Name[1]) THEN req.means.groups ELSE <<>>

\* What there is for a template, by rank: an override of --set, what was given,
\* the default.
Offers(t, w) ==
    LET declared == {k \in DOMAIN t.args : t.args[k].name = w[2]}
        given    == {<<2, Values[x]>> : x \in {w[2]} \cap DOMAIN Values}
    IN CASE w[1] = "live" /\ declared = {} -> given
         [] w[1] = "arg" /\ declared = {}  -> {<<1, req.setArgs[x]>> : x \in {w[2]} \cap DOMAIN req.setArgs}
         [] w[1] = "arg" /\ declared # {}  -> {<<1, req.setArgs[x]>> : x \in {w[2]} \cap DOMAIN req.setArgs}
                                              \cup given \cup {<<3, t.args[k].default>> : k \in declared}
         [] OTHER -> {}

\* With no argument anywhere the template is left as it is.
Meant(t, w) ==
    IF w[1] = "word" \/ (t.args = <<>> /\ Values = Nothing /\ req.setArgs = Nothing) THEN w
    ELSE IF Offers(t, w) = {} THEN <<"word", "<no value>">>
    ELSE <<"word", (CHOOSE x \in Offers(t, w) : \A y \in Offers(t, w) : x[1] <= y[1])[2]>>

\* The preset's words follow those of the first slot, or of the last step.
Slotted(t, k, preset) ==
    IF preset.steps = <<>> /\ k = (IF t.slots = <<>> THEN Len(t.steps) ELSE t.slots[1])
    THEN preset.argv ELSE <<>>

\* The first layer that has a key gives its value.
Layered(layers) == [key \in UNION {DOMAIN layers[j] : j \in DOMAIN layers} |->
    LET j == CHOOSE j \in DOMAIN layers : /\ key \in DOMAIN layers[j]
                                          /\ \A k \in 1..(j - 1) : key \notin DOMAIN layers[k]
    IN layers[j][key]]

PlannedTarget(e) ==
    LET t      == cfg.targets[e.target]
        preset == Preset(e.target, e.preset)
        steps  == IF preset.steps = <<>> THEN t.steps ELSE preset.steps
    IN [target   |-> e.target,
        commands |-> WithoutEmpty([k \in DOMAIN steps |->
                        [j \in DOMAIN steps[k] |-> Meant(t, steps[k][j])]
                        \o Slotted(t, k, preset) \o Passed(t, k, Groups)]),
        env      |-> Layered(<<req.setEnv, preset.env, t.env, ProfileEnv, cfg.dotenv, cfg.process>>)]

\* A dependency runs as it is written, with the environment of --set.
PlannedDep(d) ==
    [target   |-> d,
     commands |-> WithoutEmpty(cfg.targets[d].steps),
     env      |-> Layered(<<req.setEnv, cfg.targets[d].env, cfg.dotenv, cfg.process>>)]

PlannedRun(e) == [j \in DOMAIN Order[e.target] |->
    IF j = Len(Order[e.target]) THEN PlannedTarget(e) ELSE PlannedDep(Order[e.target][j])]

Plan == FlattenSeq([k \in DOMAIN Entries |->
            IF PassedOver(Entries[k]) THEN <<>> ELSE PlannedRun(Entries[k])])

\* The daemon gets the name and nothing else: what it runs is what was meant if
\* nothing else was given, and no entry has arguments.
Heard == /\ req.args = <<>> /\ req.setEnv = Nothing /\ req.setArgs = Nothing /\ req.profile = ""
         /\ \A k \in DOMAIN Entries : PassedOver(Entries[k]) \/ cfg.targets[Entries[k].target].args = <<>>

\* --dry-run shows the target's own steps, one slot, and a target's arguments
\* in its dependencies too.
Previewed(k) ==
    LET e == Entries[1]
    IN /\ Preset(e.target, e.preset).steps = <<>>
       /\ Len(cfg.targets[e.target].slots) <= 1
       /\ Plan[k].target = e.target \/ (Heard /\ ~IsSuite(Name[1]))

(***************************************************************************)
(* Properties                                                              *)
(***************************************************************************)

\* Every way in (daemon, default target, target, preset, suite, --ci) makes
\* RunOptions of its own, and Run makes others for the dependencies: the
\* commands and the environment of everything run are the ones meant, in the
\* planned order, nothing runs behind a failure, and a dry run of one target
\* printed them.
RunsAsPlanned ==
    /\ log # <<>> /\ (route = "daemon" => Heard) =>
         /\ Len(log) <= Len(Plan)
         /\ \A k \in DOMAIN log :
              /\ log[k].target = Plan[k].target
              /\ log[k].how = "ran"    => log[k].commands = Plan[k].commands
              /\ log[k].how = "failed" => k = Len(log) /\ IsPrefix(log[k].commands, Plan[k].commands)
              /\ log[k].env = Plan[k].env
    /\ \A k \in DOMAIN printed : /\ printed[k].target = Plan[k].target
                                 /\ Len(Entries) = 1 /\ Previewed(k) =>
                                        printed[k].commands = Plan[k].commands

Failed == \E k \in DOMAIN past : past[k].verdict # "ok"

\* RunMain's code is 0 only when nothing failed, 1 only when a target failed,
\* or the daemon does not know it, 2 only for a command that could not be
\* carried out, or from the default target.
CodeHonest ==
    pc = "done" =>
       /\ exit.code = 0 => ~Failed /\ ~exit.err
       /\ exit.code = 1 => Failed \/ (route = "daemon" /\ UsageError)
       /\ exit.code = 2 => exit.err /\ (Failed => route = "default")
       /\ Failed => exit.code # 0

\* And 0 only when everything planned was run or printed.
ExitHonest ==
    /\ CodeHonest
    /\ pc = "done" /\ exit.code = 0 =>
         Len(IF route = "local" /\ req.dryRun THEN printed ELSE log) = Len(Plan)

\* The first run of Root, to be compared with DagExec; 0 if there is none yet.
RootRuns == {k \in DOMAIN past : past[k].asked = Root}

RootRun == IF RootRuns = {} THEN 0 ELSE CHOOSE k \in RootRuns : \A j \in RootRuns : k <= j

IsNow == RootRun = 0 /\ asked = Root /\ verdict # "idle"

Outcome(r) == IF r \in {"err", "noDocker"} THEN "failed" ELSE IF r = "ok" THEN "ok" ELSE "waiting"

Progress(t) == IF RootRun # 0 THEN Outcome(past[RootRun].ret[t])
               ELSE IF ~IsNow THEN "waiting"
               ELSE IF stage = "running" /\ t = Current THEN "running"
               ELSE Outcome(ret[t])

Answer == IF RootRun # 0 THEN past[RootRun].verdict ELSE IF IsNow THEN verdict ELSE "none"

Abstract == INSTANCE DagExec WITH
    MaxParallel <- 1, Excluded <- {},
    st          <- [t \in Targets |-> Progress(t)],
    verdict     <- Answer

\* Whoever calls it and with whatever options, the sequential run implements
\* DagExec, one target at a time.
ImplementsDagExec == Abstract!Spec

\* Not so: --dry-run is lost on the way to the daemon and to the default target.
DryRunRunsNothing == req.dryRun => log = <<>>

\* Not so: what main exits with is 0 when the daemon's run failed, since
\* RunMain returns no error then.
StatusDocumented == pc = "done" /\ Failed => exit.err

\* Not so: the daemon is not told anything but the name.
OptionsReach == \A k \in DOMAIN log : Len(Plan) >= k => log[k].env = Plan[k].env

\* Not so: a template of a dependency is run with its braces.
TemplatesFilled == \A k \in DOMAIN log : \A c \in DOMAIN log[k].commands :
                      \A j \in DOMAIN log[k].commands[c] : log[k].commands[c][j][1] = "word"

\* Not so: without steps of its own a target's dependencies are not run either.
SuccessMeansRun == pc = "done" /\ exit.code = 0 /\ ~req.dryRun /\ Name # <<>>
                   /\ ~IsSuite(Name[1]) => \E k \in DOMAIN past : past[k].asked = Name[1]

\* Not so: a dependency with an image fails although there is a Docker.
DockerSuffices == Docker => \A t \in Targets : ret[t] # "noDocker"
=============================================================================
