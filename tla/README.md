# A verification project for go-bake

`bake` is a make replacement: it reads a Bakefile and runs targets, alone or
through `baked`, a daemon per workspace that queues requests, keeps long-running
processes up and reloads the Bakefile when it changes. This directory models the
parts of the program whose correctness depends on order, on failure or on other
processes, checks them with TLC on small instances and proves the main safety
properties with TLAPS for every instance. Paths below are relative to `src/`.

1. [The system](#the-system)
2. [Modules](#modules)
3. [Runs and bounds](#runs-and-bounds)
4. [Fairness](#fairness)
5. [Proofs](#proofs)
6. [Where the code differs from its documents](#where-the-code-differs-from-its-documents)
7. [What is not modelled](#what-is-not-modelled)
8. [Plan](#plan)

## The system

| component | state it keeps | operations | hard behaviour | correct when |
|---|---|---|---|---|
| Dependency graph, `internal/runner/dag.go` | visited set, order, levels | `TopoOrder`, `LevelOrder` | cycles and repeated names reach it, validation does not reject cycles | ends; dependency-first; levels separate a target from its dependencies |
| Runner, parallel mode, `internal/runner/runner.go` | semaphore, pool channels, mutexes, first error | `Run` with `MaxParallel > 1` | goroutines take three locks in turn; cancellation and failure at any point | dependencies done first; limits kept; nothing left behind; honest error; returns |
| Runner, sequential mode, same file, entered from `cmd/bake` and `internal/baked/run.go` | position in the order | `Run` with `MaxParallel <= 1` | options of a dependency are built by hand | does what the parallel mode promises |
| Command line, `RunMain` in `cmd/bake/main.go` | the runs still to make | daemon, default target, target and preset, suite, dry run | each way makes options of its own and has its own exit codes | what runs is what was meant, the code tells how it went |
| Arguments, templates, environment, `internal/resolve`, `internal/env` | none | `ParseArgs`, `Expand`, `Merge` | words are told apart by position, maps overlay each other | the documented value of every template and variable |
| Loading, `internal/dsl/parser.go`, `internal/config/validate.go`, `internal/baked/load.go`, `loadConfig` | the Bakefile itself, which every load rewrites | format, lint, parse, import, merge, validate | loaders and an editor at one file with no lock; import cycles | the file keeps its meaning, imports are merged as documented, what is accepted can be ordered |
| Lexer, syntax tree, formatter, linter, `internal/dsl`, `internal/lint` | none | parse, format, `ApplyFixes` | a clause with no end of its own takes what now follows it | formatting and fixing change nothing that is said |
| Event stream, same file | the output stream | `emitEvent`, `lockedWriter` | targets of a level write at once, two writes an event | objects whole, in order, all there |
| Incremental builds, `runner.go`, `internal/cache` | manifests under `.bake/cache`, outputs | hash, look up, skip, save | edits during a build, crashes in a save, two builders | a skip leaves what the steps would have made |
| Queue and request handling, `internal/baked/queue.go`, `cmd/baked/main.go` | `queue.json`, `runMu`, ids | `Enqueue`, `Dequeue`, `handleConn`, `replayQueue` | crashes between any two steps, refused writes | nothing accepted is lost, nothing answered runs again, one run at a time |
| Daemon state, `internal/lifecycle`, `internal/baked/run.go`, `health.go` | `state.json` and the processes | `up`, `down` of all or of one, health check, removed, changed and added daemons | read-change-write with no lock between activities; stops that fail or are not obeyed; Docker that does not answer; zombies; kills | every process is recorded, every entry is real |
| Command and daemon life cycle, `internal/daemonclient`, `tryDaemon`, `runDaemon` | socket file, daemons, connections | start, dial, send, answer, shut down | daemons race to start, die while they answer | a request runs by exactly one route, commands end |
| Bakefile watcher and hot reload, `internal/baked/watch.go`, `hotreload.go`, `load.go` | watch, timer, three notions of the configuration | event, debounce, load, diff, apply | callbacks in goroutines of their own; the load rewrites the watched file | configuration, shims and daemons agree; edits take effect |
| Container executor, `internal/runner/container` | registry of networks, containers | `Run`, `StartDaemonContainer`, `StopContainer`, `EnsureNetwork` | each call to Docker may fail, or be done and look failed | no container left behind, own networks usable, honest exit code |
| `bake --watch`, `internal/watch`, `runWatch` | times seen, timer | `Poll`, first run, later runs | timers that fired cannot be stopped; runs overlap the polling | a change noticed is a change run |

How they interact. `cmd/bake` asks a daemon first (`tryDaemon`: socket file, then a
line of JSON each way) and otherwise runs the target itself. The daemon puts the
request into `queue.json`, takes `runMu`, runs it with the configuration that was
stored when the request came, and answers. Both ways end in `runner.Run`, which orders the
graph, takes slots, pools and mutexes, looks into the cache and calls a shell or
Docker. `up` and `down` share `state.json` with the health checker and the hot
reload. Every load of the Bakefile, by a command or by the daemon, formats and fixes
it first, in place. Shared files (`queue.json`, `state.json`, manifests, the Bakefile, the
socket) are the only coordination between processes, and none is locked.

## Modules

Every module names in its head comment the files it models; `PROJECT.json` maps each
definition to its lines. A step of a model is what one goroutine does between two
points where another actor can see or change something: a lock taken, a file
truncated, a file written, a message sent, a call to Docker. Variables carry the
names of the code where there is one (`runMu`, `nextID`, `firstErr`, `netIDs`,
`debounceTimer`, `oldCfg`); variables whose comment says *history* are not in the
code and only record what happened for a property.

| module | models | state and actions |
|---|---|---|
| `DagExec` | what `runner.Run` promises, without scheduling | a target is waiting, running, ok or failed; `Start`, `Finish`, `Abandon`, and the three verdicts |
| `Bakefile` | the grammar, `Compile`, `Validate`, the formatter and the fixing rules of the linter, as operators | a text is a sequence of items, each with its words and the items inside; how many words the grammar lets an item take decides what `Parse` makes of its neighbours |
| `Loading` | `loadConfig`, `baked.Load`, `LoadWithImports` | the Bakefile is read, renamed over, truncated and written in separate steps by several loaders and a user; the import recursion is a stack of frames |
| `Dag` | `TopoOrder`, `LevelOrder` | the recursion as a stack, one dependency looked at per step |
| `LoadedGraph` | loading composed with the search: `runner.Run` orders what was loaded | the configuration's graph, or one from another caller, is handed to `Dag` |
| `ParallelRun` | `Run` with `MaxParallel > 1`, `runTargetWithCache` as far as locks and errors go | a program counter per goroutine; channels and mutexes as sets of holders; implements `DagExec` |
| `Options` | `ParseArgs`, templates, `Merge`, the commands of `runTargetSteps` and of `runDryRun`, as operators | a word of a command is text or a template; a word of the command line is a flag, a value or `--` |
| `SequentialRun` | `Run` with `MaxParallel <= 1` | position and stage, the options of the target and those made for its dependencies, a log of what ran with which commands and environment |
| `Invocation` | `RunMain`, `runTarget`, `runDefault`, `RunTarget`, `RunSuite` | the way taken, the runs still to make, what a dry run printed, the exit code; implements `DagExec` with one slot |
| `EventStream` | `emitEvent`, `lockedWriter`, step output | the stream as a sequence of bodies, newlines and text |
| `BuildCache` | guard to save of one target with inputs and outputs | content hashes are contents; an output is the source it was made from; a signature that need not tell steps apart |
| `BakedQueue` | `queue.go`, `handleConn`, `replayQueue` | memory, file, the three steps of a flush, crash and restart |
| `DaemonState` | `AddDaemon`, `RemoveDaemon` and those who call them | `state.json` as a function, read-change-write in three steps; processes and containers alive, told to stop, exited or gone, with the calls that may fail; per activity its configuration with what is left of the workflow, the entries it loaded and the work it has left; `baked` killed and started again |
| `BakedClient` | `EnsureStarted`, `SendRequest`, `tryDaemon`, `runDaemon` | the socket file, phases of daemons, commands and handlers |
| `HotReload` | watcher, `baked.Load`, `DaemonDiff`, `ApplyDaemonDiff` | several callbacks at once, each with its own parsed file and list of work |
| `Containers` | `executor.go`, `registry.go` | per actor the call it is at; Docker's containers and networks |
| `InputWatch` | `runWatch`, `Poll` | modification times, the timers armed so far, runs under way |

`DagExec` is the abstract specification: both modes of the runner are shown to
implement it, by the refinement mappings `Abstract` in `ParallelRun` (a target *runs*
from the moment it holds slot, pool and mutex until its outcome is known) and in
`Invocation` (the first run of a target that needs all the others, by whichever way
it was started). The MC modules only give constants their values. Operators marked
as mutants are plausible mistakes in the code, kept next to the definition they
would replace: each property is known to fail when its mutant takes the place of the
definition.

What is abstracted everywhere: names, contents, commands and images are model values;
output of steps matters only in `EventStream`; time is the order of events, so a
timeout or a debounce may end at any moment after it began.

## Runs and bounds

| run | instance | distinct states | shows |
|---|---|---|---|
| `parallel_run` | 5 targets on 3 levels, 2 slots, one pool, one mutex shared across levels, guards, caching, cancellation | 3,484 | ordering, limits, clean and honest return, termination, refinement of `DagExec` |
| `load` | every clause and top-level entry alone and next to every other one, with and without formatter and linter; every import graph of 3 files with 2 imports in the first, 9 sets of contents; 2 loaders and a user with 2 saves; every acyclic graph of 4 targets in every order of its lists, every graph of 3 with lists up to 2, cycles, repeats and unknown names included | 174,174 | loading keeps the meaning of the Bakefile, merges imports by the reference definition, ends; what was loaded can be ordered; search and levels are right |
| `invocation` | a diamond of 4 targets, 4 configurations with presets, slots, arguments, guards, images, suites and profiles; 650 command lines: every spelling of 36 meanings, and every mix of flags with every kind of name | 71,638 | what runs and what is previewed is what was meant; honest exit codes; refinement of `DagExec` |
| `event_stream` | 2 emitters, 2 events each | 1,851 | objects whole, all delivered, once and in order |
| `queue` | 3 requests, one of them a control request, 2 crashes, writes refused or torn | 27,231 | durability, exclusion, replay, liveness |
| `cache` | 2 contents, 3 versions of the steps of which two have one signature, 2 outputs, 2 builders, two sources per behaviour | 2,106,296 | manifests vouch, skips are fresh as far as the signature tells |
| `state` | 2 daemons, workflows that name both or one of them twice, a process on the host and a container; up, down of all or of one, a reload that removes, changes and adds, and the checker in one `baked`, which is killed or has a write refused once; processes may exit, stops fail, Docker not answer | 1,117,301 | real entries, complete `down`, no orphan |
| `client` | 2 commands, 3 daemons, 1 kill, 1 stop | 138,471 | one route, no silent loss, commands end |
| `reload` | 2 valid contents and a broken one, 2 daemons, 2 callbacks, 2 edits, 1 forced reload | 224,726 | agreement between reloads, no double start, edits take effect |
| `containers` | 2 targets with networks in common, 1 daemon, 2 networks | 14,482 | clean-up, networks, honest results, termination |
| `watch` | 2 inputs, 3 edits | 12,478 | changes are not lost |
| `dry_run` | the instance of `invocation` | violated | `--dry-run` runs the target, in the daemon or as the default |

Why the bounds are enough. The formatter and the linter look at one target, one
clause and its neighbour at a time, so pairs of clauses in either order meet every
case; imports go wrong through a cycle, a diamond, a name declared twice or a file
that does not parse, and three files have them all. An option can come from the
command line, a preset, the target, a profile, a dotenv file or the process; each of
them sets the same variable somewhere in `invocation`, and each way of spelling an
argument is tried with one and with two keys. The races in this program are between two holders, two
writers or two callbacks, so two actors of each kind and a third where one has to
wait meet all of them; the graph of `parallel_run` has a level with more targets than
slots, a pair for every lock and a lock shared across levels. Two crashes give a
crash during the recovery from a crash. The bounds `MaxCrashes`, `MaxKills`,
`MaxStops`, `MaxEdits`, `MaxForces`, `MaxEvents` are guards of the actions they bound
(crashing, killing, stopping, editing, forcing, emitting) and of no action of the
program. `MaxFaults` of `state` bounds kills and refused writes together. `Pids` are used
once each, so the two of them bound the starts in `state`: two daemons, or one that is
started twice, in either order on the host and in a container. `CONSTRAINT FewAtOnce` of
`state` lets no hot reload run after a kill or a refused write, nor beside both the
checker and a request; the theorems have none of these bounds. `CONSTRAINT TwoSources` of `cache` keeps each
behaviour to two of the six sources, with other contents or other steps, which is what
it takes to leave one and come back. Symmetry is used in `cache`, which checks no liveness. The theorems
below lift the safety properties from these bounds.

`CHECK_DEADLOCK FALSE` is set where the system stops: a run returns, commands end, a
user may do nothing more.

What the less obvious properties except, and why:

- `AsWritten` speaks of sturdy texts (`Sturdy`): those without a clause that, once
  moved, takes in the words behind it or loses its own; and excepts a save that a
  loader overwrote, a read while the file was truncated, a write that failed.
- `RunsAsPlanned` excepts, on the way to the daemon, command lines with more than a
  name and targets with arguments; a dry run, where a preset has steps, the target
  several slots, or dependencies would show the target's arguments. Dependencies
  run as they are written, without arguments: that is the reference, and
  `TemplatesFilled` says what follows from it.
- `ExitHonest` is about the code that `RunMain` returns. It lets the default target
  end with 2 whatever happened, the daemon with 1 for a name it does not know, and
  counts a target without steps as done in process.
- `Durable` excepts a torn or refused write of `queue.json`. The file is rewritten in
  place, and the errors of `Enqueue` and `Dequeue` are dropped.
- `SkipIsFresh` speaks of users who do not go back to an earlier source or touch files
  during a build, and of builds that left no half-made output. A manifest names the
  outputs and not their contents, so nothing more can be true of it. And it speaks of
  what the key tells: the outputs were made from the present inputs by steps with the
  present signature, which leaves out runner, directory, image and arguments passed
  through (`internal/runner/runner.go:405`). `SkipIsExact`, which asks for the present
  steps, fails.
- `NoOrphan` says which processes may run, unasked to stop, without an entry. Those of a
  daemon that was started again while it was recorded, by a second `up`, by a workflow
  that names it twice (`internal/baked/run.go:89`, accepted by
  `internal/config/validate.go:180`), or by a reload that brings back what an `up` with a
  replaced configuration started. And containers that Docker did not answer for when the
  checker inspected them (`health.go:99`) or when their start looked failed
  (`internal/runner/container/executor.go:179`). The variable `excused` collects these. A
  process that was told to stop, and a container that Docker was asked in vain to
  remove, is `told` and not counted either: its entry goes whatever came of it
  (`run.go:147`, `hotreload.go:102`). Nothing is said once somebody changes the file, or is
  about to, beside another, a write of it is refused or `baked` is killed.
- `DownStops` promises no more than that each recorded process was told to stop or does
  not run: SIGTERM is sent and not waited for (`internal/lifecycle/down_unix.go:18`), and
  the error of `ContainerRemove` is dropped. That what goes on running stays recorded is
  `StopsAreSeen`, which fails.
- `Settled` and `OneProcess` except reloads that overlap, `EditsTakeEffect` edits that
  the watch does not report: those after the first replacement of the file, and those of
  an editor that moves the old file aside, which comes as a `fsnotify.Rename` and is
  ignored (`internal/baked/watch.go:59`).
- `CleanedUp` excepts a container whose ID Docker never told and one it refused to
  remove; `OwnNetworks` a network whose creation looked like a failure; `HonestResult`
  a step whose stream ended before its process did.
- `ChangesAreRun` begins with the first tick of the poll.

Each exception is an actual weakness of the code; the unrestricted property stands
beside it in the module and fails, see
[below](#where-the-code-differs-from-its-documents).

## Fairness

Weak fairness only, and only for steps the program or the system beneath it takes on
its own: a goroutine that can go on goes on (Go's scheduler; its mutexes and channels
do not starve a waiter), timers and tickers fire, steps and Docker calls come to an
end, a daemon that died is started again (`Restart=on-failure`, `docs/install-daemon.md:56`,
or the next command). Nothing obliges a user to edit, a process to
exit, a command to be cancelled or a daemon to crash. In `InputWatch` and `HotReload`
the fairness is on the whole loop or callback, so that a particular outcome (an error,
a start that fails) is never forced. In `LoadedGraph` the fairness of a loader is
spelled out (`LoadGoesOn`: it ends, or its position or its frames change again and
again), which says the same as weak fairness of its steps and spares TLC evaluating
`ENABLED` of a step that parses.

## Proofs

All theorems are proved by TLAPS from the named assumptions on constants, which TLC
evaluates in the runs. They hold for any number of targets, requests, crashes,
commands, daemons and so on.

| module | theorems about | inductive invariant | why it is needed |
|---|---|---|---|
| `RunnerProofs` | of `ParallelRun`: `TypeOK`, `DepsSettled`, `Exclusion`, `CleanReturn`, `HonestVerdict`, `FirstErrorKept`, `ParallelBound`, `LimitsKept`, `ImplementsDagExec` | `Control` | relates each goroutine's position to what it holds, to its result, to the level it belongs to and to the level the main goroutine waits for; `DepsSettled` follows from the frontier between levels, not from any single guard |
| | | `SlotBound` | the number of holders of the semaphore, by cardinality |
| `BakedQueueProofs` | `TypeOK`, `OwnEntry`, `OneRunAtATime` | `QueueInv` | what each phase of the daemon rules out, who holds the locks, unique ids below `nextID` |
| | `Durable` | `DiskInv` | how the file follows the memory through the three steps of a flush, and which requests are in neither |
| | `AnsweredNotReplayed` | `AnswerInv` | an entry's request has not reached its answer, and has one entry only |
| | `AtMostOncePerLife` | `LifeInv` | a request has one entry, and one that waits, in a handler or for the replay, has not run in this life |
| `RunnerProofs` | of `BuildCache`: `ManifestVouches` | `CacheInv` | a builder past its steps has completed its key |
| | `SkipIsFresh` | `FreshInv` | while all were careful, outputs were made from a source with the key that vouches for them; nothing is assumed of the signature |
| | of `EventStream`: `BodiesWhole` | `StreamInv` | with a locked writer nobody is inside a body that another one began |
| `BakedClientProofs` | `OneRoute`, `DoneMeansRun` | `ClientInv` | what a command's position says about its handler and about the queue files |
| `DaemonStateProofs` | `EntriesAreReal` | `StateInv` | every copy of the file that somebody holds, in memory or on the way to disk, is real |
| | `DownStops` | `DutyInv`, `DownInv` | each kind of activity has its own kinds of work; a process that `down` has seen and that runs untold is in its work, and one that was told to stop or has stopped is never untold again (`NoRevival`) |
| | `NoOrphan` | `OrphanInv` | unless everything is excused, one activity at a time writes, and what it loaded is what is there; what it has still to stop, start, remove or add fits what is recorded, so that no write covers the entry of a process that runs and is not excused |
| `HotReloadProofs` | `Settled`, `OneProcess` | `ReloadInv` | while one callback is under way, each daemon runs as the old configuration wants it, is stopped in between, or runs as the new one does, depending on the work left |
| `ContainersProofs` | `CleanedUp`, `OwnNetworks`, `HonestResult` | `ContainerInv` | position and knowledge of the container's ID; networks joined so far; steps counted; registry and Docker agree |
| `CommandProofs` | of `InputWatch`: `NoticedIsRun` | `WatchInv` | no time lies after the clock, nothing is seen before the first tick |
| | of `Invocation`: `ExitHonest` | `ExitInv` | nothing has failed before the command is over |
| | | `PlanInv` | the calls still to make serve the entries that are left; what is logged or printed is as long as the orders of the entries dealt with and the position in the present one |
| | of `Invocation`: `ImplementsDagExec` | `CommandInv` | in a run of `Root` the targets before the present position have succeeded, those behind it have not begun; nothing runs outside a call |
| | of `Invocation`: `RunsAsPlanned` | `MeantInv`, with `PlanInv` and the calls' | the options of every run still to call, and of the one under way, say what was meant by its entry; what is logged is the plan so far, and no plan is left behind a failure; what is printed is the plan so far |
| `LoadedGraphProofs` | `OrderIsClosure` | `SearchInv` | the stack is a path from the root; what is visited is on the stack or in the order; a finished target's dependencies are visited, an unfinished one's up to the index it looks at |
| | `Layered` | `LayerInv` | the order has dependencies first at every step, since a dependency still on the stack would close a circle; every number given is one more than the largest below it |
| | `Served`: what `SequentialRun`, `Invocation` and `ParallelRun` assume of order and levels | the same | a search that is over gives both modes of the runner what they rest on |
| | `DepsResolve` | `LoadInv`, `GraphInv` | frames hold configurations of the right shape, every call but the innermost waits for an import, and a configuration that is returned names only what it has |
| | `LoadIsReference` | `CallsInv`, `LoadsInv` | the calls of `loadWithImports` are a path of distinct files from the Bakefile, so never more than there are files; each holds what its file and the imports dealt with so far flatten to; an import that has returned is neither on a circle nor invalid |
| | `AsWritten` | `WrittenInv` | a loader about to write has read the last save, or something faithful to it, or will be seen to overwrite it |

Each follows the same argument: `Init` implies the invariant, every action preserves
it (one proof step per action), it implies the property. `Refinement` proves that the
initial states and every step of the parallel run map to those of `DagExec` or to a
stutter, given `Control` and `SlotBound`; the only step that maps to a start is taking
the mutex, the last of the three locks.

`CommandImplements` does the same for `Invocation`: the first run of `Root` maps to a
run of `DagExec` with one slot, its archived outcome stays, and every other run, by
whichever way it was called, maps to a stutter.

Five of the assumptions are about data. `TextsAssumption` says that a set of texts is
closed under formatting and fixing and compiles to configurations of the types Go
gives them; `RewritingAssumption` that one rewriting of a sturdy text keeps its meaning
and is stable. `AsWritten` is proved from it: whatever the formatter does to one text,
no order of loads, saves and failures does more harm than its exceptions say. Both are
evaluated by TLC on the texts of `load`, that is every clause next to every other one.
`LoadingAssumption` says, among others, that there are finitely many files: without that
a chain of imports need not end.
`RootAssumption` says that `Root` needs every target, so that its order has them all;
`ConfigAssumption` that suites name targets that exist, which `Validate` has checked
(`internal/config/validate.go:129`), that the default is one, that no preset or profile
has the empty name, and that arguments, slots and steps are lists of what the fields of
`config.Target` hold. `SpellingAssumption` says that `ParseArgs` finds in the words of
each command line considered what was meant by them, as far as the target it names can
tell: the values of its arguments, of the templates it has, and the words for each step.
`RunsAsPlanned` is proved from it: the way from the parsed words to the commands and
the environment of every step, by target, preset, suite, dependency, daemon or dry run,
is proved; that the words themselves are told apart by position as documented is a
fold over them, which TLC evaluates for every target, configuration and command line
of `invocation`.

The provers have no induction over data, and need little of it here: a search that looks
at one dependency per step is an induction over steps. What is left (a least or a greatest
element of a set of numbers, a first target of that name, and that the recursive functions
behind sums, `FlattenSeq` and the flattening of imports exist and have the values they
should) comes from the well-foundedness of the natural numbers, as a least counterexample, in the lemmas
`LeastOf` and `GreatestOf`.

Only model-checked: everything under fairness (`Termination`, `EventuallyRun`,
`EventuallyAnswered`, `CommandsEnd`, `EditsTakeEffect`, `Returns`, `ChangesAreRun`,
`AllDelivered`, `LoadsEnd`), which the installed provers do not reach. Every safety
property of a run that is expected to pass is a theorem, from the assumptions above; what
they leave to TLC is the reading of one command line (`SpellingAssumption`) and the
formatting of one text (`RewritingAssumption`), both of them folds over data.

## Where the code differs from its documents

`dry_run` is a run of its own. The other disagreements are properties defined in
the modules and checked by no run: to see one fail, take the configuration named
here, replace its properties by the one named (an invariant or a temporal property
as it is defined), and run TLC.

| configuration, property | code | document or comment |
|---|---|---|
| `MCClientPanic`, `NeverPanics` | `SendRequest` returns `nil, nil` at an end of file and `tryDaemon` uses the answer, `cmd/bake/main.go:391` | "Fall back to in-process", `cmd/bake/main.go:224` |
| `MCDryRun`, `DryRunRunsNothing` | the daemon is asked, with the name alone, before `--dry-run` is looked at, `cmd/bake/main.go:219`; `runDefault` never hears of it | "Print commands and dependency order; do not run", `docs/cli-reference.md:16` |
| `MCInvocation`, `StatusDocumented` | `main` exits with the code only if there is a Go error, so after a failure in the daemon, or findings of `bake lint`, with 0, `cmd/bake/main.go:83` | "1: target or step failed", `docs/cli-reference.md:93` |
| `MCInvocation`, `OptionsReach` | the daemon gets no preset, argument, `--set`, `--profile`, `--max-parallel` or `--json`, `cmd/bake/main.go:387` | `docs/cli-reference.md:5` and the flags below it |
| `MCInvocation`, `TemplatesFilled` | a dependency, and any target in the daemon, runs with `{{.x}}` as it stands, the default of the argument unused, `internal/runner/runner.go:139` | `docs/bakefile-reference.md:98` |
| `MCInvocation`, `DockerSuffices` | `depOpts` leaves out the registry, so a dependency with an image fails, `runner.go:139` | `docs/bakefile-reference.md:175` |
| `MCInvocation`, `SuccessMeansRun` | a target with dependencies and no steps returns at once, `cmd/bake/main.go:828` | `docs/cli-reference.md:55` |
| `MCLoad`, `DepsFirst` | a cycle is cut silently, `internal/runner/dag.go:15` | dependencies come first, comment at `dag.go:9`; "cycle detection", `docs/future.md:24` |
| `MCLoad`, `FormattedParses` | the formatter moves clauses that end nowhere (tags, args, a bare `cmd` step, `dotenv`) in front of others and writes values without their quotes, `internal/dsl/format.go:178` | "Format again should be idempotent", `internal/dsl/format_test.go:43` |
| `MCLoad`, `SavesSurvive` | what an editor saved between the read and the rename or write of a load is gone, `internal/baked/load.go:31` | none |
| `MCLoad`, `LoadsHarmless` | two loads at once with something to fix: one reads the file the other has truncated, and leaves it empty, `cmd/bake/main.go:466` | "does not fail the load", comment at `cmd/bake/main.go:412` |
| `MCEventStream`, `LinePerEvent` | object and newline are two writes, `runner.go:63` | one object per line, comment at `runner.go:24` |
| `MCEventStream`, `EventsOnly` | the output of a dependency's steps goes to standard output too, `runner.go:173` | `docs/cli-reference.md:25` |
| `MCQueue`, `SurvivesCrashes` | `queue.json` is truncated, then written, `internal/baked/queue.go:98` | "persisted to disk so it survives restarts", comment at `queue.go:14` |
| `MCQueue`, `Fifo` | waiters take `runMu` in any order, `cmd/baked/main.go:339` | "persistent FIFO queue", comment at `queue.go:22` |
| `MCCache`, `SkipIsLastRun` | any earlier manifest is enough, `runner.go:335` | "as the last run", `docs/bakefile-reference.md:62` |
| `MCCacheBlind`, `SkipIsExact` | the signature leaves out runner, directory, image and pass-through arguments, `runner.go:405` | comment at `runner.go:367` |
| `MCStateOrphan`, `AllRecorded` | a command with `--no-daemon` beside a daemon: read-change-write without a lock, `internal/lifecycle/state.go:70` | "starts it in the background and records its PID", `docs/bakefile-reference.md:206` |
| `MCStateTwice`, `AllRecorded` | `up` twice starts the daemons twice, `internal/baked/run.go:101` | `docs/bakefile-reference.md:206` |
| `MCStateRepeat`, `AllRecorded` | a workflow that names a daemon twice starts it twice, `run.go:89`; `Validate` accepts it | `docs/bakefile-reference.md:206` |
| `MCStateStop`, `StopsAreSeen` | the entry goes whether the stop succeeded or not and before the process has ended, `run.go:147` | "the caller should call RemoveDaemon after a successful stop", comment at `internal/lifecycle/down_unix.go:12` |
| `MCState`, `HealthRemovesDead` | an error or a timeout of `docker inspect` counts as death, `internal/baked/health.go:99` | "removes dead ones", comment at `health.go:62` |
| `MCState`, `AllRecorded` | a container whose start looked failed may run and be in no file, `internal/runner/container/executor.go:179` | `docs/bakefile-reference.md:206` |
| `MCState`, `StateReadable` | `state.json` is truncated, then written: after a kill or a refused write in between every `Load` fails and `down` stops nothing, `internal/lifecycle/state.go:60` | "stops all daemons in state", `docs/bakefile-reference.md:206` |
| `MCState`, `UpIsCurrent` | a request takes the configuration, then waits for `runMu`, `cmd/baked/main.go:326` | "always returns the latest config", comment at `cmd/baked/main.go:229` |
| `MCStateHealth`, `HealthRemovesDead` | the checker removes by name what another has just added, `internal/baked/health.go:68` | comment at `health.go:62` |
| `MCStateZombie`, `DeadRemoved` | signal 0 succeeds on a zombie and nobody waits for the process, `health.go:90` | `docs/install-daemon.md:118` |
| `MCClient`, `OneDaemon` | the second daemon removes the socket of the first, `cmd/baked/main.go:110` | "one daemon per workspace", `docs/cli-reference.md:74` |
| `MCClient`, `RunsOnce` | the second daemon replays what the first still runs, `cmd/baked/main.go:143` | `docs/install-daemon.md:114` |
| `MCClient`, `AutoStarts` | a stale socket file passes for a daemon, `internal/daemonclient/client.go:38` | `docs/cli-reference.md:70` |
| `MCReload`, `WatchLasts` | after one replacement of the file its watch is gone, `internal/baked/load.go:56`, and a file that is moved aside is not reported, `internal/baked/watch.go:59` | `docs/cli-reference.md:70` |
| `MCReload`, `AlwaysSettled` | two callbacks may overlap, `internal/baked/watch.go:76` | none |
| `MCReload`, `EditsAreKept` | formatting writes back what it read, `load.go:31` | none |
| `MCContainers`, `ExistingIsFine` | an existing network is an error, `internal/runner/container/registry.go:59` | comment at `registry.go:52`, `docs/bakefile-reference.md:177` |
| `MCContainers`, `OkMeansExited` | `inspect.Running` is ignored, `executor.go:347` | none |
| `MCWatch`, `EditsAreRun` | a change during the first run is taken for the start, `internal/watch/watch.go:56` | `docs/cli-reference.md:31` |
| `MCWatch`, `WatchGoesOn` | the daemon is asked before `--watch` is looked at, `cmd/bake/main.go:221` | `docs/cli-reference.md:31` |
| `MCWatch`, `OneRunAtATime` | a timer that fired cannot be stopped, and each run has its own mutexes, `watch.go:29` | `docs/bakefile-reference.md:169` |

`MCStateOrphan`, `MCStateTwice`, `MCStateRepeat`, `MCStateStop`, `MCStateHealth`,
`MCStateZombie` and `MCCacheBlind` are configurations of their own, most of them because
they need another instance; they already name the property.

Some more were met while modelling and are not properties: `runDefault`'s errors all
end with 2 (`cmd/bake/main.go:212`, `docs/cli-reference.md:93`); a profile's dotenv
files are never read (`runner.go:101` takes those of the file) and its environment does
not reach dependencies; a dry run shows the target's own steps where a preset replaces
them; the documented example of arguments (`docs/bakefile-reference.md:98`) does not
parse; `bake format`, `fmt` and `lint` hide targets of these names; an import reached
twice is refused as a duplicate, and an import's dependencies have to be in its own
imports (`internal/dsl/parser.go:452`); sorting targets changes which one is the default
(`docs/cli-reference.md:54`); the finding of `brackets_only` on a bare step is fixable
and never fixed, so that every load writes the file (`docs/lint.md:11`).

## What is not modelled

- Characters, comments and layout of Bakefiles; the text of dotenv files; templates in
  environments and inputs; the findings of the linter that are only reported, and the
  configuration of its rules.
- The flags that only report (`--list`, `--explain`, `--graph`, `--choose`, ...), and
  the combination of a command line with `--max-parallel`, whose scheduling is
  `ParallelRun`.
- Shims, `--why`, listing, installation and service files: written once, no state of
  their own. When shims are written is in `HotReload`.
- The TCP listener and further workspaces of `baked`; scheduled workflows that only
  call what is modelled; imports as watched files.
- An error of `Accept`: `acceptLoop` returns and the daemon goes on with its listener
  open (`cmd/baked/main.go:249`), so that commands connect and get no answer.
  `CommandsEnd` is about daemons whose `Accept` does not fail.
- A process id that the system gives out again: `Pids` are used once each.
- What a kill of the whole command leaves in Docker: there is no code that runs then.
- Images and volumes in `Containers`, beyond calls that may fail.

`PROJECT.json` gives the status of every component, and `hazards` the line of every
place that is hard to test together with the properties that watch it.

## Plan

Done, in this order: runner (`DagExec`, `ParallelRun`, `Dag`, `SequentialRun`,
`EventStream`), cache, queue, daemon state, client, hot reload, containers, watch, and
proofs about eight of them, each with an inductive invariant.

In a second step: `Bakefile`, `Loading`, `LoadedGraph` (with `Dag` as its search),
`Options`, `Invocation`.

Then the rest of `DaemonState` (down of one name, configurations, edits by a hot reload,
`baked` killed, later containers, stops and writes that fail, workflows in their order)
with the proofs of `DownStops`, `NoOrphan` and, in the queue,
`AtMostOncePerLife`.

Then the proofs of the graph search, of loading (what is written and what imports
flatten to), of the event stream, of exit codes, of the refinement of `DagExec` by
`Invocation`, and of `RunsAsPlanned`, from the words as parsed to what runs. Proof modules are shared by components, since
many lemmas about one are of use for the next: `RunnerProofs` for what runs inside
`runner.Run`, `CommandProofs` for what runs in the command's process.

Next, extending the model: composition of `BakedClient` with `BakedQueue` (one queue
file under two daemons, with torn writes); options in the parallel mode. Next,
proving: that `ParseArgs` keeps what was meant, one word at a time, which needs the fold
rewritten as a search with a state, as `Dag` is.
