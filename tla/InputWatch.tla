----------------------------- MODULE InputWatch -----------------------------
(***************************************************************************)
(* bake --watch: runWatch (cmd/bake/main.go) and Poll                      *)
(* (internal/watch/watch.go).  The main goroutine runs the target once,    *)
(* then compares modification times at each tick; a change arms a timer,   *)
(* which runs the target again in a goroutine of its own.  Nothing keeps   *)
(* such a run from overlapping the next one.  The n-th edit of the user    *)
(* gives the file the time n.                                              *)
(***************************************************************************)
EXTENDS Naturals, FiniteSets

CONSTANTS Paths,      \* inputs there are when runWatch resolves the globs
          MaxEdits,   \* bound on the user's edits, hence on timers
          None

ASSUME WatchAssumption == MaxEdits \in Nat /\ None \notin Nat

Timers == 1..MaxEdits

VARIABLES clock,           \* number of edits so far
          mtime,           \* mtime[p]: modification time of p, None if there is no p
          phase,           \* of the process: "route", "first", "poll" or "exited"
          seen,            \* the map mtimes of Poll
          timer,           \* timer[n]: "unused", "pending", "running", "returned", "over"
          debounceTimer,   \* the timer the variable holds
          started,         \* history: clock when the last run started
          first,           \* history: the first modification time seen of p
          failed           \* history: a run failed

files == <<clock, mtime>>
watch == <<files, phase, seen, timer, debounceTimer, started, first, failed>>

InitWatch == /\ clock = 0 /\ mtime = [p \in Paths |-> 0]
             /\ phase = "route"
             /\ seen = [p \in Paths |-> None] /\ first = [p \in Paths |-> None]
             /\ timer = [n \in Timers |-> "unused"] /\ debounceTimer = None
             /\ started = 0 /\ failed = FALSE

----------------------------------------------------------------------------
(* The user.                                                               *)

\* A write, a file renamed over p, or p created again.
Edit(p) == /\ clock < MaxEdits /\ clock' = clock + 1
           /\ mtime' = [mtime EXCEPT ![p] = clock']
           /\ UNCHANGED <<phase, seen, timer, debounceTimer, started, first, failed>>

Unlink(p) == /\ mtime[p] # None
             /\ mtime' = [mtime EXCEPT ![p] = None]
             /\ UNCHANGED <<clock, phase, seen, timer, debounceTimer, started, first, failed>>

----------------------------------------------------------------------------
(* runWatch.                                                               *)

\* RunMain asks the daemon before it looks at --watch; the daemon runs the target
\* once and the command ends.
DaemonRuns == /\ phase = "route" /\ phase' = "exited"
              /\ started' = clock
              /\ UNCHANGED <<files, seen, timer, debounceTimer, first, failed>>

\* No daemon, or --no-daemon.
FirstRun == /\ phase = "route" /\ phase' = "first"
            /\ started' = clock
            /\ UNCHANGED <<files, seen, timer, debounceTimer, first, failed>>

FirstRunEnds == /\ phase = "first" /\ phase' = "poll"
                /\ UNCHANGED <<files, seen, timer, debounceTimer, started, first, failed>>

FirstRunFails == /\ phase = "first" /\ phase' = "exited"
                 /\ failed' = TRUE
                 /\ UNCHANGED <<files, seen, timer, debounceTimer, started, first>>

\* What trigger makes of the timers: the one that debounceTimer holds is stopped,
\* which does nothing to one that has fired.
Stopped == [n \in Timers |-> IF n = debounceTimer /\ timer[n] = "pending"
                             THEN "over" ELSE timer[n]]

\* Mutants of Trigger: a timer there is serves the new change too; it is stopped and
\* no other is armed.
TriggerOnce == IF debounceTimer # None THEN UNCHANGED <<timer, debounceTimer>>
               ELSE \E n \in Timers : /\ timer[n] = "unused" /\ debounceTimer' = n
                                      /\ timer' = [timer EXCEPT ![n] = "pending"]
TriggerStops == IF debounceTimer # None THEN timer' = Stopped /\ UNCHANGED debounceTimer
                ELSE \E n \in Timers : /\ timer[n] = "unused" /\ debounceTimer' = n
                                       /\ timer' = [timer EXCEPT ![n] = "pending"]

\* The next unused timer.
Trigger == \E n \in Timers :
    /\ timer[n] = "unused" /\ \A j \in Timers : j < n => timer[j] # "unused"
    /\ timer' = [Stopped EXCEPT ![n] = "pending"]
    /\ debounceTimer' = n

There == {p \in Paths : mtime[p] # None}
Changed == {p \in There : seen[p] \notin {None, mtime[p]}}

\* A tick: a path that is not there is passed over and keeps its entry.
Tick == /\ phase = "poll"
        /\ seen' = [p \in Paths |-> IF p \in There THEN mtime[p] ELSE seen[p]]
        /\ first' = [p \in Paths |-> IF p \in There /\ seen[p] = None
                                     THEN mtime[p] ELSE first[p]]
        /\ IF Changed = {} THEN UNCHANGED <<timer, debounceTimer>> ELSE Trigger
        /\ UNCHANGED <<files, phase, started, failed>>

\* The timer fires: onChange, which runs the target.
Fire(n) == /\ phase = "poll" /\ timer[n] = "pending"
           /\ timer' = [timer EXCEPT ![n] = "running"]
           /\ started' = clock
           /\ UNCHANGED <<files, phase, seen, debounceTimer, first, failed>>

RunEnds(n) == /\ phase = "poll" /\ timer[n] = "running"
              /\ timer' = [timer EXCEPT ![n] = "returned"]
              /\ UNCHANGED <<files, phase, seen, debounceTimer, started, first, failed>>

\* os.Exit(1), whatever else is under way.
RunFails(n) == /\ phase = "poll" /\ timer[n] = "running"
               /\ phase' = "exited" /\ failed' = TRUE
               /\ UNCHANGED <<files, seen, timer, debounceTimer, started, first>>

\* debounceTimer = nil, although it may hold a later timer by now.
Disarm(n) == /\ phase = "poll" /\ timer[n] = "returned"
             /\ timer' = [timer EXCEPT ![n] = "over"]
             /\ debounceTimer' = None
             /\ UNCHANGED <<files, phase, seen, started, first, failed>>

User == \E p \in Paths : Edit(p) \/ Unlink(p)
Main == DaemonRuns \/ FirstRun \/ FirstRunEnds \/ FirstRunFails \/ Tick
Callback(n) == Fire(n) \/ RunEnds(n) \/ RunFails(n) \/ Disarm(n)

NextWatch == User \/ Main \/ \E n \in Timers : Callback(n)

SpecWatch == InitWatch /\ [][NextWatch]_watch

\* The ticker ticks, timers fire, and runs come to an end.
FairWatch == SpecWatch /\ WF_watch(Main) /\ \A n \in Timers : WF_watch(Callback(n))
----------------------------------------------------------------------------
(* Properties.                                                             *)

\* The type invariant.
TypeOK == /\ clock \in 0..MaxEdits
          /\ mtime \in [Paths -> 0..MaxEdits \union {None}]
          /\ phase \in {"route", "first", "poll", "exited"}
          /\ seen \in [Paths -> 0..MaxEdits \union {None}]
          /\ timer \in [Timers -> {"unused", "pending", "running", "returned", "over"}]
          /\ debounceTimer \in Timers \union {None}
          /\ started \in 0..MaxEdits
          /\ first \in [Paths -> 0..MaxEdits \union {None}]
          /\ failed \in BOOLEAN

Pending == {n \in Timers : timer[n] = "pending"}
Running == {n \in Timers : timer[n] = "running"}

\* Whichever timer a change stops and whatever a returning run does to
\* debounceTimer, a change a tick has noticed is not lost: a run started after it, or
\* a timer is armed that will start one.
NoticedIsRun == \A p \in Paths :
    phase = "poll" /\ seen[p] # first[p] => seen[p] <= started \/ Pending # {}

\* A change of a path whose time has been seen before is followed by a run that
\* starts after it, unless the path changes again or the process exits.
ChangesAreRun == \A p \in Paths : \A v \in Timers :
    (phase = "poll" /\ p \in Changed /\ mtime[p] = v)
        ~> (started >= v \/ mtime[p] # v \/ phase = "exited")

\* "Re-run target when inputs change" (docs/cli-reference.md): every change, those
\* made during the first run too, is followed by a run.
EditsAreRun == \A p \in Paths : \A v \in Timers :
    (phase # "exited" /\ mtime[p] = v) ~> (started >= v \/ mtime[p] # v \/ phase = "exited")

\* The same sentence: the command goes on until a run fails.
WatchGoesOn == phase = "exited" => failed

\* "Only one target holding a given mutex name runs at a time"
\* (docs/bakefile-reference.md), and a target runs once at a time: each run makes its
\* own mutexes.
OneRunAtATime == Cardinality(Running) <= 1
=============================================================================
