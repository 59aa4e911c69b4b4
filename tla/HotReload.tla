----------------------------- MODULE HotReload -----------------------------
(***************************************************************************)
(* The Bakefile watcher of the daemon and its hot reload:                  *)
(* internal/baked/watch.go, hotreload.go and load.go, joined by            *)
(* initWorkspace in cmd/baked/main.go.  A file event or a forced reload    *)
(* arms a timer; when it goes off, a callback loads the Bakefile (after    *)
(* formatting it, which replaces the file), rewrites the shims, stops and  *)
(* starts the daemons of "up" that differ, and becomes the configuration   *)
(* requests are run with.  The callback runs in a goroutine of its own,    *)
(* outside w.mu: a second one may start while the first still runs.        *)
(*                                                                         *)
(* The user's editor writes the file in place, replaces it, or moves it    *)
(* aside and makes another.  inotify watches the file itself: a file that  *)
(* is replaced reports its removal, one that is moved a Rename, which Run  *)
(* ignores, and neither is watched any longer.  Formatting does not change what the file     *)
(* says; that the linter may rewrite it too is left out.  How state.json   *)
(* records processes is in DaemonState.                                    *)
(***************************************************************************)
EXTENDS Naturals

CONSTANTS Contents,    \* what the Bakefile may say
          Invalid,     \* contents that do not parse
          Names,       \* names of daemons
          Daemon,      \* Daemon[c][n]: image and steps of n in the target "up" of c
          Reloads,     \* callbacks that may be under way at the same time
          Renames,     \* whether editors may replace the file or move it aside
          MaxEdits, MaxForces,   \* bounds on edits and forced reloads
          None

Valid == Contents \ Invalid
Versions == {Daemon[c][n] : c \in Valid, n \in Names}

ASSUME ConfigAssumption == /\ Invalid \subseteq Contents
                           /\ Daemon \in [Valid -> [Names -> Versions]]
                           /\ None \notin Valid
                           /\ Renames \in BOOLEAN

VARIABLES autoFormat,  \* BAKE_NO_AUTOFORMAT is not set
          serving,     \* initWorkspace has added the watch
          file,        \* what the Bakefile says
          edits, forces,
          edit,        \* history: "early", "noticed" or "late", the last edit
          watching,    \* the watch on the file is in place
          event,       \* an event is in w.watcher.Events
          timer,       \* w.debounce is armed
          pc,          \* pc[r]: where a callback is, "idle" before and after
          new,         \* new[r]: what r parsed, then the configuration it loaded
          todo,        \* todo[r]: <<what, name>> of ApplyDaemonDiff
          oldCfg,      \* oldCfg of initWorkspace, shared by the callbacks
          lastCfg,     \* w.lastCfg, which getCfg returns
          shims,       \* the configuration the shims were written for
          recorded,    \* recorded[n]: the version of n that state.json records
          orphans,     \* history: names with a process that was overwritten
          absent,      \* history: names never brought up, or whose start failed
          overlapped   \* history: two callbacks have been under way at once

user == <<autoFormat, serving, file, edits, forces, edit>>
watcher == <<watching, event, timer>>
callbacks == <<pc, new, todo>>
configs == <<oldCfg, lastCfg, shims>>
daemons == <<recorded, orphans, absent>>
vars == <<user, watcher, callbacks, configs, daemons, overlapped>>

Idle == \A r \in Reloads : pc[r] = "idle"

\* baked.Load has read the file.  bake up was called before, or was not.
Init == /\ autoFormat \in BOOLEAN
        /\ serving = FALSE
        /\ file \in Valid
        /\ edits = 0 /\ forces = 0 /\ edit = "noticed"
        /\ watching = FALSE /\ event = FALSE /\ timer = FALSE
        /\ pc = [r \in Reloads |-> "idle"]
        /\ new = [r \in Reloads |-> file]
        /\ todo = [r \in Reloads |-> {}]
        /\ oldCfg = file /\ lastCfg = file /\ shims = file
        /\ \/ recorded = Daemon[file] /\ absent = {}
           \/ recorded = [n \in Names |-> None] /\ absent = Names
        /\ orphans = {}
        /\ overlapped = FALSE

Goto(r, from, to) == pc[r] = from /\ pc' = [pc EXCEPT ![r] = to]

----------------------------------------------------------------------------
(* The user.                                                               *)

Edit == \E c \in Contents \ {file}, replaced, aside \in {FALSE, Renames} :
    /\ edits < MaxEdits /\ edits' = edits + 1
    /\ file' = c
    /\ edit' = CASE ~serving                       -> "early"
                 [] serving /\ watching /\ ~aside   -> "noticed"
                 [] serving /\ (aside \/ ~watching) -> "late"
    /\ event' = (event \/ (watching /\ ~aside))
    /\ watching' = (watching /\ ~replaced /\ ~aside)
    /\ UNCHANGED <<autoFormat, serving, forces, timer, callbacks, configs, daemons, overlapped>>

\* SIGUSR1, or a reload request.
ForceReload ==
    /\ serving /\ forces < MaxForces /\ forces' = forces + 1
    /\ timer' = TRUE
    /\ edit' = "noticed"
    /\ UNCHANGED <<autoFormat, serving, file, edits, watching, event, callbacks, configs,
                   daemons, overlapped>>

----------------------------------------------------------------------------
(* The watcher.                                                            *)

\* w.Add(watchPaths), w.SetConfig(cfg), go w.Run().
Watch == /\ ~serving /\ serving' = TRUE
         /\ watching' = TRUE
         /\ UNCHANGED <<autoFormat, file, edits, forces, edit, event, timer, callbacks, configs,
                        daemons, overlapped>>

\* Mutant of ReadEvent: events during a reload are taken for its own.
ReadEventBusy == /\ event /\ event' = FALSE
                 /\ timer' = (timer \/ Idle)
                 /\ UNCHANGED <<user, watching, callbacks, configs, daemons, overlapped>>

\* Run takes an event; debouncedReload sets the timer again.
ReadEvent == /\ event /\ event' = FALSE
             /\ timer' = TRUE
             /\ UNCHANGED <<user, watching, callbacks, configs, daemons, overlapped>>

\* The timer goes off and calls onReload.
Fire(r) == /\ timer /\ timer' = FALSE
           /\ Goto(r, "idle", IF autoFormat THEN "parse" ELSE "load")
           /\ overlapped' = (overlapped \/ ~Idle)
           /\ UNCHANGED <<user, watching, event, new, todo, configs, daemons>>

----------------------------------------------------------------------------
(* The callback: baked.Load.                                               *)

\* formatAtPath reads and parses the file.
Parse(r) == /\ Goto(r, "parse", "rename")
            /\ file \in Valid
            /\ new' = [new EXCEPT ![r] = file]
            /\ UNCHANGED <<user, watcher, todo, configs, daemons, overlapped>>

\* os.Rename puts what was parsed in place of whatever the file says now.
Rename(r) == /\ Goto(r, "rename", "load")
             /\ file' = new[r]
             /\ event' = (event \/ watching) /\ watching' = FALSE
             /\ UNCHANGED <<autoFormat, serving, edits, forces, edit, timer, new, todo, configs,
                            daemons, overlapped>>

\* dsl.LoadWithImports.
LoadConfig(r) == /\ Goto(r, "load", "shims")
                 /\ file \in Valid
                 /\ new' = [new EXCEPT ![r] = file]
                 /\ UNCHANGED <<user, watcher, todo, configs, daemons, overlapped>>

\* Either of them fails; so does the callback, and nothing has changed.
Reject(r) == /\ pc[r] \in {"parse", "load"} /\ file \in Invalid
             /\ pc' = [pc EXCEPT ![r] = "idle"]
             /\ UNCHANGED <<user, watcher, new, todo, configs, daemons, overlapped>>

----------------------------------------------------------------------------
(* The callback: shims, diff, daemons.                                     *)

WriteShims(r) == /\ Goto(r, "shims", "diff")
                 /\ shims' = new[r]
                 /\ UNCHANGED <<user, watcher, new, todo, oldCfg, lastCfg, daemons, overlapped>>

\* What is to be done for n when its version goes from v to w; daemonEqual.
Change(v, w) == IF v = w THEN "keep"
                ELSE CASE w = None -> "remove"
                       [] v = None -> "add"
                       [] OTHER -> "restart"

\* Mutant of DaemonDiff: what changed is started as if it were new.
DaemonDiffAdds(c, d) ==
    {<<IF Change(Daemon[c][n], Daemon[d][n]) = "restart" THEN "add"
       ELSE Change(Daemon[c][n], Daemon[d][n]), n>> : n \in Names} \ ({"keep"} \X Names)

DaemonDiff(c, d) ==
    {<<Change(Daemon[c][n], Daemon[d][n]), n>> : n \in Names} \ ({"keep"} \X Names)

Diff(r) == /\ Goto(r, "diff", "apply")
           /\ todo' = [todo EXCEPT ![r] = DaemonDiff(oldCfg, new[r])]
           /\ UNCHANGED <<user, watcher, new, configs, daemons, overlapped>>

\* Removed daemons are dealt with first, then changed ones, then added ones.
Turn(r, what) == \A t \in todo[r] : CASE what = "remove" -> TRUE
                                      [] what = "restart" -> t[1] # "remove"
                                      [] what = "add" -> t[1] \notin {"remove", "restart"}

\* stopAndRemove: what is recorded is stopped, and recorded no longer.  A changed
\* daemon is started next.
StopOne(r) == \E t \in todo[r] :
    /\ pc[r] = "apply" /\ Turn(r, t[1])
    /\ \/ t[1] = "remove" /\ UNCHANGED pc
       \/ t[1] = "restart" /\ Goto(r, "apply", "start")
    /\ recorded' = [recorded EXCEPT ![t[2]] = None]
    /\ todo' = [todo EXCEPT ![r] =
          (@ \ {t}) \union (IF t[1] = "restart" THEN {<<"start", t[2]>>} ELSE {})]
    /\ UNCHANGED <<user, watcher, new, configs, orphans, absent, overlapped>>

\* startAndRecord, for a daemon just stopped or an added one.
Starts(r, t) == /\ t \in todo[r]
                /\ \/ pc[r] = "start" /\ t[1] = "start"
                   \/ pc[r] = "apply" /\ t[1] = "add" /\ Turn(r, "add")
                /\ pc' = [pc EXCEPT ![r] = "apply"]
                /\ todo' = [todo EXCEPT ![r] = @ \ {t}]
                /\ UNCHANGED <<user, watcher, new, configs, overlapped>>

StartOne(r) == \E t \in todo[r] :
    /\ Starts(r, t)
    /\ recorded' = [recorded EXCEPT ![t[2]] = Daemon[new[r]][t[2]]]
    /\ orphans' = orphans \union {n \in {t[2]} : recorded[n] # None}
    /\ absent' = absent \ {t[2]}

\* lifecycle.StartDaemon fails; the callback goes on.
StartFails(r) == \E t \in todo[r] :
    /\ Starts(r, t)
    /\ absent' = absent \union {t[2]}
    /\ UNCHANGED <<recorded, orphans>>

\* Mutant of Adopt: oldCfg stays what it was when the daemon started.
AdoptForgets(r) == /\ todo[r] = {} /\ Goto(r, "apply", "store")
                   /\ UNCHANGED <<user, watcher, new, todo, configs, daemons, overlapped>>

\* oldCfg = newCfg; the callback returns.
Adopt(r) == /\ todo[r] = {} /\ Goto(r, "apply", "store")
            /\ oldCfg' = new[r]
            /\ UNCHANGED <<user, watcher, new, todo, lastCfg, shims, daemons, overlapped>>

\* w.lastCfg = cfg.
Store(r) == /\ Goto(r, "store", "idle")
            /\ lastCfg' = new[r]
            /\ UNCHANGED <<user, watcher, new, todo, oldCfg, shims, daemons, overlapped>>

Callback(r) == \/ Parse(r) \/ Rename(r) \/ LoadConfig(r) \/ Reject(r) \/ WriteShims(r)
               \/ Diff(r) \/ StopOne(r) \/ StartOne(r) \/ StartFails(r)
               \/ Adopt(r) \/ Store(r)

Next == \/ Edit \/ ForceReload \/ Watch \/ ReadEvent
        \/ \E r \in Reloads : Fire(r) \/ Callback(r)

Spec == Init /\ [][Next]_vars

\* The watch loop, the timer and the callbacks go on; the user need do nothing.
FairSpec == /\ Spec
            /\ WF_vars(Watch) /\ WF_vars(ReadEvent)
            /\ WF_vars(\E r \in Reloads : Fire(r))
            /\ \A r \in Reloads : WF_vars(Callback(r))

----------------------------------------------------------------------------
(* Properties.                                                             *)

\* The type invariant.
TypeOK == /\ autoFormat \in BOOLEAN /\ serving \in BOOLEAN
          /\ file \in Contents
          /\ edits \in Nat /\ forces \in Nat /\ edit \in {"early", "noticed", "late"}
          /\ watching \in BOOLEAN /\ event \in BOOLEAN /\ timer \in BOOLEAN
          /\ pc \in [Reloads -> {"idle", "parse", "rename", "load", "shims", "diff",
                                 "apply", "start", "store"}]
          /\ new \in [Reloads -> Valid]
          /\ todo \in [Reloads -> SUBSET ({"remove", "restart", "start", "add"} \X Names)]
          /\ oldCfg \in Valid /\ lastCfg \in Valid /\ shims \in Valid
          /\ recorded \in [Names -> Versions \union {None}]
          /\ orphans \subseteq Names /\ absent \subseteq Names
          /\ overlapped \in BOOLEAN

\* "Removed daemons are stopped and cleaned from state.  Changed daemons are
\* restarted (stop old, start new)" (docs/install-daemon.md): between reloads the
\* next diff starts from the configuration in use, the shims are its shims, and
\* each daemon is recorded in its version, unless it was never up or failed to start.
\* What becomes of the process that was stopped for it is in DaemonState.
Agree == /\ oldCfg = lastCfg /\ shims = lastCfg
         /\ \A n \in Names : recorded[n] = IF n \in absent THEN None ELSE Daemon[lastCfg][n]

Settled == Idle /\ ~overlapped => Agree

\* The same when a reload may take longer than the timer of the next one.
AlwaysSettled == Idle => Agree

\* A reload never starts a daemon over a process that state.json records: bake
\* down would no longer reach that one.
OneProcess == ~overlapped => orphans = {}

\* "The daemon watches the Bakefile (and imports), reloads config on change"
\* (docs/cli-reference.md): what the file says is what requests run with, sooner
\* or later, for the edits the watch can see and after a forced reload.  An edit
\* after the first replacement of the file is not seen, nor is one by an editor that
\* moves the old file aside (fsnotify.Rename, ignored at watch.go:59).
EditsTakeEffect == \A c \in Valid :
    (file = c /\ edit = "noticed") ~> (lastCfg = c \/ file # c \/ overlapped)

\* The same for every edit since the daemon serves.
WatchLasts == \A c \in Valid :
    (file = c /\ edit # "early") ~> (lastCfg = c \/ file # c \/ overlapped)

\* Formatting keeps the user's edits: the file changes only by the user's hand.
EditsAreKept == [][file' # file => edits' = edits + 1]_vars
=============================================================================
