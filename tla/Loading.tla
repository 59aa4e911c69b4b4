------------------------------ MODULE Loading ------------------------------
(***************************************************************************)
(* From the Bakefile on the disk to a configuration: loadConfig            *)
(* (cmd/bake/main.go) and baked.Load (internal/baked/load.go), which do    *)
(* the same.  Every load first rewrites the Bakefile: the formatter reads  *)
(* it and later renames a new file over it, the linter reads it, truncates *)
(* it and writes it.  Then loadWithImports (internal/dsl/parser.go) reads  *)
(* it once more with everything it imports.  Commands and the daemon load  *)
(* the same file without a lock, and the user edits it.                    *)
(***************************************************************************)
EXTENDS Bakefile

CONSTANTS Files,       \* Bakefiles, as import names them
          Main,        \* the one that FindBakefile finds
          Loaders,     \* commands and daemons that load it
          Scenarios,   \* what is given: disk, the texts at first; loaders, those
                       \* who load; options, their possible environments; rules,
                       \* those the linter has enabled; saves[f], the texts the
                       \* user may save to f
          MaxSaves

ASSUME LoadingAssumption == IsFiniteSet(Files) /\ Main \in Files /\ MaxSaves \in Nat

VARIABLES disk,      \* disk[f]: the text of file f
          scenario,  \* what is given; never changes
          opt,       \* opt[l]: whether BAKE_NO_AUTOFORMAT and BAKE_NO_AUTOLINT
                     \* are unset for l
          pc,        \* pc[l]: what l does next
          buf,       \* buf[l]: the formatted text l is about to write
          fd,        \* fd[l]: l's descriptor of the Bakefile, "here", "gone" (the
                     \* file has been renamed over) or "none"
          frames,    \* frames[l]: the calls of loadWithImports, innermost first
          result,    \* result[l]: what l's load returned
          saves,     \* saves of the user
          written,   \* history: the text of Main the user saved last
          stale,     \* history: loaders whose read is older than that
          lost,      \* history: one of them overwrote it
          torn,      \* history: a loader read the Bakefile while it was truncated
          hurt,      \* history: a write failed after the truncation
          moved      \* history: loaders whose files changed while they read them

vars == <<disk, scenario, opt, pc, buf, fd, frames, result, saves,
          written, stale, lost, torn, hurt, moved>>
local == <<frames, result>>
history == <<written, stale, lost, torn, hurt, moved>>
user == <<scenario, opt, saves>>

NoResult == [why |-> "none", cfg |-> Compile(<<>>)]
Loaded(cfg) == [why |-> "ok", cfg |-> cfg]
Error(why) == [why |-> why, cfg |-> Compile(<<>>)]

\* Where a load begins: with the formatter, the linter or the file.
FirstStep(l) == IF opt[l].format THEN "format" ELSE IF opt[l].lint THEN "lint" ELSE "load"
AfterFormat(l) == IF opt[l].lint THEN "lint" ELSE "load"

Init == /\ scenario \in Scenarios
        /\ disk = scenario.disk
        /\ opt \in [scenario.loaders -> scenario.options]
        /\ pc = [l \in Loaders |-> IF l \in scenario.loaders THEN FirstStep(l) ELSE "done"]
        /\ buf = [l \in Loaders |-> <<>>]
        /\ fd = [l \in Loaders |-> "none"]
        /\ frames = [l \in Loaders |-> <<>>]
        /\ result = [l \in Loaders |-> NoResult]
        /\ saves = 0
        /\ written = disk[Main]
        /\ stale = {} /\ lost = FALSE /\ torn = FALSE /\ hurt = FALSE /\ moved = {}

Goto(l, label) == pc' = [pc EXCEPT ![l] = label]
Set(f, l, v) == [f EXCEPT ![l] = v]

Truncated == \E l \in Loaders : fd[l] = "here"
Reading == {l \in Loaders : pc[l] = "load"}

Fail(l, why) == /\ Goto(l, "done")
                /\ result' = Set(result, l, Error(why))

\* l sees the Bakefile as it is: that of the last save, or a truncated one.
Read(l) == /\ torn' = (torn \/ Truncated)
           /\ stale' = stale \ {l}

\* The Bakefile changes under the loads that are reading.
Change(text) == /\ disk' = [disk EXCEPT ![Main] = text]
                /\ moved' = IF text = disk[Main] THEN moved ELSE moved \cup Reading

----------------------------------------------------------------------------
(* Formatting: formatAtPath and runFormatAtPath with write.                *)

ParseForFormat(l) ==
    /\ pc[l] = "format"
    /\ Read(l)
    /\ LET r == Parse(disk[Main])
       IN \/ /\ r.ok
             /\ buf' = Set(buf, l, Format(r.items))
             /\ Goto(l, "rename") /\ UNCHANGED result
          \/ /\ ~r.ok
             /\ Fail(l, "parse") /\ UNCHANGED buf
    /\ UNCHANGED <<disk, fd, frames, user, written, lost, hurt, moved>>

\* os.Rename: a new file, also when nothing changed.  Who has the old one open
\* goes on writing that.
Rename(l) ==
    /\ pc[l] = "rename"
    /\ Change(buf[l])
    /\ fd' = [m \in Loaders |-> IF fd[m] = "here" THEN "gone" ELSE fd[m]]
    /\ lost' = (lost \/ l \in stale)
    /\ Goto(l, AfterFormat(l))
    /\ UNCHANGED <<buf, local, user, written, stale, torn, hurt>>

\* No temporary file, no rename, no permission to open for writing.
WriteRefused(l) ==
    /\ pc[l] \in {"rename", "truncate"}
    /\ Fail(l, "write")
    /\ UNCHANGED <<disk, buf, fd, frames, user, history>>

----------------------------------------------------------------------------
(* Linting: lintAtPath and runLintAtPath with applyFix.                    *)

\* Mutant of ParseForLint: what it has formatted is not read again.
ParseForLintBlind(l) ==
    /\ pc[l] = "lint"
    /\ Read(l)
    /\ LET r == Parse(IF opt[l].format THEN buf[l] ELSE disk[Main])
       IN \/ /\ r.ok /\ Fixable(r.items, scenario.rules)
             /\ buf' = Set(buf, l, Format(ApplyFixes(r.items, scenario.rules)))
             /\ Goto(l, "truncate") /\ UNCHANGED result
          \/ /\ r.ok /\ ~Fixable(r.items, scenario.rules)
             /\ Goto(l, "load") /\ UNCHANGED <<buf, result>>
          \/ /\ ~r.ok
             /\ Fail(l, "parse") /\ UNCHANGED buf
    /\ UNCHANGED <<disk, fd, frames, user, written, lost, hurt, moved>>

ParseForLint(l) ==
    /\ pc[l] = "lint"
    /\ Read(l)
    /\ LET r == Parse(disk[Main])
       IN \/ /\ r.ok /\ Fixable(r.items, scenario.rules)
             /\ buf' = Set(buf, l, Format(ApplyFixes(r.items, scenario.rules)))
             /\ Goto(l, "truncate") /\ UNCHANGED result
          \/ /\ r.ok /\ ~Fixable(r.items, scenario.rules)
             /\ Goto(l, "load") /\ UNCHANGED <<buf, result>>
          \/ /\ ~r.ok
             /\ Fail(l, "parse") /\ UNCHANGED buf
    /\ UNCHANGED <<disk, fd, frames, user, written, lost, hurt, moved>>

\* os.WriteFile opens the file in place and truncates it ...
Truncate(l) ==
    /\ pc[l] = "truncate"
    /\ Change(<<>>)
    /\ fd' = Set(fd, l, "here")
    /\ lost' = (lost \/ l \in stale)
    /\ Goto(l, "write")
    /\ UNCHANGED <<buf, local, user, written, stale, torn, hurt>>

\* ... and writes what it was given, to the file it opened.
Write(l) ==
    /\ pc[l] = "write"
    /\ \/ fd[l] = "here" /\ Change(buf[l])
       \/ fd[l] = "gone" /\ UNCHANGED <<disk, moved>>
    /\ fd' = Set(fd, l, "none")
    /\ Goto(l, "load")
    /\ UNCHANGED <<buf, local, user, written, stale, lost, torn, hurt>>

\* The disk is full, say: the truncated file stays.
WriteFails(l) ==
    /\ pc[l] = "write"
    /\ Fail(l, "write")
    /\ hurt' = (hurt \/ fd[l] = "here")
    /\ fd' = Set(fd, l, "none")
    /\ UNCHANGED <<disk, buf, frames, user, written, stale, lost, torn, moved>>

----------------------------------------------------------------------------
(* Loading: loadWithImports.  A frame is a call that has imports left.     *)

Visiting(l) == {frames[l][k].file : k \in DOMAIN frames[l]}

\* The file the next call is for: the Bakefile, or the next import.
NextFile(l) == IF frames[l] = <<>> THEN Main ELSE Head(Head(frames[l]).todo)

Calling(l) == pc[l] = "load" /\ (frames[l] # <<>> => Head(frames[l]).todo # <<>>)

\* Own content first, then that of the imports in their order.
Merge(cfg, imported) ==
    [cfg EXCEPT !.dotenv = @ \o imported.dotenv, !.profiles = @ \o imported.profiles,
                !.targets = @ \o imported.targets, !.suites = @ \o imported.suites]

\* A call returns cfg to the call above it, or to the loader.
Return(l, cfg, above) ==
    IF above = <<>>
    THEN /\ Goto(l, "done")
         /\ result' = Set(result, l, Loaded(cfg))
         /\ frames' = Set(frames, l, <<>>)
    ELSE /\ frames' = Set(frames, l,
                <<[Head(above) EXCEPT !.cfg = Merge(@, cfg), !.todo = Tail(@)]>> \o Tail(above))
         /\ UNCHANGED <<pc, result>>

\* An error unwinds every call.
Unwind(l, why) == Fail(l, why) /\ frames' = Set(frames, l, <<>>)

ImportCycle(l) ==
    /\ Calling(l) /\ NextFile(l) \in Visiting(l)
    /\ Unwind(l, "cycle")
    /\ UNCHANGED <<disk, buf, fd, user, history>>

\* Mutant of Enter: a file without imports is not validated.
EnterUnchecked(l) ==
    /\ Calling(l) /\ NextFile(l) \notin Visiting(l)
    /\ torn' = (torn \/ (Truncated /\ NextFile(l) = Main))
    /\ LET r   == Parse(disk[NextFile(l)])
           cfg == Compile(r.items)
       IN \/ /\ ~r.ok
             /\ Unwind(l, "parse")
          \/ /\ r.ok /\ cfg.imports # <<>>
             /\ frames' = Set(frames, l, <<[file |-> NextFile(l), cfg |-> cfg,
                                            todo |-> cfg.imports]>> \o frames[l])
             /\ UNCHANGED <<pc, result>>
          \/ /\ r.ok /\ cfg.imports = <<>>
             /\ Return(l, cfg, frames[l])
    /\ UNCHANGED <<disk, buf, fd, user, written, stale, lost, hurt, moved>>

Enter(l) ==
    /\ Calling(l) /\ NextFile(l) \notin Visiting(l)
    /\ torn' = (torn \/ (Truncated /\ NextFile(l) = Main))
    /\ LET r   == Parse(disk[NextFile(l)])
           cfg == Compile(r.items)
       IN \/ /\ ~r.ok
             /\ Unwind(l, "parse")
          \/ /\ r.ok /\ cfg.imports # <<>>
             /\ frames' = Set(frames, l, <<[file |-> NextFile(l), cfg |-> cfg,
                                            todo |-> cfg.imports]>> \o frames[l])
             /\ UNCHANGED <<pc, result>>
          \/ /\ r.ok /\ cfg.imports = <<>> /\ Valid(cfg)
             /\ Return(l, cfg, frames[l])
          \/ /\ r.ok /\ cfg.imports = <<>> /\ ~Valid(cfg)
             /\ Unwind(l, "invalid")
    /\ UNCHANGED <<disk, buf, fd, user, written, stale, lost, hurt, moved>>

\* The last import has returned; the merged content is validated here too.
Leave(l) ==
    /\ pc[l] = "load" /\ frames[l] # <<>> /\ Head(frames[l]).todo = <<>>
    /\ LET cfg == Head(frames[l]).cfg
       IN \/ Valid(cfg) /\ Return(l, [cfg EXCEPT !.imports = <<>>], Tail(frames[l]))
          \/ ~Valid(cfg) /\ Unwind(l, "invalid")
    /\ UNCHANGED <<disk, buf, fd, user, history>>

----------------------------------------------------------------------------
(* The user saves a file; editors replace it.                              *)

Save(f) ==
    /\ saves < MaxSaves
    /\ saves' = saves + 1
    /\ \E text \in scenario.saves[f] :
         /\ text # disk[f]
         /\ disk' = [disk EXCEPT ![f] = text]
         /\ IF f = Main
            THEN /\ written' = text
                 /\ stale' = {l \in Loaders : pc[l] \in {"rename", "truncate"}}
                 /\ fd' = [m \in Loaders |-> IF fd[m] = "here" THEN "gone" ELSE fd[m]]
                 /\ lost' = FALSE /\ hurt' = FALSE
                 /\ torn' = FALSE
            ELSE UNCHANGED <<written, stale, fd, lost, hurt, torn>>
    /\ moved' = moved \cup Reading
    /\ UNCHANGED <<scenario, opt, pc, buf, local>>

----------------------------------------------------------------------------

Load(l) == \/ ParseForFormat(l) \/ Rename(l) \/ WriteRefused(l)
           \/ ParseForLint(l) \/ Truncate(l) \/ Write(l) \/ WriteFails(l)
           \/ ImportCycle(l) \/ Enter(l) \/ Leave(l)

Next == (\E l \in Loaders : Load(l)) \/ (\E f \in Files : Save(f))

Spec == Init /\ [][Next]_vars

----------------------------------------------------------------------------
(* Properties.                                                             *)

\* What the user saved keeps its meaning however often it is rewritten, and once
\* rewritten is not changed again ("format again should be idempotent",
\* internal/dsl/format_test.go); a text that does not parse is left alone.  This
\* holds for sturdy texts, and as long as no loader wrote over a save it had not
\* read, read the file while another had it truncated, or failed to write it.
AsWritten ==
    ~lost /\ ~torn /\ ~hurt /\ ~Truncated =>
        LET w == Parse(written)
            r == Parse(disk[Main])
        IN /\ w.ok /\ Sturdy(w.items) =>
                /\ r.ok
                /\ MeaningOf(disk[Main]) = MeaningOf(written)
                /\ disk[Main] # written => Format(r.items) = disk[Main]
           /\ ~w.ok => disk[Main] = written

\* The same without exception for lost: "bake format ... overwrites the Bakefile
\* in place" is no licence to undo a save.
SavesSurvive == ~torn /\ ~hurt /\ ~Truncated /\ Parse(written).ok /\ Sturdy(Parse(written).items)
                   => Parse(disk[Main]).ok /\ MeaningOf(disk[Main]) = MeaningOf(written)

\* Loads alone, without a save or a failed write, do the file no harm.
LoadsHarmless == saves = 0 /\ ~hurt /\ ~Truncated /\ Sturdy(Parse(written).items)
                   => MeaningOf(disk[Main]) = MeaningOf(written)

\* "Format, format again": what the formatter makes of any text that parses
\* can be read (internal/dsl/format_test.go).
FormattedParses == \A l \in Loaders : pc[l] = "rename" => Parse(buf[l]).ok

\* The import graph, by its definition: what is reached is in every set that holds
\* Main and, with a file, its imports.
Own(d, f) == Compile(Parse(d[f]).items)
Imports(d, f) == IF Parse(d[f]).ok THEN Own(d, f).imports ELSE <<>>

Reachable(d) ==
    LET to == [f \in Files |-> ToSet(Imports(d, f))]
    IN {f \in Files : \A S \in SUBSET Files :
           Main \in S /\ (\A g \in S : to[g] \subseteq S) => f \in S}

\* Some of them lead round in a circle.
Cyclic(d) ==
    LET to == [f \in Files |-> ToSet(Imports(d, f))]
    IN \E S \in SUBSET Reachable(d) : S # {} /\ \A f \in S : to[f] \cap S # {}

\* f with the first k of its imports, for every k; below[g] is what g flattens to.
Merged(d, f, below) ==
    LET merged[k \in 0..Len(Imports(d, f))] ==
            IF k = 0 THEN Own(d, f) ELSE Merge(merged[k - 1], below[Imports(d, f)[k]])
    IN merged

\* No path without a circle is longer than the number of files.
Depth == Cardinality(Files)

Flattened(d) ==
    LET flat[n \in 0..Depth] ==
            [f \in Files |->
               IF n = 0 \/ Imports(d, f) = <<>> THEN Own(d, f)
               ELSE [Merged(d, f, flat[n - 1])[Len(Imports(d, f))] EXCEPT !.imports = <<>>]]
    IN flat[Depth]

Loadable(d) ==
    /\ \A f \in Reachable(d) : Parse(d[f]).ok
    /\ ~Cyclic(d)
    /\ \A f \in Reachable(d) : Valid(Flattened(d)[f])

\* LoadWithImports: "main file's content first, then each import in declaration
\* order", an error where a file does not parse, where imports go round in a
\* circle (and "import cycle" only there) and where the content of a file
\* together with its imports is not valid.
LoadIsReference ==
    [][\A l \in Loaders :
          /\ pc[l] = "load" /\ pc'[l] = "done" /\ l \notin moved
          => IF Loadable(disk) THEN result'[l] = Loaded(Flattened(disk)[Main])
             ELSE /\ result'[l].why # "ok"
                  /\ result'[l].why = "cycle" => Cyclic(disk)]_vars

=============================================================================
