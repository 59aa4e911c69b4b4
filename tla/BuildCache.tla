----------------------------- MODULE BuildCache -----------------------------
(***************************************************************************)
(* Incremental builds: the part of runTargetWithCache                      *)
(* (internal/runner/runner.go) behind the guard, for one target with       *)
(* inputs and outputs, and the manifests of internal/cache/cache.go.       *)
(* Several processes may build the target (a command and the daemon)       *)
(* while the user edits the inputs, changes the Bakefile or deletes        *)
(* outputs.  A content hash is the content; an output is what it was made  *)
(* from.  stepSignature hashes argv and environment of each step; the      *)
(* runner, the directory, the image and the arguments passed through on    *)
(* the command line are left out of it, so different steps may share a     *)
(* signature, and the cache cannot tell them apart.                        *)
(***************************************************************************)
EXTENDS Naturals, FiniteSets

CONSTANTS Contents,      \* contents of the inputs
          Steps,         \* what the target's steps do: argv, env, arguments, image
          Signature,     \* Signature[s]: stepSignature of the steps s
          Outputs,       \* output paths the globs can match
          Produced,      \* those the steps really write
          Procs,         \* processes that build the target
          Absent, Broken,      \* states of an output
          NoManifest, Damaged  \* states of a manifest file

Sources == Contents \X Steps

ASSUME OutputAssumption == Produced \subseteq Outputs /\ Absent \notin Sources

\* cache.Key(target, inputHash, stepSig)
Key(s) == <<s[1], Signature[s[2]]>>
Keys == {Key(s) : s \in Sources}

\* The cache does not tell them apart: the inputs are the same, and the steps in
\* what stepSignature takes of them.
Alike(s, u) == Key(s) = Key(u)

VARIABLES source,      \* <<content, steps>>: what is on disk now
          past,        \* sources there have been
          output,      \* output[o]: the source o was made from
          manifest,    \* manifest[k]: OutputPaths in the file of key k
          where,       \* of each process: where it is
          loaded,      \* of each process: the source it hashed
          paths,       \* of each process: outputPaths after the run
          completed,   \* history: keys of runs whose steps all succeeded
          lastKey,     \* history: key of the last such run
          careful      \* history: nobody has gone back to the key of an earlier
                       \* source, touched files during a build or left broken
                       \* outputs

user == <<source, past>>
history == <<completed, lastKey>>
cache == <<user, output, manifest, where, loaded, paths, history, careful>>

InitCache == /\ source \in Sources /\ past = {source}
             /\ output = [o \in Outputs |-> Absent]
             /\ manifest = [k \in Keys |-> NoManifest]
             /\ where = [p \in Procs |-> "idle"]
             /\ loaded = [p \in Procs |-> source]
             /\ paths = [p \in Procs |-> {}]
             /\ completed = {} /\ lastKey = Key(source)
             /\ careful = TRUE

KeyOf(p) == Key(loaded[p])

Move(p, from, to) == where[p] = from /\ where' = [where EXCEPT ![p] = to]

\* ResolveGlobs(rootDir, expandedOutputs): the outputs there are.
Existing == {o \in Outputs : output[o] # Absent}

----------------------------------------------------------------------------
(* The user.                                                               *)

Quiet == \A p \in Procs : where[p] = "idle"

Edit == \E s \in Sources \ {source} :
    /\ source' = s /\ past' = past \union {s}
    /\ careful' = (careful /\ Quiet /\ (Alike(s, source) \/ \A u \in past : ~Alike(s, u)))
    /\ UNCHANGED <<output, manifest, where, loaded, paths, history>>

Delete == \E o \in Existing :
    /\ output' = [output EXCEPT ![o] = Absent]
    /\ careful' = (careful /\ Quiet)
    /\ UNCHANGED <<user, manifest, where, loaded, paths, history>>

----------------------------------------------------------------------------
(* runTargetWithCache.                                                     *)

\* ResolveGlobs and HashFilesMap of the inputs, stepSignature, Key: all of it
\* before the steps run.
HashInputs(p) == /\ Move(p, "idle", "lookup")
                 /\ loaded' = [loaded EXCEPT ![p] = source]
                 /\ UNCHANGED <<user, output, manifest, paths, history, careful>>

\* LoadManifest fails on a file that is not JSON; that is the target's error.
LookupError(p) == /\ Move(p, "lookup", "idle")
                  /\ manifest[KeyOf(p)] = Damaged
                  /\ UNCHANGED <<user, output, manifest, loaded, paths, history, careful>>

\* Mutant of CacheHit: the outputs need not exist.
CacheHitUnchecked(k) == manifest[k] \notin {NoManifest, Damaged}

\* The file's name is the key, so its InputHash is the one looked for; what is
\* left to test is OutputsExist(manifest.OutputPaths).
CacheHit(k) == /\ manifest[k] \notin {NoManifest, Damaged}
               /\ manifest[k] \subseteq Existing

Skip(p) == /\ Move(p, "lookup", "idle")
           /\ CacheHit(KeyOf(p))
           /\ UNCHANGED <<user, output, manifest, loaded, paths, history, careful>>

Miss(p) == /\ Move(p, "lookup", "steps")
           /\ manifest[KeyOf(p)] # Damaged /\ ~CacheHit(KeyOf(p))
           /\ UNCHANGED <<user, output, manifest, loaded, paths, history, careful>>

\* runTargetSteps succeeds: outputs are made from the inputs as they are now and
\* the steps as they were loaded.
StepsSucceed(p) ==
    /\ Move(p, "steps", "resolve")
    /\ output' = [o \in Outputs |-> IF o \in Produced
                                    THEN <<source[1], loaded[p][2]>> ELSE output[o]]
    /\ completed' = completed \union {KeyOf(p)} /\ lastKey' = KeyOf(p)
    /\ UNCHANGED <<user, manifest, loaded, paths, careful>>

\* outputPaths, _ = cache.ResolveGlobs(...) and RecordOutputMTimes.
ResolveOutputs(p) == /\ Move(p, "resolve", "save")
                     /\ paths' = [paths EXCEPT ![p] = Existing]
                     /\ UNCHANGED <<user, output, manifest, loaded, history, careful>>

\* Mutant of StepsFail: the manifest is saved all the same.
StepsFailSaved(p) == /\ Move(p, "steps", "resolve")
                     /\ UNCHANGED <<user, output, manifest, loaded, paths, history, careful>>

\* A step fails, or the process is killed during one.
StepsFail(p) == /\ Move(p, "steps", "idle")
                /\ \E S \in SUBSET Produced :
                     /\ output' = [o \in Outputs |-> IF o \in S THEN Broken ELSE output[o]]
                     /\ careful' = (careful /\ S = {})
                /\ UNCHANGED <<user, manifest, loaded, paths, history>>

\* SaveManifest: os.WriteFile truncates the file, then writes it.
OpenManifest(p) == /\ Move(p, "save", "write")
                   /\ manifest' = [manifest EXCEPT ![KeyOf(p)] = Damaged]
                   /\ UNCHANGED <<user, output, loaded, paths, history, careful>>

WriteManifest(p) == /\ Move(p, "write", "idle")
                    /\ manifest' = [manifest EXCEPT ![KeyOf(p)] = paths[p]]
                    /\ UNCHANGED <<user, output, loaded, paths, history, careful>>

\* Opening or writing the file fails, or the process is killed there.
SaveFails(p) == /\ where[p] \in {"save", "write"}
                /\ where' = [where EXCEPT ![p] = "idle"]
                /\ UNCHANGED <<user, output, manifest, loaded, paths, history, careful>>

Build(p) == \/ HashInputs(p) \/ LookupError(p) \/ Skip(p) \/ Miss(p)
            \/ StepsSucceed(p) \/ StepsFail(p) \/ ResolveOutputs(p)
            \/ OpenManifest(p) \/ WriteManifest(p) \/ SaveFails(p)

NextCache == Edit \/ Delete \/ \E p \in Procs : Build(p)

SpecCache == InitCache /\ [][NextCache]_cache
FairCache == SpecCache /\ \A p \in Procs : WF_cache(Build(p))

----------------------------------------------------------------------------
(* Properties.                                                             *)

OutputStates == {Absent, Broken} \union Sources

\* The type invariant.
CacheTypeOK == /\ source \in Sources /\ past \subseteq Sources
               /\ output \in [Outputs -> OutputStates]
               /\ manifest \in [Keys -> {NoManifest, Damaged} \union SUBSET Outputs]
               /\ where \in [Procs -> {"idle", "lookup", "steps", "resolve", "save",
                                  "write"}]
               /\ loaded \in [Procs -> Sources]
               /\ paths \in [Procs -> SUBSET Outputs]
               /\ completed \subseteq Keys /\ lastKey \in Keys
               /\ careful \in BOOLEAN

\* Whatever the user does and whoever else builds, a manifest that can be read
\* vouches for a run of exactly these inputs and steps whose steps all succeeded:
\* a failed, killed or half-saved run never makes a later one skip.
ManifestVouches == \A k \in Keys :
    manifest[k] \notin {NoManifest, Damaged} => k \in completed

\* Skipping is right as far as stepSignature (runner.go:405) tells steps apart: the
\* outputs were made from the present inputs by steps with the present signature,
\* as long as the user never went back to an earlier state nor touched files
\* during a build, and failed steps left no broken output behind.  The steps may
\* still have had another runner, directory, image or arguments passed through.
SkipIsFresh == [][\A p \in Procs : Skip(p) /\ careful =>
                    \A o \in Produced : /\ output[o] \in Sources
                                        /\ Alike(output[o], source)]_cache

\* The outputs are what the present steps would make of the present inputs, which
\* what stepSignature leaves out refutes.
SkipIsExact == [][\A p \in Procs : Skip(p) /\ careful =>
                    \A o \in Produced : output[o] = source]_cache

\* "If all inputs have the same content hash as the last run [...] the target is
\* skipped" (docs/bakefile-reference.md): a skip means the last run had them.
SkipIsLastRun == [][\A p \in Procs : Skip(p) => KeyOf(p) = lastKey]_cache
=============================================================================
