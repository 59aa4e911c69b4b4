--------------------------- MODULE SequentialRun ---------------------------
(***************************************************************************)
(* runner.Run with MaxParallel <= 1 (internal/runner/runner.go), the mode  *)
(* of the daemon and of the command line without --max-parallel: the       *)
(* dependencies run one after the other in TopoOrder, with options of      *)
(* their own (depOpts), and the requested target last.                     *)
(***************************************************************************)
EXTENDS Options

CONSTANTS Targets,       \* the configured targets
          Deps,          \* Deps[t]: the targets t depends on
          Order,         \* Order[t]: TopoOrder(cfg, t)
          Docker,        \* whether NewDockerRegistryFromEnv succeeds
          Configs        \* the configurations to consider: targets[t], with its
                         \* args, env, slots, steps, presets and traits ("guarded":
                         \* a when clause; "incremental": inputs and outputs;
                         \* "image": image and not unsafe); suites[s], profiles[p],
                         \* default; dotenv and process, two environments

IsOrderOf(t, o) ==
    /\ o \in Seq(Targets) /\ o # <<>> /\ o[Len(o)] = t
    /\ \A j, k \in 1..Len(o) : j # k => o[j] # o[k]
    /\ \A k \in 1..Len(o) : \A d \in Deps[o[k]] : \E j \in 1..(k - 1) : o[j] = d

ASSUME OrderAssumption ==
    /\ Deps \in [Targets -> SUBSET Targets]
    /\ \A t \in Targets : IsOrderOf(t, Order[t])
    /\ Docker \in BOOLEAN

VARIABLES cfg,       \* the configuration; never changes
          asked,     \* the target of this Run
          opts,      \* its options
          i,         \* position in the order of the target being run
          stage,     \* "next", "running" or "returned" from runTargetWithCache
          ret,       \* ret[t]: what it returned for t
          log,       \* the targets run so far, by this Run and earlier ones: how
                     \* ("ran", "skipped", "failed"), commands and environment
          verdict    \* what Run returned: "idle" before it is called, "none"
                     \* until it returns

run == <<asked, opts, i, stage, ret, log, verdict>>

NothingRun == [t \in Targets |-> "none"]

InitRun == /\ cfg \in Configs
           /\ asked = CHOOSE t \in Targets : TRUE
           /\ opts = NoOptions
           /\ i = 1 /\ stage = "next"
           /\ ret = NothingRun /\ log = <<>>
           /\ verdict = "idle"

\* Run(cfg, t, o) is called.
BeginRun(t, o) == /\ asked' = t /\ opts' = o
                  /\ i' = 1 /\ stage' = "next"
                  /\ ret' = NothingRun
                  /\ verdict' = "none"
                  /\ UNCHANGED <<cfg, log>>

\* A dotenv file that cannot be read.
RejectRun == /\ verdict = "none" /\ i = 1 /\ stage = "next"
             /\ verdict' = "rejected"
             /\ UNCHANGED <<cfg, asked, opts, i, stage, ret, log>>

Current == Order[asked][i]

StartTarget == /\ verdict = "none" /\ stage = "next"
               /\ stage' = "running"
               /\ UNCHANGED <<cfg, asked, opts, i, ret, log, verdict>>

\* Mutant of OptionsOf: a dependency inherits what the target was given.
OptionsInherited(t) == [opts EXCEPT !.env = cfg.targets[t].env]

\* depOpts is built field by field: the environment of the dependency and that
\* of the command line, no arguments and no preset.
OptionsOf(t) ==
    IF t = asked THEN opts
    ELSE [NoOptions EXCEPT !.env = cfg.targets[t].env, !.cli = opts.cli]

\* Nor has it a NetVolRegistry: only the requested target has one.
HasRegistry(t) == Docker /\ t = asked

Has(trait) == trait \in cfg.targets[Current].traits

Return(r, how, commands) ==
    /\ ret' = [ret EXCEPT ![Current] = r]
    /\ log' = Append(log, [target |-> Current, how |-> how, commands |-> commands,
                           env |-> Environment(cfg, OptionsOf(Current))])
    /\ stage' = "returned"
    /\ UNCHANGED <<cfg, asked, opts, i, verdict>>

\* Its guard does not hold, or the cache has it.
SkipTarget == /\ stage = "running"
              /\ Has("guarded") \/ Has("incremental")
              /\ Return("ok", "skipped", <<>>)

\* An error of the cache before the steps.
LookupFails == /\ stage = "running" /\ Has("incremental")
               /\ Return("err", "failed", <<>>)

\* "Docker is required for target ...".
NoDocker == /\ stage = "running" /\ Has("image") /\ ~HasRegistry(Current)
            /\ Return("noDocker", "failed", <<>>)

\* Every step succeeds, or one fails and the rest is not run; a manifest that
\* cannot be saved counts as a failure of the last step.
RunSteps == /\ stage = "running"
            /\ Has("image") => HasRegistry(Current)
            /\ LET commands == Commands(cfg.targets[Current], OptionsOf(Current))
               IN \/ Return("ok", "ran", commands)
                  \/ \E k \in DOMAIN commands :
                        Return("err", "failed", SubSeq(commands, 1, k))

\* Mutant of Proceed: a dependency's error does not end the run.
ProceedIgnoresErr ==
    /\ verdict = "none" /\ stage = "returned"
    /\ IF i < Len(Order[asked])
       THEN i' = i + 1 /\ stage' = "next" /\ UNCHANGED verdict
       ELSE verdict' = "ok" /\ UNCHANGED <<i, stage>>
    /\ UNCHANGED <<cfg, asked, opts, ret, log>>

\* A dependency's error ends the run; the target's own is returned.
Proceed == /\ verdict = "none" /\ stage = "returned"
           /\ \/ /\ ret[Current] # "ok"
                 /\ verdict' = "failed"
                 /\ UNCHANGED <<i, stage>>
              \/ /\ ret[Current] = "ok" /\ i < Len(Order[asked])
                 /\ i' = i + 1 /\ stage' = "next"
                 /\ UNCHANGED verdict
              \/ /\ ret[Current] = "ok" /\ i = Len(Order[asked])
                 /\ verdict' = "ok"
                 /\ UNCHANGED <<i, stage>>
           /\ UNCHANGED <<cfg, asked, opts, ret, log>>

StepRun == \/ RejectRun \/ StartTarget \/ SkipTarget \/ LookupFails \/ NoDocker
           \/ RunSteps \/ Proceed
=============================================================================
