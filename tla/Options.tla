------------------------------ MODULE Options ------------------------------
(***************************************************************************)
(* What a target is run with: the arguments of the command line            *)
(* (internal/resolve/args.go), templates (expand.go), the environment      *)
(* (internal/env/load.go), and the commands that runTargetSteps makes of   *)
(* them (internal/runner/runner.go).                                       *)
(*                                                                         *)
(* A map is a function on a subset of its keys.  A word of a command is    *)
(* <<"word", text>>, <<"arg", name>> for {{.name}}, or <<"live", key>> for *)
(* {{.live.key}}.  A command-line word is a record: kind "long" (--key),   *)
(* "eq" (--key=val), "short" (-k), "word", or "sep" (--), its key and      *)
(* value, and its text.                                                    *)
(***************************************************************************)
EXTENDS Naturals, Sequences, SequencesExt, FiniteSets, TLC

Nothing == [k \in {} |-> ""]

\* The map f over the map g, as @@ of the module TLC, which the provers do not
\* know.
Over(f, g) == [x \in DOMAIN f \cup DOMAIN g |-> IF x \in DOMAIN f THEN f[x] ELSE g[x]]

\* PresetByName returned nil, RunOptions without a field set.
NoPreset  == [argv |-> <<>>, env |-> Nothing, steps |-> <<>>]
NoOptions == [env |-> Nothing, cli |-> Nothing, declared |-> Nothing, live |-> Nothing,
              pass |-> Nothing, preset |-> NoPreset]

(***************************************************************************)
(* ParseArgs                                                               *)
(***************************************************************************)

\* The position of the first "--", or the one after the end.
SepAt(args) == LET n == SelectInSeq(args, LAMBDA w : w.kind = "sep")
               IN IF n = 0 THEN Len(args) + 1 ELSE n

Texts(words) == [k \in DOMAIN words |-> <<"word", words[k].text>>]

Split(rest) ==
    FoldLeft(LAMBDA blobs, w : IF w.kind = "sep" THEN Append(blobs, <<>>)
                               ELSE [blobs EXCEPT ![Len(blobs)] = Append(@, w)],
             <<<<>>>>, rest)

\* With one slot it gets everything, with several the pieces in order.
PassthroughByStep(t, rest) ==
    IF Len(t.slots) = 1 THEN t.slots[1] :> Texts(rest)
    ELSE [step \in {t.slots[k] : k \in DOMAIN t.slots \cap DOMAIN Split(rest)} |->
             Texts(Split(rest)[CHOOSE k \in DOMAIN t.slots : t.slots[k] = step])]

ArgNames(t) == {t.args[k].name : k \in DOMAIN t.args}

\* findDeclaredByShort, or the letter itself.
LongKey(t, short) ==
    LET k == SelectInSeq(t.args, LAMBDA a : a.short = short)
    IN IF k = 0 THEN short ELSE t.args[k].name

Assign(t, acc, key, val) ==
    IF key \in ArgNames(t) THEN [acc EXCEPT !.key = "", !.declared = Over(key :> val, @)]
    ELSE [acc EXCEPT !.key = "", !.live = Over(key :> val, @)]

\* A flag takes the next word, whatever it is; a word on its own is skipped.
ReadWord(t, acc, w) ==
    CASE acc.key # ""     -> Assign(t, acc, acc.key, w.text)
      [] w.kind = "eq"    -> Assign(t, acc, w.key, w.val)
      [] w.kind = "long"  -> [acc EXCEPT !.key = w.key]
      [] w.kind = "short" -> [acc EXCEPT !.key = LongKey(t, w.key)]
      [] OTHER            -> acc

ParseArgs(t, args) ==
    LET n        == SepAt(args)
        defaults == [a \in ArgNames(t) |->
                       t.args[CHOOSE k \in DOMAIN t.args : t.args[k].name = a].default]
        acc      == FoldLeft(LAMBDA a, w : ReadWord(t, a, w),
                             [declared |-> defaults, live |-> Nothing, key |-> ""],
                             SubSeq(args, 1, n - 1))
        all      == IF acc.key = "" THEN acc ELSE Assign(t, acc, acc.key, "true")
    IN [declared |-> all.declared, live |-> all.live,
        pass |-> PassthroughByStep(t, SubSeq(args, n + 1, Len(args)))]

(***************************************************************************)
(* Templates and the environment                                           *)
(***************************************************************************)

Lookup(m, k) == IF k \in DOMAIN m THEN m[k] ELSE "<no value>"

\* Without data nothing is expanded: the braces stay.
Expand(w, o) ==
    IF DOMAIN o.declared = {} /\ DOMAIN o.live = {} THEN w
    ELSE CASE w[1] = "arg"  -> <<"word", Lookup(o.declared, w[2])>>
           [] w[1] = "live" -> <<"word", Lookup(o.live, w[2])>>
           [] OTHER         -> w

ExpandArgv(argv, o) == [k \in DOMAIN argv |-> Expand(argv[k], o)]

\* Merge: later maps win.
Merge(process, dotenv, targetEnv, cli) == Over(cli, Over(targetEnv, Over(dotenv, process)))

(***************************************************************************)
(* What runs, and what --dry-run says runs                                 *)
(***************************************************************************)

\* The step that a preset's argv goes to.
PassthroughStep(t, steps) == IF t.slots # <<>> THEN t.slots[1] ELSE Len(steps)

\* A step without words is left out.
WithoutEmpty(argvs) == FlattenSeq([k \in DOMAIN argvs |->
                                     IF argvs[k] = <<>> THEN <<>> ELSE <<argvs[k]>>])

\* runTargetSteps: the steps of the preset in place of the target's, or its
\* argv behind the passthrough step.
Commands(t, o) ==
    LET steps   == IF o.preset.steps # <<>> THEN o.preset.steps ELSE t.steps
        last    == PassthroughStep(t, steps)
        argv(k) == ExpandArgv(steps[k], o)
                   \o (IF o.preset.steps = <<>> /\ k = last THEN o.preset.argv ELSE <<>>)
                   \o (IF k \in DOMAIN o.pass THEN o.pass[k] ELSE <<>>)
    IN WithoutEmpty([k \in DOMAIN steps |-> argv(k)])

Environment(cfg, o) == Merge(cfg.process, cfg.dotenv, Over(o.preset.env, o.env), o.cli)

\* runDryRun: the requested target's arguments for every target, its preset's
\* argv for it alone, and of the preset's steps nothing.
Printed(t, o, requested) ==
    LET last    == PassthroughStep(t, t.steps)
        argv(k) == ExpandArgv(t.steps[k], o)
                   \o (IF k = last /\ requested THEN o.preset.argv ELSE <<>>)
                   \o (IF k = last /\ k \in DOMAIN o.pass THEN o.pass[k] ELSE <<>>)
    IN WithoutEmpty([k \in DOMAIN t.steps |-> argv(k)])
=============================================================================
