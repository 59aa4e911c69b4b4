------------------------------ MODULE Bakefile ------------------------------
(***************************************************************************)
(* What a Bakefile says: the grammar and Compile (internal/dsl/ast.go,     *)
(* parser.go), the formatter (format.go), validation (internal/config) and *)
(* the linter's fixes (internal/lint), as operators on texts.              *)
(*                                                                         *)
(* A text is a sequence of items, and so is every block in it: the entries *)
(* of a file, the clauses of a target or of a daemon, the steps of a steps *)
(* block.  The lexer knows no keywords (a keyword is an Ident like any     *)
(* other), so an item whose grammar ends in Ident? or Ident* goes on into  *)
(* the items after it, as far as it has room.  Names are numbers: 1 comes  *)
(* before 2 in the alphabet.                                               *)
(***************************************************************************)
EXTENDS Naturals, FiniteSets, Sequences, SequencesExt

CONSTANT MaxName        \* names are 1..MaxName

ASSUME MaxNameAssumption == MaxName \in Nat

\* An item: names are its words that are no keywords, form how it is spelled
\* where there is a choice, body its block, extra the words it swallowed.
Item(kind, names, form, body) ==
    [kind |-> kind, names |-> names, form |-> form, body |-> body, extra |-> 0]

Unlimited == 1000       \* more words than any text has

\* Steps and targets come in several spellings.
IsTarget(i)   == i.kind \in {"target", "line"}
BareStep(i)   == i.kind = "step"
CmdStep(i)    == i.kind = "step" /\ i.form = "cmd"

(***************************************************************************)
(* Reading: the grammar                                                    *)
(***************************************************************************)

\* How many Ident tokens an item begins with, keyword included.
Lead(i) ==
    i.extra + CASE i.kind \in {"tags", "args", "dotenv"}              -> 1 + Len(i.names)
                [] i.kind = "line"                                    -> 2 + Len(i.names)
                [] i.kind = "whenEnv"                                 -> 3
                [] i.kind = "step" /\ i.form = "cmd"                  -> 1 + Len(i.names)
                [] i.kind = "step" /\ i.form \in {"exec", "unquoted"} -> 1
                [] i.kind = "image" /\ i.form = "string"              -> 1
                [] i.kind \in {"desc", "inputs", "outputs", "env", "steps", "workflow",
                               "private", "unsafe", "import"}         -> 1
                [] OTHER                                              -> 2

\* Nothing but Ident tokens: no string, bracket, brace, comma or number.
WordsOnly(i) ==
    \/ i.kind \in {"tags", "args", "dotenv", "line", "whenEnv", "private", "unsafe",
                   "cwd", "pool", "mutex", "net"}
    \/ i.kind = "deps" /\ Len(i.names) = 1
    \/ CmdStep(i)
    \/ i.kind = "image" /\ i.form = "ident"
    \/ i.kind = "vol" /\ i.form = "name"

\* How many further words the item takes: short and default of args, any
\* number of tags, of words of a command, of dotenv files.
Room(i) ==
    CASE i.kind = "args"                             -> 4 - Len(i.names) - i.extra
      [] i.kind \in {"tags", "dotenv", "line"}       -> Unlimited
      [] CmdStep(i)                                  -> Unlimited
      [] OTHER                                       -> 0

\* A value the lexer has no token for outside quotes, and a preset whose
\* body, which must not be empty, is.
Unlexable(i) ==
    \/ i.kind = "env" /\ i.form = "bare"
    \/ i.kind = "preset" /\ i.form = "empty"

\* One more item: on its own, or swallowed by the one before it, whole (its
\* meaning is gone) or in part (what is left of it is no item).
Absorb(acc, i) ==
    IF ~acc.ok THEN acc
    ELSE IF acc.room = 0
         THEN [ok |-> TRUE, items |-> Append(acc.items, i), room |-> Room(i)]
         ELSE IF WordsOnly(i) /\ Lead(i) <= acc.room
              THEN LET n == Len(acc.items)
                   IN [ok |-> TRUE, room |-> acc.room - Lead(i),
                       items |-> [acc.items EXCEPT ![n].extra = @ + Lead(i)]]
              ELSE [acc EXCEPT !.ok = FALSE]

Group(items) == FoldLeft(Absorb, [ok |-> TRUE, items |-> <<>>, room |-> 0], items)

Unread == [ok |-> FALSE, items |-> <<>>, room |-> 0]

\* A block: what is inside its items first, then the items themselves.
Block(items, inner) ==
    IF \E k \in DOMAIN items : ~inner[k].ok \/ Unlexable(items[k])
    THEN Unread
    ELSE Group([k \in DOMAIN items |-> [items[k] EXCEPT !.body = inner[k].items]])

ReadSteps(b)  == Block(b, [k \in DOMAIN b |-> Group(b[k].body)])
ReadDaemon(b) == Block(b, [k \in DOMAIN b |-> ReadSteps(b[k].body)])
ReadBody(b)   == Block(b, [k \in DOMAIN b |-> ReadDaemon(b[k].body)])

\* The whole file: dotenv comes first or not at all.
Parse(text) ==
    LET r == Block(text, [k \in DOMAIN text |-> ReadBody(text[k].body)])
    IN IF \E k \in DOMAIN r.items : k > 1 /\ r.items[k].kind = "dotenv" THEN Unread ELSE r

(***************************************************************************)
(* Compiling                                                               *)
(***************************************************************************)

OfKind(items, kinds) == SelectSeq(items, LAMBDA i : i.kind \in kinds)

\* What a later clause of the kind replaces, and what it adds to.
Replaced  == {"deps", "cwd", "desc", "tags", "whenEnv", "pool", "mutex", "image"}
Collected == {"env", "args", "passthrough", "inputs", "outputs", "whenCmd", "preset",
              "net", "vol", "workflow"}

\* The clause as the configuration keeps it; quotes are not part of it.
Value(i) == [names |-> i.names, extra |-> i.extra,
             form |-> IF i.kind \in {"image", "vol", "preset"} THEN i.form ELSE ""]

LastOf(items) == IF items = <<>> THEN <<>> ELSE <<Value(items[Len(items)])>>
AllOf(items)  == [k \in DOMAIN items |-> Value(items[k])]

\* cmd words and exec [words] compile to the same argv.
CompileStep(s) == [argv |-> s.names, extra |-> s.extra, shell |-> s.form = "shell"]

StepsOf(body) ==
    FlattenSeq([k \in DOMAIN OfKind(body, {"step", "steps"}) |->
                  LET i == OfKind(body, {"step", "steps"})[k]
                  IN IF BareStep(i) THEN <<CompileStep(i)>>
                     ELSE [n \in DOMAIN i.body |-> CompileStep(i.body[n])]])

CompileBody(body) ==
    [last   |-> [k \in Replaced |-> LastOf(OfKind(body, {k}))],
     all    |-> [k \in Collected |-> AllOf(OfKind(body, {k}))],
     unsafe |-> OfKind(body, {"unsafe"}) # <<>>,
     steps  |-> StepsOf(body)]

\* compileDaemon looks at these clauses and passes over the others.
DaemonClauses == {"steps", "step", "env", "cwd", "image", "unsafe", "net", "vol"}

CompileDaemon(d) == [name |-> d.names[1], body |-> CompileBody(OfKind(d.body, DaemonClauses))]

\* A single-line target has one step, the words after cmd.
CompileTarget(t, filePrivate) ==
    LET daemons == OfKind(t.body, {"daemon"})
        line    == [argv |-> Tail(t.names), extra |-> t.extra, shell |-> FALSE]
        body    == CompileBody(t.body)
    IN [name    |-> t.names[1],
        private |-> filePrivate \/ OfKind(t.body, {"private"}) # <<>>,
        body    |-> IF t.kind = "line" THEN [body EXCEPT !.steps = <<line>>] ELSE body,
        daemons |-> [k \in DOMAIN daemons |-> CompileDaemon(daemons[k])]]

\* The private marker hides the targets after it.
Compile(ast) ==
    LET named(kinds) == OfKind(ast, kinds)
        Names(items) == [k \in DOMAIN items |-> [name |-> items[k].names[1],
                                                 rest |-> Tail(items[k].names)]]
        suites       == named({"suite"})
        hiding       == OfKind(ast, {"private", "target", "line"})
        Step(acc, i) == IF i.kind = "private" THEN [acc EXCEPT !.private = TRUE]
                        ELSE [acc EXCEPT !.targets =
                                Append(@, CompileTarget(i, acc.private))]
    IN [dotenv   |-> FlattenSeq([k \in DOMAIN named({"dotenv"}) |->
                                   named({"dotenv"})[k].names]),
        imports  |-> [k \in DOMAIN named({"import"}) |-> named({"import"})[k].names[1]],
        profiles |-> Names(named({"profile"})),
        suites   |-> [k \in DOMAIN suites |->
                        [name |-> suites[k].names[1],
                         refs |-> [n \in DOMAIN suites[k].body |-> suites[k].body[n].names]]],
        targets  |-> FoldLeft(Step, [private |-> FALSE, targets |-> <<>>], hiding).targets]

(***************************************************************************)
(* Validating                                                              *)
(***************************************************************************)

Distinct(s) == \A j, k \in DOMAIN s : s[j] = s[k] => j = k

NamesOf(items)    == [k \in DOMAIN items |-> items[k].name]
FirstNames(items) == [k \in DOMAIN items |-> items[k].names[1]]

Deps(t)     == IF t.body.last["deps"] = <<>> THEN <<>> ELSE t.body.last["deps"][1].names
Presets(t)  == FirstNames(t.body.all["preset"])
Slots(t)    == FirstNames(t.body.all["passthrough"])
Workflow(t) == FlattenSeq([k \in DOMAIN t.body.all["workflow"] |->
                             t.body.all["workflow"][k].names])

\* The first target with the name, as TargetByName finds it.
TargetByName(cfg, n) ==
    cfg.targets[CHOOSE k \in DOMAIN cfg.targets :
                   cfg.targets[k].name = n /\ \A j \in 1..(k - 1) : cfg.targets[j].name # n]

KnownNames(cfg) == ToSet(NamesOf(cfg.targets))

KnownRef(cfg, ref) ==
    /\ ref[1] \in KnownNames(cfg)
    /\ Len(ref) = 2 => ref[2] \in ToSet(Presets(TargetByName(cfg, ref[1])))

ValidDaemons(cfg, t) ==
    /\ Distinct(NamesOf(t.daemons))
    /\ \A k \in DOMAIN t.daemons : t.daemons[k].name \notin KnownNames(cfg)
    /\ \A w \in ToSet(Workflow(t)) : w \in KnownNames(cfg) \cup ToSet(NamesOf(t.daemons))

\* Mutant of Valid: dependencies are left to the runner.
ValidButDeps(cfg) ==
    /\ Distinct(NamesOf(cfg.targets))
    /\ \A t \in ToSet(cfg.targets) : Distinct(Presets(t)) /\ Distinct(Slots(t)) /\ ValidDaemons(cfg, t)
    /\ Distinct(NamesOf(cfg.profiles))
    /\ Distinct(NamesOf(cfg.suites))
    /\ \A s \in ToSet(cfg.suites) : \A ref \in ToSet(s.refs) : KnownRef(cfg, ref)

Valid(cfg) ==
    /\ Distinct(NamesOf(cfg.targets))
    /\ \A t \in ToSet(cfg.targets) : /\ ToSet(Deps(t)) \subseteq KnownNames(cfg)
                                     /\ Distinct(Presets(t))
                                     /\ Distinct(Slots(t))
                                     /\ ValidDaemons(cfg, t)
    /\ Distinct(NamesOf(cfg.profiles))
    /\ Distinct(NamesOf(cfg.suites))
    /\ \A s \in ToSet(cfg.suites) : \A ref \in ToSet(s.refs) : KnownRef(cfg, ref)

(***************************************************************************)
(* Formatting                                                              *)
(***************************************************************************)

\* orderBodyEntries: clauses by kind, those of a kind as they stood.
Canonical == <<"desc", "deps", "whenEnv", "whenCmd", "inputs", "outputs", "args", "env",
               "cwd", "tags", "private", "passthrough", "pool", "mutex", "image", "unsafe",
               "net", "vol", "steps", "workflow", "daemon", "preset">>

\* Bare steps and steps blocks are one kind.
Class(i) == IF BareStep(i) THEN "steps" ELSE i.kind

Ordered(body) ==
    FlattenSeq([k \in DOMAIN Canonical |->
                  SelectSeq(body, LAMBDA i : Class(i) = Canonical[k])])

\* sort.Slice by a number, as stable as it is on these lengths.
SortedBy(items, key, top) ==
    FlattenSeq([k \in 1..top |-> SelectSeq(items, LAMBDA i : key[i] = k)])

Name(i) == i.names[1]

SortedByName(items) == SortedBy(items, [i \in ToSet(items) |-> Name(i)], MaxName)

\* Elements of bracketed lists get quotes, values of env lose them unless
\* needsQuoting asks for them: it does not for digits and other characters
\* that no Ident has.  Empty env and steps blocks of a preset are left out.
FormatClause(i) ==
    CASE i.kind \in {"step", "inputs", "outputs"} /\ i.form = "unquoted"
                                                -> [i EXCEPT !.form = "exec"]
      [] i.kind = "env" /\ i.form = "digits"    -> [i EXCEPT !.form = "bare"]
      [] i.kind = "preset" /\ i.form = "hollow" -> [i EXCEPT !.form = "empty"]
      [] OTHER                                  -> i

FormatAll(items) == [k \in DOMAIN items |-> FormatClause(items[k])]

\* What writeBodyEntry keeps of a daemon: net and vol are not among it.
DaemonWritten == {"steps", "step", "env", "cwd", "image", "unsafe"}

Inside(i) ==
    CASE i.kind = "steps"  -> [i EXCEPT !.body = FormatAll(@)]
      [] i.kind = "daemon" ->
           [i EXCEPT !.body =
              LET kept == FormatAll(Ordered(OfKind(@, DaemonWritten)))
              IN [k \in DOMAIN kept |-> IF kept[k].kind = "steps"
                                        THEN [kept[k] EXCEPT !.body = FormatAll(@)]
                                        ELSE kept[k]]]
      [] OTHER             -> FormatClause(i)

FormatTarget(t) ==
    [t EXCEPT !.body = LET o == Ordered(@) IN [k \in DOMAIN o |-> Inside(o[k])]]

\* "t" sorts before "t preset".
RefKey(ref) == ref.names[1] * (MaxName + 1) + (IF Len(ref.names) = 2 THEN ref.names[2] ELSE 0)

FormatSuite(s) ==
    [s EXCEPT !.body =
       LET refs == SortedBy(@, [i \in ToSet(@) |-> RefKey(i)], (MaxName + 1) * (MaxName + 1))
       IN [k \in DOMAIN refs |-> [refs[k] EXCEPT !.form = "ident"]]]

Format(ast) ==
    LET of(kinds) == SortedByName(OfKind(ast, kinds))
        private   == OfKind(ast, {"private"})
        dotenv    == SelectSeq(ast, LAMBDA i : i.kind = "dotenv" /\ i.names # <<>>)
    IN dotenv \o OfKind(ast, {"import"})
       \o (IF private = <<>> THEN <<>> ELSE <<private[1]>>)
       \o [k \in DOMAIN of({"suite"}) |-> FormatSuite(of({"suite"})[k])]
       \o of({"profile"})
       \o [k \in DOMAIN of({"target", "line"}) |-> FormatTarget(of({"target", "line"})[k])]

(***************************************************************************)
(* Linting                                                                 *)
(***************************************************************************)

Rules == {"prefer-exec", "brackets-only", "require-desc", "prefer-quoted-exec"}

\* The steps of a target, bare ones and those of its blocks.
AllSteps(t) ==
    ToSet(OfKind(t.body, {"step"}))
      \cup UNION {ToSet(i.body) : i \in ToSet(OfKind(t.body, {"steps"}))}

Finding(t, rule) ==
    CASE rule = "prefer-exec"   -> t.kind = "line" \/ \E s \in AllSteps(t) : CmdStep(s)
      [] rule = "brackets-only" -> t.kind = "line" \/ OfKind(t.body, {"step"}) # <<>>
      [] rule = "require-desc"  -> OfKind(t.body, {"desc"}) = <<>>
      [] rule = "prefer-quoted-exec" ->
            \E i \in AllSteps(t) \cup ToSet(OfKind(t.body, {"inputs", "outputs"})) :
                i.form = "unquoted"

\* Every rule but require-desc calls its findings fixable.
Fixable(ast, rules) ==
    \E t \in {i \in ToSet(ast) : IsTarget(i)}, r \in rules \ {"require-desc"} : Finding(t, r)

Exec(s) == [s EXCEPT !.form = "exec"]

FixTarget(t, rules) ==
    IF t.kind = "line"
    THEN Item("target", <<t.names[1]>>, "",
              <<Item("steps", <<>>, "",
                     <<[Item("step", Tail(t.names), "exec", <<>>) EXCEPT !.extra = t.extra]>>)>>)
    ELSE IF "prefer-exec" \notin rules THEN t
    ELSE [t EXCEPT !.body =
            [k \in DOMAIN @ |->
               CASE CmdStep(@[k])       -> Exec(@[k])
                 [] @[k].kind = "steps" ->
                      [@[k] EXCEPT !.body =
                         [n \in DOMAIN @ |-> IF CmdStep(@[n]) THEN Exec(@[n]) ELSE @[n]]]
                 [] OTHER               -> @[k]]]

ApplyFixes(ast, rules) ==
    [k \in DOMAIN ast |-> IF IsTarget(ast[k]) THEN FixTarget(ast[k], rules) ELSE ast[k]]

(***************************************************************************)
(* Meaning                                                                 *)
(***************************************************************************)

\* What a configuration says, whatever the order of its entries and of the
\* names in a suite, which the formatter sorts and documents that it does.
Meaning(cfg) ==
    [dotenv |-> cfg.dotenv, imports |-> cfg.imports,
     profiles |-> ToSet(cfg.profiles), targets |-> ToSet(cfg.targets),
     suites |-> {[name |-> s.name, refs |-> ToSet(s.refs)] : s \in ToSet(cfg.suites)}]

MeaningOf(text) == Meaning(Compile(Parse(text).items))

\* Texts whose formatted form can be read, and reads the same.  Each conjunct
\* excepts something the formatter does not reckon with: an item with room
\* left that comes to stand before another one, a private marker that moves
\* in front of targets, net and vol of a daemon, a value that needs its
\* quotes although needsQuoting does not say so, a preset that says nothing.
Closed(items) == \A k \in 1..(Len(items) - 1) : Room(items[k]) = 0

SturdyBlock(b) ==
    /\ Closed(b)
    /\ \A i \in ToSet(b) : /\ ~(i.kind = "env" /\ i.form = "digits")
                           /\ ~(i.kind = "preset" /\ i.form = "hollow")

Sturdy(ast) ==
    LET sorted == OfKind(ast, {"dotenv", "import", "private", "suite", "profile"})
                    \o SortedByName(OfKind(ast, {"target", "line"}))
    IN /\ Closed(sorted)
       /\ \A j, k \in DOMAIN ast : IsTarget(ast[j]) /\ ast[k].kind = "private" => k < j
       /\ \A t \in ToSet(ast) :
             /\ SturdyBlock(Ordered(t.body))
             /\ \A d \in ToSet(OfKind(t.body, {"daemon"})) :
                   /\ SturdyBlock(Ordered(d.body))
                   /\ OfKind(d.body, {"net", "vol"}) = <<>>
=============================================================================
