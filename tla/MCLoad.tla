------------------------------- MODULE MCLoad -------------------------------
(***************************************************************************)
(* Four families of scenarios.  Single: every clause and entry, alone and  *)
(* next to every other one.  Imports: three files and what they import.    *)
(* Races: two loaders and a user.  Graphs: no Bakefile at all, and every   *)
(* acyclic graph of four targets with every order of the dependency lists, *)
(* any of them unknown (a target depends on larger numbers only, which     *)
(* loses no graph up to renaming), and every graph of three targets with   *)
(* lists of at most two, cycles and repeats included.                      *)
(***************************************************************************)
EXTENDS LoadedGraph

I(k, n)    == Item(k, n, "", <<>>)
F(k, n, f) == Item(k, n, f, <<>>)
B(k, n, b) == Item(k, n, "", b)

ExecStep(w)   == F("step", w, "exec")
CmdWords(w)   == F("step", w, "cmd")
Target(n, ds) == B("target", <<n>>, IF ds = <<>> THEN <<ExecStep(<<n>>)>>
                                    ELSE <<I("deps", ds), ExecStep(<<n>>)>>)

TwoLoaders == {1, 2}
MCFiles == 1..3
AllRules == Rules
AllOptions == [format : BOOLEAN, lint : BOOLEAN]
JustLoad == {[format |-> FALSE, lint |-> FALSE]}
NoSaves == [f \in MCFiles |-> {}]
Alone(t) == [f \in MCFiles |-> IF f = 1 THEN t ELSE <<>>]
S(d, ls, os, sv) ==
    [disk |-> d, loaders |-> ls, options |-> os, rules |-> AllRules, saves |-> sv]

----------------------------------------------------------------------------
\* One clause of every kind and spelling.
Clauses == {
  I("desc", <<1>>), I("deps", <<2>>), I("deps", <<2, 4>>), I("whenEnv", <<1>>),
  I("whenCmd", <<1>>), F("inputs", <<1>>, "quoted"), F("outputs", <<1>>, "unquoted"),
  I("args", <<1, 1>>), I("args", <<1, 1, 1>>), I("args", <<1, 1, 1, 1>>),
  F("env", <<1, 1>>, "word"), F("env", <<1, 1>>, "digits"), I("cwd", <<1>>), I("tags", <<1>>),
  I("private", <<>>), I("passthrough", <<1>>), I("pool", <<1>>), I("mutex", <<1>>),
  F("image", <<1>>, "ident"), F("image", <<1>>, "string"), I("unsafe", <<>>), I("net", <<1>>),
  F("vol", <<1>>, "name"), F("vol", <<1>>, "host"), F("preset", <<1>>, "full"),
  F("preset", <<1>>, "hollow"), I("workflow", <<2, 3>>),
  CmdWords(<<1, 2>>), F("step", <<1>>, "unquoted"), F("step", <<1, 1>>, "shell"),
  B("steps", <<>>, <<CmdWords(<<1>>), ExecStep(<<1>>)>>),
  B("steps", <<>>, <<ExecStep(<<1>>), CmdWords(<<1>>)>>),
  B("daemon", <<3>>, <<ExecStep(<<1>>), I("cwd", <<1>>)>>),
  B("daemon", <<3>>, <<I("net", <<1>>), ExecStep(<<1>>)>>)}

Bodies == {<<c>> : c \in Clauses} \cup {<<c, d>> : c, d \in Clauses}
ClauseTexts == {<<B("target", <<1>>, b), Target(2, <<>>)>> : b \in Bodies}

Entries == {
  I("import", <<2>>), I("private", <<>>), I("profile", <<1, 1>>), I("line", <<3, 1>>),
  I("line", <<1, 1>>), Target(1, <<>>), Target(2, <<>>),
  B("suite", <<1>>, <<F("ref", <<2>>, "ident"), F("ref", <<1>>, "quoted")>>)}
FileTexts == {<<e, f>> : e \in Entries \cup {I("dotenv", <<1>>), I("dotenv", <<>>)},
                         f \in Entries}
             \cup {<<e, f, g>> : e, f, g \in Entries}

Single == {S(Alone(t), {1}, AllOptions, NoSaves) : t \in ClauseTexts \cup FileTexts}

----------------------------------------------------------------------------
\* Every file defines the target it is named after, which depends on others;
\* the last pattern does not parse, and one defines a target twice.
ImportLists(n) == BoundedSeq(MCFiles, n)
Contents == {<< <<Target(1, a)>>, <<Target(2, b)>>, <<Target(3, c)>> >> :
               a \in {<<>>, <<2, 3>>}, b \in {<<>>, <<3>>}, c \in {<<>>, <<1>>}}
            \cup {<< <<Target(1, <<>>)>>, <<Target(2, <<>>), Target(3, <<2>>)>>,
                     <<I("tags", <<1>>), I("steps", <<>>)>> >>}
Importing(lists, content) ==
    [f \in MCFiles |-> [k \in DOMAIN lists[f] |-> I("import", <<lists[f][k]>>)] \o content[f]]

Imported == {S(Importing(<<x, y, z>>, c), {1}, JustLoad, NoSaves) :
               x \in ImportLists(2), y \in ImportLists(1) \cup {<<1, 3>>, <<3, 1>>},
               z \in ImportLists(1), c \in Contents}

----------------------------------------------------------------------------
Plain    == <<Target(1, <<2>>), Target(2, <<>>)>>
Loose    == <<Target(2, <<>>), B("target", <<1>>, <<CmdWords(<<1>>)>>)>>
Broken   == <<I("dotenv", <<1>>), I("profile", <<1, 1>>), I("dotenv", <<1>>)>>
WithTwo  == <<I("import", <<2>>), Target(1, <<>>)>>
Unusable == <<Target(1, <<3>>)>>

Both == {[format |-> b, lint |-> b] : b \in BOOLEAN}
Races == {S(Alone(t), TwoLoaders, Both,
            [NoSaves EXCEPT ![1] = {Plain, Loose, Broken}]) : t \in {Plain, Loose}}
         \cup {S([f \in MCFiles |-> IF f = 1 THEN WithTwo ELSE <<Target(f, <<>>)>>], {1}, JustLoad,
                 [NoSaves EXCEPT ![1] = {Plain}, ![2] = {Unusable, <<>>}])}

----------------------------------------------------------------------------
Unknown == 0
Lists(X) == SetToAllKPermutations(X \cup {Unknown})
AcyclicGraphs == {<<d1, d2, d3, d4>> :
                    d1 \in Lists({2, 3, 4}), d2 \in Lists({3, 4}),
                    d3 \in Lists({4}), d4 \in Lists({})}
SmallLists == BoundedSeq(MCFiles \cup {Unknown}, 2)
AllGraphs == AcyclicGraphs \cup {<<d1, d2, d3, <<>>>> : d1, d2, d3 \in SmallLists}

NoBakefile == {S(Alone(<<>>), {}, JustLoad, NoSaves)}

MCScenarios == Single \cup Imported \cup Races \cup NoBakefile

----------------------------------------------------------------------------
\* The texts of all scenarios with what formatting and fixing make of them.
Rewritten(texts) ==
    UNION {LET items == Parse(t).items
           IN {Format(items), Format(ApplyFixes(items, AllRules))} : t \in texts}

Known(scenarios) ==
    {<<>>} \cup UNION {{s.disk[f]} \cup s.saves[f] : s \in scenarios, f \in MCFiles}
MCTexts == LET once == Known(MCScenarios) \cup Rewritten(Known(MCScenarios))
           IN once \cup Rewritten(once)
=============================================================================
