---------------------------- MODULE MCInvocation ----------------------------
(***************************************************************************)
(* d needs b and c, which need a.  Four configurations between them have   *)
(* every trait and every place an option can come from; the command lines  *)
(* are every spelling of some meanings, and every combination of flags     *)
(* with every kind of name.                                                *)
(***************************************************************************)
EXTENDS Invocation

MCTargets == {"a", "b", "c", "d"}
MCDeps == [t \in MCTargets |-> CASE t = "d" -> {"b", "c"} [] t = "a" -> {} [] OTHER -> {"a"}]
MCOrder == [t \in MCTargets |-> CASE t = "d" -> <<"a", "b", "c", "d">> [] t = "a" -> <<"a">>
                                  [] OTHER -> <<"a", t>>]

Word(x) == <<"word", x>>
X == <<"arg", "x">>
Z == <<"live", "z">>

Plain(t) == [args |-> <<>>, env |-> Nothing, slots |-> <<>>, steps |-> <<<<Word(t)>>>>,
             presets |-> Nothing, traits |-> {}]

ArgX == [name |-> "x", short |-> "s", default |-> "0"]

ThePresets ==
    "p" :> [argv |-> <<Word("-p")>>, env |-> Nothing, steps |-> <<>>] @@
    "q" :> [argv |-> <<>>, env |-> "E" :> "preset", steps |-> <<>>] @@
    "r" :> [argv |-> <<Word("-r")>>, env |-> "E" :> "preset", steps |-> <<<<Word("r"), X>>, <<Z>>>>]

D == [args |-> <<ArgX>>, env |-> "E" :> "d", slots |-> <<1>>,
      steps |-> <<<<Word("d"), X>>, <<>>, <<Z>>>>, presets |-> ThePresets, traits |-> {}]

TheSuites == "s"  :> <<[target |-> "a", preset |-> ""], [target |-> "d", preset |-> "r"]>> @@
             "ci" :> <<[target |-> "b", preset |-> ""]>>

Config(targets, default) ==
    [targets |-> targets @@ [t \in MCTargets |-> Plain(t)], default |-> default,
     suites |-> TheSuites, profiles |-> "f" :> ("E" :> "profile" @@ "F" :> "profile"),
     dotenv |-> "E" :> "dotenv" @@ "G" :> "dotenv", process |-> "E" :> "process" @@ "H" :> "process"]

MCConfigs ==
    {Config("d" :> D @@ "a" :> [Plain("a") EXCEPT !.steps = <<<<Word("a"), X>>, <<Z>>>>,
                                                  !.env = "E" :> "a"], "d"),
     Config("d" :> [D EXCEPT !.slots = <<1, 3>>, !.env = Nothing]
            @@ "b" :> [Plain("b") EXCEPT !.args = <<ArgX>>, !.steps = <<<<X>>>>,
                                         !.traits = {"guarded"}], "b"),
     Config("d" :> [Plain("d") EXCEPT !.steps = <<>>]
            @@ "c" :> [Plain("c") EXCEPT !.traits = {"incremental"}], "d"),
     Config("d" :> [D EXCEPT !.args = <<>>, !.slots = <<>>, !.traits = {"image", "incremental"}]
            @@ "b" :> [Plain("b") EXCEPT !.traits = {"image"}], "c")}

(***************************************************************************)
(* The words that spell a meaning                                          *)
(***************************************************************************)

Token(kind, key, val, text) == [kind |-> kind, key |-> key, val |-> val, text |-> text]

TextWord(x) == Token("word", "", "", x)

Pair(key, val, style) ==
    CASE style = "eq"    -> <<Token("eq", key, val, "--key=val")>>
      [] style = "short" -> <<Token("short", IF key = "x" THEN "s" ELSE key, "", "-k"), TextWord(val)>>
      [] style = "again" -> <<Token("eq", key, "not " \o val, "--key=val"),
                              TextWord("stray"), Token("long", key, "", "--key"), TextWord(val)>>
      [] style = "bare"  -> <<Token("long", key, "", "--key")>>
      [] OTHER           -> <<Token("long", key, "", "--key"), TextWord(val)>>

\* A flag without a value can only be the last.
Spelled(means, style) ==
    (IF means.preset = "" THEN <<>> ELSE <<TextWord(means.preset)>>)
    \o FlattenSeq([k \in 1..Cardinality(DOMAIN means.values) |->
          LET key == <<"z", "x">>[IF DOMAIN means.values = {"x"} THEN 2 ELSE k]
          IN Pair(key, means.values[key], style)])
    \o FlattenSeq([k \in DOMAIN means.groups |->
          <<Token("sep", "", "", "--")>> \o [j \in DOMAIN means.groups[k] |-> TextWord(means.groups[k][j][2])]])

Unspoken == [preset |-> "", values |-> Nothing, groups |-> <<>>]

Line(pos, means, style) ==
    [pos |-> pos, args |-> Spelled(means, style), means |-> means, setEnv |-> Nothing,
     setArgs |-> Nothing, profile |-> "", dryRun |-> FALSE, noDaemon |-> TRUE, ci |-> FALSE]

Meanings == [preset : {"", "p", "q", "r"}, values : {Nothing, "x" :> "1", "x" :> "1" @@ "z" :> "2"},
             groups : {<<>>, <<<<Word("u"), Word("v")>>>>, <<<<>>, <<Word("u")>>, <<Word("v")>>>>}]

\* Every spelling of every meaning, for a target that has the presets.
Spellings ==
    {[Line(<<"d">>, means, style) EXCEPT !.dryRun = dry] :
        means \in Meanings, style \in {"long", "eq", "short", "again"}, dry \in BOOLEAN}
    \cup {Line(<<"d">>, [Unspoken EXCEPT !.values = "x" :> "true", !.groups = g], "bare") :
             g \in {<<>>, <<<<Word("u")>>>>}}

\* Every flag with every kind of name.
Flags ==
    {[Line(pos, means, "long") EXCEPT !.setEnv = e, !.setArgs = x, !.profile = f,
                                        !.dryRun = dry, !.noDaemon = FALSE, !.ci = ci] :
        pos \in {<<>>, <<"d">>, <<"a">>, <<"s">>, <<"unknown">>},
        means \in {Unspoken, [preset |-> "p", values |-> "x" :> "1", groups |-> <<<<Word("u")>>>>]},
        e \in {Nothing, "E" :> "set"}, x \in {Nothing, "x" :> "3"}, f \in {"", "f", "unknown"},
        dry \in BOOLEAN, ci \in BOOLEAN}

MCRequests == Spellings \cup {r \in Flags : /\ r.ci => r.pos = <<>>
                                        /\ r.pos = <<>> => r.args = <<>>}
=============================================================================
