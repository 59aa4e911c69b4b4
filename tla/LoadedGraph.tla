---------------------------- MODULE LoadedGraph ----------------------------
(***************************************************************************)
(* Loading and what it is for: the runner looks the requested target up in *)
(* the configuration and orders what it depends on (runner.Run, TopoOrder, *)
(* LevelOrder).  Nothing between the two tests the graph again, so that    *)
(* the search rests on what Validate has left of the Bakefile.  Other      *)
(* callers of the package hand it graphs that were never validated.        *)
(***************************************************************************)
EXTENDS Loading

CONSTANTS Root,      \* the requested target
          Given,     \* graphs that other callers hand over
          Texts      \* what a Bakefile may say

\* What Go's types say of a configuration: names are names, deps lists of them.
IsGraph(g) == /\ DOMAIN g \subseteq 1..MaxName
              /\ \A n \in DOMAIN g : g[n] \in Seq(Nat)

IsTargetOf(t)  == t.name \in 1..MaxName /\ Deps(t) \in Seq(Nat)

IsConfig(cfg) ==
    /\ {"targets", "suites", "profiles", "imports"} \subseteq DOMAIN cfg
    /\ cfg.imports \in Seq(Files)
    /\ cfg.targets \in Seq({t \in ToSet(cfg.targets) : IsTargetOf(t)})

ASSUME LoadedGraphAssumption == Root \in 1..MaxName /\ \A g \in Given : IsGraph(g)

Readable == {text \in Texts : Parse(text).ok}

\* What is formatted or fixed is a text again, and compiles to what the types say.
ASSUME TextsAssumption ==
    /\ <<>> \in Texts
    /\ {s.disk : s \in Scenarios} \subseteq [Files -> Texts]
    /\ {s.saves : s \in Scenarios} \subseteq [Files -> SUBSET Texts]
    /\ {Format(Parse(text).items) : text \in Readable} \subseteq Texts
    /\ {Format(ApplyFixes(Parse(text).items, rules)) :
           text \in Readable, rules \in {s.rules : s \in Scenarios}} \subseteq Texts
    /\ \A text \in Readable : IsConfig(Compile(Parse(text).items))

\* What becomes of a sturdy text says the same, is sturdy too, and stays as it is.
Kept(text, new) ==
    LET r == Parse(new)
    IN /\ r.ok /\ Sturdy(r.items)
       /\ MeaningOf(new) = MeaningOf(text)
       /\ Format(r.items) = new

ASSUME RewritingAssumption ==
    \A text \in {x \in Readable : Sturdy(Parse(x).items)} :
        /\ Kept(text, Format(Parse(text).items))
        /\ \A rules \in {s.rules : s \in Scenarios} :
              Kept(text, Format(ApplyFixes(Parse(text).items, rules)))

VARIABLES deps, visited, stack, next, order, failed, numbered, levelOf

graph == <<deps, visited, stack, next, order, failed, numbered, levelOf>>

Search == INSTANCE Dag WITH Names <- 1..MaxName

\* Dependencies by name, as TargetByName finds them.
GraphOf(cfg) == [n \in KnownNames(cfg) |-> Deps(TargetByName(cfg, n))]

InitLoaded == Init /\ Search!Init

\* runner.Run with the loaded configuration; an unknown target is refused.
Request(l) == /\ pc[l] = "done" /\ result[l].why = "ok"
              /\ Root \in KnownNames(result[l].cfg)
              /\ Search!Begin(GraphOf(result[l].cfg))
              /\ UNCHANGED vars

\* The same with a graph that nobody validated.
RequestGiven == /\ scenario.loaders = {} /\ Search!Idle
                /\ \E g \in Given : Search!Begin(g)
                /\ UNCHANGED vars

NextLoaded == \/ Next /\ UNCHANGED graph
              \/ \E l \in Loaders : Request(l)
              \/ RequestGiven
              \/ Search!Step /\ UNCHANGED vars

\* Weak fairness of Load(l), spelled out: l can go on until it is done, and going
\* on shows in these variables.
LoadGoesOn(l) == []<>(pc[l] = "done") \/ []<><<TRUE>>_<<pc[l], frames[l]>>

SpecLoaded == /\ InitLoaded /\ [][NextLoaded]_<<vars, graph>>
              /\ \A l \in Loaders : LoadGoesOn(l)
              /\ WF_<<vars, graph>>(Search!Step /\ UNCHANGED vars)

----------------------------------------------------------------------------
(* Properties.                                                             *)

\* TopoOrder's properties (Dag), of the graphs of Bakefiles and of given ones.
OrderIsClosure == Search!OrderIsClosure
Layered        == Search!Layered

\* On a cyclic graph too (Dag): "TopoOrder returns target names in dependency
\* order"; nothing refuses the cycle.
DepsFirst == Search!DepsFirst

\* What a load accepts can be ordered: "unknown dependency" is the error of the
\* load (config.Validate) and never that of a run, wherever in the imports the
\* targets were.
DepsResolve == scenario.loaders # {} => ~failed

\* Every load returns, whatever others do to the file meanwhile, and every
\* search ends, on cyclic graphs too.
LoadsEnd == /\ \A l \in Loaders : <>(pc[l] = "done")
            /\ ~Search!Idle ~> Search!Ended
=============================================================================
