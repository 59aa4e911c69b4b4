---------------------------- MODULE MCBuildCache ----------------------------
(***************************************************************************)
(* One target, two contents of its inputs and three versions of its steps, *)
(* of which two differ only in what the signature leaves out.              *)
(***************************************************************************)
EXTENDS BuildCache, TLC

CONSTANTS a, b, s, t, u, bin, doc, cli, daemon

MCContents == {a, b}
MCSteps == {s, t, u}
MCSignature == [x \in MCSteps |-> IF x = u THEN "other argv" ELSE "argv"]
MCOutputs == {bin, doc}
TwoProcs == {cli, daemon}

\* Each behaviour goes between two sources: another content or other steps.
TwoSources == /\ Cardinality(past) <= 2
              /\ \A x, y \in past : x[1] = y[1] \/ x[2] = y[2]

\* The signature of s and t is the same.
Symmetry == Permutations(MCContents) \union Permutations({s, t}) \union Permutations(TwoProcs)
=============================================================================
