--------------------------- MODULE MCCookerParser ---------------------------
(***************************************************************************)
(* Recipes and processes for model checking CookerParser.                  *)
(***************************************************************************)
EXTENDS CookerParser

CONSTANTS r1, r2, r3, p1, p2

\* More than the two processes' queue holds.
ThreeRecipes == {r1, r2, r3}

\* Nothing, one of three and everything: recipes are alike.
ThreeCaches == {{}, {r1}, ThreeRecipes}

TwoProcesses == {p1, p2}
=============================================================================
