------------------------ MODULE MCReleaseTransaction ------------------------
(* ReleaseTransaction on small instances, for TLC.                         *)
EXTENDS ReleaseTransaction, TLC

CONSTANTS r1, r2, b1, b2

TwoRuns == {r1, r2}
OneBuild == {b1}
TwoBuilds == {b1, b2}

\* The last commit changes the recipe.
RecipeChanges == [c \in Commits |-> IF c = MaxHead THEN "changed" ELSE "first"]

Symmetry == Permutations(TwoRuns) \cup Permutations(TwoBuilds)
=============================================================================
