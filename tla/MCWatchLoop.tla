---------------------------- MODULE MCWatchLoop -----------------------------
(* WatchLoop on small instances, for TLC.                                  *)
EXTENDS WatchLoop

LOCAL INSTANCE FiniteSetsExt

OneBranch == {1}
TwoBranches == {1, 2}

\* Every edit but the first changes the recipe of every branch.
SharedRecipe == [e \in Edits |-> [b \in Branches |-> e]]

\* The first edit changes the module list of the oldest branch alone.
OwnModules ==
  [e \in Edits |-> [b \in Branches |-> IF b = 1 THEN e ELSE 0]]

\* Patches, edits, failures and reruns together: any three of the four meet.
Turns ==
  MapThenSumSet(LAMBDA b : feed[b], Branches) + main.edit + failures + reruns

MaxTurns == 3

AtMostMaxTurns == Turns <= MaxTurns
=============================================================================
