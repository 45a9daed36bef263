-------------------------- MODULE MCBranchLifecycle --------------------------
(* BranchLifecycle on small instances, for TLC.                            *)
EXTENDS BranchLifecycle

FullPage == <<Row(803, "stable"), Row(804, "stable"), Row(805, "stable")>>
OnePage == <<Row(804, "stable")>>
OldPatches == [b \in {803, 804, 805} |-> IF b = 805 THEN 1 ELSE 0]
FewPatches == [b \in {804, 805} |-> IF b = 804 THEN 1 ELSE 0]
Patches == [b \in {804, 805} |-> 1]
=============================================================================
