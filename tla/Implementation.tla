--------------------------- MODULE Implementation ---------------------------
(***************************************************************************)
(* The one deterministic edit of the repository, its seal and its merge    *)
(* gate (apply_lifecycle_plan, seal_patch, verify_merge).  A tree is       *)
(* [policy, lists, recorded], like the base it starts from.                *)
(***************************************************************************)
EXTENDS Admission

\* A new branch copies the list of the newest branch before it, unless it has one.
HasAList(base, branch) ==
  LET older == {b \in base.policy.branches : b < branch} IN
  /\ older # {}
  /\ branch \in base.lists \/ \E b \in base.lists : b \in older /\ \A c \in older : c <= b

EditApplies(plan, base) ==
  LET branch == plan.key[2] IN
  /\ plan.action \in LifecycleActions /\ plan.edits /\ ValidPolicy(base.policy)
  /\ IF IsLifecycleResume(plan) THEN LifecycleOnBase(plan, base)
     ELSE IF plan.action = "new_branch"
     THEN branch \notin base.policy.branches /\ HasAList(base, branch)
     ELSE branch \in base.policy.branches

EditedBranches(plan, base) ==
  IF plan.action = "new_branch" THEN base.policy.branches \cup {plan.key[2]}
  ELSE base.policy.branches \ {plan.key[2]}

\* apply_lifecycle_plan: a module list is added once and never replaced.
ApplyLifecyclePlan(plan, base) ==
  IF IsLifecycleResume(plan) THEN base
  ELSE [policy |-> [branches |-> EditedBranches(plan, base), key |-> plan.key,
                    evidence |-> {item.digest : item \in plan.evidence}],
        lists |-> base.lists \cup (IF plan.action = "new_branch" THEN {plan.key[2]} ELSE {}),
        recorded |-> base.recorded]

ChangedPaths(base, tree) ==
  {ListPath(b) : b \in tree.lists \ base.lists} \cup
  (IF tree.policy = base.policy THEN {} ELSE {PolicyPath})

\* seal_patch: the one legal empty patch is an edit already on the base.
Seals(plan, base, tree) ==
  LET changed == ChangedPaths(base, tree) IN
  /\ IF changed = {} THEN IsLifecycleResume(plan) /\ LifecycleOnBase(plan, base)
     ELSE changed \subseteq plan.allowed
  /\ PolicyPath \in changed =>
       /\ ValidPolicy(tree.policy)
       /\ tree.policy.evidence = {item.digest : item \in plan.evidence}
       /\ tree.policy.key = plan.key

Manifest(plan, base, tree) ==
  [key |-> plan.key, files |-> ChangedPaths(base, tree), tree |-> tree,
   alreadyApplied |-> ChangedPaths(base, tree) = {}]

\* verify_merge: preconditions unchanged, and head the sealed commit itself:
\* one commit on the base with exactly the sealed files, or the base.
VerifyMerge(manifest, base, head, mainIsBase) ==
  /\ mainIsBase
  /\ IF manifest.alreadyApplied THEN manifest.files = {} /\ head = base
     ELSE manifest.files # {} /\ ChangedPaths(base, head) = manifest.files /\ head = manifest.tree
=============================================================================
